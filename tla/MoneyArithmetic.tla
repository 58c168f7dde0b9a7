--------------------------- MODULE MoneyArithmetic ---------------------------
(***************************************************************************)
(* Money at its width: minor units in a signed word whose overflow is      *)
(* silent, decimal text read byte by byte into an unsigned accumulator     *)
(* (parseMinor), Add, Sub and Neg with their overflow tests, and the       *)
(* canonical text (String).  An account takes amounts as they are read;    *)
(* exact integers beside it say what the machine words should hold.        *)
(* Currencies are one: a mismatch is refused before any arithmetic.        *)
(***************************************************************************)
EXTENDS Integers, Sequences

CONSTANTS
    MaxWord,    \* math.MaxInt64, at the width of the instance
    Digits      \* digits that occur in the text

ASSUME MoneyAssumption == MaxWord \in Nat /\ MaxWord >= 9 /\ Digits \subseteq 0 .. 9

\* Bytes: a digit is itself.
Minus == -1
Plus  == -2
Point == -3
Other == -4
Bytes == Digits \cup {Minus, Plus, Point, Other}

MinWord == -MaxWord - 1
Words   == MinWord .. MaxWord
Scale   == 2

\* int64: what does not fit wraps around.
Wrap(x) == IF x > MaxWord THEN x - 2 * (MaxWord + 1)
           ELSE IF x < MinWord THEN x + 2 * (MaxWord + 1) ELSE x

-----------------------------------------------------------------------------
(* Add, Sub and Neg: the overflow tests look at the wrapped result.         *)

\* Fault: only one direction is tested.
AddOverflowsUpwards(a, b) == b > 0 /\ Wrap(a + b) < a

AddOverflows(a, b) == (b > 0 /\ Wrap(a + b) < a) \/ (b < 0 /\ Wrap(a + b) > a)

SubOverflows(a, b) == (b < 0 /\ Wrap(a - b) < a) \/ (b > 0 /\ Wrap(a - b) > a)

NegOverflows(a) == a = MinWord

-----------------------------------------------------------------------------
(* parseMinor.                                                              *)

Fresh == [at |-> "start", neg |-> FALSE, acc |-> 0, int |-> FALSE, frac |-> 0]

Limit(st) == IF st.neg THEN MaxWord + 1 ELSE MaxWord

Fail(st, code) == [st EXCEPT !.at = code]

\* Fault: the digit itself is left out of the bound.
PushFitsNearly(acc, d, limit) == acc <= limit \div 10

\* pushDigit: checked before it is computed.
PushFits(acc, d, limit) == acc <= (limit - d) \div 10

PushDigit(st, d) ==
    IF PushFits(st.acc, d, Limit(st)) THEN [st EXCEPT !.acc = @ * 10 + d]
    ELSE Fail(st, "overflow")

ScanInteger(st, b) ==
    IF b = Point THEN IF st.int THEN [st EXCEPT !.at = "fraction"] ELSE Fail(st, "invalid")
    ELSE IF b \in 0 .. 9 THEN PushDigit([st EXCEPT !.at = "integer", !.int = TRUE], b)
    ELSE Fail(st, "invalid")

ScanFraction(st, b) ==
    IF b \notin 0 .. 9 \/ st.frac = Scale THEN Fail(st, "invalid")
    ELSE PushDigit([st EXCEPT !.frac = @ + 1], b)

Scan(st, b) ==
    IF st.at = "start" /\ b = Minus THEN [st EXCEPT !.at = "integer", !.neg = TRUE]
    ELSE IF st.at \in {"start", "integer"} THEN ScanInteger(st, b)
    ELSE IF st.at = "fraction" THEN ScanFraction(st, b)
    ELSE st

\* Padding to the fixed scale multiplies, and may overflow like the digits.
PadOnce(st) ==
    IF st.at \in {"integer", "fraction"} /\ st.frac < Scale
    THEN PushDigit([st EXCEPT !.frac = @ + 1], 0) ELSE st

\* The end of the text: no integer part, a trailing point, or padding and the sign.
Finish(st) ==
    IF st.at \in {"invalid", "overflow"} THEN st
    ELSE IF ~st.int \/ (st.at = "fraction" /\ st.frac = 0) THEN Fail(st, "invalid")
    ELSE LET padded == PadOnce(PadOnce(st))
         IN  IF padded.at = "overflow" THEN padded ELSE [padded EXCEPT !.at = "parsed"]

\* The word a parsed text stands for.
Minor(st) ==
    IF ~st.neg THEN Wrap(st.acc)
    ELSE IF st.acc = MaxWord + 1 THEN MinWord ELSE -Wrap(st.acc)

Parse(text) ==
    LET after[i \in 0 .. Len(text)] ==
            IF i = 0 THEN Fresh ELSE Scan(after[i - 1], text[i])
    IN  Finish(after[Len(text)])

-----------------------------------------------------------------------------
(* Money.String.                                                            *)

Decimal[n \in 0 .. MaxWord + 1] ==
    IF n < 10 THEN <<n>> ELSE Append(Decimal[n \div 10], n % 10)

\* Fault: a fraction below ten loses its zero.
FractionTextBare(n) == Decimal[n]

\* Two places, always.
FractionText(n) == IF n < 10 THEN <<0, n>> ELSE Decimal[n]

Text(m) ==
    LET magnitude == IF m < 0 THEN -(m + 1) + 1 ELSE m
    IN  (IF m < 0 THEN <<Minus>> ELSE << >>) \o Decimal[magnitude \div 100]
            \o <<Point>> \o FractionText(magnitude % 100)

-----------------------------------------------------------------------------
VARIABLES
    scan,       \* parseMinor at work
    read,       \* the integer the digits read so far spell
    account,    \* an amount, in a word
    total       \* what it should be, in an integer

moneyVars == <<scan, read, account, total>>

ReadByte(b) ==
    /\ scan.at \in {"start", "integer", "fraction"}
    /\ scan' = Scan(scan, b)
    /\ read' = IF scan'.at \in {"integer", "fraction", "overflow"} /\ b \in 0 .. 9
               THEN read * 10 + b ELSE read
    /\ UNCHANGED <<account, total>>

EndText ==
    /\ scan.at \in {"start", "integer", "fraction"}
    /\ scan' = Finish(scan)
    /\ read' = IF scan'.at \in {"parsed", "overflow"}
               THEN read * (IF scan.frac = 0 THEN 100 ELSE IF scan.frac = 1 THEN 10 ELSE 1)
               ELSE read
    /\ UNCHANGED <<account, total>>

Signed == IF scan.neg THEN -read ELSE read

Discard == scan' = Fresh /\ read' = 0

\* The amount read is added to the account, or taken from it, or refused.
AddAmount ==
    /\ scan.at = "parsed"
    /\ IF AddOverflows(account, Minor(scan)) THEN UNCHANGED <<account, total>>
       ELSE account' = Wrap(account + Minor(scan)) /\ total' = total + Signed
    /\ Discard

SubAmount ==
    /\ scan.at = "parsed"
    /\ IF SubOverflows(account, Minor(scan)) THEN UNCHANGED <<account, total>>
       ELSE account' = Wrap(account - Minor(scan)) /\ total' = total - Signed
    /\ Discard

Negate ==
    /\ scan.at = "start"
    /\ ~NegOverflows(account)
    /\ account' = -account /\ total' = -total
    /\ UNCHANGED <<scan, read>>

\* A text that is refused is answered with its error.
Refuse == scan.at \in {"invalid", "overflow"} /\ Discard /\ UNCHANGED <<account, total>>

MoneyInit == scan = Fresh /\ read = 0 /\ account = 0 /\ total = 0

MoneyNext ==
    \/ \E b \in Bytes : ReadByte(b)
    \/ EndText \/ AddAmount \/ SubAmount \/ Negate \/ Refuse

MoneySpec == MoneyInit /\ [][MoneyNext]_moneyVars

-----------------------------------------------------------------------------
\* A text is accepted as exactly the amount it spells, to the last minor unit of
\* either sign, and refused as too large only if what it spells does not fit
\* (pushDigit and the conversions of parseMinor never wrap).
ParsedIsExact ==
    /\ scan.at = "parsed" => Minor(scan) = Signed /\ Minor(scan) \in Words
    /\ scan.at = "overflow" => Signed \notin Words

\* No sequence of additions, subtractions and negations makes an account differ from
\* the exact sum of what it accepted; and the tests on the wrapped result refuse
\* nothing that fits.
AccountIsExact ==
    /\ account = total /\ account \in Words
    /\ scan.at = "parsed" =>
          /\ AddOverflows(account, Minor(scan)) <=> account + Minor(scan) \notin Words
          /\ SubOverflows(account, Minor(scan)) <=> account - Minor(scan) \notin Words

\* The canonical text of an amount reads back as that amount, whatever spelling it
\* came from: String is what the idempotency hash and the stored payload see.
TextReadsBack ==
    scan.at = "parsed" =>
        LET again == Parse(Text(Minor(scan)))
        IN  again.at = "parsed" /\ Minor(again) = Minor(scan)
=============================================================================
