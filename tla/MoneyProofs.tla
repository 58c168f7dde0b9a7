---------------------------- MODULE MoneyProofs ----------------------------
(***************************************************************************)
(* Money is exact at every width: proofs about MoneyArithmetic for every   *)
(* MaxWord.  The invariant ties the accumulator of parseMinor to the       *)
(* integer the text spells for as long as it is read, and the account to   *)
(* the exact total; what the overflow tests decide on wrapped words is a   *)
(* lemma of its own for each of them.  That the canonical text reads back  *)
(* is by induction on the digits: a text is read by one sequence of scans. *)
(***************************************************************************)
EXTENDS MoneyArithmetic, SumProofs

-----------------------------------------------------------------------------
(* The overflow tests.                                                      *)

\* A sum or difference of two words, when it fits, is the word it wraps to.
LEMMA WrapFits ==
    ASSUME NEW x \in Words
    PROVE  Wrap(x) = x
BY MoneyAssumption DEF Wrap, Words, MinWord

\* Money.Add reports an overflow exactly when the sum does not fit.
LEMMA AddOverflowsExact ==
    ASSUME NEW a \in Words, NEW b \in Words
    PROVE  AddOverflows(a, b) <=> a + b \notin Words
BY MoneyAssumption DEF AddOverflows, Wrap, Words, MinWord

\* Money.Sub reports an overflow exactly when the difference does not fit.
LEMMA SubOverflowsExact ==
    ASSUME NEW a \in Words, NEW b \in Words
    PROVE  SubOverflows(a, b) <=> a - b \notin Words
BY MoneyAssumption DEF SubOverflows, Wrap, Words, MinWord

\* pushDigit's bound, taken before anything is multiplied, is the bound on the result.
LEMMA PushFitsExact ==
    ASSUME NEW acc \in Nat, NEW d \in 0 .. 9, NEW limit \in Nat, limit >= 9
    PROVE  PushFits(acc, d, limit) <=> acc * 10 + d <= limit
<1>1. limit - d \in Nat
  OBVIOUS
<1>2. \A n \in Nat : acc <= n \div 10 <=> acc * 10 <= n
  OBVIOUS
<1> QED
  BY <1>1, <1>2 DEF PushFits

-----------------------------------------------------------------------------
(* parseMinor.                                                              *)

\* parseMinor has not decided yet.
Reading == {"start", "integer", "fraction"}

\* The locals of parseMinor.
ScanState ==
    [at : Reading \cup {"parsed", "invalid", "overflow"}, neg : BOOLEAN, acc : Nat,
     int : BOOLEAN, frac : 0 .. Scale]

\* The accumulator is what the text spells, n, until that does not fit.
Agrees(st, n) ==
    /\ st.at \in Reading \cup {"parsed"} => n = st.acc /\ n <= Limit(st)
    /\ st.at = "overflow" => n > Limit(st)
    /\ st.at = "start" => ~st.int

\* One more digit: the accumulator follows the text, or what it spells does not fit.
LEMMA PushDigitAgrees ==
    ASSUME NEW st \in ScanState, NEW d \in 0 .. 9,
           st.at \in {"integer", "fraction"}, st.acc <= Limit(st)
    PROVE  /\ PushDigit(st, d) \in ScanState
           /\ PushDigit(st, d).at \in {st.at, "overflow"}
           /\ PushDigit(st, d).neg = st.neg
           /\ PushDigit(st, d).frac = st.frac
           /\ Agrees(PushDigit(st, d), st.acc * 10 + d)
<1>1. Limit(st) \in Nat /\ Limit(st) >= 9
  BY MoneyAssumption DEF Limit, ScanState
<1>2. st.acc \in Nat /\ st.acc * 10 + d \in Nat
  BY DEF ScanState
<1>3. CASE PushFits(st.acc, d, Limit(st))
  <2>1. st.acc * 10 + d <= Limit(st)
    BY <1>1, <1>2, <1>3, PushFitsExact
  <2>2. PushDigit(st, d) = [st EXCEPT !.acc = @ * 10 + d]
    BY <1>3 DEF PushDigit
  <2> QED
    BY <1>2, <2>1, <2>2 DEF ScanState, Agrees, Limit, Reading
<1>4. CASE ~PushFits(st.acc, d, Limit(st))
  <2>1. st.acc * 10 + d > Limit(st)
    BY <1>1, <1>2, <1>4, PushFitsExact
  <2>2. PushDigit(st, d) = [st EXCEPT !.at = "overflow"]
    BY <1>4 DEF PushDigit, Fail
  <2> QED
    BY <1>2, <2>1, <2>2 DEF ScanState, Agrees, Limit, Reading
<1> QED
  BY <1>3, <1>4

\* ReadByte: the text and the accumulator stay together over any byte.
LEMMA ScanAgrees ==
    ASSUME NEW st \in ScanState, NEW n \in Nat, NEW b \in Bytes,
           st.at \in Reading, Agrees(st, n)
    PROVE  /\ Scan(st, b) \in ScanState
           /\ Agrees(Scan(st, b),
                     IF Scan(st, b).at \in {"integer", "fraction", "overflow"} /\ b \in 0 .. 9
                     THEN n * 10 + b ELSE n)
<1>0. n = st.acc /\ n <= Limit(st)
  BY DEF Agrees
<1>1. CASE st.at = "start" /\ b = Minus
  <2>1. Scan(st, b) = [st EXCEPT !.at = "integer", !.neg = TRUE]
    BY <1>1 DEF Scan
  <2>2. b \notin 0 .. 9
    BY <1>1 DEF Minus
  <2>3. n <= MaxWord + 1
    BY MoneyAssumption, <1>0 DEF Limit
  <2>4. /\ Scan(st, b) \in ScanState
        /\ Scan(st, b).at = "integer" /\ Scan(st, b).neg = TRUE /\ Scan(st, b).acc = n
    BY <1>0, <2>1 DEF ScanState, Reading
  <2>5. Agrees(Scan(st, b), n)
    BY <2>3, <2>4 DEF Agrees, Limit
  <2> QED
    BY <2>2, <2>4, <2>5
<1>2. CASE st.at \in {"start", "integer"} /\ ~(st.at = "start" /\ b = Minus)
  <2>1. Scan(st, b) = ScanInteger(st, b)
    BY <1>2 DEF Scan
  <2>2. CASE b = Point
    <3>1. Scan(st, b) \in {[st EXCEPT !.at = "fraction"], [st EXCEPT !.at = "invalid"]}
      BY <2>1, <2>2 DEF ScanInteger, Fail
    <3>2. b \notin 0 .. 9
      BY <2>2 DEF Point
    <3> QED
      BY <1>0, <3>1, <3>2 DEF ScanState, Reading, Agrees, Limit
  <2>3. CASE b # Point /\ b \in 0 .. 9
    <3> DEFINE t == [st EXCEPT !.at = "integer", !.int = TRUE]
    <3>1. Scan(st, b) = PushDigit(t, b)
      BY <2>1, <2>3 DEF ScanInteger
    <3>2. /\ t \in ScanState /\ t.at = "integer"
          /\ t.acc = n /\ t.acc <= Limit(t)
      BY <1>0 DEF ScanState, Reading, Limit
    <3> HIDE DEF t
    <3>3. /\ PushDigit(t, b) \in ScanState
          /\ PushDigit(t, b).at \in {"integer", "overflow"}
          /\ Agrees(PushDigit(t, b), n * 10 + b)
      BY <2>3, <3>2, PushDigitAgrees
    <3> QED
      BY <2>3, <3>1, <3>3
  <2>4. CASE b # Point /\ b \notin 0 .. 9
    <3>1. Scan(st, b) = [st EXCEPT !.at = "invalid"]
      BY <2>1, <2>4 DEF ScanInteger, Fail
    <3> QED
      BY <2>4, <3>1 DEF ScanState, Reading, Agrees, Limit
  <2> QED
    BY <2>2, <2>3, <2>4
<1>3. CASE st.at = "fraction"
  <2>1. Scan(st, b) = ScanFraction(st, b)
    BY <1>3 DEF Scan
  <2>2. CASE b \notin 0 .. 9 \/ st.frac = Scale
    <3>1. Scan(st, b) = [st EXCEPT !.at = "invalid"]
      BY <2>1, <2>2 DEF ScanFraction, Fail
    <3> QED
      BY <3>1 DEF ScanState, Reading, Agrees, Limit
  <2>3. CASE b \in 0 .. 9 /\ st.frac # Scale
    <3> DEFINE t == [st EXCEPT !.frac = @ + 1]
    <3>1. Scan(st, b) = PushDigit(t, b)
      BY <2>1, <2>3 DEF ScanFraction
    <3>2. /\ t \in ScanState /\ t.at = "fraction"
          /\ t.acc = n /\ t.acc <= Limit(t)
      BY <1>0, <1>3, <2>3 DEF ScanState, Reading, Limit, Scale
    <3> HIDE DEF t
    <3>3. /\ PushDigit(t, b) \in ScanState
          /\ PushDigit(t, b).at \in {"fraction", "overflow"}
          /\ Agrees(PushDigit(t, b), n * 10 + b)
      BY <2>3, <3>2, PushDigitAgrees
    <3> QED
      BY <2>3, <3>1, <3>3
  <2> QED
    BY <2>2, <2>3
<1> QED
  BY <1>1, <1>2, <1>3 DEF Reading

\* Padding is one more zero, counted in frac; once it has failed it stays failed.
LEMMA PadOnceAgrees ==
    ASSUME NEW st \in ScanState, st.at \in {"integer", "fraction"},
           st.frac < Scale, st.acc <= Limit(st)
    PROVE  /\ PadOnce(st) \in ScanState
           /\ PadOnce(st).at \in {st.at, "overflow"}
           /\ PadOnce(st).neg = st.neg
           /\ PadOnce(st).frac = st.frac + 1
           /\ Agrees(PadOnce(st), st.acc * 10)
<1> DEFINE t == [st EXCEPT !.frac = @ + 1]
<1>1. PadOnce(st) = PushDigit(t, 0)
  BY DEF PadOnce
<1>2. /\ t \in ScanState /\ t.at = st.at /\ t.neg = st.neg
      /\ t.acc = st.acc /\ t.acc <= Limit(t) /\ t.frac = st.frac + 1
      /\ st.acc * 10 + 0 = st.acc * 10
  BY DEF ScanState, Reading, Limit, Scale
<1> HIDE DEF t
<1>3. /\ PushDigit(t, 0) \in ScanState
      /\ PushDigit(t, 0).at \in {t.at, "overflow"}
      /\ PushDigit(t, 0).neg = t.neg
      /\ PushDigit(t, 0).frac = t.frac
      /\ Agrees(PushDigit(t, 0), t.acc * 10 + 0)
  BY <1>2, PushDigitAgrees
<1> QED
  BY <1>1, <1>2, <1>3

\* What the zeros of the padding are worth.
Padding(frac) == IF frac = 0 THEN 100 ELSE IF frac = 1 THEN 10 ELSE 1

\* EndText: what is padded is what the text spells in minor units.
LEMMA FinishAgrees ==
    ASSUME NEW st \in ScanState, NEW n \in Nat, st.at \in Reading, Agrees(st, n)
    PROVE  /\ Finish(st) \in ScanState
           /\ Finish(st).at \in {"parsed", "overflow", "invalid"}
           /\ Finish(st).at \in {"parsed", "overflow"}
                 => Agrees(Finish(st), n * Padding(st.frac))
<1>0. n = st.acc /\ n <= Limit(st) /\ Limit(st) \in Nat
  BY MoneyAssumption DEF Agrees, Limit
<1>1. CASE ~st.int \/ (st.at = "fraction" /\ st.frac = 0) \/ st.at = "start"
  <2>1. Finish(st) = [st EXCEPT !.at = "invalid"]
    BY <1>1 DEF Finish, Fail, Reading, Agrees
  <2> QED
    BY <2>1 DEF ScanState
<1>2. CASE st.int /\ ~(st.at = "fraction" /\ st.frac = 0) /\ st.at # "start"
  <2> DEFINE p == PadOnce(st)
             q == PadOnce(p)
  <2>1. Finish(st) = IF q.at = "overflow" THEN q ELSE [q EXCEPT !.at = "parsed"]
    BY <1>2 DEF Finish, Reading
  <2>2. /\ q \in ScanState /\ q.at \in {"integer", "fraction", "overflow"}
        /\ Agrees(q, n * Padding(st.frac))
    <3>1. st.at \in {"integer", "fraction"} /\ st.frac \in 0 .. 2 /\ st.acc <= Limit(st)
      BY <1>0, <1>2 DEF ScanState, Reading, Scale
    <3>2. CASE st.frac = 2
      <4>1. p = st /\ q = st
        BY <3>2 DEF PadOnce, Scale
      <4>2. n * Padding(st.frac) = n
        BY <3>2 DEF Padding
      <4> QED
        BY <3>1, <4>1, <4>2
    <3>3. CASE st.frac < 2
      <4>1. /\ p \in ScanState /\ p.at \in {st.at, "overflow"} /\ p.neg = st.neg
            /\ p.frac = st.frac + 1 /\ Agrees(p, n * 10)
        BY <1>0, <3>1, <3>3, PadOnceAgrees DEF Scale
      <4> HIDE DEF p
      <4>2. CASE p.at = "overflow"
        <5>1. q = p
          BY <4>2 DEF PadOnce
        <5>2. n * 10 > Limit(p) /\ Limit(p) \in Nat
          BY <4>1, <4>2, MoneyAssumption DEF Agrees, Limit
        <5>3. n * Padding(st.frac) > Limit(p)
          BY <3>1, <3>3, <5>2 DEF Padding
        <5> QED
          BY <4>1, <4>2, <5>1, <5>3 DEF Agrees, Reading
      <4>3. CASE p.at # "overflow" /\ st.frac = 1
        <5>1. q = p
          BY <4>1, <4>3 DEF PadOnce, Scale
        <5>2. n * Padding(st.frac) = n * 10
          BY <4>3 DEF Padding
        <5> QED
          BY <3>1, <4>1, <5>1, <5>2
      <4>4. CASE p.at # "overflow" /\ st.frac = 0
        <5>1. p.at \in {"integer", "fraction"} /\ p.acc = n * 10 /\ p.acc <= Limit(p)
          BY <3>1, <4>1, <4>4 DEF Agrees, Reading
        <5>2. p.frac < Scale /\ n * Padding(st.frac) = (n * 10) * 10
          BY <4>1, <4>4 DEF Padding, Scale
        <5>3. /\ q \in ScanState /\ q.at \in {p.at, "overflow"}
              /\ Agrees(q, p.acc * 10)
          BY <4>1, <5>1, <5>2, PadOnceAgrees
        <5> QED
          BY <5>1, <5>2, <5>3
      <4> QED
        BY <3>1, <3>3, <4>2, <4>3, <4>4
    <3> QED
      BY <3>1, <3>2, <3>3
  <2> HIDE DEF q
  <2>3. CASE q.at = "overflow"
    BY <2>1, <2>2, <2>3
  <2>4. CASE q.at # "overflow"
    <3> DEFINE f == [q EXCEPT !.at = "parsed"]
    <3>1. /\ f \in ScanState /\ f.at = "parsed" /\ f.acc = q.acc /\ Limit(f) = Limit(q)
      BY <2>2 DEF ScanState, Reading, Limit
    <3>2. n * Padding(st.frac) = q.acc /\ q.acc <= Limit(q)
      BY <2>2, <2>4 DEF Agrees, Reading
    <3>3. Agrees(f, n * Padding(st.frac))
      BY <3>1, <3>2 DEF Agrees
    <3> QED
      BY <2>1, <2>4, <3>1, <3>3
  <2> QED
    BY <2>3, <2>4
<1> QED
  BY <1>1, <1>2

-----------------------------------------------------------------------------
(* The invariant.                                                           *)

\* The word of a parsed text is the amount it spells, down to the last negative.
LEMMA MinorExact ==
    ASSUME NEW st \in ScanState, st.acc <= Limit(st)
    PROVE  /\ Minor(st) = (IF st.neg THEN -st.acc ELSE st.acc)
           /\ Minor(st) \in Words
BY MoneyAssumption DEF ScanState, Limit, Minor, Wrap, Words, MinWord

\* The accumulator is what the text spells, the account the exact total.
MoneyInv ==
    /\ scan \in ScanState /\ read \in Nat /\ Agrees(scan, read)
    /\ account \in Words /\ account = total

\* Nothing read and nothing in the account: the words and the integers agree.
LEMMA MoneyInvInit == MoneyInit => MoneyInv
BY MoneyAssumption
   DEF MoneyInit, MoneyInv, Fresh, ScanState, Reading, Scale, Agrees, Limit, Words, MinWord

\* parseMinor starts with the accumulator at zero.
LEMMA FreshAgrees == Fresh \in ScanState /\ Agrees(Fresh, 0)
BY MoneyAssumption DEF Fresh, ScanState, Reading, Scale, Agrees, Limit

\* Every byte, every end of a text and every operation on the account keeps them so.
LEMMA MoneyInvStep == MoneyInv /\ [MoneyNext]_moneyVars => MoneyInv'
<1> SUFFICES ASSUME MoneyInv, [MoneyNext]_moneyVars
             PROVE  MoneyInv'
  OBVIOUS
<1>0. /\ scan \in ScanState /\ read \in Nat /\ Agrees(scan, read)
      /\ account \in Words /\ account \in Int /\ account = total
  BY MoneyAssumption DEF MoneyInv, Words, MinWord
<1>1. ASSUME NEW b \in Bytes, ReadByte(b)
      PROVE  MoneyInv'
  <2>1. scan' \in ScanState /\ Agrees(scan', read')
    BY <1>0, <1>1, ScanAgrees DEF ReadByte, Reading
  <2>2. read' \in Nat
    BY <1>0, <1>1 DEF ReadByte
  <2> QED
    BY <1>0, <1>1, <2>1, <2>2 DEF MoneyInv, ReadByte, Agrees, Limit
<1>2. CASE EndText
  <2>1. /\ scan' \in ScanState
        /\ scan'.at \in {"parsed", "overflow", "invalid"}
        /\ scan'.at \in {"parsed", "overflow"} => Agrees(scan', read * Padding(scan.frac))
    BY <1>0, <1>2, FinishAgrees DEF EndText, Reading
  <2>2. read' = IF scan'.at \in {"parsed", "overflow"} THEN read * Padding(scan.frac) ELSE read
    BY <1>2 DEF EndText, Padding
  <2>3. read' \in Nat
    BY <1>0, <2>2 DEF Padding
  <2>4. Agrees(scan', read')
    BY <2>1, <2>2 DEF Agrees, Reading
  <2> QED
    BY <1>0, <1>2, <2>1, <2>3, <2>4 DEF MoneyInv, EndText, Agrees, Limit
<1>3. ASSUME scan.at = "parsed"
      PROVE  Minor(scan) = Signed /\ Minor(scan) \in Words /\ Minor(scan) \in Int
  BY <1>0, <1>3, MinorExact DEF Agrees, Reading, Signed, Words, MinWord
<1>4. ASSUME Discard
      PROVE  scan' \in ScanState /\ read' \in Nat /\ Agrees(scan', read')
  BY <1>4, FreshAgrees DEF Discard
<1>5. CASE AddAmount
  <2>1. account' \in Words /\ account' = total'
    BY <1>0, <1>3, <1>5, AddOverflowsExact, WrapFits DEF AddAmount
  <2> QED
    BY <1>4, <1>5, <2>1 DEF AddAmount, MoneyInv, Agrees, Limit
<1>6. CASE SubAmount
  <2>1. account' \in Words /\ account' = total'
    BY <1>0, <1>3, <1>6, SubOverflowsExact, WrapFits DEF SubAmount
  <2> QED
    BY <1>4, <1>6, <2>1 DEF SubAmount, MoneyInv, Agrees, Limit
<1>7. CASE Negate
  <2>1. account' \in Words /\ account' = total'
    BY <1>0, <1>7, MoneyAssumption DEF Negate, NegOverflows, Words, MinWord
  <2> QED
    BY <1>0, <1>7, <2>1 DEF Negate, MoneyInv, Agrees, Limit
<1>8. CASE Refuse
  BY <1>0, <1>4, <1>8 DEF Refuse, MoneyInv, Agrees, Limit
<1>9. CASE UNCHANGED moneyVars
  BY <1>0, <1>9 DEF moneyVars, MoneyInv, Agrees, Limit
<1> QED
  BY <1>1, <1>2, <1>5, <1>6, <1>7, <1>8, <1>9 DEF MoneyNext

\* Words and integers agree in every reachable state.
LEMMA MoneyInvariant == MoneySpec => []MoneyInv
BY MoneyInvInit, MoneyInvStep, PTL DEF MoneySpec

-----------------------------------------------------------------------------
\* No sequence of additions, subtractions and negations of accepted amounts makes
\* Money differ from the exact sum, and the overflow tests, made on the wrapped
\* result, refuse nothing that fits, at any width (Money.Add, Sub and Neg).
THEOREM AccountsAreExact == MoneySpec => []AccountIsExact
<1>1. MoneyInv => AccountIsExact
  BY MinorExact, AddOverflowsExact, SubOverflowsExact
     DEF MoneyInv, Agrees, Reading, AccountIsExact
<1> QED
  BY <1>1, MoneyInvariant, PTL

\* parseMinor accepts a text as exactly the amount it spells and refuses as too large
\* exactly what does not fit, at any width, the last negative amount included.
THEOREM ParsingIsExact == MoneySpec => []ParsedIsExact
<1>1. MoneyInv => ParsedIsExact
  <2> SUFFICES ASSUME MoneyInv
               PROVE  ParsedIsExact
    OBVIOUS
  <2>1. ASSUME scan.at = "parsed"
        PROVE  Minor(scan) = Signed /\ Minor(scan) \in Words
    BY <2>1, MinorExact DEF MoneyInv, Agrees, Reading, Signed
  <2>2. ASSUME scan.at = "overflow"
        PROVE  Signed \notin Words
    <3>1. read \in Nat /\ read > Limit(scan) /\ scan.neg \in BOOLEAN
      BY <2>2 DEF MoneyInv, Agrees, ScanState
    <3> QED
      BY <3>1, MoneyAssumption DEF Limit, Signed, Words, MinWord
  <2> QED
    BY <2>1, <2>2 DEF ParsedIsExact
<1> QED
  BY <1>1, MoneyInvariant, PTL

-----------------------------------------------------------------------------
(* The canonical text, read back.                                           *)

\* The digits of a number, as String writes them, for all numbers up to n.
IsDecimal(f, n) ==
    f = [k \in 0 .. n |-> IF k < 10 THEN <<k>> ELSE Append(f[k \div 10], k % 10)]

\* From the digits of the smaller numbers to those of one more.
LEMMA OneMoreDecimal ==
    ASSUME NEW n \in Nat, n # 0, NEW f, IsDecimal(f, n - 1)
    PROVE  \E g : IsDecimal(g, n)
<1> DEFINE g == [k \in 0 .. n |-> IF k < 10 THEN <<k>> ELSE Append(f[k \div 10], k % 10)]
<1>1. \A k \in 0 .. n : k >= 10 => k \div 10 \in 0 .. n - 1
  OBVIOUS
<1>2. \A k \in 0 .. n - 1 : k \in 0 .. n
  OBVIOUS
<1>3. ASSUME NEW k \in 0 .. n - 1 PROVE g[k] = f[k]
  <2>1. g[k] = IF k < 10 THEN <<k>> ELSE Append(f[k \div 10], k % 10)
    BY <1>2
  <2>2. f[k] = IF k < 10 THEN <<k>> ELSE Append(f[k \div 10], k % 10)
    BY DEF IsDecimal
  <2> QED BY <2>1, <2>2
<1>4. \A k \in 0 .. n :
         (IF k < 10 THEN <<k>> ELSE Append(f[k \div 10], k % 10))
            = (IF k < 10 THEN <<k>> ELSE Append(g[k \div 10], k % 10))
  <2> SUFFICES ASSUME NEW k \in 0 .. n, ~(k < 10) PROVE f[k \div 10] = g[k \div 10]
    BY Zenon
  <2>1. k \div 10 \in 0 .. n - 1
    BY <1>1
  <2> QED BY <1>3, <2>1
<1>5. g = [k \in 0 .. n |-> IF k < 10 THEN <<k>> ELSE Append(g[k \div 10], k % 10)]
  BY <1>4, Zenon
<1>6. IsDecimal(g, n)
  BY <1>5 DEF IsDecimal
<1> QED BY <1>6

\* Every number has its digits.
LEMMA DecimalsExist == ASSUME NEW n \in Nat PROVE \E f : IsDecimal(f, n)
<1> DEFINE Bad == {k \in Nat : ~\E f : IsDecimal(f, k)}
<1>1. SUFFICES ASSUME Bad # {} PROVE FALSE
  OBVIOUS
<1>2. PICK k \in Bad : \A j \in Bad : k <= j
  BY <1>1, LeastElement
<1>3. CASE k = 0
  <2>1. PICK f : f = [j \in 0 .. 0 |-> <<j>>]
    OBVIOUS
  <2>2. f = [j \in 0 .. 0 |-> IF j < 10 THEN <<j>> ELSE Append(f[j \div 10], j % 10)]
    BY <2>1
  <2>3. IsDecimal(f, 0)
    BY <2>2 DEF IsDecimal
  <2> QED BY <1>2, <1>3, <2>3
<1>4. CASE k # 0
  <2>1. k - 1 \in Nat /\ k - 1 \notin Bad
    BY <1>2, <1>4
  <2>2. PICK f : IsDecimal(f, k - 1)
    BY <2>1
  <2>3. \E g : IsDecimal(g, k)
    BY <1>2, <1>4, <2>2, OneMoreDecimal
  <2> QED BY <1>2, <2>3
<1> QED BY <1>3, <1>4

\* strconv's digits: the last is the remainder, the others those of the quotient.
LEMMA DecimalDigits ==
    ASSUME NEW n \in 0 .. MaxWord + 1
    PROVE  Decimal[n] = IF n < 10 THEN <<n>> ELSE Append(Decimal[n \div 10], n % 10)
<1>1. PICK m \in Nat : m = MaxWord + 1
  BY MoneyAssumption
<1>2. \E f : IsDecimal(f, m)
  BY DecimalsExist
<1>3. Decimal = CHOOSE f : IsDecimal(f, m)
  BY <1>1 DEF Decimal, IsDecimal
<1>4. IsDecimal(Decimal, m)
  BY <1>2, <1>3, Zenon
<1> QED BY <1>1, <1>4, Zenon DEF IsDecimal

\* A reading of the text s that begins with st and ends with st2.
IsReading(g, st, s, st2) ==
    /\ g = [i \in 0 .. Len(s) |-> IF i = 0 THEN st ELSE Scan(g[i - 1], s[i])]
    /\ g[Len(s)] = st2

Leads(st, s, st2) == \E g : IsReading(g, st, s, st2)

\* One byte.
LEMMA ByteLeads == ASSUME NEW st, NEW b PROVE Leads(st, <<b>>, Scan(st, b))
<1>1. PICK s : s = <<b>>
  OBVIOUS
<1>2. Len(s) = 1 /\ s[1] = b
  BY <1>1
<1>3. PICK g : g = [i \in 0 .. 1 |-> IF i = 0 THEN st ELSE Scan(st, b)]
  OBVIOUS
<1>4. g[0] = st /\ g[1] = Scan(st, b)
  BY <1>3
<1>5. \A i \in 0 .. 1 : g[i] = IF i = 0 THEN st ELSE Scan(g[i - 1], s[i])
  <2>1. \A i \in 0 .. 1 : i = 0 \/ i = 1
    OBVIOUS
  <2>2. g[1] = Scan(g[1 - 1], s[1])
    BY <1>2, <1>4
  <2> QED BY <1>4, <2>1, <2>2
<1>6. g = [i \in 0 .. 1 |-> IF i = 0 THEN st ELSE Scan(g[i - 1], s[i])]
  BY <1>3, <1>5
<1> QED BY <1>1, <1>2, <1>4, <1>6 DEF Leads, IsReading

\* One text after the other.
LEMMA LeadsOn ==
    ASSUME NEW S, NEW s \in Seq(S), NEW t \in Seq(S), NEW st, NEW mid, NEW st2,
           Leads(st, s, mid), Leads(mid, t, st2)
    PROVE  Leads(st, s \o t, st2)
<1>1. PICK n \in Nat, k \in Nat : n = Len(s) /\ k = Len(t)
  OBVIOUS
<1>2. PICK g : g = [i \in 0 .. n |-> IF i = 0 THEN st ELSE Scan(g[i - 1], s[i])] /\ g[n] = mid
  BY <1>1 DEF Leads, IsReading
<1>3. PICK h : h = [i \in 0 .. k |-> IF i = 0 THEN mid ELSE Scan(h[i - 1], t[i])] /\ h[k] = st2
  BY <1>1 DEF Leads, IsReading
<1>4. PICK u : u = s \o t
  OBVIOUS
<1>5. /\ Len(u) = n + k /\ \A i \in 1 .. n : u[i] = s[i]
      /\ \A i \in 1 .. n + k : i > n => u[i] = t[i - n]
  BY <1>1, <1>4
<1>6. PICK f : f = [i \in 0 .. n + k |-> IF i <= n THEN g[i] ELSE h[i - n]]
  OBVIOUS
<1>7. ASSUME NEW i \in 0 .. n + k PROVE f[i] = IF i = 0 THEN st ELSE Scan(f[i - 1], u[i])
  <2>1. CASE i = 0
    <3>1. f[0] = g[0] /\ g[0] = st
      BY <1>2, <1>6
    <3> QED BY <2>1, <3>1
  <2>2. CASE i # 0 /\ i <= n
    <3>1. i \in 0 .. n /\ i - 1 \in 0 .. n + k /\ i - 1 <= n /\ i \in 1 .. n
      BY <2>2
    <3>2. f[i] = g[i] /\ f[i - 1] = g[i - 1] /\ u[i] = s[i]
      BY <1>5, <1>6, <2>2, <3>1
    <3>3. g[i] = Scan(g[i - 1], s[i])
      BY <1>2, <2>2, <3>1
    <3> QED BY <2>2, <3>2, <3>3
  <2>3. CASE i > n
    <3>1. i - n \in 0 .. k /\ i - n # 0 /\ i \in 1 .. n + k /\ i - 1 \in 0 .. n + k /\ i # 0
          /\ (i - n) - 1 = (i - 1) - n
      BY <2>3
    <3>2. f[i] = h[i - n] /\ u[i] = t[i - n]
      BY <1>5, <1>6, <2>3, <3>1
    <3>3. h[i - n] = Scan(h[(i - n) - 1], t[i - n])
      BY <1>3, <3>1
    <3>4. f[i - 1] = h[(i - n) - 1]
      <4>1. CASE i = n + 1
        <5>1. f[i - 1] = g[n] /\ (i - n) - 1 = 0
          BY <1>6, <3>1, <4>1
        <5>2. h[0] = mid
          BY <1>3
        <5> QED BY <1>2, <5>1, <5>2
      <4>2. CASE i # n + 1
        BY <1>6, <2>3, <3>1, <4>2
      <4> QED BY <4>1, <4>2
    <3> QED BY <3>1, <3>2, <3>3, <3>4
  <2> QED BY <2>1, <2>2, <2>3
<1>8. f = [i \in 0 .. n + k |-> IF i = 0 THEN st ELSE Scan(f[i - 1], u[i])]
  BY <1>6, <1>7
<1>9. f[n + k] = st2
  <2>1. CASE k = 0
    <3>1. h[0] = mid
      BY <1>3
    <3> QED BY <1>2, <1>3, <1>6, <2>1, <3>1
  <2>2. CASE k # 0
    <3>1. ~(n + k <= n) /\ (n + k) - n = k /\ n + k \in 0 .. n + k
      BY <2>2
    <3> QED BY <1>3, <1>6, <3>1
  <2> QED BY <2>1, <2>2
<1> QED BY <1>4, <1>5, <1>8, <1>9 DEF Leads, IsReading

\* A text is parsed by its one reading.
LEMMA ParseIsReading ==
    ASSUME NEW S, NEW s \in Seq(S), NEW st, Leads(Fresh, s, st)
    PROVE  Parse(s) = Finish(st)
<1> DEFINE Eq(f) == f = [i \in 0 .. Len(s) |-> IF i = 0 THEN Fresh ELSE Scan(f[i - 1], s[i])]
<1>1. PICK n \in Nat : n = Len(s)
  OBVIOUS
<1>2. PICK g : Eq(g) /\ g[n] = st
  BY <1>1 DEF Leads, IsReading
<1>3. PICK a : a = CHOOSE f : Eq(f)
  OBVIOUS
<1>4. Eq(a)
  BY <1>2, <1>3
<1>5. Parse(s) = Finish(a[n])
  BY <1>1, <1>3 DEF Parse
<1>6. a[0] = g[0] /\ \A i \in 1 .. n : a[i] = Scan(a[i - 1], s[i]) /\ g[i] = Scan(g[i - 1], s[i])
  BY <1>1, <1>2, <1>4
<1> HIDE DEF Eq
<1>7. a[n] = g[n]
  <2> DEFINE Bad == {i \in Nat : i <= n /\ a[i] # g[i]}
  <2>1. SUFFICES ASSUME Bad # {} PROVE FALSE
    OBVIOUS
  <2>2. PICK i \in Bad : \A j \in Bad : i <= j
    BY <2>1, LeastElement
  <2>3. i # 0 /\ i \in 1 .. n /\ i - 1 \in Nat /\ i - 1 <= n
    BY <1>6, <2>2
  <2>4. a[i - 1] = g[i - 1]
    BY <2>2, <2>3
  <2> QED BY <1>6, <2>2, <2>3, <2>4
<1> QED BY <1>2, <1>5, <1>7

\* parseMinor's locals, one by one.
At(at, neg, acc, int, frac) ==
    [at |-> at, neg |-> neg, acc |-> acc, int |-> int, frac |-> frac]

\* Said as a predicate, for the instances below.
IsAt(st, at, neg, acc, int, frac) == st = At(at, neg, acc, int, frac)

\* Setting that a digit was seen, and the places behind the point.
Seen(st, x)   == [st EXCEPT !.int = x]
Places(st, x) == [st EXCEPT !.frac = x]

\* Setting the position.
LEMMA AtPlaced ==
    ASSUME NEW at, NEW neg, NEW acc, NEW int, NEW frac, NEW st, NEW x,
           IsAt(st, at, neg, acc, int, frac)
    PROVE  IsAt(Fail(st, x), x, neg, acc, int, frac)
BY DEF At, IsAt, Fail

\* Setting that a digit was seen.
LEMMA AtSeen ==
    ASSUME NEW at, NEW neg, NEW acc, NEW int, NEW frac, NEW st, NEW x,
           IsAt(st, at, neg, acc, int, frac)
    PROVE  IsAt(Seen(st, x), at, neg, acc, x, frac)
BY DEF At, IsAt, Seen

\* Setting the places.
LEMMA AtPlaces ==
    ASSUME NEW at, NEW neg, NEW acc, NEW int, NEW frac, NEW st, NEW x,
           IsAt(st, at, neg, acc, int, frac)
    PROVE  IsAt(Places(st, x), at, neg, acc, int, x)
BY DEF At, IsAt, Places

\* The first digit sets both, one after the other.
LEMMA AtBegun ==
    ASSUME NEW st
    PROVE  [st EXCEPT !.at = "integer", !.int = TRUE] = Seen(Fail(st, "integer"), TRUE)
BY DEF Seen, Fail

Largest(neg) == IF neg THEN MaxWord + 1 ELSE MaxWord

\* A digit that fits, in the integer part.
LEMMA ScanDigit ==
    ASSUME NEW at \in {"start", "integer"}, NEW neg \in BOOLEAN, NEW acc \in Nat,
           NEW int \in BOOLEAN, NEW d \in 0 .. 9, acc * 10 + d <= Largest(neg)
    PROVE  Scan(At(at, neg, acc, int, 0), d) = At("integer", neg, acc * 10 + d, TRUE, 0)
<1>1. PICK st : st = At("integer", neg, acc, TRUE, 0)
  OBVIOUS
<1>2. st.acc = acc /\ Limit(st) = Largest(neg)
  BY <1>1 DEF At, Limit, Largest
<1>3. Largest(neg) \in Nat /\ Largest(neg) >= 9
  BY MoneyAssumption DEF Largest
<1>4. PushFits(acc, d, Largest(neg))
  BY <1>3, PushFitsExact
<1>5. PushDigit(st, d) = At("integer", neg, acc * 10 + d, TRUE, 0)
  BY <1>1, <1>2, <1>4 DEF PushDigit, At
<1>6. d # Minus /\ d # Point
  BY DEF Minus, Point
<1>7. PICK old : old = At(at, neg, acc, int, 0)
  OBVIOUS
<1>8. old.at = at /\ [old EXCEPT !.at = "integer", !.int = TRUE] = st
  <2>1. old.at = at
    BY <1>7 DEF At
  <2>2. [old EXCEPT !.at = "integer", !.int = TRUE] = st
    <3>1. IsAt(old, at, neg, acc, int, 0)
      BY <1>7, Zenon DEF IsAt
    <3>2. IsAt(Fail(old, "integer"), "integer", neg, acc, int, 0)
      BY <3>1, AtPlaced, Zenon
    <3>3. IsAt(Seen(Fail(old, "integer"), TRUE), "integer", neg, acc, TRUE, 0)
      BY <3>2, AtSeen, Zenon
    <3>4. Seen(Fail(old, "integer"), TRUE) = st
      BY <1>1, <3>3, Zenon DEF IsAt
    <3> QED BY <3>4, AtBegun, Zenon
  <2> QED BY <2>1, <2>2
<1>9. Scan(old, d) = PushDigit(st, d)
  BY <1>6, <1>8 DEF Scan, ScanInteger
<1> QED BY <1>5, <1>7, <1>9

\* A digit that fits, behind the point.
LEMMA ScanDecimal ==
    ASSUME NEW neg \in BOOLEAN, NEW acc \in Nat, NEW frac \in {0, 1},
           NEW d \in 0 .. 9, acc * 10 + d <= Largest(neg)
    PROVE  Scan(At("fraction", neg, acc, TRUE, frac), d)
              = At("fraction", neg, acc * 10 + d, TRUE, frac + 1)
<1>1. PICK st : st = At("fraction", neg, acc, TRUE, frac + 1)
  OBVIOUS
<1>2. st.acc = acc /\ Limit(st) = Largest(neg)
  BY <1>1 DEF At, Limit, Largest
<1>3. Largest(neg) \in Nat /\ Largest(neg) >= 9
  BY MoneyAssumption DEF Largest
<1>4. PushFits(acc, d, Largest(neg))
  BY <1>3, PushFitsExact
<1>5. PushDigit(st, d) = At("fraction", neg, acc * 10 + d, TRUE, frac + 1)
  BY <1>1, <1>2, <1>4 DEF PushDigit, At
<1>6. PICK old : old = At("fraction", neg, acc, TRUE, frac)
  OBVIOUS
<1>7. /\ old.at = "fraction" /\ old.frac = frac /\ frac # Scale
      /\ [old EXCEPT !.frac = @ + 1] = st
  <2>1. old.at = "fraction" /\ old.frac = frac
    BY <1>6 DEF At
  <2>2. [old EXCEPT !.frac = frac + 1] = st
    <3>1. IsAt(old, "fraction", neg, acc, TRUE, frac)
      BY <1>6, Zenon DEF IsAt
    <3>2. IsAt(Places(old, frac + 1), "fraction", neg, acc, TRUE, frac + 1)
      BY <3>1, AtPlaces, Zenon
    <3> QED BY <1>1, <3>2, Zenon DEF IsAt, Places
  <2>3. [old EXCEPT !.frac = @ + 1] = st
    BY <2>1, <2>2
  <2> QED BY <2>1, <2>3 DEF Scale
<1>8. Scan(old, d) = PushDigit(st, d)
  BY <1>7 DEF Scan, ScanFraction
<1> QED BY <1>5, <1>6, <1>8

\* The sign, the point and the end.
LEMMA ScanMarks ==
    ASSUME NEW neg \in BOOLEAN, NEW acc \in Nat
    PROVE  /\ Fresh = At("start", FALSE, 0, FALSE, 0)
           /\ Scan(Fresh, Minus) = At("integer", TRUE, 0, FALSE, 0)
           /\ Scan(At("integer", neg, acc, TRUE, 0), Point) = At("fraction", neg, acc, TRUE, 0)
           /\ Finish(At("fraction", neg, acc, TRUE, 2)) = At("parsed", neg, acc, TRUE, 2)
<1>1. Fresh = At("start", FALSE, 0, FALSE, 0)
  BY DEF Fresh, At
<1>2. Scan(Fresh, Minus) = At("integer", TRUE, 0, FALSE, 0)
  BY DEF Fresh, At, Scan
<1>3. PICK st : st = At("integer", neg, acc, TRUE, 0)
  OBVIOUS
<1>4. st.at = "integer" /\ st.int = TRUE
         /\ [st EXCEPT !.at = "fraction"] = At("fraction", neg, acc, TRUE, 0)
  <2>1. st.at = "integer" /\ st.int = TRUE
    BY <1>3 DEF At
  <2>2. [st EXCEPT !.at = "fraction"] = At("fraction", neg, acc, TRUE, 0)
    <3>1. IsAt(st, "integer", neg, acc, TRUE, 0)
      BY <1>3, Zenon DEF IsAt
    <3>2. IsAt(Fail(st, "fraction"), "fraction", neg, acc, TRUE, 0)
      BY <3>1, AtPlaced, Zenon
    <3> QED BY <3>2, Zenon DEF IsAt, Fail
  <2> QED BY <2>1, <2>2
<1>5. Scan(st, Point) = [st EXCEPT !.at = "fraction"]
  BY <1>4 DEF Scan, ScanInteger
<1>6. PICK end : end = At("fraction", neg, acc, TRUE, 2)
  OBVIOUS
<1>7. end.at = "fraction" /\ end.int = TRUE /\ end.frac = 2
         /\ [end EXCEPT !.at = "parsed"] = At("parsed", neg, acc, TRUE, 2)
  <2>1. end.at = "fraction" /\ end.int = TRUE /\ end.frac = 2
    BY <1>6 DEF At
  <2>2. [end EXCEPT !.at = "parsed"] = At("parsed", neg, acc, TRUE, 2)
    <3>1. IsAt(end, "fraction", neg, acc, TRUE, 2)
      BY <1>6, Zenon DEF IsAt
    <3>2. IsAt(Fail(end, "parsed"), "parsed", neg, acc, TRUE, 2)
      BY <3>1, AtPlaced, Zenon
    <3> QED BY <3>2, Zenon DEF IsAt, Fail
  <2> QED BY <2>1, <2>2
<1>8. PadOnce(end) = end
  BY <1>7 DEF PadOnce, Scale
<1>9. Finish(end) = [end EXCEPT !.at = "parsed"]
  <2>1. end.at \notin {"invalid", "overflow"} /\ end.at # "overflow"
           /\ ~(~end.int \/ (end.at = "fraction" /\ end.frac = 0))
    BY <1>7
  <2> QED BY <1>8, <2>1, Zenon DEF Finish
<1> QED BY <1>1, <1>2, <1>3, <1>4, <1>5, <1>6, <1>7, <1>9

\* The digits of a number that fits, read from the beginning, spell it.
ReadsBack(n) ==
    /\ Decimal[n] \in Seq(Int)
    /\ \A at \in {"start", "integer"}, neg \in BOOLEAN :
          n <= Largest(neg) =>
              Leads(At(at, neg, 0, FALSE, 0), Decimal[n], At("integer", neg, n, TRUE, 0))

\* By the last digit, and the quotient for the others.
LEMMA DigitsReadBack == ASSUME NEW n \in 0 .. MaxWord + 1 PROVE ReadsBack(n)
<1> DEFINE Bad == {k \in Nat : k <= MaxWord + 1 /\ ~ReadsBack(k)}
<1>0. MaxWord \in Nat
  BY MoneyAssumption
<1>1. SUFFICES ASSUME Bad # {} PROVE FALSE
  BY <1>0
<1>2. PICK k \in Bad : \A j \in Bad : k <= j
  BY <1>1, LeastElement
<1>3. k \in 0 .. MaxWord + 1 /\ k \in Nat /\ ~ReadsBack(k)
  BY <1>0, <1>2
<1>4. \A neg \in BOOLEAN : Largest(neg) \in Nat
  BY <1>0 DEF Largest
<1>5. CASE k < 10
  <2>1. Decimal[k] = <<k>>
    BY <1>3, <1>5, DecimalDigits
  <2>2. k \in 0 .. 9 /\ 0 * 10 + k = k
    BY <1>3, <1>5
  <2>3. ASSUME NEW at \in {"start", "integer"}, NEW neg \in BOOLEAN, k <= Largest(neg)
        PROVE  Leads(At(at, neg, 0, FALSE, 0), <<k>>, At("integer", neg, k, TRUE, 0))
    <3>0. 0 \in Nat /\ FALSE \in BOOLEAN /\ 0 * 10 + k <= Largest(neg)
      BY <2>2, <2>3
    <3>1. Scan(At(at, neg, 0, FALSE, 0), k) = At("integer", neg, 0 * 10 + k, TRUE, 0)
      BY <2>2, <3>0, ScanDigit, Zenon
    <3>2. Leads(At(at, neg, 0, FALSE, 0), <<k>>, Scan(At(at, neg, 0, FALSE, 0), k))
      BY ByteLeads
    <3> QED BY <2>2, <3>1, <3>2
  <2>4. <<k>> \in Seq(Int)
    BY <1>3
  <2> QED BY <1>3, <2>1, <2>3, <2>4 DEF ReadsBack
<1>6. CASE k >= 10
  <2>1. PICK q \in Nat, d \in 0 .. 9 : q = k \div 10 /\ d = k % 10 /\ q * 10 + d = k
    BY <1>3
  <2>2. q < k /\ q \in 0 .. MaxWord + 1
    BY <1>0, <1>3, <1>6, <2>1
  <2>3. ReadsBack(q)
    BY <1>0, <1>2, <1>3, <2>2
  <2>4. PICK s \in Seq(Int) : s = Decimal[q]
    BY <2>3 DEF ReadsBack
  <2>5. Decimal[k] = Append(s, d)
    <3>1. Decimal[k] = IF k < 10 THEN <<k>> ELSE Append(Decimal[k \div 10], k % 10)
      BY <1>3, DecimalDigits
    <3>2. ~(k < 10)
      BY <1>3, <1>6
    <3> QED BY <2>1, <2>4, <3>1, <3>2, Zenon
  <2>6. PICK t : t = <<d>>
    OBVIOUS
  <2>7. t \in Seq(Int) /\ Decimal[k] = s \o t /\ s \o t \in Seq(Int)
    BY <2>4, <2>5, <2>6
  <2>8. ASSUME NEW at \in {"start", "integer"}, NEW neg \in BOOLEAN, k <= Largest(neg)
        PROVE  Leads(At(at, neg, 0, FALSE, 0), s \o t, At("integer", neg, k, TRUE, 0))
    <3>1. PICK mid : mid = At("integer", neg, q, TRUE, 0)
      OBVIOUS
    <3>2. q <= Largest(neg)
      BY <1>3, <1>4, <2>1, <2>2, <2>8
    <3>3. Leads(At(at, neg, 0, FALSE, 0), s, mid)
      BY <2>3, <2>4, <3>1, <3>2 DEF ReadsBack
    <3>4. Scan(mid, d) = At("integer", neg, q * 10 + d, TRUE, 0)
      BY <2>1, <2>8, <3>1, ScanDigit
    <3>5. Leads(mid, t, Scan(mid, d))
      BY <2>6, ByteLeads
    <3>6. Leads(mid, t, At("integer", neg, k, TRUE, 0))
      BY <2>1, <3>4, <3>5
    <3> QED BY <2>4, <2>7, <3>3, <3>6, LeadsOn
  <2> QED BY <1>3, <2>7, <2>8 DEF ReadsBack
<1> QED BY <1>3, <1>5, <1>6

\* Two bytes.
LEMMA TwoBytesLead ==
    ASSUME NEW st, NEW a, NEW b PROVE Leads(st, <<a, b>>, Scan(Scan(st, a), b))
<1>1. PICK s : s = <<a, b>>
  OBVIOUS
<1>2. Len(s) = 2 /\ s[1] = a /\ s[2] = b
  BY <1>1
<1>3. PICK mid, end : mid = Scan(st, a) /\ end = Scan(mid, b)
  OBVIOUS
<1>4. PICK g : g = [i \in 0 .. 2 |-> IF i = 0 THEN st ELSE IF i = 1 THEN mid ELSE end]
  OBVIOUS
<1>5. g[0] = st /\ g[1] = mid /\ g[2] = end
  BY <1>4
<1>6. \A i \in 0 .. 2 : g[i] = IF i = 0 THEN st ELSE Scan(g[i - 1], s[i])
  <2>1. \A i \in 0 .. 2 : i = 0 \/ i = 1 \/ i = 2
    OBVIOUS
  <2>2. g[1] = Scan(g[1 - 1], s[1])
    BY <1>2, <1>3, <1>5
  <2>3. g[2] = Scan(g[2 - 1], s[2])
    BY <1>2, <1>3, <1>5
  <2> QED BY <1>5, <2>1, <2>2, <2>3
<1>7. g = [i \in 0 .. 2 |-> IF i = 0 THEN st ELSE Scan(g[i - 1], s[i])]
  BY <1>4, <1>6
<1>8. Leads(st, s, end)
  BY <1>2, <1>5, <1>7 DEF Leads, IsReading
<1> QED BY <1>1, <1>3, <1>8

\* The two places of String: two digits that spell r.
LEMMA FractionReads ==
    ASSUME NEW r \in 0 .. 99, r <= MaxWord + 1
    PROVE  \E a \in 0 .. 9, b \in 0 .. 9 :
              /\ a * 10 + b = r
              /\ FractionText(r) \in Seq(Int)
              /\ \A st : Leads(st, FractionText(r), Scan(Scan(st, a), b))
<1>0. MaxWord \in Nat
  BY MoneyAssumption
<1>1. CASE r < 10
  <2>1. FractionText(r) = <<0, r>> /\ r \in 0 .. 9 /\ 0 \in 0 .. 9 /\ 0 * 10 + r = r
    BY <1>1 DEF FractionText
  <2>2. <<0, r>> \in Seq(Int)
    OBVIOUS
  <2>3. \A st : Leads(st, <<0, r>>, Scan(Scan(st, 0), r))
    BY TwoBytesLead
  <2> QED BY <2>1, <2>2, <2>3
<1>2. CASE r >= 10
  <2>1. PICK a \in 0 .. 9, b \in 0 .. 9 : a = r \div 10 /\ b = r % 10 /\ a * 10 + b = r
    OBVIOUS
  <2>2. a \in 0 .. MaxWord + 1 /\ r \in 0 .. MaxWord + 1 /\ a < 10 /\ ~(r < 10)
    BY <1>0, <1>2, <2>1
  <2>3. Decimal[a] = <<a>>
    BY <2>2, DecimalDigits
  <2>4. Decimal[r] = Append(Decimal[r \div 10], r % 10)
    BY <2>2, DecimalDigits
  <2>5. FractionText(r) = Decimal[r]
    BY <2>2 DEF FractionText
  <2>6. PICK s, t : s = <<a>> /\ t = <<b>>
    OBVIOUS
  <2>7. s \in Seq(Int) /\ t \in Seq(Int)
    BY <2>6
  <2>8. FractionText(r) = Append(s, b)
    BY <2>1, <2>3, <2>4, <2>5, <2>6, Zenon
  <2>9. FractionText(r) = s \o t /\ s \o t \in Seq(Int)
    BY <2>6, <2>7, <2>8
  <2>10. ASSUME NEW st PROVE Leads(st, s \o t, Scan(Scan(st, a), b))
    <3>1. Leads(st, s, Scan(st, a)) /\ Leads(Scan(st, a), t, Scan(Scan(st, a), b))
      BY <2>6, ByteLeads
    <3> QED BY <2>7, <3>1, LeadsOn
  <2>11. \A st : Leads(st, FractionText(r), Scan(Scan(st, a), b))
    BY <2>9, <2>10
  <2> QED BY <2>1, <2>9, <2>11
<1> QED BY <1>1, <1>2

\* The sign and the digits before the point.
LEMMA HeadReads ==
    ASSUME NEW neg \in BOOLEAN, NEW q \in Nat, q <= Largest(neg), NEW h,
           h = (IF neg THEN <<Minus>> ELSE << >>) \o Decimal[q]
    PROVE  h \in Seq(Int) /\ Leads(Fresh, h, At("integer", neg, q, TRUE, 0))
<1>1. q \in 0 .. MaxWord + 1
  BY MoneyAssumption DEF Largest
<1>2. ReadsBack(q)
  BY <1>1, DigitsReadBack
<1>3. PICK s \in Seq(Int) : s = Decimal[q]
  BY <1>2 DEF ReadsBack
<1>4. CASE neg
  <2>1. PICK sign : sign = <<Minus>>
    OBVIOUS
  <2>2. sign \in Seq(Int) /\ h = sign \o s
    BY <1>3, <1>4, <2>1 DEF Minus
  <2>3. Leads(Fresh, sign, Scan(Fresh, Minus))
    BY <2>1, ByteLeads
  <2>4. PICK mid : mid = At("integer", neg, 0, FALSE, 0)
    OBVIOUS
  <2>5. neg = TRUE /\ Scan(Fresh, Minus) = At("integer", TRUE, 0, FALSE, 0)
    <3>1. 0 \in Nat
      OBVIOUS
    <3> QED BY <1>4, <3>1, ScanMarks, Zenon
  <2>6. Scan(Fresh, Minus) = mid
    BY <2>4, <2>5, Zenon
  <2>7. Leads(mid, s, At("integer", neg, q, TRUE, 0))
    BY <1>2, <1>3, <2>4 DEF ReadsBack
  <2>8. Leads(Fresh, sign, mid)
    BY <2>3, <2>6
  <2>9. Leads(Fresh, sign \o s, At("integer", neg, q, TRUE, 0))
    BY <1>3, <2>2, <2>7, <2>8, LeadsOn
  <2>10. sign \o s \in Seq(Int)
    BY <1>3, <2>2
  <2> QED BY <2>2, <2>9, <2>10, Zenon
<1>5. CASE ~neg
  <2>1. h = s
    BY <1>3, <1>5
  <2>2. neg = FALSE /\ Fresh = At("start", FALSE, 0, FALSE, 0)
    <3>1. 0 \in Nat
      OBVIOUS
    <3> QED BY <1>5, <3>1, ScanMarks, Zenon
  <2>3. Leads(At("start", neg, 0, FALSE, 0), s, At("integer", neg, q, TRUE, 0))
    BY <1>2, <1>3 DEF ReadsBack
  <2>4. At("start", neg, 0, FALSE, 0) = Fresh
    BY <2>2, Zenon
  <2> QED BY <1>3, <2>1, <2>3, <2>4
<1> QED BY <1>4, <1>5

\* The point and the two places behind it.
LEMMA TailReads ==
    ASSUME NEW neg \in BOOLEAN, NEW q \in Nat, NEW r \in 0 .. 99, NEW n \in Nat,
           n = q * 100 + r, n <= Largest(neg), NEW h \in Seq(Int),
           Leads(Fresh, h, At("integer", neg, q, TRUE, 0)), NEW text,
           text = h \o <<Point>> \o FractionText(r)
    PROVE  text \in Seq(Int) /\ Leads(Fresh, text, At("fraction", neg, n, TRUE, 2))
<1>1. Largest(neg) \in Nat /\ r <= MaxWord + 1
  BY MoneyAssumption DEF Largest
<1>2. PICK a \in 0 .. 9, b \in 0 .. 9 :
           /\ a * 10 + b = r
           /\ FractionText(r) \in Seq(Int)
           /\ \A st : Leads(st, FractionText(r), Scan(Scan(st, a), b))
  BY <1>1, FractionReads
<1>3. PICK c \in Nat : c = q * 10 + a
  OBVIOUS
<1>4. c * 10 + b = n /\ c <= Largest(neg) /\ q * 10 + a <= Largest(neg)
  BY <1>1, <1>2, <1>3
<1>5. PICK p, f : p = <<Point>> /\ f = FractionText(r)
  OBVIOUS
<1>6. p \in Seq(Int) /\ f \in Seq(Int)
  BY <1>2, <1>5 DEF Point
<1>7. PICK u : u = h \o p
  OBVIOUS
<1>8. u \in Seq(Int)
  BY <1>6, <1>7
<1>9. PICK s0, s1, s2, s3 : /\ s0 = At("integer", neg, q, TRUE, 0)
                            /\ s1 = At("fraction", neg, q, TRUE, 0)
                            /\ s2 = At("fraction", neg, c, TRUE, 1)
                            /\ s3 = At("fraction", neg, n, TRUE, 2)
  OBVIOUS
<1>10. Scan(s0, Point) = s1
  BY <1>9, ScanMarks, Zenon
<1>11. Scan(s1, a) = s2
  <2>1. Scan(At("fraction", neg, q, TRUE, 0), a) = At("fraction", neg, q * 10 + a, TRUE, 0 + 1)
    BY <1>4, ScanDecimal
  <2>2. 0 + 1 = 1
    OBVIOUS
  <2> QED BY <1>3, <1>9, <2>1, <2>2, Zenon
<1>12. Scan(s2, b) = s3
  <2>1. Scan(At("fraction", neg, c, TRUE, 1), b) = At("fraction", neg, c * 10 + b, TRUE, 1 + 1)
    BY <1>4, ScanDecimal
  <2>2. 1 + 1 = 2
    OBVIOUS
  <2> QED BY <1>4, <1>9, <2>1, <2>2, Zenon
<1>13. Leads(s0, p, s1)
  BY <1>5, <1>10, ByteLeads
<1>14. Leads(s1, f, s3)
  BY <1>2, <1>5, <1>11, <1>12
<1>15. Leads(Fresh, u, s1)
  BY <1>6, <1>7, <1>9, <1>13, LeadsOn
<1>16. Leads(Fresh, u \o f, s3)
  BY <1>6, <1>8, <1>14, <1>15, LeadsOn
<1>17. u \o f \in Seq(Int)
  BY <1>6, <1>8
<1>18. text = u \o f
  BY <1>5, <1>7, Zenon
<1> QED BY <1>9, <1>16, <1>17, <1>18

\* String and parseMinor: every word reads back as itself, the most negative too.
LEMMA TextParses ==
    ASSUME NEW m \in Words
    PROVE  Parse(Text(m)).at = "parsed" /\ Minor(Parse(Text(m))) = m
<1>0. MaxWord \in Nat
  BY MoneyAssumption
<1>1. PICK neg \in BOOLEAN : neg <=> m < 0
  OBVIOUS
<1>2. PICK n \in Nat : n = IF m < 0 THEN -(m + 1) + 1 ELSE m
  BY <1>0 DEF Words, MinWord
<1>3. n <= Largest(neg) /\ (neg => m = -n) /\ (~neg => m = n)
  <2>1. CASE m < 0
    BY <1>0, <1>1, <1>2, <2>1 DEF Largest, Words, MinWord
  <2>2. CASE ~(m < 0)
    BY <1>0, <1>1, <1>2, <2>2 DEF Largest, Words, MinWord
  <2> QED BY <2>1, <2>2
<1>4. PICK q \in Nat, r \in 0 .. 99 : q = n \div 100 /\ r = n % 100 /\ n = q * 100 + r
  <2>1. n \div 100 \in Nat /\ n % 100 \in 0 .. 99
    OBVIOUS
  <2>2. n = (n \div 100) * 100 + (n % 100)
    OBVIOUS
  <2> QED BY <2>1, <2>2
<1>5. q <= Largest(neg)
  BY <1>0, <1>3, <1>4 DEF Largest
<1>6. PICK h : h = (IF neg THEN <<Minus>> ELSE << >>) \o Decimal[q]
  OBVIOUS
<1>7. h \in Seq(Int) /\ Leads(Fresh, h, At("integer", neg, q, TRUE, 0))
  BY <1>5, <1>6, HeadReads
<1>8. PICK text : text = h \o <<Point>> \o FractionText(r)
  OBVIOUS
<1>9. Text(m) = text
  <2>1. (IF m < 0 THEN <<Minus>> ELSE << >>) = (IF neg THEN <<Minus>> ELSE << >>)
    BY <1>1
  <2> QED BY <1>2, <1>4, <1>6, <1>8, <2>1, Zenon DEF Text
<1>10. text \in Seq(Int) /\ Leads(Fresh, text, At("fraction", neg, n, TRUE, 2))
  BY <1>3, <1>4, <1>7, <1>8, TailReads
<1>11. PICK again : again = At("parsed", neg, n, TRUE, 2)
  OBVIOUS
<1>12. Parse(text) = again
  <2>1. Parse(text) = Finish(At("fraction", neg, n, TRUE, 2))
    BY <1>10, ParseIsReading
  <2>2. Finish(At("fraction", neg, n, TRUE, 2)) = At("parsed", neg, n, TRUE, 2)
    BY ScanMarks, Zenon
  <2> QED BY <1>11, <2>1, <2>2, Zenon
<1>13. again \in ScanState /\ again.at = "parsed" /\ again.acc = n
  BY <1>11 DEF At, ScanState, Reading, Scale
<1>14. again.neg = neg
  BY <1>11 DEF At
<1>15. again.acc <= Limit(again)
  BY <1>3, <1>13, <1>14 DEF Limit, Largest
<1>16. Minor(again) = (IF again.neg THEN -again.acc ELSE again.acc)
  BY <1>13, <1>15, MinorExact
<1>17. Minor(again) = m
  BY <1>3, <1>13, <1>14, <1>16
<1> QED BY <1>9, <1>12, <1>13, <1>17

\* The canonical text of whatever amount was parsed reads back as that amount, at every
\* width of the word: String and parseMinor agree on every amount a wallet can hold.
THEOREM TextAlwaysReadsBack == MoneySpec => []TextReadsBack
<1>1. MoneyInv => TextReadsBack
  <2>1. SUFFICES ASSUME MoneyInv, scan.at = "parsed" PROVE TextReadsBack
    BY DEF TextReadsBack
  <2>2. scan \in ScanState /\ scan.acc <= Limit(scan)
    BY <2>1 DEF MoneyInv, Agrees
  <2>3. PICK m \in Words : m = Minor(scan)
    BY <2>2, MinorExact
  <2>4. Parse(Text(m)).at = "parsed" /\ Minor(Parse(Text(m))) = m
    BY TextParses
  <2> QED BY <2>3, <2>4, Zenon DEF TextReadsBack
<1> QED BY <1>1, MoneyInvariant, PTL
=============================================================================
