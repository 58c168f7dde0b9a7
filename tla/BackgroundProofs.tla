-------------------------- MODULE BackgroundProofs --------------------------
(***************************************************************************)
(* Proofs about the work behind the requests, for any number of parked     *)
(* reversals, requests and messages and any policy: how long a reversal    *)
(* waits for the operation it reverses, and the end of an instance.  The   *)
(* parts share no state; each theorem is about the specification of one,   *)
(* and the last carries the types to the two side by side.                 *)
(***************************************************************************)
EXTENDS MCBackground, SumProofs

-----------------------------------------------------------------------------
(* How long a parked reversal waits.                                        *)

Doubling(k) == 2 ^ k

\* A power of two is a positive number, as far as the backoff ever doubles.
LEMMA PowersOfTwo == \A k \in 0 .. 16 : 2 ^ k \in Nat \ {0}
<1>1. \A k \in 0 .. 16 : k = 0 \/ k = 1 \/ k = 2 \/ k = 3 \/ k = 4 \/ k = 5 \/ k = 6
          \/ k = 7 \/ k = 8 \/ k = 9 \/ k = 10 \/ k = 11 \/ k = 12 \/ k = 13 \/ k = 14
          \/ k = 15 \/ k = 16
  OBVIOUS
<1> DEFINE Positive == Nat \ {0}
<1>2. /\ Doubling(0) \in Positive /\ Doubling(1) \in Positive /\ Doubling(2) \in Positive
      /\ Doubling(3) \in Positive /\ Doubling(4) \in Positive /\ Doubling(5) \in Positive
      /\ Doubling(6) \in Positive /\ Doubling(7) \in Positive /\ Doubling(8) \in Positive
      /\ Doubling(9) \in Positive /\ Doubling(10) \in Positive /\ Doubling(11) \in Positive
      /\ Doubling(12) \in Positive /\ Doubling(13) \in Positive /\ Doubling(14) \in Positive
      /\ Doubling(15) \in Positive /\ Doubling(16) \in Positive
  BY DEF Doubling
<1> HIDE DEF Positive
<1>3. \A k \in 0 .. 16 : Doubling(k) \in Positive
  BY <1>1, <1>2
<1> QED BY <1>3, Zenon DEF Doubling, Positive

\* ReferencePolicy.nextAttemptAt stays within the policy's longest backoff.
LEMMA WindowIsBounded ==
    ASSUME NEW a \in Nat \ {0}
    PROVE  Window(a) \in 0 .. MaxBackoff
<1> DEFINE k == IF a > 17 THEN 16 ELSE a - 1
<1>1. k \in 0 .. 16
  OBVIOUS
<1>2. PICK p \in Nat : p = 2 ^ k
  BY <1>1, PowersOfTwo
<1>3. PICK d \in Nat : d = BaseBackoff * p
  BY <1>2, WaitAssumption
<1>4. Window(a) = IF d > MaxBackoff THEN MaxBackoff ELSE d
  BY <1>2, <1>3 DEF Window
<1> QED BY <1>3, <1>4, WaitAssumption

WaitRow == [status : {"received", "PENDING_REFERENCE", "PROCESSED", "REJECTED"},
            attempts : Nat, dueIn : Int, waited : Nat]

\* The rows that may be handled before r.
Ahead(r) == {q \in Pending \ {r} : wait[q].dueIn <= wait[r].dueIn}

\* The time until the next tick that is not known to be a row's turn, with a rows ahead
\* of it, h handled in this batch, t to the next tick and e errors behind: an interval
\* for every batch the rows ahead can fill and for every error still to come.
TurnBound(a, h, t, e) ==
    IF h = -1
    THEN t + Interval * (a \div WaitBatch + (MaxErrors - e))
    ELSE Interval * ((a + h) \div WaitBatch + (MaxErrors - e))

TurnIn(r) == TurnBound(Cardinality(Ahead(r)), handled, tickIn, errors)

\* A row's next attempt was set before its deadline, at most a backoff ahead; a tick's
\* batch takes no time of the next interval.
WaitInv ==
    /\ wait \in [Reversals -> WaitRow]
    /\ WaitTypeOK
    /\ handled # -1 => tickIn = Interval
    /\ \A r \in Pending : wait[r].waited + wait[r].dueIn < WaitTtl + MaxBackoff

\* A row that is late has its turn in time.
TurnInv == \A r \in Pending : TurnIn(r) - wait[r].dueIn <= Queueing

\* A product with a positive number keeps an order.
LEMMA TimesKeepsOrder ==
    ASSUME NEW b \in Nat \ {0}, NEW x \in Int, NEW y \in Int, x <= y
    PROVE  b * x <= b * y
OBVIOUS

\* A number lies between two multiples of what it is divided by.
LEMMA Quotient ==
    ASSUME NEW b \in Nat \ {0}, NEW n \in Nat
    PROVE  /\ n \div b \in Nat
           /\ b * (n \div b) <= n /\ n < b * (n \div b + 1)
OBVIOUS

\* There is one such multiple.
LEMMA QuotientIsUnique ==
    ASSUME NEW b \in Nat \ {0}, NEW p \in Int, NEW q \in Int, b * p < b * (q + 1)
    PROVE  p <= q
<1> SUFFICES ASSUME q + 1 <= p PROVE FALSE
  OBVIOUS
<1>1. b * (q + 1) <= b * p
  BY TimesKeepsOrder
<1>2. b * (q + 1) \in Int /\ b * p \in Int
  OBVIOUS
<1> QED BY <1>1, <1>2

\* More rows fill no fewer batches.
LEMMA QuotientIsMonotonic ==
    ASSUME NEW b \in Nat \ {0}, NEW m \in Nat, NEW n \in Nat, m <= n
    PROVE  m \div b <= n \div b
<1>1. PICK p \in Nat : p = m \div b /\ b * p <= m
  BY Quotient
<1>2. PICK q \in Nat : q = n \div b /\ n < b * (q + 1)
  BY Quotient
<1>3. b * p < b * (q + 1)
  BY <1>1, <1>2
<1> QED BY <1>1, <1>2, <1>3, QuotientIsUnique

\* A batch more of them fills one batch more.
LEMMA QuotientOfOneMore ==
    ASSUME NEW b \in Nat \ {0}, NEW n \in Nat
    PROVE  (n + b) \div b = n \div b + 1
<1>1. PICK p \in Nat : p = n \div b /\ b * p <= n /\ n < b * (p + 1)
  BY Quotient
<1>2. n + b \in Nat
  OBVIOUS
<1>3. PICK q \in Nat : q = (n + b) \div b /\ b * q <= n + b /\ n + b < b * (q + 1)
  BY <1>2, Quotient
<1>4. b * (p + 1) = b * p + b /\ b * (p + 1 + 1) = b * (p + 1) + b
  OBVIOUS
<1>5. b * q < b * (p + 1 + 1) /\ b * (p + 1) < b * (q + 1)
  BY <1>1, <1>3, <1>4
<1>6. q <= p + 1 /\ p + 1 <= q
  BY <1>5, QuotientIsUnique
<1> QED BY <1>1, <1>3, <1>6

\* What a parking or a lookup may write: a row that waits does so for an attempt that is
\* still to come, within the deadline and a backoff.
Proper(row) ==
    /\ row \in WaitRow
    /\ row.status = "PENDING_REFERENCE" =>
          /\ row.attempts \in 1 .. MaxLooks /\ row.dueIn >= 0
          /\ row.waited + row.dueIn < WaitTtl + MaxBackoff

Rewrites(r, row) == r \in Reversals /\ Proper(row) /\ wait' = [wait EXCEPT ![r] = row]

\* The next attempt is at most a backoff away.
LEMMA NextAttemptIsBounded ==
    ASSUME NEW a \in Nat \ {0}, NEW d \in NextAttemptIn(a)
    PROVE  d \in 0 .. MaxBackoff
<1>1. PICK n \in 0 .. MaxBackoff : n = Window(a)
  BY WindowIsBounded
<1>2. d \in (n \div 2) .. (n \div 2 + n \div 2)
  BY <1>1 DEF NextAttemptIn
<1> QED BY <1>1, <1>2, WaitAssumption

\* A reversal is parked for its first backoff.
LEMMA ParkRewrites ==
    ASSUME WaitInv, NEW r \in Reversals, Park(r)
    PROVE  \E row : Rewrites(r, row)
<1>1. PICK d \in NextAttemptIn(1) :
         wait' = [wait EXCEPT ![r] = [status |-> "PENDING_REFERENCE", attempts |-> 1,
                                      dueIn |-> d, waited |-> 0]]
  BY DEF Park
<1>2. d \in 0 .. MaxBackoff
  BY NextAttemptIsBounded
<1>3. PICK row : row = [status |-> "PENDING_REFERENCE", attempts |-> 1, dueIn |-> d,
                        waited |-> 0]
  OBVIOUS
<1>4. Proper(row)
  BY <1>2, <1>3, WaitAssumption DEF Proper, WaitRow
<1> QED BY <1>1, <1>3, <1>4 DEF Rewrites

\* A lookup settles its row or sets its next attempt.
LEMMA LookupRewrites ==
    ASSUME WaitInv, NEW r \in Pending, Resolve(r) \/ GiveUp(r) \/ LookAgain(r)
    PROVE  \E row : Rewrites(r, row)
<1>0. r \in Reversals /\ wait[r] \in WaitRow /\ wait[r].status = "PENDING_REFERENCE"
  BY DEF Pending, WaitInv
<1>1. CASE Resolve(r)
  <2>1. Proper(Settled("PROCESSED"))
    BY DEF Proper, Settled, Resting, WaitRow
  <2> QED BY <1>0, <1>1, <2>1 DEF Resolve, Rewrites
<1>2. CASE GiveUp(r)
  <2>1. Proper(Settled("REJECTED"))
    BY DEF Proper, Settled, Resting, WaitRow
  <2> QED BY <1>0, <1>2, <2>1 DEF GiveUp, Rewrites
<1>3. CASE LookAgain(r)
  <2>1. wait[r].attempts \in 1 .. MaxLooks /\ ~WaitIsOver(r)
    BY <1>0, <1>3 DEF WaitInv, WaitTypeOK, LookAgain
  <2>2. PICK a \in Nat \ {0} : a = wait[r].attempts + 1 /\ a <= MaxLooks
    BY <2>1, WaitAssumption DEF WaitIsOver
  <2>3. wait[r].waited \in Nat /\ wait[r].waited < WaitTtl
    BY <1>0, <2>1, WaitAssumption DEF WaitIsOver, WaitRow
  <2>4. PICK d \in NextAttemptIn(a) :
           wait' = [wait EXCEPT ![r].attempts = a, ![r].dueIn = d]
    BY <1>3, <2>2 DEF LookAgain
  <2>5. d \in 0 .. MaxBackoff
    BY NextAttemptIsBounded
  <2>6. PICK row : row = [wait[r] EXCEPT !.attempts = a, !.dueIn = d]
    OBVIOUS
  <2>7. row \in WaitRow /\ row.attempts = a /\ row.dueIn = d /\ row.waited = wait[r].waited
    <3>1. a \in Nat /\ d \in Int
      BY <2>5, WaitAssumption
    <3> QED BY <1>0, <2>6, <3>1 DEF WaitRow
  <2>8. row.waited + row.dueIn < WaitTtl + MaxBackoff
    BY <2>3, <2>5, <2>7, WaitAssumption
  <2>9. Proper(row)
    BY <2>2, <2>5, <2>7, <2>8 DEF Proper
  <2>10. wait' = [wait EXCEPT ![r] = row]
    BY <2>4, <2>6, <1>0 DEF WaitInv
  <2> QED BY <1>0, <2>9, <2>10 DEF Rewrites
<1> QED BY <1>1, <1>2, <1>3

\* What a rewritten row leaves of the others.
LEMMA RewrittenRows ==
    ASSUME WaitInv, NEW r, NEW row, Rewrites(r, row)
    PROVE  /\ wait' \in [Reversals -> WaitRow] /\ wait'[r] = row
           /\ \A q \in Reversals \ {r} : wait'[q] = wait[q]
           /\ Pending' \subseteq Pending \cup {r} /\ Pending \subseteq Pending' \cup {r}
<1>1. wait' \in [Reversals -> WaitRow] /\ wait'[r] = row
         /\ \A q \in Reversals \ {r} : wait'[q] = wait[q]
  BY DEF Rewrites, Proper, WaitInv
<1> QED BY <1>1 DEF Pending, Rewrites

\* It keeps the invariant.
LEMMA RewriteKeepsWaitInv ==
    ASSUME WaitInv, NEW r, NEW row, Rewrites(r, row),
           arrived' = arrived, tickIn' = tickIn, errors' = errors,
           handled' = handled \/ (Working /\ handled' = handled + 1)
    PROVE  WaitInv'
<1>1. /\ wait' \in [Reversals -> WaitRow] /\ wait'[r] = row
      /\ \A q \in Reversals \ {r} : wait'[q] = wait[q]
      /\ Pending' \subseteq Pending \cup {r}
  BY RewrittenRows
<1>2. \A q \in Reversals : wait'[q].status
         \in {"received", "PENDING_REFERENCE", "PROCESSED", "REJECTED"}
  BY <1>1 DEF WaitRow
<1>3. row.status = "PENDING_REFERENCE" =>
         row.attempts \in 1 .. MaxLooks /\ row.waited + row.dueIn < WaitTtl + MaxBackoff
  BY DEF Rewrites, Proper
<1>4. \A q \in Pending' : /\ wait'[q].attempts \in 1 .. MaxLooks
                          /\ wait'[q].waited + wait'[q].dueIn < WaitTtl + MaxBackoff
  BY <1>1, <1>3 DEF Pending, WaitInv, WaitTypeOK
<1>5. handled' \in -1 .. WaitBatch /\ (handled' # -1 => tickIn' = Interval)
  BY WaitAssumption DEF Working, WaitInv, WaitTypeOK
<1> QED BY <1>1, <1>2, <1>4, <1>5 DEF WaitInv, WaitTypeOK

\* A claim is a lookup of one row, the one that became due first.
LEMMA HandleOneRewrites ==
    ASSUME WaitInv, HandleOne
    PROVE  \E r \in Pending : \E row :
              /\ Rewrites(r, row) /\ wait[r].dueIn <= 0
              /\ \A q \in Pending : wait[q].dueIn <= 0 => wait[r].dueIn <= wait[q].dueIn
<1>1. PICK r \in ClaimableReferences : Resolve(r) \/ GiveUp(r) \/ LookAgain(r)
  BY DEF HandleOne
<1>2. r \in Pending /\ wait[r].dueIn <= 0
         /\ \A q \in Pending : wait[q].dueIn <= 0 => wait[r].dueIn <= wait[q].dueIn
  BY DEF ClaimableReferences, Due
<1>3. PICK row : Rewrites(r, row)
  BY <1>1, <1>2, LookupRewrites
<1> QED BY <1>2, <1>3

\* What an interval's step leaves: the same rows wait, one step older and nearer.
LEMMA ElapsedRows ==
    ASSUME WaitInv, Elapse
    PROVE  /\ wait' \in [Reversals -> WaitRow] /\ Pending' = Pending
           /\ \A q \in Pending : /\ wait'[q].attempts = wait[q].attempts
                                 /\ wait'[q].dueIn = wait[q].dueIn - 1
                                 /\ wait'[q].waited = wait[q].waited + 1
<1>1. wait' = [r \in Reversals |->
                 IF r \in Pending
                 THEN [wait[r] EXCEPT !.dueIn = @ - 1, !.waited = @ + 1] ELSE wait[r]]
  BY DEF Elapse
<1>2. \A r \in Reversals : wait[r] \in WaitRow
  BY DEF WaitInv
<1>3. \A q \in Pending : /\ wait'[q] \in WaitRow
                         /\ wait'[q].status = wait[q].status
                         /\ wait'[q].attempts = wait[q].attempts
                         /\ wait'[q].dueIn = wait[q].dueIn - 1
                         /\ wait'[q].waited = wait[q].waited + 1
  <2> SUFFICES ASSUME NEW q \in Pending
               PROVE  /\ wait'[q] \in WaitRow
                      /\ wait'[q].status = wait[q].status
                      /\ wait'[q].attempts = wait[q].attempts
                      /\ wait'[q].dueIn = wait[q].dueIn - 1
                      /\ wait'[q].waited = wait[q].waited + 1
    OBVIOUS
  <2>1. q \in Reversals
    BY DEF Pending
  <2>2. wait'[q] = [wait[q] EXCEPT !.dueIn = wait[q].dueIn - 1, !.waited = wait[q].waited + 1]
    BY <1>1, <2>1
  <2>3. PICK old : old = wait[q]
    OBVIOUS
  <2>4. old \in WaitRow
    BY <1>2, <2>1, <2>3
  <2>5. PICK d \in Int : d = old.dueIn - 1
    BY <2>4 DEF WaitRow
  <2>6. PICK t \in Nat : t = old.waited + 1
    BY <2>4 DEF WaitRow
  <2>7. wait'[q] = [old EXCEPT !.dueIn = d, !.waited = t]
    BY <2>2, <2>3, <2>5, <2>6
  <2>8. /\ wait'[q] \in WaitRow /\ wait'[q].status = old.status
        /\ wait'[q].attempts = old.attempts /\ wait'[q].dueIn = d /\ wait'[q].waited = t
    BY <2>4, <2>7 DEF WaitRow
  <2> QED BY <2>3, <2>5, <2>6, <2>8
<1>4. \A q \in Reversals \ Pending : wait'[q] = wait[q]
  BY <1>1
<1> HIDE <1>1
<1>5. wait' = [r \in Reversals |-> wait'[r]]
  BY <1>1
<1>6. wait' \in [Reversals -> WaitRow]
  BY <1>2, <1>3, <1>4, <1>5
<1>7. Pending' = Pending
  BY <1>3, <1>4 DEF Pending
<1> QED BY <1>3, <1>6, <1>7

\* Every step keeps WaitInv.
LEMMA WaitStep == WaitInv /\ [WaitNext]_waitVars => WaitInv'
<1> SUFFICES ASSUME WaitInv, [WaitNext]_waitVars
             PROVE  WaitInv'
  OBVIOUS
<1>1. ASSUME NEW r \in Reversals, Park(r) PROVE WaitInv'
  <2>1. PICK row : Rewrites(r, row)
    BY <1>1, ParkRewrites
  <2> QED BY <1>1, <2>1, RewriteKeepsWaitInv DEF Park
<1>2. ASSUME NEW r \in Reversals, ReferenceArrives(r) PROVE WaitInv'
  BY <1>2 DEF ReferenceArrives, WaitInv, WaitTypeOK, Pending
<1>3. CASE Elapse
  <2>1. /\ wait' \in [Reversals -> WaitRow] /\ Pending' = Pending
        /\ \A q \in Pending : /\ wait'[q].attempts = wait[q].attempts
                              /\ wait'[q].dueIn = wait[q].dueIn - 1
                              /\ wait'[q].waited = wait[q].waited + 1
    BY <1>3, ElapsedRows
  <2>2. \A q \in Reversals : wait'[q].status
           \in {"received", "PENDING_REFERENCE", "PROCESSED", "REJECTED"}
    BY <2>1 DEF WaitRow
  <2>3. \A q \in Pending : wait[q].dueIn \in Int /\ wait[q].waited \in Int
    BY DEF Pending, WaitInv, WaitRow
  <2>4. \A q \in Pending' : wait'[q].waited + wait'[q].dueIn < WaitTtl + MaxBackoff
    BY <2>1, <2>3 DEF WaitInv
  <2>5. \A q \in Pending' : wait'[q].attempts \in 1 .. MaxLooks
    BY <2>1 DEF WaitInv, WaitTypeOK, Pending
  <2>6. /\ arrived' = arrived /\ handled' = handled /\ errors' = errors /\ handled = -1
        /\ tickIn' \in 0 .. Interval
    <3>1. tickIn > 0 /\ tickIn' = tickIn - 1 /\ tickIn \in 0 .. Interval
      BY <1>3 DEF Elapse, WaitInv, WaitTypeOK
    <3>2. tickIn' \in 0 .. Interval
      BY <3>1, WaitAssumption
    <3> QED BY <1>3, <3>2 DEF Elapse
  <2> QED BY <2>1, <2>2, <2>4, <2>5, <2>6 DEF WaitInv, WaitTypeOK
<1>4. CASE TickFires
  BY <1>4, WaitAssumption DEF TickFires, WaitInv, WaitTypeOK, Pending
<1>5. CASE HandleOne
  <2>1. PICK r, row : Rewrites(r, row)
    BY <1>5, HandleOneRewrites
  <2> QED BY <1>5, <2>1, RewriteKeepsWaitInv DEF HandleOne
<1>6. CASE HandleFails
  BY <1>6, WaitAssumption DEF HandleFails, WaitInv, WaitTypeOK, Pending
<1>7. CASE BatchEnds
  BY <1>7, WaitAssumption DEF BatchEnds, WaitInv, WaitTypeOK, Pending
<1>8. CASE UNCHANGED waitVars
  BY <1>8 DEF waitVars, WaitInv, WaitTypeOK, Pending
<1> QED BY <1>1, <1>2, <1>3, <1>4, <1>5, <1>6, <1>7, <1>8 DEF WaitNext

-----------------------------------------------------------------------------
(* The turn of a row that is due.                                           *)

\* Other rows are at most all the others.
LEMMA SomeOtherRows ==
    ASSUME NEW r \in Reversals, NEW S \in SUBSET (Reversals \ {r})
    PROVE  /\ IsFiniteSet(S) /\ Cardinality(S) \in 0 .. Cardinality(Reversals) - 1
           /\ Cardinality(Reversals) \in Nat
<1>1. IsFiniteSet(Reversals)
  BY WaitAssumption
<1>2. /\ IsFiniteSet(Reversals \ {r}) /\ Cardinality(Reversals) \in Nat
      /\ Cardinality(Reversals \ {r}) = Cardinality(Reversals) - 1
  BY <1>1, FS_RemoveElement, FS_CardinalityType
<1>3. /\ IsFiniteSet(S) /\ Cardinality(S) \in Nat
      /\ Cardinality(S) <= Cardinality(Reversals \ {r})
  BY <1>2, FS_Subset, FS_CardinalityType
<1> QED BY <1>2, <1>3

Bounded(a, h, t, e) ==
    /\ a \in 0 .. Cardinality(Reversals) - 1 /\ h \in -1 .. WaitBatch
    /\ t \in 0 .. Interval /\ e \in 0 .. MaxErrors

\* Whoever has just become due has its turn in time, whatever is ahead.
LEMMA FirstTurnIsInTime ==
    ASSUME NEW a, NEW h, NEW t, NEW e, Bounded(a, h, t, e), Cardinality(Reversals) \in Nat
    PROVE  TurnBound(a, h, t, e) \in Nat /\ TurnBound(a, h, t, e) <= Queueing
<1>1. PICK n \in Nat : n = Cardinality(Reversals) - 1
  BY DEF Bounded
<1>2. a \in Nat /\ a <= n /\ Interval \in Nat \ {0} /\ WaitBatch \in Nat \ {0} /\ MaxErrors \in Nat
  BY <1>1, WaitAssumption DEF Bounded
<1>3. PICK m \in Nat : m = n \div WaitBatch
  BY <1>2, Quotient
<1>4. PICK f \in Nat : f = MaxErrors - e /\ f <= MaxErrors
  BY <1>2 DEF Bounded
<1>5. Queueing = Interval * (1 + m + MaxErrors)
  BY <1>1, <1>3 DEF Queueing
<1>6. CASE h = -1
  <2>1. PICK k \in Nat : k = a \div WaitBatch /\ k <= m
    BY <1>2, <1>3, Quotient, QuotientIsMonotonic
  <2>2. PICK x \in Nat : x = Interval * (k + f)
    BY <1>2
  <2>3. TurnBound(a, h, t, e) = t + x
    BY <1>4, <1>6, <2>1, <2>2 DEF TurnBound
  <2>4. t \in Nat /\ t <= Interval
    BY <1>2 DEF Bounded
  <2>5. x <= Interval * (m + MaxErrors)
    BY <1>2, <1>4, <2>1, <2>2, TimesKeepsOrder
  <2>6. Interval * (1 + m + MaxErrors) = Interval + Interval * (m + MaxErrors)
    BY <1>2
  <2>7. PICK y \in Nat : y = Interval * (m + MaxErrors)
    BY <1>2
  <2> QED BY <1>2, <1>5, <2>2, <2>3, <2>4, <2>5, <2>6, <2>7
<1>7. CASE h # -1
  <2>1. h \in Nat /\ h <= WaitBatch
    BY <1>2, <1>7 DEF Bounded
  <2>2. (n + WaitBatch) \div WaitBatch = m + 1
    BY <1>2, <1>3, QuotientOfOneMore
  <2>3. a + h \in Nat /\ n + WaitBatch \in Nat /\ a + h <= n + WaitBatch
    BY <1>2, <2>1
  <2>4. PICK k \in Nat : k = (a + h) \div WaitBatch /\ k <= m + 1
    BY <1>2, <2>2, <2>3, Quotient, QuotientIsMonotonic
  <2>5. TurnBound(a, h, t, e) = Interval * (k + f)
    BY <1>4, <1>7, <2>4 DEF TurnBound
  <2>6. Interval * (k + f) <= Interval * (1 + m + MaxErrors)
    BY <1>2, <1>4, <2>4, TimesKeepsOrder
  <2> QED BY <1>2, <1>5, <2>5, <2>6
<1> QED BY <1>6, <1>7

\* A tick begins the batch that was counted on.
LEMMA TurnAtATick ==
    ASSUME NEW a \in Nat, NEW e \in 0 .. MaxErrors
    PROVE  TurnBound(a, 0, Interval, e) = TurnBound(a, -1, 0, e)
<1>1. PICK k \in Nat : k = a \div WaitBatch
  BY WaitAssumption, Quotient
<1>2. PICK f \in Int : f = MaxErrors - e
  BY WaitAssumption
<1>3. PICK x \in Int : x = Interval * (k + f)
  BY WaitAssumption, <1>1, <1>2
<1>4. a + 0 = a
  OBVIOUS
<1>5. TurnBound(a, 0, Interval, e) = x
  BY <1>1, <1>2, <1>3, <1>4 DEF TurnBound
<1>6. TurnBound(a, -1, 0, e) = x
  BY <1>1, <1>2, <1>3 DEF TurnBound
<1> QED BY <1>5, <1>6

\* A row ahead that is handled takes one place of the batch.
LEMMA TurnAfterOne ==
    ASSUME NEW a \in Nat \ {0}, NEW h \in Nat, NEW t, NEW e
    PROVE  TurnBound(a - 1, h + 1, t, e) = TurnBound(a, h, t, e)
<1>1. (a - 1) + (h + 1) = a + h /\ h # -1 /\ h + 1 # -1
  OBVIOUS
<1> QED BY <1>1 DEF TurnBound

\* An error costs the interval it was given.
LEMMA TurnAfterAnError ==
    ASSUME NEW a \in Nat, NEW h \in Nat, NEW e \in 0 .. MaxErrors, e < MaxErrors
    PROVE  TurnBound(a, -1, Interval, e + 1) <= TurnBound(a, h, Interval, e)
<1>0. Interval \in Nat \ {0} /\ WaitBatch \in Nat \ {0} /\ MaxErrors \in Nat
  BY WaitAssumption
<1>1. PICK k \in Nat : k = a \div WaitBatch
  BY <1>0, Quotient
<1>2. PICK l \in Nat : l = (a + h) \div WaitBatch /\ k <= l
  BY <1>0, <1>1, Quotient, QuotientIsMonotonic
<1>3. PICK f \in Nat : f = MaxErrors - e /\ MaxErrors - (e + 1) = f - 1
  BY <1>0
<1>4. TurnBound(a, -1, Interval, e + 1) = Interval + Interval * (k + (f - 1))
  BY <1>1, <1>3 DEF TurnBound
<1>5. TurnBound(a, h, Interval, e) = Interval * (l + f)
  BY <1>2, <1>3 DEF TurnBound
<1>6. Interval + Interval * (k + (f - 1)) = Interval * (k + f)
  BY <1>0
<1>7. Interval * (k + f) <= Interval * (l + f)
  BY <1>0, <1>2, TimesKeepsOrder
<1> QED BY <1>4, <1>5, <1>6, <1>7

\* A full batch was all of rows ahead.
LEMMA TurnAfterABatch ==
    ASSUME NEW a \in Nat, NEW e \in 0 .. MaxErrors
    PROVE  TurnBound(a, -1, Interval, e) = TurnBound(a, WaitBatch, Interval, e)
<1>0. Interval \in Nat \ {0} /\ WaitBatch \in Nat \ {0} /\ MaxErrors \in Nat
  BY WaitAssumption
<1>1. PICK k \in Nat : k = a \div WaitBatch /\ (a + WaitBatch) \div WaitBatch = k + 1
  BY <1>0, Quotient, QuotientOfOneMore
<1>2. PICK f \in Nat : f = MaxErrors - e
  BY <1>0
<1>3. TurnBound(a, -1, Interval, e) = Interval + Interval * (k + f)
  BY <1>1, <1>2 DEF TurnBound
<1>4. WaitBatch # -1
  BY <1>0
<1>5. TurnBound(a, WaitBatch, Interval, e) = Interval * ((k + 1) + f)
  BY <1>1, <1>2, <1>4 DEF TurnBound
<1> QED BY <1>0, <1>3, <1>5

InTime(r) == TurnIn(r) - wait[r].dueIn <= Queueing

\* What is known of a waiting row's place.
LEMMA PlaceOf ==
    ASSUME WaitInv, NEW r \in Pending
    PROVE  /\ Bounded(Cardinality(Ahead(r)), handled, tickIn, errors)
           /\ IsFiniteSet(Ahead(r)) /\ Cardinality(Ahead(r)) \in Nat
           /\ Cardinality(Reversals) \in Nat /\ wait[r].dueIn \in Int
<1>1. r \in Reversals /\ Ahead(r) \in SUBSET (Reversals \ {r})
  BY DEF Ahead, Pending
<1>2. /\ IsFiniteSet(Ahead(r)) /\ Cardinality(Ahead(r)) \in 0 .. Cardinality(Reversals) - 1
      /\ Cardinality(Reversals) \in Nat
  BY <1>1, SomeOtherRows
<1>3. wait[r].dueIn \in Int
  BY <1>1 DEF WaitInv, WaitRow
<1> QED BY <1>2, <1>3 DEF WaitInv, WaitTypeOK, Bounded

\* The same after a step.
LEMMA PlaceOfNext ==
    ASSUME WaitInv', NEW r \in Pending'
    PROVE  /\ Bounded(Cardinality(Ahead(r)'), handled', tickIn', errors')
           /\ IsFiniteSet(Ahead(r)') /\ Cardinality(Ahead(r)') \in Nat
           /\ Cardinality(Reversals) \in Nat /\ wait'[r].dueIn \in Int
<1>1. r \in Reversals /\ Ahead(r)' \in SUBSET (Reversals \ {r})
  BY DEF Ahead, Pending
<1>2. PICK S : S = Ahead(r)'
  OBVIOUS
<1>3. /\ IsFiniteSet(S) /\ Cardinality(S) \in 0 .. Cardinality(Reversals) - 1
      /\ Cardinality(Reversals) \in Nat
  BY <1>1, <1>2, SomeOtherRows
<1>4. wait'[r].dueIn \in Int
  BY <1>1 DEF WaitInv, WaitRow
<1>5. handled' \in -1 .. WaitBatch /\ tickIn' \in 0 .. Interval /\ errors' \in 0 .. MaxErrors
  BY DEF WaitInv, WaitTypeOK
<1> QED BY <1>2, <1>3, <1>4, <1>5 DEF Bounded

\* A row whose attempt is still to come, or has just come, is in time.
LEMMA EarlyRowIsInTime ==
    ASSUME WaitInv', NEW r \in Pending', wait'[r].dueIn >= 0
    PROVE  InTime(r)'
<1>1. PICK a : a = Cardinality(Ahead(r)')
  OBVIOUS
<1>2. /\ Bounded(a, handled', tickIn', errors')
      /\ Cardinality(Reversals) \in Nat /\ wait'[r].dueIn \in Int
  BY <1>1, PlaceOfNext
<1>3. PICK b : b = TurnBound(a, handled', tickIn', errors')
  OBVIOUS
<1>4. b \in Nat /\ b <= Queueing
  BY <1>2, <1>3, FirstTurnIsInTime
<1>5. TurnIn(r)' = b
  BY <1>1, <1>3 DEF TurnIn
<1>6. b - wait'[r].dueIn <= b
  BY <1>2, <1>4
<1>7. Queueing \in Int
  BY <1>2, WaitAssumption, Quotient DEF Queueing, Bounded
<1> QED BY <1>2, <1>4, <1>5, <1>6, <1>7 DEF InTime

\* A late row's turn only comes nearer when another row is written.
LEMMA RewriteLeavesAhead ==
    ASSUME WaitInv, NEW q, NEW row, Rewrites(q, row),
           NEW r \in Pending, r # q, wait[r].dueIn < 0
    PROVE  /\ r \in Pending' /\ wait'[r] = wait[r]
           /\ Ahead(r)' = Ahead(r) \ {q}
<1>1. /\ wait'[q] = row /\ \A p \in Reversals \ {q} : wait'[p] = wait[p]
      /\ Pending' \subseteq Pending \cup {q} /\ Pending \subseteq Pending' \cup {q}
  BY RewrittenRows
<1>2. r \in Pending' /\ wait'[r] = wait[r]
  BY <1>1 DEF Pending
<1>3. q \in Pending' => wait'[q].dueIn >= 0 /\ wait'[q].dueIn \in Int
  BY <1>1 DEF Rewrites, Proper, Pending, WaitRow
<1>4. wait[r].dueIn \in Int
  BY PlaceOf
<1>5. q \notin Ahead(r)'
  BY <1>2, <1>3, <1>4 DEF Ahead
<1>6. \A p : p # q => (p \in Ahead(r)' <=> p \in Ahead(r))
  <2> SUFFICES ASSUME NEW p, p # q PROVE p \in Ahead(r)' <=> p \in Ahead(r)
    OBVIOUS
  <2>1. p \in Pending' <=> p \in Pending
    BY <1>1
  <2>2. p \in Pending => wait'[p] = wait[p]
    BY <1>1 DEF Pending
  <2> QED BY <1>2, <2>1, <2>2 DEF Ahead
<1> QED BY <1>2, <1>5, <1>6

\* A step that writes no row and changes no row's place.
LEMMA SamePlace ==
    ASSUME wait' = wait
    PROVE  Pending' = Pending /\ \A r : Ahead(r)' = Ahead(r)
BY DEF Pending, Ahead

\* A late row whose bound does not grow stays in time.
LEMMA StaysInTime ==
    ASSUME NEW r, InTime(r), TurnIn(r) \in Int, TurnIn(r)' \in Int,
           wait[r].dueIn \in Int, wait'[r].dueIn \in Int,
           TurnIn(r)' - wait'[r].dueIn <= TurnIn(r) - wait[r].dueIn,
           Queueing \in Int
    PROVE  InTime(r)'
<1>1. PICK x \in Int : x = TurnIn(r)
  OBVIOUS
<1>2. PICK y \in Int : y = TurnIn(r)'
  OBVIOUS
<1>3. PICK d \in Int : d = wait[r].dueIn
  OBVIOUS
<1>4. PICK c \in Int : c = wait'[r].dueIn
  OBVIOUS
<1>5. x - d <= Queueing /\ y - c <= x - d
  BY <1>1, <1>2, <1>3, <1>4 DEF InTime
<1>6. y - c <= Queueing
  BY <1>5
<1> QED BY <1>2, <1>4, <1>6 DEF InTime

\* The numbers of a late row's bound, before and after a step.
LEMMA TurnIsANumber ==
    ASSUME WaitInv, NEW r \in Pending
    PROVE  TurnIn(r) \in Nat /\ Queueing \in Int
<1>1. PICK a : a = Cardinality(Ahead(r))
  OBVIOUS
<1>2. Bounded(a, handled, tickIn, errors) /\ Cardinality(Reversals) \in Nat
  BY <1>1, PlaceOf
<1>3. TurnBound(a, handled, tickIn, errors) \in Nat
  BY <1>2, FirstTurnIsInTime
<1>4. Queueing \in Int
  BY <1>2, WaitAssumption, Quotient DEF Queueing, Bounded
<1> QED BY <1>1, <1>3, <1>4 DEF TurnIn

\* And after.
LEMMA TurnIsANumberNext ==
    ASSUME WaitInv', NEW r \in Pending'
    PROVE  TurnIn(r)' \in Nat
<1>1. PICK a : a = Cardinality(Ahead(r)')
  OBVIOUS
<1>2. Bounded(a, handled', tickIn', errors') /\ Cardinality(Reversals) \in Nat
  BY <1>1, PlaceOfNext
<1>3. PICK b : b = TurnBound(a, handled', tickIn', errors')
  OBVIOUS
<1>4. b \in Nat
  BY <1>2, <1>3, FirstTurnIsInTime
<1> QED BY <1>1, <1>3, <1>4 DEF TurnIn

\* The row that is written is not late.
LEMMA LateRowIsAnother ==
    ASSUME WaitInv, NEW q, NEW row, Rewrites(q, row),
           NEW r \in Pending', wait'[r].dueIn \in Int, wait'[r].dueIn < 0
    PROVE  r # q /\ r \in Pending /\ wait'[r] = wait[r]
<1>1. /\ wait'[q] = row /\ \A p \in Reversals \ {q} : wait'[p] = wait[p]
      /\ Pending' \subseteq Pending \cup {q}
  BY RewrittenRows
<1>2. r \in Reversals /\ wait'[r].status = "PENDING_REFERENCE"
  BY DEF Pending
<1>3. row.status = "PENDING_REFERENCE" => row.dueIn >= 0
  BY DEF Rewrites, Proper
<1>4. r # q
  BY <1>1, <1>2, <1>3
<1> QED BY <1>1, <1>2, <1>4

\* A step's effect on a late row that is not the one it handles: its bound, less the
\* time it has been due, does not grow.
LEMMA LateRowKeepsItsTurn ==
    ASSUME WaitInv, WaitInv', WaitNext, NEW r \in Pending', wait'[r].dueIn < 0
    PROVE  /\ r \in Pending /\ wait[r].dueIn \in Int
           /\ TurnIn(r)' - wait'[r].dueIn <= TurnIn(r) - wait[r].dueIn
<1>0. r \in Reversals /\ wait'[r].dueIn \in Int
  BY PlaceOfNext DEF Pending
<1>1. ASSUME NEW q \in Reversals, Park(q)
      PROVE  r \in Pending /\ TurnIn(r)' - wait'[r].dueIn <= TurnIn(r) - wait[r].dueIn
  <2>1. PICK row : Rewrites(q, row)
    BY <1>1, ParkRewrites
  <2>2. r # q /\ r \in Pending /\ wait'[r] = wait[r]
    BY <1>0, <2>1, LateRowIsAnother
  <2>3. Ahead(r)' = Ahead(r) \ {q}
    BY <2>1, <2>2, RewriteLeavesAhead
  <2>4. q \notin Ahead(r)
    BY <1>1 DEF Ahead, Pending, Park
  <2>5. TurnIn(r)' = TurnIn(r)
    BY <1>1, <2>3, <2>4 DEF TurnIn, Park
  <2>6. TurnIn(r) \in Nat
    BY <2>2, TurnIsANumber
  <2> QED BY <1>0, <2>2, <2>5, <2>6
<1>2. ASSUME NEW q \in Reversals, ReferenceArrives(q)
      PROVE  r \in Pending /\ TurnIn(r)' - wait'[r].dueIn <= TurnIn(r) - wait[r].dueIn
  <2>1. r \in Pending /\ Ahead(r)' = Ahead(r) /\ wait' = wait
    BY <1>2, SamePlace DEF ReferenceArrives
  <2>2. TurnIn(r)' = TurnIn(r) /\ TurnIn(r) \in Nat
    BY <1>2, <2>1, TurnIsANumber DEF TurnIn, ReferenceArrives
  <2> QED BY <1>0, <2>1, <2>2
<1>3. ASSUME Elapse
      PROVE  r \in Pending /\ TurnIn(r)' - wait'[r].dueIn <= TurnIn(r) - wait[r].dueIn
  <2>1. /\ Pending' = Pending
        /\ \A q \in Pending : wait'[q].dueIn = wait[q].dueIn - 1
    BY <1>3, ElapsedRows
  <2>2. \A q \in Pending : wait[q].dueIn \in Int
    BY PlaceOf
  <2>3. r \in Pending /\ Ahead(r)' = Ahead(r)
    BY <2>1, <2>2 DEF Ahead
  <2>4. PICK a \in Nat : a = Cardinality(Ahead(r))
    BY <2>3, PlaceOf
  <2>5. PICK x \in Int : x = Interval * (a \div WaitBatch + (MaxErrors - errors))
    <3>1. errors \in Int /\ MaxErrors \in Int /\ Interval \in Int /\ a \div WaitBatch \in Int
      BY WaitAssumption, Quotient DEF WaitInv, WaitTypeOK
    <3> QED BY <3>1
  <2>6. tickIn \in Int /\ tickIn' = tickIn - 1 /\ handled = -1 /\ handled' = -1 /\ errors' = errors
    <3>1. tickIn \in Int
      BY DEF WaitInv, WaitTypeOK
    <3> QED BY <1>3, <3>1 DEF Elapse
  <2>7. TurnIn(r) = tickIn + x
    BY <2>4, <2>5, <2>6 DEF TurnIn, TurnBound
  <2>8. TurnIn(r)' = (tickIn - 1) + x
    BY <2>3, <2>4, <2>5, <2>6 DEF TurnIn, TurnBound
  <2>9. PICK d \in Int : d = wait[r].dueIn /\ wait'[r].dueIn = d - 1
    BY <2>1, <2>2, <2>3
  <2>10. ((tickIn - 1) + x) - (d - 1) <= (tickIn + x) - d
    BY <2>5, <2>6, <2>9
  <2> QED BY <2>3, <2>7, <2>8, <2>9, <2>10
<1>4. ASSUME TickFires
      PROVE  r \in Pending /\ TurnIn(r)' - wait'[r].dueIn <= TurnIn(r) - wait[r].dueIn
  <2>1. r \in Pending /\ Ahead(r)' = Ahead(r) /\ wait' = wait
    BY <1>4, SamePlace DEF TickFires
  <2>2. PICK a \in Nat : a = Cardinality(Ahead(r))
    BY <2>1, PlaceOf
  <2>3. errors \in 0 .. MaxErrors
    BY DEF WaitInv, WaitTypeOK
  <2>4. TurnIn(r) = TurnBound(a, -1, 0, errors)
    BY <1>4, <2>2 DEF TurnIn, TickFires
  <2>5. TurnIn(r)' = TurnBound(a, 0, Interval, errors)
    BY <1>4, <2>1, <2>2 DEF TurnIn, TickFires
  <2>6. TurnIn(r)' = TurnIn(r) /\ TurnIn(r) \in Nat
    BY <2>1, <2>2, <2>3, <2>4, <2>5, TurnAtATick, TurnIsANumber
  <2> QED BY <1>0, <2>1, <2>6
<1>5. ASSUME HandleOne
      PROVE  r \in Pending /\ TurnIn(r)' - wait'[r].dueIn <= TurnIn(r) - wait[r].dueIn
  <2>1. PICK q \in Pending : \E row :
           /\ Rewrites(q, row) /\ wait[q].dueIn <= 0
           /\ \A p \in Pending : wait[p].dueIn <= 0 => wait[q].dueIn <= wait[p].dueIn
    BY <1>5, HandleOneRewrites
  <2>2. PICK row : Rewrites(q, row)
    BY <2>1
  <2>3. r # q /\ r \in Pending /\ wait'[r] = wait[r]
    BY <1>0, <2>2, LateRowIsAnother
  <2>4. Ahead(r)' = Ahead(r) \ {q}
    BY <2>2, <2>3, RewriteLeavesAhead
  <2>5. q \in Ahead(r)
    BY <1>0, <2>1, <2>3 DEF Ahead
  <2>6. IsFiniteSet(Ahead(r)) /\ Cardinality(Ahead(r)) \in Nat
    BY <2>3, PlaceOf
  <2>7. PICK a \in Nat \ {0} : a = Cardinality(Ahead(r)) /\ Cardinality(Ahead(r) \ {q}) = a - 1
    BY <2>5, <2>6, FS_RemoveElement, FS_EmptySet
  <2>8. PICK h \in Nat : h = handled /\ handled' = h + 1 /\ tickIn' = tickIn /\ errors' = errors
    BY <1>5, WaitAssumption DEF HandleOne, Working
  <2>9. TurnIn(r) = TurnBound(a, h, tickIn, errors)
    BY <2>7, <2>8 DEF TurnIn
  <2>10. TurnIn(r)' = TurnBound(a - 1, h + 1, tickIn, errors)
    BY <2>4, <2>7, <2>8 DEF TurnIn
  <2>11. TurnIn(r)' = TurnIn(r) /\ TurnIn(r) \in Nat
    BY <2>3, <2>9, <2>10, TurnAfterOne, TurnIsANumber
  <2> QED BY <1>0, <2>3, <2>11
<1>6. ASSUME HandleFails
      PROVE  r \in Pending /\ TurnIn(r)' - wait'[r].dueIn <= TurnIn(r) - wait[r].dueIn
  <2>1. r \in Pending /\ Ahead(r)' = Ahead(r) /\ wait' = wait
    BY <1>6, SamePlace DEF HandleFails
  <2>2. PICK a \in Nat : a = Cardinality(Ahead(r))
    BY <2>1, PlaceOf
  <2>3. errors \in 0 .. MaxErrors /\ errors < MaxErrors /\ handled \in Nat /\ handled' = -1
           /\ errors' = errors + 1 /\ tickIn = Interval /\ tickIn' = tickIn
    BY <1>6, WaitAssumption DEF WaitInv, WaitTypeOK, HandleFails, Working
  <2>4. TurnIn(r) = TurnBound(a, handled, Interval, errors)
    BY <2>2, <2>3 DEF TurnIn
  <2>5. TurnIn(r)' = TurnBound(a, -1, Interval, errors + 1)
    BY <2>1, <2>2, <2>3 DEF TurnIn
  <2>6. TurnIn(r)' <= TurnIn(r)
    BY <2>2, <2>3, <2>4, <2>5, TurnAfterAnError
  <2>7. TurnIn(r) \in Nat /\ TurnIn(r)' \in Nat
    BY <2>1, TurnIsANumber, TurnIsANumberNext
  <2> QED BY <1>0, <2>1, <2>6, <2>7
<1>7. ASSUME BatchEnds
      PROVE  r \in Pending /\ TurnIn(r)' - wait'[r].dueIn <= TurnIn(r) - wait[r].dueIn
  <2>1. r \in Pending /\ Ahead(r)' = Ahead(r) /\ wait' = wait
    BY <1>7, SamePlace DEF BatchEnds
  <2>2. PICK a \in Nat : a = Cardinality(Ahead(r))
    BY <2>1, PlaceOf
  <2>3. r \in Due
    BY <1>0, <2>1 DEF Due
  <2>4. errors \in 0 .. MaxErrors /\ handled = WaitBatch /\ handled' = -1
           /\ errors' = errors /\ tickIn = Interval /\ tickIn' = tickIn
    BY <1>7, <2>3, WaitAssumption DEF WaitInv, WaitTypeOK, BatchEnds
  <2>5. TurnIn(r) = TurnBound(a, WaitBatch, Interval, errors)
    BY <2>2, <2>4 DEF TurnIn
  <2>6. TurnIn(r)' = TurnBound(a, -1, Interval, errors)
    BY <2>1, <2>2, <2>4 DEF TurnIn
  <2>7. TurnIn(r)' = TurnIn(r) /\ TurnIn(r) \in Nat
    BY <2>1, <2>2, <2>4, <2>5, <2>6, TurnAfterABatch, TurnIsANumber
  <2> QED BY <1>0, <2>1, <2>7
<1>8. r \in Pending /\ TurnIn(r)' - wait'[r].dueIn <= TurnIn(r) - wait[r].dueIn
  BY <1>1, <1>2, <1>3, <1>4, <1>5, <1>6, <1>7 DEF WaitNext
<1> QED BY <1>8, PlaceOf

\* Every step keeps the turns in time.
LEMMA TurnStep == WaitInv /\ TurnInv /\ WaitInv' /\ [WaitNext]_waitVars => TurnInv'
<1> SUFFICES ASSUME WaitInv, TurnInv, WaitInv', [WaitNext]_waitVars, NEW r \in Pending'
             PROVE  InTime(r)'
  BY DEF TurnInv, InTime
<1>0. wait'[r].dueIn \in Int
  BY PlaceOfNext
<1>1. CASE wait'[r].dueIn >= 0
  BY <1>1, EarlyRowIsInTime
<1>2. CASE WaitNext /\ wait'[r].dueIn < 0
  <2>1. /\ r \in Pending /\ wait[r].dueIn \in Int
        /\ TurnIn(r)' - wait'[r].dueIn <= TurnIn(r) - wait[r].dueIn
    BY <1>2, LateRowKeepsItsTurn
  <2>2. InTime(r)
    BY <2>1 DEF TurnInv, InTime
  <2>3. TurnIn(r) \in Int /\ TurnIn(r)' \in Int /\ Queueing \in Int
    BY <2>1, TurnIsANumber, TurnIsANumberNext
  <2> QED BY <1>0, <2>1, <2>2, <2>3, StaysInTime
<1>3. CASE UNCHANGED waitVars
  <2>1. r \in Pending /\ Ahead(r)' = Ahead(r) /\ wait' = wait
    BY <1>3, SamePlace DEF waitVars
  <2> QED BY <1>3, <2>1 DEF waitVars, TurnInv, InTime, TurnIn
<1> QED BY <1>0, <1>1, <1>2, <1>3

\* Nobody waits at the start.
LEMMA WaitStart == WaitInit => WaitInv /\ TurnInv
<1> SUFFICES ASSUME WaitInit PROVE WaitInv /\ TurnInv
  OBVIOUS
<1>1. Pending = {}
  BY DEF Pending, WaitInit, Resting
<1>2. wait \in [Reversals -> WaitRow]
  BY DEF WaitInit, Resting, WaitRow
<1> QED BY <1>1, <1>2, WaitAssumption DEF WaitInv, TurnInv, WaitTypeOK, WaitInit, Resting

\* What the invariant says of the wait: the deadline and a backoff until a row is due,
\* and its turn after that.
LEMMA TurnsBoundTheWait == WaitInv /\ TurnInv => WaitIsBounded
<1> SUFFICES ASSUME WaitInv, TurnInv, NEW r \in Pending
             PROVE  wait[r].waited < WaitTtl + MaxBackoff + Queueing
  BY DEF WaitIsBounded
<1>1. PICK d \in Int : d = wait[r].dueIn
  BY PlaceOf
<1>2. PICK n \in Nat : n = wait[r].waited
  BY DEF Pending, WaitInv, WaitRow
<1>3. n + d < WaitTtl + MaxBackoff
  BY <1>1, <1>2 DEF WaitInv
<1>4. PICK x \in Nat : x = TurnIn(r) /\ Queueing \in Int
  BY TurnIsANumber
<1>5. x - d <= Queueing
  BY <1>1, <1>4 DEF TurnInv
<1>6. n < WaitTtl + MaxBackoff + Queueing
  BY <1>3, <1>4, <1>5, WaitAssumption
<1> QED BY <1>2, <1>6

\* WaitTypeOK and WaitIsBounded, for any number of reversals, any policy and any number
\* of errors: a parked reversal is settled within its deadline, one backoff and the
\* batches that the rows ahead of it and the errors can take (RunOnce, handleOne,
\* ClaimDueReferences' order).
THEOREM WaitIsBoundedHolds == WaitSpec => [](WaitTypeOK /\ WaitIsBounded)
<1>1. WaitInv /\ TurnInv => WaitTypeOK /\ WaitIsBounded
  BY TurnsBoundTheWait DEF WaitInv
<1>2. WaitInv /\ TurnInv /\ [WaitNext]_waitVars => WaitInv' /\ TurnInv'
  BY WaitStep, TurnStep
<1> QED BY <1>1, <1>2, WaitStart, PTL DEF WaitSpec

-----------------------------------------------------------------------------
(* No reversal is given up on early.                                        *)

HalfWindows == [a \in 1 .. MaxLooks |-> Window(a) \div 2]

\* Half of a window is a number.
LEMMA HalfWindowIsANumber ==
    ASSUME NEW a \in 1 .. MaxLooks
    PROVE  HalfWindows[a] \in Nat /\ HalfWindows[a] = Window(a) \div 2
<1>1. PICK n \in 0 .. MaxBackoff : n = Window(a)
  BY WindowIsBounded, WaitAssumption
<1>2. n \in Nat
  BY <1>1, WaitAssumption
<1>3. n \div 2 \in Nat
  BY <1>2, Quotient
<1> QED BY <1>1, <1>3 DEF HalfWindows

\* So is the shortest wait for some attempts.
LEMMA ShortestWaitIsANumber ==
    ASSUME NEW n \in 0 .. MaxLooks
    PROVE  ShortestWait(n) \in Int
<1>1. IsFiniteSet(1 .. n)
  BY FS_Interval
<1>2. \A a \in 1 .. n : HalfWindows[a] \in Int
  <2> SUFFICES ASSUME NEW a \in 1 .. n PROVE HalfWindows[a] \in Int
    OBVIOUS
  <2>1. a \in 1 .. MaxLooks
    BY WaitAssumption
  <2> QED BY <2>1, HalfWindowIsANumber
<1>3. PICK S : S = 1 .. n
  OBVIOUS
<1>4. SumFunctionOnSet(HalfWindows, S) \in Int
  BY <1>1, <1>2, <1>3, SumIsAnInteger
<1> QED BY <1>3, <1>4 DEF ShortestWait, HalfWindows

\* An attempt more waits half its window more.
LEMMA ShortestWaitGrows ==
    ASSUME NEW n \in 0 .. MaxLooks, n < MaxLooks
    PROVE  ShortestWait(n + 1) = Window(n + 1) \div 2 + ShortestWait(n)
<1>1. IsFiniteSet(1 .. n)
  BY FS_Interval
<1>2. PICK S : S = 1 .. n
  OBVIOUS
<1>3. PICK m : m = n + 1 /\ m \in 1 .. MaxLooks
  BY WaitAssumption
<1>4. S \cup {m} = 1 .. m /\ m \notin S /\ S \cup {m} \subseteq 1 .. MaxLooks
  BY <1>2, <1>3, WaitAssumption
<1>5. \A a \in S \cup {m} : HalfWindows[a] \in Int
  BY <1>4, HalfWindowIsANumber
<1>6. SumFunctionOnSet(HalfWindows, S \cup {m})
         = HalfWindows[m] + SumFunctionOnSet(HalfWindows, S)
  BY <1>1, <1>2, <1>4, <1>5, SumOfOneMore
<1>7. HalfWindows[m] = Window(m) \div 2
  BY <1>3, HalfWindowIsANumber
<1>8. ShortestWait(m) = SumFunctionOnSet(HalfWindows, S \cup {m})
  BY <1>4 DEF ShortestWait, HalfWindows
<1>9. ShortestWait(n) = SumFunctionOnSet(HalfWindows, S)
  BY <1>2 DEF ShortestWait, HalfWindows
<1> QED BY <1>3, <1>6, <1>7, <1>8, <1>9

\* By its next attempt a row has waited for every attempt it has made.
PatienceInv ==
    \A r \in Pending : ShortestWait(wait[r].attempts) <= wait[r].waited + wait[r].dueIn

Patient(row) == ShortestWait(row.attempts) <= row.waited + row.dueIn

\* The first wait is the first half window.
LEMMA FirstWait == ShortestWait(1) = Window(1) \div 2
<1>1. ShortestWait(0) = 0
  <2>1. 1 .. 0 = {}
    OBVIOUS
  <2> QED BY <2>1, SumOfNothing DEF ShortestWait
<1>2. 0 \in 0 .. MaxLooks /\ 0 < MaxLooks
  BY WaitAssumption
<1>3. PICK w \in Nat : w = Window(1) \div 2
  BY HalfWindowIsANumber, WaitAssumption
<1>4. ShortestWait(0 + 1) = Window(0 + 1) \div 2 + ShortestWait(0)
  BY <1>2, ShortestWaitGrows
<1> QED BY <1>1, <1>3, <1>4

\* A lookup that finds nothing waits half a window at least, on top of a wait that is over.
LEMMA LookAgainIsPatient ==
    ASSUME WaitInv, PatienceInv, NEW r \in Pending, wait[r].dueIn <= 0, LookAgain(r)
    PROVE  /\ \A q \in Reversals \ {r} : wait'[q] = wait[q]
           /\ Patient(wait'[r])
<1>0. r \in Reversals /\ wait[r] \in WaitRow
  BY DEF Pending, WaitInv
<1>1. wait[r].attempts \in 1 .. MaxLooks /\ ~WaitIsOver(r)
  BY <1>0 DEF WaitInv, WaitTypeOK, LookAgain
<1>2. PICK a \in 1 .. MaxLooks : a = wait[r].attempts /\ a < MaxLooks
  BY <1>1, WaitAssumption DEF WaitIsOver
<1>3. PICK d \in NextAttemptIn(a + 1) :
         wait' = [wait EXCEPT ![r].attempts = a + 1, ![r].dueIn = d]
  BY <1>2 DEF LookAgain
<1>4. PICK n \in Nat : n = wait[r].waited
  BY <1>0 DEF WaitRow
<1>5. /\ wait'[r].attempts = a + 1 /\ wait'[r].dueIn = d /\ wait'[r].waited = n
      /\ \A q \in Reversals \ {r} : wait'[q] = wait[q]
  BY <1>0, <1>3, <1>4 DEF WaitInv, WaitRow
<1>6. PICK w \in Nat : w = Window(a + 1) \div 2
  <2>1. a + 1 \in 1 .. MaxLooks
    BY <1>2, WaitAssumption
  <2> QED BY <2>1, HalfWindowIsANumber
<1>7. d \in Int /\ d >= w
  BY <1>3, <1>6 DEF NextAttemptIn
<1>8. PICK s \in Int : s = ShortestWait(a) /\ ShortestWait(a + 1) = w + s
  <2>1. a \in 0 .. MaxLooks
    OBVIOUS
  <2> QED BY <1>2, <1>6, <2>1, ShortestWaitIsANumber, ShortestWaitGrows
<1>9. PICK e \in Int : e = wait[r].dueIn
  BY <1>0 DEF WaitRow
<1>10. s <= n + e
  BY <1>2, <1>4, <1>8, <1>9 DEF PatienceInv
<1>11. w + s <= n + d
  BY <1>4, <1>6, <1>7, <1>8, <1>9, <1>10
<1> QED BY <1>5, <1>8, <1>11 DEF Patient

\* Every step keeps PatienceInv.
LEMMA PatienceStep == WaitInv /\ PatienceInv /\ [WaitNext]_waitVars => PatienceInv'
<1> SUFFICES ASSUME WaitInv, PatienceInv, [WaitNext]_waitVars, NEW r \in Pending'
             PROVE  Patient(wait'[r])
  BY DEF PatienceInv, Patient
<1>0. /\ r \in Reversals /\ wait'[r].status = "PENDING_REFERENCE"
      /\ (r \in Pending => Patient(wait[r]))
  BY DEF Pending, PatienceInv, Patient
<1>1. ASSUME wait' = wait PROVE Patient(wait'[r])
  BY <1>0, <1>1 DEF Pending
<1>2. ASSUME NEW q \in Reversals, Park(q) PROVE Patient(wait'[r])
  <2>1. CASE r = q
    <3>1. PICK d \in NextAttemptIn(1) :
             wait' = [wait EXCEPT ![r] = [status |-> "PENDING_REFERENCE", attempts |-> 1,
                                          dueIn |-> d, waited |-> 0]]
      BY <1>2, <2>1 DEF Park
    <3>2. wait'[r].attempts = 1 /\ wait'[r].dueIn = d /\ wait'[r].waited = 0
      BY <1>0, <3>1 DEF WaitInv
    <3>3. PICK w \in Nat : w = Window(1) \div 2
      BY HalfWindowIsANumber, WaitAssumption
    <3>4. d \in Int /\ d >= w /\ ShortestWait(1) = w
      BY <3>1, <3>3, FirstWait DEF NextAttemptIn
    <3>5. w <= 0 + d
      BY <3>3, <3>4
    <3> QED BY <3>2, <3>4, <3>5 DEF Patient
  <2>2. CASE r # q
    BY <1>0, <1>2, <2>2 DEF Park, WaitInv, Pending
  <2> QED BY <2>1, <2>2
<1>3. ASSUME Elapse PROVE Patient(wait'[r])
  <2>1. /\ r \in Pending /\ wait'[r].attempts = wait[r].attempts
        /\ wait'[r].dueIn = wait[r].dueIn - 1 /\ wait'[r].waited = wait[r].waited + 1
    BY <1>3, ElapsedRows
  <2>2. wait[r].dueIn \in Int /\ wait[r].waited \in Int
    BY <1>0 DEF WaitInv, WaitRow
  <2>3. wait'[r].waited + wait'[r].dueIn = wait[r].waited + wait[r].dueIn
    BY <2>1, <2>2
  <2> QED BY <1>0, <2>1, <2>3 DEF Patient
<1>4. ASSUME HandleOne PROVE Patient(wait'[r])
  <2>1. PICK q \in ClaimableReferences : Resolve(q) \/ GiveUp(q) \/ LookAgain(q)
    BY <1>4 DEF HandleOne
  <2>2. q \in Pending /\ q \in Reversals /\ wait[q].dueIn <= 0
    BY DEF ClaimableReferences, Due, Pending
  <2>3. CASE LookAgain(q)
    <3>1. (\A p \in Reversals \ {q} : wait'[p] = wait[p]) /\ Patient(wait'[q])
      BY <2>2, <2>3, LookAgainIsPatient
    <3>2. CASE r = q
      BY <3>1, <3>2
    <3>3. CASE r # q
      <4>1. wait'[r] = wait[r]
        BY <1>0, <3>1, <3>3
      <4> QED BY <1>0, <4>1 DEF Pending
    <3> QED BY <3>2, <3>3
  <2>4. CASE Resolve(q) \/ GiveUp(q)
    <3>1. PICK s \in {"PROCESSED", "REJECTED"} : wait' = [wait EXCEPT ![q] = Settled(s)]
      BY <2>4 DEF Resolve, GiveUp
    <3>2. wait'[q].status # "PENDING_REFERENCE" /\ \A p \in Reversals \ {q} : wait'[p] = wait[p]
      BY <2>2, <3>1 DEF Settled, Resting, WaitInv
    <3>3. wait'[r] = wait[r]
      BY <1>0, <3>2
    <3> QED BY <1>0, <3>3 DEF Pending
  <2> QED BY <2>1, <2>3, <2>4
<1>5. ASSUME NEW q \in Reversals, ReferenceArrives(q) PROVE Patient(wait'[r])
  BY <1>1, <1>5 DEF ReferenceArrives
<1>6. ASSUME TickFires \/ HandleFails \/ BatchEnds \/ UNCHANGED waitVars
      PROVE  Patient(wait'[r])
  BY <1>1, <1>6 DEF TickFires, HandleFails, BatchEnds, waitVars
<1> QED BY <1>2, <1>3, <1>4, <1>5, <1>6 DEF WaitNext

GivenUpInTime ==
    \A r \in Reversals :
        r \in Pending /\ wait'[r].status = "REJECTED"
            => wait[r].waited >= Min({WaitTtl, ShortestWait(MaxLooks)})

\* A step that gives up on a row does so in a lookup whose wait is over.
LEMMA GiveUpIsPatient ==
    WaitInv /\ PatienceInv /\ [WaitNext]_waitVars => [GivenUpInTime]_waitVars
<1> SUFFICES ASSUME WaitInv, PatienceInv, WaitNext,
                    NEW r \in Pending, wait'[r].status = "REJECTED"
             PROVE  wait[r].waited >= Min({WaitTtl, ShortestWait(MaxLooks)})
  BY DEF GivenUpInTime, Pending
<1>0. r \in Reversals /\ wait[r] \in WaitRow /\ wait[r].status = "PENDING_REFERENCE"
  BY DEF Pending, WaitInv
<1>1. HandleOne
  <2>1. wait' # wait
    BY <1>0
  <2>2. ~Elapse
    <3>1. ASSUME Elapse PROVE wait'[r].status = "PENDING_REFERENCE"
      BY <3>1, ElapsedRows DEF Pending
    <3> QED BY <3>1
  <2>3. \A q \in Reversals : ~Park(q)
    <3>1. ASSUME NEW q \in Reversals, Park(q) PROVE FALSE
      <4>1. r # q
        BY <1>0, <3>1 DEF Park
      <4>2. wait'[r] = wait[r]
        BY <1>0, <3>1, <4>1 DEF Park, WaitInv
      <4> QED BY <1>0, <4>2
    <3> QED BY <3>1
  <2> QED BY <2>1, <2>2, <2>3 DEF WaitNext, ReferenceArrives, TickFires, HandleFails, BatchEnds
<1>2. PICK q \in ClaimableReferences : Resolve(q) \/ GiveUp(q) \/ LookAgain(q)
  BY <1>1 DEF HandleOne
<1>3. q \in Pending /\ q \in Reversals /\ wait[q].dueIn <= 0
  BY DEF ClaimableReferences, Due, Pending
<1>4. \A p \in Reversals \ {q} : wait'[p] = wait[p]
  BY <1>2, <1>3 DEF Resolve, GiveUp, LookAgain, WaitInv
<1>5. r = q
  BY <1>0, <1>4
<1>6. GiveUp(r)
  <2>1. ~Resolve(r)
    BY <1>0 DEF Resolve, Settled, Resting, WaitInv
  <2>2. ~LookAgain(r)
    <3>1. ASSUME LookAgain(r) PROVE wait'[r].status = wait[r].status
      BY <1>0, <3>1 DEF LookAgain, WaitInv, WaitRow
    <3> QED BY <1>0, <3>1
  <2> QED BY <1>2, <1>5, <2>1, <2>2
<1>7. PICK n \in Nat : n = wait[r].waited
  BY <1>0 DEF WaitRow
<1>8. PICK e \in Int : e = wait[r].dueIn /\ e <= 0
  BY <1>0, <1>3, <1>5 DEF WaitRow
<1>9. PICK s \in Int : s = ShortestWait(MaxLooks)
  BY ShortestWaitIsANumber, WaitAssumption
<1>10. n >= WaitTtl \/ n >= s
  <2>1. CASE n >= WaitTtl
    BY <2>1
  <2>2. CASE wait[r].attempts >= MaxLooks
    <3>1. wait[r].attempts = MaxLooks
      BY <1>0, <2>2, WaitAssumption DEF WaitInv, WaitTypeOK
    <3>2. s <= n + e
      BY <1>7, <1>8, <1>9, <3>1 DEF PatienceInv
    <3> QED BY <1>7, <1>8, <1>9, <3>2
  <2> QED BY <1>6, <1>7, <2>1, <2>2 DEF GiveUp, WaitIsOver
<1>11. PICK m : m = Min({WaitTtl, s})
  OBVIOUS
<1>12. m \in {WaitTtl, s} /\ \A y \in {WaitTtl, s} : m <= y
  <2>1. \E x \in {WaitTtl, s} : \A y \in {WaitTtl, s} : x <= y
    BY <1>9, WaitAssumption
  <2> QED BY <1>11, <2>1 DEF Min
<1>13. n >= m
  BY <1>7, <1>9, <1>10, <1>12, WaitAssumption
<1> QED BY <1>7, <1>9, <1>11, <1>13

\* GivenUpAfterTheWait, for any policy and any number of reversals: handleOne rejects a
\* reversal only when its deadline has passed or every attempt it was promised has been
\* made, each after half its window at least.
THEOREM GivenUpAfterTheWaitHolds == WaitSpec => GivenUpAfterTheWait
<1>1. WaitInit => PatienceInv
  <2>1. WaitInit => Pending = {}
    BY DEF Pending, WaitInit, Resting
  <2> QED BY <2>1 DEF PatienceInv
<1>2. WaitSpec => [][GivenUpInTime]_waitVars
  BY <1>1, WaitStart, WaitStep, PatienceStep, GiveUpIsPatient, PTL DEF WaitSpec
<1> QED BY <1>2 DEF GivenUpAfterTheWait, GivenUpInTime

-----------------------------------------------------------------------------
(* The life of an instance.                                                 *)

\* The place of a loop's hook in the order.
At(l) == IF l = "worker" THEN 4 ELSE IF l = "consumers" THEN 5 ELSE 6

\* How far starting and stopping have come.
StagesInv ==
    /\ pool \in {"open", "closing", "closed"} /\ listening \in BOOLEAN /\ called \in BOOLEAN
    /\ phase = "starting" => started < 6
    /\ phase = "running" => started = 6
    /\ phase \in {"starting", "running"} => ~called /\ pool = "open"
    /\ called => started > 0

\* A loop runs from its OnStart to its OnStop, and no longer than that waits for it.
LoopInv(l) ==
    /\ started < At(l) => loop[l] \in {"off", "returned"}
    /\ started < At(l) /\ phase = "starting" => loop[l] = "off"
    /\ started >= At(l) /\ ~(started = At(l) /\ called) => loop[l] \in {"idle", "busy"}
    /\ started = At(l) /\ called => loop[l] \in {"cancelled", "returned"}

\* The server accepts from its OnStart to its OnStop, which waits for every request or
\* cuts it off.
ServerInv ==
    /\ started < 3 \/ (started = 3 /\ called) => ~listening
    /\ started < 3 => \A r \in Calls : call[r] # "open"

\* The pool closes from its OnStop on, and is closed when every connection is back; it
\* stays open only where nothing started and no request ever came.
PoolInv ==
    /\ pool = "closing" => started = 2 /\ called
    /\ pool = "closed" => started < 2 /\ using = {}
    /\ started < 2 /\ pool = "open" => \A r \in Calls : call[r] \notin {"open", "unwinding"}
    /\ phase \in {"stopping", "exited"} /\ started < 2 /\ pool = "open" =>
          \A l \in Loops : loop[l] = "off"
    /\ phase = "exited" /\ grace > 0 => started = 0

LoopsInv == \A l \in Loops : LoopInv(l)

\* LifeTypeOK with the number of hooks.
LifeTypes ==
    /\ phase \in {"starting", "running", "stopping", "exited"}
    /\ started \in 0 .. 6 /\ grace \in 0 .. Grace /\ drain \in 0 .. DrainTime
    /\ loop \in [Loops -> {"off", "idle", "busy", "cancelled", "returned"}]
    /\ call \in [Calls -> {"none", "open", "answered", "unwinding", "cut"}]
    /\ \A r \in using : r \in Calls /\ call[r] \in {"open", "unwinding"}
    /\ hand # {} => loop["consumers"] \in {"busy", "cancelled"}

LifeInv == LifeTypes /\ StagesInv /\ LoopsInv /\ ServerInv /\ PoolInv

\* The hooks by number.
LEMMA HooksInOrder ==
    /\ Len(Hooks) = 6 /\ DOMAIN Hooks = 1 .. 6
    /\ Hooks[1] = "metrics" /\ Hooks[2] = "pool" /\ Hooks[3] = "server"
    /\ Hooks[4] = "worker" /\ Hooks[5] = "consumers" /\ Hooks[6] = "publisher"
BY DEF Hooks

\* Which hook is being stopped says how many are still started.
LEMMA StoppingAt ==
    ASSUME LifeInv, NEW h, Stopping(h)
    PROVE  /\ started \in 1 .. 6 /\ phase = "stopping"
           /\ started = 1 <=> h = "metrics"
           /\ started = 2 <=> h = "pool"
           /\ started = 3 <=> h = "server"
           /\ started = 4 <=> h = "worker"
           /\ started = 5 <=> h = "consumers"
           /\ started = 6 <=> h = "publisher"
           /\ h \in Loops <=> started >= 4
           /\ h \in Loops => At(h) = started
<1>1. started \in 1 .. 6 /\ phase = "stopping" /\ Hooks[started] = h
  BY DEF LifeInv, LifeTypes, Stopping
<1>2. started = 1 \/ started = 2 \/ started = 3 \/ started = 4 \/ started = 5 \/ started = 6
  BY <1>1
<1> QED BY <1>1, <1>2, HooksInOrder DEF Loops, At

\* OnStart.
LEMMA StartHookKeeps ==
    ASSUME LifeInv, StartHook
    PROVE  LifeInv'
<1>1. started \in 0 .. 5 /\ started' = started + 1 /\ phase = "starting" /\ ~called
  BY DEF LifeInv, LifeTypes, StagesInv, StartHook
<1>2. PICK h : h = Hooks[started + 1]
  OBVIOUS
<1>3. /\ h \in Loops <=> started + 1 >= 4
      /\ h = "server" <=> started + 1 = 3
      /\ \A l \in Loops : h = l <=> started + 1 = At(l)
  <2>1. started = 0 \/ started = 1 \/ started = 2 \/ started = 3 \/ started = 4 \/ started = 5
    BY <1>1
  <2> QED BY <1>2, <2>1, HooksInOrder DEF Loops, At
<1>4. /\ loop' = IF h \in Loops THEN [loop EXCEPT ![h] = "idle"] ELSE loop
      /\ listening' = (listening \/ h = "server")
      /\ phase' = IF started + 1 = 6 THEN "running" ELSE "starting"
      /\ UNCHANGED <<called, grace, drain, call, using, hand, settled, pool>>
  BY <1>1, <1>2, HooksInOrder DEF StartHook, RunLoop, Listen, timing, queueing
<1>5. LifeTypes'
  <2>1. hand # {} => h # "consumers"
    BY <1>1, <1>3 DEF LifeInv, LifeTypes, LoopsInv, LoopInv, At, Loops
  <2> QED BY <1>1, <1>3, <1>4, <2>1 DEF LifeInv, LifeTypes, Loops
<1>6. StagesInv'
  BY <1>1, <1>4 DEF LifeInv, StagesInv
<1>7. ASSUME NEW l \in Loops PROVE LoopInv(l)'
  <2>1. LoopInv(l) /\ loop \in [Loops -> {"off", "idle", "busy", "cancelled", "returned"}]
    BY DEF LifeInv, LoopsInv, LifeTypes
  <2>2. PICK k : k \in 4 .. 6 /\ k = At(l) /\ k = At(l)'
    BY DEF At
  <2>3. CASE h = l
    BY <1>1, <1>3, <1>4, <2>1, <2>2, <2>3 DEF LoopInv
  <2>4. CASE h # l
    BY <1>1, <1>3, <1>4, <2>1, <2>2, <2>4 DEF LoopInv
  <2> QED BY <2>3, <2>4
<1>8. LoopsInv'
  BY <1>7 DEF LoopsInv
<1>9. ServerInv'
  BY <1>1, <1>3, <1>4 DEF LifeInv, ServerInv, StagesInv
<1>10. PoolInv'
  BY <1>1, <1>4 DEF LifeInv, PoolInv, StagesInv
<1> QED BY <1>5, <1>6, <1>8, <1>9, <1>10 DEF LifeInv

\* The stop signal, and a listener that cannot open, change the phase and leave alone
\* what runs.
LEMMA StopBegins ==
    ASSUME LifeInv, StartFails \/ Signal
    PROVE  LifeInv'
<1>1. /\ phase \in {"starting", "running"} /\ phase' = "stopping" /\ grace' \in 0 .. Grace
      /\ UNCHANGED <<started, called, drain, call, using, hand, loop, listening, pool>>
  BY LifecycleAssumption DEF StartFails, Signal, queueing, serving
<1>2. LifeTypes'
  BY <1>1, LifecycleAssumption DEF LifeInv, LifeTypes
<1>3. StagesInv' /\ ServerInv'
  BY <1>1 DEF LifeInv, StagesInv, ServerInv
<1>4. LoopsInv'
  BY <1>1 DEF LifeInv, LoopsInv, LoopInv, At
<1>5. PoolInv'
  <2>1. phase = "starting" /\ started < 2 => \A l \in Loops : loop[l] = "off"
    BY DEF LifeInv, LifeTypes, LoopsInv, LoopInv, At
  <2> QED BY <1>1, <2>1 DEF LifeInv, PoolInv, StagesInv
<1> QED BY <1>2, <1>3, <1>4, <1>5 DEF LifeInv

\* The process ends when every hook has stopped or the stop timeout passes.
LEMMA ProcessEnds ==
    ASSUME LifeInv, Exit \/ GraceExpires
    PROVE  LifeInv'
<1>1. /\ phase = "stopping" /\ phase' = "exited" /\ (started = 0 \/ grace = 0)
      /\ UNCHANGED <<started, called, grace, drain, call, using, hand, loop, listening, pool>>
  BY DEF Exit, GraceExpires, timing, queueing, serving
<1>2. LifeTypes' /\ ServerInv'
  BY <1>1 DEF LifeInv, LifeTypes, ServerInv
<1>3. StagesInv' /\ PoolInv'
  BY <1>1 DEF LifeInv, LifeTypes, StagesInv, PoolInv
<1>4. LoopsInv'
  BY <1>1 DEF LifeInv, LoopsInv, LoopInv, At
<1> QED BY <1>2, <1>3, <1>4 DEF LifeInv

\* A request is accepted only by a server that listens.
LEMMA CallsKeep ==
    ASSUME LifeInv, NEW r \in Calls, AcceptCall(r) \/ AnswerCall(r) \/ Unwind(r)
    PROVE  LifeInv'
<1>1. UNCHANGED <<phase, started, called, grace, drain, using, hand, loop, listening, pool>>
  BY DEF AcceptCall, AnswerCall, Unwind, hooking, timing, queueing
<1>2. \/ listening /\ call[r] = "none" /\ call' = [call EXCEPT ![r] = "open"]
      \/ r \notin using /\ call' = [call EXCEPT ![r] = "answered"]
      \/ r \notin using /\ call' = [call EXCEPT ![r] = "cut"]
  BY DEF AcceptCall, AnswerCall, Unwind
<1>3. LifeTypes'
  BY <1>1, <1>2 DEF LifeInv, LifeTypes
<1>4. StagesInv'
  BY <1>1 DEF LifeInv, StagesInv
<1>5. LoopsInv'
  BY <1>1 DEF LifeInv, LoopsInv, LoopInv, At
<1>6. ServerInv' /\ PoolInv'
  BY <1>1, <1>2 DEF LifeInv, LifeTypes, ServerInv, PoolInv
<1> QED BY <1>3, <1>4, <1>5, <1>6 DEF LifeInv

\* A connection is taken by a request that is being handled, from a pool that is open.
LEMMA ConnectionsKeep ==
    ASSUME LifeInv, NEW r \in Calls, AcquireConn(r) \/ ReleaseConn(r)
    PROVE  LifeInv'
<1>1. UNCHANGED <<phase, started, called, grace, drain, call, hand, loop, listening, pool>>
  BY DEF AcquireConn, ReleaseConn, hooking, timing, queueing
<1>2. \/ pool = "open" /\ call[r] \in {"open", "unwinding"} /\ using' = using \cup {r}
      \/ using' = using \ {r}
  BY DEF AcquireConn, ReleaseConn
<1>3. LifeTypes'
  BY <1>1, <1>2 DEF LifeInv, LifeTypes
<1>4. StagesInv' /\ ServerInv'
  BY <1>1 DEF LifeInv, StagesInv, ServerInv
<1>5. LoopsInv'
  BY <1>1 DEF LifeInv, LoopsInv, LoopInv, At
<1>6. PoolInv'
  BY <1>1, <1>2 DEF LifeInv, PoolInv
<1> QED BY <1>3, <1>4, <1>5, <1>6 DEF LifeInv

\* A loop that works was started and goes from idle to busy and back, or returns once it
\* is cancelled.
LEMMA LoopStep ==
    ASSUME LifeInv, NEW l \in Loops,
           UNCHANGED <<phase, started, called, grace, drain, call, using, listening, pool>>,
           \/ loop[l] \in {"idle", "busy"} /\ \E to \in {"idle", "busy"} : loop' = [loop EXCEPT ![l] = to]
           \/ loop[l] = "cancelled" /\ loop' = [loop EXCEPT ![l] = "returned"],
           hand' # {} => loop'["consumers"] \in {"busy", "cancelled"}
    PROVE  LifeInv'
<1>1. LifeTypes'
  BY DEF LifeInv, LifeTypes
<1>2. StagesInv' /\ ServerInv'
  BY DEF LifeInv, StagesInv, ServerInv
<1>3. ASSUME NEW k \in Loops PROVE LoopInv(k)'
  <2>1. LoopInv(k) /\ loop \in [Loops -> {"off", "idle", "busy", "cancelled", "returned"}]
        /\ started \in 0 .. 6
    BY DEF LifeInv, LoopsInv, LifeTypes
  <2>2. PICK n : n \in 4 .. 6 /\ n = At(k) /\ n = At(k)'
    BY DEF At
  <2>3. CASE k = l
    BY <2>1, <2>2, <2>3 DEF LoopInv
  <2>4. CASE k # l
    BY <2>1, <2>2, <2>4 DEF LoopInv
  <2> QED BY <2>3, <2>4
<1>4. LoopsInv'
  BY <1>3 DEF LoopsInv
<1>5. PoolInv'
  BY DEF LifeInv, PoolInv
<1> QED BY <1>1, <1>2, <1>4, <1>5 DEF LifeInv

\* The work of the loops.
LEMMA LoopsKeep ==
    ASSUME LifeInv,
           \/ \E l \in Loops : TakeWork(l) \/ WorkDone(l)
           \/ \E ms \in SUBSET Inbound : ReceiveBatch(ms)
           \/ \E m \in Inbound : HandleMessage(m)
    PROVE  LifeInv'
<1>0. /\ loop \in [Loops -> {"off", "idle", "busy", "cancelled", "returned"}]
      /\ hand # {} => loop["consumers"] \in {"busy", "cancelled"}
      /\ "consumers" \in Loops
  BY DEF LifeInv, LifeTypes, Loops
<1>1. ASSUME NEW l \in Loops, TakeWork(l) \/ WorkDone(l) PROVE LifeInv'
  <2>1. /\ UNCHANGED <<phase, started, called, grace, drain, call, using, listening, pool>>
        /\ UNCHANGED hand /\ l # "consumers"
    BY <1>1 DEF TakeWork, WorkDone, hooking, timing, serving, queueing
  <2>2. \/ loop[l] \in {"idle", "busy"} /\ \E to \in {"idle", "busy"} : loop' = [loop EXCEPT ![l] = to]
        \/ loop[l] = "cancelled" /\ loop' = [loop EXCEPT ![l] = "returned"]
    BY <1>1 DEF TakeWork, WorkDone
  <2>3. hand' # {} => loop'["consumers"] \in {"busy", "cancelled"}
    BY <1>0, <2>1, <2>2
  <2> QED BY <2>1, <2>2, <2>3, LoopStep
<1>2. ASSUME NEW ms \in SUBSET Inbound, ReceiveBatch(ms) PROVE LifeInv'
  <2>1. /\ UNCHANGED <<phase, started, called, grace, drain, call, using, listening, pool>>
        /\ loop["consumers"] = "idle" /\ loop' = [loop EXCEPT !["consumers"] = "busy"]
    BY <1>2 DEF ReceiveBatch, hooking, timing, serving
  <2>2. loop'["consumers"] = "busy"
    BY <1>0, <2>1
  <2> QED BY <1>0, <2>1, <2>2, LoopStep
<1>3. ASSUME NEW m \in Inbound, HandleMessage(m) PROVE LifeInv'
  <2>1. /\ UNCHANGED <<phase, started, called, grace, drain, call, using, listening, pool>>
        /\ loop["consumers"] \in {"busy", "cancelled"}
        /\ loop' = IF hand' # {} THEN loop
                   ELSE [loop EXCEPT !["consumers"] = IF @ = "busy" THEN "idle" ELSE "returned"]
    BY <1>3 DEF HandleMessage, BatchGoesOn, AfterMessage, hooking, timing, serving
  <2>2. CASE hand' # {}
    <3>1. loop' = loop
      BY <2>1, <2>2
    <3>2. LifeTypes'
      BY <2>1, <3>1 DEF LifeInv, LifeTypes
    <3>3. StagesInv' /\ ServerInv' /\ PoolInv'
      BY <2>1, <3>1 DEF LifeInv, StagesInv, ServerInv, PoolInv
    <3>4. LoopsInv'
      BY <2>1, <3>1 DEF LifeInv, LoopsInv, LoopInv, At
    <3> QED BY <3>2, <3>3, <3>4 DEF LifeInv
  <2>3. CASE hand' = {}
    <3>1. \/ loop["consumers"] = "busy" /\ loop' = [loop EXCEPT !["consumers"] = "idle"]
          \/ loop["consumers"] = "cancelled" /\ loop' = [loop EXCEPT !["consumers"] = "returned"]
      BY <2>1, <2>3
    <3> QED BY <1>0, <2>1, <2>3, <3>1, LoopStep
  <2> QED BY <2>2, <2>3
<1> QED BY <1>1, <1>2, <1>3

\* What an OnStop does first: the loop is cancelled, the listener closed.
LEMMA CallStopKeeps ==
    ASSUME LifeInv, NEW h, CallStop(h)
    PROVE  LifeInv'
<1>0. /\ loop \in [Loops -> {"off", "idle", "busy", "cancelled", "returned"}]
      /\ hand # {} => loop["consumers"] \in {"busy", "cancelled"}
      /\ DrainTime \in Nat /\ "consumers" \in Loops
  BY LifecycleAssumption DEF LifeInv, LifeTypes, Loops
<1>1. /\ started \in 1 .. 6 /\ phase = "stopping" /\ (h = "server" <=> started = 3)
      /\ (h = "pool" <=> started = 2)
      /\ \A l \in Loops : l = h <=> started = At(l)
  <2>1. Stopping(h)
    BY DEF CallStop
  <2>2. \A l \in Loops : l = "worker" \/ l = "consumers" \/ l = "publisher"
    BY DEF Loops
  <2> QED BY <2>1, <2>2, StoppingAt DEF At
<1>2. /\ ~called /\ called' = TRUE
      /\ loop' = IF h \in Loops THEN [loop EXCEPT ![h] = Cancelled(@)] ELSE loop
      /\ listening' = (listening /\ h # "server")
      /\ drain' = IF h = "server" THEN DrainTime ELSE drain
      /\ pool' = IF h = "pool" THEN "closing" ELSE pool
      /\ UNCHANGED <<phase, started, grace, call, using, hand>>
  BY DEF CallStop, CancelLoop, StopListening, DrainLeft, RefuseAcquire, queueing
<1>3. ASSUME NEW l \in Loops
      PROVE  /\ l # h => loop'[l] = loop[l]
             /\ l = h => /\ loop[l] \in {"idle", "busy"}
                         /\ loop'[l] = IF loop[l] = "idle" THEN "returned" ELSE "cancelled"
  <2>1. l = h => loop[l] \in {"idle", "busy"}
    BY <1>1, <1>2 DEF LifeInv, LoopsInv, LoopInv
  <2> QED BY <1>0, <1>2, <2>1 DEF Cancelled
<1>4. LifeTypes'
  <2>1. loop' \in [Loops -> {"off", "idle", "busy", "cancelled", "returned"}]
    BY <1>0, <1>2 DEF Cancelled
  <2>2. hand' # {} => loop'["consumers"] \in {"busy", "cancelled"}
    BY <1>0, <1>2, <1>3
  <2> QED BY <1>0, <1>2, <2>1, <2>2 DEF LifeInv, LifeTypes
<1>5. StagesInv'
  BY <1>1, <1>2 DEF LifeInv, StagesInv
<1>6. ASSUME NEW l \in Loops PROVE LoopInv(l)'
  <2>1. LoopInv(l)
    BY DEF LifeInv, LoopsInv
  <2>2. PICK n : n \in 4 .. 6 /\ n = At(l) /\ n = At(l)'
    BY DEF At
  <2>3. CASE l = h
    BY <1>1, <1>2, <1>3, <2>1, <2>2, <2>3 DEF LoopInv
  <2>4. CASE l # h
    BY <1>1, <1>2, <1>3, <2>1, <2>2, <2>4 DEF LoopInv
  <2> QED BY <2>3, <2>4
<1>7. LoopsInv'
  BY <1>6 DEF LoopsInv
<1>8. ServerInv'
  BY <1>1, <1>2 DEF LifeInv, ServerInv
<1>9. PoolInv'
  <2>1. started < 2 => UNCHANGED loop
    BY <1>1, <1>2 DEF At
  <2> QED BY <1>1, <1>2, <2>1 DEF LifeInv, PoolInv
<1> QED BY <1>4, <1>5, <1>7, <1>8, <1>9 DEF LifeInv

\* What an OnStop waits for is over when the next hook's turn comes.
LEMMA StopReturnsKeeps ==
    ASSUME LifeInv, NEW h, StopReturns(h)
    PROVE  LifeInv'
<1>1. /\ started \in 1 .. 6 /\ phase = "stopping"
      /\ (h = "server" <=> started = 3) /\ (h = "pool" <=> started = 2)
      /\ \A l \in Loops : l = h <=> started = At(l)
  <2>1. Stopping(h)
    BY DEF StopReturns
  <2>2. \A l \in Loops : l = "worker" \/ l = "consumers" \/ l = "publisher"
    BY DEF Loops
  <2> QED BY <2>1, <2>2, StoppingAt DEF At
<1>2. /\ called /\ called' = FALSE /\ started' = started - 1
      /\ pool' = IF h = "pool" THEN "closed" ELSE pool
      /\ UNCHANGED <<phase, grace, drain, call, using, listening, hand, loop>>
  BY DEF StopReturns, timing, serving, queueing
<1>3. /\ h \in Loops => loop[h] = "returned"
      /\ h = "server" => \A r \in Calls : call[r] # "open"
      /\ h = "pool" => using = {}
  BY DEF StopReturns, StopDone, PublisherDone, ConsumersDone, WorkerDone, ServerDrained,
         ConnectionsBack, InFlight, Loops
<1>4. LifeTypes'
  BY <1>1, <1>2 DEF LifeInv, LifeTypes
<1>5. StagesInv'
  BY <1>1, <1>2 DEF LifeInv, StagesInv
<1>6. ASSUME NEW l \in Loops PROVE LoopInv(l)'
  <2>1. LoopInv(l) /\ (l = h <=> started = At(l)) /\ (l = h => loop[l] = "returned")
    BY <1>1, <1>3 DEF LifeInv, LoopsInv
  <2>2. PICK n : n \in 4 .. 6 /\ n = At(l) /\ n = At(l)'
    BY DEF At
  <2> QED BY <1>1, <1>2, <2>1, <2>2 DEF LoopInv
<1>7. LoopsInv'
  BY <1>6 DEF LoopsInv
<1>8. ServerInv'
  BY <1>1, <1>2, <1>3 DEF LifeInv, ServerInv
<1>9. PoolInv'
  BY <1>1, <1>2, <1>3 DEF LifeInv, PoolInv, StagesInv
<1> QED BY <1>4, <1>5, <1>7, <1>8, <1>9 DEF LifeInv

\* Time passes, and the drain is closed when its time is up.
LEMMA DrainKeeps ==
    ASSUME LifeInv, CloseServer \/ PassGrace
    PROVE  LifeInv'
<1>1. CASE CloseServer
  <2>1. /\ UNCHANGED <<phase, started, called, grace, drain, using, listening, hand, loop, pool>>
        /\ Stopping("server") /\ call \in [Calls -> {"none", "open", "answered", "unwinding", "cut"}]
        /\ call' = [r \in Calls |-> IF call[r] = "open" THEN "unwinding" ELSE call[r]]
    BY <1>1 DEF CloseServer, hooking, timing, queueing, LifeInv, LifeTypes
  <2>2. started = 3
    BY <2>1, StoppingAt
  <2>3. LifeTypes'
    BY <2>1 DEF LifeInv, LifeTypes
  <2>4. StagesInv' /\ PoolInv'
    BY <2>1, <2>2 DEF LifeInv, StagesInv, PoolInv
  <2>5. LoopsInv'
    BY <2>1 DEF LifeInv, LoopsInv, LoopInv, At
  <2>6. ServerInv'
    BY <2>1, <2>2 DEF LifeInv, ServerInv
  <2> QED BY <2>3, <2>4, <2>5, <2>6 DEF LifeInv
<1>2. CASE PassGrace
  <2>1. /\ UNCHANGED <<phase, started, called, call, using, listening, hand, loop, pool>>
        /\ phase = "stopping" /\ grace' = grace - 1 /\ grace > 0
        /\ drain' = drain \/ (drain' = drain - 1 /\ drain # 0)
    BY <1>2 DEF PassGrace, hooking, serving, queueing
  <2>2. LifeTypes'
    BY <2>1, LifecycleAssumption DEF LifeInv, LifeTypes
  <2>3. StagesInv' /\ PoolInv'
    BY <2>1 DEF LifeInv, StagesInv, PoolInv
  <2>4. LoopsInv'
    BY <2>1 DEF LifeInv, LoopsInv, LoopInv, At
  <2>5. ServerInv'
    BY <2>1 DEF LifeInv, ServerInv
  <2> QED BY <2>2, <2>3, <2>4, <2>5 DEF LifeInv
<1> QED BY <1>1, <1>2

\* Every step keeps the invariant.
LEMMA LifeInvStep == LifeInv /\ [LifeNext]_lifeVars => LifeInv'
<1> SUFFICES ASSUME LifeInv, [LifeNext]_lifeVars PROVE LifeInv'
  OBVIOUS
<1>1. CASE UNCHANGED lifeVars
  <2>1. UNCHANGED <<phase, started, called, grace, drain, call, using, listening, hand, loop, pool>>
    BY <1>1 DEF lifeVars, hooking, timing, serving, queueing
  <2>2. LifeTypes' /\ StagesInv' /\ PoolInv' /\ ServerInv'
    BY <2>1 DEF LifeInv, LifeTypes, StagesInv, PoolInv, ServerInv
  <2>3. LoopsInv'
    BY <2>1 DEF LifeInv, LoopsInv, LoopInv, At
  <2> QED BY <2>2, <2>3 DEF LifeInv
<1>2. CASE StopSteps
  BY <1>2, CallStopKeeps, StopReturnsKeeps, DrainKeeps, ProcessEnds DEF StopSteps
<1>3. CASE WorkSteps
  BY <1>3, CallsKeep, ConnectionsKeep, LoopsKeep DEF WorkSteps
<1> QED BY <1>1, <1>2, <1>3, StartHookKeeps, StopBegins DEF LifeNext, Gone

\* Nothing runs at first.
LEMMA LifeInvInit == LifeInit => LifeInv
<1> SUFFICES ASSUME LifeInit PROVE LifeInv
  OBVIOUS
<1>1. LifeTypes
  BY LifecycleAssumption DEF LifeInit, LifeTypes
<1>2. StagesInv
  <2>1. listening \in BOOLEAN /\ called \in BOOLEAN /\ ~called
    BY Zenon DEF LifeInit
  <2>2. pool = "open" /\ phase = "starting" /\ started = 0
    BY DEF LifeInit
  <2> QED BY <2>1, <2>2 DEF StagesInv
<1>3. ServerInv
  BY DEF LifeInit, ServerInv
<1>4. PoolInv
  BY DEF LifeInit, PoolInv
<1>5. LoopsInv
  BY DEF LifeInit, LoopsInv, LoopInv, At
<1> QED BY <1>1, <1>2, <1>3, <1>4, <1>5 DEF LifeInv

\* In every reachable state of an instance.
THEOREM LifeInvariant == LifeSpec => []LifeInv
BY LifeInvInit, LifeInvStep, PTL DEF LifeSpec

\* Below the server's hook nothing runs that can still be answered.
LEMMA NothingRunsBelow ==
    ASSUME LifeInv, started < 3
    PROVE  /\ \A l \in Loops : loop[l] \in {"off", "returned"}
           /\ ~listening /\ InFlight({"open"}) = {} /\ hand = {}
<1>1. \A l \in Loops : loop[l] \in {"off", "returned"}
  BY DEF LifeInv, LifeTypes, LoopsInv, LoopInv, At
<1>2. ~listening /\ InFlight({"open"}) = {}
  BY DEF LifeInv, LifeTypes, ServerInv, InFlight
<1>3. hand = {}
  BY <1>1 DEF LifeInv, LifeTypes, Loops
<1> QED BY <1>1, <1>2, <1>3

\* For any number of requests and messages, any timeouts and any batch, the pool refuses
\* nobody that can still be answered and is closed with no transaction open on it (the
\* order of Hooks, what each OnStop waits for, and pool.Close, which waits for the
\* connections that are out and not for the handlers that were cut off).
THEOREM PoolIsClosedLast == LifeSpec => []PoolClosedLast
<1>1. LifeInv /\ pool # "open" => started < 3
  BY DEF LifeInv, LifeTypes, StagesInv, PoolInv
<1>2. LifeInv => PoolClosedLast
  BY <1>1, NothingRunsBelow DEF LifeInv, PoolInv, PoolClosedLast
<1> QED BY <1>2, LifeInvariant, PTL

\* A process that ends before its stop timeout leaves nothing half done (main and the
\* OnStop hooks).
THEOREM ExitIsAlwaysClean == LifeSpec => []ExitIsClean
<1>1. ASSUME LifeInv, phase = "exited", grace > 0
      PROVE  /\ hand = {} /\ ~listening /\ InFlight({"open"}) = {} /\ using = {}
             /\ \A l \in Loops : loop[l] \in {"off", "returned"}
             /\ pool = "closed" \/ \A l \in Loops : loop[l] = "off"
  <2>1. started = 0
    BY <1>1 DEF LifeInv, PoolInv
  <2>2. pool = "closed" \/ \A l \in Loops : loop[l] = "off"
    BY <1>1, <2>1 DEF LifeInv, PoolInv, StagesInv
  <2>3. using = {}
    <3>1. pool = "closed" => using = {}
      BY <1>1 DEF LifeInv, PoolInv
    <3>2. pool # "closed" => pool = "open"
      BY <1>1, <2>1 DEF LifeInv, StagesInv, PoolInv
    <3>3. pool = "open" => \A r \in Calls : call[r] \notin {"open", "unwinding"}
      BY <1>1, <2>1 DEF LifeInv, PoolInv
    <3>4. \A r \in using : r \in Calls /\ call[r] \in {"open", "unwinding"}
      BY <1>1 DEF LifeInv, LifeTypes
    <3> QED BY <3>1, <3>2, <3>3, <3>4
  <2> QED BY <1>1, <2>1, <2>2, <2>3, NothingRunsBelow
<1>2. LifeInv => ExitIsClean
  BY <1>1 DEF ExitIsClean
<1> QED BY <1>2, LifeInvariant, PTL

-----------------------------------------------------------------------------
(* Side by side.                                                            *)

\* LifeTypeOK: a message is in hand only while a consumer works on it.
THEOREM LifeTypeCorrect == LifeSpec => []LifeTypeOK
<1>1. LifeInv => LifeTypeOK
  BY HooksInOrder DEF LifeInv, LifeTypes, StagesInv, LifeTypeOK, InFlight
<1> QED BY <1>1, LifeInvariant, PTL

\* Each part's steps are its own: what is proved of a part holds beside the others.
THEOREM BackgroundIsItsParts == Spec => OutboxSpec /\ WaitSpec /\ LifeSpec
<1>1. Init => OutboxInit /\ WaitInit /\ LifeInit
  BY DEF Init
<1>2. ASSUME [Next]_vars
      PROVE  [OutboxNext]_outboxVars /\ [WaitNext]_waitVars /\ [LifeNext]_lifeVars
  <2>1. CASE UNCHANGED vars
    BY <2>1 DEF vars
  <2>2. CASE Next
    BY <2>2, Zenon DEF Next, Outbox, Wait, Life
  <2> QED BY <1>2, <2>1, <2>2
<1> QED BY <1>1, <1>2, PTL DEF Spec, OutboxSpec, WaitSpec, LifeSpec

\* The types of the wait and of the instance, for every value of their constants:
\* attempts within the policy, messages only in a busy consumer's hand.
THEOREM BackgroundTypeCorrect == Spec => []BackgroundTypeOK
<1>1. WaitTypeOK /\ LifeTypeOK => BackgroundTypeOK
  BY DEF BackgroundTypeOK
<1> QED BY <1>1, BackgroundIsItsParts, WaitIsBoundedHolds, LifeTypeCorrect, PTL
=============================================================================
