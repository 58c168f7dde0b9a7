----------------------------- MODULE EdgeProofs -----------------------------
(***************************************************************************)
(* Proofs about what surrounds the core, for any number of providers,      *)
(* callers, keys, wallets and movements: what a provider is answered, the  *)
(* cache of the issuer's keys, and the reads beside the movements.  The    *)
(* parts share no state; each theorem is about the specification of one,   *)
(* and the last carries the types to all of them side by side.             *)
(***************************************************************************)
EXTENDS MCEdges, OutboxProofs, SumProofs, SequenceTheorems

-----------------------------------------------------------------------------
(* Isolation.                                                               *)

\* Who is a provider owns nothing of anybody else's.
LEMMA ProvidersOwnTheirOwn ==
    ASSUME NEW i \in Identities, i.provider # NoProvider, NEW p, Owns(i, p)
    PROVE  p = i.provider
BY DEF Owns

\* The rows a provider's own operations hold are the ones its questions are about.
LEMMA OwnRows ==
    ASSUME NEW i, NEW e
    PROVE  Row(ops, i.provider, e) = Row(OwnOps(i), i.provider, e)
BY DEF Row, OwnOps

\* TransactionQueries.Get looks at nobody else's operation.
LEMMA GetIsIsolated ==
    ASSUME NEW i \in Identities, i.provider # NoProvider, NEW id
    PROVE  GetAnswer(i, ops, id) = GetAnswer(i, OwnOps(i), id)
<1>1. {o \in ops : o.id = id /\ Owns(i, o.provider)}
         = {o \in OwnOps(i) : o.id = id /\ Owns(i, o.provider)}
  BY ProvidersOwnTheirOwn DEF OwnOps
<1> QED BY <1>1 DEF GetAnswer

\* Neither does TransactionQueries.GetByBusinessID.
LEMMA FindIsIsolated ==
    ASSUME NEW i \in Identities, i.provider # NoProvider, NEW p, NEW e
    PROVE  FindAnswer(i, ops, p, e) = FindAnswer(i, OwnOps(i), p, e)
<1>1. CASE Owns(i, p)
  <2>1. p = i.provider
    BY <1>1, ProvidersOwnTheirOwn
  <2>2. Row(ops, p, e) = Row(OwnOps(i), p, e)
    BY <2>1, OwnRows
  <2> QED BY <2>2 DEF FindAnswer
<1>2. CASE ~Owns(i, p)
  BY <1>2 DEF FindAnswer
<1> QED BY <1>1, <1>2

\* A submission neither replays nor collides with another provider's operation.
LEMMA SubmitIsIsolated ==
    ASSUME NEW i \in Identities, i.provider # NoProvider, NEW q \in Commands
    PROVE  SubmitAnswer(i, ops, q) = SubmitAnswer(i, OwnOps(i), q)
<1>1. CASE MayActAs(i, q.provider)
  <2>1. i.provider = q.provider
    BY <1>1 DEF MayActAs
  <2>2. Row(ops, q.provider, q.external) = Row(OwnOps(i), q.provider, q.external)
    BY <2>1, OwnRows
  <2>3. KeyUsed(ops, q) = KeyUsed(OwnOps(i), q)
    BY <2>1 DEF KeyUsed, OwnOps
  <2> QED BY <2>2, <2>3 DEF SubmitAnswer
<1>2. CASE ~MayActAs(i, q.provider)
  BY <1>2 DEF SubmitAnswer
<1> QED BY <1>1, <1>2

\* For any providers, operations and credentials, what a provider is answered depends
\* on its own operations alone (Identity.owns, Identity.mayActAs, the keys of the indexes).
THEOREM ProvidersAreAlwaysIsolated == IsolationSpec => []ProvidersAreIsolated
<1>1. ProvidersAreIsolated
  BY GetIsIsolated, FindIsIsolated, SubmitIsIsolated DEF ProvidersAreIsolated
<1> QED BY <1>1, PTL

-----------------------------------------------------------------------------
(* The cache of the issuer's keys.                                          *)

Lookups == [kid : Kids \cup {Idle.kid}, waited : 0 .. MaxAge, stage : Open \cup Ended]

Replies == {<< >>} \cup {<<ks>> : ks \in SUBSET Kids}

Fetches == [by : Callers, why : {"stale", "unknown"}, out : 0 .. Patience, reply : Replies]

\* A fetch is out, and the mutex is held.
Busy == fetching # << >>

\* A fetch is out for at most the client's timeout.
KeyTypes ==
    /\ issued \subseteq Kids /\ keys \subseteq Kids
    /\ age \in 0 .. MaxAge /\ since \in [Kids -> 0 .. MaxAge]
    /\ lookup \in [Callers -> Lookups]
    /\ line \in Seq(Callers)
    /\ Busy => DOMAIN fetching = {1} /\ fetching[1] \in Fetches
    /\ extra \in [ago : 0 .. MaxAge, failed : BOOLEAN]

\* Whoever waits is in line once, and whoever fetches is not.
LineInv ==
    /\ \A c \in Callers : lookup[c].stage \in Open => lookup[c].kid \in Kids
    /\ Busy => lookup[fetching[1].by].stage = "fetching"
    /\ \A i \in DOMAIN line : lookup[line[i]].stage = "waiting"
    /\ \A i, j \in DOMAIN line : line[i] = line[j] => i = j

\* The set is no older than the last fetch an unknown id forced, unless that failed.
FloorInv ==
    extra.failed = FALSE => (Busy /\ fetching[1].why = "unknown") \/ age <= extra.ago

\* Where the cache differs from the issuer, the issuer has changed since the reply.
RotationInv ==
    /\ keys # {} =>
          \A k \in Kids : ~(k \in keys <=> k \in issued) => since[k] <= age + Patience
    /\ Busy /\ fetching[1].reply # << >> =>
          \A k \in Kids : ~(k \in fetching[1].reply[1] <=> k \in issued) =>
                             since[k] <= fetching[1].out

Everybody == Cardinality(Callers)

\* Each lookup ahead in line is one timeout less that was waited so far.
WaitInv ==
    /\ \A c \in Callers : lookup[c].stage \notin Open => lookup[c].waited = 0
    /\ Busy => lookup[fetching[1].by].waited <= (Everybody - 1) * Patience + fetching[1].out
    /\ \A i \in DOMAIN line :
          lookup[line[i]].waited <=
             IF Busy THEN (Everybody - (i + 1)) * Patience + fetching[1].out
             ELSE (Everybody - i) * Patience

KeyInv == KeyTypes /\ LineInv /\ FloorInv /\ RotationInv /\ WaitInv

\* Ages grow by one, up to the bound.
LEMMA Growing ==
    ASSUME NEW a \in 0 .. MaxAge
    PROVE  /\ Older(a) \in 0 .. MaxAge /\ a <= Older(a) /\ Older(a) <= a + 1
           /\ a < MaxAge => Older(a) = a + 1
           /\ \A b \in 0 .. MaxAge : b <= a => Older(b) <= Older(a)
           /\ \A b \in 0 .. MaxAge, p \in Nat : b <= a + p => Older(b) <= Older(a) + p
BY KeySetAssumption DEF Older

\* A lookup that is over.
LEMMA OverAndDone ==
    ASSUME NEW s \in Ended
    PROVE  /\ Idle \in Lookups /\ Idle.waited = 0 /\ Idle.stage \in Ended
           /\ [Idle EXCEPT !.stage = s] \in Lookups
           /\ [Idle EXCEPT !.stage = s].waited = 0 /\ [Idle EXCEPT !.stage = s].stage = s
           /\ s \notin Open
<1>0. PICK k : Idle = [kid |-> k, waited |-> 0, stage |-> "idle"]
  BY Zenon DEF Idle
<1>1. k = Idle.kid /\ Idle = [kid |-> k, waited |-> 0, stage |-> "idle"]
  BY <1>0
<1>2. 0 \in 0 .. MaxAge /\ "idle" \in Ended /\ s \in Open \cup Ended
  BY KeySetAssumption DEF Ended
<1>3. s \notin Open
  BY DEF Ended, Open
<1>4. [Idle EXCEPT !.stage = s] = [kid |-> k, waited |-> 0, stage |-> s]
  BY <1>1
<1> QED BY <1>1, <1>2, <1>3, <1>4 DEF Lookups

\* The parts of a fetch.
LEMMA FetchParts ==
    ASSUME KeyTypes, Busy
    PROVE  /\ fetching[1].by \in Callers /\ fetching[1].why \in {"stale", "unknown"}
           /\ fetching[1].out \in 0 .. Patience /\ fetching[1].reply \in Replies
           /\ fetching[1].reply # << >> => fetching[1].reply[1] \subseteq Kids
<1>1. fetching[1] \in Fetches
  BY DEF KeyTypes
<1> QED BY <1>1 DEF Fetches, Replies

\* What a lookup's parts are.
LEMMA LookupParts ==
    ASSUME KeyTypes, NEW c \in Callers
    PROVE  /\ lookup[c] \in Lookups /\ lookup[c].waited \in 0 .. MaxAge
           /\ lookup[c].stage \in Open \cup Ended
BY DEF KeyTypes, Lookups

\* What a unit of time does: everything gets older, and lookups that are over are forgotten.
LEMMA TimePasses ==
    ASSUME KeyInv, PassTime
    PROVE  /\ UNCHANGED <<issued, keys, line>>
           /\ age' = Older(age) /\ since' = [k \in Kids |-> Older(since[k])]
           /\ extra' = [extra EXCEPT !.ago = Older(@)]
           /\ lookup' = [c \in Callers |->
                            IF lookup[c].stage \in Open
                            THEN [lookup[c] EXCEPT !.waited = Older(@)] ELSE Idle]
           /\ Busy' <=> Busy
           /\ ~Busy => line = << >>
           /\ Busy => /\ fetching[1].out < Patience
                      /\ DOMAIN fetching' = {1}
                      /\ fetching'[1] = [fetching[1] EXCEPT !.out = fetching[1].out + 1]
<1>1. /\ UNCHANGED <<issued, keys, line>>
      /\ age' = Older(age) /\ since' = [k \in Kids |-> Older(since[k])]
      /\ extra' = [extra EXCEPT !.ago = Older(@)]
      /\ lookup' = [c \in Callers |->
                       IF lookup[c].stage \in Open
                       THEN [lookup[c] EXCEPT !.waited = Older(@)] ELSE Idle]
  BY DEF PassTime, Age
<1>2. fetching' = [i \in DOMAIN fetching |-> [fetching[i] EXCEPT !.out = Older(@)]]
  BY DEF PassTime, Age
<1>3. CASE ~Busy
  <2>1. fetching = << >> /\ line = << >>
    BY <1>3 DEF Busy, PassTime
  <2>2. fetching' = << >>
    BY <1>2, <2>1
  <2> QED BY <1>1, <1>3, <2>1, <2>2 DEF Busy
<1>4. CASE Busy
  <2>1. DOMAIN fetching = {1} /\ fetching[1].out \in 0 .. Patience
    BY <1>4, FetchParts DEF KeyInv, KeyTypes
  <2>2. fetching[1].out < Patience
    BY <1>4 DEF Busy, PassTime
  <2>3. Older(fetching[1].out) = fetching[1].out + 1
    BY <2>1, <2>2, KeySetAssumption DEF Older
  <2>4. DOMAIN fetching' = {1} /\ fetching'[1] = [fetching[1] EXCEPT !.out = Older(@)]
    BY <1>2, <2>1
  <2>5. fetching' # << >>
    BY <2>4
  <2> QED BY <1>1, <1>4, <2>2, <2>3, <2>4, <2>5 DEF Busy
<1> QED BY <1>3, <1>4

\* The types after a unit of time.
LEMMA TimeTypes ==
    ASSUME KeyInv, PassTime
    PROVE  KeyTypes'
<1>0. KeyTypes
  BY DEF KeyInv
<1>1. issued' \subseteq Kids /\ keys' \subseteq Kids /\ line' \in Seq(Callers)
  BY <1>0, TimePasses DEF KeyTypes
<1>2. age' \in 0 .. MaxAge /\ since' \in [Kids -> 0 .. MaxAge]
  <2>1. \A k \in Kids : Older(since[k]) \in 0 .. MaxAge
    BY <1>0, Growing DEF KeyTypes
  <2>2. Older(age) \in 0 .. MaxAge
    BY <1>0, Growing DEF KeyTypes
  <2> QED BY <2>1, <2>2, TimePasses
<1>3. lookup' \in [Callers -> Lookups]
  <2>1. ASSUME NEW c \in Callers PROVE [lookup[c] EXCEPT !.waited = Older(@)] \in Lookups
    <3>1. lookup[c] \in Lookups /\ Older(lookup[c].waited) \in 0 .. MaxAge
      BY <1>0, LookupParts, Growing
    <3> QED BY <3>1 DEF Lookups
  <2>2. Idle \in Lookups
    BY OverAndDone DEF Ended
  <2> QED BY <2>1, <2>2, TimePasses
<1>4. Busy' => DOMAIN fetching' = {1} /\ fetching'[1] \in Fetches
  <2>1. SUFFICES ASSUME Busy PROVE DOMAIN fetching' = {1} /\ fetching'[1] \in Fetches
    BY TimePasses
  <2>2. fetching[1] \in Fetches /\ fetching[1].out + 1 \in 0 .. Patience
    BY <1>0, <2>1, TimePasses, FetchParts, KeySetAssumption DEF KeyTypes
  <2>3. [fetching[1] EXCEPT !.out = fetching[1].out + 1] \in Fetches
    BY <2>2 DEF Fetches
  <2> QED BY <2>1, <2>3, TimePasses
<1>5. extra' \in [ago : 0 .. MaxAge, failed : BOOLEAN]
  <2>1. extra \in [ago : 0 .. MaxAge, failed : BOOLEAN] /\ Older(extra.ago) \in 0 .. MaxAge
    BY <1>0, Growing DEF KeyTypes
  <2> QED BY <2>1, TimePasses
<1> QED BY <1>1, <1>2, <1>3, <1>4, <1>5 DEF KeyTypes

\* The rest of the invariant after a unit of time.
LEMMA TimeKeeps ==
    ASSUME KeyInv, PassTime
    PROVE  LineInv' /\ FloorInv' /\ RotationInv' /\ WaitInv'
<1>0. KeyTypes
  BY DEF KeyInv
<1>1. ASSUME NEW c \in Callers
      PROVE  /\ lookup'[c].stage \in Open <=> lookup[c].stage \in Open
             /\ lookup[c].stage \in Open => /\ lookup'[c].stage = lookup[c].stage
                                            /\ lookup'[c].kid = lookup[c].kid
                                            /\ lookup'[c].waited <= lookup[c].waited + 1
                                            /\ lookup'[c].waited \in Nat
             /\ lookup[c].stage \notin Open => lookup'[c].waited = 0
  <2>1. lookup[c] \in Lookups /\ lookup[c].waited \in 0 .. MaxAge
    BY <1>0, LookupParts
  <2>2. CASE lookup[c].stage \in Open
    <3>1. lookup'[c] = [lookup[c] EXCEPT !.waited = Older(@)]
      BY <2>2, TimePasses
    <3>2. lookup'[c].stage = lookup[c].stage /\ lookup'[c].kid = lookup[c].kid
          /\ lookup'[c].waited = Older(lookup[c].waited)
      BY <2>1, <3>1 DEF Lookups
    <3> QED BY <2>1, <2>2, <3>2, Growing
  <2>3. CASE lookup[c].stage \notin Open
    <3>1. lookup'[c] = Idle
      BY <2>3, TimePasses
    <3> QED BY <2>3, <3>1, OverAndDone DEF Ended, Open
  <2> QED BY <2>2, <2>3
<1>2. Busy => /\ Busy' /\ fetching[1].by \in Callers /\ fetching'[1].by = fetching[1].by
              /\ fetching'[1].why = fetching[1].why /\ fetching'[1].reply = fetching[1].reply
              /\ fetching'[1].out = fetching[1].out + 1
              /\ fetching[1].out \in 0 .. Patience
  <2>1. SUFFICES ASSUME Busy
                 PROVE  /\ Busy' /\ fetching[1].by \in Callers /\ fetching'[1].by = fetching[1].by
                        /\ fetching'[1].why = fetching[1].why
                        /\ fetching'[1].reply = fetching[1].reply
                        /\ fetching'[1].out = fetching[1].out + 1
                        /\ fetching[1].out \in 0 .. Patience
    OBVIOUS
  <2>2. fetching'[1] = [fetching[1] EXCEPT !.out = fetching[1].out + 1] /\ Busy'
    BY <2>1, TimePasses
  <2>3. fetching[1] \in Fetches /\ fetching[1].by \in Callers /\ fetching[1].out \in 0 .. Patience
    BY <1>0, <2>1, FetchParts DEF KeyTypes
  <2> QED BY <2>2, <2>3 DEF Fetches
<1>3. /\ (Busy' <=> Busy) /\ line' = line /\ (~Busy => line = << >>)
      /\ issued' = issued /\ keys' = keys
  BY TimePasses
<1>4. \A i \in DOMAIN line : line[i] \in Callers
  BY <1>0 DEF KeyTypes
<1>5. LineInv'
  BY <1>1, <1>2, <1>3, <1>4 DEF KeyInv, LineInv, Open
<1>6. FloorInv'
  <2>1. extra \in [ago : 0 .. MaxAge, failed : BOOLEAN] /\ age \in 0 .. MaxAge
    BY <1>0 DEF KeyTypes
  <2>2. extra'.failed = extra.failed /\ extra'.ago = Older(extra.ago) /\ age' = Older(age)
    BY <2>1, TimePasses
  <2>3. age <= extra.ago => Older(age) <= Older(extra.ago)
    BY <2>1, Growing
  <2> QED BY <1>2, <1>3, <2>2, <2>3 DEF KeyInv, FloorInv
<1>7. RotationInv'
  <2>1. ASSUME NEW k \in Kids
        PROVE  /\ since[k] <= age + Patience => since'[k] <= age' + Patience
               /\ Busy => (since[k] <= fetching[1].out => since'[k] <= fetching[1].out + 1)
    <3>1. since[k] \in 0 .. MaxAge /\ age \in 0 .. MaxAge /\ since'[k] = Older(since[k])
          /\ age' = Older(age) /\ Patience \in Nat
      BY <1>0, TimePasses, KeySetAssumption DEF KeyTypes
    <3>2. since'[k] <= since[k] + 1 /\ since'[k] \in Nat
      BY <3>1, Growing
    <3>3. since[k] <= age + Patience => since'[k] <= age' + Patience
      BY <3>1, Growing
    <3> QED BY <1>2, <3>1, <3>2, <3>3
  <2> QED BY <1>2, <1>3, <2>1 DEF KeyInv, RotationInv
<1>8. WaitInv'
  <2>0. /\ \A i \in DOMAIN line : lookup[line[i]].stage \in Open
        /\ Busy => lookup[fetching[1].by].stage \in Open
        /\ ~Busy => DOMAIN line = {}
    BY <1>3 DEF KeyInv, LineInv, Open
  <2>1. Patience \in Nat /\ Everybody \in Nat
    BY KeySetAssumption, CallersAssumption, FS_CardinalityType DEF Everybody
  <2>2. \A c \in Callers : lookup[c].waited \in 0 .. MaxAge
    BY <1>0, LookupParts
  <2>3. \A c \in Callers : lookup'[c].stage \notin Open => lookup'[c].waited = 0
    BY <1>1
  <2>4. Busy' => lookup'[fetching'[1].by].waited
                    <= (Everybody - 1) * Patience + fetching'[1].out
    <3>1. PICK bound \in Int : bound = (Everybody - 1) * Patience
      BY <2>1
    <3>2. Busy => lookup[fetching[1].by].waited <= bound + fetching[1].out
      BY <3>1 DEF KeyInv, WaitInv
    <3>3. Busy' => lookup'[fetching'[1].by].waited <= bound + fetching'[1].out
      BY <1>1, <1>2, <1>3, <2>0, <2>2, <3>2
    <3> QED BY <3>1, <3>3
  <2>5. ASSUME NEW i \in DOMAIN line', Busy'
        PROVE  lookup'[line'[i]].waited
                  <= (Everybody - (i + 1)) * Patience + fetching'[1].out
    <3>0. i \in Int /\ i \in DOMAIN line /\ line[i] \in Callers
      BY <1>0, <1>3, <1>4, <2>5 DEF KeyTypes
    <3>1. PICK bound \in Int : bound = (Everybody - (i + 1)) * Patience
      BY <2>1, <3>0
    <3>2. lookup[line[i]].waited <= bound + fetching[1].out
      BY <1>3, <2>5, <3>0, <3>1 DEF KeyInv, WaitInv
    <3>3. lookup'[line[i]].waited <= bound + fetching'[1].out
      BY <1>1, <1>2, <1>3, <2>0, <2>2, <2>5, <3>0, <3>2
    <3> QED BY <1>3, <3>1, <3>3
  <2>6. ~Busy' => DOMAIN line' = {}
    BY <1>3, <2>0
  <2> QED BY <2>3, <2>4, <2>5, <2>6 DEF WaitInv, Everybody
<1> QED BY <1>5, <1>6, <1>7, <1>8

\* A line in which nobody stands twice is no longer than there are callers.
LEMMA LineIsShort ==
    ASSUME NEW s \in Seq(Callers), \A i, j \in 1 .. Len(s) : s[i] = s[j] => i = j
    PROVE  Len(s) <= Everybody
<1>1. PICK n \in Nat : n = Len(s) /\ s \in [1 .. n -> Callers]
  OBVIOUS
<1>2. IsFiniteSet(1 .. n) /\ Cardinality(1 .. n) = n
  <2>1. IsFiniteSet(1 .. n) /\ Cardinality(1 .. n) = IF 1 > n THEN 0 ELSE n - 1 + 1
    BY FS_Interval
  <2> QED BY <2>1
<1>3. Everybody \in Nat
  BY CallersAssumption, FS_CardinalityType DEF Everybody
<1>4. ~(Everybody < n)
  <2>1. ASSUME Cardinality(Callers) < Cardinality(1 .. n) PROVE FALSE
    <3>1. \E x, y \in 1 .. n : x # y /\ s[x] = s[y]
      BY <1>1, <1>2, <2>1, CallersAssumption, FS_PigeonHole
    <3> QED BY <1>1, <3>1
  <2> QED BY <1>2, <2>1 DEF Everybody
<1> QED BY <1>1, <1>3, <1>4

\* A line that nobody joins twice.
LEMMA Joining ==
    ASSUME NEW s \in Seq(Callers), \A i, j \in 1 .. Len(s) : s[i] = s[j] => i = j,
           NEW c \in Callers, \A i \in 1 .. Len(s) : s[i] # c
    PROVE  /\ Append(s, c) \in Seq(Callers) /\ Len(Append(s, c)) = Len(s) + 1 /\ Len(s) \in Nat
           /\ \A i \in 1 .. Len(s) : Append(s, c)[i] = s[i]
           /\ Append(s, c)[Len(s) + 1] = c
           /\ \A i, j \in 1 .. Len(Append(s, c)) : Append(s, c)[i] = Append(s, c)[j] => i = j
<1>1. /\ Append(s, c) \in Seq(Callers) /\ Len(Append(s, c)) = Len(s) + 1 /\ Len(s) \in Nat
      /\ \A i \in 1 .. Len(s) : Append(s, c)[i] = s[i]
      /\ Append(s, c)[Len(s) + 1] = c
  BY AppendProperties
<1>2. PICK n \in Nat : n = Len(s)
  BY <1>1
<1>3. PICK t : t = Append(s, c)
  OBVIOUS
<1>4. ASSUME NEW i \in 1 .. n + 1, NEW j \in 1 .. n + 1, t[i] = t[j] PROVE i = j
  <2>1. (i \in 1 .. n \/ i = n + 1) /\ (j \in 1 .. n \/ j = n + 1)
    OBVIOUS
  <2> QED BY <1>1, <1>2, <1>4, <1>3, <2>1
<1> QED BY <1>1, <1>2, <1>4, <1>3

\* There is room in the line for a lookup that is about to begin.
LEMMA RoomInLine ==
    ASSUME KeyInv, NEW c \in Callers, lookup[c].stage \in Ended
    PROVE  Len(line) + (IF Busy THEN 2 ELSE 1) <= Everybody
<1>1. /\ line \in Seq(Callers) /\ DOMAIN line = 1 .. Len(line) /\ Len(line) \in Nat
      /\ \A i, j \in 1 .. Len(line) : line[i] = line[j] => i = j
      /\ \A i \in 1 .. Len(line) : lookup[line[i]].stage = "waiting"
  BY DEF KeyInv, KeyTypes, LineInv
<1>2. \A i \in 1 .. Len(line) : line[i] # c
  BY <1>1 DEF Ended
<1>3. PICK s : s = Append(line, c)
  OBVIOUS
<1>4. /\ s \in Seq(Callers) /\ Len(s) = Len(line) + 1
      /\ \A i \in 1 .. Len(line) : s[i] = line[i]
      /\ s[Len(line) + 1] = c
      /\ \A i, j \in 1 .. Len(s) : s[i] = s[j] => i = j
  BY <1>1, <1>2, <1>3, Joining
<1>5. CASE ~Busy
  <2>1. Len(s) <= Everybody
    BY <1>4, LineIsShort
  <2> QED BY <1>4, <1>5, <2>1
<1>6. CASE Busy
  <2>1. PICK f \in Callers : f = fetching[1].by /\ lookup[f].stage = "fetching"
    BY <1>6, FetchParts DEF KeyInv, LineInv
  <2>2. f # c /\ \A i \in 1 .. Len(line) : line[i] # f
    BY <1>1, <2>1 DEF Ended
  <2>3. \A i \in 1 .. Len(s) : s[i] # f
    <3>1. \A i \in 1 .. Len(s) : i \in 1 .. Len(line) \/ i = Len(line) + 1
      BY <1>1, <1>4
    <3> QED BY <1>4, <2>2, <3>1
  <2>4. PICK t : t = Append(s, f)
    OBVIOUS
  <2>5. t \in Seq(Callers) /\ Len(t) = Len(s) + 1 /\ \A i, j \in 1 .. Len(t) : t[i] = t[j] => i = j
    BY <1>4, <2>3, <2>4, Joining
  <2>6. Len(t) <= Everybody
    BY <2>5, LineIsShort
  <2> QED BY <1>1, <1>4, <1>6, <2>5, <2>6
<1> QED BY <1>5, <1>6

\* The issuer changes its keys: no longer ago than anything else.
LEMMA RotateKeeps ==
    ASSUME KeyInv, NEW ks \in SUBSET Kids, Rotate(ks)
    PROVE  KeyInv'
<1>1. /\ issued' = ks
      /\ since' = [k \in Kids |-> IF (k \in ks) = (k \in issued) THEN since[k] ELSE 0]
      /\ UNCHANGED <<keys, age, line, fetching, lookup, extra>>
  BY DEF Rotate, cache
<1>2. KeyTypes /\ (Busy => fetching[1].out \in 0 .. Patience) /\ Patience \in Nat
      /\ since \in [Kids -> 0 .. MaxAge] /\ age \in 0 .. MaxAge /\ 0 \in 0 .. MaxAge
  BY FetchParts, KeySetAssumption DEF KeyInv, KeyTypes
<1>3. ASSUME NEW k \in Kids
      PROVE  /\ (k \in ks <=> k \in issued) => since'[k] = since[k]
             /\ ~(k \in ks <=> k \in issued) => since'[k] = 0
  BY <1>1
<1>4. since' \in [Kids -> 0 .. MaxAge]
  BY <1>1, <1>2
<1>5. KeyTypes'
  BY <1>1, <1>2, <1>4 DEF KeyTypes, Busy
<1>6. LineInv' /\ FloorInv'
  BY <1>1 DEF KeyInv, LineInv, FloorInv, Busy
<1>7. WaitInv'
  BY <1>1 DEF KeyInv, WaitInv, Busy, Everybody
<1>8. RotationInv'
  <2>1. ASSUME NEW k \in Kids, keys # {}, ~(k \in keys <=> k \in ks)
        PROVE  since'[k] <= age + Patience
    BY <1>2, <1>3, <2>1 DEF KeyInv, RotationInv
  <2>2. ASSUME NEW k \in Kids, Busy, fetching[1].reply # << >>,
               ~(k \in fetching[1].reply[1] <=> k \in ks)
        PROVE  since'[k] <= fetching[1].out
    BY <1>2, <1>3, <2>2 DEF KeyInv, RotationInv
  <2> QED BY <1>1, <2>1, <2>2 DEF RotationInv, Busy
<1> QED BY <1>5, <1>6, <1>7, <1>8 DEF KeyInv

\* One timeout more per place in line.
LEMMA OnePlace ==
    ASSUME NEW p \in Nat, NEW n \in Int, NEW i \in Int
    PROVE  /\ (n - (i + 1)) * p \in Int /\ (n - i) * p \in Int
           /\ (n - (i + 1)) * p + p = (n - i) * p
<1>1. PICK a \in Int : a = n - (i + 1)
  OBVIOUS
<1>2. n - i = a + 1
  BY <1>1
<1>3. (a + 1) * p = a * p + p
  OBVIOUS
<1> QED BY <1>1, <1>2, <1>3

\* Nobody owes more time than there is, so to join the line is within the bound.
LEMMA EnoughTime ==
    ASSUME NEW p \in Nat, NEW n \in Int, n >= 0
    PROVE  n * p >= 0 /\ n * p \in Int
OBVIOUS

\* A token is presented: its lookup is the last in line and has waited for nothing.
LEMMA PresentKeeps ==
    ASSUME KeyInv, NEW c \in Callers, NEW k \in Kids, Present(c, k)
    PROVE  KeyInv'
<1>0. KeyTypes /\ Patience \in Nat /\ Everybody \in Nat /\ 0 \in 0 .. MaxAge
  BY KeySetAssumption, CallersAssumption, FS_CardinalityType DEF KeyInv, Everybody
<1>1. /\ lookup[c].stage \in Ended
      /\ lookup' = [lookup EXCEPT ![c] = [kid |-> k, waited |-> 0, stage |-> "waiting"]]
      /\ line' = Append(line, c)
      /\ UNCHANGED <<issued, since, keys, age, fetching, extra>>
  BY DEF Present, issuer, cache
<1>2. PICK n \in Nat :
         /\ n = Len(line) /\ DOMAIN line = 1 .. n /\ line \in Seq(Callers)
         /\ \A i, j \in 1 .. n : line[i] = line[j] => i = j
         /\ \A i \in 1 .. n : line[i] \in Callers /\ lookup[line[i]].stage = "waiting"
  BY <1>0 DEF KeyInv, KeyTypes, LineInv
<1>3. \A i \in 1 .. n : line[i] # c
  BY <1>1, <1>2 DEF Ended
<1>4. /\ line' \in Seq(Callers) /\ DOMAIN line' = 1 .. n + 1
      /\ \A i \in 1 .. n : line'[i] = line[i]
      /\ line'[n + 1] = c
      /\ \A i, j \in 1 .. n + 1 : line'[i] = line'[j] => i = j
  <2>1. PICK s : s = Append(line, c)
    OBVIOUS
  <2>2. /\ s \in Seq(Callers) /\ Len(s) = n + 1
        /\ \A i \in 1 .. n : s[i] = line[i]
        /\ s[n + 1] = c
        /\ \A i, j \in 1 .. Len(s) : s[i] = s[j] => i = j
    BY <1>2, <1>3, <2>1, Joining
  <2>3. line' = s /\ DOMAIN s = 1 .. n + 1
    BY <1>1, <2>1, <2>2
  <2> QED BY <2>2, <2>3
<1>5. /\ \A d \in Callers : d # c => lookup'[d] = lookup[d]
      /\ lookup'[c].stage = "waiting" /\ lookup'[c].waited = 0 /\ lookup'[c].kid = k
      /\ lookup' \in [Callers -> Lookups]
  <2>1. [kid |-> k, waited |-> 0, stage |-> "waiting"] \in Lookups
    BY <1>0 DEF Lookups, Open
  <2> QED BY <1>0, <1>1, <2>1 DEF KeyTypes
<1>6. Busy' <=> Busy
  BY <1>1 DEF Busy
<1>7. KeyTypes'
  BY <1>0, <1>1, <1>4, <1>5, <1>6 DEF KeyTypes
<1>8. FloorInv' /\ RotationInv'
  BY <1>1, <1>6 DEF KeyInv, FloorInv, RotationInv
<1>9. Busy => fetching[1].by \in Callers /\ fetching[1].by # c /\ fetching[1].out \in 0 .. Patience
  BY <1>0, <1>1, FetchParts DEF KeyInv, LineInv, Ended
<1>10. \A i \in 1 .. n + 1 : i \in 1 .. n \/ i = n + 1
  OBVIOUS
<1>11. LineInv'
  <2>1. \A d \in Callers : lookup'[d].stage \in Open => lookup'[d].kid \in Kids
    BY <1>5 DEF KeyInv, LineInv
  <2>2. Busy' => lookup'[fetching'[1].by].stage = "fetching"
    BY <1>1, <1>5, <1>6, <1>9 DEF KeyInv, LineInv
  <2>3. \A i \in 1 .. n + 1 : lookup'[line'[i]].stage = "waiting"
    BY <1>2, <1>3, <1>4, <1>5, <1>10
  <2> QED BY <1>4, <2>1, <2>2, <2>3 DEF LineInv
<1>12. WaitInv'
  <2>1. \A d \in Callers : lookup'[d].stage \notin Open => lookup'[d].waited = 0
    BY <1>5 DEF KeyInv, WaitInv
  <2>2. Busy' => lookup'[fetching'[1].by].waited
                    <= (Everybody - 1) * Patience + fetching'[1].out
    BY <1>1, <1>5, <1>6, <1>9 DEF KeyInv, WaitInv
  <2>3. ASSUME NEW i \in 1 .. n
        PROVE  lookup'[line'[i]].waited <=
                  IF Busy THEN (Everybody - (i + 1)) * Patience + fetching[1].out
                  ELSE (Everybody - i) * Patience
    BY <1>2, <1>3, <1>4, <1>5 DEF KeyInv, WaitInv
  <2>4. lookup'[line'[n + 1]].waited <=
           IF Busy THEN (Everybody - (n + 1 + 1)) * Patience + fetching[1].out
           ELSE (Everybody - (n + 1)) * Patience
    <3>1. n + (IF Busy THEN 2 ELSE 1) <= Everybody
      BY <1>1, <1>2, RoomInLine
    <3>2. CASE Busy
      <4>1. PICK left \in Int : left = Everybody - (n + 1 + 1) /\ left >= 0
        BY <1>0, <3>1, <3>2
      <4>2. left * Patience >= 0 /\ left * Patience \in Int
        BY <1>0, <4>1, EnoughTime
      <4> QED BY <1>4, <1>5, <1>9, <3>2, <4>1, <4>2
    <3>3. CASE ~Busy
      <4>1. PICK left \in Int : left = Everybody - (n + 1) /\ left >= 0
        BY <1>0, <3>1, <3>3
      <4>2. left * Patience >= 0 /\ left * Patience \in Int
        BY <1>0, <4>1, EnoughTime
      <4> QED BY <1>4, <1>5, <3>3, <4>1, <4>2
    <3> QED BY <3>2, <3>3
  <2>5. \A i \in 1 .. n + 1 :
           lookup'[line'[i]].waited <=
              IF Busy THEN (Everybody - (i + 1)) * Patience + fetching[1].out
              ELSE (Everybody - i) * Patience
    BY <1>10, <2>3, <2>4
  <2> QED BY <1>1, <1>4, <1>6, <2>1, <2>2, <2>5 DEF WaitInv, Everybody
<1> QED BY <1>7, <1>8, <1>11, <1>12 DEF KeyInv

\* The first in line leaves it.
MovesUp == line # << >> /\ line' = Tail(line)

\* The first in line takes the mutex and the others move up.
LEMMA MovingUp ==
    ASSUME KeyInv, MovesUp
    PROVE  \E n \in Nat, c \in Callers :
              /\ c = Head(line) /\ c = line[1] /\ DOMAIN line = 1 .. n + 1
              /\ line' \in Seq(Callers) /\ DOMAIN line' = 1 .. n
              /\ \A i \in 1 .. n : line'[i] = line[i + 1] /\ i + 1 \in 1 .. n + 1
                                   /\ line'[i] \in Callers /\ line'[i] # c
                                   /\ lookup[line'[i]].stage = "waiting"
              /\ \A i, j \in 1 .. n : line'[i] = line'[j] => i = j
              /\ lookup[c].stage = "waiting" /\ lookup[c].kid \in Kids
<1>1. line \in Seq(Callers) /\ LineInv /\ line # << >> /\ line' = Tail(line)
  BY DEF KeyInv, KeyTypes, MovesUp
<1>2. PICK n \in Nat : Len(line) = n + 1 /\ DOMAIN line = 1 .. n + 1
  <2>1. Len(line) \in Nat /\ Len(line) # 0 /\ DOMAIN line = 1 .. Len(line)
    BY <1>1, EmptySeq
  <2>2. Len(line) - 1 \in Nat /\ Len(line) = (Len(line) - 1) + 1
    BY <2>1
  <2> QED BY <2>1, <2>2
<1>3. /\ Head(line) = line[1] /\ line[1] \in Callers
      /\ Tail(line) \in Seq(Callers) /\ Len(Tail(line)) = n
      /\ \A i \in 1 .. n : Tail(line)[i] = line[i + 1]
  BY <1>1, <1>2, HeadTailProperties
<1>4. PICK c \in Callers : c = Head(line) /\ c = line[1]
  BY <1>3
<1>5. line' \in Seq(Callers) /\ DOMAIN line' = 1 .. n /\ \A i \in 1 .. n : line'[i] = line[i + 1]
  BY <1>1, <1>3
<1>6. ASSUME NEW i \in 1 .. n
      PROVE  i + 1 \in 1 .. n + 1 /\ i + 1 # 1 /\ line'[i] \in Callers /\ line'[i] # c
             /\ lookup[line'[i]].stage = "waiting"
  <2>1. i + 1 \in 1 .. n + 1 /\ i + 1 # 1 /\ 1 \in 1 .. n + 1
    OBVIOUS
  <2> QED BY <1>1, <1>2, <1>4, <1>5, <2>1 DEF LineInv
<1>7. \A i, j \in 1 .. n : line'[i] = line'[j] => i = j
  <2>1. ASSUME NEW i \in 1 .. n, NEW j \in 1 .. n, line'[i] = line'[j] PROVE i = j
    <3>1. i + 1 = j + 1
      BY <1>1, <1>2, <1>5, <1>6, <2>1 DEF LineInv
    <3> QED BY <3>1
  <2> QED BY <2>1
<1>8. lookup[c].stage = "waiting" /\ lookup[c].kid \in Kids
  <2>1. 1 \in 1 .. n + 1
    OBVIOUS
  <2> QED BY <1>1, <1>2, <1>4, <2>1 DEF LineInv, Open
<1> QED BY <1>2, <1>4, <1>5, <1>6, <1>7, <1>8

\* The first in line starts a fetch: it has waited for everybody else at most.
LEMMA StartFetchKeeps ==
    ASSUME KeyInv, ~Busy, MovesUp, NEW why \in {"stale", "unknown"},
           StartFetch(Head(line), why)
    PROVE  KeyInv'
<1>0. KeyTypes /\ Patience \in Nat /\ Everybody \in Nat /\ 0 \in 0 .. MaxAge /\ 0 \in 0 .. Patience
  BY KeySetAssumption, CallersAssumption, FS_CardinalityType DEF KeyInv, Everybody
<1>1. PICK n \in Nat, c \in Callers :
              /\ c = Head(line) /\ c = line[1] /\ DOMAIN line = 1 .. n + 1
              /\ line' \in Seq(Callers) /\ DOMAIN line' = 1 .. n
              /\ \A i \in 1 .. n : line'[i] = line[i + 1] /\ i + 1 \in 1 .. n + 1
                                   /\ line'[i] \in Callers /\ line'[i] # c
                                   /\ lookup[line'[i]].stage = "waiting"
              /\ \A i, j \in 1 .. n : line'[i] = line'[j] => i = j
              /\ lookup[c].stage = "waiting" /\ lookup[c].kid \in Kids
  BY MovingUp
<1>2. /\ fetching' = <<[by |-> c, why |-> why, out |-> 0, reply |-> << >>]>>
      /\ lookup' = [lookup EXCEPT ![c].stage = "fetching"]
      /\ extra' = IF why = "unknown" THEN [ago |-> 0, failed |-> FALSE] ELSE extra
      /\ UNCHANGED <<issued, since, keys, age>>
  BY <1>1 DEF StartFetch, issuer, cache
<1>3. /\ Busy' /\ DOMAIN fetching' = {1} /\ fetching'[1] \in Fetches
      /\ fetching'[1].by = c /\ fetching'[1].why = why /\ fetching'[1].out = 0
      /\ fetching'[1].reply = << >>
  <2>1. PICK f : f = [by |-> c, why |-> why, out |-> 0, reply |-> << >>]
    OBVIOUS
  <2>2. f \in Fetches /\ f.by = c /\ f.why = why /\ f.out = 0 /\ f.reply = << >>
    BY <1>0, <2>1 DEF Fetches, Replies
  <2>3. fetching' = <<f>>
    BY <1>2, <2>1
  <2>4. fetching' # << >> /\ DOMAIN fetching' = {1} /\ fetching'[1] = f
    BY <2>3
  <2> QED BY <2>2, <2>4 DEF Busy
<1>4. /\ lookup' \in [Callers -> Lookups]
      /\ \A d \in Callers : d # c => lookup'[d] = lookup[d]
      /\ lookup'[c].stage = "fetching" /\ lookup'[c].waited = lookup[c].waited
      /\ lookup'[c].kid = lookup[c].kid
  <2>1. lookup[c] \in Lookups /\ lookup \in [Callers -> Lookups]
    BY <1>0 DEF KeyTypes
  <2>2. lookup'[c] = [lookup[c] EXCEPT !.stage = "fetching"]
        /\ \A d \in Callers : d # c => lookup'[d] = lookup[d]
    BY <1>2, <2>1
  <2>3. /\ [lookup[c] EXCEPT !.stage = "fetching"] \in Lookups
        /\ lookup'[c].stage = "fetching" /\ lookup'[c].waited = lookup[c].waited
        /\ lookup'[c].kid = lookup[c].kid
    BY <2>1, <2>2 DEF Lookups, Open
  <2>4. lookup' \in [Callers -> Lookups]
    BY <1>2, <2>1, <2>3
  <2> QED BY <2>2, <2>3, <2>4
<1>5. extra' \in [ago : 0 .. MaxAge, failed : BOOLEAN]
  BY <1>0, <1>2 DEF KeyTypes
<1>6. KeyTypes'
  BY <1>0, <1>1, <1>2, <1>3, <1>4, <1>5 DEF KeyTypes
<1>7. LineInv'
  <2>1. \A d \in Callers : lookup[d].stage \in Open => lookup[d].kid \in Kids
    BY DEF KeyInv, LineInv
  <2>2. \A d \in Callers : lookup'[d].stage \in Open => lookup'[d].kid \in Kids
    BY <1>1, <1>4, <2>1
  <2>3. lookup'[fetching'[1].by].stage = "fetching"
    BY <1>3, <1>4
  <2>4. \A i \in 1 .. n : lookup'[line'[i]].stage = "waiting"
    BY <1>1, <1>4
  <2> QED BY <1>1, <2>2, <2>3, <2>4 DEF LineInv
<1>8. FloorInv'
  <2>1. CASE why = "unknown"
    BY <1>3, <2>1 DEF FloorInv
  <2>2. CASE why # "unknown"
    <3>1. extra' = extra
      BY <1>2, <2>2
    <3> QED BY <1>2, <3>1 DEF KeyInv, FloorInv
  <2> QED BY <2>1, <2>2
<1>9. RotationInv'
  BY <1>2, <1>3 DEF KeyInv, RotationInv
<1>10. WaitInv'
  <2>1. \A d \in Callers : lookup'[d].stage \notin Open => lookup'[d].waited = 0
    BY <1>4 DEF KeyInv, WaitInv, Open
  <2>2. \A i \in 1 .. n + 1 : lookup[line[i]].waited <= (Everybody - i) * Patience
    BY <1>1 DEF KeyInv, WaitInv
  <2>3. lookup'[fetching'[1].by].waited <= (Everybody - 1) * Patience + fetching'[1].out
    <3>1. PICK bound \in Int : bound = (Everybody - 1) * Patience
      BY <1>0
    <3>2. lookup[c].waited <= bound /\ lookup[c].waited \in 0 .. MaxAge
      <4>1. 1 \in 1 .. n + 1
        OBVIOUS
      <4> QED BY <1>0, <1>1, <2>2, <3>1, <4>1, LookupParts
    <3> QED BY <1>3, <1>4, <3>1, <3>2
  <2>4. ASSUME NEW i \in 1 .. n
        PROVE  lookup'[line'[i]].waited <= (Everybody - (i + 1)) * Patience + fetching'[1].out
    <3>1. PICK bound \in Int : bound = (Everybody - (i + 1)) * Patience
      BY <1>0
    <3>2. lookup[line'[i]].waited <= bound /\ lookup'[line'[i]] = lookup[line'[i]]
      BY <1>1, <1>4, <2>2, <3>1
    <3>3. lookup[line'[i]].waited \in 0 .. MaxAge
      BY <1>0, <1>1, LookupParts
    <3>4. lookup'[line'[i]].waited <= bound + fetching'[1].out
      BY <1>3, <3>2, <3>3
    <3> QED BY <3>1, <3>4
  <2> QED BY <1>1, <1>3, <2>1, <2>3, <2>4 DEF WaitInv, Everybody
<1> QED BY <1>6, <1>7, <1>8, <1>9, <1>10 DEF KeyInv

\* A lookup ends: it has a result and owes nobody any time.
LEMMA EndKeeps ==
    ASSUME KeyTypes, NEW c \in Callers, NEW s \in Ended, End(c, s)
    PROVE  /\ lookup' \in [Callers -> Lookups]
           /\ \A d \in Callers : d # c => lookup'[d] = lookup[d]
           /\ lookup'[c].stage = s /\ lookup'[c].waited = 0 /\ s \notin Open
<1>1. PICK over \in Lookups : over = [Idle EXCEPT !.stage = s] /\ over.waited = 0 /\ over.stage = s
  BY OverAndDone
<1>2. lookup' = [lookup EXCEPT ![c] = over]
  BY <1>1 DEF End
<1>3. lookup \in [Callers -> Lookups]
  BY DEF KeyTypes
<1>4. s \notin Open
  BY OverAndDone
<1> QED BY <1>1, <1>2, <1>3, <1>4

\* The first in line is answered from the set: everybody is one place further on.
LEMMA AnswerKeeps ==
    ASSUME KeyInv, ~Busy, MovesUp, NEW s \in Ended, Answer(Head(line), s)
    PROVE  KeyInv'
<1>0. KeyTypes /\ Patience \in Nat /\ Everybody \in Nat
  BY KeySetAssumption, CallersAssumption, FS_CardinalityType DEF KeyInv, Everybody
<1>1. PICK n \in Nat, c \in Callers :
              /\ c = Head(line) /\ c = line[1] /\ DOMAIN line = 1 .. n + 1
              /\ line' \in Seq(Callers) /\ DOMAIN line' = 1 .. n
              /\ \A i \in 1 .. n : line'[i] = line[i + 1] /\ i + 1 \in 1 .. n + 1
                                   /\ line'[i] \in Callers /\ line'[i] # c
                                   /\ lookup[line'[i]].stage = "waiting"
              /\ \A i, j \in 1 .. n : line'[i] = line'[j] => i = j
              /\ lookup[c].stage = "waiting" /\ lookup[c].kid \in Kids
  BY MovingUp
<1>2. End(c, s) /\ UNCHANGED <<issued, since, keys, age, fetching, extra>> /\ ~Busy'
  BY <1>1 DEF Answer, issuer, cache, Busy
<1>3. /\ lookup' \in [Callers -> Lookups]
      /\ \A d \in Callers : d # c => lookup'[d] = lookup[d]
      /\ lookup'[c].stage \notin Open /\ lookup'[c].waited = 0
  BY <1>0, <1>2, EndKeeps
<1>4. KeyTypes'
  BY <1>0, <1>1, <1>2, <1>3 DEF KeyTypes
<1>5. LineInv'
  <2>1. \A d \in Callers : lookup[d].stage \in Open => lookup[d].kid \in Kids
    BY DEF KeyInv, LineInv
  <2>2. \A d \in Callers : lookup'[d].stage \in Open => lookup'[d].kid \in Kids
    BY <1>3, <2>1
  <2>3. \A i \in 1 .. n : lookup'[line'[i]].stage = "waiting"
    BY <1>1, <1>3
  <2> QED BY <1>1, <1>2, <2>2, <2>3 DEF LineInv
<1>6. FloorInv' /\ RotationInv'
  BY <1>2 DEF KeyInv, FloorInv, RotationInv
<1>7. WaitInv'
  <2>1. \A d \in Callers : lookup'[d].stage \notin Open => lookup'[d].waited = 0
    BY <1>3 DEF KeyInv, WaitInv
  <2>2. \A i \in 1 .. n + 1 : lookup[line[i]].waited <= (Everybody - i) * Patience
    BY <1>1 DEF KeyInv, WaitInv
  <2>3. ASSUME NEW i \in 1 .. n
        PROVE  lookup'[line'[i]].waited <= (Everybody - i) * Patience
    <3>1. PICK bound \in Int, more \in Int :
             /\ bound = (Everybody - (i + 1)) * Patience /\ more = (Everybody - i) * Patience
             /\ bound + Patience = more
      BY <1>0, OnePlace
    <3>2. lookup[line'[i]].waited <= bound /\ lookup'[line'[i]] = lookup[line'[i]]
      BY <1>1, <1>3, <2>2, <3>1
    <3>3. lookup[line'[i]].waited \in 0 .. MaxAge
      BY <1>0, <1>1, LookupParts
    <3>4. lookup'[line'[i]].waited <= more
      BY <1>0, <3>1, <3>2, <3>3
    <3> QED BY <3>1, <3>4
  <2> QED BY <1>1, <1>2, <2>1, <2>3 DEF WaitInv, Everybody
<1> QED BY <1>4, <1>5, <1>6, <1>7 DEF KeyInv

\* The first in line looks its key up.
LEMMA EnterKeeps ==
    ASSUME KeyInv, Enter
    PROVE  KeyInv'
<1>1. ~Busy /\ MovesUp
  BY DEF Enter, MutexFree, Busy, MovesUp
<1>2. \/ StartFetch(Head(line), "stale") \/ StartFetch(Head(line), "unknown")
      \/ Answer(Head(line), "accepted") \/ Answer(Head(line), "refused")
  BY DEF Enter
<1>3. "accepted" \in Ended /\ "refused" \in Ended
  BY DEF Ended
<1> QED BY <1>1, <1>2, <1>3, StartFetchKeeps, AnswerKeeps

\* The issuer answers with the keys it has: they differ from its own in nothing.
LEMMA ReplyKeeps ==
    ASSUME KeyInv, IssuerReplies
    PROVE  KeyInv'
<1>0. KeyTypes /\ Busy
  BY DEF KeyInv, IssuerReplies, Busy
<1>1. PICK f \in Fetches, ks \in SUBSET Kids : f = fetching[1] /\ ks = issued
  BY <1>0 DEF KeyTypes
<1>2. /\ fetching' = <<[f EXCEPT !.reply = <<ks>>]>>
      /\ UNCHANGED <<issued, since, keys, age, line, lookup, extra>>
  BY <1>1 DEF IssuerReplies, issuer, cache
<1>3. /\ Busy' /\ DOMAIN fetching' = {1} /\ fetching'[1] \in Fetches
      /\ fetching'[1].by = f.by /\ fetching'[1].why = f.why /\ fetching'[1].out = f.out
      /\ fetching'[1].reply = <<ks>>
  <2>1. PICK g : g = [f EXCEPT !.reply = <<ks>>]
    OBVIOUS
  <2>2. g \in Fetches /\ g.by = f.by /\ g.why = f.why /\ g.out = f.out /\ g.reply = <<ks>>
    BY <2>1 DEF Fetches, Replies
  <2>3. fetching' = <<g>>
    BY <1>2, <2>1
  <2>4. fetching' # << >> /\ DOMAIN fetching' = {1} /\ fetching'[1] = g
    BY <2>3
  <2> QED BY <2>2, <2>4 DEF Busy
<1>4. KeyTypes'
  BY <1>0, <1>2, <1>3 DEF KeyTypes
<1>5. LineInv' /\ FloorInv'
  BY <1>0, <1>1, <1>2, <1>3 DEF KeyInv, LineInv, FloorInv
<1>6. RotationInv'
  <2>1. fetching'[1].reply[1] = issued'
    BY <1>1, <1>2, <1>3
  <2> QED BY <1>2, <2>1 DEF KeyInv, RotationInv
<1>7. WaitInv'
  BY <1>0, <1>1, <1>2, <1>3 DEF KeyInv, WaitInv, Everybody
<1> QED BY <1>4, <1>5, <1>6, <1>7 DEF KeyInv

\* A fetch is over: the mutex is free, and everybody in line has waited at most one timeout
\* more.
LEMMA FetchOver ==
    ASSUME KeyInv, Busy, NEW s \in Ended, End(fetching[1].by, s), fetching' = << >>, line' = line
    PROVE  lookup' \in [Callers -> Lookups] /\ LineInv' /\ WaitInv'
<1>0. KeyTypes /\ Patience \in Nat /\ Everybody \in Nat /\ ~Busy'
  BY KeySetAssumption, CallersAssumption, FS_CardinalityType DEF KeyInv, Everybody, Busy
<1>1. PICK c \in Callers, out \in 0 .. Patience :
         c = fetching[1].by /\ out = fetching[1].out /\ lookup[c].stage = "fetching"
  BY <1>0, FetchParts DEF KeyInv, LineInv
<1>2. /\ lookup' \in [Callers -> Lookups]
      /\ \A d \in Callers : d # c => lookup'[d] = lookup[d]
      /\ lookup'[c].stage \notin Open /\ lookup'[c].waited = 0
  BY <1>0, <1>1, EndKeeps
<1>3. PICK n \in Nat :
         /\ DOMAIN line = 1 .. n /\ DOMAIN line' = 1 .. n
         /\ \A i \in 1 .. n : line'[i] = line[i] /\ line[i] \in Callers /\ line[i] # c
         /\ \A i \in 1 .. n : lookup'[line[i]] = lookup[line[i]]
         /\ \A i \in 1 .. n : lookup[line[i]].stage = "waiting"
         /\ \A i, j \in 1 .. n : line[i] = line[j] => i = j
  <2>1. line \in Seq(Callers) /\ LineInv
    BY <1>0 DEF KeyInv, KeyTypes
  <2>2. PICK n \in Nat : n = Len(line) /\ DOMAIN line = 1 .. n
    BY <2>1
  <2>3. \A i \in 1 .. n : line[i] \in Callers /\ lookup[line[i]].stage = "waiting"
    BY <2>1, <2>2 DEF LineInv
  <2>4. \A i \in 1 .. n : line[i] # c
    BY <1>1, <2>3
  <2>5. \A i, j \in 1 .. n : line[i] = line[j] => i = j
    BY <2>1, <2>2 DEF LineInv
  <2> QED BY <1>2, <2>2, <2>3, <2>4, <2>5
<1>4. LineInv'
  <2>1. \A d \in Callers : lookup[d].stage \in Open => lookup[d].kid \in Kids
    BY DEF KeyInv, LineInv
  <2>2. \A d \in Callers : lookup'[d].stage \in Open => lookup'[d].kid \in Kids
    BY <1>2, <2>1
  <2> QED BY <1>0, <1>3, <2>2 DEF LineInv
<1>5. WaitInv'
  <2>1. \A d \in Callers : lookup'[d].stage \notin Open => lookup'[d].waited = 0
    BY <1>2 DEF KeyInv, WaitInv
  <2>2. ASSUME NEW i \in 1 .. n
        PROVE  lookup'[line'[i]].waited <= (Everybody - i) * Patience
    <3>1. PICK bound \in Int, more \in Int :
             /\ bound = (Everybody - (i + 1)) * Patience /\ more = (Everybody - i) * Patience
             /\ bound + Patience = more
      BY <1>0, OnePlace
    <3>2. lookup[line[i]].waited <= bound + out
      BY <1>1, <1>3, <3>1 DEF KeyInv, WaitInv
    <3>3. lookup[line[i]].waited \in 0 .. MaxAge
      BY <1>0, <1>3, LookupParts
    <3>4. lookup'[line'[i]].waited <= more
      BY <1>0, <1>3, <3>1, <3>2, <3>3
    <3> QED BY <3>1, <3>4
  <2> QED BY <1>0, <1>3, <2>1, <2>2 DEF WaitInv, Everybody
<1> QED BY <1>2, <1>4, <1>5

\* The set is replaced by the reply: where the issuer has changed since, it changed while the
\* fetch was out.
LEMMA SuccessKeeps ==
    ASSUME KeyInv, FetchSucceeds
    PROVE  KeyInv'
<1>0. KeyTypes /\ Patience \in Nat /\ 0 \in 0 .. MaxAge /\ Busy
  BY KeySetAssumption DEF KeyInv, FetchSucceeds, Usable, Busy
<1>1. PICK s \in Ended : End(fetching[1].by, s)
  BY DEF FetchSucceeds, Ended
<1>2. /\ keys' = fetching[1].reply[1] /\ age' = 0 /\ fetching' = << >>
      /\ UNCHANGED <<issued, since, line, extra>> /\ fetching[1].reply # << >>
  BY DEF FetchSucceeds, Usable, issuer
<1>3. lookup' \in [Callers -> Lookups] /\ LineInv' /\ WaitInv'
  BY <1>0, <1>1, <1>2, FetchOver
<1>4. ~Busy' /\ keys' \subseteq Kids /\ fetching[1].out \in 0 .. Patience
  BY <1>0, <1>2, FetchParts DEF Busy
<1>5. KeyTypes'
  BY <1>0, <1>2, <1>3, <1>4 DEF KeyTypes
<1>6. FloorInv'
  BY <1>0, <1>2 DEF KeyTypes, FloorInv
<1>7. RotationInv'
  <2>1. ASSUME NEW k \in Kids, ~(k \in keys' <=> k \in issued)
        PROVE  since[k] <= age' + Patience
    <3>1. since[k] <= fetching[1].out /\ since[k] \in 0 .. MaxAge
      BY <1>0, <1>2, <2>1 DEF KeyInv, KeyTypes, RotationInv
    <3> QED BY <1>0, <1>2, <1>4, <3>1
  <2> QED BY <1>2, <1>4, <2>1 DEF RotationInv
<1> QED BY <1>3, <1>5, <1>6, <1>7 DEF KeyInv

\* A fetch fails: the set and its date stay, and a failed fetch of an unknown id is noted.
LEMMA FailureKeeps ==
    ASSUME KeyInv, FetchFails
    PROVE  KeyInv'
<1>0. KeyTypes /\ Busy
  BY DEF KeyInv, FetchFails, FailLookup, Busy
<1>1. PICK s \in Ended : End(fetching[1].by, s)
  BY DEF FetchFails, FailLookup, Ended
<1>2. /\ fetching' = << >> /\ UNCHANGED <<issued, since, keys, age, line>>
      /\ extra' = IF fetching[1].why = "unknown" THEN [extra EXCEPT !.failed = TRUE] ELSE extra
  BY DEF FetchFails, FailLookup, issuer, cache
<1>3. lookup' \in [Callers -> Lookups] /\ LineInv' /\ WaitInv'
  BY <1>0, <1>1, <1>2, FetchOver
<1>4. ~Busy'
  BY <1>2 DEF Busy
<1>5. PICK x \in [ago : 0 .. MaxAge, failed : BOOLEAN] : x = extra
  BY <1>0 DEF KeyTypes
<1>6. /\ extra' \in [ago : 0 .. MaxAge, failed : BOOLEAN]
      /\ fetching[1].why = "unknown" => extra'.failed = TRUE
      /\ fetching[1].why # "unknown" => extra' = extra
  <2>1. CASE fetching[1].why = "unknown"
    <3>1. extra' = [x EXCEPT !.failed = TRUE]
      BY <1>2, <1>5, <2>1
    <3> QED BY <1>5, <2>1, <3>1
  <2>2. CASE fetching[1].why # "unknown"
    BY <1>2, <1>5, <2>2
  <2> QED BY <2>1, <2>2
<1>7. KeyTypes'
  BY <1>0, <1>2, <1>3, <1>4, <1>6 DEF KeyTypes
<1>8. FloorInv'
  BY <1>2, <1>4, <1>6 DEF KeyInv, FloorInv
<1>9. RotationInv'
  BY <1>2, <1>4 DEF KeyInv, RotationInv
<1> QED BY <1>3, <1>7, <1>8, <1>9 DEF KeyInv

\* Before the first request: no set, no fetch, nobody waiting.
LEMMA KeyInvInit == KeyInit => KeyInv
<1>1. SUFFICES ASSUME KeyInit PROVE KeyInv
  OBVIOUS
<1>2. /\ issued = Kids /\ since = [k \in Kids |-> MaxAge] /\ keys = {} /\ age = MaxAge
      /\ line = << >> /\ fetching = << >> /\ lookup = [c \in Callers |-> Idle]
      /\ extra = [ago |-> MaxAge, failed |-> FALSE] /\ MaxAge \in 0 .. MaxAge
  BY <1>1, KeySetAssumption DEF KeyInit
<1>3. Idle \in Lookups /\ Idle.waited = 0 /\ Idle.stage \notin Open /\ ~Busy /\ DOMAIN line = {}
  BY <1>2, OverAndDone DEF Ended, Open, Busy
<1>4. KeyTypes
  BY <1>2, <1>3 DEF KeyTypes
<1>5. LineInv /\ FloorInv /\ RotationInv /\ WaitInv
  BY <1>2, <1>3 DEF LineInv, FloorInv, RotationInv, WaitInv
<1> QED BY <1>4, <1>5 DEF KeyInv

\* Nothing happens to the cache.
LEMMA KeysStutter ==
    ASSUME KeyInv, UNCHANGED keyVars
    PROVE  KeyInv'
<1>1. UNCHANGED <<issued, since, keys, age, line, fetching, lookup, extra>>
  BY DEF keyVars, issuer, cache
<1> QED BY <1>1 DEF KeyInv, KeyTypes, LineInv, FloorInv, RotationInv, WaitInv, Busy, Everybody

\* Every step of the cache keeps the invariant.
LEMMA KeyInvStep == KeyInv /\ [KeyNext]_keyVars => KeyInv'
<1>1. SUFFICES ASSUME KeyInv, [KeyNext]_keyVars PROVE KeyInv'
  OBVIOUS
<1>2. ASSUME NEW ks \in SUBSET Kids, Rotate(ks) PROVE KeyInv'
  BY <1>1, <1>2, RotateKeeps
<1>3. CASE PassTime
  BY <1>1, <1>3, TimeTypes, TimeKeeps DEF KeyInv
<1>4. ASSUME NEW c \in Callers, NEW k \in Kids, Present(c, k) PROVE KeyInv'
  BY <1>1, <1>4, PresentKeeps
<1>5. CASE Enter
  BY <1>1, <1>5, EnterKeeps
<1>6. CASE IssuerReplies
  BY <1>1, <1>6, ReplyKeeps
<1>7. CASE FetchSucceeds
  BY <1>1, <1>7, SuccessKeeps
<1>8. CASE FetchFails
  BY <1>1, <1>8, FailureKeeps
<1>9. CASE UNCHANGED keyVars
  BY <1>1, <1>9, KeysStutter
<1> QED BY <1>1, <1>2, <1>3, <1>4, <1>5, <1>6, <1>7, <1>8, <1>9 DEF KeyNext

\* The invariant of the key cache holds of every behaviour of keySet: whoever waits for the
\* mutex is in line once and has waited no longer than its place accounts for, the set is
\* no older than the last unknown id that forced a fetch, and it differs from the issuer's
\* keys only where the issuer has changed since it was asked.
THEOREM KeyInvariant == KeySpec => []KeyInv
BY KeyInvInit, KeyInvStep, PTL DEF KeySpec

\* What somebody in line owes is within everybody's time.
LEMMA WithinEverybodysTime ==
    ASSUME NEW p \in Nat, NEW n \in Nat, NEW i \in Nat
    PROVE  n * p \in Int /\ (n - i) * p <= n * p
<1>1. i * p >= 0 /\ i * p \in Int /\ n * p \in Int
  BY EnoughTime
<1>2. (n - i) * p = n * p - i * p
  OBVIOUS
<1> QED BY <1>1, <1>2

\* Whoever waits is in line, and whoever fetches holds the mutex.
PlaceInv ==
    \A c \in Callers :
        /\ lookup[c].stage = "waiting" => \E i \in DOMAIN line : line[i] = c
        /\ lookup[c].stage = "fetching" => Busy /\ fetching[1].by = c

\* A lookup that comes, and one that is over, take nobody's place.
LEMMA PlacesKept ==
    ASSUME KeyInv, PlaceInv, KeyNext
    PROVE  PlaceInv'
<1>0. KeyTypes /\ lookup \in [Callers -> Lookups]
  BY DEF KeyInv, KeyTypes
<1>1. ASSUME NEW ks \in SUBSET Kids, Rotate(ks) PROVE PlaceInv'
  BY <1>1 DEF Rotate, PlaceInv, Busy
<1>2. CASE PassTime
  <2>1. line' = line /\ (Busy' <=> Busy)
        /\ lookup' = [c \in Callers |->
                         IF lookup[c].stage \in Open
                         THEN [lookup[c] EXCEPT !.waited = Older(@)] ELSE Idle]
    BY <1>2, TimePasses
  <2>2. Busy => fetching'[1].by = fetching[1].by
    <3>1. ASSUME Busy PROVE fetching'[1] = [fetching[1] EXCEPT !.out = fetching[1].out + 1]
                            /\ fetching[1] \in Fetches
      BY <1>0, <1>2, <3>1, TimePasses DEF KeyTypes
    <3> QED BY <3>1 DEF Fetches
  <2>3. ASSUME NEW c \in Callers, lookup'[c].stage \in Open PROVE lookup'[c].stage = lookup[c].stage
    <3>1. CASE lookup[c].stage \in Open
      <4>1. lookup'[c] = [lookup[c] EXCEPT !.waited = Older(@)] /\ lookup[c] \in Lookups
        BY <1>0, <2>1, <3>1
      <4> QED BY <4>1 DEF Lookups
    <3>2. CASE lookup[c].stage \notin Open
      <4>1. lookup'[c] = Idle
        BY <2>1, <3>2
      <4> QED BY <2>3, <4>1, OverAndDone DEF Ended, Open
    <3> QED BY <3>1, <3>2
  <2> QED BY <2>1, <2>2, <2>3 DEF PlaceInv, Open
<1>3. ASSUME NEW d \in Callers, NEW k \in Kids, Present(d, k) PROVE PlaceInv'
  <2>1. line \in Seq(Callers) /\ line' = Append(line, d) /\ fetching' = fetching
        /\ lookup' = [lookup EXCEPT ![d] = [kid |-> k, waited |-> 0, stage |-> "waiting"]]
    BY <1>0, <1>3 DEF Present, KeyTypes
  <2>2. PICK n \in Nat : n = Len(line) /\ DOMAIN line = 1 .. n
    BY <2>1
  <2>3. DOMAIN line' = 1 .. n + 1 /\ line'[n + 1] = d /\ \A i \in 1 .. n : line'[i] = line[i]
    BY <2>1, <2>2, AppendProperties
  <2>4. (\A c \in Callers : c # d => lookup'[c] = lookup[c]) /\ lookup'[d].stage = "waiting"
    BY <1>0, <2>1
  <2>5. \A i \in 1 .. n : i \in 1 .. n + 1
    OBVIOUS
  <2>6. n + 1 \in 1 .. n + 1
    OBVIOUS
  <2>7. ASSUME NEW c \in Callers, lookup'[c].stage = "waiting"
        PROVE  \E i \in 1 .. n + 1 : line'[i] = c
    <3>1. CASE c = d
      BY <2>3, <2>6, <3>1
    <3>2. CASE c # d
      BY <2>2, <2>3, <2>4, <2>5, <2>7, <3>2 DEF PlaceInv
    <3> QED BY <3>1, <3>2
  <2> QED BY <2>1, <2>3, <2>4, <2>7 DEF PlaceInv, Busy
<1>4. CASE Enter
  <2>1. ~Busy /\ MovesUp
    BY <1>4 DEF Enter, MutexFree, Busy, MovesUp
  <2>2. PICK n \in Nat, d \in Callers :
           /\ d = Head(line) /\ d = line[1] /\ DOMAIN line = 1 .. n + 1 /\ DOMAIN line' = 1 .. n
           /\ \A i \in 1 .. n : line'[i] = line[i + 1]
    BY <2>1, MovingUp
  <2>3. ASSUME NEW c \in Callers, c # d, lookup[c].stage = "waiting"
        PROVE  \E i \in 1 .. n : line'[i] = c
    <3>1. PICK j \in 1 .. n + 1 : line[j] = c
      BY <2>2, <2>3 DEF PlaceInv
    <3>2. j # 1
      BY <2>2, <2>3, <3>1
    <3>3. j - 1 \in 1 .. n /\ (j - 1) + 1 = j
      BY <3>2
    <3> QED BY <2>2, <3>1, <3>3
  <2>4. /\ \A c \in Callers : c # d => lookup'[c] = lookup[c]
        /\ \/ lookup'[d].stage \notin Open
           \/ lookup'[d].stage = "fetching" /\ fetching' # << >> /\ fetching'[1].by = d
    <3>1. \/ \E why \in {"stale", "unknown"} : StartFetch(d, why)
          \/ \E s \in {"accepted", "refused"} : Answer(d, s)
      BY <1>4, <2>2 DEF Enter
    <3>2. ASSUME NEW why \in {"stale", "unknown"}, StartFetch(d, why)
          PROVE  /\ \A c \in Callers : c # d => lookup'[c] = lookup[c]
                 /\ lookup'[d].stage = "fetching" /\ fetching' # << >> /\ fetching'[1].by = d
      <4>1. /\ fetching' = <<[by |-> d, why |-> why, out |-> 0, reply |-> << >>]>>
            /\ lookup' = [lookup EXCEPT ![d].stage = "fetching"]
        BY <3>2 DEF StartFetch
      <4>2. fetching' # << >> /\ fetching'[1].by = d
        BY <4>1
      <4>3. lookup[d] \in Lookups /\ lookup'[d] = [lookup[d] EXCEPT !.stage = "fetching"]
        BY <1>0, <4>1
      <4> QED BY <1>0, <4>1, <4>2, <4>3 DEF Lookups
    <3>3. ASSUME NEW s \in {"accepted", "refused"}, Answer(d, s)
          PROVE  /\ \A c \in Callers : c # d => lookup'[c] = lookup[c]
                 /\ lookup'[d].stage \notin Open
      <4>1. s \in Ended /\ End(d, s)
        BY <3>3 DEF Answer, Ended
      <4> QED BY <1>0, <4>1, EndKeeps
    <3> QED BY <3>1, <3>2, <3>3
  <2>5. \A c \in Callers : lookup[c].stage # "fetching"
    BY <2>1 DEF PlaceInv
  <2> QED BY <2>2, <2>3, <2>4, <2>5 DEF PlaceInv, Busy, Open
<1>5. CASE IssuerReplies
  <2>1. Busy /\ fetching[1] \in Fetches
    BY <1>0, <1>5 DEF IssuerReplies, Busy, KeyTypes
  <2>2. fetching' = <<[fetching[1] EXCEPT !.reply = <<issued>>]>> /\ UNCHANGED <<line, lookup>>
    BY <1>5 DEF IssuerReplies
  <2>3. fetching' # << >> /\ fetching'[1].by = fetching[1].by
    BY <2>1, <2>2 DEF Fetches
  <2> QED BY <2>2, <2>3 DEF PlaceInv, Busy
<1>6. CASE FetchSucceeds \/ FetchFails
  <2>1. Busy /\ line' = line
    BY <1>6 DEF FetchSucceeds, FetchFails, FailLookup, Usable, Busy
  <2>2. PICK s \in Ended : End(fetching[1].by, s)
    BY <1>6 DEF FetchSucceeds, FetchFails, FailLookup, Ended
  <2>3. PICK d \in Callers : d = fetching[1].by
    BY <1>0, <2>1, FetchParts
  <2>4. (\A c \in Callers : c # d => lookup'[c] = lookup[c]) /\ lookup'[d].stage \notin Open
    BY <1>0, <2>2, <2>3, EndKeeps
  <2> QED BY <2>1, <2>3, <2>4 DEF PlaceInv, Open
<1> QED BY <1>1, <1>2, <1>3, <1>4, <1>5, <1>6 DEF KeyNext

\* Every open lookup has its place, in line or at the issuer.
LEMMA EverybodyHasAPlace == KeySpec => []PlaceInv
<1>1. KeyInit => PlaceInv
  <2>1. SUFFICES ASSUME KeyInit, NEW c \in Callers PROVE lookup[c].stage = "idle"
    BY DEF PlaceInv
  <2> QED BY <2>1 DEF KeyInit, Idle
<1>2. KeyInv /\ PlaceInv /\ [KeyNext]_keyVars => PlaceInv'
  <2>1. ASSUME PlaceInv, UNCHANGED keyVars PROVE PlaceInv'
    BY <2>1 DEF PlaceInv, Busy, keyVars
  <2> QED BY <2>1, PlacesKept
<1> QED BY <1>1, <1>2, KeyInvariant, PTL DEF KeySpec

\* Once in line means one place in it.
LEMMA InLineOnce ==
    ASSUME NEW D, NEW i \in D, NEW q, NEW c, \A j \in D : q[j] = c <=> j = i
    PROVE  Cardinality({j \in D : q[j] = c}) = 1
<1>1. {j \in D : q[j] = c} = {i}
  OBVIOUS
<1> QED BY <1>1, FS_Singleton

\* KeyTypeOK: one fetch at a time, made by the lookup that holds keySet.mu, and every
\* other open lookup in line exactly once.
THEOREM KeyTypeCorrect == KeySpec => []KeyTypeOK
<1>1. KeyInv /\ PlaceInv => KeyTypeOK
  <2>1. SUFFICES ASSUME KeyInv, PlaceInv PROVE KeyTypeOK
    OBVIOUS
  <2>2. KeyTypes /\ LineInv
    BY <2>1 DEF KeyInv
  <2>3. ASSUME NEW c \in Callers
        PROVE  (lookup[c].stage = "waiting")
                  <=> Cardinality({i \in DOMAIN line : line[i] = c}) = 1
    <3>1. CASE lookup[c].stage = "waiting"
      <4>1. PICK i \in DOMAIN line : line[i] = c
        BY <2>1, <3>1 DEF PlaceInv
      <4>2. \A j \in DOMAIN line : line[j] = c <=> j = i
        BY <2>2, <4>1 DEF LineInv
      <4> QED BY <3>1, <4>2, InLineOnce
    <3>2. CASE lookup[c].stage # "waiting"
      <4>1. {i \in DOMAIN line : line[i] = c} = {}
        BY <2>2, <3>2 DEF LineInv
      <4>2. Cardinality({}) = 0
        BY FS_EmptySet
      <4>3. Cardinality({i \in DOMAIN line : line[i] = c}) = 0
        BY <4>1, <4>2, Zenon
      <4> QED BY <3>2, <4>3
    <3> QED BY <3>1, <3>2
  <2>4. ASSUME NEW c \in Callers
        PROVE  /\ lookup[c].stage \in Open \cup Ended
               /\ (lookup[c].stage = "fetching") <=> (fetching # << >> /\ fetching[1].by = c)
    BY <2>1, <2>2, LookupParts DEF LineInv, PlaceInv, Busy
  <2> QED BY <2>2, <2>3, <2>4 DEF KeyTypes, KeyTypeOK
<1> QED BY <1>1, KeyInvariant, EverybodyHasAPlace, PTL

\* A lookup waits for the mutex and its own fetch at most one timeout per caller: keySet.key
\* holds the mutex across a request that the HTTP client gives up on, and nobody stands in
\* line twice.
THEOREM LookupsAreAlwaysBounded == KeySpec => []LookupsAreBounded
<1>3. KeyInv /\ PlaceInv => LookupsAreBounded
  <2>1. SUFFICES ASSUME KeyInv, PlaceInv, NEW c \in Callers
                 PROVE  lookup[c].waited <= Everybody * Patience
    BY DEF LookupsAreBounded, Everybody
  <2>2. KeyTypes /\ Patience \in Nat /\ Everybody \in Nat /\ lookup[c].waited \in 0 .. MaxAge
        /\ lookup[c].stage \in Open \cup Ended
    BY <2>1, KeySetAssumption, CallersAssumption, FS_CardinalityType, LookupParts
       DEF KeyInv, Everybody
  <2>3. PICK all \in Int : all = Everybody * Patience /\ all >= 0
    BY <2>2, EnoughTime
  <2>4. CASE lookup[c].stage \notin Open
    BY <2>1, <2>2, <2>3, <2>4 DEF KeyInv, WaitInv
  <2>5. CASE lookup[c].stage = "fetching"
    <3>1. PICK bound \in Int, more \in Int :
             bound = (Everybody - (0 + 1)) * Patience /\ more = (Everybody - 0) * Patience
             /\ bound + Patience = more
      BY <2>2, OnePlace
    <3>2. bound = (Everybody - 1) * Patience /\ more = all
      BY <2>2, <2>3, <3>1
    <3>3. lookup[c].waited <= bound + fetching[1].out /\ fetching[1].out \in 0 .. Patience
      BY <2>1, <2>2, <2>5, <3>2, FetchParts DEF KeyInv, WaitInv, PlaceInv
    <3>4. lookup[c].waited <= all
      BY <2>2, <3>1, <3>2, <3>3
    <3> QED BY <2>3, <3>4
  <2>6. CASE lookup[c].stage = "waiting"
    <3>1. PICK i \in DOMAIN line : line[i] = c
      BY <2>1, <2>6 DEF PlaceInv
    <3>2. i \in Nat
      BY <2>2, <3>1 DEF KeyTypes
    <3>3. PICK bound \in Int, more \in Int :
             bound = (Everybody - (i + 1)) * Patience /\ more = (Everybody - i) * Patience
             /\ bound + Patience = more
      BY <2>2, <3>2, OnePlace
    <3>4. more <= all
      BY <2>2, <2>3, <3>2, <3>3, WithinEverybodysTime
    <3>5. lookup[c].waited <= more
      <4>1. CASE Busy
        <5>1. lookup[c].waited <= bound + fetching[1].out /\ fetching[1].out \in 0 .. Patience
          BY <2>1, <2>2, <3>1, <3>3, <4>1, FetchParts DEF KeyInv, WaitInv
        <5> QED BY <2>2, <3>3, <5>1
      <4>2. CASE ~Busy
        BY <2>1, <3>1, <3>3, <4>2 DEF KeyInv, WaitInv
      <4> QED BY <4>1, <4>2
    <3> QED BY <2>2, <2>3, <3>3, <3>4, <3>5
  <2> QED BY <2>2, <2>4, <2>5, <2>6 DEF Open
<1> QED BY <1>3, KeyInvariant, EverybodyHasAPlace, PTL

\* While the issuer answers, unknown key ids force at most one request per floor: the set's
\* date, which keySet.fetch moves at every success, is never older than the last such
\* request.
THEOREM FloorAlwaysHolds == KeySpec => FloorHoldsWhileAnswered
<1>1. KeyInv /\ [KeyNext]_keyVars => [FloorKept]_keyVars
  <2>1. SUFFICES ASSUME KeyInv, KeyNext, Forced PROVE extra.failed \/ extra.ago >= Floor
    BY DEF FloorKept
  <2>2. ~Busy /\ fetching' # << >> /\ fetching'[1].why = "unknown"
    BY <2>1 DEF Forced, Busy
  <2>3. KeyTypes /\ FloorInv
    BY <2>1 DEF KeyInv
  <2>4. ~PassTime
    BY <2>1, <2>2, TimePasses DEF Busy
  <2>5. Enter
    BY <2>1, <2>2, <2>4 DEF KeyNext, Rotate, Present, IssuerReplies, FetchSucceeds, FetchFails,
       FailLookup, Usable, Busy
  <2>6. ~StartFetch(Head(line), "stale")
    BY <2>2 DEF StartFetch
  <2>7. RefreshDue
    BY <2>2, <2>5, <2>6 DEF Enter, Answer, Busy
  <2>8. PICK x \in [ago : 0 .. MaxAge, failed : BOOLEAN], a \in 0 .. MaxAge : x = extra /\ a = age
    BY <2>3 DEF KeyTypes
  <2>9. x.failed = FALSE => a <= x.ago
    BY <2>2, <2>3, <2>8 DEF FloorInv
  <2>10. a >= Floor /\ Floor \in Nat
    BY <2>7, <2>8, KeySetAssumption DEF RefreshDue
  <2> QED BY <2>8, <2>9, <2>10
<1> QED BY <1>1, KeyInvariant, PTL DEF KeySpec, FloorHoldsWhileAnswered

\* A key the issuer has retired is accepted for less than the cache's lifetime and one slow
\* fetch, and a key it publishes is refused for less than the floor and one slow fetch: a
\* lookup is decided by a set that is younger than that, and differs from the issuer's keys
\* only where they have changed since.
THEOREM KeysAlwaysFollow == KeySpec => KeysFollowTheIssuer
<1>1. KeyInv /\ [KeyNext]_keyVars => [DecidedInTime]_keyVars
  <2>1. SUFFICES ASSUME KeyInv, KeyNext, NEW c \in Callers, NEW k, k = lookup[c].kid,
                        lookup[c].stage \in Open, lookup'[c].stage \in {"accepted", "refused"}
                 PROVE  /\ lookup'[c].stage = "accepted" /\ k \notin issued =>
                              since[k] < Ttl + Patience
                        /\ lookup'[c].stage = "refused" /\ k \in issued =>
                              since[k] < Floor + Patience
    BY DEF DecidedInTime, Ends
  <2>2. KeyTypes /\ RotationInv /\ k \in Kids
    BY <2>1 DEF KeyInv, LineInv
  <2>3. PICK old \in 0 .. MaxAge, a \in 0 .. MaxAge : old = since[k] /\ a = age
    BY <2>2 DEF KeyTypes
  <2>4. Ttl \in Nat /\ Floor \in Nat /\ Patience \in Nat /\ 0 < Floor /\ 0 < Ttl
    BY KeySetAssumption
  <2>5. lookup \in [Callers -> Lookups] /\ lookup'[c] # lookup[c]
    BY <2>1, <2>2 DEF KeyTypes, Open
  <2>6. CASE PassTime
    <3>1. lookup'[c] = [lookup[c] EXCEPT !.waited = Older(@)]
      BY <2>1, <2>6, TimePasses
    <3>2. lookup'[c].stage = lookup[c].stage
      BY <2>5, <3>1 DEF Lookups
    <3> QED BY <2>1, <3>2 DEF Open
  <2>7. ASSUME NEW d \in Callers, NEW l \in Kids, Present(d, l) PROVE FALSE
    <3>1. lookup' = [lookup EXCEPT ![d] = [kid |-> l, waited |-> 0, stage |-> "waiting"]]
      BY <2>7 DEF Present
    <3> QED BY <2>1, <2>5, <3>1
  <2>8. CASE Enter
    <3>1. PICK d \in Callers : d = Head(line)
      <4>1. MovesUp
        BY <2>8 DEF Enter, MovesUp
      <4> QED BY <2>1, <4>1, MovingUp
    <3>2. ASSUME NEW why, StartFetch(d, why) PROVE FALSE
      <4>1. lookup' = [lookup EXCEPT ![d].stage = "fetching"]
        BY <3>2 DEF StartFetch
      <4>2. CASE c = d
        <5>1. lookup'[c] = [lookup[c] EXCEPT !.stage = "fetching"]
          BY <2>5, <4>1, <4>2
        <5>2. lookup'[c].stage = "fetching"
          BY <2>5, <5>1 DEF Lookups
        <5> QED BY <2>1, <5>2
      <4>3. CASE c # d
        BY <2>5, <4>1, <4>3
      <4> QED BY <4>2, <4>3
    <3>3. ASSUME NEW s \in Ended, Answer(d, s) PROVE c = d /\ lookup'[c].stage = s
      <4>1. End(d, s)
        BY <3>3 DEF Answer
      <4> QED BY <2>2, <2>5, <4>1, EndKeeps
    <3>4. "accepted" \in Ended /\ "refused" \in Ended
      BY DEF Ended
    <3>5. /\ keys # {} /\ a < Ttl
          /\ \/ k \in keys /\ lookup'[c].stage = "accepted"
             \/ k \notin keys /\ a < Floor /\ lookup'[c].stage = "refused"
      <4>1. \/ ~Stale /\ lookup[d].kid \in keys /\ Answer(d, "accepted")
            \/ ~Stale /\ lookup[d].kid \notin keys /\ ~RefreshDue /\ Answer(d, "refused")
        BY <2>8, <3>1, <3>2 DEF Enter
      <4>2. \/ ~Stale /\ k \in keys /\ lookup'[c].stage = "accepted"
            \/ ~Stale /\ k \notin keys /\ ~RefreshDue /\ lookup'[c].stage = "refused"
        BY <2>1, <3>3, <3>4, <4>1
      <4>3. keys # {} /\ a < Ttl /\ (~RefreshDue => a < Floor)
        BY <2>3, <2>4, <4>2 DEF Stale, RefreshDue
      <4> QED BY <4>2, <4>3
    <3>6. ~(k \in keys <=> k \in issued) => old <= a + Patience
      BY <2>2, <2>3, <3>5 DEF RotationInv
    <3>7. CASE k \in keys /\ k \notin issued
      BY <2>3, <2>4, <3>5, <3>6, <3>7
    <3>8. CASE k \notin keys /\ k \in issued
      BY <2>3, <2>4, <3>5, <3>6, <3>8
    <3> QED BY <3>5, <3>7, <3>8
  <2>9. CASE FetchSucceeds
    <3>1. Busy /\ fetching[1].reply # << >> /\ keys' = fetching[1].reply[1]
      BY <2>9 DEF FetchSucceeds, Usable, Busy
    <3>2. PICK d \in Callers, out \in 0 .. Patience : d = fetching[1].by /\ out = fetching[1].out
      BY <2>2, <3>1, FetchParts
    <3>3. PICK s \in Ended : End(d, s) /\ s = IF lookup[d].kid \in keys' THEN "accepted" ELSE "refused"
      BY <2>9, <3>2 DEF FetchSucceeds, Ended
    <3>4. c = d /\ lookup'[c].stage = s
      BY <2>2, <2>5, <3>3, EndKeeps
    <3>5. lookup'[c].stage = "accepted" <=> k \in keys'
      BY <2>1, <3>3, <3>4
    <3>6. ~(k \in keys' <=> k \in issued) => old <= out
      BY <2>2, <2>3, <3>1, <3>2 DEF RotationInv
    <3>7. out < Ttl + Patience /\ out < Floor + Patience
      BY <2>4, <3>2
    <3>8. old <= out => old < Ttl + Patience /\ old < Floor + Patience
      BY <2>3, <2>4, <3>2, <3>7
    <3> QED BY <2>1, <2>3, <3>5, <3>6, <3>8
  <2>10. CASE FetchFails
    <3>1. Busy
      BY <2>10 DEF FetchFails, FailLookup, Busy
    <3>2. PICK d \in Callers : d = fetching[1].by
      BY <2>2, <3>1, FetchParts
    <3>3. PICK s \in {"kept", "failed"} : End(d, s)
      BY <2>10, <3>2 DEF FetchFails, FailLookup
    <3>4. s \in Ended
      BY <3>3 DEF Ended
    <3>5. c = d => lookup'[c].stage = s
      BY <2>2, <3>3, <3>4, EndKeeps
    <3>6. c # d => lookup'[c] = lookup[c]
      BY <2>2, <3>3, <3>4, EndKeeps
    <3> QED BY <2>1, <2>5, <3>3, <3>5, <3>6
  <2> QED BY <2>1, <2>5, <2>6, <2>7, <2>8, <2>9, <2>10 DEF KeyNext, Rotate, IssuerReplies
<1> QED BY <1>1, KeyInvariant, PTL DEF KeySpec, KeysFollowTheIssuer

-----------------------------------------------------------------------------
(* The ledger beside its readers.                                           *)

Of(es, w) == {e \in es : e.book = w}

Moves(es) == [e \in es |-> e.after - e.before]

Total(es, w) == SumFunction(Moves(Of(es, w)))

\* What a balance or a version has that the ledger does not account for.
Extra(b)  == IF b THEN 1 ELSE 0
Unfunded(w) == IF Opened[w] = 0 THEN 1 ELSE 0

Entry == [seq : Nat, book : Books, before : Int, after : Int]
Move  == [stage : {"idle", "locked", "appended"}, book : Books \cup {NoMove.book},
          delta : Int, seq : Nat]

\* The shape of the state.
ShapeInv ==
    /\ book \in [Books -> [balance : Int, version : Int]]
    /\ entries \subseteq Entry /\ IsFiniteSet(entries)
    /\ lastSeq \in Nat /\ lastSeq <= MaxSeq + Cardinality(Books)
    /\ mover \in [Movers -> Move]
    /\ \A p \in Movers : mover[p].stage # "idle" => mover[p].book \in Books

\* A wallet has one mover, and a seq one taker: what it appended is committed with a
\* seq past every entry of its wallet.
SeqInv ==
    /\ \A p, q \in Movers :
          p # q /\ mover[p].stage # "idle" /\ mover[q].stage # "idle"
              => mover[p].book # mover[q].book
    /\ \A d, e \in entries : d.seq = e.seq => d = e
    /\ \A e \in entries : e.seq \in 1 .. lastSeq
    /\ \A p \in Movers :
          mover[p].stage = "appended" =>
              /\ mover[p].seq \in 1 .. lastSeq
              /\ \A e \in entries : e.seq # mover[p].seq
              /\ \A e \in entries : e.book = mover[p].book => e.seq < mover[p].seq
    /\ \A p, q \in Movers :
          p # q /\ mover[p].stage = "appended" /\ mover[q].stage = "appended"
              => mover[p].seq # mover[q].seq

\* A wallet is what its entries add up to, but for what was done behind the service.
SumInv ==
    \A w \in Books :
        /\ book[w].balance = Total(entries, w) + Extra(w \in tampered)
        /\ book[w].version = Cardinality(Of(entries, w)) + Unfunded(w)

\* A reconciliation's snapshot is such a moment, and its report is of that moment.
AuditInv ==
    /\ audit.stage \in {"idle", "reading", "done"}
    /\ audit.stage # "idle" => audit.book \in Books
    /\ audit.stage = "reading" =>
          /\ audit.seen \subseteq Entry /\ IsFiniteSet(audit.seen)
          /\ audit.stored = Total(audit.seen, audit.book) + Extra(audit.dirty)
          /\ audit.version = Cardinality(Of(audit.seen, audit.book)) + Unfunded(audit.book)
    /\ audit.stage = "done" =>
          /\ audit.difference = Extra(audit.dirty)
          /\ audit.version = audit.count + Unfunded(audit.book)
    /\ audit.dirty \in BOOLEAN

\* Nothing comes between two entries, and the last one is the balance.
Adjacent(d, e) ==
    /\ d.book = e.book /\ d.seq < e.seq
    /\ \A f \in entries : f.book = d.book => f.seq <= d.seq \/ e.seq <= f.seq

ChainInv ==
    \A w \in Books \ tampered :
        /\ \A e \in Of(entries, w) :
              (\A d \in Of(entries, w) : d.seq <= e.seq) => e.after = book[w].balance
        /\ \A d, e \in Of(entries, w) : Adjacent(d, e) => d.after = e.before

\* What a client keeps.
IsPager ==
    pager = [book |-> pager.book, cursor |-> pager.cursor, got |-> pager.got,
             more |-> pager.more, began |-> pager.began]

\* A client has the entries up to its cursor, which is where the last of them is.
PagerInv ==
    /\ IsPager /\ pager.got \in Seq(entries)
    /\ {pager.got[i] : i \in DOMAIN pager.got}
          = {e \in entries : e.book = pager.book /\ e.seq <= pager.cursor}
    /\ \A i, j \in DOMAIN pager.got : i < j => pager.got[i].seq < pager.got[j].seq
    /\ pager.cursor \in Nat
    /\ pager.cursor = 0 \/ \E e \in entries : e.book = pager.book /\ e.seq = pager.cursor
    /\ pager.began \in Nat /\ pager.began <= Cardinality(Of(entries, pager.book))
    /\ pager.more \in BOOLEAN
    /\ pager.more \/ Len(pager.got) >= pager.began

\* The entries of a wallet are finitely many and add up to an integer.
LEMMA TotalType ==
    ASSUME NEW es, es \subseteq Entry, IsFiniteSet(es), NEW w
    PROVE  /\ IsFiniteSet(Of(es, w)) /\ Cardinality(Of(es, w)) \in Nat
           /\ Total(es, w) \in Int
           /\ \A x \in Of(es, w) : Moves(Of(es, w))[x] \in Int
<1>1. Of(es, w) \in SUBSET es
  BY DEF Of
<1>2. IsFiniteSet(Of(es, w)) /\ Cardinality(Of(es, w)) \in Nat
  BY <1>1, FS_Subset, FS_CardinalityType
<1>3. \A x \in Of(es, w) : Moves(Of(es, w))[x] \in Int
  BY <1>1 DEF Moves, Entry
<1>4. DOMAIN Moves(Of(es, w)) = Of(es, w)
  BY DEF Moves
<1>5. Total(es, w) \in Int
  BY <1>2, <1>3, <1>4, SumIsAnInteger DEF Total, SumFunction
<1> QED BY <1>2, <1>3, <1>5

\* A new entry adds its movement to its wallet's total.
LEMMA TotalOfOneMore ==
    ASSUME NEW es, es \subseteq Entry, IsFiniteSet(es), NEW e \in Entry, e \notin es
    PROVE  /\ Total(es \cup {e}, e.book) = Total(es, e.book) + (e.after - e.before)
           /\ Cardinality(Of(es \cup {e}, e.book)) = Cardinality(Of(es, e.book)) + 1
<1>1. PICK w : w = e.book
  OBVIOUS
<1>2. PICK T : T = Of(es, w)
  OBVIOUS
<1>3. Of(es \cup {e}, w) = T \cup {e} /\ e \notin T /\ T \cup {e} \subseteq Entry
  BY <1>1, <1>2 DEF Of
<1>4. IsFiniteSet(T) /\ Cardinality(T) \in Nat /\ Total(es, w) \in Int
  BY <1>2, TotalType
<1>5. Cardinality(T \cup {e}) = Cardinality(T) + 1
  BY <1>3, <1>4, FS_AddElement
<1>6. PICK f : f = Moves(T \cup {e})
  OBVIOUS
<1>7. /\ \A x \in T \cup {e} : f[x] \in Int
      /\ \A x \in T : f[x] = Moves(T)[x]
      /\ f[e] = e.after - e.before
      /\ DOMAIN f = T \cup {e} /\ DOMAIN Moves(T) = T
  BY <1>3, <1>6 DEF Moves, Entry
<1>8. SumFunctionOnSet(f, T \cup {e}) = f[e] + SumFunctionOnSet(f, T)
  BY <1>3, <1>4, <1>7, SumOfOneMore
<1>9. PICK g : g = Moves(T)
  OBVIOUS
<1>10. SumFunctionOnSet(f, T) = SumFunctionOnSet(g, T)
  BY <1>4, <1>7, <1>9, SumsOfEqualTerms
<1>11. Total(es \cup {e}, w) = SumFunctionOnSet(f, T \cup {e})
  BY <1>3, <1>6, <1>7 DEF Total, SumFunction
<1>12. Total(es, w) = SumFunctionOnSet(g, T)
  BY <1>2, <1>7, <1>9 DEF Total, SumFunction
<1>13. f[e] \in Int
  BY <1>7
<1>14. Total(es \cup {e}, w) = Total(es, w) + f[e]
  BY <1>4, <1>8, <1>10, <1>11, <1>12, <1>13
<1> QED BY <1>1, <1>2, <1>3, <1>5, <1>7, <1>14

\* And leaves the others' as they are.
LEMMA TotalOfOthers ==
    ASSUME NEW es, NEW e, NEW w, e.book # w
    PROVE  Of(es \cup {e}, w) = Of(es, w) /\ Total(es \cup {e}, w) = Total(es, w)
<1>1. Of(es \cup {e}, w) = Of(es, w)
  BY DEF Of
<1> QED BY <1>1 DEF Total

\* A commit makes one entry and its balance visible, behind every entry of the wallet.
Commits(p, e) ==
    /\ e \in Entry /\ entries' = entries \cup {e} /\ e \notin entries
    /\ e.book = mover[p].book /\ e.seq = mover[p].seq
    /\ e.seq \in 1 .. lastSeq
    /\ \A f \in entries : f.seq # e.seq
    /\ \A f \in entries : f.book = e.book => f.seq < e.seq
    /\ e.before = book[e.book].balance
    /\ book' \in [Books -> [balance : Int, version : Int]]
    /\ book'[e.book].balance = e.after
    /\ book'[e.book].version = book[e.book].version + 1
    /\ \A w \in Books \ {e.book} : book'[w] = book[w]
    /\ mover' = [mover EXCEPT ![p] = NoMove]

\* What a commit does to the ledger.
LEMMA CommitIsOneEntry ==
    ASSUME ShapeInv, SeqInv, NEW p \in Movers, CommitMove(p)
    PROVE  \E e : Commits(p, e)
<1>1. PICK m : m = mover[p]
  OBVIOUS
<1>2. m \in Move /\ m.stage = "appended" /\ m.book \in Books
  BY <1>1 DEF ShapeInv, CommitMove
<1>3. PICK b : b = book[m.book]
  OBVIOUS
<1>4. b.balance \in Int /\ b.version \in Int /\ m.delta \in Int /\ m.seq \in Nat
  BY <1>2, <1>3 DEF ShapeInv, Move
<1>5. PICK e : e = [seq |-> m.seq, book |-> m.book,
                    before |-> b.balance, after |-> b.balance + m.delta]
  OBVIOUS
<1>6. e \in Entry
  BY <1>2, <1>4, <1>5 DEF Entry
<1>7. entries' = entries \cup {e}
  BY <1>1, <1>3, <1>5 DEF CommitMove
<1>8. /\ m.seq \in 1 .. lastSeq
      /\ \A f \in entries : f.seq # m.seq
      /\ \A f \in entries : f.book = m.book => f.seq < m.seq
  BY <1>1, <1>2 DEF SeqInv
<1>9. book' = [book EXCEPT ![m.book] = [balance |-> b.balance + m.delta,
                                        version |-> b.version + 1]]
  BY <1>1, <1>3 DEF CommitMove
<1>10. PICK row : row = [balance |-> b.balance + m.delta, version |-> b.version + 1]
  OBVIOUS
<1>11. row \in [balance : Int, version : Int] /\ row.balance = b.balance + m.delta
          /\ row.version = b.version + 1
  BY <1>4, <1>10
<1>12. /\ book' \in [Books -> [balance : Int, version : Int]] /\ book'[m.book] = row
       /\ \A w \in Books \ {m.book} : book'[w] = book[w]
  BY <1>2, <1>9, <1>10, <1>11 DEF ShapeInv
<1>13. /\ e.seq = m.seq /\ e.book = m.book /\ e.before = b.balance
       /\ e.after = b.balance + m.delta
  BY <1>5
<1>14. e \notin entries
  BY <1>8, <1>13
<1>15. mover' = [mover EXCEPT ![p] = NoMove]
  BY DEF CommitMove
<1> QED BY <1>1, <1>3, <1>6, <1>7, <1>8, <1>11, <1>12, <1>13, <1>14, <1>15 DEF Commits

\* A transaction that is over.
LEMMA NoMoveType == NoMove \in Move /\ NoMove.stage = "idle"
<1>1. PICK w : w = CHOOSE v \in Books : TRUE
  OBVIOUS
<1>2. NoMove = [stage |-> "idle", book |-> w, delta |-> 0, seq |-> 0] /\ NoMove.book = w
  BY <1>1 DEF NoMove
<1>3. 0 \in Int /\ 0 \in Nat
  OBVIOUS
<1> QED BY <1>2, <1>3 DEF Move

LedgerSame == UNCHANGED <<book, entries, lastSeq, mover, tampered>>

Looking ==
    \/ \E w \in Books : AuditReadsWallet(w) \/ OpenStatement(w)
    \/ AuditSumsLedger \/ PageThrough \/ UNCHANGED readsVars

\* The readers' steps change nothing of the ledger.
LEMMA ReadersOnlyRead == Looking => LedgerSame
BY DEF Looking, AuditReadsWallet, OpenStatement, AuditSumsLedger, PageThrough, readsVars,
       LedgerSame

\* Every step keeps the shape.
LEMMA ShapeStep == ShapeInv /\ SeqInv /\ [ReadsNext]_readsVars => ShapeInv'
<1> SUFFICES ASSUME ShapeInv, SeqInv, [ReadsNext]_readsVars PROVE ShapeInv'
  OBVIOUS
<1>0. Cardinality(Books) \in Nat /\ MaxSeq \in Nat
  BY ReadsAssumption, FS_CardinalityType
<1>1. ASSUME NEW p \in Movers, NEW w \in Books, NEW d \in Deltas, LockBook(p, w, d)
      PROVE  ShapeInv'
  <2>1. d \in Int
    BY ReadsAssumption
  <2>2. PICK m : m = [stage |-> "locked", book |-> w, delta |-> d, seq |-> 0]
    OBVIOUS
  <2>3. m \in Move /\ m.book \in Books
    BY <2>1, <2>2 DEF Move
  <2>4. mover' = [mover EXCEPT ![p] = m]
    BY <1>1, <2>2 DEF LockBook
  <2>5. mover' \in [Movers -> Move]
           /\ \A q \in Movers : mover'[q].stage # "idle" => mover'[q].book \in Books
    BY <2>3, <2>4 DEF ShapeInv
  <2> QED BY <1>1, <2>5 DEF LockBook, ShapeInv
<1>2. ASSUME NEW p \in Movers, AppendEntry(p) PROVE ShapeInv'
  <2>1. PICK n \in Nat : n = lastSeq' /\ n = lastSeq + 1 /\ n <= MaxSeq + Cardinality(Books)
    BY <1>0, <1>2 DEF AppendEntry, ShapeInv
  <2>2. mover' = [mover EXCEPT ![p].stage = "appended", ![p].seq = n]
    BY <1>2, <2>1 DEF AppendEntry
  <2>3. PICK m : m = mover[p]
    OBVIOUS
  <2>4. PICK k : k = [m EXCEPT !.stage = "appended", !.seq = n]
    OBVIOUS
  <2>5. m \in Move /\ m.stage = "locked" /\ m.book \in Books
    BY <1>2, <2>3 DEF AppendEntry, ShapeInv
  <2>6. k \in Move /\ k.book = m.book
    BY <2>4, <2>5 DEF Move
  <2>7. mover' = [mover EXCEPT ![p] = k]
    BY <2>2, <2>3, <2>4 DEF ShapeInv
  <2>8. mover' \in [Movers -> Move]
           /\ \A q \in Movers : mover'[q].stage # "idle" => mover'[q].book \in Books
    BY <2>5, <2>6, <2>7 DEF ShapeInv
  <2> QED BY <1>2, <2>1, <2>8 DEF AppendEntry, ShapeInv
<1>3. ASSUME NEW p \in Movers, mover' = [mover EXCEPT ![p] = NoMove]
      PROVE  mover' \in [Movers -> Move]
                /\ \A q \in Movers : mover'[q].stage # "idle" => mover'[q].book \in Books
  BY <1>3, NoMoveType DEF ShapeInv
<1>4. ASSUME NEW p \in Movers, CommitMove(p) PROVE ShapeInv'
  <2>1. PICK e : Commits(p, e)
    BY <1>4, CommitIsOneEntry
  <2>2. entries' \subseteq Entry /\ IsFiniteSet(entries')
    BY <2>1, FS_AddElement DEF Commits, ShapeInv
  <2>3. lastSeq' = lastSeq
    BY <1>4 DEF CommitMove
  <2> QED BY <1>3, <2>1, <2>2, <2>3 DEF Commits, ShapeInv
<1>5. ASSUME NEW p \in Movers, AbandonMove(p) PROVE ShapeInv'
  BY <1>3, <1>5 DEF AbandonMove, ShapeInv
<1>6. ASSUME NEW w \in Books, Tamper(w) PROVE ShapeInv'
  <2>1. PICK b \in [balance : Int, version : Int] : b = book[w]
    BY DEF ShapeInv
  <2>2. PICK c : c = [b EXCEPT !.balance = b.balance + 1]
    OBVIOUS
  <2>3. c \in [balance : Int, version : Int]
    BY <2>2
  <2>4. book' = [book EXCEPT ![w] = c]
    BY <1>6, <2>1, <2>2 DEF Tamper, ShapeInv
  <2> QED BY <1>6, <2>3, <2>4 DEF Tamper, ShapeInv
<1>7. CASE LedgerSame
  BY <1>7 DEF LedgerSame, ShapeInv
<1> QED
  BY <1>1, <1>2, <1>4, <1>5, <1>6, <1>7, ReadersOnlyRead DEF ReadsNext, Looking

\* Every step keeps the seqs in order.
LEMMA SeqStep == ShapeInv /\ SeqInv /\ [ReadsNext]_readsVars => SeqInv'
<1> SUFFICES ASSUME ShapeInv, SeqInv, [ReadsNext]_readsVars PROVE SeqInv'
  OBVIOUS
<1>0. lastSeq \in Nat /\ \A e \in entries : e.seq \in Nat
  BY DEF ShapeInv, Entry
<1>1. ASSUME NEW p \in Movers, NEW w \in Books, NEW d \in Deltas, LockBook(p, w, d)
      PROVE  SeqInv'
  <2>1. /\ mover'[p].stage = "locked" /\ mover'[p].book = w
        /\ \A q \in Movers \ {p} : mover'[q] = mover[q]
    BY <1>1 DEF LockBook, ShapeInv
  <2>2. \A q \in Movers \ {p} : mover[q].stage # "idle" => mover[q].book # w
    BY <1>1 DEF LockBook, BookFree
  <2>3. \A q, r \in Movers :
           q # r /\ mover'[q].stage # "idle" /\ mover'[r].stage # "idle"
               => mover'[q].book # mover'[r].book
    BY <2>1, <2>2 DEF SeqInv
  <2>4. \A q \in Movers : mover'[q].stage = "appended" => q # p
    BY <2>1
  <2>5. entries' = entries /\ lastSeq' = lastSeq
    BY <1>1 DEF LockBook
  <2> QED BY <2>1, <2>3, <2>4, <2>5 DEF SeqInv
<1>2. ASSUME NEW p \in Movers, AppendEntry(p) PROVE SeqInv'
  <2>1. PICK n \in Nat : n = lastSeq' /\ n = lastSeq + 1
    BY <1>0, <1>2 DEF AppendEntry
  <2>2. /\ mover'[p].stage = "appended" /\ mover'[p].book = mover[p].book /\ mover'[p].seq = n
        /\ \A q \in Movers \ {p} : mover'[q] = mover[q]
    BY <1>2, <2>1 DEF AppendEntry, ShapeInv, Move
  <2>3. mover[p].stage = "locked" /\ entries' = entries
    BY <1>2 DEF AppendEntry
  <2>4. \A e \in entries : e.seq \in 1 .. n /\ e.seq # n /\ e.seq < n
    BY <1>0, <2>1 DEF SeqInv
  <2>5. \A q \in Movers \ {p} : mover[q].stage = "appended" =>
           mover[q].seq \in 1 .. n /\ mover[q].seq # n
    BY <1>0, <2>1 DEF SeqInv
  <2>6. \A q, r \in Movers :
           q # r /\ mover'[q].stage # "idle" /\ mover'[r].stage # "idle"
               => mover'[q].book # mover'[r].book
    BY <2>2, <2>3 DEF SeqInv
  <2>7. \A q \in Movers :
           mover'[q].stage = "appended" =>
               /\ mover'[q].seq \in 1 .. n
               /\ \A e \in entries : e.seq # mover'[q].seq
               /\ \A e \in entries : e.book = mover'[q].book => e.seq < mover'[q].seq
    <3> SUFFICES ASSUME NEW q \in Movers, mover'[q].stage = "appended"
                 PROVE  /\ mover'[q].seq \in 1 .. n
                        /\ \A e \in entries : e.seq # mover'[q].seq
                        /\ \A e \in entries : e.book = mover'[q].book => e.seq < mover'[q].seq
      OBVIOUS
    <3>1. CASE q = p
      BY <2>1, <2>2, <2>4, <3>1, <1>0
    <3>2. CASE q # p
      BY <2>2, <2>5, <3>2 DEF SeqInv
    <3> QED BY <3>1, <3>2
  <2>8. \A q, r \in Movers :
           q # r /\ mover'[q].stage = "appended" /\ mover'[r].stage = "appended"
               => mover'[q].seq # mover'[r].seq
    BY <2>2, <2>5 DEF SeqInv
  <2> QED BY <2>1, <2>3, <2>4, <2>6, <2>7, <2>8 DEF SeqInv
<1>3. ASSUME NEW p \in Movers, mover' = [mover EXCEPT ![p] = NoMove]
      PROVE  /\ \A q \in Movers : mover'[q].stage # "idle" => q # p /\ mover'[q] = mover[q]
             /\ \A q \in Movers : mover'[q].stage = "appended" => q # p /\ mover'[q] = mover[q]
  BY <1>3, NoMoveType DEF ShapeInv
<1>4. ASSUME NEW p \in Movers, CommitMove(p) PROVE SeqInv'
  <2>1. PICK e : Commits(p, e)
    BY <1>4, CommitIsOneEntry
  <2>2. /\ entries' = entries \cup {e} /\ e.seq \in 1 .. lastSeq
        /\ \A f \in entries : f.seq # e.seq
        /\ e.book = mover[p].book /\ e.seq = mover[p].seq
    BY <2>1 DEF Commits
  <2>3. /\ \A q \in Movers : mover'[q].stage # "idle" => q # p /\ mover'[q] = mover[q]
        /\ \A q \in Movers : mover'[q].stage = "appended" => q # p /\ mover'[q] = mover[q]
    BY <1>3, <2>1 DEF Commits
  <2>4. mover[p].stage = "appended" /\ lastSeq' = lastSeq
    BY <1>4 DEF CommitMove
  <2>5. \A q \in Movers \ {p} : mover[q].stage = "appended" =>
           mover[q].book # e.book /\ mover[q].seq # e.seq
    BY <2>2, <2>4 DEF SeqInv
  <2>6. \A d, f \in entries' : d.seq = f.seq => d = f
    BY <2>2 DEF SeqInv
  <2>7. \A f \in entries' : f.seq \in 1 .. lastSeq'
    BY <2>2, <2>4 DEF SeqInv
  <2>8. \A q \in Movers :
           mover'[q].stage = "appended" =>
               /\ mover'[q].seq \in 1 .. lastSeq'
               /\ \A f \in entries' : f.seq # mover'[q].seq
               /\ \A f \in entries' : f.book = mover'[q].book => f.seq < mover'[q].seq
    <3> SUFFICES ASSUME NEW q \in Movers, mover'[q].stage = "appended"
                 PROVE  /\ mover'[q].seq \in 1 .. lastSeq'
                        /\ \A f \in entries' : f.seq # mover'[q].seq
                        /\ \A f \in entries' : f.book = mover'[q].book => f.seq < mover'[q].seq
      OBVIOUS
    <3>1. q # p /\ mover'[q] = mover[q] /\ mover[q].stage = "appended"
      BY <2>3
    <3>2. mover[q].book # e.book /\ mover[q].seq # e.seq
      BY <2>5, <3>1
    <3>3. /\ mover[q].seq \in 1 .. lastSeq
          /\ \A f \in entries : f.seq # mover[q].seq
          /\ \A f \in entries : f.book = mover[q].book => f.seq < mover[q].seq
      BY <3>1 DEF SeqInv
    <3> QED BY <2>2, <2>4, <3>1, <3>2, <3>3
  <2> QED BY <2>3, <2>6, <2>7, <2>8 DEF SeqInv
<1>5. ASSUME NEW p \in Movers, AbandonMove(p) PROVE SeqInv'
  <2>1. /\ \A q \in Movers : mover'[q].stage # "idle" => q # p /\ mover'[q] = mover[q]
        /\ \A q \in Movers : mover'[q].stage = "appended" => q # p /\ mover'[q] = mover[q]
        /\ entries' = entries /\ lastSeq' = lastSeq
    BY <1>3, <1>5 DEF AbandonMove
  <2> QED BY <2>1 DEF SeqInv
<1>6. ASSUME NEW w \in Books, Tamper(w) PROVE SeqInv'
  BY <1>6 DEF Tamper, SeqInv
<1>7. CASE LedgerSame
  BY <1>7 DEF LedgerSame, SeqInv
<1> QED
  BY <1>1, <1>2, <1>4, <1>5, <1>6, <1>7, ReadersOnlyRead DEF ReadsNext, Looking

\* Every step keeps the totals.
LEMMA SumStep ==
    ShapeInv /\ SeqInv /\ SumInv /\ [ReadsNext]_readsVars => SumInv'
<1> SUFFICES ASSUME ShapeInv, SeqInv, SumInv, [ReadsNext]_readsVars PROVE SumInv'
  OBVIOUS
<1>0. \A w \in Books : /\ Total(entries, w) \in Int /\ Cardinality(Of(entries, w)) \in Nat
                       /\ book[w].balance \in Int /\ book[w].version \in Int
  BY TotalType DEF ShapeInv
<1>1. ASSUME entries' = entries, tampered' = tampered, book' = book PROVE SumInv'
  BY <1>1 DEF SumInv, Of, Total
<1>2. ASSUME NEW p \in Movers, CommitMove(p) PROVE SumInv'
  <2>1. PICK e : Commits(p, e)
    BY <1>2, CommitIsOneEntry
  <2>2. PICK w : w = e.book
    OBVIOUS
  <2>3. /\ w \in Books /\ e \in Entry /\ e \notin entries /\ entries' = entries \cup {e}
        /\ e.before = book[w].balance /\ book'[w].balance = e.after
        /\ book'[w].version = book[w].version + 1
        /\ \A v \in Books \ {w} : book'[v] = book[v]
    BY <2>1, <2>2 DEF Commits, Entry
  <2>4. /\ Total(entries', w) = Total(entries, w) + (e.after - e.before)
        /\ Cardinality(Of(entries', w)) = Cardinality(Of(entries, w)) + 1
    BY <2>2, <2>3, TotalOfOneMore DEF ShapeInv
  <2>5. e.after \in Int /\ e.before \in Int
    BY <2>3 DEF Entry
  <2>6. \A v \in Books \ {w} :
           Total(entries', v) = Total(entries, v) /\ Of(entries', v) = Of(entries, v)
    BY <2>2, <2>3, TotalOfOthers
  <2>7. tampered' = tampered
    BY <1>2 DEF CommitMove
  <2>8. PICK x \in Int : x = Extra(w \in tampered)
    BY DEF Extra
  <2>9. PICK u \in Int : u = Unfunded(w)
    BY DEF Unfunded
  <2>10. book'[w].balance = Total(entries', w) + x
    BY <1>0, <2>3, <2>4, <2>5, <2>8 DEF SumInv
  <2>11. book'[w].version = Cardinality(Of(entries', w)) + u
    BY <1>0, <2>3, <2>4, <2>9 DEF SumInv
  <2>12. \A v \in Books \ {w} :
            /\ book'[v].balance = Total(entries', v) + Extra(v \in tampered)
            /\ book'[v].version = Cardinality(Of(entries', v)) + Unfunded(v)
    BY <2>3, <2>6 DEF SumInv
  <2> QED BY <2>7, <2>8, <2>9, <2>10, <2>11, <2>12 DEF SumInv
<1>3. ASSUME NEW w \in Books, Tamper(w) PROVE SumInv'
  <2>1. /\ entries' = entries /\ w \notin tampered /\ tampered' = tampered \cup {w}
        /\ \A v \in Books \ {w} : book'[v] = book[v]
        /\ book'[w].balance = book[w].balance + 1 /\ book'[w].version = book[w].version
    BY <1>3 DEF Tamper, ShapeInv
  <2>2. Extra(w \in tampered) = 0 /\ Extra(w \in tampered') = 1
    BY <2>1 DEF Extra
  <2>3. \A v \in Books \ {w} : Extra(v \in tampered') = Extra(v \in tampered)
    BY <2>1 DEF Extra
  <2>4. /\ book[w].balance = Total(entries, w) + 0
        /\ book[w].version = Cardinality(Of(entries, w)) + Unfunded(w)
    BY <2>2 DEF SumInv
  <2>5. book'[w].balance = Total(entries, w) + 1
    BY <1>0, <2>1, <2>4
  <2> QED BY <2>1, <2>2, <2>3, <2>4, <2>5 DEF SumInv
<1>4. ASSUME NEW p \in Movers, NEW w \in Books, NEW d \in Deltas, LockBook(p, w, d)
      PROVE  SumInv'
  BY <1>1, <1>4 DEF LockBook
<1>5. ASSUME NEW p \in Movers, AppendEntry(p) \/ AbandonMove(p) PROVE SumInv'
  BY <1>1, <1>5 DEF AppendEntry, AbandonMove
<1>6. CASE LedgerSame
  BY <1>1, <1>6 DEF LedgerSame
<1> QED
  BY <1>2, <1>3, <1>4, <1>5, <1>6, ReadersOnlyRead DEF ReadsNext, Looking

\* Every step keeps the reconciliation to its moment.
LEMMA AuditStep ==
    ShapeInv /\ SumInv /\ AuditInv /\ [ReadsNext]_readsVars => AuditInv'
<1> SUFFICES ASSUME ShapeInv, SumInv, AuditInv, [ReadsNext]_readsVars PROVE AuditInv'
  OBVIOUS
<1>1. ASSUME audit' = audit PROVE AuditInv'
  BY <1>1 DEF AuditInv
<1>2. ASSUME NEW w \in Books, AuditReadsWallet(w) PROVE AuditInv'
  <2>1. /\ audit'.stage = "reading" /\ audit'.book = w
        /\ audit'.stored = book[w].balance /\ audit'.version = book[w].version
        /\ audit'.seen = entries /\ audit'.dirty = (w \in tampered)
    BY <1>2 DEF AuditReadsWallet, NoAudit
  <2>2. /\ book[w].balance = Total(entries, w) + Extra(w \in tampered)
        /\ book[w].version = Cardinality(Of(entries, w)) + Unfunded(w)
        /\ entries \subseteq Entry /\ IsFiniteSet(entries)
    BY DEF SumInv, ShapeInv
  <2> QED BY <2>1, <2>2 DEF AuditInv
<1>3. ASSUME AuditSumsLedger PROVE AuditInv'
  <2>1. audit.stage = "reading"
    BY <1>3 DEF AuditSumsLedger
  <2>2. /\ audit.seen \subseteq Entry /\ IsFiniteSet(audit.seen) /\ audit.book \in Books
        /\ audit.stored = Total(audit.seen, audit.book) + Extra(audit.dirty)
        /\ audit.version = Cardinality(Of(audit.seen, audit.book)) + Unfunded(audit.book)
        /\ audit.dirty \in BOOLEAN
    BY <2>1 DEF AuditInv
  <2>3. /\ audit'.stage = "done" /\ audit'.book = audit.book
        /\ audit'.version = audit.version /\ audit'.dirty = audit.dirty
        /\ audit'.difference = audit.stored - Total(audit.seen, audit.book)
        /\ audit'.count = Cardinality(Of(audit.seen, audit.book))
    BY <1>3 DEF AuditSumsLedger, LedgerSeen, NoAudit, Total, Of, Moves
  <2>4. PICK t \in Int : t = Total(audit.seen, audit.book)
    BY <2>2, TotalType
  <2>5. PICK x \in Int : x = Extra(audit.dirty)
    BY DEF Extra
  <2>6. audit'.difference = x
    BY <2>2, <2>3, <2>4, <2>5
  <2> QED BY <2>2, <2>3, <2>5, <2>6 DEF AuditInv
<1>4. ASSUME NEW p \in Movers, NEW w \in Books, NEW d \in Deltas, LockBook(p, w, d)
      PROVE  AuditInv'
  BY <1>1, <1>4 DEF LockBook
<1>5. ASSUME NEW p \in Movers, AppendEntry(p) \/ CommitMove(p) \/ AbandonMove(p)
      PROVE  AuditInv'
  BY <1>1, <1>5 DEF AppendEntry, CommitMove, AbandonMove
<1>6. ASSUME NEW w \in Books, Tamper(w) \/ OpenStatement(w) PROVE AuditInv'
  BY <1>1, <1>6 DEF Tamper, OpenStatement
<1>7. ASSUME PageThrough \/ UNCHANGED readsVars PROVE AuditInv'
  BY <1>1, <1>7 DEF PageThrough, readsVars
<1> QED BY <1>2, <1>3, <1>4, <1>5, <1>6, <1>7 DEF ReadsNext

\* The openings: one entry for each wallet opened with money.
LEMMA OpeningEntries ==
    ASSUME ReadsInit
    PROVE  /\ entries \subseteq Entry /\ IsFiniteSet(entries)
           /\ \A e \in entries : e.seq \in 1 .. Cardinality(Funded)
           /\ \A d, e \in entries : d.seq = e.seq \/ d.book = e.book => d = e
           /\ \A e \in entries : e.before = 0 /\ e.after = Opened[e.book] /\ Opened[e.book] > 0
           /\ \A w \in Funded : \E e \in entries : e.book = w
           /\ Cardinality(Funded) \in Nat /\ Cardinality(Funded) <= Cardinality(Books)
           /\ Cardinality(Books) \in Nat
<1>1. Funded \in SUBSET Books /\ IsFiniteSet(Books)
  BY ReadsAssumption DEF Funded
<1>2. /\ IsFiniteSet(Funded) /\ Cardinality(Funded) \in Nat /\ Cardinality(Books) \in Nat
      /\ Cardinality(Funded) <= Cardinality(Books)
  BY <1>1, FS_Subset, FS_CardinalityType
<1>3. PICK n \in Nat : n = Cardinality(Funded)
  BY <1>2
<1>4. PICK order \in Bijection(1 .. n, Funded) :
         entries = {[seq |-> i, book |-> order[i], before |-> 0,
                     after |-> Opened[order[i]]] : i \in DOMAIN order}
  BY <1>3 DEF ReadsInit
<1>5. /\ order \in [1 .. n -> Funded] /\ DOMAIN order = 1 .. n
      /\ \A i, j \in 1 .. n : order[i] = order[j] => i = j
      /\ \A w \in Funded : \E i \in 1 .. n : order[i] = w
  BY DEF Bijection, Injection, Surjection, IsInjective
<1> DEFINE E(i) == [seq |-> i, book |-> order[i], before |-> 0, after |-> Opened[order[i]]]
<1>6. entries = {E(i) : i \in 1 .. n}
  BY <1>4, <1>5
<1>7. \A i \in 1 .. n : /\ E(i).seq = i /\ E(i).book = order[i] /\ E(i).before = 0
                        /\ E(i).after = Opened[order[i]]
  OBVIOUS
<1>8. \A i \in 1 .. n : order[i] \in Books /\ Opened[order[i]] \in Nat /\ Opened[order[i]] > 0
  BY <1>5, ReadsAssumption DEF Funded
<1>9. \A i \in 1 .. n : E(i) \in Entry
  BY <1>8 DEF Entry
<1>10. IsFiniteSet(1 .. n)
  BY FS_Interval
<1>11. IsFiniteSet(entries)
  <2>1. PICK f : f = [i \in 1 .. n |-> E(i)]
    OBVIOUS
  <2>2. f \in Surjection(1 .. n, entries)
    BY <1>6, <2>1 DEF Surjection
  <2> QED BY <1>10, <2>2, FS_Surjection
<1> HIDE DEF E
<1>12. \A e \in entries : \E i \in 1 .. n : e = E(i)
  BY <1>6
<1>13. \A e \in entries : e.seq \in 1 .. n /\ e \in Entry /\ e.before = 0
          /\ e.after = Opened[e.book] /\ Opened[e.book] > 0
  BY <1>7, <1>8, <1>9, <1>12
<1>14. \A d, e \in entries : d.seq = e.seq \/ d.book = e.book => d = e
  BY <1>5, <1>7, <1>12
<1>15. \A w \in Funded : \E e \in entries : e.book = w
  BY <1>5, <1>6, <1>7
<1> QED BY <1>2, <1>3, <1>11, <1>13, <1>14, <1>15

\* At the start a wallet is its opening.
LEMMA LedgerStart == ReadsInit => ShapeInv /\ SeqInv /\ SumInv /\ AuditInv /\ ChainInv
<1> SUFFICES ASSUME ReadsInit PROVE ShapeInv /\ SeqInv /\ SumInv /\ AuditInv /\ ChainInv
  OBVIOUS
<1>1. /\ entries \subseteq Entry /\ IsFiniteSet(entries)
      /\ \A e \in entries : e.seq \in 1 .. lastSeq
      /\ \A d, e \in entries : d.seq = e.seq \/ d.book = e.book => d = e
      /\ \A e \in entries : e.before = 0 /\ e.after = Opened[e.book] /\ Opened[e.book] > 0
      /\ \A w \in Funded : \E e \in entries : e.book = w
      /\ lastSeq \in Nat /\ lastSeq <= Cardinality(Books) /\ Cardinality(Books) \in Nat
  BY OpeningEntries DEF ReadsInit
<1>2. \A w \in Books : Opened[w] \in Nat
  BY ReadsAssumption
<1>3. /\ book = [w \in Books |-> [balance |-> Opened[w], version |-> 1]]
      /\ mover = [p \in Movers |-> NoMove] /\ tampered = {} /\ audit = NoAudit
  BY DEF ReadsInit
<1>4. \A p \in Movers : mover[p].stage = "idle"
  BY <1>3, NoMoveType
<1>5. ShapeInv
  <2>1. mover \in [Movers -> Move]
    BY <1>3, NoMoveType
  <2>2. book \in [Books -> [balance : Int, version : Int]]
    BY <1>2, <1>3
  <2>3. lastSeq <= MaxSeq + Cardinality(Books)
    BY <1>1, ReadsAssumption
  <2> QED BY <1>1, <1>4, <2>1, <2>2, <2>3 DEF ShapeInv
<1>6. SeqInv
  BY <1>1, <1>4 DEF SeqInv
<1>7. SumInv
  <2> SUFFICES ASSUME NEW w \in Books
               PROVE  /\ book[w].balance = Total(entries, w) + Extra(w \in tampered)
                      /\ book[w].version = Cardinality(Of(entries, w)) + Unfunded(w)
    BY DEF SumInv
  <2>1. book[w].balance = Opened[w] /\ book[w].version = 1 /\ Extra(w \in tampered) = 0
    BY <1>3 DEF Extra
  <2>2. {} \subseteq Entry /\ IsFiniteSet({})
    BY FS_EmptySet
  <2>3. Of({}, w) = {} /\ Total({}, w) = 0 /\ Cardinality(Of({}, w)) = 0
    <3>1. Of({}, w) = {}
      BY DEF Of
    <3>2. PICK f : f = Moves({})
      OBVIOUS
    <3>3. DOMAIN f = {}
      BY <3>2 DEF Moves
    <3>4. SumFunction(f) = 0
      BY <3>3, SumOfNothing DEF SumFunction
    <3> QED BY <3>1, <3>2, <3>4, FS_EmptySet DEF Total
  <2>4. CASE Opened[w] = 0
    <3>1. Of(entries, w) = Of({}, w)
      BY <1>1, <2>4 DEF Of
    <3>2. Total(entries, w) = 0 /\ Cardinality(Of(entries, w)) = 0
      BY <2>3, <3>1 DEF Total
    <3> QED BY <2>1, <2>4, <3>2 DEF Unfunded
  <2>5. CASE Opened[w] > 0
    <3>1. PICK e \in entries : e.book = w
      BY <1>1, <2>5 DEF Funded
    <3>2. Of(entries, w) = {e}
      BY <1>1, <3>1 DEF Of
    <3>3. Of({} \cup {e}, w) = {e} /\ e \in Entry /\ e \notin {}
      BY <1>1, <3>1 DEF Of
    <3>4. Total({} \cup {e}, w) = Total({}, w) + (e.after - e.before)
             /\ Cardinality(Of({} \cup {e}, w)) = Cardinality(Of({}, w)) + 1
      BY <2>2, <3>1, <3>3, TotalOfOneMore
    <3>5. Total(entries, w) = Total({} \cup {e}, w)
      BY <3>2, <3>3 DEF Total
    <3>6. e.before = 0 /\ e.after = Opened[w]
      BY <1>1, <3>1
    <3>7. Total(entries, w) = Opened[w] /\ Cardinality(Of(entries, w)) = 1
      <4>1. PICK o \in Nat : o = Opened[w]
        BY <1>2
      <4>2. Total({} \cup {e}, w) = 0 + (o - 0) /\ Cardinality({e}) = 0 + 1
        BY <2>3, <3>3, <3>4, <3>6, <4>1
      <4> QED BY <3>2, <3>5, <4>1, <4>2
    <3>8. Unfunded(w) = 0
      BY <1>2, <2>5 DEF Unfunded
    <3> QED BY <1>2, <2>1, <3>7, <3>8
  <2> QED BY <1>2, <2>4, <2>5
<1>8. AuditInv
  BY <1>3 DEF AuditInv, NoAudit
<1>9. ChainInv
  <2>1. \A w \in Books : \A e \in Of(entries, w) : e.after = book[w].balance
    BY <1>1, <1>3 DEF Of
  <2>2. \A w \in Books : \A d, e \in Of(entries, w) : d = e /\ d.seq \in Nat
    BY <1>1 DEF Of, Entry
  <2>3. \A w \in Books : \A d, e \in Of(entries, w) : ~Adjacent(d, e)
    BY <2>2 DEF Adjacent
  <2> QED BY <2>1, <2>3 DEF ChainInv
<1> QED BY <1>5, <1>6, <1>7, <1>8, <1>9

\* What the invariant says of a report.
LEMMA ReportFromAudit == AuditInv => ReportIsExact
BY DEF AuditInv, ReportIsExact, Extra, Unfunded

LedgerInv == ShapeInv /\ SeqInv /\ SumInv /\ AuditInv

\* ReportIsExact, for any wallets, movements and tampering: ReconcileWallet reports a
\* drift exactly when the balance was changed behind the ledger by the time its snapshot
\* was taken, and its version and count are of that moment.
THEOREM ReportIsExactHolds == ReadsSpec => []ReportIsExact
<1>1. LedgerInv /\ [ReadsNext]_readsVars => LedgerInv'
  BY ShapeStep, SeqStep, SumStep, AuditStep DEF LedgerInv
<1>2. LedgerInv => ReportIsExact
  BY ReportFromAudit DEF LedgerInv
<1>3. ReadsInit => LedgerInv
  BY LedgerStart DEF LedgerInv
<1> QED BY <1>1, <1>2, <1>3, PTL DEF ReadsSpec

-----------------------------------------------------------------------------
(* The statement, page by page.                                             *)

UpTo(es, e) == {d \in es : d.seq <= e.seq}
Rank(es, e) == Cardinality(UpTo(es, e))
Ordered(es) == [i \in 1 .. Cardinality(es) |-> CHOOSE e \in es : Rank(es, e) = i]

Numbered(es) ==
    es \subseteq Entry /\ IsFiniteSet(es) /\ \A d, e \in es : d.seq = e.seq => d = e

\* An entry's rank grows with its seq.
LEMMA RankGrows ==
    ASSUME NEW es, Numbered(es), NEW d \in es, NEW e \in es, d.seq < e.seq
    PROVE  Rank(es, d) < Rank(es, e)
<1>1. \A f \in es : f.seq \in Nat
  BY DEF Numbered, Entry
<1>2. UpTo(es, d) \in SUBSET UpTo(es, e) /\ e \in UpTo(es, e) /\ e \notin UpTo(es, d)
  BY <1>1 DEF UpTo
<1>3. UpTo(es, e) \in SUBSET es
  BY DEF UpTo
<1>4. IsFiniteSet(UpTo(es, e))
  BY <1>3, FS_Subset DEF Numbered
<1>5. PICK S : S = UpTo(es, e)
  OBVIOUS
<1>6. PICK T : T = UpTo(es, d)
  OBVIOUS
<1>7. T \in SUBSET S /\ S # T /\ IsFiniteSet(S)
  BY <1>2, <1>4, <1>5, <1>6
<1>8. Cardinality(T) <= Cardinality(S) /\ Cardinality(S) # Cardinality(T) /\ IsFiniteSet(T)
  BY <1>7, FS_Subset
<1>9. Cardinality(S) \in Nat /\ Cardinality(T) \in Nat
  BY <1>7, <1>8, FS_CardinalityType
<1> QED BY <1>5, <1>6, <1>8, <1>9 DEF Rank

\* Ranks are places in the statement.
LEMMA RankIsAPlace ==
    ASSUME NEW es, Numbered(es), NEW e \in es
    PROVE  Rank(es, e) \in 1 .. Cardinality(es)
<1>1. UpTo(es, e) \in SUBSET es /\ e \in UpTo(es, e)
  BY DEF UpTo, Numbered, Entry
<1>2. IsFiniteSet(es) /\ Cardinality(es) \in Nat
  BY FS_CardinalityType DEF Numbered
<1>3. /\ IsFiniteSet(UpTo(es, e)) /\ Cardinality(UpTo(es, e)) \in Nat
      /\ Cardinality(UpTo(es, e)) <= Cardinality(es)
  BY <1>1, <1>2, FS_Subset, FS_CardinalityType
<1>4. Cardinality(UpTo(es, e)) # 0
  BY <1>1, <1>3, FS_EmptySet
<1> QED BY <1>2, <1>3, <1>4 DEF Rank

\* Two entries have two ranks.
LEMMA RankIsUnique ==
    ASSUME NEW es, Numbered(es), NEW d \in es, NEW e \in es, Rank(es, d) = Rank(es, e)
    PROVE  d = e
<1>1. d.seq \in Nat /\ e.seq \in Nat
  BY DEF Numbered, Entry
<1>2. Rank(es, d) \in Int /\ Rank(es, e) \in Int
  BY RankIsAPlace
<1>3. ~(d.seq < e.seq) /\ ~(e.seq < d.seq)
  BY <1>2, RankGrows
<1>4. d.seq = e.seq
  BY <1>1, <1>3
<1> QED BY <1>4 DEF Numbered

\* Every place has its entry: ORDER BY seq lists all of them, in order.
LEMMA OrderedIsComplete ==
    ASSUME NEW es, Numbered(es)
    PROVE  /\ Cardinality(es) \in Nat /\ Ordered(es) \in [1 .. Cardinality(es) -> es]
           /\ \A e \in es : \E i \in 1 .. Cardinality(es) : Ordered(es)[i] = e
           /\ \A i, j \in 1 .. Cardinality(es) :
                 i < j => Ordered(es)[i].seq < Ordered(es)[j].seq
<1>1. IsFiniteSet(es) /\ Cardinality(es) \in Nat
  BY FS_CardinalityType DEF Numbered
<1>2. PICK n \in Nat : n = Cardinality(es)
  BY <1>1
<1>3. PICK rank : rank = [e \in es |-> Rank(es, e)]
  OBVIOUS
<1>4. rank \in Injection(es, 1 .. n)
  <2>1. rank \in [es -> 1 .. n]
    BY <1>2, <1>3, RankIsAPlace
  <2>2. \A d, e \in es : rank[d] = rank[e] => d = e
    BY <1>3, RankIsUnique
  <2> QED BY <2>1, <2>2 DEF Injection, IsInjective
<1>5. IsFiniteSet(1 .. n) /\ Cardinality(1 .. n) = n
  BY FS_Interval
<1>6. rank \in Surjection(es, 1 .. n)
  BY <1>2, <1>4, <1>5, FS_Injection
<1>7. \A i \in 1 .. n : \E e \in es : Rank(es, e) = i
  BY <1>3, <1>6 DEF Surjection
<1>8. PICK s : s = Ordered(es)
  OBVIOUS
<1>9. s = [i \in 1 .. n |-> CHOOSE e \in es : Rank(es, e) = i]
  BY <1>2, <1>8 DEF Ordered
<1>10. \A i \in 1 .. n : s[i] \in es /\ Rank(es, s[i]) = i
  BY <1>7, <1>9
<1>11. s \in [1 .. n -> es]
  BY <1>9, <1>10
<1>12. ASSUME NEW e \in es PROVE \E i \in 1 .. n : s[i] = e
  <2>1. PICK i \in 1 .. n : i = Rank(es, e)
    BY <1>2, RankIsAPlace
  <2> QED BY <1>10, <2>1, RankIsUnique
<1>13. ASSUME NEW i \in 1 .. n, NEW j \in 1 .. n, i < j PROVE s[i].seq < s[j].seq
  <2>1. s[i] \in es /\ s[j] \in es /\ Rank(es, s[i]) = i /\ Rank(es, s[j]) = j
    BY <1>10
  <2>2. s[i].seq \in Nat /\ s[j].seq \in Nat
    BY <2>1 DEF Numbered, Entry
  <2>3. ~(s[j].seq < s[i].seq)
    BY <1>13, <2>1, RankGrows
  <2>4. s[i].seq # s[j].seq
    BY <1>13, <2>1 DEF Numbered
  <2> QED BY <2>2, <2>3, <2>4
<1> QED BY <1>2, <1>8, <1>11, <1>12, <1>13

\* A page of what is left of a statement, and whether there is more.
IsPage(es, page, more) ==
    /\ page \in Seq(es)
    /\ \A i, j \in 1 .. Len(page) : i < j => page[i].seq < page[j].seq
    /\ \A e \in es : (\E i \in 1 .. Len(page) : page[i] = e)
                     \/ (Len(page) > 0 /\ page[Len(page)].seq < e.seq)
    /\ more \in BOOLEAN
    /\ ~more => \A e \in es : \E i \in 1 .. Len(page) : page[i] = e

Fetched(es, rows, page) ==
    LET all == Ordered(es)
    IN  /\ rows = SubSeq(all, 1, IF Len(all) < RowsFetched THEN Len(all) ELSE RowsFetched)
        /\ page = SubSeq(rows, 1, IF Len(rows) < PageSize THEN Len(rows) ELSE PageSize)

\* ListByWallet returns such a page: the first rows in order, and one row past them tells
\* whether there is more.
LEMMA FetchedIsAPage ==
    ASSUME NEW es, Numbered(es), NEW rows, NEW page, Fetched(es, rows, page)
    PROVE  IsPage(es, page, Len(rows) > PageSize)
<1>0. PICK all : all = Ordered(es)
  OBVIOUS
<1>1. PICK n \in Nat : n = Cardinality(es)
  BY OrderedIsComplete
<1>2. /\ all \in [1 .. n -> es]
      /\ \A e \in es : \E i \in 1 .. n : all[i] = e
      /\ \A i, j \in 1 .. n : i < j => all[i].seq < all[j].seq
  BY <1>0, <1>1, OrderedIsComplete
<1>3. all \in Seq(es) /\ Len(all) = n
  BY <1>2
<1>4. PageSize \in Nat \ {0} /\ RowsFetched = PageSize + 1
  BY ReadsAssumption DEF RowsFetched
<1>5. PICK m \in Nat : m = IF n < RowsFetched THEN n ELSE RowsFetched
  BY <1>4
<1>6. m <= n /\ rows = SubSeq(all, 1, m)
  BY <1>0, <1>3, <1>4, <1>5 DEF Fetched
<1>7. rows \in Seq(es) /\ Len(rows) = m /\ \A i \in 1 .. m : rows[i] = all[i]
  BY <1>2, <1>6, SubSeqProperties
<1>8. PICK k \in Nat : k = IF m < PageSize THEN m ELSE PageSize
  BY <1>4
<1>9. k <= m /\ page = SubSeq(rows, 1, k)
  BY <1>4, <1>7, <1>8 DEF Fetched
<1>10. page \in Seq(es) /\ Len(page) = k /\ \A i \in 1 .. k : page[i] = all[i]
  <2>1. \A i \in 1 .. k : rows[i] \in es
    BY <1>7, <1>9
  <2>2. page \in Seq(es) /\ Len(page) = k /\ \A i \in 1 .. k : page[i] = rows[i]
    BY <1>9, <2>1, SubSeqProperties
  <2> QED BY <1>7, <1>9, <2>2
<1>11. \A i, j \in 1 .. Len(page) : i < j => page[i].seq < page[j].seq
  BY <1>2, <1>6, <1>9, <1>10
<1>12. ASSUME NEW e \in es
       PROVE  (\E i \in 1 .. Len(page) : page[i] = e)
                 \/ (Len(page) > 0 /\ page[Len(page)].seq < e.seq)
  <2>1. PICK i \in 1 .. n : all[i] = e
    BY <1>2
  <2>2. CASE i <= k
    BY <1>10, <2>1, <2>2
  <2>3. CASE i > k
    <3>1. k > 0
      BY <1>4, <1>5, <1>8, <2>1, <2>3
    <3>2. k \in 1 .. n /\ k < i
      BY <1>6, <1>9, <2>3, <3>1
    <3> QED BY <1>2, <1>10, <2>1, <3>1, <3>2
  <2> QED BY <2>2, <2>3
<1>13. ASSUME ~(Len(rows) > PageSize), NEW e \in es
       PROVE  \E i \in 1 .. Len(page) : page[i] = e
  <2>1. k = n
    BY <1>4, <1>5, <1>7, <1>8, <1>13
  <2> QED BY <1>2, <1>10, <2>1
<1>14. (Len(rows) > PageSize) \in BOOLEAN
  OBVIOUS
<1> QED BY <1>10, <1>11, <1>12, <1>13, <1>14 DEF IsPage

\* Every step keeps the chain of balances.
LEMMA ChainStep ==
    ShapeInv /\ SeqInv /\ ChainInv /\ [ReadsNext]_readsVars => ChainInv'
<1> SUFFICES ASSUME ShapeInv, SeqInv, ChainInv, [ReadsNext]_readsVars PROVE ChainInv'
  OBVIOUS
<1>1. ASSUME entries' = entries, tampered' = tampered, book' = book PROVE ChainInv'
  BY <1>1 DEF ChainInv, Of, Adjacent
<1>2. ASSUME NEW p \in Movers, CommitMove(p) PROVE ChainInv'
  <2>1. PICK e : Commits(p, e)
    BY <1>2, CommitIsOneEntry
  <2>2. PICK w : w = e.book
    OBVIOUS
  <2>3. /\ w \in Books /\ e.seq \in Nat /\ entries' = entries \cup {e} /\ e \notin entries
        /\ e.before = book[w].balance /\ book'[w].balance = e.after
        /\ \A v \in Books \ {w} : book'[v] = book[v]
        /\ \A f \in Of(entries, w) : f.seq \in Nat /\ f.seq < e.seq
    BY <2>1, <2>2 DEF Commits, Entry, Of, ShapeInv
  <2>4. tampered' = tampered
    BY <1>2 DEF CommitMove
  <2>5. Of(entries', w) = Of(entries, w) \cup {e}
    BY <2>2, <2>3 DEF Of
  <2>6. \A v \in Books \ {w} : Of(entries', v) = Of(entries, v)
    BY <2>2, <2>3 DEF Of
  <2>7. \A d, x : Adjacent(d, x)' => Adjacent(d, x)
    BY <2>3 DEF Adjacent
  <2>8. ASSUME w \notin tampered
        PROVE  /\ \A x \in Of(entries', w) :
                     (\A d \in Of(entries', w) : d.seq <= x.seq) => x.after = book'[w].balance
               /\ \A d, x \in Of(entries', w) : Adjacent(d, x)' => d.after = x.before
    <3>1. \A f \in Of(entries, w) :
             (\A d \in Of(entries, w) : d.seq <= f.seq) => f.after = book[w].balance
      BY <2>3, <2>8 DEF ChainInv
    <3>2. \A d, x \in Of(entries, w) : Adjacent(d, x) => d.after = x.before
      BY <2>3, <2>8 DEF ChainInv
    <3>3. ASSUME NEW x \in Of(entries', w), \A d \in Of(entries', w) : d.seq <= x.seq
          PROVE  x = e
      <4>1. e.seq <= x.seq
        BY <2>5, <3>3
      <4>2. x \notin Of(entries, w)
        BY <2>3, <4>1
      <4> QED BY <2>5, <4>2
    <3>4. ASSUME NEW d \in Of(entries', w), NEW x \in Of(entries', w), Adjacent(d, x)'
          PROVE  d.after = x.before
      <4>1. d.seq < x.seq /\ d.book = w
        BY <3>4 DEF Adjacent, Of
      <4>2. d \in Of(entries, w)
        <5>1. x.seq \in Nat /\ x.seq <= e.seq
          BY <2>3, <2>5
        <5>2. d # e
          BY <2>3, <4>1, <5>1
        <5> QED BY <2>5, <5>2
      <4>3. CASE x \in Of(entries, w)
        BY <2>7, <3>2, <3>4, <4>2, <4>3
      <4>4. CASE x = e
        <5>1. \A f \in Of(entries, w) : f.seq <= d.seq \/ e.seq <= f.seq
          BY <2>3, <3>4, <4>1, <4>4 DEF Adjacent, Of
        <5>2. \A f \in Of(entries, w) : f.seq <= d.seq
          BY <2>3, <5>1
        <5>3. d.after = book[w].balance
          BY <3>1, <4>2, <5>2
        <5> QED BY <2>3, <4>4, <5>3
      <4> QED BY <2>5, <4>3, <4>4
    <3> QED BY <2>3, <3>3, <3>4
  <2>9. ASSUME NEW v \in Books \ tampered, v # w
        PROVE  /\ \A x \in Of(entries', v) :
                     (\A d \in Of(entries', v) : d.seq <= x.seq) => x.after = book'[v].balance
               /\ \A d, x \in Of(entries', v) : Adjacent(d, x)' => d.after = x.before
    <3>1. Of(entries', v) = Of(entries, v) /\ book'[v] = book[v]
      BY <2>3, <2>6, <2>9
    <3>2. \A x \in Of(entries, v) :
             (\A d \in Of(entries, v) : d.seq <= x.seq) => x.after = book[v].balance
      BY DEF ChainInv
    <3>3. \A d, x \in Of(entries, v) : Adjacent(d, x) => d.after = x.before
      BY DEF ChainInv
    <3> QED BY <2>7, <3>1, <3>2, <3>3
  <2> QED BY <2>4, <2>8, <2>9 DEF ChainInv
<1>3. ASSUME NEW w \in Books, Tamper(w) PROVE ChainInv'
  <2>1. /\ entries' = entries /\ tampered' = tampered \cup {w}
        /\ \A v \in Books \ {w} : book'[v] = book[v]
    BY <1>3 DEF Tamper, ShapeInv
  <2>2. \A d, x : Adjacent(d, x)' => Adjacent(d, x)
    BY <2>1 DEF Adjacent
  <2> QED BY <2>1, <2>2 DEF ChainInv, Of
<1>4. ASSUME NEW p \in Movers, NEW w \in Books, NEW d \in Deltas, LockBook(p, w, d)
      PROVE  ChainInv'
  BY <1>1, <1>4 DEF LockBook
<1>5. ASSUME NEW p \in Movers, AppendEntry(p) \/ AbandonMove(p) PROVE ChainInv'
  BY <1>1, <1>5 DEF AppendEntry, AbandonMove
<1>6. CASE LedgerSame
  BY <1>1, <1>6 DEF LedgerSame
<1> QED
  BY <1>2, <1>3, <1>4, <1>5, <1>6, ReadersOnlyRead DEF ReadsNext, Looking

GotBefore(e) == \E i \in 1 .. Len(pager.got) : pager.got[i] = e

\* What is behind a client's cursor, entry by entry.
LEMMA BehindTheCursor ==
    ASSUME ShapeInv, PagerInv
    PROVE  /\ DOMAIN pager.got = 1 .. Len(pager.got) /\ Len(pager.got) \in Nat
           /\ pager.cursor \in Nat
           /\ \A i \in 1 .. Len(pager.got) :
                 /\ pager.got[i] \in entries /\ pager.got[i].book = pager.book
                 /\ pager.got[i].seq \in Nat /\ pager.got[i].seq <= pager.cursor
           /\ \A e \in entries : e.book = pager.book /\ e.seq <= pager.cursor => GotBefore(e)
<1>1. DOMAIN pager.got = 1 .. Len(pager.got) /\ Len(pager.got) \in Nat
  BY DEF PagerInv
<1>2. {pager.got[i] : i \in 1 .. Len(pager.got)}
         = {e \in entries : e.book = pager.book /\ e.seq <= pager.cursor}
  BY <1>1 DEF PagerInv
<1>3. \A i \in 1 .. Len(pager.got) :
         pager.got[i] \in {e \in entries : e.book = pager.book /\ e.seq <= pager.cursor}
  BY <1>2
<1>4. \A e \in entries : e.book = pager.book /\ e.seq <= pager.cursor => GotBefore(e)
  BY <1>2 DEF GotBefore
<1> QED BY <1>1, <1>3, <1>4 DEF PagerInv, ShapeInv, Entry

\* A commit leaves nothing behind a client's cursor.
LEMMA CommitLeavesPager ==
    ASSUME ShapeInv, SeqInv, PagerInv, NEW p \in Movers, CommitMove(p)
    PROVE  PagerInv'
<1>1. PICK e : Commits(p, e)
  BY CommitIsOneEntry
<1>2. /\ entries' = entries \cup {e} /\ e \in Entry /\ e \notin entries
      /\ e.seq \in 1 .. lastSeq
      /\ \A f \in entries : f.book = e.book => f.seq < e.seq
  BY <1>1 DEF Commits
<1>3. pager' = pager
  BY DEF CommitMove
<1>4. pager.cursor \in Nat /\ e.seq \in Nat /\ e.seq > 0
  BY <1>2 DEF PagerInv, Entry
<1>5. e.book = pager.book => pager.cursor < e.seq
  BY <1>2, <1>4 DEF PagerInv
<1>6. {f \in entries' : f.book = pager.book /\ f.seq <= pager.cursor}
         = {f \in entries : f.book = pager.book /\ f.seq <= pager.cursor}
  BY <1>2, <1>4, <1>5
<1>7. pager.got \in Seq(entries')
  BY <1>2 DEF PagerInv
<1>8. Cardinality(Of(entries, pager.book)) <= Cardinality(Of(entries', pager.book))
         /\ Cardinality(Of(entries', pager.book)) \in Nat
         /\ Cardinality(Of(entries, pager.book)) \in Nat
  <2>1. Of(entries, pager.book) \in SUBSET Of(entries', pager.book)
    BY <1>2 DEF Of
  <2>2. entries' \subseteq Entry /\ IsFiniteSet(entries')
    BY <1>2, FS_AddElement DEF ShapeInv
  <2>3. PICK T : T = Of(entries', pager.book)
    OBVIOUS
  <2>4. IsFiniteSet(T)
    BY <2>2, <2>3, TotalType
  <2>5. /\ Cardinality(Of(entries, pager.book)) <= Cardinality(T)
        /\ IsFiniteSet(Of(entries, pager.book))
    BY <2>1, <2>3, <2>4, FS_Subset
  <2> QED BY <2>3, <2>4, <2>5, FS_CardinalityType
<1>9. pager.began <= Cardinality(Of(entries', pager.book))
  BY <1>8 DEF PagerInv
<1>10. pager.cursor = 0 \/ \E f \in entries' : f.book = pager.book /\ f.seq = pager.cursor
  BY <1>2 DEF PagerInv
<1> QED BY <1>3, <1>6, <1>7, <1>9, <1>10 DEF PagerInv, IsPager

\* What a client has when it starts on a statement.
Starting(f, w) ==
    /\ f = [book |-> f.book, cursor |-> f.cursor, got |-> f.got, more |-> f.more,
            began |-> f.began]
    /\ f.got \in Seq(entries) /\ DOMAIN f.got = {}
    /\ {f.got[i] : i \in DOMAIN f.got}
          = {e \in entries : e.book = f.book /\ e.seq <= f.cursor}
    /\ f.book = w /\ f.cursor = 0 /\ f.more = TRUE
    /\ f.began = Cardinality(Of(entries, w)) /\ f.began \in Nat

\* It has nothing yet, and there is nothing it should have.
LEMMA FirstPageIsEmpty ==
    ASSUME ShapeInv, SeqInv, NEW w PROVE Starting(FirstPage(w), w)
<1>1. \A e \in entries : ~(e.seq <= 0)
  BY DEF ShapeInv, SeqInv, Entry
<1>2. Cardinality(Of(entries, w)) \in Nat
  BY TotalType DEF ShapeInv
<1>3. PICK got : got = << >>
  OBVIOUS
<1>4. got \in Seq(entries) /\ DOMAIN got = {}
  BY <1>3
<1>5. PICK n : n = Cardinality(Of(entries, w))
  OBVIOUS
<1>6. PICK f : f = [book |-> w, cursor |-> 0, got |-> got, more |-> TRUE, began |-> n]
  OBVIOUS
<1>7. f = FirstPage(w)
  BY <1>3, <1>5, <1>6 DEF FirstPage, Of
<1>8. {got[i] : i \in DOMAIN got} = {} /\ {e \in entries : e.book = w /\ e.seq <= 0} = {}
  BY <1>1, <1>4
<1>9. Starting(f, w)
  BY <1>2, <1>4, <1>5, <1>6, <1>8 DEF Starting
<1> QED BY <1>7, <1>9

\* A page adds the next entries to what the client has.
PageAdds(es, page, more) ==
    /\ pager'.got = pager.got \o page
    /\ pager'.cursor = IF page = << >> THEN pager.cursor ELSE page[Len(page)].seq
    /\ pager'.more = more /\ pager'.book = pager.book /\ pager'.began = pager.began
    /\ entries' = entries
    /\ es = {e \in entries : e.book = pager.book /\ e.seq > pager.cursor}
    /\ IsPage(es, page, more)

\* What PageThrough does.
LEMMA PageThroughAdds ==
    ASSUME ShapeInv, SeqInv, PagerInv, PageThrough
    PROVE  \E es, page, more : PageAdds(es, page, more)
<1>1. PICK es : es = {e \in entries : e.book = pager.book /\ e.seq > pager.cursor}
  OBVIOUS
<1>2. Numbered(es)
  <2>1. es \in SUBSET entries
    BY <1>1
  <2>2. IsFiniteSet(es)
    BY <2>1, FS_Subset DEF ShapeInv
  <2> QED BY <2>1, <2>2 DEF Numbered, ShapeInv, SeqInv
<1>3. Statement(pager.book, pager.cursor) = Ordered(es)
  BY <1>1 DEF Statement, Ordered, Rank, UpTo
<1>4. PICK all : all = Ordered(es)
  OBVIOUS
<1>5. PICK rows : rows = SubSeq(all, 1, IF Len(all) < RowsFetched THEN Len(all) ELSE RowsFetched)
  OBVIOUS
<1>6. PICK page : page = SubSeq(rows, 1, IF Len(rows) < PageSize THEN Len(rows) ELSE PageSize)
  OBVIOUS
<1>7. IsPage(es, page, Len(rows) > PageSize)
  BY <1>2, <1>4, <1>5, <1>6, FetchedIsAPage DEF Fetched
<1>8. /\ pager' = [pager EXCEPT !.got = @ \o page,
                        !.cursor = IF page = << >> THEN @ ELSE page[Len(page)].seq,
                        !.more = Len(rows) > PageSize]
      /\ entries' = entries
  BY <1>3, <1>4, <1>5, <1>6 DEF PageThrough
<1>9. /\ pager'.got = pager.got \o page
      /\ pager'.cursor = IF page = << >> THEN pager.cursor ELSE page[Len(page)].seq
      /\ pager'.more = (Len(rows) > PageSize)
      /\ pager'.book = pager.book /\ pager'.began = pager.began
  BY <1>8 DEF PagerInv, IsPager
<1> QED BY <1>1, <1>7, <1>8, <1>9 DEF PageAdds

\* Opening a statement keeps what is said of clients.
LEMMA OpenLeavesPager ==
    ASSUME ShapeInv, SeqInv, NEW w, OpenStatement(w)
    PROVE  PagerInv'
<1>1. PICK f : f = FirstPage(w)
  OBVIOUS
<1>2. Starting(f, w)
  BY <1>1, FirstPageIsEmpty
<1>3. pager' = f /\ entries' = entries
  BY <1>1 DEF OpenStatement
<1>4. \A i, j \in DOMAIN f.got : i < j => f.got[i].seq < f.got[j].seq
  BY <1>2 DEF Starting
<1>5. f.began <= Cardinality(Of(entries', f.book))
  BY <1>2, <1>3 DEF Starting
<1>6. /\ f = [book |-> f.book, cursor |-> f.cursor, got |-> f.got, more |-> f.more,
              began |-> f.began]
      /\ f.got \in Seq(entries')
      /\ {f.got[i] : i \in DOMAIN f.got}
            = {e \in entries' : e.book = f.book /\ e.seq <= f.cursor}
  BY <1>2, <1>3, Zenon DEF Starting
<1>7. f.cursor \in Nat /\ f.cursor = 0 /\ f.began \in Nat
  BY <1>2 DEF Starting
<1>8. f.more \in BOOLEAN /\ f.more
  BY <1>2, Zenon DEF Starting
<1> QED BY <1>3, <1>4, <1>5, <1>6, <1>7, <1>8, Zenon DEF PagerInv, IsPager

\* And so does the state the service starts in.
LEMMA PagerStart == ASSUME ShapeInv, SeqInv, ReadsInit PROVE PagerInv
<1>1. PICK w : w = CHOOSE v \in Books : TRUE
  OBVIOUS
<1>2. Starting(pager, w)
  BY <1>1, FirstPageIsEmpty DEF ReadsInit
<1>3. \A i, j \in DOMAIN pager.got : i < j => pager.got[i].seq < pager.got[j].seq
  BY <1>2 DEF Starting
<1>4. pager.began <= Cardinality(Of(entries, pager.book))
  BY <1>2 DEF Starting
<1>5. /\ IsPager /\ pager.got \in Seq(entries)
      /\ {pager.got[i] : i \in DOMAIN pager.got}
            = {e \in entries : e.book = pager.book /\ e.seq <= pager.cursor}
  BY <1>2, Zenon DEF Starting, IsPager
<1>6. pager.cursor \in Nat /\ pager.cursor = 0 /\ pager.began \in Nat
  BY <1>2 DEF Starting
<1>7. pager.more \in BOOLEAN /\ pager.more
  BY <1>2, Zenon DEF Starting
<1> QED BY <1>3, <1>4, <1>5, <1>6, <1>7 DEF PagerInv

\* A list of entries that has every one of them is as long as they are many.
LEMMA ListOfAllIsLong ==
    ASSUME NEW S, IsFiniteSet(S), NEW s \in Seq(S), \A e \in S : \E i \in 1 .. Len(s) : s[i] = e
    PROVE  Cardinality(S) <= Len(s)
<1>1. PICK n \in Nat : n = Len(s)
  OBVIOUS
<1>2. s \in [1 .. n -> S]
  BY <1>1
<1>3. s \in Surjection(1 .. n, S)
  BY <1>1, <1>2 DEF Surjection
<1>4. IsFiniteSet(1 .. n) /\ Cardinality(1 .. n) = n
  BY FS_Interval
<1>5. PICK T : T = 1 .. n
  OBVIOUS
<1>6. IsFiniteSet(T) /\ s \in Surjection(T, S)
  BY <1>3, <1>4, <1>5
<1>7. Cardinality(S) <= Cardinality(T)
  BY <1>6, FS_Surjection
<1> QED BY <1>1, <1>4, <1>5, <1>7

\* The entries a client has after another page: those it had, then those of the page.
Joined(page, got, n, m) ==
    /\ n \in Nat /\ m \in Nat
    /\ got \in Seq(entries) /\ Len(got) = n + m
    /\ \A i \in 1 .. n : got[i] = pager.got[i]
    /\ \A i \in 1 .. m : got[n + i] = page[i]
    /\ \A i \in 1 .. n + m : i > n => i - n \in 1 .. m /\ got[i] = page[i - n]
    /\ \A i \in 1 .. m :
          /\ page[i] \in entries /\ page[i].book = pager.book
          /\ page[i].seq \in Nat /\ page[i].seq > pager.cursor

\* That is what concatenating them gives.
LEMMA PageIsJoined ==
    ASSUME ShapeInv, SeqInv, PagerInv, NEW es, NEW page, NEW more, PageAdds(es, page, more),
           NEW n, n = Len(pager.got)
    PROVE  Joined(page, pager'.got, n, Len(page))
<1>1. page \in Seq(es) /\ pager.got \in Seq(entries)
  BY DEF PageAdds, IsPage, PagerInv
<1>2. \A e \in es : e \in entries /\ e.book = pager.book /\ e.seq > pager.cursor
  BY DEF PageAdds
<1>3. page \in Seq(entries)
  BY <1>1, <1>2
<1>4. n \in Nat /\ Len(page) \in Nat
  BY <1>1
<1>5. pager'.got = pager.got \o page
  BY DEF PageAdds
<1>6. /\ pager'.got \in Seq(entries) /\ Len(pager'.got) = n + Len(page)
      /\ \A i \in 1 .. n : pager'.got[i] = pager.got[i]
      /\ \A i \in 1 .. n + Len(page) : i > n => pager'.got[i] = page[i - n]
  BY <1>1, <1>3, <1>4, <1>5
<1>7. \A i \in 1 .. n + Len(page) : i > n => i - n \in 1 .. Len(page)
  BY <1>4
<1>8. \A i \in 1 .. Len(page) : pager'.got[n + i] = page[i]
  <2> SUFFICES ASSUME NEW i \in 1 .. Len(page) PROVE pager'.got[n + i] = page[i]
    OBVIOUS
  <2>1. n + i \in 1 .. n + Len(page) /\ n + i > n /\ (n + i) - n = i
    BY <1>4
  <2> QED BY <1>6, <2>1
<1>9. \A i \in 1 .. Len(page) : page[i] \in es
  BY <1>1
<1>10. \A e \in entries : e.seq \in Nat
  BY DEF ShapeInv, Entry
<1> QED BY <1>2, <1>4, <1>6, <1>7, <1>8, <1>9, <1>10 DEF Joined

\* Another page leaves a client with the entries up to its new cursor, in order; told
\* that there is no more, it has them all.
LEMMA PageLeavesPager ==
    ASSUME ShapeInv, SeqInv, PagerInv, PageThrough
    PROVE  PagerInv'
<1>1. PICK es, page, more : PageAdds(es, page, more)
  BY PageThroughAdds
<1>2. PICK n : n = Len(pager.got)
  OBVIOUS
<1>3. PICK m : m = Len(page)
  OBVIOUS
<1>4. PICK got : got = pager'.got
  OBVIOUS
<1>5. PICK c : c = pager'.cursor
  OBVIOUS
<1>6. /\ n \in Nat /\ m \in Nat
      /\ got \in Seq(entries) /\ Len(got) = n + m
      /\ \A i \in 1 .. n : got[i] = pager.got[i]
      /\ \A i \in 1 .. m : got[n + i] = page[i]
      /\ \A i \in 1 .. n + m : i > n => i - n \in 1 .. m /\ got[i] = page[i - n]
      /\ \A i \in 1 .. m :
            /\ page[i] \in entries /\ page[i].book = pager.book
            /\ page[i].seq \in Nat /\ page[i].seq > pager.cursor
  <2>1. Joined(page, got, n, m)
    BY <1>1, <1>2, <1>3, <1>4, PageIsJoined
  <2> QED BY <2>1 DEF Joined
<1>7. /\ pager.cursor \in Nat
      /\ \A i \in 1 .. n :
            /\ pager.got[i] \in entries /\ pager.got[i].book = pager.book
            /\ pager.got[i].seq \in Nat /\ pager.got[i].seq <= pager.cursor
      /\ \A e \in entries : e.book = pager.book /\ e.seq <= pager.cursor
                               => \E i \in 1 .. n : pager.got[i] = e
      /\ \A i, j \in 1 .. n : i < j => pager.got[i].seq < pager.got[j].seq
  BY <1>2, BehindTheCursor DEF GotBefore, PagerInv
<1>8. /\ \A i, j \in 1 .. m : i < j => page[i].seq < page[j].seq
      /\ \A e \in es : (\E i \in 1 .. m : page[i] = e) \/ (m > 0 /\ page[m].seq < e.seq)
      /\ ~more => \A e \in es : \E i \in 1 .. m : page[i] = e
      /\ more \in BOOLEAN
  BY <1>1, <1>3 DEF PageAdds, IsPage
<1>9. /\ c = IF m = 0 THEN pager.cursor ELSE page[m].seq
      /\ entries' = entries /\ pager'.book = pager.book /\ pager'.began = pager.began
      /\ pager'.more = more
      /\ es = {e \in entries : e.book = pager.book /\ e.seq > pager.cursor}
  <2>1. page \in Seq(es)
    BY <1>1 DEF PageAdds, IsPage
  <2>2. page = << >> <=> m = 0
    BY <1>3, <2>1, EmptySeq
  <2> QED BY <1>1, <1>3, <1>5, <2>2 DEF PageAdds
<1>10. c \in Nat /\ pager.cursor <= c /\ \A i \in 1 .. m : page[i].seq <= c
  <2>1. CASE m = 0
    BY <1>7, <1>9, <2>1
  <2>2. CASE m # 0
    <3>1. m \in 1 .. m
      BY <1>6, <2>2
    <3>2. c = page[m].seq /\ c \in Nat /\ c > pager.cursor
      BY <1>6, <1>9, <2>2, <3>1
    <3>3. \A i \in 1 .. m : i < m => page[i].seq < c
      BY <1>8, <3>1, <3>2
    <3>4. \A i \in 1 .. m : i = m \/ i < m
      BY <1>6
    <3>5. \A i \in 1 .. m : page[i].seq \in Nat
      BY <1>6
    <3>6. \A i \in 1 .. m : page[i].seq <= c
      BY <3>2, <3>3, <3>4, <3>5
    <3> QED BY <1>7, <3>2, <3>6
  <2> QED BY <2>1, <2>2
<1>11. ASSUME NEW i \in 1 .. n + m
       PROVE  got[i] \in entries /\ got[i].book = pager.book /\ got[i].seq <= c
  <2>1. CASE i <= n
    <3>1. i \in 1 .. n
      BY <1>6, <2>1
    <3>2. got[i] \in entries /\ got[i].book = pager.book /\ got[i].seq <= pager.cursor
             /\ got[i].seq \in Nat
      BY <1>6, <1>7, <3>1
    <3> QED BY <1>7, <1>10, <3>2
  <2>2. CASE i > n
    BY <1>6, <1>10, <2>2
  <2> QED BY <1>6, <2>1, <2>2
<1>12. ASSUME NEW e \in entries, e.book = pager.book, e.seq <= c \/ ~more
       PROVE  \E i \in 1 .. n + m : got[i] = e
  <2>0. e.seq \in Nat
    BY DEF ShapeInv, Entry
  <2>1. CASE e.seq <= pager.cursor
    <3>1. PICK i \in 1 .. n : pager.got[i] = e
      BY <1>7, <1>12, <2>1
    <3> QED BY <1>6, <3>1
  <2>2. CASE e.seq > pager.cursor
    <3>1. e \in es
      BY <1>9, <1>12, <2>2
    <3>2. \E i \in 1 .. m : page[i] = e
      <4>1. CASE ~more
        BY <1>8, <3>1, <4>1
      <4>2. CASE e.seq <= c
        <5>1. ~(m > 0 /\ page[m].seq < e.seq)
          BY <1>6, <1>9, <1>10, <2>0, <4>2
        <5> QED BY <1>8, <3>1, <5>1
      <4> QED BY <1>12, <4>1, <4>2
    <3>3. PICK i \in 1 .. m : page[i] = e
      BY <3>2
    <3>4. n + i \in 1 .. n + m
      BY <1>6
    <3> QED BY <1>6, <3>3, <3>4
  <2> QED BY <1>7, <2>0, <2>1, <2>2
<1>13. ASSUME NEW i \in 1 .. n + m, NEW j \in 1 .. n + m, i < j
       PROVE  got[i].seq < got[j].seq
  <2>1. CASE j <= n
    <3>1. i \in 1 .. n /\ j \in 1 .. n
      BY <1>6, <1>13, <2>1
    <3> QED BY <1>6, <1>7, <1>13, <3>1
  <2>2. CASE i > n
    <3>1. /\ i - n \in 1 .. m /\ j - n \in 1 .. m /\ i - n < j - n
          /\ got[i] = page[i - n] /\ got[j] = page[j - n]
      BY <1>6, <1>13, <2>2
    <3> QED BY <1>8, <3>1
  <2>3. CASE i <= n /\ j > n
    <3>1. i \in 1 .. n /\ j - n \in 1 .. m /\ got[j] = page[j - n] /\ got[i] = pager.got[i]
      BY <1>6, <2>3
    <3>2. pager.got[i].seq <= pager.cursor /\ page[j - n].seq > pager.cursor
      BY <1>6, <1>7, <3>1
    <3>3. pager.got[i].seq \in Nat /\ page[j - n].seq \in Nat
      BY <1>6, <1>7, <3>1
    <3> QED BY <1>7, <3>1, <3>2, <3>3
  <2> QED BY <1>6, <2>1, <2>2, <2>3
<1>14. DOMAIN got = 1 .. n + m
  BY <1>6
<1>15. {got[i] : i \in DOMAIN got} = {e \in entries : e.book = pager.book /\ e.seq <= c}
  BY <1>11, <1>12, <1>14
<1>16. c = 0 \/ \E e \in entries : e.book = pager.book /\ e.seq = c
  <2>1. CASE m = 0
    BY <1>9, <2>1 DEF PagerInv
  <2>2. CASE m # 0
    <3>1. m \in 1 .. m
      BY <1>6, <2>2
    <3> QED BY <1>6, <1>9, <2>2, <3>1
  <2> QED BY <2>1, <2>2
<1>17. ~more => Len(got) >= pager.began
  <2> SUFFICES ASSUME ~more PROVE Len(got) >= pager.began
    OBVIOUS
  <2>1. PICK S : S = Of(entries, pager.book)
    OBVIOUS
  <2>2. IsFiniteSet(S) /\ Cardinality(S) \in Nat
    BY <2>1, TotalType DEF ShapeInv
  <2>3. got \in Seq(S)
    BY <1>6, <1>11, <2>1 DEF Of
  <2>4. \A e \in S : \E i \in 1 .. Len(got) : got[i] = e
    BY <1>6, <1>12, <2>1 DEF Of
  <2>5. Cardinality(S) <= Len(got)
    BY <2>2, <2>3, <2>4, ListOfAllIsLong
  <2>6. pager.began \in Nat /\ pager.began <= Cardinality(S)
    BY <2>1 DEF PagerInv
  <2> QED BY <1>6, <2>2, <2>5, <2>6
<1>18. IsPager'
  BY DEF PageThrough, PagerInv, IsPager
<1>19. pager.began \in Nat /\ pager.began <= Cardinality(Of(entries', pager.book))
  BY <1>9 DEF PagerInv
<1>20. got \in Seq(entries')
  BY <1>6, <1>9
<1>21. pager'.more \in BOOLEAN /\ (pager'.more \/ Len(got) >= pager.began)
  BY <1>8, <1>9, <1>17
<1>22. \A i, j \in DOMAIN got : i < j => got[i].seq < got[j].seq
  BY <1>13, <1>14
<1> QED
  BY <1>4, <1>5, <1>9, <1>10, <1>15, <1>16, <1>18, <1>19, <1>20, <1>21, <1>22 DEF PagerInv

\* Every step keeps what is said of clients.
LEMMA PagerStep ==
    ShapeInv /\ SeqInv /\ PagerInv /\ [ReadsNext]_readsVars => PagerInv'
<1> SUFFICES ASSUME ShapeInv, SeqInv, PagerInv, [ReadsNext]_readsVars PROVE PagerInv'
  OBVIOUS
<1>1. ASSUME entries' = entries, pager' = pager PROVE PagerInv'
  BY <1>1 DEF PagerInv, IsPager
<1>2. ASSUME NEW p \in Movers, NEW w \in Books, NEW d \in Deltas, LockBook(p, w, d)
      PROVE  PagerInv'
  BY <1>1, <1>2 DEF LockBook
<1>3. ASSUME NEW p \in Movers, AppendEntry(p) \/ AbandonMove(p) PROVE PagerInv'
  BY <1>1, <1>3 DEF AppendEntry, AbandonMove
<1>4. ASSUME NEW p \in Movers, CommitMove(p) PROVE PagerInv'
  BY <1>4, CommitLeavesPager
<1>5. ASSUME NEW w \in Books, Tamper(w) \/ AuditReadsWallet(w) PROVE PagerInv'
  BY <1>1, <1>5 DEF Tamper, AuditReadsWallet
<1>6. ASSUME NEW w \in Books, OpenStatement(w) PROVE PagerInv'
  BY <1>6, OpenLeavesPager
<1>7. CASE AuditSumsLedger
  BY <1>1, <1>7 DEF AuditSumsLedger
<1>8. CASE PageThrough
  BY <1>8, PageLeavesPager
<1>9. CASE UNCHANGED readsVars
  BY <1>1, <1>9 DEF readsVars
<1> QED
  BY <1>2, <1>3, <1>4, <1>5, <1>6, <1>7, <1>8, <1>9 DEF ReadsNext

\* Two entries that follow each other in what a client has follow each other in the
\* wallet.
LEMMA NothingSkipped ==
    ASSUME ShapeInv, SeqInv, PagerInv, NEW i \in 1 .. Len(pager.got) - 1
    PROVE  /\ pager.got[i].seq < pager.got[i + 1].seq
           /\ Adjacent(pager.got[i], pager.got[i + 1])
<1>1. PICK n \in Nat : n = Len(pager.got) /\ DOMAIN pager.got = 1 .. n
  BY BehindTheCursor
<1>2. i \in 1 .. n /\ i + 1 \in 1 .. n /\ i < i + 1
  BY <1>1
<1>3. \A j, k \in 1 .. n : j < k => pager.got[j].seq < pager.got[k].seq
  BY <1>1 DEF PagerInv
<1>4. \A j \in 1 .. n : /\ pager.got[j] \in entries /\ pager.got[j].book = pager.book
                        /\ pager.got[j].seq \in Nat /\ pager.got[j].seq <= pager.cursor
  BY <1>1, BehindTheCursor
<1>5. PICK d, e : d = pager.got[i] /\ e = pager.got[i + 1]
  OBVIOUS
<1>6. /\ d \in entries /\ e \in entries /\ d.book = pager.book /\ e.book = pager.book
      /\ d.seq \in Nat /\ e.seq \in Nat /\ e.seq <= pager.cursor /\ d.seq < e.seq
  BY <1>2, <1>3, <1>4, <1>5
<1>7. ASSUME NEW f \in entries, f.book = d.book PROVE f.seq <= d.seq \/ e.seq <= f.seq
  <2>0. f.seq \in Nat /\ pager.cursor \in Nat
    BY BehindTheCursor DEF ShapeInv, Entry
  <2>1. CASE f.seq > pager.cursor
    BY <1>6, <2>0, <2>1
  <2>2. CASE f.seq <= pager.cursor
    <3>1. PICK k \in 1 .. n : pager.got[k] = f
      BY <1>1, <1>6, <1>7, <2>2, BehindTheCursor DEF GotBefore
    <3>2. k \in Int /\ i \in Int /\ (k < i \/ k = i \/ k = i + 1 \/ i + 1 < k)
      BY <1>1, <1>2
    <3>3. CASE k < i
      BY <1>2, <1>3, <1>5, <1>6, <2>0, <3>1, <3>3
    <3>4. CASE k = i \/ k = i + 1
      BY <1>5, <1>6, <3>1, <3>4
    <3>5. CASE i + 1 < k
      BY <1>2, <1>3, <1>5, <1>6, <2>0, <3>1, <3>5
    <3> QED BY <3>2, <3>3, <3>4, <3>5
  <2> QED BY <2>0, <2>1, <2>2
<1> QED BY <1>5, <1>6, <1>7 DEF Adjacent

StatementInv == ShapeInv /\ SeqInv /\ ChainInv /\ PagerInv

\* What the invariant says of a statement.
LEMMA StatementFromPager == StatementInv => StatementIsComplete
<1> SUFFICES ASSUME StatementInv PROVE StatementIsComplete
  OBVIOUS
<1>0. ShapeInv /\ SeqInv /\ ChainInv /\ PagerInv
  BY DEF StatementInv
<1>1. ASSUME NEW i \in 1 .. Len(pager.got) - 1, pager.book \notin tampered
      PROVE  pager.got[i].after = pager.got[i + 1].before
  <2>1. PICK n \in Nat : n = Len(pager.got)
    BY <1>0, BehindTheCursor
  <2>2. i \in 1 .. n /\ i + 1 \in 1 .. n
    BY <2>1
  <2>3. PICK d, e : d = pager.got[i] /\ e = pager.got[i + 1]
    OBVIOUS
  <2>4. d \in entries /\ e \in entries /\ d.book = pager.book /\ e.book = pager.book
    BY <1>0, <2>1, <2>2, <2>3, BehindTheCursor
  <2>5. pager.book \in Books
    BY <1>0, <2>4 DEF ShapeInv, Entry
  <2>6. Adjacent(d, e)
    BY <1>0, <2>3, NothingSkipped
  <2>7. d \in Of(entries, pager.book) /\ e \in Of(entries, pager.book)
    BY <2>4 DEF Of
  <2>8. d.after = e.before
    BY <1>0, <1>1, <2>5, <2>6, <2>7 DEF ChainInv
  <2> QED BY <2>3, <2>8
<1>2. \A i \in 1 .. Len(pager.got) - 1 : pager.got[i].seq < pager.got[i + 1].seq
  BY <1>0, NothingSkipped
<1>3. /\ {pager.got[i] : i \in DOMAIN pager.got}
             = {e \in entries : e.book = pager.book /\ e.seq <= pager.cursor}
      /\ pager.more \/ Len(pager.got) >= pager.began
  BY <1>0 DEF PagerInv
<1> QED BY <1>1, <1>2, <1>3 DEF StatementIsComplete

\* StatementIsComplete, for any wallets, page size and interleaving of movements: a
\* client of WalletQueries.Ledger that follows the cursor misses no entry, gets none
\* twice, and sees each begin where the one before it ended.
THEOREM StatementIsCompleteHolds == ReadsSpec => []StatementIsComplete
<1>1. ReadsInit => StatementInv
  BY LedgerStart, PagerStart DEF StatementInv
<1>2. StatementInv /\ [ReadsNext]_readsVars => StatementInv'
  BY ShapeStep, SeqStep, ChainStep, PagerStep DEF StatementInv
<1> QED BY <1>1, <1>2, StatementFromPager, PTL DEF ReadsSpec

\* ReadsTypeOK: the seqs of committed entries are taken once, by the lock and the
\* sequence together, and a wallet's version counts its entries.
THEOREM ReadsTypeHolds == ReadsSpec => []ReadsTypeOK
<1>1. LedgerInv => ReadsTypeOK
  <2> SUFFICES ASSUME LedgerInv PROVE ReadsTypeOK
    OBVIOUS
  <2>1. \A w \in Books :
           book[w].version = Cardinality({e \in entries : e.book = w})
                             + (IF Opened[w] = 0 THEN 1 ELSE 0)
    BY DEF LedgerInv, SumInv, Of, Unfunded
  <2>2. lastSeq \in 0 .. MaxSeq + Cardinality(Books)
    BY ReadsAssumption, FS_CardinalityType DEF LedgerInv, ShapeInv
  <2> QED BY <2>1, <2>2 DEF LedgerInv, SeqInv, ReadsTypeOK
<1>2. LedgerInv /\ [ReadsNext]_readsVars => LedgerInv'
  BY ShapeStep, SeqStep, SumStep, AuditStep DEF LedgerInv
<1>3. ReadsInit => LedgerInv
  BY LedgerStart DEF LedgerInv
<1> QED BY <1>1, <1>2, <1>3, PTL DEF ReadsSpec

-----------------------------------------------------------------------------
(* Side by side.                                                            *)

\* Each part's steps are its own: what is proved of a part holds beside the others.
THEOREM EdgesAreTheirParts ==
    Spec => KeySpec /\ IsolationSpec /\ ReadsSpec /\ MoneySpec /\ OutboxSpec
<1>1. Init => KeyInit /\ IsolationInit /\ ReadsInit /\ MoneyInit /\ OutboxInit
  BY DEF Init
<1>2. ASSUME [Next]_vars
      PROVE  /\ [KeyNext]_keyVars /\ [IsolationNext]_ops /\ [ReadsNext]_readsVars
             /\ [MoneyNext]_moneyVars /\ [OutboxNext]_outboxVars
  <2>1. CASE UNCHANGED vars
    BY <2>1 DEF vars
  <2>2. CASE Next
    BY <2>2, Zenon DEF Next, Keys, Access, Reading, Money, Outbox
  <2> QED BY <1>2, <2>1, <2>2
<1> QED BY <1>1, <1>2, PTL
       DEF Spec, KeySpec, IsolationSpec, ReadsSpec, MoneySpec, OutboxSpec

\* The types of the outbox, of the key cache and of the ledger's readers, for every value
\* of their constants: leases, the mutex's queue and the sequence included.
THEOREM EdgesTypeCorrect == Spec => []EdgesTypeOK
<1>1. OutboxTypeOK /\ KeyTypeOK /\ ReadsTypeOK => EdgesTypeOK
  BY DEF EdgesTypeOK
<1> QED BY <1>1, EdgesAreTheirParts, OutboxTypeCorrect, KeyTypeCorrect, ReadsTypeHolds, PTL
=============================================================================
