---------------------------- MODULE QueueProofs ----------------------------
(***************************************************************************)
(* Proofs about QueueConsumer for any number of consumers and messages,    *)
(* any batch size, redrive limit and number of failures: one row per       *)
(* operation, an inbox that cannot disagree with it, no message deleted    *)
(* before it was handled or dead without a cause, and the operations of a  *)
(* wallet in order for as long as nothing fails.                           *)
(***************************************************************************)
EXTENDS QueueConsumer, SumProofs, SequenceTheorems

-----------------------------------------------------------------------------
(* A batch can be put in order.                                             *)

Orders(s, ms) ==
    s \in [1 .. Cardinality(ms) -> ms] /\ \A i, j \in 1 .. Cardinality(ms) : i < j => s[i] < s[j]

\* There are finitely many messages.
LEMMA FinitelyMany ==
    ASSUME NEW ms \in SUBSET Ids
    PROVE  /\ IsFiniteSet(ms) /\ Cardinality(ms) \in Nat /\ (Cardinality(ms) = 0 <=> ms = {})
           /\ \A x \in ms : Cardinality(ms \ {x}) = Cardinality(ms) - 1
<1>1. IsFiniteSet(1 .. Len(Messages)) /\ Ids = 1 .. Len(Messages)
  BY MessagesAssumption, FS_Interval
<1>2. IsFiniteSet(Ids)
  BY <1>1
<1>3. IsFiniteSet(ms)
  BY <1>2, FS_Subset
<1>4. Cardinality(ms) \in Nat /\ (Cardinality(ms) = 0 <=> ms = {})
  BY <1>3, FS_CardinalityType, FS_EmptySet
<1>5. \A x \in ms : Cardinality(ms \ {x}) = Cardinality(ms) - 1
  BY <1>3, FS_RemoveElement
<1> QED BY <1>3, <1>4, <1>5

\* A message can be put behind messages that were all sent before it.
LEMMA OrderedWithLast ==
    ASSUME NEW ms \in SUBSET Ids, NEW x \in ms, \A m \in ms : m <= x,
           NEW s, Orders(s, ms \ {x})
    PROVE  \E t : Orders(t, ms)
<1>1. Ids \subseteq Nat
  BY MessagesAssumption
<1>2. PICK n : n = Cardinality(ms)
  OBVIOUS
<1>3. n \in Nat /\ n # 0 /\ Cardinality(ms \ {x}) = n - 1
  BY <1>2, FinitelyMany
<1>4. PICK t : t = [i \in 1 .. n |-> IF i = n THEN x ELSE s[i]]
  OBVIOUS
<1>5. ASSUME NEW i \in 1 .. n - 1 PROVE s[i] \in ms \ {x} /\ t[i] = s[i]
  <2>1. s \in [1 .. n - 1 -> ms \ {x}]
    BY <1>3 DEF Orders
  <2>2. i \in 1 .. n /\ i # n
    BY <1>3
  <2> QED BY <1>4, <2>1, <2>2
<1>6. t[n] = x
  BY <1>3, <1>4
<1>7. t \in [1 .. n -> ms]
  <2>1. \A i \in 1 .. n : i = n \/ i \in 1 .. n - 1
    BY <1>3
  <2> QED BY <1>4, <1>5, <2>1
<1>8. \A m \in ms \ {x} : m < x
  BY <1>1
<1>9. ASSUME NEW i \in 1 .. n, NEW j \in 1 .. n, i < j PROVE t[i] < t[j]
  <2>1. i \in 1 .. n - 1 /\ (j = n \/ j \in 1 .. n - 1)
    BY <1>3, <1>9
  <2>2. CASE j = n
    BY <1>5, <1>6, <1>8, <2>1, <2>2
  <2>3. CASE j \in 1 .. n - 1
    <3>1. s[i] < s[j]
      BY <1>3, <1>9, <2>1, <2>3 DEF Orders
    <3> QED BY <1>5, <2>1, <2>3, <3>1
  <2> QED BY <2>1, <2>2, <2>3
<1> QED BY <1>2, <1>7, <1>9 DEF Orders

\* Any messages can be put in the order they were sent, so RunOnce's order exists.
LEMMA CanBeOrdered ==
    ASSUME NEW ms \in SUBSET Ids
    PROVE  \E s : Orders(s, ms)
<1> DEFINE Bad == {n \in Nat : \E T \in SUBSET Ids : Cardinality(T) = n /\ ~\E s : Orders(s, T)}
<1>1. \A T \in SUBSET Ids : Cardinality(T) \in Nat
  BY FinitelyMany
<1>2. Ids \subseteq Nat /\ \A m \in Ids : Len(Messages) - m \in Nat
  BY MessagesAssumption
<1>3. SUFFICES ASSUME Bad # {} PROVE FALSE
  BY <1>1
<1>4. PICK n \in Bad : \A k \in Bad : n <= k
  BY <1>3, LeastElement
<1>5. PICK T \in SUBSET Ids : Cardinality(T) = n /\ ~\E s : Orders(s, T)
  BY <1>4
<1>6. CASE T = {}
  <2>1. Cardinality(T) = 0
    BY <1>6, FS_EmptySet
  <2>2. Orders([i \in 1 .. 0 |-> i], T)
    BY <1>6, <2>1 DEF Orders
  <2> QED BY <1>5, <2>2
<1>7. CASE T # {}
  <2>1. PICK far : far = {Len(Messages) - m : m \in T}
    OBVIOUS
  <2>2. far \subseteq Nat /\ far # {}
    BY <1>2, <1>5, <1>7, <2>1
  <2>3. PICK y \in far : \A z \in far : y <= z
    BY <2>2, LeastElement
  <2>4. PICK x \in T : y = Len(Messages) - x
    BY <2>1, <2>3
  <2>5. ASSUME NEW m \in T PROVE m <= x
    <3>1. Len(Messages) - x <= Len(Messages) - m
      BY <2>1, <2>3, <2>4
    <3> QED BY <1>2, <1>5, <3>1, MessagesAssumption
  <2>6. Cardinality(T \ {x}) = n - 1 /\ n - 1 \in Nat
    BY <1>5, FinitelyMany
  <2>7. n - 1 \notin Bad
    BY <1>4, <2>6
  <2>8. PICK s : Orders(s, T \ {x})
    BY <1>5, <2>6, <2>7
  <2>9. \E t : Orders(t, T)
    BY <1>5, <2>5, <2>8, OrderedWithLast
  <2> QED BY <1>5, <2>9
<1> QED BY <1>6, <1>7

\* A batch in hand is a sequence of the messages received, each of them once.
LEMMA InOrderType ==
    ASSUME NEW ms \in SUBSET Ids, ms # {}
    PROVE  InOrder(ms) \in Seq(Ids) /\ InOrder(ms) # << >>
<1>1. PICK n : n = Cardinality(ms)
  OBVIOUS
<1>2. n \in Nat /\ n # 0
  BY <1>1, FinitelyMany
<1>3. PICK s : Orders(s, ms)
  BY CanBeOrdered
<1>4. s \in [1 .. n -> ms] /\ \A i, j \in DOMAIN s : i < j => s[i] < s[j]
  BY <1>1, <1>3 DEF Orders
<1>5. InOrder(ms) \in [1 .. n -> ms]
  BY <1>1, <1>4 DEF InOrder
<1>6. InOrder(ms) \in [1 .. n -> Ids]
  BY <1>5
<1>7. InOrder(ms) \in Seq(Ids)
  BY <1>2, <1>6, SeqDef
<1>8. InOrder(ms) # << >>
  BY <1>2, <1>6
<1> QED BY <1>7, <1>8

-----------------------------------------------------------------------------
(* The inductive invariant.                                                 *)

Known == {Messages[m].op : m \in Ids} \cup HttpOps

QueueTypes ==
    /\ TypeOK
    /\ batch \in [Consumers -> Seq(Ids)]
    /\ recorded \in Seq(Known)

\* c is about to commit an operation.
Applying(c) == pc[c] = "commit" /\ doing[c] = "apply"

\* What a consumer's transaction has found out and is still true.
TransactionInv(c) ==
    /\ pc[c] \notin {"write", "commit", "delete"} => doing[c] = "nothing"
    /\ pc[c] = "write" => doing[c] = "apply"
    /\ pc[c] = "commit" => doing[c] \in {"apply", "replay", "discard"}
    /\ pc[c] = "commit" /\ doing[c] = "replay" => InHand(c).op \in Recorded
    /\ pc[c] = "commit" /\ doing[c] = "discard" => InHand(c).form = "unusable"
    /\ Applying(c) => ~Taken(InHand(c).op)
    /\ pc[c] = "delete" =>
          InHand(c).form = "malformed" \/ \E s \in inbox : s.id = InHand(c).id

\* Two operations about to be committed differ in identity and key.
ApplyingApart ==
    \A c, d \in Consumers :
        c # d /\ Applying(c) /\ Applying(d) =>
            InHand(c).op.ext # InHand(d).op.ext /\ InHand(c).op.key # InHand(d).op.key

Unusable(op) == \E n \in Ids : Messages[n].form = "unusable" /\ Messages[n].op = op

\* An inbox row stands for an operation that is recorded or that the domain refuses.
InboxInv == \A s \in inbox : s.op \in Recorded \/ Unusable(s.op)

\* A message that was deleted could not be read or has its id in the inbox.
DeletedInv ==
    \A m \in Ids :
        place[m] = "deleted" =>
            Messages[m].form = "malformed" \/ \E s \in inbox : s.id = Messages[m].id

QueueInv ==
    /\ QueueTypes
    /\ RecordedOnce
    /\ \A c \in Consumers : TransactionInv(c)
    /\ ApplyingApart
    /\ InboxInv
    /\ DeletedInv

-----------------------------------------------------------------------------
(* Types.                                                                   *)

\* The message a consumer is handling is one of the queue's.
LEMMA MessageInHand ==
    ASSUME QueueTypes, NEW c \in Consumers, pc[c] # "idle"
    PROVE  /\ batch[c] \in Seq(Ids) /\ batch[c] # << >> /\ Head(batch[c]) \in Ids
           /\ InHand(c).op \in Known
<1>1. batch[c] \in Seq(Ids) /\ batch[c] # << >>
  BY DEF QueueTypes, TypeOK
<1>2. Head(batch[c]) \in Ids
  BY <1>1, HeadTailProperties
<1> QED BY <1>1, <1>2 DEF InHand, Known

\* The elements of a sequence of messages.
LEMMA ElementsAreIds ==
    ASSUME NEW s \in Seq(Ids)
    PROVE  {s[i] : i \in DOMAIN s} \subseteq Ids
OBVIOUS

\* The part of TypeOK that is about one consumer at a time.
LEMMA HandTypes ==
    ASSUME QueueTypes, NEW c \in Consumers,
           NEW label \in {"idle", "decode", "claim", "lookup", "write", "commit", "delete", "release"},
           NEW s \in Seq(Ids), NEW what \in {"nothing", "apply", "replay", "discard"},
           s = << >> <=> label = "idle",
           pc' = [pc EXCEPT ![c] = label], batch' = [batch EXCEPT ![c] = s],
           doing' = [doing EXCEPT ![c] = what] \/ doing' = doing
    PROVE  /\ pc' \in [Consumers -> {"idle", "decode", "claim", "lookup", "write", "commit",
                                     "delete", "release"}]
           /\ batch' \in [Consumers -> Seq(Ids)]
           /\ \A d \in Consumers : {batch'[d][i] : i \in DOMAIN batch'[d]} \subseteq Ids
                                   /\ (batch'[d] = << >> <=> pc'[d] = "idle")
           /\ doing' \in [Consumers -> {"nothing", "apply", "replay", "discard"}]
<1>1. pc' \in [Consumers -> {"idle", "decode", "claim", "lookup", "write", "commit",
                             "delete", "release"}]
  BY DEF QueueTypes, TypeOK
<1>2. batch' \in [Consumers -> Seq(Ids)]
  BY DEF QueueTypes
<1>3. doing' \in [Consumers -> {"nothing", "apply", "replay", "discard"}]
  BY DEF QueueTypes, TypeOK
<1>4. ASSUME NEW d \in Consumers PROVE batch'[d] = << >> <=> pc'[d] = "idle"
  <2>1. CASE d = c
    BY <2>1 DEF QueueTypes, TypeOK
  <2>2. CASE d # c
    BY <2>2 DEF QueueTypes, TypeOK
  <2> QED BY <2>1, <2>2
<1>5. \A d \in Consumers : {batch'[d][i] : i \in DOMAIN batch'[d]} \subseteq Ids
  BY <1>2, ElementsAreIds
<1> QED BY <1>1, <1>2, <1>3, <1>4, <1>5

\* The batch stays as it is.
LEMMA SameBatch ==
    ASSUME QueueTypes, NEW c \in Consumers, UNCHANGED batch
    PROVE  batch' = [batch EXCEPT ![c] = batch[c]] /\ batch[c] \in Seq(Ids)
BY DEF QueueTypes

\* The rest of the batch.
LEMMA RestOfBatch ==
    ASSUME QueueTypes, NEW c \in Consumers, pc[c] # "idle", NextInBatch(c)
    PROVE  \E label \in {"idle", "decode"} :
              /\ pc' = [pc EXCEPT ![c] = label]
              /\ batch' = [batch EXCEPT ![c] = Tail(batch[c])]
              /\ Tail(batch[c]) \in Seq(Ids) /\ (Tail(batch[c]) = << >> <=> label = "idle")
<1>1. PICK s \in Seq(Ids) : s = batch[c] /\ s # << >>
  BY MessageInHand
<1>2. Tail(s) \in Seq(Ids) /\ Len(Tail(s)) = Len(s) - 1 /\ Len(s) \in Nat
  BY <1>1, HeadTailProperties
<1>3. Tail(s) = << >> <=> Len(s) = 1
  <2>1. Tail(s) = << >> <=> Len(Tail(s)) = 0
    BY <1>2, EmptySeq
  <2> QED BY <1>2, <2>1
<1>4. batch' = [batch EXCEPT ![c] = Tail(batch[c])]
      /\ pc' = [pc EXCEPT ![c] = IF Len(s) = 1 THEN "idle" ELSE "decode"]
  BY <1>1 DEF NextInBatch, Goto, QueueTypes
<1> QED BY <1>1, <1>2, <1>3, <1>4

\* Recording an operation adds it, and nothing else, at the end.
LEMMA RecordedGrows ==
    ASSUME recorded \in Seq(Known), NEW op \in Known, recorded' = Append(recorded, op)
    PROVE  /\ recorded' \in Seq(Known) /\ Recorded' = Recorded \cup {op}
           /\ DOMAIN recorded = 1 .. Len(recorded) /\ DOMAIN recorded' = 1 .. Len(recorded) + 1
           /\ \A i \in DOMAIN recorded : recorded'[i] = recorded[i]
           /\ recorded'[Len(recorded) + 1] = op /\ Len(recorded) \in Nat
<1>1. /\ recorded' \in Seq(Known) /\ Len(recorded') = Len(recorded) + 1 /\ Len(recorded) \in Nat
      /\ \A i \in 1 .. Len(recorded) : recorded'[i] = recorded[i]
      /\ recorded'[Len(recorded) + 1] = op
  BY AppendProperties
<1>2. DOMAIN recorded = 1 .. Len(recorded) /\ DOMAIN recorded' = 1 .. Len(recorded) + 1
  BY <1>1
<1>3. ASSUME NEW o PROVE o \in Recorded' <=> o \in Recorded \cup {op}
  <2>1. o \in Recorded' <=> \E i \in DOMAIN recorded' : recorded'[i] = o
    BY DEF Recorded
  <2>2. o \in Recorded <=> \E i \in DOMAIN recorded : recorded[i] = o
    BY DEF Recorded
  <2> QED BY <1>1, <1>2, <2>1, <2>2
<1>4. Recorded' = Recorded \cup {op}
  BY <1>3
<1> QED BY <1>1, <1>2, <1>4

\* What a commit adds.
LEMMA PersistAdds ==
    ASSUME QueueTypes, NEW c \in Consumers, pc[c] = "commit", Persist(c)
    PROVE  /\ inbox' = inbox \cup {[id |-> InHand(c).id, op |-> InHand(c).op]}
           /\ inbox' \subseteq [id : {Messages[m].id : m \in Ids}, op : {Messages[m].op : m \in Ids}]
           /\ recorded' \in Seq(Known)
           /\ Recorded' = IF doing[c] = "apply" THEN Recorded \cup {InHand(c).op} ELSE Recorded
<1>1. InHand(c).op \in Known /\ Head(batch[c]) \in Ids
  BY MessageInHand
<1>2. inbox' = inbox \cup {[id |-> InHand(c).id, op |-> InHand(c).op]}
  BY DEF Persist
<1>3. [id |-> InHand(c).id, op |-> InHand(c).op]
         \in [id : {Messages[m].id : m \in Ids}, op : {Messages[m].op : m \in Ids}]
  BY <1>1 DEF InHand
<1>4. inbox' \subseteq [id : {Messages[m].id : m \in Ids}, op : {Messages[m].op : m \in Ids}]
  BY <1>2, <1>3 DEF QueueTypes, TypeOK
<1>5. CASE doing[c] = "apply"
  <2>1. recorded' = Append(recorded, InHand(c).op) /\ recorded \in Seq(Known)
    BY <1>5 DEF Persist, QueueTypes
  <2>2. recorded' \in Seq(Known) /\ Recorded' = Recorded \cup {InHand(c).op}
    BY <1>1, <2>1, RecordedGrows
  <2> QED BY <1>2, <1>4, <1>5, <2>2
<1>6. CASE doing[c] # "apply"
  <2>1. recorded' = recorded
    BY <1>6 DEF Persist
  <2> QED BY <1>2, <1>4, <1>6, <2>1 DEF Recorded, QueueTypes
<1> QED BY <1>5, <1>6

\* Recorded operations are known.
LEMMA RecordedKnown == recorded \in Seq(Known) => Recorded \subseteq Known
BY DEF Recorded

\* TypeOK, by who keeps what.
BrokerTypes ==
    /\ place \in [Ids -> {"unsent", "queued", "deleted", "dead"}]
    /\ holder \in [Ids -> Consumers \cup {Nobody}]
    /\ received \in [Ids -> 0 .. MaxReceive]

HandsTypes ==
    /\ pc \in [Consumers -> {"idle", "decode", "claim", "lookup", "write", "commit",
                             "delete", "release"}]
    /\ batch \in [Consumers -> Seq(Ids)]
    /\ \A c \in Consumers : {batch[c][i] : i \in DOMAIN batch[c]} \subseteq Ids
                            /\ (batch[c] = << >> <=> pc[c] = "idle")
    /\ doing \in [Consumers -> {"nothing", "apply", "replay", "discard"}]

TableTypes ==
    /\ inbox \subseteq [id : {Messages[m].id : m \in Ids}, op : {Messages[m].op : m \in Ids}]
    /\ recorded \in Seq(Known)

TypeParts ==
    /\ BrokerTypes /\ HandsTypes /\ TableTypes /\ failures \in 0 .. MaxFailures
    /\ worked \in [Consumers -> BOOLEAN]

\* The parts make the whole.
LEMMA QueueTypesParts == QueueTypes <=> TypeParts
<1>1. QueueTypes => TypeParts
  BY DEF QueueTypes, TypeOK, TypeParts, BrokerTypes, HandsTypes, TableTypes
<1>2. ASSUME BrokerTypes, HandsTypes, TableTypes, failures \in 0 .. MaxFailures,
             worked \in [Consumers -> BOOLEAN]
      PROVE  QueueTypes
  <2>1. Recorded \subseteq {Messages[m].op : m \in Ids} \cup HttpOps
    BY <1>2, RecordedKnown DEF TableTypes, Known
  <2> QED BY <1>2, <2>1 DEF QueueTypes, TypeOK, BrokerTypes, HandsTypes, TableTypes
<1> QED BY <1>1, <1>2 DEF TypeParts

\* A step of c within its message.
LEMMA LabelStep ==
    ASSUME QueueTypes, NEW c \in Consumers, pc[c] # "idle", UNCHANGED batch,
           NEW label \in {"decode", "claim", "lookup", "write", "commit", "delete", "release"},
           Goto(c, label),
           UNCHANGED doing \/ \E what \in {"nothing", "apply", "replay", "discard"} :
                                 doing' = [doing EXCEPT ![c] = what]
    PROVE  HandsTypes'
<1>1. PICK s \in Seq(Ids) : batch' = [batch EXCEPT ![c] = s] /\ s # << >>
  BY SameBatch, MessageInHand
<1>2. PICK what \in {"nothing", "apply", "replay", "discard"} :
         doing' = [doing EXCEPT ![c] = what] \/ doing' = doing
  OBVIOUS
<1>3. pc' = [pc EXCEPT ![c] = label]
  BY DEF Goto
<1>4. label \in {"idle", "decode", "claim", "lookup", "write", "commit", "delete", "release"}
      /\ (s = << >> <=> label = "idle")
  BY <1>1
<1>5. /\ pc' \in [Consumers -> {"idle", "decode", "claim", "lookup", "write", "commit",
                                "delete", "release"}]
      /\ batch' \in [Consumers -> Seq(Ids)]
      /\ \A d \in Consumers : {batch'[d][i] : i \in DOMAIN batch'[d]} \subseteq Ids
                              /\ (batch'[d] = << >> <=> pc'[d] = "idle")
      /\ doing' \in [Consumers -> {"nothing", "apply", "replay", "discard"}]
  BY <1>1, <1>2, <1>3, <1>4, HandTypes
<1> QED BY <1>5 DEF HandsTypes

\* The statements of handle, up to the commit, move the program counter and nothing else
\* but what is about to be committed.
LEMMA HandleLabels ==
    ASSUME NEW c \in Consumers, Decode(c) \/ Claim(c) \/ Lookup(c) \/ Write(c) \/ StatementFails(c)
    PROVE  /\ pc[c] # "idle" /\ UNCHANGED <<queue, db, batch>>
           /\ \E label \in {"decode", "claim", "lookup", "write", "commit", "delete", "release"} :
                 Goto(c, label)
           /\ UNCHANGED doing \/ \E what \in {"nothing", "apply", "replay", "discard"} :
                                    doing' = [doing EXCEPT ![c] = what]
           /\ UNCHANGED failures \/ Fail
<1>1. CASE Decode(c)
  BY <1>1 DEF Decode
<1>2. CASE Claim(c)
  BY <1>2 DEF Claim
<1>3. CASE Lookup(c)
  BY <1>3 DEF Lookup, GiveBack, Forget
<1>4. CASE Write(c)
  BY <1>4 DEF Write, GiveBack, Forget
<1>5. CASE StatementFails(c)
  BY <1>5 DEF StatementFails, Open, GiveBack, Forget
<1> QED BY <1>1, <1>2, <1>3, <1>4, <1>5

\* What a step leaves in worked: it stays, or is set for one consumer.
LEMMA WorkedStep == QueueTypes /\ [Next]_vars => worked' \in [Consumers -> BOOLEAN]
<1> SUFFICES ASSUME QueueTypes, [Next]_vars PROVE worked' \in [Consumers -> BOOLEAN]
  OBVIOUS
<1>1. worked \in [Consumers -> BOOLEAN]
  BY DEF QueueTypes, TypeOK
<1>2. \/ UNCHANGED worked
      \/ \E c \in Consumers : \/ worked' = [worked EXCEPT ![c] = TRUE]
                              \/ worked' = [worked EXCEPT ![c] = FALSE]
  <2>1. ASSUME NEW c \in Consumers, Receive(c) \/ Decode(c) \/ Claim(c)
        PROVE  UNCHANGED worked
    BY <2>1 DEF Receive, Decode, Claim
  <2>2. ASSUME NEW c \in Consumers, \/ Lookup(c) \/ Write(c) \/ Commit(c) \/ Finish(c)
                                   \/ StatementFails(c) \/ CommitUnacknowledged(c)
                                   \/ FinishFails(c) \/ Crash(c)
        PROVE  \/ UNCHANGED worked
               \/ worked' = [worked EXCEPT ![c] = TRUE]
               \/ worked' = [worked EXCEPT ![c] = FALSE]
    BY <2>2, Zenon DEF Lookup, Write, Commit, Finish, StatementFails, CommitUnacknowledged,
       FinishFails, Crash, GiveBack, NextInBatch
  <2>3. ASSUME NEW m \in Ids, Send(m) \/ Redrive(m) \/ Lapse(m) PROVE UNCHANGED worked
    BY <2>3 DEF Send, Redrive, Lapse
  <2>4. ASSUME NEW op \in HttpOps, Http(op) PROVE UNCHANGED worked
    BY <2>4 DEF Http
  <2>5. CASE UNCHANGED vars
    BY <2>5 DEF vars
  <2> QED BY <2>1, <2>2, <2>3, <2>4, <2>5, Zenon DEF Next, Handle
<1>3. ASSUME NEW c \in Consumers, NEW b \in BOOLEAN, worked' = [worked EXCEPT ![c] = b]
      PROVE  worked' \in [Consumers -> BOOLEAN]
  BY <1>1, <1>3
<1> QED BY <1>1, <1>2, <1>3

\* Types are kept, part by part.
LEMMA TypePartsStep == QueueTypes /\ [Next]_vars => TypeParts'
<1> SUFFICES ASSUME QueueTypes, [Next]_vars
             PROVE  BrokerTypes' /\ HandsTypes' /\ TableTypes' /\ failures' \in 0 .. MaxFailures
  BY WorkedStep DEF TypeParts
<1>0. /\ BrokerTypes /\ HandsTypes /\ TableTypes /\ failures \in 0 .. MaxFailures
      /\ MaxFailures \in Nat /\ MaxReceive \in Nat
  BY QueueTypesParts, QueueAssumption DEF TypeParts
<1>1. UNCHANGED queue => BrokerTypes'
  BY <1>0 DEF BrokerTypes, queue
<1>2. UNCHANGED <<pc, batch, doing>> => HandsTypes'
  BY <1>0 DEF HandsTypes
<1>3. UNCHANGED db => TableTypes'
  BY <1>0 DEF TableTypes, db
<1>4. UNCHANGED failures \/ Fail => failures' \in 0 .. MaxFailures
  BY <1>0 DEF Fail
<1>5. ASSUME NEW m \in Ids, Send(m) \/ Redrive(m) \/ Lapse(m)
      PROVE  BrokerTypes' /\ HandsTypes' /\ TableTypes' /\ failures' \in 0 .. MaxFailures
  <2>1. UNCHANGED <<pc, batch, doing>> /\ UNCHANGED db /\ (UNCHANGED failures \/ Fail)
    BY <1>5 DEF Send, Redrive, Lapse, Fail
  <2>2. BrokerTypes'
    BY <1>0, <1>5 DEF BrokerTypes, Send, Redrive, Lapse
  <2> QED BY <1>2, <1>3, <1>4, <2>1, <2>2
<1>6. ASSUME NEW c \in Consumers, Receive(c)
      PROVE  BrokerTypes' /\ HandsTypes' /\ TableTypes' /\ failures' \in 0 .. MaxFailures
  <2>1. PICK ms \in SUBSET Ids :
           /\ pc[c] = "idle" /\ Receivable(ms)
           /\ holder' = [m \in Ids |-> IF m \in ms THEN c ELSE holder[m]]
           /\ received' = [m \in Ids |-> IF m \in ms THEN received[m] + 1 ELSE received[m]]
           /\ batch' = [batch EXCEPT ![c] = InOrder(ms)]
           /\ pc' = [pc EXCEPT ![c] = "decode"]
           /\ UNCHANGED <<place, db, doing, failures>>
    BY <1>6 DEF Receive
  <2>2. ms # {} /\ \A m \in ms : received[m] < MaxReceive
    BY <2>1 DEF Receivable
  <2>3. BrokerTypes'
    BY <1>0, <2>1, <2>2 DEF BrokerTypes
  <2>4. PICK s \in Seq(Ids) : s = InOrder(ms) /\ s # << >>
    BY <2>2, InOrderType
  <2>5. HandsTypes'
    BY <2>1, <2>4, HandTypes DEF HandsTypes
  <2> QED BY <1>3, <1>4, <2>1, <2>3, <2>5
<1>7. ASSUME NEW c \in Consumers,
             Decode(c) \/ Claim(c) \/ Lookup(c) \/ Write(c) \/ StatementFails(c)
      PROVE  BrokerTypes' /\ HandsTypes' /\ TableTypes' /\ failures' \in 0 .. MaxFailures
  <2>1. HandsTypes' /\ UNCHANGED queue /\ UNCHANGED db /\ (UNCHANGED failures \/ Fail)
    BY <1>7, HandleLabels, LabelStep
  <2> QED BY <1>1, <1>3, <1>4, <2>1
<1>8. ASSUME NEW c \in Consumers, Commit(c) \/ CommitUnacknowledged(c)
      PROVE  BrokerTypes' /\ HandsTypes' /\ TableTypes' /\ failures' \in 0 .. MaxFailures
  <2>1. /\ pc[c] = "commit" /\ Persist(c) /\ UNCHANGED queue /\ UNCHANGED batch
        /\ UNCHANGED failures \/ Fail
        /\ \E label \in {"delete", "release"} : Goto(c, label)
    BY <1>8 DEF Commit, CommitUnacknowledged, GiveBack
  <2>2. UNCHANGED doing \/ doing' = [doing EXCEPT ![c] = "nothing"]
    BY <1>8 DEF Commit, CommitUnacknowledged, GiveBack, Forget
  <2>3. HandsTypes'
    BY <2>1, <2>2, LabelStep
  <2>4. TableTypes'
    BY <2>1, PersistAdds DEF TableTypes
  <2> QED BY <1>1, <1>4, <2>1, <2>3, <2>4
<1>9. ASSUME NEW c \in Consumers, Finish(c) \/ FinishFails(c)
      PROVE  BrokerTypes' /\ HandsTypes' /\ TableTypes' /\ failures' \in 0 .. MaxFailures
  <2>1. /\ pc[c] # "idle" /\ NextInBatch(c) /\ UNCHANGED db
        /\ doing' = [doing EXCEPT ![c] = "nothing"]
        /\ UNCHANGED failures \/ Fail
    BY <1>9 DEF Finish, FinishFails, NextInBatch, Forget
  <2>2. PICK label \in {"idle", "decode"} :
              /\ pc' = [pc EXCEPT ![c] = label]
              /\ batch' = [batch EXCEPT ![c] = Tail(batch[c])]
              /\ Tail(batch[c]) \in Seq(Ids) /\ (Tail(batch[c]) = << >> <=> label = "idle")
    BY <2>1, RestOfBatch
  <2>3. HandsTypes'
    BY <2>1, <2>2, HandTypes DEF HandsTypes
  <2>4. Head(batch[c]) \in Ids
    BY <2>1, MessageInHand
  <2>5. BrokerTypes'
    BY <1>0, <1>9, <2>4 DEF BrokerTypes, Finish, FinishFails, queue
  <2> QED BY <1>3, <1>4, <2>1, <2>3, <2>5
<1>10. ASSUME NEW c \in Consumers, Crash(c)
       PROVE  BrokerTypes' /\ HandsTypes' /\ TableTypes' /\ failures' \in 0 .. MaxFailures
  <2>1. /\ pc' = [pc EXCEPT ![c] = "idle"] /\ batch' = [batch EXCEPT ![c] = << >>]
        /\ doing' = [doing EXCEPT ![c] = "nothing"] /\ UNCHANGED queue /\ UNCHANGED db /\ Fail
    BY <1>10 DEF Crash, Goto, Forget
  <2>2. << >> \in Seq(Ids)
    OBVIOUS
  <2>3. HandsTypes'
    BY <2>1, <2>2, HandTypes DEF HandsTypes
  <2> QED BY <1>1, <1>3, <1>4, <2>1, <2>3
<1>11. ASSUME NEW op \in HttpOps, Http(op)
       PROVE  BrokerTypes' /\ HandsTypes' /\ TableTypes' /\ failures' \in 0 .. MaxFailures
  <2>1. recorded' \in Seq(Known)
    BY <1>0, <1>11, RecordedGrows DEF Http, TableTypes, Known
  <2>2. TableTypes'
    BY <1>0, <1>11, <2>1 DEF Http, TableTypes
  <2> QED BY <1>1, <1>2, <1>4, <1>11, <2>2 DEF Http
<1>12. CASE UNCHANGED vars
  BY <1>1, <1>2, <1>3, <1>4, <1>12 DEF vars, queue, db
<1> QED BY <1>5, <1>6, <1>7, <1>8, <1>9, <1>10, <1>11, <1>12 DEF Next, Handle

\* Types are kept.
LEMMA QueueTypesStep == QueueTypes /\ [Next]_vars => QueueTypes'
BY TypePartsStep, QueueTypesParts, PTL

-----------------------------------------------------------------------------
(* One step.                                                                *)

\* What one consumer has found out stays true while others work: rows are only added,
\* and none with the identity or key of an operation about to be committed.
LEMMA FindingsStay ==
    ASSUME NEW d \in Consumers, TransactionInv(d),
           pc'[d] = pc[d], doing'[d] = doing[d], batch'[d] = batch[d],
           inbox \subseteq inbox', Recorded \subseteq Recorded',
           Applying(d) => \A o \in Recorded' \ Recorded :
                             o.ext # InHand(d).op.ext /\ o.key # InHand(d).op.key
    PROVE  TransactionInv(d)'
<1>1. PICK h : h = InHand(d) /\ h = InHand(d)'
  BY DEF InHand
<1>2. Applying(d) => ~Taken(h.op)'
  BY <1>1 DEF TransactionInv, Taken
<1> QED BY <1>1, <1>2 DEF TransactionInv, Applying

\* Operations about to be committed stay apart when there is no new one.
LEMMA NobodyNewApplies ==
    ASSUME ApplyingApart,
           \A x \in Consumers : pc'[x] = "commit" /\ doing'[x] = "apply" =>
                                   pc[x] = "commit" /\ doing[x] = "apply" /\ batch'[x] = batch[x]
    PROVE  ApplyingApart'
BY DEF ApplyingApart, Applying, InHand

\* What a consumer does with its batch, wherever that leads.
Work(c) ==
    \/ Receive(c) \/ Handle(c) \/ StatementFails(c) \/ CommitUnacknowledged(c)
    \/ FinishFails(c) \/ Crash(c)

\* A consumer works on its own batch and transaction.
LEMMA OthersUntouched ==
    ASSUME QueueTypes, NEW c \in Consumers, NEW d \in Consumers, d # c, Work(c)
    PROVE  pc'[d] = pc[d] /\ doing'[d] = doing[d] /\ batch'[d] = batch[d]
<1>0. d \in DOMAIN pc /\ d \in DOMAIN doing /\ d \in DOMAIN batch
      /\ pc \in [Consumers -> {"idle", "decode", "claim", "lookup", "write", "commit",
                                "delete", "release"}]
      /\ batch \in [Consumers -> Seq(Ids)]
      /\ doing \in [Consumers -> {"nothing", "apply", "replay", "discard"}]
  BY DEF QueueTypes, TypeOK
<1>1. CASE Receive(c)
  BY <1>0, <1>1 DEF Receive
<1>2. CASE Decode(c) \/ Claim(c) \/ Write(c)
  BY <1>0, <1>2 DEF Decode, Claim, Write, Goto, GiveBack, Forget
<1>3. CASE Lookup(c)
  BY <1>0, <1>3 DEF Lookup, Goto, GiveBack, Forget
<1>4. CASE Commit(c) \/ CommitUnacknowledged(c)
  BY <1>0, <1>4 DEF Commit, CommitUnacknowledged, GiveBack, Forget, Goto
<1>5. CASE Finish(c) \/ FinishFails(c)
  BY <1>0, <1>5 DEF Finish, FinishFails, NextInBatch, Forget, Goto
<1>6. CASE StatementFails(c) \/ Crash(c)
  BY <1>0, <1>6 DEF StatementFails, Crash, GiveBack, Forget, Goto
<1> QED BY <1>1, <1>2, <1>3, <1>4, <1>5, <1>6 DEF Work, Handle

\* Decode, Claim, Lookup and Write find out what TransactionInv says of their consumer.
LEMMA StatementFindings ==
    ASSUME QueueInv, NEW c \in Consumers,
           Decode(c) \/ Claim(c) \/ Lookup(c) \/ Write(c) \/ StatementFails(c)
    PROVE  TransactionInv(c)'
<1>1. /\ pc \in [Consumers -> {"idle", "decode", "claim", "lookup", "write", "commit",
                                "delete", "release"}]
      /\ doing \in [Consumers -> {"nothing", "apply", "replay", "discard"}]
      /\ TransactionInv(c)
  BY DEF QueueInv, QueueTypes, TypeOK
<1>2. UNCHANGED <<inbox, recorded, batch>>
  BY HandleLabels DEF db
<1>3. PICK h : h = InHand(c) /\ h = InHand(c)'
  BY <1>2 DEF InHand
<1>4. PICK known : known = Recorded /\ known = Recorded'
  BY <1>2 DEF Recorded
<1>5. CASE Decode(c)
  BY <1>1, <1>2, <1>3, <1>4, <1>5 DEF Decode, Goto, TransactionInv, Applying
<1>6. CASE Claim(c)
  BY <1>1, <1>2, <1>3, <1>4, <1>6 DEF Claim, Goto, TransactionInv, Applying
<1>7. CASE Lookup(c)
  BY <1>1, <1>2, <1>3, <1>4, <1>7 DEF Lookup, GiveBack, Forget, Goto, TransactionInv, Applying
<1>8. CASE Write(c)
  <2>1. pc'[c] = "commit" => doing'[c] = "apply" /\ ~Taken(h.op)
    BY <1>1, <1>3, <1>8 DEF Write, GiveBack, Forget, Goto, TransactionInv
  <2>2. ~Taken(h.op) => ~Taken(h.op)'
    BY <1>4 DEF Taken
  <2>3. pc'[c] # "commit" => pc'[c] = "release" /\ doing'[c] = "nothing"
    BY <1>1, <1>8 DEF Write, GiveBack, Forget, Goto
  <2> QED BY <1>3, <2>1, <2>2, <2>3 DEF TransactionInv, Applying
<1>9. CASE StatementFails(c)
  BY <1>1, <1>2, <1>3, <1>4, <1>9 DEF StatementFails, GiveBack, Forget, Goto,
     TransactionInv, Applying
<1> QED BY <1>5, <1>6, <1>7, <1>8, <1>9

AllTransactions == \A c \in Consumers : TransactionInv(c)

\* QueueInv but for its types.
QueueRest == RecordedOnce /\ AllTransactions /\ ApplyingApart /\ InboxInv /\ DeletedInv

\* Nothing changes about the rows and what was deleted.
LEMMA RowsKept ==
    ASSUME QueueInv, UNCHANGED db, UNCHANGED place
    PROVE  RecordedOnce' /\ InboxInv' /\ DeletedInv'
<1>1. UNCHANGED <<inbox, recorded>> /\ RecordedOnce /\ InboxInv /\ DeletedInv
  BY DEF QueueInv, db
<1>2. RecordedOnce'
  BY <1>1 DEF RecordedOnce
<1>3. InboxInv'
  BY <1>1 DEF InboxInv, Unusable, Recorded
<1>4. DeletedInv'
  BY <1>1 DEF DeletedInv
<1> QED BY <1>2, <1>3, <1>4

\* A consumer's step that commits nothing disturbs nobody else's transaction.
LEMMA OthersKeep ==
    ASSUME QueueInv, NEW c \in Consumers, Work(c), UNCHANGED db,
           TransactionInv(c)'
    PROVE  AllTransactions'
<1>1. UNCHANGED <<inbox, recorded>>
  BY DEF db
<1>2. Recorded' = Recorded
  BY <1>1 DEF Recorded
<1>3. ASSUME NEW d \in Consumers PROVE TransactionInv(d)'
  <2>1. CASE d = c
    BY <2>1
  <2>2. CASE d # c
    <3>1. pc'[d] = pc[d] /\ doing'[d] = doing[d] /\ batch'[d] = batch[d] /\ TransactionInv(d)
      BY <2>2, OthersUntouched DEF QueueInv
    <3> QED BY <1>1, <1>2, <3>1, FindingsStay
  <2> QED BY <2>1, <2>2
<1> QED BY <1>3 DEF AllTransactions

\* The statements before the commit keep the invariant.  Write is the one after which
\* a new operation is about to be committed: the insert waited for the others.
LEMMA StatementsKeep ==
    ASSUME QueueInv, NEW c \in Consumers,
           Decode(c) \/ Claim(c) \/ Lookup(c) \/ Write(c) \/ StatementFails(c)
    PROVE  QueueRest'
<1>1. UNCHANGED db /\ UNCHANGED place /\ UNCHANGED batch
  BY HandleLabels DEF queue
<1>2. RecordedOnce' /\ InboxInv' /\ DeletedInv'
  BY <1>1, RowsKept
<1>3. Work(c)
  BY DEF Work, Handle
<1>4. AllTransactions'
  BY <1>1, <1>3, StatementFindings, OthersKeep
<1>5. ApplyingApart /\ QueueTypes
  BY DEF QueueInv
<1>6. \A d \in Consumers \ {c} : pc'[d] = pc[d] /\ doing'[d] = doing[d] /\ batch'[d] = batch[d]
  BY <1>3, <1>5, OthersUntouched
<1>7. ASSUME ~(pc'[c] = "commit" /\ doing'[c] = "apply") PROVE ApplyingApart'
  <2>1. \A x \in Consumers : pc'[x] = "commit" /\ doing'[x] = "apply" =>
                                pc[x] = "commit" /\ doing[x] = "apply" /\ batch'[x] = batch[x]
    BY <1>6, <1>7
  <2> QED BY <1>5, <2>1, NobodyNewApplies
<1>8. ASSUME pc'[c] = "commit", doing'[c] = "apply" PROVE ApplyingApart'
  <2>0. /\ pc \in [Consumers -> {"idle", "decode", "claim", "lookup", "write", "commit",
                                "delete", "release"}]
        /\ doing \in [Consumers -> {"nothing", "apply", "replay", "discard"}]
    BY <1>5 DEF QueueTypes, TypeOK
  <2>1. Write(c)
    BY <1>8, <2>0 DEF Decode, Claim, Lookup, StatementFails, GiveBack, Forget, Goto
  <2>2. ASSUME NEW d \in Consumers \ {c}, pc'[d] = "commit", doing'[d] = "apply"
        PROVE  InHand(c).op.ext # InHand(d).op.ext /\ InHand(c).op.key # InHand(d).op.key
    <3>1. InHand(d).op \in InFlight(c)
      BY <1>6, <2>2 DEF InFlight
    <3>2. ~Blocked(InHand(c).op, InFlight(c))
      BY <2>1 DEF Write
    <3> QED BY <3>1, <3>2 DEF Blocked
  <2>3. ASSUME NEW a \in Consumers, NEW b \in Consumers, a # b,
               pc'[a] = "commit", doing'[a] = "apply", pc'[b] = "commit", doing'[b] = "apply"
        PROVE  InHand(a).op.ext # InHand(b).op.ext /\ InHand(a).op.key # InHand(b).op.key
    <3>1. CASE a = c
      BY <2>2, <2>3, <3>1
    <3>2. CASE b = c
      BY <2>2, <2>3, <3>2
    <3>3. CASE a # c /\ b # c
      BY <1>5, <1>6, <2>3, <3>3 DEF ApplyingApart, Applying
    <3> QED BY <3>1, <3>2, <3>3
  <2> QED BY <1>1, <2>3 DEF ApplyingApart, Applying, InHand
<1> QED BY <1>2, <1>4, <1>7, <1>8 DEF QueueRest

\* What a consumer does outside a transaction opens none, and its next message has
\* nothing found out about it.
LEMMA BetweenMessages ==
    ASSUME QueueInv, NEW c \in Consumers, Receive(c) \/ Finish(c) \/ FinishFails(c) \/ Crash(c)
    PROVE  UNCHANGED db /\ TransactionInv(c)' /\ AllTransactions' /\ ApplyingApart'
<1>0. /\ pc \in [Consumers -> {"idle", "decode", "claim", "lookup", "write", "commit",
                                "delete", "release"}]
      /\ doing \in [Consumers -> {"nothing", "apply", "replay", "discard"}]
      /\ TransactionInv(c) /\ ApplyingApart /\ QueueTypes
  BY DEF QueueInv, QueueTypes, TypeOK
<1>1. UNCHANGED db
  BY DEF Receive, Finish, FinishFails, Crash
<1>2. pc'[c] \in {"idle", "decode"} /\ doing'[c] = "nothing"
  BY <1>0 DEF Receive, Finish, FinishFails, Crash, NextInBatch, Forget, Goto,
     TransactionInv
<1>3. TransactionInv(c)'
  BY <1>2 DEF TransactionInv, Applying
<1>4. Work(c)
  BY DEF Work, Handle
<1>5. AllTransactions'
  BY <1>1, <1>3, <1>4, OthersKeep
<1>6. \A d \in Consumers \ {c} : pc'[d] = pc[d] /\ doing'[d] = doing[d] /\ batch'[d] = batch[d]
  BY <1>0, <1>4, OthersUntouched
<1>7. \A x \in Consumers : pc'[x] = "commit" /\ doing'[x] = "apply" =>
                              pc[x] = "commit" /\ doing[x] = "apply" /\ batch'[x] = batch[x]
  BY <1>2, <1>6
<1>8. ApplyingApart'
  BY <1>0, <1>7, NobodyNewApplies
<1> QED BY <1>1, <1>3, <1>5, <1>8

\* finish deletes a message only after its transaction, so its id is in the inbox.
LEMMA FinishKeeps ==
    ASSUME QueueInv, NEW c \in Consumers, Receive(c) \/ Finish(c) \/ FinishFails(c) \/ Crash(c)
    PROVE  QueueRest'
<1>1. UNCHANGED db /\ AllTransactions' /\ ApplyingApart'
  BY BetweenMessages
<1>2. UNCHANGED <<inbox, recorded>> /\ RecordedOnce /\ InboxInv /\ DeletedInv /\ TransactionInv(c)
      /\ QueueTypes /\ place \in [Ids -> {"unsent", "queued", "deleted", "dead"}]
  BY <1>1 DEF QueueInv, db, QueueTypes, TypeOK
<1>3. RecordedOnce'
  BY <1>2 DEF RecordedOnce
<1>4. InboxInv'
  BY <1>2 DEF InboxInv, Unusable, Recorded
<1>5. CASE UNCHANGED place
  <2>1. DeletedInv'
    BY <1>2, <1>5 DEF DeletedInv
  <2> QED BY <1>1, <1>3, <1>4, <2>1 DEF QueueRest
<1>6. CASE Finish(c)
  <2>1. PICK m : m = Head(batch[c]) /\ InHand(c) = Messages[m]
    BY DEF InHand
  <2>2. CASE pc[c] = "delete"
    <3>1. InHand(c).form = "malformed" \/ \E s \in inbox : s.id = InHand(c).id
      BY <1>2, <2>2 DEF TransactionInv
    <3>2. \A n \in Ids : n # m => place'[n] = place[n]
      BY <1>2, <1>6, <2>1 DEF Finish
    <3>3. DeletedInv'
      BY <1>2, <2>1, <3>1, <3>2 DEF DeletedInv
    <3> QED BY <1>1, <1>3, <1>4, <3>3 DEF QueueRest
  <2>3. CASE pc[c] # "delete"
    BY <1>5, <1>6, <2>3 DEF Finish
  <2> QED BY <2>2, <2>3
<1> QED BY <1>5, <1>6 DEF Receive, FinishFails, Crash, queue

\* An operation the unique indexes accept is a new one.
LEMMA RecordedOnceGrows ==
    ASSUME recorded \in Seq(Known), RecordedOnce, NEW op \in Known, ~Taken(op),
           recorded' = Append(recorded, op)
    PROVE  RecordedOnce'
<1>1. PICK n \in Nat :
         /\ DOMAIN recorded = 1 .. n /\ DOMAIN recorded' = 1 .. n + 1
         /\ \A i \in 1 .. n : recorded'[i] = recorded[i]
         /\ recorded'[n + 1] = op
  BY RecordedGrows
<1>2. \A i \in 1 .. n : recorded[i].ext # op.ext /\ recorded[i].key # op.key
  BY <1>1 DEF Taken, Recorded
<1>3. ASSUME NEW i \in 1 .. n + 1, NEW j \in 1 .. n + 1, i # j
      PROVE  recorded'[i].ext # recorded'[j].ext /\ recorded'[i].key # recorded'[j].key
  <2>1. (i \in 1 .. n \/ i = n + 1) /\ (j \in 1 .. n \/ j = n + 1)
    OBVIOUS
  <2>2. CASE i \in 1 .. n /\ j \in 1 .. n
    BY <1>1, <1>3, <2>2 DEF RecordedOnce
  <2>3. CASE i = n + 1 \/ j = n + 1
    BY <1>1, <1>2, <1>3, <2>1, <2>3
  <2> QED BY <2>1, <2>2, <2>3
<1> QED BY <1>1, <1>3 DEF RecordedOnce

\* A commit adds an operation that no row has, that nobody else is about to commit, and
\* that its own inbox row stands for.
LEMMA CommitKeeps ==
    ASSUME QueueInv, NEW c \in Consumers, Commit(c) \/ CommitUnacknowledged(c)
    PROVE  QueueRest'
<1>0. /\ pc \in [Consumers -> {"idle", "decode", "claim", "lookup", "write", "commit",
                                "delete", "release"}]
      /\ doing \in [Consumers -> {"nothing", "apply", "replay", "discard"}]
      /\ TransactionInv(c) /\ ApplyingApart /\ QueueTypes /\ recorded \in Seq(Known)
      /\ RecordedOnce /\ InboxInv /\ DeletedInv
  BY DEF QueueInv, QueueTypes, TypeOK
<1>1. /\ pc[c] = "commit" /\ Persist(c) /\ UNCHANGED place /\ UNCHANGED batch
      /\ pc'[c] \in {"delete", "release"} /\ (pc'[c] = "release" => doing'[c] = "nothing")
  BY <1>0 DEF Commit, CommitUnacknowledged, GiveBack, Forget, Goto, queue
<1>2. PICK h : h = InHand(c) /\ h = InHand(c)'
  BY <1>1 DEF InHand
<1>3. /\ h.op \in Known /\ Head(batch[c]) \in Ids /\ h = Messages[Head(batch[c])]
      /\ doing[c] \in {"apply", "replay", "discard"}
  <2>1. h.op \in Known /\ Head(batch[c]) \in Ids
    BY <1>0, <1>1, <1>2, MessageInHand
  <2> QED BY <1>0, <1>1, <1>2, <2>1 DEF InHand, TransactionInv
<1>4. /\ inbox' = inbox \cup {[id |-> h.id, op |-> h.op]}
      /\ Recorded' = IF doing[c] = "apply" THEN Recorded \cup {h.op} ELSE Recorded
  BY <1>0, <1>1, <1>2, PersistAdds
<1>5. RecordedOnce'
  <2>1. CASE doing[c] = "apply"
    <3>1. recorded' = Append(recorded, h.op) /\ ~Taken(h.op)
      BY <1>0, <1>1, <1>2, <2>1 DEF Persist, TransactionInv, Applying
    <3> QED BY <1>0, <1>3, <3>1, RecordedOnceGrows
  <2>2. CASE doing[c] # "apply"
    BY <1>0, <1>1, <2>2 DEF Persist, RecordedOnce
  <2> QED BY <2>1, <2>2
<1>6. InboxInv'
  <2>1. h.op \in Recorded' \/ Unusable(h.op)
    BY <1>0, <1>1, <1>2, <1>3, <1>4 DEF TransactionInv, Unusable
  <2>2. Recorded \subseteq Recorded'
    BY <1>4
  <2>3. ASSUME NEW s \in inbox' PROVE s.op \in Recorded' \/ Unusable(s.op)
    <3>1. CASE s \in inbox
      BY <1>0, <2>2, <3>1 DEF InboxInv
    <3>2. CASE s = [id |-> h.id, op |-> h.op]
      <4>1. s.op = h.op
        BY <3>2
      <4> QED BY <2>1, <4>1
    <3> QED BY <1>4, <3>1, <3>2
  <2> QED BY <2>3 DEF InboxInv, Unusable
<1>7. DeletedInv'
  BY <1>0, <1>1, <1>4 DEF DeletedInv
<1>8. TransactionInv(c)'
  <2>1. \E s \in inbox' : s.id = h.id
    <3>1. PICK s : s = [id |-> h.id, op |-> h.op]
      OBVIOUS
    <3>2. s \in inbox' /\ s.id = h.id
      BY <1>4, <3>1
    <3> QED BY <3>2
  <2> QED BY <1>1, <1>2, <1>3, <2>1 DEF TransactionInv, Applying
<1>9. Work(c)
  BY DEF Work, Handle
<1>10. \A d \in Consumers \ {c} : pc'[d] = pc[d] /\ doing'[d] = doing[d] /\ batch'[d] = batch[d]
  BY <1>0, <1>9, OthersUntouched
<1>11. ASSUME NEW d \in Consumers PROVE TransactionInv(d)'
  <2>1. CASE d = c
    BY <1>8, <2>1
  <2>2. CASE d # c
    <3>1. TransactionInv(d) /\ inbox \subseteq inbox' /\ Recorded \subseteq Recorded'
      BY <1>4 DEF QueueInv
    <3>2. ASSUME Applying(d), NEW o \in Recorded' \ Recorded
          PROVE  o.ext # InHand(d).op.ext /\ o.key # InHand(d).op.key
      <4>1. doing[c] = "apply" /\ o = h.op
        BY <1>4, <3>2
      <4>2. Applying(c)
        BY <1>1, <4>1 DEF Applying
      <4> QED BY <1>0, <1>2, <2>2, <3>2, <4>1, <4>2 DEF ApplyingApart
    <3> QED BY <1>10, <2>2, <3>1, <3>2, FindingsStay
  <2> QED BY <2>1, <2>2
<1>12. AllTransactions'
  BY <1>11 DEF AllTransactions
<1>13. \A x \in Consumers : pc'[x] = "commit" /\ doing'[x] = "apply" =>
                               pc[x] = "commit" /\ doing[x] = "apply" /\ batch'[x] = batch[x]
  BY <1>1, <1>10
<1>14. ApplyingApart'
  BY <1>0, <1>13, NobodyNewApplies
<1> QED BY <1>5, <1>6, <1>7, <1>12, <1>14 DEF QueueRest

\* An operation that arrives over HTTP waits for the consumers about to commit one like it.
LEMMA HttpKeeps ==
    ASSUME QueueInv, NEW op \in HttpOps, Http(op)
    PROVE  QueueRest'
<1>0. /\ ApplyingApart /\ recorded \in Seq(Known) /\ RecordedOnce /\ InboxInv /\ DeletedInv
      /\ op \in Known
  BY DEF QueueInv, QueueTypes, Known
<1>1. /\ ~Taken(op) /\ ~Blocked(op, InFlight(Nobody)) /\ recorded' = Append(recorded, op)
      /\ UNCHANGED <<place, inbox, pc, batch, doing>>
  BY DEF Http, queue
<1>2. RecordedOnce'
  BY <1>0, <1>1, RecordedOnceGrows
<1>3. Recorded' = Recorded \cup {op}
  BY <1>0, <1>1, RecordedGrows
<1>4. InboxInv'
  BY <1>0, <1>1, <1>3 DEF InboxInv, Unusable
<1>5. DeletedInv'
  BY <1>0, <1>1 DEF DeletedInv
<1>6. ASSUME NEW d \in Consumers PROVE TransactionInv(d)'
  <2>1. TransactionInv(d)
    BY DEF QueueInv
  <2>2. ASSUME Applying(d) PROVE op.ext # InHand(d).op.ext /\ op.key # InHand(d).op.key
    <3>1. InHand(d).op \in InFlight(Nobody)
      BY <2>2, NobodyAssumption DEF InFlight, Applying
    <3> QED BY <1>1, <3>1 DEF Blocked
  <2> QED BY <1>1, <1>3, <2>1, <2>2, FindingsStay
<1>7. AllTransactions'
  BY <1>6 DEF AllTransactions
<1>8. ApplyingApart'
  BY <1>0, <1>1, NobodyNewApplies
<1> QED BY <1>2, <1>4, <1>5, <1>7, <1>8 DEF QueueRest

\* The broker deletes nothing by itself.
LEMMA BrokerKeeps ==
    ASSUME QueueInv, UNCHANGED <<db, pc, batch, doing>>,
           \A n \in Ids : place'[n] = "deleted" => place[n] = "deleted"
    PROVE  QueueRest'
<1>0. ApplyingApart /\ RecordedOnce /\ InboxInv /\ DeletedInv
  BY DEF QueueInv
<1>1. UNCHANGED <<inbox, recorded, pc, batch, doing>>
  BY DEF db
<1>2. Recorded' = Recorded
  BY <1>1 DEF Recorded
<1>3. RecordedOnce'
  BY <1>0, <1>1 DEF RecordedOnce
<1>4. InboxInv'
  BY <1>0, <1>1, <1>2 DEF InboxInv, Unusable
<1>5. DeletedInv'
  BY <1>0, <1>1 DEF DeletedInv
<1>6. ASSUME NEW d \in Consumers PROVE TransactionInv(d)'
  <2>1. TransactionInv(d)
    BY DEF QueueInv
  <2> QED BY <1>1, <1>2, <2>1, FindingsStay
<1>7. AllTransactions'
  BY <1>6 DEF AllTransactions
<1>8. ApplyingApart'
  BY <1>0, <1>1, NobodyNewApplies
<1> QED BY <1>3, <1>4, <1>5, <1>7, <1>8 DEF QueueRest

\* Every step keeps the invariant.
LEMMA QueueRestStep == QueueInv /\ [Next]_vars => QueueRest'
<1> SUFFICES ASSUME QueueInv, [Next]_vars PROVE QueueRest'
  OBVIOUS
<1>0. place \in [Ids -> {"unsent", "queued", "deleted", "dead"}]
  BY DEF QueueInv, QueueTypes, TypeOK
<1>1. ASSUME NEW m \in Ids, Send(m) \/ Redrive(m) \/ Lapse(m) PROVE QueueRest'
  <2>1. UNCHANGED <<db, pc, batch, doing>>
    BY <1>1 DEF Send, Redrive, Lapse
  <2>2. \A n \in Ids : place'[n] = "deleted" => place[n] = "deleted"
    BY <1>0, <1>1 DEF Send, Redrive, Lapse
  <2> QED BY <2>1, <2>2, BrokerKeeps
<1>2. ASSUME NEW c \in Consumers, Work(c) PROVE QueueRest'
  BY <1>2, StatementsKeep, FinishKeeps, CommitKeeps DEF Work, Handle
<1>3. ASSUME NEW op \in HttpOps, Http(op) PROVE QueueRest'
  BY <1>3, HttpKeeps
<1>4. CASE UNCHANGED vars
  <2>1. UNCHANGED <<db, pc, batch, doing>> /\ UNCHANGED place
    BY <1>4 DEF vars, queue
  <2> QED BY <2>1, BrokerKeeps
<1> QED BY <1>1, <1>2, <1>3, <1>4 DEF Next, Work

\* The two parts of QueueInv.
LEMMA QueueInvParts == QueueInv <=> QueueTypes /\ QueueRest
BY DEF QueueInv, QueueRest, AllTransactions

\* The invariant is inductive.
LEMMA QueueInvStep == QueueInv /\ [Next]_vars => QueueInv'
BY QueueTypesStep, QueueRestStep, QueueInvParts, PTL

\* Nothing is sent, received or recorded at first.
LEMMA QueueInvInit == Init => QueueInv
<1> SUFFICES ASSUME Init PROVE QueueInv
  OBVIOUS
<1>1. Recorded = {} /\ recorded \in Seq(Known) /\ DOMAIN recorded = {}
  BY DEF Init, Recorded
<1>2. batch \in [Consumers -> Seq(Ids)]
  BY DEF Init
<1>3. TypeOK
  <2>1. \A c \in Consumers : {batch[c][i] : i \in DOMAIN batch[c]} \subseteq Ids
                             /\ (batch[c] = << >> <=> pc[c] = "idle")
    BY DEF Init
  <2> QED BY <1>1, <2>1, QueueAssumption DEF Init, TypeOK
<1>4. RecordedOnce /\ InboxInv /\ DeletedInv
  BY <1>1 DEF Init, RecordedOnce, InboxInv, DeletedInv
<1>5. (\A c \in Consumers : TransactionInv(c)) /\ ApplyingApart
  BY DEF Init, TransactionInv, ApplyingApart, Applying
<1> QED BY <1>1, <1>2, <1>3, <1>4, <1>5 DEF QueueInv, QueueTypes

-----------------------------------------------------------------------------
(* The theorems.                                                            *)

\* In every reachable state of the consumers, for any number of them.
THEOREM QueueInvariant == Spec => []QueueInv
BY QueueInvInit, QueueInvStep, PTL DEF Spec

\* Types, and a batch in hand exactly while it is handled (RunOnce).
THEOREM QueueTypeCorrect == Spec => []TypeOK
<1>1. QueueInv => TypeOK
  BY DEF QueueInv, QueueTypes
<1> QED BY <1>1, QueueInvariant, PTL

\* However often a message is delivered, over however many consumers, and with the same
\* operation over HTTP, it is recorded once (Consumer.handle and the unique indexes).
THEOREM RecordedOnceAlways == Spec => []RecordedOnce
<1>1. QueueInv => RecordedOnce
  BY DEF QueueInv
<1> QED BY <1>1, QueueInvariant, PTL

\* An inbox row of a usable message and its operation are there together (Inbox.Complete
\* in the transaction of ExecuteIn).
THEOREM InboxAlwaysHasItsEffect == Spec => []InboxHasItsEffect
<1>1. QueueInv => InboxHasItsEffect
  BY MessagesAssumption DEF QueueInv, InboxInv, Unusable, InboxHasItsEffect
<1> QED BY <1>1, QueueInvariant, PTL

\* A usable message leaves the queue by Consumer.finish only after its operation, or its
\* id with another, was committed.
THEOREM DeletedWasAlwaysHandled == Spec => []DeletedWasHandled
<1>1. ASSUME QueueInv, NEW m \in Ids, place[m] = "deleted", Messages[m].form = "usable"
      PROVE  \E s \in inbox :
                /\ s.id = Messages[m].id
                /\ SameContent(s.op, Messages[m].op) =>
                      \/ \E o \in Recorded : SameContent(o, Messages[m].op)
                      \/ \E n \in Ids : Messages[n].form = "unusable" /\ Messages[n].op = s.op
  <2>1. PICK s \in inbox : s.id = Messages[m].id
    BY <1>1 DEF QueueInv, DeletedInv
  <2>2. s.op \in Recorded \/ \E n \in Ids : Messages[n].form = "unusable" /\ Messages[n].op = s.op
    BY <1>1 DEF QueueInv, InboxInv, Unusable
  <2> QED BY <2>1, <2>2
<1>2. QueueInv => DeletedWasHandled
  BY <1>1 DEF DeletedWasHandled
<1> QED BY <1>2, QueueInvariant, PTL

-----------------------------------------------------------------------------
(* Dead letters.                                                            *)

\* No redelivery helps: the message is refused every time, or another operation has its
\* identity or its key.
Hopeless(m) == Messages[m].form = "refused" \/ Conflicting(Messages[m].op)

\* The consumer whose receipt handle is current still has the message in its batch.
Active(m) == holder[m] # Nobody /\ Holds(holder[m], m)

\* The deliveries of a message that have come to nothing.
Wasted(m) == IF Active(m) THEN received[m] - 1 ELSE received[m]

\* The one delivery a race may cost: lost to the operation itself, which the next finds.
RaceLost(m) == IF Messages[m].op \in Recorded THEN 1 ELSE 0

\* The consumer whose receipt handle is current is at this statement with it.
HandledAt(m, label) ==
    holder[m] # Nobody /\ pc[holder[m]] = label /\ Head(batch[holder[m]]) = m

\* Every delivery that came to nothing cost a failure, but for the one a race may cost;
\* that one is still to come while the insert is.
WasteInv(m) ==
    \/ Hopeless(m)
    \/ /\ Wasted(m) <= failures + RaceLost(m)
       /\ HandledAt(m, "write") => Wasted(m) <= failures
       /\ HandledAt(m, "release") => Wasted(m) + 1 <= failures + RaceLost(m)

\* A dead letter was received as often as the redrive policy says, and nobody has it.
DeadInv(m) == place[m] = "dead" => holder[m] = Nobody /\ received[m] >= MaxReceive

WastesInv == \A m \in Ids : (place[m] # "deleted" => WasteInv(m)) /\ DeadInv(m)

\* The numbers are numbers.
LEMMA WasteTypes ==
    ASSUME QueueTypes, NEW m \in Ids
    PROVE  /\ received[m] \in Nat /\ failures \in Nat /\ RaceLost(m) \in {0, 1}
           /\ Active(m) => Wasted(m) = received[m] - 1
           /\ ~Active(m) => Wasted(m) = received[m]
           /\ Wasted(m) \in Int /\ Wasted(m) <= received[m] /\ received[m] <= Wasted(m) + 1
<1>1. received[m] \in Nat /\ failures \in Nat
  BY QueueAssumption DEF QueueTypes, TypeOK
<1> QED BY <1>1 DEF Wasted, RaceLost

\* And remain numbers.
LEMMA WasteTypesNext ==
    ASSUME QueueTypes', NEW m \in Ids
    PROVE  /\ failures' \in Nat /\ RaceLost(m)' \in {0, 1} /\ Wasted(m)' \in Int
           /\ received'[m] \in Nat /\ Wasted(m)' <= received'[m]
           /\ Active(m)' => Wasted(m)' = received'[m] - 1
<1>1. received'[m] \in Nat /\ failures' \in Nat
  BY QueueAssumption DEF QueueTypes, TypeOK
<1> QED BY <1>1 DEF Wasted, RaceLost

\* What was hopeless stays so, and what was recorded too.
LEMMA HopelessStays ==
    ASSUME NEW m \in Ids, Recorded \subseteq Recorded'
    PROVE  (Hopeless(m) => Hopeless(m)') /\ (RaceLost(m) = 1 => RaceLost(m)' = 1)
<1>1. Hopeless(m) => Hopeless(m)'
  BY DEF Hopeless, Conflicting
<1>2. RaceLost(m) = 1 => RaceLost(m)' = 1
  BY DEF RaceLost
<1> QED BY <1>1, <1>2

\* A step that wastes no delivery: it may go on to the insert only before the operation is
\* recorded, and give back only for a failure, for a race that is lost or for good.
LEMMA NothingWasted ==
    ASSUME QueueTypes, QueueTypes', NEW m \in Ids, WasteInv(m), Recorded \subseteq Recorded',
           Wasted(m)' <= Wasted(m), failures <= failures',
           HandledAt(m, "write")' => HandledAt(m, "write") \/ Messages[m].op \notin Recorded,
           HandledAt(m, "release")' => \/ HandledAt(m, "release") \/ failures + 1 <= failures'
                                       \/ HandledAt(m, "write") /\ Messages[m].op \in Recorded
                                       \/ Hopeless(m)
    PROVE  WasteInv(m)'
<1>1. CASE Hopeless(m)
  BY <1>1, HopelessStays DEF WasteInv
<1>2. CASE ~Hopeless(m)
  <2>1. PICK w \in Int, v \in Int, f \in Nat, g \in Nat, r \in {0, 1}, s \in {0, 1} :
           /\ w = Wasted(m) /\ v = Wasted(m)' /\ f = failures /\ g = failures'
           /\ r = RaceLost(m) /\ s = RaceLost(m)'
    <3>1. Wasted(m) \in Int /\ failures \in Nat /\ RaceLost(m) \in {0, 1}
      BY WasteTypes
    <3>2. Wasted(m)' \in Int /\ failures' \in Nat /\ RaceLost(m)' \in {0, 1}
      BY WasteTypesNext
    <3> QED BY <3>1, <3>2
  <2>2. v <= w /\ f <= g /\ r <= s
    BY <2>1, HopelessStays
  <2>3. w <= f + r /\ (HandledAt(m, "write") => w <= f) /\ (HandledAt(m, "release") => w + 1 <= f + r)
    BY <1>2, <2>1 DEF WasteInv
  <2>4. (Messages[m].op \notin Recorded => r = 0) /\ (Messages[m].op \in Recorded => r = 1)
    BY <2>1 DEF RaceLost
  <2>5. v <= g + s
    BY <2>2, <2>3
  <2>6. HandledAt(m, "write")' => v <= g
    BY <2>2, <2>3, <2>4
  <2>7. HandledAt(m, "release")' => v + 1 <= g + s
    <3>1. CASE HandledAt(m, "release")
      BY <2>2, <2>3, <3>1
    <3>2. CASE f + 1 <= g
      BY <2>2, <2>3, <3>2
    <3>3. CASE HandledAt(m, "write") /\ Messages[m].op \in Recorded
      BY <2>2, <2>3, <2>4, <3>3
    <3> QED BY <1>2, <2>1, <3>1, <3>2, <3>3
  <2> QED BY <2>1, <2>5, <2>6, <2>7 DEF WasteInv
<1> QED BY <1>1, <1>2

\* A step that wastes a delivery: by a failure, or because it had been given back.
LEMMA OneWasted ==
    ASSUME QueueTypes, QueueTypes', NEW m \in Ids, WasteInv(m), Recorded \subseteq Recorded',
           Wasted(m)' <= Wasted(m) + 1, failures <= failures',
           failures + 1 <= failures' \/ HandledAt(m, "release"),
           ~HandledAt(m, "write")', ~HandledAt(m, "release")'
    PROVE  WasteInv(m)'
<1>1. CASE Hopeless(m)
  BY <1>1, HopelessStays DEF WasteInv
<1>2. CASE ~Hopeless(m)
  <2>1. PICK w \in Int, v \in Int, f \in Nat, g \in Nat, r \in {0, 1}, s \in {0, 1} :
           /\ w = Wasted(m) /\ v = Wasted(m)' /\ f = failures /\ g = failures'
           /\ r = RaceLost(m) /\ s = RaceLost(m)'
    <3>1. Wasted(m) \in Int /\ failures \in Nat /\ RaceLost(m) \in {0, 1}
      BY WasteTypes
    <3>2. Wasted(m)' \in Int /\ failures' \in Nat /\ RaceLost(m)' \in {0, 1}
      BY WasteTypesNext
    <3> QED BY <3>1, <3>2
  <2>2. v <= w + 1 /\ f <= g /\ r <= s /\ (f + 1 <= g \/ HandledAt(m, "release"))
    BY <2>1, HopelessStays
  <2>3. w <= f + r /\ (HandledAt(m, "release") => w + 1 <= f + r)
    BY <1>2, <2>1 DEF WasteInv
  <2>4. v <= g + s
    BY <2>2, <2>3
  <2> QED BY <2>1, <2>4 DEF WasteInv
<1> QED BY <1>1, <1>2

\* Nothing happens to the message.
LEMMA NotTouched ==
    ASSUME QueueTypes, QueueTypes', NEW m \in Ids, WasteInv(m), Recorded \subseteq Recorded',
           failures <= failures', holder'[m] = holder[m], received'[m] = received[m],
           holder[m] # Nobody => pc'[holder[m]] = pc[holder[m]]
                                 /\ batch'[holder[m]] = batch[holder[m]]
    PROVE  WasteInv(m)'
<1>1. Active(m)' <=> Active(m)
  BY DEF Active, Holds
<1>2. Wasted(m)' = Wasted(m) /\ Wasted(m) \in Int
  <2>1. Wasted(m)' = Wasted(m)
    BY <1>1 DEF Wasted
  <2> QED BY <2>1, WasteTypes
<1>3. (HandledAt(m, "write")' <=> HandledAt(m, "write"))
      /\ (HandledAt(m, "release")' <=> HandledAt(m, "release"))
  BY DEF HandledAt
<1>4. Wasted(m)' <= Wasted(m)
  BY <1>2
<1> QED BY <1>3, <1>4, NothingWasted

\* Every message received is in the batch: as many places as messages, no message twice.
LEMMA InOrderIsComplete ==
    ASSUME NEW ms \in SUBSET Ids
    PROVE  \A m \in ms : \E i \in DOMAIN InOrder(ms) : InOrder(ms)[i] = m
<1>1. PICK n \in Nat : n = Cardinality(ms) /\ IsFiniteSet(ms)
  BY FinitelyMany
<1>2. PICK s : Orders(s, ms)
  BY CanBeOrdered
<1>3. s \in [1 .. n -> ms] /\ \A i, j \in DOMAIN s : i < j => s[i] < s[j]
  BY <1>1, <1>2 DEF Orders
<1>4. PICK t : t = InOrder(ms)
  OBVIOUS
<1>5. t \in [1 .. n -> ms] /\ \A i, j \in 1 .. n : i < j => t[i] < t[j]
  <2>1. t \in [1 .. n -> ms] /\ \A i, j \in DOMAIN t : i < j => t[i] < t[j]
    BY <1>1, <1>3, <1>4 DEF InOrder
  <2> QED BY <2>1
<1>6. ms \subseteq Nat
  BY MessagesAssumption
<1>7. \A i, j \in 1 .. n : t[i] = t[j] => i = j
  <2>1. ASSUME NEW i \in 1 .. n, NEW j \in 1 .. n, t[i] = t[j] PROVE i = j
    <3>1. t[i] \in Nat /\ t[j] \in Nat
      BY <1>5, <1>6
    <3> QED BY <1>5, <2>1, <3>1
  <2> QED BY <2>1
<1>8. t \in Injection(1 .. n, ms)
  BY <1>5, <1>7 DEF Injection, IsInjective
<1>9. Cardinality(1 .. n) = n
  <2>1. Cardinality(1 .. n) = IF 1 > n THEN 0 ELSE n - 1 + 1
    BY FS_Interval
  <2> QED BY <2>1
<1>10. t \in Surjection(1 .. n, ms)
  BY <1>1, <1>8, <1>9, FS_Injection
<1>11. \A m \in ms : \E i \in 1 .. n : t[i] = m
  BY <1>10 DEF Surjection
<1> QED BY <1>4, <1>5, <1>11

\* What a consumer holds is in its batch while it is handled.
LEMMA HeadIsHeld ==
    ASSUME QueueTypes, NEW c \in Consumers, pc[c] # "idle"
    PROVE  Holds(c, Head(batch[c]))
<1>1. PICK s \in Seq(Ids) : s = batch[c] /\ s # << >>
  BY MessageInHand
<1>2. Head(s) = s[1] /\ 1 \in DOMAIN s
  <2>1. Len(s) \in Nat /\ Len(s) # 0 /\ DOMAIN s = 1 .. Len(s)
    BY <1>1, EmptySeq
  <2> QED BY <1>1, <2>1, HeadTailProperties
<1> QED BY <1>1, <1>2 DEF Holds

\* The rest of a batch holds whatever is not its first message.
LEMMA RestIsHeld ==
    ASSUME NEW s \in Seq(Ids), s # << >>, NEW m, m # Head(s), \E i \in DOMAIN s : s[i] = m
    PROVE  \E i \in DOMAIN Tail(s) : Tail(s)[i] = m
<1>1. PICK n \in Nat : Len(s) = n /\ DOMAIN s = 1 .. n /\ n # 0
  BY EmptySeq
<1>2. PICK t : t = Tail(s)
  OBVIOUS
<1>3. Head(s) = s[1] /\ DOMAIN t = 1 .. n - 1 /\ \A i \in 1 .. n - 1 : t[i] = s[i + 1]
  <2>1. t \in Seq(Ids) /\ Len(t) = n - 1 /\ Head(s) = s[1] /\ \A i \in 1 .. n - 1 : t[i] = s[i + 1]
    BY <1>1, <1>2, HeadTailProperties
  <2> QED BY <2>1
<1>4. PICK j \in 1 .. n : s[j] = m
  BY <1>1
<1>5. j # 1
  BY <1>3, <1>4
<1>6. j - 1 \in 1 .. n - 1 /\ (j - 1) + 1 = j
  BY <1>1, <1>5
<1>7. t[j - 1] = m
  BY <1>3, <1>4, <1>6
<1> QED BY <1>2, <1>3, <1>6, <1>7

\* Rows and failures only grow.
LEMMA RowsAndFailuresGrow ==
    ASSUME QueueInv, Next
    PROVE  Recorded \subseteq Recorded' /\ failures <= failures'
<1>0. QueueTypes /\ failures \in Nat
  BY QueueAssumption DEF QueueInv, QueueTypes, TypeOK
<1>1. UNCHANGED recorded => Recorded' = Recorded
  BY DEF Recorded
<1>2. ASSUME NEW c \in Consumers, Commit(c) \/ CommitUnacknowledged(c)
      PROVE  Recorded \subseteq Recorded' /\ failures <= failures'
  <2>1. pc[c] = "commit" /\ Persist(c)
    BY <1>2 DEF Commit, CommitUnacknowledged
  <2>2. Recorded \subseteq Recorded'
    BY <1>0, <2>1, PersistAdds
  <2> QED BY <1>0, <1>2, <2>2 DEF Commit, CommitUnacknowledged, Fail
<1>3. ASSUME NEW op \in HttpOps, Http(op)
      PROVE  Recorded \subseteq Recorded' /\ failures <= failures'
  <2>1. recorded' = Append(recorded, op) /\ failures' = failures /\ op \in Known
    BY <1>3 DEF Http, Known
  <2> QED BY <1>0, <2>1, RecordedGrows DEF QueueTypes
<1>4. ASSUME NEW c \in Consumers, Receive(c) \/ Decode(c) \/ Claim(c) \/ Lookup(c) \/ Write(c)
             \/ Finish(c) \/ StatementFails(c) \/ FinishFails(c) \/ Crash(c)
      PROVE  Recorded \subseteq Recorded' /\ failures <= failures'
  <2>1. UNCHANGED recorded
    BY <1>4 DEF Receive, Decode, Claim, Lookup, Write, Finish, StatementFails, FinishFails, Crash, db
  <2>2. failures <= failures'
    BY <1>0, <1>4 DEF Receive, Decode, Claim, Lookup, Write, Finish, StatementFails, FinishFails,
       Crash, Fail
  <2> QED BY <1>1, <2>1, <2>2
<1>5. ASSUME NEW m \in Ids, Send(m) \/ Redrive(m) \/ Lapse(m)
      PROVE  Recorded \subseteq Recorded' /\ failures <= failures'
  BY <1>0, <1>1, <1>5 DEF Send, Redrive, Lapse, db
<1>6. CASE UNCHANGED vars
  BY <1>0, <1>1, <1>6 DEF vars, db
<1> QED BY <1>2, <1>3, <1>4, <1>5, <1>6 DEF Next, Handle

\* Handling a message up to its commit wastes no delivery.
LEMMA HandlingWastesNothing ==
    ASSUME QueueInv, QueueTypes', Next, NEW c \in Consumers, NEW m \in Ids, WasteInv(m),
           \/ Decode(c) \/ Claim(c) \/ Lookup(c) \/ Write(c) \/ Commit(c)
           \/ StatementFails(c) \/ CommitUnacknowledged(c)
    PROVE  WasteInv(m)'
<1>0. QueueTypes /\ Recorded \subseteq Recorded' /\ failures <= failures'
      /\ failures \in Nat /\ Wasted(m) \in Int
      /\ pc \in [Consumers -> {"idle", "decode", "claim", "lookup", "write", "commit",
                               "delete", "release"}]
  BY RowsAndFailuresGrow, WasteTypes DEF QueueInv, QueueTypes, TypeOK
<1>1. UNCHANGED <<holder, received, batch>>
  BY DEF Decode, Claim, Lookup, Write, Commit, StatementFails, CommitUnacknowledged, queue
<1>2. Work(c)
  BY DEF Work, Handle
<1>3. CASE holder[m] # c
  <2>1. holder[m] # Nobody => holder[m] \in Consumers
    BY <1>0 DEF QueueTypes, TypeOK
  <2>2. holder[m] # Nobody => pc'[holder[m]] = pc[holder[m]]
    BY <1>0, <1>2, <1>3, <2>1, OthersUntouched
  <2> QED BY <1>0, <1>1, <2>2, NotTouched
<1>4. CASE holder[m] = c
  <2>0. Wasted(m)' <= Wasted(m)
    <3>1. Wasted(m)' = Wasted(m)
      BY <1>1 DEF Wasted, Active, Holds
    <3> QED BY <1>0, <3>1
  <2>1. holder[m] # Nobody
    BY <1>4, NobodyAssumption
  <2>2. CASE Head(batch[c]) # m
    <3>1. ~HandledAt(m, "write")' /\ ~HandledAt(m, "release")'
      BY <1>1, <1>4, <2>2 DEF HandledAt
    <3> QED BY <1>0, <2>0, <3>1, NothingWasted
  <2>3. CASE Head(batch[c]) = m
    <3>1. InHand(c) = Messages[m]
      BY <2>3 DEF InHand
    <3>2. /\ HandledAt(m, "write")' => pc'[c] = "write"
          /\ HandledAt(m, "release")' => pc'[c] = "release"
          /\ pc[c] = "write" => HandledAt(m, "write")
      BY <1>1, <1>4, <2>1, <2>3 DEF HandledAt
    <3>3. CASE Decode(c) \/ Claim(c) \/ Commit(c)
      <4>1. pc'[c] \notin {"write", "release"}
        BY <1>0, <3>3 DEF Decode, Claim, Commit, Goto
      <4> QED BY <1>0, <2>0, <3>2, <4>1, NothingWasted
    <3>4. CASE Lookup(c)
      <4>1. pc'[c] = "write" => Messages[m].op \notin Recorded
        BY <1>0, <3>1, <3>4 DEF Lookup, GiveBack, Forget, Goto
      <4>2. pc'[c] = "release" =>
               \/ Messages[m].form = "refused"
               \/ \E o \in Recorded \ {Messages[m].op} : o.ext = Messages[m].op.ext
        BY <1>0, <3>1, <3>4 DEF Lookup, GiveBack, Forget, Goto
      <4>3. pc'[c] = "release" => Hopeless(m)
        BY <4>2 DEF Hopeless, Conflicting
      <4> QED BY <1>0, <2>0, <3>2, <4>1, <4>3, NothingWasted
    <3>5. CASE Write(c)
      <4>1. pc[c] = "write" /\ pc'[c] # "write"
        BY <1>0, <3>5 DEF Write, GiveBack, Forget, Goto
      <4>2. pc'[c] = "release" => Taken(Messages[m].op)
        BY <1>0, <3>1, <3>5 DEF Write, GiveBack, Forget, Goto
      <4>3. pc'[c] = "release" => Messages[m].op \in Recorded \/ Hopeless(m)
        BY <4>2 DEF Taken, Hopeless, Conflicting
      <4> QED BY <1>0, <2>0, <3>2, <4>1, <4>3, NothingWasted
    <3>6. CASE StatementFails(c) \/ CommitUnacknowledged(c)
      <4>1. failures + 1 <= failures' /\ pc'[c] # "write"
        BY <1>0, <3>6 DEF StatementFails, CommitUnacknowledged, Fail, GiveBack,
           Forget, Goto
      <4> QED BY <1>0, <2>0, <3>2, <4>1, NothingWasted
    <3> QED BY <3>3, <3>4, <3>5, <3>6
  <2> QED BY <2>2, <2>3
<1> QED BY <1>3, <1>4

\* Receiving a message uses a delivery that is not wasted yet.
LEMMA ReceiveWastesNothing ==
    ASSUME QueueInv, QueueTypes', Next, NEW c \in Consumers, NEW m \in Ids, WasteInv(m), Receive(c)
    PROVE  WasteInv(m)'
<1>0. QueueTypes /\ Recorded \subseteq Recorded' /\ failures <= failures' /\ received[m] \in Nat
      /\ Wasted(m) \in Int /\ pc \in [Consumers -> {"idle", "decode", "claim", "lookup", "write",
                                                    "commit", "delete", "release"}]
      /\ batch \in [Consumers -> Seq(Ids)]
  BY RowsAndFailuresGrow, WasteTypes DEF QueueInv, QueueTypes, TypeOK
<1>1. PICK ms \in SUBSET Ids :
         /\ pc[c] = "idle" /\ Receivable(ms)
         /\ holder' = [n \in Ids |-> IF n \in ms THEN c ELSE holder[n]]
         /\ received' = [n \in Ids |-> IF n \in ms THEN received[n] + 1 ELSE received[n]]
         /\ batch' = [batch EXCEPT ![c] = InOrder(ms)]
         /\ pc' = [pc EXCEPT ![c] = "decode"]
  BY DEF Receive
<1>2. pc'[c] = "decode" /\ batch'[c] = InOrder(ms) /\ Work(c)
  BY <1>0, <1>1 DEF Work
<1>3. CASE m \in ms
  <2>1. holder[m] = Nobody /\ holder'[m] = c /\ received'[m] = received[m] + 1
    BY <1>1, <1>3 DEF Receivable
  <2>2. Active(m)' /\ ~Active(m)
    <3>1. \E i \in DOMAIN batch'[c] : batch'[c][i] = m
      BY <1>2, <1>3, InOrderIsComplete
    <3> QED BY <2>1, <3>1, NobodyAssumption DEF Active, Holds
  <2>3. Wasted(m)' <= Wasted(m)
    <3>1. Wasted(m)' = received'[m] - 1
      BY <2>2, WasteTypesNext
    <3>2. Wasted(m) = received[m]
      BY <1>0, <2>2, WasteTypes
    <3> QED BY <1>0, <2>1, <3>1, <3>2
  <2>4. ~HandledAt(m, "write")' /\ ~HandledAt(m, "release")'
    BY <1>2, <2>1 DEF HandledAt
  <2> QED BY <1>0, <2>3, <2>4, NothingWasted
<1>4. CASE m \notin ms /\ holder[m] = c
  <2>1. holder'[m] = c /\ received'[m] = received[m]
    BY <1>1, <1>4
  <2>2. ~Active(m)
    <3>1. batch[c] = << >>
      BY <1>0, <1>1 DEF QueueTypes, TypeOK
    <3> QED BY <1>4, <3>1 DEF Active, Holds
  <2>3. Wasted(m)' <= Wasted(m)
    BY <1>0, <2>1, <2>2, WasteTypes, WasteTypesNext
  <2>4. ~HandledAt(m, "write")' /\ ~HandledAt(m, "release")'
    BY <1>2, <2>1 DEF HandledAt
  <2> QED BY <1>0, <2>3, <2>4, NothingWasted
<1>5. CASE m \notin ms /\ holder[m] # c
  <2>1. holder'[m] = holder[m] /\ received'[m] = received[m]
    BY <1>1, <1>5
  <2>2. holder[m] # Nobody => holder[m] \in Consumers
    BY <1>0 DEF QueueTypes, TypeOK
  <2>3. holder[m] # Nobody => pc'[holder[m]] = pc[holder[m]] /\ batch'[holder[m]] = batch[holder[m]]
    BY <1>0, <1>2, <1>5, <2>2, OthersUntouched
  <2> QED BY <1>0, <2>1, <2>3, NotTouched
<1> QED BY <1>3, <1>4, <1>5

\* Finishing a message that is not deleted wastes the delivery only when it was given back.
LEMMA FinishWastesGivenBack ==
    ASSUME QueueInv, QueueTypes', Next, NEW c \in Consumers, NEW m \in Ids, WasteInv(m), Finish(c),
           place'[m] # "deleted"
    PROVE  WasteInv(m)'
<1>0. /\ QueueTypes /\ Recorded \subseteq Recorded' /\ failures <= failures' /\ failures \in Nat
      /\ Wasted(m) \in Int /\ received[m] \in Nat /\ Wasted(m) <= received[m]
      /\ received[m] <= Wasted(m) + 1
      /\ holder \in [Ids -> Consumers \cup {Nobody}]
      /\ place \in [Ids -> {"unsent", "queued", "deleted", "dead"}]
  BY RowsAndFailuresGrow, WasteTypes DEF QueueInv, QueueTypes, TypeOK
<1>1. Wasted(m)' \in Int /\ Wasted(m)' <= received'[m] /\ received' = received
  BY WasteTypesNext DEF Finish
<1>2. pc[c] \in {"delete", "release"} /\ NextInBatch(c) /\ Work(c)
  BY DEF Finish, Work, Handle
<1>3. PICK label \in {"idle", "decode"} :
         pc'[c] = label /\ batch'[c] = Tail(batch[c])
  <2>1. PICK label \in {"idle", "decode"} :
           pc' = [pc EXCEPT ![c] = label] /\ batch' = [batch EXCEPT ![c] = Tail(batch[c])]
    BY <1>0, <1>2, RestOfBatch
  <2> QED BY <1>0, <2>1 DEF QueueTypes, TypeOK
<1>4. PICK h \in Ids : h = Head(batch[c])
  BY <1>0, <1>2, MessageInHand
<1>5. /\ holder' = IF holder[h] = c THEN [holder EXCEPT ![h] = Nobody] ELSE holder
      /\ place' = IF pc[c] = "delete" /\ holder[h] = c
                  THEN [place EXCEPT ![h] = "deleted"] ELSE place
  BY <1>4 DEF Finish
<1>6. CASE holder[m] # c
  <2>1. holder[m] # Nobody => holder[m] \in Consumers
    BY <1>0
  <2>2. holder[m] # Nobody => pc'[holder[m]] = pc[holder[m]] /\ batch'[holder[m]] = batch[holder[m]]
    BY <1>0, <1>2, <1>6, <2>1, OthersUntouched
  <2>3. holder'[m] = holder[m]
    BY <1>0, <1>5, <1>6
  <2> QED BY <1>0, <1>1, <2>2, <2>3, NotTouched
<1>7. CASE holder[m] = c /\ m = h
  <2>1. pc[c] = "release"
    BY <1>0, <1>2, <1>5, <1>7
  <2>2. holder'[m] = Nobody
    BY <1>0, <1>5, <1>7
  <2>3. HandledAt(m, "release")
    BY <1>4, <1>7, <2>1, NobodyAssumption DEF HandledAt
  <2>4. ~HandledAt(m, "write")' /\ ~HandledAt(m, "release")'
    BY <2>2 DEF HandledAt
  <2>5. Wasted(m)' <= Wasted(m) + 1
    BY <1>0, <1>1
  <2> QED BY <1>0, <2>3, <2>4, <2>5, OneWasted
<1>8. CASE holder[m] = c /\ m # h
  <2>1. holder'[m] = c
    BY <1>0, <1>5, <1>8
  <2>2. Active(m) => Active(m)'
    <3>1. ASSUME Active(m) PROVE Active(m)'
      <4>1. PICK s \in Seq(Ids) : s = batch[c] /\ s # << >>
        BY <1>0, <1>2, MessageInHand
      <4>2. \E i \in DOMAIN s : s[i] = m
        BY <1>8, <3>1, <4>1 DEF Active, Holds
      <4>3. \E i \in DOMAIN Tail(s) : Tail(s)[i] = m
        BY <1>4, <1>8, <4>1, <4>2, RestIsHeld
      <4>4. \E i \in DOMAIN batch'[c] : batch'[c][i] = m
        BY <1>3, <4>1, <4>3
      <4> QED BY <2>1, <4>4, NobodyAssumption DEF Active, Holds
    <3> QED BY <3>1
  <2>3. Wasted(m)' <= Wasted(m)
    <3>1. CASE Active(m)
      BY <1>0, <1>1, <2>2, <3>1, WasteTypes, WasteTypesNext
    <3>2. CASE ~Active(m)
      BY <1>0, <1>1, <3>2, WasteTypes
    <3> QED BY <3>1, <3>2
  <2>4. ~HandledAt(m, "write")' /\ ~HandledAt(m, "release")'
    BY <1>3, <2>1 DEF HandledAt
  <2> QED BY <1>0, <2>3, <2>4, NothingWasted
<1> QED BY <1>6, <1>7, <1>8

\* A failure pays for the delivery it wastes.
LEMMA FailureIsPaidFor ==
    ASSUME QueueInv, QueueTypes', Next, NEW c \in Consumers, NEW m \in Ids, WasteInv(m),
           FinishFails(c) \/ Crash(c)
    PROVE  WasteInv(m)'
<1>0. /\ QueueTypes /\ Recorded \subseteq Recorded' /\ failures <= failures' /\ failures \in Nat
      /\ Wasted(m) \in Int /\ received[m] \in Nat /\ received[m] <= Wasted(m) + 1
      /\ holder \in [Ids -> Consumers \cup {Nobody}]
  BY RowsAndFailuresGrow, WasteTypes DEF QueueInv, QueueTypes, TypeOK
<1>1. holder' = holder /\ received' = received /\ Work(c)
  BY DEF FinishFails, Crash, Work, queue
<1>2. failures + 1 <= failures'
  BY <1>0 DEF FinishFails, Crash, Fail
<1>3. pc'[c] \in {"idle", "decode"}
  <2>1. CASE FinishFails(c)
    <3>1. pc[c] # "idle" /\ NextInBatch(c)
      BY <2>1 DEF FinishFails
    <3>2. PICK label \in {"idle", "decode"} : pc' = [pc EXCEPT ![c] = label]
      BY <1>0, <3>1, RestOfBatch
    <3> QED BY <1>0, <3>2 DEF QueueTypes, TypeOK
  <2>2. CASE Crash(c)
    BY <1>0, <2>2 DEF Crash, Goto, QueueTypes, TypeOK
  <2> QED BY <2>1, <2>2
<1>4. CASE holder[m] # c
  <2>1. holder[m] # Nobody => holder[m] \in Consumers
    BY <1>0
  <2>2. holder[m] # Nobody => pc'[holder[m]] = pc[holder[m]] /\ batch'[holder[m]] = batch[holder[m]]
    BY <1>0, <1>1, <1>4, <2>1, OthersUntouched
  <2> QED BY <1>0, <1>1, <2>2, NotTouched
<1>5. CASE holder[m] = c
  <2>1. ~HandledAt(m, "write")' /\ ~HandledAt(m, "release")'
    BY <1>1, <1>3, <1>5 DEF HandledAt
  <2>2. Wasted(m)' <= Wasted(m) + 1
    BY <1>0, <1>1, WasteTypesNext
  <2> QED BY <1>0, <1>2, <2>1, <2>2, OneWasted
<1> QED BY <1>4, <1>5

\* The broker wastes a delivery only when its consumer is too slow, which is a failure.
LEMMA BrokerIsPaidFor ==
    ASSUME QueueInv, QueueTypes', Next, NEW m \in Ids, WasteInv(m),
           \/ \E n \in Ids : Send(n) \/ Redrive(n) \/ Lapse(n)
           \/ \E op \in HttpOps : Http(op)
           \/ UNCHANGED vars
    PROVE  WasteInv(m)'
<1>0. /\ QueueTypes /\ Recorded \subseteq Recorded' /\ failures <= failures' /\ failures \in Nat
      /\ Wasted(m) \in Int /\ received[m] \in Nat /\ received[m] <= Wasted(m) + 1
      /\ holder \in [Ids -> Consumers \cup {Nobody}]
  BY RowsAndFailuresGrow, WasteTypes DEF QueueInv, QueueTypes, TypeOK
<1>1. received' = received /\ pc' = pc /\ batch' = batch
  BY DEF Send, Redrive, Lapse, Http, vars, queue
<1>2. CASE holder'[m] = holder[m]
  BY <1>0, <1>1, <1>2, NotTouched
<1>3. CASE holder'[m] # holder[m]
  <2>1. Lapse(m)
    <3>1. holder' # holder
      BY <1>3
    <3>2. PICK n \in Ids : Lapse(n)
      BY <3>1 DEF Send, Redrive, Http, vars, queue
    <3>3. n = m
      BY <1>0, <1>3, <3>2 DEF Lapse
    <3> QED BY <3>2, <3>3
  <2>2. holder'[m] = Nobody /\ holder[m] # Nobody
    BY <1>0, <2>1 DEF Lapse
  <2>3. ~HandledAt(m, "write")' /\ ~HandledAt(m, "release")'
    BY <2>2 DEF HandledAt
  <2>4. CASE Active(m)
    <3>1. failures + 1 <= failures'
      BY <1>0, <2>1, <2>4 DEF Lapse, Active
    <3>2. Wasted(m)' <= Wasted(m) + 1
      BY <1>0, <1>1, WasteTypesNext
    <3> QED BY <1>0, <2>3, <3>1, <3>2, OneWasted
  <2>5. CASE ~Active(m)
    <3>1. Wasted(m)' <= Wasted(m)
      BY <1>0, <1>1, <2>5, WasteTypes, WasteTypesNext
    <3> QED BY <1>0, <2>3, <3>1, NothingWasted
  <2> QED BY <2>4, <2>5
<1> QED BY <1>2, <1>3

\* A deleted message stays deleted, and only the redrive policy makes a dead letter.
LEMMA PlaceSteps ==
    ASSUME QueueInv, Next, NEW m \in Ids
    PROVE  /\ place'[m] # "deleted" => place[m] # "deleted"
           /\ place'[m] = "dead" => place[m] = "dead" \/ Redrive(m)
<1>0. QueueTypes /\ place \in [Ids -> {"unsent", "queued", "deleted", "dead"}]
  BY DEF QueueInv, QueueTypes, TypeOK
<1>1. CASE place' = place
  BY <1>1
<1>2. ASSUME NEW n \in Ids, Send(n) \/ Redrive(n)
      PROVE  /\ place'[m] # "deleted" => place[m] # "deleted"
             /\ place'[m] = "dead" => place[m] = "dead" \/ Redrive(m)
  BY <1>0, <1>2 DEF Send, Redrive, Queued
<1>3. ASSUME NEW c \in Consumers, Finish(c)
      PROVE  /\ place'[m] # "deleted" => place[m] # "deleted"
             /\ place'[m] = "dead" => place[m] = "dead"
  BY <1>0, <1>3 DEF Finish
<1>4. ASSUME NEW n \in Ids, Lapse(n) PROVE place' = place
  BY <1>4 DEF Lapse
<1>5. ASSUME NEW c \in Consumers, Receive(c) \/ Decode(c) \/ Claim(c) \/ Lookup(c) \/ Write(c)
             \/ Commit(c) \/ StatementFails(c) \/ CommitUnacknowledged(c) \/ FinishFails(c) \/ Crash(c)
      PROVE  place' = place
  BY <1>5 DEF Receive, Decode, Claim, Lookup, Write, Commit, StatementFails, CommitUnacknowledged,
     FinishFails, Crash, queue
<1>6. ASSUME \/ \E op \in HttpOps : Http(op)
             \/ UNCHANGED vars
      PROVE  place' = place
  BY <1>6 DEF Http, vars, queue
<1> QED BY <1>1, <1>2, <1>3, <1>4, <1>5, <1>6 DEF Next, Handle

\* What is dead is not received again.
LEMMA DeadStays ==
    ASSUME QueueInv, Next, NEW m \in Ids, DeadInv(m)
    PROVE  DeadInv(m)'
<1> SUFFICES ASSUME place'[m] = "dead" PROVE holder'[m] = Nobody /\ received'[m] >= MaxReceive
  BY DEF DeadInv
<1>0. QueueTypes /\ holder \in [Ids -> Consumers \cup {Nobody}]
  BY DEF QueueInv, QueueTypes, TypeOK
<1>1. CASE Redrive(m)
  BY <1>1 DEF Redrive
<1>2. CASE place[m] = "dead"
  <2>0. holder[m] = Nobody /\ received[m] >= MaxReceive
    BY <1>2 DEF DeadInv
  <2>1. ASSUME NEW c \in Consumers, Receive(c)
        PROVE  holder'[m] = holder[m] /\ received'[m] = received[m]
    <3>1. PICK ms \in SUBSET Ids :
             /\ Receivable(ms)
             /\ holder' = [n \in Ids |-> IF n \in ms THEN c ELSE holder[n]]
             /\ received' = [n \in Ids |-> IF n \in ms THEN received[n] + 1 ELSE received[n]]
      BY <2>1 DEF Receive
    <3>2. m \notin ms
      BY <1>2, <3>1 DEF Receivable, Queued
    <3> QED BY <3>1, <3>2
  <2>2. ASSUME NEW c \in Consumers, Finish(c)
        PROVE  holder'[m] \in {holder[m], Nobody} /\ received'[m] = received[m]
    <3>1. pc[c] # "idle"
      BY <2>2 DEF Finish
    <3>2. PICK h \in Ids : h = Head(batch[c])
      BY <1>0, <3>1, MessageInHand
    <3>3. received' = received
          /\ holder' = IF holder[h] = c THEN [holder EXCEPT ![h] = Nobody] ELSE holder
      BY <2>2, <3>2 DEF Finish
    <3> QED BY <1>0, <3>3
  <2>3. ASSUME NEW n \in Ids, Lapse(n)
        PROVE  holder'[m] \in {holder[m], Nobody} /\ received'[m] = received[m]
    BY <1>0, <2>3 DEF Lapse
  <2>4. ASSUME NEW n \in Ids, Send(n) \/ Redrive(n)
        PROVE  holder'[m] = holder[m] /\ received'[m] = received[m]
    BY <2>4 DEF Send, Redrive
  <2>5. ASSUME NEW c \in Consumers, \/ Decode(c) \/ Claim(c) \/ Lookup(c) \/ Write(c) \/ Commit(c)
                                    \/ StatementFails(c) \/ CommitUnacknowledged(c)
                                    \/ FinishFails(c) \/ Crash(c)
        PROVE  holder'[m] = holder[m] /\ received'[m] = received[m]
    BY <2>5 DEF Decode, Claim, Lookup, Write, Commit, StatementFails, CommitUnacknowledged,
       FinishFails, Crash, queue
  <2>6. ASSUME \/ \E op \in HttpOps : Http(op)
               \/ UNCHANGED vars
        PROVE  holder'[m] = holder[m] /\ received'[m] = received[m]
    BY <2>6 DEF Http, vars, queue
  <2>7. holder'[m] \in {holder[m], Nobody} /\ received'[m] = received[m]
    BY <2>1, <2>2, <2>3, <2>4, <2>5, <2>6 DEF Next, Handle
  <2> QED BY <2>0, <2>7
<1> QED BY <1>1, <1>2, PlaceSteps

\* No step wastes a delivery that nothing pays for.
LEMMA WastesInvNext ==
    ASSUME QueueInv, QueueTypes', WastesInv, Next
    PROVE  WastesInv'
<1>1. ASSUME NEW m \in Ids PROVE DeadInv(m)'
  BY <1>1, DeadStays DEF WastesInv
<1>2. ASSUME NEW m \in Ids, place'[m] # "deleted" PROVE WasteInv(m)'
  <2>0. WasteInv(m)
    BY <1>2, PlaceSteps DEF WastesInv
  <2>1. ASSUME NEW c \in Consumers, \/ Decode(c) \/ Claim(c) \/ Lookup(c) \/ Write(c) \/ Commit(c)
                                    \/ StatementFails(c) \/ CommitUnacknowledged(c)
        PROVE  WasteInv(m)'
    BY <2>0, <2>1, HandlingWastesNothing
  <2>2. ASSUME NEW c \in Consumers, Receive(c) PROVE WasteInv(m)'
    BY <2>0, <2>2, ReceiveWastesNothing
  <2>3. ASSUME NEW c \in Consumers, Finish(c) PROVE WasteInv(m)'
    BY <1>2, <2>0, <2>3, FinishWastesGivenBack
  <2>4. ASSUME NEW c \in Consumers, FinishFails(c) \/ Crash(c) PROVE WasteInv(m)'
    BY <2>0, <2>4, FailureIsPaidFor
  <2>5. ASSUME \/ \E n \in Ids : Send(n) \/ Redrive(n) \/ Lapse(n)
               \/ \E op \in HttpOps : Http(op)
               \/ UNCHANGED vars
        PROVE  WasteInv(m)'
    BY <2>0, <2>5, BrokerIsPaidFor
  <2> QED BY <2>1, <2>2, <2>3, <2>4, <2>5 DEF Next, Handle
<1> QED BY <1>1, <1>2 DEF WastesInv

\* A stuttering step changes none of the counts.
LEMMA WastesInvStutter == WastesInv /\ UNCHANGED vars => WastesInv'
<1> SUFFICES ASSUME WastesInv, UNCHANGED vars PROVE WastesInv'
  OBVIOUS
<1>1. UNCHANGED <<place, holder, received, recorded, pc, batch, failures>>
  BY DEF vars, queue, db
<1>2. Recorded' = Recorded
  BY <1>1 DEF Recorded
<1> QED BY <1>1, <1>2 DEF WastesInv, WasteInv, DeadInv, Hopeless, Conflicting, Wasted, Active, Holds,
        RaceLost, HandledAt

\* Nothing is received at first.
LEMMA WastesInvInit == Init => WastesInv
<1> SUFFICES ASSUME Init, NEW m \in Ids PROVE WasteInv(m) /\ DeadInv(m)
  BY DEF WastesInv
<1>1. holder[m] = Nobody /\ received[m] = 0 /\ failures = 0 /\ place[m] = "unsent"
  BY DEF Init
<1>2. Wasted(m) = 0 /\ RaceLost(m) \in {0, 1}
  BY <1>1 DEF Wasted, Active, RaceLost
<1> QED BY <1>1, <1>2 DEF WasteInv, DeadInv, HandledAt

\* A message reaches the dead-letter queue because it is refused or conflicts, or because
\* MaxReceive - 1 failures met it (the redrive policy of the operations queue, and finish,
\* which releases what was not handled): a lost race costs one delivery, a duplicate none.
THEOREM DeadLettersAlwaysHaveACause == Spec => []DeadLettersHaveACause
<1>1. ASSUME QueueInv, WastesInv PROVE DeadLettersHaveACause
  <2> SUFFICES ASSUME NEW m \in Ids, place[m] = "dead", ~Hopeless(m)
               PROVE  failures + 1 >= MaxReceive
    BY DEF DeadLettersHaveACause, Hopeless
  <2>1. QueueTypes /\ holder[m] = Nobody /\ received[m] >= MaxReceive
    BY <1>1 DEF WastesInv, DeadInv, QueueInv
  <2>2. Wasted(m) <= failures + RaceLost(m)
    BY <1>1 DEF WastesInv, WasteInv
  <2>3. Wasted(m) = received[m] /\ received[m] \in Nat /\ failures \in Nat /\ RaceLost(m) \in {0, 1}
    BY <2>1, WasteTypes DEF Active
  <2> QED BY <2>1, <2>2, <2>3, QueueAssumption
<1>2. QueueInv /\ WastesInv => DeadLettersHaveACause
  BY <1>1
<1>3. QueueInv /\ QueueInv' /\ WastesInv /\ [Next]_vars => WastesInv'
  BY WastesInvNext, WastesInvStutter DEF QueueInv
<1> QED BY <1>2, <1>3, WastesInvInit, QueueInvariant, PTL DEF Spec

-----------------------------------------------------------------------------
(* The order of a wallet's operations.                                      *)

\* A message that has had its turn: recorded, in conflict for good, or a reused id.
HadItsTurn(m) ==
    \/ Messages[m].op \in Recorded
    \/ Conflicting(Messages[m].op)
    \/ \E s \in inbox : s.id = Messages[m].id /\ s.op # Messages[m].op

\* What is in a batch is held by the consumer that has it, and the other way round.
HeldInv ==
    /\ \A c \in Consumers : \A i \in DOMAIN batch[c] : holder[batch[c][i]] = c
    /\ \A m \in Ids : holder[m] # Nobody => Holds(holder[m], m)
    /\ \A c \in Consumers : \A i, j \in DOMAIN batch[c] : i < j => batch[c][i] < batch[c][j]

\* Messages are sent in order, and leave the queue after somebody had them.
SentInv ==
    \A m \in Ids :
        /\ place[m] # "unsent" => \A n \in Ids : n < m => place[n] # "unsent"
        /\ holder[m] # Nobody => place[m] = "queued" /\ received[m] > 0
        /\ place[m] = "unsent" => received[m] = 0
        /\ place[m] \in {"deleted", "dead"} => received[m] > 0

\* The messages of a wallet are received in order, and by one consumer at a time.
GroupInv ==
    \A m, n \in Ids :
        Messages[m].op.wallet = Messages[n].op.wallet =>
            /\ m < n /\ received[n] > 0 => received[m] > 0
            /\ holder[m] # Nobody /\ holder[n] # Nobody => holder[m] = holder[n]

\* A usable message that is not in hand any more, or about to be finished, had its turn.
TurnInv ==
    /\ \A m \in Ids : Messages[m].form = "usable" /\ received[m] > 0 /\ holder[m] = Nobody
                         => HadItsTurn(m)
    /\ \A c \in Consumers : pc[c] \in {"delete", "release"} /\ InHand(c).form = "usable"
                         => HadItsTurn(Head(batch[c]))

\* Nothing is recorded ahead of a message that waits for its turn.
AheadInv ==
    \A m, n \in Ids :
        /\ m < n /\ Messages[m].op.wallet = Messages[n].op.wallet
        /\ Messages[m].form = "usable" /\ Messages[n].op \in Recorded \ HttpOps
        /\ \A k \in Ids : k < m => Messages[k].op # Messages[n].op
        => HadItsTurn(m)

OrderInv == HeldInv /\ SentInv /\ GroupInv /\ TurnInv /\ AheadInv
BrokerInv == HeldInv /\ SentInv /\ GroupInv

\* Having had a turn is for good.
LEMMA TurnStays ==
    ASSUME NEW m, Recorded \subseteq Recorded', inbox \subseteq inbox', HadItsTurn(m)
    PROVE  HadItsTurn(m)'
BY DEF HadItsTurn, Conflicting

\* The first message in hand is held, and comes before the others.
LEMMA HeadComesFirst ==
    ASSUME QueueTypes, HeldInv, NEW c \in Consumers, pc[c] # "idle"
    PROVE  /\ Head(batch[c]) \in Ids /\ holder[Head(batch[c])] = c /\ c # Nobody
           /\ \A m \in Ids : Holds(c, m) => m = Head(batch[c]) \/ Head(batch[c]) < m
<1>1. PICK s \in Seq(Ids) : s = batch[c] /\ s # << >> /\ Head(s) \in Ids
  BY MessageInHand
<1>2. Head(s) = s[1] /\ 1 \in DOMAIN s /\ DOMAIN s = 1 .. Len(s) /\ Len(s) \in Nat
  <2>1. Len(s) \in Nat /\ Len(s) # 0 /\ DOMAIN s = 1 .. Len(s)
    BY <1>1, EmptySeq
  <2> QED BY <1>1, <2>1, HeadTailProperties
<1>3. holder[s[1]] = c
  BY <1>1, <1>2 DEF HeldInv
<1>4. ASSUME NEW m \in Ids, Holds(c, m) PROVE m = s[1] \/ s[1] < m
  <2>1. PICK i \in DOMAIN s : s[i] = m
    BY <1>1, <1>4 DEF Holds
  <2>2. i = 1 \/ 1 < i
    BY <1>2
  <2>3. 1 < i => s[1] < s[i]
    BY <1>1, <1>2 DEF HeldInv
  <2> QED BY <2>1, <2>2, <2>3
<1> QED BY <1>1, <1>2, <1>3, <1>4, NobodyAssumption

\* The batch received is in the order of sending.
LEMMA InOrderIncreases ==
    ASSUME NEW ms \in SUBSET Ids
    PROVE  /\ \A i \in DOMAIN InOrder(ms) : InOrder(ms)[i] \in ms
           /\ \A i, j \in DOMAIN InOrder(ms) : i < j => InOrder(ms)[i] < InOrder(ms)[j]
<1>1. PICK n : n = Cardinality(ms)
  OBVIOUS
<1>2. PICK s : Orders(s, ms)
  BY CanBeOrdered
<1>3. s \in [1 .. n -> ms] /\ \A i, j \in DOMAIN s : i < j => s[i] < s[j]
  BY <1>1, <1>2 DEF Orders
<1>4. PICK t : t = InOrder(ms)
  OBVIOUS
<1>5. t \in [1 .. n -> ms] /\ \A i, j \in DOMAIN t : i < j => t[i] < t[j]
  BY <1>1, <1>3, <1>4 DEF InOrder
<1> QED BY <1>4, <1>5

\* Nothing of the broker or the batches changes.
LEMMA BrokerSame ==
    ASSUME BrokerInv, UNCHANGED <<place, holder, received, batch>>
    PROVE  BrokerInv'
BY DEF BrokerInv, HeldInv, SentInv, GroupInv, Holds

\* Sending and dead-lettering keep the order.
LEMMA PlacesKeepOrder ==
    ASSUME QueueTypes, BrokerInv, NEW m \in Ids, Send(m) \/ Redrive(m)
    PROVE  BrokerInv'
<1>0. /\ place \in [Ids -> {"unsent", "queued", "deleted", "dead"}]
      /\ received \in [Ids -> 0 .. MaxReceive] /\ MaxReceive \in Nat \ {0}
  BY QueueAssumption DEF QueueTypes, TypeOK
<1>1. UNCHANGED <<holder, received, batch>>
  BY DEF Send, Redrive
<1>2. HeldInv' /\ GroupInv'
  BY <1>1 DEF BrokerInv, HeldInv, GroupInv, Holds
<1>3. SentInv'
  <2>1. CASE Send(m)
    BY <1>0, <1>1, <2>1 DEF Send, BrokerInv, SentInv
  <2>2. CASE Redrive(m)
    BY <1>0, <1>1, <2>2 DEF Redrive, Queued, BrokerInv, SentInv
  <2> QED BY <2>1, <2>2
<1> QED BY <1>2, <1>3 DEF BrokerInv

\* What a receive does.
Takes(c, ms) ==
    /\ pc[c] = "idle" /\ Receivable(ms)
    /\ holder' = [n \in Ids |-> IF n \in ms THEN c ELSE holder[n]]
    /\ received' = [n \in Ids |-> IF n \in ms THEN received[n] + 1 ELSE received[n]]
    /\ batch' = [batch EXCEPT ![c] = InOrder(ms)]
    /\ pc' = [pc EXCEPT ![c] = "decode"]
    /\ UNCHANGED <<place, db, doing, failures>>

\* Receiving keeps the order: a group goes to one consumer, from its first message on.
LEMMA ReceiveKeepsOrder ==
    ASSUME QueueTypes, BrokerInv, NEW c \in Consumers, NEW ms \in SUBSET Ids, Takes(c, ms)
    PROVE  BrokerInv'
<1>0. /\ place \in [Ids -> {"unsent", "queued", "deleted", "dead"}]
      /\ holder \in [Ids -> Consumers \cup {Nobody}] /\ \A m \in Ids : received[m] \in Nat
      /\ batch \in [Consumers -> Seq(Ids)] /\ batch[c] = << >> /\ c # Nobody
  BY QueueAssumption, NobodyAssumption DEF QueueTypes, TypeOK, Takes
<1>1. /\ \A m \in ms : holder'[m] = c /\ received'[m] = received[m] + 1
      /\ \A m \in Ids \ ms : holder'[m] = holder[m] /\ received'[m] = received[m]
      /\ place' = place
  BY DEF Takes
<1>2. \A m \in ms : place[m] = "queued" /\ holder[m] = Nobody
  BY DEF Takes, Receivable, Queued
<1>3. \A m \in ms, n \in Ids : place[n] = "queued" /\ Messages[n].op.wallet = Messages[m].op.wallet
         => holder[n] = Nobody /\ (n < m => n \in ms)
  BY DEF Takes, Receivable, Queued
<1>4. PICK t : t = InOrder(ms)
  OBVIOUS
<1>5. /\ \A i \in DOMAIN t : t[i] \in ms
      /\ \A i, j \in DOMAIN t : i < j => t[i] < t[j]
      /\ \A m \in ms : \E i \in DOMAIN t : t[i] = m
  BY <1>4, InOrderIncreases, InOrderIsComplete
<1>6. batch'[c] = t /\ \A d \in Consumers \ {c} : batch'[d] = batch[d]
  BY <1>0, <1>4 DEF Takes
<1>7. ~\E m \in Ids : holder[m] = c
  BY <1>0 DEF BrokerInv, HeldInv, Holds
<1>8. HeldInv'
  <2>1. ASSUME NEW d \in Consumers, NEW i \in DOMAIN batch'[d] PROVE holder'[batch'[d][i]] = d
    <3>1. CASE d = c
      BY <1>1, <1>5, <1>6, <2>1, <3>1
    <3>2. CASE d # c
      <4>1. batch'[d] = batch[d] /\ batch[d][i] \in Ids /\ holder[batch[d][i]] = d
        BY <1>0, <1>6, <2>1, <3>2 DEF BrokerInv, HeldInv
      <4>2. batch[d][i] \notin ms
        BY <1>2, <4>1, NobodyAssumption
      <4> QED BY <1>1, <4>1, <4>2
    <3> QED BY <3>1, <3>2
  <2>2. ASSUME NEW m \in Ids, holder'[m] # Nobody PROVE Holds(holder[m], m)'
    <3>1. CASE m \in ms
      <4>1. holder'[m] = c /\ \E i \in DOMAIN batch'[c] : batch'[c][i] = m
        BY <1>1, <1>5, <1>6, <3>1
      <4> QED BY <4>1 DEF Holds
    <3>2. CASE m \notin ms
      <4>1. holder'[m] = holder[m] /\ holder[m] \in Consumers \ {c}
        BY <1>0, <1>1, <1>7, <2>2, <3>2
      <4>2. Holds(holder[m], m) /\ batch'[holder[m]] = batch[holder[m]]
        BY <1>6, <2>2, <4>1 DEF BrokerInv, HeldInv
      <4> QED BY <4>1, <4>2 DEF Holds
    <3> QED BY <3>1, <3>2
  <2>3. \A d \in Consumers : \A i, j \in DOMAIN batch'[d] : i < j => batch'[d][i] < batch'[d][j]
    BY <1>5, <1>6 DEF BrokerInv, HeldInv
  <2> QED BY <2>1, <2>2, <2>3 DEF HeldInv
<1>9. SentInv'
  BY <1>0, <1>1, <1>2 DEF BrokerInv, SentInv
<1>10. ASSUME NEW m \in Ids, NEW n \in Ids, Messages[m].op.wallet = Messages[n].op.wallet
       PROVE  /\ m < n /\ received'[n] > 0 => received'[m] > 0
              /\ holder'[m] # Nobody /\ holder'[n] # Nobody => holder'[m] = holder'[n]
  <2>1. ASSUME m < n, received'[n] > 0 PROVE received'[m] > 0
    <3>1. CASE n \in ms
      <4>1. place[m] # "unsent"
        BY <1>2, <2>1, <3>1 DEF BrokerInv, SentInv
      <4>2. CASE place[m] = "queued"
        BY <1>0, <1>1, <1>3, <1>10, <2>1, <3>1, <4>2
      <4>3. CASE place[m] # "queued"
        BY <1>0, <1>1, <4>1, <4>3 DEF BrokerInv, SentInv
      <4> QED BY <4>2, <4>3
    <3>2. CASE n \notin ms
      BY <1>0, <1>1, <1>10, <2>1, <3>2 DEF BrokerInv, GroupInv
    <3> QED BY <3>1, <3>2
  <2>2. ASSUME holder'[m] # Nobody, holder'[n] # Nobody PROVE holder'[m] = holder'[n]
    <3>1. \A x \in Ids \ ms : holder'[x] # Nobody => place[x] = "queued" /\ holder[x] # Nobody
      BY <1>1 DEF BrokerInv, SentInv
    <3>2. m \in ms <=> n \in ms
      BY <1>3, <1>10, <2>2, <3>1
    <3> QED BY <1>1, <1>10, <2>2, <3>2 DEF BrokerInv, GroupInv
  <2> QED BY <2>1, <2>2
<1>11. GroupInv'
  BY <1>10 DEF GroupInv
<1> QED BY <1>8, <1>9, <1>11 DEF BrokerInv

\* The rest of a batch is what comes behind its first message.
LEMMA RestComesBehind ==
    ASSUME NEW s \in Seq(Ids), s # << >>, \A i, j \in DOMAIN s : i < j => s[i] < s[j]
    PROVE  /\ \A i \in DOMAIN Tail(s) : \E j \in DOMAIN s : Tail(s)[i] = s[j] /\ s[j] # Head(s)
           /\ \A i, j \in DOMAIN Tail(s) : i < j => Tail(s)[i] < Tail(s)[j]
<1>1. PICK n \in Nat : Len(s) = n /\ DOMAIN s = 1 .. n /\ n # 0
  BY EmptySeq
<1>2. PICK t : t = Tail(s)
  OBVIOUS
<1>3. Head(s) = s[1] /\ DOMAIN t = 1 .. n - 1 /\ \A i \in 1 .. n - 1 : t[i] = s[i + 1]
  <2>1. t \in Seq(Ids) /\ Len(t) = n - 1 /\ Head(s) = s[1] /\ \A i \in 1 .. n - 1 : t[i] = s[i + 1]
    BY <1>1, <1>2, HeadTailProperties
  <2> QED BY <2>1
<1>4. Ids \subseteq Nat
  BY MessagesAssumption
<1>5. ASSUME NEW i \in 1 .. n - 1 PROVE \E j \in DOMAIN s : t[i] = s[j] /\ s[j] # Head(s)
  <2>1. i + 1 \in 1 .. n /\ 1 \in 1 .. n /\ 1 < i + 1
    BY <1>1
  <2>2. s[1] < s[i + 1]
    BY <1>1, <2>1
  <2>3. s[1] \in Ids /\ s[i + 1] \in Ids
    BY <1>1, <2>1
  <2>4. s[1] # s[i + 1]
    <3>1. PICK a, b : a = s[1] /\ b = s[i + 1]
      OBVIOUS
    <3>2. a \in Nat /\ b \in Nat /\ a < b
      BY <1>4, <2>2, <2>3, <3>1, Zenon
    <3>3. a # b
      BY <3>2
    <3> QED BY <3>1, <3>3, Zenon
  <2> QED BY <1>1, <1>3, <2>1, <2>4
<1>6. ASSUME NEW i \in 1 .. n - 1, NEW j \in 1 .. n - 1, i < j PROVE t[i] < t[j]
  <2>1. i + 1 \in 1 .. n /\ j + 1 \in 1 .. n /\ i + 1 < j + 1
    BY <1>1, <1>6
  <2> QED BY <1>1, <1>3, <2>1
<1> QED BY <1>2, <1>3, <1>5, <1>6

\* What finishing a message does while the receipt handle is current.
Finishes(c, h, label) ==
    /\ h = Head(batch[c]) /\ pc[c] \in {"delete", "release"}
    /\ holder' = [holder EXCEPT ![h] = Nobody]
    /\ place' = IF pc[c] = "delete" THEN [place EXCEPT ![h] = "deleted"] ELSE place
    /\ pc' = [pc EXCEPT ![c] = label] /\ label \in {"idle", "decode"}
    /\ batch' = [batch EXCEPT ![c] = Tail(batch[c])]
    /\ UNCHANGED <<received, db, failures>>

\* It is current when nothing has failed.
LEMMA FinishWhileHeld ==
    ASSUME QueueTypes, HeldInv, NEW c \in Consumers, Finish(c)
    PROVE  \E h \in Ids : \E label : Finishes(c, h, label)
<1>1. pc[c] \in {"delete", "release"} /\ pc[c] # "idle" /\ NextInBatch(c)
  BY DEF Finish
<1>2. PICK h \in Ids : h = Head(batch[c]) /\ holder[h] = c
  BY <1>1, HeadComesFirst
<1>3. PICK label \in {"idle", "decode"} :
         pc' = [pc EXCEPT ![c] = label] /\ batch' = [batch EXCEPT ![c] = Tail(batch[c])]
  BY <1>1, RestOfBatch
<1>4. /\ holder' = [holder EXCEPT ![h] = Nobody]
      /\ place' = IF pc[c] = "delete" THEN [place EXCEPT ![h] = "deleted"] ELSE place
      /\ UNCHANGED <<received, db, failures>>
  BY <1>2 DEF Finish
<1> QED BY <1>1, <1>2, <1>3, <1>4 DEF Finishes

\* Finishing keeps the order.
LEMMA FinishKeepsOrder ==
    ASSUME QueueTypes, BrokerInv, NEW c \in Consumers, NEW h \in Ids, NEW label,
           Finishes(c, h, label)
    PROVE  BrokerInv'
<1>0. /\ place \in [Ids -> {"unsent", "queued", "deleted", "dead"}]
      /\ holder \in [Ids -> Consumers \cup {Nobody}] /\ \A m \in Ids : received[m] \in Nat
      /\ batch \in [Consumers -> Seq(Ids)]
  BY QueueAssumption DEF QueueTypes, TypeOK
<1>1. HeldInv /\ SentInv /\ GroupInv /\ pc[c] # "idle"
  BY DEF BrokerInv, Finishes
<1>2. h = Head(batch[c]) /\ holder[h] = c /\ c # Nobody /\ received[h] > 0
         /\ place[h] = "queued"
  BY <1>1, HeadComesFirst DEF Finishes, SentInv
<1>3. PICK s \in Seq(Ids) : s = batch[c] /\ s # << >>
  BY <1>1, MessageInHand
<1>4. PICK t : t = Tail(s)
  OBVIOUS
<1>5. /\ \A i \in DOMAIN t : \E j \in DOMAIN s : t[i] = s[j] /\ s[j] # h
      /\ \A i, j \in DOMAIN t : i < j => t[i] < t[j]
  <2>1. \A i, j \in DOMAIN s : i < j => s[i] < s[j]
    BY <1>1, <1>3 DEF HeldInv
  <2> QED BY <1>2, <1>3, <1>4, <2>1, RestComesBehind
<1>6. batch'[c] = t /\ \A d \in Consumers \ {c} : batch'[d] = batch[d]
  BY <1>0, <1>3, <1>4 DEF Finishes
<1>7. /\ holder'[h] = Nobody /\ \A m \in Ids \ {h} : holder'[m] = holder[m]
      /\ place'[h] \in {"queued", "deleted"} /\ \A m \in Ids \ {h} : place'[m] = place[m]
      /\ received' = received
  BY <1>0, <1>2 DEF Finishes
<1>8. ASSUME NEW d \in Consumers, NEW i \in DOMAIN batch'[d] PROVE holder'[batch'[d][i]] = d
  <2>1. CASE d = c
    <3>1. PICK j \in DOMAIN s : t[i] = s[j] /\ s[j] # h
      BY <1>5, <1>6, <1>8, <2>1
    <3>2. s[j] \in Ids /\ holder[s[j]] = c
      BY <1>1, <1>3, <3>1 DEF HeldInv
    <3> QED BY <1>6, <1>7, <2>1, <3>1, <3>2
  <2>2. CASE d # c
    <3>1. batch'[d] = batch[d] /\ batch[d][i] \in Ids /\ holder[batch[d][i]] = d
      BY <1>0, <1>1, <1>6, <1>8, <2>2 DEF HeldInv
    <3> QED BY <1>2, <1>7, <2>2, <3>1
  <2> QED BY <2>1, <2>2
<1>9. ASSUME NEW m \in Ids, holder'[m] # Nobody PROVE Holds(holder[m], m)'
  <2>1. m # h /\ holder'[m] = holder[m] /\ holder[m] \in Consumers /\ Holds(holder[m], m)
    BY <1>0, <1>1, <1>7, <1>9 DEF HeldInv
  <2>2. CASE holder[m] = c
    <3>1. \E i \in DOMAIN s : s[i] = m
      BY <1>3, <2>1, <2>2 DEF Holds
    <3>2. \E i \in DOMAIN t : t[i] = m
      BY <1>2, <1>3, <1>4, <2>1, <3>1, RestIsHeld
    <3> QED BY <1>6, <2>1, <2>2, <3>2 DEF Holds
  <2>3. CASE holder[m] # c
    BY <1>6, <2>1, <2>3 DEF Holds
  <2> QED BY <2>2, <2>3
<1>10. \A d \in Consumers : \A i, j \in DOMAIN batch'[d] : i < j => batch'[d][i] < batch'[d][j]
  BY <1>1, <1>5, <1>6 DEF HeldInv
<1>11. HeldInv'
  BY <1>8, <1>9, <1>10 DEF HeldInv
<1>12. SentInv'
  BY <1>0, <1>1, <1>2, <1>7 DEF SentInv
<1>13. GroupInv'
  BY <1>0, <1>1, <1>7 DEF GroupInv
<1> QED BY <1>11, <1>12, <1>13 DEF BrokerInv

\* A statement that ends the handling of a usable message leaves it with its turn had.
LEMMA StatementsGiveTurns ==
    ASSUME QueueInv, NEW c \in Consumers, Decode(c) \/ Claim(c) \/ Lookup(c) \/ Write(c),
           pc'[c] \in {"delete", "release"}, InHand(c).form = "usable"
    PROVE  HadItsTurn(Head(batch[c]))
<1>1. pc \in [Consumers -> {"idle", "decode", "claim", "lookup", "write", "commit",
                             "delete", "release"}]
  BY DEF QueueInv, QueueTypes, TypeOK
<1>2. PICK h : h = Head(batch[c])
  OBVIOUS
<1>3. InHand(c) = Messages[h] /\ pc[c] # "idle"
  BY <1>2 DEF InHand, Decode, Claim, Lookup, Write
<1>4. h \in Ids
  BY <1>2, <1>3, MessageInHand DEF QueueInv
<1>5. CASE Decode(c)
  BY <1>1, <1>5 DEF Decode, Goto
<1>6. CASE Claim(c)
  <2>1. PICK s \in inbox : s.id = Messages[h].id
    BY <1>1, <1>3, <1>6 DEF Claim, Goto
  <2>2. s.op = Messages[h].op => s.op \in Recorded
    BY <1>3, <1>4, MessagesAssumption DEF QueueInv, InboxInv, Unusable
  <2> QED BY <1>2, <2>1, <2>2 DEF HadItsTurn
<1>7. CASE Lookup(c)
  <2>1. \E o \in Recorded \ {Messages[h].op} : o.ext = Messages[h].op.ext
    BY <1>1, <1>3, <1>7 DEF Lookup, GiveBack, Forget, Goto
  <2> QED BY <1>2, <2>1 DEF HadItsTurn, Conflicting
<1>8. CASE Write(c)
  <2>1. Taken(Messages[h].op)
    BY <1>1, <1>3, <1>8 DEF Write, GiveBack, Forget, Goto
  <2> QED BY <1>2, <2>1 DEF Taken, HadItsTurn, Conflicting
<1> QED BY <1>5, <1>6, <1>7, <1>8

\* So does the commit.
LEMMA CommitGivesTurns ==
    ASSUME QueueInv, NEW c \in Consumers, Commit(c), InHand(c).form = "usable"
    PROVE  HadItsTurn(Head(batch[c]))'
<1>1. /\ Recorded' = IF doing[c] = "apply" THEN Recorded \cup {InHand(c).op} ELSE Recorded
      /\ batch' = batch /\ pc[c] = "commit"
  BY PersistAdds DEF QueueInv, Commit
<1>2. \/ doing[c] = "apply" \/ InHand(c).op \in Recorded
  BY <1>1 DEF QueueInv, TransactionInv
<1>3. InHand(c).op \in Recorded'
  BY <1>1, <1>2
<1> QED BY <1>1, <1>3 DEF HadItsTurn, InHand

\* Statements of c that leave the queue and the batches as they are.
Statement(c) == Decode(c) \/ Claim(c) \/ Lookup(c) \/ Write(c) \/ Commit(c)

\* The step a consumer takes leaves every usable message that is finished with its turn
\* had.
LEMMA StatementsKeepTurns ==
    ASSUME QueueInv, TurnInv, Recorded \subseteq Recorded', inbox \subseteq inbox',
           NEW c \in Consumers, Statement(c)
    PROVE  TurnInv' /\ UNCHANGED <<place, holder, received, batch>>
<1>1. UNCHANGED <<place, holder, received, batch>>
  BY DEF Statement, Decode, Claim, Lookup, Write, Commit, queue
<1>2. Work(c) /\ QueueTypes
  BY DEF Statement, Work, Handle, QueueInv
<1>3. \A m \in Ids : Messages[m].form = "usable" /\ received'[m] > 0 /\ holder'[m] = Nobody
                        => HadItsTurn(m)'
  BY <1>1, TurnStays DEF TurnInv
<1>4. ASSUME NEW d \in Consumers, pc'[d] \in {"delete", "release"}, InHand(d)'.form = "usable"
      PROVE  HadItsTurn(Head(batch[d]))'
  <2>0. InHand(d)' = InHand(d) /\ Head(batch'[d]) = Head(batch[d])
    BY <1>1 DEF InHand
  <2>1. CASE d # c
    <3>1. pc'[d] = pc[d]
      BY <1>2, <2>1, OthersUntouched
    <3>2. HadItsTurn(Head(batch[d]))
      BY <1>4, <2>0, <3>1 DEF TurnInv
    <3>3. PICK h : h = Head(batch[d])
      OBVIOUS
    <3>4. HadItsTurn(h)'
      BY <3>2, <3>3, TurnStays
    <3> QED BY <2>0, <3>3, <3>4 DEF HadItsTurn
  <2>2. CASE d = c /\ ~Commit(c)
    <3>1. HadItsTurn(Head(batch[c]))
      BY <1>4, <2>0, <2>2, StatementsGiveTurns DEF Statement
    <3>2. PICK h : h = Head(batch[c])
      OBVIOUS
    <3>3. HadItsTurn(h)'
      BY <3>1, <3>2, TurnStays
    <3> QED BY <2>0, <2>2, <3>2, <3>3 DEF HadItsTurn
  <2>3. CASE d = c /\ Commit(c)
    BY <1>4, <2>0, <2>3, CommitGivesTurns
  <2> QED BY <2>1, <2>2, <2>3
<1>5. TurnInv'
  BY <1>3, <1>4 DEF TurnInv
<1> QED BY <1>1, <1>5

\* The rest of the queue's steps take no turn away.
LEMMA TurnsKept ==
    ASSUME QueueInv, BrokerInv, TurnInv, UNCHANGED db,
           \/ \E m \in Ids : Send(m) \/ Redrive(m)
           \/ \E c \in Consumers, ms \in SUBSET Ids : Takes(c, ms)
           \/ \E c \in Consumers, h \in Ids : \E label : Finishes(c, h, label)
    PROVE  TurnInv'
<1>0. /\ pc \in [Consumers -> {"idle", "decode", "claim", "lookup", "write", "commit",
                                "delete", "release"}]
      /\ holder \in [Ids -> Consumers \cup {Nobody}] /\ batch \in [Consumers -> Seq(Ids)]
      /\ QueueTypes
  BY DEF QueueInv, QueueTypes, TypeOK
<1>1. \A m \in Ids : HadItsTurn(m) => HadItsTurn(m)'
  <2>1. Recorded' = Recorded /\ inbox' = inbox
    BY DEF db, Recorded
  <2> QED BY <2>1, TurnStays
<1>2. ASSUME NEW d \in Consumers, pc[d] \in {"delete", "release"} PROVE Head(batch[d]) \in Ids
  BY <1>0, <1>2, MessageInHand
<1>3. ASSUME NEW m \in Ids, Send(m) \/ Redrive(m) PROVE TurnInv'
  <2>1. UNCHANGED <<holder, received, pc, batch>>
    BY <1>3 DEF Send, Redrive
  <2>2. \A d \in Consumers : pc[d] \in {"delete", "release"} /\ InHand(d).form = "usable"
                                => HadItsTurn(Head(batch[d]))'
    <3> SUFFICES ASSUME NEW d \in Consumers, pc[d] \in {"delete", "release"},
                        InHand(d).form = "usable"
                 PROVE  HadItsTurn(Head(batch[d]))'
      OBVIOUS
    <3>1. PICK h \in Ids : h = Head(batch[d]) /\ h = Head(batch'[d])
      BY <1>2, <2>1
    <3>2. HadItsTurn(h)'
      BY <1>1, <3>1 DEF TurnInv
    <3> QED BY <3>1, <3>2 DEF HadItsTurn
  <2> QED BY <1>1, <2>1, <2>2 DEF TurnInv, InHand
<1>4. ASSUME NEW c \in Consumers, NEW pick \in Seq(Ids), NEW label \in {"idle", "decode"},
             pc' = [pc EXCEPT ![c] = label], batch' = [batch EXCEPT ![c] = pick],
             \A m \in Ids : Messages[m].form = "usable" /\ received'[m] > 0 /\ holder'[m] = Nobody
                               => HadItsTurn(m)
      PROVE  TurnInv'
  <2>1. ASSUME NEW d \in Consumers, pc'[d] \in {"delete", "release"}, InHand(d)'.form = "usable"
        PROVE  HadItsTurn(Head(batch[d]))'
    <3>1. d # c /\ pc[d] = pc'[d] /\ batch'[d] = batch[d]
      BY <1>0, <1>4, <2>1
    <3>2. PICK h \in Ids : h = Head(batch[d]) /\ h = Head(batch'[d])
      BY <1>2, <2>1, <3>1
    <3>3. HadItsTurn(h)
      BY <2>1, <3>1, <3>2 DEF TurnInv, InHand
    <3>4. HadItsTurn(h)'
      BY <1>1, <3>3
    <3> QED BY <3>2, <3>4 DEF HadItsTurn
  <2> QED BY <1>1, <1>4, <2>1 DEF TurnInv
<1>5. ASSUME NEW c \in Consumers, NEW ms \in SUBSET Ids, Takes(c, ms) PROVE TurnInv'
  <2>1. \A m \in Ids : holder'[m] = Nobody => holder[m] = Nobody /\ received'[m] = received[m]
    BY <1>5, NobodyAssumption DEF Takes
  <2>2. \A m \in Ids : Messages[m].form = "usable" /\ received'[m] > 0 /\ holder'[m] = Nobody
                          => HadItsTurn(m)
    BY <2>1 DEF TurnInv
  <2>3. ms # {}
    BY <1>5 DEF Takes, Receivable
  <2>4. PICK pick \in Seq(Ids) : pick = InOrder(ms)
    BY <2>3, InOrderType
  <2> QED BY <1>4, <1>5, <2>2, <2>4 DEF Takes
<1>6. ASSUME NEW c \in Consumers, NEW h \in Ids, NEW label, Finishes(c, h, label) PROVE TurnInv'
  <2>1. pc[c] \in {"delete", "release"} /\ h = Head(batch[c]) /\ received' = received
        /\ holder' = [holder EXCEPT ![h] = Nobody] /\ pc[c] # "idle"
    BY <1>6 DEF Finishes
  <2>2. Messages[h].form = "usable" => HadItsTurn(h)
    BY <2>1 DEF TurnInv, InHand
  <2>3. \A m \in Ids : Messages[m].form = "usable" /\ received'[m] > 0 /\ holder'[m] = Nobody
                          => HadItsTurn(m)
    BY <1>0, <2>1, <2>2 DEF TurnInv
  <2>4. PICK pick \in Seq(Ids) : pick = Tail(batch[c])
    BY <1>0, <2>1, MessageInHand, HeadTailProperties
  <2> QED BY <1>4, <1>6, <2>3, <2>4 DEF Finishes
<1> QED BY <1>3, <1>5, <1>6

\* Nobody goes ahead: when the operation of h is committed, every usable message of its
\* wallet that was sent before it has had its turn.
LEMMA NobodyGoesAhead ==
    ASSUME QueueInv, BrokerInv, TurnInv, NEW c \in Consumers, pc[c] = "commit",
           NEW m \in Ids, m < Head(batch[c]), Messages[m].form = "usable",
           Messages[m].op.wallet = InHand(c).op.wallet
    PROVE  HadItsTurn(m)
<1>0. QueueTypes /\ HeldInv /\ SentInv /\ GroupInv /\ pc[c] # "idle" /\ received[m] \in Nat
  BY QueueAssumption DEF QueueInv, QueueTypes, TypeOK, BrokerInv
<1>1. PICK h \in Ids : h = Head(batch[c]) /\ holder[h] = c /\ c # Nobody
  BY <1>0, HeadComesFirst
<1>2. InHand(c) = Messages[h] /\ m < h
  BY <1>1 DEF InHand
<1>3. received[h] > 0
  BY <1>0, <1>1 DEF SentInv
<1>4. received[m] > 0
  BY <1>0, <1>2, <1>3 DEF GroupInv
<1>5. holder[m] = Nobody
  <2>1. SUFFICES ASSUME holder[m] # Nobody PROVE FALSE
    OBVIOUS
  <2>2. holder[m] = c
    BY <1>0, <1>1, <1>2, <2>1 DEF GroupInv
  <2>3. Holds(c, m)
    BY <1>0, <2>1, <2>2 DEF HeldInv
  <2>4. m = h \/ h < m
    BY <1>0, <1>1, <2>3, HeadComesFirst
  <2>5. m \in Nat /\ h \in Nat
    BY MessagesAssumption
  <2> QED BY <1>2, <2>4, <2>5
<1> QED BY <1>4, <1>5 DEF TurnInv

\* A message with these went past another.
Passes(m, n) ==
    /\ m < n /\ Messages[m].op.wallet = Messages[n].op.wallet
    /\ Messages[m].form = "usable" /\ Messages[n].op \notin HttpOps
    /\ \A k \in Ids : k < m => Messages[k].op # Messages[n].op

\* The commit of an operation keeps AheadInv.
LEMMA CommitKeepsAhead ==
    ASSUME QueueInv, OrderInv, NEW c \in Consumers, Commit(c),
           Recorded \subseteq Recorded', inbox \subseteq inbox'
    PROVE  AheadInv'
<1>0. QueueTypes /\ BrokerInv /\ TurnInv /\ AheadInv /\ pc[c] = "commit"
  BY DEF QueueInv, OrderInv, BrokerInv, Commit
<1>1. Recorded' \subseteq Recorded \cup {InHand(c).op}
  BY <1>0, PersistAdds DEF Commit
<1>2. PICK h \in Ids : h = Head(batch[c]) /\ InHand(c) = Messages[h]
  BY <1>0, MessageInHand DEF InHand
<1>3. ASSUME NEW m \in Ids, NEW n \in Ids, Passes(m, n), Messages[n].op \in Recorded'
      PROVE  HadItsTurn(m)'
  <2>1. CASE Messages[n].op \in Recorded
    BY <1>0, <1>3, <2>1, TurnStays DEF AheadInv, Passes
  <2>2. CASE Messages[n].op \notin Recorded
    <3>1. Messages[n].op = Messages[h].op
      BY <1>1, <1>2, <1>3, <2>2
    <3>2. ~(h < m) /\ h \in Nat /\ m \in Nat
      BY <1>3, <3>1, MessagesAssumption DEF Passes
    <3>3. CASE h = m
      BY <1>3, <3>1, <3>3 DEF HadItsTurn
    <3>4. CASE m < h
      <4>1. HadItsTurn(m)
        BY <1>0, <1>2, <1>3, <3>1, <3>4, NobodyGoesAhead DEF Passes
      <4> QED BY <4>1, TurnStays
    <3> QED BY <3>2, <3>3, <3>4
  <2> QED BY <2>1, <2>2
<1> QED BY <1>3 DEF AheadInv, Passes

\* A step that records nothing keeps it too, and so does an operation over HTTP.
LEMMA AheadKept ==
    ASSUME AheadInv, Recorded \subseteq Recorded', inbox \subseteq inbox',
           Recorded' \subseteq Recorded \cup HttpOps
    PROVE  AheadInv'
<1>1. ASSUME NEW m \in Ids, NEW n \in Ids, Passes(m, n), Messages[n].op \in Recorded'
      PROVE  HadItsTurn(m)'
  <2>1. Messages[n].op \in Recorded
    BY <1>1 DEF Passes
  <2>2. HadItsTurn(m)
    BY <1>1, <2>1 DEF AheadInv, Passes
  <2> QED BY <2>2, TurnStays
<1> QED BY <1>1 DEF AheadInv, Passes

\* While nothing fails, every step keeps the order.
LEMMA OrderStep ==
    ASSUME QueueInv, OrderInv, Next, failures = 0, failures' = 0
    PROVE  OrderInv'
<1>0. /\ QueueTypes /\ HeldInv /\ BrokerInv /\ TurnInv /\ AheadInv
      /\ recorded \in Seq(Known)
  BY DEF QueueInv, OrderInv, BrokerInv, QueueTypes
<1>1. UNCHANGED db => Recorded' = Recorded /\ inbox' = inbox
  BY DEF db, Recorded
<1>2. ASSUME BrokerInv', TurnInv', UNCHANGED db PROVE OrderInv'
  BY <1>0, <1>1, <1>2, AheadKept DEF OrderInv, BrokerInv
<1>3. ASSUME NEW m \in Ids, Send(m) \/ Redrive(m) PROVE OrderInv'
  <2>1. UNCHANGED db
    BY <1>3 DEF Send, Redrive
  <2> QED BY <1>0, <1>2, <1>3, <2>1, PlacesKeepOrder, TurnsKept
<1>4. ASSUME NEW m \in Ids, Lapse(m) PROVE FALSE
  <2>1. holder[m] # Nobody /\ (~Holds(holder[m], m) \/ failures' = failures + 1)
    BY <1>4 DEF Lapse
  <2> QED BY <1>0, <2>1 DEF HeldInv
<1>5. ASSUME NEW c \in Consumers, Receive(c) PROVE OrderInv'
  <2>1. PICK ms \in SUBSET Ids : Takes(c, ms)
    BY <1>5 DEF Receive, Takes
  <2>2. UNCHANGED db
    BY <2>1 DEF Takes
  <2> QED BY <1>0, <1>2, <2>1, <2>2, ReceiveKeepsOrder, TurnsKept
<1>6. ASSUME NEW c \in Consumers, Finish(c) PROVE OrderInv'
  <2>1. PICK h \in Ids : \E label : Finishes(c, h, label)
    BY <1>0, <1>6, FinishWhileHeld
  <2>2. PICK label : Finishes(c, h, label)
    BY <2>1
  <2>3. UNCHANGED db
    BY <2>2 DEF Finishes
  <2> QED BY <1>0, <1>2, <2>2, <2>3, FinishKeepsOrder, TurnsKept
<1>7. ASSUME NEW c \in Consumers, Decode(c) \/ Claim(c) \/ Lookup(c) \/ Write(c) PROVE OrderInv'
  <2>1. UNCHANGED db
    BY <1>7 DEF Decode, Claim, Lookup, Write
  <2>2. TurnInv' /\ UNCHANGED <<place, holder, received, batch>>
    BY <1>1, <1>7, <2>1, <1>0, StatementsKeepTurns DEF Statement
  <2> QED BY <1>0, <1>2, <2>1, <2>2, BrokerSame
<1>8. ASSUME NEW c \in Consumers, Commit(c) PROVE OrderInv'
  <2>1. Recorded \subseteq Recorded' /\ inbox \subseteq inbox'
    BY <1>0, <1>8, PersistAdds DEF Commit
  <2>2. TurnInv' /\ UNCHANGED <<place, holder, received, batch>>
    BY <1>0, <1>8, <2>1, StatementsKeepTurns DEF Statement
  <2>3. BrokerInv' /\ AheadInv'
    BY <1>0, <1>8, <2>1, <2>2, BrokerSame, CommitKeepsAhead
  <2> QED BY <2>2, <2>3 DEF OrderInv, BrokerInv
<1>9. ASSUME NEW op \in HttpOps, Http(op) PROVE OrderInv'
  <2>1. recorded' = Append(recorded, op) /\ op \in Known
        /\ UNCHANGED <<place, holder, received, inbox, pc, batch>>
    BY <1>9 DEF Http, Known, queue
  <2>2. Recorded' = Recorded \cup {op}
    BY <1>0, <2>1, RecordedGrows
  <2>3. BrokerInv' /\ AheadInv'
    BY <1>0, <2>1, <2>2, BrokerSame, AheadKept
  <2>4. \A m : HadItsTurn(m) => HadItsTurn(m)'
    BY <2>1, <2>2, TurnStays
  <2>5. \A d \in Consumers : HadItsTurn(Head(batch[d])) => HadItsTurn(Head(batch[d]))'
    BY <2>1, <2>2 DEF HadItsTurn, Conflicting
  <2>6. TurnInv'
    BY <1>0, <2>1, <2>4, <2>5 DEF TurnInv, InHand
  <2> QED BY <2>3, <2>6 DEF OrderInv, BrokerInv
<1>10. ASSUME NEW c \in Consumers, \/ StatementFails(c) \/ CommitUnacknowledged(c)
                                   \/ FinishFails(c) \/ Crash(c)
       PROVE  FALSE
  BY <1>10 DEF StatementFails, CommitUnacknowledged, FinishFails, Crash, Fail
<1>11. ASSUME UNCHANGED vars PROVE OrderInv'
  <2>1. UNCHANGED <<place, holder, received, batch, pc>> /\ UNCHANGED db
    BY <1>11 DEF vars, queue
  <2>2. Recorded' = Recorded /\ inbox' = inbox
    BY <1>1, <2>1
  <2>3. TurnInv'
    BY <1>0, <2>1, <2>2 DEF TurnInv, InHand, HadItsTurn, Conflicting
  <2> QED BY <1>0, <1>2, <2>1, <2>3, BrokerSame
<1> QED
  BY <1>3, <1>4, <1>5, <1>6, <1>7, <1>8, <1>9, <1>10, <1>11 DEF Next, Handle

InOrderInv == failures = 0 => OrderInv

\* A stuttering step changes no order.
LEMMA OrderStutter == ASSUME OrderInv, UNCHANGED vars PROVE OrderInv'
<1>1. UNCHANGED <<place, holder, received, batch, pc, inbox, recorded>>
  BY DEF vars, queue, db
<1>2. Recorded' = Recorded
  BY <1>1 DEF Recorded
<1>3. BrokerInv'
  BY <1>1, BrokerSame DEF OrderInv, BrokerInv
<1>4. TurnInv'
  BY <1>1, <1>2 DEF OrderInv, TurnInv, InHand, HadItsTurn, Conflicting
<1>5. AheadInv'
  BY <1>1, <1>2, AheadKept DEF OrderInv
<1> QED BY <1>3, <1>4, <1>5 DEF OrderInv, BrokerInv

\* Nothing is sent or in hand at first.
LEMMA OrderInit == Init => OrderInv
<1> SUFFICES ASSUME Init PROVE OrderInv
  OBVIOUS
<1>1. Recorded = {}
  BY DEF Init, Recorded
<1>2. \A c \in Consumers : pc[c] = "idle" /\ DOMAIN batch[c] = {}
  BY DEF Init
<1>3. \A m \in Ids : place[m] = "unsent" /\ holder[m] = Nobody /\ received[m] = 0
  BY DEF Init
<1>4. HeldInv
  BY <1>2, <1>3 DEF HeldInv
<1>5. SentInv /\ GroupInv
  BY <1>3 DEF SentInv, GroupInv
<1>6. TurnInv
  BY <1>2, <1>3 DEF TurnInv
<1>7. AheadInv
  BY <1>1 DEF AheadInv
<1> QED BY <1>4, <1>5, <1>6, <1>7 DEF OrderInv

\* OvertakenOnlyAfterFailure, for any messages, consumers and batch size: the FIFO group,
\* the order RunOnce handles a batch in, and finish, which gives a message back only after
\* a conflict or a failure, keep the operations of a wallet in the order of sending.
THEOREM NeverOvertakenWithoutFailure == Spec => []OvertakenOnlyAfterFailure
<1>1. QueueInv /\ InOrderInv /\ [Next]_vars => InOrderInv'
  <2> SUFFICES ASSUME QueueInv, InOrderInv, [Next]_vars, failures' = 0 PROVE OrderInv'
    BY DEF InOrderInv
  <2>1. CASE Next
    <3>1. failures \in Nat /\ failures <= failures'
      BY <2>1, RowsAndFailuresGrow, QueueAssumption DEF QueueInv, QueueTypes, TypeOK
    <3>2. failures = 0
      BY <3>1
    <3> QED BY <2>1, <3>2, OrderStep DEF InOrderInv
  <2>2. CASE UNCHANGED vars
    <3>1. failures' = failures
      BY <2>2 DEF vars
    <3> QED BY <2>2, <3>1, OrderStutter DEF InOrderInv
  <2> QED BY <2>1, <2>2
<1>2. QueueInv /\ InOrderInv => OvertakenOnlyAfterFailure
  <2> SUFFICES ASSUME QueueInv, InOrderInv PROVE OvertakenOnlyAfterFailure
    OBVIOUS
  <2>1. failures \in Nat
    BY QueueAssumption DEF QueueInv, QueueTypes, TypeOK
  <2>2. failures > 0 \/ AheadInv
    BY <2>1 DEF InOrderInv, OrderInv
  <2> QED BY <2>2 DEF AheadInv, HadItsTurn, OvertakenOnlyAfterFailure
<1>3. Init => InOrderInv
  BY OrderInit DEF InOrderInv
<1> QED BY <1>1, <1>2, <1>3, QueueInvariant, PTL DEF Spec

-----------------------------------------------------------------------------
(* What a consumer reports.                                                 *)

\* The operation in hand is one a transaction can get to its commit with.
Committable(c) == InHand(c).form \in {"usable", "unusable"} \/ InHand(c).op \in Recorded

\* The message in hand is handled, or its id was used for another operation.
IsHandled(c) ==
    \/ InHand(c).op \in Recorded
    \/ InHand(c).form = "unusable"
    \/ \E s \in inbox : s.id = InHand(c).id /\ s.op # InHand(c).op

\* What a rolled-back attempt leaves in worked says that the message got that far once.
ReportInv(c) ==
    /\ pc[c] \in {"write", "commit"} => Committable(c)
    /\ worked[c] => Committable(c) /\ pc[c] \notin {"idle", "decode", "release"}
    /\ Reports(c) => IsHandled(c)

AllReports == \A c \in Consumers : ReportInv(c)

\* A message whose id is in the inbox and that got to a commit once is handled: a usable
\* operation and one the domain refuses differ.
LEMMA SeenIsHandled ==
    ASSUME QueueInv, NEW c \in Consumers, pc[c] # "idle", Committable(c),
           NEW s \in inbox, s.id = InHand(c).id
    PROVE  IsHandled(c)
<1>1. PICK m \in Ids : InHand(c) = Messages[m]
  BY MessageInHand DEF QueueInv, InHand
<1>2. s.op \in Recorded \/ Unusable(s.op)
  BY DEF QueueInv, InboxInv
<1>3. CASE s.op # InHand(c).op
  BY <1>3 DEF IsHandled
<1>4. CASE s.op = InHand(c).op
  BY <1>1, <1>2, <1>4, MessagesAssumption DEF IsHandled, Committable, Unusable
<1> QED BY <1>3, <1>4

\* Rows are only added, so what is reported stays true for a consumer that does nothing.
LEMMA ReportsStay ==
    ASSUME NEW d \in Consumers, ReportInv(d), pc'[d] = pc[d], batch'[d] = batch[d],
           worked'[d] = worked[d], inbox \subseteq inbox', Recorded \subseteq Recorded'
    PROVE  ReportInv(d)'
<1>1. PICK h : h = InHand(d) /\ h = InHand(d)'
  BY DEF InHand
<1>2. Committable(d) => Committable(d)'
  BY <1>1 DEF Committable
<1>3. IsHandled(d) => IsHandled(d)'
  BY <1>1 DEF IsHandled
<1>4. Reports(d)' => Reports(d)
  BY DEF Reports
<1> QED BY <1>2, <1>3, <1>4 DEF ReportInv

\* Inbox rows are only added.
LEMMA InboxGrows == Next => inbox \subseteq inbox'
<1> SUFFICES ASSUME Next PROVE inbox \subseteq inbox'
  OBVIOUS
<1>1. ASSUME NEW c \in Consumers, Commit(c) \/ CommitUnacknowledged(c) PROVE inbox \subseteq inbox'
  BY <1>1 DEF Commit, CommitUnacknowledged, Persist
<1>2. ASSUME NEW c \in Consumers, \/ Receive(c) \/ Decode(c) \/ Claim(c) \/ Lookup(c) \/ Write(c)
                                  \/ Finish(c) \/ StatementFails(c) \/ FinishFails(c) \/ Crash(c)
      PROVE  inbox \subseteq inbox'
  BY <1>2 DEF Receive, Decode, Claim, Lookup, Write, Finish, StatementFails, FinishFails, Crash, db
<1>3. ASSUME NEW m \in Ids, Send(m) \/ Redrive(m) \/ Lapse(m) PROVE inbox \subseteq inbox'
  BY <1>3 DEF Send, Redrive, Lapse, db
<1>4. ASSUME NEW op \in HttpOps, Http(op) PROVE inbox \subseteq inbox'
  BY <1>4 DEF Http
<1>5. CASE UNCHANGED vars
  BY <1>5 DEF vars, db
<1> QED BY <1>1, <1>2, <1>3, <1>4, <1>5 DEF Next, Handle

\* A consumer keeps worked and result to itself.
LEMMA OthersReports ==
    ASSUME QueueTypes, NEW c \in Consumers, NEW d \in Consumers, d # c, Work(c)
    PROVE  worked'[d] = worked[d]
<1>0. worked \in [Consumers -> BOOLEAN]
  BY DEF QueueTypes, TypeOK
<1>1. CASE Receive(c) \/ Decode(c) \/ Claim(c)
  BY <1>1 DEF Receive, Decode, Claim
<1>2. CASE \/ Lookup(c) \/ Write(c) \/ Commit(c) \/ Finish(c) \/ StatementFails(c)
           \/ CommitUnacknowledged(c) \/ FinishFails(c) \/ Crash(c)
  <2>1. \/ UNCHANGED worked
        \/ worked' = [worked EXCEPT ![c] = TRUE]
        \/ worked' = [worked EXCEPT ![c] = FALSE]
    BY <1>2, Zenon DEF Lookup, Write, Commit, Finish, StatementFails, CommitUnacknowledged,
       FinishFails, Crash, GiveBack, NextInBatch
  <2> QED BY <1>0, <2>1
<1> QED BY <1>1, <1>2 DEF Work, Handle

\* A consumer that hands a message back, or goes on to another, has nothing to report.
LEMMA NothingToReport ==
    ASSUME NEW c \in Consumers, pc'[c] \in {"idle", "decode", "release"}, ~worked'[c]
    PROVE  ReportInv(c)'
BY DEF ReportInv, Reports

\* The steps of handle keep what their own consumer reports.
LEMMA OwnReports ==
    ASSUME QueueInv, Next, NEW c \in Consumers, ReportInv(c), Work(c)
    PROVE  ReportInv(c)'
<1>0. /\ QueueTypes /\ TransactionInv(c) /\ Recorded \subseteq Recorded' /\ inbox \subseteq inbox'
      /\ pc \in [Consumers -> {"idle", "decode", "claim", "lookup", "write", "commit",
                                "delete", "release"}]
  BY RowsAndFailuresGrow, InboxGrows DEF QueueInv, QueueTypes, TypeOK
<1>1. worked \in [Consumers -> BOOLEAN]
  BY <1>0 DEF QueueTypes, TypeOK
<1>2. CASE GiveBack(c)
  <2>1. pc'[c] = "release" /\ ~worked'[c]
    BY <1>0, <1>1, <1>2 DEF GiveBack, Goto
  <2> QED BY <2>1, NothingToReport
<1>3. CASE Receive(c) \/ Finish(c) \/ FinishFails(c) \/ Crash(c)
  <2>1. pc'[c] \in {"idle", "decode"}
    BY <1>0, <1>3 DEF Receive, Finish, FinishFails, Crash, NextInBatch, Goto
  <2>2. ~worked'[c]
    <3>1. CASE Receive(c)
      BY <3>1 DEF Receive, ReportInv
    <3>2. CASE Finish(c) \/ FinishFails(c) \/ Crash(c)
      <4>1. worked' = [worked EXCEPT ![c] = FALSE]
        BY <3>2, Zenon DEF Finish, FinishFails, Crash, NextInBatch
      <4> QED BY <1>1, <4>1
    <3> QED BY <1>3, <3>1, <3>2
  <2> QED BY <2>1, <2>2, NothingToReport
<1>4. CASE UNCHANGED batch /\ ~GiveBack(c)
  <2>1. PICK h : h = InHand(c) /\ h = InHand(c)'
    BY <1>4 DEF InHand
  <2>2. Committable(c) => Committable(c)'
    BY <1>0, <2>1 DEF Committable
  <2>3. IsHandled(c) => IsHandled(c)'
    BY <1>0, <2>1 DEF IsHandled
  <2>4. CASE Decode(c)
    <3>1. ~worked'[c] /\ pc'[c] \notin {"write", "commit"}
      BY <1>0, <2>4 DEF Decode, Goto, ReportInv
    <3> QED BY <3>1 DEF ReportInv, Reports
  <2>5. CASE Claim(c)
    <3>1. /\ pc[c] = "claim" /\ worked'[c] = worked[c] /\ pc'[c] \in {"delete", "lookup"}
          /\ pc'[c] = "delete" => \E s \in inbox : s.id = InHand(c).id
      BY <1>0, <2>5 DEF Claim, Goto
    <3>2. pc'[c] = "delete" /\ worked[c] => IsHandled(c)
      BY <3>1, SeenIsHandled DEF ReportInv
    <3> QED BY <2>2, <2>3, <3>1, <3>2 DEF ReportInv, Reports
  <2>6. CASE Lookup(c) \/ Write(c)
    <3>1. pc[c] \in {"lookup", "write"} /\ worked'[c] = worked[c] /\ pc'[c] \in {"write", "commit"}
      BY <1>0, <1>4, <2>6 DEF Lookup, Write, Goto
    <3>2. Committable(c)
      BY <1>4, <2>6 DEF Lookup, Write, ReportInv, Committable
    <3> QED BY <2>2, <3>1, <3>2 DEF ReportInv, Reports
  <2>7. CASE Commit(c)
    <3>1. pc[c] = "commit" /\ Persist(c) /\ pc'[c] = "delete"
      BY <1>0, <2>7 DEF Commit, Goto
    <3>2. Recorded' = IF doing[c] = "apply" THEN Recorded \cup {h.op} ELSE Recorded
      BY <1>0, <2>1, <3>1, PersistAdds
    <3>3. h.op \in Recorded' \/ h.form = "unusable"
      BY <1>0, <2>1, <3>1, <3>2 DEF TransactionInv
    <3>4. IsHandled(c)' /\ Committable(c)'
      BY <2>1, <3>3 DEF IsHandled, Committable
    <3> QED BY <3>1, <3>4 DEF ReportInv
  <2>8. CASE StatementFails(c)
    <3>1. pc'[c] = "claim"
      BY <1>0, <1>4, <2>8 DEF StatementFails, Goto
    <3>2. worked'[c] => worked[c] \/ pc[c] = "commit"
      BY <1>4, <2>8, Zenon DEF StatementFails
    <3> QED BY <2>2, <3>1, <3>2 DEF ReportInv, Reports
  <2> QED BY <1>3, <1>4, <2>4, <2>5, <2>6, <2>7, <2>8 DEF Work, Handle, CommitUnacknowledged
<1>5. UNCHANGED batch \/ Receive(c) \/ Finish(c) \/ FinishFails(c) \/ Crash(c)
  BY DEF Work, Handle, Decode, Claim, Lookup, Write, Commit, StatementFails, CommitUnacknowledged
<1> QED BY <1>2, <1>3, <1>4, <1>5

\* Every step keeps them.
LEMMA ReportStep == QueueInv /\ AllReports /\ [Next]_vars => AllReports'
<1> SUFFICES ASSUME QueueInv, AllReports, [Next]_vars, NEW d \in Consumers PROVE ReportInv(d)'
  BY DEF AllReports
<1>0. ReportInv(d) /\ QueueTypes
  BY DEF AllReports, QueueInv
<1>1. CASE UNCHANGED vars
  BY <1>0, <1>1, ReportsStay DEF vars, db, Recorded
<1>2. CASE Next
  <2>0. inbox \subseteq inbox' /\ Recorded \subseteq Recorded'
    BY <1>2, InboxGrows, RowsAndFailuresGrow
  <2>1. ASSUME NEW c \in Consumers, Work(c) PROVE ReportInv(d)'
    <3>1. CASE c = d
      BY <1>0, <1>2, <2>1, <3>1, OwnReports
    <3>2. CASE c # d
      <4>1. pc'[d] = pc[d] /\ batch'[d] = batch[d] /\ worked'[d] = worked[d]
        BY <1>0, <2>1, <3>2, OthersUntouched, OthersReports
      <4> QED BY <1>0, <2>0, <4>1, ReportsStay
    <3> QED BY <3>1, <3>2
  <2>2. CASE UNCHANGED <<pc, batch, worked>>
    BY <1>0, <2>0, <2>2, ReportsStay
  <2>3. \/ \E c \in Consumers : Work(c)
        \/ UNCHANGED <<pc, batch, worked>>
    BY <1>2 DEF Next, Work, Send, Redrive, Lapse, Http, vars
  <2> QED BY <2>1, <2>2, <2>3
<1> QED BY <1>1, <1>2

\* Who reports has done the work, unless something failed.
OwnWork(c) == worked[c] => doing[c] # "nothing" \/ failures > 0

AllOwnWork == \A c \in Consumers : OwnWork(c)

\* A failure is counted where worked outlives the transaction that set it.
LEMMA OwnWorkStep == QueueInv /\ AllReports /\ AllOwnWork /\ [Next]_vars => AllOwnWork'
<1> SUFFICES ASSUME QueueInv, AllReports, AllOwnWork, [Next]_vars, NEW d \in Consumers
             PROVE  OwnWork(d)'
  BY DEF AllOwnWork
<1>0. /\ OwnWork(d) /\ ReportInv(d) /\ TransactionInv(d) /\ QueueTypes /\ failures \in Nat
      /\ pc \in [Consumers -> {"idle", "decode", "claim", "lookup", "write", "commit",
                                "delete", "release"}]
      /\ doing \in [Consumers -> {"nothing", "apply", "replay", "discard"}]
      /\ worked \in [Consumers -> BOOLEAN]
  BY QueueAssumption DEF AllOwnWork, AllReports, QueueInv, QueueTypes, TypeOK
<1>1. CASE UNCHANGED vars
  BY <1>0, <1>1 DEF vars, OwnWork
<1>2. CASE Next
  <2>0. failures <= failures' /\ failures' \in Nat
    BY <1>0, <1>2, RowsAndFailuresGrow, QueueTypesStep, QueueAssumption DEF QueueTypes, TypeOK
  <2>1. CASE worked'[d] = worked[d] /\ doing'[d] = doing[d]
    BY <1>0, <2>0, <2>1 DEF OwnWork
  <2>2. CASE \/ Receive(d) \/ Decode(d) \/ Claim(d)
    BY <1>0, <2>1, <2>2 DEF Receive, Decode, Claim
  <2>3. CASE \/ GiveBack(d) \/ Finish(d) \/ FinishFails(d) \/ Crash(d)
    <3>1. worked' = [worked EXCEPT ![d] = FALSE]
      BY <2>3, Zenon DEF GiveBack, Finish, FinishFails, Crash, NextInBatch
    <3>2. ~worked'[d]
      BY <1>0, <3>1
    <3> QED BY <3>2 DEF OwnWork
  <2>4. CASE (Lookup(d) \/ Write(d) \/ Commit(d)) /\ ~GiveBack(d)
    <3>1. doing'[d] # "nothing"
      BY <1>0, <2>4 DEF Lookup, Write, Commit, TransactionInv
    <3> QED BY <3>1 DEF OwnWork
  <2>5. CASE StatementFails(d)
    <3>1. failures' > 0
      BY <1>0, <2>5 DEF StatementFails, Fail
    <3> QED BY <3>1 DEF OwnWork
  <2>6. ASSUME NEW c \in Consumers, c # d, Work(c) PROVE OwnWork(d)'
    BY <1>0, <2>1, <2>6, OthersUntouched, OthersReports
  <2>7. CASE UNCHANGED <<doing, worked>>
    BY <2>1, <2>7
  <2>8. \/ \E c \in Consumers : Work(c)
        \/ UNCHANGED <<doing, worked>>
    BY <1>2 DEF Next, Work, Send, Redrive, Lapse, Http, vars
  <2>9. CASE Work(d)
    BY <2>2, <2>3, <2>4, <2>5, <2>9 DEF Work, Handle, CommitUnacknowledged
  <2> QED BY <2>6, <2>7, <2>8, <2>9
<1> QED BY <1>1, <1>2

\* What handle reports to Settled and counts as done is done, for any number of consumers,
\* although apply's worked and result survive a rolled-back attempt (consumer.go, uow.Do),
\* and done by whoever reports it unless something failed.
THEOREM ReportedIsAlwaysHandled == Spec => []ReportedIsHandled
<1>1. Init => AllReports /\ AllOwnWork
  BY DEF Init, AllReports, ReportInv, Reports, AllOwnWork, OwnWork
<1>2. AllReports /\ AllOwnWork => ReportedIsHandled
  BY DEF AllReports, ReportInv, IsHandled, AllOwnWork, OwnWork, Reports, ReportedIsHandled
<1> QED BY <1>1, <1>2, ReportStep, OwnWorkStep, QueueInvariant, PTL DEF Spec
=============================================================================
