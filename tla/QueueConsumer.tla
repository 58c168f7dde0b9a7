--------------------------- MODULE QueueConsumer ---------------------------
(***************************************************************************)
(* Consumers of the operations queue (app/consumer.go) and their inbox.    *)
(* A delivery is handled in one transaction: the inbox row, the operation  *)
(* (SubmitTransaction.ExecuteIn) and the row's completion commit together, *)
(* and only then is the message deleted.  The queue is SQS FIFO with the   *)
(* wallet as its group and a redrive to a dead-letter queue; the same      *)
(* operations may arrive over HTTP.  ExecuteIn is reduced to what tells    *)
(* one delivery from another: who reads, waits, inserts and loses the race *)
(* for an operation's identity.                                            *)
(***************************************************************************)
EXTENDS Integers, Sequences, FiniteSets

CONSTANTS
    Consumers,      \* consumer loops, of all instances
    Messages,       \* the messages producers send, in the order they send them
    HttpOps,        \* operations that also arrive over HTTP
    BatchSize,      \* ConsumerConfig.BatchSize
    MaxReceive,     \* Config.MaxReceiveCount, the queue's redrive policy
    MaxFailures     \* bound: failed statements and calls, crashes, slow handlings

Ids == DOMAIN Messages      \* a message is its place in the order of sending

\* "unusable": ExecuteIn fails with a domain error; "refused": with any other that a
\* redelivery repeats (no such wallet, a wallet of another player).
Forms == {"usable", "unusable", "refused", "malformed"}

ASSUME QueueAssumption ==
    BatchSize \in Nat \ {0} /\ MaxReceive \in Nat \ {0} /\ MaxFailures \in Nat

\* Whether the domain accepts an operation depends on nothing but the operation.
ASSUME MessagesAssumption ==
    /\ Len(Messages) \in Nat /\ Ids = 1 .. Len(Messages)
    /\ \A m \in Ids : Messages[m].form \in Forms
    /\ \A m, n \in Ids : Messages[m].form = "usable" /\ Messages[n].form = "unusable"
                            => Messages[m].op # Messages[n].op

VARIABLES
    place,      \* per message: "unsent", "queued", "deleted", "dead"
    holder,     \* per message: the consumer whose receipt handle is current
    received,   \* per message: how often it was received
    inbox,      \* table inbox_messages: (message id, content), committed
    recorded,   \* operations the core has a row for, in commit order
    pc,         \* per consumer: the next statement or call
    batch,      \* per consumer: the messages in hand, the first being handled
    doing,      \* per consumer: what its transaction does, and did once it committed
    worked,     \* per consumer: apply's worked and result, which outlive an attempt
    failures    \* failures so far

queue == <<place, holder, received>>
db    == <<inbox, recorded>>
vars  == <<queue, db, pc, batch, doing, worked, failures>>

Nobody == "nobody"

ASSUME NobodyAssumption == Nobody \notin Consumers

-----------------------------------------------------------------------------
(* The core, as the consumer sees it.                                       *)

Recorded == {recorded[i] : i \in DOMAIN recorded}

\* The same operation to the payload hash, which leaves out the key.
SameContent(a, b) == a.ext = b.ext /\ a.wallet = b.wallet /\ a.content = b.content

InHand(c) == Messages[Head(batch[c])]

\* The operations transactions have inserted and not committed.
InFlight(c) == {InHand(d).op : d \in {d \in Consumers \ {c} : pc[d] = "commit" /\ doing[d] = "apply"}}

\* The wallet is locked, or an index entry of the operation is held.
Blocked(op, others) ==
    \E o \in others : o.wallet = op.wallet \/ o.ext = op.ext \/ o.key = op.key

Unindexed(op) == FALSE      \* fault: no unique index on the operation's identity

\* The unique indexes refuse the insert.
Taken(op) == \E o \in Recorded : o.ext = op.ext \/ o.key = op.key

-----------------------------------------------------------------------------
(* The broker.                                                              *)

Queued(m) == place[m] = "queued"

\* What a FIFO queue holds back: a group with a message in flight, anything behind
\* a message that is not taken, a message received too often.
Receivable(ms) ==
    /\ ms # {} /\ Cardinality(ms) <= BatchSize
    /\ \A m \in ms :
          /\ Queued(m) /\ holder[m] = Nobody /\ received[m] < MaxReceive
          /\ \A n \in Ids :
                Queued(n) /\ Messages[n].op.wallet = Messages[m].op.wallet =>
                    /\ holder[n] = Nobody
                    /\ n < m => n \in ms

\* Fault: the last message of a batch first.
LastFirst(ms) ==
    CHOOSE s \in [1 .. Cardinality(ms) -> ms] :
        \A i, j \in DOMAIN s : i < j => s[i] > s[j]

\* The messages of a batch in the order RunOnce handles them: as they were sent.
InOrder(ms) ==
    CHOOSE s \in [1 .. Cardinality(ms) -> ms] :
        \A i, j \in DOMAIN s : i < j => s[i] < s[j]

Send(m) ==
    /\ place[m] = "unsent"
    /\ \A n \in Ids : n < m => place[n] # "unsent"
    /\ place' = [place EXCEPT ![m] = "queued"]
    /\ UNCHANGED <<holder, received, db, pc, batch, doing, worked, failures>>

\* RunOnce: Receive, and the batch is in hand.
Receive(c) ==
    \E ms \in SUBSET Ids :
        /\ pc[c] = "idle"
        /\ Receivable(ms)
        /\ holder' = [m \in Ids |-> IF m \in ms THEN c ELSE holder[m]]
        /\ received' = [m \in Ids |-> IF m \in ms THEN received[m] + 1 ELSE received[m]]
        /\ batch' = [batch EXCEPT ![c] = InOrder(ms)]
        /\ pc' = [pc EXCEPT ![c] = "decode"]
        /\ UNCHANGED <<place, db, doing, worked, failures>>

\* The redrive policy: received MaxReceive times and back again.
Redrive(m) ==
    /\ Queued(m) /\ holder[m] = Nobody /\ received[m] >= MaxReceive
    /\ place' = [place EXCEPT ![m] = "dead"]
    /\ UNCHANGED <<holder, received, db, pc, batch, doing, worked, failures>>

Holds(c, m) == \E i \in DOMAIN batch[c] : batch[c][i] = m

\* The visibility timeout: of a message nobody works on any more, or of one whose
\* consumer is too slow.
Lapse(m) ==
    /\ Queued(m) /\ holder[m] # Nobody
    /\ holder' = [holder EXCEPT ![m] = Nobody]
    /\ \/ ~Holds(holder[m], m) /\ UNCHANGED failures
       \/ /\ Holds(holder[m], m) /\ failures < MaxFailures
          /\ failures' = failures + 1
    /\ UNCHANGED <<place, received, db, pc, batch, doing, worked>>

-----------------------------------------------------------------------------
(* handle, statement by statement.                                          *)

Goto(c, label) == pc' = [pc EXCEPT ![c] = label]

\* decodeEnvelope and identity: what cannot be read is discarded.
Decode(c) ==
    /\ pc[c] = "decode"
    /\ Goto(c, IF InHand(c).form = "malformed" THEN "delete" ELSE "claim")
    /\ UNCHANGED <<queue, db, batch, doing, worked, failures>>

\* The inbox row is inserted in an open transaction.
ClaimedBy(d, id) == pc[d] \in {"lookup", "write", "commit"} /\ InHand(d).id = id

\* Fault: a claim that commits on its own, before the operation is applied.
ClaimCommits(c) ==
    /\ pc[c] = "claim"
    /\ IF \E s \in inbox : s.id = InHand(c).id
       THEN Goto(c, "delete") /\ UNCHANGED inbox
       ELSE /\ Goto(c, "lookup")
            /\ inbox' = inbox \cup {[id |-> InHand(c).id, op |-> InHand(c).op]}
    /\ UNCHANGED <<queue, recorded, batch, doing, worked, failures>>

\* Fault: a row that is there is taken for one that was never completed, and retried.
ClaimRetriesSeen(c) ==
    /\ pc[c] = "claim"
    /\ Goto(c, IF \E s \in inbox : s.id = InHand(c).id THEN "claim" ELSE "lookup")
    /\ UNCHANGED <<queue, db, batch, doing, worked, failures>>

\* Claim: the insert waits for a transaction that has inserted the same id.  A row
\* that is there was completed in the commit that inserted it: alreadySeen reports
\* nothing to do, whether the content is the same or the id was reused.
Claim(c) ==
    /\ pc[c] = "claim"
    /\ \A d \in Consumers \ {c} : ~ClaimedBy(d, InHand(c).id)
    /\ Goto(c, IF \E s \in inbox : s.id = InHand(c).id THEN "delete" ELSE "lookup")
    /\ UNCHANGED <<queue, db, batch, doing, worked, failures>>

Forget(c) == doing' = [doing EXCEPT ![c] = "nothing"]

\* Rolled back, and apply returns the error: the message is handed back.
GiveBack(c) ==
    /\ Goto(c, "release")
    /\ Forget(c) /\ worked' = [worked EXCEPT ![c] = FALSE]

\* Fault: a replay is reported as a conflict.
LookupRefusesReplay(c) ==
    /\ pc[c] = "lookup"
    /\ \/ \E o \in Recorded : o.ext = InHand(c).op.ext /\ GiveBack(c)
       \/ /\ \A o \in Recorded : o.ext # InHand(c).op.ext
          /\ Goto(c, "write")
          /\ doing' = [doing EXCEPT ![c] = "apply"] /\ UNCHANGED worked
    /\ UNCHANGED <<queue, db, batch, failures>>

\* ExecuteIn as far as FindByBusinessID: a replay has nothing to apply, other content
\* or another key is a conflict and no domain error; a domain error is recorded as
\* handled, unless the operation was found first.
Lookup(c) ==
    LET op   == InHand(c).op
        form == InHand(c).form
        hits == {o \in Recorded : o.ext = op.ext}
    IN  /\ pc[c] = "lookup"
        /\ \/ /\ form = "unusable"
              /\ Goto(c, "commit") /\ doing' = [doing EXCEPT ![c] = "discard"]
              /\ UNCHANGED worked
           \/ /\ op \in hits
              /\ Goto(c, "commit") /\ doing' = [doing EXCEPT ![c] = "replay"]
              /\ UNCHANGED worked
           \/ hits \ {op} # {} /\ GiveBack(c)
           \/ form = "refused" /\ hits = {} /\ GiveBack(c)
           \/ /\ form = "usable" /\ hits = {}
              /\ Goto(c, "write") /\ doing' = [doing EXCEPT ![c] = "apply"]
              /\ UNCHANGED worked
        /\ UNCHANGED <<queue, db, batch, failures>>

\* apply: the wallet's lock, then the insert, which the unique indexes may refuse.
Write(c) ==
    /\ pc[c] = "write"
    /\ ~Blocked(InHand(c).op, InFlight(c))
    /\ \/ Taken(InHand(c).op) /\ GiveBack(c)
       \/ ~Taken(InHand(c).op) /\ Goto(c, "commit") /\ UNCHANGED <<doing, worked>>
    /\ UNCHANGED <<queue, db, batch, failures>>

\* Complete, and the transaction commits: the inbox row and the operation at once.
Persist(c) ==
    /\ inbox' = inbox \cup {[id |-> InHand(c).id, op |-> InHand(c).op]}
    /\ recorded' = IF doing[c] = "apply" THEN Append(recorded, InHand(c).op) ELSE recorded

Commit(c) ==
    /\ pc[c] = "commit"
    /\ Persist(c)
    /\ worked' = [worked EXCEPT ![c] = TRUE]
    /\ Goto(c, "delete")
    /\ UNCHANGED <<queue, batch, doing, failures>>

\* Fault: one step past the end of the batch.
NextInBatchOvershoots(c) ==
    /\ Forget(c) /\ worked' = [worked EXCEPT ![c] = FALSE]
    /\ batch' = [batch EXCEPT ![c] = Tail(@)]
    /\ Goto(c, IF Len(batch[c]) = 0 THEN "idle" ELSE "decode")

\* The rest of the batch.
NextInBatch(c) ==
    /\ Forget(c) /\ worked' = [worked EXCEPT ![c] = FALSE]
    /\ batch' = [batch EXCEPT ![c] = Tail(@)]
    /\ Goto(c, IF Len(batch[c]) = 1 THEN "idle" ELSE "decode")

\* handle reports what apply returned, and finish: the receipt handle works while it is current.
Finish(c) ==
    LET m == Head(batch[c])
    IN  /\ pc[c] \in {"delete", "release"}
        /\ place' = IF pc[c] = "delete" /\ holder[m] = c
                    THEN [place EXCEPT ![m] = "deleted"] ELSE place
        /\ holder' = IF holder[m] = c THEN [holder EXCEPT ![m] = Nobody] ELSE holder
        /\ NextInBatch(c)
        /\ UNCHANGED <<received, db, failures>>

-----------------------------------------------------------------------------
(* What goes wrong.                                                         *)

Fail == failures < MaxFailures /\ failures' = failures + 1

Open(c) == pc[c] \in {"claim", "lookup", "write", "commit"}

\* Fault: a failed transaction is finished like a handled one.
StatementFailsDeleted(c) ==
    /\ Open(c) /\ Fail
    /\ Goto(c, "delete")
    /\ Forget(c) /\ worked' = [worked EXCEPT ![c] = pc[c] = "commit"]
    /\ UNCHANGED <<queue, db, batch>>

\* A statement fails and the transaction is rolled back.  When the failure is transient
\* and attempts are left, the closure runs again from the claim, and what it had already
\* assigned to worked and result stays: they are set between ExecuteIn and Complete.
\* Otherwise the message is handed back.
StatementFails(c) ==
    /\ Open(c) /\ Fail
    /\ \/ Goto(c, "claim") /\ Forget(c) /\ UNCHANGED worked
       \/ /\ pc[c] = "commit"
          /\ Goto(c, "claim") /\ Forget(c) /\ worked' = [worked EXCEPT ![c] = TRUE]
       \/ GiveBack(c)
    /\ UNCHANGED <<queue, db, batch>>

\* The commit happens and its acknowledgement does not arrive.
CommitUnacknowledged(c) ==
    /\ pc[c] = "commit" /\ Fail
    /\ Persist(c)
    /\ GiveBack(c)
    /\ UNCHANGED <<queue, batch>>

\* Delete or Release fails: logged, and the visibility timeout takes over.
FinishFails(c) ==
    /\ pc[c] \in {"delete", "release"} /\ Fail
    /\ NextInBatch(c)
    /\ UNCHANGED <<queue, db>>

\* The process dies with its batch; whatever it had open is rolled back.
Crash(c) ==
    /\ pc[c] # "idle" /\ Fail
    /\ Goto(c, "idle")
    /\ batch' = [batch EXCEPT ![c] = << >>]
    /\ Forget(c) /\ worked' = [worked EXCEPT ![c] = FALSE]
    /\ UNCHANGED <<queue, db>>

\* The operation arrives over HTTP and commits.
Http(op) ==
    /\ ~Taken(op)
    /\ ~Blocked(op, InFlight(Nobody))
    /\ recorded' = Append(recorded, op)
    /\ UNCHANGED <<queue, inbox, pc, batch, doing, worked, failures>>

-----------------------------------------------------------------------------
Init ==
    /\ place = [m \in Ids |-> "unsent"]
    /\ holder = [m \in Ids |-> Nobody]
    /\ received = [m \in Ids |-> 0]
    /\ inbox = {} /\ recorded = << >>
    /\ pc = [c \in Consumers |-> "idle"]
    /\ batch = [c \in Consumers |-> << >>]
    /\ doing = [c \in Consumers |-> "nothing"]
    /\ worked = [c \in Consumers |-> FALSE]
    /\ failures = 0

Handle(c) == Decode(c) \/ Claim(c) \/ Lookup(c) \/ Write(c) \/ Commit(c) \/ Finish(c)

Settled(m) == place[m] \in {"deleted", "dead"}

\* The queue is empty and nobody is at work.
Quiet ==
    /\ \A m \in Ids : Settled(m)
    /\ \A c \in Consumers : pc[c] = "idle"

Next ==
    \/ \E m \in Ids : Send(m) \/ Redrive(m) \/ Lapse(m)
    \/ \E c \in Consumers :
          \/ Receive(c) \/ Handle(c) \/ StatementFails(c) \/ CommitUnacknowledged(c)
          \/ FinishFails(c) \/ Crash(c)
    \/ \E op \in HttpOps : Http(op)
    \/ Quiet /\ UNCHANGED vars

Spec == Init /\ [][Next]_vars

\* Run keeps polling, a handling goes on, timeouts and the redrive happen.  Sending,
\* HTTP and failures are not fair.
FairSpec ==
    /\ Spec
    /\ \A c \in Consumers : WF_vars(Handle(c))
    /\ WF_vars(\E c \in Consumers : Receive(c))
    /\ \A m \in Ids : WF_vars(Redrive(m)) /\ WF_vars(Lapse(m))

-----------------------------------------------------------------------------
\* Every variable holds a value of its type and a consumer has a batch in hand
\* exactly while it handles one.
TypeOK ==
    /\ place \in [Ids -> {"unsent", "queued", "deleted", "dead"}]
    /\ holder \in [Ids -> Consumers \cup {Nobody}]
    /\ received \in [Ids -> 0 .. MaxReceive]
    /\ inbox \subseteq [id : {Messages[m].id : m \in Ids}, op : {Messages[m].op : m \in Ids}]
    /\ Recorded \subseteq {Messages[m].op : m \in Ids} \cup HttpOps
    /\ pc \in [Consumers -> {"idle", "decode", "claim", "lookup", "write", "commit",
                             "delete", "release"}]
    /\ \A c \in Consumers : {batch[c][i] : i \in DOMAIN batch[c]} \subseteq Ids /\ (batch[c] = << >> <=> pc[c] = "idle")
    /\ doing \in [Consumers -> {"nothing", "apply", "replay", "discard"}]
    /\ worked \in [Consumers -> BOOLEAN]
    /\ failures \in 0 .. MaxFailures

\* One operation, one row: whatever arrives through two messages, through a message
\* delivered twice and over HTTP is recorded once, and its key with it.
RecordedOnce ==
    \A i, j \in DOMAIN recorded :
        i # j => recorded[i].ext # recorded[j].ext /\ recorded[i].key # recorded[j].key

\* A completed handling and its record cannot disagree: an inbox row of a usable
\* message is there only together with its operation (the comment on inbox_messages).
InboxHasItsEffect ==
    \A s \in inbox :
        (\E m \in Ids : Messages[m].form = "usable" /\ Messages[m].op = s.op) => s.op \in Recorded

\* Nothing is lost: a usable message is gone from the queue only when its operation is
\* recorded, or its id had been used, for other content or with a key the domain refuses.
DeletedWasHandled ==
    \A m \in Ids :
        place[m] = "deleted" /\ Messages[m].form = "usable" =>
            \E s \in inbox :
                /\ s.id = Messages[m].id
                /\ SameContent(s.op, Messages[m].op) =>
                      \/ \E o \in Recorded : SameContent(o, Messages[m].op)
                      \/ \E n \in Ids : Messages[n].form = "unusable" /\ Messages[n].op = s.op

\* handle calls Settled and counts the delivery as one that did the work.
Reports(c) == pc[c] = "delete" /\ worked[c]

\* What a consumer reports as settled is settled, also when worked and result are left
\* over from an attempt that was rolled back and another consumer did the work since: the
\* operation is recorded, or the domain refused it, or its message id was used for
\* another one.  And it takes such a failure: otherwise the delivery that is reported did
\* the work, as opposed to finding it already done (the comment on apply).
ReportedIsHandled ==
    \A c \in Consumers :
        Reports(c) =>
            /\ \/ InHand(c).op \in Recorded
               \/ InHand(c).form = "unusable"
               \/ \E s \in inbox : s.id = InHand(c).id /\ s.op # InHand(c).op
            /\ doing[c] # "nothing" \/ failures > 0

\* A recorded operation has this one's identity or key and is another.
Conflicting(op) == \E o \in Recorded \ {op} : o.ext = op.ext \/ o.key = op.key

\* A message goes to the dead-letter queue because it conflicts, because it can never
\* be applied, or because handling it failed that often: a lost race costs at most one
\* delivery, a duplicate none.
DeadLettersHaveACause ==
    \A m \in Ids :
        place[m] = "dead" =>
            \/ Messages[m].form = "refused"
            \/ Conflicting(Messages[m].op)
            \/ failures + 1 >= MaxReceive

\* Unless something fails, operations of one wallet are recorded in the order they were
\* first sent, over all consumers: past a usable message go only operations that also
\* arrive over HTTP, and those behind one that conflicts or whose id was used for another.
OvertakenOnlyAfterFailure ==
    \A m, n \in Ids :
        /\ m < n /\ Messages[m].op.wallet = Messages[n].op.wallet
        /\ Messages[m].form = "usable" /\ Messages[m].op \notin Recorded
        /\ Messages[n].op \in Recorded \ HttpOps
        /\ \A k \in Ids : k < m => Messages[k].op # Messages[n].op
        => \/ failures > 0
           \/ Conflicting(Messages[m].op)
           \/ \E s \in inbox : s.id = Messages[m].id /\ s.op # Messages[m].op

\* Operations of one wallet are ordered among themselves (decision 5 of
\* docs/adr/0009-inbox-and-queue.md): none is recorded while an earlier one of its
\* wallet is still in the queue.
WalletOrder ==
    \A m, n \in Ids :
        /\ m < n /\ Messages[m].op.wallet = Messages[n].op.wallet
        /\ Messages[m].form = "usable" /\ Messages[n].op \in Recorded
        /\ Messages[m].op \notin Recorded
        => place[m] # "queued"

\* Every message leaves the queue: handled and deleted, or dead.
EveryMessageSettles == \A m \in Ids : place[m] = "queued" ~> Settled(m)
=============================================================================
