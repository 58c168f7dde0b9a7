# Verification of wagering-core

TLA+ models of `wagering-core`, a Go service that applies bets, wins, losses,
refunds and rollbacks to players' wallets: model-checked with TLC on small
instances, and proved with TLAPS for every instance where that is in reach.
Paths are relative to `src/`. The correspondence of every definition with its
lines is in `PROJECT.json` ("map").

## The system

One PostgreSQL database is the only shared state. Several instances of the
service run against it, each with an HTTP server, a reference worker, an outbox
publisher and a queue consumer; they never talk to each other.

| part | state | operations | interacts with |
|---|---|---|---|
| domain rules `internal/domain` | none (values) | `Wallet.move`, transitions of `WagerTransaction`, `CanReverse`, events | used by everything |
| submission `app/submit.go` | none of its own | `Execute`, `ExecuteIn`, `apply`, `resolve`, `replay` | one unit of work per attempt |
| reversal resolution `app/reversal.go` | none | `resolveReference` | called by submission and worker, wallet locked |
| reference worker `app/reference_worker.go` | `PENDING_REFERENCE` rows with attempts, next attempt, deadline | `handleOne` every tick | claims with `SKIP LOCKED`, shares `applyReversal` |
| wallet opening `app/openwallet.go` | wallet, opening transaction, first entry | `Execute` | plain inserts |
| unit of work `postgres/uow.go` | open transaction | `Do`, `attempt`, retry of transient failures | wraps every operation |
| schema `migrations/` | wallets, wager_transactions, ledger, outbox, inbox | unique indexes, checks, append-only triggers | last line of defence |
| outbox `app/events.go`, `app/publisher.go` | `outbox_events` | `record`; `RunOnce`, `publishOne` | written with the fact, drained to SQS FIFO |
| consumer `app/consumer.go` | `inbox_messages` | `handle`, `apply`, `finish` | SQS FIFO in, `ExecuteIn` |
| reconciliation `app/reconcile.go` | none | sum of the ledger against the balance, in a snapshot | reads only |
| queries `app/queries.go`, `postgres/ledger.go` | none | an operation by id or by business identity; the ledger page by page | reads beside the movements |
| identity `app/identity.go` | none (a value in the context) | scopes, `mayActAs`, `owns` | asked for by every use case, on both ports |
| key cache `oidc/jwks.go` | keys, when they were fetched, a mutex | `key`, `fetch` | every authenticated request; the issuer |
| money `domain/money.go` | none (values) | `parseMinor`, `Add`, `Sub`, `Neg`, `String` | used by everything |
| lifecycle `platform/modules.go`, `cmd/api/main.go` | hooks, loops, listener, pool | start, drain, stop within a timeout | owns every loop |

What makes each part correct:

* **submission**: an operation `(provider, externalId)` has one row and one effect
  however often and however concurrently it is sent, also when the commit
  succeeded and the caller was told it had failed; what a caller was told stays true;
* **wallet**: never negative, never beyond `MaxInt64` minor units; equal to the end
  of its ledger; no decision on a balance that has changed since it was read;
* **reversals**: the opposite of exactly one processed operation that agrees with
  it on everything; never two of one operation; a wait always ends;
* **outbox**: says what happened, nothing else, in order per wallet; nothing is
  marked that the broker does not have; everything goes out;
* **consumer**: a message is applied once and deleted after the commit, and reported as
  done only when it is done;
* **reconciliation**: a difference is reported if and only if there is one;
* **statement**: a client that follows the cursor misses nothing and gets nothing twice;
* **identity**: a provider learns nothing of another's operations;
* **key cache**: a retired key stops being accepted, a new one is picked up soon,
  nobody makes the service hammer the issuer, nobody waits for ever;
* **money**: exact, or refused;
* **wait of a reversal**: no shorter than promised, no longer than bounded;
* **stop**: in order, the pool last, nothing left in hand unless the time ran out.

What is hard about it, and hardly reached by tests, is listed with lines in
`PROJECT.json` ("hazards"): a unit of work is several statements, and between any
two of them other submissions and workers run, the transaction may fail or the
process may die; a commit may happen without its acknowledgement; reversals
overtake what they undo; locks (pending row, wallet, index entries) are taken one
after another. Around it: reads that straddle commits, a sequence whose numbers are
taken before commits, one lock over a slow remote call, one timeout shared by
everything that has to stop.

## Modules

| module | models |
|---|---|
| `WagerDomain` | the domain's rules as operators: kinds, statuses, directions, `MoveCode` (`Wallet.move`), `EventsForOutcome` |
| `Wagering` | submissions, workers and openings over the database, statement by statement |
| `WageringProperties` | what the core promises: invariants, action property, refinement, liveness |
| `ExactlyOnceLedger` | the abstract specification: operations with one identity and one fate, balances, no statements or locks |
| `WageringProofs` | proofs about `Wagering`: types, locks, the ledger, identities, and the invariant of what rows and processes say of each other |
| `ExactlyOnceProofs` | proofs about `Wagering`: reversals, exactly-once application, answers, finality, and that it implements `ExactlyOnceLedger` |
| `OutboxPublisher` | publishers draining the outbox into the events queue, and its properties |
| `QueueConsumer` | consumers of the operations queue with their inbox, the FIFO queue, and their properties |
| `ReferenceWait` | how long a parked reversal waits: ticks, batches, backoff, attempts, deadline |
| `Reads` | reconciliation in its snapshot and the statement page by page, while wallets move |
| `Isolation` | credentials, and what a provider is answered |
| `KeySet` | the cache of the issuer's signing keys |
| `MoneyArithmetic` | text to minor units, `Add`, `Sub`, `Neg`, and back to text, in words that wrap |
| `MoneyProofs`, `OutboxProofs`, `QueueProofs` | the theorems about `MoneyArithmetic`, `OutboxPublisher` and `QueueConsumer` and their proofs |
| `BackgroundProofs` | the theorems about `ReferenceWait` and `Lifecycle`, and about the parts of `MCBackground` side by side |
| `EdgeProofs` | the theorems about `Isolation`, `KeySet` and `Reads`, and about the parts of `MCEdges` side by side |
| `SumProofs` | lemmas the others share: smallest counterexamples, sums over finite sets |
| `Lifecycle` | hooks, loops, server and pool of one instance, from start to exit |
| `MCWagering`, `MCQueue`, `MCOutbox`, `MCLifecycle` | instances for TLC |
| `MCEdges`, `MCBackground` | instances of several parts that share no state: a behaviour is one of one part |

### Wagering: state and actions

`wallet`, `tx`, `ledger` and `outbox` are the committed tables. A process is a
unit of work in progress: `pc` is the statement it is about to run, `row`, `seen`,
`found`, `delta` are the Go values it has in hand, which include everything it has
written and not committed. Locks are not variables: `HoldsWallet`, `Claimed` and
`IndexFree` derive them from where the processes are, so a rollback releases them
as PostgreSQL does, by ending the transaction.

| action | code |
|---|---|
| `Receive`, `Lookup` | `Execute`, `parse`, `ExecuteIn` up to `FindByBusinessID`: replay, refusal by `NewExternalTransaction`, or go on |
| `Claim` | `ClaimDueReferences` of one row, `SKIP LOCKED` |
| `LockWallet` | `FindByIDForUpdate` (waits), ownership, `movement` and `MarkProcessed` or `Reject` for a kind that reverses nothing |
| `FindReference` | `resolveReference` up to the amount: wait, rejection, usable |
| `FindReversal` | `FindProcessedReversalOf`, then `applyReversal` |
| `Write` / `LoseRace` | `Insert` or `Update`, `UpdateBalance`, `Append`, events; or the constraint that refuses and what follows from which one it is |
| `Reread` | the read after a lost race, outside any transaction |
| `Commit`, `CommitUnacknowledged` | everything becomes visible, and the caller hears of it or does not |
| `Fault` | a statement fails or the process dies at any point; transient failures are retried up to `MaxAttempts` |
| `OpenWallet` | `OpenWallet.Execute` |

Points where the model is deliberately coarser than the code:

* identifiers minted by the service are names (a request's own name, a wallet's
  own name for its opening); a retry mints again in the code and reuses its name
  here, which nobody can see because the first was rolled back;
* `Content` is what the payload hash fingerprints (everything but the key, the
  amount in canonical form); hashes are taken not to collide;
* a parse error leaves no trace in the database and is not modelled; what
  `NewExternalTransaction` refuses is;
* authorisation is a precondition of every action (see `Isolation`);
* time is open: any parked row may be due, a deadline may have passed or not, a
  backoff ends when it does (see `ReferenceWait` for the times themselves);
* a worker whose transaction fails transiently claims afresh, as its next attempt
  and its next tick both do.

### OutboxPublisher

A batch is one transaction. `todo`, `marked` and `moved` are what a publisher has
claimed, marked and rescheduled in it; `queue` is what the broker took, whatever
becomes of the transaction; `window` is the broker's deduplication (external).
`PublishTimesOut` is an acceptance whose answer is late. `Record` lets events of
one aggregate appear in `seq` order, which is what the wallet lock gives, and
events of different aggregates in any order.

### QueueConsumer

`place`, `holder` and `received` are the broker's side of a message: where it is,
whose receipt handle is current, how often it was received. A FIFO queue holds a
group back while one of its messages is in flight, so a batch may hold several
messages of a wallet and no other consumer gets one. A consumer's transaction runs
`Claim` (the insert into the inbox, which waits for a transaction that has inserted
the same id), `Lookup` and `Write` (`ExecuteIn`: the replay or the conflict, the
wallet's lock, the unique indexes) and `Commit` (completion, commit); `Finish`
deletes or releases. `StatementFails`, `CommitUnacknowledged`, `FinishFails`,
`Crash` and a `Lapse` under a slow consumer are the failures. `recorded` is the
core seen from here: the operations it has a row for, whatever their outcome; the
core itself is the subject of `Wagering`, and `Http` is the same operation arriving
there. A claim that finds a row which was never completed (`alreadySeen`) cannot
happen: the row and its completion commit together, so `inbox` has one kind of row.
`worked` is the variable of that name in `apply`, with the `result` beside it: both are
declared outside the closure that `uow.Do` runs again, so they outlive an attempt that was
rolled back, and `handle` reports what they say (`Reports`). `StatementFails` therefore
keeps `worked` where the closure is run again, and sets it when the failure comes after
`ExecuteIn`. `doing` is what the transaction did, and tells after the commit whether it did
anything. A stale `worked` never makes a delivery report something that is not so; after a
failure it can make one report work another consumer did, in its counters and with the
transaction id of an attempt that was rolled back, although the comments on `apply`
(`consumer.go:284`) and on `uow.Do` (`uow.go:97`) say otherwise: `ReportedIsHandled` says
exactly this much. It takes a transient failure after `ExecuteIn`, from `Complete` or the
commit, which `uow.Do` provides for and READ COMMITTED does not produce. `handleOne` of the reference worker has a `worked` of the same kind
(`reference_worker.go:149`): left over from a rolled-back claim it makes `RunOnce` look for
one more row in the same batch, and `Run` discards the count; `ReferenceWait` has no
variable for it.
`DeletedWasHandled` has two exceptions, both found in the inbox: the id had been used
for other content, or with a key the domain refuses, which makes the second delivery a
duplicate of a refused message although it could have been applied.
`OvertakenOnlyAfterFailure` is about the order of first sending: an operation that also
comes over HTTP, or whose earlier copy stood ahead, may be recorded before a message it
overtakes, and so may whatever stands behind a message that conflicts or whose id the inbox
has with another operation.

### ReferenceWait

`wait` holds per reversal its status, attempts, the time to its next attempt and
the time it has waited; the deadline is `waited >= WaitTtl`. `TickFires` starts a
batch, `HandleOne` is one `handleOne` on the row that became due first, `HandleFails`
an error that ends the batch, `BatchEnds` the other two ways out of `RunOnce`.
What a lookup finds is one bit here (`arrived`); what it does with it is `Wagering`'s.
One worker and no time inside a batch: more workers only shorten the wait.
`ShortestWait(n)` is the sum of the shortest backoffs of n attempts.

### Reads

A movement is reduced to its lock (`LockBook`), the `seq` its entry takes
(`AppendEntry`) and its commit or rollback. `AuditReadsWallet` fixes the snapshot a
reconciliation sees, `AuditSumsLedger` sums and compares; `Tamper` changes a balance
behind the service, which is what reconciliation is for. `OpenStatement` and
`PageThrough` are a client following `Next`. `StatementIsComplete` rests on the
wallet's lock: entries of two wallets commit out of `seq` order, those of one cannot.
`Statement` is the `ORDER BY seq` as ranks: the i-th row is the one with i rows up to it.

### Isolation

Answers are operators of a credential, a table of operations and a question, so
isolation is stated as non-interference: a provider's answer over the whole table is
its answer over its own rows. The balance in a submission's answer is the wallet's,
and wallets belong to no provider (REQ-SEC-004); it is outside the property.

### KeySet

`line` is the queue at the mutex, `fetching` the request under it. Times are ages:
of the last successful fetch, of each key's publication or retirement, of a lookup.
`FetchFails` stands for every error path of `fetch`. `KeysFollowTheIssuer` bounds
acceptance on fresh keys after a retirement and refusals after a publication; acceptance on expired keys while the issuer fails
(`"kept"`) is unbounded on purpose, as the comment at `jwks.go:71` says. The floor
bounds forced requests only while the issuer answers: `fetchedAt` does not move when
a fetch fails, so then every unknown id asks again (`extra.failed` in
`FloorHoldsWhileAnswered`), which the comment at `jwks.go:27` does not mention.

### MoneyArithmetic

The machine's word (`scan.acc`, `account`, wrapped by `Wrap`) runs beside exact
integers (`read`, `total`). `ReadByte` and `EndText` are `parseMinor`; a parsed amount
is added or subtracted, an account negated, all with the code's own overflow tests.

### Lifecycle

`Hooks` is the registration order; Fx (external) starts in it and stops in reverse,
looking at the stop timeout before each `OnStop`. `CallStop` is what an `OnStop` does
first, by hook: cancel (`CancelLoop`), close the listener (`StopListening`), refuse
connections (`RefuseAcquire`); `StopDone` is what it waits for, by hook too. A consumer's
batch is finished under a context that stopping does not cancel; worker and publisher end
with the transaction they are in. A handler takes a connection for each of its
transactions and lookups (`AcquireConn`, `ReleaseConn`) and has none between them. `pool.Close`
waits for the connections that are out and for nothing else: a handler that `server.Close`
cut off may go on without one, in line at the key cache's mutex or between two
transactions, after the pool has closed, and is refused when it asks. So the pool is shown to
be open for everyone who can still be answered, and to close with no transaction open on
it; not to outlive every handler. A start that fails is undone in what is left of Fx's start
timeout, any time up to `Grace`. Requests, messages and transactions may take any time.

## Runs

All bounds are constants of the cfg files. `MaxFaults` and `MaxFailures` bound
failures, `MaxAttempts` and `MaxLookups` are the code's own limits made small,
`MaxMinor` is the largest Money. Deadlock is checked in every run: where nothing
is left to do the specifications stutter explicitly (`Quiescent`, `Drained`).

| run | instance | shows |
|---|---|---|
| resend | 2 wallets, 3 requests over 13 commands, 1 worker, 1 failure, 2 attempts | `TypeOK`; `OneRowPerIdentity`, in-flight rows included; `AnswersAreDurable`; `LockedReadFresh`; no deadlock across wallets and indexes |
| reversals | 4 requests, 2 workers, bet / refund / rollback / rollback of the refund | `ReversedAtMostOnce`, `AppliedExactlyOnce`, `BackstopsSilent` (the version check, the reversal index and the terminal guard never fire under the wallet lock) |
| misfit | 3 requests, 1 worker, 2 lookups, 1 failure | `LedgerExplainsBalance`, `OutboxMatchesFacts`, `HistoryIsFinal`, `RefinesExactlyOnceLedger` |
| liveness | 2 requests, 2 workers, 2 failures, fair | `EveryRequestAnswered`, `EveryWaitEnds` |
| replay | 2 wallets, 2 requests | **violated**: `ReplayRepeatsAnswer` |
| edges | outbox: 3 events of 2 aggregates, 2 publishers, batches of 2, 2 failures | `EdgesTypeOK` (the types of all these parts; leases are disjoint, the mutex has one holder); `MarkedWasDelivered`, `DuplicatesHaveACause`, `OvertakingHasACause` |
| | keys: 2 callers, 2 key ids, lifetime 3, floor 2, timeout 1 | `KeysFollowTheIssuer`, `FloorHoldsWhileAnswered`, `LookupsAreBounded` |
| | isolation: 2 providers, all credentials, 3 operations | `ProvidersAreIsolated` |
| | reads: 2 wallets, 2 movements at once, pages of 1, 1 tampering | `ReportIsExact`, `StatementIsComplete` |
| | money: words to 121, digits 0 to 2 | `ParsedIsExact`, `AccountIsExact`, `TextReadsBack` |
| background | outbox as above with 1 failure, fair | `EveryEventGoesOut` |
| | wait: 2 reversals, 3 attempts, backoff 2 to 4, deadline 6, batches of 1, 1 error | `BackgroundTypeOK` (of the wait and the lifecycle); `WaitIsBounded`, `GivenUpAfterTheWait` |
| | lifecycle: 2 requests, 2 messages, timeout 3, drain 1 | `PoolClosedLast`, `ExitIsClean` |
| outbox_order | 2 publishers, no failure | **violated**: `AggregateOrder` |
| queue | 4 messages, 2 consumers, batches of 2, HTTP, 4 receives, 2 failures | `TypeOK`, `RecordedOnce`, `InboxHasItsEffect`, `DeletedWasHandled`, `ReportedIsHandled`, `DeadLettersHaveACause` |
| queue_misfits | 5 messages of every form, 2 consumers, 1 failure, fair | `OvertakenOnlyAfterFailure`, `EveryMessageSettles` |
| queue_order | 2 messages, 1 consumer, 1 failure | **violated**: `WalletOrder` |
| shutdown_deadline | 1 request, 2 messages, timeout 3 | **violated**: `ReleasedAtExit` |

Why the bounds are enough for the questions asked: a race over an identity needs
two submissions and a third to read what the race left; a double reversal needs
the operation, two reversals and a reversal of a reversal, hence four requests,
and two workers to race each other as well as the requests; one failure placed at
any statement of any process already gives every rollback, retry, crash and lost
acknowledgement, and the liveness run has two so that a retry can fail again.
In the queue run the receive limit exceeds what two failures and a lost race can use
up, so a dead letter without a conflict would be one without a cause.
Two callers are one that fetches and one that waits behind it, and a rotation
between any two of their steps; two wallets are what it takes for `seq` and commit
order to differ. 121 is a width at which the digits, the padding and the sign each
overflow on their own, and which ends with a digit the text can have. The wait
has two rows in batches of one, so that a row loses its turn to the other and to an
error. A timeout of 3 over a drain of 1 lets loops use up the drain's time.
`edges` and `background` are sums, not products: `part` picks one part at the start
and the others rest, so their states add up and nothing of one part hides in
another's interleavings.
`MaxMinor` is chosen so that the commands reach both ends of Money. Requests are
interchangeable (each may carry any command), which makes the symmetry of the
safety runs sound; the liveness runs use none.

Every property has a mutant in `PROJECT.json`: a plausible fault in a mapped
definition (kept beside it, marked "Fault") under which TLC reports the property
violated.

### What the four violations say

* **replay**: a rejected or parked operation is first answered with the wallet's
  balance (`app/submit.go:361`, `:486`, `:525`), but its row stores none, and
  `replay` answers with the row (`:226`). The comment on `SubmitResult` promises
  a resend "the same answer". Status and failure code are the same
  (`AnswersAreDurable`); only the balance is missing.
* **outbox_order**: `SKIP LOCKED` lets a second publisher overtake the first
  within one aggregate, while `migrations/00004_outbox.sql:12` promises the order
  in which the facts happened. With one publisher the order is lost only after a
  failed publish of the overtaken event itself: `OvertakingHasACause` says so of every
  publisher's own batches.
* **queue_order**: `RunOnce` goes on with its batch after a message was released
  (`app/consumer.go:196`), so the next operation of that wallet is applied before
  the one that comes back, while decision 5 of `docs/adr/0009-inbox-and-queue.md`
  orders the operations of a wallet. Without failures and conflicts the order
  holds over all consumers (`OvertakenOnlyAfterFailure`).
* **shutdown_deadline**: when the stop timeout passes with a batch in hand, `OnStop`
  logs and returns (`platform/modules.go:350`) and the process ends. Nothing calls
  `Release` for the messages not reached, although the comments on `RunOnce`
  (`app/consumer.go:187`) and `runConsumers` (`platform/modules.go:308`) and
  `docs/adr/0009-inbox-and-queue.md:131` say their visibility is released. They come
  back after the visibility timeout; nothing is lost (`QueueConsumer`, `Crash`).

## Fairness

`FairSpec` of the core: a statement that can run does (`WF` on `Lookup`/`Reread`
of a request and on `Step` of a process), and a parked row that stays claimable is
claimed (the ticker of `ReferenceWorker.Run`; a failing row does not fail for
ever because failures are bounded). Weak fairness is enough: a waiting process
waits for a lock whose holder needs finitely many statements. Arrivals, openings
and failures are not fair. `OutboxFairness`: a publisher with something to
do does it (the ticker of `Publisher.Run`), a backoff ends; recording, failures
and the broker's window are not fair. `FairSpec` of the queue: a handling goes on, some
consumer polls while there is something to receive (`Consumer.Run`), visibility
timeouts and the redrive happen; sending, HTTP and failures are not fair.

## Proofs

Every theorem holds for every value of the constants: any sets of requests, workers,
wallets, commands, publishers, consumers, messages, callers and keys, any limits and
any number of failures.

### The core

| theorem | module | states |
|---|---|---|
| `TypeCorrect` | `WageringProofs` | `Spec => []TypeOK` |
| `LockedReadsStayFresh` | | `Spec => []LockedReadFresh` |
| `LedgerAlwaysExplainsBalance` | | `Spec => []LedgerExplainsBalance` |
| `OneRowPerIdentityAlways` | | `Spec => []OneRowPerIdentity` |
| `CoreInvariant` | | `Spec => []CoreInv`, all layers together |
| `BackstopsStaySilent` | `ExactlyOnceProofs` | `Spec => []BackstopsSilent` |
| `ReversedAtMostOnceAlways` | | `Spec => []ReversedAtMostOnce` |
| `AppliedExactlyOnceAlways` | | `Spec => []AppliedExactlyOnce` |
| `AnswersAreDurableAlways` | | `Spec => []AnswersAreDurable` |
| `OutboxAlwaysMatchesFacts` | | `Spec => []OutboxMatchesFacts` |
| `HistoryIsAlwaysFinal` | | `Spec => HistoryIsFinal` |
| `CoreRefinesExactlyOnceLedger` | | `Spec => RefinesExactlyOnceLedger` |

Assumptions: `SetsAssumption` (requests, workers and wallets are named apart),
`CommandsAssumption` and `OpeningsAssumption` (types), `BoundsAssumption`,
`MaxMinorAssumption`. TLC evaluates them on every run.

The argument is in layers, each inductive relative to the ones before:

1. `TypeInv` = `TypeOK` and `LocalsFit`. Types alone are not inductive: that a
   committed balance stays within Money needs the fact that a movement in hand
   keeps the balance it was decided on within Money, which `MoveCode` established
   two statements earlier and `Forget` undoes on a rollback.
2. `LockInv` = `RowsOwned`, `WalletsHeld`, `LockedReadFresh`. A process past
   `FindByIDForUpdate` excludes every other from its wallet; a commit changes one
   wallet, which its own process held; so what the others read is still there. The
   opening of a wallet changes one with version 0, which nobody can hold.
3. `LedgerExplainsBalance`. The entry a commit appends starts at `seen`, which by
   layer 2 is the committed balance, which by induction is where the ledger ends.
4. `OneRowPerIdentity`. It speaks of the rows of open transactions as well as of the
   committed ones, which is what makes it inductive: an insert waits for an index entry
   that is not committed yet, so two writers of one identity never both get past `Write`.
5. `HistoryInv`. What a stored row says (`RowInv`: it was decided, and an applied
   reversal agrees with what it undid and is the only one to have undone it), what a
   process has in hand at each statement (`WorkInv`: a reference it found is processed
   and agrees; a decision is the movement that is due, on the balance read; nobody else
   has undone the reference since it looked, because that takes the same wallet), that a
   claimed row is still waiting (`WorkerInv`), and that no two workers hold one row.

`CoreInv` is the five together. `BackstopsSilent` and `ReversedAtMostOnce` follow from it in
every single state, `HistoryIsFinal` for every single step. `AppliedExactlyOnce` is
inductive relative to it, given that a wallet which is not open has no events
(`SilentUntilOpened`), and so is `OutboxMatchesFacts`: a commit finds its row not terminal,
so its end was not told before, and the version it announces is the next one because the
wallet it read is the committed one. `AnswersAreDurable` needs `AnswersInv`: a result names a row that was
stored when it was given, and stored rows stay (`StoredStay`).

The refinement is proved step by step over the mapping whose parts are named in
`WageringProperties` (`Balances`, `Fates`, `Identities`, `Movements`, `Undoings`): the
initial tables map to the empty ledger, a commit maps to one recording, application,
rejection or settlement, an opening to an opening, every other action to a stutter.

### Money

| theorem | states |
|---|---|
| `AccountsAreExact` | `MoneySpec => []AccountIsExact` |
| `ParsingIsExact` | `MoneySpec => []ParsedIsExact` |
| `TextAlwaysReadsBack` | `MoneySpec => []TextReadsBack` |

For words of any width and any set of digits. Assumption: `MoneyAssumption` (the word
holds at least one digit, which `pushDigit` needs: `limit - d` is computed unsigned).
The inductive invariant `MoneyInv` adds to the properties that the accumulator is what
the text spells for as long as the text is read, and within its limit (`Agrees`);
without it a parsed text could be anything. `AddOverflowsExact` and `SubOverflowsExact`
are the arithmetic heart: the tests on the wrapped result are equivalent to not fitting.
`PushFitsExact` is the same for `pushDigit`.

That the text reads back is an induction over the digits of `Decimal`, as a smallest number
whose digits are not read back as it (`DigitsReadBack`). It speaks of readings: `Leads(st, s,
st2)` says that scanning the text `s` takes `parseMinor` from `st` to `st2`. Readings compose
(`LeadsOn`) and the reading from the start is what `Parse` computes (`ParseIsReading`), so
sign, integer part, point and two places are read one after the other. The recursive
functions are shown to exist, over every length, before anything is said of their values
(`DecimalsExist`).

### The outbox

| theorem | states |
|---|---|
| `OutboxTypeCorrect` | `OutboxSpec => []OutboxTypeOK` |
| `PublishedWasDelivered` | `OutboxSpec => []MarkedWasDelivered` |
| `DuplicatesAreFailures` | `OutboxSpec => []DuplicatesHaveACause` |
| `OvertakingAlwaysHasACause` | `OutboxSpec => OvertakingHasACause` |

Assumption: `OutboxAssumption` (types of the bounds). `LeaseInv` adds to the types
that the three sets of one lease are disjoint. On top of it, `DeliveryInv`: what is in
the window and what an open batch has marked is delivered too, because `published`
comes from `marked`, and a send the broker drops is of an event in its window. And
`CopiesInv`: an event that is neither published nor marked in an open batch has been
delivered at most `failures` times, any other at most once more. A batch that sends an
event again holds it alone, so it was not spoken for; a rollback that loses a mark is a
failure. The order is an action property, from `OrderInv`: the events of an aggregate are
recorded in order, and what is put off has erred. So an earlier event that is neither
delivered nor erred is due whenever a later one is, and a claim, which takes from the front,
takes it too unless somebody else has it; within a batch the smallest goes out first.

### The queue

| theorem | states |
|---|---|
| `QueueInvariant` | `Spec => []QueueInv` |
| `QueueTypeCorrect` | `Spec => []TypeOK` |
| `RecordedOnceAlways` | `Spec => []RecordedOnce` |
| `InboxAlwaysHasItsEffect` | `Spec => []InboxHasItsEffect` |
| `DeletedWasAlwaysHandled` | `Spec => []DeletedWasHandled` |
| `ReportedIsAlwaysHandled` | `Spec => []ReportedIsHandled` |
| `DeadLettersAlwaysHaveACause` | `Spec => []DeadLettersHaveACause` |
| `NeverOvertakenWithoutFailure` | `Spec => []OvertakenOnlyAfterFailure` |

Assumptions: `QueueAssumption` (bounds), `MessagesAssumption` (messages are numbered, and
whether the domain accepts an operation depends on nothing but the operation),
`NobodyAssumption`. `QueueInv` adds to the properties what a consumer's transaction has
established at each statement (`TransactionInv`), that no two consumers apply rows that
exclude each other (`ApplyingApart`: the insert into the inbox waits), and that a message
about to be deleted is already handled (`DeletedInv`): the deletion comes several steps
after the commit it rests on, with a lapse or another consumer in between. That a batch can
be put in order is an existence statement over finite sets, proved with a smallest
counterexample (`LeastElement`).

What a consumer reports needs `ReportInv`: a `worked` that is set, by this attempt or by one
that was rolled back, says that the message got to a commit once, so it is usable, refused by
the domain or recorded (`Committable`). If a later attempt then finds its id in the inbox, the
row is of another operation, or `InboxInv` makes the operation recorded or refused, and a
usable operation is not one the domain refuses (`SeenIsHandled`). That nothing but a failure
separates the report from the work is `OwnWork`.

Dead letters need a second invariant, `WastesInv`, an account of deliveries: those of a
message that came to nothing are at most the failures so far, and one more when its
operation is recorded, unless the message is hopeless (refused, or in conflict with what is
recorded). Two clauses look ahead: before the insert the extra one is not spent yet, and a
message about to be given back has been paid for already, by a failure or by the race that
was lost. That a delivery is not counted while it is in hand rests on every received message
being in the batch (`InOrderIsComplete`, a pigeonhole argument).

The order of a wallet's operations needs a third, `OrderInv`, while nothing has failed.
`BrokerInv` is the queue's part: what is in a batch is held, in the order of sending; messages
are sent in order; those of a wallet are received in order and held by one consumer at a
time. `TurnInv`: a usable message that was received and is in nobody's hand any more has had
its turn (`HadItsTurn`: recorded, in conflict, or its id used for another operation), because
without failures a consumer lets go only of what it has handled. `AheadInv`: an operation
recorded from the queue has every earlier message of its wallet behind it, since those were in
the same batch before it or out of everyone's hand already. TLC checked `OrderInv` on both
queue instances first.

### The background

| theorem | states |
|---|---|
| `WaitIsBoundedHolds` | `WaitSpec => [](WaitTypeOK /\ WaitIsBounded)` |
| `GivenUpAfterTheWaitHolds` | `WaitSpec => GivenUpAfterTheWait` |
| `LifeInvariant` | `LifeSpec => []LifeInv` |
| `PoolIsClosedLast` | `LifeSpec => []PoolClosedLast` |
| `ExitIsAlwaysClean` | `LifeSpec => []ExitIsClean` |
| `LifeTypeCorrect` | `LifeSpec => []LifeTypeOK` |
| `BackgroundIsItsParts` | `Spec => OutboxSpec /\ WaitSpec /\ LifeSpec` |
| `BackgroundTypeCorrect` | `Spec => []BackgroundTypeOK` |

The bound of the wait is two inequalities. `WaitInv`: a next attempt is set while the deadline
has not passed, hence at most a backoff beyond it. `TurnInv`: the time to a row's turn, less
the time to its being due, is at most `Queueing`. The time to a turn is the time to the next
tick and an interval for every full batch of rows that are due before it and for every error
still to come; a tick that handles a batch takes those rows away, an error takes one of the
errors, and a row that is parked again goes behind. That nobody is given up on early is
`PatienceInv`: by its next attempt a row has waited for every attempt it has made, each at
least its half window. Assumption: `WaitAssumption` (types; at least one attempt, a batch, an
interval and a backoff of at least one; the base backoff within the largest, as
`ReferencePolicy.normalised` makes them; finitely many reversals).

`LifeInv` ties every loop, the server and the pool to the number of hooks still started:
a loop runs from its `OnStart` to its `OnStop` (`LoopInv`), the server accepts in the same
span (`ServerInv`), and connections are out only while the pool is open or waits for them
(`PoolInv`). The order of the hooks does the rest: when the pool's `OnStop` begins, those of
the loops and of the server have returned (`NothingRunsBelow`). Assumption:
`LifecycleAssumption` (types of the times and of the batch; nothing relates the drain to
the stop timeout).

### The edges

| theorem | states |
|---|---|
| `ProvidersAreAlwaysIsolated` | `IsolationSpec => []ProvidersAreIsolated` |
| `KeyInvariant` | `KeySpec => []KeyInv` |
| `KeyTypeCorrect` | `KeySpec => []KeyTypeOK` |
| `LookupsAreAlwaysBounded` | `KeySpec => []LookupsAreBounded` |
| `FloorAlwaysHolds` | `KeySpec => FloorHoldsWhileAnswered` |
| `KeysAlwaysFollow` | `KeySpec => KeysFollowTheIssuer` |
| `ReportIsExactHolds` | `ReadsSpec => []ReportIsExact` |
| `StatementIsCompleteHolds` | `ReadsSpec => []StatementIsComplete` |
| `ReadsTypeHolds` | `ReadsSpec => []ReadsTypeOK` |
| `EdgesAreTheirParts` | `Spec =>` the specifications of the five parts |
| `EdgesTypeCorrect` | `Spec => []EdgesTypeOK` |

Isolation holds of any table, reachable or not: it is a fact about the answers, and the
proof is about `Owns`, `MayActAs` and the keys of the lookups.

`KeyInv` has a part per promise. `RotationInv`: where the set differs from the issuer's,
the issuer has changed since the reply was written, at most one timeout before the set's
date; and the same of a reply on its way. `FloorInv`: the set is no older than the last
fetch an unknown id forced, unless that one failed. `WaitInv`: a lookup has waited no
longer than the places ahead of it in line leave of everybody's time; that a lookup finds
room in line when it comes is a pigeonhole argument over `LineInv` (nobody stands in line
twice), and needs that callers are finitely many (`CallersAssumption`). `PlaceInv`: who
waits is in line, so the bound is about everybody. Assumption on the times:
`KeySetAssumption` (floor and lifetime are positive, as `oidc.go` makes them, and ages stop
growing late enough to be told apart).

The reads rest on the ledger beside them. `SeqInv`: the wallet's lock gives it one mover at a
time, so what a mover has appended is past every entry of its wallet. `SumInv`: a wallet is
what its entries add up to, but for what was done behind the service; `AuditInv` says the same
of a reconciliation's snapshot, which is such a moment. `ChainInv`: neighbouring entries
agree on the balance between them. `PagerInv`: a client has exactly the entries up to its
cursor, in order; a commit cannot put one there, because the cursor is an entry's `seq` and a
new entry of the wallet is past it. Sums over sets of entries are the library's fold, which
`SumProofs` shows to be defined on every finite set and to gain an element's value with the
element. Assumption: `ReadsAssumption` (types; finitely many wallets; a page of at least one
row).

`EdgesAreTheirParts` and `BackgroundIsItsParts` are what lets a theorem about one part be
used where the parts run side by side: every step is a step of one part and leaves the
variables of the others alone.

### Only model-checked

* Liveness (`EveryRequestAnswered`, `EveryWaitEnds`, `EveryEventGoesOut`,
  `EveryMessageSettles`): out of the prover's reach.

Every invariant and every safety action property of the passing runs is a theorem. The
library's induction theorems take an operator as a parameter, which the installed provers do
not instantiate; where an argument is by induction (sums, digits, batches, turns) it is made
with a smallest counterexample (`LeastElement`).

## Not modelled

HTTP routing, JSON and status codes, identifier syntax, configuration, metrics,
logging, migrations runner, health checks, discovery, token signatures and claims: no state the
properties are about, or pure I/O. `RehydrateTransaction`, `RehydrateWallet` and
the CHECK constraints re-validate rows that only the modelled operations write.
`WagerTransaction.Fail` has no caller.

## Plan

Done: the models of every part listed above; the theorems about the core, with the
refinement; about money, the outbox, the queue, the wait, the lifecycle, isolation, the keys
and the reads.

1. The consumer composed with `ExactlyOnceLedger`, so that a delivery is one of its
   steps.
2. Several reference workers in `ReferenceWait`, with time inside a batch.
3. The CHECK constraints and `Rehydrate…`, against rows written by other hands.
