------------------------------ MODULE Lifecycle ------------------------------
(***************************************************************************)
(* Starting and stopping one instance: the hooks the modules register with *)
(* Fx, the loops and the server they run, and the work that is in flight   *)
(* when the stop signal comes.  Fx itself is external: it starts hooks in  *)
(* order, stops the started ones in reverse, and ends the process when the *)
(* stop timeout passes.  The pool is external too: Close refuses whoever   *)
(* asks for a connection from then on and waits for the connections that   *)
(* are out, not for whoever may ask.                                       *)
(***************************************************************************)
EXTENDS Integers, Sequences, FiniteSets

CONSTANTS
    Calls,      \* HTTP requests
    Inbound,    \* messages of the operations queue
    Batch,      \* APP_QUEUE_BATCH_SIZE
    Grace,      \* shutdownGrace
    DrainTime   \* APP_SHUTDOWN_TIMEOUT

ASSUME LifecycleAssumption ==
    /\ Grace \in Nat /\ DrainTime \in Nat /\ Batch \in Nat \ {0}

VARIABLES
    phase,      \* "starting", "running", "stopping", "exited"
    started,    \* hooks started and not stopped yet
    called,     \* the OnStop of hook number started has begun
    grace,      \* time left of the stop timeout
    drain,      \* time left of the server's drain
    loop,       \* the worker, the consumers and the publisher; "cancelled": at work and told to stop
    call,       \* per request; "unwinding": its connection was closed, its handler goes on
    using,      \* requests whose handler has a connection of the pool
    hand,       \* messages a consumer has received and not finished
    settled,    \* messages deleted from the queue
    listening,
    pool        \* "open", "closing", "closed"

hooking  == <<phase, started, called>>
timing   == <<grace, drain>>
serving  == <<call, using, listening>>
queueing == <<hand, settled>>
lifeVars == <<hooking, timing, serving, queueing, loop, pool>>

-----------------------------------------------------------------------------
\* Fault: the pool registers its hook after what uses it.
HooksPoolFirst == <<"metrics", "server", "worker", "consumers", "publisher", "pool">>

\* In the order the modules register them: the pool when it is built, the server
\* after what it is built from, the loops last.
Hooks == <<"metrics", "pool", "server", "worker", "consumers", "publisher">>

Loops == {"worker", "consumers", "publisher"}

InFlight(stages) == {r \in Calls : call[r] \in stages}

\* OnStart of the worker, the consumers and the publisher: the loop runs.
RunLoop(h) == IF h \in Loops THEN [loop EXCEPT ![h] = "idle"] ELSE loop

\* OnStart of the server.
Listen(h) == listening \/ h = "server"

\* Fx starts the next hook.  The pool is open since it was built.
StartHook ==
    /\ phase = "starting"
    /\ loop' = RunLoop(Hooks[started + 1])
    /\ listening' = Listen(Hooks[started + 1])
    /\ started' = started + 1
    /\ phase' = IF started' = Len(Hooks) THEN "running" ELSE "starting"
    /\ UNCHANGED <<called, timing, call, using, queueing, pool>>

\* net.Listen fails: Fx stops what had started, in what is left of the start timeout,
\* which is the shorter of the two.
StartFails ==
    /\ phase = "starting" /\ Hooks[started + 1] \in {"metrics", "server"}
    /\ phase' = "stopping" /\ grace' \in 0 .. Grace
    /\ UNCHANGED <<started, called, drain, serving, queueing, loop, pool>>

\* SIGTERM or SIGINT.
Signal ==
    /\ phase = "running"
    /\ phase' = "stopping" /\ grace' = Grace
    /\ UNCHANGED <<started, called, drain, serving, queueing, loop, pool>>

-----------------------------------------------------------------------------
(* Work.                                                                    *)

Alive == phase \in {"starting", "running", "stopping"}

\* A request is accepted while the listener is open, and answered in its own time.
AcceptCall(r) ==
    /\ Alive /\ listening /\ call[r] = "none"
    /\ call' = [call EXCEPT ![r] = "open"]
    /\ UNCHANGED <<hooking, timing, using, listening, queueing, loop, pool>>

AnswerCall(r) ==
    /\ Alive /\ call[r] = "open" /\ r \notin using
    /\ call' = [call EXCEPT ![r] = "answered"]
    /\ UNCHANGED <<hooking, timing, using, listening, queueing, loop, pool>>

\* A handler that was cut off returns, and nobody hears its answer.
Unwind(r) ==
    /\ Alive /\ call[r] = "unwinding" /\ r \notin using
    /\ call' = [call EXCEPT ![r] = "cut"]
    /\ UNCHANGED <<hooking, timing, using, listening, queueing, loop, pool>>

\* An attempt begins: its transaction takes a connection.  A handler takes one for each
\* of its attempts and lookups, has none between them, and may ask after it was cut off:
\* it learns of that later, and the mutex of the key set does not look.
AcquireConn(r) ==
    /\ Alive /\ call[r] \in {"open", "unwinding"} /\ r \notin using
    /\ pool = "open"
    /\ using' = using \cup {r}
    /\ UNCHANGED <<hooking, timing, call, listening, queueing, loop, pool>>

\* It commits or rolls back, also under a context that is cancelled.
ReleaseConn(r) ==
    /\ Alive /\ r \in using
    /\ using' = using \ {r}
    /\ UNCHANGED <<hooking, timing, call, listening, queueing, loop, pool>>

\* The worker and the publisher work under the context their hook cancels: a
\* transaction in progress ends, committed or rolled back, and Run returns.
TakeWork(l) ==
    /\ Alive /\ l # "consumers" /\ loop[l] = "idle"
    /\ loop' = [loop EXCEPT ![l] = "busy"]
    /\ UNCHANGED <<hooking, timing, serving, queueing, pool>>

WorkDone(l) ==
    /\ Alive /\ l # "consumers"
    /\ \/ loop[l] = "busy" /\ loop' = [loop EXCEPT ![l] = "idle"]
       \/ loop[l] = "cancelled" /\ loop' = [loop EXCEPT ![l] = "returned"]
    /\ UNCHANGED <<hooking, timing, serving, queueing, pool>>

\* RunOnce: Receive returns a batch.
ReceiveBatch(ms) ==
    /\ Alive /\ loop["consumers"] = "idle"
    /\ ms # {} /\ Cardinality(ms) <= Batch /\ ms \cap settled = {}
    /\ hand' = ms
    /\ loop' = [loop EXCEPT !["consumers"] = "busy"]
    /\ UNCHANGED <<hooking, timing, serving, settled, pool>>

\* A batch in hand is finished under a context that stopping does not cancel.
BatchGoesOn(m) == m \in hand /\ loop["consumers"] \in {"busy", "cancelled"}

AfterMessage ==
    IF hand' # {} THEN loop
    ELSE [loop EXCEPT !["consumers"] = IF @ = "busy" THEN "idle" ELSE "returned"]

\* handle and finish: the message is deleted, or released to come back.
HandleMessage(m) ==
    /\ Alive /\ BatchGoesOn(m)
    /\ hand' = hand \ {m}
    /\ settled' \in {settled, settled \cup {m}}
    /\ loop' = AfterMessage
    /\ UNCHANGED <<hooking, timing, serving, pool>>

-----------------------------------------------------------------------------
(* OnStop, in reverse order; Fx looks at the deadline before each.          *)

Stopping(h) == phase = "stopping" /\ started > 0 /\ Hooks[started] = h

\* The loop's context is cancelled: an idle one returns at once, and so does a
\* Receive that is out.
Cancelled(state) == IF state = "idle" THEN "returned" ELSE "cancelled"

\* OnStop of the worker, the consumers and the publisher.
CancelLoop(h) == IF h \in Loops THEN [loop EXCEPT ![h] = Cancelled(@)] ELSE loop

\* OnStop of the server: Shutdown closes the listener, under a deadline of its own.
StopListening(h) == listening /\ h # "server"
DrainLeft(h)     == IF h = "server" THEN DrainTime ELSE drain

\* OnStop of the pool: Close refuses new acquisitions at once.
RefuseAcquire(h) == IF h = "pool" THEN "closing" ELSE pool

\* Fx calls the hook.
CallStop(h) ==
    /\ Stopping(h) /\ ~called /\ grace > 0
    /\ called' = TRUE
    /\ loop' = CancelLoop(h)
    /\ listening' = StopListening(h) /\ drain' = DrainLeft(h)
    /\ pool' = RefuseAcquire(h)
    /\ UNCHANGED <<phase, started, grace, call, using, queueing>>

\* The drain's own deadline passes: server.Close cuts off what is left.
CloseServer ==
    /\ Stopping("server") /\ called /\ drain = 0 /\ InFlight({"open"}) # {}
    /\ call' = [r \in Calls |-> IF call[r] = "open" THEN "unwinding" ELSE call[r]]
    /\ UNCHANGED <<hooking, timing, using, listening, queueing, loop, pool>>

\* What each OnStop waits for.  The done channel of a loop:
PublisherDone == loop["publisher"] = "returned"

\* Fault: OnStop cancels the consumers and does not wait for them.
ConsumersNotAwaited == TRUE

ConsumersDone == loop["consumers"] = "returned"
WorkerDone    == loop["worker"] = "returned"

\* the requests the server has, until their time is up:
ServerDrained == InFlight({"open"}) = {}

\* and the connections that are out, whoever has them.
ConnectionsBack == using = {}

StopDone(h) ==
    /\ h = "publisher" => PublisherDone
    /\ h = "consumers" => ConsumersDone
    /\ h = "worker" => WorkerDone
    /\ h = "server" => ServerDrained
    /\ h = "pool" => ConnectionsBack

StopReturns(h) ==
    /\ Stopping(h) /\ called /\ StopDone(h)
    /\ called' = FALSE /\ started' = started - 1
    /\ pool' = IF h = "pool" THEN "closed" ELSE pool
    /\ UNCHANGED <<phase, timing, serving, queueing, loop>>

\* Time passes while the process stops; the drain is closed when its time is up.
PassGrace ==
    /\ phase = "stopping" /\ grace > 0
    /\ ~(Stopping("server") /\ called /\ drain = 0)
    /\ grace' = grace - 1
    /\ drain' = IF Stopping("server") /\ called THEN drain - 1 ELSE drain
    /\ UNCHANGED <<hooking, serving, queueing, loop, pool>>

\* Every hook has stopped, or the stop timeout passes: the process ends where it is.
Exit ==
    /\ phase = "stopping" /\ started = 0
    /\ phase' = "exited"
    /\ UNCHANGED <<started, called, timing, serving, queueing, loop, pool>>

GraceExpires ==
    /\ phase = "stopping" /\ grace = 0
    /\ phase' = "exited"
    /\ UNCHANGED <<started, called, timing, serving, queueing, loop, pool>>

-----------------------------------------------------------------------------
LifeInit ==
    /\ phase = "starting" /\ started = 0 /\ called = FALSE
    /\ grace = 0 /\ drain = 0
    /\ loop = [l \in Loops |-> "off"]
    /\ call = [r \in Calls |-> "none"] /\ using = {}
    /\ hand = {} /\ settled = {}
    /\ listening = FALSE /\ pool = "open"

StopSteps ==
    \/ \E h \in {Hooks[i] : i \in DOMAIN Hooks} : CallStop(h) \/ StopReturns(h)
    \/ CloseServer \/ PassGrace \/ Exit \/ GraceExpires

WorkSteps ==
    \/ \E r \in Calls : \/ AcceptCall(r) \/ AnswerCall(r) \/ Unwind(r)
                        \/ AcquireConn(r) \/ ReleaseConn(r)
    \/ \E l \in Loops : TakeWork(l) \/ WorkDone(l)
    \/ \E ms \in SUBSET Inbound : ReceiveBatch(ms)
    \/ \E m \in Inbound : HandleMessage(m)

Gone == phase = "exited" /\ UNCHANGED lifeVars

LifeNext == StartHook \/ StartFails \/ Signal \/ StopSteps \/ WorkSteps \/ Gone

LifeSpec == LifeInit /\ [][LifeNext]_lifeVars

-----------------------------------------------------------------------------
\* Only a consumer has messages in hand, only a request that is being handled has a
\* connection, and only a started loop works.
LifeTypeOK ==
    /\ phase \in {"starting", "running", "stopping", "exited"}
    /\ started \in 0 .. Len(Hooks) /\ grace \in 0 .. Grace /\ drain \in 0 .. DrainTime
    /\ loop \in [Loops -> {"off", "idle", "busy", "cancelled", "returned"}]
    /\ call \in [Calls -> {"none", "open", "answered", "unwinding", "cut"}]
    /\ using \subseteq InFlight({"open", "unwinding"})
    /\ pool \in {"open", "closing", "closed"}
    /\ hand # {} => loop["consumers"] \in {"busy", "cancelled"}

\* The pool refuses nobody that can still be answered: once it closes, no loop runs, no
\* message is in hand, no request is waiting for an answer and none can come (the order
\* of the hooks and what each waits for).  Once it is closed no transaction is open on
\* it, not even one of a request that was cut off.
PoolClosedLast ==
    /\ pool # "open" =>
          /\ \A l \in Loops : loop[l] \in {"off", "returned"}
          /\ ~listening /\ InFlight({"open"}) = {} /\ hand = {}
    /\ pool = "closed" => using = {}

\* A process that ends before its stop timeout leaves nothing half done: every loop
\* returned, every message in hand deleted or released, every transaction ended, the
\* listener and the pool closed, except the pool when the first hook already failed to
\* start.  A request that was cut off may still be between two transactions.
ExitIsClean ==
    phase = "exited" /\ grace > 0 =>
        /\ hand = {} /\ ~listening /\ InFlight({"open"}) = {} /\ using = {}
        /\ \A l \in Loops : loop[l] \in {"off", "returned"}
        /\ pool = "closed" \/ \A l \in Loops : loop[l] = "off"

\* What the comments on Consumer.RunOnce and runConsumers promise: what does not fit
\* in the deadline has its visibility released.
ReleasedAtExit == phase = "exited" => hand = {}
=============================================================================
