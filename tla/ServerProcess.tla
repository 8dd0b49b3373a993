---------------------------- MODULE ServerProcess ----------------------------
(***************************************************************************)
(* One life of the server process (cmd/server/main.go): what is started, in   *)
(* which order, what ends the process on the way, and the shutdown: drain the *)
(* HTTP server, then the deferred calls, last registered first.                *)
(*                                                                         *)
(* What the parts do is in their own modules; here a worker or a request is   *)
(* told, runs, and may hold a connection of the pool.  Requests are those of   *)
(* the API and the event streams, which end when the client goes.             *)
(***************************************************************************)
EXTENDS Naturals, Sequences, FiniteSets, SequencesExt

CONSTANTS HttpRequests   \* connections of clients

ASSUME ServerProcessAssumption == IsFiniteSet(HttpRequests)

VARIABLES
    life,       \* "starting", "serving", "draining", "closing", "exited"
    step,       \* start: steps taken
    deferred,   \* deferred calls still to run
    worker,     \* worker[w]: none, running, told to stop, stopped
    http,       \* http[q]: none, running, done, cut off when the process ended
    holding,    \* workers and requests that hold a connection of the pool
    poolOpen, emitterOpen,
    drained,    \* how the drain ended: "no", "empty", "timeout"
    abrupt,     \* history: the process ended without its deferred calls
    lateEmit    \* history: requests that emitted an event after the emitter was closed

serverVars == <<life, step, deferred, worker, http, holding, poolOpen, emitterOpen, drained, abrupt, lateEmit>>

\* main, in order.  Each worker has a context that its deferred call cancels.
StartSteps == <<"config", "pool", "ping", "migrate", "webhooks", "scheduler", "listener", "email",
                "emitter", "lifecycle", "recorder", "router", "listen">>
Workers_ == {"webhooks", "scheduler", "listener", "lifecycle", "recorder", "router"}

\* Mutant: the pool is given back before the workers are told.
DeferredPoolFirst == <<"pool", "router", "recorder", "lifecycle", "emitter", "listener", "scheduler", "webhooks">>

\* The deferred calls, last registered first: they run only when main returns, and by then
\* every step has registered its own.
DeferredCalls == <<"router", "recorder", "lifecycle", "emitter", "listener", "scheduler", "webhooks", "pool">>

ServerProcessTypeOK ==
    /\ life \in {"starting", "serving", "draining", "closing", "exited"} /\ step \in 0..Len(StartSteps)
    /\ worker \in [Workers_ -> {"none", "running", "told", "stopped"}]
    /\ http \in [HttpRequests -> {"none", "running", "done", "cut"}]
    /\ holding \subseteq Workers_ \cup HttpRequests
    /\ poolOpen \in BOOLEAN /\ emitterOpen \in BOOLEAN
    /\ drained \in {"no", "empty", "timeout"} /\ abrupt \in BOOLEAN /\ lateEmit \subseteq HttpRequests
    /\ deferred \in Seq(Workers_ \cup {"pool", "emitter"})

ServerProcessInit ==
    /\ life = "starting" /\ step = 0 /\ deferred = <<>>
    /\ worker = [w \in Workers_ |-> "none"] /\ http = [q \in HttpRequests |-> "none"]
    /\ holding = {} /\ poolOpen = FALSE /\ emitterOpen = FALSE
    /\ drained = "no" /\ abrupt = FALSE /\ lateEmit = {}

Alive == life # "exited"

-----------------------------------------------------------------------------
\* The next step of main.  The listener may fail to start: the server goes on without.
Start ==
    /\ life = "starting" /\ step' = step + 1
    /\ LET s == StartSteps[step'] IN
       /\ poolOpen' = (poolOpen \/ s = "pool") /\ emitterOpen' = (emitterOpen \/ s = "emitter")
       /\ \/ worker' = [w \in Workers_ |-> IF w = s THEN "running" ELSE worker[w]]
          \/ s = "listener" /\ worker' = [worker EXCEPT !["listener"] = "stopped"]
       /\ life' = IF step' = Len(StartSteps) THEN "serving" ELSE life
    /\ UNCHANGED <<deferred, http, holding, drained, abrupt, lateEmit>>

\* The end of the process: what runs is cut off.
Exits(how) ==
    /\ life' = "exited" /\ abrupt' = how
    /\ worker' = [w \in Workers_ |-> IF worker[w] = "none" THEN "none" ELSE "stopped"]
    /\ http' = [q \in HttpRequests |-> IF http[q] = "running" THEN "cut" ELSE http[q]]
    /\ holding' = {} /\ poolOpen' = FALSE /\ emitterOpen' = FALSE
    /\ UNCHANGED <<step, deferred, drained, lateEmit>>

\* os.Exit at a fatal step, or when the port cannot be listened on; a signal before
\* signal.Notify.  No deferred call runs.
ExitsAbruptly ==
    /\ \/ life = "starting"
       \/ life = "serving"
    /\ Exits(TRUE)

\* A signal: Shutdown closes the listeners.
Signalled ==
    /\ life = "serving" /\ life' = "draining"
    /\ UNCHANGED <<step, deferred, worker, http, holding, poolOpen, emitterOpen, drained, abrupt, lateEmit>>

\* Shutdown returns when no connection is active, or after 10 seconds with those that are.
Drains ==
    /\ life = "draining" /\ life' = "closing"
    /\ drained' = IF \E q \in HttpRequests : http[q] = "running" THEN "timeout" ELSE "empty"
    /\ deferred' = DeferredCalls
    /\ UNCHANGED <<step, worker, http, holding, poolOpen, emitterOpen, abrupt, lateEmit>>

\* The next deferred call: a context is cancelled; the emitter is closed, after at most five
\* seconds; the pool is closed, which waits for the connections that are out.
RunDeferred ==
    /\ life = "closing" /\ deferred # <<>> /\ deferred' = Tail(deferred)
    /\ LET d == Head(deferred) IN
       /\ worker' = [w \in Workers_ |-> IF w = d /\ worker[w] = "running" THEN "told" ELSE worker[w]]
       /\ emitterOpen' = (emitterOpen /\ d # "emitter")
       /\ poolOpen' = (poolOpen /\ d # "pool")
       /\ d = "pool" => holding = {}
    /\ UNCHANGED <<life, step, http, holding, drained, abrupt, lateEmit>>

MainReturns == life = "closing" /\ deferred = <<>> /\ Exits(FALSE)

-----------------------------------------------------------------------------
Busy(x) == IF x \in Workers_ THEN worker[x] \in {"running", "told"} ELSE http[x] = "running"

\* A connection is taken from the pool, if it is open, and given back.
Acquire(x) ==
    /\ Alive /\ Busy(x) /\ poolOpen /\ x \notin holding /\ holding' = holding \cup {x}
    /\ UNCHANGED <<life, step, deferred, worker, http, poolOpen, emitterOpen, drained, abrupt, lateEmit>>

Release(x) ==
    /\ Alive /\ x \in holding /\ holding' = holding \ {x}
    /\ UNCHANGED <<life, step, deferred, worker, http, poolOpen, emitterOpen, drained, abrupt, lateEmit>>

\* A worker that was told sees it between two pieces of work.
WorkerStops(w) ==
    /\ Alive /\ worker[w] = "told" /\ w \notin holding /\ worker' = [worker EXCEPT ![w] = "stopped"]
    /\ UNCHANGED <<life, step, deferred, http, holding, poolOpen, emitterOpen, drained, abrupt, lateEmit>>

Arrives_(q) ==
    /\ life = "serving" /\ http[q] = "none" /\ http' = [http EXCEPT ![q] = "running"]
    /\ UNCHANGED <<life, step, deferred, worker, holding, poolOpen, emitterOpen, drained, abrupt, lateEmit>>

EmitsEvent(q) ==
    /\ Alive /\ http[q] = "running" /\ ~emitterOpen /\ lateEmit' = lateEmit \cup {q}
    /\ UNCHANGED <<life, step, deferred, worker, http, holding, poolOpen, emitterOpen, drained, abrupt>>

Finishes(q) ==
    /\ Alive /\ http[q] = "running" /\ q \notin holding /\ http' = [http EXCEPT ![q] = "done"]
    /\ UNCHANGED <<life, step, deferred, worker, holding, poolOpen, emitterOpen, drained, abrupt, lateEmit>>

ServerProcessNext ==
    \/ Start \/ ExitsAbruptly \/ Signalled \/ Drains \/ RunDeferred \/ MainReturns
    \/ \E x \in Workers_ \cup HttpRequests : Acquire(x) \/ Release(x)
    \/ \E w \in Workers_ : WorkerStops(w)
    \/ \E q \in HttpRequests : Arrives_(q) \/ EmitsEvent(q) \/ Finishes(q)

ServerProcessSpec == ServerProcessInit /\ [][ServerProcessNext]_serverVars

-----------------------------------------------------------------------------
\* In an orderly shutdown the pool is closed last, when every worker was told to stop and
\* nobody holds a connection; and a request finds the emitter closed, or is cut off, only
\* if the drain had timed out (main.go: Shutdown, then the deferred calls).
ShutdownOrdered ==
    /\ life = "closing" /\ ~poolOpen =>
          /\ holding = {} /\ \A w \in Workers_ : worker[w] \in {"told", "stopped"}
          /\ ~emitterOpen /\ deferred = <<>>
    /\ lateEmit # {} => drained = "timeout"
    /\ (\E q \in HttpRequests : http[q] = "cut") => abrupt \/ drained = "timeout"

-----------------------------------------------------------------------------
(* How far the process is says what is open and who runs.                    *)

\* While it starts: the steps taken, and no request yet.
StartedInOrder ==
    life = "starting" =>
        /\ step < Len(StartSteps) /\ deferred = <<>> /\ drained = "no"
        /\ (poolOpen <=> step >= 2) /\ (emitterOpen <=> step >= 9)
        /\ \A i \in 1..Len(StartSteps) :
              StartSteps[i] \in Workers_ /\ i <= step => worker[StartSteps[i]] # "none"
        /\ \A q \in HttpRequests : http[q] = "none"

\* While it serves or drains, everything was started.
ServesWithAll ==
    life \in {"serving", "draining"} =>
        /\ drained = "no" /\ deferred = <<>> /\ poolOpen /\ emitterOpen
        /\ \A w \in Workers_ : worker[w] # "none"

\* While it closes: the calls still to run are the last of DeferredCalls, and the others
\* have been made.
CallsMade == Len(DeferredCalls) - Len(deferred)
ClosedInOrder ==
    life = "closing" =>
        /\ Len(deferred) <= Len(DeferredCalls)
        /\ \A i \in 1..Len(deferred) : deferred[i] = DeferredCalls[CallsMade + i]
        /\ (emitterOpen <=> CallsMade < 4) /\ (poolOpen <=> CallsMade < 8)
        /\ \A w \in Workers_ : worker[w] # "none"
        /\ \A j \in 1..Len(DeferredCalls) : DeferredCalls[j] \in Workers_ /\ j <= CallsMade =>
                                               worker[DeferredCalls[j]] \in {"told", "stopped"}
        /\ ~poolOpen => holding = {}
        /\ drained # "no"
        /\ drained = "empty" => \A q \in HttpRequests : http[q] # "running"

\* The inductive invariant of the process.
ServerProcessInv ==
    /\ ServerProcessTypeOK /\ StartedInOrder /\ ServesWithAll /\ ClosedInOrder
    /\ lateEmit # {} => drained = "timeout"
    /\ \A q \in HttpRequests : http[q] = "cut" => life = "exited" /\ (abrupt \/ drained = "timeout")
=============================================================================
