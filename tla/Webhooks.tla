------------------------------ MODULE Webhooks ------------------------------
(***************************************************************************)
(* The webhook dispatcher (internal/webhook): the notifier that turns a flag *)
(* change into an event, the two bounded queues, the dispatcher goroutine,   *)
(* the workers with their retries, and the webhook rows administrators edit  *)
(* meanwhile.  One organization in one server process.                       *)
(***************************************************************************)
EXTENDS Naturals, Sequences, FiniteSets

CONSTANTS
    Hooks,      \* webhook rows the organization may create
    Workers,    \* worker goroutines (10)
    QueueCap,   \* capacity of the events channel and of the work channel (256)
    MaxRetries, \* attempts of one delivery (3)
    MaxEvents,  \* bound: flag changes notified
    MaxEdits    \* bound: edits of the webhook rows

ASSUME WebhookAssumption ==
    /\ QueueCap \in Nat \ {0} /\ MaxRetries \in Nat \ {0}
    /\ MaxEvents \in Nat /\ MaxEdits \in Nat

VARIABLES
    hooks,    \* hooks[h]: absent, disabled, enabled, or enabled with a broken URL
    edits,    \* edits made
    notified, \* events the notifier has made: 1..notified
    events,   \* Dispatcher.events
    disp,     \* the dispatcher goroutine
    work,     \* Dispatcher.work
    worker,   \* worker[w]: the delivery it makes
    whCtx,    \* the dispatcher's context: "live", "cancelled"; "exited" with the process
    received, \* received[d]: how often the endpoint got the POST of delivery d
    rows,     \* webhook_deliveries: <<delivery, success>>
    owed,     \* history: deliveries the dispatcher found to make
    lost      \* history: deliveries that will leave no row

webhookVars == <<hooks, edits, notified, events, disp, work, worker, whCtx,
                 received, rows, owed, lost>>

HookStates == {"absent", "off", "on", "broken"}
Deliveries == Hooks \X (1..MaxEvents)
\* org is FALSE when the organization could not be resolved.
Event == [id : 1..MaxEvents, org : BOOLEAN]
\* A job carries the row as it was listed.
Job == [d : Deliveries, broken : BOOLEAN]
Idle == [pc |-> "idle"]
Busy == [pc : {"try", "record"}, job : Job, attempt : 1..MaxRetries, ok : BOOLEAN]
NoDispatch == [pc |-> "wait", todo |-> {}]

WebhookTypeOK ==
    /\ hooks \in [Hooks -> HookStates] /\ edits \in 0..MaxEdits
    /\ notified \in 0..MaxEvents
    /\ events \in Seq(Event) /\ Len(events) <= QueueCap
    /\ disp \in [pc : {"wait", "fan", "returned"}, todo : SUBSET Job]
    /\ work \in Seq(Job) /\ Len(work) <= QueueCap
    /\ worker \in [Workers -> {Idle} \cup Busy]
    /\ whCtx \in {"live", "cancelled", "exited"}
    /\ received \in [Deliveries -> 0..MaxRetries]
    /\ rows \subseteq Deliveries \X BOOLEAN
    /\ owed \subseteq Deliveries /\ lost \subseteq Deliveries

WebhookInit ==
    /\ hooks = [h \in Hooks |-> "absent"] /\ edits = 0
    /\ notified = 0 /\ events = <<>> /\ work = <<>>
    /\ disp = NoDispatch
    /\ worker = [w \in Workers |-> Idle]
    /\ whCtx = "live"
    /\ received = [d \in Deliveries |-> 0]
    /\ rows = {} /\ owed = {} /\ lost = {}

goroutines == <<notified, events, disp, work, worker, whCtx, received, owed>>

-----------------------------------------------------------------------------
(***************************************************************************)
(* The rows.  Create validates the URL, Update takes what it is given.       *)
(***************************************************************************)
CreateWebhook(h) ==
    /\ hooks[h] = "absent" /\ edits < MaxEdits
    /\ hooks' = [hooks EXCEPT ![h] = "on"]
    /\ edits' = edits + 1
    /\ UNCHANGED <<goroutines, rows, lost>>

UpdateWebhook(h) ==
    /\ hooks[h] # "absent" /\ edits < MaxEdits
    /\ \E s \in HookStates \ {"absent"} : hooks' = [hooks EXCEPT ![h] = s]
    /\ edits' = edits + 1
    /\ UNCHANGED <<goroutines, rows, lost>>

\* The delivery rows go with the webhook (ON DELETE CASCADE).
DeleteWebhook(h) ==
    /\ hooks[h] # "absent" /\ edits < MaxEdits
    /\ hooks' = [hooks EXCEPT ![h] = "absent"]
    /\ rows' = {x \in rows : x[1][1] # h}
    /\ lost' = lost \cup {x[1] : x \in rows \ rows'}
    /\ edits' = edits + 1
    /\ UNCHANGED goroutines

-----------------------------------------------------------------------------
(***************************************************************************)
(* Notifier and dispatcher goroutine.                                        *)
(***************************************************************************)
\* NotifyFlagChange and Enqueue: an organization that cannot be resolved is
\* passed on as "", a full queue drops the event.
NotifyFlagChange ==
    /\ whCtx # "exited" /\ notified < MaxEvents
    /\ notified' = notified + 1
    /\ \E org \in BOOLEAN :
          events' = IF Len(events) = QueueCap THEN events
                    ELSE Append(events, [id |-> notified', org |-> org])
    /\ UNCHANGED <<hooks, edits, disp, work, worker, whCtx, received, rows,
                   owed, lost>>

Matching == {h \in Hooks : hooks[h] \in {"on", "broken"}}
JobsFor(hs, id) == {[d |-> <<h, id>>, broken |-> hooks[h] = "broken"] : h \in hs}

\* dispatch: an error of ListWebhooks drops the event; a connection that breaks
\* while the rows are read looks like a shorter list (rows.Err is not checked).
Dispatch ==
    /\ whCtx # "exited" /\ disp.pc = "wait" /\ events # <<>>
    /\ events' = Tail(events)
    /\ LET e == Head(events) IN
       \/ \E got \in SUBSET Matching :
            /\ e.org
            /\ owed' = owed \cup {<<h, e.id>> : h \in Matching}
            /\ lost' = lost \cup {<<h, e.id>> : h \in Matching \ got}
            /\ disp' = [pc |-> "fan", todo |-> JobsFor(got, e.id)]
       \/ UNCHANGED <<owed, lost, disp>>
    /\ UNCHANGED <<hooks, edits, notified, work, worker, whCtx, received, rows>>

\* Mutant: a full work queue drops the delivery.
FanOutOrDrop ==
    /\ whCtx # "exited" /\ disp.pc = "fan"
    /\ \E j \in disp.todo :
         /\ work' = IF Len(work) < QueueCap THEN Append(work, j) ELSE work
         /\ disp' = [disp EXCEPT !.todo = @ \ {j}]
    /\ UNCHANGED <<hooks, edits, notified, events, worker, whCtx, received,
                   rows, owed, lost>>

\* One delivery into the work queue, waiting while it is full.
FanOut ==
    /\ whCtx # "exited" /\ disp.pc = "fan"
    /\ \E j \in disp.todo :
         /\ Len(work) < QueueCap
         /\ work' = Append(work, j)
         /\ disp' = [disp EXCEPT !.todo = @ \ {j}]
    /\ UNCHANGED <<hooks, edits, notified, events, worker, whCtx, received,
                   rows, owed, lost>>

FannedOut ==
    /\ disp.pc = "fan" /\ disp.todo = {}
    /\ disp' = NoDispatch
    /\ UNCHANGED <<hooks, edits, notified, events, work, worker, whCtx,
                   received, rows, owed, lost>>

\* ctx.Done: the fan-out stops where it is, the goroutine closes work and ends.
DispatcherReturns ==
    /\ whCtx = "cancelled" /\ disp.pc # "returned"
    /\ disp' = [pc |-> "returned", todo |-> {}]
    /\ lost' = lost \cup {j.d : j \in disp.todo}
    /\ UNCHANGED <<hooks, edits, notified, events, work, worker, whCtx,
                   received, rows, owed>>

-----------------------------------------------------------------------------
(***************************************************************************)
(* The workers.                                                              *)
(***************************************************************************)
\* range d.work: what is buffered is still served after work is closed.
Take(w) ==
    /\ whCtx # "exited" /\ worker[w] = Idle /\ work # <<>>
    /\ worker' = [worker EXCEPT ![w] =
                    [pc |-> "try", job |-> Head(work), attempt |-> 1, ok |-> FALSE]]
    /\ work' = Tail(work)
    /\ UNCHANGED <<hooks, edits, notified, events, disp, whCtx, received, rows,
                   owed, lost>>

\* No request can be made for the URL: deliver returns and records nothing.
BadURL(w) ==
    /\ whCtx # "exited" /\ worker[w] # Idle /\ worker[w].pc = "try"
    /\ worker[w].job.broken
    /\ worker' = [worker EXCEPT ![w] = Idle]
    /\ lost' = lost \cup {worker[w].job.d}
    /\ UNCHANGED <<hooks, edits, notified, events, disp, work, whCtx, received,
                   rows, owed>>

Trying(w) ==
    /\ whCtx # "exited" /\ worker[w] # Idle /\ worker[w].pc = "try"
    /\ ~worker[w].job.broken

Received(w) == received' = [received EXCEPT ![worker[w].job.d] = @ + 1]

\* 2xx and 4xx end the loop.
Answered(w) ==
    /\ Trying(w) /\ whCtx = "live"
    /\ Received(w)
    /\ \E ok \in BOOLEAN :
          worker' = [worker EXCEPT ![w].pc = "record", ![w].ok = ok]
    /\ UNCHANGED <<hooks, edits, notified, events, disp, work, whCtx, rows,
                   owed, lost>>

\* Mutant: the attempts are not counted.
RetryForever(w) ==
    /\ Trying(w)
    /\ worker' = worker
    /\ UNCHANGED <<hooks, edits, notified, events, disp, work, whCtx, rows,
                   owed, lost, received>>

NextTry(b) ==
    IF b.attempt < MaxRetries THEN [b EXCEPT !.attempt = @ + 1]
    ELSE [b EXCEPT !.pc = "record"]

\* A transport error, a timeout or a 5xx: again, up to MaxRetries.  The endpoint
\* may have got the request.  A cancelled context does not end the loop (its
\* break leaves only the select): the attempts that are left fail at once.
Retry(w) ==
    /\ Trying(w)
    /\ worker' = [worker EXCEPT ![w] = NextTry(@)]
    /\ \/ whCtx = "live" /\ Received(w)
       \/ UNCHANGED received
    /\ UNCHANGED <<hooks, edits, notified, events, disp, work, whCtx, rows,
                   owed, lost>>

\* CreateWebhookDelivery, with the dispatcher's context; an error (cancelled,
\* webhook deleted, database down) is only logged.
Record(w) ==
    /\ whCtx # "exited" /\ worker[w] # Idle /\ worker[w].pc = "record"
    /\ LET d == worker[w].job.d IN
       \/ /\ whCtx = "live" /\ hooks[d[1]] # "absent"
          /\ rows' = rows \cup {<<d, worker[w].ok>>}
          /\ UNCHANGED lost
       \/ /\ lost' = lost \cup {d}
          /\ UNCHANGED rows
    /\ worker' = [worker EXCEPT ![w] = Idle]
    /\ UNCHANGED <<hooks, edits, notified, events, disp, work, whCtx, received,
                   owed>>

\* whCancel, a deferred call of main.
CancelDispatcher ==
    /\ whCtx = "live"
    /\ whCtx' = "cancelled"
    /\ UNCHANGED <<hooks, edits, notified, events, disp, work, worker,
                   received, rows, owed, lost>>

InTodo == {j.d : j \in disp.todo}
InWork == {work[i].d : i \in 1..Len(work)}
InWorkers == {worker[w].job.d : w \in {v \in Workers : worker[v] # Idle}}
InFlight == InTodo \cup InWork \cup InWorkers

\* main returns without waiting for dispatcher or workers.
ExitWebhooks ==
    /\ whCtx = "cancelled"
    /\ whCtx' = "exited"
    /\ lost' = lost \cup InFlight
    /\ events' = <<>> /\ work' = <<>>
    /\ disp' = [pc |-> "returned", todo |-> {}]
    /\ worker' = [w \in Workers |-> Idle]
    /\ UNCHANGED <<hooks, edits, notified, received, rows, owed>>

Dispatcher == Dispatch \/ FanOut \/ FannedOut \/ DispatcherReturns
Worker(w) == Take(w) \/ BadURL(w) \/ Answered(w) \/ Retry(w) \/ Record(w)

WebhookNext ==
    \/ \E h \in Hooks : CreateWebhook(h) \/ UpdateWebhook(h) \/ DeleteWebhook(h)
    \/ NotifyFlagChange \/ Dispatcher \/ CancelDispatcher \/ ExitWebhooks
    \/ \E w \in Workers : Worker(w)

\* The goroutines run.
WebhookFairness ==
    /\ WF_webhookVars(Dispatcher)
    /\ \A w \in Workers : WF_webhookVars(Worker(w))

WebhookSpec == WebhookInit /\ [][WebhookNext]_webhookVars /\ WebhookFairness

-----------------------------------------------------------------------------
\* The log tells the truth about success: a row that says so stands for a
\* request the endpoint answered, and no endpoint gets an event more often than
\* the attempts allow, whatever is cancelled, deleted or edited meanwhile.
SuccessIsReal ==
    /\ \A x \in rows : x[2] => received[x[1]] > 0
    /\ \A w \in Workers : worker[w] # Idle /\ worker[w].pc = "try" =>
          received[worker[w].job.d] < worker[w].attempt

\* Every delivery the dispatcher found to make is being made, has left its row,
\* or was lost in one of the ways the code knows; it is in one place only, and
\* in flight at most once: no delivery vanishes in the queues, and the retries
\* never make a second delivery row.  What its row says is true.
DeliveryConserved ==
    /\ owed = InFlight \cup {x[1] : x \in rows} \cup lost
    /\ InFlight \cap ({x[1] : x \in rows} \cup lost) = {}
    /\ \A w, v \in Workers :
          worker[w] # Idle /\ worker[v] # Idle /\ worker[w].job.d = worker[v].job.d => w = v
    /\ \A x, y \in rows : x[1] = y[1] => x = y
    /\ SuccessIsReal

(***************************************************************************)
(* Why, as an invariant: a delivery is in one place of the fan-out, the work *)
(* queue and the workers; an event in the queue was never dispatched, so the *)
(* deliveries it makes are new; and nothing is posted before a worker has it. *)
(***************************************************************************)
OnePlace ==
    /\ \A j, k \in disp.todo : j.d = k.d => j = k
    /\ \A i, k \in 1..Len(work) : work[i].d = work[k].d => i = k
    /\ InTodo \cap (InWork \cup InWorkers) = {} /\ InWork \cap InWorkers = {}

NewEvents ==
    /\ \A i, k \in 1..Len(events) : events[i].id = events[k].id => i = k
    /\ \A i \in 1..Len(events) : events[i].id <= notified
    /\ \A d \in owed, i \in 1..Len(events) : d[2] # events[i].id
    /\ \A d \in owed : d[2] <= notified

PostedByWorker ==
    /\ disp.pc # "fan" => disp.todo = {}
    /\ \A d \in Deliveries : received[d] > 0 => d \in owed \ (InTodo \cup InWork)
    /\ \A w \in Workers : worker[w] # Idle /\ worker[w].ok =>
          worker[w].pc = "record" /\ received[worker[w].job.d] > 0

WebhookInv == WebhookTypeOK /\ DeliveryConserved /\ OnePlace /\ NewEvents /\ PostedByWorker

\* A delivery does not stay in the queues: it is recorded or given up, also
\* during a shutdown.
DeliveriesSettle ==
    \A d \in Deliveries : d \in InFlight ~> d \notin InFlight
=============================================================================
