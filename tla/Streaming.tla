----------------------------- MODULE Streaming -----------------------------
(***************************************************************************)
(* How a change of an environment reaches the processes that evaluate its   *)
(* flags: the SSE server (internal/sse/server.go) with its client map and   *)
(* its buffered channels, the Go SDK (sdks/go/client.go) polling or         *)
(* streaming, and the relay proxy (cmd/relay/main.go) streaming.            *)
(*                                                                         *)
(* One environment, one server process.  What GET /flags answers is the     *)
(* version of the environment; a flag-update event carries no values, it    *)
(* only makes its receiver fetch.                                           *)
(***************************************************************************)
EXTENDS Naturals, FiniteSets

CONSTANTS
    Pollers,    \* SDK clients with polling
    Streamers,  \* SDK clients with WithSSE(true)
    Relays,     \* relay proxies with -sse
    Nobody,     \* nothing in hand, nobody's turn
    BufSize,    \* capacity of Client.events (64)
    MaxChanges, \* bound: changes of the environment
    MaxReaders  \* bound: readers created

Readers == Pollers \cup Streamers \cup Relays

ASSUME StreamAssumption ==
    /\ BufSize \in Nat \ {0}
    /\ MaxChanges \in Nat /\ MaxReaders \in Nat
    /\ Nobody \notin Nat /\ Nobody \notin Readers
    /\ Pollers \cap (Streamers \cup Relays) = {}

VARIABLES
    version,  \* the environment's version
    pending,  \* notifications the listener goroutine has not broadcast yet
    serving,  \* the server process runs
    bcast,    \* the BroadcastFlagUpdate call in progress
    registry, \* Server.clients[env]: whose Client is in the map
    buf,      \* buf[r]: events in r's channel, on their way to it included
    mute,     \* streams whose write deadline has passed: writes are lost
    stage,    \* stage[r]: where r's goroutine is
    answer,   \* answer[r]: the version a response on its way to r holds
    held,     \* held[r]: the version in r's flags map, Nobody before the first
    ready,    \* clients whose Ready channel is closed
    closing,  \* clients whose context Close has cancelled
    missed    \* history: r may have missed an event since its last fetch

streamVars == <<version, pending, serving, bcast, registry, buf, mute, stage,
                answer, held, ready, closing, missed>>
server == <<pending, serving, bcast, registry, buf, mute>>

\* "off" is not created yet; "init", "tick" and "event" fetch; "idle" waits for the ticker, "dial"
\* connects, "read" scans the stream, "closed" has returned.
Stages == {"off", "init", "tick", "event", "idle", "dial", "read", "closed"}
Fetching == {"init", "tick", "event"}

Broadcast == [pc : {"idle", "range", "send"}, todo : SUBSET Readers,
              to : Readers \cup {Nobody}, gone : BOOLEAN]
NoBroadcast == [pc |-> "idle", todo |-> {}, to |-> Nobody, gone |-> FALSE]

StreamTypeOK ==
    /\ version \in Nat /\ pending \in Nat /\ serving \in BOOLEAN
    /\ bcast \in Broadcast
    /\ registry \subseteq Readers \ Pollers
    /\ buf \in [Readers -> 0..BufSize]
    /\ mute \subseteq Relays
    /\ stage \in [Readers -> Stages]
    /\ answer \in [Readers -> Nat \cup {Nobody}]
    /\ held \in [Readers -> Nat \cup {Nobody}]
    /\ ready \subseteq Readers
    /\ closing \subseteq Readers
    /\ missed \subseteq Readers

StreamInit ==
    /\ version = 0 /\ pending = 0 /\ serving = TRUE
    /\ bcast = NoBroadcast
    /\ registry = {} /\ mute = {}
    /\ buf = [r \in Readers |-> 0]
    /\ stage = [r \in Readers |-> "off"]
    /\ answer = [r \in Readers |-> Nobody]
    /\ held = [r \in Readers |-> Nobody]
    /\ ready = {} /\ closing = {} /\ missed = {}

-----------------------------------------------------------------------------
(***************************************************************************)
(* The server process.                                                      *)
(***************************************************************************)
\* The process dies: a fatal error of the Go runtime, a panic of the listener
\* goroutine, or a deployment.  Every stream breaks; a reader in the middle of
\* a fetch finds out afterwards.
Dies ==
    /\ serving' = FALSE
    /\ pending' = 0
    /\ bcast' = NoBroadcast
    /\ registry' = {} /\ mute' = {}
    /\ buf' = [r \in Readers |-> 0]
    /\ stage' = [r \in Readers |-> IF stage[r] = "read" THEN "dial" ELSE stage[r]]

Stop ==
    /\ serving
    /\ Dies
    /\ UNCHANGED <<version, answer, held, ready, closing, missed>>

Restart ==
    /\ ~serving
    /\ serving' = TRUE
    /\ UNCHANGED <<version, pending, bcast, registry, buf, mute, stage, answer,
                   held, ready, closing, missed>>

\* A row changes; a process that is down is not told, and not later either.
Change ==
    /\ version < MaxChanges
    /\ version' = version + 1
    /\ pending' = IF serving THEN pending + 1 ELSE 0
    /\ UNCHANGED <<serving, bcast, registry, buf, mute, stage, answer, held,
                   ready, closing, missed>>

\* The map is fetched under the lock and ranged over without it.
StartBroadcast ==
    /\ bcast.pc = "idle" /\ pending > 0
    /\ pending' = pending - 1
    /\ bcast' = [NoBroadcast EXCEPT !.pc = "range", !.todo = registry]
    /\ UNCHANGED <<version, serving, registry, buf, mute, stage, answer, held,
                   ready, closing, missed>>

NextClient(r) ==
    /\ bcast.pc = "range" /\ r \in bcast.todo
    /\ bcast' = [bcast EXCEPT !.pc = "send", !.todo = @ \ {r}, !.to = r]
    /\ UNCHANGED <<version, pending, serving, registry, buf, mute, stage,
                   answer, held, ready, closing, missed>>

\* Mutant: a full buffer is emptied instead of the event being dropped.
SendOrFlush ==
    /\ bcast.pc = "send" /\ ~bcast.gone
    /\ buf' = [buf EXCEPT ![bcast.to] = IF @ = BufSize THEN 0 ELSE @ + 1]
    /\ bcast' = [bcast EXCEPT !.pc = "range", !.to = Nobody]
    /\ UNCHANGED <<version, pending, serving, registry, mute, stage, answer,
                   held, ready, closing, missed>>

\* select { case client.events <- payload: default: }: an event that finds the
\* buffer full is dropped.
Send ==
    /\ bcast.pc = "send" /\ ~bcast.gone
    /\ buf' = [buf EXCEPT ![bcast.to] = IF @ = BufSize THEN @ ELSE @ + 1]
    /\ bcast' = [bcast EXCEPT !.pc = "range", !.to = Nobody]
    /\ UNCHANGED <<version, pending, serving, registry, mute, stage, answer,
                   held, ready, closing, missed>>

\* removeClient has closed the channel the broadcast holds: a panic.
SendOnClosed ==
    /\ bcast.pc = "send" /\ bcast.gone
    /\ Dies
    /\ UNCHANGED <<version, answer, held, ready, closing, missed>>

EndBroadcast ==
    /\ bcast.pc = "range" /\ bcast.todo = {}
    /\ bcast' = NoBroadcast
    /\ UNCHANGED <<version, pending, serving, registry, buf, mute, stage,
                   answer, held, ready, closing, missed>>

\* The map is written while a broadcast ranges over it: the runtime may notice.
Fatal == bcast.pc # "idle" /\ Dies

\* removeClient: out of the map, channel closed.
removeClient(r) ==
    /\ registry' = registry \ {r}
    /\ mute' = mute \ {r}
    /\ buf' = [buf EXCEPT ![r] = 0]
    /\ bcast' = [bcast EXCEPT !.todo = @ \ {r}, !.gone = @ \/ bcast.to = r]
    /\ UNCHANGED <<pending, serving>>

-----------------------------------------------------------------------------
(***************************************************************************)
(* A reader.  refresh (SDK) and Sync (relay) ask, and store what they get.  *)
(***************************************************************************)
\* Where the goroutine goes after a fetch.
After(r) ==
    CASE r \in Pollers   -> "idle"
      [] r \in registry  -> "read"
      [] OTHER           -> "dial"

\* NewClient, main of the relay: the first fetch is about to be made.
NewClient(r) ==
    /\ stage[r] = "off"
    /\ Cardinality({q \in Readers : stage[q] # "off"}) < MaxReaders
    /\ stage' = [stage EXCEPT ![r] = "init"]
    /\ UNCHANGED <<version, server, answer, held, ready, closing, missed>>

Ask(r) ==
    /\ serving
    /\ stage[r] \in Fetching /\ answer[r] = Nobody /\ r \notin closing
    /\ answer' = [answer EXCEPT ![r] = version]
    /\ UNCHANGED <<version, server, stage, held, ready, closing, missed>>

\* setFlags; NewClient and pollLoop mark the client ready, connectSSE does not.
Answer(r) ==
    /\ answer[r] # Nobody
    /\ held' = [held EXCEPT ![r] = answer[r]]
    /\ answer' = [answer EXCEPT ![r] = Nobody]
    /\ ready' = IF stage[r] = "event" /\ r \in Streamers THEN ready ELSE ready \cup {r}
    /\ missed' = IF answer[r] = version THEN missed \ {r} ELSE missed
    /\ stage' = [stage EXCEPT ![r] = After(r)]
    /\ UNCHANGED <<version, server, closing>>

\* Mutant: the first error ends the loop.
FetchFailsForGood(r) ==
    /\ stage[r] \in Fetching
    /\ answer' = [answer EXCEPT ![r] = Nobody]
    /\ missed' = missed \cup {r}
    /\ stage' = [stage EXCEPT ![r] =
                   IF r \in Relays /\ @ = "init" THEN @ ELSE "closed"]
    /\ UNCHANGED <<version, server, held, ready, closing>>

\* The request fails or its answer is lost: the error is logged and the loop
\* goes on; a relay whose first Sync fails exits and is started again.
FetchFails(r) ==
    /\ stage[r] \in Fetching
    /\ answer' = [answer EXCEPT ![r] = Nobody]
    /\ missed' = missed \cup {r}
    /\ stage' = [stage EXCEPT ![r] =
                   IF r \in Relays /\ @ = "init" THEN @ ELSE After(r)]
    /\ UNCHANGED <<version, server, held, ready, closing>>

\* Close has cancelled the context of the request.
Cancelled(r) == r \in closing /\ FetchFails(r)

\* pollLoop: the ticker.
Tick(r) ==
    /\ stage[r] = "idle" /\ r \notin closing
    /\ stage' = [stage EXCEPT ![r] = "tick"]
    /\ UNCHANGED <<version, server, answer, held, ready, closing, missed>>

\* connectSSE, HandleStream and addClient: a new Client with an empty channel,
\* which a broadcast in progress may or may not come by.  Nothing is fetched.
Connect(r) ==
    /\ serving /\ stage[r] = "dial" /\ r \notin closing
    /\ \/ /\ registry' = registry \cup {r}
          /\ stage' = [stage EXCEPT ![r] = "read"]
          /\ \E todo \in {bcast.todo, bcast.todo \cup {r}} :
                bcast' = IF bcast.pc = "idle" THEN bcast ELSE [bcast EXCEPT !.todo = todo]
          /\ UNCHANGED <<pending, serving, buf, mute>>
       \/ Fatal
    /\ missed' = IF held[r] = version THEN missed ELSE missed \cup {r}
    /\ UNCHANGED <<version, answer, held, ready, closing>>

\* The scanner has read a flag-update event; a mute stream's never arrives.
Receive(r) ==
    /\ stage[r] = "read" /\ buf[r] > 0
    /\ buf' = [buf EXCEPT ![r] = @ - 1]
    /\ IF r \in mute
       THEN missed' = missed \cup {r} /\ UNCHANGED stage
       ELSE stage' = [stage EXCEPT ![r] = "event"] /\ UNCHANGED missed
    /\ UNCHANGED <<version, pending, serving, bcast, registry, mute, answer,
                   held, ready, closing>>

\* WriteTimeout (30s) passes on a relay's stream; HandleStream ignores write
\* errors.  An SDK's own 10s timeout has broken its stream before.
GoMute(r) ==
    /\ r \in Relays \cap registry
    /\ mute' = mute \cup {r}
    /\ UNCHANGED <<version, pending, serving, bcast, registry, buf, stage,
                   answer, held, ready, closing, missed>>

\* The connection ends (timeout, network) and HandleStream removes the client.
Break(r) ==
    /\ r \in registry
    /\ \/ /\ removeClient(r)
          /\ stage' = [stage EXCEPT ![r] = IF @ = "read" THEN "dial" ELSE @]
       \/ Fatal
    /\ UNCHANGED <<version, answer, held, ready, closing, missed>>

\* Client.Close cancels the context and waits for the goroutine.
Close(r) ==
    /\ r \notin Relays /\ stage[r] \notin {"off", "init", "closed"} /\ r \notin closing
    /\ closing' = closing \cup {r}
    /\ UNCHANGED <<version, server, stage, answer, held, ready, missed>>

\* The loop sees ctx.Done and returns.
Exit(r) ==
    /\ r \in closing /\ stage[r] \in {"idle", "dial", "read"}
    /\ \/ /\ removeClient(r)
          /\ stage' = [stage EXCEPT ![r] = "closed"]
       \/ /\ r \in registry
          /\ Fatal
    /\ UNCHANGED <<version, answer, held, ready, closing, missed>>

-----------------------------------------------------------------------------
Listener == StartBroadcast \/ (\E r \in Readers : NextClient(r)) \/ Send
            \/ SendOnClosed \/ EndBroadcast
Go(r) == Ask(r) \/ Tick(r) \/ Connect(r) \/ Receive(r) \/ Cancelled(r) \/ Exit(r)
Upset(r) == FetchFails(r) \/ GoMute(r) \/ Break(r) \/ Close(r)

StreamNext ==
    \/ Change \/ Stop \/ Restart \/ Listener
    \/ \E r \in Readers : NewClient(r) \/ Go(r) \/ Answer(r) \/ Upset(r)

\* The goroutines of server and clients run, a server that is down is started
\* again, and of a reader's fetches not every one is refused or lost.
StreamFairness ==
    /\ WF_streamVars(Listener)
    /\ WF_streamVars(Restart)
    /\ \A r \in Readers :
          WF_streamVars(Go(r)) /\ SF_streamVars(Ask(r)) /\ SF_streamVars(Answer(r))

StreamSpec == StreamInit /\ [][StreamNext]_streamVars /\ StreamFairness

-----------------------------------------------------------------------------
\* A broadcast that r is still to get is waiting, or on its way.
Coming(r) ==
    \/ pending > 0
    \/ r \in bcast.todo
    \/ bcast.pc = "send" /\ bcast.to = r /\ ~bcast.gone
    \/ buf[r] > 0

\* The readers that scan a live stream.
Attached == {r \in registry \ mute : stage[r] \in {"read", "event"}}

\* A reader on a live stream that holds an outdated version has an event or a
\* fetch coming, or missed one while it was not connected or when its fetch
\* failed.  In particular an event dropped because the buffer is full costs
\* nothing: the events in front of it make the reader fetch later than the change.
StaleStreamExplained ==
    \A r \in Attached :
        held[r] # version /\ stage[r] = "read" => Coming(r) \/ r \in missed

\* Its inductive form.  A broadcast has a channel in hand only to send to it; a
\* registered reader reads or fetches for an event; nothing is registered with, or
\* pending in, a process that is down.
StreamShape ==
    /\ IF bcast.pc = "send" THEN bcast.to # Nobody ELSE bcast.to = Nobody /\ ~bcast.gone
    /\ \A r \in Readers :
          /\ answer[r] # Nobody => stage[r] \in Fetching
          /\ stage[r] = "read" => r \in registry
          /\ r \in registry => stage[r] \in {"read", "event"}
          /\ stage[r] \in {"dial", "read"} => r \notin Pollers
    /\ ~serving => registry = {} /\ pending = 0 /\ bcast = NoBroadcast

\* A reader on a live stream misses nothing of the current version: an event is
\* coming, or it has fetched, or is about to fetch, that version.
Covered(r) ==
    \/ Coming(r) \/ r \in missed
    \/ IF stage[r] = "read" THEN held[r] = version
       ELSE answer[r] \in {Nobody, version}

StreamInv == StreamTypeOK /\ StreamShape /\ \A r \in Attached : Covered(r)

\* If the server stops crashing, whoever polls, and whoever streams and has
\* missed nothing, catches up with the environment, or its connection ends, or
\* it is closed: the loops of the SDK and of the relay survive every error.
CatchesUp ==
    <>[]serving =>
      \A r \in Readers :
        /\ (stage[r] \notin {"off", "closed"} /\ held[r] # version /\ r \in Pollers)
              ~> (held[r] = version \/ r \in closing)
        /\ (r \in Attached /\ held[r] # version /\ r \notin missed)
              ~> (held[r] = version \/ r \in missed \/ r \notin Attached)

=============================================================================
