---------------------------- MODULE RulesetCache ----------------------------
(***************************************************************************)
(* The evaluation cache (internal/store/cache/inmemory.go), the three-query *)
(* ruleset load it runs on a miss (postgres Store.LoadRuleset), and its     *)
(* invalidation: the flag_states trigger, PostgreSQL NOTIFY, the listener   *)
(* goroutine of Store.ListenForChanges and the callback of StartListening.  *)
(*                                                                         *)
(* Data is abstracted to version numbers: the flags table and the segments  *)
(* table of a project have one version each, the flag_states rows of an     *)
(* environment have one.  A write bumps the version of what it writes; a    *)
(* query returns rows of the version it saw: all of them, or the first few   *)
(* where the code does not ask whether the rows ended early.                 *)
(***************************************************************************)
EXTENDS Naturals, Sequences, FiniteSets

CONSTANTS
    Instances,     \* API server processes sharing one database
    Handlers,      \* concurrent request goroutines of one process
    Envs,          \* environments of one project
    None,          \* "no ruleset", "nothing in hand"
    MaxFlagWrites, \* bound: writes of the flags table
    MaxStateWrites,\* bound: writes of one environment's flag_states
    MaxSegWrites,  \* bound: writes of the segments table
    MaxLosses      \* bound: listener connections that break or fail to open

\* Version counters and bounds are numbers; None is no ruleset and no notification.
ASSUME CacheAssumption ==
    /\ IsFiniteSet(Envs)
    /\ MaxFlagWrites \in Nat
    /\ MaxStateWrites \in Nat
    /\ MaxSegWrites \in Nat
    /\ MaxLosses \in Nat
    /\ None \notin [flags : Nat, states : Nat, segments : Nat, crossed : BOOLEAN,
                    cut : BOOLEAN]
    /\ None \notin [env : Envs, ver : Nat]

VARIABLES
    flags,    \* version of the flags table
    states,   \* states[e]: version of e's flag_states rows
    segments, \* version of the segments table
    conn,     \* conn[i]: "down" (process not running), "listening", or "deaf"
    queue,    \* queue[i]: notifications committed and not yet received by i
    hand,     \* hand[i]: the notification i's callback is processing, or None
    phase,    \* phase[i]: how far the callback is: "wait", "received", "deleted"
    cache,    \* cache[i][e]: Cache.rulesets of process i, None where absent
    load,     \* load[i][h]: the LoadRuleset call of handler h, if any
    told,     \* told[i][e]: newest state version i announced to SSE clients
    losses    \* connections lost so far

vars == <<flags, states, segments, conn, queue, hand, phase, cache, load,
          told, losses>>

(***************************************************************************)
(* A ruleset remembers the version each query returned.  crossed is a       *)
(* history bit: an invalidation of the environment ran on this process      *)
(* after the ruleset's states were read and before it was stored.  cut says  *)
(* that rows are missing: the query of its flags or of its states ended      *)
(* early, and nothing looked at rows.Err().                                  *)
(***************************************************************************)
Ruleset ==
    [flags : Nat, states : Nat, segments : Nat, crossed : BOOLEAN, cut : BOOLEAN]

Notification == [env : Envs, ver : Nat]

\* The statement a LoadRuleset call runs next; "store" is the locked map write.
LoadStep == {"idle", "flags", "states", "segments", "store"}

Load == [pc : LoadStep, env : Envs \cup {None}, rs : Ruleset]

EmptyRuleset ==
    [flags |-> 0, states |-> 0, segments |-> 0, crossed |-> FALSE, cut |-> FALSE]

NoLoad == [pc |-> "idle", env |-> None, rs |-> EmptyRuleset]

TypeOK ==
    /\ flags \in Nat
    /\ states \in [Envs -> Nat]
    /\ segments \in Nat
    /\ conn \in [Instances -> {"down", "listening", "deaf"}]
    /\ queue \in [Instances -> Seq(Notification)]
    /\ hand \in [Instances -> Notification \cup {None}]
    /\ phase \in [Instances -> {"wait", "received", "deleted"}]
    /\ cache \in [Instances -> [Envs -> Ruleset \cup {None}]]
    /\ load \in [Instances -> [Handlers -> Load]]
    /\ told \in [Instances -> [Envs -> Nat]]
    /\ losses \in Nat

\* A process that is not running: nothing cached, no call in flight.
Blank(i) ==
    /\ queue' = [queue EXCEPT ![i] = <<>>]
    /\ hand' = [hand EXCEPT ![i] = None]
    /\ phase' = [phase EXCEPT ![i] = "wait"]
    /\ cache' = [cache EXCEPT ![i] = [e \in Envs |-> None]]
    /\ load' = [load EXCEPT ![i] = [h \in Handlers |-> NoLoad]]
    /\ told' = [told EXCEPT ![i] = [e \in Envs |-> 0]]

Init ==
    /\ flags = 0
    /\ states = [e \in Envs |-> 0]
    /\ segments = 0
    /\ conn = [i \in Instances |-> "down"]
    /\ queue = [i \in Instances |-> <<>>]
    /\ hand = [i \in Instances |-> None]
    /\ phase = [i \in Instances |-> "wait"]
    /\ cache = [i \in Instances |-> [e \in Envs |-> None]]
    /\ load = [i \in Instances |-> [h \in Handlers |-> NoLoad]]
    /\ told = [i \in Instances |-> [e \in Envs |-> 0]]
    /\ losses = 0

-----------------------------------------------------------------------------
(***************************************************************************)
(* Database writes.  notify_flag_change is a row trigger on flag_states     *)
(* only; at commit the notification reaches every session that LISTENs.     *)
(***************************************************************************)
\* The notification a change of e's rows makes, with the version it announces.
Note(e) == [env |-> e, ver |-> states[e] + 1]

\* The orders in which one transaction can queue the notifications of E.
Orders(E) ==
    {ns \in [1..Cardinality(E) -> {Note(e) : e \in E}] :
        \A e \in E : \E k \in 1..Cardinality(E) : ns[k] = Note(e)}

\* A committed change of the flag_states rows of the environments E: one
\* notification for each, in one transaction.
ChangeRows(E) ==
    /\ \A e \in E : states[e] < MaxStateWrites
    /\ states' = [e \in Envs |-> IF e \in E THEN states[e] + 1 ELSE states[e]]
    /\ \E ns \in Orders(E) :
          queue' = [i \in Instances |->
                      IF conn[i] = "listening" THEN queue[i] \o ns
                                               ELSE queue[i]]

\* Every write of flag_states, whoever makes it, ends in this upsert.
UpsertFlagState(e) ==
    /\ ChangeRows({e})
    /\ UNCHANGED <<flags, segments, conn, hand, phase, cache, load, told,
                   losses>>

\* CreateFlag, UpdateFlag and RollbackFlagToVersion write flags: no trigger there.
WriteFlag ==
    /\ flags < MaxFlagWrites
    /\ flags' = flags + 1
    /\ UNCHANGED <<states, segments, conn, queue, hand, phase, cache, load,
                   told, losses>>

\* Mutant: the trigger does not cover rows deleted by the cascade.
DeleteFlagSilently(E) ==
    /\ flags < MaxFlagWrites
    /\ \A e \in E : states[e] < MaxStateWrites
    /\ flags' = flags + 1
    /\ states' = [e \in Envs |-> IF e \in E THEN states[e] + 1 ELSE states[e]]
    /\ UNCHANGED <<segments, conn, queue, hand, phase, cache, load, told, losses>>

\* DeleteFlag: the flag's rows, in the environments E that have one, go by
\* ON DELETE CASCADE, which fires the row trigger in the same transaction.
DeleteFlag(E) ==
    /\ flags < MaxFlagWrites
    /\ flags' = flags + 1
    /\ ChangeRows(E)
    /\ UNCHANGED <<segments, conn, hand, phase, cache, load, told, losses>>

\* CreateSegment, UpdateSegment, DeleteSegment: no trigger on segments.
WriteSegment ==
    /\ segments < MaxSegWrites
    /\ segments' = segments + 1
    /\ UNCHANGED <<flags, states, conn, queue, hand, phase, cache, load, told,
                   losses>>

-----------------------------------------------------------------------------
(***************************************************************************)
(* Life of a process: main() runs StartListening before it serves requests; *)
(* a failure there is only logged.                                          *)
(***************************************************************************)
Start(i) ==
    /\ conn[i] = "down"
    /\ \/ /\ conn' = [conn EXCEPT ![i] = "listening"]
          /\ UNCHANGED losses
       \/ /\ losses < MaxLosses
          /\ conn' = [conn EXCEPT ![i] = "deaf"]
          /\ losses' = losses + 1
    /\ UNCHANGED <<flags, states, segments, queue, hand, phase, cache, load,
                   told>>

\* The process dies or is redeployed; its session, and its queue, go with it.
Stop(i) ==
    /\ conn[i] # "down"
    /\ conn' = [conn EXCEPT ![i] = "down"]
    /\ Blank(i)
    /\ UNCHANGED <<flags, states, segments, losses>>

\* The LISTEN session breaks.  The goroutine keeps calling WaitForNotification
\* on the dead connection, one error a second, and never LISTENs again.
LoseConnection(i) ==
    /\ conn[i] = "listening"
    /\ losses < MaxLosses
    /\ conn' = [conn EXCEPT ![i] = "deaf"]
    /\ queue' = [queue EXCEPT ![i] = <<>>]
    /\ losses' = losses + 1
    /\ UNCHANGED <<flags, states, segments, hand, phase, cache, load, told>>

-----------------------------------------------------------------------------
(***************************************************************************)
(* The listener goroutine and the callback of StartListening.               *)
(***************************************************************************)
\* Mutant: newest first.
ReceiveNewest(i) ==
    /\ conn[i] = "listening"
    /\ phase[i] = "wait"
    /\ queue[i] # <<>>
    /\ hand' = [hand EXCEPT ![i] = queue[i][Len(queue[i])]]
    /\ queue' = [queue EXCEPT ![i] = SubSeq(queue[i], 1, Len(queue[i]) - 1)]
    /\ phase' = [phase EXCEPT ![i] = "received"]
    /\ UNCHANGED <<flags, states, segments, conn, cache, load, told, losses>>

Receive(i) ==
    /\ conn[i] = "listening"
    /\ phase[i] = "wait"
    /\ queue[i] # <<>>
    /\ hand' = [hand EXCEPT ![i] = Head(queue[i])]
    /\ queue' = [queue EXCEPT ![i] = Tail(queue[i])]
    /\ phase' = [phase EXCEPT ![i] = "received"]
    /\ UNCHANGED <<flags, states, segments, conn, cache, load, told, losses>>

\* A load that already holds states of e when e is invalidated is crossed.
Cross(i, e) ==
    [h \in Handlers |->
        IF load[i][h].env = e /\ load[i][h].pc \in {"segments", "store"}
        THEN [load[i][h] EXCEPT !.rs.crossed = TRUE]
        ELSE load[i][h]]

\* Mutant: the callback announces without dropping the ruleset.
InvalidateNothing(i) ==
    /\ phase[i] = "received"
    /\ phase' = [phase EXCEPT ![i] = "deleted"]
    /\ UNCHANGED <<flags, states, segments, conn, queue, hand, cache, load,
                   told, losses>>

\* delete(c.rulesets, change.EnvID) under the lock.
Invalidate(i) ==
    /\ phase[i] = "received"
    /\ cache' = [cache EXCEPT ![i][hand[i].env] = None]
    /\ load' = [load EXCEPT ![i] = Cross(i, hand[i].env)]
    /\ phase' = [phase EXCEPT ![i] = "deleted"]
    /\ UNCHANGED <<flags, states, segments, conn, queue, hand, told, losses>>

\* BroadcastFlagUpdate, then NotifyFlagChange: the clients of e now know.
Announce(i) ==
    /\ phase[i] = "deleted"
    /\ told' = [told EXCEPT ![i][hand[i].env] = hand[i].ver]
    /\ hand' = [hand EXCEPT ![i] = None]
    /\ phase' = [phase EXCEPT ![i] = "wait"]
    /\ UNCHANGED <<flags, states, segments, conn, queue, cache, load, losses>>

-----------------------------------------------------------------------------
(***************************************************************************)
(* A request: getRulesetFromAPIKey finds no ruleset and calls LoadRuleset.  *)
(* A hit changes nothing.                                                   *)
(***************************************************************************)
Miss(i, h, e) ==
    /\ conn[i] # "down"
    /\ load[i][h].pc = "idle"
    /\ cache[i][e] = None
    /\ load' = [load EXCEPT ![i][h] =
                  [pc |-> "flags", env |-> e, rs |-> EmptyRuleset]]
    /\ UNCHANGED <<flags, states, segments, conn, queue, hand, phase, cache,
                   told, losses>>

\* Store.LoadRuleset: three statements, each its own snapshot.  The loops over
\* the flags and the states rows end on an error as on the last row.
ReadFlags(i, h) ==
    /\ load[i][h].pc = "flags"
    /\ \E cut \in BOOLEAN :
          load' = [load EXCEPT ![i][h] =
                     [@ EXCEPT !.pc = "states", !.rs.flags = flags, !.rs.cut = cut]]
    /\ UNCHANGED <<flags, states, segments, conn, queue, hand, phase, cache,
                   told, losses>>

ReadStates(i, h) ==
    /\ load[i][h].pc = "states"
    /\ \E cut \in BOOLEAN :
          /\ load[i][h].rs.cut => cut
          /\ load' = [load EXCEPT ![i][h] =
                        [@ EXCEPT !.pc = "segments", !.rs.cut = cut,
                                  !.rs.states = states[load[i][h].env]]]
    /\ UNCHANGED <<flags, states, segments, conn, queue, hand, phase, cache,
                   told, losses>>

\* ListSegments does ask rows.Err(): all its rows, or FailLoad.
ReadSegments(i, h) ==
    /\ load[i][h].pc = "segments"
    /\ load' = [load EXCEPT ![i][h].pc = "store",
                            ![i][h].rs.segments = segments]
    /\ UNCHANGED <<flags, states, segments, conn, queue, hand, phase, cache,
                   told, losses>>

\* c.rulesets[envID] = ruleset, whatever happened since the reads.
StoreRuleset(i, h) ==
    /\ load[i][h].pc = "store"
    /\ cache' = [cache EXCEPT ![i][load[i][h].env] = load[i][h].rs]
    /\ load' = [load EXCEPT ![i][h] = NoLoad]
    /\ UNCHANGED <<flags, states, segments, conn, queue, hand, phase, told,
                   losses>>

\* A query cannot be run, a row cannot be scanned or decoded, or ListSegments
\* ends early: LoadRuleset returns the error.
FailLoad(i, h) ==
    /\ load[i][h].pc \in {"flags", "states", "segments"}
    /\ load' = [load EXCEPT ![i][h] = NoLoad]
    /\ UNCHANGED <<flags, states, segments, conn, queue, hand, phase, cache,
                   told, losses>>

-----------------------------------------------------------------------------
Write == \/ WriteFlag
         \/ WriteSegment
         \/ \E e \in Envs : UpsertFlagState(e)
         \/ \E E \in SUBSET Envs : DeleteFlag(E)

Life(i) == Start(i) \/ Stop(i) \/ LoseConnection(i)

Listener(i) == Receive(i) \/ Invalidate(i) \/ Announce(i)

Loader(i, h) == \/ ReadFlags(i, h)
                \/ ReadStates(i, h)
                \/ ReadSegments(i, h)
                \/ StoreRuleset(i, h)

Request(i, h) == \/ Loader(i, h)
                 \/ FailLoad(i, h)
                 \/ \E e \in Envs : Miss(i, h, e)

Next ==
    \/ Write
    \/ \E i \in Instances :
          \/ Life(i)
          \/ Listener(i)
          \/ \E h \in Handlers : Request(i, h)

\* The goroutines of a running process are scheduled: the listener returns to
\* WaitForNotification (its callback is bounded by a 5s timeout) and a load
\* that was started runs on.  Writers, requests and failures are not forced.
Fairness ==
    \A i \in Instances :
        /\ WF_vars(Listener(i))
        /\ \A h \in Handlers : WF_vars(Loader(i, h))

Spec == Init /\ [][Next]_vars /\ Fairness

-----------------------------------------------------------------------------
\* The rows process i would serve for e are of an older version than the table.
Behind(i, e) == cache[i][e] # None /\ cache[i][e].states # states[e]

\* Process i would serve for e states that are not the table's: older ones, or
\* not all of them.
StateStale(i, e) == Behind(i, e) \/ (cache[i][e] # None /\ cache[i][e].cut)

\* An invalidation of e is on its way to the cache of process i.
Pending(i, e) ==
    \/ \E k \in 1..Len(queue[i]) : queue[i][k].env = e
    \/ phase[i] = "received" /\ hand[i].env = e

(***************************************************************************)
(* Inductive invariant.                                                     *)
(***************************************************************************)
\* The callback holds a notification exactly while it works on one.
HandInv ==
    \A i \in Instances : (phase[i] = "wait") <=> (hand[i] = None)

\* No announcement, queued, in hand or made, runs ahead of the table.
VersionInv ==
    \A i \in Instances :
        /\ \A k \in 1..Len(queue[i]) : queue[i][k].ver <= states[queue[i][k].env]
        /\ hand[i] # None => hand[i].ver <= states[hand[i].env]
        /\ \A e \in Envs : told[i][e] <= states[e]

\* What is sure of the version of the rows in a ruleset rs of e, cached or held
\* by a load past its states query: it is current or about to be dropped, and as
\* new as every change of e whose deletion has run on i.  It says nothing of how
\* many of that version's rows are there: see cut.
Covered(i, e, rs) ==
    rs.crossed \/ /\ rs.states = states[e] \/ Pending(i, e)
                  /\ told[i][e] <= rs.states
                  /\ phase[i] = "deleted" /\ hand[i].env = e
                        => hand[i].ver <= rs.states

LoadInv ==
    \A i \in Instances : conn[i] = "listening" =>
        \A h \in Handlers : load[i][h].pc \in {"segments", "store"} =>
            Covered(i, load[i][h].env, load[i][h].rs)

CacheInv ==
    \A i \in Instances : conn[i] = "listening" =>
        \A e \in Envs : cache[i][e] # None => Covered(i, e, cache[i][e])

\* A running load names an environment; a process that is down runs nothing.
LifeInv ==
    \A i \in Instances :
        /\ \A h \in Handlers : load[i][h].pc # "idle" => load[i][h].env \in Envs
        /\ conn[i] = "down" =>
              /\ \A h \in Handlers : load[i][h].pc = "idle"
              /\ \A e \in Envs : cache[i][e] = None

\* The announcements of an environment are in the order of its changes: what was announced,
\* what is in hand, what is queued.
OrderInv ==
    \A i \in Instances :
        /\ \A k \in 1..Len(queue[i]) : \A m \in 1..(k - 1) :
              queue[i][m].env = queue[i][k].env => queue[i][m].ver <= queue[i][k].ver
        /\ \A k \in 1..Len(queue[i]) :
              /\ told[i][queue[i][k].env] <= queue[i][k].ver
              /\ hand[i] # None /\ hand[i].env = queue[i][k].env => hand[i].ver <= queue[i][k].ver
        /\ hand[i] # None => told[i][hand[i].env] <= hand[i].ver

IInv == TypeOK /\ HandInv /\ VersionInv /\ OrderInv /\ LifeInv /\ LoadInv /\ CacheInv

-----------------------------------------------------------------------------
(***************************************************************************)
(* Properties.                                                              *)
(***************************************************************************)
\* While a process listens, a cached ruleset whose states are not the table's has
\* an invalidation on its way, or was stored by a load that an invalidation
\* crossed, or holds part of the current rows, from a query that ended early: a
\* lost connection of the listener, that race and an unread rows.Err() are the
\* only ways for a state change to be missed.  A part of older rows is dropped
\* like any older ruleset.
StaleStateExplained ==
    \A i \in Instances : \A e \in Envs :
        conn[i] = "listening" /\ StateStale(i, e) =>
            \/ Pending(i, e)
            \/ cache[i][e].crossed
            \/ cache[i][e].cut /\ ~Behind(i, e)

\* Delete first, announce second: a client that refetches because of a
\* flag-update event is never served, by a listening process, rows older than the
\* change it was told of, unless a crossed load put them back.  Of a load after the
\* event that is cut short only that is sure: the changed row may be missing.
EventThenFresh ==
    \A i \in Instances : \A e \in Envs :
        (conn[i] = "listening" /\ cache[i][e] # None /\ ~cache[i][e].crossed)
            => told[i][e] <= cache[i][e].states

\* A cached ruleset of older rows than its environment's, all of them or not, that
\* no crossed load stored, is evicted or replaced, unless the process loses its
\* session.  A ruleset that only misses some of the current rows is not older than
\* anything: nothing evicts it before the next change of its environment.
StaleStateEvicted ==
    \A i \in Instances : \A e \in Envs :
        (conn[i] = "listening" /\ Behind(i, e) /\ ~cache[i][e].crossed)
            ~> \/ ~Behind(i, e)
               \/ cache[i][e].crossed
               \/ conn[i] # "listening"

\* Flag-update events of an environment leave a process in the order of the
\* changes they announce, so the last event a client saw is the newest.
TellsForward ==
    [][\A i \in Instances : conn'[i] # "down" =>
          \A e \in Envs : told'[i][e] >= told[i][e]]_vars

(***************************************************************************)
(* What the documentation says, which the code does not do.                 *)
(***************************************************************************)
\* ARCHITECTURE.md: rulesets are "invalidated via LISTEN/NOTIFY when any flag,
\* state, or segment changes": a step that changes what a cached ruleset was
\* built from puts an invalidation of it on its way.
AnyChangeInvalidates ==
    [][\A i \in Instances : \A e \in Envs :
          /\ conn[i] = "listening" /\ cache[i][e] # None
          /\ flags' # flags \/ states'[e] # states[e] \/ segments' # segments
          => Pending(i, e)']_vars

\* ARCHITECTURE.md: "Cache invalidation via LISTEN/NOTIFY keeps all instances
\* in sync": a listening process that serves older states of an environment
\* gets rid of them.
InstancesConverge ==
    \A i \in Instances : \A e \in Envs :
        (conn[i] = "listening" /\ Behind(i, e))
            ~> (~Behind(i, e) \/ conn[i] # "listening")
=============================================================================
