----------------------------- MODULE FlagStates -----------------------------
(***************************************************************************)
(* The writers of one flag's flag_states rows: the handlers UpdateState,    *)
(* Kill, Promote and SyncEnvironments (api/handlers/flags.go), the review   *)
(* of a change request (api/handlers/approval.go) and the scheduler of      *)
(* every server process (scheduler/scheduler.go), which takes turns by a    *)
(* PostgreSQL advisory lock.  Each of them reads, computes a whole row in   *)
(* memory and upserts it; nothing orders a read with another's write.       *)
(*                                                                         *)
(* default_value, rules and percentage_rollout are one field, config; a     *)
(* time is a tick of a clock.                                               *)
(***************************************************************************)
EXTENDS Naturals, FiniteSets

CONSTANTS
    Requests,   \* request goroutines, each of a user of its own
    Schedulers, \* scheduler goroutines, one for each server process
    Envs,       \* environments of the flag's project
    Patches,    \* UpdateState bodies: functions from some of Fields to values
    Payload,    \* the row a change request's payload unmarshals to
    None,       \* no row, no value, no time, nobody
    MaxTime,    \* bound: the last tick of the clock
    MaxCalls,   \* bound: requests that get past their handler's checks
    MaxFaults   \* bound: failed statements, lost sessions and crashes

VARIABLES
    row,     \* row[e]: the flag's row in e, None before its first upsert
    now,     \* the clock
    op,      \* op[r]: what request r holds between its read and its write
    ticks,   \* ticks[s]: the tick scheduler s is in
    lock,    \* whose session holds advisory lock 1, or None
    calls,   \* calls so far
    faults,  \* faults so far
    req,     \* the change request
    written, \* the change request's payload has been upserted
    killed   \* environments whose last toggle was the kill switch

vars == <<row, now, op, ticks, lock, calls, faults, req, written, killed>>

Fields == {"enabled", "config", "variants", "enableAt", "disableAt"}

\* domain.FlagState's zero value.
Blank == [enabled |-> FALSE, config |-> None, variants |-> None,
          enableAt |-> None, disableAt |-> None]

\* A patch leaves the fields it does not name as they are.
Merge(patch, old) ==
    LET pick(f) == IF f \in DOMAIN patch THEN patch[f] ELSE old[f]
    IN  [enabled |-> pick("enabled"), config |-> pick("config"),
         variants |-> pick("variants"), enableAt |-> pick("enableAt"),
         disableAt |-> pick("disableAt")]

Configs == {None, Payload.config}
           \cup {patch["config"] : patch \in {q \in Patches : "config" \in DOMAIN q}}
Variants == {None, Payload.variants}
            \cup {patch["variants"] : patch \in {q \in Patches : "variants" \in DOMAIN q}}
Times == (0..MaxTime) \cup {None}

Row == [enabled : BOOLEAN, config : Configs, variants : Variants,
        enableAt : Times, disableAt : Times]

ASSUME FlagStatesAssumption ==
    /\ MaxTime \in Nat /\ MaxCalls \in Nat /\ MaxFaults \in Nat
    /\ Payload \in Row
    /\ \A patch \in Patches :
          /\ DOMAIN patch \subseteq Fields
          /\ "enabled" \in DOMAIN patch => patch["enabled"] \in BOOLEAN
          /\ \A f \in {"enableAt", "disableAt"} :
                f \in DOMAIN patch => patch[f] \in Times
    /\ None \notin Row /\ None \notin Envs /\ None \notin Schedulers

\* What a request is about to do: upsert draft ("write", "apply") or update the
\* change request ("decide", "mark").  asked is the set of fields it means to
\* set; stale: the row changed, or could not be read, since draft was built.
Op == [pc : {"idle", "write", "decide", "apply", "mark"},
       kind : {"none", "update", "kill", "copy", "review"},
       env : Envs \cup {None}, draft : Row, asked : SUBSET Fields,
       stale : BOOLEAN, verdict : {"none", "approved", "rejected"}]

NoOp == [pc |-> "idle", kind |-> "none", env |-> None, draft |-> Blank,
         asked |-> {}, stale |-> FALSE, verdict |-> "none"]

\* The rows ListPendingSchedules returned and not yet processed, with the time
\* they were asked for and those of them that changed since; lost: the session
\* that held the lock is gone.
Tick == [pc : {"idle", "list", "apply"}, at : 0..MaxTime, lost : BOOLEAN,
         batch : [Envs -> Row \cup {None}], stale : SUBSET Envs]

NoTick == [pc |-> "idle", at |-> 0, lost |-> FALSE,
           batch |-> [e \in Envs |-> None], stale |-> {}]

Request == [status : {"none", "pending", "approved", "rejected", "applied"},
            env : Envs \cup {None}, by : Requests \cup {None}, org : BOOLEAN]

TypeOK ==
    /\ row \in [Envs -> Row \cup {None}]
    /\ now \in 0..MaxTime
    /\ op \in [Requests -> Op]
    /\ ticks \in [Schedulers -> Tick]
    /\ lock \in Schedulers \cup {None}
    /\ calls \in 0..MaxCalls
    /\ faults \in 0..MaxFaults
    /\ req \in Request
    /\ written \in BOOLEAN
    /\ killed \subseteq Envs

Init ==
    /\ row = [e \in Envs |-> None]
    /\ now = 0
    /\ op = [r \in Requests |-> NoOp]
    /\ ticks = [s \in Schedulers |-> NoTick]
    /\ lock = None
    /\ calls = 0
    /\ faults = 0
    /\ req = [status |-> "none", env |-> None, by |-> None, org |-> FALSE]
    /\ written = FALSE
    /\ killed = {}

-----------------------------------------------------------------------------
\* GetFlagState, with "not found" taken for a new row.
Snapshot(e) == IF row[e] = None THEN Blank ELSE row[e]

\* Others that built a row of e before it changed hold a stale one.
AgeOps(e) ==
    [x \in Requests |->
        IF op[x].env = e THEN [op[x] EXCEPT !.stale = TRUE] ELSE op[x]]
AgeTicks(e) ==
    [x \in Schedulers |->
        IF ticks[x].pc = "apply" THEN [ticks[x] EXCEPT !.stale = @ \cup {e}]
        ELSE ticks[x]]

\* UpsertFlagState: the whole row is replaced, whatever it has become.  The
\* kill switch's mark stays until somebody asks for the flag to be on.
Upsert(e, fs, asked, kill) ==
    /\ row' = [row EXCEPT ![e] = fs]
    /\ killed' = IF kill THEN killed \cup {e}
                 ELSE IF "enabled" \in asked /\ fs.enabled THEN killed \ {e}
                 ELSE killed

Call ==
    /\ calls < MaxCalls
    /\ calls' = calls + 1

Fault ==
    /\ faults < MaxFaults
    /\ faults' = faults + 1

-----------------------------------------------------------------------------
(***************************************************************************)
(* Request handlers, up to the upsert.                                      *)
(***************************************************************************)
Hold(r, kind, e, fs, asked, stale) ==
    /\ op[r].pc = "idle"
    /\ Call
    /\ op' = [op EXCEPT ![r] = [NoOp EXCEPT !.pc = "write", !.kind = kind,
                                  !.env = e, !.draft = fs, !.asked = asked,
                                  !.stale = stale]]
    /\ UNCHANGED <<row, now, ticks, lock, req, written, killed>>

\* Mutant: an absent "enabled" is decoded as true.
UpdateStateEnables(r, e, patch) ==
    /\ Hold(r, "update", e, [Merge(patch, Snapshot(e)) EXCEPT !.enabled = TRUE],
            DOMAIN patch, FALSE)
    /\ UNCHANGED faults

\* Any error of the read, not only "not found", leaves a blank row to merge into.
UpdateState(r, e, patch) ==
    \/ /\ Hold(r, "update", e, Merge(patch, Snapshot(e)), DOMAIN patch, FALSE)
       /\ UNCHANGED faults
    \/ /\ Hold(r, "update", e, Merge(patch, Blank), DOMAIN patch, TRUE)
       /\ Fault

Kill(r, e) ==
    \/ /\ Hold(r, "kill", e, [Snapshot(e) EXCEPT !.enabled = FALSE], {"enabled"}, FALSE)
       /\ UNCHANGED faults
    \/ /\ Hold(r, "kill", e, Blank, {"enabled"}, TRUE)
       /\ Fault

\* Promote copies the source's toggle and config, and no variants or schedule.
Promote(r, src, e) ==
    /\ src # e
    /\ row[src] # None
    /\ Hold(r, "copy", e,
            [Blank EXCEPT !.enabled = row[src].enabled, !.config = row[src].config],
            Fields, FALSE)
    /\ UNCHANGED faults

\* SyncEnvironments, for one of its flags: the variants too.
SyncEnvironments(r, src, e) ==
    /\ src # e
    /\ row[src] # None
    /\ Hold(r, "copy", e,
            [row[src] EXCEPT !.enableAt = None, !.disableAt = None], Fields, FALSE)
    /\ UNCHANGED faults

\* The upsert the four handlers end in.
Save(r) ==
    /\ op[r].pc = "write"
    /\ Upsert(op[r].env, op[r].draft, op[r].asked, op[r].kind = "kill")
    /\ op' = [AgeOps(op[r].env) EXCEPT ![r] = NoOp]
    /\ ticks' = AgeTicks(op[r].env)
    /\ UNCHANGED <<now, lock, calls, faults, req, written>>

-----------------------------------------------------------------------------
(***************************************************************************)
(* The change request.                                                      *)
(***************************************************************************)
\* org: the payload carries an org_id, without which the upsert is rejected
\* (flag_states.org_id is a UUID, NOT NULL).
Create(r, e, org) ==
    /\ req.status = "none"
    /\ Call
    /\ req' = [status |-> "pending", env |-> e, by |-> r, org |-> org]
    /\ UNCHANGED <<row, now, op, ticks, lock, faults, written, killed>>

\* Mutant: an action that is neither "approve" nor "reject" is let through.
ReviewAnyAction(r, verdict) ==
    /\ op[r].pc = "idle"
    /\ Call
    /\ req.status = "pending"
    /\ req.by # r
    /\ \E v \in {verdict, req.status} :
          op' = [op EXCEPT ![r] = [NoOp EXCEPT !.pc = "decide", !.kind = "review",
                                               !.verdict = v]]
    /\ UNCHANGED <<row, now, ticks, lock, faults, req, written, killed>>

\* Review, up to its first write: the request is read and must be pending.
Review(r, verdict) ==
    /\ op[r].pc = "idle"
    /\ Call
    /\ req.status = "pending"
    /\ req.by # r
    /\ op' = [op EXCEPT ![r] = [NoOp EXCEPT !.pc = "decide", !.kind = "review",
                                            !.verdict = verdict]]
    /\ UNCHANGED <<row, now, ticks, lock, faults, req, written, killed>>

\* UpdateApprovalRequest: by id, whatever the status has become.
Decide(r) ==
    /\ op[r].pc = "decide"
    /\ req' = [req EXCEPT !.status = op[r].verdict]
    /\ op' = [op EXCEPT ![r] =
                IF op[r].verdict = "approved"
                THEN [NoOp EXCEPT !.pc = "apply", !.kind = "review", !.env = req.env,
                                  !.draft = Payload, !.asked = Fields]
                ELSE NoOp]
    /\ UNCHANGED <<row, now, ticks, lock, calls, faults, written, killed>>

\* Mutant: an error of applyChange is not looked at.
ApplyIgnoringError(r) ==
    /\ op[r].pc = "apply"
    /\ op' = [op EXCEPT ![r] = [NoOp EXCEPT !.pc = "mark", !.kind = "review"]]
    /\ UNCHANGED <<row, now, ticks, lock, calls, faults, req, written, killed>>

\* applyChange.  If it fails the request stays "approved".
Apply(r) ==
    /\ op[r].pc = "apply"
    /\ IF req.org
       THEN /\ Upsert(op[r].env, op[r].draft, op[r].asked, FALSE)
            /\ op' = [AgeOps(op[r].env) EXCEPT
                        ![r] = [NoOp EXCEPT !.pc = "mark", !.kind = "review"]]
            /\ ticks' = AgeTicks(op[r].env)
            /\ written' = TRUE
       ELSE /\ op' = [op EXCEPT ![r] = NoOp]
            /\ UNCHANGED <<row, ticks, written, killed>>
    /\ UNCHANGED <<now, lock, calls, faults, req>>

Mark(r) ==
    /\ op[r].pc = "mark"
    /\ req' = [req EXCEPT !.status = "applied"]
    /\ op' = [op EXCEPT ![r] = NoOp]
    /\ UNCHANGED <<row, now, ticks, lock, calls, faults, written, killed>>

\* A statement fails, the client goes away or the process dies.
Abandon(r) ==
    /\ op[r].pc # "idle"
    /\ Fault
    /\ op' = [op EXCEPT ![r] = NoOp]
    /\ UNCHANGED <<row, now, ticks, lock, calls, req, written, killed>>

-----------------------------------------------------------------------------
(***************************************************************************)
(* Scheduler.tick.                                                          *)
(***************************************************************************)
\* Mutant: a process that fails to get the lock goes on.
TryLockAnyway(s) ==
    /\ ticks[s].pc = "idle"
    /\ lock' = IF lock = None THEN s ELSE lock
    /\ ticks' = [ticks EXCEPT ![s].pc = "list"]
    /\ UNCHANGED <<row, now, op, calls, faults, req, written, killed>>

\* pg_try_advisory_lock; a tick that does not get it does nothing.
TryLock(s) ==
    /\ ticks[s].pc = "idle"
    /\ lock = None
    /\ lock' = s
    /\ ticks' = [ticks EXCEPT ![s].pc = "list"]
    /\ UNCHANGED <<row, now, op, calls, faults, req, written, killed>>

Due(t, at) == t # None /\ t <= at

\* Whether the row in e has a schedule whose time has come.
DueRow(e, at) ==
    row[e] # None /\ (Due(row[e].enableAt, at) \/ Due(row[e].disableAt, at))

\* ListPendingSchedules(now).
List(s) ==
    /\ ticks[s].pc = "list"
    /\ ticks' = [ticks EXCEPT
          ![s].pc = "apply", ![s].at = now,
          ![s].batch = [e \in Envs |-> IF DueRow(e, now) THEN row[e] ELSE None]]
    /\ UNCHANGED <<row, now, op, lock, calls, faults, req, written, killed>>

\* Mutant: the toggle is applied and the schedule kept.
ToggledForEver(fs, at) ==
    [fs EXCEPT !.enabled = IF Due(fs.disableAt, at) THEN FALSE
                           ELSE Due(fs.enableAt, at) \/ @]

\* First the enable, then the disable.
Toggled(fs, at) ==
    [fs EXCEPT !.enabled = IF Due(fs.disableAt, at) THEN FALSE
                           ELSE Due(fs.enableAt, at) \/ @,
               !.enableAt = IF Due(@, at) THEN None ELSE @,
               !.disableAt = IF Due(@, at) THEN None ELSE @]

\* One row of the batch is toggled and upserted.
FireOne(s, e) ==
    LET fs == ticks[s].batch[e] IN
    /\ ticks[s].pc = "apply"
    /\ fs # None
    /\ Upsert(e, Toggled(fs, ticks[s].at), {"enabled"}, FALSE)
    /\ op' = AgeOps(e)
    /\ ticks' = [AgeTicks(e) EXCEPT ![s].batch[e] = None]
    /\ UNCHANGED <<now, lock, calls, faults, req, written>>

\* The upsert fails, or the listing broke off before the row, which
\* ListPendingSchedules does not report: the row waits for another tick.
SkipOne(s, e) ==
    /\ ticks[s].pc = "apply"
    /\ ticks[s].batch[e] # None
    /\ Fault
    /\ ticks' = [ticks EXCEPT ![s].batch[e] = None]
    /\ UNCHANGED <<row, now, op, lock, calls, req, written, killed>>

\* The deferred release; a session that ends releases its locks too.
Unlock(s) ==
    /\ ticks' = [ticks EXCEPT ![s] = NoTick]
    /\ lock' = IF lock = s THEN None ELSE lock
    /\ UNCHANGED <<row, now, op, calls, req, written, killed>>

EndTick(s) ==
    /\ ticks[s].pc = "apply"
    /\ \A e \in Envs : ticks[s].batch[e] = None
    /\ Unlock(s)
    /\ UNCHANGED faults

\* The listing fails, or the process dies and is started again.
BreakTick(s) ==
    /\ \/ ticks[s].pc = "list"
       \/ \E e \in Envs : ticks[s].batch[e] # None
    /\ Unlock(s)
    /\ Fault

\* The lock's session breaks while the tick works on through other connections.
LoseSession(s) ==
    /\ lock = s
    /\ Fault
    /\ lock' = None
    /\ ticks' = [ticks EXCEPT ![s].lost = TRUE]
    /\ UNCHANGED <<row, now, op, calls, req, written, killed>>

-----------------------------------------------------------------------------
Pass ==
    /\ now < MaxTime
    /\ now' = now + 1
    /\ UNCHANGED <<row, op, ticks, lock, calls, faults, req, written, killed>>

\* A request past its checks: its next statement.
Statement(r) == Save(r) \/ Decide(r) \/ Apply(r) \/ Mark(r)

Handle(r) ==
    \/ \E e \in Envs : \/ \E patch \in Patches : UpdateState(r, e, patch)
                       \/ Kill(r, e)
                       \/ \E src \in Envs : Promote(r, src, e) \/ SyncEnvironments(r, src, e)
                       \/ \E org \in BOOLEAN : Create(r, e, org)
    \/ \E verdict \in {"approved", "rejected"} : Review(r, verdict)
    \/ Statement(r)
    \/ Abandon(r)

\* A tick that nothing disturbs.
Advance(s) ==
    \/ TryLock(s) \/ List(s) \/ EndTick(s)
    \/ \E e \in Envs : FireOne(s, e)

Disturb(s) ==
    \/ BreakTick(s) \/ LoseSession(s)
    \/ \E e \in Envs : SkipOne(s, e)

Next ==
    \/ Pass
    \/ \E r \in Requests : Handle(r)
    \/ \E s \in Schedulers : Advance(s) \/ Disturb(s)

\* The ticker of a server process fires for ever and a tick runs on; so does a
\* request.  Faults are bounded: they do not strike every tick.
Fairness ==
    /\ \A s \in Schedulers : WF_vars(Advance(s))
    /\ \A r \in Requests : WF_vars(Statement(r))

Spec == Init /\ [][Next]_vars /\ Fairness

-----------------------------------------------------------------------------
(***************************************************************************)
(* Properties.                                                              *)
(***************************************************************************)
\* Of the schedulers inside a tick at most one still has its session: the
\* advisory lock lets no second one in, however ticks break and sessions end.
TickExclusive ==
    \A s, t \in Schedulers :
        (s # t /\ ticks[s].pc # "idle" /\ ticks[t].pc # "idle")
            => ticks[s].lost \/ ticks[t].lost

\* A scheduler inside a tick that still has its session holds the lock.
LockHeld ==
    \A s \in Schedulers : ticks[s].pc # "idle" /\ ~ticks[s].lost => lock = s

\* Until it goes stale, a draft differs from the row in the asked fields only,
\* and a row of a batch is the row.
DraftFresh ==
    \A r \in Requests : op[r].env # None /\ ~op[r].stale =>
        \A f \in Fields \ op[r].asked : op[r].draft[f] = Snapshot(op[r].env)[f]
BatchFresh ==
    \A s \in Schedulers, e \in Envs :
        ticks[s].batch[e] # None /\ e \notin ticks[s].stale
            => ticks[s].batch[e] = row[e]

\* What a request in each of its stages knows.
OpShape ==
    \A r \in Requests :
        /\ op[r].env # None <=> op[r].pc \in {"write", "apply"}
        /\ op[r].pc = "decide" => op[r].verdict # "none"
        /\ op[r].pc \in {"decide", "apply", "mark"} => req.env # None
        /\ op[r].pc = "mark" => written

TickShape ==
    \A s \in Schedulers : ticks[s].pc # "apply" =>
        /\ ticks[s].batch = [e \in Envs |-> None]
        /\ ticks[s].stale = {}

\* The fields of the row in e that a step changes.
Changed(e) ==
    LET new == IF row'[e] = None THEN Blank ELSE row'[e]
    IN  {f \in Fields : Snapshot(e)[f] # new[f]}

\* A write of a handler, a reviewer or the scheduler changes only fields its
\* writer means to set, unless the row changed (or could not be read) between
\* the read the write is computed from and the write itself: a lost update
\* takes a race, or a failed read.
OnlyWhatWasAsked ==
    [][\A e \in Envs : Changed(e) # {} =>
         \/ \E r \in Requests :
               /\ op[r].env = e
               /\ op'[r].pc # op[r].pc
               /\ op[r].stale \/ Changed(e) \subseteq op[r].asked
         \/ \E s \in Schedulers :
               /\ ticks'[s].batch[e] # ticks[s].batch[e]
               /\ \/ e \in ticks[s].stale
                  \/ Changed(e) \subseteq {"enabled", "enableAt", "disableAt"}]_vars

\* A change request that says "applied" has had its payload upserted: a failed
\* applyChange, or a crash on either side of it, never shows as applied.
AppliedWasWritten == req.status = "applied" => written

\* The inductive invariant the theorems rest on.
IInv ==
    /\ TypeOK
    /\ LockHeld
    /\ DraftFresh
    /\ BatchFresh
    /\ OpShape
    /\ TickShape
    /\ AppliedWasWritten
    /\ req.status # "none" => req.env # None

\* A schedule whose time has come is carried out (or withdrawn) in the end,
\* whichever schedulers crash, lose their session or fail an upsert, and
\* whatever stale rows the handlers write back meanwhile.
ScheduleFires == \A e \in Envs : DueRow(e, now) ~> ~DueRow(e, now)

\* "Kill instantly disables a flag in the specified environment" (flags.go):
\* it is off until somebody asks for it to be on.
KillHolds == \A e \in killed : row[e] = None \/ ~row[e].enabled

\* "If approved, the change is applied" (approval.go).
ApprovedIsApplied == req.status = "approved" ~> req.status = "applied"
=============================================================================
