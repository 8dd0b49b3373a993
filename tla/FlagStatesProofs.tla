-------------------------- MODULE FlagStatesProofs --------------------------
(***************************************************************************)
(* Proofs about FlagStates for any number of requests, server processes and *)
(* environments, any request bodies and payload, and any bounds.            *)
(***************************************************************************)
EXTENDS FlagStates, TLAPS

-----------------------------------------------------------------------------
(***************************************************************************)
(* Rows.                                                                    *)
(***************************************************************************)
\* The constant records have their types.
LEMMA ConstantTypes == Blank \in Row /\ NoOp \in Op /\ NoTick \in Tick
<1>1. Blank \in Row
  BY DEF Blank, Row, Configs, Variants, Times
<1>2. NoOp \in Op
  BY <1>1 DEF NoOp, Op
<1>3. NoTick \in Tick
  BY FlagStatesAssumption DEF NoTick, Tick, FlagStatesAssumption
<1> QED
  BY <1>1, <1>2, <1>3

\* GetFlagState, or the blank row taken for its error.
LEMMA SnapshotType ==
    ASSUME TypeOK, NEW e \in Envs
    PROVE  Snapshot(e) \in Row
BY ConstantTypes DEF TypeOK, Snapshot

\* A merge yields a row that differs in fields of the patch only.
LEMMA MergeType ==
    ASSUME NEW patch \in Patches, NEW old \in Row
    PROVE  /\ Merge(patch, old) \in Row
           /\ \A f \in Fields \ DOMAIN patch : Merge(patch, old)[f] = old[f]
<1> DEFINE pick(f) == IF f \in DOMAIN patch THEN patch[f] ELSE old[f]
<1>1. pick("enabled") \in BOOLEAN
  BY FlagStatesAssumption DEF FlagStatesAssumption, Row
<1>2. pick("config") \in Configs
  BY DEF Row, Configs
<1>3. pick("variants") \in Variants
  BY DEF Row, Variants
<1>4. pick("enableAt") \in Times /\ pick("disableAt") \in Times
  BY FlagStatesAssumption DEF FlagStatesAssumption, Row
<1>5. Merge(patch, old) = [enabled |-> pick("enabled"), config |-> pick("config"),
         variants |-> pick("variants"), enableAt |-> pick("enableAt"),
         disableAt |-> pick("disableAt")]
  BY DEF Merge
<1>6. Merge(patch, old) \in Row
  BY <1>1, <1>2, <1>3, <1>4, <1>5 DEF Row
<1>7. \A f \in Fields : Merge(patch, old)[f] = pick(f)
  BY <1>5 DEF Fields
<1> QED
  BY <1>6, <1>7

\* The scheduler's toggle leaves config and variants alone.
LEMMA ToggledType ==
    ASSUME NEW fs \in Row, NEW at \in 0..MaxTime
    PROVE  /\ Toggled(fs, at) \in Row
           /\ \A f \in Fields \ {"enabled", "enableAt", "disableAt"} :
                Toggled(fs, at)[f] = fs[f]
<1>1. \A t : Due(t, at) \in BOOLEAN
  BY DEF Due
<1>2. Toggled(fs, at) \in Row
  BY <1>1 DEF Toggled, Row, Times
<1>3. \A f \in {"config", "variants"} : Toggled(fs, at)[f] = fs[f]
  BY DEF Toggled, Row
<1> QED
  BY <1>2, <1>3 DEF Fields

\* Marking what others hold as stale touches nothing else of it.
LEMMA AgeTypes ==
    ASSUME TypeOK, NEW e \in Envs
    PROVE  /\ AgeOps(e) \in [Requests -> Op]
           /\ \A r \in Requests :
                /\ \A f \in {"pc", "kind", "env", "draft", "asked", "verdict"} :
                      AgeOps(e)[r][f] = op[r][f]
                /\ ~AgeOps(e)[r].stale => ~op[r].stale /\ op[r].env # e
           /\ AgeTicks(e) \in [Schedulers -> Tick]
           /\ \A s \in Schedulers :
                /\ \A f \in {"pc", "at", "lost", "batch"} :
                      AgeTicks(e)[s][f] = ticks[s][f]
                /\ ticks[s].pc = "apply" =>
                      AgeTicks(e)[s].stale = ticks[s].stale \cup {e}
                /\ ticks[s].pc # "apply" => AgeTicks(e)[s].stale = ticks[s].stale
<1>1. AgeOps(e) \in [Requests -> Op]
  <2>1. \A o \in Op : [o EXCEPT !.stale = TRUE] \in Op
    BY DEF Op
  <2> QED
    BY <2>1 DEF TypeOK, AgeOps
<1>2. AgeTicks(e) \in [Schedulers -> Tick]
  BY DEF TypeOK, AgeTicks, Tick
<1>3. ASSUME NEW r \in Requests
      PROVE  /\ \A f \in {"pc", "kind", "env", "draft", "asked", "verdict"} :
                   AgeOps(e)[r][f] = op[r][f]
             /\ ~AgeOps(e)[r].stale => ~op[r].stale /\ op[r].env # e
  BY DEF TypeOK, AgeOps, Op
<1>4. ASSUME NEW s \in Schedulers
      PROVE  /\ \A f \in {"pc", "at", "lost", "batch"} :
                   AgeTicks(e)[s][f] = ticks[s][f]
             /\ ticks[s].pc = "apply" =>
                   AgeTicks(e)[s].stale = ticks[s].stale \cup {e}
             /\ ticks[s].pc # "apply" => AgeTicks(e)[s].stale = ticks[s].stale
  BY DEF TypeOK, AgeTicks, Tick
<1> QED
  BY <1>1, <1>2, <1>3, <1>4

-----------------------------------------------------------------------------
(***************************************************************************)
(* The three kinds of step: a request moves on without writing a row, a row *)
(* is written, a scheduler moves on without writing a row.                  *)
(***************************************************************************)
LEMMA InitIInv == Init => IInv
<1> SUFFICES ASSUME Init PROVE IInv
  OBVIOUS
<1>1. TypeOK
  <2>1. req \in Request
    BY DEF Init, Request
  <2>2. /\ row \in [Envs -> Row \cup {None}]
        /\ op \in [Requests -> Op]
        /\ ticks \in [Schedulers -> Tick]
    BY ConstantTypes DEF Init
  <2>3. now \in 0..MaxTime /\ calls \in 0..MaxCalls /\ faults \in 0..MaxFaults
    BY FlagStatesAssumption DEF Init, FlagStatesAssumption
  <2>4. lock \in Schedulers \cup {None} /\ written \in BOOLEAN /\ killed \subseteq Envs
    BY DEF Init
  <2> QED
    BY <2>1, <2>2, <2>3, <2>4 DEF TypeOK
<1>2. \A r \in Requests : op[r] = NoOp
  BY DEF Init
<1>3. \A s \in Schedulers : ticks[s] = NoTick
  BY DEF Init
<1>4. DraftFresh /\ OpShape
  BY <1>2 DEF NoOp, DraftFresh, OpShape
<1>5. LockHeld /\ BatchFresh /\ TickShape
  BY <1>3 DEF NoTick, LockHeld, BatchFresh, TickShape
<1> QED
  BY <1>1, <1>4, <1>5 DEF Init, IInv, AppliedWasWritten

\* Request r goes over to o, the change request perhaps to req'.
LEMMA OpStep ==
    ASSUME IInv, NEW r \in Requests, NEW o \in Op,
           op' = [op EXCEPT ![r] = o],
           UNCHANGED <<row, now, ticks, lock, written, killed>>,
           calls' \in 0..MaxCalls, faults' \in 0..MaxFaults, req' \in Request,
           req.env # None => req'.env # None,
           req'.status # "none" => req'.env # None,
           req'.status = "applied" => written,
           o.env # None <=> o.pc \in {"write", "apply"},
           o.pc = "decide" => o.verdict # "none",
           o.pc \in {"decide", "apply", "mark"} => req'.env # None,
           o.pc = "mark" => written,
           o.env # None /\ ~o.stale =>
               \A f \in Fields \ o.asked : o.draft[f] = Snapshot(o.env)[f]
    PROVE  IInv'
<1>1. TypeOK'
  BY DEF IInv, TypeOK
<1>2. \A x \in Requests : op'[x] = IF x = r THEN o ELSE op[x]
  BY DEF IInv, TypeOK
<1>3. LockHeld' /\ BatchFresh' /\ TickShape'
  BY DEF IInv, LockHeld, BatchFresh, TickShape
<1>4. DraftFresh'
  <2> SUFFICES ASSUME NEW x \in Requests, op'[x].env # None, ~op'[x].stale,
                      NEW f \in Fields \ op'[x].asked
               PROVE  op[x].draft[f]' = Snapshot(op[x].env)'[f]
    BY DEF DraftFresh
  <2>1. op'[x].draft[f] = Snapshot(op'[x].env)[f]
    BY <1>2 DEF IInv, DraftFresh
  <2> QED
    BY <2>1 DEF Snapshot
<1>5. OpShape'
  <2> SUFFICES ASSUME NEW x \in Requests
               PROVE  /\ op'[x].env # None <=> op'[x].pc \in {"write", "apply"}
                      /\ op'[x].pc = "decide" => op'[x].verdict # "none"
                      /\ op'[x].pc \in {"decide", "apply", "mark"} => req'.env # None
                      /\ op'[x].pc = "mark" => written'
    BY DEF OpShape
  <2> QED
    BY <1>2 DEF IInv, OpShape
<1> QED
  BY <1>1, <1>3, <1>4, <1>5 DEF IInv, AppliedWasWritten

\* The row in e becomes fs; a request that held a row of e, and a batch with one,
\* is stale or gives it up.
LEMMA WriteStep ==
    ASSUME IInv, NEW e \in Envs, NEW fs \in Row,
           row' = [row EXCEPT ![e] = fs], killed' \subseteq Envs,
           UNCHANGED <<now, lock, calls, faults, req>>,
           written' \in BOOLEAN, written => written',
           op' \in [Requests -> Op],
           \A r \in Requests :
               \/ op'[r] = AgeOps(e)[r]
               \/ op'[r].env = None /\ op'[r].pc = "idle"
               \/ op'[r].env = None /\ op'[r].pc = "mark" /\ written' /\ req.env # None,
           ticks' \in [Schedulers -> Tick],
           \A s \in Schedulers :
               /\ ticks'[s].pc = ticks[s].pc /\ ticks'[s].lost = ticks[s].lost
               /\ ticks'[s].stale = AgeTicks(e)[s].stale
               /\ \A x \in Envs : ticks'[s].batch[x] \in {ticks[s].batch[x], None}
               /\ ticks[s].pc # "apply" => ticks'[s].batch = ticks[s].batch
    PROVE  IInv'
<1> USE DEF IInv
<1>1. TypeOK'
  BY DEF TypeOK
<1>2. LockHeld' /\ AppliedWasWritten'
  BY DEF LockHeld, AppliedWasWritten
<1>3. \A x \in Envs : row'[x] = IF x = e THEN fs ELSE row[x]
  BY DEF TypeOK
<1>4. DraftFresh'
  <2> SUFFICES ASSUME NEW r \in Requests, op'[r].env # None, ~op'[r].stale,
                      NEW f \in Fields \ op'[r].asked
               PROVE  op[r].draft[f]' = Snapshot(op[r].env)'[f]
    BY DEF DraftFresh
  <2>1. op'[r] = AgeOps(e)[r]
    OBVIOUS
  <2>2. /\ op'[r].env = op[r].env /\ op'[r].draft = op[r].draft
        /\ op'[r].asked = op[r].asked /\ ~op[r].stale /\ op[r].env # e
    BY <2>1, AgeTypes
  <2>3. op'[r].draft[f] = Snapshot(op[r].env)[f]
    BY <2>2 DEF DraftFresh
  <2>4. op[r].env \in Envs \ {e}
    BY <2>2 DEF TypeOK, Op
  <2> QED
    BY <1>3, <2>2, <2>3, <2>4 DEF Snapshot
<1>5. BatchFresh' /\ TickShape'
  <2>1. ASSUME NEW s \in Schedulers, NEW x \in Envs,
               ticks'[s].batch[x] # None, x \notin ticks'[s].stale
        PROVE  ticks'[s].batch[x] = row'[x]
    <3>1. ticks'[s].batch[x] = ticks[s].batch[x]
      BY <2>1
    <3>2. ticks[s].pc = "apply"
      BY <2>1, <3>1 DEF TickShape
    <3>3. x # e /\ x \notin ticks[s].stale
      BY <2>1, <3>2, AgeTypes
    <3> QED
      BY <1>3, <2>1, <3>1, <3>3 DEF BatchFresh
  <2>2. ASSUME NEW s \in Schedulers, ticks'[s].pc # "apply"
        PROVE  ticks'[s].batch = [x \in Envs |-> None] /\ ticks'[s].stale = {}
    BY <2>2, AgeTypes DEF TickShape
  <2> QED
    BY <2>1, <2>2 DEF BatchFresh, TickShape
<1>6. OpShape'
  <2> SUFFICES ASSUME NEW r \in Requests
               PROVE  /\ op'[r].env # None <=> op'[r].pc \in {"write", "apply"}
                      /\ op'[r].pc = "decide" => op'[r].verdict # "none"
                      /\ op'[r].pc \in {"decide", "apply", "mark"} => req'.env # None
                      /\ op'[r].pc = "mark" => written'
    BY DEF OpShape
  <2>1. CASE op'[r] = AgeOps(e)[r]
    <3>1. /\ op'[r].env = op[r].env /\ op'[r].pc = op[r].pc
          /\ op'[r].verdict = op[r].verdict
      BY <2>1, AgeTypes
    <3> QED
      BY <3>1 DEF OpShape
  <2> QED
    BY <2>1
<1> QED
  BY <1>1, <1>2, <1>4, <1>5, <1>6

\* Scheduler s goes over to t.
LEMMA TickStep ==
    ASSUME IInv, NEW s \in Schedulers, NEW t \in Tick,
           ticks' = [ticks EXCEPT ![s] = t],
           UNCHANGED <<row, now, op, calls, req, written, killed>>,
           faults' \in 0..MaxFaults, lock' \in Schedulers \cup {None},
           lock' = lock \/ lock \in {s, None},
           t.pc # "idle" /\ ~t.lost => lock' = s,
           \A e \in Envs : t.batch[e] # None /\ e \notin t.stale => t.batch[e] = row[e],
           t.pc # "apply" => t.batch = [e \in Envs |-> None] /\ t.stale = {}
    PROVE  IInv'
<1> USE DEF IInv
<1>1. TypeOK'
  BY DEF TypeOK
<1>2. \A x \in Schedulers : ticks'[x] = IF x = s THEN t ELSE ticks[x]
  BY DEF TypeOK
<1>3. LockHeld'
  BY <1>2, FlagStatesAssumption DEF LockHeld, FlagStatesAssumption
<1>4. BatchFresh'
  BY <1>2 DEF BatchFresh
<1>5. TickShape'
  BY <1>2 DEF TickShape
<1>6. DraftFresh' /\ OpShape' /\ AppliedWasWritten'
  BY DEF DraftFresh, OpShape, AppliedWasWritten, Snapshot
<1> QED
  BY <1>1, <1>3, <1>4, <1>5, <1>6

-----------------------------------------------------------------------------
(***************************************************************************)
(* Every action is one of them.                                             *)
(***************************************************************************)
\* The bounded counters stay inside their bounds.
LEMMA Counters ==
    ASSUME TypeOK
    PROVE  /\ Call => calls' \in 0..MaxCalls
           /\ Fault => faults' \in 0..MaxFaults
           /\ calls' = calls => calls' \in 0..MaxCalls
           /\ faults' = faults => faults' \in 0..MaxFaults
BY FlagStatesAssumption DEF TypeOK, Call, Fault, FlagStatesAssumption

\* A handler that has computed the row it will write.
LEMMA HoldStep ==
    ASSUME IInv, NEW r \in Requests, NEW kind \in {"update", "kill", "copy"},
           NEW e \in Envs, NEW fs \in Row, NEW asked \in SUBSET Fields,
           NEW stale \in BOOLEAN,
           ~stale => \A f \in Fields \ asked : fs[f] = Snapshot(e)[f],
           Hold(r, kind, e, fs, asked, stale), Fault \/ faults' = faults
    PROVE  IInv'
<1> DEFINE o == [NoOp EXCEPT !.pc = "write", !.kind = kind, !.env = e, !.draft = fs,
                             !.asked = asked, !.stale = stale]
<1>1. /\ o \in Op
      /\ o.pc = "write" /\ o.env = e /\ o.draft = fs /\ o.asked = asked /\ o.stale = stale
  BY DEF NoOp, Op
<1>2. /\ op' = [op EXCEPT ![r] = o] /\ Call
      /\ UNCHANGED <<row, now, ticks, lock, req, written, killed>>
  BY DEF Hold
<1>3. calls' \in 0..MaxCalls /\ faults' \in 0..MaxFaults
  BY <1>2, Counters DEF IInv
<1>4. e # None
  BY FlagStatesAssumption DEF FlagStatesAssumption
<1> HIDE DEF o
<1> QED
  BY <1>1, <1>2, <1>3, <1>4, OpStep DEF IInv, TypeOK, AppliedWasWritten

\* A request that writes no row and holds none afterwards.
LEMMA ReleaseStep ==
    ASSUME IInv, NEW r \in Requests, NEW o \in Op, op' = [op EXCEPT ![r] = o],
           UNCHANGED <<row, now, ticks, lock, req, written, killed>>,
           calls' \in 0..MaxCalls, faults' \in 0..MaxFaults,
           o.env = None, o.pc = "idle" \/ (o.pc = "decide" /\ o.verdict # "none"),
           req.env # None
               \/ o.pc = "idle"
    PROVE  IInv'
BY OpStep DEF IInv, TypeOK, AppliedWasWritten

LEMMA HandlersStep ==
    ASSUME IInv, NEW r \in Requests, NEW e \in Envs
    PROVE  /\ \A patch \in Patches : UpdateState(r, e, patch) => IInv'
           /\ Kill(r, e) => IInv'
           /\ \A src \in Envs : Promote(r, src, e) \/ SyncEnvironments(r, src, e) => IInv'
<1>0. Snapshot(e) \in Row /\ Blank \in Row
  BY SnapshotType, ConstantTypes DEF IInv
<1>1. ASSUME NEW patch \in Patches, UpdateState(r, e, patch) PROVE IInv'
  <2>0. DOMAIN patch \in SUBSET Fields
    BY FlagStatesAssumption DEF FlagStatesAssumption
  <2>1. CASE Hold(r, "update", e, Merge(patch, Snapshot(e)), DOMAIN patch, FALSE)
             /\ UNCHANGED faults
    BY <1>0, <2>0, <2>1, MergeType, HoldStep
  <2>2. CASE Hold(r, "update", e, Merge(patch, Blank), DOMAIN patch, TRUE) /\ Fault
    BY <1>0, <2>0, <2>2, MergeType, HoldStep
  <2> QED
    BY <1>1, <2>1, <2>2 DEF UpdateState
<1>2. ASSUME Kill(r, e) PROVE IInv'
  <2> DEFINE fs == [Snapshot(e) EXCEPT !.enabled = FALSE]
  <2>1. fs \in Row /\ \A f \in Fields \ {"enabled"} : fs[f] = Snapshot(e)[f]
    BY <1>0 DEF Row, Fields
  <2>2. {"enabled"} \in SUBSET Fields
    BY DEF Fields
  <2>3. CASE Hold(r, "kill", e, fs, {"enabled"}, FALSE) /\ UNCHANGED faults
    <3> HIDE DEF fs
    <3> QED
      BY <2>1, <2>2, <2>3, HoldStep
  <2>4. CASE Hold(r, "kill", e, Blank, {"enabled"}, TRUE) /\ Fault
    BY <1>0, <2>2, <2>4, HoldStep
  <2> QED
    BY <1>2, <2>3, <2>4 DEF Kill
<1>3. ASSUME NEW src \in Envs, Promote(r, src, e) PROVE IInv'
  <2> DEFINE fs == [Blank EXCEPT !.enabled = row[src].enabled, !.config = row[src].config]
  <2>1. row[src] \in Row
    BY <1>3 DEF Promote, IInv, TypeOK
  <2>2. fs \in Row
    BY <1>0, <2>1 DEF Row, Blank
  <2>3. Hold(r, "copy", e, fs, Fields, FALSE) /\ UNCHANGED faults
    BY <1>3 DEF Promote
  <2> HIDE DEF fs
  <2> QED
    BY <2>2, <2>3, HoldStep
<1>4. ASSUME NEW src \in Envs, SyncEnvironments(r, src, e) PROVE IInv'
  <2> DEFINE fs == [row[src] EXCEPT !.enableAt = None, !.disableAt = None]
  <2>1. row[src] \in Row
    BY <1>4 DEF SyncEnvironments, IInv, TypeOK
  <2>2. fs \in Row
    BY <2>1 DEF Row, Times
  <2>3. Hold(r, "copy", e, fs, Fields, FALSE) /\ UNCHANGED faults
    BY <1>4 DEF SyncEnvironments
  <2> HIDE DEF fs
  <2> QED
    BY <2>2, <2>3, HoldStep
<1> QED
  BY <1>1, <1>2, <1>3, <1>4

\* The change request, up to its upsert, and the request that is abandoned.
LEMMA ReviewStep ==
    ASSUME IInv, NEW r \in Requests
    PROVE  /\ \A e \in Envs, org \in BOOLEAN : Create(r, e, org) => IInv'
           /\ \A verdict \in {"approved", "rejected"} : Review(r, verdict) => IInv'
           /\ Decide(r) => IInv'
           /\ Mark(r) => IInv'
           /\ Abandon(r) => IInv'
<1>0. NoOp \in Op /\ NoOp.env = None /\ NoOp.pc = "idle"
  BY ConstantTypes DEF NoOp
<1>1. ASSUME NEW e \in Envs, NEW org \in BOOLEAN, Create(r, e, org) PROVE IInv'
  <2>1. req' \in Request /\ req'.env # None /\ req'.status = "pending"
    BY <1>1, FlagStatesAssumption DEF Create, Request, FlagStatesAssumption
  <2>2. calls' \in 0..MaxCalls /\ faults' \in 0..MaxFaults
    BY <1>1, Counters DEF IInv, Create
  <2>3. UNCHANGED <<row, now, op, ticks, lock, written, killed>>
    BY <1>1 DEF Create
  <2>4. TypeOK'
    BY <2>1, <2>2, <2>3 DEF IInv, TypeOK
  <2>5. LockHeld' /\ DraftFresh' /\ BatchFresh' /\ OpShape' /\ TickShape'
    BY <2>1, <2>3 DEF IInv, LockHeld, DraftFresh, BatchFresh, OpShape, TickShape, Snapshot
  <2> QED
    BY <2>1, <2>4, <2>5 DEF IInv, AppliedWasWritten
<1>2. ASSUME NEW verdict \in {"approved", "rejected"}, Review(r, verdict) PROVE IInv'
  <2> DEFINE o == [NoOp EXCEPT !.pc = "decide", !.kind = "review", !.verdict = verdict]
  <2>1. o \in Op /\ o.env = None /\ o.pc = "decide" /\ o.verdict # "none"
    BY <1>0 DEF NoOp, Op
  <2>2. /\ op' = [op EXCEPT ![r] = o]
        /\ UNCHANGED <<row, now, ticks, lock, req, written, killed>>
    BY <1>2 DEF Review
  <2>3. calls' \in 0..MaxCalls /\ faults' \in 0..MaxFaults
    BY <1>2, Counters DEF IInv, Review
  <2>4. req.env # None
    BY <1>2 DEF Review, IInv
  <2> HIDE DEF o
  <2> QED
    BY <2>1, <2>2, <2>3, <2>4, ReleaseStep
<1>3. ASSUME Decide(r) PROVE IInv'
  <2> DEFINE o == IF op[r].verdict = "approved"
                  THEN [NoOp EXCEPT !.pc = "apply", !.kind = "review", !.env = req.env,
                                    !.draft = Payload, !.asked = Fields]
                  ELSE NoOp
  <2>1. req.env \in Envs /\ req.env # None /\ op[r].verdict \in {"approved", "rejected"}
    BY <1>3 DEF Decide, IInv, TypeOK, OpShape, Op, Request
  <2>2. /\ o \in Op
        /\ o.env # None <=> o.pc \in {"write", "apply"}
        /\ o.pc \in {"idle", "apply"}
        /\ o.env # None => o.asked = Fields
    BY <1>0, <2>1, FlagStatesAssumption DEF NoOp, Op, FlagStatesAssumption
  <2>3. /\ req' \in Request /\ req'.env = req.env
        /\ req'.status \in {"approved", "rejected"}
    BY <1>3, <2>1 DEF Decide, IInv, TypeOK, Request
  <2>4. /\ op' = [op EXCEPT ![r] = o]
        /\ UNCHANGED <<row, now, ticks, lock, calls, faults, written, killed>>
    BY <1>3 DEF Decide
  <2> HIDE DEF o
  <2>5. calls' \in 0..MaxCalls /\ faults' \in 0..MaxFaults
    BY <2>4 DEF IInv, TypeOK
  <2> QED
    BY <2>1, <2>2, <2>3, <2>4, <2>5, OpStep
<1>4. ASSUME Mark(r) PROVE IInv'
  <2>1. written /\ op' = [op EXCEPT ![r] = NoOp]
    BY <1>4 DEF Mark, IInv, OpShape
  <2>2. req' \in Request /\ req'.env = req.env /\ req'.status = "applied"
    BY <1>4 DEF Mark, IInv, TypeOK, Request
  <2>3. UNCHANGED <<row, now, ticks, lock, calls, faults, written, killed>>
    BY <1>4 DEF Mark
  <2>4. req.env # None
    BY <1>4 DEF Mark, IInv, OpShape
  <2> QED
    BY <1>0, <2>1, <2>2, <2>3, <2>4, OpStep DEF IInv, TypeOK
<1>5. ASSUME Abandon(r) PROVE IInv'
  <2>1. calls' \in 0..MaxCalls /\ faults' \in 0..MaxFaults
    BY <1>5, Counters DEF IInv, Abandon
  <2> QED
    BY <1>0, <1>5, <2>1, ReleaseStep DEF Abandon
<1> QED
  BY <1>1, <1>2, <1>3, <1>4, <1>5

\* The upserts.
LEMMA UpsertStep ==
    ASSUME IInv
    PROVE  /\ \A r \in Requests : Save(r) \/ Apply(r) => IInv'
           /\ \A s \in Schedulers, e \in Envs : FireOne(s, e) => IInv'
<1> USE DEF IInv
<1>0. NoOp \in Op /\ NoOp.env = None /\ NoOp.pc = "idle"
  BY ConstantTypes DEF NoOp
<1>1. ASSUME NEW r \in Requests, op[r].pc \in {"write", "apply"}
      PROVE  op[r].env \in Envs /\ op[r].draft \in Row
  BY <1>1 DEF TypeOK, OpShape, Op
<1>2. ASSUME NEW e \in Envs
      PROVE  \A s \in Schedulers :
               /\ AgeTicks(e)[s].pc = ticks[s].pc /\ AgeTicks(e)[s].lost = ticks[s].lost
               /\ AgeTicks(e)[s].batch = ticks[s].batch
  BY AgeTypes
<1>3. ASSUME NEW e, NEW fs, NEW asked, NEW kill, e \in Envs, Upsert(e, fs, asked, kill)
      PROVE  row' = [row EXCEPT ![e] = fs] /\ killed' \subseteq Envs
  BY <1>3 DEF Upsert, TypeOK
<1>4. ASSUME NEW r \in Requests, Save(r) PROVE IInv'
  <2> DEFINE e == op[r].env
  <2>1. e \in Envs /\ op[r].draft \in Row
    BY <1>1, <1>4 DEF Save
  <2>2. row' = [row EXCEPT ![e] = op[r].draft] /\ killed' \subseteq Envs
    BY <1>3, <1>4, <2>1 DEF Save
  <2>3. /\ op' \in [Requests -> Op]
        /\ \A x \in Requests : op'[x] = IF x = r THEN NoOp ELSE AgeOps(e)[x]
    BY <1>0, <1>4, <2>1, AgeTypes DEF Save
  <2>4. ticks' = AgeTicks(e) /\ ticks' \in [Schedulers -> Tick]
    BY <1>4, <2>1, AgeTypes DEF Save
  <2>5. UNCHANGED <<now, lock, calls, faults, req, written>> /\ written' \in BOOLEAN
    BY <1>4 DEF Save, TypeOK
  <2> HIDE DEF e, IInv
  <2> QED
    BY <1>0, <1>2, <2>1, <2>2, <2>3, <2>4, <2>5, WriteStep
<1>5. ASSUME NEW r \in Requests, Apply(r) PROVE IInv'
  <2>1. CASE ~req.org
    <3>1. op' = [op EXCEPT ![r] = NoOp]
          /\ UNCHANGED <<row, now, ticks, lock, calls, faults, req, written, killed>>
      BY <1>5, <2>1 DEF Apply
    <3> QED
      BY <1>0, <3>1, ReleaseStep DEF TypeOK
  <2>2. CASE req.org
    <3> DEFINE e == op[r].env
               o == [NoOp EXCEPT !.pc = "mark", !.kind = "review"]
    <3>1. e \in Envs /\ op[r].draft \in Row
      BY <1>1, <1>5 DEF Apply
    <3>2. row' = [row EXCEPT ![e] = op[r].draft] /\ killed' \subseteq Envs
      BY <1>3, <1>5, <2>2, <3>1 DEF Apply
    <3>3. o \in Op /\ o.env = None /\ o.pc = "mark"
      BY <1>0 DEF NoOp, Op
    <3>4. op' = [AgeOps(e) EXCEPT ![r] = o] /\ ticks' = AgeTicks(e) /\ written' = TRUE
          /\ UNCHANGED <<now, lock, calls, faults, req>>
      BY <1>5, <2>2 DEF Apply
    <3>5. req.env # None
      BY <1>5 DEF Apply, OpShape
    <3> HIDE DEF e, o, IInv
    <3>6. /\ op' \in [Requests -> Op]
          /\ \A x \in Requests : op'[x] = IF x = r THEN o ELSE AgeOps(e)[x]
      BY <3>1, <3>3, <3>4, AgeTypes DEF IInv
    <3>7. ticks' \in [Schedulers -> Tick]
      BY <3>1, <3>4, AgeTypes DEF IInv
    <3> QED
      BY <1>2, <3>1, <3>2, <3>3, <3>4, <3>5, <3>6, <3>7, WriteStep
  <2> QED
    BY <2>1, <2>2
<1>6. ASSUME NEW s \in Schedulers, NEW e \in Envs, FireOne(s, e) PROVE IInv'
  <2> DEFINE fs == ticks[s].batch[e]
  <2>1. fs \in Row /\ ticks[s].at \in 0..MaxTime
    BY <1>6 DEF FireOne, TypeOK, Tick
  <2>2. Toggled(fs, ticks[s].at) \in Row
    BY <2>1, ToggledType
  <2>3. row' = [row EXCEPT ![e] = Toggled(fs, ticks[s].at)] /\ killed' \subseteq Envs
    BY <1>3, <1>6 DEF FireOne
  <2>4. op' = AgeOps(e) /\ op' \in [Requests -> Op]
    BY <1>6, AgeTypes DEF FireOne
  <2>5. /\ ticks' = [AgeTicks(e) EXCEPT ![s].batch[e] = None]
        /\ ticks[s].pc = "apply"
        /\ UNCHANGED <<now, lock, calls, faults, req, written>> /\ written' \in BOOLEAN
    BY <1>6 DEF FireOne, TypeOK
  <2>6. AgeTicks(e) \in [Schedulers -> Tick]
    BY AgeTypes
  <2>7. \A t \in Tick :
           /\ [t EXCEPT !.batch[e] = None] \in Tick
           /\ [t EXCEPT !.batch[e] = None].pc = t.pc
           /\ [t EXCEPT !.batch[e] = None].lost = t.lost
           /\ [t EXCEPT !.batch[e] = None].stale = t.stale
           /\ \A x \in Envs : [t EXCEPT !.batch[e] = None].batch[x] \in {t.batch[x], None}
    BY DEF Tick
  <2>8. /\ ticks' \in [Schedulers -> Tick]
        /\ \A x \in Schedulers :
             ticks'[x] = IF x = s THEN [AgeTicks(e)[s] EXCEPT !.batch[e] = None]
                         ELSE AgeTicks(e)[x]
    BY <2>5, <2>6, <2>7
  <2>9. \A x \in Schedulers :
          /\ ticks'[x].pc = ticks[x].pc /\ ticks'[x].lost = ticks[x].lost
          /\ ticks'[x].stale = AgeTicks(e)[x].stale
          /\ \A y \in Envs : ticks'[x].batch[y] \in {ticks[x].batch[y], None}
          /\ ticks[x].pc # "apply" => ticks'[x].batch = ticks[x].batch
    BY <1>2, <2>5, <2>6, <2>7, <2>8
  <2> HIDE DEF fs, IInv
  <2> QED
    BY <2>2, <2>3, <2>4, <2>5, <2>8, <2>9, WriteStep
<1> QED
  BY <1>4, <1>5, <1>6

\* A tick, disturbed or not, except for its upserts.
LEMMA SchedulerStep ==
    ASSUME IInv, NEW s \in Schedulers
    PROVE  /\ TryLock(s) => IInv'
           /\ List(s) => IInv'
           /\ \A e \in Envs : SkipOne(s, e) => IInv'
           /\ EndTick(s) \/ BreakTick(s) => IInv'
           /\ LoseSession(s) => IInv'
<1>0. ticks[s] \in Tick /\ s # None
  BY FlagStatesAssumption DEF IInv, TypeOK, FlagStatesAssumption
<1>1. /\ ticks[s].pc # "idle" /\ ~ticks[s].lost => lock = s
      /\ \A e \in Envs : ticks[s].batch[e] # None /\ e \notin ticks[s].stale
                            => ticks[s].batch[e] = row[e]
      /\ ticks[s].pc # "apply" =>
            ticks[s].batch = [e \in Envs |-> None] /\ ticks[s].stale = {}
  BY DEF IInv, LockHeld, BatchFresh, TickShape
<1>2. ASSUME TryLock(s) PROVE IInv'
  <2> DEFINE t == [ticks[s] EXCEPT !.pc = "list"]
  <2>1. /\ t \in Tick /\ t.pc = "list"
        /\ t.batch = ticks[s].batch /\ t.stale = ticks[s].stale
    BY <1>0 DEF Tick
  <2>2. /\ ticks' = [ticks EXCEPT ![s] = t]
        /\ ticks[s].pc = "idle" /\ lock = None /\ lock' = s
        /\ UNCHANGED <<row, now, op, calls, faults, req, written, killed>>
    BY <1>2 DEF TryLock
  <2>3. faults' \in 0..MaxFaults
    BY <2>2, Counters DEF IInv
  <2>4. /\ lock' \in Schedulers \cup {None} /\ lock \in {s, None} /\ lock' = s
        /\ \A e \in Envs : t.batch[e] # None /\ e \notin t.stale => t.batch[e] = row[e]
        /\ t.batch = [e \in Envs |-> None] /\ t.stale = {}
    BY <1>1, <2>1, <2>2
  <2> HIDE DEF t
  <2> QED
    BY <2>1, <2>2, <2>3, <2>4, TickStep
<1>3. ASSUME List(s) PROVE IInv'
  <2> DEFINE b == [e \in Envs |-> IF DueRow(e, now) THEN row[e] ELSE None]
             t == [ticks[s] EXCEPT !.pc = "apply", !.at = now, !.batch = b]
  <2>1. b \in [Envs -> Row \cup {None}] /\ now \in 0..MaxTime
    BY DEF IInv, TypeOK
  <2>2. \A e \in Envs : b[e] # None => b[e] = row[e]
    OBVIOUS
  <2>3. ticks' = [ticks EXCEPT ![s] = t]
    BY <1>0, <1>3 DEF List, IInv, TypeOK
  <2> HIDE DEF b
  <2>4. /\ t \in Tick /\ t.pc = "apply" /\ t.batch = b
        /\ t.lost = ticks[s].lost /\ t.stale = ticks[s].stale
    BY <1>0, <2>1 DEF Tick
  <2>5. /\ ticks[s].pc = "list"
        /\ UNCHANGED <<row, now, op, lock, calls, faults, req, written, killed>>
    BY <1>3 DEF List
  <2>6. faults' \in 0..MaxFaults /\ lock' \in Schedulers \cup {None}
    BY <2>5, Counters DEF IInv, TypeOK
  <2> HIDE DEF t
  <2> QED
    BY <1>1, <2>2, <2>3, <2>4, <2>5, <2>6, TickStep
<1>4. ASSUME NEW e \in Envs, SkipOne(s, e) PROVE IInv'
  <2> DEFINE t == [ticks[s] EXCEPT !.batch[e] = None]
  <2>1. /\ t \in Tick /\ t.pc = ticks[s].pc
        /\ t.lost = ticks[s].lost /\ t.stale = ticks[s].stale
        /\ \A x \in Envs : t.batch[x] \in {ticks[s].batch[x], None}
    BY <1>0 DEF Tick
  <2>2. /\ ticks' = [ticks EXCEPT ![s] = t]
        /\ ticks[s].pc = "apply" /\ Fault
        /\ UNCHANGED <<row, now, op, lock, calls, req, written, killed>>
    BY <1>4 DEF SkipOne
  <2>3. faults' \in 0..MaxFaults /\ lock' \in Schedulers \cup {None}
    BY <2>2, Counters DEF IInv, TypeOK
  <2> HIDE DEF t
  <2>4. \A x \in Envs : t.batch[x] # None /\ x \notin t.stale => t.batch[x] = row[x]
    BY <1>1, <2>1
  <2>5. t.pc # "idle" /\ ~t.lost => lock' = s
    BY <1>1, <2>1, <2>2
  <2>6. t.pc = "apply"
    BY <2>1, <2>2
  <2>7. lock' = lock /\ UNCHANGED <<row, now, op, calls, req, written, killed>>
    BY <2>2
  <2> QED
    BY <2>1, <2>2, <2>3, <2>4, <2>5, <2>6, <2>7, TickStep
<1>5. ASSUME EndTick(s) \/ BreakTick(s) PROVE IInv'
  <2>1. /\ NoTick \in Tick /\ NoTick.pc = "idle" /\ NoTick.stale = {}
        /\ NoTick.batch = [e \in Envs |-> None]
    BY ConstantTypes DEF NoTick
  <2>2. Unlock(s) /\ (Fault \/ faults' = faults)
    BY <1>5 DEF EndTick, BreakTick
  <2>3. /\ ticks' = [ticks EXCEPT ![s] = NoTick]
        /\ lock' = IF lock = s THEN None ELSE lock
        /\ UNCHANGED <<row, now, op, calls, req, written, killed>>
    BY <2>2 DEF Unlock
  <2>4. faults' \in 0..MaxFaults /\ lock' \in Schedulers \cup {None}
    BY <2>2, <2>3, Counters DEF IInv, TypeOK
  <2> QED
    BY <2>1, <2>3, <2>4, TickStep
<1>6. ASSUME LoseSession(s) PROVE IInv'
  <2> DEFINE t == [ticks[s] EXCEPT !.lost = TRUE]
  <2>1. /\ t \in Tick /\ t.pc = ticks[s].pc /\ t.lost
        /\ t.batch = ticks[s].batch /\ t.stale = ticks[s].stale
    BY <1>0 DEF Tick
  <2>2. /\ ticks' = [ticks EXCEPT ![s] = t]
        /\ lock = s /\ lock' = None /\ Fault
        /\ UNCHANGED <<row, now, op, calls, req, written, killed>>
    BY <1>6 DEF LoseSession
  <2>3. faults' \in 0..MaxFaults
    BY <2>2, Counters DEF IInv
  <2> HIDE DEF t
  <2>4. ~(t.pc # "idle" /\ ~t.lost)
    BY <2>1
  <2>5. \A e \in Envs : t.batch[e] # None /\ e \notin t.stale => t.batch[e] = row[e]
    BY <1>1, <2>1
  <2>6. t.pc # "apply" => t.batch = [e \in Envs |-> None] /\ t.stale = {}
    BY <1>1, <2>1
  <2>7. lock' \in Schedulers \cup {None} /\ lock \in {s, None}
    BY <2>2
  <2> QED
    BY <2>1, <2>2, <2>3, <2>4, <2>5, <2>6, <2>7, TickStep
<1> QED
  BY <1>2, <1>3, <1>4, <1>5, <1>6

\* A step that changes only the clock, or nothing.
LEMMA ClockStep ==
    ASSUME IInv, now' \in 0..MaxTime,
           UNCHANGED <<row, op, ticks, lock, calls, faults, req, written, killed>>
    PROVE  IInv'
<1>1. TypeOK'
  BY DEF IInv, TypeOK
<1>2. LockHeld' /\ DraftFresh' /\ BatchFresh' /\ OpShape' /\ TickShape'
  BY DEF IInv, LockHeld, DraftFresh, BatchFresh, OpShape, TickShape, Snapshot
<1> QED
  BY <1>1, <1>2 DEF IInv, AppliedWasWritten

-----------------------------------------------------------------------------
(***************************************************************************)
(* Theorems.                                                                *)
(***************************************************************************)
LEMMA NextIInv == IInv /\ [Next]_vars => IInv'
<1> SUFFICES ASSUME IInv, [Next]_vars PROVE IInv'
  OBVIOUS
<1>1. CASE Pass
  <2>1. now' \in 0..MaxTime
    BY <1>1, FlagStatesAssumption DEF Pass, IInv, TypeOK, FlagStatesAssumption
  <2> QED
    BY <1>1, <2>1, ClockStep DEF Pass
<1>2. ASSUME NEW r \in Requests, Handle(r) PROVE IInv'
  BY <1>2, HandlersStep, ReviewStep, UpsertStep DEF Handle, Statement
<1>3. ASSUME NEW s \in Schedulers, Advance(s) \/ Disturb(s) PROVE IInv'
  BY <1>3, SchedulerStep, UpsertStep DEF Advance, Disturb
<1>4. CASE UNCHANGED vars
  <2>1. now' \in 0..MaxTime
    BY <1>4 DEF vars, IInv, TypeOK
  <2> QED
    BY <1>4, <2>1, ClockStep DEF vars
<1> QED
  BY <1>1, <1>2, <1>3, <1>4 DEF Next

\* The inductive invariant, and the types with it, hold for ever.
THEOREM Inductive == Spec => []IInv
BY InitIInv, NextIInv, PTL DEF Spec

\* Every variable keeps its type in every behaviour.
THEOREM TypeCorrect == Spec => []TypeOK
<1>1. IInv => TypeOK
  BY DEF IInv
<1> QED
  BY <1>1, Inductive, PTL

\* The advisory lock keeps the ticks of any number of server processes apart,
\* up to sessions lost inside a tick.
THEOREM TicksExclusive == Spec => []TickExclusive
<1>1. IInv => TickExclusive
  BY DEF IInv, LockHeld, TickExclusive
<1> QED
  BY <1>1, Inductive, PTL

\* A request marked "applied" has been written, whoever else reviewed it.
THEOREM AppliedIsWritten == Spec => []AppliedWasWritten
<1>1. IInv => AppliedWasWritten
  BY DEF IInv
<1> QED
  BY <1>1, Inductive, PTL

\* A row that a step leaves alone has no changed fields.
LEMMA Untouched ==
    ASSUME NEW e \in Envs, row'[e] = row[e]
    PROVE  Changed(e) = {}
BY DEF Changed, Snapshot

\* Of a row that is upserted, the changed fields are where it differs.
LEMMA Touched ==
    ASSUME NEW e \in Envs, NEW fs \in Row, row'[e] = fs, NEW asked,
           \A f \in Fields \ asked : fs[f] = Snapshot(e)[f]
    PROVE  Changed(e) \subseteq asked
<1>1. fs # None
  BY FlagStatesAssumption DEF FlagStatesAssumption
<1>2. Changed(e) = {f \in Fields : Snapshot(e)[f] # fs[f]}
  BY <1>1 DEF Changed
<1> QED
  BY <1>2

\* Only the upserts touch a row.
LEMMA RowsFrame ==
    ASSUME IInv, [Next]_vars,
           \A r \in Requests : ~Save(r) /\ ~Apply(r),
           \A s \in Schedulers, e \in Envs : ~FireOne(s, e)
    PROVE  row' = row
<1>1. CASE Pass \/ UNCHANGED vars
  BY <1>1 DEF Pass, vars
<1>2. ASSUME NEW r \in Requests, Handle(r) PROVE row' = row
  BY <1>2 DEF Handle, Statement, UpdateState, Kill, Promote, SyncEnvironments, Hold,
              Create, Review, Decide, Mark, Abandon
<1>3. ASSUME NEW s \in Schedulers, Advance(s) \/ Disturb(s) PROVE row' = row
  BY <1>3 DEF Advance, Disturb, TryLock, List, EndTick, BreakTick, Unlock, LoseSession,
              SkipOne
<1> QED
  BY <1>1, <1>2, <1>3 DEF Next

\* A step changes only what its writer asked for, or writes back a row that was
\* overtaken: no handler, review or tick loses another's update by itself.
THEOREM WritesOnlyWhatWasAsked == Spec => OnlyWhatWasAsked
<1> DEFINE Asked(e) ==
         \/ \E r \in Requests :
               /\ op[r].env = e
               /\ op'[r].pc # op[r].pc
               /\ op[r].stale \/ Changed(e) \subseteq op[r].asked
         \/ \E s \in Schedulers :
               /\ ticks'[s].batch[e] # ticks[s].batch[e]
               /\ \/ e \in ticks[s].stale
                  \/ Changed(e) \subseteq {"enabled", "enableAt", "disableAt"}
<1>1. ASSUME IInv, [Next]_vars, NEW e \in Envs, Changed(e) # {}
      PROVE  Asked(e)
  <2>0. row'[e] # row[e]
    BY <1>1, Untouched
  <2>1. ASSUME NEW r \in Requests, Save(r) \/ (Apply(r) /\ req.org)
        PROVE  Asked(e)
    <3>1. /\ row' = [row EXCEPT ![op[r].env] = op[r].draft]
          /\ op[r].pc \in {"write", "apply"}
      BY <2>1 DEF Save, Apply, Upsert
    <3>2. op[r].env \in Envs /\ op[r].draft \in Row
      BY <1>1, <3>1 DEF IInv, TypeOK, OpShape, Op
    <3>3. op[r].env = e /\ row'[e] = op[r].draft
      BY <1>1, <2>0, <3>1, <3>2 DEF IInv, TypeOK
    <3>4. op'[r].pc \in {"idle", "mark"}
      <4>1. AgeOps(e) \in [Requests -> Op]
        BY <1>1, AgeTypes DEF IInv
      <4>2. PICK o \in {NoOp, [NoOp EXCEPT !.pc = "mark", !.kind = "review"]} :
               op' = [AgeOps(e) EXCEPT ![r] = o]
        BY <2>1, <3>3 DEF Save, Apply
      <4>3. o.pc \in {"idle", "mark"}
        <5>1. [NoOp EXCEPT !.pc = "mark", !.kind = "review"].pc = "mark" /\ NoOp.pc = "idle"
          BY DEF NoOp
        <5> QED
          BY <5>1
      <4> QED
        BY <4>1, <4>2, <4>3
    <3>5. ~op[r].stale => Changed(e) \subseteq op[r].asked
      <4> SUFFICES ASSUME ~op[r].stale PROVE Changed(e) \subseteq op[r].asked
        OBVIOUS
      <4>1. op[r].env # None
        BY <3>2, FlagStatesAssumption DEF FlagStatesAssumption
      <4>2. \A f \in Fields \ op[r].asked : op[r].draft[f] = Snapshot(e)[f]
        BY <1>1, <3>3, <4>1 DEF IInv, DraftFresh
      <4> QED
        BY <3>2, <3>3, <4>2, Touched
    <3> QED
      BY <3>1, <3>3, <3>4, <3>5
  <2>2. ASSUME NEW s \in Schedulers, NEW x \in Envs, FireOne(s, x)
        PROVE  Asked(e)
    <3> DEFINE fs == ticks[s].batch[x]
    <3>1. fs \in Row /\ fs # None /\ ticks[s].at \in 0..MaxTime
      BY <1>1, <2>2 DEF FireOne, IInv, TypeOK, Tick
    <3>2. row' = [row EXCEPT ![x] = Toggled(fs, ticks[s].at)]
      BY <2>2 DEF FireOne, Upsert
    <3>3. x = e /\ row'[e] = Toggled(fs, ticks[s].at)
      BY <1>1, <2>0, <3>2 DEF IInv, TypeOK
    <3>4. ticks'[s].batch[e] = None
      <4>1. AgeTicks(e) \in [Schedulers -> Tick]
        BY <1>1, AgeTypes DEF IInv
      <4>2. ticks' = [AgeTicks(e) EXCEPT ![s].batch[e] = None]
        BY <2>2, <3>3 DEF FireOne
      <4> QED
        BY <4>1, <4>2 DEF Tick
    <3>5. e \notin ticks[s].stale =>
            Changed(e) \subseteq {"enabled", "enableAt", "disableAt"}
      <4> SUFFICES ASSUME e \notin ticks[s].stale
                   PROVE  Changed(e) \subseteq {"enabled", "enableAt", "disableAt"}
        OBVIOUS
      <4>1. fs = row[e]
        BY <1>1, <3>1, <3>3 DEF IInv, BatchFresh
      <4>2. Snapshot(e) = fs
        BY <3>1, <4>1 DEF Snapshot
      <4> DEFINE on == Toggled(fs, ticks[s].at)
                 A == {"enabled", "enableAt", "disableAt"}
      <4>3. on \in Row /\ \A f \in Fields \ A : on[f] = Snapshot(e)[f]
        BY <3>1, <4>2, ToggledType
      <4>4. row'[e] = on
        BY <3>3
      <4> HIDE DEF on, A
      <4>5. Changed(e) \subseteq A
        BY <4>3, <4>4, Touched
      <4> QED
        BY <4>5 DEF A
    <3> QED
      BY <3>1, <3>3, <3>4, <3>5
  <2>3. ASSUME NEW r \in Requests, Apply(r), ~req.org PROVE row' = row
    BY <2>3 DEF Apply
  <2>4. (\A r \in Requests : ~Save(r) /\ ~Apply(r))
           /\ (\A s \in Schedulers, x \in Envs : ~FireOne(s, x)) => row' = row
    BY <1>1, RowsFrame
  <2> QED
    BY <2>0, <2>1, <2>2, <2>3, <2>4
<1>2. IInv /\ [Next]_vars => [\A e \in Envs : Changed(e) # {} => Asked(e)]_vars
  BY <1>1
<1> QED
  BY <1>2, Inductive, PTL DEF Spec, OnlyWhatWasAsked
=============================================================================
