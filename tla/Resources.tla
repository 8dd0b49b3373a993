----------------------------- MODULE Resources -----------------------------
(***************************************************************************)
(* What an organization owns: projects, their environments and segments,     *)
(* the environments' API keys (internal/api/handlers/projects.go,             *)
(* segments.go, apikeys.go), the plan's limits in front of them               *)
(* (middleware/tier.go) and the audit log behind them.                        *)
(*                                                                         *)
(* A handler checks in one statement, changes in the next and logs in a       *)
(* transaction of its own; each statement is a step here.  A request that is  *)
(* refused goes back to "idle" having changed nothing.                        *)
(***************************************************************************)
EXTENDS Naturals, Sequences, FiniteSets

CONSTANTS
    Callers,          \* requests in flight
    Names,            \* slugs and keys
    PlanLimit,        \* PlanProjectsLimit, PlanEnvironmentsLimit
    MaxRows,          \* bound: rows made
    MaxMutations,     \* bound: changes made
    MaxResourceFaults \* bound: statements that fail

ASSUME ResourcesAssumption ==
    /\ IsFiniteSet(Callers) /\ Callers # {} /\ PlanLimit \in Nat \ {0}
    /\ MaxRows \in Nat \ 0..2 /\ 1 \in Names /\ MaxMutations \in Nat /\ MaxResourceFaults \in Nat

VARIABLES
    row,        \* row[i]: the i-th row made; kind "none" before it is and after it is deleted
    rowCount,   \* rows made
    caller,     \* caller[c]: the operation, its next statement, the row it is about
    auditLog,   \* audit_logs: the change, its predecessor in the hash chain, when it began
    auditClock, \* transactions of CreateAuditEntry begun
    mutations,  \* history: changes made
    unlogged,   \* history: changes whose entry was refused or failed, with the reason
    auditOverlap, \* history: two transactions of CreateAuditEntry were open at once
    failedOpen, \* history: limit checks skipped because of an error
    resourceFaults

resourceVars == <<row, rowCount, caller, auditLog, auditClock, mutations, unlogged,
                  auditOverlap, failedOpen, resourceFaults>>
rows_ == <<row, rowCount>>
audit_ == <<auditLog, auditClock, unlogged, auditOverlap>>

RowIds == 1..MaxRows
ParentKind == [project |-> "none", environment |-> "project", segment |-> "project",
               key |-> "environment"]
RowKinds == DOMAIN ParentKind
NoRow == [kind |-> "none", parent |-> 0, name |-> 0, state |-> "live"]
NoCaller == [op |-> "none", pc |-> "idle", kind |-> "none", row |-> 0, name |-> 0,
             project |-> 0, change |-> 0, began |-> 0, prev |-> 0]

ResourcesTypeOK ==
    /\ rowCount \in 0..MaxRows
    /\ row \in [RowIds -> [kind : RowKinds \cup {"none"}, parent : 0..MaxRows,
                           name : Names \cup {0},
                           state : {"live", "grace", "over", "revoked"}]]
    /\ caller \in [Callers -> [op : {"none", "create", "update", "delete", "revoke", "rotate"},
                               pc : {"idle", "apply", "begin", "insert"},
                               kind : RowKinds \cup {"none"}, row : 0..MaxRows,
                               name : Names \cup {0}, project : 0..MaxRows,
                               change : 0..MaxMutations, began : 0..MaxMutations,
                               prev : 0..MaxMutations]]
    /\ mutations \in 0..MaxMutations /\ auditClock \in 0..MaxMutations
    /\ auditLog \in Seq([change : 1..MaxMutations, prev : 0..MaxMutations, began : 0..MaxMutations])
    /\ Len(auditLog) <= mutations
    /\ auditOverlap \in BOOLEAN
    /\ failedOpen \in 0..resourceFaults /\ resourceFaults \in 0..MaxResourceFaults

NewRow(kind, parent, name) == [kind |-> kind, parent |-> parent, name |-> name, state |-> "live"]

\* An organization with a project, an environment and a key.
ResourcesInit ==
    /\ row = [i \in RowIds |-> CASE i = 1 -> NewRow("project", 0, 1)
                                  [] i = 2 -> NewRow("environment", 1, 1)
                                  [] i = 3 -> NewRow("key", 2, 0)
                                  [] OTHER -> NoRow]
    /\ rowCount = 3
    /\ caller = [c \in Callers |-> NoCaller]
    /\ auditLog = <<>> /\ auditClock = 0 /\ mutations = 0 /\ unlogged = {}
    /\ auditOverlap = FALSE /\ failedOpen = 0 /\ resourceFaults = 0

Rows(kind, parent) == {i \in RowIds : row[i].kind = kind /\ row[i].parent = parent}
Exists(i) == i = 0 \/ row[i].kind # "none"
ResourceFault == resourceFaults < MaxResourceFaults /\ resourceFaults' = resourceFaults + 1

\* The project a row belongs to, as the handler has it in hand.
ProjectOf(i) ==
    IF i = 0 THEN 0
    ELSE CASE row[i].kind = "project" -> i
           [] row[i].kind = "key" -> row[row[i].parent].parent
           [] OTHER -> row[i].parent

\* A request arrives: an operation on the row i (its parent, for a create), which
\* verifyProjectOwnership, verifyEnvironmentOwnership, GetSegment or GetAPIKeyByID finds.
Ask_(c, op, kind, i, name) ==
    /\ caller[c].pc = "idle" /\ mutations < MaxMutations
    /\ caller' = [caller EXCEPT ![c] =
          [NoCaller EXCEPT !.op = op, !.kind = kind, !.row = i, !.name = name, !.pc = "apply",
                           !.project = ProjectOf(i)]]
    /\ UNCHANGED <<rows_, audit_, mutations>>

-----------------------------------------------------------------------------
\* Mutant: a full plan still has room for one.
TierEnforceLate(kind, i) ==
    \/ /\ Cardinality(Rows(kind, i)) <= PlanLimit
       /\ UNCHANGED <<failedOpen, resourceFaults>>
    \/ ResourceFault /\ failedOpen' = failedOpen + 1

\* The limit is checked before the handler runs, against the rows there are; an
\* error of the read lets the request through.
TierEnforce(kind, i) ==
    \/ /\ Cardinality(Rows(kind, i)) < PlanLimit
       /\ UNCHANGED <<failedOpen, resourceFaults>>
    \/ ResourceFault /\ failedOpen' = failedOpen + 1

ProjectCreate(c, name) == Ask_(c, "create", "project", 0, name) /\ TierEnforce("project", 0)

EnvironmentCreate(c, i, name) ==
    /\ row[i].kind = "project"
    /\ Ask_(c, "create", "environment", i, name) /\ TierEnforce("environment", i)

Unlimited == UNCHANGED <<failedOpen, resourceFaults>>

SegmentCreate(c, i, name) ==
    row[i].kind = "project" /\ Ask_(c, "create", "segment", i, name) /\ Unlimited
APIKeyCreate(c, i) ==
    row[i].kind = "environment" /\ Ask_(c, "create", "key", i, 0) /\ Unlimited
ProjectUpdate(c, i, name) ==
    row[i].kind = "project" /\ Ask_(c, "update", "project", i, name) /\ Unlimited
EnvironmentUpdate(c, i, name) ==
    row[i].kind = "environment" /\ Ask_(c, "update", "environment", i, name) /\ Unlimited
SegmentUpdate(c, i) ==
    row[i].kind = "segment" /\ Ask_(c, "update", "segment", i, row[i].name) /\ Unlimited
ProjectDelete(c, i) ==
    row[i].kind = "project" /\ Ask_(c, "delete", "project", i, 0) /\ Unlimited
EnvironmentDelete(c, i) ==
    row[i].kind = "environment" /\ Ask_(c, "delete", "environment", i, 0) /\ Unlimited
SegmentDelete(c, i) ==
    row[i].kind = "segment" /\ Ask_(c, "delete", "segment", i, 0) /\ Unlimited
APIKeyRevoke(c, i) ==
    row[i].kind = "key" /\ Ask_(c, "revoke", "key", i, 0) /\ Unlimited
APIKeyRotate(c, i) ==
    row[i].kind = "key" /\ Ask_(c, "rotate", "key", i, 0) /\ Unlimited

-----------------------------------------------------------------------------
Refused(c) == caller' = [caller EXCEPT ![c] = NoCaller]
On(c, pc, ops) == caller[c].pc = pc /\ caller[c].op \in ops

\* The change is made: it is to be logged.
Mutated(c) ==
    /\ mutations < MaxMutations /\ mutations' = mutations + 1
    /\ caller' = [caller EXCEPT ![c] =
          [NoCaller EXCEPT !.pc = "begin", !.change = mutations',
             !.project = IF caller[c].op = "create" /\ caller[c].kind = "project"
                         THEN rowCount' ELSE caller[c].project]]
    /\ UNCHANGED <<audit_, failedOpen, resourceFaults>>

\* A slug or key is unique among the rows of one parent; API keys have none.
Taken(kind, parent, name, but) ==
    kind # "key" /\ \E i \in Rows(kind, parent) \ {but} : row[i].name = name

\* INSERT: the foreign key and the unique index decide.
InsertRow(c) ==
    LET q == caller[c] IN
    /\ On(c, "apply", {"create"})
    /\ IF Exists(q.row) /\ ~Taken(q.kind, q.row, q.name, 0)
       THEN /\ rowCount < MaxRows /\ rowCount' = rowCount + 1
            /\ row' = [row EXCEPT ![rowCount'] = NewRow(q.kind, q.row, q.name)]
            /\ Mutated(c)
       ELSE /\ Refused(c)
            /\ UNCHANGED <<rows_, audit_, mutations, failedOpen, resourceFaults>>

\* UPDATE ... WHERE id: no error when the row is gone.
UpdateRow(c) ==
    LET q == caller[c] IN
    /\ On(c, "apply", {"update"})
    /\ IF Exists(q.row) /\ Taken(q.kind, row[q.row].parent, q.name, q.row)
       THEN /\ Refused(c)
            /\ UNCHANGED <<rows_, audit_, mutations, failedOpen, resourceFaults>>
       ELSE /\ row' = IF Exists(q.row) THEN [row EXCEPT ![q.row].name = q.name] ELSE row
            /\ UNCHANGED rowCount
            /\ Mutated(c)

\* The rows below i, to any depth.
Below(i) == {j \in RowIds : row[j].kind # "none" /\ row[j].parent # 0 /\
                            (row[j].parent = i \/ row[row[j].parent].parent = i)}

\* DELETE with ON DELETE CASCADE.
DeleteRow(c) ==
    LET i == caller[c].row IN
    /\ On(c, "apply", {"delete"})
    /\ row' = [j \in RowIds |-> IF j \in Below(i) \cup {i} THEN NoRow ELSE row[j]]
    /\ UNCHANGED rowCount
    /\ Mutated(c)

RevokeAPIKey(c) ==
    LET i == caller[c].row IN
    /\ On(c, "apply", {"revoke"})
    /\ row' = IF Exists(i) THEN [row EXCEPT ![i].state = "revoked"] ELSE row
    /\ UNCHANGED rowCount
    /\ Mutated(c)

\* One transaction: the old key gets its grace period, whatever its state, and the new
\* one is made; both or neither.
RotateAPIKey(c) ==
    LET i == caller[c].row IN
    /\ On(c, "apply", {"rotate"})
    /\ IF Exists(i)
       THEN /\ rowCount < MaxRows /\ rowCount' = rowCount + 1
            /\ row' = [row EXCEPT ![i].state = IF @ = "revoked" THEN @ ELSE "grace",
                                  ![rowCount'] = NewRow("key", row[i].parent, 0)]
            /\ Mutated(c)
       ELSE /\ Refused(c)
            /\ UNCHANGED <<rows_, audit_, mutations, failedOpen, resourceFaults>>

\* The statement fails: the handler answers an error and logs nothing.
ApplyFails(c) ==
    /\ caller[c].pc = "apply" /\ ResourceFault /\ Refused(c)
    /\ UNCHANGED <<rows_, audit_, mutations, failedOpen>>

\* Time: a grace period runs out.
GraceOver(i) ==
    /\ row[i].state = "grace" /\ row' = [row EXCEPT ![i].state = "over"]
    /\ UNCHANGED <<rowCount, caller, audit_, mutations, failedOpen, resourceFaults>>

CleanExpiredGracePeriodKeys ==
    /\ \E i \in RowIds : row[i].state = "over"
    /\ row' = [i \in RowIds |-> IF row[i].state = "over" THEN [row[i] EXCEPT !.state = "revoked"]
                                ELSE row[i]]
    /\ UNCHANGED <<rowCount, caller, audit_, mutations, failedOpen, resourceFaults>>

-----------------------------------------------------------------------------
(* CreateAuditEntry.  The row's created_at is the start of the transaction.  *)
\* The predecessor is read right after: ORDER BY created_at DESC LIMIT 1, among the
\* entries committed.
BeginAudit(c) ==
    LET newest == {i \in 1..Len(auditLog) :
                     \A j \in 1..Len(auditLog) : auditLog[j].began <= auditLog[i].began}
    IN  /\ caller[c].pc = "begin"
        /\ auditClock' = auditClock + 1
        /\ caller' = [caller EXCEPT ![c].pc = "insert", ![c].began = auditClock',
                         ![c].prev = IF newest = {} THEN 0 ELSE CHOOSE i \in newest : TRUE]
        /\ auditOverlap' = (auditOverlap \/ \E d \in Callers : caller[d].pc = "insert")
        /\ UNCHANGED <<rows_, auditLog, unlogged, mutations, failedOpen, resourceFaults>>

\* audit_logs.project_id refers to a project: when it is gone the entry is refused.
\* The handlers do not look at the error.
InsertAudit(c) ==
    LET q == caller[c] IN
    /\ q.pc = "insert"
    /\ IF Exists(q.project)
       THEN /\ auditLog' = Append(auditLog, [change |-> q.change, prev |-> q.prev, began |-> q.began])
            /\ UNCHANGED unlogged
       ELSE unlogged' = unlogged \cup {<<q.change, "project gone">>} /\ UNCHANGED auditLog
    /\ Refused(c)
    /\ UNCHANGED <<rows_, auditClock, auditOverlap, mutations, failedOpen, resourceFaults>>

\* Any statement of the transaction fails, or the process dies before it.
AuditFails(c) ==
    /\ caller[c].pc \in {"begin", "insert"} /\ ResourceFault
    /\ unlogged' = unlogged \cup {<<caller[c].change, "fault">>}
    /\ Refused(c)
    /\ UNCHANGED <<rows_, auditLog, auditClock, auditOverlap, mutations, failedOpen>>

-----------------------------------------------------------------------------
Arrives(c) ==
    \/ \E name \in Names : ProjectCreate(c, name)
    \/ \E i \in RowIds :
          \/ \E name \in Names : \/ EnvironmentCreate(c, i, name) \/ SegmentCreate(c, i, name)
                                 \/ ProjectUpdate(c, i, name) \/ EnvironmentUpdate(c, i, name)
          \/ SegmentUpdate(c, i) \/ APIKeyCreate(c, i)
          \/ ProjectDelete(c, i) \/ EnvironmentDelete(c, i) \/ SegmentDelete(c, i)
          \/ APIKeyRevoke(c, i) \/ APIKeyRotate(c, i)

ResourcesNext ==
    \/ \E c \in Callers :
          \/ Arrives(c)
          \/ InsertRow(c) \/ UpdateRow(c) \/ DeleteRow(c) \/ RevokeAPIKey(c) \/ RotateAPIKey(c)
          \/ ApplyFails(c)
          \/ BeginAudit(c) \/ InsertAudit(c) \/ AuditFails(c)
    \/ \E i \in RowIds : GraceOver(i)
    \/ CleanExpiredGracePeriodKeys

ResourcesSpec == ResourcesInit /\ [][ResourcesNext]_resourceVars

-----------------------------------------------------------------------------
\* Creates of the kind below the row i that have passed the limit and are still to insert.
Passed(kind, i) == {c \in Callers : /\ caller[c].pc = "apply"
                                    /\ caller[c].op = "create"
                                    /\ caller[c].kind = kind /\ caller[c].row = i}

\* The limit is checked and used in two statements, so concurrent creates can pass it:
\* but by no more than the requests in flight, plus the checks that failed open
\* (middleware/tier.go).  It is never overrun by a sequence of requests.
LimitOvershootBound ==
    /\ Cardinality(Rows("project", 0)) + Cardinality(Passed("project", 0))
          <= PlanLimit - 1 + Cardinality(Callers) + failedOpen
    /\ \A i \in RowIds :
          Cardinality(Rows("environment", i)) + Cardinality(Passed("environment", i))
             <= PlanLimit - 1 + Cardinality(Callers) + failedOpen

\* The changes that have an entry, those whose entry is under way, those that got none.
Logged == {auditLog[i].change : i \in 1..Len(auditLog)}
Auditing == {c \in Callers : caller[c].pc \in {"begin", "insert"}}
OpenChanges == {caller[c].change : c \in Auditing}
Unlogged == {u[1] : u \in unlogged}

\* The audit log accounts for every change that was made: it is logged, once, or about
\* to be, or a statement of its entry failed, or its project was deleted first (the
\* deletion of the project itself always is of that kind).  And the hash chain is a
\* chain unless two entries were written at once.
AuditAccounts ==
    /\ 1..mutations = Logged \cup OpenChanges \cup Unlogged
    /\ Cardinality(Logged) = Len(auditLog) /\ Logged \cap (OpenChanges \cup Unlogged) = {}
    /\ ~auditOverlap => \A i \in 1..Len(auditLog) : auditLog[i].prev = i - 1

(***************************************************************************)
(* Why, as an invariant: a row's number is used once, so a key's parent and   *)
(* what a request has in hand stay of their kind or go; a change has one      *)
(* entry under way, which begins once; and while no two entries were written  *)
(* at once, they are in the order in which they began.                        *)
(***************************************************************************)
RowShape ==
    /\ \A i \in RowIds : i > rowCount => row[i].kind = "none"
    /\ \A i \in RowIds : row[i].kind = "key" => row[i].parent \in RowIds
    /\ \A c \in Callers : caller[c].pc = "apply" /\ caller[c].op \in {"revoke", "rotate"} =>
          caller[c].row \in 1..rowCount /\ row[caller[c].row].kind \in {"key", "none"}
    /\ \A c \in Callers : caller[c].pc = "apply" /\ caller[c].op = "create" /\ caller[c].kind = "key" =>
          caller[c].row \in RowIds

Beginning == {c \in Callers : caller[c].pc = "begin"}

AuditShape ==
    /\ \A c, d \in Auditing : caller[c].change = caller[d].change => c = d
    /\ \A c \in Auditing : caller[c].change \notin Unlogged
    /\ auditClock + Cardinality(Beginning) <= mutations
    /\ \A i \in 1..Len(auditLog) : auditLog[i].began <= auditClock
    /\ \A c \in Callers : caller[c].pc = "insert" => caller[c].began <= auditClock
    /\ ~auditOverlap =>
          /\ \A c, d \in Callers : caller[c].pc = "insert" /\ caller[d].pc = "insert" => c = d
          /\ \A i, j \in 1..Len(auditLog) : i < j => auditLog[i].began < auditLog[j].began
          /\ \A c \in Callers : caller[c].pc = "insert" =>
                /\ caller[c].prev = Len(auditLog)
                /\ \A i \in 1..Len(auditLog) : auditLog[i].began < caller[c].began

ResourcesInv == ResourcesTypeOK /\ LimitOvershootBound /\ AuditAccounts /\ RowShape /\ AuditShape
=============================================================================
