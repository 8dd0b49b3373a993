----------------------------- MODULE OpsAccess ------------------------------
(***************************************************************************)
(* Who may do what in the operations portal: the ops_users rows, the refresh  *)
(* tokens whose hashes AuthHandler keeps in a map without a lock               *)
(* (ops-portal/internal/api/handlers/auth.go, users.go).                       *)
(***************************************************************************)
EXTENDS Naturals, FiniteSets

CONSTANTS
    OpsUsers,        \* user ids
    OpsRoles,        \* roles (admin, engineer, viewer)
    AccessJobs,      \* requests in flight
    MaxRefresh,      \* bound: refresh tokens
    MaxAccessFaults  \* bound: statements that fail, restarts

ASSUME OpsAccessAssumption ==
    /\ MaxRefresh \in Nat /\ MaxAccessFaults \in Nat
    /\ "none" \notin OpsUsers /\ OpsRoles \cap {"none", "new", "gone"} = {}

VARIABLES
    opsRole,     \* opsRole[u]: the role in u's row; "new": no row yet, "gone": deleted
    refresh,     \* refresh[t]: the user the t-th token was signed for
    secrets,     \* tokens whose hash is in the map
    accessJob,   \* accessJob[j]: next step, user, role, token
    roleGiven,   \* history: the role last given to u by Create or Update
    overlapped,  \* history: users and tokens two requests were at together
    spent,       \* history: how often t was accepted for an exchange
    accessFaults

accessVars == <<opsRole, refresh, secrets, accessJob, roleGiven, overlapped, spent, accessFaults>>

RefreshIds == 1..MaxRefresh
Issued == {t \in RefreshIds : refresh[t] \in OpsUsers}
FreeAccess == [pc |-> "idle", user |-> "none", role |-> "none", token |-> 0]
HasRow(u) == opsRole[u] \in OpsRoles

OpsAccessTypeOK ==
    /\ opsRole \in [OpsUsers -> OpsRoles \cup {"new", "gone"}]
    /\ refresh \in [RefreshIds -> OpsUsers \cup {"none"}]
    /\ secrets \subseteq Issued
    /\ accessJob \in [AccessJobs -> [pc : {"login", "edit", "rotate", "read", "issue"}, user : OpsUsers,
                                     role : OpsRoles \cup {"none"}, token : 0..MaxRefresh]
                                      \cup {FreeAccess}]
    /\ roleGiven \in [OpsUsers -> OpsRoles \cup {"new"}] /\ spent \in [RefreshIds -> Nat]
    /\ accessFaults \in 0..MaxAccessFaults

OpsAccessInit ==
    /\ opsRole = [u \in OpsUsers |-> "new"] /\ roleGiven = opsRole
    /\ refresh = [t \in RefreshIds |-> "none"] /\ spent = [t \in RefreshIds |-> 0]
    /\ secrets = {} /\ overlapped = {} /\ accessFaults = 0
    /\ accessJob = [j \in AccessJobs |-> FreeAccess]

AccessFault == accessFaults < MaxAccessFaults /\ accessFaults' = accessFaults + 1
FreeNow(j) == accessJob' = [accessJob EXCEPT ![j] = FreeAccess]

StartAccess(j, job) ==
    LET near == {i \in AccessJobs \ {j} : accessJob[i].pc # "idle" /\ accessJob[i].user = job.user}
    IN  /\ accessJob[j] = FreeAccess /\ accessJob' = [accessJob EXCEPT ![j] = job]
        /\ overlapped' = overlapped \cup (IF near # {} THEN {<<"user", job.user>>} ELSE {})
              \cup (IF \E i \in near : accessJob[i].token = job.token THEN {<<"token", job.token>>} ELSE {})
        /\ UNCHANGED <<opsRole, refresh, secrets, roleGiven, spent, accessFaults>>

-----------------------------------------------------------------------------
\* UserHandler.Create.
CreateOpsUser(u, r) ==
    /\ opsRole[u] = "new" /\ opsRole' = [opsRole EXCEPT ![u] = r]
    /\ roleGiven' = [roleGiven EXCEPT ![u] = r]
    /\ UNCHANGED <<refresh, secrets, accessJob, overlapped, spent, accessFaults>>

\* UserHandler.Delete, by someone else; the user's tokens stay in the map.
DeleteOpsUser(u) ==
    /\ HasRow(u) /\ opsRole' = [opsRole EXCEPT ![u] = "gone"]
    /\ UNCHANGED <<refresh, secrets, accessJob, roleGiven, overlapped, spent, accessFaults>>

\* UserStore.Update: email, name, role and last login, all from what was read; nothing
\* when the row is gone.
UpdateUserRow(u, r) == opsRole' = IF HasRow(u) THEN [opsRole EXCEPT ![u] = r] ELSE opsRole

\* UserHandler.Update: a role, or none to leave it as it was read.
UpdateOpsUser(j, u) ==
    HasRow(u) /\ StartAccess(j, [pc |-> "edit", user |-> u, role |-> opsRole[u], token |-> 0])

UpdateWrites(j) ==
    LET u == accessJob[j].user IN
    /\ accessJob[j].pc = "edit"
    /\ \/ \E r \in OpsRoles :
             /\ UpdateUserRow(u, r)
             /\ roleGiven' = [roleGiven EXCEPT ![u] = IF HasRow(u) THEN r ELSE @]
             /\ UNCHANGED accessFaults
       \/ UpdateUserRow(u, accessJob[j].role) /\ UNCHANGED <<roleGiven, accessFaults>>
       \/ AccessFault /\ UNCHANGED <<opsRole, roleGiven>>
    /\ FreeNow(j) /\ UNCHANGED <<refresh, secrets, overlapped, spent>>

-----------------------------------------------------------------------------
\* The password was right.
OpsLogin(j, u) ==
    HasRow(u) /\ StartAccess(j, [pc |-> "login", user |-> u, role |-> opsRole[u], token |-> 0])

\* Mutant: the login time is kept in a row written with the lowest role.
LoginWritesRole(j) ==
    /\ accessJob[j].pc = "login"
    /\ \E r \in OpsRoles : UpdateUserRow(accessJob[j].user, r)
    /\ accessJob' = [accessJob EXCEPT ![j].pc = "issue"]
    /\ UNCHANGED <<refresh, secrets, roleGiven, overlapped, spent, accessFaults>>

\* The login time, with the rest of the row; a failure is not fatal.
LoginWrites(j) ==
    /\ accessJob[j].pc = "login"
    /\ \/ UpdateUserRow(accessJob[j].user, accessJob[j].role) /\ UNCHANGED accessFaults
       \/ AccessFault /\ UNCHANGED opsRole
    /\ accessJob' = [accessJob EXCEPT ![j].pc = "issue"]
    /\ UNCHANGED <<refresh, secrets, roleGiven, overlapped, spent>>

\* generateToken, twice; the hash of the refresh token goes into the map.
IssueTokens(j) ==
    /\ accessJob[j].pc = "issue"
    /\ \E t \in RefreshIds \ Issued :
          /\ \A s \in RefreshIds \ Issued : t <= s
          /\ refresh' = [refresh EXCEPT ![t] = accessJob[j].user]
          /\ secrets' = secrets \cup {t}
    /\ FreeNow(j) /\ UNCHANGED <<opsRole, roleGiven, overlapped, spent, accessFaults>>

\* Refresh: the token is valid and its hash is in the map ...
RefreshSession(j, t) ==
    /\ t \in secrets
    /\ StartAccess(j, [pc |-> "rotate", user |-> refresh[t], role |-> "none", token |-> t])

\* ... from which it is then deleted ...
RotateToken(j) ==
    /\ accessJob[j].pc = "rotate"
    /\ secrets' = secrets \ {accessJob[j].token}
    /\ accessJob' = [accessJob EXCEPT ![j].pc = "read"]
    /\ spent' = [spent EXCEPT ![accessJob[j].token] = @ + 1]
    /\ UNCHANGED <<opsRole, refresh, roleGiven, overlapped, accessFaults>>

\* ... and the user is read afresh: the new tokens have the role of the row.
RefreshReads(j) ==
    /\ accessJob[j].pc = "read"
    /\ IF HasRow(accessJob[j].user)
       THEN accessJob' = [accessJob EXCEPT ![j].pc = "issue", ![j].role = opsRole[accessJob[j].user]]
       ELSE FreeNow(j)
    /\ UNCHANGED <<opsRole, refresh, secrets, roleGiven, overlapped, spent, accessFaults>>

OpsLogout(t) ==
    /\ t \in Issued /\ secrets' = secrets \ {t}
    /\ UNCHANGED <<opsRole, refresh, accessJob, roleGiven, overlapped, spent, accessFaults>>

\* The map is in memory only.
AccessRestarts ==
    /\ AccessFault /\ secrets' = {} /\ accessJob' = [j \in AccessJobs |-> FreeAccess]
    /\ UNCHANGED <<opsRole, refresh, roleGiven, overlapped, spent>>

-----------------------------------------------------------------------------
OpsAccessNext ==
    \/ \E u \in OpsUsers : DeleteOpsUser(u) \/ \E r \in OpsRoles : CreateOpsUser(u, r)
    \/ \E j \in AccessJobs :
          \/ \E u \in OpsUsers : UpdateOpsUser(j, u) \/ OpsLogin(j, u)
          \/ \E t \in RefreshIds : RefreshSession(j, t)
          \/ UpdateWrites(j) \/ LoginWrites(j) \/ IssueTokens(j) \/ RotateToken(j) \/ RefreshReads(j)
    \/ \E t \in RefreshIds : OpsLogout(t)
    \/ AccessRestarts

OpsAccessSpec == OpsAccessInit /\ [][OpsAccessNext]_accessVars

\* A row has the role an administrator gave last, and a refresh token is accepted at most
\* once, unless two requests were at the user or at the token together: a login that read
\* the row before an update writes the old role back.
RolesAndTokensKept ==
    /\ \A u \in OpsUsers : HasRow(u) /\ <<"user", u>> \notin overlapped => opsRole[u] = roleGiven[u]
    /\ \A t \in RefreshIds : <<"token", t>> \notin overlapped => spent[t] <= 1

(***************************************************************************)
(* Why, as an invariant.  A user nobody overlapped at has one request, which  *)
(* holds the role of the row.  A token is spent by the request that took it   *)
(* from the map, where it never comes back.                                   *)
(***************************************************************************)
AccessBusy(j) == accessJob[j] # FreeAccess

RolesHeld ==
    /\ \A i, j \in AccessJobs : AccessBusy(i) /\ AccessBusy(j) /\ accessJob[i].user = accessJob[j].user =>
          i = j \/ <<"user", accessJob[i].user>> \in overlapped
    /\ \A j \in AccessJobs : accessJob[j].pc \in {"login", "edit"} =>
          /\ opsRole[accessJob[j].user] # "new" /\ accessJob[j].role \in OpsRoles
          /\ \/ accessJob[j].role = roleGiven[accessJob[j].user]
             \/ <<"user", accessJob[j].user>> \in overlapped

Rotating(t) == {j \in AccessJobs : accessJob[j].pc = "rotate" /\ accessJob[j].token = t}

TokensHeld ==
    /\ \A j \in AccessJobs : accessJob[j].pc = "rotate" =>
          accessJob[j].token \in Issued /\ refresh[accessJob[j].token] = accessJob[j].user
    /\ \A t \in RefreshIds \ Issued : spent[t] = 0
    /\ \A t \in Issued : <<"token", t>> \in overlapped \/
          /\ t \in secrets \/ Rotating(t) # {} => spent[t] = 0
          /\ \A i, j \in Rotating(t) : i = j

OpsAccessInv == OpsAccessTypeOK /\ RolesAndTokensKept /\ RolesHeld /\ TokensHeld
=============================================================================
