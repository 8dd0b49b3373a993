------------------------------ MODULE OpsStaff ------------------------------
(***************************************************************************)
(* The server's own operations API: the staff in ops_users, their sessions   *)
(* in ops_portal_sessions and the licenses they issue                         *)
(* (api/handlers/ops.go, ops_auth.go; store/postgres/ops_store.go,             *)
(* ops_auth.go).                                                               *)
(*                                                                         *)
(* Logout and Me look for an ops user id that nothing puts in the context:    *)
(* they answer 401 and change nothing, so they are no actions here.  The       *)
(* audit entry of an action names the user, where ops_audit_log asks for an   *)
(* ops_users id: its insert is refused, and the refusal logged.               *)
(***************************************************************************)
EXTENDS Naturals, FiniteSets

CONSTANTS
    Staff,          \* users who may become staff; their credentials are seeded
    StaffJobs,      \* requests in flight
    MaxSessions,    \* bound: sessions created
    MaxStaffFaults  \* bound: statements that fail

ASSUME OpsStaffAssumption == "none" \notin Staff /\ MaxSessions \in Nat /\ MaxStaffFaults \in Nat

VARIABLES
    staffRow,    \* staffRow[u]: none, active, inactive
    session,     \* session[t]: whose refresh token t is, whether its row is there, whether
                 \* the access token that came with it carries an email
    staffJob,    \* staffJob[j]: next step, user, the token it exchanges (0: a login)
    license,     \* the one license row there can be: none, valid, revoked
    exchanged,   \* history: how often t was accepted for an exchange
    staffRaced,  \* history: tokens that two refreshes read, or whose delete failed; users
                 \* deactivated while a request had read them as active
    staffFaults

staffVars == <<staffRow, session, staffJob, license, exchanged, staffRaced, staffFaults>>

TokenIds == 1..MaxSessions
NoSession == [user |-> "none", live |-> FALSE, email |-> FALSE]
NoStaffJob == [pc |-> "idle", user |-> "none", token |-> 0]
Given == {t \in TokenIds : session[t] # NoSession}

OpsStaffTypeOK ==
    /\ staffRow \in [Staff -> {"none", "active", "inactive"}]
    /\ session \in [TokenIds -> [user : Staff, live : BOOLEAN, email : BOOLEAN] \cup {NoSession}]
    /\ staffJob \in [StaffJobs -> [pc : {"create", "drop", "open"}, user : Staff, token : 0..MaxSessions]
                                   \cup {NoStaffJob}]
    /\ license \in {"none", "valid", "revoked"}
    /\ exchanged \in [TokenIds -> Nat] /\ staffRaced \subseteq TokenIds \cup Staff
    /\ staffFaults \in 0..MaxStaffFaults

OpsStaffInit ==
    /\ staffRow = [u \in Staff |-> "none"] /\ session = [t \in TokenIds |-> NoSession]
    /\ staffJob = [j \in StaffJobs |-> NoStaffJob] /\ license = "none"
    /\ exchanged = [t \in TokenIds |-> 0] /\ staffRaced = {} /\ staffFaults = 0

StaffFault == staffFaults < MaxStaffFaults /\ staffFaults' = staffFaults + 1
StaffJobEnds(j) == staffJob' = [staffJob EXCEPT ![j] = NoStaffJob]
StartStaffJob(j, pc, u, t) ==
    /\ staffJob[j] = NoStaffJob
    /\ staffJob' = [staffJob EXCEPT ![j] = [pc |-> pc, user |-> u, token |-> t]]

-----------------------------------------------------------------------------
\* CreateOpsUser: refused for an active member ...
CreateStaff(j, u) ==
    /\ staffRow[u] # "active" /\ StartStaffJob(j, "create", u, 0)
    /\ UNCHANGED <<staffRow, session, license, exchanged, staffRaced, staffFaults>>

\* ... and, by the unique index on user_id, for an inactive one too.
InsertStaff(j) ==
    /\ staffJob[j].pc = "create" /\ StaffJobEnds(j)
    /\ \/ /\ staffRow' = [staffRow EXCEPT ![staffJob[j].user] = IF @ = "none" THEN "active" ELSE @]
          /\ UNCHANGED staffFaults
       \/ StaffFault /\ UNCHANGED staffRow
    /\ UNCHANGED <<session, license, exchanged, staffRaced>>

\* UpdateOpsUser: one UPDATE of the columns named; the sessions stay.
UpdateStaff(u, status) ==
    /\ staffRow[u] # "none" /\ staffRow' = [staffRow EXCEPT ![u] = status]
    /\ staffRaced' = staffRaced \cup
          (IF status = "inactive" /\ \E j \in StaffJobs : staffJob[j].pc \in {"drop", "open"} /\ staffJob[j].user = u
           THEN {u} ELSE {})
    /\ UNCHANGED <<session, staffJob, license, exchanged, staffFaults>>

-----------------------------------------------------------------------------
\* GetOpsUserByEmail asks for an active member; the password was right.
StaffLogin(j, u) ==
    /\ staffRow[u] = "active" /\ StartStaffJob(j, "open", u, 0)
    /\ UNCHANGED <<staffRow, session, license, exchanged, staffRaced, staffFaults>>

\* GetOpsSessionByRefreshToken: the session's row and an active member.
StaffRefresh(j, t) ==
    /\ session[t].live /\ staffRow[session[t].user] = "active"
    /\ StartStaffJob(j, "drop", session[t].user, t)
    /\ staffRaced' = staffRaced \cup
          (IF \E i \in StaffJobs : staffJob[i].pc = "drop" /\ staffJob[i].token = t THEN {t} ELSE {})
    /\ UNCHANGED <<staffRow, session, license, exchanged, staffFaults>>

\* Mutant: the old session is left to expire.
KeepSession(j) ==
    /\ staffJob[j].pc = "drop" /\ staffJob' = [staffJob EXCEPT ![j].pc = "open"]
    /\ exchanged' = [exchanged EXCEPT ![staffJob[j].token] = @ + 1]
    /\ UNCHANGED <<staffRow, session, license, staffRaced, staffFaults>>

\* DeleteOpsSession of the old token; a failure is only logged.
DropSession(j) ==
    LET t == staffJob[j].token IN
    /\ staffJob[j].pc = "drop" /\ staffJob' = [staffJob EXCEPT ![j].pc = "open"]
    /\ \/ session' = [session EXCEPT ![t].live = FALSE] /\ UNCHANGED <<staffRaced, staffFaults>>
       \/ StaffFault /\ staffRaced' = staffRaced \cup {t} /\ UNCHANGED session
    /\ exchanged' = [exchanged EXCEPT ![t] = @ + 1]
    /\ UNCHANGED <<staffRow, license>>

\* CreateOpsSession, and the pair is answered.  The user that a refresh has read has no
\* email, so the new access token has none.
OpenSession(j) ==
    LET old == staffJob[j].token IN
    /\ staffJob[j].pc = "open" /\ StaffJobEnds(j)
    /\ \/ /\ \E t \in TokenIds \ Given :
                /\ \A s \in TokenIds \ Given : t <= s
                /\ session' = [session EXCEPT ![t] = [user |-> staffJob[j].user, live |-> TRUE,
                                                      email |-> old = 0]]
          /\ UNCHANGED staffFaults
       \/ StaffFault /\ UNCHANGED session
    /\ UNCHANGED <<staffRow, license, exchanged, staffRaced>>

\* A session ends with the access token it came with.
SessionExpires(t) ==
    /\ session[t].live /\ session' = [session EXCEPT ![t].live = FALSE]
    /\ UNCHANGED <<staffRow, staffJob, license, exchanged, staffRaced, staffFaults>>

-----------------------------------------------------------------------------
WriteLicense(status) ==
    /\ license' = status
    /\ UNCHANGED <<staffRow, session, staffJob, exchanged, staffRaced, staffFaults>>

\* CreateLicense: no key is ever generated and the column is unique, so the empty key of
\* the first license, revoked or not, refuses every other.
CreateLicense == license = "none" /\ WriteLicense("valid")

RevokeLicense == license # "none" /\ WriteLicense("revoked")

\* OverrideLicenseQuota writes the columns the request names, revoked_at among them.
OverrideLicenseQuota == license # "none" /\ \E status \in {"valid", "revoked"} : WriteLicense(status)

OpsStaffNext ==
    \/ \E j \in StaffJobs : \/ \E u \in Staff : CreateStaff(j, u) \/ StaffLogin(j, u)
                            \/ \E t \in TokenIds : StaffRefresh(j, t)
                            \/ InsertStaff(j) \/ DropSession(j) \/ OpenSession(j)
    \/ \E u \in Staff : \E status \in {"active", "inactive"} : UpdateStaff(u, status)
    \/ \E t \in TokenIds : SessionExpires(t)
    \/ CreateLicense \/ RevokeLicense \/ OverrideLicenseQuota

OpsStaffSpec == OpsStaffInit /\ [][OpsStaffNext]_staffVars

\* A refresh token is accepted at most once, unless two refreshes read it together or the
\* delete of its session failed.
ExchangedOnce == \A t \in TokenIds \ staffRaced : exchanged[t] <= 1

\* (An action property.)  A session is opened for a member who is active, or who was
\* deactivated after the request had read the row.
OpensForActive ==
    [][\A t \in TokenIds \ Given :
          session'[t].live => \E u \in {session'[t].user} : staffRow[u] = "active" \/ u \in staffRaced]_staffVars
=============================================================================
