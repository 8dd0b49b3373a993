-------------------------------- MODULE Team --------------------------------
(***************************************************************************)
(* The members of one organization and the three ways to become one: an      *)
(* invitation (team.go), the identity provider's SCIM client (scim.go) and   *)
(* single sign-on (sso_auth.go, sso_state.go); roles, permissions, removal   *)
(* and the erasure of an account (user_privacy.go).  A statement of the      *)
(* store is one step.                                                        *)
(***************************************************************************)
EXTENDS Naturals, FiniteSets

CONSTANTS
    Emails,         \* addresses
    TeamReqs,       \* requests in flight
    MaxUsers,       \* bound: user rows made
    MaxMembers,     \* bound: member rows made
    MaxStates,      \* bound: OIDC log-ins begun at once
    MaxTeamFaults   \* bound: statements that fail

ASSUME TeamAssumption ==
    /\ IsFiniteSet(Emails) /\ Emails # {} /\ IsFiniteSet(TeamReqs)
    /\ MaxUsers \in Nat \ {0} /\ MaxMembers \in Nat \ {0}
    /\ MaxStates \in Nat /\ MaxTeamFaults \in Nat

VARIABLES
    userOf,      \* userOf[e]: the user row with the address, 0 for none
    userCount,   \* user rows made
    members,     \* members[m]: the row of org_members (user 0: none)
    memberCount, \* member rows made
    ssoOn,       \* sso_configs: enabled
    ssoStates,   \* oidcStates: states handed out and not taken back
    teamReq,     \* teamReq[r]: the request r serves and its next statement
    teamFaults

teamVars == <<userOf, userCount, members, memberCount, ssoOn, ssoStates,
              teamReq, teamFaults>>

UserIds == 1..MaxUsers
MemberIds == 1..MaxMembers
Roles == {"owner", "developer"}
Ops == {"invite", "scim", "sso"}
NoMember == [user |-> 0, role |-> "developer"]
NoRequest == [op |-> "none", pc |-> "ok", email |-> CHOOSE e \in Emails : TRUE, id |-> 0]

TeamTypeOK ==
    /\ userOf \in [Emails -> 0..MaxUsers] /\ userCount \in 0..MaxUsers
    /\ members \in [MemberIds -> [user : 0..MaxUsers, role : Roles]]
    /\ memberCount \in 0..MaxMembers
    /\ ssoOn \in BOOLEAN
    /\ ssoStates \subseteq 1..MaxStates
    /\ teamReq \in [TeamReqs ->
          [op : Ops \union {"none", "remove", "erase"}, email : Emails,
           pc : {"ok", "failed", "lookup", "create", "member", "add", "delete", "erase"},
           id : 0..(MaxUsers + MaxMembers)]]
    /\ teamFaults \in 0..MaxTeamFaults

\* The organization starts with its owner, the first user.
TeamInit ==
    /\ userOf = [e \in Emails |-> IF e = CHOOSE x \in Emails : TRUE THEN 1 ELSE 0]
    /\ userCount = 1 /\ memberCount = 1
    /\ members = [m \in MemberIds |-> IF m = 1 THEN [user |-> 1, role |-> "owner"] ELSE NoMember]
    /\ ssoOn = FALSE /\ ssoStates = {}
    /\ teamReq = [r \in TeamReqs |-> NoRequest]
    /\ teamFaults = 0

\* GetOrgMember: the user's row, if any.
TeamRowsOf(u) == {m \in MemberIds : u # 0 /\ members[m].user = u}

ServeTeam(r, op, pc, e, id) ==
    teamReq' = [teamReq EXCEPT ![r] = [op |-> op, pc |-> pc, email |-> e, id |-> id]]
Advance(r, pc, id) == teamReq' = [teamReq EXCEPT ![r].pc = pc, ![r].id = id]
AtStep(r, pc) == teamReq[r].pc = pc

\* The answer to r's client; r is free for another request.
Finish(r, answer) == teamReq' = [teamReq EXCEPT ![r] = [NoRequest EXCEPT !.pc = answer]]
Free(r) == teamReq[r].pc \in {"ok", "failed"}

-----------------------------------------------------------------------------
(* Becoming a member.  The three handlers take the same statements in the   *)
(* same order and differ in what they make of a conflict.                   *)

Invite(r, e) ==
    /\ Free(r) /\ ServeTeam(r, "invite", "lookup", e, 0)
    /\ UNCHANGED <<userOf, userCount, members, memberCount, ssoOn, ssoStates, teamFaults>>

SCIMCreateUser(r, e) ==
    /\ Free(r) /\ ServeTeam(r, "scim", "lookup", e, 0)
    /\ UNCHANGED <<userOf, userCount, members, memberCount, ssoOn, ssoStates, teamFaults>>

\* SAMLACS: the assertion alone starts the log-in.
SAMLACS(r, e) ==
    /\ Free(r) /\ ssoOn /\ ServeTeam(r, "sso", "lookup", e, 0)
    /\ UNCHANGED <<userOf, userCount, members, memberCount, ssoOn, ssoStates, teamFaults>>

\* OIDCAuthorize: stateCache.Set.
OIDCAuthorize ==
    /\ ssoOn
    /\ \E s \in (1..MaxStates) \ ssoStates : ssoStates' = ssoStates \union {s}
    /\ UNCHANGED <<userOf, userCount, members, memberCount, ssoOn, teamReq, teamFaults>>

\* OIDCCallback: stateCache.Get takes the state out, whatever follows.
OIDCCallback(r, e) ==
    /\ Free(r)
    /\ \E s \in ssoStates : ssoStates' = ssoStates \ {s}
    /\ IF ssoOn THEN ServeTeam(r, "sso", "lookup", e, 0) ELSE Finish(r, "failed")
    /\ UNCHANGED <<userOf, userCount, members, memberCount, ssoOn, teamFaults>>

\* The states expire (cleanup), or the process restarts: they are in memory.
StatesLost ==
    /\ \E S \in SUBSET ssoStates : S # ssoStates /\ ssoStates' = S
    /\ UNCHANGED <<userOf, userCount, members, memberCount, ssoOn, teamReq, teamFaults>>

GetUserByEmail(r) ==
    LET u == userOf[teamReq[r].email]
    IN  /\ AtStep(r, "lookup")
        /\ Advance(r, IF u = 0 THEN "create" ELSE "member", u)
        /\ UNCHANGED <<userOf, userCount, members, memberCount, ssoOn, ssoStates, teamFaults>>

\* CreateUser; the address is unique.  On a conflict single sign-on looks the
\* user up again, the other two answer with an error.
CreateUserRow(r) ==
    LET e == teamReq[r].email
    IN  /\ AtStep(r, "create")
        /\ \/ /\ userOf[e] = 0 /\ userCount < MaxUsers
              /\ userCount' = userCount + 1
              /\ userOf' = [userOf EXCEPT ![e] = userCount + 1]
              /\ Advance(r, "member", userCount + 1)
           \/ /\ userOf[e] # 0
              /\ IF teamReq[r].op = "sso" THEN Advance(r, "lookup", 0) ELSE Finish(r, "failed")
              /\ UNCHANGED <<userOf, userCount>>
        /\ UNCHANGED <<members, memberCount, ssoOn, ssoStates, teamFaults>>

\* GetOrgMember: an invitation wants none, the others are done when there is one.
GetMember(r) ==
    /\ AtStep(r, "member")
    /\ IF TeamRowsOf(teamReq[r].id) = {} THEN Advance(r, "add", teamReq[r].id)
       ELSE Finish(r, IF teamReq[r].op = "invite" THEN "failed" ELSE "ok")
    /\ UNCHANGED <<userOf, userCount, members, memberCount, ssoOn, ssoStates, teamFaults>>

\* AddOrgMember; (organization, user) is unique.  SCIM drops the error.  Single
\* sign-on looks for ErrConflict, which AddOrgMember does not return: it fails.
AddOrgMember(r) ==
    LET u == teamReq[r].id
    IN  /\ AtStep(r, "add")
        /\ \/ /\ TeamRowsOf(u) = {} /\ memberCount < MaxMembers
              /\ memberCount' = memberCount + 1
              /\ \E role \in IF teamReq[r].op = "scim" THEN {"developer"} ELSE Roles :
                    members' = [members EXCEPT ![memberCount + 1] = [user |-> u, role |-> role]]
              /\ Finish(r, "ok")
           \/ /\ TeamRowsOf(u) # {}
              /\ Finish(r, IF teamReq[r].op = "scim" THEN "ok" ELSE "failed")
              /\ UNCHANGED <<members, memberCount>>
        /\ UNCHANGED <<userOf, userCount, ssoOn, ssoStates, teamFaults>>

-----------------------------------------------------------------------------
(* Being one.                                                               *)

\* UpdateOrgMemberRole: no row, no error; any member's role may change.
UpdateRole ==
    /\ \E m \in MemberIds, role \in Roles :
          members[m].user # 0 /\ members' = [members EXCEPT ![m].role = role]
    /\ UNCHANGED <<userOf, userCount, memberCount, ssoOn, ssoStates, teamReq, teamFaults>>

\* SSOHandler.Upsert and Delete.
ConfigureSSO ==
    /\ ssoOn' = ~ssoOn
    /\ UNCHANGED <<userOf, userCount, members, memberCount, ssoStates, teamReq, teamFaults>>

-----------------------------------------------------------------------------
(* Leaving.                                                                 *)

\* Remove (not the caller), SCIM's deactivation and deletion: the row is read,
\* then deleted by its id.
RemoveMember(r, m) ==
    /\ Free(r) /\ members[m].user # 0
    /\ ServeTeam(r, "remove", "delete", NoRequest.email, m)
    /\ UNCHANGED <<userOf, userCount, members, memberCount, ssoOn, ssoStates, teamFaults>>

\* RemoveOrgMember (its permissions, which go with it, are in Gates).
RemoveOrgMember(r) ==
    LET m == teamReq[r].id
    IN  /\ AtStep(r, "delete") /\ Finish(r, "ok")
        /\ members' = [members EXCEPT ![m] = NoMember]
        /\ UNCHANGED <<userOf, userCount, memberCount, ssoOn, ssoStates, teamFaults>>

Owners == {m \in MemberIds : members[m].user # 0 /\ members[m].role = "owner"}

\* DeleteMyAccount: refused to the only owner of an organization with others.
DeleteMyAccount(r, e) ==
    LET mine == TeamRowsOf(userOf[e])
    IN  /\ Free(r) /\ userOf[e] # 0
        /\ ~(Owners = mine /\ mine # {} /\ \E m \in MemberIds \ mine : members[m].user # 0)
        /\ ServeTeam(r, "erase", "erase", e, userOf[e])
        /\ UNCHANGED <<userOf, userCount, members, memberCount, ssoOn, ssoStates, teamFaults>>

\* SoftDeleteUser: the address becomes free, the member row stays.
SoftDeleteUser(r) ==
    /\ AtStep(r, "erase") /\ Finish(r, "ok")
    /\ userOf' = [x \in Emails |-> IF userOf[x] = teamReq[r].id THEN 0 ELSE userOf[x]]
    /\ UNCHANGED <<userCount, members, memberCount, ssoOn, ssoStates, teamFaults>>

\* A statement of r fails.
TeamFails(r) ==
    /\ ~Free(r) /\ teamFaults < MaxTeamFaults
    /\ teamFaults' = teamFaults + 1 /\ Finish(r, "failed")
    /\ UNCHANGED <<userOf, userCount, members, memberCount, ssoOn, ssoStates>>

TeamNext ==
    \/ \E r \in TeamReqs :
          \/ \E e \in Emails : \/ Invite(r, e) \/ SCIMCreateUser(r, e) \/ SAMLACS(r, e)
                               \/ OIDCCallback(r, e) \/ DeleteMyAccount(r, e)
          \/ GetUserByEmail(r) \/ CreateUserRow(r) \/ GetMember(r) \/ AddOrgMember(r)
          \/ \E m \in MemberIds : RemoveMember(r, m)
          \/ RemoveOrgMember(r) \/ SoftDeleteUser(r) \/ TeamFails(r)
    \/ OIDCAuthorize \/ StatesLost \/ UpdateRole \/ ConfigureSSO

TeamSpec == TeamInit /\ [][TeamNext]_teamVars

-----------------------------------------------------------------------------
\* Two first log-ins of one person race to make the user and the member.  A
\* single sign-on that gets as far as the store fails without a fault of the
\* store only when the person is a member already: the race for the user row is
\* absorbed, and no log-in is turned away from an organization it is not in.
SSOFailsOnlyAsMember ==
    [][\A r \in TeamReqs :
          /\ teamReq[r].op = "sso" /\ teamReq'[r].pc = "failed"
          /\ teamFaults' = teamFaults
          => TeamRowsOf(teamReq[r].id) # {}]_teamVars

=============================================================================
