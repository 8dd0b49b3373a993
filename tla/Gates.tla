------------------------------- MODULE Gates -------------------------------
(***************************************************************************)
(* What a management request passes before its handler acts: the license of  *)
(* an on-prem deployment, the organization's address list, the role in the    *)
(* token, the plan's features and the member's permission in an environment.   *)
(* Every gate reads for itself, so an administrator's change falls between two *)
(* of them, and most let the request through when they cannot read.            *)
(***************************************************************************)
EXTENDS Naturals, FiniteSets

CONSTANTS
    GateRequests,     \* requests on their way
    MaxGateChanges,   \* bound: changes of what the gates look at
    MaxGateFaults     \* bound: reads that fail

ASSUME GatesAssumption ==
    IsFiniteSet(GateRequests) /\ MaxGateChanges \in Nat /\ MaxGateFaults \in Nat

VARIABLES
    deployment,    \* "cloud" or "onprem"
    licenseKey,    \* LICENSE_KEY: none, malformed or wrongly signed, expired, valid
    publicKey,     \* the file of the key to check it with: unreadable, or readable
    allowlist,     \* off, or on and with or without the caller's address
    gatePlan,      \* the organization's plan
    memberRole,    \* the caller's role, "none" once removed
    envPerm,       \* the caller's permission row in the environment: none, FALSE or TRUE
    oldRoles,      \* roles that a token not yet expired may carry
    gateReq,       \* gateReq[q]: the gate it is at, its route and role, and a history
    gateChanges, gateFaults

gateWorld == <<deployment, licenseKey, publicKey, allowlist, gatePlan, memberRole, envPerm, oldRoles>>
gateVars == <<gateWorld, gateReq, gateChanges, gateFaults>>

LicenseKeys == {"none", "invalid", "expired", "valid"}
GatePlans == {"free", "trial", "pro", "enterprise"}
MemberRoles == {"viewer", "developer", "admin", "none"}   \* an owner passes as an admin does
EnvPerms == {"none", "denied", "granted"}
\* A flag's state in an environment, webhooks, and custom roles.  The first is two:
\* "flags" when the body sets the switch, the rules, the percentage or the variants,
\* "schedule" when it has only a default value or the dates of a switch to come.
Routes == {"flags", "schedule", "webhooks", "roles"}
FlagRoutes == {"flags", "schedule"}
Conditions == {"license", "address", "role", "plan", "permission"}
GateSteps == {"idle", "license", "address", "role", "plan", "permission", "rows", "served", "refused"}

NoGateRequest ==
    [at |-> "idle", route |-> "flags", role |-> "none", held |-> {}, waived |-> {}]

GatesTypeOK ==
    /\ deployment \in {"cloud", "onprem"} /\ licenseKey \in LicenseKeys /\ publicKey \in BOOLEAN
    /\ allowlist \in {"off", "lists", "omits"} /\ gatePlan \in GatePlans
    /\ memberRole \in MemberRoles /\ envPerm \in EnvPerms /\ oldRoles \subseteq MemberRoles
    /\ gateReq \in [GateRequests ->
          [at : GateSteps, route : Routes, role : MemberRoles,
           held : SUBSET Conditions, waived : SUBSET Conditions]]
    /\ gateChanges \in 0..MaxGateChanges /\ gateFaults \in 0..MaxGateFaults

GatesInit ==
    /\ deployment \in {"cloud", "onprem"} /\ publicKey = TRUE
    /\ licenseKey \in IF deployment = "onprem" THEN {"none", "invalid", "valid"} ELSE {"none"}
    /\ allowlist = "off" /\ gatePlan \in {"trial", "pro"} /\ memberRole \in {"developer", "admin"}
    /\ envPerm = "none" /\ oldRoles = {memberRole}
    /\ gateReq = [q \in GateRequests |-> NoGateRequest]
    /\ gateChanges = 0 /\ gateFaults = 0

-----------------------------------------------------------------------------
\* isCommunityEditionRoute: of the routes that exist, its list of licensed paths
\* names webhooks; the path it has for custom roles is not theirs.
isCommunityEditionRoute(route) == route # "webhooks"

\* planRank and featureMinPlan.
planRank == [p \in GatePlans |-> CASE p = "free" -> 0 [] p = "enterprise" -> 3 [] OTHER -> 2]
IsFeatureEnabled(plan, route) ==
    planRank[plan] >= (CASE route \in FlagRoutes -> 0 [] route = "webhooks" -> 2 [] OTHER -> 3)

\* The roles RequireRole is given: writers, or owners and administrators.
AllowedRoles(route) == IF route \in FlagRoutes THEN {"developer", "admin"} ELSE {"admin"}

\* Verify: signed by the key's owner, complete, and not expired.
LicenseVerified == licenseKey = "valid"

\* Whether the file to check it with can be read; if not, a key is taken as it is.
loadLicensePublicKey == publicKey
validateOnPremLicense == licenseKey # "none" /\ (~loadLicensePublicKey \/ LicenseVerified)

\* What each gate is there to establish, of the present state.
Satisfied(c, route, role) ==
    CASE c = "license" -> deployment = "cloud" \/ LicenseVerified \/ isCommunityEditionRoute(route)
      [] c = "address" -> allowlist # "omits"
      [] c = "role" -> memberRole = role
      [] c = "plan" -> IsFeatureEnabled(gatePlan, route)
      [] c = "permission" -> route # "flags" \/ memberRole = "admin"
                                \/ (memberRole # "none" /\ envPerm = "granted")

\* What the present state grants a route and a role, and the history that every
\* request under way keeps of it after a change.
Granted == {g \in Conditions \X Routes \X MemberRoles : Satisfied(g[1], g[2], g[3])}
Witness(reqs) ==
    [q \in GateRequests |->
        IF reqs[q].at \in {"idle", "served", "refused"} THEN reqs[q]
        ELSE [reqs[q] EXCEPT !.held =
                @ \union {c \in Conditions : <<c, reqs[q].route, reqs[q].role>> \in Granted'}]]

-----------------------------------------------------------------------------
(* Administrators, the operator and time.                                   *)

Change == gateChanges < MaxGateChanges /\ gateChanges' = gateChanges + 1 /\ UNCHANGED gateFaults

\* A license runs out; the key file goes away or comes back.
LicenseExpires ==
    /\ Change /\ licenseKey = "valid" /\ licenseKey' = "expired"
    /\ UNCHANGED <<deployment, publicKey, allowlist, gatePlan, memberRole, envPerm, oldRoles>>
    /\ gateReq' = Witness(gateReq)
PublicKeyChanges ==
    /\ Change /\ deployment = "onprem" /\ publicKey' = ~publicKey
    /\ UNCHANGED <<deployment, licenseKey, allowlist, gatePlan, memberRole, envPerm, oldRoles>>
    /\ gateReq' = Witness(gateReq)

\* UpsertIPAllowlist.
UpsertIPAllowlist ==
    /\ Change /\ \E a \in {"off", "lists", "omits"} \ {allowlist} : allowlist' = a
    /\ UNCHANGED <<deployment, licenseKey, publicKey, gatePlan, memberRole, envPerm, oldRoles>>
    /\ gateReq' = Witness(gateReq)

\* Billing and the scheduler's jobs change the plan.
PlanChanges ==
    /\ Change /\ \E p \in GatePlans \ {gatePlan} : gatePlan' = p
    /\ UNCHANGED <<deployment, licenseKey, publicKey, allowlist, memberRole, envPerm, oldRoles>>
    /\ gateReq' = Witness(gateReq)

\* The member's role is changed, or the member removed and its permissions with it
\* (one added later is another member); tokens issued before keep the role they carry.
MemberChanges ==
    /\ Change /\ memberRole # "none"
    /\ \E r \in MemberRoles \ {memberRole} :
          /\ memberRole' = r /\ oldRoles' = oldRoles \union ({r} \ {"none"})
          /\ envPerm' = IF r = "none" THEN "none" ELSE envPerm
    /\ UNCHANGED <<deployment, licenseKey, publicKey, allowlist, gatePlan>>
    /\ gateReq' = Witness(gateReq)

\* UpdatePermissions: one upsert for each environment of the request.
UpdatePermissions ==
    /\ Change /\ memberRole # "none" /\ \E p \in {"denied", "granted"} \ {envPerm} : envPerm' = p
    /\ UNCHANGED <<deployment, licenseKey, publicKey, allowlist, gatePlan, memberRole, oldRoles>>
    /\ gateReq' = Witness(gateReq)

-----------------------------------------------------------------------------
(* A request.                                                               *)

\* It arrives with a token that JWTAuth accepts, whose role may be an old one.
Arrive(q) ==
    /\ gateReq[q].at = "idle"
    /\ \E route \in Routes, role \in oldRoles :
          gateReq' = [gateReq EXCEPT ![q] =
             [at |-> "license", route |-> route, role |-> role,
              held |-> {c \in Conditions : Satisfied(c, route, role)}, waived |-> {}]]
    /\ UNCHANGED <<gateWorld, gateChanges, gateFaults>>

\* q passes the gate `c', whether or not it saw what the gate asks for.
PassGate(q, c, next, unseen) ==
    /\ gateReq[q].at = c
    /\ gateReq' = [gateReq EXCEPT ![q].at = next, ![q].waived = IF unseen THEN @ \union {c} ELSE @]
    /\ UNCHANGED <<gateWorld, gateChanges>>
TurnAway(q, c) ==
    /\ gateReq[q].at = c
    /\ gateReq' = [gateReq EXCEPT ![q].at = "refused"]
    /\ UNCHANGED <<gateWorld, gateChanges>>
GateReadFails == gateFaults < MaxGateFaults /\ gateFaults' = gateFaults + 1

\* LicenseValidation: in the cloud nothing; else a license that does not pass leaves
\* the community's routes.
LicenseValidation(q) ==
    LET passes == deployment = "cloud" \/ validateOnPremLicense
                     \/ isCommunityEditionRoute(gateReq[q].route)
        unchecked == deployment = "onprem" /\ licenseKey # "none" /\ ~loadLicensePublicKey
    IN  /\ \/ passes /\ PassGate(q, "license", "address", unchecked)
           \/ ~passes /\ TurnAway(q, "license")
        /\ UNCHANGED gateFaults

\* IPAllowlist: a list that is off, empty or unreadable lets everybody in.
\* TrialExpiry follows, which reads an organization without the two dates it asks
\* about and so never acts.
IPAllowlist(q) ==
    \/ allowlist # "omits" /\ PassGate(q, "address", "role", FALSE) /\ UNCHANGED gateFaults
    \/ allowlist = "omits" /\ TurnAway(q, "address") /\ UNCHANGED gateFaults
    \/ GateReadFails /\ PassGate(q, "address", "role", TRUE)

\* RequireRole: the role in the token, which is the member's if it was not changed.
RequireRole(q) ==
    /\ \/ /\ gateReq[q].role \in AllowedRoles(gateReq[q].route)
          /\ PassGate(q, "role", "plan", gateReq[q].role # memberRole)
       \/ /\ gateReq[q].role \notin AllowedRoles(gateReq[q].route)
          /\ TurnAway(q, "role")
    /\ UNCHANGED gateFaults

\* FeatureGate: the plan, read now; an organization that cannot be read passes.
FeatureGate(q) ==
    \/ /\ IsFeatureEnabled(gatePlan, gateReq[q].route)
       /\ PassGate(q, "plan", "permission", FALSE) /\ UNCHANGED gateFaults
    \/ /\ ~IsFeatureEnabled(gatePlan, gateReq[q].route)
       /\ TurnAway(q, "plan") /\ UNCHANGED gateFaults
    \/ /\ gateReq[q].route \notin FlagRoutes /\ GateReadFails
       /\ PassGate(q, "plan", "permission", TRUE)

\* CheckEnvPermission, for a flag's switch, rules, percentage and variants: the token's
\* administrators pass; of the others the member is read ...
CheckEnvPermission(q) ==
    \/ /\ gateReq[q].route # "flags" \/ gateReq[q].role = "admin"
       /\ PassGate(q, "permission", "served",
                   gateReq[q].route = "flags" /\ "role" \in gateReq[q].waived)
       /\ UNCHANGED gateFaults
    \/ /\ gateReq[q].route = "flags" /\ gateReq[q].role # "admin"
       /\ \/ memberRole # "none" /\ PassGate(q, "permission", "rows", FALSE) /\ UNCHANGED gateFaults
          \/ memberRole = "none" /\ TurnAway(q, "permission") /\ UNCHANGED gateFaults
          \/ GateReadFails /\ TurnAway(q, "permission")

\* Mutant: without a row of its own the member has the permission.
EnvPermissionRowsByDefault(q) ==
    \/ envPerm # "denied" /\ PassGate(q, "rows", "served", FALSE) /\ UNCHANGED gateFaults
    \/ envPerm = "denied" /\ TurnAway(q, "rows") /\ UNCHANGED gateFaults

\* ... then its rows: the environment's must be there and must allow it.
EnvPermissionRows(q) ==
    \/ envPerm = "granted" /\ PassGate(q, "rows", "served", FALSE) /\ UNCHANGED gateFaults
    \/ envPerm # "granted" /\ TurnAway(q, "rows") /\ UNCHANGED gateFaults
    \/ GateReadFails /\ TurnAway(q, "rows")

GatesNext ==
    \/ LicenseExpires \/ PublicKeyChanges \/ UpsertIPAllowlist \/ PlanChanges
    \/ MemberChanges \/ UpdatePermissions
    \/ \E q \in GateRequests :
          \/ Arrive(q) \/ LicenseValidation(q) \/ IPAllowlist(q) \/ RequireRole(q)
          \/ FeatureGate(q) \/ CheckEnvPermission(q) \/ EnvPermissionRows(q)

GatesSpec == GatesInit /\ [][GatesNext]_gateVars

-----------------------------------------------------------------------------
\* A request reaches its handler only if everything asked of it was true at some
\* time while it was on its way, except what a gate let pass unseen because it could
\* not read, or took from a token older than a change of the member's role: what was
\* withdrawn before a request came is not granted to it by two gates that each look
\* at another moment.  The permission is asked of a body that sets a switch, rules, a
\* percentage or variants, and of no other.
GatesSound ==
    \A q \in GateRequests :
        gateReq[q].at = "served" => Conditions \subseteq gateReq[q].held \union gateReq[q].waived

(***************************************************************************)
(* Why, as an invariant: what the gates behind a request asked was seen or    *)
(* waived; whatever is granted while a request is under way is in its         *)
(* history; an administrator's token that was not outdated at the role's      *)
(* gate was an administrator's then; a member that is gone has no rows.       *)
(***************************************************************************)
PastGates ==
    [idle |-> {}, license |-> {}, refused |-> {}, address |-> {"license"},
     role |-> {"license", "address"}, plan |-> {"license", "address", "role"},
     permission |-> Conditions \ {"permission"}, rows |-> Conditions \ {"permission"},
     served |-> Conditions]

GateHistory(r) ==
    /\ PastGates[r.at] \subseteq r.held \union r.waived
    /\ r.at \notin {"idle", "served", "refused"} =>
          \A c \in Conditions : Satisfied(c, r.route, r.role) => c \in r.held
    /\ r.at \in {"plan", "permission"} /\ r.role = "admin" /\ "role" \notin r.waived =>
          "permission" \in r.held

GatesInv ==
    /\ GatesTypeOK
    /\ memberRole = "none" => envPerm = "none"
    /\ \A q \in GateRequests : GateHistory(gateReq[q])

=============================================================================
