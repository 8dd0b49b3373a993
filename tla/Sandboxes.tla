----------------------------- MODULE Sandboxes ------------------------------
(***************************************************************************)
(* The public demo sandboxes (api/handlers/sandbox_handler.go): a demo        *)
(* organization and its row in sandboxes, visitors who claim it with a new    *)
(* account, and the cleanup that every server runs on a ticker.               *)
(*                                                                         *)
(* No call shares a transaction with another.  What the organization holds    *)
(* (project, environments, flags, segments, the key) is one step: any of its  *)
(* inserts that fails has the same effect.                                     *)
(***************************************************************************)
EXTENDS Naturals, FiniteSets

CONSTANTS
    SandboxIds,       \* sandboxes
    Claimers,         \* visitors who claim, each with an email of its own
    Cleaners,         \* servers, each with a cleanup goroutine
    MaxSandboxFaults  \* bound: statements that fail

ASSUME SandboxesAssumption == IsFiniteSet(SandboxIds) /\ MaxSandboxFaults \in Nat

VARIABLES
    sbStatus,   \* sbStatus[s]: none, active, claimed, expired; "gone" when the row was deleted
    sbAge,      \* sbAge[s]: fresh, past its TTL, past the seven days of retention as well
    sbOrg,      \* sbOrg[s]: its organization: none, empty, filled, deleted
    sbCreating, \* sandboxes whose Create is still running
    claim,      \* claim[u]: what u's request does next, and for which sandbox
    accounts,   \* claimers that have a user row
    cleaner,    \* cleaner[c]: phase and the sandboxes listed and not yet dealt with
    sbHistory,  \* history: what failed or raced, see SandboxesAccounted
    sbFaults

sandboxVars == <<sbStatus, sbAge, sbOrg, sbCreating, claim, accounts, cleaner, sbHistory, sbFaults>>

NoClaim == [pc |-> "idle", sandbox |-> "none"]
Asleep == [phase |-> "idle", list |-> {}]
HistoryKinds == {"won", "raced", "org kept", "half made"}

SandboxesTypeOK ==
    /\ sbStatus \in [SandboxIds -> {"none", "active", "claimed", "expired", "gone"}]
    /\ sbAge \in [SandboxIds -> {"fresh", "expired", "stale"}]
    /\ sbOrg \in [SandboxIds -> {"none", "empty", "filled", "deleted"}]
    /\ sbCreating \subseteq SandboxIds
    /\ claim \in [Claimers -> [pc : {"email", "user", "mark", "claimed", "refused"}, sandbox : SandboxIds]
                               \cup {NoClaim}]
    /\ accounts \subseteq Claimers
    /\ cleaner \in [Cleaners -> [phase : {"idle", "expire", "purge"}, list : SUBSET SandboxIds]]
    /\ sbHistory \in [HistoryKinds -> SUBSET (SandboxIds \cup Claimers)]
    /\ sbFaults \in 0..MaxSandboxFaults

SandboxesInit ==
    /\ sbStatus = [s \in SandboxIds |-> "none"] /\ sbAge = [s \in SandboxIds |-> "fresh"]
    /\ sbOrg = [s \in SandboxIds |-> "none"] /\ sbCreating = {}
    /\ claim = [u \in Claimers |-> NoClaim] /\ accounts = {}
    /\ cleaner = [c \in Cleaners |-> Asleep]
    /\ sbHistory = [k \in HistoryKinds |-> {}] /\ sbFaults = 0

SandboxFault == sbFaults < MaxSandboxFaults /\ sbFaults' = sbFaults + 1
Note(kind, x) == sbHistory' = [sbHistory EXCEPT ![kind] = @ \cup {x}]

-----------------------------------------------------------------------------
\* Create: the organization ...
CreateSandboxOrg(s) ==
    /\ sbOrg[s] = "none" /\ sbOrg' = [sbOrg EXCEPT ![s] = "empty"]
    /\ sbCreating' = sbCreating \cup {s}
    /\ UNCHANGED <<sbStatus, sbAge, claim, accounts, cleaner, sbHistory, sbFaults>>

\* ... what it holds ...
FillSandboxOrg(s) ==
    /\ s \in sbCreating /\ sbOrg[s] = "empty" /\ sbOrg' = [sbOrg EXCEPT ![s] = "filled"]
    /\ UNCHANGED <<sbStatus, sbAge, sbCreating, claim, accounts, cleaner, sbHistory, sbFaults>>

\* ... and the row, last: it is by the row that the cleanup finds the organization.
CreateSandbox(s) ==
    /\ s \in sbCreating /\ sbOrg[s] = "filled"
    /\ sbStatus' = [sbStatus EXCEPT ![s] = "active"] /\ sbCreating' = sbCreating \ {s}
    /\ UNCHANGED <<sbAge, sbOrg, claim, accounts, cleaner, sbHistory, sbFaults>>

\* Any insert fails: the handler answers 500 and leaves what there is.
CreateSandboxFails(s) ==
    /\ s \in sbCreating /\ SandboxFault /\ sbCreating' = sbCreating \ {s} /\ Note("half made", s)
    /\ UNCHANGED <<sbStatus, sbAge, sbOrg, claim, accounts, cleaner>>

SandboxAges(s) ==
    /\ sbStatus[s] \notin {"none", "gone"} /\ sbAge[s] # "stale"
    /\ sbAge' = [sbAge EXCEPT ![s] = IF @ = "fresh" THEN "expired" ELSE "stale"]
    /\ UNCHANGED <<sbStatus, sbOrg, sbCreating, claim, accounts, cleaner, sbHistory, sbFaults>>

-----------------------------------------------------------------------------
ClaimGoes(u, pc) == claim' = [claim EXCEPT ![u].pc = pc]

\* Claim: the status is looked at, the expiry is not.
Claim(u, s) ==
    /\ claim[u] = NoClaim /\ u \notin accounts /\ sbStatus[s] \notin {"none", "gone"}
    /\ claim' = [claim EXCEPT ![u] = [pc |-> IF sbStatus[s] = "active" THEN "email" ELSE "refused",
                                      sandbox |-> s]]
    /\ UNCHANGED <<sbStatus, sbAge, sbOrg, sbCreating, accounts, cleaner, sbHistory, sbFaults>>

\* GetUserByEmail: only a user that is found stops the claim, an error does not.
EmailIsFree(u) ==
    /\ claim[u].pc = "email" /\ ClaimGoes(u, "user")
    /\ UNCHANGED <<sbStatus, sbAge, sbOrg, sbCreating, accounts, cleaner, sbHistory, sbFaults>>

ClaimCreatesUser(u) ==
    /\ claim[u].pc = "user"
    /\ \/ accounts' = accounts \cup {u} /\ ClaimGoes(u, "mark") /\ UNCHANGED sbFaults
       \/ SandboxFault /\ ClaimGoes(u, "refused") /\ UNCHANGED accounts
    /\ UNCHANGED <<sbStatus, sbAge, sbOrg, sbCreating, cleaner, sbHistory>>

\* ClaimSandbox: one UPDATE that asks for an active row.  When it changes none, or fails,
\* the answer is 500 and the user row stays.
ClaimSandbox(u) ==
    LET s == claim[u].sandbox
        listed == \E c \in Cleaners : cleaner[c].phase = "expire" /\ s \in cleaner[c].list
    IN  /\ claim[u].pc = "mark"
        /\ \/ /\ sbStatus[s] = "active"
              /\ sbStatus' = [sbStatus EXCEPT ![s] = "claimed"] /\ ClaimGoes(u, "claimed")
              /\ sbHistory' = [sbHistory EXCEPT !["won"] = @ \cup {u},
                                                !["raced"] = @ \cup (IF listed THEN {s} ELSE {})]
              /\ UNCHANGED sbFaults
           \/ /\ sbStatus[s] # "active" /\ ClaimGoes(u, "refused")
              /\ UNCHANGED <<sbStatus, sbHistory, sbFaults>>
           \/ SandboxFault /\ ClaimGoes(u, "refused") /\ UNCHANGED <<sbStatus, sbHistory>>
        /\ UNCHANGED <<sbAge, sbOrg, sbCreating, accounts, cleaner>>

-----------------------------------------------------------------------------
Listing(c, phase, list) == cleaner' = [cleaner EXCEPT ![c] = [phase |-> phase, list |-> list]]
Dealt(c, s) == cleaner' = [cleaner EXCEPT ![c].list = @ \ {s}]

\* Mutant: every sandbox past its TTL, whatever its status.
ListAllExpired(c) ==
    /\ cleaner[c].phase = "idle"
    /\ Listing(c, "expire", {s \in SandboxIds : sbStatus[s] \in {"active", "claimed"} /\ sbAge[s] # "fresh"})
    /\ UNCHANGED <<sbStatus, sbAge, sbOrg, sbCreating, claim, accounts, sbHistory, sbFaults>>

\* CleanupExpired, on the tick: the active sandboxes past their TTL.
ListExpiredSandboxes(c) ==
    /\ cleaner[c].phase = "idle"
    /\ Listing(c, "expire", {s \in SandboxIds : sbStatus[s] = "active" /\ sbAge[s] # "fresh"})
    /\ UNCHANGED <<sbStatus, sbAge, sbOrg, sbCreating, claim, accounts, sbHistory, sbFaults>>

\* SoftDeleteSandbox asks for no status: a sandbox claimed since it was listed expires all
\* the same.  A failure is logged and the next one is taken.
SoftDeleteSandbox(c, s) ==
    /\ cleaner[c].phase = "expire" /\ s \in cleaner[c].list /\ Dealt(c, s)
    /\ \/ /\ sbStatus' = [sbStatus EXCEPT ![s] = IF @ = "gone" THEN "gone" ELSE "expired"]
          /\ UNCHANGED sbFaults
       \/ SandboxFault /\ UNCHANGED sbStatus
    /\ UNCHANGED <<sbAge, sbOrg, sbCreating, claim, accounts, sbHistory>>

\* ListExpiredClaimedSandboxes: those marked expired, a week after their TTL.
ListStaleSandboxes(c) ==
    /\ cleaner[c].phase = "expire" /\ cleaner[c].list = {}
    /\ Listing(c, "purge", {s \in SandboxIds : sbStatus[s] = "expired" /\ sbAge[s] = "stale"})
    /\ UNCHANGED <<sbStatus, sbAge, sbOrg, sbCreating, claim, accounts, sbHistory, sbFaults>>

\* SoftDeleteOrganization, whose failure is only logged, and HardDeleteSandbox.
PurgeSandbox(c, s) ==
    /\ cleaner[c].phase = "purge" /\ s \in cleaner[c].list /\ Dealt(c, s)
    /\ \/ /\ sbOrg' = [sbOrg EXCEPT ![s] = "deleted"]
          /\ sbStatus' = [sbStatus EXCEPT ![s] = "gone"] /\ UNCHANGED <<sbHistory, sbFaults>>
       \/ /\ SandboxFault /\ Note("org kept", s)
          /\ sbStatus' = [sbStatus EXCEPT ![s] = "gone"] /\ UNCHANGED sbOrg
       \/ SandboxFault /\ sbOrg' = [sbOrg EXCEPT ![s] = "deleted"] /\ UNCHANGED <<sbStatus, sbHistory>>
    /\ UNCHANGED <<sbAge, sbCreating, claim, accounts>>

\* The cycle is over, a listing failed, or the server stopped.
CleanupEnds(c) ==
    /\ cleaner[c].phase # "idle" /\ Listing(c, "idle", {})
    /\ \/ cleaner[c] = [phase |-> "purge", list |-> {}] /\ UNCHANGED sbFaults
       \/ SandboxFault
    /\ UNCHANGED <<sbStatus, sbAge, sbOrg, sbCreating, claim, accounts, sbHistory>>

SandboxesNext ==
    \/ \E s \in SandboxIds : \/ CreateSandboxOrg(s) \/ FillSandboxOrg(s) \/ CreateSandbox(s)
                             \/ CreateSandboxFails(s) \/ SandboxAges(s)
    \/ \E u \in Claimers : \/ \E s \in SandboxIds : Claim(u, s)
                           \/ EmailIsFree(u) \/ ClaimCreatesUser(u) \/ ClaimSandbox(u)
    \/ \E c \in Cleaners : \/ ListExpiredSandboxes(c) \/ ListStaleSandboxes(c) \/ CleanupEnds(c)
                           \/ \E s \in SandboxIds : SoftDeleteSandbox(c, s) \/ PurgeSandbox(c, s)

SandboxesSpec == SandboxesInit /\ [][SandboxesNext]_sandboxVars

\* A sandbox is won by at most one visitor and stays theirs, its organization alive, unless
\* a cleanup had listed it before the claim; and an organization that is alive has a row by
\* which it will be found, or a Create that runs or failed, or a delete that failed.
SandboxesAccounted ==
    /\ \A u, v \in sbHistory["won"] : claim[u].sandbox = claim[v].sandbox => u = v
    /\ \A u \in sbHistory["won"] :
          LET s == claim[u].sandbox
          IN  s \in sbHistory["raced"] \/ (sbStatus[s] = "claimed" /\ sbOrg[s] = "filled")
    /\ \A s \in SandboxIds :
          sbOrg[s] \in {"empty", "filled"} =>
              \/ sbStatus[s] \in {"active", "claimed", "expired"}
              \/ s \in sbCreating \cup sbHistory["half made"] \cup sbHistory["org kept"]
=============================================================================
