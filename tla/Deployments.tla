---------------------------- MODULE Deployments -----------------------------
(***************************************************************************)
(* The operations portal's deployments and the version each cluster's row     *)
(* names (ops-portal/internal/api/handlers/deployments.go).  A deployment is   *)
(* a row of its own, and then a write of the whole cluster row, which other    *)
(* requests (see Clusters) read and write as well.                            *)
(***************************************************************************)
EXTENDS Naturals, Sequences, FiniteSets, FiniteSetsExt

CONSTANTS
    DeployClusters, \* clusters, all of them known
    Versions,       \* versions
    DeployJobs,     \* requests in flight
    MaxDeployments, \* bound: deployments
    MaxDeployFaults \* bound: statements that fail

ASSUME DeploymentsAssumption ==
    /\ DeployClusters # {} /\ Versions # {}
    /\ MaxDeployments \in Nat /\ MaxDeployFaults \in Nat

VARIABLES
    clusterVersion, \* clusterVersion[c]: the version c's row names
    deployments,    \* the deployments, by started_at: cluster, version, status
    deployJob,      \* deployJob[j]: next step, cluster, version, status to write, the
                    \* deployment decided on; whether nobody else was at the cluster
    versionBlurred, \* history: clusters whose row may name another, see VersionRecorded
    deployFaults

deployVars == <<clusterVersion, deployments, deployJob, versionBlurred, deployFaults>>

DeployStatus == {"in_progress", "canary", "success", "failed"}
FreeJob == [pc |-> "idle", id |-> CHOOSE c \in DeployClusters : TRUE,
            version |-> CHOOSE v \in Versions : TRUE, status |-> "in_progress", of |-> 0,
            alone |-> TRUE]

DeploymentsTypeOK ==
    /\ clusterVersion \in [DeployClusters -> Versions]
    /\ deployments \in Seq([id : DeployClusters, version : Versions, status : DeployStatus])
    /\ Len(deployments) <= MaxDeployments
    /\ deployJob \in [DeployJobs -> [pc : {"idle", "insert", "write", "edit", "decide"},
                                     id : DeployClusters, version : Versions,
                                     status : DeployStatus, of : 0..MaxDeployments,
                                     alone : BOOLEAN]]
    /\ versionBlurred \subseteq DeployClusters
    /\ deployFaults \in 0..MaxDeployFaults

DeploymentsInit ==
    /\ clusterVersion = [d \in DeployClusters |-> FreeJob.version]
    /\ deployJob = [j \in DeployJobs |-> FreeJob]
    /\ deployments = <<>> /\ versionBlurred = {} /\ deployFaults = 0

DeployStatementFails == deployFaults < MaxDeployFaults /\ deployFaults' = deployFaults + 1

\* A request takes up its work at cluster c, where it may not be alone.
TakeUp(j, c, pc, v, status, of) ==
    LET at(i) == i # j /\ deployJob[i].pc # "idle" /\ deployJob[i].id = c
    IN  /\ deployJob[j].pc = "idle"
        /\ deployJob' = [i \in DeployJobs |->
              IF i = j THEN [pc |-> pc, id |-> c, version |-> v, status |-> status, of |-> of,
                             alone |-> ~\E k \in DeployJobs : at(k)]
              ELSE [deployJob[i] EXCEPT !.alone = @ /\ ~at(i)]]
        /\ UNCHANGED <<clusterVersion, deployments, versionBlurred, deployFaults>>

\* The deployments of cluster c.
DeploymentsOf(c) == {d \in DOMAIN deployments : deployments[d].id = c}

FreeAgain(j) == deployJob' = [deployJob EXCEPT ![j] = FreeJob]

-----------------------------------------------------------------------------
\* Create, CanaryCreate: the cluster's row is read first.
DeployCreate(j, c, v) == TakeUp(j, c, "insert", v, "in_progress", 0)
CanaryCreate(j, c, v) == TakeUp(j, c, "insert", v, "canary", 0)

\* Only the cluster's two newest deployments are looked at, other than the one given,
\* which may be of another cluster.
DeployRollback(j, c, d) ==
    LET recent == {i \in DeploymentsOf(c) : Cardinality({k \in DeploymentsOf(c) : k > i}) < 2}
        good == {i \in recent : i # d /\ deployments[i].status = "success"}
    IN  /\ d \in DOMAIN deployments
        /\ \E i \in good : /\ \A k \in good : k <= i
                          /\ TakeUp(j, c, "insert", deployments[i].version, "in_progress", 0)

\* DeploymentStore.Create.
InsertDeployment(j) ==
    /\ deployJob[j].pc = "insert"
    /\ \/ /\ Len(deployments) < MaxDeployments
          /\ deployments' = Append(deployments, [id |-> deployJob[j].id,
                version |-> deployJob[j].version, status |-> deployJob[j].status])
          /\ deployJob' = [deployJob EXCEPT ![j].pc = "write"] /\ UNCHANGED deployFaults
       \/ DeployStatementFails /\ FreeAgain(j) /\ UNCHANGED deployments
    /\ UNCHANGED <<clusterVersion, versionBlurred>>

\* Mutant: the row is written from what was read, without the new version.
WriteVersionNot(j) ==
    /\ deployJob[j].pc = "write" /\ FreeAgain(j)
    /\ UNCHANGED <<clusterVersion, deployments, versionBlurred, deployFaults>>

\* The cluster's row; the result is not looked at.
WriteVersion(j) ==
    LET c == deployJob[j].id IN
    /\ deployJob[j].pc = "write"
    /\ \/ /\ clusterVersion' = [clusterVersion EXCEPT ![c] = deployJob[j].version]
          /\ versionBlurred' = IF deployJob[j].alone THEN versionBlurred \ {c}
                               ELSE versionBlurred \cup {c}
          /\ UNCHANGED deployFaults
       \/ /\ DeployStatementFails /\ versionBlurred' = versionBlurred \cup {c}
          /\ UNCHANGED clusterVersion
    /\ FreeAgain(j) /\ UNCHANGED deployments

\* Any other request that reads and writes the whole row, with the version it read, or one
\* of its own: the body's (ClusterHandler.Update) or the one in a health answer.
RowEdit(j, c, v) == TakeUp(j, c, "edit", v, "in_progress", 0)

RowEditWrites(j) ==
    LET c == deployJob[j].id IN
    /\ deployJob[j].pc = "edit"
    /\ \/ /\ clusterVersion' = [clusterVersion EXCEPT ![c] = deployJob[j].version]
          /\ versionBlurred' = IF deployJob[j].alone /\ deployJob[j].version = clusterVersion[c]
                               THEN versionBlurred ELSE versionBlurred \cup {c}
          /\ UNCHANGED deployFaults
       \/ DeployStatementFails /\ UNCHANGED <<clusterVersion, versionBlurred>>
    /\ FreeAgain(j) /\ UNCHANGED deployments

-----------------------------------------------------------------------------
\* ApproveCanary, RejectCanary: the status is read, and then written whatever it is.
DecideCanary(j, d, status) ==
    /\ d \in DOMAIN deployments /\ deployments[d].status = "canary"
    /\ TakeUp(j, deployments[d].id, "decide", deployments[d].version, status, d)

ApproveCanary(j, d) == DecideCanary(j, d, "success")
RejectCanary(j, d) == DecideCanary(j, d, "failed")

UpdateStatus(j) ==
    /\ deployJob[j].pc = "decide"
    /\ \/ /\ deployments' = [deployments EXCEPT ![deployJob[j].of].status = deployJob[j].status]
          /\ UNCHANGED deployFaults
       \/ DeployStatementFails /\ UNCHANGED deployments
    /\ FreeAgain(j) /\ UNCHANGED <<clusterVersion, versionBlurred>>

-----------------------------------------------------------------------------
DeploymentsNext ==
    \E j \in DeployJobs :
        \/ \E c \in DeployClusters :
              \/ \E v \in Versions : DeployCreate(j, c, v) \/ CanaryCreate(j, c, v) \/ RowEdit(j, c, v)
              \/ \E d \in 1..MaxDeployments : DeployRollback(j, c, d)
        \/ \E d \in 1..MaxDeployments : ApproveCanary(j, d) \/ RejectCanary(j, d)
        \/ InsertDeployment(j) \/ WriteVersion(j) \/ RowEditWrites(j) \/ UpdateStatus(j)

DeploymentsSpec == DeploymentsInit /\ [][DeploymentsNext]_deployVars

\* The row of a cluster at rest names the version of its newest deployment, unless since
\* the last deployment that had the cluster to itself two requests were at it together, the
\* row could not be written, or a request set another version in it, its own or the one the
\* cluster answered to a health check.
VersionRecorded ==
    \A c \in DeployClusters \ versionBlurred :
        DeploymentsOf(c) # {} /\ (\A j \in DeployJobs : deployJob[j].id = c => deployJob[j].pc = "idle")
            => clusterVersion[c] = deployments[Max(DeploymentsOf(c))].version

(***************************************************************************)
(* Why, as an invariant: a deployment that is alone at a cluster is its        *)
(* newest, and only a deployment that is still to write the row leaves it      *)
(* behind the newest.                                                          *)
(***************************************************************************)
DeployShape ==
    /\ \A i, j \in DeployJobs :
          deployJob[i].pc # "idle" /\ deployJob[i].alone /\ deployJob[j].pc # "idle"
          /\ deployJob[i].id = deployJob[j].id => i = j
    /\ \A j \in DeployJobs : deployJob[j].pc = "write" /\ deployJob[j].alone =>
          /\ DeploymentsOf(deployJob[j].id) # {}
          /\ deployments[Max(DeploymentsOf(deployJob[j].id))].version = deployJob[j].version
    /\ \A c \in DeployClusters \ versionBlurred :
          DeploymentsOf(c) # {} /\ (\A j \in DeployJobs : deployJob[j].id = c => deployJob[j].pc # "write")
              => clusterVersion[c] = deployments[Max(DeploymentsOf(c))].version

DeploymentsInv == DeploymentsTypeOK /\ VersionRecorded /\ DeployShape
=============================================================================
