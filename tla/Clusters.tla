------------------------------ MODULE Clusters ------------------------------
(***************************************************************************)
(* The operations portal's clusters: the row of each, the Hetzner servers     *)
(* made for it and the goroutines that watch them                             *)
(* (ops-portal/internal/api/handlers/clusters.go).                             *)
(*                                                                         *)
(* Every handler and goroutine reads the whole row, talks to someone else and *)
(* writes the whole row back, so the last writer wins.  Of a row only the     *)
(* server's id is kept: no handler here decides by the status or the address. *)
(***************************************************************************)
EXTENDS Naturals, FiniteSets

CONSTANTS
    ClusterIds,      \* clusters
    ClusterJobs,     \* requests and goroutines in flight
    MaxServers,      \* bound: servers made
    MaxClusterFaults \* bound: calls that fail

ASSUME ClustersAssumption ==
    IsFiniteSet(ClusterJobs) /\ MaxServers \in Nat /\ MaxClusterFaults \in Nat

VARIABLES
    clusterRow,   \* clusterRow[c]: whether the row exists, its server (0: none)
    hetzner,      \* hetzner[s]: the s-th server: none, starting, running, deleted
    clusterJob,   \* clusterJob[j]: what j does next, its cluster, the server it has
                  \* seen in the row, the server it has made
    letGo,        \* history: servers the code has let go of, see ServersAccounted
    clusterFaults

clusterVars == <<clusterRow, hetzner, clusterJob, letGo, clusterFaults>>

ServerIds == 1..MaxServers
NoCluster == [there |-> FALSE, server |-> 0]
NoJob(c) == [pc |-> "idle", id |-> c, seen |-> 0, server |-> 0]
JobSteps == {"idle", "first health", "health", "edit", "create server", "record server",
             "poll", "delete server", "decommission"}

ClustersTypeOK ==
    /\ clusterRow \in [ClusterIds -> [there : BOOLEAN, server : 0..MaxServers]]
    /\ hetzner \in [ServerIds -> {"none", "starting", "running", "deleted"}]
    /\ clusterJob \in [ClusterJobs -> [pc : JobSteps, id : ClusterIds, seen : 0..MaxServers,
                                       server : 0..MaxServers]]
    /\ letGo \subseteq ServerIds
    /\ clusterFaults \in 0..MaxClusterFaults

ClustersInit ==
    /\ clusterRow = [c \in ClusterIds |-> NoCluster]
    /\ hetzner = [s \in ServerIds |-> "none"]
    /\ \E c \in ClusterIds : clusterJob = [j \in ClusterJobs |-> NoJob(c)]
    /\ letGo = {} /\ clusterFaults = 0

ClusterFault == clusterFaults < MaxClusterFaults /\ clusterFaults' = clusterFaults + 1
Doing(j, pc) == clusterJob[j].pc = pc
JobDone(j) == clusterJob' = [clusterJob EXCEPT ![j] = NoJob(@.id)]
LetGo(s) == letGo' = letGo \cup ({s} \ {0})

\* ClusterStore.GetByID: the row must exist; j goes on with `pc'.
ReadCluster(j, c, pc) ==
    /\ Doing(j, "idle") /\ clusterRow[c].there
    /\ clusterJob' = [clusterJob EXCEPT ![j] = [NoJob(c) EXCEPT !.pc = pc, !.seen = clusterRow[c].server]]
    /\ UNCHANGED <<clusterRow, hetzner, letGo, clusterFaults>>

\* ClusterStore.Update: every column of the row, whatever it is by now; nothing when the
\* row is gone.  A server that the row named and j had not seen there is forgotten.
UpdateCluster(j, server) ==
    LET c == clusterJob[j].id
        old == clusterRow[c].server
    IN  /\ clusterRow' = IF clusterRow[c].there THEN [clusterRow EXCEPT ![c].server = server]
                         ELSE clusterRow
        /\ IF ~clusterRow[c].there THEN LetGo(server)
           ELSE IF old \notin {server, clusterJob[j].seen} THEN LetGo(old)
           ELSE UNCHANGED letGo

\* Its error is logged, answered or dropped: j is done all the same.
WriteRow(j, server) ==
    /\ \/ UpdateCluster(j, server) /\ UNCHANGED clusterFaults
       \/ ClusterFault /\ LetGo(clusterJob[j].server) /\ UNCHANGED clusterRow
    /\ JobDone(j) /\ UNCHANGED hetzner

-----------------------------------------------------------------------------
\* Create: the row, and a goroutine that looks at the cluster's health.
CreateCluster(j, c) ==
    /\ Doing(j, "idle") /\ ~clusterRow[c].there
    /\ clusterRow' = [clusterRow EXCEPT ![c].there = TRUE]
    /\ clusterJob' = [clusterJob EXCEPT ![j] = [NoJob(c) EXCEPT !.pc = "first health"]]
    /\ UNCHANGED <<hetzner, letGo, clusterFaults>>

\* The status found is never the "unknown" of the new row: it is always written.
checkClusterHealth(j) ==
    Doing(j, "first health") /\ WriteRow(j, clusterJob[j].seen)

\* The row is written when the cluster answers and was not online.
Health(j, c) == ReadCluster(j, c, "health")

HealthWrites(j) ==
    /\ Doing(j, "health")
    /\ \/ WriteRow(j, clusterJob[j].seen)
       \/ JobDone(j) /\ UNCHANGED <<clusterRow, hetzner, letGo, clusterFaults>>

\* The server's id is not among the fields a request can change.
ClusterUpdate(j, c) == ReadCluster(j, c, "edit")

ClusterUpdateWrites(j) ==
    Doing(j, "edit") /\ WriteRow(j, clusterJob[j].seen)

\* The row goes; its server stays.
DeleteCluster(c) ==
    /\ clusterRow[c].there
    /\ clusterRow' = [clusterRow EXCEPT ![c] = NoCluster] /\ LetGo(clusterRow[c].server)
    /\ UNCHANGED <<hetzner, clusterJob, clusterFaults>>

-----------------------------------------------------------------------------
\* Provision: refused for a cluster that has a server.
Provision(j, c) == clusterRow[c].server = 0 /\ ReadCluster(j, c, "create server")

\* Mutant: the answer of a failed update makes the handler return, with the server.
RecordServerOrReturn(j) ==
    /\ Doing(j, "record server")
    /\ \/ /\ UpdateCluster(j, clusterJob[j].server) /\ UNCHANGED clusterFaults
          /\ clusterJob' = [clusterJob EXCEPT ![j].pc = "poll", ![j].seen = clusterJob[j].server]
       \/ ClusterFault /\ JobDone(j) /\ UNCHANGED <<clusterRow, letGo>>
    /\ UNCHANGED hetzner

\* The API makes the server; when its answer is lost the handler gives up.
CreateServer(j) ==
    /\ Doing(j, "create server")
    /\ \E s \in ServerIds :
          /\ hetzner[s] = "none" /\ \A r \in 1..(s - 1) : hetzner[r] # "none"
          /\ hetzner' = [hetzner EXCEPT ![s] = "starting"]
          /\ \/ /\ clusterJob' = [clusterJob EXCEPT ![j].pc = "record server", ![j].server = s]
                /\ UNCHANGED <<letGo, clusterFaults>>
             \/ ClusterFault /\ JobDone(j) /\ LetGo(s)
    /\ UNCHANGED clusterRow

\* The result of the update is not looked at; a goroutine goes on to watch the server,
\* and will write the row again.
RecordServer(j) ==
    /\ Doing(j, "record server")
    /\ \/ UpdateCluster(j, clusterJob[j].server) /\ UNCHANGED clusterFaults
       \/ ClusterFault /\ UNCHANGED <<clusterRow, letGo>>
    /\ clusterJob' = [clusterJob EXCEPT ![j].pc = "poll", ![j].seen = clusterJob[j].server]
    /\ UNCHANGED hetzner

ServerRuns(s) ==
    /\ hetzner[s] = "starting" /\ hetzner' = [hetzner EXCEPT ![s] = "running"]
    /\ UNCHANGED <<clusterRow, clusterJob, letGo, clusterFaults>>

\* The row is written when the server runs, or after ten minutes.
pollServerProvisioning(j) ==
    Doing(j, "poll") /\ WriteRow(j, clusterJob[j].server)

Deprovision(j, c) == ReadCluster(j, c, "delete server")

\* A server that cannot be deleted is only logged.
DeleteServer(j) ==
    LET s == clusterJob[j].seen IN
    /\ Doing(j, "delete server")
    /\ \/ /\ hetzner' = IF s = 0 THEN hetzner ELSE [hetzner EXCEPT ![s] = "deleted"]
          /\ UNCHANGED <<letGo, clusterFaults>>
       \/ s # 0 /\ ClusterFault /\ LetGo(s) /\ UNCHANGED hetzner
    /\ clusterJob' = [clusterJob EXCEPT ![j].pc = "decommission"]
    /\ UNCHANGED clusterRow

DecommissionCluster(j) ==
    Doing(j, "decommission") /\ WriteRow(j, 0)

\* The portal stops: its requests and goroutines are gone.
PortalRestarts ==
    /\ ClusterFault
    /\ clusterJob' = [j \in ClusterJobs |-> NoJob(clusterJob[j].id)]
    /\ letGo' = letGo \cup ({clusterJob[j].server : j \in ClusterJobs} \ {0})
    /\ UNCHANGED <<clusterRow, hetzner>>

-----------------------------------------------------------------------------
Serves(j) ==
    \E c \in ClusterIds : \/ CreateCluster(j, c) \/ Health(j, c) \/ ClusterUpdate(j, c)
                          \/ Provision(j, c) \/ Deprovision(j, c)

Proceeds(j) ==
    \/ checkClusterHealth(j) \/ HealthWrites(j) \/ ClusterUpdateWrites(j)
    \/ CreateServer(j) \/ RecordServer(j) \/ pollServerProvisioning(j)
    \/ DeleteServer(j) \/ DecommissionCluster(j)

ClustersNext ==
    \/ \E j \in ClusterJobs : Serves(j) \/ Proceeds(j)
    \/ \E c \in ClusterIds : DeleteCluster(c)
    \/ \E s \in ServerIds : ServerRuns(s)
    \/ PortalRestarts

ClustersSpec == ClustersInit /\ [][ClustersNext]_clusterVars

\* No server runs (and costs) behind the portal's back: each one is named by a row, or is
\* in the hands of a request or goroutine that is still to write it, or was let go of: by
\* a call that failed, with its row, by a restart, or by a writer of the row that had read
\* it before the server was there.
ServersAccounted ==
    \A s \in ServerIds :
        hetzner[s] \in {"starting", "running"} =>
            \/ \E c \in ClusterIds : clusterRow[c].server = s
            \/ \E j \in ClusterJobs : clusterJob[j].server = s
            \/ s \in letGo

(***************************************************************************)
(* Why, as an invariant: only who makes a server has one in hand, and had     *)
(* found none in the row; whoever is to clear the row has dealt with the      *)
(* server it saw there.                                                       *)
(***************************************************************************)
ServerHands ==
    /\ \A c \in ClusterIds : ~clusterRow[c].there => clusterRow[c].server = 0
    /\ \A j \in ClusterJobs :
          /\ clusterJob[j].pc \notin {"record server", "poll"} => clusterJob[j].server = 0
          /\ clusterJob[j].pc \in {"create server", "record server"} => clusterJob[j].seen = 0
          /\ clusterJob[j].pc = "poll" => clusterJob[j].seen = clusterJob[j].server
          /\ clusterJob[j].pc = "decommission" /\ clusterJob[j].seen # 0 =>
                hetzner[clusterJob[j].seen] = "deleted" \/ clusterJob[j].seen \in letGo

ClustersInv == ClustersTypeOK /\ ServersAccounted /\ ServerHands
=============================================================================
