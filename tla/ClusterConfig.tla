---------------------------- MODULE ClusterConfig ---------------------------
(***************************************************************************)
(* The configuration of a cluster: what the cluster runs with, and the        *)
(* snapshots the operations portal keeps                                      *)
(* (ops-portal/internal/api/handlers/config.go, store/postgres/                *)
(* config_snapshot.go).  A configuration is the set of changes it contains:    *)
(* an update merges its own into the configuration it has read.               *)
(***************************************************************************)
EXTENDS Naturals

CONSTANTS
    ConfigEdits,      \* updates, each made once
    MaxConfigFaults   \* bound: calls that fail, the two reads of an update counted as one

ASSUME ConfigAssumption == MaxConfigFaults \in Nat

VARIABLES
    liveConfig,    \* the cluster's configuration
    snapshots,     \* the rows of config_snapshots: version, configuration
    configEdit,    \* configEdit[e]: next step, configuration merged, snapshot version
    kept,          \* history: updates whose snapshot is stored
    alongside,     \* history: updates that overlapped another
    astray,        \* history: a stored update did not reach the cluster, or one was merged on
                   \* nothing although there are snapshots
    configFaults

configVars == <<liveConfig, snapshots, configEdit, kept, alongside, astray, configFaults>>

ConfigSteps == {"new", "number", "store", "push", "done"}

ClusterConfigTypeOK ==
    /\ liveConfig \subseteq ConfigEdits
    /\ snapshots \subseteq [version : Nat \ {0}, config : SUBSET ConfigEdits]
    /\ configEdit \in [ConfigEdits -> [pc : ConfigSteps, config : SUBSET ConfigEdits, version : Nat]]
    /\ kept \subseteq ConfigEdits /\ alongside \subseteq ConfigEdits /\ astray \in BOOLEAN
    /\ configFaults \in 0..MaxConfigFaults

ClusterConfigInit ==
    /\ liveConfig = {} /\ snapshots = {} /\ kept = {} /\ alongside = {} /\ astray = FALSE
    /\ configEdit = [e \in ConfigEdits |-> [pc |-> "new", config |-> {}, version |-> 0]]
    /\ configFaults = 0

ConfigFault == configFaults < MaxConfigFaults /\ configFaults' = configFaults + 1
ConfigAt(e, pc) == configEdit[e].pc = pc
ConfigEnd(e) == configEdit' = [configEdit EXCEPT ![e].pc = "done"]

\* GetLatestSnapshot: a row with the highest version, any one of them.
Latest == {s \in snapshots : \A r \in snapshots : r.version <= s.version}

\* Update, UpdateRateLimits: the cluster's configuration, or when it does not answer the
\* latest snapshot's, or the empty one when that cannot be read either, for want of a row
\* or for a failure; the update's own values on top.
ConfigUpdate(e) ==
    LET busy == {d \in ConfigEdits : configEdit[d].pc \notin {"new", "done"}}
        merge(config) == configEdit' = [configEdit EXCEPT ![e].pc = "number", ![e].config = config \cup {e}]
    IN  /\ ConfigAt(e, "new")
        /\ \/ merge(liveConfig) /\ UNCHANGED <<configFaults, astray>>
           \/ ConfigFault /\ \/ \E s \in Latest : merge(s.config) /\ UNCHANGED astray
                             \/ merge({}) /\ astray' = IF snapshots = {} THEN astray ELSE TRUE
        /\ alongside' = IF busy = {} THEN alongside ELSE alongside \cup busy \cup {e}
        /\ UNCHANGED <<liveConfig, snapshots, kept>>

\* CreateSnapshot reads the latest version ...
CreateSnapshot(e) ==
    /\ ConfigAt(e, "number")
    /\ \/ /\ \E s \in Latest : configEdit' = [configEdit EXCEPT ![e].pc = "store", ![e].version = s.version + 1]
          /\ UNCHANGED configFaults
       \/ /\ snapshots = {} /\ configEdit' = [configEdit EXCEPT ![e].pc = "store", ![e].version = 1]
          /\ UNCHANGED configFaults
       \/ ConfigFault /\ ConfigEnd(e)
    /\ UNCHANGED <<liveConfig, snapshots, kept, alongside, astray>>

\* ... and inserts: nothing makes the number unique.
InsertSnapshot(e) ==
    /\ ConfigAt(e, "store")
    /\ \/ /\ snapshots' = snapshots \cup {[version |-> configEdit[e].version, config |-> configEdit[e].config]}
          /\ kept' = kept \cup {e}
          /\ configEdit' = [configEdit EXCEPT ![e].pc = "push"] /\ UNCHANGED configFaults
       \/ ConfigFault /\ ConfigEnd(e) /\ UNCHANGED <<snapshots, kept>>
    /\ UNCHANGED <<liveConfig, alongside, astray>>

\* Mutant: the update's own values only.
PushOwn(e) ==
    /\ ConfigAt(e, "push") /\ ConfigEnd(e) /\ liveConfig' = {e}
    /\ UNCHANGED <<snapshots, kept, alongside, astray, configFaults>>

\* A cluster that cannot be reached keeps what it has; nothing pushes again.
PushConfig(e) ==
    /\ ConfigAt(e, "push") /\ ConfigEnd(e)
    /\ \/ liveConfig' = configEdit[e].config /\ UNCHANGED <<astray, configFaults>>
       \/ ConfigFault /\ astray' = TRUE /\ UNCHANGED liveConfig
    /\ UNCHANGED <<snapshots, kept, alongside>>

ClusterConfigNext ==
    \E e \in ConfigEdits : ConfigUpdate(e) \/ CreateSnapshot(e) \/ InsertSnapshot(e) \/ PushConfig(e)

ClusterConfigSpec == ClusterConfigInit /\ [][ClusterConfigNext]_configVars

\* A stored update is in the latest snapshot, and once nothing is under way in the cluster,
\* unless some update overlapped another, did not reach the cluster, or was merged on
\* nothing because the snapshots could not be read.  Two updates with the same version
\* overlapped.
ConfigEditsKept ==
    /\ alongside = {} /\ ~astray =>
          /\ \A s \in Latest : kept \subseteq s.config
          /\ (\A e \in ConfigEdits : configEdit[e].pc \in {"new", "done"}) => kept \subseteq liveConfig
    /\ \A d, e \in kept \ alongside : d # e => configEdit[d].version # configEdit[e].version

(***************************************************************************)
(* Why, as an invariant: an update that overlapped none has the field to      *)
(* itself, so its number is above all others and, while that is so of every   *)
(* update, what it merged has all that is kept.                               *)
(***************************************************************************)
ConfigBusy == {e \in ConfigEdits : configEdit[e].pc \in {"number", "store", "push"}}

ConfigShape ==
    /\ \A d, e \in ConfigBusy : d = e \/ e \in alongside
    /\ \A e \in ConfigEdits : e \in kept =>
          /\ configEdit[e].pc \in {"push", "done"}
          /\ \E s \in snapshots : s.version = configEdit[e].version
    /\ \A e \in ConfigEdits : configEdit[e].pc = "store" => configEdit[e].version # 0
    /\ \A e \in ConfigEdits \ alongside : configEdit[e].pc = "store" =>
          \A s \in snapshots : s.version < configEdit[e].version
    /\ \A e \in ConfigBusy : e \in configEdit[e].config
    /\ alongside = {} /\ ~astray =>
          /\ \A e \in ConfigBusy : kept \subseteq configEdit[e].config
          /\ (\A e \in ConfigEdits : configEdit[e].pc # "push") => kept \subseteq liveConfig

ClusterConfigInv == ClusterConfigTypeOK /\ ConfigEditsKept /\ ConfigShape
=============================================================================
