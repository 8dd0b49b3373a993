---------------------------- MODULE FlagVersions ----------------------------
(***************************************************************************)
(* The history of a flag: the trigger that keeps every update's result        *)
(* (migration 000088), and the rollback to one of them                        *)
(* (internal/api/handlers/flag_history.go, Store.RollbackFlagToVersion).       *)
(***************************************************************************)
EXTENDS Naturals, Sequences

CONSTANTS
    Rests,       \* contents of the columns a version holds, but for the default value
    Values,      \* default values: JSON
    Texts,       \* those that decode into a Go string: the strings, and null
    Reads,       \* Reads[t]: the JSON that the characters of t are, NoJSON when they are none
    NoJSON,
    Rollbacks,   \* rollbacks in flight
    MaxVersions  \* bound: versions

ASSUME FlagVersionsAssumption ==
    /\ MaxVersions \in Nat
    /\ Texts \subseteq Values /\ NoJSON \notin Values
    /\ Reads \in [Texts -> Values \cup {NoJSON}]
    /\ \A t \in Texts : Reads[t] # t  \* a string is longer in JSON, by its quotes

VARIABLES
    flagConfig, \* the flag's row
    versions,   \* flag_versions, by number: content, content before, the version its
                \* change_reason says it is a rollback to (0: none)
    rollback,   \* rollback[c]: the next statement, the version asked for, its content
    blurred     \* history: a change came between a rollback's update and its label

versionVars == <<flagConfig, versions, rollback, blurred>>

Configs == [rest : Rests, default : Values]
VersionIds == 1..MaxVersions
NoRollback(cfg) == [pc |-> "idle", to |-> 0, config |-> cfg]

FlagVersionsTypeOK ==
    /\ flagConfig \in Configs
    /\ versions \in Seq([config : Configs, before : Configs, label : 0..MaxVersions])
    /\ Len(versions) <= MaxVersions
    /\ rollback \in [Rollbacks -> [pc : {"idle", "write", "label"}, to : 0..MaxVersions,
                                   config : Configs]]
    /\ blurred \in BOOLEAN

\* CreateFlag: the trigger is for updates only, so a new flag has no version.
FlagVersionsInit ==
    /\ flagConfig \in Configs /\ versions = <<>> /\ blurred = FALSE
    /\ rollback = [c \in Rollbacks |-> NoRollback(flagConfig)]

\* An UPDATE of the row, and increment_flag_version in the same statement: the row's
\* lock makes the numbers follow one another.
UpdateFlagRow(cfg) ==
    /\ Len(versions) < MaxVersions
    /\ flagConfig' = cfg
    /\ versions' = Append(versions, [config |-> cfg, before |-> flagConfig, label |-> 0])
    /\ blurred' = (blurred \/ \E c \in Rollbacks : rollback[c].pc = "label")

\* Any other update of the flag.
EditFlag(cfg) == UpdateFlagRow(cfg) /\ UNCHANGED rollback

\* What a rollback to cfg writes: the default value is decoded into a string, whose
\* characters are written where JSON is wanted.
Restored(cfg) == [rest |-> cfg.rest, default |-> Reads[cfg.default]]

\* Mutant: the configuration before that version is restored.
RollbackToPrevious(c, v) ==
    /\ rollback[c].pc = "idle" /\ v \in DOMAIN versions /\ versions[v].before.default \in Texts
    /\ rollback' = [rollback EXCEPT ![c] = [pc |-> "write", to |-> v, config |-> versions[v].before]]
    /\ UNCHANGED <<flagConfig, versions, blurred>>

\* GetFlagVersion: the version must exist, and its default value be decoded: a boolean, a
\* number or an object is refused, and nothing changes.
Rollback(c, v) ==
    /\ rollback[c].pc = "idle" /\ v \in DOMAIN versions /\ versions[v].config.default \in Texts
    /\ rollback' = [rollback EXCEPT ![c] = [pc |-> "write", to |-> v, config |-> versions[v].config]]
    /\ UNCHANGED <<flagConfig, versions, blurred>>

RollbackFlagToVersion(c) ==
    /\ rollback[c].pc = "write" /\ Reads[rollback[c].config.default] # NoJSON
    /\ UpdateFlagRow(Restored(rollback[c].config))
    /\ rollback' = [rollback EXCEPT ![c].pc = "label"]

\* The newest version gets the reason, whoever made it.
UpdateVersionMetadata(c) ==
    /\ rollback[c].pc = "label"
    /\ versions' = [versions EXCEPT ![Len(versions)].label = rollback[c].to]
    /\ rollback' = [rollback EXCEPT ![c] = NoRollback(@.config)]
    /\ UNCHANGED <<flagConfig, blurred>>

\* A statement fails, the first one also for a string that is no JSON: what is written
\* stays.
RollbackFails(c) ==
    /\ rollback[c].pc \in {"write", "label"}
    /\ rollback' = [rollback EXCEPT ![c] = NoRollback(@.config)]
    /\ UNCHANGED <<flagConfig, versions, blurred>>

FlagVersionsNext ==
    \/ \E cfg \in Configs : EditFlag(cfg)
    \/ \E c \in Rollbacks : \/ \E v \in VersionIds : Rollback(c, v)
                            \/ RollbackFlagToVersion(c) \/ UpdateVersionMetadata(c)
                            \/ RollbackFails(c)

FlagVersionsSpec == FlagVersionsInit /\ [][FlagVersionsNext]_versionVars

\* Configuration cfg is what a rollback to v makes of it.
RolledBack(cfg, v) == v.default \in Texts /\ cfg = Restored(v) /\ cfg.default # v.default

\* The history is one line that ends at the row: each version starts from the content
\* the one before it left.  And a version called a rollback to v, which has a string for
\* default value, has v's content but for that value, which is what the string reads as
\* and never the same; unless a change slipped in between a rollback's update and its label.
HistoryFaithful ==
    /\ versions # <<>> => flagConfig = versions[Len(versions)].config
    /\ \A i \in 2..Len(versions) : versions[i].before = versions[i - 1].config
    /\ ~blurred => \A i \in DOMAIN versions :
          versions[i].label # 0 => RolledBack(versions[i].config, versions[versions[i].label].config)

(***************************************************************************)
(* Why, as an invariant: a rollback under way has the content of the version  *)
(* it is to, which nobody changes; and while nothing slipped in, the row has  *)
(* what it makes of it from the update to the label.                          *)
(***************************************************************************)
RollbackShape ==
    /\ \A i \in DOMAIN versions : versions[i].label <= Len(versions)
    /\ \A c \in Rollbacks : rollback[c].pc # "idle" =>
          /\ rollback[c].to \in DOMAIN versions /\ versions[rollback[c].to].config = rollback[c].config
          /\ rollback[c].config.default \in Texts
    /\ ~blurred => \A c \in Rollbacks :
          rollback[c].pc = "label" => flagConfig = Restored(rollback[c].config)

FlagVersionsInv == FlagVersionsTypeOK /\ HistoryFaithful /\ RollbackShape
=============================================================================
