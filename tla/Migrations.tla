----------------------------- MODULE Migrations -----------------------------
(***************************************************************************)
(* The schema migrations every server runs before it starts                  *)
(* (internal/migrate/migrate.go), on a database they share, with the library  *)
(* golang-migrate modelled from how RunUp uses it: Version reads the version  *)
(* row without the advisory lock, Force and Up take it; Up marks a version    *)
(* dirty, runs the file and marks it clean, each in a transaction of its own, *)
(* and refuses to start from a version that is dirty or that no file has.     *)
(***************************************************************************)
EXTENDS Integers, FiniteSets

CONSTANTS
    Replicas,            \* servers starting
    SchemaVersions,      \* the numbers of the embedded files; there are gaps
    MaxBoots,            \* bound: starts
    MaxMigrationFaults   \* bound: files that fail, processes that die, locks not got in time

ASSUME MigrationsAssumption ==
    /\ IsFiniteSet(Replicas) /\ "free" \notin Replicas /\ SchemaVersions \subseteq Nat \ {0} /\ IsFiniteSet(SchemaVersions)
    /\ MaxBoots \in Nat /\ MaxMigrationFaults \in Nat

VARIABLES
    schema,      \* the row of schema_migrations: version (-1: none) and dirty
    migrator,    \* migrator[r]: the stage of r's RunUp and the version it holds
    schemaLock,  \* the replica that holds the advisory lock, or "free"
    ran,         \* history: how often a file was carried out
    excuse,      \* history: versions that may be carried out again, see MigrationsSound
    boots, migrationFaults

migrationVars == <<schema, migrator, schemaLock, ran, excuse, boots, migrationFaults>>

NoVersion == -1
MigratorStages == {"off", "version", "force", "up", "mark", "run", "clear", "serving", "unmigrated"}
Migrator(stage, v) == [stage |-> stage, version |-> v]

MigrationsTypeOK ==
    /\ schema \in [version : {NoVersion} \cup Nat, dirty : BOOLEAN]
    /\ migrator \in [Replicas -> [stage : MigratorStages, version : {NoVersion} \cup Nat]]
    /\ schemaLock \in Replicas \cup {"free"}
    /\ ran \in [SchemaVersions -> Nat] /\ excuse \subseteq SchemaVersions
    /\ boots \in 0..MaxBoots /\ migrationFaults \in 0..MaxMigrationFaults

MigrationsInit ==
    /\ schema = [version |-> NoVersion, dirty |-> FALSE]
    /\ migrator = [r \in Replicas |-> Migrator("off", NoVersion)]
    /\ schemaLock = "free" /\ ran = [v \in SchemaVersions |-> 0] /\ excuse = {}
    /\ boots = 0 /\ migrationFaults = 0

Stage(r, stage) == migrator[r].stage = stage
MigrateTo(r, stage, v) == migrator' = [migrator EXCEPT ![r] = Migrator(stage, v)]
MigrationFault == migrationFaults < MaxMigrationFaults /\ migrationFaults' = migrationFaults + 1
From(v) == {w \in SchemaVersions : w >= v}

-----------------------------------------------------------------------------
\* The server starts; SKIP_MIGRATIONS says that somebody else has migrated.
RunUp(r, skip) ==
    /\ Stage(r, "off") /\ boots < MaxBoots /\ boots' = boots + 1
    /\ MigrateTo(r, IF skip THEN "unmigrated" ELSE "version", NoVersion)
    /\ UNCHANGED <<schema, schemaLock, ran, excuse, migrationFaults>>

\* Mutant: the dirty version itself is forced.
VersionForced(r) ==
    /\ Stage(r, "version")
    /\ IF schema.dirty THEN MigrateTo(r, "force", schema.version) ELSE MigrateTo(r, "up", NoVersion)
    /\ UNCHANGED <<schema, schemaLock, ran, excuse, boots, migrationFaults>>

\* Version: the row as it is, without the lock.  A dirty one is to be forced to the number
\* before it; it is dirty, too, while another replica runs that file.
Version(r) ==
    /\ Stage(r, "version")
    /\ IF schema.dirty THEN MigrateTo(r, "force", schema.version - 1) ELSE MigrateTo(r, "up", NoVersion)
    /\ excuse' = IF schema.dirty THEN excuse \cup From(schema.version) ELSE excuse
    /\ UNCHANGED <<schema, schemaLock, ran, boots, migrationFaults>>

\* Force takes the lock, writes the number, whether or not a file has it, and lets go.
ForceVersion(r) ==
    /\ Stage(r, "force") /\ schemaLock = "free"
    /\ schema' = [version |-> migrator[r].version, dirty |-> FALSE]
    /\ MigrateTo(r, "up", NoVersion)
    /\ UNCHANGED <<schemaLock, ran, excuse, boots, migrationFaults>>

\* The files after version v.
Pending(v) == {w \in SchemaVersions : w > v}
Least(s) == CHOOSE v \in s : \A w \in s : v <= w

\* Up: the lock; a version that is dirty or has no file ends the process.
Up(r) ==
    /\ Stage(r, "up") /\ schemaLock = "free"
    /\ IF schema.dirty \/ schema.version \notin SchemaVersions \cup {NoVersion}
       THEN MigrateTo(r, "off", NoVersion) /\ UNCHANGED schemaLock
       ELSE schemaLock' = r /\ MigrateTo(r, "mark", NoVersion)
    /\ UNCHANGED <<schema, ran, excuse, boots, migrationFaults>>

\* SetVersion(v, dirty) for the next file, or the end.
MarkDirty(r) ==
    /\ Stage(r, "mark")
    /\ IF Pending(schema.version) = {}
       THEN schemaLock' = "free" /\ MigrateTo(r, "serving", NoVersion) /\ UNCHANGED schema
       ELSE LET v == Least(Pending(schema.version)) IN
            /\ schema' = [version |-> v, dirty |-> TRUE] /\ MigrateTo(r, "run", v) /\ UNCHANGED schemaLock
    /\ UNCHANGED <<ran, excuse, boots, migrationFaults>>

RunFile(r) ==
    /\ Stage(r, "run")
    /\ ran' = [ran EXCEPT ![migrator[r].version] = @ + 1] /\ MigrateTo(r, "clear", migrator[r].version)
    /\ UNCHANGED <<schema, schemaLock, excuse, boots, migrationFaults>>

MarkClean(r) ==
    /\ Stage(r, "clear")
    /\ schema' = [version |-> migrator[r].version, dirty |-> FALSE] /\ MigrateTo(r, "mark", NoVersion)
    /\ UNCHANGED <<schemaLock, ran, excuse, boots, migrationFaults>>

\* The file is refused, the lock is not got within 15 seconds, the database cannot be
\* reached or the process dies: the lock goes with the session, the row stays.
Dies(r) ==
    /\ migrator[r].stage \notin {"off", "serving", "unmigrated"} /\ MigrationFault
    /\ MigrateTo(r, "off", NoVersion)
    /\ schemaLock' = IF schemaLock = r THEN "free" ELSE schemaLock
    /\ UNCHANGED <<schema, ran, excuse, boots>>

MigrationsNext ==
    \E r \in Replicas :
        \/ \E skip \in BOOLEAN : RunUp(r, skip)
        \/ Version(r) \/ ForceVersion(r) \/ Up(r) \/ MarkDirty(r) \/ RunFile(r) \/ MarkClean(r) \/ Dies(r)

MigrationsSpec == MigrationsInit /\ [][MigrationsNext]_migrationVars

-----------------------------------------------------------------------------
\* A server that migrated serves a schema in which every file was carried out (the recovery
\* from a dirty version leaves none out), the files are carried out by one replica at a time
\* and in order, and one is carried out again only after a replica saw it, or one before it,
\* dirty: because it had failed or because another replica was just running it.
MigrationsSound ==
    /\ \A r \in Replicas : Stage(r, "serving") => \A v \in SchemaVersions : ran[v] > 0
    /\ \A r \in Replicas : migrator[r].stage \in {"mark", "run", "clear"} => schemaLock = r
    /\ \A v, w \in SchemaVersions : v < w /\ ran[w] > 0 => ran[v] > 0
    /\ \A v \in SchemaVersions : ran[v] > 1 => v \in excuse

\* What a number in the table stands for: the files up to it were carried out, and those after it
\* that were are excused.
StandsFor(v) ==
    \A w \in SchemaVersions : /\ w <= v => ran[w] > 0
                              /\ w > v /\ ran[w] > 0 => w \in excuse

\* What the row says: of a dirty one, but for its own file.
RowStands ==
    /\ ~schema.dirty => StandsFor(schema.version)
    /\ schema.dirty => /\ schema.version \in SchemaVersions
                       /\ \A w \in SchemaVersions : /\ w < schema.version => ran[w] > 0
                                                    /\ w > schema.version /\ ran[w] > 0 => w \in excuse

\* A number that may be forced: the files up to it were carried out, those after it are excused.
Forcible(v) ==
    \A w \in SchemaVersions : /\ w <= v => ran[w] > 0
                              /\ w > v => w \in excuse

\* What a replica knows of the row.  A number that was read to be forced stays good however old
\* it is: files are only ever added to those carried out, and to those excused.
Knows(r) ==
    /\ Stage(r, "force") => Forcible(migrator[r].version)
    /\ Stage(r, "mark") => ~schema.dirty
    /\ migrator[r].stage \in {"run", "clear"} => schema.dirty /\ migrator[r].version = schema.version
    /\ Stage(r, "run") /\ ran[schema.version] > 0 => schema.version \in excuse
    /\ Stage(r, "clear") => ran[schema.version] > 0

MigrationsInv == MigrationsTypeOK /\ MigrationsSound /\ RowStands /\ \A r \in Replicas : Knows(r)
=============================================================================
