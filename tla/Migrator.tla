------------------------------ MODULE Migrator ------------------------------
(***************************************************************************)
(* Database migrations: processes of the migrate task apply the migration   *)
(* files in order under a lock kept in the single document of the           *)
(* collection migrations, while application processes (API server, Hermes,  *)
(* Atlas) wait at start-up for the last version to appear in it.            *)
(***************************************************************************)
EXTENDS Naturals

CONSTANTS
    Migrators,     \* processes that run tasks/migrate.js
    Apps,          \* processes that call ensureMigrationIsComplete
    LastVersion,   \* the migration files are numbered 1 .. LastVersion
    Retries,       \* retries of ensureMigrationIsComplete
    MaxCrashes     \* bound: number of migrators that are killed

ASSUME MigratorAssumption ==
    /\ LastVersion \in Nat \ {0}
    /\ Retries \in Nat
    /\ MaxCrashes \in Nat

VARIABLES
    version,    \* version in the document, 0 before the first migration
    running,    \* migrationRunning in the document; "absent" when it has no such field
    applied,    \* files whose up() has run to its end
    pc,         \* where each migrator is
    file,       \* the file each migrator's loop has reached
    app,        \* where each application process is
    left,       \* its retries left
    crashes

vars == <<version, running, applied, pc, file, app, left, crashes>>

Versions == 1 .. LastVersion

TypeOK ==
    /\ version \in 0 .. LastVersion
    /\ running \in {"true", "false", "absent"}
    /\ applied \subseteq Versions
    /\ pc \in [Migrators -> {"lock", "next", "up", "replace", "release", "done", "failed"}]
    /\ file \in [Migrators -> 1 .. LastVersion + 1]
    /\ app \in [Apps -> {"waiting", "recheck", "started", "failed"}]
    /\ left \in [Apps -> 0 .. Retries]
    /\ crashes \in Nat

\* initMigrationsCollection has upserted the document; an old installation's
\* document may lack migrationRunning and have some of the versions.
Init ==
    /\ version \in 0 .. LastVersion
    /\ applied = 1 .. version
    /\ running \in {"false", "absent"}
    /\ pc = [m \in Migrators |-> "lock"]
    /\ file = [m \in Migrators |-> 1]
    /\ app = [a \in Apps |-> "waiting"]
    /\ left = [a \in Apps |-> Retries]
    /\ crashes = 0

Goto(m, next) == pc' = [pc EXCEPT ![m] = next]

\* waitForOtherMigrationsAndMarkAsStarted; while the field is true the process
\* sleeps and tries again, which changes nothing.
MarkAsStarted(m) ==
    /\ pc[m] = "lock"
    /\ running # "true"
    /\ running' = "true"
    /\ Goto(m, "next")
    /\ UNCHANGED <<version, applied, file, app, left, crashes>>

\* up: the version is read, and the file is ignored or its up() begins.
ReadVersion(m) ==
    /\ pc[m] = "next"
    /\ file[m] <= LastVersion
    /\ \/ /\ file[m] > version
          /\ Goto(m, "up")
          /\ UNCHANGED file
       \/ /\ file[m] <= version
          /\ file' = [file EXCEPT ![m] = @ + 1]
          /\ UNCHANGED pc
    /\ UNCHANGED <<version, running, applied, app, left, crashes>>

\* Mutant: the version is recorded before the migration is run.
UpSkipped(m) ==
    /\ pc[m] = "up"
    /\ UNCHANGED applied
    /\ Goto(m, "replace")
    /\ UNCHANGED <<version, running, file, app, left, crashes>>

UpEnds(m) ==
    /\ pc[m] = "up"
    /\ applied' = applied \cup {file[m]}
    /\ Goto(m, "replace")
    /\ UNCHANGED <<version, running, file, app, left, crashes>>

\* Mutant: the release is not in a finally clause.
UpFailsLocked(m) ==
    /\ pc[m] = "up"
    /\ Goto(m, "failed")
    /\ UNCHANGED <<version, running, applied, file, app, left, crashes>>

\* The finally clause runs, then the error reaches the task, which exits.
UpFails(m) ==
    /\ pc[m] = "up"
    /\ running' = "false"
    /\ Goto(m, "failed")
    /\ UNCHANGED <<version, applied, file, app, left, crashes>>

\* Mutant: the number of the next file is recorded.
ReplaceWithNext(m) ==
    /\ pc[m] = "replace"
    /\ version' = file[m] + 1
    /\ running' = "absent"
    /\ file' = [file EXCEPT ![m] = @ + 1]
    /\ Goto(m, "next")
    /\ UNCHANGED <<applied, app, left, crashes>>

\* findOneAndReplace({}, {version}) replaces the whole document: the field
\* migrationRunning is gone from it.
ReplaceDocument(m) ==
    /\ pc[m] = "replace"
    /\ version' = file[m]
    /\ running' = "absent"
    /\ file' = [file EXCEPT ![m] = @ + 1]
    /\ Goto(m, "next")
    /\ UNCHANGED <<applied, app, left, crashes>>

LoopEnds(m) ==
    /\ pc[m] = "next"
    /\ file[m] > LastVersion
    /\ Goto(m, "release")
    /\ UNCHANGED <<version, running, applied, file, app, left, crashes>>

MarkAsDone(m) ==
    /\ pc[m] = "release"
    /\ running' = "false"
    /\ Goto(m, "done")
    /\ UNCHANGED <<version, applied, file, app, left, crashes>>

\* A migrator is killed; nothing resets migrationRunning.  It is started again.
Crash(m) ==
    /\ crashes < MaxCrashes
    /\ crashes' = crashes + 1
    /\ pc[m] \notin {"done", "failed"}
    /\ Goto(m, "lock")
    /\ file' = [file EXCEPT ![m] = 1]
    /\ UNCHANGED <<version, running, applied, app, left>>

-----------------------------------------------------------------------------
(* ensureMigrationIsComplete *)

IsMigrationNecessary == version < LastVersion

AppRetries(a) ==
    /\ app[a] = "waiting"
    /\ left[a] > 0
    /\ IsMigrationNecessary
    /\ left' = [left EXCEPT ![a] = @ - 1]
    /\ UNCHANGED <<version, running, applied, pc, file, app, crashes>>

AppLeavesLoop(a) ==
    /\ app[a] = "waiting"
    /\ left[a] = 0 \/ ~IsMigrationNecessary
    /\ app' = [app EXCEPT ![a] = "recheck"]
    /\ UNCHANGED <<version, running, applied, pc, file, left, crashes>>

\* Mutant: the process starts when its retries are used up.
AppStartsAnyway(a) ==
    /\ app[a] = "recheck"
    /\ app' = [app EXCEPT ![a] = "started"]
    /\ UNCHANGED <<version, running, applied, pc, file, left, crashes>>

\* The second look: the process throws and exits, or starts its work.
AppDecides(a) ==
    /\ app[a] = "recheck"
    /\ app' = [app EXCEPT ![a] = IF IsMigrationNecessary THEN "failed" ELSE "started"]
    /\ UNCHANGED <<version, running, applied, pc, file, left, crashes>>

-----------------------------------------------------------------------------
Migrate(m) ==
    \/ MarkAsStarted(m)
    \/ ReadVersion(m)
    \/ UpEnds(m)
    \/ ReplaceDocument(m)
    \/ LoopEnds(m)
    \/ MarkAsDone(m)

EnsureComplete(a) == AppRetries(a) \/ AppLeavesLoop(a) \/ AppDecides(a)

Next ==
    \/ \E m \in Migrators : Migrate(m) \/ UpFails(m) \/ Crash(m)
    \/ \E a \in Apps : EnsureComplete(a)

Spec == Init /\ [][Next]_vars

\* The processes are scheduled, and an up() either ends or throws.
Fairness ==
    /\ \A m \in Migrators : WF_vars(Migrate(m))
    /\ \A a \in Apps : WF_vars(EnsureComplete(a))

FairSpec == Spec /\ Fairness

-----------------------------------------------------------------------------
(* Properties *)

\* The version in the document never claims a migration that has not run, even
\* though migrators overlap, fail and are killed: each one walks every file.
VersionIsHonest == \A v \in Versions : v <= version => v \in applied

\* An application process works only on a database with every migration applied.
AppsSeeMigratedDatabase == \A a \in Apps : app[a] = "started" => applied = Versions

\* "Another migration is running. Waiting for it to end.": no two processes are
\* between the two ends of a migration at the same time.
OneMigrationAtATime ==
    \A m, n \in Migrators : pc[m] \in {"up", "replace"} /\ pc[n] \in {"up", "replace"} => m = n

NobodyIsKilled == [](crashes = 0)

\* If none is killed, every migrator gets its turn and ends, and the lock is free then, so a
\* later deployment can migrate.
EveryMigratorEnds ==
    NobodyIsKilled => <>[](running # "true" /\ \A m \in Migrators : pc[m] \in {"done", "failed"})
=============================================================================
