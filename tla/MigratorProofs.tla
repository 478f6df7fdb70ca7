--------------------------- MODULE MigratorProofs ---------------------------
(***************************************************************************)
(* Theorems about Migrator for any number of migrators, applications,       *)
(* migration files, retries and crashes.                                   *)
(***************************************************************************)
EXTENDS Migrator, TLAPS

\* A migrator has every file before the one it has reached behind it, whether
\* it applied the file itself or found a version that covers it.
WalkedInOrder ==
    \A m \in Migrators :
        /\ \A v \in Versions : v < file[m] => v \in applied
        /\ pc[m] \in {"up", "replace"} => file[m] \in Versions
        /\ pc[m] = "replace" => file[m] \in applied

HonestInv == TypeOK /\ VersionIsHonest /\ WalkedInOrder /\ AppsSeeMigratedDatabase

LEMMA HonestInit == Init => HonestInv
  BY MigratorAssumption
  DEF Init, HonestInv, TypeOK, VersionIsHonest, WalkedInOrder, AppsSeeMigratedDatabase, Versions

LEMMA HonestStep == HonestInv /\ [Next]_vars => HonestInv'
<1> SUFFICES ASSUME HonestInv, [Next]_vars PROVE HonestInv'
  OBVIOUS
<1> USE MigratorAssumption
    DEF HonestInv, TypeOK, VersionIsHonest, WalkedInOrder, AppsSeeMigratedDatabase, Versions
<1>1. ASSUME NEW m \in Migrators, MarkAsStarted(m) PROVE HonestInv'
  BY <1>1 DEF MarkAsStarted, Goto
<1>2. ASSUME NEW m \in Migrators, ReadVersion(m) PROVE HonestInv'
  <2>1. CASE file[m] > version
    BY <1>2, <2>1 DEF ReadVersion, Goto
  <2>2. CASE file[m] <= version
    <3>1. file' = [file EXCEPT ![m] = @ + 1] /\ UNCHANGED <<version, applied, pc, app>>
      BY <1>2, <2>2 DEF ReadVersion
    <3>2. file[m] \in applied
      BY <1>2, <2>2 DEF ReadVersion
    <3>3. WalkedInOrder'
      BY <1>2, <2>2, <3>1, <3>2 DEF ReadVersion
    <3>4. QED
      BY <1>2, <2>2, <3>1, <3>3 DEF ReadVersion
  <2>3. QED
    BY <1>2, <2>1, <2>2 DEF ReadVersion
<1>3. ASSUME NEW m \in Migrators, UpEnds(m) PROVE HonestInv'
  BY <1>3 DEF UpEnds, Goto
<1>4. ASSUME NEW m \in Migrators, ReplaceDocument(m) PROVE HonestInv'
  <2>1. file[m] \in Versions /\ file[m] \in applied
    BY <1>4 DEF ReplaceDocument
  <2>2. TypeOK'
    BY <1>4, <2>1 DEF ReplaceDocument, Goto
  <2>3. VersionIsHonest' /\ AppsSeeMigratedDatabase'
    BY <1>4, <2>1 DEF ReplaceDocument
  <2>4. WalkedInOrder'
    BY <1>4, <2>1 DEF ReplaceDocument, Goto
  <2>5. QED
    BY <2>2, <2>3, <2>4
<1>5. ASSUME NEW m \in Migrators, LoopEnds(m) \/ MarkAsDone(m) \/ UpFails(m) PROVE HonestInv'
  BY <1>5 DEF LoopEnds, MarkAsDone, UpFails, Goto
<1>6. ASSUME NEW m \in Migrators, Crash(m) PROVE HonestInv'
  BY <1>6 DEF Crash, Goto
<1>7. ASSUME NEW a \in Apps, EnsureComplete(a) PROVE HonestInv'
  <2>1. ~IsMigrationNecessary => applied = Versions
    <3>1. SUFFICES ASSUME ~IsMigrationNecessary PROVE Versions \subseteq applied
      OBVIOUS
    <3>2. version = LastVersion
      BY <3>1 DEF IsMigrationNecessary
    <3>3. \A v \in Versions : v <= version
      BY <3>2
    <3>4. QED
      BY <3>3
  <2>2. CASE AppRetries(a)
    BY <2>2 DEF AppRetries
  <2>3. CASE AppLeavesLoop(a)
    BY <2>3 DEF AppLeavesLoop
  <2>4. CASE AppDecides(a)
    <3>1. TypeOK' /\ VersionIsHonest' /\ WalkedInOrder'
      BY <2>4 DEF AppDecides
    <3>2. AppsSeeMigratedDatabase'
      BY <2>1, <2>4 DEF AppDecides
    <3>3. QED
      BY <3>1, <3>2
  <2>5. QED
    BY <1>7, <2>2, <2>3, <2>4 DEF EnsureComplete
<1>8. CASE UNCHANGED vars
  BY <1>8 DEF vars
<1>9. QED
  BY <1>1, <1>2, <1>3, <1>4, <1>5, <1>6, <1>7, <1>8 DEF Next, Migrate

LEMMA HonestInvariant == Spec => []HonestInv
  BY HonestInit, HonestStep, PTL DEF Spec

(* However many migrators overlap, fail or are killed, no one runs past the      *)
(* last file, and the recorded version stays the number of a file.              *)
THEOREM TypeCorrect == Spec => []TypeOK
<1>1. HonestInv => TypeOK
  BY DEF HonestInv
<1>2. QED
  BY <1>1, HonestInvariant, PTL

(* The version never claims a migration that did not run to its end, although *)
(* findOneAndReplace frees the lock after the first file and migrators then   *)
(* overlap: each walks all the files in order, which is what makes it honest. *)
THEOREM HonestVersion == Spec => []VersionIsHonest
<1>1. HonestInv => VersionIsHonest
  BY DEF HonestInv
<1>2. QED
  BY <1>1, HonestInvariant, PTL

(* An application process that got past ensureMigrationIsComplete works on a   *)
(* database to which every migration was applied.                             *)
THEOREM AppsStartMigrated == Spec => []AppsSeeMigratedDatabase
<1>1. HonestInv => AppsSeeMigratedDatabase
  BY DEF HonestInv
<1>2. QED
  BY <1>1, HonestInvariant, PTL
=============================================================================
