---------------------------- MODULE HermesBackup ----------------------------
(***************************************************************************)
(* The start of a Hermes node as a whole, and the backups it makes of its   *)
(* accounts and organizations.  A backup is an event of an asset of its     *)
(* own: it is bundled, anchored and sheltered like the events of clients,   *)
(* and after a loss of the database it comes back with them.  The node      *)
(* first restores its bundles, then, from the latest backup among the       *)
(* restored events, its collections, and only then begins to make backups.  *)
(***************************************************************************)
EXTENDS HermesRestorer, FiniteSetsExt

CONSTANTS
    Collections,    \* allCollectionsForBackup, in the order they are saved and restored
    Required,       \* requiredCollections
    Keys, NoKey,    \* values of builtInPrivateKey in state.json, and its absence
    MaxDocs,        \* bound: documents written to the collections
    MaxBackups,     \* bound: backups made
    MaxLosses       \* bound: how often the database is lost

Docs == 1..MaxDocs
Names == ToSet(Collections)

AssetOf(n) == <<"asset", n>>
EventOf(n) == <<"event", n>>

ASSUME BackupAssumption ==
    /\ Collections \in Seq(Names) /\ Collections # <<>> /\ IsInjective(Collections)
    /\ Required \subseteq Names
    /\ NoKey \notin Keys
    /\ {MaxDocs, MaxBackups, MaxLosses} \subseteq Nat
    /\ Entities = {AssetOf(n) : n \in 1..MaxBackups} \cup {EventOf(n) : n \in 1..MaxBackups}

VARIABLES
    key,        \* state.builtInPrivateKey of the file
    cols,       \* the documents of each collection
    old,        \* the ones of the collection `<name>_old`
    data,       \* what the event of each backup holds: the key and the documents
    made,       \* backups made, numbered in the order of their timestamps
    at,         \* the collection that is being read or restored, as an index
    backup,     \* the backup that is being restored, 0 if there is none
    read,       \* the documents that have been read for a backup
    written,    \* documents written so far
    lostAt,     \* how many of them had been written at the last loss
    losses,
    restores    \* history: restores of the collections since the last loss

collectionVars == <<cols, old>>
backupVars == <<data, made>>
workVars == <<at, backup, read>>
ghostVars == <<key, written, lostAt, losses, restores>>
vars == <<restorerVars, collectionVars, backupVars, workVars, ghostVars>>

Restoring == {"restoreRequired", "dropOld", "rename", "insertMany"}
Saving == {"readCollection", "storeAsset", "storeEvent"}
Started == {"running"} \cup Saving

NoDocs == [c \in Names |-> {}]

TypeOK ==
    /\ RestorerTypeOK
    /\ pc \in Scanning \cup Visiting \cup Restoring \cup Started
    /\ key \in Keys \cup {NoKey}
    /\ cols \in [Names -> SUBSET Docs]
    /\ old \in [Names -> SUBSET Docs]
    /\ data \in [1..MaxBackups -> [key : Keys \cup {NoKey}, docs : [Names -> SUBSET Docs]]]
    /\ made \in 0..MaxBackups
    /\ entities \subseteq {AssetOf(n) : n \in 1..made} \cup {EventOf(n) : n \in 1..made}
    /\ at \in 1..Len(Collections)
    /\ backup \in 0..made
    /\ pc \in {"dropOld", "rename", "insertMany"} => backup > 0
    /\ read \in [Names -> SUBSET Docs]
    /\ written \in 0..MaxDocs
    /\ lostAt \in 0..written
    /\ losses \in 0..MaxLosses
    /\ restores \in Nat

Init ==
    /\ RestorerInit
    /\ key \in Keys \cup {NoKey}
    /\ cols = NoDocs
    /\ old = NoDocs
    /\ data = [n \in 1..MaxBackups |-> [key |-> NoKey, docs |-> NoDocs]]
    /\ made = 0
    /\ at = 1
    /\ backup = 0
    /\ read = NoDocs
    /\ written = 0
    /\ lostAt = 0
    /\ losses = 0
    /\ restores = 0

-----------------------------------------------------------------------------
(* The programs that keep accounts and organizations in the same database *)

Write(c) ==
    /\ written < MaxDocs
    /\ written' = written + 1
    /\ cols' = [cols EXCEPT ![c] = @ \cup {written'}]
    /\ UNCHANGED <<restorerVars, old, backupVars, workVars, key, lostAt, losses, restores>>

-----------------------------------------------------------------------------
(* restore() *)

restorerButPc == <<chainVars, storeVars, copyVars, scanVars, visitVars>>

\* getLatestBackupEvent: the event of the highest timestamp, 0 if there is none.
Latest ==
    LET numbers == {n \in 1..made : EventOf(n) \in entities}
    IN  IF numbers = {} THEN 0 ELSE Max(numbers)

Kept == UNCHANGED <<restorerButPc, backupVars, read, ghostVars>>

\* With the last bundle the restorer returns, and the backup's restore() begins.
EndOfBundles ==
    /\ pc = "next" /\ missing = {}
    /\ Goto("restoreRequired")
    /\ Kept
    /\ UNCHANGED <<collectionVars, at, backup, troubles>>

\* Mutant: only the accounts are looked at.
AccountsAreEmpty == cols[Collections[1]] = {}

IsRestoreRequired == \E c \in Required : cols[c] = {}

\* isRestoreRequired, getLatestBackup, and the comparison with the key of the file.
BeginRestore ==
    /\ pc = "restoreRequired"
    /\ IF IsRestoreRequired /\ Latest # 0 /\ data[Latest].key = key
         THEN backup' = Latest /\ restores' = restores + 1 /\ Goto("dropOld")
         ELSE Goto("running") /\ UNCHANGED <<backup, restores>>
    /\ UNCHANGED <<restorerButPc, backupVars, read, key, written, lostAt, losses, collectionVars, at,
                   troubles>>

\* A request of the checks fails: logged, and nothing is restored.
RestoreFails ==
    /\ pc = "restoreRequired"
    /\ Trouble
    /\ Goto("running")
    /\ Kept
    /\ UNCHANGED <<collectionVars, at, backup>>

\* A failed drop and a failed rename are passed over.
DropOld ==
    /\ pc = "dropOld"
    /\ \/ old' = [old EXCEPT ![Collections[at]] = {}] /\ UNCHANGED troubles
       \/ Trouble /\ UNCHANGED old
    /\ Goto("rename")
    /\ Kept
    /\ UNCHANGED <<cols, at, backup>>

\* Mutant: the collection is dropped, and not renamed.
DropCollection ==
    /\ pc = "rename"
    /\ cols' = [cols EXCEPT ![Collections[at]] = {}]
    /\ Goto("insertMany")
    /\ Kept
    /\ UNCHANGED <<old, at, backup, troubles>>

\* Renaming to a name that is still taken fails.
Rename ==
    /\ pc = "rename"
    /\ LET c == Collections[at]
       IN  \/ /\ old[c] = {}
              /\ old' = [old EXCEPT ![c] = cols[c]]
              /\ cols' = [cols EXCEPT ![c] = {}]
              /\ UNCHANGED troubles
           \/ old[c] # {} /\ UNCHANGED <<collectionVars, troubles>>
           \/ Trouble /\ UNCHANGED collectionVars
    /\ Goto("insertMany")
    /\ Kept
    /\ UNCHANGED <<at, backup>>

NextCollection(again, end) ==
    IF at < Len(Collections)
      THEN at' = at + 1 /\ Goto(again) /\ UNCHANGED backup
      ELSE at' = 1 /\ Goto(end) /\ backup' = 0

\* insertMany of no documents throws and is logged like any failure, and so is one that
\* fails after some of the documents: the next collection is restored.
InsertMany ==
    /\ pc = "insertMany"
    /\ LET c == Collections[at]
       IN  \/ /\ cols' = [cols EXCEPT ![c] = @ \cup data[backup].docs[c]]
              /\ UNCHANGED troubles
           \/ /\ Trouble
              /\ \E some \in SUBSET data[backup].docs[c] : cols' = [cols EXCEPT ![c] = @ \cup some]
    /\ NextCollection("dropOld", "running")
    /\ Kept
    /\ UNCHANGED old

-----------------------------------------------------------------------------
(* save(), which the worker calls from time to time once the node has started *)

saveUnchanged == <<chainVars, documents, proven, files, wrong, unreached, copyVars, scanVars, visitVars>>

BeginSave ==
    /\ pc = "running"
    /\ made < MaxBackups
    /\ key # NoKey
    /\ Latest # 0 => data[Latest].key = key
    /\ Goto("readCollection")
    /\ UNCHANGED <<restorerButPc, troubles, collectionVars, backupVars, workVars, ghostVars>>

ReadCollection ==
    /\ pc = "readCollection"
    /\ LET c == Collections[at]
       IN  IF cols[c] = {} /\ c \in Required
             THEN /\ Goto("running")
                  /\ at' = 1
                  /\ read' = NoDocs
                  /\ UNCHANGED backup
             ELSE /\ read' = [read EXCEPT ![c] = cols[c]]
                  /\ NextCollection("readCollection", "storeAsset")
    /\ UNCHANGED <<restorerButPc, troubles, collectionVars, backupVars, ghostVars>>

StoreAsset ==
    /\ pc = "storeAsset"
    /\ made' = made + 1
    /\ entities' = entities \cup {AssetOf(made')}
    /\ Goto("storeEvent")
    /\ UNCHANGED <<saveUnchanged, troubles, collectionVars, data, workVars, ghostVars>>

StoreEvent ==
    /\ pc = "storeEvent"
    /\ entities' = entities \cup {EventOf(made)}
    /\ data' = [data EXCEPT ![made] = [key |-> key, docs |-> read]]
    /\ read' = NoDocs
    /\ Goto("running")
    /\ UNCHANGED <<saveUnchanged, troubles, collectionVars, made, at, backup, ghostVars>>

\* A request fails: logged, and there is no backup this time.
BackupFails ==
    /\ pc \in Saving
    /\ Goto("running")
    /\ at' = 1
    /\ read' = NoDocs
    /\ UNCHANGED <<restorerButPc, troubles, collectionVars, backupVars, backup, ghostVars>>

-----------------------------------------------------------------------------
(* The process and the database *)

\* The process exits and is started again.  An exit of a node that has started is none
\* of the troubles.
Restart ==
    /\ IF pc \in Started THEN UNCHANGED troubles ELSE Trouble
    /\ StartAgain
    /\ at' = 1
    /\ backup' = 0
    /\ read' = NoDocs
    /\ UNCHANGED <<chainVars, storeVars, copyVars, collectionVars, backupVars, ghostVars>>

\* The database is lost and the process is started on an empty one, with the old state
\* file or with another.
LoseDatabase ==
    /\ losses < MaxLosses
    /\ losses' = losses + 1
    /\ EmptyDatabase
    /\ cols' = NoDocs
    /\ old' = NoDocs
    /\ key' \in Keys \cup {NoKey}
    /\ lostAt' = written
    /\ restores' = 0
    /\ StartAgain
    /\ at' = 1
    /\ backup' = 0
    /\ read' = NoDocs
    /\ UNCHANGED <<chainVars, troubles, backupVars, written>>

RestoreCollections ==
    EndOfBundles \/ BeginRestore \/ RestoreFails \/ DropOld \/ Rename \/ InsertMany

Save == BeginSave \/ ReadCollection \/ StoreAsset \/ StoreEvent \/ BackupFails

Bundling ==
    (RestoreBundles \/ Surroundings)
        /\ UNCHANGED <<collectionVars, backupVars, workVars, ghostVars>>

Next ==
    \/ Bundling \/ RestoreCollections \/ Save
    \/ \E c \in Names : Write(c)
    \/ Restart \/ LoseDatabase

Spec == Init /\ [][Next]_vars

-----------------------------------------------------------------------------
(* Properties *)

\* A node that has started, and none of whose starts met a failure of its own, has each
\* bundle of the chain an Atlas node shelters, body and entities, also one registered while
\* the node started.  Left out is what the code does not repair: a bundle for which, at one
\* start since the loss, no listed shelterer answered (it has a document now, so no later
\* start visits it), and one for which a shelterer answered with another body.
BundlesAreBack ==
    troubles = 0 /\ pc \in Restoring \cup Started =>
        \A b \in ToSet(anchored) : shelterers[b] # {} =>
            \/ b \in files /\ content[b] \subseteq entities
            \/ b \in unreached \cup wrong

\* Without failures, the body of a bundle in GridFS that is not being restored has all its
\* entities in the collections, also if the database was lost in the middle of the start.
NoHalfBundle ==
    troubles = 0 => \A b \in files \ wrong : content[b] \subseteq entities \/ b = bundle

\* As long as no start has failed or been interrupted, the collections of the latest backup
\* are back when the node has started, unless its key is not the file's or somebody has
\* filled the required ones after the loss.  (After an interrupted restore the required
\* collections may be there, and the others lost, as no later start restores them.)
CollectionsAreBack ==
    troubles = 0 /\ pc \in Started /\ Latest # 0 =>
        \/ data[Latest].key # key
        \/ \A c \in Names : data[Latest].docs[c] \subseteq cols[c]
        \/ \A c \in Required : \E d \in cols[c] \cup old[c] : d > lostAt

\* A restore puts aside what it finds: each document that was written after the loss is
\* in its collection or in the old one, also if it was written while the node started.
\* So it is through failures and crashes until the collections are restored a second time,
\* which drops the old ones, and a second time never comes without a failure or a crash.
NothingIsOverwritten ==
    troubles = 0 \/ restores <= 1 =>
        \A d \in (lostAt + 1)..written : \E c \in Names : d \in cols[c] \cup old[c]
=============================================================================
