--------------------- MODULE ShelteredBundlesRepository ---------------------
(***************************************************************************)
(* The bundles the chain says this Atlas node shelters, which its restorer  *)
(* asks for once in the life of the process: the copy in the database is    *)
(* loaded, the blocks after it are scanned, and what they change is written *)
(* to the database, the block first and then bundle after bundle.          *)
(* A bundle is a resolution that is resolved by nothing but its end.        *)
(***************************************************************************)
EXTENDS ResolutionsRepository, FiniteSets

CONSTANTS
    MaxBrokenOff,   \* bound: how often it is killed, or fails, while it writes
    MaxFailures     \* bound: how often loading the copy fails

ASSUME ShelteredBundlesAssumption == MaxBrokenOff \in Nat /\ MaxFailures \in Nat

VARIABLES
    savedBlock,     \* lastSavedBlock of the document in resolutions_repository, or 0
    docs,           \* documents of each bundle in blockchain_bundles
    toInsert, toDelete,    \* how often each bundle is still to be written
    brokenOff, failures

copyVars == <<savedBlock, docs>>
todoVars == <<toInsert, toDelete>>
databaseVars == <<copyVars, todoVars, brokenOff, failures>>

NoBundles == [id \in Ids |-> 0]

Writing == pc \in {"saveBlock", "store"}

DatabaseInit ==
    /\ savedBlock = 0
    /\ docs = NoBundles
    /\ toInsert = NoBundles
    /\ toDelete = NoBundles
    /\ brokenOff = 0
    /\ failures = 0

BundlesInit ==
    /\ InDatabase
    /\ pc = "load"

-----------------------------------------------------------------------------
(* load *)

Load ==
    /\ pc = "load"
    /\ lastSavedBlock' = savedBlock
    /\ cache' = [id \in Ids |-> IF savedBlock > 0 /\ docs[id] > 0 THEN 1 ELSE 0]
    /\ pc' = "getFromBlock"
    /\ UNCHANGED <<chainVars, scanVars, restarts, databaseVars>>

\* The error is logged and the scan goes on, with the saved block when it is the
\* bundles that could not be read.
LoadFails ==
    /\ pc = "load"
    /\ failures < MaxFailures
    /\ failures' = failures + 1
    /\ lastSavedBlock' \in {0, savedBlock}
    /\ pc' = "getFromBlock"
    /\ UNCHANGED <<chainVars, scanVars, cache, restarts, copyVars, todoVars, brokenOff>>

-----------------------------------------------------------------------------
(* ongoingResolutions *)

\* getOnboardBlock looks for the event that onboards this node in the mined blocks.
FoundOnboardBlock == IF OnboardBlock <= block THEN OnboardBlock ELSE 0

Scan ==
    /\ \/ GetFromBlock(FoundOnboardBlock)
       \/ GetCurrentBlock("done")
       \/ Fetch
    /\ UNCHANGED databaseVars

CountOf(kind, positions) ==
    [id \in Ids |-> Cardinality({i \in DOMAIN positions : /\ log[positions[i]].kind = kind
                                                          /\ log[positions[i]].id = id})]

\* The writes are counted, in no order: those of one bundle are all alike.
UpdateActiveBundles ==
    /\ pc = "fetch"
    /\ LastRequest
    /\ LET events == collected \o Requested IN
          /\ cache' = ApplyIncomingEvents(cache, events)
          /\ toInsert' = CountOf("started", events)
          /\ toDelete' = CountOf("timedOut", events)
    /\ collected' = <<>>
    /\ pc' = "saveBlock"
    /\ UNCHANGED <<chainVars, lastSavedBlock, fromBlock, currentBlock, fetching, startBlock,
                   restarts, copyVars, brokenOff, failures>>

\* Mutant: without upsert, nothing is updated.
SaveNoBlock ==
    /\ pc = "saveBlock"
    /\ pc' = "store"
    /\ UNCHANGED <<chainVars, lastSavedBlock, scanVars, cache, restarts, databaseVars>>

SaveBlock ==
    /\ pc = "saveBlock"
    /\ savedBlock' = currentBlock
    /\ pc' = "store"
    /\ UNCHANGED <<chainVars, lastSavedBlock, scanVars, cache, restarts, docs, todoVars,
                   brokenOff, failures>>

InsertBundle(id) ==
    /\ pc = "store"
    /\ toInsert[id] > 0
    /\ docs' = [docs EXCEPT ![id] = @ + 1]
    /\ toInsert' = [toInsert EXCEPT ![id] = @ - 1]
    /\ UNCHANGED <<chainVars, pc, lastSavedBlock, scanVars, cache, restarts, savedBlock,
                   toDelete, brokenOff, failures>>

\* Mutant: deleteMany.
DeleteBundles(id) ==
    /\ pc = "store"
    /\ toInsert = NoBundles /\ toDelete[id] > 0
    /\ docs' = [docs EXCEPT ![id] = 0]
    /\ toDelete' = [toDelete EXCEPT ![id] = @ - 1]
    /\ UNCHANGED <<chainVars, pc, lastSavedBlock, scanVars, cache, restarts, savedBlock,
                   toInsert, brokenOff, failures>>

\* deleteOne: one of the documents of the bundle, if there is one.
DeleteBundle(id) ==
    /\ pc = "store"
    /\ toInsert = NoBundles /\ toDelete[id] > 0
    /\ docs' = [docs EXCEPT ![id] = IF @ > 0 THEN @ - 1 ELSE 0]
    /\ toDelete' = [toDelete EXCEPT ![id] = @ - 1]
    /\ UNCHANGED <<chainVars, pc, lastSavedBlock, scanVars, cache, restarts, savedBlock,
                   toInsert, brokenOff, failures>>

EndOfScan ==
    /\ lastSavedBlock' = currentBlock
    /\ toInsert' = NoBundles
    /\ toDelete' = NoBundles
    /\ pc' = "done"
    /\ UNCHANGED <<chainVars, scanVars, cache, restarts, copyVars, failures>>

Stored ==
    /\ pc = "store"
    /\ toInsert = NoBundles /\ toDelete = NoBundles
    /\ EndOfScan
    /\ UNCHANGED brokenOff

\* Any of these writes throws: the error is logged, the rest is not written.
StoreFails ==
    /\ Writing
    /\ brokenOff < MaxBrokenOff
    /\ brokenOff' = brokenOff + 1
    /\ EndOfScan

\* The process ends, at any time, and is started again.
RestartAndLoad ==
    /\ restarts < MaxRestarts
    /\ restarts' = restarts + 1
    /\ brokenOff' = IF Writing THEN brokenOff + 1 ELSE brokenOff
    /\ brokenOff' <= MaxBrokenOff
    /\ NewProcess("load")
    /\ toInsert' = NoBundles
    /\ toDelete' = NoBundles
    /\ UNCHANGED <<copyVars, failures>>

-----------------------------------------------------------------------------
(* Properties *)

ShelteredAt(b, id) == b > 0 /\ past[b][id].count > 0

\* The restorer gets exactly the bundles the chain says the node shelters, though
\* it has them from a copy and from the events after it.
RestoresWhatIsSheltered ==
    InDatabase /\ pc = "done" /\ failures = 0 /\ brokenOff = 0 =>
        \A id \in Ids : cache[id] > 0 <=> ShelteredAt(lastSavedBlock, id)

\* Bundle for bundle, the copy is what the chain said at the block saved with it:
\* a bundle that was removed and added again in one scan has one document.
CopyIsOfSavedBlock ==
    ~Writing /\ failures = 0 /\ brokenOff = 0 =>
        \A id \in Ids : docs[id] = IF ShelteredAt(savedBlock, id) THEN 1 ELSE 0

\* A copy that cannot be loaded is scanned for, and written, a second time: no
\* bundle is sheltered that has no document, whichever read failed, unless writing
\* was broken off.
CopyMissesNothing ==
    ~Writing /\ brokenOff = 0 =>
        \A id \in Ids : ShelteredAt(savedBlock, id) => docs[id] > 0

\* The copy agrees with the block saved with it, and a load that fails costs it nothing.
CopyAgrees == InDatabase => CopyIsOfSavedBlock /\ CopyMissesNothing

Additions(id) == {i \in DOMAIN log : log[i].kind = "started" /\ log[i].id = id
                                     /\ log[i].block <= savedBlock}

\* The block is saved first, so that a crash between the writes may lose an
\* addition, and never makes the next process write one again.
AddedAtMostOnce ==
    InDatabase /\ failures = 0 => \A id \in Ids : docs[id] <= Cardinality(Additions(id))
=============================================================================
