----------------------------- MODULE ChainEvents -----------------------------
(***************************************************************************)
(* The chain and one of the repositories that follow it: a behaviour is     *)
(* that of challenges or transfers, in memory, or that of the sheltered     *)
(* bundles, with their copy in the database.                                *)
(***************************************************************************)
EXTENDS ShelteredBundlesRepository

vars == <<repository, chainVars, pc, lastSavedBlock, scanVars, cache, restarts, databaseVars>>

TypeOK ==
    /\ CollectorTypeOK
    /\ pc \in {"load", "getFromBlock", "getCurrentBlock", "fetch", "saveBlock", "store", "done"}
    /\ savedBlock \in 0..block
    /\ docs \in [Ids -> Nat]
    /\ toInsert \in [Ids -> Nat] /\ toDelete \in [Ids -> Nat]
    /\ restarts \in 0..MaxRestarts /\ brokenOff \in 0..MaxBrokenOff /\ failures \in 0..MaxFailures

Init ==
    /\ ResolutionsInit \/ BundlesInit
    /\ CollectorInit
    /\ restarts = 0
    /\ DatabaseInit

Chain ==
    /\ \/ \E id \in Ids :
              \/ \E n \in Counts : ChainStarts(id, n)
              \/ ChainResolves(id)
              \/ ChainTimesOut(id)
       \/ Mine
    /\ UNCHANGED <<pc, lastSavedBlock, scanVars, cache, restarts, databaseVars>>

OngoingResolutions == InMemory /\ Tick /\ UNCHANGED databaseVars

ResolutionsNext ==
    \/ OngoingResolutions
    \/ InMemory /\ Restart /\ UNCHANGED databaseVars

BundlesNext ==
    /\ InDatabase
    /\ \/ Load \/ LoadFails
       \/ Scan \/ UpdateActiveBundles
       \/ SaveBlock
       \/ \E id \in Ids : InsertBundle(id) \/ DeleteBundle(id)
       \/ Stored \/ StoreFails
       \/ RestartAndLoad

Next ==
    /\ Chain \/ ResolutionsNext \/ BundlesNext
    /\ UNCHANGED repository

\* The worker calls ongoingResolutions at every tick, and its requests are answered
\* unless the process ends.
Spec == Init /\ [][Next]_vars /\ WF_vars(OngoingResolutions /\ UNCHANGED repository)
=============================================================================
