------------------------ MODULE HermesBundlingProofs ------------------------
(***************************************************************************)
(* Theorems about HermesBundling for every set of workers, entities and     *)
(* bundles and every value of the limits.                                   *)
(***************************************************************************)
EXTENDS HermesBundling, TLAPS

-----------------------------------------------------------------------------
(* Stored before named, named before anchored.  This part of the invariant    *)
(* needs no assumption: crashes, throws and overruns cannot break it.        *)

InHand(w) ==
    /\ pc[w] \in {"storeMetadata", "markAssets", "markEvents"} => bundle[w] \in files
    /\ pc[w] \in {"markAssets", "markEvents"} => bundle[w] \in meta
    /\ pc[w] \in {"proveAssets", "proveEvents", "proveMetadata"} => bundle[w] \in chain
    /\ waiting[w] \subseteq meta

StoreInv == TypeOK /\ StoredBeforeAnchored /\ \A w \in Workers : InHand(w)

LEMMA StoreInit == Init => StoreInv
  BY NumberAssumption DEF Init, StoreInv, TypeOK, TaskTypeOK, StoredBeforeAnchored, InHand

LEMMA StoreStep == StoreInv /\ [Next]_vars => StoreInv'
<1> SUFFICES ASSUME StoreInv, [Next]_vars PROVE StoreInv'
  OBVIOUS
<1> USE NumberAssumption, EntityAssumption, BundleAssumption, StubAssumption
    DEF StoreInv, TypeOK, TaskTypeOK, StoredBeforeAnchored, InHand, Entities
<1>1. CASE Create
  BY <1>1 DEF Create, CreateAsset, CreateEvent, bundleVars, localVars
<1>2. ASSUME NEW w \in Workers, Work(w) PROVE StoreInv'
  <2> USE DEF Goto, entityVars, bundleVars, localVars
  <2>1. CASE BeginWork(w)
    BY <2>1 DEF BeginWork, TryToBeginWork, NextSeq
  <2>2. CASE \/ ReadCandidates(w, Assets, "readAssets", "readEvents")
             \/ ReadCandidates(w, Events, "readEvents", "label")
    BY <2>2 DEF ReadCandidates, NotBundled
  <2>3. CASE LabelNext(w)
    BY <2>3 DEF LabelNext
  <2>4. CASE LabelDone(w)
    BY <2>4 DEF LabelDone
  <2>5. CASE AcceptBundle(w)
    BY <2>5 DEF AcceptBundle
  <2>6. CASE StoreMetadata(w)
    BY <2>6 DEF StoreMetadata
  <2>7. CASE \/ MarkEntities(w, Assets, "markAssets", "markEvents")
             \/ MarkEntities(w, Events, "markEvents", "findWaiting")
    BY <2>7 DEF MarkEntities
  <2>8. CASE RejectBundle(w) \/ DiscardEvents(w)
    BY <2>8 DEF RejectBundle, DiscardEvents, Discard
  <2>9. CASE FindWaiting(w)
    BY <2>9 DEF FindWaiting
  <2>10. CASE Upload(w)
    BY <2>10 DEF Upload
  <2>11. CASE \/ ProveEntities(w, Assets, "proveAssets", "proveEvents")
              \/ ProveEntities(w, Events, "proveEvents", "proveMetadata")
    BY <2>11 DEF ProveEntities
  <2>12. CASE ProveMetadata(w)
    BY <2>12 DEF ProveMetadata
  <2>13. CASE UploadDone(w)
    BY <2>13 DEF UploadDone, EndOfRound, FinishWork
  <2>14. QED
    BY <1>2, <2>1, <2>2, <2>3, <2>4, <2>5, <2>6, <2>7, <2>8, <2>9, <2>10, <2>11, <2>12, <2>13
       DEF Work
<1>3. ASSUME NEW w \in Workers, Failure(w) PROVE StoreInv'
  <2> USE DEF Goto, entityVars, bundleVars, localVars
  <2>1. CASE UploadFails(w)
    BY <2>1 DEF UploadFails, EndOfRound, FinishWork
  <2>2. CASE ProveFails(w)
    BY <2>2 DEF ProveFails, EndOfRound, FinishWork
  <2>3. CASE Crash(w)
    BY <2>3 DEF Crash, Restart
  <2>4. CASE Throw(w)
    BY <2>4 DEF Throw, Restart, FinishWork
  <2>5. QED
    BY <1>3, <2>1, <2>2, <2>3, <2>4 DEF Failure
<1>4. CASE Expire
  BY <1>4 DEF Expire, ExpireTask, entityVars, bundleVars, localVars
<1>5. CASE UNCHANGED vars
  BY <1>5 DEF vars, entityVars, bundleVars, localVars
<1>6. QED
  BY <1>1, <1>2, <1>3, <1>4, <1>5 DEF Next

LEMMA StoreInvariant == Spec => []StoreInv
  BY StoreInit, StoreStep, PTL DEF Spec

(* Type correctness: no interleaving of requests, workers, crashes and       *)
(* expiries takes a document or a worker out of its type.  TypeOK alone is   *)
(* not inductive: that storeMetadata adds a bundle id, and not NoBundle,     *)
(* needs InHand.                                                            *)
THEOREM TypeCorrect == Spec => []TypeOK
<1>1. StoreInv => TypeOK
  BY DEF StoreInv
<1>2. QED
  BY <1>1, StoreInvariant, PTL

(* What is anchored can be served: for every crash and every overrun of the   *)
(* TTL, a bundle on the chain has its metadata and its body stored.          *)
THEOREM AnchoredIsStored == Spec => []StoredBeforeAnchored
<1>1. StoreInv => StoredBeforeAnchored
  BY DEF StoreInv
<1>2. QED
  BY <1>1, StoreInvariant, PTL

-----------------------------------------------------------------------------
(* The lock.  A worker at work holds the document, so two are never at work;   *)
(* this needs that no round outlives the TTL, but allows every crash.        *)

HoldsTask == \A w \in Workers : AtWork(w) => task = w

LEMMA HoldsTaskStep ==
  ASSUME TTLOutlivesWork, StoreInv, HoldsTask, [Next]_vars
  PROVE  HoldsTask'
<1> USE NoWorkerAssumption DEF HoldsTask, AtWork, StoreInv, TypeOK, TaskTypeOK
<1>1. CASE Create
  BY <1>1 DEF Create, CreateAsset, CreateEvent
<1>2. ASSUME NEW w \in Workers, BeginWork(w) PROVE HoldsTask'
  BY <1>2 DEF BeginWork, TryToBeginWork, Goto
<1>3. ASSUME NEW w \in Workers, Work(w), ~BeginWork(w) PROVE HoldsTask'
  <2>1. CASE UploadDone(w)
    BY <2>1 DEF UploadDone, EndOfRound, FinishWork, Goto
  <2>2. CASE \/ ReadCandidates(w, Assets, "readAssets", "readEvents")
             \/ ReadCandidates(w, Events, "readEvents", "label")
    BY <2>2 DEF ReadCandidates, Goto
  <2>3. CASE LabelNext(w) \/ LabelDone(w)
    BY <2>3 DEF LabelNext, LabelDone, Goto
  <2>4. CASE AcceptBundle(w) \/ StoreMetadata(w)
    BY <2>4 DEF AcceptBundle, StoreMetadata, Goto
  <2>5. CASE \/ MarkEntities(w, Assets, "markAssets", "markEvents")
             \/ MarkEntities(w, Events, "markEvents", "findWaiting")
    BY <2>5 DEF MarkEntities, Goto
  <2>6. CASE RejectBundle(w) \/ DiscardEvents(w)
    BY <2>6 DEF RejectBundle, DiscardEvents, Discard, Goto
  <2>7. CASE FindWaiting(w) \/ Upload(w) \/ ProveMetadata(w)
    BY <2>7 DEF FindWaiting, Upload, ProveMetadata, Goto
  <2>8. CASE \/ ProveEntities(w, Assets, "proveAssets", "proveEvents")
             \/ ProveEntities(w, Events, "proveEvents", "proveMetadata")
    BY <2>8 DEF ProveEntities, Goto
  <2>9. QED
    BY <1>3, <2>1, <2>2, <2>3, <2>4, <2>5, <2>6, <2>7, <2>8 DEF Work
<1>4. ASSUME NEW w \in Workers, Failure(w) PROVE HoldsTask'
  BY <1>4 DEF Failure, UploadFails, ProveFails, EndOfRound, Crash, Throw, Restart, FinishWork, Goto
<1>5. CASE Expire
  BY <1>5 DEF Expire, ExpireTask
<1>6. CASE UNCHANGED vars
  BY <1>6 DEF vars
<1>7. QED
  BY <1>1, <1>2, <1>3, <1>4, <1>5, <1>6 DEF Next

LEMMA HoldsTaskInvariant == ASSUME TTLOutlivesWork PROVE Spec => [](StoreInv /\ HoldsTask)
<1>1. Init => HoldsTask
  BY DEF Init, HoldsTask, AtWork
<1>2. StoreInv /\ HoldsTask /\ [Next]_vars => HoldsTask'
  BY HoldsTaskStep
<1>3. QED
  BY <1>1, <1>2, StoreInvariant, PTL DEF Spec

(* Mutual exclusion of the rounds of work, with any number of processes, of   *)
(* crashes and of throws, as long as a round ends before its document does.  *)
THEOREM OneWorker == ASSUME TTLOutlivesWork PROVE Spec => []OneWorkerAtATime
<1>1. HoldsTask => OneWorkerAtATime
  BY DEF HoldsTask, OneWorkerAtATime
<1>2. QED
  BY <1>1, HoldsTaskInvariant, PTL

-----------------------------------------------------------------------------
(* Stub ids.  When no process exits, the entities that carry a stub id are    *)
(* entities the worker at work has picked, so markEntitiesAsBundled finds     *)
(* nothing that its bundle was not built from.                               *)

Labelling(w) ==
    pc[w] \in {"label", "decide", "storeMetadata", "markAssets", "markEvents", "discardEvents"}

StubsArePicked ==
    \A e \in Entities : stub[e] # NoStub =>
        \E w \in Workers : Labelling(w) /\ stub[e] = stubId[w] /\ e \in picked[w]

\* The first of the two updates has left no asset with a stub id.
AssetsDone ==
    \A w \in Workers : pc[w] \in {"markEvents", "discardEvents"} =>
        \A a \in Assets : stub[a] = NoStub

BundleOfPicked ==
    \A w \in Workers : pc[w] \in {"storeMetadata", "markAssets", "markEvents"} =>
        body[bundle[w]] = picked[w]

NamesStoredBundle == \A e \in Entities : bundleOf[e] # NoBundle => bundleOf[e] \in files

StubInv ==
    /\ StoreInv /\ HoldsTask
    /\ StubsArePicked /\ AssetsDone /\ BundleOfPicked
    /\ NamesStoredBundle /\ NamedByItsOwnBundle

\* Seen from the worker at work: every stub id in the database is its own.
LEMMA StubsAreOwn ==
  ASSUME StubInv, NEW w \in Workers, AtWork(w), NEW e \in Entities, stub[e] # NoStub
  PROVE  stub[e] = stubId[w] /\ e \in picked[w]
  BY DEF StubInv, StubsArePicked, Labelling, HoldsTask, AtWork

LEMMA StubStep ==
  ASSUME TTLOutlivesWork, MaxCrashes = 0, StubInv, [Next]_vars,
         StoreInv', HoldsTask'
  PROVE  StubInv'
<1> USE NumberAssumption, EntityAssumption, BundleAssumption, StubAssumption
    DEF Labelling, StubsArePicked, AssetsDone, BundleOfPicked, NamesStoredBundle,
        NamedByItsOwnBundle, StubInv, HoldsTask, AtWork, StoreInv, TypeOK, InHand, Entities
<1>1. CASE Create
  BY <1>1 DEF Create, CreateAsset, CreateEvent, bundleVars, localVars
<1>2. ASSUME NEW w \in Workers, Work(w) PROVE StubInv'
  <2> USE DEF Goto, entityVars, bundleVars, localVars
  <2>1. CASE BeginWork(w)
    BY <2>1 DEF BeginWork, TryToBeginWork
  <2>2. CASE \/ ReadCandidates(w, Assets, "readAssets", "readEvents")
             \/ ReadCandidates(w, Events, "readEvents", "label")
    BY <2>2 DEF ReadCandidates
  <2>3. CASE LabelNext(w)
    BY <2>3 DEF LabelNext
  <2>4. CASE LabelDone(w)
    BY <2>4 DEF LabelDone
  <2>5. CASE AcceptBundle(w)
    BY <2>5 DEF AcceptBundle
  <2>6. CASE StoreMetadata(w)
    BY <2>6 DEF StoreMetadata
  <2>7. CASE MarkEntities(w, Assets, "markAssets", "markEvents")
    <3>1. AtWork(w)
      BY <2>7 DEF MarkEntities
    <3>2. \A e \in Entities : stub[e] # NoStub => stub[e] = stubId[w] /\ e \in picked[w]
      BY <3>1, StubsAreOwn
    <3>3. \A e \in Entities : /\ e \in Assets => stub'[e] = NoStub
                             /\ e \notin Assets => stub'[e] = stub[e]
      BY <2>7, <3>2 DEF MarkEntities
    <3>4. StubsArePicked' /\ AssetsDone'
      BY <2>7, <3>1, <3>2, <3>3 DEF MarkEntities
    <3>5. NamesStoredBundle' /\ NamedByItsOwnBundle' /\ BundleOfPicked'
      BY <2>7, <3>2 DEF MarkEntities
    <3>6. QED
      BY <3>4, <3>5
  <2>8. CASE MarkEntities(w, Events, "markEvents", "findWaiting")
    <3>1. AtWork(w)
      BY <2>8 DEF MarkEntities
    <3>2. \A e \in Entities : stub[e] # NoStub => stub[e] = stubId[w] /\ e \in picked[w]
      BY <3>1, StubsAreOwn
    <3>3. \A e \in Entities : /\ e \in Events => stub'[e] = NoStub
                             /\ e \notin Events => stub'[e] = stub[e]
      BY <2>8, <3>2 DEF MarkEntities
    <3>4. StubsArePicked' /\ AssetsDone'
      BY <2>8, <3>1, <3>2, <3>3 DEF MarkEntities
    <3>5. NamesStoredBundle' /\ NamedByItsOwnBundle' /\ BundleOfPicked'
      BY <2>8, <3>2 DEF MarkEntities
    <3>6. QED
      BY <3>4, <3>5
  <2>9. CASE RejectBundle(w)
    <3>1. AtWork(w)
      BY <2>9 DEF RejectBundle
    <3>2. \A e \in Entities : stub[e] # NoStub => stub[e] = stubId[w] /\ e \in picked[w]
      BY <3>1, StubsAreOwn
    <3>3. \A e \in Entities : /\ e \in Assets => stub'[e] = NoStub
                             /\ e \notin Assets => stub'[e] = stub[e]
      BY <2>9, <3>2 DEF RejectBundle, Discard
    <3>4. StubsArePicked' /\ AssetsDone'
      BY <2>9, <3>1, <3>2, <3>3 DEF RejectBundle, Discard
    <3>5. NamesStoredBundle' /\ NamedByItsOwnBundle' /\ BundleOfPicked'
      BY <2>9 DEF RejectBundle, Discard
    <3>6. QED
      BY <3>4, <3>5
  <2>10. CASE DiscardEvents(w)
    BY <2>10 DEF DiscardEvents, Discard
  <2>11. CASE FindWaiting(w)
    BY <2>11 DEF FindWaiting
  <2>12. CASE Upload(w)
    BY <2>12 DEF Upload
  <2>13. CASE \/ ProveEntities(w, Assets, "proveAssets", "proveEvents")
              \/ ProveEntities(w, Events, "proveEvents", "proveMetadata")
    BY <2>13 DEF ProveEntities
  <2>14. CASE ProveMetadata(w)
    BY <2>14 DEF ProveMetadata
  <2>15. CASE UploadDone(w)
    BY <2>15 DEF UploadDone, EndOfRound
  <2>16. QED
    BY <1>2, <2>1, <2>2, <2>3, <2>4, <2>5, <2>6, <2>7, <2>8, <2>9, <2>10, <2>11, <2>12, <2>13,
       <2>14, <2>15 DEF Work
<1>3. ASSUME NEW w \in Workers, Failure(w) PROVE StubInv'
  <2>1. ~Crash(w) /\ ~Throw(w)
    BY DEF Crash, Throw, Restart
  <2>2. CASE UploadFails(w)
    BY <2>2 DEF UploadFails, EndOfRound, Goto, entityVars, bundleVars
  <2>3. CASE ProveFails(w)
    BY <2>3 DEF ProveFails, EndOfRound, Goto, entityVars, bundleVars
  <2>4. QED
    BY <1>3, <2>1, <2>2, <2>3 DEF Failure
<1>4. CASE Expire
  BY <1>4 DEF Expire, entityVars, bundleVars, localVars
<1>5. CASE UNCHANGED vars
  BY <1>5 DEF vars, entityVars, bundleVars, localVars
<1>6. QED
  BY <1>1, <1>2, <1>3, <1>4, <1>5 DEF Next

LEMMA StubInvariant ==
  ASSUME TTLOutlivesWork, MaxCrashes = 0
  PROVE  Spec => []StubInv
<1>1. Init => StubsArePicked /\ AssetsDone /\ BundleOfPicked /\ NamesStoredBundle /\ NamedByItsOwnBundle
  BY DEF Init, StubsArePicked, AssetsDone, BundleOfPicked, NamesStoredBundle, NamedByItsOwnBundle,
         Entities
<1>2. Init /\ StoreInv /\ HoldsTask => StubInv
  BY <1>1 DEF StubInv
<1>3. StubInv /\ [Next]_vars /\ (StoreInv /\ HoldsTask)' => StubInv'
  BY StubStep
<1>4. QED
  BY <1>2, <1>3, HoldsTaskInvariant, PTL DEF Spec

(* The metadata of an entity only ever names a bundle the entity is an entry   *)
(* of.  Both assumptions are needed: a restart makes bundleSequenceNumber      *)
(* start at 0 again while old stub ids are still in the database, and a worker *)
(* whose document expired labels entities another worker is bundling.         *)
THEOREM NamedByOwnBundle ==
  ASSUME TTLOutlivesWork, MaxCrashes = 0
  PROVE  Spec => []NamedByItsOwnBundle
<1>1. StubInv => NamedByItsOwnBundle
  BY DEF StubInv
<1>2. QED
  BY <1>1, StubInvariant, PTL

(* Between two rounds no entity is left with a stub id, whether the round's    *)
(* bundle was accepted or rejected, so none is hidden from the next one.      *)
THEOREM NoStubStranded ==
  ASSUME TTLOutlivesWork, MaxCrashes = 0
  PROVE  Spec => []NoStrandedStub
<1>1. StubInv => NoStrandedStub
  BY DEF StubInv, StubsArePicked, Labelling, NoStrandedStub, AtWork
<1>2. QED
  BY <1>1, StubInvariant, PTL

-----------------------------------------------------------------------------
(* Theorems that survive crashes: what the metadata of an entity says of its *)
(* bundle and of its proof is never taken back and never left out.           *)

\* Whatever a round can still mark names no bundle yet.  A crash leaves stub ids
\* behind, but on entities without a bundle, and it empties the cursors.
NotYetNamed ==
    /\ \A e \in Entities : stub[e] # NoStub => bundleOf[e] = NoBundle
    /\ \A w \in Workers : cursor[w] # {} => pc[w] \in {"readEvents", "label"}
    /\ \A w \in Workers : \A e \in cursor[w] : bundleOf[e] = NoBundle

\* The bundle a worker still marks entities for is not yet proven: proofs of it
\* cannot have been handed out.
MarkedBeforeProven ==
    \A w \in Workers :
        pc[w] \in {"storeMetadata", "markAssets", "markEvents"} => bundle[w] \notin metaProof

\* What the updates of assets and of events have done when the next one is due.
ProvenSoFar ==
    \A w \in Workers :
        /\ pc[w] \in {"proveEvents", "proveMetadata"} =>
              \A a \in Assets : bundleOf[a] = bundle[w] => a \in proven
        /\ pc[w] = "proveMetadata" =>
              \A v \in Events : bundleOf[v] = bundle[w] => v \in proven

DeliveryInv ==
    /\ StoreInv /\ HoldsTask
    /\ NotYetNamed /\ MarkedBeforeProven /\ ProvenSoFar
    /\ ProofsAreAnchored /\ ProofReachedEntities

\* markEntitiesAsBundled gives a bundle only to entities that have none.
LEMMA MarksUnnamed ==
  ASSUME DeliveryInv, NEW w \in Workers, NEW kind \in {Assets, Events}, NEW here, NEW next,
         MarkEntities(w, kind, here, next)
  PROVE  \A e \in Entities : bundleOf'[e] # bundleOf[e] =>
             bundleOf[e] = NoBundle /\ bundleOf'[e] = bundle[w]
<1>1. stubId[w] # NoStub
  BY StubAssumption DEF DeliveryInv, StoreInv, TypeOK
<1>2. QED
  BY <1>1, EntityAssumption
     DEF MarkEntities, DeliveryInv, NotYetNamed, StoreInv, TypeOK, Entities

LEMMA NamedOnce ==
  ASSUME DeliveryInv, [Next]_vars
  PROVE  \A e \in Entities : bundleOf[e] # NoBundle => bundleOf'[e] = bundleOf[e]
<1>1. CASE \E w \in Workers : \/ MarkEntities(w, Assets, "markAssets", "markEvents")
                              \/ MarkEntities(w, Events, "markEvents", "findWaiting")
  BY <1>1, MarksUnnamed
<1>2. ASSUME ~\E w \in Workers : \/ MarkEntities(w, Assets, "markAssets", "markEvents")
                                 \/ MarkEntities(w, Events, "markEvents", "findWaiting")
      PROVE  bundleOf' = bundleOf
  <2>1. CASE Create
    BY <2>1 DEF Create, CreateAsset, CreateEvent
  <2>2. ASSUME NEW w \in Workers, Work(w) PROVE bundleOf' = bundleOf
    BY <1>2, <2>2
       DEF Work, BeginWork, ReadCandidates, LabelNext, LabelDone, AcceptBundle, StoreMetadata,
           RejectBundle, DiscardEvents, Discard, FindWaiting, Upload, ProveEntities,
           ProveMetadata, UploadDone, entityVars
  <2>3. ASSUME NEW w \in Workers, Failure(w) PROVE bundleOf' = bundleOf
    BY <2>3 DEF Failure, UploadFails, ProveFails, Crash, Throw, Restart, entityVars
  <2>4. CASE Expire \/ UNCHANGED vars
    BY <2>4 DEF Expire, vars, entityVars
  <2>5. QED
    BY <2>1, <2>2, <2>3, <2>4 DEF Next
<1>3. QED
  BY <1>1, <1>2

LEMMA DeliveryStep ==
  ASSUME TTLOutlivesWork, DeliveryInv, [Next]_vars, StoreInv', HoldsTask'
  PROVE  DeliveryInv'
<1> USE EntityAssumption, BundleAssumption, StubAssumption
    DEF DeliveryInv, NotYetNamed, MarkedBeforeProven, ProvenSoFar, ProofsAreAnchored,
        ProofReachedEntities, StoreInv, TypeOK, InHand, StoredBeforeAnchored, HoldsTask, AtWork,
        Entities
<1>1. CASE Create
  BY <1>1 DEF Create, CreateAsset, CreateEvent, bundleVars, localVars
<1>2. ASSUME NEW w \in Workers, Work(w) PROVE DeliveryInv'
  <2> USE DEF Goto, entityVars, bundleVars, localVars
  <2>1. CASE BeginWork(w)
    BY <2>1 DEF BeginWork, TryToBeginWork
  <2>2. CASE \/ ReadCandidates(w, Assets, "readAssets", "readEvents")
             \/ ReadCandidates(w, Events, "readEvents", "label")
    BY <2>2 DEF ReadCandidates, NotBundled
  <2>3. CASE LabelNext(w)
    BY <2>3 DEF LabelNext
  <2>4. CASE LabelDone(w)
    BY <2>4 DEF LabelDone
  <2>5. CASE AcceptBundle(w)
    BY <2>5 DEF AcceptBundle
  <2>6. CASE StoreMetadata(w)
    BY <2>6 DEF StoreMetadata
  <2>7. ASSUME NEW kind \in {Assets, Events}, NEW here \in {"markAssets", "markEvents"},
               NEW next \in {"markEvents", "findWaiting"}, MarkEntities(w, kind, here, next)
        PROVE  DeliveryInv'
    <3>1. \A e \in Entities : bundleOf'[e] # bundleOf[e] =>
              bundleOf[e] = NoBundle /\ bundleOf'[e] = bundle[w]
      BY <2>7, MarksUnnamed
    <3>2. \A x \in Workers : x # w => pc[x] = "idle"
      BY <2>7 DEF MarkEntities
    <3>3. NotYetNamed'
      BY <2>7, <3>2 DEF MarkEntities
    <3>4. MarkedBeforeProven' /\ ProvenSoFar'
      BY <2>7, <3>2 DEF MarkEntities
    <3>5. ProofsAreAnchored' /\ ProofReachedEntities'
      BY <2>7, <3>1 DEF MarkEntities
    <3>6. QED
      BY <3>3, <3>4, <3>5
  <2>8. CASE RejectBundle(w) \/ DiscardEvents(w)
    BY <2>8 DEF RejectBundle, DiscardEvents, Discard
  <2>9. CASE FindWaiting(w)
    BY <2>9 DEF FindWaiting
  <2>10. CASE Upload(w)
    BY <2>10 DEF Upload
  <2>11. CASE ProveEntities(w, Assets, "proveAssets", "proveEvents")
    BY <2>11 DEF ProveEntities
  <2>12. CASE ProveEntities(w, Events, "proveEvents", "proveMetadata")
    BY <2>12 DEF ProveEntities
  <2>13. CASE ProveMetadata(w)
    BY <2>13 DEF ProveMetadata
  <2>14. CASE UploadDone(w)
    BY <2>14 DEF UploadDone, EndOfRound
  <2>15. QED
    BY <1>2, <2>1, <2>2, <2>3, <2>4, <2>5, <2>6, <2>7, <2>8, <2>9, <2>10, <2>11, <2>12, <2>13,
       <2>14 DEF Work
<1>3. ASSUME NEW w \in Workers, Failure(w) PROVE DeliveryInv'
  <2> USE DEF Goto, entityVars, bundleVars, localVars
  <2>1. CASE UploadFails(w)
    BY <2>1 DEF UploadFails, EndOfRound
  <2>2. CASE ProveFails(w)
    BY <2>2 DEF ProveFails, EndOfRound
  <2>3. CASE Crash(w)
    BY <2>3 DEF Crash, Restart
  <2>4. CASE Throw(w)
    BY <2>4 DEF Throw, Restart
  <2>5. QED
    BY <1>3, <2>1, <2>2, <2>3, <2>4 DEF Failure
<1>4. CASE Expire
  BY <1>4 DEF Expire, entityVars, bundleVars, localVars
<1>5. CASE UNCHANGED vars
  BY <1>5 DEF vars, entityVars, bundleVars, localVars
<1>6. QED
  BY <1>1, <1>2, <1>3, <1>4, <1>5 DEF Next

LEMMA DeliveryInvariant == ASSUME TTLOutlivesWork PROVE Spec => []DeliveryInv
<1>1. Init /\ StoreInv /\ HoldsTask => DeliveryInv
  BY DEF Init, DeliveryInv, NotYetNamed, MarkedBeforeProven, ProvenSoFar, ProofsAreAnchored,
         ProofReachedEntities, Entities
<1>2. DeliveryInv /\ [Next]_vars /\ (StoreInv /\ HoldsTask)' => DeliveryInv'
  BY DeliveryStep
<1>3. QED
  BY <1>1, <1>2, HoldsTaskInvariant, PTL DEF Spec

(* However often workers crash, an entity that carries a proof is in a bundle   *)
(* the chain knows.                                                           *)
THEOREM ProvenIsAnchored == ASSUME TTLOutlivesWork PROVE Spec => []ProofsAreAnchored
<1>1. DeliveryInv => ProofsAreAnchored
  BY DEF DeliveryInv
<1>2. QED
  BY <1>1, DeliveryInvariant, PTL

(* However often workers crash, and at whichever of the three updates, a        *)
(* bundle whose metadata has the proof has handed it to every entity that       *)
(* names it; nothing would visit the bundle again.                             *)
THEOREM ProofDelivered == ASSUME TTLOutlivesWork PROVE Spec => []ProofReachedEntities
<1>1. DeliveryInv => ProofReachedEntities
  BY DEF DeliveryInv
<1>2. QED
  BY <1>1, DeliveryInvariant, PTL

(* The bundle an entity names is never changed, even by the round that finds    *)
(* its old stub id again after a restart.                                      *)
THEOREM BundleStays == ASSUME TTLOutlivesWork PROVE Spec => BundleIsPermanent
<1>1. DeliveryInv /\ [Next]_vars =>
         [\A e \in Entities : bundleOf[e] # NoBundle => bundleOf'[e] = bundleOf[e]]_vars
  BY NamedOnce
<1>2. QED
  BY <1>1, DeliveryInvariant, PTL DEF Spec, BundleIsPermanent
=============================================================================
