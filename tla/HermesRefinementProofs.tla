----------------------- MODULE HermesRefinementProofs -----------------------
(***************************************************************************)
(* HermesBundling implements EntityBundling: the promise made to clients,   *)
(* proved for every number of workers, entities and bundles.  It needs that *)
(* no process exits in the middle of a round and that no round outlives its *)
(* lock; HermesBundlingStubReuse.cfg shows a promise a crash breaks.        *)
(***************************************************************************)
EXTENDS HermesBundlingProofs

InNoBundle(e) == \A b \in Bundles : e \notin body[b]

OnlyStoredBodies == \A b \in Bundles : b \notin files => body[b] = {}

\* What a cursor still returns, and what the round has labelled and not yet
\* stored, has no bundle: the queries exclude entities of stored bundles because
\* those are named, or else carry a stub id.
CandidatesAreFree ==
    \A w \in Workers :
        /\ \A e \in cursor[w] : e \in created /\ stub[e] = NoStub /\ InNoBundle(e)
        /\ picked[w] # {} => Labelling(w) \/ pc[w] = "findWaiting"
        /\ pc[w] \in {"label", "decide"} =>
              \A e \in picked[w] : e \in created /\ stub[e] = stubId[w] /\ InNoBundle(e)

InHandOf(e, b, w) ==
    /\ pc[w] \in {"storeMetadata", "markAssets", "markEvents"}
    /\ pc[w] = "markEvents" => e \in Events
    /\ bundle[w] = b
    /\ stub[e] = stubId[w]

\* An entry of a stored bundle names it, or a worker is about to make it do so.
EntriesAreNamed ==
    \A b \in Bundles : \A e \in body[b] :
        bundleOf[e] = b \/ \E w \in Workers : InHandOf(e, b, w)

SealInv ==
    /\ StubInv /\ DeliveryInv
    /\ OnlyStoredBodies /\ CandidatesAreFree /\ EntriesAreNamed

LEMMA SealInit == Init => OnlyStoredBodies /\ CandidatesAreFree /\ EntriesAreNamed
  BY DEF Init, OnlyStoredBodies, CandidatesAreFree, EntriesAreNamed

\* While a worker is in the middle of uploading, every entry of every bundle names it.
LEMMA AllNamed ==
  ASSUME SealInv, NEW w \in Workers,
         pc[w] \notin {"idle", "storeMetadata", "markAssets", "markEvents"},
         NEW b \in Bundles, NEW e \in body[b]
  PROVE  bundleOf[e] = b
<1>1. \A x \in Workers : x # w => pc[x] = "idle"
  BY DEF SealInv, StubInv, HoldsTask, AtWork
<1>2. ~ \E x \in Workers : InHandOf(e, b, x)
  BY <1>1 DEF InHandOf
<1>3. QED
  BY <1>2 DEF SealInv, EntriesAreNamed

\* What a query for unbundled entities finds is in no bundle.
LEMMA FoundIsFree ==
  ASSUME SealInv, NEW w \in Workers, pc[w] \in {"readAssets", "readEvents"},
         NEW kind \in {Assets, Events}, NEW e \in NotBundled(kind)
  PROVE  e \in created /\ stub[e] = NoStub /\ InNoBundle(e)
<1>1. e \in created /\ stub[e] = NoStub /\ bundleOf[e] = NoBundle
  BY DEF NotBundled
<1>2. ASSUME NEW b \in Bundles, e \in body[b] PROVE FALSE
  BY <1>1, <1>2, AllNamed, BundleAssumption
<1>3. QED
  BY <1>1, <1>2 DEF InNoBundle

LEMMA OthersIdle ==
  ASSUME SealInv, NEW w \in Workers, AtWork(w)
  PROVE  \A x \in Workers : x # w => pc[x] = "idle"
  BY DEF SealInv, StubInv, HoldsTask, AtWork

LEMMA NoCursor ==
  ASSUME SealInv, NEW w \in Workers, AtWork(w), pc[w] \notin {"readEvents", "label"}
  PROVE  \A x \in Workers : cursor[x] = {}
  BY OthersIdle DEF SealInv, DeliveryInv, NotYetNamed

Sealed == OnlyStoredBodies /\ CandidatesAreFree /\ EntriesAreNamed

LEMMA DiscardKeepsSealed ==
  ASSUME SealInv, NEW w \in Workers, pc[w] \in {"decide", "discardEvents"},
         NEW kind, NEW next \in {"discardEvents", "findWaiting"}, Discard(w, kind, next)
  PROVE  Sealed'
<1>1. \A b \in Bundles : \A e \in body[b] : bundleOf[e] = b
  BY AllNamed
<1>2. \A x \in Workers : cursor[x] = {} /\ (x # w => pc[x] = "idle")
  BY NoCursor, OthersIdle DEF AtWork
<1>3. /\ pc' = [pc EXCEPT ![w] = next]
      /\ UNCHANGED <<created, bundleOf, body, files, cursor, picked, stubId>>
  BY DEF Discard, Goto, bundleVars, localVars
<1>4. DOMAIN pc = Workers
  BY DEF SealInv, StubInv, StoreInv, TypeOK
<1>5. EntriesAreNamed' /\ OnlyStoredBodies'
  BY <1>1, <1>3 DEF EntriesAreNamed, OnlyStoredBodies, SealInv
<1>6. CandidatesAreFree'
  BY <1>2, <1>3, <1>4 DEF CandidatesAreFree, SealInv, Labelling
<1>7. QED
  BY <1>5, <1>6 DEF Sealed

\* kind is the one whose turn it is: assets are marked first.
LEMMA MarkKeepsSealed ==
  ASSUME SealInv, [Next]_vars, NEW w \in Workers, NEW kind, NEW here, NEW next,
         \/ kind = Assets /\ here = "markAssets" /\ next = "markEvents"
         \/ kind = Events /\ here = "markEvents" /\ next = "findWaiting",
         MarkEntities(w, kind, here, next)
  PROVE  Sealed'
<1>1. /\ pc[w] = here /\ pc' = [pc EXCEPT ![w] = next]
      /\ bundleOf' = [e \in Entities |-> IF e \in kind /\ stub[e] = stubId[w]
                                         THEN bundle[w] ELSE bundleOf[e]]
      /\ stub' = [e \in Entities |-> IF e \in kind /\ stub[e] = stubId[w]
                                     THEN NoStub ELSE stub[e]]
      /\ UNCHANGED <<created, body, files, cursor, picked, stubId, bundle>>
  BY DEF MarkEntities, Goto, bundleVars, localVars
<1>2. \A x \in Workers : cursor[x] = {} /\ (x # w => pc[x] = "idle")
  BY <1>1, NoCursor, OthersIdle DEF AtWork
<1>3. DOMAIN pc = Workers /\ body \in [Bundles -> SUBSET Entities]
  BY DEF SealInv, StubInv, StoreInv, TypeOK
<1>4. OnlyStoredBodies'
  BY <1>1 DEF SealInv, OnlyStoredBodies
<1>5. CandidatesAreFree'
  BY <1>1, <1>2, <1>3 DEF SealInv, CandidatesAreFree, Labelling
<1>6. EntriesAreNamed'
  <2>1. SUFFICES ASSUME NEW b \in Bundles, NEW e \in body[b]
                 PROVE  bundleOf'[e] = b \/ \E x \in Workers : InHandOf(e, b, x)'
    BY <1>1 DEF EntriesAreNamed
  <2>2. e \in Entities
    BY <1>3
  <2>3. CASE bundleOf[e] = b
    BY <2>2, <2>3, NamedOnce, BundleAssumption DEF SealInv
  <2>4. ASSUME NEW x \in Workers, InHandOf(e, b, x)
        PROVE  bundleOf'[e] = b \/ InHandOf(e, b, w)'
    <3>1. x = w
      BY <1>2, <2>4 DEF InHandOf
    <3>2. CASE e \in kind
      BY <1>1, <2>2, <2>4, <3>1, <3>2 DEF InHandOf
    <3>3. CASE e \notin kind
      BY <1>1, <1>3, <2>2, <2>4, <3>1, <3>3 DEF InHandOf, Entities
    <3>4. QED
      BY <3>2, <3>3
  <2>5. QED
    BY <2>3, <2>4 DEF SealInv, EntriesAreNamed
<1>7. QED
  BY <1>4, <1>5, <1>6 DEF Sealed

LEMMA ReadKeepsSealed ==
  ASSUME SealInv, NEW w \in Workers, NEW kind \in {Assets, Events}, NEW here, NEW next,
         \/ here = "readAssets" /\ next = "readEvents"
         \/ here = "readEvents" /\ next = "label",
         ReadCandidates(w, kind, here, next)
  PROVE  Sealed'
<1>1. /\ pc[w] = here /\ pc' = [pc EXCEPT ![w] = next]
      /\ cursor' = [cursor EXCEPT ![w] = cursor[w] \cup NotBundled(kind)]
      /\ UNCHANGED <<created, stub, bundleOf, body, files, picked, stubId, bundle>>
  BY DEF ReadCandidates, Goto, entityVars, bundleVars
<1>2. \A x \in Workers : x # w => pc[x] = "idle"
  BY <1>1, OthersIdle DEF AtWork
<1>3. /\ DOMAIN pc = Workers
      /\ cursor \in [Workers -> SUBSET Entities]
  BY DEF SealInv, StubInv, StoreInv, TypeOK
<1>4. \A e \in NotBundled(kind) : e \in created /\ stub[e] = NoStub /\ InNoBundle(e)
  BY <1>1, FoundIsFree
<1>5. picked[w] = {}
  BY <1>1 DEF SealInv, CandidatesAreFree, Labelling
<1>6. CandidatesAreFree'
  <2>1. ASSUME NEW x \in Workers, NEW e \in cursor'[x]
        PROVE  e \in created /\ stub[e] = NoStub /\ InNoBundle(e)
    BY <1>1, <1>3, <1>4, <2>1 DEF SealInv, CandidatesAreFree
  <2>2. ASSUME NEW x \in Workers, pc'[x] # "idle" PROVE picked[x] = {}
    BY <1>1, <1>2, <1>3, <1>5, <2>2
  <2>3. ASSUME NEW x \in Workers, pc'[x] = "idle" PROVE picked[x] = {}
    BY <1>1, <1>2, <1>3, <2>3 DEF SealInv, CandidatesAreFree, Labelling
  <2>4. QED
    BY <1>1, <2>1, <2>2, <2>3 DEF CandidatesAreFree, InNoBundle
<1>7. \A b \in Bundles, x \in Workers : \A e \in body[b] : ~InHandOf(e, b, x)
  BY <1>1, <1>2 DEF InHandOf
<1>8. OnlyStoredBodies' /\ EntriesAreNamed'
  BY <1>1, <1>7 DEF SealInv, OnlyStoredBodies, EntriesAreNamed
<1>9. QED
  BY <1>6, <1>8 DEF Sealed

LEMMA AcceptKeepsSealed ==
  ASSUME SealInv, NEW w \in Workers, AcceptBundle(w)
  PROVE  Sealed'
<1>1. PICK b \in Bundles \ files :
          /\ files' = files \cup {b}
          /\ body' = [body EXCEPT ![b] = picked[w]]
          /\ bundle' = [bundle EXCEPT ![w] = b]
  BY DEF AcceptBundle
<1>2. /\ pc[w] = "decide" /\ pc' = [pc EXCEPT ![w] = "storeMetadata"]
      /\ UNCHANGED <<created, stub, bundleOf, stubId, cursor, picked>>
  BY DEF AcceptBundle, Goto, entityVars
<1>3. \A x \in Workers : cursor[x] = {} /\ (x # w => pc[x] = "idle")
  BY <1>2, NoCursor, OthersIdle DEF AtWork
<1>4. /\ DOMAIN pc = Workers /\ body \in [Bundles -> SUBSET Entities]
      /\ bundle \in [Workers -> Bundles \cup {NoBundle}]
  BY DEF SealInv, StubInv, StoreInv, TypeOK
<1>5. \A c \in Bundles : \A e \in body[c] : bundleOf[e] = c
  BY <1>2, AllNamed
<1>6. \A e \in picked[w] : stub[e] = stubId[w]
  BY <1>2 DEF SealInv, CandidatesAreFree
<1>7. OnlyStoredBodies'
  BY <1>1, <1>4 DEF SealInv, OnlyStoredBodies
<1>8. CandidatesAreFree'
  BY <1>2, <1>3, <1>4 DEF SealInv, CandidatesAreFree, Labelling
<1>9. EntriesAreNamed'
  <2>1. ASSUME NEW c \in Bundles, c # b, NEW e \in body'[c] PROVE bundleOf'[e] = c
    BY <1>1, <1>2, <1>4, <1>5, <2>1
  <2>2. ASSUME NEW e \in body'[b] PROVE InHandOf(e, b, w)'
    BY <1>1, <1>2, <1>4, <1>6, <2>2 DEF InHandOf
  <2>3. QED
    BY <2>1, <2>2 DEF EntriesAreNamed
<1>10. QED
  BY <1>7, <1>8, <1>9 DEF Sealed

LEMMA LabelKeepsSealed ==
  ASSUME SealInv, NEW w \in Workers, LabelNext(w)
  PROVE  Sealed'
<1>1. PICK e \in cursor[w] :
          /\ stub' = [stub EXCEPT ![e] = stubId[w]]
          /\ cursor' = [cursor EXCEPT ![w] = cursor[w] \ {e}]
          /\ picked' = [picked EXCEPT ![w] = picked[w] \cup {e}]
  BY DEF LabelNext
<1>2. pc[w] = "label" /\ UNCHANGED <<created, bundleOf, files, body, pc, stubId, bundle>>
  BY DEF LabelNext, bundleVars
<1>3. \A x \in Workers : x # w => pc[x] = "idle" /\ cursor[x] = {}
  BY <1>2, OthersIdle DEF AtWork, SealInv, DeliveryInv, NotYetNamed
<1>4. /\ cursor \in [Workers -> SUBSET Entities] /\ picked \in [Workers -> SUBSET Entities]
      /\ stub \in [Entities -> Nat \cup {NoStub}]
  BY DEF SealInv, StubInv, StoreInv, TypeOK
<1>5. e \in created /\ InNoBundle(e)
  BY DEF SealInv, CandidatesAreFree
<1>6. \A b \in Bundles : \A f \in body[b] : bundleOf[f] = b
  BY <1>2, AllNamed
<1>7. CandidatesAreFree'
  BY <1>1, <1>2, <1>3, <1>4, <1>5 DEF SealInv, CandidatesAreFree, InNoBundle, Labelling
<1>8. OnlyStoredBodies' /\ EntriesAreNamed'
  BY <1>2, <1>6 DEF SealInv, OnlyStoredBodies, EntriesAreNamed
<1>9. QED
  BY <1>7, <1>8 DEF Sealed

LEMMA SealStep ==
  ASSUME TTLOutlivesWork, MaxCrashes = 0, SealInv, [Next]_vars, StubInv', DeliveryInv'
  PROVE  SealInv'
<1> SUFFICES Sealed'
  BY DEF SealInv, Sealed
<1>1. ASSUME NEW w \in Workers,
             \/ ReadCandidates(w, Assets, "readAssets", "readEvents")
             \/ ReadCandidates(w, Events, "readEvents", "label")
      PROVE  Sealed'
  BY <1>1, ReadKeepsSealed
<1>2. ASSUME NEW w \in Workers, LabelNext(w) \/ AcceptBundle(w) PROVE Sealed'
  BY <1>2, LabelKeepsSealed, AcceptKeepsSealed
<1>3. ASSUME NEW w \in Workers,
             \/ MarkEntities(w, Assets, "markAssets", "markEvents")
             \/ MarkEntities(w, Events, "markEvents", "findWaiting")
      PROVE  Sealed'
  BY <1>3, MarkKeepsSealed
<1>4. ASSUME NEW w \in Workers, RejectBundle(w) \/ DiscardEvents(w) PROVE Sealed'
  BY <1>4, DiscardKeepsSealed DEF RejectBundle, DiscardEvents
<1> USE NumberAssumption
    DEF Sealed, SealInv, OnlyStoredBodies, CandidatesAreFree, EntriesAreNamed, InHandOf,
        InNoBundle, Labelling, StubInv, StoreInv, TypeOK, AtWork, Goto, entityVars, bundleVars,
        localVars
<1>5. CASE Create
  BY <1>5 DEF Create, CreateAsset, CreateEvent
<1>6. ASSUME NEW w \in Workers, BeginWork(w) PROVE Sealed'
  BY <1>6 DEF BeginWork
<1>7. ASSUME NEW w \in Workers, LabelDone(w) \/ StoreMetadata(w) PROVE Sealed'
  BY <1>7 DEF LabelDone, StoreMetadata
<1>8. ASSUME NEW w \in Workers, FindWaiting(w) PROVE Sealed'
  BY <1>8 DEF FindWaiting
<1>9. ASSUME NEW w \in Workers, Upload(w) \/ ProveMetadata(w) \/ UploadDone(w) PROVE Sealed'
  <2>1. CASE Upload(w)
    BY <2>1 DEF Upload
  <2>2. CASE ProveMetadata(w) \/ UploadDone(w)
    BY <2>2, SMTT(30) DEF ProveMetadata, UploadDone, EndOfRound
  <2>3. QED
    BY <1>9, <2>1, <2>2
<1>10. ASSUME NEW w \in Workers,
              \/ ProveEntities(w, Assets, "proveAssets", "proveEvents")
              \/ ProveEntities(w, Events, "proveEvents", "proveMetadata")
       PROVE  Sealed'
  BY <1>10 DEF ProveEntities
<1>11. ASSUME NEW w \in Workers, UploadFails(w) \/ ProveFails(w) PROVE Sealed'
  BY <1>11 DEF UploadFails, ProveFails, EndOfRound
<1>12. \A w \in Workers : ~Crash(w) /\ ~Throw(w)
  BY DEF Crash, Throw, Restart
<1>13. CASE Expire \/ UNCHANGED vars
  BY <1>13 DEF Expire, vars
<1>14. QED
  BY <1>1, <1>2, <1>3, <1>4, <1>5, <1>6, <1>7, <1>8, <1>9, <1>10, <1>11, <1>12, <1>13
     DEF Next, Work, Failure

LEMMA SealInvariant ==
  ASSUME TTLOutlivesWork, MaxCrashes = 0
  PROVE  Spec => []SealInv
<1>1. Init /\ StubInv /\ DeliveryInv => SealInv
  BY SealInit DEF SealInv
<1>2. SealInv /\ [Next]_vars /\ (StubInv /\ DeliveryInv)' => SealInv'
  BY SealStep
<1>3. QED
  BY <1>1, <1>2, StubInvariant, DeliveryInvariant, PTL DEF Spec

-----------------------------------------------------------------------------
(* Every step is a step of EntityBundling or leaves it where it is. *)

AbstractStep == Abstract!Next \/ UNCHANGED Abstract!vars

LEMMA StepSimulation ==
  ASSUME MaxCrashes = 0, SealInv, [Next]_vars
  PROVE  AbstractStep
<1> USE DEF AbstractStep, Abstract!vars
<1> USE NumberAssumption DEF Entities
<1>1. CASE Create
  BY <1>1 DEF Create, CreateAsset, CreateEvent, bundleVars, Abstract!Next, Abstract!Create
<1>2. ASSUME NEW w \in Workers, AcceptBundle(w) PROVE Abstract!Next
  <2>1. PICK b \in Bundles \ files :
            body' = [body EXCEPT ![b] = picked[w]]
    BY <1>2 DEF AcceptBundle
  <2>2. pc[w] = "decide" /\ UNCHANGED <<created, bundleOf, chain, proven>>
    BY <1>2 DEF AcceptBundle, entityVars
  <2>3. body[b] = {}
    BY DEF SealInv, OnlyStoredBodies
  <2>4. picked[w] \subseteq created \ Abstract!Sealed
    BY <2>2 DEF SealInv, CandidatesAreFree, InNoBundle, Abstract!Sealed
  <2>5. picked[w] \in SUBSET Entities
    BY DEF SealInv, StubInv, StoreInv, TypeOK, Entities
  <2>6. Abstract!Seal(b, picked[w])
    BY <2>1, <2>2, <2>3, <2>4 DEF Abstract!Seal
  <2>7. QED
    BY <2>5, <2>6 DEF Abstract!Next, Entities
<1>3. ASSUME NEW w \in Workers, NEW kind \in {Assets, Events},
             NEW here \in {"markAssets", "markEvents"}, NEW next,
             MarkEntities(w, kind, here, next)
      PROVE  Abstract!Next
  <2> DEFINE marked == {e \in kind : stub[e] = stubId[w]}
  <2>1. AtWork(w) /\ pc[w] \in {"markAssets", "markEvents"}
    BY <1>3 DEF MarkEntities, AtWork
  <2>2. bundle[w] \in Bundles /\ body[bundle[w]] = picked[w] /\ stubId[w] # NoStub
    BY <2>1, StubAssumption DEF SealInv, StubInv, BundleOfPicked, StoreInv, TypeOK, InHand
  <2>3. marked \subseteq {e \in body[bundle[w]] : bundleOf[e] = NoBundle}
    <3>1. SUFFICES ASSUME NEW e \in marked
                   PROVE  e \in picked[w] /\ bundleOf[e] = NoBundle
      BY <2>2
    <3>2. e \in Entities /\ stub[e] # NoStub
      BY <2>2 DEF Entities
    <3>3. e \in picked[w]
      BY <2>1, <3>2, StubsAreOwn DEF SealInv
    <3>4. bundleOf[e] = NoBundle
      BY <3>2 DEF SealInv, DeliveryInv, NotYetNamed
    <3>5. QED
      BY <3>3, <3>4
  <2>4. /\ bundleOf' = [e \in Entities |-> IF e \in marked THEN bundle[w] ELSE bundleOf[e]]
        /\ UNCHANGED <<created, body, chain, proven>>
    BY <1>3 DEF MarkEntities, bundleVars
  <2>5. Abstract!Name(bundle[w], marked)
    BY <2>3, <2>4 DEF Abstract!Name, Entities
  <2>6. marked \in SUBSET Entities
    BY DEF Entities
  <2>7. QED
    BY <2>2, <2>5, <2>6 DEF Abstract!Next, Entities
<1>4. ASSUME NEW w \in Workers, pc[w] = "upload", NEW b \in waiting[w], chain' = chain \cup {b},
             UNCHANGED <<created, body, bundleOf, proven>>
      PROVE  Abstract!Next
  <2>1. b \in Bundles
    BY DEF SealInv, StubInv, StoreInv, TypeOK
  <2>2. \A e \in body[b] : bundleOf[e] = b
    BY <1>4, <2>1, AllNamed
  <2>3. Abstract!Anchor(b)
    BY <1>4, <2>2 DEF Abstract!Anchor
  <2>4. QED
    BY <2>1, <2>3 DEF Abstract!Next
<1>5. ASSUME NEW w \in Workers, NEW kind \in {Assets, Events},
             NEW here \in {"proveAssets", "proveEvents"}, NEW next,
             ProveEntities(w, kind, here, next)
      PROVE  Abstract!Next
  <2> DEFINE S == {e \in kind : bundleOf[e] = bundle[w]}
  <2>1. bundle[w] \in chain /\ bundle[w] \in Bundles
    BY <1>5 DEF ProveEntities, SealInv, StubInv, StoreInv, TypeOK, InHand
  <2>2. proven' = proven \cup S /\ UNCHANGED <<created, body, bundleOf, chain>>
    BY <1>5 DEF ProveEntities, bundleVars
  <2>3. S \in SUBSET Entities
    BY DEF Entities
  <2>4. Abstract!Prove(bundle[w], S)
    BY <2>1, <2>2 DEF Abstract!Prove, Entities
  <2>5. QED
    BY <2>1, <2>3, <2>4 DEF Abstract!Next, Entities
<1>6. ASSUME NEW w \in Workers, Upload(w) PROVE Abstract!Next
  BY <1>4, <1>6 DEF Upload, entityVars, bundleVars
<1>7. ASSUME NEW w \in Workers, UploadFails(w) PROVE AbstractStep
  BY <1>4, <1>7 DEF UploadFails, entityVars, bundleVars
<1>8. ASSUME NEW w \in Workers,
             \/ BeginWork(w) \/ LabelNext(w) \/ LabelDone(w) \/ StoreMetadata(w)
             \/ ReadCandidates(w, Assets, "readAssets", "readEvents")
             \/ ReadCandidates(w, Events, "readEvents", "label")
             \/ RejectBundle(w) \/ DiscardEvents(w) \/ FindWaiting(w)
             \/ ProveMetadata(w) \/ ProveFails(w) \/ UploadDone(w)
      PROVE  UNCHANGED Abstract!vars
  BY <1>8
     DEF BeginWork, LabelNext, LabelDone, StoreMetadata, ReadCandidates, RejectBundle,
         DiscardEvents, Discard, FindWaiting, ProveMetadata, ProveFails, UploadDone, entityVars,
         bundleVars
<1>9. CASE Expire \/ UNCHANGED vars
  BY <1>9 DEF Expire, vars, entityVars, bundleVars
<1>10. \A w \in Workers : ~Crash(w) /\ ~Throw(w)
  BY DEF Crash, Throw, Restart, SealInv, StubInv, StoreInv, TypeOK
<1>11. QED
  BY <1>1, <1>2, <1>3, <1>5, <1>6, <1>7, <1>8, <1>9, <1>10 DEF Next, Work, Failure

(* Each entity is sealed in at most one bundle, names only that one, is named   *)
(* before the bundle is anchored and proven only afterwards: EntityBundling,    *)
(* which knows no cursors, stub ids, locks or processes, allows every step of   *)
(* the rounds of work, of the clients' requests and of the failed uploads.      *)
THEOREM Implements ==
  ASSUME TTLOutlivesWork, MaxCrashes = 0
  PROVE  Spec => ImplementsEntityBundling
<1>1. Init => Abstract!Init
  BY DEF Init, Abstract!Init, Entities
<1>2. SealInv /\ [Next]_vars => [Abstract!Next]_(Abstract!vars)
  BY StepSimulation DEF AbstractStep
<1>3. QED
  BY <1>1, <1>2, SealInvariant, PTL DEF Spec, ImplementsEntityBundling, Abstract!Spec
=============================================================================
