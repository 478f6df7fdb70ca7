--------------------------- MODULE HermesBundling ---------------------------
(***************************************************************************)
(* Bundling on a Hermes node.  API requests store assets and events; the    *)
(* worker processes collect the ones that are in no bundle, label them      *)
(* with a stub id, assemble and store a bundle of them, label them with     *)
(* its id, register the bundle on the chain and copy the proof back to the  *)
(* entities and to the bundle's metadata.                                   *)
(*                                                                         *)
(* Every await of the code on the database or on the chain ends an action,  *)
(* so API requests, other workers, crashes and the TTL monitor come between *)
(* any two of them.                                                        *)
(***************************************************************************)
EXTENDS WorkerTasks, Naturals, FiniteSets

CONSTANTS
    Assets, Events,      \* entities a client may create
    AssetOf,             \* the asset an event is about
    Timestamp,           \* content.idData.timestamp, chosen by the client
    Bundles, NoBundle,   \* bundle ids: hashes of the bundles assembled
    NoStub,              \* repository.bundleStubId is not set
    ItemsLimit,          \* bundleItemsCountLimit of the chain's configuration
    MinItems,            \* WORKER_MINIMUM_ITEMS
    MaxSeq,              \* bound: sequence numbers from MaxSeq on are identified
    MaxCrashes,          \* bound: number of process exits
    TTLOutlivesWork      \* no round of work lasts longer than workerTasksTTLInSeconds

Entities == Assets \cup Events

ASSUME EntityAssumption ==
    /\ Assets \cap Events = {}
    /\ AssetOf \in [Events -> Assets]
    /\ Timestamp \in [Entities -> Nat]
ASSUME BundleAssumption == NoBundle \notin Bundles
ASSUME StubAssumption == NoStub \notin Nat
ASSUME NumberAssumption ==
    /\ ItemsLimit \in Nat
    /\ MinItems \in Nat
    /\ MaxSeq \in Nat
    /\ MaxCrashes \in Nat
    /\ TTLOutlivesWork \in BOOLEAN

VARIABLES
    created,    \* entities in the collections assets and events
    stub,       \* their repository.bundleStubId
    bundleOf,   \* their metadata.bundleId
    proven,     \* the ones whose metadata has bundleProofBlock
    files,      \* bundles whose body is in GridFS
    body,       \* content.entries of those bodies
    meta,       \* bundles with a document in bundle_metadata
    metaProof,  \* the ones of these documents that have bundleProofBlock
    chain,      \* bundles registered on the chain by this node
    pc,         \* where each worker is in periodicWork
    seq,        \* bundleSequenceNumber, in the memory of each worker
    stubId,     \* the number its current round uses
    cursor,     \* entities its two cursors still have to return
    picked,     \* entities its round has labelled with stubId
    bundle,     \* the bundle it is storing or uploading
    waiting,    \* bundles left in its loop over those waiting for upload
    crashes     \* process exits so far

entityVars == <<created, stub, bundleOf, proven>>
bundleVars == <<files, body, meta, metaProof>>
localVars == <<seq, stubId, cursor, picked, bundle, waiting>>
vars == <<task, entityVars, bundleVars, chain, pc, localVars, crashes>>

-----------------------------------------------------------------------------
TypeOK ==
    /\ TaskTypeOK
    /\ created \subseteq Entities
    /\ stub \in [Entities -> Nat \cup {NoStub}]
    /\ bundleOf \in [Entities -> Bundles \cup {NoBundle}]
    /\ proven \subseteq Entities
    /\ files \subseteq Bundles
    /\ body \in [Bundles -> SUBSET Entities]
    /\ meta \subseteq Bundles
    /\ metaProof \subseteq Bundles
    /\ chain \subseteq Bundles
    /\ pc \in [Workers -> {"idle", "readAssets", "readEvents", "label", "decide",
                           "storeMetadata", "markAssets", "markEvents",
                           "discardEvents", "findWaiting", "upload",
                           "proveAssets", "proveEvents", "proveMetadata"}]
    /\ seq \in [Workers -> Nat]
    /\ stubId \in [Workers -> Nat]
    /\ cursor \in [Workers -> SUBSET Entities]
    /\ picked \in [Workers -> SUBSET Entities]
    /\ bundle \in [Workers -> Bundles \cup {NoBundle}]
    /\ waiting \in [Workers -> SUBSET Bundles]
    /\ crashes \in Nat

Init ==
    /\ task = NoWorker
    /\ created = {}
    /\ stub = [e \in Entities |-> NoStub]
    /\ bundleOf = [e \in Entities |-> NoBundle]
    /\ proven = {}
    /\ files = {}
    /\ body = [b \in Bundles |-> {}]
    /\ meta = {}
    /\ metaProof = {}
    /\ chain = {}
    /\ pc = [w \in Workers |-> "idle"]
    /\ seq = [w \in Workers |-> 0]
    /\ stubId = [w \in Workers |-> 0]
    /\ cursor = [w \in Workers |-> {}]
    /\ picked = [w \in Workers |-> {}]
    /\ bundle = [w \in Workers |-> NoBundle]
    /\ waiting = [w \in Workers |-> {}]
    /\ crashes = 0

Goto(w, next) == pc' = [pc EXCEPT ![w] = next]

AtWork(w) == pc[w] # "idle"

-----------------------------------------------------------------------------
(* The API *)

\* An authorised request whose entity passed validation.  The existence check
\* and the insert are two calls; the unique index on the id makes them one.
CreateAsset(a) ==
    /\ a \notin created
    /\ created' = created \cup {a}
    /\ UNCHANGED <<task, stub, bundleOf, proven, bundleVars, chain, pc, localVars, crashes>>

CreateEvent(v) ==
    /\ AssetOf[v] \in created
    /\ v \notin created
    /\ created' = created \cup {v}
    /\ UNCHANGED <<task, stub, bundleOf, proven, bundleVars, chain, pc, localVars, crashes>>

-----------------------------------------------------------------------------
(* periodicWork: the lock, and the choice of a sequence number *)

NextSeq(n) == IF n < MaxSeq THEN n + 1 ELSE MaxSeq

BeginWork(w) ==
    /\ pc[w] = "idle"
    /\ TryToBeginWork(w)
    /\ stubId' = [stubId EXCEPT ![w] = seq[w]]
    /\ seq' = [seq EXCEPT ![w] = NextSeq(seq[w])]
    /\ Goto(w, "readAssets")
    /\ UNCHANGED <<entityVars, bundleVars, chain, cursor, picked, bundle, waiting, crashes>>

-----------------------------------------------------------------------------
(* prepareBundleCandidate *)

\* Mutant: the query forgets that metadata.bundleId must be null.
NotBundledOnceMore(kind) == {e \in created \cap kind : stub[e] = NoStub}

NotBundled(kind) ==
    {e \in created \cap kind : stub[e] = NoStub /\ bundleOf[e] = NoBundle}

\* The first batch of each cursor is read when next() is first called on it.
ReadCandidates(w, kind, here, next) ==
    /\ pc[w] = here
    /\ cursor' = [cursor EXCEPT ![w] = @ \cup NotBundled(kind)]
    /\ Goto(w, next)
    /\ UNCHANGED <<task, entityVars, bundleVars, chain, seq, stubId, picked, bundle,
                   waiting, crashes>>

\* selectEntityForBundling over two cursors sorted by timestamp: an asset goes
\* before an event of the same time.  (The ids, which order entities of one
\* kind and time, are abstracted: any of them may come first.)
GoesBefore(e, f) ==
    \/ Timestamp[e] < Timestamp[f]
    \/ Timestamp[e] = Timestamp[f] /\ e \in Assets /\ f \in Events

LimitReached(w) == Cardinality(picked[w]) >= ItemsLimit

LabelNext(w) ==
    /\ pc[w] = "label"
    /\ ~LimitReached(w)
    /\ \E e \in cursor[w] :
          /\ \A f \in cursor[w] : ~GoesBefore(f, e)
          /\ stub' = [stub EXCEPT ![e] = stubId[w]]
          /\ cursor' = [cursor EXCEPT ![w] = @ \ {e}]
          /\ picked' = [picked EXCEPT ![w] = @ \cup {e}]
    /\ UNCHANGED <<task, created, bundleOf, proven, bundleVars, chain, pc, seq, stubId,
                   bundle, waiting, crashes>>

LabelDone(w) ==
    /\ pc[w] = "label"
    /\ cursor[w] = {} \/ LimitReached(w)
    /\ cursor' = [cursor EXCEPT ![w] = {}]
    /\ Goto(w, "decide")
    /\ UNCHANGED <<task, entityVars, bundleVars, chain, seq, stubId, picked, bundle,
                   waiting, crashes>>

-----------------------------------------------------------------------------
(* acceptBundleCandidate: store the body, then the metadata, then label the  *)
(* entities that carry the stub id, assets and then events                   *)

ShouldBundle(w) == Cardinality(picked[w]) >= MinItems

\* The id hashes the entries and the time, so it is new with every bundle.
AcceptBundle(w) ==
    /\ pc[w] = "decide"
    /\ ShouldBundle(w)
    /\ \E b \in Bundles \ files :
          /\ files' = files \cup {b}
          /\ body' = [body EXCEPT ![b] = picked[w]]
          /\ bundle' = [bundle EXCEPT ![w] = b]
    /\ Goto(w, "storeMetadata")
    /\ UNCHANGED <<task, entityVars, meta, metaProof, chain, seq, stubId, cursor, picked,
                   waiting, crashes>>

StoreMetadata(w) ==
    /\ pc[w] = "storeMetadata"
    /\ meta' = meta \cup {bundle[w]}
    /\ Goto(w, "markAssets")
    /\ UNCHANGED <<task, entityVars, files, body, metaProof, chain, localVars, crashes>>

\* Mutant: the query looks for entities without a bundle, not for the stub id.
MarkEveryEntity(w, kind, here, next) ==
    /\ pc[w] = here
    /\ LET marked == {e \in created \cap kind : bundleOf[e] = NoBundle} IN
          /\ bundleOf' = [e \in Entities |-> IF e \in marked THEN bundle[w] ELSE bundleOf[e]]
          /\ stub' = [e \in Entities |-> IF e \in marked THEN NoStub ELSE stub[e]]
    /\ Goto(w, next)
    /\ UNCHANGED <<task, created, proven, bundleVars, chain, localVars, crashes>>

MarkEntities(w, kind, here, next) ==
    /\ pc[w] = here
    /\ LET marked == {e \in kind : stub[e] = stubId[w]} IN
          /\ bundleOf' = [e \in Entities |-> IF e \in marked THEN bundle[w] ELSE bundleOf[e]]
          /\ stub' = [e \in Entities |-> IF e \in marked THEN NoStub ELSE stub[e]]
    /\ Goto(w, next)
    /\ UNCHANGED <<task, created, proven, bundleVars, chain, localVars, crashes>>

-----------------------------------------------------------------------------
(* rejectBundleCandidate: discardBundling of assets and then of events *)

Discard(w, kind, next) ==
    /\ stub' = [e \in Entities |->
                  IF e \in kind /\ stub[e] = stubId[w] THEN NoStub ELSE stub[e]]
    /\ Goto(w, next)
    /\ UNCHANGED <<task, created, bundleOf, proven, bundleVars, chain, localVars, crashes>>

\* Mutant: discardBundling updates the events only.
RejectEventsOnly(w) ==
    /\ pc[w] = "decide"
    /\ ~ShouldBundle(w)
    /\ Discard(w, {}, "discardEvents")

RejectBundle(w) ==
    /\ pc[w] = "decide"
    /\ ~ShouldBundle(w)
    /\ Discard(w, Assets, "discardEvents")

DiscardEvents(w) ==
    /\ pc[w] = "discardEvents"
    /\ Discard(w, Events, "findWaiting")

-----------------------------------------------------------------------------
(* uploadAcceptedBundleCandidates *)

\* Mutants: only the bundle of this round is uploaded; every stored body is.
FindNewest(w) ==
    /\ pc[w] = "findWaiting"
    /\ waiting' = [waiting EXCEPT ![w] = {bundle[w]} \ {NoBundle}]
    /\ picked' = [picked EXCEPT ![w] = {}]
    /\ bundle' = [bundle EXCEPT ![w] = NoBundle]
    /\ Goto(w, "upload")
    /\ UNCHANGED <<task, entityVars, bundleVars, chain, seq, stubId, cursor, crashes>>

FindStoredBodies(w) ==
    /\ pc[w] = "findWaiting"
    /\ waiting' = [waiting EXCEPT ![w] = files \ metaProof]
    /\ picked' = [picked EXCEPT ![w] = {}]
    /\ bundle' = [bundle EXCEPT ![w] = NoBundle]
    /\ Goto(w, "upload")
    /\ UNCHANGED <<task, entityVars, bundleVars, chain, seq, stubId, cursor, crashes>>

FindWaiting(w) ==
    /\ pc[w] = "findWaiting"
    /\ waiting' = [waiting EXCEPT ![w] = meta \ metaProof]
    /\ picked' = [picked EXCEPT ![w] = {}]
    /\ bundle' = [bundle EXCEPT ![w] = NoBundle]
    /\ Goto(w, "upload")
    /\ UNCHANGED <<task, entityVars, bundleVars, chain, seq, stubId, cursor, crashes>>

\* Mutants: the proof of the bundle before is written; the receipt is not awaited.
UploadStale(w) ==
    /\ pc[w] = "upload"
    /\ \E b \in waiting[w] :
          /\ chain' = chain \cup {b}
          /\ waiting' = [waiting EXCEPT ![w] = @ \ {b}]
    /\ Goto(w, "proveAssets")
    /\ UNCHANGED <<task, entityVars, bundleVars, seq, stubId, cursor, picked, bundle, crashes>>

UploadNotAwaited(w) ==
    /\ pc[w] = "upload"
    /\ \E b \in waiting[w] :
          /\ chain' \in {chain, chain \cup {b}}
          /\ bundle' = [bundle EXCEPT ![w] = b]
          /\ waiting' = [waiting EXCEPT ![w] = @ \ {b}]
    /\ Goto(w, "proveAssets")
    /\ UNCHANGED <<task, entityVars, bundleVars, seq, stubId, cursor, picked, crashes>>

\* ensureBundleIsUploaded: registers the bundle, or finds this node's own
\* registration and reads its block and transaction back.
Upload(w) ==
    /\ pc[w] = "upload"
    /\ \E b \in waiting[w] :
          /\ chain' = chain \cup {b}
          /\ bundle' = [bundle EXCEPT ![w] = b]
          /\ waiting' = [waiting EXCEPT ![w] = @ \ {b}]
    /\ Goto(w, "proveAssets")
    /\ UNCHANGED <<task, entityVars, bundleVars, seq, stubId, cursor, picked, crashes>>

EndOfRound(w) ==
    /\ FinishWork(w)
    /\ waiting' = [waiting EXCEPT ![w] = {}]
    /\ bundle' = [bundle EXCEPT ![w] = NoBundle]
    /\ Goto(w, "idle")
    /\ UNCHANGED <<seq, stubId, cursor, picked, crashes>>

\* The upload throws: fail() is called and the loop is left.  The transaction
\* may have reached the chain although the answer was lost.
UploadFails(w) ==
    /\ pc[w] = "upload"
    /\ \E b \in waiting[w] : chain' \in {chain, chain \cup {b}}
    /\ EndOfRound(w)
    /\ UNCHANGED <<entityVars, bundleVars>>

\* Mutant: every bundled entity gets the proof.
ProveAnyBundled(w, kind, here, next) ==
    /\ pc[w] = here
    /\ proven' = proven \cup {e \in kind : bundleOf[e] # NoBundle}
    /\ Goto(w, next)
    /\ UNCHANGED <<task, created, stub, bundleOf, bundleVars, chain, localVars, crashes>>

ProveEntities(w, kind, here, next) ==
    /\ pc[w] = here
    /\ proven' = proven \cup {e \in kind : bundleOf[e] = bundle[w]}
    /\ Goto(w, next)
    /\ UNCHANGED <<task, created, stub, bundleOf, bundleVars, chain, localVars, crashes>>

ProveMetadata(w) ==
    /\ pc[w] = "proveMetadata"
    /\ metaProof' = metaProof \cup {bundle[w]}
    /\ Goto(w, "upload")
    /\ UNCHANGED <<task, entityVars, files, body, meta, chain, localVars, crashes>>

\* Mutant: an error of the update of the entities is swallowed.
ProveGoesOn(w) ==
    /\ pc[w] \in {"proveAssets", "proveEvents"}
    /\ Goto(w, "proveMetadata")
    /\ UNCHANGED <<task, entityVars, bundleVars, chain, localVars, crashes>>

\* One of the three updates throws inside the try block of the loop.
ProveFails(w) ==
    /\ pc[w] \in {"proveAssets", "proveEvents", "proveMetadata"}
    /\ EndOfRound(w)
    /\ UNCHANGED <<entityVars, bundleVars, chain>>

UploadDone(w) ==
    /\ pc[w] = "upload"
    /\ waiting[w] = {}
    /\ EndOfRound(w)
    /\ UNCHANGED <<entityVars, bundleVars, chain>>

-----------------------------------------------------------------------------
(* Failures *)

\* The process is started again: its memory is gone, the counter is 0.
Restart(w) ==
    /\ crashes < MaxCrashes
    /\ crashes' = crashes + 1
    /\ pc' = [pc EXCEPT ![w] = "idle"]
    /\ seq' = [seq EXCEPT ![w] = 0]
    /\ stubId' = [stubId EXCEPT ![w] = 0]
    /\ cursor' = [cursor EXCEPT ![w] = {}]
    /\ picked' = [picked EXCEPT ![w] = {}]
    /\ bundle' = [bundle EXCEPT ![w] = NoBundle]
    /\ waiting' = [waiting EXCEPT ![w] = {}]
    /\ UNCHANGED <<entityVars, bundleVars, chain>>

\* The process is killed; its document in workerTasks stays.
Crash(w) ==
    /\ Restart(w)
    /\ UNCHANGED task

\* A call outside the loop's try block throws, or the log that its catch block
\* writes: finally runs finishWork, and the unhandled rejection makes the process
\* exit.
Throw(w) ==
    /\ AtWork(w)
    /\ FinishWork(w)
    /\ Restart(w)

\* The TTL index drops a document left by a process that died or, unless the
\* TTL outlives every round of work, one of a process still at work.
Expire ==
    /\ ExpireTask
    /\ TTLOutlivesWork => pc[task] = "idle"
    /\ UNCHANGED <<entityVars, bundleVars, chain, pc, localVars, crashes>>

-----------------------------------------------------------------------------
Work(w) ==
    \/ BeginWork(w)
    \/ ReadCandidates(w, Assets, "readAssets", "readEvents")
    \/ ReadCandidates(w, Events, "readEvents", "label")
    \/ LabelNext(w)
    \/ LabelDone(w)
    \/ AcceptBundle(w)
    \/ StoreMetadata(w)
    \/ MarkEntities(w, Assets, "markAssets", "markEvents")
    \/ MarkEntities(w, Events, "markEvents", "findWaiting")
    \/ RejectBundle(w)
    \/ DiscardEvents(w)
    \/ FindWaiting(w)
    \/ Upload(w)
    \/ ProveEntities(w, Assets, "proveAssets", "proveEvents")
    \/ ProveEntities(w, Events, "proveEvents", "proveMetadata")
    \/ ProveMetadata(w)
    \/ UploadDone(w)

Failure(w) == UploadFails(w) \/ ProveFails(w) \/ Crash(w) \/ Throw(w)

Create == (\E a \in Assets : CreateAsset(a)) \/ (\E v \in Events : CreateEvent(v))

Next ==
    \/ Create
    \/ \E w \in Workers : Work(w) \/ Failure(w)
    \/ Expire

Spec == Init /\ [][Next]_vars

-----------------------------------------------------------------------------
(* Properties *)

\* While no round outlives the TTL, two processes never work at the same time,
\* crashed and restarted ones included (the lock of tryToBeginWork).
OneWorkerAtATime ==
    \A w, x \in Workers : AtWork(w) /\ AtWork(x) => w = x

\* An entity whose metadata names a bundle is an entry of that bundle: the set
\* markEntitiesAsBundled finds by stub id is the set the bundle was built from.
NamedByItsOwnBundle ==
    \A e \in Entities : bundleOf[e] # NoBundle => e \in body[bundleOf[e]]

\* A stub id left on an entity would hide it from every later round.
NoStrandedStub ==
    (\A w \in Workers : ~AtWork(w)) => \A e \in Entities : stub[e] = NoStub

\* A bundle goes to the chain only when its metadata is stored, its metadata is
\* stored only when its body can be served, and its metadata has a proof only
\* when it is on the chain, wherever processes crash and however late they are.
StoredBeforeAnchored ==
    metaProof \subseteq chain /\ chain \subseteq meta /\ meta \subseteq files

\* An entity carries a proof only when the bundle its metadata names is on the
\* chain: marking, done with the crash or without, never follows the proof.
ProofsAreAnchored == \A e \in proven : bundleOf[e] \in chain

\* Once the metadata of a bundle has its proof the bundle is never visited
\* again, so each entity that names it must already have the proof.
ProofReachedEntities ==
    \A e \in Entities : bundleOf[e] \in metaProof => e \in proven

\* The bundle an entity's metadata names never changes.
BundleIsPermanent ==
    [][\A e \in Entities : bundleOf[e] # NoBundle => bundleOf'[e] = bundleOf[e]]_vars

\* Entities outside the bundle are left untouched when a bundle is accepted:
\* an entity that gets a bundle id was among the ones this round picked.
OthersLeftUntouched ==
    [][\A e \in Entities : bundleOf'[e] # bundleOf[e] => e \in body[bundleOf'[e]]]_vars

-----------------------------------------------------------------------------
(* The abstract specification it implements (no crash, no overrun) *)

Abstract == INSTANCE EntityBundling WITH contents <- body, anchored <- chain

ImplementsEntityBundling == Abstract!Spec

-----------------------------------------------------------------------------
(* Liveness.  The event loop of a worker never stops calling periodicWork;   *)
(* an upload, or an update of the proof, that is tried again and again        *)
(* succeeds at last.                                                         *)

Fairness ==
    \A w \in Workers :
        /\ WF_vars(Work(w))
        /\ SF_vars(Upload(w))
        /\ SF_vars(ProveEntities(w, Assets, "proveAssets", "proveEvents"))
        /\ SF_vars(ProveEntities(w, Events, "proveEvents", "proveMetadata"))
        /\ SF_vars(ProveMetadata(w))

FairSpec == Spec /\ Fairness

\* Entities never wait for ever once there are enough for a bundle: again and again
\* fewer than MinItems of the accepted ones are without a proof.
BacklogIsProven == []<>(Cardinality(created \ proven) < MinItems)
=============================================================================
