--------------------------- MODULE HermesRestorer ---------------------------
(***************************************************************************)
(* What a Hermes node does about a lost database when it starts: it scans   *)
(* the chain for the bundles it has uploaded, compares them with the ones   *)
(* it has a document of, and downloads each missing one from an Atlas node  *)
(* that shelters it, first the metadata, then the body, then the entities.  *)
(* The Hermes worker goes on storing and uploading bundles meanwhile.       *)
(*                                                                         *)
(* Blocks hold one BundleStored event each: the n-th bundle of `anchored`   *)
(* is in block n.  Scans in several requests are in EventsCollector.        *)
(***************************************************************************)
EXTENDS Integers, SequencesExt

CONSTANTS
    Bundles, Donors,
    NoBundle, NoDonor,
    Entities,       \* assets and events clients and the node itself create
    MaxTroubles     \* bound: failed calls, and crashes of a start

ASSUME RestorerAssumption ==
    /\ NoBundle \notin Bundles
    /\ NoDonor \notin Donors
    /\ MaxTroubles \in Nat

VARIABLES
    anchored,       \* the chain: bundles with a BundleStored event of this node
    shelterers,     \* the chain: the Atlas nodes that shelter a bundle, and have its body
    content,        \* the entities a bundle is made of, once it is assembled
    entities,       \* the collections assets and events
    documents,      \* bundles with a document in bundle_metadata
    proven,         \* the ones of these documents with a bundleProofBlock
    files,          \* bundles with a body in GridFS
    wrong,          \* the ones of these bodies that are not what the bundle is made of
    unreached,      \* history: bundles none of the listed shelterers has answered for
    savedBlock,     \* lastSavedBlock in resolutions_repository
    copy,           \* the collection blockchain_bundles
    pc,
    lastSavedBlock, \* in memory
    known,          \* activeResolutionsCache
    stored,         \* storedBundlesIds
    added,          \* addedBundles that are still to be inserted into the copy
    missing,        \* bundles that are still to be restored
    bundle, donors, donor,
    entries,        \* entries of the downloaded body that are not stored yet
    awaited,        \* history: listed shelterers of `bundle` that have not failed to answer
    troubles

chainVars == <<anchored, shelterers, content>>
storeVars == <<entities, documents, proven, files, wrong, unreached>>
copyVars == <<savedBlock, copy>>
scanVars == <<lastSavedBlock, known, stored, added>>
visitVars == <<missing, bundle, donors, donor, entries, awaited>>
restorerVars == <<chainVars, storeVars, copyVars, pc, scanVars, visitVars, troubles>>

Scanning == {"load", "list", "scan", "saveBlock", "insert", "compare"}
Visiting == {"next", "donor", "metadata", "download", "parse", "isStored", "storeBody",
             "entries"}

RestorerTypeOK ==
    /\ anchored \in Seq(Bundles)
    /\ shelterers \in [Bundles -> SUBSET Donors]
    /\ content \in [Bundles -> SUBSET Entities]
    /\ entities \subseteq Entities
    /\ proven \subseteq documents /\ documents \subseteq Bundles
    /\ wrong \subseteq files /\ files \subseteq Bundles
    /\ unreached \subseteq documents
    /\ {savedBlock, lastSavedBlock} \subseteq 0..Len(anchored)
    /\ copy \subseteq ToSet(anchored)
    /\ known \subseteq ToSet(anchored)
    /\ stored \subseteq Bundles
    /\ ToSet(added) \subseteq known
    /\ missing \subseteq known
    /\ bundle \in known \cup {NoBundle}
    /\ donors \subseteq Donors
    /\ donor \in donors \cup {NoDonor}
    /\ entries \subseteq Entities
    /\ awaited \subseteq Donors
    /\ pc \in Visiting => (bundle = NoBundle <=> pc = "next")
    /\ troubles \in 0..MaxTroubles

RestorerInit ==
    /\ anchored = <<>>
    /\ shelterers = [b \in Bundles |-> {}]
    /\ content = [b \in Bundles |-> {}]
    /\ entities = {}
    /\ documents = {}
    /\ proven = {}
    /\ files = {}
    /\ wrong = {}
    /\ unreached = {}
    /\ savedBlock = 0
    /\ copy = {}
    /\ pc = "load"
    /\ lastSavedBlock = 0
    /\ known = {}
    /\ stored = {}
    /\ added = <<>>
    /\ missing = {}
    /\ bundle = NoBundle
    /\ donors = {}
    /\ donor = NoDonor
    /\ entries = {}
    /\ awaited = {}
    /\ troubles = 0

Assembled == {b \in Bundles : content[b] # {}}
Unbundled == entities \ UNION {content[b] : b \in Assembled}

-----------------------------------------------------------------------------
(* The worker, the chain and the Atlas nodes, while the node starts and after it *)

\* prepareBundleCandidate and acceptBundleCandidate: HermesBundling has the detail.
StoreNewBundle(b) ==
    /\ b \notin Assembled
    /\ Unbundled # {}
    /\ content' = [content EXCEPT ![b] = Unbundled]
    /\ files' = files \cup {b}
    /\ documents' = documents \cup {b}
    /\ UNCHANGED <<anchored, shelterers, entities, proven, wrong, unreached, copyVars, pc, scanVars,
                   visitVars, troubles>>

\* uploadAcceptedBundleCandidates of one document: a bundle the chain has is not
\* registered again (ensureBundleIsUploaded), its proof is only copied.
UploadBundle(b) ==
    /\ b \in documents \ proven
    /\ IF b \in ToSet(anchored)
         THEN UNCHANGED anchored
         ELSE /\ b \in files
              /\ anchored' = Append(anchored, b)
    /\ proven' = proven \cup {b}
    /\ UNCHANGED <<shelterers, content, entities, documents, files, wrong, unreached, copyVars, pc,
                   scanVars, visitVars, troubles>>

\* An Atlas node gets the body from this node or from another Atlas node.
Shelter(b, d) ==
    /\ b \in ToSet(anchored)
    /\ b \in files \/ shelterers[b] # {}
    /\ d \notin shelterers[b]
    /\ shelterers' = [shelterers EXCEPT ![b] = @ \cup {d}]
    /\ UNCHANGED <<anchored, content, storeVars, copyVars, pc, scanVars, visitVars, troubles>>

-----------------------------------------------------------------------------
(* restore(): the bundles of the chain and the ones of the database *)

Goto(next) == pc' = next
Trouble == troubles < MaxTroubles /\ troubles' = troubles + 1

\* hermesBundlesRepository.load: a failure is logged, and the scan begins at block 0, or
\* behind the saved block and with no bundle in memory if only the copy cannot be read.
Load ==
    /\ pc = "load"
    /\ \/ /\ lastSavedBlock' = savedBlock
          /\ known' = IF savedBlock > 0 THEN copy ELSE {}
          /\ UNCHANGED troubles
       \/ /\ Trouble
          /\ lastSavedBlock' \in {lastSavedBlock, savedBlock}
          /\ UNCHANGED known
    /\ Goto("list")
    /\ UNCHANGED <<chainVars, storeVars, copyVars, stored, added, visitVars>>

GetHermesBundles ==
    /\ pc = "list"
    /\ stored' = documents
    /\ Goto("scan")
    /\ UNCHANGED <<chainVars, storeVars, copyVars, lastSavedBlock, known, added, visitVars, troubles>>

\* ongoingResolutions: the events of the blocks that came since.
Scan ==
    /\ pc = "scan"
    /\ IF lastSavedBlock = Len(anchored)
         THEN /\ Goto("compare")
              /\ UNCHANGED <<added, known, lastSavedBlock>>
         ELSE /\ added' = SubSeq(anchored, lastSavedBlock + 1, Len(anchored))
              /\ known' = known \cup ToSet(added')
              /\ lastSavedBlock' = Len(anchored)
              /\ Goto("saveBlock")
    /\ UNCHANGED <<chainVars, storeVars, copyVars, stored, visitVars, troubles>>

\* The saved block is written before the bundles that were found up to it; one failure
\* ends the writing and is logged.
SaveBlock ==
    /\ pc = "saveBlock"
    /\ savedBlock' = lastSavedBlock
    /\ Goto("insert")
    /\ UNCHANGED <<chainVars, storeVars, copy, scanVars, visitVars, troubles>>

InsertOne ==
    /\ pc = "insert"
    /\ IF added = <<>>
         THEN /\ Goto("compare")
              /\ UNCHANGED <<copy, added>>
         ELSE /\ copy' = copy \cup {Head(added)}
              /\ added' = Tail(added)
              /\ UNCHANGED pc
    /\ UNCHANGED <<chainVars, storeVars, savedBlock, lastSavedBlock, known, stored, visitVars, troubles>>

SaveFails ==
    /\ pc \in {"saveBlock", "insert"}
    /\ Trouble
    /\ added' = <<>>
    /\ Goto("compare")
    /\ UNCHANGED <<chainVars, storeVars, copyVars, lastSavedBlock, known, stored, visitVars>>

Compare ==
    /\ pc = "compare"
    /\ missing' = known \ stored
    /\ Goto("next")
    /\ UNCHANGED <<chainVars, storeVars, copyVars, scanVars, bundle, donors, donor, entries, awaited,
                   troubles>>

-----------------------------------------------------------------------------
(* restore(): one missing bundle after the other, one donor after the other *)

\* shelteringExpirationDate and getBundleDonors.  A bundle of the list has no field
\* `shelterer`, so nobody is taken out of the donors.
NextBundle ==
    /\ pc = "next"
    /\ \E b \in missing :
        /\ missing' = missing \ {b}
        /\ \/ /\ shelterers[b] # {}
              /\ bundle' = b
              /\ donors' = shelterers[b]
              /\ awaited' = shelterers[b]
              /\ Goto("donor")
              /\ UNCHANGED troubles
           \/ /\ \/ shelterers[b] = {} /\ UNCHANGED troubles
                 \/ Trouble
              /\ UNCHANGED <<bundle, donors, awaited, pc>>
    /\ UNCHANGED <<chainVars, storeVars, copyVars, scanVars, donor, entries>>

\* Mutant: the bundle and its donors are kept for the next round of the loop.
KeepBundle == UNCHANGED <<bundle, donors, donor, entries, awaited>> /\ Goto("next")

EndOfBundle ==
    /\ bundle' = NoBundle
    /\ donors' = {}
    /\ donor' = NoDonor
    /\ entries' = {}
    /\ awaited' = {}
    /\ Goto("next")

ChooseDonor ==
    /\ pc = "donor"
    /\ IF donors = {}
         THEN EndOfBundle
         ELSE /\ donor' \in donors
              /\ Goto("metadata")
              /\ UNCHANGED <<bundle, donors, entries, awaited>>
    /\ UNCHANGED <<chainVars, storeVars, copyVars, scanVars, missing, troubles>>

\* downloadBundleHermes: the document comes before the download.
CreateBundleMetadata ==
    /\ pc = "metadata"
    /\ documents' = documents \cup {bundle}
    /\ Goto("download")
    /\ UNCHANGED <<chainVars, entities, proven, files, wrong, unreached, copyVars, scanVars,
                   visitVars, troubles>>

\* The body of an answer is not validated: it is the bundle's, or has other entries.
\* Bound: the other entries are entities of bundles.
DownloadBundle ==
    /\ pc = "download"
    /\ entries' \in SUBSET UNION {content[b] : b \in Bundles}
    /\ Goto("parse")
    /\ UNCHANGED <<chainVars, storeVars, copyVars, scanVars, missing, bundle, donors, donor, awaited,
                   troubles>>

\* parseBundle
Delete ==
    /\ pc = "parse"
    /\ copy' = copy \ {bundle}
    /\ Goto("isStored")
    /\ UNCHANGED <<chainVars, storeVars, savedBlock, scanVars, visitVars, troubles>>

IsBundleStored ==
    /\ pc = "isStored"
    /\ IF bundle \in files
         THEN EndOfBundle
         ELSE Goto("storeBody") /\ UNCHANGED <<bundle, donors, donor, entries, awaited>>
    /\ UNCHANGED <<chainVars, storeVars, copyVars, scanVars, missing, troubles>>

StoreBundle ==
    /\ pc = "storeBody"
    /\ files' = files \cup {bundle}
    /\ wrong' = IF entries = content[bundle] THEN wrong ELSE wrong \cup {bundle}
    /\ Goto("entries")
    /\ UNCHANGED <<chainVars, entities, documents, proven, unreached, copyVars, scanVars, visitVars,
                   troubles>>

\* Mutant: storing an entry ends the loop over the entries.
ParseOneEntry ==
    /\ pc = "entries"
    /\ \E e \in entries : entities' = entities \cup {e}
    /\ EndOfBundle
    /\ UNCHANGED <<chainVars, documents, proven, files, wrong, unreached, copyVars, scanVars, missing,
                   troubles>>

\* parseAsset and parseEvent: an entity that is there already is left alone.
ParseEntry ==
    /\ pc = "entries"
    /\ IF entries = {}
         THEN EndOfBundle /\ UNCHANGED entities
         ELSE \E e \in entries :
                /\ entities' = entities \cup {e}
                /\ entries' = entries \ {e}
                /\ UNCHANGED <<pc, bundle, donors, donor, awaited>>
    /\ UNCHANGED <<chainVars, documents, proven, files, wrong, unreached, copyVars, scanVars, missing,
                   troubles>>

\* The attempt throws: the next donor is tried, from the document on.
TryNextDonor ==
    /\ donors' = donors \ {donor}
    /\ donor' = NoDonor
    /\ entries' = {}
    /\ Goto("donor")
    /\ UNCHANGED <<bundle, entities, documents, proven, files, wrong>>

Forsaken ==
    /\ awaited' = awaited \ {donor}
    /\ unreached' = IF awaited' = {} THEN unreached \cup {bundle} ELSE unreached

\* Mutant: the bundle is given up with the first donor that does not answer.
GiveUp ==
    /\ pc = "download"
    /\ unreached' = IF awaited = {donor} THEN unreached \cup {bundle} ELSE unreached
    /\ EndOfBundle
    /\ UNCHANGED <<chainVars, entities, documents, proven, files, wrong, copyVars, scanVars, missing,
                   troubles>>

\* A donor that is down, late or without the body, whatever it will answer another time.
DonorDoesNotAnswer ==
    /\ pc = "download"
    /\ TryNextDonor
    /\ Forsaken
    /\ UNCHANGED <<chainVars, copyVars, scanVars, missing, troubles>>

\* An entry of a wrong body that is no asset or event cannot be stored.
EntryIsRefused ==
    /\ pc = "entries" /\ bundle \in wrong
    /\ TryNextDonor
    /\ UNCHANGED <<chainVars, unreached, copyVars, scanVars, missing, awaited, troubles>>

\* Any other call of the attempt fails.
AttemptFails ==
    /\ pc \in Visiting \ {"next", "donor"}
    /\ Trouble
    /\ TryNextDonor
    /\ UNCHANGED <<chainVars, unreached, copyVars, scanVars, missing, awaited>>

RestoreBundles ==
    \/ Load \/ GetHermesBundles \/ Scan \/ SaveBlock \/ InsertOne \/ SaveFails \/ Compare
    \/ NextBundle \/ ChooseDonor \/ CreateBundleMetadata \/ DownloadBundle \/ Delete
    \/ IsBundleStored \/ StoreBundle \/ ParseEntry \/ DonorDoesNotAnswer
    \/ EntryIsRefused \/ AttemptFails

Surroundings ==
    \E b \in Bundles : StoreNewBundle(b) \/ UploadBundle(b) \/ \E d \in Donors : Shelter(b, d)

-----------------------------------------------------------------------------
\* A process that starts again has nothing in memory.
StartAgain ==
    /\ Goto("load")
    /\ lastSavedBlock' = 0
    /\ known' = {}
    /\ stored' = {}
    /\ added' = <<>>
    /\ missing' = {}
    /\ bundle' = NoBundle
    /\ donors' = {}
    /\ donor' = NoDonor
    /\ entries' = {}
    /\ awaited' = {}

EmptyDatabase ==
    /\ entities' = {}
    /\ documents' = {}
    /\ proven' = {}
    /\ files' = {}
    /\ wrong' = {}
    /\ unreached' = {}
    /\ savedBlock' = 0
    /\ copy' = {}
=============================================================================
