------------------------ MODULE AtlasShelteringProofs ------------------------
(***************************************************************************)
(* Theorems about AtlasSheltering for every number of propositions, bundles, *)
(* donors, files and restarts, with streams that end late and loops as slow   *)
(* as they like; the last part is about bundles outside of Disturbances.       *)
(***************************************************************************)
EXTENDS AtlasSheltering, TLAPS

Quality == {"good", "bad", "late"}

\* The files of a name that a cleanup has counted are still there: only the
\* cleanup deletes, and downloads add.
CountedFilesAreThere ==
    cpc \in {"file", "entities"} => filesLeft <= Len(files[victim])

\* What is neither unknown, nor removed, nor to be removed has a time until which it
\* is held, which findOutdatedBundles looks at.
HeldForATime ==
    \A b \in Bundles :
        status[b] \in {"SHELTERING_CANDIDATE", "DOWNLOADED", "SHELTERED"} => hold[b] # NoHold

\* TypeOK in four parts, of which an action changes one or two.
ChainTypeOK ==
    /\ now \in 1 .. MaxTime
    /\ open \subseteq Propositions
    /\ ours \subseteq Bundles
    /\ restarts \in 0 .. MaxRestarts

StoreTypeOK ==
    /\ status \in [Bundles -> {"absent", "SHELTERING_CANDIDATE", "DOWNLOADED", "SHELTERED",
                               "CLEANUP", "EXPENDABLE"}]
    /\ hold \in [Bundles -> 0 .. NoHold]
    /\ unpacked \subseteq Bundles
    /\ HeldForATime

ActorTypeOK ==
    /\ failed \subseteq Propositions
    /\ toRestore \subseteq Bundles
    /\ pc \in [Actors -> {"idle", "check", "create", "body", "invalid", "downloaded",
                          "resolve", "mark", "unpack", "failing", "lost"}]
    /\ target \in [Actors -> Bundles]
    /\ donors \in [Actors -> 0 .. MaxDonors]
    /\ prop \in Propositions

CleanupTypeOK ==
    /\ files \in [Bundles -> Seq(Quality)]
    /\ streams \in [Bundles -> Nat]
    /\ cpc \in {"idle", "find", "next", "file", "entities", "expend"}
    /\ victims \subseteq Bundles
    /\ victim \in Bundles
    /\ filesLeft \in Nat
    /\ CountedFilesAreThere

TypeInv ==
    ChainTypeOK /\ StoreTypeOK /\ ActorTypeOK /\ CleanupTypeOK /\ disturbed \subseteq Bundles

LEMMA TypeParts == TypeInv => TypeOK
  BY DEF TypeInv, TypeOK, ChainTypeOK, StoreTypeOK, ActorTypeOK, CleanupTypeOK, Quality

LEMMA Times ==
  /\ \A a \in Actors : HoldFor(a) \in 0 .. NoHold /\ HoldFor(a) # NoHold
  /\ ShelterEnd \in 0 .. NoHold /\ ShelterEnd # NoHold
  /\ NoHold \in 0 .. NoHold
  BY AtlasAssumption DEF HoldFor, NoHold, Actors

LEMMA Chosen ==
  /\ (CHOOSE b \in Bundles : TRUE) \in Bundles
  /\ (CHOOSE p \in Propositions : TRUE) \in Propositions
<1>1. \E p \in Propositions : BundleOf[p] \in Bundles
  BY AtlasAssumption
<1>2. QED
  BY <1>1

LEMMA TypeInit == Init => TypeInv
<1> SUFFICES ASSUME Init PROVE TypeInv
  OBVIOUS
<1>1. ChainTypeOK /\ ActorTypeOK
  BY AtlasAssumption, Chosen DEF Init, ChainTypeOK, ActorTypeOK, Actors
<1>2. StoreTypeOK
  BY Times DEF Init, StoreTypeOK, HeldForATime
<1>3. CleanupTypeOK
  BY Chosen DEF Init, CleanupTypeOK, CountedFilesAreThere
<1>4. disturbed \subseteq Bundles
  BY DEF Init
<1>5. QED
  BY <1>1, <1>2, <1>3, <1>4 DEF TypeInv

LEMMA ChainStep == TypeInv /\ [Next]_vars => ChainTypeOK'
<1> SUFFICES ASSUME TypeInv, [Next]_vars PROVE ChainTypeOK'
  OBVIOUS
<1>1. CASE Resolve
  BY <1>1
     DEF TypeInv, ChainTypeOK, ActorTypeOK, Resolve, ResolveOnChain, ResolveFails,
         RememberFailure, Actors, clockVars, chainVars, bodyVars
<1>2. CASE Environment
  BY <1>2, AtlasAssumption
     DEF TypeInv, ChainTypeOK, Environment, ForgetFailure, CloseProposition, StreamEnds, Tick,
         Restart, clockVars, chainVars, bodyVars
<1>3. CASE \/ \E p \in Propositions : TryWith(p)
           \/ \E b \in Bundles : TryToRestore(b)
           \/ \E a \in Actors : Download(a) \/ Shelter(a)
           \/ Cleanup
           \/ UNCHANGED vars
  <2>1. UNCHANGED <<clockVars, chainVars>>
    BY <1>3
       DEF TryWith, TryToRestore, Download, CheckSheltered, CreateMetadata, DownloadBody,
           RefuseBody, DownloadBreaks, SetCleanup, SetDownloaded, Shelter,
           MarkAsSheltered, MarkFails, Unpack, AnotherDonor, GiveUp, Cleanup, FindOutdated,
           FindVictims, NextVictim, CleanupDone, DeleteFile, RemoveEntities, NoMoreFiles,
           SetExpendable, vars, bodyVars
  <2>2. QED
    BY <2>1 DEF TypeInv, ChainTypeOK, clockVars, chainVars, bodyVars
<1>4. QED
  BY <1>1, <1>2, <1>3 DEF Next, Step

\* Only five places write repository.status and repository.holdUntil.
LEMMA StoreStep == TypeInv /\ [Next]_vars => StoreTypeOK'
<1> SUFFICES ASSUME TypeInv, [Next]_vars PROVE StoreTypeOK'
  OBVIOUS
<1> USE DEF TypeInv, StoreTypeOK, HeldForATime
<1>1. ASSUME NEW b \in Bundles, NEW s, NEW until, SetRepository(b, s, until),
             s \in {"SHELTERING_CANDIDATE", "DOWNLOADED", "SHELTERED", "CLEANUP", "EXPENDABLE"},
             until \in 0 .. NoHold, s \notin {"CLEANUP", "EXPENDABLE"} => until # NoHold,
             UNCHANGED unpacked
      PROVE  StoreTypeOK'
  BY <1>1 DEF SetRepository
<1>2. \A a \in Actors : target[a] \in Bundles
  BY DEF ActorTypeOK
<1>3. ASSUME NEW a \in Actors, CreateMetadata(a) PROVE StoreTypeOK'
  <2>1. CASE status[target[a]] = "absent"
    BY <1>1, <1>2, <1>3, <2>1, Times DEF CreateMetadata
  <2>2. CASE status[target[a]] # "absent"
    BY <1>3, <2>2 DEF CreateMetadata, repoVars, bodyVars
  <2>3. QED
    BY <2>1, <2>2
<1>4. ASSUME NEW a \in Actors, SetCleanup(a) \/ SetDownloaded(a) \/ MarkAsSheltered(a)
      PROVE  StoreTypeOK'
  BY <1>1, <1>2, <1>4, Times DEF SetCleanup, SetDownloaded, MarkAsSheltered
<1>5. ASSUME NEW a \in Actors, Unpack(a) PROVE StoreTypeOK'
  BY <1>2, <1>5 DEF Unpack, repoVars, bodyVars
<1>6. CASE FindOutdated
  BY <1>6, Times DEF FindOutdated
<1>7. CASE RemoveEntities
  BY <1>7 DEF RemoveEntities, repoVars, bodyVars
<1>8. CASE SetExpendable
  BY <1>1, <1>8, Times DEF SetExpendable, CleanupTypeOK
<1>9. CASE \/ \E p \in Propositions : TryWith(p)
           \/ \E b \in Bundles : TryToRestore(b)
           \/ \E a \in Actors : CheckSheltered(a) \/ DownloadBody(a) \/ RefuseBody(a)
           \/ \E a \in Actors : DownloadBreaks(a)
           \/ \E a \in Actors : MarkFails(a) \/ AnotherDonor(a) \/ GiveUp(a)
           \/ Resolve
           \/ FindVictims \/ NextVictim \/ CleanupDone \/ DeleteFile \/ NoMoreFiles
           \/ Environment
           \/ UNCHANGED vars
  <2>1. UNCHANGED <<status, hold, unpacked>>
    BY <1>9
       DEF TryWith, TryToRestore, CheckSheltered, DownloadBody, RefuseBody, DownloadBreaks,
           MarkFails, AnotherDonor, GiveUp, Resolve, ResolveOnChain, ResolveFails,
           RememberFailure, FindVictims, NextVictim, CleanupDone, DeleteFile, NoMoreFiles,
           Environment, ForgetFailure, CloseProposition, StreamEnds, Tick, Restart, vars,
           repoVars, bodyVars
  <2>2. QED
    BY <2>1
<1>10. QED
  BY <1>3, <1>4, <1>5, <1>6, <1>7, <1>8, <1>9 DEF Next, Step, Download, Shelter, Cleanup

LEMMA ActorStep == TypeInv /\ [Next]_vars => ActorTypeOK'
<1> SUFFICES ASSUME TypeInv, [Next]_vars PROVE ActorTypeOK'
  OBVIOUS
<1> USE AtlasAssumption DEF TypeInv, ActorTypeOK, Goto
<1>1. ASSUME NEW p \in Propositions, TryWith(p) PROVE ActorTypeOK'
  BY <1>1 DEF TryWith, Actors
<1>2. ASSUME NEW b \in Bundles, TryToRestore(b) PROVE ActorTypeOK'
  BY <1>2 DEF TryToRestore, Actors
<1>3. ASSUME NEW a \in Actors, Download(a) PROVE ActorTypeOK'
  BY <1>3
     DEF Download, CheckSheltered, CreateMetadata, DownloadBody, RefuseBody, DownloadBreaks,
         SetCleanup, SetDownloaded
<1>4. ASSUME NEW a \in Actors, Shelter(a) PROVE ActorTypeOK'
  <2>1. CASE MarkAsSheltered(a) \/ AnotherDonor(a)
    BY <2>1 DEF MarkAsSheltered, AnotherDonor
  <2>2. CASE MarkFails(a)
    BY <2>2 DEF MarkFails, FailureAfterDownload
  <2>3. CASE Unpack(a)
    BY <2>3 DEF Unpack, FailureAfterDownload
  <2>4. CASE GiveUp(a)
    BY <2>4 DEF GiveUp
  <2>5. QED
    BY <1>4, <2>1, <2>2, <2>3, <2>4 DEF Shelter
<1>5. CASE Resolve
  BY <1>5 DEF Resolve, ResolveOnChain, ResolveFails, RememberFailure, Actors
<1>6. ASSUME NEW p \in Propositions, NEW b \in Bundles,
             ForgetFailure(p) \/ CloseProposition(p) \/ StreamEnds(b) \/ Tick
      PROVE  ActorTypeOK'
  BY <1>6 DEF ForgetFailure, CloseProposition, StreamEnds, Tick, actorVars
<1>7. CASE Restart
  BY <1>7, Chosen DEF Restart, ChainTypeOK
<1>8. CASE Cleanup \/ UNCHANGED vars
  BY <1>8
     DEF Cleanup, FindOutdated, FindVictims, NextVictim, CleanupDone, DeleteFile, RemoveEntities,
         NoMoreFiles, SetExpendable, vars, actorVars, bodyVars
<1>9. QED
  BY <1>1, <1>2, <1>3, <1>4, <1>5, <1>6, <1>7, <1>8 DEF Next, Step, Environment

LEMMA CleanupStep == TypeInv /\ [Next]_vars => CleanupTypeOK'
<1> SUFFICES ASSUME TypeInv, [Next]_vars PROVE CleanupTypeOK'
  OBVIOUS
<1> USE DEF TypeInv, CleanupTypeOK, CountedFilesAreThere
<1>1. ASSUME NEW a \in Actors, DownloadBody(a) PROVE CleanupTypeOK'
  <2>1. PICK quality \in Quality : files' = [files EXCEPT ![target[a]] = Append(@, quality)]
    BY <1>1 DEF DownloadBody, Quality
  <2>2. target[a] \in Bundles
    BY DEF ActorTypeOK
  <2>3. files' \in [Bundles -> Seq(Quality)] /\ \A b \in Bundles : Len(files[b]) <= Len(files'[b])
    BY <2>1, <2>2
  <2>4. QED
    BY <1>1, <2>3 DEF DownloadBody, cleanupVars
<1>1a. ASSUME NEW a \in Actors, RefuseBody(a) PROVE CleanupTypeOK'
  BY <1>1a DEF RefuseBody, cleanupVars, ActorTypeOK
<1>1b. ASSUME NEW b \in Bundles, StreamEnds(b) PROVE CleanupTypeOK'
  <2>1. streams' \in [Bundles -> Nat]
    BY <1>1b DEF StreamEnds
  <2>2. \/ UNCHANGED files
        \/ files' = [files EXCEPT ![b] = Append(files[b], "late")]
    BY <1>1b DEF StreamEnds
  <2>3. CASE UNCHANGED files
    BY <1>1b, <2>1, <2>3 DEF StreamEnds, cleanupVars
  <2>4. CASE files' = [files EXCEPT ![b] = Append(files[b], "late")]
    <3>1. files[b] \in Seq(Quality) /\ "late" \in Quality
      BY DEF Quality
    <3>2. Append(files[b], "late") \in Seq(Quality) /\ Len(files[b]) <= Len(Append(files[b], "late"))
      BY <3>1
    <3>3. files' \in [Bundles -> Seq(Quality)] /\ \A x \in Bundles : Len(files[x]) <= Len(files'[x])
      BY <2>4, <3>2
    <3>4. QED
      BY <1>1b, <2>1, <3>3 DEF StreamEnds, cleanupVars
  <2>5. QED
    BY <2>2, <2>3, <2>4
<1>2. CASE FindOutdated \/ FindVictims \/ CleanupDone
  BY <1>2 DEF FindOutdated, FindVictims, CleanupDone, bodyVars
<1>3. CASE NextVictim
  BY <1>3 DEF NextVictim, bodyVars
<1>4. CASE DeleteFile
  <2>1. Tail(files[victim]) \in Seq(Quality) /\ Len(Tail(files[victim])) = Len(files[victim]) - 1
    BY <1>4 DEF DeleteFile
  <2>2. files' = [files EXCEPT ![victim] = Tail(files[victim])]
    BY <1>4 DEF DeleteFile
  <2>3. files' \in [Bundles -> Seq(Quality)] /\ files'[victim] = Tail(files[victim])
    BY <2>1, <2>2
  <2>4. QED
    BY <1>4, <2>1, <2>3 DEF DeleteFile
<1>5. CASE RemoveEntities \/ NoMoreFiles \/ SetExpendable
  BY <1>5 DEF RemoveEntities, NoMoreFiles, SetExpendable, bodyVars
<1>6. CASE Restart
  BY <1>6, Chosen DEF Restart
<1>7. CASE \/ \E p \in Propositions : TryWith(p) \/ ForgetFailure(p) \/ CloseProposition(p)
           \/ \E b \in Bundles : TryToRestore(b)
           \/ \E a \in Actors : CheckSheltered(a) \/ CreateMetadata(a) \/ DownloadBreaks(a)
           \/ \E a \in Actors : SetCleanup(a) \/ SetDownloaded(a) \/ Shelter(a)
           \/ Resolve
           \/ Tick
           \/ UNCHANGED vars
  <2>1. UNCHANGED <<bodyVars, cleanupVars>>
    BY <1>7
       DEF TryWith, TryToRestore, CheckSheltered, CreateMetadata, DownloadBreaks, SetCleanup,
           SetDownloaded, Shelter, MarkAsSheltered, MarkFails, Unpack, AnotherDonor, GiveUp,
           Resolve, ResolveOnChain, ResolveFails, RememberFailure, ForgetFailure,
           CloseProposition, StreamEnds, Tick, vars, bodyVars
  <2>2. QED
    BY <2>1 DEF cleanupVars, bodyVars
<1>8. QED
  BY <1>1, <1>1a, <1>1b, <1>2, <1>3, <1>4, <1>5, <1>6, <1>7
     DEF Next, Step, Download, Cleanup, Environment

LEMMA HistoryStep == disturbed \subseteq Bundles /\ [Next]_vars => disturbed' \subseteq Bundles
  BY DEF Next, Record, vars

LEMMA TypeStep == TypeInv /\ [Next]_vars => TypeInv'
  BY HistoryStep, ChainStep, StoreStep, ActorStep, CleanupStep DEF TypeInv

LEMMA TypeInvariant == Spec => []TypeInv
  BY TypeInit, TypeStep, PTL DEF Spec

(* Three loops and a clock that interleave anywhere, and a process that ends and *)
(* starts anywhere, keep every status, date and file list in its type.          *)
THEOREM TypeCorrect == Spec => []TypeOK
  BY TypeParts, TypeInvariant, PTL

(* No crash and no slow actor leaves a bundle as a candidate, as downloaded or  *)
(* as sheltered without the holdUntil by which the cleanup finds it at last.     *)
THEOREM NothingForgotten == Spec => []NothingIsForgotten
<1>1. TypeInv => NothingIsForgotten
  BY DEF TypeInv, StoreTypeOK, HeldForATime, NothingIsForgotten
<1>2. QED
  BY <1>1, TypeInvariant, PTL

-----------------------------------------------------------------------------
(* The newest file of a sheltered bundle.  The contract designates a node for a *)
(* bundle once, and for none that it shelters already.                          *)

OneProposition ==
    /\ \A p, q \in Propositions : BundleOf[p] = BundleOf[q] => p = q
    /\ \A p \in Propositions : BundleOf[p] \notin Lost

\* A bundle of this node has no proposition that is still open.
OursIsClosed == \A p \in open : BundleOf[p] \notin ours

\* The resolver downloads only what this node does not shelter yet, the restorer
\* only what it does, and they never have the same bundle in hand: what the restorer
\* visits was sheltered before the process started.
ApartFromEachOther ==
    /\ toRestore \subseteq ours
    /\ pc["restorer"] # "idle" => target["restorer"] \in ours
    /\ pc["resolver"] \in {"check", "create", "body", "invalid", "downloaded", "resolve",
                            "failing"} =>
          target["resolver"] \notin ours
    /\ pc["resolver"] # "idle" => /\ target["resolver"] = BundleOf[prop]
                                  /\ target["resolver"] \notin toRestore
    /\ pc["resolver"] # "idle" /\ pc["restorer"] # "idle" => target["resolver"] # target["restorer"]
    /\ pc["resolver"] = "mark" => target["resolver"] \in ours
    /\ pc["restorer"] # "resolve"

\* SHELTERED is what a mark on a bundle of this node left.
ShelteredIsOurs == \A b \in Bundles : status[b] = "SHELTERED" => b \in ours

NotBad(b) == ~Newest(b, "bad")

\* After isBundleSheltered said no, only the one in hand can mark the bundle.
NotYetSheltered ==
    pc["restorer"] \in {"create", "body", "invalid"} => status[target["restorer"]] # "SHELTERED"

ValidatedIsNewest ==
    \A a \in Actors : pc[a] \in {"downloaded", "resolve", "mark"} => NotBad(target[a])

NewestOfSheltered == \A b \in Bundles : status[b] = "SHELTERED" => NotBad(b)

BodyInv ==
    /\ TypeInv
    /\ OursIsClosed /\ ApartFromEachOther /\ ShelteredIsOurs
    /\ NotYetSheltered /\ ValidatedIsNewest /\ NewestOfSheltered

\* Deleting the oldest file leaves the newest one, or none.
LEMMA TailKeepsNewest ==
  ASSUME NEW s \in Seq(Quality), Len(s) > 0, Tail(s) # <<>>
  PROVE  Tail(s)[Len(Tail(s))] = s[Len(s)]
<1>1. Len(Tail(s)) = Len(s) - 1 /\ Len(Tail(s)) > 0
  OBVIOUS
<1>2. Tail(s)[Len(Tail(s))] = s[Len(Tail(s)) + 1]
  BY <1>1
<1>3. QED
  BY <1>1, <1>2

LEMMA BodyInit == ASSUME OneProposition, Init PROVE BodyInv
<1>1. OursIsClosed /\ ApartFromEachOther
  BY DEF Init, OneProposition, OursIsClosed, ApartFromEachOther, Actors
<1>2. ShelteredIsOurs /\ NotYetSheltered /\ ValidatedIsNewest /\ NewestOfSheltered
  BY DEF Init, ShelteredIsOurs, NotYetSheltered, ValidatedIsNewest, NewestOfSheltered, Actors
<1>3. QED
  BY <1>1, <1>2, TypeInit DEF BodyInv

LEMMA ApartStep ==
  ASSUME OneProposition, BodyInv, [Next]_vars
  PROVE  OursIsClosed' /\ ApartFromEachOther'
<1>0. /\ DOMAIN pc = Actors
      /\ target \in [Actors -> Bundles] /\ prop \in Propositions /\ open \subseteq Propositions
  BY DEF BodyInv, TypeInv, ActorTypeOK, ChainTypeOK
<1> USE <1>0 DEF BodyInv, OursIsClosed, ApartFromEachOther, Goto, chainVars, actorVars, bodyVars
<1>1. ASSUME NEW p \in Propositions, TryWith(p) PROVE OursIsClosed' /\ ApartFromEachOther'
  BY <1>1 DEF TryWith, Actors
<1>2. ASSUME NEW b \in Bundles, TryToRestore(b) PROVE OursIsClosed' /\ ApartFromEachOther'
  BY <1>2 DEF TryToRestore, Actors
<1>3. ASSUME NEW a \in Actors, Download(a) PROVE OursIsClosed' /\ ApartFromEachOther'
  <2>1. CASE CheckSheltered(a) \/ CreateMetadata(a) \/ DownloadBody(a)
    BY <2>1 DEF CheckSheltered, CreateMetadata, DownloadBody, Actors
  <2>2. CASE RefuseBody(a) \/ DownloadBreaks(a) \/ SetCleanup(a) \/ SetDownloaded(a)
    BY <2>2 DEF RefuseBody, DownloadBreaks, SetCleanup, SetDownloaded, Actors
  <2>3. QED
    BY <1>3, <2>1, <2>2 DEF Download
<1>4. ASSUME NEW a \in Actors, Shelter(a) PROVE OursIsClosed' /\ ApartFromEachOther'
  <2>1. CASE MarkAsSheltered(a) \/ MarkFails(a) \/ Unpack(a)
    BY <2>1 DEF MarkAsSheltered, MarkFails, Unpack, FailureAfterDownload, Actors
  <2>2. CASE AnotherDonor(a) \/ GiveUp(a)
    BY <2>2 DEF AnotherDonor, GiveUp, Actors
  <2>3. QED
    BY <1>4, <2>1, <2>2 DEF Shelter
<1>5. CASE ResolveOnChain
  BY <1>5 DEF ResolveOnChain, OneProposition, Actors
<1>6. CASE ResolveFails
  BY <1>6 DEF ResolveFails, RememberFailure, OneProposition, Actors
<1>7. ASSUME NEW p \in Propositions, ForgetFailure(p) \/ CloseProposition(p) \/ Tick
      PROVE  OursIsClosed' /\ ApartFromEachOther'
  BY <1>7 DEF ForgetFailure, CloseProposition, Tick
<1>7a. ASSUME NEW b \in Bundles, StreamEnds(b) PROVE OursIsClosed' /\ ApartFromEachOther'
  BY <1>7a DEF StreamEnds
<1>8. CASE Restart
  BY <1>8 DEF Restart, Actors
<1>9. CASE Cleanup \/ UNCHANGED vars
  <2>1. UNCHANGED <<chainVars, toRestore, actorVars>>
    BY <1>9
       DEF Cleanup, FindOutdated, FindVictims, NextVictim, CleanupDone, DeleteFile,
           RemoveEntities, NoMoreFiles, SetExpendable, vars, bodyVars
  <2>2. QED
    BY <2>1
<1>10. QED
  BY <1>1, <1>2, <1>3, <1>4, <1>5, <1>6, <1>7, <1>7a, <1>8, <1>9
     DEF Next, Step, Resolve, Environment

\* The status becomes SHELTERED in one place only.
LEMMA OnlyMarkShelters ==
  ASSUME BodyInv, [Next]_vars, NEW b \in Bundles, status[b] # "SHELTERED", status'[b] = "SHELTERED"
  PROVE  \E a \in Actors : MarkAsSheltered(a) /\ b = target[a]
<1>1. status \in [Bundles -> {"absent", "SHELTERING_CANDIDATE", "DOWNLOADED", "SHELTERED",
                              "CLEANUP", "EXPENDABLE"}]
  BY DEF BodyInv, TypeInv, StoreTypeOK
<1>2. status' # status
  OBVIOUS
<1>3. PICK a \in Actors : \/ CreateMetadata(a) \/ SetCleanup(a) \/ SetDownloaded(a)
                          \/ MarkAsSheltered(a) \/ FindOutdated \/ SetExpendable
  BY <1>2
     DEF Next, Step, TryWith, TryToRestore, Download, CheckSheltered, DownloadBody, RefuseBody,
         DownloadBreaks, Shelter, MarkFails, Unpack, AnotherDonor, GiveUp, Resolve,
         ResolveOnChain, ResolveFails, RememberFailure, Cleanup, FindVictims, NextVictim,
         CleanupDone, DeleteFile, RemoveEntities, NoMoreFiles, Environment, ForgetFailure,
         CloseProposition, StreamEnds, Tick, Restart, vars, repoVars, Actors, bodyVars
<1>4. ~(CreateMetadata(a) \/ SetCleanup(a) \/ SetDownloaded(a) \/ FindOutdated \/ SetExpendable)
  BY <1>1 DEF CreateMetadata, SetCleanup, SetDownloaded, FindOutdated, SetExpendable,
              SetRepository, repoVars, bodyVars
<1>5. b = target[a]
  BY <1>1, <1>3, <1>4 DEF MarkAsSheltered, SetRepository
<1>6. QED
  BY <1>3, <1>4, <1>5

LEMMA ShelteredStep ==
  ASSUME BodyInv, [Next]_vars
  PROVE  ShelteredIsOurs' /\ NotYetSheltered'
<1>1. ours \subseteq ours'
  BY DEF Next, Step, TryWith, TryToRestore, Download, CheckSheltered, CreateMetadata,
         DownloadBody, RefuseBody, DownloadBreaks, SetCleanup, SetDownloaded, Shelter,
         MarkAsSheltered, MarkFails, Unpack, AnotherDonor, GiveUp, Resolve, ResolveOnChain,
         ResolveFails, RememberFailure, Cleanup, FindOutdated, FindVictims, NextVictim,
         CleanupDone, DeleteFile, RemoveEntities, NoMoreFiles, SetExpendable, Environment,
         ForgetFailure, CloseProposition, StreamEnds, Tick, Restart, vars, chainVars, bodyVars
<1>2. \A a \in Actors : MarkAsSheltered(a) => target[a] \in ours
  BY DEF MarkAsSheltered, BodyInv, ApartFromEachOther, Actors
<1>3. ShelteredIsOurs'
  BY <1>1, <1>2, OnlyMarkShelters DEF BodyInv, ShelteredIsOurs
<1>4. NotYetSheltered'
  <2>1. SUFFICES ASSUME pc'["restorer"] \in {"create", "body", "invalid"},
                        status'[target'["restorer"]] = "SHELTERED"
                 PROVE  FALSE
    BY DEF NotYetSheltered
  <2>2. /\ DOMAIN pc = Actors
        /\ target \in [Actors -> Bundles]
    BY DEF BodyInv, TypeInv, ActorTypeOK
  <2>3. /\ target'["restorer"] = target["restorer"]
        /\ \/ pc["restorer"] = pc'["restorer"]
           \/ CheckSheltered("restorer") \/ CreateMetadata("restorer") \/ DownloadBody("restorer")
           \/ RefuseBody("restorer")
    BY <2>1, <2>2
       DEF Next, Step, TryWith, TryToRestore, Download, CheckSheltered, CreateMetadata,
           DownloadBody, RefuseBody, DownloadBreaks, SetCleanup, SetDownloaded,
           Shelter, MarkAsSheltered, MarkFails, Unpack, FailureAfterDownload, AnotherDonor,
           GiveUp, Resolve, ResolveOnChain, ResolveFails, RememberFailure, Cleanup, FindOutdated,
           FindVictims, NextVictim, CleanupDone, DeleteFile, RemoveEntities, NoMoreFiles,
           SetExpendable, Environment, ForgetFailure, CloseProposition, StreamEnds, Tick,
           Restart, vars, actorVars, Goto, Actors, bodyVars
  <2>4. status[target["restorer"]] # "SHELTERED"
    BY <2>1, <2>2, <2>3
       DEF BodyInv, NotYetSheltered, CheckSheltered, CreateMetadata, DownloadBody, RefuseBody, Goto,
           Actors
  <2>5. PICK a \in Actors : MarkAsSheltered(a) /\ target["restorer"] = target[a]
    BY <2>1, <2>2, <2>3, <2>4, OnlyMarkShelters DEF Actors
  <2>6. pc["restorer"] # "idle"
    BY <2>1, <2>3 DEF CheckSheltered, CreateMetadata, DownloadBody, RefuseBody
  <2>7. a = "restorer"
    BY <2>5, <2>6 DEF BodyInv, ApartFromEachOther, MarkAsSheltered, Actors
  <2>8. QED
    BY <2>1, <2>2, <2>5, <2>7 DEF MarkAsSheltered, Goto
<1>5. QED
  BY <1>3, <1>4

\* A file is deleted in one place, and added by a download or a stream that ends.
LEMMA NewestStays ==
  ASSUME BodyInv, [Next]_vars, NEW b \in Bundles, NotBad(b),
         ~ \E a \in Actors : DownloadBody(a) /\ target[a] = b
  PROVE  NotBad(b)'
<1>1. files \in [Bundles -> Seq(Quality)] /\ target \in [Actors -> Bundles] /\ victim \in Bundles
  BY DEF BodyInv, TypeInv, ActorTypeOK, CleanupTypeOK
<1>2. CASE UNCHANGED files
  BY <1>2 DEF NotBad, Newest
<1>3. CASE DeleteFile
  <2>1. files' = [files EXCEPT ![victim] = Tail(files[victim])]
    BY <1>3 DEF DeleteFile
  <2>2. Len(files[victim]) > 0
    BY <1>3 DEF DeleteFile, BodyInv, TypeInv, CleanupTypeOK, CountedFilesAreThere
  <2>3. CASE b = victim
    BY <1>1, <2>1, <2>2, <2>3, TailKeepsNewest DEF NotBad, Newest
  <2>4. CASE b # victim
    BY <1>1, <2>1, <2>4 DEF NotBad, Newest
  <2>5. QED
    BY <2>3, <2>4
<1>4. ASSUME NEW a \in Actors, DownloadBody(a) PROVE NotBad(b)'
  <2>1. files'[b] = files[b]
    BY <1>1, <1>4 DEF DownloadBody
  <2>2. QED
    BY <2>1 DEF NotBad, Newest
<1>4a. ASSUME NEW x \in Bundles, StreamEnds(x) PROVE NotBad(b)'
  <2>1. CASE UNCHANGED files
    BY <2>1 DEF NotBad, Newest
  <2>2. CASE files' = [files EXCEPT ![x] = Append(files[x], "late")] /\ x = b
    <3>1. files'[b] = Append(files[b], "late") /\ files[b] \in Seq(Quality) /\ "late" \in Quality
      BY <1>1, <2>2 DEF Quality
    <3>2. files'[b][Len(files'[b])] = "late"
      BY <3>1
    <3>3. QED
      BY <3>2 DEF NotBad, Newest
  <2>3. CASE files' = [files EXCEPT ![x] = Append(files[x], "late")] /\ x # b
    BY <1>1, <2>3 DEF NotBad, Newest
  <2>4. QED
    BY <1>4a, <2>1, <2>2, <2>3 DEF StreamEnds
<1>5. \/ UNCHANGED files \/ DeleteFile
      \/ \E a \in Actors : DownloadBody(a)
      \/ \E x \in Bundles : StreamEnds(x)
  BY DEF Next, Step, TryWith, TryToRestore, Download, CheckSheltered, CreateMetadata,
         RefuseBody, DownloadBreaks, SetCleanup, SetDownloaded, Shelter, MarkAsSheltered, MarkFails,
         Unpack, AnotherDonor, GiveUp, Resolve, ResolveOnChain, ResolveFails, RememberFailure,
         Cleanup, FindOutdated, FindVictims, NextVictim, CleanupDone, RemoveEntities, NoMoreFiles,
         SetExpendable, Environment, ForgetFailure, CloseProposition, Tick, Restart, vars, bodyVars
<1>6. QED
  BY <1>2, <1>3, <1>4, <1>4a, <1>5

LEMMA NewestStep ==
  ASSUME OneProposition, BodyInv, [Next]_vars, TypeInv'
  PROVE  ValidatedIsNewest' /\ NewestOfSheltered'
<1>1. /\ DOMAIN pc = Actors
      /\ target \in [Actors -> Bundles] /\ files \in [Bundles -> Seq(Quality)]
  BY DEF BodyInv, TypeInv, ActorTypeOK, CleanupTypeOK
<1>2. NewestOfSheltered'
  <2>1. SUFFICES ASSUME NEW b \in Bundles, status'[b] = "SHELTERED" PROVE NotBad(b)'
    BY DEF NewestOfSheltered
  <2>2. CASE \E a \in Actors : DownloadBody(a) /\ target[a] = b
    <3>1. PICK a \in Actors : DownloadBody(a) /\ target[a] = b
      BY <2>2
    <3>2. status[b] = "SHELTERED" /\ pc[a] = "body"
      BY <2>1, <3>1 DEF DownloadBody, repoVars, bodyVars
    <3>3. a = "resolver" => b \notin ours
      BY <3>1, <3>2 DEF BodyInv, ApartFromEachOther
    <3>4. QED
      BY <3>1, <3>2, <3>3 DEF BodyInv, ShelteredIsOurs, NotYetSheltered, Actors
  <2>3. CASE ~ \E a \in Actors : DownloadBody(a) /\ target[a] = b
    <3>1. NotBad(b)
      <4>1. CASE status[b] = "SHELTERED"
        BY <4>1 DEF BodyInv, NewestOfSheltered
      <4>2. CASE status[b] # "SHELTERED"
        <5>1. PICK a \in Actors : MarkAsSheltered(a) /\ b = target[a]
          BY <2>1, <4>2, OnlyMarkShelters
        <5>2. QED
          BY <5>1 DEF MarkAsSheltered, BodyInv, ValidatedIsNewest
      <4>3. QED
        BY <4>1, <4>2
    <3>2. QED
      BY <2>3, <3>1, NewestStays
  <2>4. QED
    BY <2>2, <2>3
<1>3. ValidatedIsNewest'
  <2>0. \A a \in Actors : target'[a] \in Bundles
    BY DEF TypeInv, ActorTypeOK
  <2>1. SUFFICES ASSUME NEW a \in Actors, NEW b \in Bundles, target'[a] = b,
                        pc'[a] \in {"downloaded", "resolve", "mark"}
                 PROVE  NotBad(b)'
    BY <2>0 DEF ValidatedIsNewest, NotBad, Newest
  <2>2. CASE DownloadBody(a)
    <3>1. PICK quality \in {"good", "bad"} :
              /\ files' = [files EXCEPT ![target[a]] = Append(@, quality)]
              /\ pc' = [pc EXCEPT ![a] = IF quality = "good" THEN "downloaded" ELSE "invalid"]
      BY <2>2 DEF DownloadBody, Goto
    <3>2. quality = "good" /\ target' = target
      BY <1>1, <2>1, <2>2, <3>1 DEF DownloadBody
    <3>3. files'[target[a]] = Append(files[target[a]], "good")
      BY <1>1, <3>1, <3>2
    <3>4. files[target[a]] \in Seq(Quality)
      BY <1>1
    <3>5. files'[target[a]][Len(files'[target[a]])] = "good"
      BY <3>3, <3>4
    <3>6. QED
      BY <2>1, <3>2, <3>5 DEF NotBad, Newest
  <2>3. CASE ~DownloadBody(a)
    <3>1. target'[a] = target[a] /\ pc[a] \in {"downloaded", "resolve", "mark"}
      BY <1>1, <2>1, <2>3
         DEF Next, Step, TryWith, TryToRestore, Download, CheckSheltered, CreateMetadata,
             DownloadBody, RefuseBody, DownloadBreaks, SetCleanup, SetDownloaded, Shelter,
             MarkAsSheltered, MarkFails, Unpack, FailureAfterDownload, AnotherDonor, GiveUp,
             Resolve, ResolveOnChain, ResolveFails, RememberFailure, Cleanup, FindOutdated,
             FindVictims, NextVictim, CleanupDone, DeleteFile, RemoveEntities, NoMoreFiles,
             SetExpendable, Environment, ForgetFailure, CloseProposition, StreamEnds, Tick,
             Restart, vars, actorVars, Goto, Actors, bodyVars
    <3>2. NotBad(b)
      BY <2>1, <3>1 DEF BodyInv, ValidatedIsNewest
    <3>3. ~ \E x \in Actors : DownloadBody(x) /\ target[x] = b
      BY <2>1, <2>3, <3>1 DEF DownloadBody, BodyInv, ApartFromEachOther, Actors
    <3>4. QED
      BY <3>2, <3>3, NewestStays
  <2>4. QED
    BY <2>2, <2>3
<1>4. QED
  BY <1>2, <1>3

LEMMA BodyInvariant == ASSUME OneProposition PROVE Spec => []BodyInv
<1>1. Init => BodyInv
  BY BodyInit
<1>2. BodyInv /\ [Next]_vars /\ TypeInv' => BodyInv'
  BY ApartStep, ShelteredStep, NewestStep DEF BodyInv
<1>3. QED
  BY <1>1, <1>2, TypeInvariant, PTL DEF Spec

(* However many donors send an invalid body, however slow the resolver, the      *)
(* restorer and the cleanup are, and wherever the process ends and starts, the     *)
(* newest file of a SHELTERED bundle is none that was refused once it was stored.   *)
(* The assumption is needed: resolver and restorer would otherwise fetch the same   *)
(* bundle.                                                                       *)
THEOREM ShelteredIsValid == ASSUME OneProposition PROVE Spec => []NoInvalidBody
<1>1. BodyInv => NoInvalidBody
  BY DEF BodyInv, NewestOfSheltered, NotBad, NoInvalidBody
<1>2. QED
  BY <1>1, BodyInvariant, PTL

-----------------------------------------------------------------------------
(* Bundles outside of Disturbances: what holds of one bundle while no two of the *)
(* loops have met at it, whatever happens to the others.                        *)

\* What the cleanup has taken from its list it does not find there again.
ListIsApart ==
    /\ cpc \in {"idle", "find"} => victims = {}
    /\ cpc \in {"file", "entities", "expend"} => victim \notin victims

ToClean(b) == BeingCleaned(b) => status[b] = "CLEANUP"

CountedAll(b) ==
    /\ cpc \in {"file", "entities"} /\ victim = b => filesLeft = Len(files[b])
    /\ cpc = "expend" /\ victim = b => files[b] = <<>>

\* An attempt has asked whether the bundle is SHELTERED, and later has its body.
Fetched(b) ==
    \A a \in Actors : InHand(a, b) =>
        /\ pc[a] \in {"create", "body"} => status[b] # "SHELTERED"
        /\ pc[a] \in {"downloaded", "resolve", "mark", "unpack"} => Held(b)

\* A stream outlives a body that was refused, and the status says so.
Streaming(b) ==
    streams[b] > 0 =>
        \/ status[b] = "CLEANUP"
        \/ status[b] # "SHELTERED" /\ \E a \in Actors : InHand(a, b) /\ pc[a] = "invalid"

BodyAccounted(b) ==
    status[b] \in {"absent", "EXPENDABLE"} =>
        \/ files[b] = <<>>
        \/ \E a \in Actors : InHand(a, b) /\ pc[a] \in {"invalid", "downloaded"}

EntitiesAccounted(b) == b \in unpacked => files[b] # <<>> \/ (cpc = "entities" /\ victim = b)

ShelteredWhole(b) ==
    status[b] = "SHELTERED" =>
        /\ Held(b)
        /\ b \in unpacked \/ \E a \in Actors : InHand(a, b) /\ pc[a] = "unpack"

BundleInv(b) ==
    /\ ToClean(b) /\ CountedAll(b) /\ Fetched(b) /\ Streaming(b)
    /\ BodyAccounted(b) /\ EntitiesAccounted(b) /\ ShelteredWhole(b)

UndisturbedInv == ListIsApart /\ \A b \in Bundles \ disturbed : BundleInv(b)

\* The same of a bundle that one attempt alone has in hand, at that place.
Local(b, place) ==
    /\ place \in {"create", "body"} => status[b] # "SHELTERED"
    /\ place \in {"downloaded", "resolve", "mark", "unpack"} => Held(b)
    /\ streams[b] > 0 => status[b] = "CLEANUP" \/ (status[b] # "SHELTERED" /\ place = "invalid")
    /\ status[b] \in {"absent", "EXPENDABLE"} =>
           files[b] = <<>> \/ place \in {"invalid", "downloaded"}
    /\ b \in unpacked => files[b] # <<>>
    /\ status[b] = "SHELTERED" => Held(b) /\ (b \in unpacked \/ place = "unpack")

LEMMA UndisturbedInit == Init => UndisturbedInv
<1> SUFFICES ASSUME Init PROVE UndisturbedInv
  OBVIOUS
<1>1. ListIsApart
  BY DEF Init, ListIsApart
<1>2. ASSUME NEW b \in Bundles PROVE BundleInv(b)
  <2>1. /\ status[b] = "absent" /\ files[b] = <<>> /\ streams[b] = 0 /\ unpacked = {}
        /\ cpc = "idle" /\ victims = {} /\ \A a \in Actors : pc[a] = "idle"
    BY <1>2 DEF Init
  <2>2. QED
    BY <2>1
    DEF BundleInv, ToClean, CountedAll, Fetched, Streaming, BodyAccounted, EntitiesAccounted,
        ShelteredWhole, BeingCleaned, InHand
<1>3. QED
  BY <1>1, <1>2 DEF UndisturbedInv

\* The types, as the proofs below need them.
LEMMA Typed ==
  ASSUME TypeInv
  PROVE  /\ pc \in [Actors -> {"idle", "check", "create", "body", "invalid", "downloaded",
                               "resolve", "mark", "unpack", "failing", "lost"}]
         /\ target \in [Actors -> Bundles]
         /\ status \in [Bundles -> {"absent", "SHELTERING_CANDIDATE", "DOWNLOADED", "SHELTERED",
                                    "CLEANUP", "EXPENDABLE"}]
         /\ hold \in [Bundles -> 0 .. NoHold] /\ files \in [Bundles -> Seq(Quality)]
         /\ streams \in [Bundles -> Nat] /\ unpacked \subseteq Bundles
         /\ victims \subseteq Bundles /\ victim \in Bundles /\ filesLeft \in Nat
         /\ cpc \in {"idle", "find", "next", "file", "entities", "expend"}
  BY DEF TypeInv, ActorTypeOK, StoreTypeOK, CleanupTypeOK

\* What a step does not touch of a bundle stays true of it.
Untouched(b) ==
    /\ UNCHANGED <<cleanupVars, status[b], files[b], streams[b]>>
    /\ (b \in unpacked)' <=> b \in unpacked
    /\ \A a \in Actors : /\ InHand(a, b)' <=> InHand(a, b)
                         /\ InHand(a, b) => pc'[a] = pc[a]

LEMMA UntouchedStays ==
  ASSUME NEW b \in Bundles, BundleInv(b), Untouched(b)
  PROVE  BundleInv(b)'
<1> USE DEF BundleInv, Untouched, cleanupVars
<1>1. (ToClean(b) /\ CountedAll(b))'
  BY DEF ToClean, CountedAll, BeingCleaned
<1>2. Held(b)' <=> Held(b)
  BY DEF Held, Newest
<1>3. Fetched(b)'
  BY <1>2 DEF Fetched
<1>4. (Streaming(b) /\ BodyAccounted(b))'
  BY DEF Streaming, BodyAccounted
<1>5. (EntitiesAccounted(b) /\ ShelteredWhole(b))'
  BY <1>2 DEF EntitiesAccounted, ShelteredWhole
<1>6. QED
  BY <1>1, <1>3, <1>4, <1>5

LEMMA ToLocal ==
  ASSUME TypeInv, NEW b \in Bundles, BundleInv(b), ~Contended(b), NEW a \in Actors, InHand(a, b)
  PROVE  /\ Local(b, pc[a]) /\ ~BeingCleaned(b)
         /\ \A x \in Actors : x # a => ~InHand(x, b)
         /\ pc[a] \notin {"invalid", "failing", "lost"} => streams[b] = 0
<1>1. ~BeingCleaned(b) /\ \A x \in Actors : x # a => ~InHand(x, b)
  BY DEF Contended, Actors
<1>2. pc[a] \notin {"invalid", "failing", "lost"} => streams[b] = 0
  BY Typed DEF Contended, TriedAgain
<1>3. Local(b, pc[a])
  BY <1>1 DEF Local, BundleInv, Fetched, Streaming, BodyAccounted, EntitiesAccounted,
              ShelteredWhole, BeingCleaned
<1>4. QED
  BY <1>1, <1>2, <1>3

LEMMA FromLocal ==
  ASSUME NEW b \in Bundles, NEW a \in Actors, target'[a] = b, ~BeingCleaned(b)',
         \A x \in Actors : x # a => ~InHand(x, b)',
         Local(b, pc[a])'
  PROVE  BundleInv(b)'
<1>1. (ToClean(b) /\ CountedAll(b))'
  BY DEF ToClean, CountedAll, BeingCleaned
<1>2. Fetched(b)'
  BY DEF Fetched, Local, InHand
<1>3. (Streaming(b) /\ BodyAccounted(b))'
  BY DEF Streaming, BodyAccounted, Local, InHand
<1>4. (EntitiesAccounted(b) /\ ShelteredWhole(b))'
  BY DEF EntitiesAccounted, ShelteredWhole, Local, InHand
<1>5. QED
  BY <1>1, <1>2, <1>3, <1>4 DEF BundleInv

-----------------------------------------------------------------------------
(* A step of an attempt at its bundle *)

LEMMA DownloadLocal ==
  ASSUME TypeInv, NEW a \in Actors, Download(a), NEW b \in Bundles, b = target[a],
         Local(b, pc[a]), pc[a] \notin {"invalid", "failing", "lost"} => streams[b] = 0
  PROVE  Local(b, pc[a])'
<1> USE Typed DEF Local, Goto, bodyVars, repoVars
<1>1. CASE CheckSheltered(a)
  BY <1>1 DEF CheckSheltered, Held, Newest
<1>2. CASE CreateMetadata(a)
  BY <1>2 DEF CreateMetadata, SetRepository, Held, Newest
<1>3. CASE DownloadBody(a)
  <2>1. PICK quality \in {"good", "bad"} :
            /\ files' = [files EXCEPT ![b] = Append(files[b], quality)]
            /\ pc' = [pc EXCEPT ![a] = IF quality = "good" THEN "downloaded" ELSE "invalid"]
    BY <1>3 DEF DownloadBody
  <2>2. files'[b] = Append(files[b], quality) /\ files[b] \in Seq(Quality) /\ quality \in Quality
    BY <2>1 DEF Quality
  <2>3. files'[b] # <<>> /\ files'[b][Len(files'[b])] = quality
    BY <2>2
  <2>4. Newest(b, quality)'
    BY <2>3 DEF Newest
  <2>5. quality = "good" => Held(b)'
    BY <2>4 DEF Held
  <2>6. status' = status /\ streams' = streams /\ unpacked' = unpacked /\ pc[a] = "body"
    BY <1>3 DEF DownloadBody
  <2>7. pc'[a] = IF quality = "good" THEN "downloaded" ELSE "invalid"
    BY <2>1
  <2>8. QED
    BY <2>3, <2>5, <2>6, <2>7
<1>4. CASE RefuseBody(a)
  BY <1>4 DEF RefuseBody, Held, Newest
<1>5. CASE DownloadBreaks(a)
  BY <1>5 DEF DownloadBreaks, Held, Newest
<1>6. CASE SetCleanup(a)
  BY <1>6 DEF SetCleanup, SetRepository, Held, Newest
<1>7. CASE SetDownloaded(a)
  BY <1>7 DEF SetDownloaded, SetRepository, Held, Newest
<1>8. QED
  BY <1>1, <1>2, <1>3, <1>4, <1>5, <1>6, <1>7 DEF Download

LEMMA ShelterLocal ==
  ASSUME TypeInv, NEW a \in Actors, Shelter(a) \/ (a = "resolver" /\ Resolve),
         NEW b \in Bundles, b = target[a],
         Local(b, pc[a]), pc[a] \notin {"invalid", "failing", "lost"} => streams[b] = 0
  PROVE  Local(b, pc[a])'
<1> USE Typed DEF Local, Goto, bodyVars, repoVars
<1>1. CASE MarkAsSheltered(a)
  BY <1>1 DEF MarkAsSheltered, SetRepository, Held, Newest
<1>2. CASE MarkFails(a)
  BY <1>2 DEF MarkFails, FailureAfterDownload, Held, Newest
<1>3. CASE Unpack(a)
  BY <1>3 DEF Unpack, Held, Newest
<1>4. CASE AnotherDonor(a) \/ GiveUp(a)
  BY <1>4 DEF AnotherDonor, GiveUp, Held, Newest
<1>5. CASE a = "resolver" /\ Resolve
  BY <1>5 DEF Resolve, ResolveOnChain, ResolveFails, RememberFailure, Held, Newest
<1>6. QED
  BY <1>1, <1>2, <1>3, <1>4, <1>5 DEF Shelter

\* What every step of an attempt does elsewhere: nothing.
LEMMA AttemptFrame ==
  ASSUME TypeInv, NEW a \in Actors,
         Download(a) \/ Shelter(a) \/ (a = "resolver" /\ Resolve)
  PROVE  /\ pc[a] # "idle" /\ UNCHANGED <<cleanupVars, target>>
         /\ \A x \in Actors : x # a => pc'[x] = pc[x]
         /\ \A b \in Bundles : b # target[a] =>
                /\ UNCHANGED <<status[b], files[b], streams[b]>>
                /\ (b \in unpacked)' <=> b \in unpacked
<1> USE Typed DEF Goto, bodyVars, repoVars, SetRepository
<1>1. CASE Download(a)
  BY <1>1 DEF Download, CheckSheltered, CreateMetadata, DownloadBody, RefuseBody, DownloadBreaks,
              SetCleanup, SetDownloaded
<1>2. CASE Shelter(a)
  BY <1>2 DEF Shelter, MarkAsSheltered, MarkFails, Unpack, AnotherDonor, GiveUp
<1>3. CASE a = "resolver" /\ Resolve
  BY <1>3 DEF Resolve, ResolveOnChain, ResolveFails, RememberFailure
<1>4. QED
  BY <1>1, <1>2, <1>3

LEMMA AttemptUndisturbed ==
  ASSUME TypeInv, NEW a \in Actors,
         Download(a) \/ Shelter(a) \/ (a = "resolver" /\ Resolve),
         NEW b \in Bundles, BundleInv(b), ~Contended(b)
  PROVE  BundleInv(b)'
<1>1. CASE target[a] = b
  <2>1. InHand(a, b)
    BY <1>1, AttemptFrame DEF InHand
  <2>2. Local(b, pc[a])'
    BY <1>1, <2>1, ToLocal, DownloadLocal, ShelterLocal
  <2>3. ~BeingCleaned(b)' /\ \A x \in Actors : x # a => ~InHand(x, b)'
    BY <2>1, ToLocal, AttemptFrame DEF BeingCleaned, InHand, cleanupVars
  <2>4. target'[a] = b
    BY <1>1, AttemptFrame
  <2>5. QED
    BY <2>2, <2>3, <2>4, FromLocal
<1>2. CASE target[a] # b
  <2>1. Untouched(b)
    BY <1>2, AttemptFrame DEF Untouched, InHand
  <2>2. QED
    BY <2>1, UntouchedStays
<1>3. QED
  BY <1>1, <1>2

-----------------------------------------------------------------------------
(* A new attempt, the environment and the end of the process *)

\* An attempt begins, or a bundle is passed over: nothing of the database changes.
LEMMA BeginUndisturbed ==
  ASSUME TypeInv, NEW b \in Bundles, BundleInv(b),
         \/ \E p \in Propositions : TryWith(p)
         \/ \E x \in Bundles : TryToRestore(x)
  PROVE  BundleInv(b)'
<1>1. UNCHANGED <<status, files, streams, unpacked, cleanupVars>>
  BY DEF TryWith, TryToRestore, repoVars, bodyVars
<1> DEFINE Moves == \A a \in Actors : \/ pc'[a] = pc[a] /\ target'[a] = target[a]
                                      \/ pc[a] = "idle" /\ pc'[a] = "check"
           Begins(x) == \E y : /\ target' = [target EXCEPT ![x] = y]
                               /\ pc' = [pc EXCEPT ![x] = "check"]
<1>2. Moves
  <2>1. ASSUME NEW x \in Actors, pc[x] = "idle", UNCHANGED <<pc, target>> \/ Begins(x)
        PROVE  Moves
    BY <2>1, Typed
  <2>2. ASSUME NEW p \in Propositions, TryWith(p) PROVE Moves
    BY <2>1, <2>2 DEF TryWith, Goto, Actors
  <2>3. ASSUME NEW y \in Bundles, TryToRestore(y) PROVE Moves
    BY <2>1, <2>3 DEF TryToRestore, Goto, Actors
  <2>4. QED
    BY <2>2, <2>3
<1> USE DEF BundleInv, cleanupVars
<1>3. (ToClean(b) /\ CountedAll(b))'
  BY <1>1 DEF ToClean, CountedAll, BeingCleaned
<1>4. Fetched(b)'
  BY <1>1, <1>2 DEF Fetched, InHand, Held, Newest
<1>5. (Streaming(b) /\ BodyAccounted(b))'
  BY <1>1, <1>2 DEF Streaming, BodyAccounted, InHand
<1>6. (EntitiesAccounted(b) /\ ShelteredWhole(b))'
  BY <1>1, <1>2 DEF EntitiesAccounted, ShelteredWhole, InHand, Held, Newest
<1>7. QED
  BY <1>3, <1>4, <1>5, <1>6

\* A stream ends at a bundle that is neither SHELTERED nor being removed.
LEMMA StreamUndisturbed ==
  ASSUME TypeInv, NEW b \in Bundles, BundleInv(b), ~Contended(b), NEW x \in Bundles, StreamEnds(x)
  PROVE  BundleInv(b)'
<1>1. /\ UNCHANGED <<status, unpacked, cleanupVars, pc, target>>
      /\ \A y \in Bundles : y # x => files'[y] = files[y] /\ streams'[y] = streams[y]
  BY Typed DEF StreamEnds, repoVars, actorVars
<1>2. CASE x # b
  <2>1. Untouched(b)
    BY <1>1, <1>2 DEF Untouched, InHand
  <2>2. QED
    BY <2>1, UntouchedStays
<1>3. CASE x = b
  <2>1. /\ streams[b] > 0 /\ ~BeingCleaned(b) /\ status[b] # "SHELTERED"
        /\ \A a \in Actors : InHand(a, b) => pc[a] \in {"invalid", "failing", "lost"}
    BY <1>3 DEF StreamEnds, Contended, TriedAgain, BundleInv, Streaming
  <2>2. files'[b] = files[b] \/ files'[b] = Append(files[b], "late")
    BY <1>3, Typed DEF StreamEnds
  <2>3. Append(files[b], "late") # <<>>
    <3>1. files[b] \in Seq(Quality) /\ "late" \in Quality
      BY Typed DEF Quality
    <3>2. QED
      BY <3>1
  <2>4. (ToClean(b) /\ CountedAll(b))'
    BY <1>1, <2>1 DEF ToClean, CountedAll, BeingCleaned, cleanupVars
  <2>5. Fetched(b)'
    BY <1>1, <2>1 DEF Fetched, InHand
  <2>6. Streaming(b)'
    BY <1>1, <2>1 DEF BundleInv, Streaming, InHand
  <2>7. BodyAccounted(b)'
    BY <1>1, <2>1 DEF BundleInv, Streaming, BodyAccounted, InHand
  <2>8. EntitiesAccounted(b)'
    BY <1>1, <2>1, <2>2, <2>3 DEF BundleInv, EntitiesAccounted, cleanupVars
  <2>9. ShelteredWhole(b)'
    BY <1>1, <2>1 DEF ShelteredWhole
  <2>10. QED
    BY <2>4, <2>5, <2>6, <2>7, <2>8, <2>9 DEF BundleInv
<1>4. QED
  BY <1>2, <1>3

\* The process ends with nothing half done: what was in hand can be begun anew.
LEMMA RestartUndisturbed ==
  ASSUME TypeInv, NEW b \in Bundles, BundleInv(b), Restart, ~HalfDone(b)
  PROVE  BundleInv(b)'
<1>1. /\ UNCHANGED <<status, files, unpacked>> /\ streams'[b] = 0
      /\ cpc' = "idle" /\ victims' = {} /\ \A a \in Actors : pc'[a] = "idle"
  BY DEF Restart, repoVars
<1> USE DEF BundleInv
<1>2. (ToClean(b) /\ CountedAll(b) /\ Fetched(b) /\ Streaming(b))'
  BY <1>1 DEF ToClean, CountedAll, BeingCleaned, Fetched, InHand, Streaming
<1>3. BodyAccounted(b)'
  BY <1>1 DEF BodyAccounted, HalfDone
<1>4. EntitiesAccounted(b)'
  BY <1>1 DEF EntitiesAccounted, HalfDone
<1>5. ShelteredWhole(b)'
  BY <1>1 DEF ShelteredWhole, HalfDone, Held, Newest
<1>6. QED
  BY <1>2, <1>3, <1>4, <1>5

LEMMA EnvironmentUndisturbed ==
  ASSUME TypeInv, NEW b \in Bundles, BundleInv(b), ~Contended(b), Environment,
         Restart => ~HalfDone(b)
  PROVE  BundleInv(b)'
<1>1. ASSUME NEW p \in Propositions, ForgetFailure(p) \/ CloseProposition(p) PROVE BundleInv(b)'
  <2>1. Untouched(b)
    BY <1>1 DEF ForgetFailure, CloseProposition, Untouched, InHand, repoVars, bodyVars, actorVars
  <2>2. QED
    BY <2>1, UntouchedStays
<1>2. CASE Tick
  <2>1. Untouched(b)
    BY <1>2 DEF Tick, Untouched, InHand, repoVars, bodyVars, actorVars
  <2>2. QED
    BY <2>1, UntouchedStays
<1>3. QED
  BY <1>1, <1>2, StreamUndisturbed, RestartUndisturbed DEF Environment

-----------------------------------------------------------------------------
(* The cleanup *)

\* The cleanup moves no attempt.
LEMMA CleanupFrame ==
  ASSUME Cleanup
  PROVE  UNCHANGED <<pc, target, streams>>
  BY DEF Cleanup, FindOutdated, FindVictims, NextVictim, CleanupDone, DeleteFile, RemoveEntities,
         NoMoreFiles, SetExpendable, actorVars, bodyVars

\* Another bundle than the one a step of the cleanup is about.
LEMMA CleanupElsewhere ==
  ASSUME NEW b \in Bundles, BundleInv(b), UNCHANGED <<pc, target, streams>>,
         UNCHANGED <<status[b], files[b]>>, (b \in unpacked)' <=> b \in unpacked,
         BeingCleaned(b)' => BeingCleaned(b),
         cpc \in {"file", "entities", "expend"} => victim # b,
         cpc' \in {"file", "entities", "expend"} => victim' # b
  PROVE  BundleInv(b)'
<1> USE DEF BundleInv
<1>1. (ToClean(b) /\ CountedAll(b))'
  BY DEF ToClean, CountedAll
<1>2. Held(b)' <=> Held(b)
  BY DEF Held, Newest
<1>3. (Fetched(b) /\ Streaming(b) /\ BodyAccounted(b))'
  BY <1>2 DEF Fetched, Streaming, BodyAccounted, InHand
<1>4. (EntitiesAccounted(b) /\ ShelteredWhole(b))'
  BY <1>2 DEF EntitiesAccounted, ShelteredWhole, InHand
<1>5. QED
  BY <1>1, <1>3, <1>4

\* A bundle being removed that is not disturbed is in nobody's hand: what is left to
\* show of it is about its files and entities.
LEMMA CleanedAlone ==
  ASSUME NEW b \in Bundles, UNCHANGED <<pc, target, streams>>,
         \A a \in Actors : ~InHand(a, b), ~(streams[b] > 0), status'[b] # "SHELTERED",
         (ToClean(b) /\ CountedAll(b) /\ EntitiesAccounted(b))',
         status'[b] = "EXPENDABLE" => files'[b] = <<>>, status'[b] # "absent"
  PROVE  BundleInv(b)'
  BY DEF BundleInv, Fetched, Streaming, BodyAccounted, ShelteredWhole, InHand

LEMMA FindOutdatedUndisturbed ==
  ASSUME TypeInv, ListIsApart, NEW b \in Bundles, BundleInv(b), FindOutdated
  PROVE  BundleInv(b)'
<1>1. /\ cpc = "idle" /\ cpc' = "find" /\ UNCHANGED <<files, streams, unpacked, pc, target, victims>>
      /\ status'[b] = status[b] \/ status'[b] = "CLEANUP"
  BY Typed DEF FindOutdated, bodyVars, actorVars
<1> USE DEF BundleInv
<1>2. (ToClean(b) /\ CountedAll(b))'
  BY <1>1 DEF ToClean, CountedAll, BeingCleaned, ListIsApart
<1>3. (Fetched(b) /\ Streaming(b) /\ BodyAccounted(b))'
  BY <1>1 DEF Fetched, Streaming, BodyAccounted, InHand, Held, Newest
<1>4. (EntitiesAccounted(b) /\ ShelteredWhole(b))'
  BY <1>1 DEF EntitiesAccounted, ShelteredWhole, InHand, Held, Newest
<1>5. QED
  BY <1>2, <1>3, <1>4

LEMMA FindVictimsUndisturbed ==
  ASSUME TypeInv, NEW b \in Bundles, BundleInv(b), FindVictims
  PROVE  BundleInv(b)'
<1>1. /\ UNCHANGED <<status, files, streams, unpacked, pc, target>>
      /\ cpc = "find" /\ cpc' = "next" /\ victims' = {x \in Bundles : status[x] = "CLEANUP"}
  BY DEF FindVictims, repoVars, bodyVars, actorVars
<1> USE DEF BundleInv
<1>2. (ToClean(b) /\ CountedAll(b))'
  BY <1>1 DEF ToClean, CountedAll, BeingCleaned
<1>3. (Fetched(b) /\ Streaming(b) /\ BodyAccounted(b))'
  BY <1>1 DEF Fetched, Streaming, BodyAccounted, InHand, Held, Newest
<1>4. (EntitiesAccounted(b) /\ ShelteredWhole(b))'
  BY <1>1 DEF EntitiesAccounted, ShelteredWhole, InHand, Held, Newest
<1>5. QED
  BY <1>2, <1>3, <1>4

\* The steps that are about one bundle, the victim before or after the step.
LEMMA VictimUndisturbed ==
  ASSUME TypeInv, ListIsApart, NEW b \in Bundles, BundleInv(b), ~Contended(b),
         NextVictim \/ CleanupDone \/ DeleteFile \/ RemoveEntities \/ NoMoreFiles \/ SetExpendable
  PROVE  BundleInv(b)'
<1>1. UNCHANGED <<pc, target, streams>>
  BY CleanupFrame DEF Cleanup
<1>2. BeingCleaned(b) => /\ status[b] = "CLEANUP" /\ ~(streams[b] > 0)
                         /\ \A a \in Actors : ~InHand(a, b)
  BY DEF BundleInv, ToClean, Contended
<1>3. CASE NextVictim
  <2>1. PICK x \in victims : /\ victim' = x /\ victims' = victims \ {x} /\ filesLeft' = Len(files[x])
                             /\ cpc = "next" /\ cpc' = "file" /\ UNCHANGED <<status, files, unpacked>>
    BY <1>3 DEF NextVictim, repoVars, bodyVars
  <2>2. CASE x = b
    BY <1>1, <1>2, <2>1, <2>2, CleanedAlone
    DEF BundleInv, ToClean, CountedAll, EntitiesAccounted, BeingCleaned
  <2>3. CASE x # b
    BY <1>1, <2>1, <2>3, CleanupElsewhere DEF BeingCleaned
  <2>4. QED
    BY <2>2, <2>3
<1>4. CASE CleanupDone
  BY <1>1, <1>4, CleanupElsewhere DEF CleanupDone, BeingCleaned, repoVars, bodyVars
<1>5. CASE DeleteFile
  <2>1. /\ cpc = "file" /\ cpc' = "entities" /\ UNCHANGED <<status, unpacked, victims, victim>>
        /\ filesLeft > 0 /\ filesLeft' = filesLeft - 1
        /\ files' = [files EXCEPT ![victim] = Tail(files[victim])]
    BY <1>5 DEF DeleteFile, repoVars
  <2>2. CASE victim = b
    <3>1. files'[b] = Tail(files[b]) /\ Len(files[b]) = filesLeft /\ files[b] \in Seq(Quality)
      BY <2>1, <2>2, Typed DEF BundleInv, CountedAll
    <3>2. Len(files'[b]) = filesLeft'
      <4>1. Len(files[b]) > 0
        BY <2>1, <3>1
      <4>2. Len(Tail(files[b])) = Len(files[b]) - 1
        BY <3>1, <4>1
      <4>3. QED
        BY <2>1, <3>1, <4>2
    <3>3. (ToClean(b) /\ CountedAll(b) /\ EntitiesAccounted(b))'
      BY <1>2, <2>1, <2>2, <3>2 DEF ToClean, CountedAll, EntitiesAccounted, BeingCleaned
    <3>4. QED
      BY <1>1, <1>2, <2>1, <2>2, <3>3, CleanedAlone DEF BeingCleaned
  <2>3. CASE victim # b
    BY <1>1, <2>1, <2>3, Typed, CleanupElsewhere DEF BeingCleaned
  <2>4. QED
    BY <2>2, <2>3
<1>6. CASE RemoveEntities
  <2>1. /\ UNCHANGED <<status, files, victims, victim, filesLeft>>
        /\ cpc = "entities" /\ cpc' = "file"
        /\ unpacked' = unpacked \ {victim}
    BY <1>6 DEF RemoveEntities, repoVars, bodyVars
  <2>2. CASE victim = b
    BY <1>1, <1>2, <2>1, <2>2, CleanedAlone
    DEF BundleInv, ToClean, CountedAll, EntitiesAccounted, BeingCleaned
  <2>3. CASE victim # b
    BY <1>1, <2>1, <2>3, CleanupElsewhere DEF BeingCleaned
  <2>4. QED
    BY <2>2, <2>3
<1>7. CASE NoMoreFiles
  <2>1. /\ cpc = "file" /\ cpc' = "expend" /\ filesLeft = 0
        /\ UNCHANGED <<status, files, unpacked, victims, victim, filesLeft>>
    BY <1>7 DEF NoMoreFiles, repoVars, bodyVars
  <2>2. CASE victim = b
    <3>1. Len(files[b]) = 0 /\ files[b] \in Seq(Quality)
      BY <2>1, <2>2, Typed DEF BundleInv, CountedAll
    <3>2. files[b] = <<>>
      BY <3>1
    <3>3. (ToClean(b) /\ CountedAll(b) /\ EntitiesAccounted(b))'
      BY <1>2, <2>1, <2>2, <3>2
      DEF BundleInv, ToClean, CountedAll, EntitiesAccounted, BeingCleaned
    <3>4. QED
      BY <1>1, <1>2, <2>1, <2>2, <3>3, CleanedAlone DEF BeingCleaned
  <2>3. CASE victim # b
    BY <1>1, <2>1, <2>3, CleanupElsewhere DEF BeingCleaned
  <2>4. QED
    BY <2>2, <2>3
<1>8. CASE SetExpendable
  <2>1. /\ UNCHANGED <<files, unpacked, victims, victim, filesLeft>>
        /\ cpc = "expend" /\ cpc' = "next"
        /\ status' = [status EXCEPT ![victim] = "EXPENDABLE"]
    BY <1>8 DEF SetExpendable, SetRepository, bodyVars
  <2>2. CASE victim = b
    <3>1. status'[b] = "EXPENDABLE" /\ files'[b] = <<>> /\ b \notin unpacked' /\ b \notin victims'
      BY <2>1, <2>2, Typed DEF BundleInv, CountedAll, EntitiesAccounted, ListIsApart
    <3>2. (ToClean(b) /\ CountedAll(b) /\ EntitiesAccounted(b))'
      BY <2>1, <3>1 DEF ToClean, CountedAll, EntitiesAccounted, BeingCleaned
    <3>3. QED
      BY <1>1, <1>2, <2>1, <2>2, <3>1, <3>2, CleanedAlone DEF BeingCleaned
  <2>3. CASE victim # b
    BY <1>1, <2>1, <2>3, Typed, CleanupElsewhere DEF BeingCleaned
  <2>4. QED
    BY <2>2, <2>3
<1>9. QED
  BY <1>3, <1>4, <1>5, <1>6, <1>7, <1>8

LEMMA ListStep == ASSUME TypeInv, ListIsApart, [Next]_vars PROVE ListIsApart'
<1>1. CASE Cleanup
  BY <1>1, Typed
  DEF Cleanup, FindOutdated, FindVictims, NextVictim, CleanupDone, DeleteFile, RemoveEntities,
      NoMoreFiles, SetExpendable, ListIsApart
<1>2. CASE Restart
  BY <1>2 DEF Restart, ListIsApart
<1>3. CASE ~Cleanup /\ ~Restart
  <2>1. UNCHANGED cleanupVars
    BY <1>3
    DEF Next, Step, TryWith, TryToRestore, Download, CheckSheltered, CreateMetadata, DownloadBody,
        RefuseBody, DownloadBreaks, SetCleanup, SetDownloaded, Shelter, MarkAsSheltered, MarkFails,
        Unpack, AnotherDonor, GiveUp, Resolve, ResolveOnChain, ResolveFails, RememberFailure,
        Environment, ForgetFailure, CloseProposition, StreamEnds, Tick, vars
  <2>2. QED
    BY <2>1 DEF ListIsApart, cleanupVars
<1>4. QED
  BY <1>1, <1>2, <1>3

LEMMA UndisturbedStep == ASSUME TypeInv, UndisturbedInv, [Next]_vars PROVE UndisturbedInv'
<1>1. ListIsApart'
  BY ListStep DEF UndisturbedInv
<1>2. ASSUME NEW b \in Bundles, b \notin disturbed', Next PROVE BundleInv(b)'
  <2>1. b \notin disturbed /\ ~Disturbance(b) /\ Step
    BY <1>2 DEF Next, Record
  <2>2. BundleInv(b) /\ ListIsApart
    BY <1>2, <2>1 DEF UndisturbedInv
  <2>3. ~Contended(b) /\ (Restart => ~HalfDone(b))
    <3>1. Restart => restarts' # restarts
      BY DEF Restart, TypeInv, ChainTypeOK
    <3>2. QED
      BY <2>1, <3>1 DEF Disturbance
  <2>4. CASE \/ \E p \in Propositions : TryWith(p)
             \/ \E x \in Bundles : TryToRestore(x)
    BY <1>2, <2>2, <2>4, BeginUndisturbed
  <2>5. CASE Resolve \/ \E a \in Actors : Download(a) \/ Shelter(a)
    <3>1. "resolver" \in Actors
      BY DEF Actors
    <3>2. QED
      BY <1>2, <2>2, <2>3, <2>5, <3>1, AttemptUndisturbed
  <2>6. CASE Cleanup
    BY <1>2, <2>2, <2>3, <2>6, FindOutdatedUndisturbed, FindVictimsUndisturbed, VictimUndisturbed
    DEF Cleanup
  <2>7. CASE Environment
    BY <1>2, <2>2, <2>3, <2>7, EnvironmentUndisturbed
  <2>8. QED
    BY <2>1, <2>4, <2>5, <2>6, <2>7 DEF Step
<1>3. ASSUME NEW b \in Bundles, b \notin disturbed', UNCHANGED vars PROVE BundleInv(b)'
  <2>1. Untouched(b) /\ b \notin disturbed
    BY <1>3 DEF vars, Untouched, InHand, repoVars, bodyVars, actorVars
  <2>2. QED
    BY <1>3, <2>1, UntouchedStays DEF UndisturbedInv
<1>4. QED
  BY <1>1, <1>2, <1>3 DEF UndisturbedInv

LEMMA UndisturbedInvariant == Spec => []UndisturbedInv
<1>1. Init => UndisturbedInv
  BY UndisturbedInit
<1>2. TypeInv /\ UndisturbedInv /\ [Next]_vars => UndisturbedInv'
  BY UndisturbedStep
<1>3. QED
  BY <1>1, <1>2, TypeInvariant, PTL DEF Spec

(* Outside of Disturbances a SHELTERED bundle has a valid newest body, and its     *)
(* assets and events once nobody works on it, for any number of bundles, donors    *)
(* and restarts: no earlier attempt with an invalid body and no pass of the        *)
(* cleanup before, between or after takes them.                                   *)
THEOREM ShelteredStays == Spec => []ShelteredIsKept
<1>1. ASSUME UndisturbedInv, NEW b \in Bundles \ disturbed, status[b] = "SHELTERED"
      PROVE  Held(b) /\ (Idle(b) => b \in unpacked)
  BY <1>1 DEF UndisturbedInv, BundleInv, ShelteredWhole, Idle
<1>2. UndisturbedInv => ShelteredIsKept
  BY <1>1 DEF ShelteredIsKept
<1>3. QED
  BY <1>2, UndisturbedInvariant, PTL

(* Outside of Disturbances what is EXPENDABLE has left neither a body nor assets   *)
(* and events behind, and so it is when an EXPENDABLE bundle was tried again.      *)
THEOREM ExpendableLeavesNothing == Spec => []ExpendableIsEmpty
<1>1. ASSUME UndisturbedInv, NEW b \in Bundles \ disturbed, status[b] = "EXPENDABLE", Idle(b)
      PROVE  files[b] = <<>> /\ b \notin unpacked
  BY <1>1 DEF UndisturbedInv, BundleInv, BodyAccounted, EntitiesAccounted, Idle, BeingCleaned
<1>2. UndisturbedInv => ExpendableIsEmpty
  BY <1>1 DEF ExpendableIsEmpty
<1>3. QED
  BY <1>2, UndisturbedInvariant, PTL

\* OnlyCleanupIsRemoved of the bundles that no attempt, stream or crash meets while
\* they are cleaned.
OnlyCleanupIsRemovedAlone ==
    [][\A b \in Bundles \ disturbed' :
           /\ Len(files'[b]) < Len(files[b]) => status[b] = "CLEANUP"
           /\ status[b] = "SHELTERED" => status'[b] # "EXPENDABLE"]_vars

(* The cleanup deletes a body of a bundle that is not to be removed, or makes a     *)
(* SHELTERED bundle EXPENDABLE, only where an attempt or a stream has met it there:  *)
(* with bundles that it has for itself it does what findOutdatedBundles intends.    *)
THEOREM CleanupKeepsToItself == Spec => OnlyCleanupIsRemovedAlone
<1> DEFINE Kind(b) == /\ Len(files'[b]) < Len(files[b]) => status[b] = "CLEANUP"
                      /\ status[b] = "SHELTERED" => status'[b] # "EXPENDABLE"
<1>1. ASSUME TypeInv, UndisturbedInv, Next, NEW b \in Bundles \ disturbed',
             Len(files'[b]) < Len(files[b])
      PROVE  status[b] = "CLEANUP"
  <2>1. /\ files[b] \in Seq(Quality) /\ files \in [Bundles -> Seq(Quality)]
        /\ target \in [Actors -> Bundles]
    BY <1>1, Typed
  <2>2. ASSUME NEW q \in Quality PROVE ~(Len(Append(files[b], q)) < Len(files[b]))
    <3>1. Len(Append(files[b], q)) = Len(files[b]) + 1 /\ Len(files[b]) \in Nat
      BY <2>1
    <3>2. QED
      BY <3>1
  <2>3. \A q \in Quality : files'[b] # Append(files[b], q)
    BY <1>1, <2>2
  <2>4. files'[b] # files[b]
    BY <1>1, <2>1
  <2>5. ASSUME NEW a \in Actors, DownloadBody(a) PROVE FALSE
    BY <2>1, <2>3, <2>4, <2>5 DEF DownloadBody, Quality
  <2>6. ASSUME NEW x \in Bundles, StreamEnds(x) PROVE FALSE
    BY <2>1, <2>3, <2>4, <2>6 DEF StreamEnds, Quality
  <2>7. DeleteFile
    BY <1>1, <2>4, <2>5, <2>6
       DEF Next, Step, TryWith, TryToRestore, Download, CheckSheltered, CreateMetadata, RefuseBody,
           DownloadBreaks, SetCleanup, SetDownloaded, Shelter, MarkAsSheltered, MarkFails, Unpack,
           AnotherDonor, GiveUp, Resolve, ResolveOnChain, ResolveFails, RememberFailure, Cleanup,
           FindOutdated, FindVictims, NextVictim, CleanupDone, RemoveEntities, NoMoreFiles,
           SetExpendable, Environment, ForgetFailure, CloseProposition, Tick, Restart, bodyVars
  <2>8. BeingCleaned(b)
    BY <2>1, <2>4, <2>7 DEF DeleteFile, BeingCleaned
  <2>9. b \notin disturbed
    BY <1>1 DEF Next, Record
  <2>10. QED
    BY <1>1, <2>8, <2>9 DEF UndisturbedInv, BundleInv, ToClean
<1>2. ASSUME TypeInv, UndisturbedInv, Next, NEW b \in Bundles \ disturbed',
             status[b] = "SHELTERED", status'[b] = "EXPENDABLE"
      PROVE  FALSE
  <2>1. SetExpendable
    BY <1>2, Typed
       DEF Next, Step, TryWith, TryToRestore, Download, CheckSheltered, CreateMetadata, DownloadBody,
           RefuseBody, DownloadBreaks, SetCleanup, SetDownloaded, Shelter, MarkAsSheltered,
           MarkFails, Unpack, AnotherDonor, GiveUp, Resolve, ResolveOnChain, ResolveFails,
           SetRepository, RememberFailure, Cleanup, FindOutdated, FindVictims, NextVictim,
           CleanupDone, DeleteFile, RemoveEntities, NoMoreFiles, Environment, ForgetFailure,
           CloseProposition, StreamEnds, Tick, Restart, repoVars
  <2>2. BeingCleaned(b)
    BY <1>2, <2>1, Typed DEF SetExpendable, SetRepository, BeingCleaned
  <2>3. b \notin disturbed
    BY <1>2 DEF Next, Record
  <2>4. QED
    BY <1>2, <2>2, <2>3 DEF UndisturbedInv, BundleInv, ToClean
<1>3. TypeInv /\ UndisturbedInv /\ [Next]_vars => [\A b \in Bundles \ disturbed' : Kind(b)]_vars
  BY <1>1, <1>2
<1>4. QED
  BY <1>3, TypeInvariant, UndisturbedInvariant, PTL DEF Spec, OnlyCleanupIsRemovedAlone
=============================================================================
