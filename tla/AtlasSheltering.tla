--------------------------- MODULE AtlasSheltering ---------------------------
(***************************************************************************)
(* The bundles of an Atlas node: its resolver, its restorer and its cleanup  *)
(* worker share one process, one GridFS bucket and the field repository of   *)
(* bundle_metadata, and interleave at every await.  Each of them holds its    *)
(* own lock of workerTasks or none, so no lock keeps them apart.             *)
(***************************************************************************)
EXTENDS Naturals, Sequences

CONSTANTS
    Propositions,    \* challenges and transfers designated to this node
    Bundles,
    BundleOf,        \* the bundle a proposition is about
    MaxDonors,       \* donors of a bundle: its shelterers and its uploader
    ChallengeEnd,    \* when a proposition expires
    ShelterEnd,      \* when the sheltering of a bundle expires
    MaxTime,         \* bound on the clock
    Lost,            \* bundles the node shelters that its database has lost
    MaxFiles,        \* bound on the files of one bundle: no body is fetched beyond it
    MaxRestarts      \* bound on the restarts of the process

NoHold == MaxTime + 1    \* repository has no holdUntil: never outdated

ASSUME AtlasAssumption ==
    /\ Propositions # {}
    /\ BundleOf \in [Propositions -> Bundles]
    /\ MaxDonors \in Nat \ {0}
    /\ MaxTime \in Nat /\ ChallengeEnd \in 1 .. MaxTime
    /\ ShelterEnd \in ChallengeEnd .. MaxTime
    /\ Lost \subseteq Bundles
    /\ MaxFiles \in Nat \ {0} /\ MaxRestarts \in Nat

Actors == {"resolver", "restorer"}

VARIABLES
    now,        \* the clock, in units that matter to holdUntil
    open,       \* propositions nobody has resolved on the chain
    ours,       \* bundles the chain says this node shelters
    status,     \* repository.status of each bundle, "absent" without metadata
    hold,       \* repository.holdUntil
    files,      \* GridFS files of each bundle's name, oldest first: good, bad or late
    streams,    \* streams into GridFS that outlived the verdict on their body
    unpacked,   \* bundles whose assets and events are in the database
    failed,     \* FailedResolutionsCache
    toRestore,  \* bundles the restorer's loop has still to visit
    pc, target, \* where resolver and restorer are, and their bundle
    donors,     \* donors each has left
    prop,       \* the proposition the resolver works on
    cpc,        \* where the cleanup worker is
    victims,    \* bundles its cursor over CLEANUP has still to return
    victim,     \* the bundle it removes
    filesLeft,  \* files of it that its cursor has still to return
    restarts,   \* how often the process has ended and started again
    disturbed   \* history, which no step reads: bundles that got into a Disturbance

clockVars == <<now, restarts>>
chainVars == <<open, ours>>
repoVars == <<status, hold>>
bodyVars == <<files, streams>>
actorVars == <<pc, target, donors, prop>>
cleanupVars == <<cpc, victims, victim, filesLeft>>
vars == <<clockVars, chainVars, repoVars, bodyVars, unpacked, failed, toRestore, actorVars,
          cleanupVars, disturbed>>

TypeOK ==
    /\ now \in 1 .. MaxTime
    /\ open \subseteq Propositions
    /\ ours \subseteq Bundles
    /\ status \in [Bundles -> {"absent", "SHELTERING_CANDIDATE", "DOWNLOADED", "SHELTERED",
                               "CLEANUP", "EXPENDABLE"}]
    /\ hold \in [Bundles -> 0 .. NoHold]
    /\ files \in [Bundles -> Seq({"good", "bad", "late"})]
    /\ streams \in [Bundles -> Nat]
    /\ unpacked \subseteq Bundles
    /\ failed \subseteq Propositions
    /\ toRestore \subseteq Bundles
    /\ pc \in [Actors -> {"idle", "check", "create", "body", "invalid", "downloaded",
                          "resolve", "mark", "unpack", "failing", "lost"}]
    /\ target \in [Actors -> Bundles]
    /\ donors \in [Actors -> 0 .. MaxDonors]
    /\ prop \in Propositions
    /\ cpc \in {"idle", "find", "next", "file", "entities", "expend"}
    /\ victims \subseteq Bundles
    /\ victim \in Bundles
    /\ filesLeft \in Nat
    /\ restarts \in 0 .. MaxRestarts
    /\ disturbed \subseteq Bundles

\* BundlesRestorer.restore, started half a second after the workers, has found
\* which bundles the chain lists for this node and the database does not have.
Init ==
    /\ now = 1
    /\ open = Propositions
    /\ ours = Lost
    /\ status = [b \in Bundles |-> "absent"]
    /\ hold = [b \in Bundles |-> NoHold]
    /\ files = [b \in Bundles |-> <<>>]
    /\ streams = [b \in Bundles |-> 0]
    /\ unpacked = {}
    /\ failed = {}
    /\ toRestore = Lost
    /\ pc = [a \in Actors |-> "idle"]
    /\ target = [a \in Actors |-> CHOOSE b \in Bundles : TRUE]
    /\ donors = [a \in Actors |-> 0]
    /\ prop = CHOOSE p \in Propositions : TRUE
    /\ cpc = "idle"
    /\ victims = {}
    /\ victim = CHOOSE b \in Bundles : TRUE
    /\ filesLeft = 0
    /\ restarts = 0
    /\ disturbed = {}

Goto(a, next) == pc' = [pc EXCEPT ![a] = next]

\* setBundleRepository replaces the whole field: holdUntil is dropped unless given.
SetRepository(b, s, until) ==
    /\ status' = [status EXCEPT ![b] = s]
    /\ hold' = [hold EXCEPT ![b] = until]

\* GridFS reads the newest file of a name.
Newest(b, quality) == files[b] # <<>> /\ files[b][Len(files[b])] = quality

Held(b) == Newest(b, "good")

-----------------------------------------------------------------------------
(* BundleShelteringResolver.tryWith and BundlesRestorer.restore *)

RoomFor(b) == Len(files[b]) + streams[b] < MaxFiles

\* The proposition did not fail recently, the chain says it is this node's turn,
\* and the strategy wants the bundle; whether it has expired is not asked.
TryWith(p) ==
    /\ pc["resolver"] = "idle"
    /\ p \in open
    /\ p \notin failed
    /\ RoomFor(BundleOf[p])
    /\ prop' = p
    /\ target' = [target EXCEPT !["resolver"] = BundleOf[p]]
    /\ donors' = [donors EXCEPT !["resolver"] = MaxDonors]
    /\ Goto("resolver", "check")
    /\ UNCHANGED <<clockVars, chainVars, repoVars, bodyVars, unpacked, failed, toRestore,
                   cleanupVars>>

\* A bundle that is no longer sheltered on the chain is passed over; the transfer of it
\* that is cancelled then is one this node has begun, a proposition for others.
TryToRestore(b) ==
    /\ pc["restorer"] = "idle"
    /\ b \in toRestore
    /\ toRestore' = toRestore \ {b}
    /\ IF b \in ours /\ now < ShelterEnd
         THEN /\ target' = [target EXCEPT !["restorer"] = b]
              /\ donors' = [donors EXCEPT !["restorer"] = MaxDonors]
              /\ Goto("restorer", "check")
         ELSE UNCHANGED <<target, donors, pc>>
    /\ UNCHANGED <<clockVars, chainVars, repoVars, bodyVars, unpacked, failed, prop,
                   cleanupVars>>

\* The restorer passes shelteringExpirationDate, in seconds, where downloadBundle
\* makes a Date of milliseconds: a time in 1970.
HoldFor(a) == IF a = "resolver" THEN ChallengeEnd ELSE 0

-----------------------------------------------------------------------------
(* DataModelEngine.downloadBundle *)

\* isBundleSheltered
CheckSheltered(a) ==
    /\ pc[a] = "check"
    /\ Goto(a, IF status[target[a]] = "SHELTERED" THEN "failing" ELSE "create")
    /\ UNCHANGED <<clockVars, chainVars, repoVars, bodyVars, unpacked, failed, toRestore,
                   target, donors, prop, cleanupVars>>

\* createBundleMetadata leaves an existing document as it is.
CreateMetadata(a) ==
    /\ pc[a] = "create"
    /\ IF status[target[a]] = "absent"
         THEN SetRepository(target[a], "SHELTERING_CANDIDATE", HoldFor(a))
         ELSE UNCHANGED repoVars
    /\ Goto(a, "body")
    /\ UNCHANGED <<clockVars, chainVars, bodyVars, unpacked, failed, toRestore, target, donors,
                   prop, cleanupVars>>

\* Mutant: a body that is not valid is taken for one that is.
AcceptAnyBody(a) ==
    /\ pc[a] = "body"
    /\ RoomFor(target[a])
    /\ \E quality \in {"good", "bad"} : files' = [files EXCEPT ![target[a]] = Append(@, quality)]
    /\ Goto(a, "downloaded")
    /\ UNCHANGED <<clockVars, chainVars, repoVars, streams, unpacked, failed, toRestore, target,
                   donors, prop, cleanupVars>>

\* The body is streamed to a new GridFS file and its content is validated when it is
\* there; an invalid one stays in the bucket.
DownloadBody(a) ==
    /\ pc[a] = "body"
    /\ RoomFor(target[a])
    /\ \E quality \in {"good", "bad"} :
          /\ files' = [files EXCEPT ![target[a]] = Append(@, quality)]
          /\ Goto(a, IF quality = "good" THEN "downloaded" ELSE "invalid")
    /\ UNCHANGED <<clockVars, chainVars, repoVars, streams, unpacked, failed, toRestore, target,
                   donors, prop, cleanupVars>>

\* What is no JSON is refused as soon as the parser meets it: Promise.all rejects, and
\* the pipeline into GridFS goes on by itself ...
RefuseBody(a) ==
    /\ pc[a] = "body"
    /\ RoomFor(target[a])
    /\ streams' = [streams EXCEPT ![target[a]] = @ + 1]
    /\ Goto(a, "invalid")
    /\ UNCHANGED <<clockVars, chainVars, repoVars, files, unpacked, failed, toRestore, target,
                   donors, prop, cleanupVars>>

\* ... until it has made the file, the newest by then, or the connection breaks.
StreamEnds(b) ==
    /\ streams[b] > 0
    /\ streams' = [streams EXCEPT ![b] = @ - 1]
    /\ \/ files' = [files EXCEPT ![b] = Append(@, "late")]
       \/ UNCHANGED files
    /\ UNCHANGED <<clockVars, chainVars, repoVars, unpacked, failed, toRestore, actorVars,
                   cleanupVars>>

\* The donor cannot be reached, or the connection breaks: the stream is aborted.
DownloadBreaks(a) ==
    /\ pc[a] = "body"
    /\ Goto(a, "failing")
    /\ UNCHANGED <<clockVars, chainVars, repoVars, bodyVars, unpacked, failed, toRestore,
                   target, donors, prop, cleanupVars>>

SetCleanup(a) ==
    /\ pc[a] = "invalid"
    /\ SetRepository(target[a], "CLEANUP", NoHold)
    /\ Goto(a, "failing")
    /\ UNCHANGED <<clockVars, chainVars, bodyVars, unpacked, failed, toRestore, target, donors,
                   prop, cleanupVars>>

\* Mutant: the status is updated without holdUntil.
SetDownloadedForever(a) ==
    /\ pc[a] = "downloaded"
    /\ SetRepository(target[a], "DOWNLOADED", NoHold)
    /\ Goto(a, IF a = "resolver" THEN "resolve" ELSE "mark")
    /\ UNCHANGED <<clockVars, chainVars, bodyVars, unpacked, failed, toRestore, target, donors,
                   prop, cleanupVars>>

SetDownloaded(a) ==
    /\ pc[a] = "downloaded"
    /\ SetRepository(target[a], "DOWNLOADED", HoldFor(a))
    /\ Goto(a, IF a = "resolver" THEN "resolve" ELSE "mark")
    /\ UNCHANGED <<clockVars, chainVars, bodyVars, unpacked, failed, toRestore, target, donors,
                   prop, cleanupVars>>

-----------------------------------------------------------------------------
(* tryToResolve and markBundleAsSheltered *)

\* The contract takes the resolution of a proposition that is open and in time.
ResolveOnChain ==
    /\ pc["resolver"] = "resolve"
    /\ prop \in open /\ now < ChallengeEnd
    /\ open' = open \ {prop}
    /\ ours' = ours \cup {target["resolver"]}
    /\ Goto("resolver", "mark")
    /\ UNCHANGED <<clockVars, repoVars, bodyVars, unpacked, failed, toRestore, target, donors,
                   prop, cleanupVars>>

RememberFailure ==
    /\ failed' = failed \cup {prop}
    /\ Goto("resolver", "idle")
    /\ UNCHANGED <<clockVars, repoVars, bodyVars, unpacked, toRestore, target, donors, prop,
                   cleanupVars>>

\* It is refused, or the call throws although the chain took it.
ResolveFails ==
    /\ pc["resolver"] = "resolve"
    /\ \/ UNCHANGED chainVars
       \/ /\ prop \in open /\ now < ChallengeEnd
          /\ open' = open \ {prop}
          /\ ours' = ours \cup {target["resolver"]}
    /\ RememberFailure

\* Mutant: the expiration date is converted to milliseconds twice.
MarkTooLong(a) ==
    /\ pc[a] = "mark"
    /\ SetRepository(target[a], "SHELTERED", ShelterEnd * 1000)
    /\ Goto(a, "unpack")
    /\ UNCHANGED <<clockVars, chainVars, bodyVars, unpacked, failed, toRestore, target, donors,
                   prop, cleanupVars>>

\* Mutant: the assets and events of the bundle are not unpacked.
MarkOnly(a) ==
    /\ pc[a] = "mark"
    /\ SetRepository(target[a], "SHELTERED", ShelterEnd)
    /\ Goto(a, "idle")
    /\ UNCHANGED <<clockVars, chainVars, bodyVars, unpacked, failed, toRestore, target, donors, prop,
                   cleanupVars>>

MarkAsSheltered(a) ==
    /\ pc[a] = "mark"
    /\ SetRepository(target[a], "SHELTERED", ShelterEnd)
    /\ Goto(a, "unpack")
    /\ UNCHANGED <<clockVars, chainVars, bodyVars, unpacked, failed, toRestore, target, donors,
                   prop, cleanupVars>>

\* The resolver tries other donors only while it downloads; the restorer's loop
\* over the donors covers marking and unpacking too.
FailureAfterDownload(a) == IF a = "resolver" THEN "lost" ELSE "failing"

\* The expiration date cannot be read from the chain.
MarkFails(a) ==
    /\ pc[a] = "mark"
    /\ Goto(a, FailureAfterDownload(a))
    /\ UNCHANGED <<clockVars, chainVars, repoVars, bodyVars, unpacked, failed, toRestore,
                   target, donors, prop, cleanupVars>>

\* getBundle reads the newest file: without one it is null, and a refused one is no JSON
\* or has no entries to store, unless the fault lies elsewhere in it.
Unpack(a) ==
    /\ pc[a] = "unpack"
    /\ \/ /\ Held(target[a]) \/ Newest(target[a], "bad")
          /\ unpacked' = unpacked \cup {target[a]}
          /\ Goto(a, "idle")
       \/ /\ ~Held(target[a])
          /\ Goto(a, FailureAfterDownload(a))
          /\ UNCHANGED unpacked
    /\ UNCHANGED <<clockVars, chainVars, repoVars, bodyVars, failed, toRestore, target, donors,
                   prop, cleanupVars>>

-----------------------------------------------------------------------------
(* Failures and retries *)

AnotherDonor(a) ==
    /\ pc[a] = "failing"
    /\ donors[a] > 1
    /\ donors' = [donors EXCEPT ![a] = @ - 1]
    /\ Goto(a, "check")
    /\ UNCHANGED <<clockVars, chainVars, repoVars, bodyVars, unpacked, failed, toRestore,
                   target, prop, cleanupVars>>

GiveUp(a) ==
    /\ pc[a] = "lost" \/ (pc[a] = "failing" /\ donors[a] <= 1)
    /\ failed' = IF a = "resolver" THEN failed \cup {prop} ELSE failed
    /\ Goto(a, "idle")
    /\ UNCHANGED <<clockVars, chainVars, repoVars, bodyVars, unpacked, toRestore, target,
                   donors, prop, cleanupVars>>

\* retryTimeout later, a day by default.
ForgetFailure(p) ==
    /\ p \in failed
    /\ failed' = failed \ {p}
    /\ UNCHANGED <<clockVars, chainVars, repoVars, bodyVars, unpacked, toRestore, actorVars,
                   cleanupVars>>

\* Another node resolves the proposition, or it is cancelled.
CloseProposition(p) ==
    /\ p \in open
    /\ open' = open \ {p}
    /\ UNCHANGED <<clockVars, ours, repoVars, bodyVars, unpacked, failed, toRestore, actorVars,
                   cleanupVars>>

Tick ==
    /\ now < MaxTime
    /\ now' = now + 1
    /\ UNCHANGED <<chainVars, repoVars, bodyVars, unpacked, failed, toRestore, actorVars,
                   cleanupVars, restarts>>

\* The process ends between any two calls, whatever its three loops are at; what it has
\* written stays, and of a stream no file.  At its next start the restorer is given what
\* the chain lists for this node and the database does not have as SHELTERED.
Restart ==
    /\ restarts < MaxRestarts
    /\ restarts' = restarts + 1
    /\ failed' = {}
    /\ pc' = [a \in Actors |-> "idle"]
    /\ target' = [a \in Actors |-> CHOOSE b \in Bundles : TRUE]
    /\ donors' = [a \in Actors |-> 0]
    /\ prop' = CHOOSE p \in Propositions : TRUE
    /\ cpc' = "idle"
    /\ victims' = {}
    /\ victim' = CHOOSE b \in Bundles : TRUE
    /\ filesLeft' = 0
    /\ toRestore' = {b \in ours : now < ShelterEnd /\ status[b] # "SHELTERED"}
    /\ streams' = [b \in Bundles |-> 0]
    /\ UNCHANGED <<now, chainVars, repoVars, files, unpacked>>

-----------------------------------------------------------------------------
(* CleanupWorker: cleanupOutdatedBundles *)

\* Every document of a node that was migrated has a field repository.
Outdated(b) == hold[b] < now

FindOutdated ==
    /\ cpc = "idle"
    /\ status' = [b \in Bundles |-> IF Outdated(b) THEN "CLEANUP" ELSE status[b]]
    /\ hold' = [b \in Bundles |-> IF Outdated(b) THEN NoHold ELSE hold[b]]
    /\ cpc' = "find"
    /\ UNCHANGED <<clockVars, chainVars, bodyVars, unpacked, failed, toRestore, actorVars,
                   victims, victim, filesLeft>>

FindVictims ==
    /\ cpc = "find"
    /\ victims' = {b \in Bundles : status[b] = "CLEANUP"}
    /\ cpc' = "next"
    /\ UNCHANGED <<clockVars, chainVars, repoVars, bodyVars, unpacked, failed, toRestore,
                   actorVars, victim, filesLeft>>

\* removeBundle: the files of that name ...
NextVictim ==
    /\ cpc = "next"
    /\ \E b \in victims :
          /\ victim' = b
          /\ victims' = victims \ {b}
          /\ filesLeft' = Len(files[b])
    /\ cpc' = "file"
    /\ UNCHANGED <<clockVars, chainVars, repoVars, bodyVars, unpacked, failed, toRestore,
                   actorVars>>

CleanupDone ==
    /\ cpc = "next"
    /\ victims = {}
    /\ cpc' = "idle"
    /\ UNCHANGED <<clockVars, chainVars, repoVars, bodyVars, unpacked, failed, toRestore,
                   actorVars, victims, victim, filesLeft>>

\* Mutant: only the newest file is removed.
DeleteOneFile ==
    /\ cpc = "file"
    /\ filesLeft > 0
    /\ files' = [files EXCEPT ![victim] = Tail(@)]
    /\ filesLeft' = 0
    /\ cpc' = "entities"
    /\ UNCHANGED <<clockVars, chainVars, repoVars, streams, unpacked, failed, toRestore,
                   actorVars, victims, victim>>

\* ... are deleted one by one ...
DeleteFile ==
    /\ cpc = "file"
    /\ filesLeft > 0
    /\ files' = [files EXCEPT ![victim] = Tail(@)]
    /\ filesLeft' = filesLeft - 1
    /\ cpc' = "entities"
    /\ UNCHANGED <<clockVars, chainVars, repoVars, streams, unpacked, failed, toRestore,
                   actorVars, victims, victim>>

\* ... with the assets and events of the bundle after each of them ...
RemoveEntities ==
    /\ cpc = "entities"
    /\ unpacked' = unpacked \ {victim}
    /\ cpc' = "file"
    /\ UNCHANGED <<clockVars, chainVars, repoVars, bodyVars, failed, toRestore, actorVars,
                   victims, victim, filesLeft>>

NoMoreFiles ==
    /\ cpc = "file"
    /\ filesLeft = 0
    /\ cpc' = "expend"
    /\ UNCHANGED <<clockVars, chainVars, repoVars, bodyVars, unpacked, failed, toRestore,
                   actorVars, victims, victim, filesLeft>>

\* ... and the status is set, whatever it has become in the meantime.
SetExpendable ==
    /\ cpc = "expend"
    /\ SetRepository(victim, "EXPENDABLE", NoHold)
    /\ cpc' = "next"
    /\ UNCHANGED <<clockVars, chainVars, bodyVars, unpacked, failed, toRestore, actorVars,
                   victims, victim, filesLeft>>

-----------------------------------------------------------------------------
(* Attempts, cleanup and streams that meet at a bundle.  No lock keeps them apart and the   *)
(* code breaks what is said below when they do: an attempt still on its way when the       *)
(* cleanup has listed its bundle, a stream that ends after another body came, or the end    *)
(* of the process between two writes that belong together.                                *)

InHand(a, b) == pc[a] # "idle" /\ target[a] = b

BeingCleaned(b) == b \in victims \/ (cpc \in {"file", "entities", "expend"} /\ victim = b)

\* An attempt that is not the one the stream was left by.
TriedAgain(a, b) == InHand(a, b) /\ pc[a] \notin {"invalid", "failing", "lost"}

Contended(b) ==
    \/ BeingCleaned(b) /\ (streams[b] > 0 \/ \E a \in Actors : InHand(a, b))
    \/ streams[b] > 0 /\ \E a \in Actors : TriedAgain(a, b)
    \/ \A a \in Actors : InHand(a, b)

\* A file without its status, a status without its entities, entities without their file.
HalfDone(b) ==
    \/ \E a \in Actors : InHand(a, b) /\ pc[a] \in {"invalid", "downloaded", "unpack"}
    \/ cpc = "entities" /\ victim = b

Disturbance(b) == Contended(b) \/ (restarts' # restarts /\ HalfDone(b))

Record == disturbed' = disturbed \cup {b \in Bundles : Disturbance(b)}

-----------------------------------------------------------------------------
Download(a) ==
    \/ CheckSheltered(a) \/ CreateMetadata(a) \/ DownloadBody(a) \/ RefuseBody(a)
    \/ DownloadBreaks(a) \/ SetCleanup(a) \/ SetDownloaded(a)

Shelter(a) == MarkAsSheltered(a) \/ MarkFails(a) \/ Unpack(a) \/ AnotherDonor(a) \/ GiveUp(a)

Resolve == ResolveOnChain \/ ResolveFails

Cleanup ==
    \/ FindOutdated \/ FindVictims \/ NextVictim \/ CleanupDone
    \/ DeleteFile \/ RemoveEntities \/ NoMoreFiles \/ SetExpendable

Environment ==
    \/ \E p \in Propositions : ForgetFailure(p) \/ CloseProposition(p)
    \/ \E b \in Bundles : StreamEnds(b)
    \/ Tick
    \/ Restart

Step ==
    \/ \E p \in Propositions : TryWith(p)
    \/ \E b \in Bundles : TryToRestore(b)
    \/ \E a \in Actors : Download(a) \/ Shelter(a)
    \/ Resolve
    \/ Cleanup
    \/ Environment

Next == Step /\ Record

Spec == Init /\ [][Next]_vars

\* The loops of the process keep being scheduled, and time passes.
Fairness ==
    /\ \A a \in Actors : WF_vars(Download(a) /\ Record) /\ WF_vars(Shelter(a) /\ Record)
    /\ WF_vars(Resolve /\ Record)
    /\ WF_vars(Cleanup /\ Record)
    /\ WF_vars(Tick /\ Record)

FairSpec == Spec /\ Fairness

-----------------------------------------------------------------------------
(* What keeping bundles means *)

Idle(b) == ~BeingCleaned(b) /\ \A a \in Actors : ~InHand(a, b)

\* A bundle the node calls SHELTERED has a body, and the newest one, which is the one
\* read, is valid; once nobody works on it its assets and events are in the database.
\* However many donors sent an invalid body or none before, whatever passes of the cleanup
\* and restarts came in between, and however slow all are, as long as its attempts, its
\* cleanup and its streams did not get into a Disturbance (downloadBundle,
\* markBundleAsSheltered, removeBundle).
ShelteredIsKept ==
    \A b \in Bundles \ disturbed :
        status[b] = "SHELTERED" => Held(b) /\ (Idle(b) => b \in unpacked)

\* The newest body of a SHELTERED bundle, which is the one GridFS reads, is never
\* one whose status became CLEANUP after it was stored: however many donors were tried,
\* however the cleanup and the restorer got in between and wherever the process ended, in
\* a Disturbance too.  A stream that ends late does put its file there (RefuseBody).
NoInvalidBody == \A b \in Bundles : status[b] = "SHELTERED" => ~Newest(b, "bad")

\* An EXPENDABLE bundle nobody works on has left neither a file nor entities behind,
\* unless it got into a Disturbance: nothing looks for them any more, as EXPENDABLE has no
\* holdUntil and createBundleMetadata leaves the status of a bundle that is tried again.
ExpendableIsEmpty ==
    \A b \in Bundles \ disturbed :
        status[b] = "EXPENDABLE" /\ Idle(b) => files[b] = <<>> /\ b \notin unpacked

\* A bundle is EXPENDABLE, unknown, waiting for the cleanup or held until some time, also
\* while it is worked on: no crash and no slow actor leaves one as a candidate or as sheltered
\* without the holdUntil that findOutdatedBundles looks at.
NothingIsForgotten ==
    \A b \in Bundles : status[b] \in {"absent", "CLEANUP", "EXPENDABLE"} \/ hold[b] # NoHold

\* The cleanup deletes only bodies of bundles that have status CLEANUP, and never
\* turns a SHELTERED bundle into an EXPENDABLE one (cleanupBundles, removeBundle).
OnlyCleanupIsRemoved ==
    [][\A b \in Bundles : /\ Len(files'[b]) < Len(files[b]) => status[b] = "CLEANUP"
                          /\ status[b] = "SHELTERED" => status'[b] # "EXPENDABLE"]_vars

\* Once no proposition is open any more, every bundle leaves the disk after its time:
\* invalid ones, those not won, those whose sheltering has expired, and what a crash or a
\* retry left of them (cleanupOutdatedBundles), except after a Disturbance.
EveryBundleIsDropped ==
    <>[](open = {}) =>
        <>[](\A b \in Bundles \ disturbed : files[b] = <<>> /\ b \notin unpacked)
=============================================================================
