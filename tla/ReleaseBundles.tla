--------------------------- MODULE ReleaseBundles ---------------------------
(***************************************************************************)
(* An Atlas node whose operator puts it in retire mode.  Its worker asks    *)
(* for the mode at every tick and, in retire mode, calls process() of the   *)
(* release service without waiting for it: the lock of the work type is     *)
(* given back at once and calls of process() overlap.  In normal mode it    *)
(* empties the service, at work or not.  An error that no call catches      *)
(* ends the process.                                                        *)
(*                                                                         *)
(* One action is the code from one await to the next.                       *)
(***************************************************************************)
EXTENDS RetireTransfers

CONSTANTS
    Calls,          \* bound: calls of process() that are under way at once
    MaxOngoing,     \* MAX_ONGOING_TRANSFERS
    MaxChecks,      \* MAX_SHELTERING_CHECKS
    NoBundle,
    MaxTroubles     \* bound: changes of mode, cancellations and other donors' events,
                    \* calls that throw and kills, together

ASSUME ReleaseAssumption ==
    /\ IsFiniteSet(Calls)
    /\ MaxOngoing \in Nat \ {0} /\ MaxChecks \in Nat \ {0}
    /\ NoBundle \notin Bundles
    /\ MaxTroubles \in Nat

VARIABLES
    body,       \* bundles with a file in the bucket
    kept,       \* bundles whose status is SHELTERED
    mode, info, \* the document of operationalmode
    lock,       \* whether workerTasks has a ReleaseBundles document
    wpc,        \* where the worker's tick is
    service,    \* shelteredBundles and modeInfo, null together
    call,       \* the local variables of each call of process()
    crowd,      \* history: the most calls that were under way together
    again,      \* history: bundles the node has come to shelter again
    switches, foreign, failures, restarts    \* how often each has happened

storeVars == <<body, kept, mode, info>>
historyVars == <<crowd, again>>
boundVars == <<switches, foreign, failures, restarts>>
vars == <<contractVars, repositoryVars, storeVars, lock, wpc, service, call, historyVars, boundVars>>

NoInfo == [total |-> 0, transfers |-> 0, transfered |-> 0, now |-> 0]
Info == [total : Nat, transfers : Nat, transfered : Nat, now : Nat]

Null == [loaded |-> FALSE, bundles |-> {}, total |-> 0, transfers |-> 0, transfered |-> 0]
Service == [loaded : BOOLEAN, bundles : SUBSET Bundles, total : Nat, transfers : Nat,
            transfered : Nat]

NoCall == [at |-> "idle", from |-> 0, upTo |-> 0, count |-> 0, resolved |-> <<>>, todo |-> {},
           bundle |-> NoBundle, begun |-> 0, checks |-> 0, updated |-> FALSE]

CallRecord ==
    [at : {"idle", "load", "scan", "fetch", "files", "status", "select", "check", "start",
           "extraFiles", "extraStatus", "sleep"},
     from : Nat, upTo : Nat, count : Nat, resolved : Seq(Transfers), todo : SUBSET Bundles,
     bundle : Bundles \cup {NoBundle}, begun : Nat, checks : Nat, updated : BOOLEAN]

TypeOK ==
    /\ RetireTypeOK
    /\ body \subseteq Bundles /\ kept \subseteq Bundles /\ again \subseteq Bundles
    /\ mode \in {"normal", "retire"} /\ info \in Info
    /\ lock \in BOOLEAN /\ wpc \in {"idle", "begin", "finish", "normal"}
    /\ service \in Service /\ (~service.loaded => service = Null)
    /\ call \in [Calls -> CallRecord]
    /\ crowd \in 0..Cardinality(Calls)
    /\ switches \in Nat /\ foreign \in Nat /\ failures \in Nat /\ restarts \in Nat
    /\ lastSaved <= CurrentBlock
    /\ \A c \in Calls : call[c].begun < MaxOngoing /\ call[c].checks <= MaxChecks

Init ==
    /\ RetireInit
    /\ body = Bundles /\ kept = Bundles
    /\ mode \in {"normal", "retire"} /\ info = NoInfo
    /\ lock = FALSE /\ wpc = "idle"
    /\ service = Null
    /\ call = [c \in Calls |-> NoCall]
    /\ crowd = 0 /\ again = {}
    /\ switches = 0 /\ foreign = 0 /\ failures = 0 /\ restarts = 0

MayStumble == switches + foreign + failures + restarts < MaxTroubles

-----------------------------------------------------------------------------
(* The end of the process: memory is lost, the documents are not. *)

Exit ==
    /\ active' = {} /\ pending' = <<>> /\ lastSaved' = 0
    /\ wpc' = "idle"
    /\ service' = Null
    /\ call' = [c \in Calls |-> NoCall]
    /\ restarts' = restarts + 1
    /\ UNCHANGED <<lock, historyVars, switches, foreign>>

\* Killed, or a request outside a try block fails.
Restart ==
    /\ MayStumble
    /\ Exit
    /\ UNCHANGED <<contractVars, storeVars, failures>>

-----------------------------------------------------------------------------
(* OperationalMode *)

\* set() with a token that is signed and not expired; others change nothing.
SetMode(m) ==
    /\ MayStumble
    /\ switches' = switches + 1
    /\ mode' = m
    /\ info' = NoInfo
    /\ UNCHANGED <<contractVars, repositoryVars, body, kept, lock, wpc, service, call, historyVars,
                   foreign, failures, restarts>>

Report(s) == [total |-> s.total, transfers |-> s.transfers, transfered |-> s.transfered,
              now |-> Cardinality(s.bundles)]

-----------------------------------------------------------------------------
(* AtlasWorker *)

\* periodicWork, up to the answer of isRetire and what follows in the same turn.
Tick ==
    /\ wpc = "idle"
    /\ IF mode = "retire" THEN wpc' = "begin" /\ UNCHANGED service
                          ELSE wpc' = "normal" /\ service' = Null
    /\ UNCHANGED <<contractVars, repositoryVars, storeVars, lock, call, historyVars, boundVars>>

Busy == {c \in Calls : call[c].at # "idle"}

\* process() runs to its first await; nobody waits for the rest.
RetireOperation ==
    /\ wpc = "begin" /\ ~lock
    /\ lock' = TRUE
    /\ wpc' = "finish"
    /\ \E c \in Calls \ Busy :
          call' = [call EXCEPT ![c] = [NoCall EXCEPT !.at = IF service.loaded THEN "scan" ELSE "load",
                                                     !.from = GetFromBlock]]
    /\ crowd' = IF Cardinality(Busy) >= crowd THEN Cardinality(Busy) + 1 ELSE crowd
    /\ UNCHANGED <<contractVars, repositoryVars, storeVars, service, again, boundVars>>

TaskIsTaken ==
    /\ wpc = "begin" /\ lock
    /\ wpc' = "idle"
    /\ UNCHANGED <<contractVars, repositoryVars, storeVars, lock, service, call, historyVars,
                   boundVars>>

FinishWork ==
    /\ wpc = "finish"
    /\ lock' = FALSE
    /\ wpc' = "idle"
    /\ UNCHANGED <<contractVars, repositoryVars, storeVars, service, call, historyVars, boundVars>>

\* The TTL of a document that a process has left behind.
ExpireTask ==
    /\ lock /\ wpc # "finish"
    /\ lock' = FALSE
    /\ UNCHANGED <<contractVars, repositoryVars, storeVars, wpc, service, call, historyVars,
                   boundVars>>

\* A resolver shelters a bundle; downloadBundle refuses one that has status SHELTERED.
ShelterAgain(b) ==
    /\ wpc = "normal"
    /\ b \notin kept /\ b \notin ours
    /\ ours' = ours \cup {b}
    /\ body' = body \cup {b}
    /\ kept' = kept \cup {b}
    /\ again' = again \cup {b}
    /\ UNCHANGED <<ongoing, log, repositoryVars, mode, info, lock, wpc, service, call, crowd,
                   boundVars>>

EndOfNormal ==
    /\ wpc = "normal"
    /\ wpc' = "idle"
    /\ UNCHANGED <<contractVars, repositoryVars, storeVars, lock, service, call, historyVars,
                   boundVars>>

-----------------------------------------------------------------------------
(* process(): one turn of a call *)

\* What a call goes on with: its variables, the service's, whether it stores the
\* info, and whether it meets a service that was emptied under it and throws.
Goes(record, s) == [record |-> record, service |-> s, stores |-> FALSE, throws |-> FALSE]

\* The transfers that were begun are added, and the info is stored.
Ends(record, s) ==
    [record |-> NoCall, service |-> [s EXCEPT !.transfers = @ + record.begun],
     stores |-> record.updated, throws |-> record.updated /\ ~s.loaded]

Known == [active |-> active, pending |-> pending, lastSaved |-> lastSaved]

Turn(c, known, next) ==
    IF next.throws
      THEN Exit /\ UNCHANGED <<mode, info>>
      ELSE /\ active' = known.active
           /\ pending' = known.pending
           /\ lastSaved' = known.lastSaved
           /\ call' = [call EXCEPT ![c] = next.record]
           /\ service' = next.service
           /\ info' = IF next.stores THEN Report(next.service) ELSE info
           /\ UNCHANGED <<mode, lock, wpc, historyVars, switches, foreign, restarts>>

\* Mutant: the transfers in progress are not counted.
CountNothing(record, s) ==
    IF record.resolved # <<>> THEN Goes([record EXCEPT !.at = "files"], s)
    ELSE IF s.bundles = {} THEN Ends(record, s)
    ELSE Goes([record EXCEPT !.at = "select", !.todo = s.bundles], s)

\* The resolved transfers are dealt with one by one, and if there are not too many
\* in progress selectBundlesForTransfer asks for the expiration of each bundle.
AfterTransfers(record, s) ==
    IF record.resolved # <<>> THEN Goes([record EXCEPT !.at = "files"], s)
    ELSE IF record.count >= MaxOngoing THEN Ends(record, s)
    ELSE IF ~s.loaded THEN [Ends(record, s) EXCEPT !.throws = TRUE]
    ELSE IF s.bundles = {} THEN Ends(record, s)
    ELSE Goes([record EXCEPT !.at = "select", !.todo = s.bundles], s)

AfterBundle(record, s) ==
    IF record.checks >= MaxChecks THEN Ends(record, s)
    ELSE Goes([record EXCEPT !.at = "sleep", !.bundle = NoBundle], s)

-----------------------------------------------------------------------------
(* The bundles and the transfers *)

\* getShelteredBundles(0); setInfo is not awaited.
Load(c) ==
    /\ call[c].at = "load"
    /\ Turn(c, Known, [Goes([call[c] EXCEPT !.at = "scan", !.from = GetFromBlock],
                            [loaded |-> TRUE, bundles |-> kept, total |-> Cardinality(kept),
                             transfers |-> 0, transfered |-> 0]) EXCEPT !.stores = TRUE])
    /\ UNCHANGED <<contractVars, body, kept, failures>>

\* ongoingTransfers and flushResolvedTransfers have returned.
FoundTransfers(c, found, resolved, upTo) ==
    LET taken == {t.bundle : t \in found} \cap service.bundles
        s == [service EXCEPT !.bundles = @ \ taken, !.transfers = @ + Cardinality(taken)]
        record == [NoCall EXCEPT !.count = Cardinality(found), !.resolved = resolved,
                                 !.updated = taken # {}]
        next == AfterTransfers(record, s)
    IN  Turn(c, [active |-> found, pending |-> <<>>, lastSaved |-> upTo],
             [next EXCEPT !.throws = @ \/ (found # {} /\ ~service.loaded)])

\* The current block; there is nothing to fetch when none was mined since.
GetCurrentBlock(c) ==
    /\ call[c].at = "scan"
    /\ IF call[c].from <= CurrentBlock
         THEN Turn(c, Known, Goes([call[c] EXCEPT !.at = "fetch", !.upTo = CurrentBlock], service))
         ELSE FoundTransfers(c, active, pending, lastSaved)
    /\ UNCHANGED <<contractVars, body, kept, failures>>

UpdateTransfers(c) ==
    /\ call[c].at = "fetch"
    /\ \E order \in InOrder(NewlyResolved(call[c].from, call[c].upTo)) :
          LET applied == ApplyIncomingTransferEvents(call[c].from, call[c].upTo, order)
          IN  FoundTransfers(c, applied.active, applied.resolved, call[c].upTo)
    /\ UNCHANGED <<contractVars, body, kept, failures>>

-----------------------------------------------------------------------------
(* Resolved transfers: removeBundle deletes the files and sets the status *)

Resolved(c) == Head(call[c].resolved).bundle
NextResolved(c) == [call[c] EXCEPT !.at = "files", !.resolved = Tail(@)]

RemoveFiles(c) ==
    /\ call[c].at = "files"
    /\ body' = body \ {Resolved(c)}
    /\ Turn(c, Known, Goes([call[c] EXCEPT !.at = "status"], service))
    /\ UNCHANGED <<contractVars, kept, failures>>

Transferred(s, b) ==
    [s EXCEPT !.bundles = @ \ {b}, !.transfered = @ + 1,
              !.transfers = IF @ > 0 THEN @ - 1 ELSE 0]

\* transferDone deletes an index that is not there: nothing changes.  If the
\* service was emptied the error is caught, and only logged.
SetExpendable(c) ==
    /\ call[c].at = "status"
    /\ kept' = kept \ {Resolved(c)}
    /\ IF service.loaded
         THEN Turn(c, Known, AfterTransfers([NextResolved(c) EXCEPT !.updated = TRUE],
                                            Transferred(service, Resolved(c))))
         ELSE Turn(c, Known, AfterTransfers(NextResolved(c), service))
    /\ UNCHANGED <<contractVars, body, failures>>

\* Logged; the transfer was flushed and nobody comes back to it.
RemoveFails(c) ==
    /\ call[c].at \in {"files", "status"}
    /\ MayStumble
    /\ failures' = failures + 1
    /\ Turn(c, Known, AfterTransfers(NextResolved(c), service))
    /\ UNCHANGED <<contractVars, body, kept>>

-----------------------------------------------------------------------------
(* The bundles left, in the order of their expiration: any order *)

NextBundle(c, todo) ==
    IF todo = {}
      THEN Turn(c, Known, Ends(call[c], service))
      ELSE \E b \in todo :
              Turn(c, Known, Goes([call[c] EXCEPT !.at = "check", !.bundle = b, !.todo = todo \ {b},
                                                  !.checks = @ + 1, !.updated = TRUE], service))

\* A bundle another call deletes from the set while it is walked may be missed.
SelectBundles(c) ==
    /\ call[c].at = "select"
    /\ \E missed \in SUBSET (IF service.loaded THEN call[c].todo \ service.bundles ELSE {}) :
          NextBundle(c, call[c].todo \ missed)
    /\ UNCHANGED <<contractVars, body, kept, failures>>

Wake(c) ==
    /\ call[c].at = "sleep"
    /\ NextBundle(c, call[c].todo)
    /\ UNCHANGED <<contractVars, body, kept, failures>>

NeedsService(next) == [next EXCEPT !.throws = @ \/ ~service.loaded]

Without(b) == [service EXCEPT !.bundles = @ \ {b}]

IsSheltering(b) == b \in ours

CheckSheltering(c) ==
    /\ call[c].at = "check"
    /\ IF IsSheltering(call[c].bundle)
         THEN Turn(c, Known, Goes([call[c] EXCEPT !.at = "start"], service))
         ELSE Turn(c, Known, NeedsService(Goes([call[c] EXCEPT !.at = "extraFiles"],
                                               Without(call[c].bundle))))
    /\ UNCHANGED <<contractVars, body, kept, failures>>

\* Mutant: the loop goes on to the next bundle whatever was started.
StartWithoutEnd(record, s) == AfterBundle(record, s)

AfterStart(record, s) ==
    IF record.begun + record.count >= MaxOngoing THEN Ends(record, s) ELSE AfterBundle(record, s)

StartTransfer(c) ==
    /\ call[c].at = "start"
    /\ Start(Of(call[c].bundle))
    /\ Turn(c, Known, NeedsService(AfterStart([call[c] EXCEPT !.begun = @ + 1],
                                              Without(call[c].bundle))))
    /\ UNCHANGED <<body, kept, failures>>

RemoveExtraFiles(c) ==
    /\ call[c].at = "extraFiles"
    /\ body' = body \ {call[c].bundle}
    /\ Turn(c, Known, Goes([call[c] EXCEPT !.at = "extraStatus"], service))
    /\ UNCHANGED <<contractVars, kept, failures>>

SetExtraExpendable(c) ==
    /\ call[c].at = "extraStatus"
    /\ kept' = kept \ {call[c].bundle}
    /\ Turn(c, Known, NeedsService(AfterBundle(call[c], [service EXCEPT !.transfered = @ + 1])))
    /\ UNCHANGED <<contractVars, body, failures>>

\* Mutant: the bundle is taken off the list before its transfer is started.
DropBundle(c) == Turn(c, Known, NeedsService(AfterBundle(call[c], Without(call[c].bundle))))

\* Caught, logged and counted: a bundle that was not deleted from the set yet is
\* tried again by the next call.
BundleFails(c) == Turn(c, Known, NeedsService(AfterBundle(call[c], service)))

\* The contract refuses: a transfer is in progress, or another call was faster.
StartRefused(c) ==
    /\ call[c].at = "start"
    /\ ~MayStart(Of(call[c].bundle))
    /\ BundleFails(c)
    /\ UNCHANGED <<contractVars, body, kept, failures>>

\* start() may throw although the transaction is mined.
RequestFails(c) ==
    /\ call[c].at \in {"check", "start", "extraFiles", "extraStatus"}
    /\ MayStumble
    /\ failures' = failures + 1
    /\ \/ UNCHANGED contractVars
       \/ call[c].at = "start" /\ Start(Of(call[c].bundle))
    /\ BundleFails(c)
    /\ UNCHANGED <<body, kept>>

-----------------------------------------------------------------------------
(* What others do on the chain *)

TransferIsResolved(b) ==
    /\ Resolve(Of(b))
    /\ UNCHANGED <<repositoryVars, storeVars, lock, wpc, service, call, historyVars, boundVars>>

\* Another donor's transfer of the bundle, from its start to its end.
ForeignTransfer(b) ==
    /\ MayStumble
    /\ foreign' = foreign + 1
    /\ LET other == [donor |-> "other", bundle |-> b]
       IN  log' = log \o <<[kind |-> "started", transfer |-> other],
                           [kind |-> "resolved", transfer |-> other]>>
    /\ UNCHANGED <<ours, ongoing, repositoryVars, storeVars, lock, wpc, service, call, historyVars,
                   switches, failures, restarts>>

\* cancel, by BundlesRestorer.restore or by the operator.
TransferIsCancelled(b) ==
    /\ MayStumble
    /\ foreign' = foreign + 1
    /\ Cancel(Of(b))
    /\ UNCHANGED <<repositoryVars, storeVars, lock, wpc, service, call, historyVars, switches,
                   failures, restarts>>

-----------------------------------------------------------------------------
Worker == Tick \/ RetireOperation \/ TaskIsTaken \/ FinishWork \/ EndOfNormal

Process(c) ==
    \/ Load(c) \/ GetCurrentBlock(c) \/ UpdateTransfers(c)
    \/ RemoveFiles(c) \/ SetExpendable(c) \/ RemoveFails(c)
    \/ SelectBundles(c) \/ Wake(c) \/ CheckSheltering(c) \/ StartTransfer(c) \/ StartRefused(c)
    \/ RemoveExtraFiles(c) \/ SetExtraExpendable(c) \/ RequestFails(c)

Next ==
    \/ Worker \/ ExpireTask
    \/ \E c \in Calls : Process(c)
    \/ \E b \in Bundles : ShelterAgain(b) \/ TransferIsResolved(b) \/ ForeignTransfer(b)
                         \/ TransferIsCancelled(b)
    \/ \E m \in {"normal", "retire"} : SetMode(m)
    \/ Restart

Spec == Init /\ [][Next]_vars

-----------------------------------------------------------------------------
(* Properties *)

\* A bundle that the chain counts on this node for keeps its body, whichever calls
\* of process() overlap, are broken off or meet a change of mode: only what others
\* have taken over, or what was never this node's, is removed.  (A bundle sheltered
\* again in normal mode is left out: the resolution of its earlier transfer may be
\* found after that.)
NothingNeededIsRemoved == \A b \in ours \ again : b \in body

Cancelled == \E i \in DOMAIN log : log[i].kind = "cancelled"

\* maxOngoingTransfers bounds what one call leaves in progress together with all
\* that went before it: calls that overlap exceed it by no more than their number,
\* and a start that throws after it was mined by one.
TransfersBounded ==
    ~Cancelled /\ again = {} => Cardinality(ongoing) <= MaxOngoing * crowd + failures

\* While the service runs, a bundle the node still shelters is on its list or is
\* being transferred: overlapping calls, failed requests and restarts drop none
\* without a transfer.  (A transfer that is cancelled does: its bundle is on the
\* list again only when the service was emptied.)
NoBundleIsDropped ==
    ~Cancelled /\ again = {} /\ service.loaded =>
        \A b \in ours : b \in service.bundles \/ Of(b) \in ongoing
=============================================================================
