------------------------- MODULE ReleaseBundlesProofs -------------------------
(***************************************************************************)
(* Theorems about ReleaseBundles for any number of bundles, of calls that    *)
(* overlap and of troubles: the variables keep their types, no body that the *)
(* chain counts on is removed, no bundle is dropped from the list, and the   *)
(* transfers in progress are bounded.                                       *)
(*                                                                         *)
(* A bundle stops being needed for good: what a call has in hand to remove   *)
(* was not needed when it was found, and stays so.  A transfer, once started, *)
(* goes on until its bundle is another's.  A call that has seen the transfers *)
(* in progress has room for those that are left of its share, and a call     *)
(* that has not may only begin what it does not find started.                *)
(***************************************************************************)
EXTENDS ReleaseBundles, FiniteSetTheorems, SequenceTheorems, TLAPS

Needed == ours \ again

\* Transfers of this node whose bundles are not needed any more.
Given(transfers, needed) ==
    \A i \in 1..Len(transfers) : transfers[i].bundle \notin needed

ServiceOK(s) == s \in Service /\ (~s.loaded => s = Null)

\* What a call has in hand, and how far its loops have come, in each place.
RecordOK(r, needed, length) ==
    /\ r \in CallRecord
    /\ r.begun < MaxOngoing /\ r.checks <= MaxChecks
    /\ r.begun > 0 => r.updated
    /\ r.at \in {"check", "start", "extraFiles", "extraStatus", "sleep"} => r.updated
    /\ r.at \in {"files", "status"} => r.resolved # <<>>
    /\ r.at \in {"idle", "load", "scan", "fetch", "files", "status", "select"} =>
           r.begun = 0 /\ r.checks = 0
    /\ r.at = "sleep" => r.checks < MaxChecks
    /\ r.at = "fetch" => r.upTo <= length
    /\ r.at = "extraFiles" => r.bundle \notin needed
    /\ Given(r.resolved, needed)

OutcomeOK(next, needed, length) ==
    /\ next = [record |-> next.record, service |-> next.service, stores |-> next.stores,
               throws |-> next.throws]
    /\ RecordOK(next.record, needed, length)
    /\ ~next.throws => ServiceOK(next.service)

KnownOK(known, needed, length) ==
    /\ known.active \subseteq OwnTransfers(Transfers)
    /\ known.pending \in Seq(Transfers) /\ Given(known.pending, needed)
    /\ known.lastSaved \in 0..length

ContractInv ==
    /\ ours \subseteq Bundles
    /\ ongoing \subseteq Transfers
    /\ log \in Seq([kind : Kinds, transfer : Transfers])
    /\ \A i \in 1..Len(log) :
          log[i].kind = "resolved" /\ log[i].transfer.donor = "self" =>
              log[i].transfer.bundle \notin Needed

StoreInv ==
    /\ body \subseteq Bundles /\ kept \subseteq Bundles /\ failures \in Nat
    /\ Needed \subseteq body

MemoryInv ==
    /\ KnownOK(Known, Needed, Len(log))
    /\ ServiceOK(service)
    /\ call \in [Calls -> CallRecord]
    /\ \A c \in Calls : RecordOK(call[c], Needed, Len(log))
    /\ info \in Info /\ mode \in {"normal", "retire"}
    /\ lock \in BOOLEAN /\ wpc \in {"idle", "begin", "finish", "normal"}
    /\ crowd \in 0..Cardinality(Calls) /\ again \subseteq Bundles
    /\ switches \in Nat /\ foreign \in Nat /\ restarts \in Nat

IInv == ContractInv /\ StoreInv /\ MemoryInv

-----------------------------------------------------------------------------
(* Finite sets and sequences *)

LEMMA Elements ==
  ASSUME NEW S, NEW s \in Seq(S)
  PROVE  DOMAIN s = 1..Len(s) /\ \A i \in DOMAIN s : s[i] \in S
OBVIOUS

LEMMA FiniteCount ==
  ASSUME NEW S \in SUBSET Bundles
  PROVE  IsFiniteSet(S) /\ Cardinality(S) \in Nat
BY TransferAssumption, FS_Subset, FS_CardinalityType

LEMMA OwnAreFinite ==
  ASSUME NEW S \in SUBSET OwnTransfers(Transfers)
  PROVE  IsFiniteSet(S) /\ Cardinality(S) \in Nat
<1> DEFINE f == [b \in Bundles |-> Of(b)]
<1>1. f \in Surjection(Bundles, OwnTransfers(Transfers))
  BY DEF Surjection, OwnTransfers, Transfers, Of, Donors
<1>2. IsFiniteSet(OwnTransfers(Transfers))
  BY <1>1, TransferAssumption, FS_Surjection
<1>3. QED
  BY <1>2, FS_Subset, FS_CardinalityType

-----------------------------------------------------------------------------
(* What a turn of a call leaves in hand *)

LEMMA NoCallOK ==
  ASSUME NEW needed, NEW length
  PROVE  RecordOK(NoCall, needed, length) /\ NoCall \in CallRecord
BY ReleaseAssumption DEF RecordOK, NoCall, CallRecord, Given

LEMMA NullOK == ServiceOK(Null)
BY DEF ServiceOK, Null, Service

LEMMA GivenStays ==
  ASSUME NEW needed, NEW less \in SUBSET needed, NEW transfers, Given(transfers, needed)
  PROVE  Given(transfers, less)
BY DEF Given

LEMMA RecordStays ==
  ASSUME NEW needed, NEW less \in SUBSET needed, NEW length \in Nat, NEW longer \in Nat,
         length <= longer, NEW r, RecordOK(r, needed, length)
  PROVE  RecordOK(r, less, longer)
BY GivenStays DEF RecordOK, CallRecord

LEMMA GoesOK ==
  ASSUME NEW needed, NEW length, NEW r, RecordOK(r, needed, length), NEW s, ServiceOK(s)
  PROVE  OutcomeOK(Goes(r, s), needed, length)
BY DEF OutcomeOK, Goes

LEMMA EndsOK ==
  ASSUME NEW needed, NEW length, NEW r \in CallRecord, r.begun > 0 => r.updated,
         NEW s, ServiceOK(s)
  PROVE  OutcomeOK(Ends(r, s), needed, length)
<1>1. CASE s.loaded
  <2>1. ServiceOK([s EXCEPT !.transfers = @ + r.begun])
    BY <1>1, SMTT(30) DEF ServiceOK, Service, CallRecord
  <2>2. QED
    BY <2>1, NoCallOK DEF OutcomeOK, Ends
<1>2. CASE ~s.loaded /\ ~r.updated
  <2>1. s = Null /\ r.begun = 0
    BY <1>2 DEF ServiceOK, CallRecord
  <2>2. [s EXCEPT !.transfers = @ + r.begun] = Null
    BY <2>1 DEF Null
  <2>3. QED
    BY <2>2, NoCallOK, NullOK DEF OutcomeOK, Ends
<1>3. CASE ~s.loaded /\ r.updated
  BY <1>3, NoCallOK DEF OutcomeOK, Ends
<1>4. QED
  BY <1>1, <1>2, <1>3 DEF ServiceOK, Service, CallRecord

LEMMA ThrowsOK ==
  ASSUME NEW needed, NEW length, NEW next, OutcomeOK(next, needed, length),
         NEW t, ~t => ~next.throws
  PROVE  OutcomeOK([next EXCEPT !.throws = t], needed, length)
<1> DEFINE other == [next EXCEPT !.throws = t]
<1>1. other = [record |-> next.record, service |-> next.service, stores |-> next.stores,
               throws |-> t]
  BY DEF OutcomeOK
<1>2. /\ other.record = next.record /\ other.service = next.service /\ other.throws = t
      /\ other = [record |-> other.record, service |-> other.service, stores |-> other.stores,
                  throws |-> other.throws]
  BY <1>1
<1> HIDE DEF other
<1>3. OutcomeOK(other, needed, length)
  BY <1>2 DEF OutcomeOK
<1>4. QED
  BY <1>3 DEF other

LEMMA StoresOK ==
  ASSUME NEW needed, NEW length, NEW next, OutcomeOK(next, needed, length), NEW t
  PROVE  OutcomeOK([next EXCEPT !.stores = t], needed, length)
<1> DEFINE other == [next EXCEPT !.stores = t]
<1>1. other = [record |-> next.record, service |-> next.service, stores |-> t,
               throws |-> next.throws]
  BY DEF OutcomeOK
<1>2. /\ other.record = next.record /\ other.service = next.service
      /\ other.throws = next.throws
      /\ other = [record |-> other.record, service |-> other.service, stores |-> other.stores,
                  throws |-> other.throws]
  BY <1>1
<1> HIDE DEF other
<1>3. OutcomeOK(other, needed, length)
  BY <1>2 DEF OutcomeOK
<1>4. QED
  BY <1>3 DEF other

LEMMA AfterTransfersOK ==
  ASSUME NEW needed, NEW length, NEW r \in CallRecord, r.begun = 0, r.checks = 0,
         Given(r.resolved, needed), NEW s, ServiceOK(s)
  PROVE  OutcomeOK(AfterTransfers(r, s), needed, length)
<1>1. OutcomeOK(Ends(r, s), needed, length)
  BY EndsOK DEF CallRecord
<1>2. CASE r.resolved # <<>>
  <2>1. RecordOK([r EXCEPT !.at = "files"], needed, length)
    BY <1>2, ReleaseAssumption DEF RecordOK, CallRecord
  <2>2. QED
    BY <1>2, <2>1, GoesOK DEF AfterTransfers
<1>3. CASE r.resolved = <<>>
  <2>1. RecordOK([r EXCEPT !.at = "select", !.todo = s.bundles], needed, length)
    <3> DEFINE q == [r EXCEPT !.at = "select", !.todo = s.bundles]
    <3>1. q \in CallRecord
      BY DEF ServiceOK, Service, CallRecord
    <3>2. /\ q.at = "select" /\ q.begun = 0 /\ q.checks = 0
          /\ q.resolved = r.resolved
      BY DEF CallRecord
    <3>3. QED
      BY <3>1, <3>2, ReleaseAssumption DEF RecordOK
  <2>2. OutcomeOK(Goes([r EXCEPT !.at = "select", !.todo = s.bundles], s), needed, length)
    BY <2>1, GoesOK
  <2>3. OutcomeOK([Ends(r, s) EXCEPT !.throws = TRUE], needed, length)
    BY <1>1, ThrowsOK
  <2>4. QED
    BY <1>1, <1>3, <2>2, <2>3 DEF AfterTransfers
<1>4. QED
  BY <1>2, <1>3

LEMMA AfterBundleOK ==
  ASSUME NEW needed, NEW length, NEW r \in CallRecord, r.begun < MaxOngoing,
         r.checks <= MaxChecks, r.updated, Given(r.resolved, needed), NEW s, ServiceOK(s)
  PROVE  OutcomeOK(AfterBundle(r, s), needed, length)
<1>1. CASE r.checks >= MaxChecks
  BY <1>1, EndsOK DEF AfterBundle
<1>2. CASE ~(r.checks >= MaxChecks)
  <2>1. RecordOK([r EXCEPT !.at = "sleep", !.bundle = NoBundle], needed, length)
    <3> DEFINE q == [r EXCEPT !.at = "sleep", !.bundle = NoBundle]
    <3>1. q \in CallRecord
      BY DEF CallRecord
    <3>2. /\ q.at = "sleep" /\ q.begun = r.begun /\ q.checks = r.checks
          /\ q.updated = r.updated /\ q.resolved = r.resolved
      BY DEF CallRecord
    <3>3. r.checks < MaxChecks
      BY <1>2, ReleaseAssumption DEF CallRecord
    <3>4. QED
      BY <3>1, <3>2, <3>3 DEF RecordOK
  <2>2. QED
    BY <1>2, <2>1, GoesOK DEF AfterBundle
<1>3. QED
  BY <1>1, <1>2
-----------------------------------------------------------------------------
(* A turn, and the end of the process *)

LEMMA ExitKeeps ==
  ASSUME MemoryInv, Exit, UNCHANGED <<mode, info>>, Len(log') \in Nat
  PROVE  MemoryInv'
<1> USE DEF MemoryInv
<1>1. KnownOK(Known, Needed, Len(log))'
  BY DEF Exit, KnownOK, Known, Given
<1>2. ServiceOK(service)'
  BY NullOK DEF Exit
<1>3. /\ call' \in [Calls -> CallRecord]
      /\ \A c \in Calls : RecordOK(call'[c], Needed', Len(log'))
  BY NoCallOK DEF Exit
<1>4. QED
  BY <1>1, <1>2, <1>3 DEF Exit, historyVars

LEMMA TurnKeeps ==
  ASSUME MemoryInv, NEW c \in Calls, NEW known, NEW next, Turn(c, known, next),
         Needed' \subseteq Needed, Len(log) \in Nat, Len(log') \in Nat, Len(log) <= Len(log'),
         KnownOK(known, Needed', Len(log')),
         OutcomeOK(next, Needed', Len(log'))
  PROVE  MemoryInv'
<1>1. CASE next.throws
  BY <1>1, ExitKeeps DEF Turn
<1>2. CASE ~next.throws
  <2> USE <1>2 DEF Turn, MemoryInv
  <2>1. KnownOK(Known, Needed, Len(log))'
    BY DEF KnownOK, Known
  <2>2. ServiceOK(service)'
    BY DEF OutcomeOK
  <2>3. call' = [call EXCEPT ![c] = next.record]
    OBVIOUS
  <2>4. RecordOK(next.record, Needed', Len(log'))
    BY DEF OutcomeOK
  <2>5. call' \in [Calls -> CallRecord]
    BY <2>3, <2>4 DEF RecordOK
  <2>6. ASSUME NEW d \in Calls PROVE RecordOK(call'[d], Needed', Len(log'))
    BY <2>3, <2>4, RecordStays
  <2>7. info' \in Info
    <3>1. CASE next.stores
      <4>1. Cardinality(next.service.bundles) \in Nat
        BY FiniteCount DEF OutcomeOK, ServiceOK, Service
      <4>2. Report(next.service) \in Info
        BY <4>1 DEF Report, Info, OutcomeOK, ServiceOK, Service
      <4>3. QED
        BY <3>1, <4>2
    <3>2. QED
      BY <3>1
  <2>8. QED
    BY <2>1, <2>2, <2>5, <2>6, <2>7 DEF historyVars
<1>3. QED
  BY <1>1, <1>2

\* A turn in which the chain stands still.
LEMMA QuietTurnKeeps ==
  ASSUME IInv, NEW c \in Calls, NEW known, NEW next, Turn(c, known, next),
         UNCHANGED contractVars,
         KnownOK(known, Needed, Len(log)), OutcomeOK(next, Needed, Len(log))
  PROVE  MemoryInv' /\ ContractInv' /\ again' = again
<1>1. again' = again
  BY DEF Turn, Exit, historyVars
<1>2. Needed' = Needed /\ log' = log /\ ours' = ours /\ ongoing' = ongoing
  BY <1>1 DEF Needed, contractVars
<1>3. Len(log) \in Nat
  BY DEF IInv, ContractInv
<1>4. MemoryInv'
  BY <1>2, <1>3, TurnKeeps DEF IInv
<1>5. QED
  BY <1>1, <1>2, <1>4 DEF IInv, ContractInv

-----------------------------------------------------------------------------
(* What the steps of process() hand to their turn *)

LEMMA NeedsServiceOK ==
  ASSUME NEW needed, NEW length, NEW next, OutcomeOK(next, needed, length)
  PROVE  OutcomeOK(NeedsService(next), needed, length)
BY ThrowsOK DEF NeedsService

LEMMA WithoutOK ==
  ASSUME ServiceOK(service), NEW b
  PROVE  ServiceOK(Without(b))
<1>1. CASE service.loaded
  BY <1>1 DEF ServiceOK, Service, Without
<1>2. CASE ~service.loaded
  <2>1. service = Null
    BY <1>2 DEF ServiceOK
  <2>2. Without(b) = Null
    BY <2>1 DEF Without, Null
  <2>3. QED
    BY <2>2, NullOK
<1>3. QED
  BY <1>1, <1>2 DEF ServiceOK, Service

LEMMA FoundKeeps ==
  ASSUME IInv, NEW c \in Calls, NEW found \in SUBSET OwnTransfers(Transfers),
         NEW resolved \in Seq(Transfers), Given(resolved, Needed), NEW upTo \in 0..Len(log),
         FoundTransfers(c, found, resolved, upTo), UNCHANGED contractVars
  PROVE  MemoryInv' /\ ContractInv' /\ again' = again
<1> DEFINE taken == {t.bundle : t \in found} \cap service.bundles
           s == [service EXCEPT !.bundles = @ \ taken, !.transfers = @ + Cardinality(taken)]
           record == [NoCall EXCEPT !.count = Cardinality(found), !.resolved = resolved,
                                    !.updated = taken # {}]
           next == AfterTransfers(record, s)
           known == [active |-> found, pending |-> <<>>, lastSaved |-> upTo]
           outcome == [next EXCEPT !.throws = @ \/ (found # {} /\ ~service.loaded)]
<1>1. ServiceOK(service)
  BY DEF IInv, MemoryInv
<1>2. ServiceOK(s)
  <2>1. CASE service.loaded
    <3>1. taken \in SUBSET Bundles
      BY <1>1 DEF ServiceOK, Service
    <3>2. Cardinality(taken) \in Nat
      BY <3>1, FiniteCount
    <3> HIDE DEF taken
    <3> DEFINE left == service.bundles \ taken
               more == service.transfers + Cardinality(taken)
    <3>3. left \in SUBSET Bundles /\ more \in Nat
      BY <1>1, <3>2 DEF ServiceOK, Service
    <3> HIDE DEF left, more
    <3>4. [service EXCEPT !.bundles = left, !.transfers = more] \in Service
      BY <1>1, <3>3 DEF ServiceOK, Service
    <3>5. s \in Service
      BY <3>4 DEF left, more
    <3>6. s.loaded
      BY <1>1, <2>1 DEF ServiceOK, Service
    <3> HIDE DEF s
    <3>7. QED
      BY <3>5, <3>6 DEF ServiceOK
  <2>2. CASE ~service.loaded
    <3>1. service = Null
      BY <1>1, <2>2 DEF ServiceOK
    <3>2. taken = {} /\ Cardinality(taken) = 0
      BY <3>1, FS_EmptySet DEF Null
    <3> HIDE DEF taken
    <3>3. s = [Null EXCEPT !.bundles = @ \ {}, !.transfers = @ + 0]
      BY <3>1, <3>2
    <3>4. [Null EXCEPT !.bundles = @ \ {}, !.transfers = @ + 0] = Null
      <4> DEFINE q == [Null EXCEPT !.bundles = @ \ {}, !.transfers = @ + 0]
      <4>1. /\ DOMAIN q = DOMAIN Null
            /\ q.loaded = Null.loaded /\ q.bundles = Null.bundles /\ q.total = Null.total
            /\ q.transfers = Null.transfers /\ q.transfered = Null.transfered
        BY DEF Null
      <4>2. q \in Service
        <5> DEFINE n == 0 + 0
                   e == {} \ {}
        <5>1. n \in Nat /\ e \in SUBSET Bundles
          OBVIOUS
        <5> HIDE DEF n, e
        <5>2. [Null EXCEPT !.bundles = e, !.transfers = n] \in Service
          BY <5>1 DEF Null, Service
        <5>3. QED
          BY <5>2 DEF Null, n, e
      <4>3. Null \in Service
        BY DEF Null, Service
      <4> HIDE DEF q
      <4>4. q = Null
        BY <4>1, <4>2, <4>3 DEF Service
      <4>5. QED
        BY <4>4 DEF q
    <3>5. QED
      BY <3>3, <3>4, NullOK
  <2>3. QED
    BY <1>1, <2>1, <2>2 DEF ServiceOK, Service
<1>3. /\ record \in CallRecord
      /\ record.begun = 0 /\ record.checks = 0 /\ record.resolved = resolved
  <2>1. Cardinality(found) \in Nat
    BY OwnAreFinite
  <2>2. QED
    BY <2>1 DEF NoCall, CallRecord
<1> HIDE DEF record, s
<1>4. OutcomeOK(next, Needed, Len(log))
  BY <1>2, <1>3, AfterTransfersOK
<1> HIDE DEF next
<1>5. OutcomeOK(outcome, Needed, Len(log))
  BY <1>4, ThrowsOK
<1>6. KnownOK(known, Needed, Len(log))
  BY DEF KnownOK, Given
<1>7. Turn(c, known, outcome)
  BY DEF FoundTransfers, next, record, s
<1> HIDE DEF outcome, known
<1>8. QED
  BY <1>5, <1>6, <1>7, QuietTurnKeeps

-----------------------------------------------------------------------------
(* The steps of process() *)

LEMMA InHand ==
  ASSUME IInv, NEW c \in Calls
  PROVE  /\ call[c] \in CallRecord /\ RecordOK(call[c], Needed, Len(log))
         /\ Len(log) \in Nat /\ ServiceOK(service) /\ KnownOK(Known, Needed, Len(log))
BY DEF IInv, MemoryInv, ContractInv

\* Two fields of what a call has in hand are changed by every step.
LEMMA MovesOK ==
  ASSUME NEW needed, NEW length, NEW r \in CallRecord, RecordOK(r, needed, length),
         NEW at \in {"start", "extraFiles", "extraStatus"},
         r.at \in {"check", "start", "extraFiles", "extraStatus"},
         at = "extraFiles" => r.bundle \notin needed
  PROVE  RecordOK([r EXCEPT !.at = at], needed, length)
BY DEF RecordOK, CallRecord

LEMMA LoadKeeps ==
  ASSUME IInv, NEW c \in Calls, Load(c)
  PROVE  IInv'
<1> DEFINE r == [call[c] EXCEPT !.at = "scan", !.from = GetFromBlock]
           s == [loaded |-> TRUE, bundles |-> kept, total |-> Cardinality(kept),
                 transfers |-> 0, transfered |-> 0]
           next == [Goes(r, s) EXCEPT !.stores = TRUE]
<1>1. RecordOK(r, Needed, Len(log))
  <2>1. GetFromBlock \in Nat
    BY InHand, TransferAssumption DEF GetFromBlock, CurrentBlock, KnownOK, Known
  <2>2. r \in CallRecord
    BY <2>1, InHand DEF CallRecord
  <2>3. /\ r.at = "scan" /\ r.begun = call[c].begun /\ r.checks = call[c].checks
        /\ r.updated = call[c].updated /\ r.resolved = call[c].resolved
    BY InHand DEF CallRecord
  <2> HIDE DEF r
  <2>4. QED
    BY <2>2, <2>3, InHand DEF RecordOK, Load
<1>2. ServiceOK(s)
  BY FiniteCount DEF ServiceOK, Service, IInv, StoreInv
<1> HIDE DEF r, s
<1>3. OutcomeOK(next, Needed, Len(log))
  BY <1>1, <1>2, GoesOK, StoresOK
<1>4. Turn(c, Known, next) /\ UNCHANGED contractVars
  BY DEF Load, r, s
<1> HIDE DEF next
<1>5. MemoryInv' /\ ContractInv' /\ again' = again
  BY <1>3, <1>4, InHand, QuietTurnKeeps
<1>6. QED
  BY <1>5 DEF IInv, StoreInv, Load, Needed, contractVars

LEMMA GetCurrentBlockKeeps ==
  ASSUME IInv, NEW c \in Calls, GetCurrentBlock(c)
  PROVE  IInv'
<1> UNCHANGED contractVars /\ UNCHANGED <<body, kept, failures>>
  BY DEF GetCurrentBlock
<1>1. MemoryInv' /\ ContractInv' /\ again' = again
  <2>1. CASE call[c].from <= CurrentBlock
    <3> DEFINE r == [call[c] EXCEPT !.at = "fetch", !.upTo = CurrentBlock]
    <3>1. r \in CallRecord
      BY InHand DEF CallRecord, CurrentBlock
    <3>2. /\ r.at = "fetch" /\ r.begun = call[c].begun /\ r.checks = call[c].checks
          /\ r.updated = call[c].updated /\ r.resolved = call[c].resolved
          /\ r.upTo = Len(log)
      BY InHand DEF CallRecord, CurrentBlock
    <3>3. Turn(c, Known, Goes(r, service))
      BY <2>1 DEF GetCurrentBlock
    <3> HIDE DEF r
    <3>4. RecordOK(r, Needed, Len(log))
      BY <3>1, <3>2, InHand DEF RecordOK, GetCurrentBlock
    <3>5. OutcomeOK(Goes(r, service), Needed, Len(log))
      BY <3>4, InHand, GoesOK
    <3>6. QED
      BY <3>3, <3>5, InHand, QuietTurnKeeps
  <2>2. CASE ~(call[c].from <= CurrentBlock)
    <3>1. FoundTransfers(c, active, pending, lastSaved)
      BY <2>2 DEF GetCurrentBlock
    <3>2. QED
      BY <3>1, InHand, FoundKeeps DEF KnownOK, Known
  <2>3. QED
    BY <2>1, <2>2
<1>2. QED
  BY <1>1 DEF IInv, StoreInv, Needed, contractVars

\* The transfers that a scan finds resolved are this node's, and their bundles are not
\* needed since the contract has given them away.
LEMMA ResolvedAreGiven ==
  ASSUME IInv, NEW from \in Nat, NEW upTo \in Nat,
         NEW order \in InOrder(NewlyResolved(from, upTo))
  PROVE  LET applied == ApplyIncomingTransferEvents(from, upTo, order)
         IN  /\ applied.active \subseteq OwnTransfers(Transfers)
             /\ applied.resolved \in Seq(Transfers)
             /\ Given(applied.resolved, Needed)
<1> DEFINE found == NewlyResolved(from, upTo)
           resolved == [n \in DOMAIN order |-> log[order[n]].transfer]
<1>1. log \in Seq([kind : Kinds, transfer : Transfers])
  BY DEF IInv, ContractInv
<1>2. active \subseteq OwnTransfers(Transfers) /\ pending \in Seq(Transfers)
      /\ Given(pending, Needed)
  BY DEF IInv, MemoryInv, KnownOK, Known
<1>3. ASSUME NEW i \in DOMAIN log PROVE log[i].transfer \in Transfers
  <2>1. log[i] \in [kind : Kinds, transfer : Transfers]
    BY <1>1, <1>3, Elements
  <2>2. QED
    BY <2>1
<1>4. Followed(from, upTo) \subseteq OwnTransfers(Transfers)
  BY <1>2, <1>3 DEF Followed, OwnTransfers, TransfersAt, Positions
<1>5. found \in SUBSET (1..Len(log)) /\ \A i \in found : log[i].transfer.bundle \notin Needed
  <2>1. ASSUME NEW i \in found
        PROVE  i \in 1..Len(log) /\ log[i].kind = "resolved" /\ log[i].transfer.donor = "self"
    BY <1>1, <1>4 DEF NewlyResolved, Positions, OwnTransfers
  <2>2. QED
    BY <2>1 DEF IInv, ContractInv
<1>6. Cardinality(found) \in Nat
  <2>1. IsFiniteSet(1..Len(log))
    BY <1>1, FS_Interval
  <2>2. QED
    BY <1>5, <2>1, FS_Subset, FS_CardinalityType
<1>7. order \in [1..Cardinality(found) -> found]
  BY DEF InOrder
<1> HIDE DEF found
<1>8. /\ resolved \in Seq(Transfers)
      /\ \A n \in 1..Len(resolved) : resolved[n].bundle \notin Needed
  <2>1. DOMAIN order = 1..Cardinality(found)
    BY <1>7
  <2>2. \A n \in DOMAIN order : order[n] \in found /\ order[n] \in DOMAIN log
    BY <1>1, <1>5, <1>7, Elements
  <2>3. \A n \in DOMAIN order : /\ log[order[n]].transfer \in Transfers
                               /\ log[order[n]].transfer.bundle \notin Needed
    BY <1>3, <1>5, <2>2
  <2>4. resolved \in [1..Cardinality(found) -> Transfers]
    BY <2>1, <2>3
  <2>5. resolved \in Seq(Transfers)
    BY <1>6, <2>4
  <2>6. DOMAIN resolved = 1..Len(resolved)
    BY <2>5
  <2>7. \A n \in DOMAIN resolved : resolved[n].bundle \notin Needed
    BY <2>3
  <2> HIDE DEF resolved
  <2>8. QED
    BY <2>5, <2>6, <2>7
<1> HIDE DEF resolved
<1>9. pending \o resolved \in Seq(Transfers) /\ Given(pending \o resolved, Needed)
  <2>1. /\ pending \o resolved \in Seq(Transfers)
        /\ Len(pending \o resolved) = Len(pending) + Len(resolved)
        /\ \A i \in 1..Len(pending \o resolved) :
               (pending \o resolved)[i] = IF i <= Len(pending) THEN pending[i]
                                          ELSE resolved[i - Len(pending)]
    BY <1>2, <1>8, ConcatProperties
  <2> DEFINE both == pending \o resolved
  <2> HIDE DEF both
  <2>2. ASSUME NEW i \in 1..Len(both) PROVE both[i].bundle \notin Needed
    <3>1. CASE i <= Len(pending)
      BY <1>2, <2>1, <3>1 DEF Given, both
    <3>2. CASE ~(i <= Len(pending))
      <4>1. i - Len(pending) \in 1..Len(resolved)
        BY <1>2, <1>8, <2>1, <3>2 DEF both
      <4>2. QED
        BY <1>8, <2>1, <3>2, <4>1 DEF both
    <3>3. QED
      BY <3>1, <3>2
  <2>3. QED
    BY <2>1, <2>2 DEF Given, both
<1>10. QED
  BY <1>4, <1>9 DEF ApplyIncomingTransferEvents, resolved

LEMMA UpdateTransfersKeeps ==
  ASSUME IInv, NEW c \in Calls, UpdateTransfers(c)
  PROVE  IInv'
<1> UNCHANGED contractVars /\ UNCHANGED <<body, kept, failures>>
  BY DEF UpdateTransfers
<1>1. PICK order \in InOrder(NewlyResolved(call[c].from, call[c].upTo)) :
        FoundTransfers(c, ApplyIncomingTransferEvents(call[c].from, call[c].upTo, order).active,
                       ApplyIncomingTransferEvents(call[c].from, call[c].upTo, order).resolved,
                       call[c].upTo)
  BY DEF UpdateTransfers
<1>2. call[c].from \in Nat /\ call[c].upTo \in 0..Len(log)
  BY InHand DEF RecordOK, CallRecord, UpdateTransfers
<1>3. MemoryInv' /\ ContractInv' /\ again' = again
  <2> DEFINE applied == ApplyIncomingTransferEvents(call[c].from, call[c].upTo, order)
  <2>1. /\ applied.active \subseteq OwnTransfers(Transfers)
        /\ applied.resolved \in Seq(Transfers)
        /\ Given(applied.resolved, Needed)
    BY <1>2, InHand, ResolvedAreGiven
  <2> HIDE DEF applied
  <2>2. FoundTransfers(c, applied.active, applied.resolved, call[c].upTo)
    BY <1>1 DEF applied
  <2>3. QED
    BY <1>2, <2>1, <2>2, FoundKeeps
<1>4. QED
  BY <1>3 DEF IInv, StoreInv, Needed, contractVars

\* The first transfer in hand is of a bundle that is not needed; so are the others.
LEMMA NextResolvedOK ==
  ASSUME IInv, NEW c \in Calls, call[c].at \in {"files", "status"}
  PROVE  /\ Resolved(c) \in Bundles \ Needed
         /\ NextResolved(c) \in CallRecord
         /\ NextResolved(c).begun = 0 /\ NextResolved(c).checks = 0
         /\ Given(NextResolved(c).resolved, Needed)
<1> DEFINE r == call[c]
           t == Tail(r.resolved)
<1>1. r \in CallRecord /\ RecordOK(r, Needed, Len(log))
  BY InHand
<1>2. r.resolved \in Seq(Transfers) /\ r.resolved # <<>> /\ r.begun = 0 /\ r.checks = 0
      /\ Given(r.resolved, Needed)
  BY <1>1 DEF RecordOK, CallRecord
<1>3. Len(r.resolved) \in Nat \ {0} /\ Head(r.resolved) = r.resolved[1]
  BY <1>2
<1>4. Resolved(c) \in Bundles \ Needed
  <2>1. r.resolved[1] \in Transfers /\ r.resolved[1].bundle \notin Needed
    BY <1>2, <1>3, Elements DEF Given
  <2>2. QED
    BY <1>3, <2>1 DEF Resolved, Transfers
<1>5. /\ t \in Seq(Transfers) /\ Len(t) = Len(r.resolved) - 1
      /\ \A i \in 1..Len(t) : t[i] = r.resolved[i + 1]
  BY <1>2, HeadTailProperties
<1>6. Given(t, Needed)
  <2>1. ASSUME NEW i \in 1..Len(t) PROVE i + 1 \in 1..Len(r.resolved)
    BY <1>3, <1>5, <2>1
  <2> HIDE DEF t
  <2>2. QED
    BY <1>2, <1>5, <2>1 DEF Given
<1>7. NextResolved(c) = [r EXCEPT !.at = "files", !.resolved = t]
  BY DEF NextResolved
<1> HIDE DEF t, r
<1>8. /\ NextResolved(c) \in CallRecord /\ NextResolved(c).resolved = t
      /\ NextResolved(c).begun = r.begun /\ NextResolved(c).checks = r.checks
  BY <1>1, <1>5, <1>7 DEF CallRecord
<1>9. QED
  BY <1>2, <1>4, <1>6, <1>8

LEMMA RemoveFilesKeeps ==
  ASSUME IInv, NEW c \in Calls, RemoveFiles(c)
  PROVE  IInv'
<1> DEFINE r == [call[c] EXCEPT !.at = "status"]
<1>1. Turn(c, Known, Goes(r, service)) /\ UNCHANGED contractVars
  BY DEF RemoveFiles
<1>2. RecordOK(r, Needed, Len(log))
  BY InHand DEF RecordOK, CallRecord, RemoveFiles
<1> HIDE DEF r
<1>3. MemoryInv' /\ ContractInv' /\ again' = again
  BY <1>1, <1>2, InHand, GoesOK, QuietTurnKeeps
<1>4. Resolved(c) \notin Needed
  BY NextResolvedOK DEF RemoveFiles
<1>5. QED
  BY <1>3, <1>4 DEF IInv, StoreInv, RemoveFiles, Needed, contractVars

LEMMA SetExpendableKeeps ==
  ASSUME IInv, NEW c \in Calls, SetExpendable(c)
  PROVE  IInv'
<1>1. call[c].at \in {"files", "status"} /\ UNCHANGED contractVars
  BY DEF SetExpendable
<1>2. CASE service.loaded
  <2> DEFINE s == Transferred(service, Resolved(c))
             r == [NextResolved(c) EXCEPT !.updated = TRUE]
  <2>1. ServiceOK(s)
    <3> DEFINE left == service.bundles \ {Resolved(c)}
               more == service.transfered + 1
               fewer == IF service.transfers > 0 THEN service.transfers - 1 ELSE 0
    <3>1. left \in SUBSET Bundles /\ more \in Nat /\ fewer \in Nat
      BY InHand DEF ServiceOK, Service
    <3> HIDE DEF left, more, fewer
    <3>2. [service EXCEPT !.bundles = left, !.transfered = more, !.transfers = fewer] \in Service
      BY <3>1, InHand DEF ServiceOK, Service
    <3>3. [service EXCEPT !.bundles = left, !.transfered = more, !.transfers = fewer].loaded
      BY <1>2, InHand DEF ServiceOK, Service
    <3>4. s = [service EXCEPT !.bundles = left, !.transfered = more, !.transfers = fewer]
      BY InHand DEF Transferred, ServiceOK, Service, left, more, fewer
    <3> HIDE DEF s
    <3>5. QED
      BY <3>2, <3>3, <3>4 DEF ServiceOK
  <2>2. /\ r \in CallRecord /\ r.begun = 0 /\ r.checks = 0 /\ Given(r.resolved, Needed)
    BY <1>1, NextResolvedOK DEF CallRecord
  <2>3. Turn(c, Known, AfterTransfers(r, s))
    BY <1>2 DEF SetExpendable
  <2> HIDE DEF r, s
  <2>4. MemoryInv' /\ ContractInv' /\ again' = again
    BY <1>1, <2>1, <2>2, <2>3, InHand, AfterTransfersOK, QuietTurnKeeps
  <2>5. QED
    BY <2>4 DEF IInv, StoreInv, SetExpendable, Needed, contractVars
<1>3. CASE ~service.loaded
  <2>1. Turn(c, Known, AfterTransfers(NextResolved(c), service))
    BY <1>3 DEF SetExpendable
  <2>2. MemoryInv' /\ ContractInv' /\ again' = again
    BY <1>1, <2>1, InHand, NextResolvedOK, AfterTransfersOK, QuietTurnKeeps
  <2>3. QED
    BY <2>2 DEF IInv, StoreInv, SetExpendable, Needed, contractVars
<1>4. QED
  BY <1>2, <1>3

LEMMA RemoveFailsKeeps ==
  ASSUME IInv, NEW c \in Calls, RemoveFails(c)
  PROVE  IInv'
<1>1. /\ call[c].at \in {"files", "status"} /\ UNCHANGED contractVars
      /\ Turn(c, Known, AfterTransfers(NextResolved(c), service))
  BY DEF RemoveFails
<1>2. MemoryInv' /\ ContractInv' /\ again' = again
  BY <1>1, InHand, NextResolvedOK, AfterTransfersOK, QuietTurnKeeps
<1>3. QED
  BY <1>2 DEF IInv, StoreInv, RemoveFails, Needed, contractVars

LEMMA NextBundleKeeps ==
  ASSUME IInv, NEW c \in Calls, NEW todo \in SUBSET call[c].todo, NextBundle(c, todo),
         call[c].at \in {"select", "sleep"}, UNCHANGED contractVars
  PROVE  MemoryInv' /\ ContractInv' /\ again' = again
<1>1. CASE todo = {}
  <2>1. OutcomeOK(Ends(call[c], service), Needed, Len(log))
    BY InHand, EndsOK DEF RecordOK
  <2>2. QED
    BY <1>1, <2>1, InHand, QuietTurnKeeps DEF NextBundle
<1>2. CASE todo # {}
  <2> DEFINE r(b) == [call[c] EXCEPT !.at = "check", !.bundle = b, !.todo = todo \ {b},
                                     !.checks = @ + 1, !.updated = TRUE]
  <2>1. PICK b \in todo : Turn(c, Known, Goes(r(b), service))
    BY <1>2 DEF NextBundle
  <2>2. RecordOK(r(b), Needed, Len(log))
    <3> DEFINE more == call[c].checks + 1
               left == todo \ {b}
    <3>1. /\ more \in Nat /\ more <= MaxChecks
          /\ left \in SUBSET Bundles /\ b \in Bundles
      BY InHand, ReleaseAssumption, SMTT(30) DEF RecordOK, CallRecord
    <3> HIDE DEF more, left
    <3> DEFINE q == [call[c] EXCEPT !.at = "check", !.bundle = b, !.todo = left,
                                    !.checks = more, !.updated = TRUE]
    <3>2. q \in CallRecord
      BY <3>1, InHand DEF CallRecord
    <3>3. /\ q.at = "check" /\ q.checks = more /\ q.updated /\ q.begun = call[c].begun
          /\ q.resolved = call[c].resolved
      BY InHand DEF CallRecord
    <3>4. r(b) = q
      BY InHand DEF CallRecord, more, left
    <3> HIDE DEF q
    <3>5. RecordOK(q, Needed, Len(log))
      BY <3>1, <3>2, <3>3, InHand DEF RecordOK
    <3>6. QED
      BY <3>4, <3>5
  <2> HIDE DEF r
  <2>3. QED
    BY <2>1, <2>2, InHand, GoesOK, QuietTurnKeeps
<1>3. QED
  BY <1>1, <1>2

LEMMA SelectOrWakeKeeps ==
  ASSUME IInv, NEW c \in Calls, SelectBundles(c) \/ Wake(c)
  PROVE  IInv'
<1>1. /\ call[c].at \in {"select", "sleep"} /\ UNCHANGED <<contractVars, body, kept, failures>>
      /\ \E todo \in SUBSET call[c].todo : NextBundle(c, todo)
  BY DEF SelectBundles, Wake
<1>2. MemoryInv' /\ ContractInv' /\ again' = again
  BY <1>1, NextBundleKeeps
<1>3. QED
  BY <1>1, <1>2 DEF IInv, StoreInv, Needed, contractVars

LEMMA AtABundle ==
  ASSUME IInv, NEW c \in Calls, call[c].at \in {"check", "start", "extraFiles", "extraStatus"}
  PROVE  /\ call[c] \in CallRecord /\ call[c].begun < MaxOngoing
         /\ call[c].checks <= MaxChecks /\ call[c].updated /\ Given(call[c].resolved, Needed)
BY InHand DEF RecordOK

LEMMA BundleFailsOK ==
  ASSUME IInv, NEW c \in Calls, call[c].at \in {"check", "start", "extraFiles", "extraStatus"}
  PROVE  OutcomeOK(NeedsService(AfterBundle(call[c], service)), Needed, Len(log))
BY InHand, AtABundle, AfterBundleOK, NeedsServiceOK

LEMMA CheckShelteringKeeps ==
  ASSUME IInv, NEW c \in Calls, CheckSheltering(c)
  PROVE  IInv'
<1>1. call[c].at = "check" /\ UNCHANGED <<contractVars, body, kept, failures>>
  BY DEF CheckSheltering
<1>2. CASE IsSheltering(call[c].bundle)
  <2>1. OutcomeOK(Goes([call[c] EXCEPT !.at = "start"], service), Needed, Len(log))
    BY <1>1, InHand, MovesOK, GoesOK
  <2>2. Turn(c, Known, Goes([call[c] EXCEPT !.at = "start"], service))
    BY <1>2 DEF CheckSheltering
  <2>3. QED
    BY <1>1, <2>1, <2>2, InHand, QuietTurnKeeps DEF IInv, StoreInv, Needed, contractVars
<1>3. CASE ~IsSheltering(call[c].bundle)
  <2> DEFINE next == Goes([call[c] EXCEPT !.at = "extraFiles"], Without(call[c].bundle))
  <2>1. call[c].bundle \notin Needed
    BY <1>3 DEF IsSheltering, Needed
  <2>2. RecordOK([call[c] EXCEPT !.at = "extraFiles"], Needed, Len(log))
    BY <1>1, <2>1, InHand, MovesOK
  <2>3. OutcomeOK(next, Needed, Len(log))
    BY <2>2, InHand, WithoutOK, GoesOK
  <2>4. Turn(c, Known, NeedsService(next))
    BY <1>3 DEF CheckSheltering
  <2> HIDE DEF next
  <2>5. QED
    BY <1>1, <2>3, <2>4, InHand, NeedsServiceOK, QuietTurnKeeps
    DEF IInv, StoreInv, Needed, contractVars
<1>4. QED
  BY <1>2, <1>3

LEMMA RemoveExtraFilesKeeps ==
  ASSUME IInv, NEW c \in Calls, RemoveExtraFiles(c)
  PROVE  IInv'
<1>1. call[c].at = "extraFiles" /\ UNCHANGED <<contractVars, kept, failures>>
  BY DEF RemoveExtraFiles
<1>2. OutcomeOK(Goes([call[c] EXCEPT !.at = "extraStatus"], service), Needed, Len(log))
  BY <1>1, InHand, MovesOK, GoesOK
<1>3. MemoryInv' /\ ContractInv' /\ again' = again
  BY <1>1, <1>2, InHand, QuietTurnKeeps DEF RemoveExtraFiles
<1>4. call[c].bundle \notin Needed
  BY <1>1, InHand DEF RecordOK
<1>5. QED
  BY <1>1, <1>3, <1>4 DEF IInv, StoreInv, RemoveExtraFiles, Needed, contractVars

LEMMA SetExtraExpendableKeeps ==
  ASSUME IInv, NEW c \in Calls, SetExtraExpendable(c)
  PROVE  IInv'
<1> DEFINE s == [service EXCEPT !.transfered = @ + 1]
           next == NeedsService(AfterBundle(call[c], s))
<1>1. /\ call[c].at = "extraStatus" /\ UNCHANGED <<contractVars, body, failures>>
      /\ kept' \subseteq kept /\ Turn(c, Known, next)
  BY DEF SetExtraExpendable
<1>2. MemoryInv' /\ ContractInv' /\ again' = again
  <2>1. CASE service.loaded
    <3>1. ServiceOK(s)
      BY <2>1, InHand DEF ServiceOK, Service
    <3> HIDE DEF s
    <3>2. OutcomeOK(next, Needed, Len(log))
      BY <1>1, <3>1, AtABundle, AfterBundleOK, NeedsServiceOK
    <3> HIDE DEF next
    <3>3. QED
      BY <1>1, <3>2, InHand, QuietTurnKeeps
  <2>2. CASE ~service.loaded
    <3> DEFINE plain == AfterBundle(call[c], s)
    <3>1. /\ plain.record = AfterBundle(call[c], service).record
          /\ plain = [record |-> plain.record, service |-> plain.service,
                      stores |-> plain.stores, throws |-> plain.throws]
      BY DEF AfterBundle, Ends, Goes
    <3>2. OutcomeOK(AfterBundle(call[c], service), Needed, Len(log))
      BY <1>1, InHand, AtABundle, AfterBundleOK
    <3>3. next = [plain EXCEPT !.throws = @ \/ ~service.loaded]
      BY DEF NeedsService
    <3> HIDE DEF plain
    <3>4. next = [record |-> plain.record, service |-> plain.service,
                  stores |-> plain.stores, throws |-> TRUE]
      BY <2>2, <3>1, <3>3
    <3> HIDE DEF next
    <3>5. OutcomeOK(next, Needed, Len(log))
      BY <3>1, <3>2, <3>4 DEF OutcomeOK
    <3>6. QED
      BY <1>1, <3>5, InHand, QuietTurnKeeps
  <2>3. QED
    BY <2>1, <2>2
<1>3. QED
  BY <1>1, <1>2 DEF IInv, StoreInv, Needed, contractVars

-----------------------------------------------------------------------------
(* The steps in which the chain goes on *)

\* Events that take no bundle from this node leave the invariant as it is.
LEMMA EventKeeps ==
  ASSUME IInv, NEW e \in [kind : Kinds, transfer : Transfers], log' = Append(log, e),
         Needed' \subseteq Needed, ours' \subseteq Bundles, ongoing' \subseteq Transfers,
         e.kind = "resolved" /\ e.transfer.donor = "self" => e.transfer.bundle \notin Needed'
  PROVE  ContractInv' /\ Len(log) \in Nat /\ Len(log') \in Nat /\ Len(log) <= Len(log')
<1>1. log \in Seq([kind : Kinds, transfer : Transfers])
  BY DEF IInv, ContractInv
<1>2. /\ log' \in Seq([kind : Kinds, transfer : Transfers])
      /\ Len(log') = Len(log) + 1
      /\ \A i \in 1..Len(log) : log'[i] = log[i]
      /\ log'[Len(log) + 1] = e
  BY <1>1, AppendProperties
<1>3. Len(log) \in Nat
  BY <1>1
<1>4. ASSUME NEW i \in 1..Len(log'), log'[i].kind = "resolved",
             log'[i].transfer.donor = "self"
      PROVE  log'[i].transfer.bundle \notin Needed'
  <2>1. CASE i = Len(log) + 1
    BY <1>2, <1>4, <2>1
  <2>2. CASE i # Len(log) + 1
    <3>1. i \in 1..Len(log) /\ log'[i] = log[i]
      BY <1>2, <1>3, <2>2
    <3>2. log[i].transfer.bundle \notin Needed
      BY <1>4, <3>1 DEF IInv, ContractInv
    <3>3. QED
      BY <3>1, <3>2
  <2>3. QED
    BY <2>1, <2>2
<1>5. QED
  BY <1>2, <1>3, <1>4 DEF ContractInv

\* What is in memory and was fine stays so while fewer bundles are needed and the
\* log is longer.
LEMMA MemoryStays ==
  ASSUME MemoryInv, UNCHANGED <<repositoryVars, service>>, Needed' \subseteq Needed,
         Len(log) \in Nat, Len(log') \in Nat, Len(log) <= Len(log')
  PROVE  /\ KnownOK(Known, Needed, Len(log))'
         /\ KnownOK(Known, Needed', Len(log'))
         /\ ServiceOK(service)'
         /\ \A c \in Calls : RecordOK(call[c], Needed', Len(log'))
<1>1. KnownOK(Known, Needed', Len(log'))
  BY GivenStays DEF MemoryInv, KnownOK
<1>2. KnownOK(Known, Needed, Len(log))'
  BY <1>1 DEF repositoryVars, Known
<1>3. \A c \in Calls : RecordOK(call[c], Needed', Len(log'))
  BY RecordStays DEF MemoryInv
<1>4. QED
  BY <1>1, <1>2, <1>3 DEF MemoryInv

LEMMA StartKeeps ==
  ASSUME IInv, NEW c \in Calls, call[c].at = "start", Start(Of(call[c].bundle)),
         again' = again
  PROVE  /\ ContractInv' /\ Needed' = Needed
         /\ Len(log) \in Nat /\ Len(log') \in Nat /\ Len(log) <= Len(log')
<1> DEFINE t == Of(call[c].bundle)
           e == [kind |-> "started", transfer |-> t]
<1>1. ours' = ours /\ Needed' = Needed
  BY DEF Start, Needed
<1>2. t \in Transfers
  BY DEF IInv, ContractInv, Start, MayStart, Of, Transfers, Donors
<1>3. e \in [kind : Kinds, transfer : Transfers] /\ log' = Append(log, e)
      /\ ongoing' \subseteq Transfers
  BY <1>2 DEF Start, Emit, Kinds, IInv, ContractInv
<1>4. e.kind # "resolved"
  OBVIOUS
<1> HIDE DEF e
<1>5. QED
  BY <1>1, <1>3, <1>4, EventKeeps DEF IInv, ContractInv

LEMMA TurnLeaves ==
  ASSUME NEW c, NEW known, NEW next, Turn(c, known, next)
  PROVE  again' = again
BY DEF Turn, Exit, historyVars

LEMMA StartTransferKeeps ==
  ASSUME IInv, NEW c \in Calls, StartTransfer(c)
  PROVE  IInv'
<1> DEFINE more == call[c].begun + 1
           r == [call[c] EXCEPT !.begun = @ + 1]
           q == [call[c] EXCEPT !.begun = more]
           s == Without(call[c].bundle)
           next == NeedsService(AfterStart(r, s))
<1>1. call[c].at = "start" /\ Start(Of(call[c].bundle)) /\ Turn(c, Known, next)
      /\ UNCHANGED <<body, kept, failures>>
  BY DEF StartTransfer
<1>2. /\ again' = again /\ ContractInv' /\ Needed' = Needed
      /\ Len(log) \in Nat /\ Len(log') \in Nat /\ Len(log) <= Len(log')
  BY <1>1, TurnLeaves, StartKeeps
<1>3. KnownOK(Known, Needed', Len(log')) /\ ServiceOK(s)
  <2>1. KnownOK(Known, Needed, Len(log'))
    BY <1>2, InHand DEF KnownOK
  <2>2. QED
    BY <1>2, <2>1, InHand, WithoutOK
<1>4. /\ q \in CallRecord /\ q.begun = more /\ q.checks = call[c].checks /\ q.updated
      /\ q.resolved = call[c].resolved /\ q.count = call[c].count
  <2>1. more \in Nat
    BY InHand DEF CallRecord
  <2> HIDE DEF more
  <2>2. QED
    BY <1>1, <2>1, AtABundle, SMTT(30) DEF CallRecord
<1>5. r = q
  BY InHand DEF CallRecord
<1> HIDE DEF q, r, s, more
<1>6. OutcomeOK(AfterStart(q, s), Needed', Len(log'))
  <2>1. Given(q.resolved, Needed') /\ q.checks <= MaxChecks
    BY <1>1, <1>2, <1>4, AtABundle
  <2>2. CASE q.begun + q.count >= MaxOngoing
    BY <1>3, <1>4, <2>2, EndsOK DEF AfterStart
  <2>3. CASE ~(q.begun + q.count >= MaxOngoing)
    <3>1. q.begun < MaxOngoing
      BY <1>4, <2>3, ReleaseAssumption DEF CallRecord
    <3>2. QED
      BY <1>3, <1>4, <2>1, <2>3, <3>1, AfterBundleOK DEF AfterStart
  <2>4. QED
    BY <2>2, <2>3
<1>7. OutcomeOK(next, Needed', Len(log'))
  BY <1>5, <1>6, NeedsServiceOK
<1> HIDE DEF next
<1>8. MemoryInv'
  BY <1>1, <1>2, <1>3, <1>7, TurnKeeps DEF IInv
<1>9. QED
  BY <1>1, <1>2, <1>8 DEF IInv, StoreInv

LEMMA StartRefusedKeeps ==
  ASSUME IInv, NEW c \in Calls, StartRefused(c)
  PROVE  IInv'
<1>1. /\ call[c].at = "start" /\ UNCHANGED <<contractVars, body, kept, failures>>
      /\ Turn(c, Known, NeedsService(AfterBundle(call[c], service)))
  BY DEF StartRefused, BundleFails
<1>2. MemoryInv' /\ ContractInv' /\ again' = again
  BY <1>1, InHand, BundleFailsOK, QuietTurnKeeps
<1>3. QED
  BY <1>1, <1>2 DEF IInv, StoreInv, Needed, contractVars

LEMMA RequestFailsKeeps ==
  ASSUME IInv, NEW c \in Calls, RequestFails(c)
  PROVE  IInv'
<1> DEFINE next == NeedsService(AfterBundle(call[c], service))
<1>1. /\ call[c].at \in {"check", "start", "extraFiles", "extraStatus"}
      /\ UNCHANGED <<body, kept>> /\ failures' = failures + 1 /\ Turn(c, Known, next)
      /\ OutcomeOK(next, Needed, Len(log))
  BY BundleFailsOK DEF RequestFails, BundleFails
<1> HIDE DEF next
<1>2. CASE UNCHANGED contractVars
  <2>1. MemoryInv' /\ ContractInv' /\ again' = again
    BY <1>1, <1>2, InHand, QuietTurnKeeps
  <2>2. QED
    BY <1>1, <1>2, <2>1 DEF IInv, StoreInv, Needed, contractVars
<1>3. CASE call[c].at = "start" /\ Start(Of(call[c].bundle))
  <2>1. /\ again' = again /\ ContractInv' /\ Needed' = Needed
        /\ Len(log) \in Nat /\ Len(log') \in Nat /\ Len(log) <= Len(log')
    BY <1>1, <1>3, TurnLeaves, StartKeeps
  <2>2. KnownOK(Known, Needed', Len(log'))
    BY <2>1, InHand DEF KnownOK
  <2>3. OutcomeOK(next, Needed', Len(log'))
    <3>1. RecordOK(next.record, Needed, Len(log'))
      BY <1>1, <2>1, RecordStays DEF OutcomeOK
    <3>2. QED
      BY <1>1, <2>1, <3>1 DEF OutcomeOK
  <2>4. MemoryInv'
    BY <1>1, <2>1, <2>2, <2>3, TurnKeeps DEF IInv
  <2>5. QED
    BY <1>1, <2>1, <2>4 DEF IInv, StoreInv
<1>4. QED
  BY <1>2, <1>3 DEF RequestFails

LEMMA ProcessKeeps ==
  ASSUME IInv, NEW c \in Calls, Process(c)
  PROVE  IInv'
BY LoadKeeps, GetCurrentBlockKeeps, UpdateTransfersKeeps, RemoveFilesKeeps, SetExpendableKeeps,
   RemoveFailsKeeps, SelectOrWakeKeeps, CheckShelteringKeeps, StartTransferKeeps,
   StartRefusedKeeps, RemoveExtraFilesKeeps, SetExtraExpendableKeeps, RequestFailsKeeps
DEF Process

-----------------------------------------------------------------------------
(* The worker, the operator and the end of the process *)

LEMMA RestartKeeps ==
  ASSUME IInv, Restart
  PROVE  IInv'
<1>1. UNCHANGED <<contractVars, again>> /\ Exit /\ UNCHANGED storeVars /\ failures' = failures
  BY DEF Restart, Exit, historyVars
<1>2. Needed' = Needed /\ log' = log /\ ours' = ours /\ ongoing' = ongoing
  BY <1>1 DEF Needed, contractVars
<1>3. MemoryInv'
  BY <1>1, <1>2, InHand, ExitKeeps DEF IInv, ContractInv, storeVars
<1>4. QED
  BY <1>1, <1>2, <1>3 DEF IInv, ContractInv, StoreInv, storeVars

\* Steps that touch neither the chain nor what process() has in hand.
LEMMA SideStepKeeps ==
  ASSUME IInv, UNCHANGED <<contractVars, repositoryVars, body, kept, failures, again, call>>,
         ServiceOK(service'), mode' \in {"normal", "retire"}, info' \in Info,
         lock' \in BOOLEAN, wpc' \in {"idle", "begin", "finish", "normal"},
         crowd' \in 0..Cardinality(Calls),
         switches' \in Nat, foreign' \in Nat, restarts' \in Nat
  PROVE  IInv'
<1>1. Needed' = Needed /\ log' = log /\ ours' = ours /\ ongoing' = ongoing
  BY DEF Needed, contractVars
<1>2. Known' = Known
  BY DEF Known, repositoryVars
<1>3. QED
  BY <1>1, <1>2 DEF IInv, ContractInv, StoreInv, MemoryInv

LEMMA SetModeKeeps ==
  ASSUME IInv, NEW m \in {"normal", "retire"}, SetMode(m)
  PROVE  IInv'
<1>1. NoInfo \in Info
  BY DEF NoInfo, Info
<1>2. QED
  BY <1>1, SideStepKeeps DEF SetMode, IInv, MemoryInv, StoreInv, historyVars

LEMMA TickKeeps ==
  ASSUME IInv, Tick
  PROVE  IInv'
<1>1. ServiceOK(service')
  BY NullOK DEF Tick, IInv, MemoryInv
<1>2. QED
  BY <1>1, SideStepKeeps
  DEF Tick, IInv, MemoryInv, StoreInv, storeVars, historyVars, boundVars

LEMMA WorkerStepKeeps ==
  ASSUME IInv, TaskIsTaken \/ FinishWork \/ ExpireTask \/ EndOfNormal
  PROVE  IInv'
BY SideStepKeeps
DEF TaskIsTaken, FinishWork, ExpireTask, EndOfNormal, IInv, MemoryInv, StoreInv, storeVars,
    historyVars, boundVars

LEMMA RetireOperationKeeps ==
  ASSUME IInv, RetireOperation
  PROVE  IInv'
<1>1. PICK c \in Calls \ Busy :
        call' = [call EXCEPT ![c] = [NoCall EXCEPT !.at = IF service.loaded THEN "scan" ELSE "load",
                                                   !.from = GetFromBlock]]
  BY DEF RetireOperation
<1> DEFINE at == IF service.loaded THEN "scan" ELSE "load"
           from == GetFromBlock
           r == [NoCall EXCEPT !.at = at, !.from = from]
<1>2. RecordOK(r, Needed, Len(log))
  <2>1. from \in Nat /\ at \in {"scan", "load"}
    BY InHand, TransferAssumption DEF GetFromBlock, CurrentBlock, KnownOK, Known
  <2> HIDE DEF at, from
  <2>2. /\ r \in CallRecord /\ r.at = at /\ r.begun = 0 /\ r.checks = 0 /\ r.resolved = <<>>
    <3>1. NoCall \in CallRecord /\ NoCall.begun = 0 /\ NoCall.checks = 0 /\ NoCall.resolved = <<>>
      BY NoCallOK DEF NoCall
    <3>2. QED
      BY <2>1, <3>1 DEF CallRecord
  <2> HIDE DEF r
  <2>3. Given(r.resolved, Needed)
    BY <2>2 DEF Given
  <2>4. QED
    BY <2>1, <2>2, <2>3, ReleaseAssumption DEF RecordOK
<1>3. call' = [call EXCEPT ![c] = r]
  BY <1>1
<1> HIDE DEF r
<1>4. /\ call' \in [Calls -> CallRecord]
      /\ \A d \in Calls : RecordOK(call'[d], Needed, Len(log))
  BY <1>2, <1>3 DEF RecordOK, IInv, MemoryInv
<1>5. crowd' \in 0..Cardinality(Calls)
  <2>1. IsFiniteSet(Calls) /\ c \in Calls /\ Busy \subseteq Calls \ {c}
    BY <1>1, ReleaseAssumption DEF Busy
  <2>2. /\ IsFiniteSet(Calls \ {c}) /\ Cardinality(Calls \ {c}) = Cardinality(Calls) - 1
        /\ Cardinality(Calls) \in Nat
    BY <2>1, FS_RemoveElement, FS_CardinalityType
  <2>3. Cardinality(Busy) \in Nat /\ Cardinality(Busy) <= Cardinality(Calls \ {c})
    BY <2>1, <2>2, FS_Subset, FS_CardinalityType
  <2>4. QED
    BY <2>2, <2>3 DEF RetireOperation, IInv, MemoryInv
<1>6. Needed' = Needed /\ log' = log /\ ours' = ours /\ ongoing' = ongoing /\ Known' = Known
  BY DEF RetireOperation, Needed, contractVars, Known, repositoryVars
<1>7. QED
  BY <1>4, <1>5, <1>6
  DEF RetireOperation, IInv, ContractInv, StoreInv, MemoryInv, storeVars, boundVars

-----------------------------------------------------------------------------
(* What others do on the chain *)

LEMMA ShelterAgainKeeps ==
  ASSUME IInv, NEW b \in Bundles, ShelterAgain(b)
  PROVE  IInv'
<1>1. Needed' \subseteq Needed /\ log' = log /\ Len(log) \in Nat
  BY InHand DEF ShelterAgain, Needed
<1>2. ContractInv'
  BY <1>1 DEF ShelterAgain, IInv, ContractInv
<1>3. StoreInv'
  BY <1>1 DEF ShelterAgain, IInv, StoreInv, boundVars
<1>4. /\ KnownOK(Known, Needed, Len(log))' /\ ServiceOK(service)'
      /\ \A d \in Calls : RecordOK(call[d], Needed', Len(log'))
  BY <1>1, MemoryStays DEF ShelterAgain, IInv
<1>5. QED
  BY <1>2, <1>3, <1>4 DEF ShelterAgain, IInv, MemoryInv, boundVars

LEMMA ChainEventKeeps ==
  ASSUME IInv, UNCHANGED <<repositoryVars, storeVars, lock, wpc, service, call, historyVars>>,
         Needed' \subseteq Needed, ContractInv', failures' \in Nat,
         switches' \in Nat, foreign' \in Nat, restarts' \in Nat,
         Len(log) \in Nat, Len(log') \in Nat, Len(log) <= Len(log')
  PROVE  IInv'
<1>1. /\ KnownOK(Known, Needed, Len(log))' /\ ServiceOK(service)'
      /\ \A d \in Calls : RecordOK(call[d], Needed', Len(log'))
  BY MemoryStays DEF IInv
<1>2. MemoryInv'
  BY <1>1 DEF IInv, MemoryInv, storeVars, historyVars
<1>3. QED
  BY <1>2 DEF IInv, StoreInv, storeVars

LEMMA TransferEndsKeeps ==
  ASSUME IInv, NEW b \in Bundles, TransferIsResolved(b) \/ TransferIsCancelled(b)
  PROVE  IInv'
<1>1. PICK kind \in {"resolved", "cancelled"} :
        /\ log' = Append(log, [kind |-> kind, transfer |-> Of(b)])
        /\ ours' \subseteq ours /\ ongoing' \subseteq ongoing
        /\ kind = "resolved" => b \notin ours'
  BY DEF TransferIsResolved, TransferIsCancelled, Resolve, Cancel, Emit, Of
<1>2. again' = again
  BY DEF TransferIsResolved, TransferIsCancelled, historyVars
<1> DEFINE e == [kind |-> kind, transfer |-> Of(b)]
<1>3. e \in [kind : Kinds, transfer : Transfers] /\ log' = Append(log, e)
  BY <1>1 DEF Kinds, Of, Transfers, Donors
<1>4. Needed' \subseteq Needed /\ (e.kind = "resolved" => e.transfer.bundle \notin Needed')
  BY <1>1, <1>2 DEF Needed, Of
<1> HIDE DEF e
<1>5. ContractInv' /\ Len(log) \in Nat /\ Len(log') \in Nat /\ Len(log) <= Len(log')
  BY <1>1, <1>3, <1>4, EventKeeps DEF IInv, ContractInv
<1>6. QED
  BY <1>4, <1>5, ChainEventKeeps
  DEF TransferIsResolved, TransferIsCancelled, boundVars, IInv, StoreInv, MemoryInv

LEMMA ForeignTransferKeeps ==
  ASSUME IInv, NEW b \in Bundles, ForeignTransfer(b)
  PROVE  IInv'
<1> DEFINE other == [donor |-> "other", bundle |-> b]
           events == <<[kind |-> "started", transfer |-> other],
                       [kind |-> "resolved", transfer |-> other]>>
<1>1. log' = log \o events /\ Needed' = Needed /\ ours' = ours /\ ongoing' = ongoing
  BY DEF ForeignTransfer, Needed, historyVars
<1>2. log \in Seq([kind : Kinds, transfer : Transfers])
  BY DEF IInv, ContractInv
<1>3. events \in Seq([kind : Kinds, transfer : Transfers]) /\ Len(events) = 2
      /\ \A i \in 1..2 : events[i].transfer.donor # "self"
  BY DEF Kinds, Transfers, Donors
<1> HIDE DEF events
<1>4. /\ log' \in Seq([kind : Kinds, transfer : Transfers])
      /\ Len(log') = Len(log) + 2 /\ Len(log) \in Nat
      /\ \A i \in 1..Len(log') :
             log'[i] = IF i <= Len(log) THEN log[i] ELSE events[i - Len(log)]
  <2> DEFINE both == log \o events
  <2>1. /\ both \in Seq([kind : Kinds, transfer : Transfers])
        /\ Len(both) = Len(log) + Len(events)
        /\ \A i \in 1..Len(both) :
               both[i] = IF i <= Len(log) THEN log[i] ELSE events[i - Len(log)]
    <3> DEFINE Events == [kind : Kinds, transfer : Transfers]
    <3>1. log \in Seq(Events) /\ events \in Seq(Events)
      BY <1>2, <1>3
    <3> HIDE DEF Events
    <3>2. /\ both \in Seq(Events)
          /\ Len(both) = Len(log) + Len(events)
          /\ \A i \in 1..Len(both) :
                 both[i] = IF i <= Len(log) THEN log[i] ELSE events[i - Len(log)]
      BY <3>1, ConcatProperties
    <3>3. QED
      BY <3>2 DEF Events
  <2>2. log' = both /\ Len(log) \in Nat
    BY <1>1, <1>2
  <2> HIDE DEF both
  <2>3. QED
    BY <1>3, <2>1, <2>2
<1>5. ASSUME NEW i \in 1..Len(log'), log'[i].kind = "resolved",
             log'[i].transfer.donor = "self"
      PROVE  log'[i].transfer.bundle \notin Needed
  <2>1. CASE i <= Len(log)
    BY <1>4, <1>5, <2>1 DEF IInv, ContractInv
  <2>2. CASE ~(i <= Len(log))
    <3>1. i - Len(log) \in 1..2
      BY <1>4, <2>2
    <3>2. QED
      BY <1>3, <1>4, <1>5, <2>2, <3>1
  <2>3. QED
    BY <2>1, <2>2
<1>6. ContractInv'
  BY <1>1, <1>4, <1>5 DEF IInv, ContractInv
<1>7. QED
  BY <1>1, <1>4, <1>6, ChainEventKeeps DEF ForeignTransfer, IInv, StoreInv, MemoryInv

-----------------------------------------------------------------------------
(* The invariant *)

LEMMA InitOK == Init => IInv
<1> SUFFICES ASSUME Init PROVE IInv
  OBVIOUS
<1>1. ContractInv
  BY DEF Init, RetireInit, ContractInv
<1>2. StoreInv
  BY <1>1 DEF Init, StoreInv, Needed, ContractInv
<1>3. KnownOK(Known, Needed, Len(log))
  BY DEF Init, RetireInit, KnownOK, Known, Given
<1>4. crowd \in 0..Cardinality(Calls)
  BY ReleaseAssumption, FS_CardinalityType DEF Init
<1>5. /\ call \in [Calls -> CallRecord] /\ info \in Info
      /\ \A c \in Calls : RecordOK(call[c], Needed, Len(log))
  BY NoCallOK DEF Init, NoInfo, Info
<1>6. QED
  BY <1>1, <1>2, <1>3, <1>4, <1>5, NullOK DEF IInv, MemoryInv, Init

LEMMA NextKeeps == IInv /\ [Next]_vars => IInv'
<1> SUFFICES ASSUME IInv, [Next]_vars PROVE IInv'
  OBVIOUS
<1>1. CASE Worker \/ ExpireTask
  BY <1>1, TickKeeps, RetireOperationKeeps, WorkerStepKeeps DEF Worker
<1>2. CASE \E c \in Calls : Process(c)
  BY <1>2, ProcessKeeps
<1>3. CASE \E b \in Bundles : \/ ShelterAgain(b) \/ TransferIsResolved(b)
                             \/ ForeignTransfer(b) \/ TransferIsCancelled(b)
  BY <1>3, ShelterAgainKeeps, TransferEndsKeeps, ForeignTransferKeeps
<1>4. CASE \E m \in {"normal", "retire"} : SetMode(m)
  BY <1>4, SetModeKeeps
<1>5. CASE Restart
  BY <1>5, RestartKeeps
<1>6. CASE UNCHANGED vars
  BY <1>6, SideStepKeeps
  DEF vars, storeVars, historyVars, boundVars, IInv, MemoryInv, StoreInv
<1>7. QED
  BY <1>1, <1>2, <1>3, <1>4, <1>5, <1>6 DEF Next

LEMMA InvImpliesTypes == IInv => TypeOK
<1> SUFFICES ASSUME IInv PROVE TypeOK
  OBVIOUS
<1>1. RetireTypeOK /\ lastSaved <= CurrentBlock
  BY InHand DEF IInv, ContractInv, MemoryInv, RetireTypeOK, KnownOK, Known, CurrentBlock,
                OwnTransfers
<1>2. ServiceOK(service)
  BY DEF IInv, MemoryInv
<1>3. \A c \in Calls : call[c].begun < MaxOngoing /\ call[c].checks <= MaxChecks
  BY InHand DEF RecordOK
<1>4. QED
  BY <1>1, <1>2, <1>3 DEF IInv, StoreInv, MemoryInv, TypeOK, ServiceOK

-----------------------------------------------------------------------------
(* The theorems *)

\* Whatever the calls of process() and however they overlap, the variables keep their
\* types; in particular a call never begins as many transfers as maxOngoingTransfers
\* and goes on, nor looks at more bundles than maxShelteringChecks.
THEOREM TypeCorrect == Spec => []TypeOK
<1>1. Spec => []IInv
  BY InitOK, NextKeeps, PTL DEF Spec
<1>2. QED
  BY <1>1, InvImpliesTypes, PTL

\* ReleaseBundlesService removes no body that the chain counts on this node for,
\* for any number of bundles and of overlapping calls, whichever requests fail and
\* whenever the process ends or the operator changes the mode.
THEOREM NeededIsKept == Spec => []NothingNeededIsRemoved
<1>1. Spec => []IInv
  BY InitOK, NextKeeps, PTL DEF Spec
<1>2. IInv => NothingNeededIsRemoved
  BY DEF IInv, StoreInv, Needed, NothingNeededIsRemoved
<1>3. QED
  BY <1>1, <1>2, PTL

-----------------------------------------------------------------------------
(* The list of bundles *)

\* While no transfer is cancelled and no bundle comes back, a transfer that this node
\* has started is over only when its bundle is another's.
Undisturbed == ~Cancelled /\ again = {}

\* Of the bundles that are this node's, those whose transfers are named are being
\* transferred.
Lasting(transfers, mine, going) == \A t \in transfers : t.bundle \in mine => t \in going

Listed(s, mine, going) == s.loaded => \A b \in mine : b \in s.bundles \/ Of(b) \in going

StartedInLog ==
    {log[i].transfer : i \in {j \in 1..Len(log) : /\ log[j].kind = "started"
                                                 /\ log[j].transfer.donor = "self"}}

\* The bundle whose status is to be EXPENDABLE is not this node's.
ExtraInv(mine) == \A c \in Calls : call[c].at = "extraStatus" => call[c].bundle \notin mine

ListInv ==
    /\ Lasting(StartedInLog, ours, ongoing)
    /\ Lasting(active, ours, ongoing)
    /\ ours \subseteq kept
    /\ ExtraInv(ours)
    /\ Listed(service, ours, ongoing)

DropInv == Undisturbed => ListInv

LEMMA EndsLists ==
  ASSUME NEW r, NEW s \in Service
  PROVE  /\ Ends(r, s).service.loaded = s.loaded /\ Ends(r, s).service.bundles = s.bundles
         /\ Ends(r, s).record.at # "extraStatus"
BY DEF Ends, Service, NoCall

LEMMA AfterTransfersLists ==
  ASSUME NEW r \in CallRecord, NEW s \in Service
  PROVE  LET next == AfterTransfers(r, s)
         IN  /\ next.service.loaded = s.loaded /\ next.service.bundles = s.bundles
             /\ next.record.at # "extraStatus"
<1> DEFINE ended == Ends(r, s)
           q == [r EXCEPT !.at = "files"]
           p == [r EXCEPT !.at = "select", !.todo = s.bundles]
<1>1. /\ ended.service.loaded = s.loaded /\ ended.service.bundles = s.bundles
      /\ ended.record.at # "extraStatus"
  BY EndsLists
<1>2. q.at # "extraStatus" /\ p.at # "extraStatus"
  BY DEF CallRecord
<1>3. /\ [ended EXCEPT !.throws = TRUE].service = ended.service
      /\ [ended EXCEPT !.throws = TRUE].record = ended.record
  BY DEF Ends
<1>4. /\ Goes(q, s).service = s /\ Goes(q, s).record = q
      /\ Goes(p, s).service = s /\ Goes(p, s).record = p
  BY DEF Goes
<1> HIDE DEF ended, q, p
<1>5. AfterTransfers(r, s) \in {Goes(q, s), ended, [ended EXCEPT !.throws = TRUE], Goes(p, s)}
  BY DEF AfterTransfers, ended, q, p
<1>6. QED
  BY <1>1, <1>2, <1>3, <1>4, <1>5

LEMMA AfterBundleLists ==
  ASSUME NEW r \in CallRecord, NEW s \in Service
  PROVE  LET next == AfterBundle(r, s)
         IN  /\ next.service.loaded = s.loaded /\ next.service.bundles = s.bundles
             /\ next.record.at # "extraStatus"
<1>1. CASE r.checks >= MaxChecks
  BY <1>1, EndsLists DEF AfterBundle
<1>2. CASE ~(r.checks >= MaxChecks)
  BY <1>2 DEF AfterBundle, Goes, CallRecord
<1>3. QED
  BY <1>1, <1>2

LEMMA ThrowsLists ==
  ASSUME NEW next, next = [record |-> next.record, service |-> next.service,
                           stores |-> next.stores, throws |-> next.throws], NEW t
  PROVE  LET other == [next EXCEPT !.throws = t]
         IN  other.record = next.record /\ other.service = next.service /\ other.throws = t
<1> DEFINE other == [next EXCEPT !.throws = t]
<1>1. other = [record |-> next.record, service |-> next.service, stores |-> next.stores,
               throws |-> t]
  OBVIOUS
<1>2. QED
  BY <1>1

\* What a turn leaves in memory, from what it was given.
LEMMA TurnLists ==
  ASSUME IInv, NEW c \in Calls, NEW known, NEW next, Turn(c, known, next),
         NEW mine, NEW going, ExtraInv(mine),
         Lasting(known.active, mine, going),
         ~next.throws => Listed(next.service, mine, going),
         next.record.at = "extraStatus" => next.record.bundle \notin mine
  PROVE  /\ Lasting(active', mine, going) /\ Listed(service', mine, going)
         /\ \A d \in Calls : call'[d].at = "extraStatus" => call'[d].bundle \notin mine
<1>1. CASE next.throws
  BY <1>1 DEF Turn, Exit, Lasting, Listed, Null, NoCall
<1>2. CASE ~next.throws
  BY <1>2 DEF Turn, ExtraInv, IInv, MemoryInv
<1>3. QED
  BY <1>1, <1>2

\* A turn in which the chain stands still and no bundle of this node leaves the list.
LEMMA QuietTurnLists ==
  ASSUME IInv, ListInv, NEW c \in Calls, NEW next, Turn(c, Known, next),
         UNCHANGED contractVars, kept' = kept,
         ~next.throws => Listed(next.service, ours, ongoing),
         next.record.at = "extraStatus" => next.record.bundle \notin ours
  PROVE  ListInv'
<1>1. log' = log /\ ours' = ours /\ ongoing' = ongoing
  BY DEF contractVars
<1>2. Lasting(Known.active, ours, ongoing)
  BY DEF Known, ListInv
<1>3. /\ Lasting(active', ours, ongoing) /\ Listed(service', ours, ongoing)
      /\ \A d \in Calls : call'[d].at = "extraStatus" => call'[d].bundle \notin ours
  BY <1>2, TurnLists DEF ListInv
<1>4. QED
  BY <1>1, <1>3 DEF ListInv, StartedInLog, ExtraInv

LEMMA LoadLists ==
  ASSUME IInv, ListInv, NEW c \in Calls, Load(c)
  PROVE  ListInv'
<1> DEFINE r == [call[c] EXCEPT !.at = "scan", !.from = GetFromBlock]
           s == [loaded |-> TRUE, bundles |-> kept, total |-> Cardinality(kept),
                 transfers |-> 0, transfered |-> 0]
           next == [Goes(r, s) EXCEPT !.stores = TRUE]
<1>1. next.record = r /\ next.service = s
  BY DEF Goes
<1>2. r.at = "scan"
  BY InHand DEF CallRecord
<1>3. Listed(s, ours, ongoing)
  BY DEF Listed, ListInv
<1>4. Turn(c, Known, next) /\ UNCHANGED contractVars /\ kept' = kept
  BY DEF Load
<1> HIDE DEF r, s, next
<1>5. QED
  BY <1>1, <1>2, <1>3, <1>4, QuietTurnLists

LEMMA FoundLists ==
  ASSUME IInv, ListInv, NEW c \in Calls, NEW found \in SUBSET OwnTransfers(Transfers),
         Lasting(found, ours, ongoing), NEW resolved \in Seq(Transfers), NEW upTo,
         FoundTransfers(c, found, resolved, upTo), UNCHANGED contractVars, kept' = kept
  PROVE  ListInv'
<1> DEFINE taken == {t.bundle : t \in found} \cap service.bundles
           s == [service EXCEPT !.bundles = @ \ taken, !.transfers = @ + Cardinality(taken)]
           record == [NoCall EXCEPT !.count = Cardinality(found), !.resolved = resolved,
                                    !.updated = taken # {}]
           next == AfterTransfers(record, s)
           known == [active |-> found, pending |-> <<>>, lastSaved |-> upTo]
           outcome == [next EXCEPT !.throws = @ \/ (found # {} /\ ~service.loaded)]
<1>1. /\ s.loaded = service.loaded /\ s.bundles = service.bundles \ taken
      /\ s \in Service
  <2>1. Cardinality(taken) \in Nat /\ service \in Service
    <3>1. taken \in SUBSET Bundles
      BY InHand DEF ServiceOK, Service
    <3>2. QED
      BY <3>1, FiniteCount, InHand DEF ServiceOK
  <2> DEFINE more == service.transfers + Cardinality(taken)
             left == service.bundles \ taken
  <2>2. more \in Nat /\ left \in SUBSET Bundles
    BY <2>1 DEF Service
  <2>3. s = [service EXCEPT !.bundles = left, !.transfers = more]
    BY <2>1 DEF Service
  <2> HIDE DEF taken, more, s
  <2>4. s \in Service /\ s.loaded = service.loaded /\ s.bundles = left
    <3> HIDE DEF left
    <3>1. QED
      BY <2>1, <2>2, <2>3 DEF Service
  <2>5. QED
    BY <2>4
<1>2. Listed(s, ours, ongoing)
  <2>1. ASSUME NEW b \in ours, b \in taken PROVE Of(b) \in ongoing
    <3>1. PICK t \in found : t.bundle = b
      BY <2>1
    <3>2. t = Of(b) /\ t \in ongoing
      BY <3>1 DEF OwnTransfers, Transfers, Of, Lasting
    <3>3. QED
      BY <3>2
  <2> HIDE DEF s, taken
  <2>2. QED
    BY <1>1, <2>1 DEF Listed, ListInv
<1>3. record \in CallRecord
  <2>1. Cardinality(found) \in Nat
    BY OwnAreFinite
  <2>2. QED
    BY <2>1 DEF NoCall, CallRecord
<1>4. Turn(c, known, outcome)
  BY DEF FoundTransfers
<1> HIDE DEF record, s
<1>5. /\ next.service.loaded = s.loaded /\ next.service.bundles = s.bundles
      /\ next.record.at # "extraStatus"
  BY <1>1, <1>3, AfterTransfersLists
<1>6. next = [record |-> next.record, service |-> next.service, stores |-> next.stores,
              throws |-> next.throws]
  BY DEF AfterTransfers, Goes, Ends
<1> HIDE DEF next
<1>7. outcome.record = next.record /\ outcome.service = next.service
  BY <1>6, ThrowsLists
<1>8. known.active = found
  OBVIOUS
<1> HIDE DEF outcome, known
<1>9. /\ Listed(outcome.service, ours, ongoing)
      /\ outcome.record.at # "extraStatus"
  BY <1>2, <1>5, <1>7 DEF Listed
<1>10. /\ Lasting(active', ours, ongoing) /\ Listed(service', ours, ongoing)
       /\ \A d \in Calls : call'[d].at = "extraStatus" => call'[d].bundle \notin ours
  BY <1>4, <1>8, <1>9, TurnLists DEF ListInv
<1>11. log' = log /\ ours' = ours /\ ongoing' = ongoing
  BY DEF contractVars
<1>12. QED
  BY <1>10, <1>11 DEF ListInv, StartedInLog, ExtraInv

LEMMA GetCurrentBlockLists ==
  ASSUME IInv, ListInv, NEW c \in Calls, GetCurrentBlock(c)
  PROVE  ListInv'
<1> UNCHANGED contractVars /\ kept' = kept
  BY DEF GetCurrentBlock
<1>1. CASE call[c].from <= CurrentBlock
  <2> DEFINE r == [call[c] EXCEPT !.at = "fetch", !.upTo = CurrentBlock]
  <2>1. r.at = "fetch" /\ Turn(c, Known, Goes(r, service))
    BY <1>1, InHand DEF CallRecord, GetCurrentBlock
  <2> HIDE DEF r
  <2>2. Goes(r, service).service = service /\ Goes(r, service).record = r
    BY DEF Goes
  <2>3. QED
    BY <2>1, <2>2, QuietTurnLists DEF ListInv
<1>2. CASE ~(call[c].from <= CurrentBlock)
  <2>1. FoundTransfers(c, active, pending, lastSaved)
    BY <1>2 DEF GetCurrentBlock
  <2>2. QED
    BY <2>1, InHand, FoundLists DEF KnownOK, Known, ListInv
<1>3. QED
  BY <1>1, <1>2

LEMMA UpdateTransfersLists ==
  ASSUME IInv, ListInv, NEW c \in Calls, UpdateTransfers(c)
  PROVE  ListInv'
<1> DEFINE from == call[c].from
           upTo == call[c].upTo
<1>1. PICK order \in InOrder(NewlyResolved(from, upTo)) :
        FoundTransfers(c, ApplyIncomingTransferEvents(from, upTo, order).active,
                       ApplyIncomingTransferEvents(from, upTo, order).resolved, upTo)
  BY DEF UpdateTransfers
<1>2. from \in Nat /\ upTo \in Nat
  BY InHand DEF CallRecord
<1> HIDE DEF from, upTo
<1> DEFINE applied == ApplyIncomingTransferEvents(from, upTo, order)
<1>3. /\ applied.active \subseteq OwnTransfers(Transfers)
      /\ applied.resolved \in Seq(Transfers)
  BY <1>2, ResolvedAreGiven
<1>4. applied.active \subseteq active \cup StartedInLog
  BY InHand DEF ApplyIncomingTransferEvents, Followed, OwnTransfers, TransfersAt, Positions,
                StartedInLog, IInv, ContractInv
<1> HIDE DEF applied
<1>5. Lasting(applied.active, ours, ongoing)
  BY <1>4 DEF Lasting, ListInv
<1>6. UNCHANGED contractVars /\ kept' = kept
  BY DEF UpdateTransfers
<1>7. QED
  BY <1>1, <1>3, <1>5, <1>6, FoundLists DEF applied

LEMMA RemoveFilesLists ==
  ASSUME IInv, ListInv, NEW c \in Calls, RemoveFiles(c)
  PROVE  ListInv'
<1> DEFINE r == [call[c] EXCEPT !.at = "status"]
<1>1. r.at = "status" /\ Turn(c, Known, Goes(r, service)) /\ UNCHANGED contractVars /\ kept' = kept
  BY InHand DEF CallRecord, RemoveFiles
<1> HIDE DEF r
<1>2. Goes(r, service).service = service /\ Goes(r, service).record = r
  BY DEF Goes
<1>3. QED
  BY <1>1, <1>2, QuietTurnLists DEF ListInv

LEMMA RemoveFailsLists ==
  ASSUME IInv, ListInv, NEW c \in Calls, RemoveFails(c)
  PROVE  ListInv'
<1> DEFINE next == AfterTransfers(NextResolved(c), service)
<1>1. Turn(c, Known, next) /\ UNCHANGED contractVars /\ kept' = kept
  BY DEF RemoveFails
<1>2. /\ next.service.loaded = service.loaded /\ next.service.bundles = service.bundles
      /\ next.record.at # "extraStatus"
  BY InHand, NextResolvedOK, AfterTransfersLists DEF RemoveFails, ServiceOK
<1> HIDE DEF next
<1>3. QED
  BY <1>1, <1>2, QuietTurnLists DEF ListInv, Listed

LEMMA SetExpendableLists ==
  ASSUME IInv, ListInv, Undisturbed, NEW c \in Calls, SetExpendable(c)
  PROVE  ListInv'
<1> DEFINE b == Resolved(c)
<1>1. b \notin ours /\ NextResolved(c) \in CallRecord /\ service \in Service
  BY InHand, NextResolvedOK DEF SetExpendable, Needed, Undisturbed, ServiceOK
<1>2. UNCHANGED contractVars /\ kept' = kept \ {b}
  BY DEF SetExpendable
<1>3. PICK r \in CallRecord, s \in Service :
        /\ Turn(c, Known, AfterTransfers(r, s))
        /\ s.loaded = service.loaded /\ service.bundles \ {b} \subseteq s.bundles
  <2>1. CASE service.loaded
    <3> DEFINE s == Transferred(service, b)
               r == [NextResolved(c) EXCEPT !.updated = TRUE]
    <3>1. s \in Service /\ s.loaded = service.loaded /\ s.bundles = service.bundles \ {b}
      <4> DEFINE left == service.bundles \ {b}
                 more == service.transfered + 1
                 fewer == IF service.transfers > 0 THEN service.transfers - 1 ELSE 0
      <4>1. left \in SUBSET Bundles /\ more \in Nat /\ fewer \in Nat
        BY <1>1 DEF Service
      <4>2. s = [service EXCEPT !.bundles = left, !.transfered = more, !.transfers = fewer]
        BY <1>1 DEF Transferred, Service
      <4> HIDE DEF more, fewer, s
      <4>3. s \in Service /\ s.loaded = service.loaded /\ s.bundles = left
        <5> HIDE DEF left
        <5>1. QED
          BY <1>1, <4>1, <4>2 DEF Service
      <4>4. QED
        BY <4>3
    <3>2. r \in CallRecord
      BY <1>1 DEF CallRecord
    <3>3. Turn(c, Known, AfterTransfers(r, s))
      BY <2>1 DEF SetExpendable
    <3> HIDE DEF r, s
    <3>4. QED
      BY <3>1, <3>2, <3>3
  <2>2. CASE ~service.loaded
    <3>1. Turn(c, Known, AfterTransfers(NextResolved(c), service))
      BY <2>2 DEF SetExpendable
    <3>2. QED
      BY <1>1, <3>1
  <2>3. QED
    BY <2>1, <2>2
<1> DEFINE next == AfterTransfers(r, s)
<1>4. /\ next.service.loaded = s.loaded /\ next.service.bundles = s.bundles
      /\ next.record.at # "extraStatus"
  BY AfterTransfersLists
<1> HIDE DEF next
<1>5. Listed(next.service, ours, ongoing)
  BY <1>1, <1>3, <1>4 DEF Listed, ListInv
<1>6. /\ Lasting(active', ours, ongoing) /\ Listed(service', ours, ongoing)
      /\ \A d \in Calls : call'[d].at = "extraStatus" => call'[d].bundle \notin ours
  <2>1. Turn(c, Known, next) /\ Known.active = active
    BY <1>3 DEF next, Known
  <2>2. QED
    BY <1>4, <1>5, <2>1, TurnLists DEF ListInv
<1>7. log' = log /\ ours' = ours /\ ongoing' = ongoing
  BY <1>2 DEF contractVars
<1>8. QED
  BY <1>1, <1>2, <1>6, <1>7 DEF ListInv, StartedInLog, ExtraInv

LEMMA NextBundleLists ==
  ASSUME IInv, ListInv, NEW c \in Calls, NEW todo, NextBundle(c, todo),
         UNCHANGED contractVars, kept' = kept
  PROVE  ListInv'
<1>1. CASE todo = {}
  <2>1. /\ Ends(call[c], service).service.loaded = service.loaded
        /\ Ends(call[c], service).service.bundles = service.bundles
        /\ Ends(call[c], service).record.at # "extraStatus"
    BY InHand, EndsLists DEF ServiceOK
  <2>2. QED
    BY <1>1, <2>1, QuietTurnLists DEF NextBundle, ListInv, Listed
<1>2. CASE todo # {}
  <2> DEFINE r(b) == [call[c] EXCEPT !.at = "check", !.bundle = b, !.todo = todo \ {b},
                                     !.checks = @ + 1, !.updated = TRUE]
  <2>1. PICK b \in todo : Turn(c, Known, Goes(r(b), service))
    BY <1>2 DEF NextBundle
  <2>2. r(b).at = "check"
    BY InHand DEF CallRecord
  <2> HIDE DEF r
  <2>3. Goes(r(b), service).service = service /\ Goes(r(b), service).record = r(b)
    BY DEF Goes
  <2>4. QED
    BY <2>1, <2>2, <2>3, QuietTurnLists DEF ListInv
<1>3. QED
  BY <1>1, <1>2

LEMMA SelectOrWakeLists ==
  ASSUME IInv, ListInv, NEW c \in Calls, SelectBundles(c) \/ Wake(c)
  PROVE  ListInv'
<1>1. UNCHANGED contractVars /\ kept' = kept /\ \E todo : NextBundle(c, todo)
  BY DEF SelectBundles, Wake
<1>2. QED
  BY <1>1, NextBundleLists

LEMMA WithoutLists ==
  ASSUME service \in Service, NEW b
  PROVE  /\ Without(b) \in Service /\ Without(b).loaded = service.loaded
         /\ Without(b).bundles = service.bundles \ {b}
BY DEF Service, Without

LEMMA CheckShelteringLists ==
  ASSUME IInv, ListInv, NEW c \in Calls, CheckSheltering(c)
  PROVE  ListInv'
<1> UNCHANGED contractVars /\ kept' = kept
  BY DEF CheckSheltering
<1>1. CASE IsSheltering(call[c].bundle)
  <2> DEFINE r == [call[c] EXCEPT !.at = "start"]
  <2>1. r.at = "start" /\ Turn(c, Known, Goes(r, service))
    BY <1>1, InHand DEF CallRecord, CheckSheltering
  <2> HIDE DEF r
  <2>2. Goes(r, service).service = service /\ Goes(r, service).record = r
    BY DEF Goes
  <2>3. QED
    BY <2>1, <2>2, QuietTurnLists DEF ListInv
<1>2. CASE ~IsSheltering(call[c].bundle)
  <2> DEFINE r == [call[c] EXCEPT !.at = "extraFiles"]
             s == Without(call[c].bundle)
             next == NeedsService(Goes(r, s))
  <2>1. r.at = "extraFiles" /\ Turn(c, Known, next)
    BY <1>2, InHand DEF CallRecord, CheckSheltering
  <2>2. s.loaded = service.loaded /\ s.bundles = service.bundles \ {call[c].bundle}
    BY InHand, WithoutLists DEF ServiceOK
  <2> HIDE DEF r, s
  <2>3. next.record = r /\ next.service = s
    BY DEF NeedsService, Goes
  <2>4. Listed(s, ours, ongoing)
    BY <1>2, <2>2 DEF Listed, ListInv, IsSheltering
  <2> HIDE DEF next
  <2>5. QED
    BY <2>1, <2>3, <2>4, QuietTurnLists
<1>3. QED
  BY <1>1, <1>2

LEMMA RemoveExtraFilesLists ==
  ASSUME IInv, ListInv, Undisturbed, NEW c \in Calls, RemoveExtraFiles(c)
  PROVE  ListInv'
<1> DEFINE r == [call[c] EXCEPT !.at = "extraStatus"]
<1>1. /\ Turn(c, Known, Goes(r, service)) /\ UNCHANGED contractVars /\ kept' = kept
      /\ r.bundle = call[c].bundle
  BY InHand DEF RemoveExtraFiles, CallRecord
<1>2. call[c].bundle \notin ours
  BY InHand DEF RecordOK, RemoveExtraFiles, Needed, Undisturbed
<1> HIDE DEF r
<1>3. Goes(r, service).service = service /\ Goes(r, service).record = r
  BY DEF Goes
<1>4. QED
  BY <1>1, <1>2, <1>3, QuietTurnLists DEF ListInv

LEMMA SetExtraExpendableLists ==
  ASSUME IInv, ListInv, NEW c \in Calls, SetExtraExpendable(c)
  PROVE  ListInv'
<1> DEFINE s == [service EXCEPT !.transfered = @ + 1]
           plain == AfterBundle(call[c], s)
           next == NeedsService(plain)
<1>1. /\ UNCHANGED contractVars /\ kept' = kept \ {call[c].bundle}
      /\ Turn(c, Known, next) /\ call[c].bundle \notin ours
  BY DEF SetExtraExpendable, ListInv, ExtraInv
<1>2. s \in Service /\ s.loaded = service.loaded /\ s.bundles = service.bundles
  BY InHand DEF ServiceOK, Service
<1> HIDE DEF s
<1>3. /\ plain.service.loaded = s.loaded /\ plain.service.bundles = s.bundles
      /\ plain.record.at # "extraStatus"
  BY <1>2, InHand, AfterBundleLists
<1>4. plain = [record |-> plain.record, service |-> plain.service, stores |-> plain.stores,
               throws |-> plain.throws]
  BY DEF AfterBundle, Goes, Ends
<1> HIDE DEF plain
<1>5. next.record = plain.record /\ next.service = plain.service
  BY <1>4, ThrowsLists DEF NeedsService
<1> HIDE DEF next
<1>6. Listed(next.service, ours, ongoing) /\ Known.active = active
  BY <1>2, <1>3, <1>5 DEF Listed, ListInv, Known
<1>7. /\ Lasting(active', ours, ongoing) /\ Listed(service', ours, ongoing)
      /\ \A d \in Calls : call'[d].at = "extraStatus" => call'[d].bundle \notin ours
  BY <1>1, <1>3, <1>5, <1>6, TurnLists DEF ListInv
<1>8. log' = log /\ ours' = ours /\ ongoing' = ongoing
  BY <1>1 DEF contractVars
<1>9. QED
  BY <1>1, <1>7, <1>8 DEF ListInv, StartedInLog, ExtraInv

-----------------------------------------------------------------------------
(* The list of bundles when the chain goes on *)

LEMMA StartedAppended ==
  ASSUME IInv, NEW e \in [kind : Kinds, transfer : Transfers], log' = Append(log, e)
  PROVE  StartedInLog' \subseteq StartedInLog \cup
             {t \in {e.transfer} : e.kind = "started" /\ t.donor = "self"}
<1>1. log \in Seq([kind : Kinds, transfer : Transfers])
  BY DEF IInv, ContractInv
<1>2. /\ Len(log') = Len(log) + 1 /\ Len(log) \in Nat
      /\ \A i \in 1..Len(log) : log'[i] = log[i]
      /\ log'[Len(log) + 1] = e
  BY <1>1, AppendProperties
<1>3. ASSUME NEW i \in 1..Len(log'), log'[i].kind = "started", log'[i].transfer.donor = "self"
      PROVE  log'[i].transfer \in StartedInLog \cup
                 {t \in {e.transfer} : e.kind = "started" /\ t.donor = "self"}
  <2>1. CASE i = Len(log) + 1
    BY <1>2, <1>3, <2>1
  <2>2. CASE i # Len(log) + 1
    <3>1. i \in 1..Len(log) /\ log'[i] = log[i]
      BY <1>2, <2>2
    <3>2. QED
      BY <1>3, <3>1 DEF StartedInLog
  <2>3. QED
    BY <2>1, <2>2
<1>4. QED
  BY <1>3 DEF StartedInLog

\* The transfer that is started is in progress.
LEMMA StartLists ==
  ASSUME IInv, ListInv, NEW t \in OwnTransfers(Transfers), Start(t)
  PROVE  /\ Lasting(StartedInLog', ours', ongoing') /\ Lasting(active, ours', ongoing')
         /\ ours' = ours /\ ongoing' = ongoing \cup {t}
<1> DEFINE e == [kind |-> "started", transfer |-> t]
<1>1. /\ e \in [kind : Kinds, transfer : Transfers] /\ log' = Append(log, e)
      /\ e.transfer = t
  BY DEF Start, Emit, Kinds, OwnTransfers
<1> HIDE DEF e
<1>2. StartedInLog' \subseteq StartedInLog \cup {t}
  BY <1>1, StartedAppended
<1>3. ours' = ours /\ ongoing' = ongoing \cup {t}
  BY DEF Start
<1>4. QED
  BY <1>2, <1>3 DEF ListInv, Lasting

LEMMA StartTransferLists ==
  ASSUME IInv, ListInv, NEW c \in Calls, StartTransfer(c)
  PROVE  ListInv'
<1> DEFINE b == call[c].bundle
           r == [call[c] EXCEPT !.begun = @ + 1]
           s == Without(b)
           plain == AfterStart(r, s)
           next == NeedsService(plain)
<1>1. Start(Of(b)) /\ Turn(c, Known, next) /\ kept' = kept
  BY DEF StartTransfer
<1>2. Of(b) \in OwnTransfers(Transfers)
  BY <1>1 DEF IInv, ContractInv, Start, MayStart, Of, Transfers, OwnTransfers, Donors
<1>3. /\ Lasting(StartedInLog', ours', ongoing') /\ Lasting(active, ours', ongoing')
      /\ ours' = ours /\ ongoing' = ongoing \cup {Of(b)}
  BY <1>1, <1>2, StartLists
<1>4. /\ s \in Service /\ s.loaded = service.loaded /\ s.bundles = service.bundles \ {b}
  BY InHand, WithoutLists DEF ServiceOK
<1>5. r \in CallRecord
  <2> DEFINE more == call[c].begun + 1
  <2>1. more \in Nat
    BY InHand DEF CallRecord
  <2> HIDE DEF more
  <2>2. [call[c] EXCEPT !.begun = more] \in CallRecord
    BY <2>1, InHand DEF CallRecord
  <2>3. QED
    BY <2>2, InHand DEF CallRecord, more
<1> HIDE DEF r, s
<1>6. /\ plain.service.loaded = s.loaded /\ plain.service.bundles = s.bundles
      /\ plain.record.at # "extraStatus"
  BY <1>4, <1>5, AfterBundleLists, EndsLists DEF AfterStart
<1>7. plain = [record |-> plain.record, service |-> plain.service, stores |-> plain.stores,
               throws |-> plain.throws]
  BY DEF AfterStart, AfterBundle, Goes, Ends
<1> HIDE DEF plain
<1>8. next.record = plain.record /\ next.service = plain.service
  BY <1>7, ThrowsLists DEF NeedsService
<1> HIDE DEF next
<1>9. Listed(next.service, ours', ongoing') /\ Known.active = active
  BY <1>3, <1>4, <1>6, <1>8 DEF Listed, ListInv, Known
<1>10. ExtraInv(ours')
  BY <1>3 DEF ListInv
<1>11. /\ Lasting(active', ours', ongoing') /\ Listed(service', ours', ongoing')
       /\ \A d \in Calls : call'[d].at = "extraStatus" => call'[d].bundle \notin ours'
  <2> DEFINE mine == ours'
             going == ongoing'
  <2>1. /\ ExtraInv(mine) /\ Lasting(Known.active, mine, going)
        /\ Listed(next.service, mine, going) /\ next.record.at # "extraStatus"
    BY <1>3, <1>6, <1>8, <1>9, <1>10
  <2> HIDE DEF mine, going
  <2>2. /\ Lasting(active', mine, going) /\ Listed(service', mine, going)
        /\ \A d \in Calls : call'[d].at = "extraStatus" => call'[d].bundle \notin mine
    BY <1>1, <2>1, TurnLists
  <2>3. QED
    BY <2>2 DEF mine, going
<1>12. QED
  BY <1>1, <1>3, <1>11 DEF ListInv, ExtraInv

\* A request that failed leaves the list as it is, though the transfer it asked for
\* may have started.
LEMMA BundleFailsLists ==
  ASSUME IInv, ListInv, NEW c \in Calls, BundleFails(c), kept' = kept,
         \/ UNCHANGED contractVars
         \/ Start(Of(call[c].bundle))
  PROVE  ListInv'
<1> DEFINE plain == AfterBundle(call[c], service)
           next == NeedsService(plain)
<1>1. Turn(c, Known, next)
  BY DEF BundleFails
<1>2. /\ plain.service.loaded = service.loaded /\ plain.service.bundles = service.bundles
      /\ plain.record.at # "extraStatus"
  BY InHand, AfterBundleLists DEF ServiceOK
<1>3. plain = [record |-> plain.record, service |-> plain.service, stores |-> plain.stores,
               throws |-> plain.throws]
  BY DEF AfterBundle, Goes, Ends
<1> HIDE DEF plain
<1>4. next.record = plain.record /\ next.service = plain.service
  BY <1>3, ThrowsLists DEF NeedsService
<1> HIDE DEF next
<1>5. CASE UNCHANGED contractVars
  BY <1>1, <1>2, <1>4, <1>5, QuietTurnLists DEF ListInv, Listed
<1>6. CASE Start(Of(call[c].bundle))
  <2> DEFINE mine == ours'
             going == ongoing'
  <2>1. Of(call[c].bundle) \in OwnTransfers(Transfers)
    BY <1>6 DEF IInv, ContractInv, Start, MayStart, Of, Transfers, OwnTransfers, Donors
  <2>2. /\ Lasting(StartedInLog', mine, going) /\ Lasting(active, mine, going)
        /\ mine = ours /\ ongoing \subseteq going
    BY <1>6, <2>1, StartLists
  <2> HIDE DEF mine, going
  <2>3. /\ ExtraInv(mine) /\ Known.active = active /\ Listed(next.service, mine, going)
    BY <1>2, <1>4, <2>2 DEF Listed, ListInv, Known
  <2>4. /\ Lasting(active', mine, going) /\ Listed(service', mine, going)
        /\ \A d \in Calls : call'[d].at = "extraStatus" => call'[d].bundle \notin mine
    BY <1>1, <1>2, <1>4, <2>2, <2>3, TurnLists
  <2>5. ours \subseteq kept
    BY DEF ListInv
  <2>6. QED
    BY <2>2, <2>4, <2>5 DEF ListInv, ExtraInv, mine, going
<1>7. QED
  BY <1>5, <1>6

LEMMA ProcessLists ==
  ASSUME IInv, ListInv, Undisturbed, NEW c \in Calls, Process(c)
  PROVE  ListInv'
<1>1. StartRefused(c) \/ RequestFails(c) => ListInv'
  BY BundleFailsLists DEF StartRefused, RequestFails
<1>2. QED
  BY <1>1, LoadLists, GetCurrentBlockLists, UpdateTransfersLists, RemoveFilesLists,
     SetExpendableLists, RemoveFailsLists, SelectOrWakeLists, CheckShelteringLists,
     StartTransferLists, RemoveExtraFilesLists, SetExtraExpendableLists
  DEF Process

\* The worker, the operator and the end of the process.
LEMMA SideStepLists ==
  ASSUME ListInv, UNCHANGED <<contractVars, kept>>,
         active' = active \/ active' = {}, service' = service \/ service' = Null,
         \A c \in Calls : call'[c] = call[c] \/ call'[c].at # "extraStatus"
  PROVE  ListInv'
<1>1. log' = log /\ ours' = ours /\ ongoing' = ongoing /\ kept' = kept
  BY DEF contractVars
<1>2. QED
  BY <1>1 DEF ListInv, Lasting, Listed, StartedInLog, ExtraInv, Null

LEMMA OtherStepLists ==
  ASSUME IInv, ListInv, \/ Worker \/ ExpireTask \/ Restart \/ UNCHANGED vars
                        \/ \E m \in {"normal", "retire"} : SetMode(m)
  PROVE  ListInv'
<1>1. CASE RetireOperation
  <2>1. PICK d \in Calls :
          call' = [call EXCEPT ![d] = [NoCall EXCEPT !.at = IF service.loaded THEN "scan"
                                                           ELSE "load", !.from = GetFromBlock]]
    BY <1>1 DEF RetireOperation
  <2>2. \A c \in Calls : call'[c] = call[c] \/ call'[c].at # "extraStatus"
    <3> DEFINE r == [NoCall EXCEPT !.at = IF service.loaded THEN "scan" ELSE "load",
                                   !.from = GetFromBlock]
    <3>1. r.at # "extraStatus"
      BY DEF NoCall
    <3>2. call' = [call EXCEPT ![d] = r] /\ call \in [Calls -> CallRecord]
      BY <2>1 DEF IInv, MemoryInv
    <3> HIDE DEF r
    <3>3. QED
      BY <3>1, <3>2
  <2>3. QED
    BY <1>1, <2>2, SideStepLists DEF RetireOperation, repositoryVars, storeVars
<1>2. CASE Tick \/ TaskIsTaken \/ FinishWork \/ EndOfNormal \/ ExpireTask
  BY <1>2, SideStepLists
  DEF Tick, TaskIsTaken, FinishWork, EndOfNormal, ExpireTask, repositoryVars, storeVars
<1>3. CASE Restart
  BY <1>3, SideStepLists DEF Restart, Exit, storeVars, NoCall
<1>4. CASE \E m \in {"normal", "retire"} : SetMode(m)
  BY <1>4, SideStepLists DEF SetMode, repositoryVars
<1>5. CASE UNCHANGED vars
  BY <1>5, SideStepLists DEF vars, repositoryVars, storeVars
<1>6. QED
  BY <1>1, <1>2, <1>3, <1>4, <1>5 DEF Worker

\* A transfer that is resolved takes its bundle from this node.
LEMMA ResolvedLists ==
  ASSUME IInv, ListInv, NEW b \in Bundles, TransferIsResolved(b)
  PROVE  ListInv'
<1> DEFINE e == [kind |-> "resolved", transfer |-> Of(b)]
<1>1. /\ log' = Append(log, e) /\ ours' = ours \ {b} /\ ongoing' = ongoing \ {Of(b)}
      /\ active' = active /\ service' = service /\ call' = call /\ kept' = kept
  BY DEF TransferIsResolved, Resolve, Emit, Of, repositoryVars, storeVars
<1>2. e \in [kind : Kinds, transfer : Transfers] /\ e.kind # "started"
  BY DEF Kinds, Of, Transfers, Donors
<1> HIDE DEF e
<1>3. StartedInLog' \subseteq StartedInLog
  BY <1>1, <1>2, StartedAppended
<1>4. Of(b).bundle = b /\ \A d \in ours' : Of(d) # Of(b)
  BY <1>1 DEF Of
<1>5. Lasting(StartedInLog, ours', ongoing') /\ Lasting(active, ours', ongoing')
  BY <1>1, <1>4 DEF Lasting, ListInv
<1>6. Listed(service, ours', ongoing')
  BY <1>1, <1>4 DEF Listed, ListInv
<1>7. QED
  BY <1>1, <1>3, <1>5, <1>6 DEF ListInv, Lasting, ExtraInv

LEMMA ForeignLists ==
  ASSUME IInv, ListInv, NEW b \in Bundles, ForeignTransfer(b)
  PROVE  ListInv'
<1> DEFINE other == [donor |-> "other", bundle |-> b]
           first == [kind |-> "started", transfer |-> other]
           second == [kind |-> "resolved", transfer |-> other]
           Events == [kind : Kinds, transfer : Transfers]
<1>1. /\ log' = log \o <<first, second>> /\ ours' = ours /\ ongoing' = ongoing
      /\ active' = active /\ service' = service /\ call' = call /\ kept' = kept
  BY DEF ForeignTransfer, repositoryVars, storeVars
<1>2. log \in Seq(Events) /\ <<first, second>> \in Seq(Events)
  BY DEF IInv, ContractInv, Kinds, Transfers, Donors
<1>3. /\ Len(<<first, second>>) = 2 /\ <<first, second>>[1] = first
      /\ <<first, second>>[2] = second
      /\ first.transfer.donor # "self" /\ second.transfer.donor # "self"
  OBVIOUS
<1> HIDE DEF first, second, Events
<1>4. /\ Len(log') = Len(log) + 2 /\ Len(log) \in Nat
      /\ \A i \in 1..Len(log') : log'[i] = IF i <= Len(log) THEN log[i]
                                           ELSE <<first, second>>[i - Len(log)]
  BY <1>1, <1>2, <1>3, ConcatProperties
<1>5. StartedInLog' \subseteq StartedInLog
  <2>1. ASSUME NEW i \in 1..Len(log'), log'[i].kind = "started",
               log'[i].transfer.donor = "self"
        PROVE  log'[i].transfer \in StartedInLog
    <3>1. CASE i <= Len(log)
      BY <1>4, <2>1, <3>1 DEF StartedInLog
    <3>2. CASE ~(i <= Len(log))
      <4>1. i - Len(log) = 1 \/ i - Len(log) = 2
        BY <1>4, <3>2
      <4>2. QED
        BY <1>3, <1>4, <2>1, <3>2, <4>1
    <3>3. QED
      BY <3>1, <3>2
  <2>2. QED
    BY <2>1 DEF StartedInLog
<1>6. QED
  BY <1>1, <1>5 DEF ListInv, Lasting, ExtraInv

\* What happened on the chain stays in its log.
LEMMA OnceUndisturbed ==
  ASSUME IInv, [Next]_vars, Undisturbed'
  PROVE  Undisturbed
<1>1. log \in Seq([kind : Kinds, transfer : Transfers])
  BY DEF IInv, ContractInv
<1>2. again \subseteq again'
  <2>1. ASSUME NEW c \in Calls, Process(c) PROVE again' = again
    <3>1. ASSUME NEW found, NEW resolved, NEW upTo, FoundTransfers(c, found, resolved, upTo)
          PROVE  again' = again
      BY <3>1, TurnLeaves DEF FoundTransfers
    <3>2. ASSUME NEW todo, NextBundle(c, todo) PROVE again' = again
      BY <3>2, TurnLeaves DEF NextBundle
    <3>3. CASE Load(c) \/ GetCurrentBlock(c) \/ UpdateTransfers(c)
      BY <3>1, <3>3, TurnLeaves DEF Load, GetCurrentBlock, UpdateTransfers
    <3>4. CASE RemoveFiles(c) \/ SetExpendable(c) \/ RemoveFails(c)
      BY <3>4, TurnLeaves DEF RemoveFiles, SetExpendable, RemoveFails
    <3>5. CASE SelectBundles(c) \/ Wake(c)
      BY <3>2, <3>5 DEF SelectBundles, Wake
    <3>6. CASE CheckSheltering(c) \/ StartTransfer(c) \/ StartRefused(c)
      BY <3>6, TurnLeaves DEF CheckSheltering, StartTransfer, StartRefused, BundleFails
    <3>7. CASE RemoveExtraFiles(c) \/ SetExtraExpendable(c) \/ RequestFails(c)
      BY <3>7, TurnLeaves DEF RemoveExtraFiles, SetExtraExpendable, RequestFails, BundleFails
    <3>8. QED
      BY <2>1, <3>3, <3>4, <3>5, <3>6, <3>7 DEF Process
  <2>2. CASE Restart \/ \E m \in {"normal", "retire"} : SetMode(m)
    BY <2>2 DEF Restart, Exit, SetMode, historyVars
  <2>3. CASE Worker \/ ExpireTask \/ UNCHANGED vars
    BY <2>3 DEF Worker, Tick, RetireOperation, TaskIsTaken, FinishWork, EndOfNormal, ExpireTask,
                vars, historyVars
  <2>4. CASE \E b \in Bundles : \/ ShelterAgain(b) \/ TransferIsResolved(b)
                               \/ ForeignTransfer(b) \/ TransferIsCancelled(b)
    BY <2>4 DEF ShelterAgain, TransferIsResolved, ForeignTransfer, TransferIsCancelled,
                historyVars
  <2>5. QED
    BY <2>1, <2>2, <2>3, <2>4 DEF Next
<1>3. \/ log' = log
      \/ \E e : log' = Append(log, e)
      \/ \E e, f : log' = log \o <<e, f>>
  <2>1. CASE \E c \in Calls : Process(c)
    BY <2>1
    DEF Process, Load, GetCurrentBlock, UpdateTransfers, RemoveFiles, SetExpendable,
        RemoveFails, SelectBundles, Wake, CheckSheltering, StartTransfer, StartRefused,
        RemoveExtraFiles, SetExtraExpendable, RequestFails, Start, Emit, contractVars
  <2>2. CASE Restart \/ \E m \in {"normal", "retire"} : SetMode(m)
    BY <2>2 DEF Restart, SetMode, contractVars
  <2>3. CASE Worker \/ ExpireTask \/ UNCHANGED vars
    BY <2>3 DEF Worker, Tick, RetireOperation, TaskIsTaken, FinishWork, EndOfNormal, ExpireTask,
                vars, contractVars
  <2>4. CASE \E b \in Bundles : \/ ShelterAgain(b) \/ TransferIsResolved(b)
                               \/ ForeignTransfer(b) \/ TransferIsCancelled(b)
    BY <2>4 DEF ShelterAgain, TransferIsResolved, ForeignTransfer, TransferIsCancelled, Resolve,
                Cancel, Emit
  <2>5. QED
    BY <2>1, <2>2, <2>3, <2>4 DEF Next
<1>4. \A i \in DOMAIN log : i \in DOMAIN log' /\ log'[i] = log[i]
  <2>1. ASSUME NEW e, log' = Append(log, e), NEW i \in DOMAIN log
        PROVE  i \in DOMAIN log' /\ log'[i] = log[i]
    BY <1>1, <2>1
  <2>2. ASSUME NEW e, NEW f, log' = log \o <<e, f>>, NEW i \in DOMAIN log
        PROVE  i \in DOMAIN log' /\ log'[i] = log[i]
    BY <1>1, <2>2
  <2>3. QED
    BY <1>3, <2>1, <2>2
<1>5. QED
  BY <1>2, <1>4 DEF Undisturbed, Cancelled

LEMMA NotDisturbed ==
  ASSUME IInv, Undisturbed', NEW b \in Bundles
  PROVE  ~ShelterAgain(b) /\ ~TransferIsCancelled(b)
<1>1. ~ShelterAgain(b)
  BY DEF ShelterAgain, Undisturbed
<1>2. ~TransferIsCancelled(b)
  <2> SUFFICES ASSUME TransferIsCancelled(b) PROVE FALSE
    OBVIOUS
  <2> DEFINE e == [kind |-> "cancelled", transfer |-> Of(b)]
  <2>1. log' = Append(log, e) /\ e.kind = "cancelled"
    BY DEF TransferIsCancelled, Cancel, Emit
  <2> HIDE DEF e
  <2>2. Len(log) + 1 \in DOMAIN log' /\ log'[Len(log) + 1] = e
    BY <2>1 DEF IInv, ContractInv
  <2>3. QED
    BY <2>1, <2>2 DEF Undisturbed, Cancelled
<1>3. QED
  BY <1>1, <1>2

LEMMA DropStep == IInv /\ DropInv /\ [Next]_vars => DropInv'
<1> SUFFICES ASSUME IInv, DropInv, [Next]_vars, Undisturbed' PROVE ListInv'
  BY DEF DropInv
<1>1. Undisturbed /\ ListInv
  BY OnceUndisturbed DEF DropInv
<1>2. ASSUME NEW b \in Bundles PROVE ~ShelterAgain(b) /\ ~TransferIsCancelled(b)
  BY NotDisturbed
<1>3. QED
  BY <1>1, <1>2, ProcessLists, OtherStepLists, ResolvedLists, ForeignLists DEF Next

LEMMA DropInit == Init => DropInv
<1> SUFFICES ASSUME Init PROVE ListInv
  BY DEF DropInv
<1>1. StartedInLog = {} /\ active = {} /\ ~service.loaded /\ ours \subseteq kept
  BY DEF Init, RetireInit, StartedInLog, Null
<1>2. ExtraInv(ours)
  BY DEF Init, ExtraInv, NoCall
<1>3. QED
  BY <1>1, <1>2 DEF ListInv, Lasting, Listed

-----------------------------------------------------------------------------
(* The number of transfers in progress *)

\* The transfers of this node whose start is in a block up to n.
Started(n) ==
    {log[i].transfer : i \in {j \in 1..Len(log) : /\ j <= n /\ log[j].kind = "started"
                                                 /\ log[j].transfer.donor = "self"}}

Seen(n) == ongoing \cap Started(n)

Removing == {"files", "status"}
Selecting == {"select", "check", "start", "extraFiles", "extraStatus", "sleep"}

\* How many of the transfers that maxOngoingTransfers allows a call has used up, if
\* the transfers in R are over by the time it looks at the chain; a call that has not
\* asked for the current block has yet to be given any.
Used(r, R) ==
    IF r.at = "fetch" THEN Cardinality(Seen(r.upTo) \ R)
    ELSE IF r.at \in Removing \cup Selecting THEN r.count + r.begun
    ELSE MaxOngoing

\* The transfers that the calls under way may still begin.
Slots(R) == {p \in Calls \X (1..MaxOngoing) : p[2] > Used(call[p[1]], R)}

\* Whichever transfers end, there is room for those that remain and those to come.
RoomInv ==
    \A R \in SUBSET Transfers :
        Cardinality(ongoing \ R) + Cardinality(Slots(R)) <= MaxOngoing * crowd + failures

\* A scan that starts where it does misses no transfer in progress.
FollowInv ==
    /\ Seen(lastSaved) \subseteq active
    /\ \A c \in Calls : call[c].at \in {"scan", "fetch"} =>
           call[c].from - 1 <= Len(log) /\ Seen(call[c].from - 1) \subseteq active

CountInv ==
    \A c \in Calls : call[c].at \in Selecting => call[c].count + call[c].begun < MaxOngoing

GoingInv ==
    /\ ongoing \subseteq StartedInLog
    /\ \A t \in ongoing : t.bundle \in ours

\* This node starts no transfer twice.
OnceInv ==
    \A i, j \in 1..Len(log) :
        log[i].kind = "started" /\ log[i].transfer.donor = "self" /\ log[j] = log[i] => i = j

BusyInv == Cardinality(Busy) <= crowd

BoundParts == RoomInv /\ FollowInv /\ CountInv /\ GoingInv /\ OnceInv /\ BusyInv

BoundInv == Undisturbed => BoundParts

LEMMA Times ==
  ASSUME NEW a \in Nat, NEW b \in Nat, a <= b, NEW m \in Nat
  PROVE  m * a <= m * b /\ m * a \in Nat /\ m * b \in Nat
<1>1. PICK d \in Nat : b = a + d
  <2>1. b - a \in Nat /\ b = a + (b - a)
    OBVIOUS
  <2>2. QED
    BY <2>1
<1>2. m * b = m * a + m * d /\ m * d \in Nat /\ m * a \in Nat
  BY <1>1
<1>3. QED
  BY <1>2

LEMMA Products ==
  ASSUME NEW a \in Nat \ {0}, NEW b \in Nat, a <= b, NEW m \in Nat
  PROVE  (a - 1) * m + m <= m * b /\ (a - 1) * m \in Nat
<1>1. (a - 1) * m + m = m * a /\ (a - 1) * m \in Nat
  OBVIOUS
<1>2. QED
  BY <1>1, Times

LEMMA SlotsFinite ==
  ASSUME NEW R
  PROVE  IsFiniteSet(Slots(R)) /\ Cardinality(Slots(R)) \in Nat
<1>1. IsFiniteSet(Calls) /\ IsFiniteSet(1..MaxOngoing)
  BY ReleaseAssumption, FS_Interval
<1>2. IsFiniteSet(Calls \X (1..MaxOngoing))
  BY <1>1, FS_Product
<1>3. Slots(R) \subseteq Calls \X (1..MaxOngoing)
  BY DEF Slots
<1>4. QED
  BY <1>2, <1>3, FS_Subset, FS_CardinalityType

LEMMA OngoingFinite ==
  ASSUME IInv, GoingInv, NEW R
  PROVE  /\ ongoing \subseteq OwnTransfers(Transfers)
         /\ IsFiniteSet(ongoing \ R) /\ Cardinality(ongoing \ R) \in Nat
<1>1. ongoing \subseteq OwnTransfers(Transfers)
  BY DEF IInv, ContractInv, GoingInv, StartedInLog, OwnTransfers
<1>2. ongoing \ R \in SUBSET OwnTransfers(Transfers)
  BY <1>1
<1>3. QED
  BY <1>1, <1>2, OwnAreFinite

LEMMA SeenStays ==
  ASSUME UNCHANGED contractVars
  PROVE  \A n : Seen(n)' = Seen(n)
<1>1. log' = log /\ ongoing' = ongoing
  BY DEF contractVars
<1>2. QED
  BY <1>1 DEF Seen, Started

LEMMA SlotsShrink ==
  ASSUME NEW R, \A d \in Calls : \A i \in 1..MaxOngoing :
                    i > Used(call[d], R)' => i > Used(call[d], R)
  PROVE  Slots(R)' \subseteq Slots(R)
BY DEF Slots

\* Nothing more is in progress, and no call may begin more than it could.
LEMMA RoomStays ==
  ASSUME IInv, RoomInv, GoingInv, ongoing' = ongoing, crowd' \in Nat, crowd <= crowd',
         failures' \in Nat, failures <= failures',
         \A R \in SUBSET Transfers : Slots(R)' \subseteq Slots(R)
  PROVE  RoomInv'
<1> DEFINE room == MaxOngoing * crowd
           more == MaxOngoing * crowd'
<1> SUFFICES ASSUME NEW R \in SUBSET Transfers
             PROVE  Cardinality(ongoing \ R) + Cardinality(Slots(R)') <= more + failures'
  BY DEF RoomInv
<1>1. Cardinality(Slots(R)') <= Cardinality(Slots(R)) /\ Cardinality(Slots(R)') \in Nat
  <2>1. Slots(R)' \in SUBSET Slots(R)
    OBVIOUS
  <2>2. QED
    BY <2>1, SlotsFinite, FS_Subset, FS_CardinalityType
<1>2. crowd \in Nat /\ failures \in Nat /\ MaxOngoing \in Nat
  BY ReleaseAssumption DEF IInv, StoreInv, MemoryInv
<1>3. room \in Nat /\ more \in Nat /\ room <= more
  BY <1>2, Times
<1>4. Cardinality(ongoing \ R) + Cardinality(Slots(R)) <= room + failures
  BY DEF RoomInv
<1>5. Cardinality(ongoing \ R) \in Nat /\ Cardinality(Slots(R)) \in Nat
  BY OngoingFinite, SlotsFinite
<1> HIDE DEF room, more
<1>6. QED
  BY <1>1, <1>2, <1>3, <1>4, <1>5

\* The call that takes the turn goes on with its record, unless the process ends.
LEMMA TurnShape ==
  ASSUME IInv, NEW c \in Calls, NEW known, NEW next, Turn(c, known, next)
  PROVE  /\ \A d \in Calls : \/ call'[d].at = "idle"
                             \/ d # c /\ call'[d] = call[d]
                             \/ d = c /\ call'[d] = next.record
         /\ \/ active' = known.active /\ lastSaved' = known.lastSaved
            \/ active' = {} /\ lastSaved' = 0 /\ \A d \in Calls : call'[d].at = "idle"
         /\ crowd' = crowd
<1>1. CASE next.throws
  BY <1>1 DEF Turn, Exit, NoCall, historyVars
<1>2. CASE ~next.throws
  BY <1>2 DEF Turn, IInv, MemoryInv, historyVars
<1>3. QED
  BY <1>1, <1>2

LEMMA BusyStays ==
  ASSUME IInv, BusyInv, crowd' = crowd,
         \A d \in Calls : call[d].at = "idle" => call'[d].at = "idle"
  PROVE  BusyInv'
<1>1. Busy' \in SUBSET Busy /\ Busy \in SUBSET Calls
  BY DEF Busy
<1>2. Cardinality(Busy') <= Cardinality(Busy)
  BY <1>1, ReleaseAssumption, FS_Subset
<1>3. /\ Cardinality(Busy') \in Nat /\ Cardinality(Busy) \in Nat /\ crowd \in Nat
  BY <1>1, ReleaseAssumption, FS_Subset, FS_CardinalityType DEF IInv, MemoryInv
<1>4. QED
  BY <1>2, <1>3 DEF BusyInv

\* What is left of a call's share when it goes on with record q.
Spends(q, n) ==
    \/ q.at = "idle"
    \/ /\ q.at \in Removing \cup Selecting
       /\ q.count + q.begun = n
       /\ q.at \in Selecting => n < MaxOngoing

LEMMA IdleUses ==
  ASSUME NEW r, r.at \in {"idle", "load", "scan"}, NEW R
  PROVE  Used(r, R) = MaxOngoing
BY DEF Used, Removing, Selecting

LEMMA SpentUses ==
  ASSUME NEW r, r.at \in Removing \cup Selecting, NEW R
  PROVE  Used(r, R) = r.count + r.begun
BY DEF Used, Removing, Selecting

\* A call whose record says nothing of the chain may begin what the record says.
LEMMA UsedStays ==
  ASSUME UNCHANGED contractVars, NEW c \in Calls, NEW R,
         call'[c].at = "idle" \/ call'[c] = call[c]
  PROVE  \A i \in 1..MaxOngoing : i > Used(call[c], R)' => i > Used(call[c], R)
<1>1. CASE call'[c].at = "idle"
  <2>1. Used(call[c], R)' = MaxOngoing
    BY <1>1 DEF Used, Removing, Selecting
  <2>2. QED
    BY <2>1, ReleaseAssumption
<1>2. CASE call'[c] = call[c]
  <2>1. \A n : Seen(n)' = Seen(n)
    BY SeenStays
  <2>2. Used(call[c], R)' = Used(call[c], R)
    BY <1>2, <2>1 DEF Used
  <2>3. QED
    BY <2>2
<1>3. QED
  BY <1>1, <1>2

LEMMA UsedSpends ==
  ASSUME NEW c \in Calls, NEW R, NEW n, Spends(call'[c], n)
  PROVE  \A i \in 1..MaxOngoing : i > Used(call[c], R)' => i > n
<1>1. CASE call'[c].at = "idle"
  <2>1. Used(call[c], R)' = MaxOngoing
    BY <1>1 DEF Used, Removing, Selecting
  <2>2. QED
    BY <2>1, ReleaseAssumption
<1>2. CASE call'[c].at \in Removing \cup Selecting /\ call'[c].count + call'[c].begun = n
  <2>1. Used(call[c], R)' = n
    BY <1>2 DEF Used, Removing, Selecting
  <2>2. QED
    BY <2>1
<1>3. QED
  BY <1>1, <1>2 DEF Spends

\* A turn of a call that deals with what its scan has found, on a chain that stands still.
LEMMA QuietTurnBound ==
  ASSUME IInv, BoundParts, NEW c \in Calls, NEW next, Turn(c, Known, next),
         UNCHANGED contractVars, failures' \in Nat, failures <= failures',
         call[c].at \in Removing \cup Selecting,
         Spends(next.record, call[c].count + call[c].begun)
  PROVE  BoundParts'
<1> DEFINE n == call[c].count + call[c].begun
<1>1. /\ log' = log /\ ours' = ours /\ ongoing' = ongoing
      /\ \A m : Seen(m)' = Seen(m)
  BY SeenStays DEF contractVars
<1>2. /\ \A d \in Calls : \/ call'[d].at = "idle"
                          \/ d # c /\ call'[d] = call[d]
                          \/ d = c /\ call'[d] = next.record
      /\ \/ active' = active /\ lastSaved' = lastSaved
         \/ active' = {} /\ lastSaved' = 0 /\ \A d \in Calls : call'[d].at = "idle"
      /\ crowd' = crowd
  BY TurnShape DEF Known
<1>3. Spends(call'[c], n)
  BY <1>2 DEF Spends
<1>4. ASSUME NEW R \in SUBSET Transfers PROVE Slots(R)' \subseteq Slots(R)
  <2>1. \A i \in 1..MaxOngoing : i > Used(call[c], R)' => i > Used(call[c], R)
    <3>1. Used(call[c], R) = n
      BY SpentUses
    <3>2. \A i \in 1..MaxOngoing : i > Used(call[c], R)' => i > n
      BY <1>3, UsedSpends
    <3>3. QED
      BY <3>1, <3>2
  <2>2. ASSUME NEW d \in Calls, d # c
        PROVE  \A i \in 1..MaxOngoing : i > Used(call[d], R)' => i > Used(call[d], R)
    BY <1>2, <2>2, UsedStays
  <2>3. QED
    BY <2>1, <2>2, SlotsShrink
<1>5. RoomInv'
  BY <1>1, <1>2, <1>4, RoomStays DEF BoundParts, IInv, MemoryInv
<1>6. GoingInv' /\ OnceInv'
  BY <1>1 DEF BoundParts, GoingInv, StartedInLog, OnceInv
<1>7. CountInv'
  BY <1>2, <1>3 DEF CountInv, Spends, BoundParts, Selecting
<1>8. FollowInv'
  <2>1. CASE active' = active /\ lastSaved' = lastSaved
    <3>1. \A d \in Calls : call'[d].at \in {"scan", "fetch"} => call'[d] = call[d]
      BY <1>2, <1>3 DEF Spends, Removing, Selecting
    <3>2. QED
      BY <1>1, <2>1, <3>1 DEF FollowInv, BoundParts
  <2>2. CASE active' = {} /\ lastSaved' = 0 /\ \A d \in Calls : call'[d].at = "idle"
    BY <2>2 DEF FollowInv, Seen, Started
  <2>3. QED
    BY <1>2, <2>1, <2>2
<1>9. BusyInv'
  BY <1>2, BusyStays DEF BoundParts, Removing, Selecting
<1>10. QED
  BY <1>5, <1>6, <1>7, <1>8, <1>9 DEF BoundParts

LEMMA AfterTransfersSpends ==
  ASSUME NEW r \in CallRecord, r.begun = 0, NEW s
  PROVE  Spends(AfterTransfers(r, s).record, r.count)
<1> DEFINE ended == Ends(r, s)
           q == [r EXCEPT !.at = "files"]
           p == [r EXCEPT !.at = "select", !.todo = s.bundles]
<1>1. ended.record.at = "idle" /\ [ended EXCEPT !.throws = TRUE].record.at = "idle"
  BY DEF Ends, NoCall
<1>2. /\ q.at = "files" /\ q.count = r.count /\ q.begun = 0
      /\ p.at = "select" /\ p.count = r.count /\ p.begun = 0
  BY DEF CallRecord
<1>3. Goes(q, s).record = q /\ Goes(p, s).record = p
  BY DEF Goes
<1>4. \/ AfterTransfers(r, s) \in {Goes(q, s), ended, [ended EXCEPT !.throws = TRUE]}
      \/ AfterTransfers(r, s) = Goes(p, s) /\ r.count < MaxOngoing
  BY ReleaseAssumption DEF AfterTransfers, CallRecord
<1>5. r.count \in Nat
  BY DEF CallRecord
<1> HIDE DEF ended, q, p
<1>6. CASE AfterTransfers(r, s) \in {Goes(q, s), ended, [ended EXCEPT !.throws = TRUE]}
  <2>1. CASE AfterTransfers(r, s) = Goes(q, s)
    BY <1>2, <1>3, <1>5, <2>1 DEF Spends, Removing, Selecting
  <2>2. CASE AfterTransfers(r, s) = ended
    BY <1>1, <2>2 DEF Spends
  <2>3. CASE AfterTransfers(r, s) = [ended EXCEPT !.throws = TRUE]
    BY <1>1, <2>3 DEF Spends
  <2>4. QED
    BY <1>6, <2>1, <2>2, <2>3
<1>7. CASE AfterTransfers(r, s) = Goes(p, s) /\ r.count < MaxOngoing
  BY <1>2, <1>3, <1>5, <1>7 DEF Spends, Selecting
<1>8. QED
  BY <1>4, <1>6, <1>7

LEMMA AfterBundleSpends ==
  ASSUME NEW r \in CallRecord, r.count + r.begun < MaxOngoing, NEW s
  PROVE  Spends(AfterBundle(r, s).record, r.count + r.begun)
<1> DEFINE q == [r EXCEPT !.at = "sleep", !.bundle = NoBundle]
<1>1. q.at = "sleep" /\ q.count = r.count /\ q.begun = r.begun
  BY DEF CallRecord
<1>2. Goes(q, s).record = q /\ Ends(r, s).record.at = "idle"
  BY DEF Goes, Ends, NoCall
<1>3. AfterBundle(r, s) \in {Ends(r, s), Goes(q, s)}
  BY DEF AfterBundle
<1> HIDE DEF q
<1>4. QED
  BY <1>1, <1>2, <1>3 DEF Spends, Selecting

\* NeedsService leaves the record as it is.
LEMMA NeedsServiceRecord ==
  ASSUME NEW next, next = [record |-> next.record, service |-> next.service,
                           stores |-> next.stores, throws |-> next.throws]
  PROVE  NeedsService(next).record = next.record
BY ThrowsLists DEF NeedsService

LEMMA AfterBundleShape ==
  ASSUME NEW r, NEW s
  PROVE  LET next == AfterBundle(r, s)
         IN  next = [record |-> next.record, service |-> next.service,
                     stores |-> next.stores, throws |-> next.throws]
BY DEF AfterBundle, Goes, Ends

\* A call that looks at a bundle may begin one transfer more.
LEMMA AtABundleCounts ==
  ASSUME IInv, BoundParts, NEW c \in Calls, call[c].at \in Selecting
  PROVE  /\ call[c] \in CallRecord /\ call[c].count + call[c].begun < MaxOngoing
         /\ call[c].at \in Removing \cup Selecting
BY InHand DEF BoundParts, CountInv

LEMMA MoveBound ==
  ASSUME IInv, BoundParts, NEW c \in Calls, NEW r, NEW next, Turn(c, Known, next),
         next.record = r, UNCHANGED <<contractVars, failures>>,
         r.count = call[c].count, r.begun = call[c].begun,
         \/ call[c].at \in Removing /\ r.at \in Removing
         \/ call[c].at \in Selecting /\ r.at \in Selecting
  PROVE  BoundParts'
<1>1. failures \in Nat
  BY DEF IInv, StoreInv
<1>2. Spends(r, call[c].count + call[c].begun)
  BY DEF Spends, BoundParts, CountInv, Removing, Selecting
<1>3. QED
  BY <1>1, <1>2, QuietTurnBound

LEMMA RemoveBound ==
  ASSUME IInv, BoundParts, NEW c \in Calls,
         RemoveFiles(c) \/ SetExpendable(c) \/ RemoveFails(c)
  PROVE  BoundParts'
<1>1. CASE RemoveFiles(c)
  <2> DEFINE r == [call[c] EXCEPT !.at = "status"]
  <2>1. /\ r.at = "status" /\ r.count = call[c].count /\ r.begun = call[c].begun
        /\ Turn(c, Known, Goes(r, service)) /\ UNCHANGED <<contractVars, failures>>
        /\ call[c].at \in Removing
    BY <1>1, InHand DEF CallRecord, RemoveFiles, Removing
  <2> HIDE DEF r
  <2>2. Goes(r, service).record = r
    BY DEF Goes
  <2>3. QED
    BY <2>1, <2>2, MoveBound DEF Removing
<1>2. CASE SetExpendable(c) \/ RemoveFails(c)
  <2>1. call[c].at \in {"files", "status"} /\ UNCHANGED contractVars
        /\ failures \in Nat /\ failures' \in Nat /\ failures <= failures'
    BY <1>2 DEF SetExpendable, RemoveFails, IInv, StoreInv
  <2>2. /\ NextResolved(c) \in CallRecord /\ NextResolved(c).begun = 0
        /\ NextResolved(c).count = call[c].count /\ call[c].begun = 0
        /\ call[c].count \in Nat
    BY <2>1, InHand, NextResolvedOK DEF NextResolved, CallRecord, RecordOK
  <2>3. \E r \in CallRecord : \E s : /\ r.begun = 0 /\ r.count = call[c].count
                                     /\ Turn(c, Known, AfterTransfers(r, s))
    <3>1. CASE RemoveFails(c)
      BY <2>2, <3>1 DEF RemoveFails
    <3>2. CASE SetExpendable(c) /\ service.loaded
      <4> DEFINE q == [NextResolved(c) EXCEPT !.updated = TRUE]
      <4>1. q \in CallRecord /\ q.begun = 0 /\ q.count = call[c].count
        BY <2>2 DEF CallRecord
      <4>2. Turn(c, Known, AfterTransfers(q, Transferred(service, Resolved(c))))
        BY <3>2 DEF SetExpendable
      <4> HIDE DEF q
      <4>3. QED
        BY <4>1, <4>2
    <3>3. CASE SetExpendable(c) /\ ~service.loaded
      BY <2>2, <3>3 DEF SetExpendable
    <3>4. QED
      BY <1>2, <3>1, <3>2, <3>3
  <2>4. PICK r \in CallRecord : \E s : /\ r.begun = 0 /\ r.count = call[c].count
                                       /\ Turn(c, Known, AfterTransfers(r, s))
    BY <2>3
  <2>5. PICK s : r.begun = 0 /\ r.count = call[c].count /\ Turn(c, Known, AfterTransfers(r, s))
    BY <2>4
  <2>6. Spends(AfterTransfers(r, s).record, call[c].count + call[c].begun)
    BY <2>2, <2>5, AfterTransfersSpends
  <2>7. QED
    BY <2>1, <2>5, <2>6, QuietTurnBound DEF Removing
<1>3. QED
  BY <1>1, <1>2

LEMMA NextBundleBound ==
  ASSUME IInv, BoundParts, NEW c \in Calls, NEW todo, NextBundle(c, todo),
         call[c].at \in {"select", "sleep"}, UNCHANGED <<contractVars, failures>>
  PROVE  BoundParts'
<1>1. CASE todo = {}
  <2>1. Spends(Ends(call[c], service).record, call[c].count + call[c].begun)
    BY DEF Spends, Ends, NoCall
  <2>2. Turn(c, Known, Ends(call[c], service)) /\ failures \in Nat
    BY <1>1 DEF NextBundle, IInv, StoreInv
  <2>3. QED
    BY <2>1, <2>2, QuietTurnBound DEF Selecting
<1>2. CASE todo # {}
  <2> DEFINE r(b) == [call[c] EXCEPT !.at = "check", !.bundle = b, !.todo = todo \ {b},
                                     !.checks = @ + 1, !.updated = TRUE]
  <2>1. PICK b \in todo : Turn(c, Known, Goes(r(b), service))
    BY <1>2 DEF NextBundle
  <2>2. r(b).at = "check" /\ r(b).count = call[c].count /\ r(b).begun = call[c].begun
    BY InHand DEF CallRecord
  <2> HIDE DEF r
  <2>3. Goes(r(b), service).record = r(b)
    BY DEF Goes
  <2>4. QED
    BY <2>1, <2>2, <2>3, MoveBound DEF Selecting
<1>3. QED
  BY <1>1, <1>2

LEMMA SelectOrWakeBound ==
  ASSUME IInv, BoundParts, NEW c \in Calls, SelectBundles(c) \/ Wake(c)
  PROVE  BoundParts'
<1>1. /\ UNCHANGED <<contractVars, failures>> /\ \E todo : NextBundle(c, todo)
      /\ call[c].at \in {"select", "sleep"}
  BY DEF SelectBundles, Wake
<1>2. QED
  BY <1>1, NextBundleBound

LEMMA CheckOrRemoveExtraBound ==
  ASSUME IInv, BoundParts, NEW c \in Calls, CheckSheltering(c) \/ RemoveExtraFiles(c)
  PROVE  BoundParts'
<1> DEFINE r(at) == [call[c] EXCEPT !.at = at]
<1>1. PICK at \in {"start", "extraFiles", "extraStatus"},
           s \in {service, Without(call[c].bundle)} :
        \/ Turn(c, Known, Goes(r(at), s))
        \/ Turn(c, Known, NeedsService(Goes(r(at), s)))
  BY DEF CheckSheltering, RemoveExtraFiles
<1>2. r(at).at = at /\ r(at).count = call[c].count /\ r(at).begun = call[c].begun
  BY InHand DEF CallRecord
<1> HIDE DEF r
<1>3. Goes(r(at), s).record = r(at) /\ NeedsService(Goes(r(at), s)).record = r(at)
  BY DEF Goes, NeedsService
<1>4. UNCHANGED <<contractVars, failures>> /\ call[c].at \in Selecting
  BY DEF CheckSheltering, RemoveExtraFiles, Selecting
<1>5. QED
  BY <1>1, <1>2, <1>3, <1>4, MoveBound DEF Selecting

\* A call that goes on to the next bundle without having begun a transfer.
LEMMA NextBound ==
  ASSUME IInv, BoundParts, NEW c \in Calls, call[c].at \in Selecting, NEW s,
         Turn(c, Known, NeedsService(AfterBundle(call[c], s))),
         UNCHANGED contractVars, failures' \in Nat, failures <= failures'
  PROVE  BoundParts'
<1> DEFINE next == NeedsService(AfterBundle(call[c], s))
<1>1. next.record = AfterBundle(call[c], s).record
  BY AfterBundleShape, NeedsServiceRecord
<1>2. Spends(next.record, call[c].count + call[c].begun)
  BY <1>1, AtABundleCounts, AfterBundleSpends
<1> HIDE DEF next
<1>3. Turn(c, Known, next)
  BY DEF next
<1>4. QED
  BY <1>2, <1>3, AtABundleCounts, QuietTurnBound

-----------------------------------------------------------------------------
(* Calls that look at the chain *)

\* A call that sees all that is in progress leaves room for the others: each of them
\* has at most its share, and there are fewer of them than calls under way.
LEMMA FreshRoom ==
  ASSUME IInv, BoundParts, NEW c \in Calls, call[c].at # "idle", NEW R \in SUBSET Transfers,
         UNCHANGED <<ongoing, crowd>>, failures' \in Nat, failures <= failures',
         \A d \in Calls : d # c =>
             \A i \in 1..MaxOngoing : i > Used(call[d], R)' => i > Used(call[d], R),
         \A i \in 1..MaxOngoing : i > Used(call[c], R)' => i > Cardinality(ongoing \ R)
  PROVE  Cardinality(ongoing' \ R) + Cardinality(Slots(R)') <= MaxOngoing * crowd' + failures'
<1> DEFINE k == Cardinality(ongoing \ R)
           others == (Busy \ {c}) \X (1..MaxOngoing)
           own == {c} \X ((k + 1)..MaxOngoing)
           b == Cardinality(Busy)
<1>1. k \in Nat /\ MaxOngoing \in Nat \ {0} /\ crowd \in Nat /\ failures \in Nat
  <2>1. k \in Nat
    BY OngoingFinite DEF BoundParts
  <2>2. crowd \in Nat /\ failures \in Nat
    BY DEF IInv, StoreInv, MemoryInv
  <2>3. QED
    BY <2>1, <2>2, ReleaseAssumption
<1>2. c \in Busy /\ IsFiniteSet(Busy)
  BY ReleaseAssumption, FS_Subset DEF Busy
<1>3. /\ IsFiniteSet(Busy \ {c}) /\ Cardinality(Busy \ {c}) = b - 1 /\ b \in Nat
      /\ Cardinality(Busy \ {c}) \in Nat
  BY <1>2, FS_RemoveElement, FS_CardinalityType
<1>4. b \in Nat \ {0} /\ b <= crowd
  BY <1>3 DEF BoundParts, BusyInv
<1>5. IsFiniteSet(others) /\ Cardinality(others) = (b - 1) * MaxOngoing
  <2>1. IsFiniteSet(1..MaxOngoing) /\ Cardinality(1..MaxOngoing) = MaxOngoing
    <3>1. 1 \in Int /\ MaxOngoing \in Int /\ ~(1 > MaxOngoing) /\ MaxOngoing - 1 + 1 = MaxOngoing
      BY <1>1
    <3>2. /\ IsFiniteSet(1..MaxOngoing)
          /\ Cardinality(1..MaxOngoing) = IF 1 > MaxOngoing THEN 0 ELSE MaxOngoing - 1 + 1
      BY <3>1, FS_Interval
    <3>3. QED
      BY <3>1, <3>2
  <2>2. IsFiniteSet(others)
        /\ Cardinality(others) = Cardinality(Busy \ {c}) * Cardinality(1..MaxOngoing)
    BY <1>3, <2>1, FS_Product
  <2>3. QED
    BY <1>3, <2>1, <2>2
<1>6. RoomInv /\ Cardinality(Slots(R)) \in Nat
  BY SlotsFinite DEF BoundParts
<1> DEFINE room == MaxOngoing * crowd
<1>7. room \in Nat /\ (b - 1) * MaxOngoing + MaxOngoing <= room /\ (b - 1) * MaxOngoing \in Nat
  BY <1>1, <1>4, Products, Times
<1>8. k + Cardinality(Slots(R)) <= room + failures
  BY <1>6 DEF RoomInv
<1>9. ASSUME NEW p \in Slots(R)', p[1] # c PROVE p \in Slots(R) /\ p \in others
  <2>1. /\ p \in Calls \X (1..MaxOngoing) /\ p[1] \in Calls /\ p[2] \in 1..MaxOngoing
        /\ p[2] > Used(call[p[1]], R)'
    BY DEF Slots
  <2>2. p[2] > Used(call[p[1]], R)
    BY <1>9, <2>1
  <2>3. p[1] \in Busy
    BY <1>1, <2>1, <2>2, IdleUses DEF Busy
  <2>4. QED
    BY <1>9, <2>1, <2>2, <2>3 DEF Slots
<1>10. ASSUME NEW p \in Slots(R)', p[1] = c PROVE p \in own /\ k < MaxOngoing
  <2>1. /\ p \in Calls \X (1..MaxOngoing) /\ p[2] \in 1..MaxOngoing
        /\ p[2] > Used(call[c], R)'
    BY <1>10 DEF Slots
  <2>2. p[2] > k
    BY <2>1
  <2>3. QED
    BY <1>1, <1>10, <2>1, <2>2
<1> HIDE DEF others, own, room, k, b
<1>11. CASE k < MaxOngoing
  <2>1. IsFiniteSet(own) /\ Cardinality(own) = MaxOngoing - k
    <3>1. /\ IsFiniteSet((k + 1)..MaxOngoing)
          /\ Cardinality((k + 1)..MaxOngoing) = MaxOngoing - k
      BY <1>1, <1>11, FS_Interval
    <3>2. IsFiniteSet({c}) /\ Cardinality({c}) = 1
      BY FS_Singleton
    <3>3. IsFiniteSet(own) /\ Cardinality(own) = Cardinality({c}) * Cardinality((k + 1)..MaxOngoing)
      BY <3>1, <3>2, FS_Product DEF own
    <3>4. QED
      BY <1>1, <1>11, <3>1, <3>2, <3>3
  <2>2. Slots(R)' \subseteq others \cup own
    BY <1>9, <1>10
  <2>3. IsFiniteSet(others \cup own)
        /\ Cardinality(others \cup own) <= Cardinality(others) + Cardinality(own)
    <3>1. /\ IsFiniteSet(others \cup own) /\ IsFiniteSet(others \cap own)
          /\ Cardinality(others \cup own)
                 = Cardinality(others) + Cardinality(own) - Cardinality(others \cap own)
      BY <1>5, <2>1, FS_Union, FS_Subset
    <3>2. /\ Cardinality(others \cap own) \in Nat /\ Cardinality(others) \in Nat
          /\ Cardinality(own) \in Nat
      BY <1>5, <2>1, <3>1, FS_CardinalityType
    <3>3. QED
      BY <3>1, <3>2
  <2>4. /\ Cardinality(Slots(R)') <= Cardinality(others \cup own)
        /\ Cardinality(Slots(R)') \in Nat /\ Cardinality(others \cup own) \in Nat
    <3>1. Slots(R)' \in SUBSET (others \cup own)
      BY <2>2
    <3>2. QED
      BY <2>3, <3>1, FS_Subset, FS_CardinalityType
  <2> DEFINE share == (b - 1) * MaxOngoing
  <2>5. share \in Nat /\ share + MaxOngoing <= room /\ Cardinality(others) = share
    BY <1>5, <1>7
  <2> HIDE DEF share
  <2>6. k + Cardinality(Slots(R)') <= room + failures'
    BY <1>1, <1>7, <1>11, <2>1, <2>3, <2>4, <2>5
  <2>7. QED
    BY <2>6 DEF room, k
<1>12. CASE ~(k < MaxOngoing)
  <2>1. Slots(R)' \in SUBSET Slots(R)
    BY <1>9, <1>10, <1>12
  <2>2. Cardinality(Slots(R)') <= Cardinality(Slots(R)) /\ Cardinality(Slots(R)') \in Nat
    BY <2>1, SlotsFinite, FS_Subset, FS_CardinalityType
  <2>3. k + Cardinality(Slots(R)') <= room + failures'
    BY <1>1, <1>6, <1>7, <1>8, <2>2
  <2>4. QED
    BY <2>3 DEF room, k
<1>13. QED
  BY <1>11, <1>12

LEMMA FollowedKeeps ==
  ASSUME IInv, BoundParts, Undisturbed, NEW from \in Nat, NEW upTo \in Nat, upTo <= Len(log),
         NEW order
  PROVE  LET applied == ApplyIncomingTransferEvents(from, upTo, order)
         IN  /\ ongoing \cap active \subseteq applied.active
             /\ Seen(from - 1) \subseteq active => Seen(upTo) \subseteq applied.active
<1> DEFINE applied == ApplyIncomingTransferEvents(from, upTo, order)
           news == TransfersAt(Positions("started", from, upTo))
<1>1. log \in Seq([kind : Kinds, transfer : Transfers]) /\ DOMAIN log = 1..Len(log)
      /\ Len(log) \in Nat
  BY InHand DEF IInv, ContractInv
<1>2. TransfersAt(Positions("cancelled", from, upTo)) = {}
  BY DEF TransfersAt, Positions, Undisturbed, Cancelled
<1>3. active \subseteq OwnTransfers(Transfers)
  BY DEF IInv, MemoryInv, KnownOK, Known
<1>4. ASSUME NEW i \in NewlyResolved(from, upTo) PROVE log[i].transfer \notin ongoing
  <2>1. /\ i \in 1..Len(log) /\ log[i].kind = "resolved" /\ log[i].transfer.donor = "self"
    BY <1>1, <1>3 DEF NewlyResolved, Positions, Followed, OwnTransfers
  <2>2. log[i].transfer.bundle \notin ours
    BY <2>1 DEF IInv, ContractInv, Needed, Undisturbed
  <2>3. QED
    BY <2>2 DEF BoundParts, GoingInv
<1>5. applied.active = Followed(from, upTo) \ TransfersAt(NewlyResolved(from, upTo))
      /\ Followed(from, upTo) = active \cup OwnTransfers(news)
  BY <1>2 DEF ApplyIncomingTransferEvents, Followed
<1>6. ongoing \cap (active \cup OwnTransfers(news)) \subseteq applied.active
  BY <1>4, <1>5 DEF TransfersAt
<1>7. ASSUME Seen(from - 1) \subseteq active, NEW t \in Seen(upTo)
      PROVE  t \in active \cup OwnTransfers(news)
  <2>1. PICK j \in 1..Len(log) : /\ j <= upTo /\ log[j].kind = "started"
                                /\ log[j].transfer.donor = "self" /\ t = log[j].transfer
    BY DEF Seen, Started
  <2>2. CASE j >= from
    <3>1. j \in Positions("started", from, upTo)
      BY <1>1, <2>1, <2>2 DEF Positions
    <3>2. QED
      BY <2>1, <3>1 DEF TransfersAt, OwnTransfers
  <2>3. CASE ~(j >= from)
    <3>1. j <= from - 1
      BY <2>1, <2>3
    <3>2. t \in Seen(from - 1)
      BY <2>1, <3>1 DEF Seen, Started
    <3>3. QED
      BY <1>7, <3>2
  <2>4. QED
    BY <2>2, <2>3
<1>8. Seen(upTo) \subseteq ongoing
  BY DEF Seen
<1> HIDE DEF applied, news
<1>9. QED
  BY <1>6, <1>7, <1>8 DEF applied

LEMMA FoundBound ==
  ASSUME IInv, BoundParts, NEW c \in Calls, call[c].at \in {"scan", "fetch"},
         NEW found \in SUBSET OwnTransfers(Transfers), NEW resolved \in Seq(Transfers),
         NEW upTo, FoundTransfers(c, found, resolved, upTo), UNCHANGED <<contractVars, failures>>,
         ongoing \cap active \subseteq found, Seen(upTo) \subseteq found,
         call[c].at = "fetch" => Seen(call[c].upTo) \subseteq found,
         call[c].at = "scan" => ongoing \subseteq found
  PROVE  BoundParts'
<1> DEFINE taken == {t.bundle : t \in found} \cap service.bundles
           s == [service EXCEPT !.bundles = @ \ taken, !.transfers = @ + Cardinality(taken)]
           record == [NoCall EXCEPT !.count = Cardinality(found), !.resolved = resolved,
                                    !.updated = taken # {}]
           plain == AfterTransfers(record, s)
           known == [active |-> found, pending |-> <<>>, lastSaved |-> upTo]
           next == [plain EXCEPT !.throws = @ \/ (found # {} /\ ~service.loaded)]
           n == Cardinality(found)
<1>1. IsFiniteSet(found) /\ n \in Nat
  BY OwnAreFinite
<1>2. record \in CallRecord /\ record.count = n /\ record.begun = 0
  BY <1>1 DEF NoCall, CallRecord
<1>3. Turn(c, known, next) /\ known.active = found /\ known.lastSaved = upTo
  BY DEF FoundTransfers
<1> HIDE DEF record, s
<1>4. Spends(plain.record, n)
  BY <1>2, AfterTransfersSpends
<1>5. plain = [record |-> plain.record, service |-> plain.service, stores |-> plain.stores,
               throws |-> plain.throws]
  BY DEF AfterTransfers, Goes, Ends
<1> HIDE DEF plain
<1>6. Spends(next.record, n)
  BY <1>4, <1>5, ThrowsLists
<1> HIDE DEF next, known
<1>7. /\ \A d \in Calls : \/ call'[d].at = "idle"
                          \/ d # c /\ call'[d] = call[d]
                          \/ d = c /\ call'[d] = next.record
      /\ \/ active' = found /\ lastSaved' = upTo
         \/ active' = {} /\ lastSaved' = 0 /\ \A d \in Calls : call'[d].at = "idle"
      /\ crowd' = crowd
  BY <1>3, TurnShape
<1>8. Spends(call'[c], n)
  BY <1>6, <1>7 DEF Spends
<1>9. /\ log' = log /\ ours' = ours /\ ongoing' = ongoing /\ failures' = failures
      /\ failures \in Nat /\ \A m : Seen(m)' = Seen(m)
  BY SeenStays DEF contractVars, IInv, StoreInv
<1>10. ASSUME NEW R, NEW d \in Calls, d # c
       PROVE  \A i \in 1..MaxOngoing : i > Used(call[d], R)' => i > Used(call[d], R)
  BY <1>7, <1>10, UsedStays
<1>11. ASSUME NEW R \in SUBSET Transfers PROVE \A i \in 1..MaxOngoing : i > Used(call[c], R)' => i > n
  BY <1>8, UsedSpends
<1> HIDE DEF n
<1>12. RoomInv'
  <2>1. CASE call[c].at = "fetch"
    <3>1. ASSUME NEW R \in SUBSET Transfers PROVE Slots(R)' \subseteq Slots(R)
      <4>1. Used(call[c], R) = Cardinality(Seen(call[c].upTo) \ R)
        BY <2>1 DEF Used
      <4>2. Seen(call[c].upTo) \ R \in SUBSET found
        BY <2>1
      <4>3. Used(call[c], R) <= n /\ Used(call[c], R) \in Nat
        BY <1>1, <4>1, <4>2, FS_Subset, FS_CardinalityType DEF n
      <4>4. \A i \in 1..MaxOngoing : i > Used(call[c], R)' => i > Used(call[c], R)
        BY <1>1, <1>11, <4>3
      <4>5. QED
        BY <1>10, <4>4, SlotsShrink
    <3>2. QED
      BY <1>7, <1>9, <3>1, RoomStays DEF BoundParts, IInv, MemoryInv
  <2>2. CASE call[c].at = "scan"
    <3>1. ASSUME NEW R \in SUBSET Transfers
          PROVE  Cardinality(ongoing' \ R) + Cardinality(Slots(R)') <= MaxOngoing * crowd' + failures'
      <4>1. ongoing \ R \in SUBSET found
        BY <2>2
      <4>2. Cardinality(ongoing \ R) <= n /\ Cardinality(ongoing \ R) \in Nat
        BY <1>1, <4>1, FS_Subset, FS_CardinalityType DEF n
      <4>3. \A i \in 1..MaxOngoing : i > Used(call[c], R)' => i > Cardinality(ongoing \ R)
        BY <1>1, <1>11, <4>2
      <4>4. \A d \in Calls : d # c =>
                \A i \in 1..MaxOngoing : i > Used(call[d], R)' => i > Used(call[d], R)
        BY <1>10
      <4>5. /\ UNCHANGED <<ongoing, crowd>> /\ call[c].at # "idle"
            /\ failures' \in Nat /\ failures <= failures'
        BY <1>7, <1>9, <2>2
      <4>6. QED
        BY <4>3, <4>4, <4>5, FreshRoom
    <3>2. QED
      BY <3>1 DEF RoomInv
  <2>3. QED
    BY <2>1, <2>2
<1>13. GoingInv' /\ OnceInv'
  BY <1>9 DEF BoundParts, GoingInv, StartedInLog, OnceInv
<1>14. CountInv'
  BY <1>7, <1>8 DEF CountInv, Spends, BoundParts, Selecting
<1>15. FollowInv'
  <2>1. CASE active' = found /\ lastSaved' = upTo
    <3>1. \A d \in Calls : call'[d].at \in {"scan", "fetch"} => call'[d] = call[d]
      BY <1>7, <1>8 DEF Spends, Removing, Selecting
    <3>2. \A m : Seen(m) \subseteq active => Seen(m) \subseteq found
      BY DEF Seen
    <3>3. QED
      BY <1>9, <2>1, <3>1, <3>2 DEF FollowInv, BoundParts
  <2>2. CASE active' = {} /\ lastSaved' = 0 /\ \A d \in Calls : call'[d].at = "idle"
    BY <2>2 DEF FollowInv, Seen, Started
  <2>3. QED
    BY <1>7, <2>1, <2>2
<1>16. BusyInv'
  BY <1>7, BusyStays DEF BoundParts
<1>17. QED
  BY <1>12, <1>13, <1>14, <1>15, <1>16 DEF BoundParts

\* A transfer that is in progress was started in one of the last Duration blocks.
InTime ==
    \A t \in ongoing : \E i \in 1..Len(log) :
        i + Duration >= Len(log) /\ log[i] = [kind |-> "started", transfer |-> t]

LEMMA FromIsEarly ==
  ASSUME IInv, BoundParts, InTime
  PROVE  GetFromBlock - 1 <= Len(log) /\ Seen(GetFromBlock - 1) \subseteq active
<1>1. lastSaved \in Nat /\ lastSaved <= Len(log) /\ Len(log) \in Nat
  <2>1. Len(log) \in Nat
    BY DEF IInv, ContractInv
  <2>2. lastSaved \in 0..Len(log)
    BY DEF IInv, MemoryInv, KnownOK, Known
  <2>3. QED
    BY <2>1, <2>2
<1>2. CASE lastSaved > 0
  BY <1>1, <1>2 DEF GetFromBlock, BoundParts, FollowInv
<1>3. CASE ~(lastSaved > 0)
  <2>1. GetFromBlock - 1 <= Len(log) - Duration - 1 \/ GetFromBlock - 1 = -1
    BY <1>1, <1>3, TransferAssumption DEF GetFromBlock, CurrentBlock
  <2>2. GetFromBlock \in Int /\ GetFromBlock - 1 <= Len(log)
    BY <1>1, <1>3, TransferAssumption DEF GetFromBlock, CurrentBlock
  <2>3. ASSUME NEW t \in Seen(GetFromBlock - 1) PROVE FALSE
    <3>1. PICK j \in 1..Len(log) :
            /\ j <= GetFromBlock - 1 /\ log[j].kind = "started"
            /\ log[j].transfer.donor = "self" /\ log[j].transfer = t /\ t \in ongoing
      BY DEF Seen, Started
    <3>2. PICK i \in 1..Len(log) :
            i + Duration >= Len(log) /\ log[i] = [kind |-> "started", transfer |-> t]
      BY <3>1 DEF InTime
    <3>3. log[j] = [kind |-> "started", transfer |-> t]
      <4>1. log[j] \in [kind : Kinds, transfer : Transfers]
        BY <3>1, Elements DEF IInv, ContractInv
      <4>2. QED
        BY <3>1, <4>1
    <3>4. i = j
      BY <3>1, <3>2, <3>3 DEF BoundParts, OnceInv
    <3>5. QED
      BY <1>1, <2>1, <2>2, <3>1, <3>2, <3>4, TransferAssumption
  <2>4. QED
    BY <2>2, <2>3
<1>4. QED
  BY <1>2, <1>3

\* A call is about to look at the chain, from a block that is early enough.
LEMMA AimBound ==
  ASSUME IInv, BoundParts, NEW c \in Calls, NEW r, call' = [call EXCEPT ![c] = r],
         UNCHANGED <<contractVars, active, lastSaved, failures>>,
         crowd' \in Nat, crowd <= crowd', r.at \in {"load", "scan", "fetch"},
         r.at \in {"scan", "fetch"} => r.from - 1 <= Len(log) /\ Seen(r.from - 1) \subseteq active,
         r.at = "fetch" => r.upTo = Len(log) /\ call[c].at # "idle" /\ crowd' = crowd
  PROVE  RoomInv' /\ FollowInv' /\ CountInv' /\ GoingInv' /\ OnceInv'
<1>1. /\ log' = log /\ ours' = ours /\ ongoing' = ongoing /\ failures' = failures
      /\ failures \in Nat /\ \A m : Seen(m)' = Seen(m)
  BY SeenStays DEF contractVars, IInv, StoreInv
<1>2. call'[c] = r /\ \A d \in Calls : d # c => call'[d] = call[d]
  BY DEF IInv, MemoryInv
<1>3. ASSUME NEW R, NEW d \in Calls, d # c
      PROVE  \A i \in 1..MaxOngoing : i > Used(call[d], R)' => i > Used(call[d], R)
  BY <1>2, <1>3, UsedStays
<1>4. RoomInv'
  <2>1. CASE r.at = "fetch"
    <3>1. ASSUME NEW R \in SUBSET Transfers
          PROVE  Cardinality(ongoing' \ R) + Cardinality(Slots(R)') <= MaxOngoing * crowd' + failures'
      <4>1. Seen(Len(log)) = ongoing
        BY DEF Seen, Started, BoundParts, GoingInv, StartedInLog
      <4>2. Used(call[c], R)' = Cardinality(ongoing \ R)
        BY <1>1, <1>2, <2>1, <4>1 DEF Used
      <4>3. \A i \in 1..MaxOngoing : i > Used(call[c], R)' => i > Cardinality(ongoing \ R)
        BY <4>2
      <4>4. \A d \in Calls : d # c =>
                \A i \in 1..MaxOngoing : i > Used(call[d], R)' => i > Used(call[d], R)
        BY <1>3
      <4>5. /\ UNCHANGED <<ongoing, crowd>> /\ call[c].at # "idle"
            /\ failures' \in Nat /\ failures <= failures'
        BY <1>1, <2>1
      <4>6. QED
        BY <4>3, <4>4, <4>5, FreshRoom
    <3>2. QED
      BY <3>1 DEF RoomInv
  <2>2. CASE r.at # "fetch"
    <3>1. ASSUME NEW R \in SUBSET Transfers PROVE Slots(R)' \subseteq Slots(R)
      <4>1. Used(call[c], R)' = MaxOngoing
        BY <1>2, <2>2 DEF Used, Removing, Selecting
      <4>2. \A i \in 1..MaxOngoing : ~(i > Used(call[c], R)')
        BY <4>1, ReleaseAssumption
      <4>3. QED
        BY <1>3, <4>2, SlotsShrink
    <3>2. QED
      BY <1>1, <3>1, RoomStays DEF BoundParts
  <2>3. QED
    BY <2>1, <2>2
<1>5. GoingInv' /\ OnceInv'
  BY <1>1 DEF BoundParts, GoingInv, StartedInLog, OnceInv
<1>6. CountInv'
  BY <1>2 DEF CountInv, BoundParts, Selecting
<1>7. FollowInv'
  BY <1>1, <1>2 DEF FollowInv, BoundParts
<1>8. QED
  BY <1>4, <1>5, <1>6, <1>7

LEMMA LoadBound ==
  ASSUME IInv, BoundParts, InTime, NEW c \in Calls, Load(c)
  PROVE  BoundParts'
<1> DEFINE r == [call[c] EXCEPT !.at = "scan", !.from = GetFromBlock]
           s == [loaded |-> TRUE, bundles |-> kept, total |-> Cardinality(kept),
                 transfers |-> 0, transfered |-> 0]
           next == [Goes(r, s) EXCEPT !.stores = TRUE]
<1>1. Turn(c, Known, next) /\ UNCHANGED contractVars /\ failures' = failures /\ call[c].at = "load"
  BY DEF Load
<1>2. next.record = r /\ ~next.throws
  BY DEF Goes
<1>3. r.at = "scan" /\ r.from = GetFromBlock
  BY InHand DEF CallRecord
<1> HIDE DEF r, next
<1>4. /\ call' = [call EXCEPT ![c] = r] /\ crowd' = crowd /\ active' = active
      /\ lastSaved' = lastSaved
  BY <1>1, <1>2 DEF Turn, Known, historyVars
<1>5. crowd \in Nat
  BY DEF IInv, MemoryInv
<1>6. RoomInv' /\ FollowInv' /\ CountInv' /\ GoingInv' /\ OnceInv'
  <2>1. r.from - 1 <= Len(log) /\ Seen(r.from - 1) \subseteq active
    BY <1>3, FromIsEarly
  <2>2. UNCHANGED <<contractVars, active, lastSaved, failures>> /\ crowd' \in Nat /\ crowd <= crowd'
    BY <1>1, <1>4, <1>5
  <2>3. QED
    BY <1>3, <1>4, <2>1, <2>2, AimBound
<1>7. BusyInv'
  BY <1>1, <1>4, BusyStays DEF BoundParts, IInv, MemoryInv
<1>8. QED
  BY <1>6, <1>7 DEF BoundParts

LEMMA GetCurrentBlockBound ==
  ASSUME IInv, BoundParts, Undisturbed, NEW c \in Calls, GetCurrentBlock(c)
  PROVE  BoundParts'
<1>1. call[c].at = "scan" /\ UNCHANGED <<contractVars, failures>>
  BY DEF GetCurrentBlock
<1>2. call[c].from - 1 <= Len(log) /\ Seen(call[c].from - 1) \subseteq active /\ call[c].from \in Nat
  BY <1>1, InHand DEF BoundParts, FollowInv, CallRecord
<1>3. CASE call[c].from <= CurrentBlock
  <2> DEFINE r == [call[c] EXCEPT !.at = "fetch", !.upTo = CurrentBlock]
  <2>1. /\ r.at = "fetch" /\ r.upTo = Len(log) /\ r.from = call[c].from
        /\ Turn(c, Known, Goes(r, service))
    BY <1>3, InHand DEF CallRecord, GetCurrentBlock, CurrentBlock
  <2> HIDE DEF r
  <2>2. /\ call' = [call EXCEPT ![c] = r] /\ crowd' = crowd /\ active' = active
        /\ lastSaved' = lastSaved
    BY <2>1 DEF Turn, Known, historyVars, Goes
  <2>3. crowd \in Nat
    BY DEF IInv, MemoryInv
  <2>4. RoomInv' /\ FollowInv' /\ CountInv' /\ GoingInv' /\ OnceInv'
    <3>1. r.from - 1 <= Len(log) /\ Seen(r.from - 1) \subseteq active
      BY <1>2, <2>1
    <3>2. UNCHANGED <<contractVars, active, lastSaved, failures>> /\ crowd' \in Nat /\ crowd <= crowd'
      BY <1>1, <2>2, <2>3
    <3>3. r.at = "fetch" /\ r.upTo = Len(log) /\ call[c].at # "idle" /\ crowd' = crowd
      BY <1>1, <2>1, <2>2
    <3>4. QED
      BY <2>2, <3>1, <3>2, <3>3, AimBound
  <2>5. BusyInv'
    BY <1>1, <2>2, BusyStays DEF BoundParts, IInv, MemoryInv
  <2>6. QED
    BY <2>4, <2>5 DEF BoundParts
<1>4. CASE ~(call[c].from <= CurrentBlock)
  <2>1. FoundTransfers(c, active, pending, lastSaved)
    BY <1>4 DEF GetCurrentBlock
  <2>2. ongoing \subseteq active
    <3>1. Len(log) <= call[c].from - 1
      BY <1>2, <1>4, InHand DEF CurrentBlock
    <3>2. StartedInLog \subseteq Started(call[c].from - 1)
      BY <1>2, <3>1, InHand DEF StartedInLog, Started
    <3>3. QED
      BY <1>2, <3>2 DEF Seen, BoundParts, GoingInv
  <2>3. Seen(lastSaved) \subseteq active
    BY DEF BoundParts, FollowInv
  <2>4. active \in SUBSET OwnTransfers(Transfers) /\ pending \in Seq(Transfers)
    BY InHand DEF KnownOK, Known
  <2>5. QED
    BY <1>1, <2>1, <2>2, <2>3, <2>4, FoundBound
<1>5. QED
  BY <1>3, <1>4

LEMMA UpdateTransfersBound ==
  ASSUME IInv, BoundParts, Undisturbed, NEW c \in Calls, UpdateTransfers(c)
  PROVE  BoundParts'
<1> DEFINE from == call[c].from
           upTo == call[c].upTo
<1>1. PICK order \in InOrder(NewlyResolved(from, upTo)) :
        FoundTransfers(c, ApplyIncomingTransferEvents(from, upTo, order).active,
                       ApplyIncomingTransferEvents(from, upTo, order).resolved, upTo)
  BY DEF UpdateTransfers
<1>2. from \in Nat /\ upTo \in Nat /\ upTo <= Len(log) /\ Seen(from - 1) \subseteq active
  BY InHand DEF CallRecord, RecordOK, UpdateTransfers, BoundParts, FollowInv
<1>3. call[c].at = "fetch" /\ UNCHANGED <<contractVars, failures>> /\ call[c].upTo = upTo
  BY DEF UpdateTransfers
<1> HIDE DEF from, upTo
<1> DEFINE applied == ApplyIncomingTransferEvents(from, upTo, order)
<1>4. /\ applied.active \subseteq OwnTransfers(Transfers)
      /\ applied.resolved \in Seq(Transfers)
  BY <1>2, ResolvedAreGiven
<1>5. ongoing \cap active \subseteq applied.active /\ Seen(upTo) \subseteq applied.active
  BY <1>2, FollowedKeeps
<1>6. FoundTransfers(c, applied.active, applied.resolved, upTo)
  BY <1>1
<1> HIDE DEF applied
<1>7. QED
  BY <1>3, <1>4, <1>5, <1>6, FoundBound

-----------------------------------------------------------------------------
(* The number of transfers in progress when the chain goes on *)

\* What was started up to a block is not changed by later blocks.
LEMMA StartedPrefix ==
  ASSUME Len(log) \in Nat, Len(log') \in Nat, Len(log) <= Len(log'),
         \A i \in 1..Len(log) : log'[i] = log[i]
  PROVE  /\ \A n \in Int : n <= Len(log) => Started(n)' = Started(n)
         /\ StartedInLog \subseteq StartedInLog'
<1>1. 1..Len(log) \subseteq 1..Len(log')
  OBVIOUS
<1>2. ASSUME NEW n \in Int, n <= Len(log) PROVE Started(n)' = Started(n)
  <2>1. \A i \in 1..Len(log') : i <= n => i \in 1..Len(log)
    BY <1>2
  <2>2. QED
    BY <1>1, <2>1 DEF Started
<1>3. StartedInLog \subseteq StartedInLog'
  BY <1>1 DEF StartedInLog
<1>4. QED
  BY <1>2, <1>3

LEMMA ChainUsed ==
  ASSUME NEW c \in Calls, NEW R, NEW Q, call'[c].at = "idle" \/ call'[c] = call[c],
         call'[c] = call[c] /\ call[c].at = "fetch" =>
             Seen(call[c].upTo)' \ R = Seen(call[c].upTo) \ Q
  PROVE  \A i \in 1..MaxOngoing : i > Used(call[c], R)' => i > Used(call[c], Q)
<1>1. CASE call'[c].at = "idle"
  <2>1. Used(call[c], R)' = MaxOngoing
    BY <1>1 DEF Used, Removing, Selecting
  <2>2. QED
    BY <2>1, ReleaseAssumption
<1>2. CASE call'[c] = call[c]
  <2>1. Used(call[c], R)' = Used(call[c], Q)
    BY <1>2 DEF Used
  <2>2. QED
    BY <2>1
<1>3. QED
  BY <1>1, <1>2

\* The start of a transfer is in the log for the first time, after all that any call
\* has seen.
LEMMA StartSeen ==
  ASSUME IInv, BoundParts, ListInv, NEW t \in OwnTransfers(Transfers), Start(t)
  PROVE  /\ ongoing' = ongoing \cup {t} /\ t \notin ongoing /\ ours' = ours
         /\ Len(log) \in Nat /\ Len(log') = Len(log) + 1
         /\ \A n \in Int : n <= Len(log) => Seen(n)' = Seen(n)
         /\ GoingInv' /\ OnceInv'
<1> DEFINE e == [kind |-> "started", transfer |-> t]
<1>1. /\ ongoing' = ongoing \cup {t} /\ t \notin ongoing /\ ours' = ours /\ t.bundle \in ours
      /\ log' = Append(log, e)
  BY DEF Start, MayStart, Emit
<1>2. e.kind = "started" /\ e.transfer = t /\ t.donor = "self"
  BY DEF OwnTransfers
<1> HIDE DEF e
<1>3. log \in Seq([kind : Kinds, transfer : Transfers])
  BY DEF IInv, ContractInv
<1>4. /\ Len(log') = Len(log) + 1 /\ Len(log) \in Nat
      /\ \A i \in 1..Len(log) : log'[i] = log[i]
      /\ log'[Len(log) + 1] = e
  BY <1>1, <1>3, AppendProperties
<1>5. /\ \A n \in Int : n <= Len(log) => Started(n)' = Started(n)
      /\ StartedInLog \subseteq StartedInLog'
  BY <1>4, StartedPrefix
<1>6. t \notin StartedInLog
  BY <1>1 DEF ListInv, Lasting
<1>7. \A n : t \notin Started(n)
  BY <1>6 DEF Started, StartedInLog
<1>8. \A n \in Int : n <= Len(log) => Seen(n)' = Seen(n)
  BY <1>1, <1>5, <1>7 DEF Seen
<1>9. t \in StartedInLog'
  <2>1. Len(log) + 1 \in 1..Len(log')
    BY <1>4
  <2>2. QED
    BY <1>2, <1>4, <2>1 DEF StartedInLog
<1>10. GoingInv'
  BY <1>1, <1>5, <1>9 DEF GoingInv, BoundParts
<1>11. OnceInv'
  <2>1. ASSUME NEW i \in 1..Len(log'), NEW j \in 1..Len(log'), log'[i].kind = "started",
               log'[i].transfer.donor = "self", log'[j] = log'[i]
        PROVE  i = j
    <3>1. \A k \in 1..Len(log) : log[k].kind = "started" /\ log[k].transfer.donor = "self"
                                    => log[k].transfer # t
      BY <1>6 DEF StartedInLog
    <3>2. CASE i = Len(log) + 1 \/ j = Len(log) + 1
      BY <1>2, <1>4, <2>1, <3>1, <3>2
    <3>3. CASE i # Len(log) + 1 /\ j # Len(log) + 1
      <4>1. i \in 1..Len(log) /\ j \in 1..Len(log)
        BY <1>4, <3>3
      <4>2. QED
        BY <1>4, <2>1, <4>1 DEF BoundParts, OnceInv
    <3>4. QED
      BY <3>2, <3>3
  <2>2. QED
    BY <2>1 DEF OnceInv
<1>12. QED
  BY <1>1, <1>4, <1>8, <1>10, <1>11

\* A transfer more needs a slot of the call that begins it, or a request that failed.
LEMMA StartRoom ==
  ASSUME IInv, BoundParts, NEW t, ongoing' = ongoing \cup {t}, crowd' = crowd,
         \A R \in SUBSET Transfers :
             \/ /\ failures' = failures
                /\ \E x \in Slots(R) : Slots(R)' \subseteq Slots(R) \ {x}
             \/ failures' = failures + 1 /\ Slots(R)' \subseteq Slots(R)
  PROVE  RoomInv'
<1> DEFINE room == MaxOngoing * crowd
<1> SUFFICES ASSUME NEW R \in SUBSET Transfers
             PROVE  Cardinality(ongoing' \ R) + Cardinality(Slots(R)') <= room + failures'
  BY DEF RoomInv
<1>1. crowd \in Nat /\ failures \in Nat /\ MaxOngoing \in Nat
  BY ReleaseAssumption DEF IInv, StoreInv, MemoryInv
<1>2. room \in Nat /\ Cardinality(ongoing \ R) + Cardinality(Slots(R)) <= room + failures
  BY <1>1, Times DEF BoundParts, RoomInv
<1>3. /\ Cardinality(ongoing \ R) \in Nat /\ Cardinality(Slots(R)) \in Nat
      /\ IsFiniteSet(ongoing \ R) /\ IsFiniteSet(Slots(R))
  BY OngoingFinite, SlotsFinite DEF BoundParts
<1>4. /\ Cardinality(ongoing' \ R) <= Cardinality(ongoing \ R) + 1
      /\ Cardinality(ongoing' \ R) \in Nat
  <2>1. CASE t \in R
    <3>1. ongoing' \ R = ongoing \ R
      BY <2>1
    <3>2. QED
      BY <1>3, <3>1
  <2>2. CASE t \notin R
    <3> DEFINE rest == ongoing \ R
    <3>1. ongoing' \ R = rest \cup {t} /\ IsFiniteSet(rest) /\ Cardinality(rest) \in Nat
      BY <1>3, <2>2
    <3> HIDE DEF rest
    <3>2. /\ Cardinality(rest \cup {t}) <= Cardinality(rest) + 1
          /\ Cardinality(rest \cup {t}) \in Nat
      <4>1. Cardinality(rest \cup {t})
                = IF t \in rest THEN Cardinality(rest) ELSE Cardinality(rest) + 1
        BY <3>1, FS_AddElement
      <4>2. QED
        BY <3>1, <4>1
    <3>3. QED
      BY <3>1, <3>2 DEF rest
  <2>3. QED
    BY <2>1, <2>2
<1> HIDE DEF room
<1>5. CASE failures' = failures /\ \E x \in Slots(R) : Slots(R)' \subseteq Slots(R) \ {x}
  <2>1. PICK x \in Slots(R) : Slots(R)' \subseteq Slots(R) \ {x}
    BY <1>5
  <2>2. IsFiniteSet(Slots(R) \ {x}) /\ Cardinality(Slots(R) \ {x}) = Cardinality(Slots(R)) - 1
    BY <1>3, FS_RemoveElement
  <2>3. Slots(R)' \in SUBSET (Slots(R) \ {x})
    BY <2>1
  <2>4. Cardinality(Slots(R)') <= Cardinality(Slots(R)) - 1 /\ Cardinality(Slots(R)') \in Nat
    BY <2>2, <2>3, FS_Subset, FS_CardinalityType
  <2>5. QED
    BY <1>1, <1>2, <1>3, <1>4, <1>5, <2>4
<1>6. CASE failures' = failures + 1 /\ Slots(R)' \subseteq Slots(R)
  <2>1. Slots(R)' \in SUBSET Slots(R)
    BY <1>6
  <2>2. Cardinality(Slots(R)') <= Cardinality(Slots(R)) /\ Cardinality(Slots(R)') \in Nat
    BY <1>3, <2>1, FS_Subset, FS_CardinalityType
  <2>3. QED
    BY <1>1, <1>2, <1>3, <1>4, <1>6, <2>2
<1>7. QED
  BY <1>5, <1>6

\* A call begins a transfer, or a request fails although the transfer was started.
LEMMA StartBound ==
  ASSUME IInv, BoundParts, ListInv, NEW c \in Calls, call[c].at = "start",
         NEW t \in OwnTransfers(Transfers), Start(t), NEW next, Turn(c, Known, next),
         \/ /\ failures' = failures
            /\ Spends(next.record, call[c].count + call[c].begun + 1)
         \/ /\ failures' = failures + 1
            /\ Spends(next.record, call[c].count + call[c].begun)
  PROVE  BoundParts'
<1> DEFINE n == call[c].count + call[c].begun
<1>1. /\ ongoing' = ongoing \cup {t} /\ t \notin ongoing /\ ours' = ours
      /\ Len(log) \in Nat /\ Len(log') = Len(log) + 1
      /\ \A m \in Int : m <= Len(log) => Seen(m)' = Seen(m)
      /\ GoingInv' /\ OnceInv'
  BY StartSeen
<1>2. /\ \A d \in Calls : \/ call'[d].at = "idle"
                          \/ d # c /\ call'[d] = call[d]
                          \/ d = c /\ call'[d] = next.record
      /\ \/ active' = active /\ lastSaved' = lastSaved
         \/ active' = {} /\ lastSaved' = 0 /\ \A d \in Calls : call'[d].at = "idle"
      /\ crowd' = crowd
  BY TurnShape DEF Known
<1>3. n \in Nat /\ n < MaxOngoing
  <2>1. call[c] \in CallRecord /\ n < MaxOngoing
    BY AtABundleCounts DEF Selecting
  <2>2. QED
    BY <2>1 DEF CallRecord
<1>4. ASSUME NEW R, NEW d \in Calls, d # c
      PROVE  \A i \in 1..MaxOngoing : i > Used(call[d], R)' => i > Used(call[d], R)
  <2>1. call[d].at = "fetch" => call[d].upTo \in Int /\ call[d].upTo <= Len(log)
    BY InHand DEF RecordOK, CallRecord
  <2>2. call'[d] = call[d] /\ call[d].at = "fetch" => Seen(call[d].upTo)' = Seen(call[d].upTo)
    BY <1>1, <2>1
  <2>3. QED
    BY <1>2, <1>4, <2>2, ChainUsed
<1>5. ASSUME NEW R PROVE Used(call[c], R) = n
  BY SpentUses DEF Selecting
<1>6. ASSUME failures' = failures, Spends(next.record, n + 1)
      PROVE  RoomInv' /\ \E m : Spends(call'[c], m)
  <2>1. Spends(call'[c], n + 1)
    BY <1>2, <1>6 DEF Spends
  <2>2. ASSUME NEW R \in SUBSET Transfers
        PROVE  <<c, n + 1>> \in Slots(R) /\ Slots(R)' \subseteq Slots(R) \ {<<c, n + 1>>}
    <3>1. \A i \in 1..MaxOngoing : i > Used(call[c], R)' => i > n + 1
      BY <2>1, UsedSpends
    <3>2. \A i \in 1..MaxOngoing : i > Used(call[c], R)' => i > Used(call[c], R)
      BY <1>3, <1>5, <3>1
    <3>3. Slots(R)' \subseteq Slots(R)
      BY <1>4, <3>2, SlotsShrink
    <3>4. <<c, n + 1>> \notin Slots(R)'
      BY <1>3, <3>1 DEF Slots
    <3>5. <<c, n + 1>> \in Slots(R)
      <4>1. n + 1 \in 1..MaxOngoing /\ n + 1 > n
        BY <1>3, ReleaseAssumption
      <4>2. n + 1 > Used(call[c], R)
        BY <1>5, <4>1
      <4> HIDE DEF n
      <4>3. QED
        BY <4>1, <4>2 DEF Slots
    <3>6. QED
      BY <3>3, <3>4, <3>5
  <2>3. RoomInv'
    <3>1. \A R \in SUBSET Transfers :
              failures' = failures /\ \E x \in Slots(R) : Slots(R)' \subseteq Slots(R) \ {x}
      BY <1>6, <2>2
    <3>2. QED
      BY <1>1, <1>2, <3>1, StartRoom
  <2>4. QED
    BY <2>1, <2>3
<1>7. ASSUME failures' = failures + 1, Spends(next.record, n)
      PROVE  RoomInv' /\ \E m : Spends(call'[c], m)
  <2>1. Spends(call'[c], n)
    BY <1>2, <1>7 DEF Spends
  <2>2. ASSUME NEW R \in SUBSET Transfers PROVE Slots(R)' \subseteq Slots(R)
    <3>1. \A i \in 1..MaxOngoing : i > Used(call[c], R)' => i > Used(call[c], R)
      BY <1>5, <2>1, UsedSpends
    <3>2. QED
      BY <1>4, <3>1, SlotsShrink
  <2>3. RoomInv'
    BY <1>1, <1>2, <1>7, <2>2, StartRoom
  <2>4. QED
    BY <2>1, <2>3
<1>8. RoomInv' /\ \E m : Spends(call'[c], m)
  BY <1>6, <1>7
<1>9. CountInv'
  BY <1>2, <1>8 DEF CountInv, Spends, BoundParts, Selecting
<1>10. FollowInv'
  <2>1. CASE active' = active /\ lastSaved' = lastSaved
    <3>1. \A d \in Calls : call'[d].at \in {"scan", "fetch"} => call'[d] = call[d]
      BY <1>2, <1>8 DEF Spends, Removing, Selecting
    <3>2. lastSaved \in Int /\ lastSaved <= Len(log)
      BY <1>1, InHand DEF KnownOK, Known
    <3>3. Seen(lastSaved)' \subseteq active'
      BY <1>1, <2>1, <3>2 DEF FollowInv, BoundParts
    <3>4. ASSUME NEW d \in Calls, call'[d].at \in {"scan", "fetch"}
          PROVE  call'[d].from - 1 <= Len(log') /\ Seen(call[d].from - 1)' \subseteq active'
      <4>1. call'[d] = call[d] /\ call[d].from \in Nat /\ call[d].from - 1 <= Len(log)
            /\ Seen(call[d].from - 1) \subseteq active
        BY <3>1, <3>4, InHand DEF CallRecord, FollowInv, BoundParts
      <4>2. Seen(call[d].from - 1)' = Seen(call[d].from - 1)
        BY <1>1, <4>1
      <4>3. QED
        BY <1>1, <2>1, <4>1, <4>2
    <3>5. QED
      BY <3>3, <3>4 DEF FollowInv
  <2>2. CASE active' = {} /\ lastSaved' = 0 /\ \A d \in Calls : call'[d].at = "idle"
    BY <2>2 DEF FollowInv, Seen, Started
  <2>3. QED
    BY <1>2, <2>1, <2>2
<1>11. BusyInv'
  BY <1>2, BusyStays DEF BoundParts
<1>12. QED
  BY <1>1, <1>8, <1>9, <1>10, <1>11 DEF BoundParts

LEMMA StartTransferBound ==
  ASSUME IInv, BoundParts, ListInv, NEW c \in Calls, StartTransfer(c)
  PROVE  BoundParts'
<1> DEFINE b == call[c].bundle
           more == call[c].begun + 1
           r == [call[c] EXCEPT !.begun = @ + 1]
           plain == AfterStart(r, Without(b))
           next == NeedsService(plain)
<1>1. call[c].at = "start" /\ Start(Of(b)) /\ Turn(c, Known, next) /\ failures' = failures
  BY DEF StartTransfer
<1>2. Of(b) \in OwnTransfers(Transfers)
  BY <1>1 DEF IInv, ContractInv, Start, MayStart, Of, Transfers, OwnTransfers, Donors
<1>3. call[c] \in CallRecord /\ more \in Nat /\ call[c].count \in Nat
  BY InHand DEF CallRecord
<1>4. /\ r \in CallRecord /\ r.begun = more /\ r.count = call[c].count
  <2>1. r = [call[c] EXCEPT !.begun = more]
    BY <1>3 DEF CallRecord
  <2> HIDE DEF more, r
  <2>2. QED
    BY <1>3, <2>1 DEF CallRecord
<1>5. r.count + r.begun = call[c].count + call[c].begun + 1
  BY <1>3, <1>4 DEF CallRecord
<1> HIDE DEF r
<1>6. Spends(plain.record, r.count + r.begun)
  <2>1. CASE r.begun + r.count >= MaxOngoing
    <3>1. plain.record.at = "idle"
      BY <2>1 DEF AfterStart, Ends, NoCall
    <3>2. QED
      BY <3>1 DEF Spends
  <2>2. CASE ~(r.begun + r.count >= MaxOngoing)
    <3>1. r.count + r.begun < MaxOngoing
      BY <1>4, <2>2, ReleaseAssumption DEF CallRecord
    <3>2. QED
      BY <1>4, <2>2, <3>1, AfterBundleSpends DEF AfterStart
  <2>3. QED
    BY <2>1, <2>2
<1>7. plain = [record |-> plain.record, service |-> plain.service, stores |-> plain.stores,
               throws |-> plain.throws]
  BY DEF AfterStart, AfterBundle, Goes, Ends
<1> HIDE DEF plain
<1>8. next.record = plain.record
  BY <1>7, NeedsServiceRecord
<1> HIDE DEF next
<1>9. QED
  BY <1>1, <1>2, <1>5, <1>6, <1>8, StartBound

LEMMA RequestFailsBound ==
  ASSUME IInv, BoundParts, ListInv, NEW c \in Calls, RequestFails(c)
  PROVE  BoundParts'
<1> DEFINE next == NeedsService(AfterBundle(call[c], service))
<1>1. /\ call[c].at \in {"check", "start", "extraFiles", "extraStatus"}
      /\ failures' = failures + 1 /\ failures \in Nat /\ Turn(c, Known, next)
  BY DEF RequestFails, BundleFails, IInv, StoreInv
<1>2. CASE UNCHANGED contractVars
  BY <1>1, <1>2, NextBound DEF Selecting
<1>3. CASE call[c].at = "start" /\ Start(Of(call[c].bundle))
  <2>1. Of(call[c].bundle) \in OwnTransfers(Transfers)
    BY <1>3 DEF IInv, ContractInv, Start, MayStart, Of, Transfers, OwnTransfers, Donors
  <2>2. next.record = AfterBundle(call[c], service).record
    BY AfterBundleShape, NeedsServiceRecord
  <2>3. Spends(next.record, call[c].count + call[c].begun)
    BY <1>3, <2>2, AtABundleCounts, AfterBundleSpends DEF Selecting
  <2> HIDE DEF next
  <2>4. QED
    BY <1>1, <1>3, <2>1, <2>3, StartBound
<1>4. QED
  BY <1>2, <1>3 DEF RequestFails

LEMMA ProcessBound ==
  ASSUME IInv, BoundParts, ListInv, Undisturbed, InTime, NEW c \in Calls, Process(c)
  PROVE  BoundParts'
<1>1. failures \in Nat
  BY DEF IInv, StoreInv
<1>2. CASE StartRefused(c)
  BY <1>1, <1>2, NextBound DEF StartRefused, BundleFails, Selecting
<1>3. CASE SetExtraExpendable(c)
  BY <1>1, <1>3, NextBound DEF SetExtraExpendable, Selecting
<1>4. QED
  BY <1>2, <1>3, LoadBound, GetCurrentBlockBound, UpdateTransfersBound, RemoveBound,
     SelectOrWakeBound, CheckOrRemoveExtraBound, StartTransferBound, RequestFailsBound
  DEF Process

\* A call more is under way, and has nothing to begin yet.
LEMMA RetireOperationBound ==
  ASSUME IInv, BoundParts, InTime, RetireOperation
  PROVE  BoundParts'
<1>1. PICK c \in Calls \ Busy :
        call' = [call EXCEPT ![c] = [NoCall EXCEPT !.at = IF service.loaded THEN "scan" ELSE "load",
                                                   !.from = GetFromBlock]]
  BY DEF RetireOperation
<1> DEFINE r == [NoCall EXCEPT !.at = IF service.loaded THEN "scan" ELSE "load",
                               !.from = GetFromBlock]
           n == Cardinality(Busy)
<1>2. r.at \in {"scan", "load"} /\ r.from = GetFromBlock
  BY DEF NoCall
<1>3. call' = [call EXCEPT ![c] = r]
  BY <1>1
<1> HIDE DEF r
<1>4. c \in Calls /\ c \notin Busy /\ IsFiniteSet(Busy) /\ n \in Nat
  <2>1. Busy \in SUBSET Calls
    BY DEF Busy
  <2>2. QED
    BY <1>1, <2>1, ReleaseAssumption, FS_Subset, FS_CardinalityType
<1>5. crowd \in Nat /\ n <= crowd
  BY DEF IInv, MemoryInv, BoundParts, BusyInv
<1>6. crowd' \in Nat /\ crowd <= crowd' /\ n + 1 <= crowd'
  <2>1. crowd' = IF n >= crowd THEN n + 1 ELSE crowd
    BY DEF RetireOperation
  <2> HIDE DEF n
  <2>2. QED
    BY <1>4, <1>5, <2>1
<1>7. RoomInv' /\ FollowInv' /\ CountInv' /\ GoingInv' /\ OnceInv'
  <2>1. r.from - 1 <= Len(log) /\ Seen(r.from - 1) \subseteq active
    BY <1>2, FromIsEarly
  <2>2. UNCHANGED <<contractVars, active, lastSaved, failures>>
    BY DEF RetireOperation, repositoryVars, boundVars
  <2>3. QED
    BY <1>2, <1>3, <1>4, <1>6, <2>1, <2>2, AimBound
<1>8. BusyInv'
  <2>1. Busy' \subseteq Busy \cup {c}
    BY <1>3 DEF Busy, IInv, MemoryInv
  <2>2. /\ IsFiniteSet(Busy \cup {c}) /\ Cardinality(Busy \cup {c}) = n + 1
    BY <1>4, FS_AddElement
  <2>3. Busy' \in SUBSET (Busy \cup {c})
    BY <2>1
  <2>4. Cardinality(Busy') <= n + 1 /\ Cardinality(Busy') \in Nat
    BY <2>2, <2>3, FS_Subset, FS_CardinalityType
  <2>5. QED
    BY <1>4, <1>6, <2>4 DEF BusyInv
<1>9. QED
  BY <1>7, <1>8 DEF BoundParts

\* The worker, the operator and the end of the process.
LEMMA SideStepBound ==
  ASSUME IInv, BoundParts, UNCHANGED <<contractVars, crowd, failures>>,
         \/ UNCHANGED <<active, lastSaved, call>>
         \/ active' = {} /\ lastSaved' = 0 /\ \A c \in Calls : call'[c].at = "idle"
  PROVE  BoundParts'
<1>1. /\ log' = log /\ ours' = ours /\ ongoing' = ongoing /\ failures' = failures
      /\ crowd' = crowd /\ \A m : Seen(m)' = Seen(m)
  BY SeenStays DEF contractVars
<1>2. failures \in Nat /\ crowd \in Nat
  BY DEF IInv, StoreInv, MemoryInv
<1>3. ASSUME NEW R \in SUBSET Transfers PROVE Slots(R)' \subseteq Slots(R)
  <2>1. \A c \in Calls : call'[c].at = "idle" \/ call'[c] = call[c]
    OBVIOUS
  <2>2. QED
    BY <2>1, UsedStays, SlotsShrink
<1>4. RoomInv'
  BY <1>1, <1>2, <1>3, RoomStays DEF BoundParts
<1>5. GoingInv' /\ OnceInv'
  BY <1>1 DEF BoundParts, GoingInv, StartedInLog, OnceInv
<1>6. CountInv'
  BY DEF CountInv, BoundParts, Selecting
<1>7. FollowInv'
  <2>1. CASE UNCHANGED <<active, lastSaved, call>>
    BY <1>1, <2>1 DEF FollowInv, BoundParts
  <2>2. CASE active' = {} /\ lastSaved' = 0 /\ \A c \in Calls : call'[c].at = "idle"
    BY <2>2 DEF FollowInv, Seen, Started
  <2>3. QED
    BY <2>1, <2>2
<1>8. BusyInv'
  BY <1>1, BusyStays DEF BoundParts
<1>9. QED
  BY <1>4, <1>5, <1>6, <1>7, <1>8 DEF BoundParts

LEMMA OtherStepBound ==
  ASSUME IInv, BoundParts, InTime,
         \/ Worker \/ ExpireTask \/ Restart \/ UNCHANGED vars
         \/ \E m \in {"normal", "retire"} : SetMode(m)
  PROVE  BoundParts'
<1>1. CASE Tick \/ TaskIsTaken \/ FinishWork \/ EndOfNormal \/ ExpireTask
  BY <1>1, SideStepBound
  DEF Tick, TaskIsTaken, FinishWork, EndOfNormal, ExpireTask, repositoryVars, historyVars, boundVars
<1>2. CASE Restart
  BY <1>2, SideStepBound DEF Restart, Exit, historyVars, NoCall
<1>3. CASE \E m \in {"normal", "retire"} : SetMode(m)
  BY <1>3, SideStepBound DEF SetMode, repositoryVars, historyVars
<1>4. CASE UNCHANGED vars
  BY <1>4, SideStepBound DEF vars, repositoryVars, historyVars, boundVars
<1>5. QED
  BY <1>1, <1>2, <1>3, <1>4, RetireOperationBound DEF Worker

\* When a transfer ends, the calls that have seen it have room for as many others as
\* there would be had it ended before.
LEMMA ResolvedBound ==
  ASSUME IInv, BoundParts, NEW b \in Bundles, TransferIsResolved(b)
  PROVE  BoundParts'
<1> DEFINE t == Of(b)
           e == [kind |-> "resolved", transfer |-> t]
<1>1. /\ log' = Append(log, e) /\ ours' = ours \ {b} /\ ongoing' = ongoing \ {t}
      /\ UNCHANGED <<active, lastSaved, call, crowd, failures>> /\ t.bundle = b
  BY DEF TransferIsResolved, Resolve, Emit, Of, repositoryVars, historyVars, boundVars
<1>2. e.kind = "resolved" /\ log \in Seq([kind : Kinds, transfer : Transfers])
  BY DEF IInv, ContractInv
<1>3. t \in Transfers
  BY DEF Of, Transfers, Donors
<1> HIDE DEF t, e
<1>4. /\ Len(log') = Len(log) + 1 /\ Len(log) \in Nat
      /\ \A i \in 1..Len(log) : log'[i] = log[i]
      /\ log'[Len(log) + 1] = e
  BY <1>1, <1>2, AppendProperties
<1>5. /\ \A n \in Int : n <= Len(log) => Started(n)' = Started(n)
      /\ StartedInLog \subseteq StartedInLog'
  BY <1>4, StartedPrefix
<1>6. \A n \in Int : n <= Len(log) => Seen(n)' = Seen(n) \ {t}
  BY <1>1, <1>5 DEF Seen
<1>7. RoomInv'
  <2>1. ASSUME NEW R \in SUBSET Transfers
        PROVE  Cardinality(ongoing' \ R) + Cardinality(Slots(R)') <= MaxOngoing * crowd' + failures'
    <3> DEFINE Q == R \cup {t}
    <3>1. Q \in SUBSET Transfers /\ ongoing' \ R = ongoing \ Q
      BY <1>1, <1>3
    <3>2. ASSUME NEW c \in Calls
          PROVE  \A i \in 1..MaxOngoing : i > Used(call[c], R)' => i > Used(call[c], Q)
      <4>1. call[c].at = "fetch" => call[c].upTo \in Int /\ call[c].upTo <= Len(log)
        BY InHand DEF RecordOK, CallRecord
      <4>2. call[c].at = "fetch" => Seen(call[c].upTo)' \ R = Seen(call[c].upTo) \ Q
        BY <1>1, <1>6, <4>1
      <4>3. QED
        BY <1>1, <4>2, ChainUsed
    <3> HIDE DEF Q
    <3>3. Slots(R)' \in SUBSET Slots(Q)
      BY <3>2 DEF Slots
    <3>4. /\ Cardinality(Slots(R)') <= Cardinality(Slots(Q))
          /\ Cardinality(Slots(R)') \in Nat /\ Cardinality(Slots(Q)) \in Nat
      BY <3>3, SlotsFinite, FS_Subset, FS_CardinalityType
    <3> DEFINE room == MaxOngoing * crowd
    <3>5. room \in Nat /\ failures \in Nat
      <4>1. MaxOngoing \in Nat /\ crowd \in Nat /\ failures \in Nat
        BY ReleaseAssumption DEF IInv, StoreInv, MemoryInv
      <4>2. QED
        BY <4>1, Times
    <3>6. Cardinality(ongoing \ Q) + Cardinality(Slots(Q)) <= room + failures
      BY <3>1 DEF BoundParts, RoomInv
    <3>7. Cardinality(ongoing \ Q) \in Nat
      BY OngoingFinite DEF BoundParts
    <3> HIDE DEF room
    <3>8. Cardinality(ongoing' \ R) + Cardinality(Slots(R)') <= room + failures
      BY <3>1, <3>4, <3>5, <3>6, <3>7
    <3>9. QED
      BY <1>1, <3>8 DEF room
  <2>2. QED
    BY <2>1 DEF RoomInv
<1>8. GoingInv'
  <2>1. ASSUME NEW u \in ongoing' PROVE u.bundle \in ours'
    <3>1. u \in ongoing /\ u # t /\ u \in OwnTransfers(Transfers)
      BY <1>1, OngoingFinite DEF BoundParts
    <3>2. u = Of(u.bundle)
      BY <3>1 DEF OwnTransfers, Transfers, Of
    <3>3. u.bundle # b /\ u.bundle \in ours
      BY <3>1, <3>2 DEF t, BoundParts, GoingInv
    <3>4. QED
      BY <1>1, <3>3
  <2>2. QED
    BY <1>1, <1>5, <2>1 DEF GoingInv, BoundParts
<1>9. OnceInv'
  <2>1. ASSUME NEW i \in 1..Len(log'), NEW j \in 1..Len(log'), log'[i].kind = "started",
               log'[i].transfer.donor = "self", log'[j] = log'[i]
        PROVE  i = j
    <3>1. i \in 1..Len(log) /\ j \in 1..Len(log)
      BY <1>2, <1>4, <2>1
    <3>2. QED
      BY <1>4, <2>1, <3>1 DEF BoundParts, OnceInv
  <2>2. QED
    BY <2>1 DEF OnceInv
<1>10. FollowInv'
  <2>1. lastSaved \in Int /\ lastSaved <= Len(log)
    BY <1>4 DEF IInv, MemoryInv, KnownOK, Known
  <2>2. Seen(lastSaved)' \subseteq active'
    BY <1>1, <1>6, <2>1 DEF FollowInv, BoundParts
  <2>3. ASSUME NEW d \in Calls, call[d].at \in {"scan", "fetch"}
        PROVE  call[d].from - 1 <= Len(log') /\ Seen(call[d].from - 1)' \subseteq active'
    <3>1. /\ call[d].from \in Nat /\ call[d].from - 1 <= Len(log)
          /\ Seen(call[d].from - 1) \subseteq active
      BY <2>3, InHand DEF CallRecord, FollowInv, BoundParts
    <3>2. QED
      BY <1>1, <1>4, <1>6, <3>1
  <2>4. QED
    BY <1>1, <2>2, <2>3 DEF FollowInv
<1>11. CountInv' /\ BusyInv'
  BY <1>1 DEF CountInv, BusyInv, Busy, BoundParts
<1>12. QED
  BY <1>7, <1>8, <1>9, <1>10, <1>11 DEF BoundParts

\* What others do with the bundles of others says nothing about this node's transfers.
LEMMA ForeignBound ==
  ASSUME IInv, BoundParts, NEW b \in Bundles, ForeignTransfer(b)
  PROVE  BoundParts'
<1> DEFINE other == [donor |-> "other", bundle |-> b]
           first == [kind |-> "started", transfer |-> other]
           second == [kind |-> "resolved", transfer |-> other]
           Events == [kind : Kinds, transfer : Transfers]
<1>1. /\ log' = log \o <<first, second>> /\ ours' = ours /\ ongoing' = ongoing
      /\ UNCHANGED <<active, lastSaved, call, crowd, failures>>
  BY DEF ForeignTransfer, repositoryVars, historyVars
<1>2. log \in Seq(Events) /\ <<first, second>> \in Seq(Events)
  BY DEF IInv, ContractInv, Kinds, Transfers, Donors
<1>3. /\ Len(<<first, second>>) = 2 /\ <<first, second>>[1] = first
      /\ <<first, second>>[2] = second
      /\ first.transfer.donor # "self" /\ second.transfer.donor # "self"
  OBVIOUS
<1> HIDE DEF first, second, Events
<1>4. /\ Len(log') = Len(log) + 2 /\ Len(log) \in Nat
      /\ \A i \in 1..Len(log') : log'[i] = IF i <= Len(log) THEN log[i]
                                           ELSE <<first, second>>[i - Len(log)]
  BY <1>1, <1>2, <1>3, ConcatProperties
<1>5. \A i \in 1..Len(log) : log'[i] = log[i]
  BY <1>4
<1>6. /\ \A n \in Int : n <= Len(log) => Seen(n)' = Seen(n)
      /\ StartedInLog \subseteq StartedInLog'
  BY <1>1, <1>4, <1>5, StartedPrefix DEF Seen
<1>7. ASSUME NEW i \in 1..Len(log'), log'[i].transfer.donor = "self"
      PROVE  i \in 1..Len(log)
  <2>1. CASE i <= Len(log)
    BY <1>4, <2>1
  <2>2. CASE ~(i <= Len(log))
    <3>1. i - Len(log) = 1 \/ i - Len(log) = 2
      BY <1>4, <2>2
    <3>2. QED
      BY <1>3, <1>4, <1>7, <2>2, <3>1
  <2>3. QED
    BY <2>1, <2>2
<1>8. RoomInv'
  <2>1. ASSUME NEW R \in SUBSET Transfers PROVE Slots(R)' \subseteq Slots(R)
    <3>1. ASSUME NEW c \in Calls
          PROVE  \A i \in 1..MaxOngoing : i > Used(call[c], R)' => i > Used(call[c], R)
      <4>1. call[c].at = "fetch" => call[c].upTo \in Int /\ call[c].upTo <= Len(log)
        BY InHand DEF RecordOK, CallRecord
      <4>2. call[c].at = "fetch" => Seen(call[c].upTo)' = Seen(call[c].upTo)
        BY <1>1, <1>6, <4>1
      <4>3. QED
        BY <1>1, <4>2, ChainUsed
    <3>2. QED
      BY <3>1, SlotsShrink
  <2>2. crowd \in Nat /\ failures \in Nat
    BY DEF IInv, StoreInv, MemoryInv
  <2>3. QED
    BY <1>1, <2>1, <2>2, RoomStays DEF BoundParts
<1>9. GoingInv'
  BY <1>1, <1>6 DEF GoingInv, BoundParts
<1>10. OnceInv'
  <2>1. ASSUME NEW i \in 1..Len(log'), NEW j \in 1..Len(log'), log'[i].kind = "started",
               log'[i].transfer.donor = "self", log'[j] = log'[i]
        PROVE  i = j
    <3>1. i \in 1..Len(log) /\ j \in 1..Len(log)
      BY <1>7, <2>1
    <3>2. QED
      BY <1>5, <2>1, <3>1 DEF BoundParts, OnceInv
  <2>2. QED
    BY <2>1 DEF OnceInv
<1>11. FollowInv'
  <2>1. lastSaved \in Int /\ lastSaved <= Len(log)
    BY <1>4 DEF IInv, MemoryInv, KnownOK, Known
  <2>2. Seen(lastSaved)' \subseteq active'
    BY <1>1, <1>6, <2>1 DEF FollowInv, BoundParts
  <2>3. ASSUME NEW d \in Calls, call[d].at \in {"scan", "fetch"}
        PROVE  call[d].from - 1 <= Len(log') /\ Seen(call[d].from - 1)' \subseteq active'
    <3>1. /\ call[d].from \in Nat /\ call[d].from - 1 <= Len(log)
          /\ Seen(call[d].from - 1) \subseteq active
      BY <2>3, InHand DEF CallRecord, FollowInv, BoundParts
    <3>2. QED
      BY <1>1, <1>4, <1>6, <3>1
  <2>4. QED
    BY <1>1, <2>2, <2>3 DEF FollowInv
<1>12. CountInv' /\ BusyInv'
  BY <1>1 DEF CountInv, BusyInv, Busy, BoundParts
<1>13. QED
  BY <1>8, <1>9, <1>10, <1>11, <1>12 DEF BoundParts

LEMMA BoundInit == Init => BoundInv
<1> SUFFICES ASSUME Init PROVE BoundParts
  BY DEF BoundInv
<1>1. /\ ongoing = {} /\ log = <<>> /\ active = {} /\ crowd = 0 /\ failures = 0
      /\ \A c \in Calls : call[c].at = "idle"
  BY DEF Init, RetireInit, NoCall
<1>2. Busy = {} /\ \A R : Slots(R) = {}
  <2>1. \A c \in Calls : \A R : Used(call[c], R) = MaxOngoing
    BY <1>1 DEF Used, Removing, Selecting
  <2>2. QED
    BY <1>1, <2>1, ReleaseAssumption DEF Busy, Slots
<1>3. Cardinality({}) = 0
  BY FS_EmptySet
<1>4. RoomInv
  <2>1. \A R : Cardinality(ongoing \ R) = 0 /\ Cardinality(Slots(R)) = 0
    <3>1. \A R : ongoing \ R = {}
      BY <1>1
    <3>2. QED
      BY <1>2, <1>3, <3>1
  <2>2. MaxOngoing * crowd = 0
    BY <1>1, ReleaseAssumption
  <2>3. QED
    BY <1>1, <2>1, <2>2 DEF RoomInv
<1>5. FollowInv /\ GoingInv
  BY <1>1 DEF FollowInv, GoingInv, Seen
<1>6. CountInv
  BY <1>1 DEF CountInv, Selecting
<1>7. OnceInv
  BY <1>1 DEF OnceInv
<1>8. BusyInv
  BY <1>1, <1>2, <1>3 DEF BusyInv
<1>9. QED
  BY <1>4, <1>5, <1>6, <1>7, <1>8 DEF BoundParts

LEMMA BoundStep == IInv /\ DropInv /\ BoundInv /\ InTime /\ [Next]_vars => BoundInv'
<1> SUFFICES ASSUME IInv, DropInv, BoundInv, InTime, [Next]_vars, Undisturbed'
             PROVE  BoundParts'
  BY DEF BoundInv
<1>1. Undisturbed /\ ListInv /\ BoundParts
  BY OnceUndisturbed DEF DropInv, BoundInv
<1>2. ASSUME NEW b \in Bundles PROVE ~ShelterAgain(b) /\ ~TransferIsCancelled(b)
  BY NotDisturbed
<1>3. QED
  BY <1>1, <1>2, ProcessBound, OtherStepBound, ResolvedBound, ForeignBound DEF Next

LEMMA BoundImplies == IInv /\ BoundInv => TransfersBounded
<1> SUFFICES ASSUME IInv, BoundParts
             PROVE  Cardinality(ongoing) <= MaxOngoing * crowd + failures
  BY DEF BoundInv, Undisturbed, TransfersBounded
<1> DEFINE room == MaxOngoing * crowd
<1>1. Cardinality(ongoing \ {}) + Cardinality(Slots({})) <= room + failures
  BY DEF BoundParts, RoomInv
<1>2. /\ Cardinality(ongoing \ {}) \in Nat /\ Cardinality(Slots({})) \in Nat
      /\ ongoing \ {} = ongoing
  BY OngoingFinite, SlotsFinite DEF BoundParts
<1>3. room \in Nat /\ failures \in Nat
  <2>1. MaxOngoing \in Nat /\ crowd \in Nat /\ failures \in Nat
    BY ReleaseAssumption DEF IInv, StoreInv, MemoryInv
  <2>2. QED
    BY <2>1, Times
<1> HIDE DEF room
<1>4. Cardinality(ongoing) <= room + failures
  BY <1>1, <1>2, <1>3
<1>5. QED
  BY <1>4 DEF room

-----------------------------------------------------------------------------
(* The theorems about the list and the number of transfers *)

\* For any number of bundles and of calls that overlap, whichever requests fail and
\* whenever the process ends, a bundle that the chain counts on this node for is on
\* ReleaseBundlesService's list or is being transferred while the service runs.
THEOREM BundlesAreListed == Spec => []NoBundleIsDropped
<1>1. Spec => []IInv
  BY InitOK, NextKeeps, PTL DEF Spec
<1>2. Spec => []DropInv
  BY <1>1, DropInit, DropStep, PTL DEF Spec
<1>3. DropInv => NoBundleIsDropped
  BY DEF DropInv, Undisturbed, ListInv, Listed, NoBundleIsDropped
<1>4. QED
  BY <1>2, <1>3, PTL

\* If every transfer ends within the Duration in which the repository looks for it,
\* the calls of process() start at most MaxOngoing transfers for each of those that
\* overlap, and one for each request that failed after it was mined.
THEOREM TransfersAreBounded == Spec /\ []InTime => []TransfersBounded
<1>1. Spec => []IInv
  BY InitOK, NextKeeps, PTL DEF Spec
<1>2. Spec => []DropInv
  BY <1>1, DropInit, DropStep, PTL DEF Spec
<1>3. Spec /\ []InTime => []BoundInv
  BY <1>1, <1>2, BoundInit, BoundStep, PTL DEF Spec
<1>4. QED
  BY <1>1, <1>3, BoundImplies, PTL
=============================================================================
