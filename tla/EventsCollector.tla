--------------------------- MODULE EventsCollector ---------------------------
(***************************************************************************)
(* The part that all repositories of chain events share: the chain as they  *)
(* see it, a scan of its blocks in steps (one request for each kind of      *)
(* event and each step, while the chain grows), and the cache of active     *)
(* resolutions the events are applied to.                                  *)
(*                                                                         *)
(* A resolution is a challenge, a transfer or, for the bundles a node       *)
(* shelters, a bundle.  "timedOut" stands for every event that ends one for *)
(* good: timed out, cancelled, shelterer removed.                           *)
(***************************************************************************)
EXTENDS Integers, SequencesExt

CONSTANTS
    Ids,          \* resolutions: the contracts use an id again once it is closed
    MaxCount,     \* bound: how often one challenge has to be resolved
    Step,         \* eventOneFetchLimit
    OnboardBlock, \* the block in which this node was onboarded, 0 if it never was
    MaxBlock,     \* bound: blocks of the chain
    MaxEvents     \* bound: events on the chain

Kinds == {"started", "resolved", "timedOut"}

ASSUME CollectorAssumption ==
    /\ MaxCount \in Nat \ {0}
    /\ Step \in Nat \ {0}
    /\ OnboardBlock \in Nat
    /\ MaxBlock \in Nat \ {0}
    /\ MaxEvents \in Nat

VARIABLES
    repository,     \* which of the repositories this is; it never changes
    block,          \* the last mined block
    log,            \* events in the order (blockNumber, logIndex)
    open,           \* the contract: how often a resolution is still to be resolved
    past,           \* open at the end of each block
    pc,             \* where the repository is in load or ongoingResolutions
    lastSavedBlock,
    fromBlock, currentBlock,    \* the range of the scan
    fetching,       \* the kind, as an index of Fetched, that is being fetched
    startBlock,     \* the first block of the next request
    collected,      \* events fetched so far, as their positions in the log
    cache           \* activeResolutionsDict: the count of each one, 0 if absent

chainVars == <<block, log, open, past>>
scanVars == <<fromBlock, currentBlock, fetching, startBlock, collected>>

InMemory == repository = "resolutions"
InDatabase == repository = "shelteredBundles"

Event == [kind : Kinds, id : Ids, count : 1..MaxCount, block : 1..(MaxBlock + 1)]
Opened == [Ids -> [count : 0..MaxCount, since : 0..(MaxBlock + 1)]]

\* The kinds of events a repository asks for, in its order.
Fetched == IF InMemory THEN <<"started", "resolved", "timedOut">>
                       ELSE <<"started", "timedOut">>

CollectorTypeOK ==
    /\ repository \in {"resolutions", "shelteredBundles"}
    /\ block \in 1..MaxBlock
    /\ log \in Seq(Event)
    /\ open \in Opened
    /\ past \in Seq(Opened) /\ Len(past) = block
    /\ lastSavedBlock \in 0..block
    /\ fromBlock \in 0..(MaxBlock + 1)
    /\ currentBlock \in 0..block
    /\ fetching \in 1..Len(Fetched)
    /\ startBlock \in Nat
    /\ collected \in Seq(DOMAIN log)
    /\ cache \in [Ids -> 0..MaxCount]

Closed == [count |-> 0, since |-> 0]

ChainInit ==
    /\ block = 1
    /\ log = <<>>
    /\ open = [id \in Ids |-> Closed]
    /\ past = <<open>>

CollectorInit ==
    /\ ChainInit
    /\ lastSavedBlock = 0
    /\ fromBlock = 0
    /\ currentBlock = 0
    /\ fetching = 1
    /\ startBlock = 0
    /\ collected = <<>>
    /\ cache = [id \in Ids |-> 0]

-----------------------------------------------------------------------------
(* The contracts: what is written now is in the block that is mined next *)

\* The contracts know nothing of a node before it is onboarded.
Emit(kind, id, count) ==
    /\ Len(log) < MaxEvents
    /\ block < MaxBlock
    /\ InDatabase => block + 1 >= OnboardBlock
    /\ log' = Append(log, [kind |-> kind, id |-> id, count |-> count, block |-> block + 1])
    /\ UNCHANGED <<block, past>>

\* Only a challenge has more than one to resolve.
Counts == IF InMemory THEN 1..MaxCount ELSE {1}

ChainStarts(id, count) ==
    /\ open[id].count = 0
    /\ open' = [open EXCEPT ![id] = [count |-> count, since |-> block + 1]]
    /\ Emit("started", id, count)

\* One of the challenge's shelterers resolves it; the last one closes it.
ChainResolves(id) ==
    /\ InMemory
    /\ open[id].count > 0
    /\ open' = [open EXCEPT ![id].count = @ - 1]
    /\ Emit("resolved", id, 1)

ChainTimesOut(id) ==
    /\ open[id].count > 0
    /\ open' = [open EXCEPT ![id].count = 0]
    /\ Emit("timedOut", id, 1)

Mine ==
    /\ block < MaxBlock
    /\ block' = block + 1
    /\ past' = Append(past, open)
    /\ UNCHANGED <<log, open>>

-----------------------------------------------------------------------------
(* ActiveResolutionsCache *)

\* Mutant: decreaseActiveCount does not look whether the resolution is there.
ApplyUnguarded(active, event) ==
    [active EXCEPT ![event.id] =
        CASE event.kind = "started" -> IF @ = 0 THEN event.count ELSE @
          [] event.kind = "resolved" -> @ - 1
          [] event.kind = "timedOut" -> 0]

Apply(active, event) ==
    [active EXCEPT ![event.id] =
        CASE event.kind = "started" -> IF @ = 0 THEN event.count ELSE @
          [] event.kind = "resolved" -> IF @ > 0 THEN @ - 1 ELSE 0
          [] event.kind = "timedOut" -> 0]

EventsAt(positions) == [i \in DOMAIN positions |-> log[positions[i]]]

\* sortChronologically: by block and index in the block, the order of the log.
Sorted(positions) ==
    LET order == CHOOSE f \in [DOMAIN positions -> DOMAIN positions] :
                     /\ IsInjective(f)
                     /\ \A m, n \in DOMAIN positions :
                            m < n => positions[f[m]] <= positions[f[n]]
    IN  [n \in DOMAIN positions |-> positions[order[n]]]

\* Mutant: the lists of the kinds are joined, but not sorted.
ApplyUnsorted(active, positions) == FoldLeft(Apply, active, EventsAt(positions))

ApplyIncomingEvents(active, positions) == FoldLeft(Apply, active, EventsAt(Sorted(positions)))

-----------------------------------------------------------------------------
(* collectEventsWithStep *)

\* currentBlock is read after fromBlock; nothing is fetched for an empty range.
BeginScan(range, nothing) ==
    /\ currentBlock' = block
    /\ fetching' = 1
    /\ startBlock' = fromBlock
    /\ collected' = <<>>
    /\ pc' = IF range THEN "fetch" ELSE nothing
    /\ UNCHANGED <<chainVars, lastSavedBlock, fromBlock, cache>>

EndBlock == IF startBlock + Step - 1 < currentBlock THEN startBlock + Step - 1 ELSE currentBlock

\* The order within an answer is open: the events are sorted when all are there.
Requested ==
    SetToSeq({i \in DOMAIN log : /\ log[i].kind = Fetched[fetching]
                                 /\ log[i].block \in startBlock..EndBlock})

LastOfKind == startBlock + Step > currentBlock

LastRequest == LastOfKind /\ fetching = Len(Fetched)

FetchEvents ==
    /\ pc = "fetch"
    /\ ~LastRequest
    /\ collected' = collected \o Requested
    /\ startBlock' = IF LastOfKind THEN fromBlock ELSE startBlock + Step
    /\ fetching' = IF LastOfKind THEN fetching + 1 ELSE fetching
    /\ UNCHANGED <<chainVars, pc, lastSavedBlock, fromBlock, currentBlock, cache>>

\* A process that starts again has nothing but what it loads.
NewProcess(start) ==
    /\ pc' = start
    /\ lastSavedBlock' = 0
    /\ fromBlock' = 0
    /\ currentBlock' = 0
    /\ fetching' = 1
    /\ startBlock' = 0
    /\ collected' = <<>>
    /\ cache' = [id \in Ids |-> 0]
    /\ UNCHANGED chainVars
=============================================================================
