------------------------ MODULE ResolutionsRepository ------------------------
(***************************************************************************)
(* ongoingResolutions(), and the repositories of challenges and transfers,  *)
(* which an Atlas node's worker asks at every tick.  All of it is in        *)
(* memory: a process that starts again scans the blocks in which a          *)
(* resolution that is not over may have started.  A request that fails ends *)
(* the process, as the rejection is handled nowhere.                        *)
(***************************************************************************)
EXTENDS EventsCollector

CONSTANTS
    Duration,      \* blocks that are mined while a resolution lasts, at most
    MaxRestarts    \* bound: how often the process starts again

ASSUME RepositoryAssumption == Duration \in Nat /\ MaxRestarts \in Nat

VARIABLE restarts

ResolutionsInit ==
    /\ InMemory
    /\ pc = "getFromBlock"

-----------------------------------------------------------------------------
(* What the repositories share: getBlockInfo and the requests of a scan *)

GetFromBlock(first) ==
    /\ pc = "getFromBlock"
    /\ fromBlock' = IF lastSavedBlock > 0 THEN lastSavedBlock + 1 ELSE first
    /\ pc' = "getCurrentBlock"
    /\ UNCHANGED <<chainVars, lastSavedBlock, currentBlock, fetching, startBlock, collected,
                   cache, restarts>>

\* Mutant: a range of one block is not scanned.
GetLongerRange(nothing) ==
    /\ pc = "getCurrentBlock"
    /\ BeginScan(fromBlock < block, nothing)
    /\ UNCHANGED restarts

GetCurrentBlock(nothing) ==
    /\ pc = "getCurrentBlock"
    /\ BeginScan(fromBlock <= block, nothing)
    /\ UNCHANGED restarts

Fetch == FetchEvents /\ UNCHANGED restarts

-----------------------------------------------------------------------------
(* Challenges and transfers *)

\* getFromBlock of the first scan: the blocks mined within the duration.
EarliestBlock == IF block > Duration THEN block - Duration ELSE 0

\* With the last answer the events are applied and the block is saved, in one turn.
UpdateActiveResolutions ==
    /\ pc = "fetch"
    /\ LastRequest
    /\ cache' = ApplyIncomingEvents(cache, collected \o Requested)
    /\ lastSavedBlock' = currentBlock
    /\ collected' = <<>>
    /\ pc' = "getFromBlock"
    /\ UNCHANGED <<chainVars, fromBlock, currentBlock, fetching, startBlock, restarts>>

\* The process exits, killed or by a request that fails, and is started again.
Restart ==
    /\ restarts < MaxRestarts
    /\ restarts' = restarts + 1
    /\ NewProcess("getFromBlock")

Tick ==
    \/ GetFromBlock(EarliestBlock)
    \/ GetCurrentBlock("getFromBlock")
    \/ Fetch
    \/ UpdateActiveResolutions

-----------------------------------------------------------------------------
(* Properties *)

ChainThen(id) == past[lastSavedBlock][id]

\* The node's list is the chain's at the last scanned block: whatever may still be
\* resolved is on it with the count it had then, and nothing else is, so no event is
\* lost or applied twice by steps, by scans that overlap new blocks, or by a restart
\* whose scan begins in the middle of a resolution.
ListIsTheChains ==
    InMemory /\ lastSavedBlock > 0 => \A id \in Ids :
        /\ ChainThen(id).count > 0 /\ ChainThen(id).since + Duration >= lastSavedBlock
               => cache[id] = ChainThen(id).count
        /\ cache[id] > 0 => cache[id] = ChainThen(id).count

\* The repository never stays behind the chain for good: whenever blocks stop coming
\* it has scanned the last one.
CatchesUp == InMemory => []<>(lastSavedBlock = block)
=============================================================================
