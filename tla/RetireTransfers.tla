--------------------------- MODULE RetireTransfers ---------------------------
(***************************************************************************)
(* The transfers by which an Atlas node in retire mode gives its bundles    *)
(* away: what the contract says of them, and what RetireTransfersRepository *)
(* knows of it, which scans the contract's events since the last block it   *)
(* has seen.  Several scans may be under way at once.                       *)
(*                                                                         *)
(* A block holds one event.  The steps in which a range is fetched are      *)
(* those of EventsCollector, where they are checked; here a range is read   *)
(* at once, since the blocks up to currentBlock do not change any more.     *)
(***************************************************************************)
EXTENDS Integers, FiniteSets, Sequences

CONSTANTS
    Bundles,
    Duration     \* blocks that are mined while a transfer lasts, at most

ASSUME TransferAssumption == Duration \in Nat /\ IsFiniteSet(Bundles)

Donors == {"self", "other"}

\* getTransferId(donor, bundle): used again when the donor starts another one.
Transfers == [donor : Donors, bundle : Bundles]

Kinds == {"started", "cancelled", "resolved"}

VARIABLES
    ours,         \* bundles the chain says this node shelters
    ongoing,      \* transfers in progress
    log,          \* events of the chain, one for each block
    active,       \* activeTransfers
    pending,      \* resolvedTransfers that were not flushed yet
    lastSaved     \* lastSavedBlock

contractVars == <<ours, ongoing, log>>
repositoryVars == <<active, pending, lastSaved>>

RetireTypeOK ==
    /\ ours \subseteq Bundles
    /\ ongoing \subseteq Transfers
    /\ log \in Seq([kind : Kinds, transfer : Transfers])
    /\ active \subseteq Transfers
    /\ pending \in Seq(Transfers)
    /\ lastSaved \in Nat

RetireInit ==
    /\ ours \in SUBSET Bundles
    /\ ongoing = {}
    /\ log = <<>>
    /\ active = {}
    /\ pending = <<>>
    /\ lastSaved = 0

Of(b) == [donor |-> "self", bundle |-> b]

-----------------------------------------------------------------------------
(* The contracts, for transfers of this node *)

Emit(kind, t) == log' = Append(log, [kind |-> kind, transfer |-> t])

MayStart(t) == t \notin ongoing /\ t.bundle \in ours

Start(t) ==
    /\ MayStart(t)
    /\ ongoing' = ongoing \cup {t}
    /\ Emit("started", t)
    /\ UNCHANGED ours

\* Another node takes the donor's place as a shelterer.
Resolve(t) ==
    /\ t \in ongoing
    /\ ongoing' = ongoing \ {t}
    /\ ours' = ours \ {t.bundle}
    /\ Emit("resolved", t)

Cancel(t) ==
    /\ t \in ongoing
    /\ ongoing' = ongoing \ {t}
    /\ Emit("cancelled", t)
    /\ UNCHANGED ours

-----------------------------------------------------------------------------
(* RetireTransfersRepository *)

CurrentBlock == Len(log)

GetFromBlock ==
    IF lastSaved > 0 THEN lastSaved + 1
    ELSE IF CurrentBlock > Duration THEN CurrentBlock - Duration ELSE 0

\* The events of a kind in a range of blocks, by their positions in the log.
Positions(kind, from, upTo) == {i \in DOMAIN log : i \in from..upTo /\ log[i].kind = kind}

TransfersAt(positions) == {log[i].transfer : i \in positions}

\* Mutant: transfers of other donors are followed too.
AnyDonor(transfers) == transfers

OwnTransfers(transfers) == {t \in transfers : t.donor = "self"}

Followed(from, upTo) ==
    (active \cup OwnTransfers(TransfersAt(Positions("started", from, upTo))))
        \ TransfersAt(Positions("cancelled", from, upTo))

\* The first resolution of each transfer that is followed.
NewlyResolved(from, upTo) ==
    {i \in Positions("resolved", from, upTo) :
        /\ log[i].transfer \in Followed(from, upTo)
        /\ \A j \in Positions("resolved", from, i - 1) : log[j].transfer # log[i].transfer}

InOrder(positions) ==
    {order \in [1..Cardinality(positions) -> positions] :
        \A m, n \in DOMAIN order : m < n => order[m] < order[n]}

\* Kind by kind, whatever the order of the events: started, cancelled, resolved.
ApplyIncomingTransferEvents(from, upTo, order) ==
    [active |-> Followed(from, upTo) \ TransfersAt(NewlyResolved(from, upTo)),
     resolved |-> pending \o [n \in DOMAIN order |-> log[order[n]].transfer]]
=============================================================================
