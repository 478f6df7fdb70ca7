--------------------------- MODULE EntityBundling ---------------------------
(***************************************************************************)
(* What bundling promises to the clients of a Hermes node, with no word     *)
(* about cursors, stub ids, locks or processes: every entity is sealed in    *)
(* at most one bundle, its metadata only ever names that bundle, and it      *)
(* carries a proof only when that bundle is anchored on the chain.           *)
(***************************************************************************)
EXTENDS FiniteSets

CONSTANTS Entities, Bundles, NoBundle

VARIABLES
    created,    \* entities the node has accepted
    contents,   \* the entities sealed in each bundle
    bundleOf,   \* the bundle an entity's metadata names
    anchored,   \* bundles registered on the chain
    proven      \* entities whose metadata carries the proof

vars == <<created, contents, bundleOf, anchored, proven>>

Init ==
    /\ created = {}
    /\ contents = [b \in Bundles |-> {}]
    /\ bundleOf = [e \in Entities |-> NoBundle]
    /\ anchored = {}
    /\ proven = {}

Sealed == UNION {contents[b] : b \in Bundles}

Create(e) ==
    /\ e \notin created
    /\ created' = created \cup {e}
    /\ UNCHANGED <<contents, bundleOf, anchored, proven>>

\* A bundle is sealed once, of entities that are in no other bundle.
Seal(b, S) ==
    /\ contents[b] = {}
    /\ S \subseteq created \ Sealed
    /\ contents' = [contents EXCEPT ![b] = S]
    /\ UNCHANGED <<created, bundleOf, anchored, proven>>

Name(b, S) ==
    /\ S \subseteq {e \in contents[b] : bundleOf[e] = NoBundle}
    /\ bundleOf' = [e \in Entities |-> IF e \in S THEN b ELSE bundleOf[e]]
    /\ UNCHANGED <<created, contents, anchored, proven>>

Anchor(b) ==
    /\ \A e \in contents[b] : bundleOf[e] = b
    /\ anchored' = anchored \cup {b}
    /\ UNCHANGED <<created, contents, bundleOf, proven>>

Prove(b, S) ==
    /\ b \in anchored
    /\ S \subseteq {e \in Entities : bundleOf[e] = b}
    /\ proven' = proven \cup S
    /\ UNCHANGED <<created, contents, bundleOf, anchored>>

Next ==
    \/ \E e \in Entities : Create(e)
    \/ \E b \in Bundles, S \in SUBSET Entities :
          Seal(b, S) \/ Name(b, S) \/ Prove(b, S)
    \/ \E b \in Bundles : Anchor(b)

Spec == Init /\ [][Next]_vars
=============================================================================
