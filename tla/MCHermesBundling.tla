------------------------- MODULE MCHermesBundling -------------------------
(* Small instances of HermesBundling for TLC. *)
EXTENDS HermesBundling

CONSTANTS w1, w2, a1, a2, v1, v2, b1, b2, b3

OneWorker == {w1}
TwoWorkers == {w1, w2}
OneAsset == {a1}
TwoAssets == {a1, a2}
OneEvent == {v1}
TwoEvents == {v1, v2}
TwoBundles == {b1, b2}
ThreeBundles == {b1, b2, b3}

\* Every event is about the first asset.
AboutFirst == [v \in Events |-> a1]

\* v1 carries an earlier time than the asset it is about, v2 the same time.
Times == [e \in Entities |-> IF e = v1 THEN 0 ELSE IF e = a2 THEN 2 ELSE 1]

\* Numbers below MaxSeq are never identified with one another.
SeqBelowBound == \A w \in Workers : seq[w] < MaxSeq
===========================================================================
