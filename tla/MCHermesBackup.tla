--------------------------- MODULE MCHermesBackup ---------------------------
(* Small instances of HermesBackup for TLC. *)
EXTENDS HermesBackup, TLC

CONSTANTS b1, b2, d1, d2, k1, k2

TwoBundles == {b1, b2}
OneBundle == {b1}
TwoDonors == {d1, d2}
TwoKeys == {k1, k2}
OrderedCollections == <<"accounts", "organization">>
RequiredCollections == {"organization"}
BackupEntities == {<<kind, n>> : kind \in {"asset", "event"}, n \in 1..MaxBackups}

Symmetry ==
    {p @@ q @@ r : p \in Permutations(TwoBundles), q \in Permutations(TwoDonors),
                   r \in Permutations(TwoKeys)}
=============================================================================
