---------------------------- MODULE MCMeshRegistry ----------------------------
(* Small instances of MeshRegistry: nodes and keys are model values. *)
EXTENDS MeshRegistry, TLC

CONSTANTS n1, n2, k1, k2

TwoNodes == {n1, n2}
TwoKeys == {k1, k2}

Interchangeable == Permutations(Nodes) \cup Permutations(PublicKeys)
=============================================================================
