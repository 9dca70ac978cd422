--------------------------- MODULE MCRequestRouting ---------------------------
(* Small instances of RequestRouting: requests and nodes are model values. *)
EXTENDS RequestRouting

CONSTANTS r1, r2, r3, n1, n2

TwoRequests == {r1, r2}
ThreeRequests == {r1, r2, r3}

TwoNodes == {n1, n2}
OneNode == {n1}

Interchangeable == Permutations(Requests) \cup Permutations(Keys)
=============================================================================
