----------------------------- MODULE MCVideoJobs -----------------------------
(* Small instances of VideoJobs: callers and upstream jobs are model values. *)
EXTENDS VideoJobs, TLC

CONSTANTS h1, h2, w1, w2, j1, j2, j3

OneHandler == {h1}
TwoHandlers == {h1, h2}
OneLoop == {w1}
TwoLoops == {w1, w2}
MCCallers == Handlers \cup Loops
OneJob == {j1}
TwoJobs == {j1, j2}
ThreeJobs == {j1, j2, j3}
None == {}

Nothing == <<>>
ForeignRow == <<[job |-> j1, foreign |-> TRUE]>>
HungRowsFirst ==
  <<[job |-> j1, foreign |-> FALSE], [job |-> j2, foreign |-> FALSE],
    [job |-> j3, foreign |-> FALSE]>>

Interchangeable == Permutations(Handlers) \cup Permutations(Loops) \cup Permutations(Jobs)
=============================================================================
