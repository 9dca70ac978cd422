---------------------------- MODULE MCPullRouter ----------------------------
(* What a router may offer, each part in behaviours of its own: one node's *)
(* backend as the router of the pull topology sees it, and the selection   *)
(* of a route from the registry's table.                                   *)
EXTENDS PullRouter, MeshSelect

VARIABLE part

OfferInit ==
  /\ part \in {"pull", "selection"} /\ Init /\ SelectionInit
  /\ part = "selection" => kind = "null" /\ ~other

OfferNext ==
  /\ \/ part = "pull" /\ Next /\ UNCHANGED selectionVars
     \/ part = "selection" /\ SelectionNext /\ UNCHANGED vars
  /\ UNCHANGED part

OfferSpec == OfferInit /\ [][OfferNext]_<<vars, selectionVars, part>> /\ Fairness

-----------------------------------------------------------------------------

HeartbeatOf(id, depth, p95, loaded) ==
  [node |-> id, healthy |-> TRUE, depth |-> depth, p95 |-> p95, loaded |-> loaded]
FourBeats ==
  {HeartbeatOf("a", 0, 1400, <<"chat", "coder">>), HeartbeatOf("a", 5, 200, <<"coder">>),
   HeartbeatOf("b", 2, 1600, <<"coder", "gone">>),
   HeartbeatOf("c", 1, Missing, <<"lite", "chat">>)}
Served(domain, tiers, capabilities, context, reported) ==
  [domain |-> domain, tiers |-> tiers, capabilities |-> capabilities, context |-> context,
   reported |-> reported]
ThreeProfiles ==
  [chat  |-> Served("general", {"easy", "medium", "hard"}, {"streaming"}, 8, Missing),
   coder |-> Served("code", {"medium", "hard"}, {"streaming", "tools"}, 32, 16),
   lite  |-> Served("code", {"easy", "medium"}, {"streaming"}, 8, 20)]
Low == {4}
SixRequests ==
  [domain : {"code"}, difficulty : {"easy", "hard"}, class : {"hot_interactive", "standard"}]
  \cup [domain : {"general"}, difficulty : {"easy", "hard"}, class : {"batch"}]
Pref(max_p95, weight, capabilities, context, fallbacks) ==
  [max_p95 |-> max_p95, quality_weight |-> weight, capabilities |-> capabilities,
   min_context |-> context, allow_fallbacks |-> fallbacks]
FourPrefs ==
  {NoPref, Pref(Missing, Missing, {}, 0, TRUE), Pref(1500, 0, {}, 0, FALSE),
   Pref(Missing, 4, {"streaming"}, 16, TRUE)}
TwoCeilings ==
  {[max_p95 |-> Missing, quality_weight_min |-> 2], [max_p95 |-> 1000, quality_weight_min |-> Missing]}
=============================================================================
