----------------------------- MODULE MeshSelect ------------------------------
(***************************************************************************)
(* Which route serves a request (mesh/select.py over the route table of    *)
(* mesh/registry.py): fall-through over difficulties and domains, budgets, *)
(* the client's preferences under the admin's ceilings, a score, and a     *)
(* fallback chain.                                                         *)
(*                                                                         *)
(* The snapshot changes with heartbeats, with age and with the scores that *)
(* the rounds of the quality probe (mesh/quality_probe.py) post.           *)
(*                                                                         *)
(* Latencies are in milliseconds, qualities in quarters of a point,        *)
(* weights in quarters.  A route of the table costs nothing, so the cost   *)
(* ceiling and the cost axis never tell routes apart and are left out.     *)
(***************************************************************************)
EXTENDS Lists, SequencesExt

CONSTANTS
  Reports,   \* heartbeats: [node, healthy, depth, p95, loaded]
  Profiles,  \* the card of each registered specialist
  Scores,    \* what the scorer may say of a specialist that answers
  Requests,  \* [domain, difficulty, class]
  Prefs,     \* what clients prefer
  Ceilings   \* what admins allow

Missing == -1   \* None
NoPref == [none |-> TRUE]
Cloud == [node |-> "cloud"]

Measure == Nat \cup {Missing}
Weight == 0..4 \cup {Missing}

ASSUME SelectionAssumption ==
  /\ \A r \in Reports :
       /\ r = [node |-> r.node, healthy |-> r.healthy, depth |-> r.depth, p95 |-> r.p95,
               loaded |-> r.loaded]
       /\ r.depth \in Nat /\ r.p95 \in Measure
       /\ r.loaded \in Seq(ToSet(r.loaded))
  /\ IsFiniteSet(DOMAIN Profiles)
  /\ \A s \in DOMAIN Profiles :
       Profiles[s].reported \in Measure /\ Profiles[s].context \in Nat
  /\ Scores \subseteq 0..20
  /\ \A p \in Prefs \ {NoPref} :
       /\ p = [max_p95 |-> p.max_p95, quality_weight |-> p.quality_weight,
               capabilities |-> p.capabilities, min_context |-> p.min_context,
               allow_fallbacks |-> p.allow_fallbacks]
       /\ p.max_p95 \in Measure /\ p.quality_weight \in Weight /\ p.min_context \in Nat
  /\ \A c \in Ceilings : c.max_p95 \in Measure /\ c.quality_weight_min \in Weight

VARIABLES
  beats,     \* the latest of each node, in the order the nodes joined
  observed,  \* quality_router_observed of each card
  round      \* the specialists that a probe round has still to ask, in order

selectionVars == <<beats, observed, round>>

MaxQueueMs == 2000
HotP95Ms == 1500

-----------------------------------------------------------------------------
(* build_ranked_routes.  A binding is a pair of the place of a heartbeat   *)
(* and a specialist that it lists.                                         *)

\* A latency of zero counts as none, here and in RouteCost.
Known(p95, default) == IF p95 \in {Missing, 0} THEN default ELSE p95

\* One route per healthy binding of a specialist with a card.
Bindings ==
  {b \in (DOMAIN beats) \X (DOMAIN Profiles) :
     beats[b[1]].healthy /\ b[2] \in ToSet(beats[b[1]].loaded)}

Route(b) ==
  [spec |-> b[2], node |-> beats[b[1]].node, queue |-> 500 * beats[b[1]].depth,
   p95 |-> beats[b[1]].p95]

\* Specialists in the order in which the heartbeats list them first.
Places(spec) ==
  UNION {{i} \X {j \in DOMAIN beats[i].loaded : beats[i].loaded[j] = spec} : i \in DOMAIN beats}

Earlier(p, q) == p[1] < q[1] \/ (p[1] = q[1] /\ p[2] < q[2])

ListedBefore(s, t) == \E p \in Places(s) : \A q \in Places(t) : Earlier(p, q)

\* The routes of a specialist come least loaded and fastest first.
TableBefore(a, b) ==
  LET Ahead(r, s) ==
        \/ r.queue < s.queue
        \/ r.queue = s.queue /\ Known(r.p95, 99999) < Known(s.p95, 99999)
  IN \/ ListedBefore(a[2], b[2])
     \/ /\ a[2] = b[2]
        /\ \/ Ahead(Route(a), Route(b))
           \/ ~Ahead(Route(b), Route(a)) /\ a[1] < b[1]

RankedRoutes(domain, difficulty) ==
  {b \in Bindings : Profiles[b[2]].domain = domain /\ difficulty \in Profiles[b[2]].tiers}

-----------------------------------------------------------------------------
(* Candidates and budgets                                                  *)

Else(routes, others) == IF routes # {} THEN routes ELSE others

\* Mutant: easier tiers are tried as well, before the domain is given up.
CandidateRoutesInAnyTier(domain, difficulty) ==
  Else(RankedRoutes(domain, "easy"),
  Else(RankedRoutes(domain, "medium"),
  Else(RankedRoutes(domain, "hard"), RankedRoutes("general", difficulty))))

\* _candidate_routes: harder tiers of the domain, then the same tier of general.
CandidateRoutes(domain, difficulty) ==
  Else(RankedRoutes(domain, difficulty),
  Else(IF difficulty = "easy" THEN RankedRoutes(domain, "medium") ELSE {},
  Else(IF difficulty \in {"easy", "medium"} THEN RankedRoutes(domain, "hard") ELSE {},
       RankedRoutes("general", difficulty))))

\* _filter_routes
MaxOf(class) == IF class = "hot_interactive" THEN HotP95Ms ELSE Missing

WithinBudget(route, class) ==
  /\ route.queue <= MaxQueueMs
  /\ MaxOf(class) # Missing => route.p95 <= MaxOf(class)

-----------------------------------------------------------------------------
(* Preferences: max_p95, quality_weight, min_context are numbers or        *)
(* Missing, capabilities a set (streaming is one), allow_fallbacks is      *)
(* whether the cloud may end the chain.                                    *)

\* Mutant: a client that names no ceiling is under none.
LowerNamed(cur, cap) == IF cur > cap THEN cap ELSE cur

Lower(cur, cap) == IF cap # Missing /\ (cur = Missing \/ cur > cap) THEN cap ELSE cur
Higher(cur, floor) == IF floor # Missing /\ (cur = Missing \/ cur < floor) THEN floor ELSE cur

Clamp(pref, ceiling) ==
  [pref EXCEPT !.max_p95 = Lower(@, ceiling.max_p95),
               !.quality_weight = Higher(@, ceiling.quality_weight_min)]

\* _pref_filter; a route nobody measured passes the latency ceiling.
Meets(route, pref) ==
  LET card == Profiles[route.spec]
  IN /\ pref.max_p95 # Missing => route.p95 <= pref.max_p95
     /\ pref.capabilities \subseteq card.capabilities
     /\ card.context >= pref.min_context

\* _effective_quality, what a node says of itself counting half.
EffectiveQuality(spec) ==
  IF observed[spec] # Missing THEN observed[spec]
  ELSE IF Profiles[spec].reported # Missing THEN Profiles[spec].reported \div 2
  ELSE 10

\* Nothing is better than five points.
QualityNorm(spec) == IF EffectiveQuality(spec) > 20 THEN 20 ELSE EffectiveQuality(spec)

\* _pref_score times 12000.
PrefScore(route, pref) ==
  LET weight == IF pref.quality_weight = Missing THEN 2 ELSE pref.quality_weight
      over == (IF route.p95 = Missing THEN 800 ELSE route.p95) - 200
      late == IF over < 0 THEN 0 ELSE IF over > 2700 THEN 2700 ELSE over
  IN weight * 150 * QualityNorm(route.spec) + (4 - weight) * (3000 - late)

\* _route_score, as a cost: the code's times -1000.
RouteCost(route, class) ==
  LET p95 == Known(route.p95, 500)
  IN CASE class = "hot_interactive" -> 2 * route.queue + 10 * p95
       [] class = "batch" -> route.queue \div 2 + 2 * p95
       [] OTHER -> route.queue + 4 * p95

-----------------------------------------------------------------------------

\* The best first; equals stay in the order of the table.
Better(bindings, value) ==
  {p \in bindings \X bindings :
     \/ value[p[1]] > value[p[2]]
     \/ value[p[1]] = value[p[2]] /\ TableBefore(p[1], p[2])}

RoutesOf(bindings, value) ==
  LET order == Sorted(bindings, Better(bindings, value))
  IN [k \in DOMAIN order |-> Route(order[k])]

\* The winner and its fallback chain, as one list: the client is served by the first.
SelectMeshRoute(request) ==
  LET within == {b \in CandidateRoutes(request.domain, request.difficulty) :
                   WithinBudget(Route(b), request.class)}
  IN Append(RoutesOf(within, [b \in within |-> -RouteCost(Route(b), request.class)]), Cloud)

SelectMeshRouteWithPref(request, client, ceiling) ==
  IF client = NoPref THEN SelectMeshRoute(request)
  ELSE LET pref == Clamp(client, ceiling)
           passing == {b \in CandidateRoutes(request.domain, request.difficulty) :
                         WithinBudget(Route(b), request.class) /\ Meets(Route(b), pref)}
           chain == RoutesOf(passing, [b \in passing |-> PrefScore(Route(b), pref)])
       IN IF chain = <<>> \/ pref.allow_fallbacks THEN Append(chain, Cloud) ELSE chain

-----------------------------------------------------------------------------

SelectionInit ==
  /\ beats = <<>> /\ round = <<>>
  /\ observed = [s \in DOMAIN Profiles |-> Missing]

\* snapshot: a node's latest heartbeat keeps its place; one that left comes last again.
Report(latest) ==
  /\ beats' = IF \E i \in DOMAIN beats : beats[i].node = latest.node
                THEN [i \in DOMAIN beats |-> IF beats[i].node = latest.node THEN latest ELSE beats[i]]
                ELSE Append(beats, latest)
  /\ UNCHANGED <<observed, round>>

NodeLeft(i) ==
  /\ beats' = RemoveAt(beats, i)
  /\ UNCHANGED <<observed, round>>

\* Its latest heartbeat is too old: "unreachable", and its bindings with it.
GoSilent(i) ==
  /\ beats[i].healthy
  /\ beats' = [beats EXCEPT ![i].healthy = FALSE]
  /\ UNCHANGED <<observed, round>>

\* The quality probe: one round at a time, over the bindings as they were when it began.
FetchRegistry ==
  /\ round = <<>>
  /\ round' = SetToSeq({s \in DOMAIN Profiles : Places(s) # {}})
  /\ UNCHANGED <<beats, observed>>

\* _send_chat of a node that is gone, too slow or answers nonsense.
NoReply == 0

\* The specialist's first binding is asked, well or not, and no other in its place: every
\* prompt for its domain, and the mean of the scores.
ProbeOne == Scores \cup {NoReply}

\* record_quality_observation, whatever became of the bindings since.
PostQualityObservation(score) ==
  /\ round # <<>>
  /\ observed' = [observed EXCEPT ![Head(round)] = score]
  /\ round' = Tail(round)
  /\ UNCHANGED beats

\* write_observation did not get through; the round goes on.
ObservationLost ==
  /\ round # <<>>
  /\ round' = Tail(round)
  /\ UNCHANGED <<beats, observed>>

SelectionNext ==
  \/ \E latest \in Reports : Report(latest)
  \/ \E i \in DOMAIN beats : NodeLeft(i) \/ GoSilent(i)
  \/ FetchRegistry \/ ObservationLost
  \/ \E score \in ProbeOne : PostQualityObservation(score)

SelectionSpec == SelectionInit /\ [][SelectionNext]_selectionVars

-----------------------------------------------------------------------------

\* Ceilings hold down the chain: every route in it is a healthy binding of a registered
\* specialist within its budgets, no slower than the client and, once there are
\* preferences to clamp, the admin allow, and capable of what the client requires.  Without
\* a node there is only the cloud.
ChainWithinCeilings ==
  beats # <<>> => \A request \in Requests, client \in Prefs, ceiling \in Ceilings :
    \A route \in ToSet(SelectMeshRouteWithPref(request, client, ceiling)) \ {Cloud} :
      LET card == Profiles[route.spec]
          tops == {MaxOf(request.class)} \cup
                  (IF client = NoPref THEN {} ELSE {client.max_p95, ceiling.max_p95})
      IN /\ \E b \in ToSet(beats) :
              b.healthy /\ b.node = route.node /\ route.spec \in ToSet(b.loaded) /\ b.depth <= 4
         /\ \A top \in tops \ {Missing} : route.p95 <= top
         /\ client # NoPref =>
              client.capabilities \subseteq card.capabilities /\ card.context >= client.min_context

Serves(spec, request) ==
  /\ spec \in DOMAIN Profiles
  /\ Profiles[spec].domain = request.domain
  /\ request.difficulty \in Profiles[spec].tiers

Offered ==
  UNION {{[spec |-> s, queue |-> 500 * b.depth, p95 |-> b.p95] : s \in ToSet(b.loaded)} :
           b \in {c \in ToSet(beats) : c.healthy}}

Able(request, pref) ==
  {r \in Offered : /\ Serves(r.spec, request) /\ WithinBudget(r, request.class)
                   /\ pref # NoPref => Meets(r, pref)}

\* Latency is told apart between 0.2 and 2.9 s only, which shows where nothing else counts.
ToldApart(p95) == p95 \in 201..2900

Dominates(r, winner, pref) ==
  /\ 0 < r.p95 /\ r.p95 < winner.p95 /\ r.queue <= winner.queue
  /\ QualityNorm(r.spec) > QualityNorm(winner.spec)
  /\ pref # NoPref /\ pref.quality_weight = 0 => ToldApart(winner.p95)

\* Whoever asks for what a node can give is not sent elsewhere: if a healthy binding
\* serves the very domain and difficulty within all ceilings, the winner serves them
\* too, and no such binding beats it on every axis at once, at any moment of a probe round.
BestServes ==
  beats # <<>> => \A request \in Requests, client \in Prefs, ceiling \in Ceilings :
    LET pref == IF client = NoPref THEN NoPref ELSE Clamp(client, ceiling)
        winner == SelectMeshRouteWithPref(request, client, ceiling)[1]
    IN Able(request, pref) # {} =>
         /\ winner # Cloud /\ Serves(winner.spec, request)
         /\ \A r \in Able(request, pref) : ~Dominates(r, winner, pref)
=============================================================================
