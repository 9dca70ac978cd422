------------------------------ MODULE Allocator ------------------------------
(***************************************************************************)
(* Which specialist each node should host (mesh/allocator.py), as the      *)
(* registry asks for it: from the hardware that heartbeats told of, the    *)
(* catalog, the traffic and one of three greedy strategies.  A step of a   *)
(* run is one round of one of its loops.  It works on copies of what the   *)
(* registry knew, so nothing is lost by letting nothing else happen until  *)
(* it has ended.                                                           *)
(*                                                                         *)
(* Nodes and specialists go by their places in the lists of the code,      *)
(* which break ties; <<i, k>> places the k-th specialist on the i-th node. *)
(* A score is the code's times 60; throughput, a logarithm, is taken from  *)
(* the logarithms (base the square root of 50) of a node's bandwidth and   *)
(* of the bytes a specialist reads per token.                              *)
(***************************************************************************)
EXTENDS Integers, FiniteSets, SequencesExt

CONSTANTS
  Hardware,  \* what the probe of a node may find
  Cards,     \* specialist cards
  Mixes      \* traffic shares by domain, in percent

None == [got |-> <<>>]
Idle == [phase |-> "idle"]

NoSpec == [specialist_id |-> "none"]
NoVram == -1

ASSUME AllocatorAssumption ==
  /\ NoSpec \notin Cards
  /\ \A s \in Cards : s.runtime \in Nat \ {0} /\ s.weight \in Int
  /\ \A n \in Hardware :
       n.unified \in BOOLEAN /\ n.ram \in Int /\ n.vram \in Int /\ n.speed \in Int

VARIABLES
  hardware,   \* the latest of each node, in the order of their first heartbeats
  catalog,    \* the cards, in the order they were registered
  run,        \* the run of the allocator: what it was asked, the phase of the strategy it is
              \* in, the nodes it has given suggestions to, in that order, how many of them
              \* it looked at for a second specialist, what is covered, its suggestions
  allocation  \* the last allocation, until what it was made from changes

allocatorVars == <<hardware, catalog, run, allocation>>

Tier1 == {"math", "code", "general", "reasoning"}
Tier2 == {"multilingual", "tool_use", "summarization"}
Tier3 == {"vision", "embeddings", "image_gen", "whisper"}

Tier(domain) == IF domain \in Tier1 THEN 1 ELSE IF domain \in Tier3 THEN 3 ELSE 2

AtLeastZero(x) == IF x < 0 THEN 0 ELSE x

\* _effective_vram_gb
Memory(node) ==
  IF node.unified THEN AtLeastZero(node.ram - 8)
  ELSE IF node.vram # NoVram THEN node.vram
  ELSE AtLeastZero(node.ram - 4)

\* The hard filters: the code scores the others -inf.
Eligible(spec, node) ==
  /\ spec.backend \in node.backends
  /\ spec.storage <= node.disk
  /\ spec.min_vram <= Memory(node)
  /\ spec.fp4 => node.blackwell

\* cov is a set of pairs of a domain and a node.
Hosting(domain, cov) == Cardinality({p \in cov : p[1] = domain})
Covered(cov) == {p[1] : p \in cov}

Score(spec, node, cov) ==
  LET hosts == Hosting(spec.domain, cov)
      spare == (30 * (Memory(node) - spec.runtime)) \div spec.runtime
  IN (IF hosts = 0 THEN 360 ELSE 120 \div (1 + hosts))
     + 45 * AtLeastZero(node.speed - spec.weight)
     + (IF spare < 60 THEN spare ELSE 60)
     + (IF node.far THEN 9 ELSE 18)

Places == (DOMAIN hardware) \X (DOMAIN catalog)
Suits(p) == Eligible(catalog[p[2]], hardware[p[1]])
FitsOn(i) == {p \in Places : p[1] = i /\ Suits(p)}

\* The order of _rank_specs_for_node and of the loop over its results: sort() keeps the
\* order of the catalog among equals, and only a better score replaces the best so far.
Before(p, q, cov) ==
  LET a == Score(catalog[p[2]], hardware[p[1]], cov)
      b == Score(catalog[q[2]], hardware[q[1]], cov)
  IN a > b \/ (a = b /\ (p[1] < q[1] \/ (p[1] = q[1] /\ p[2] < q[2])))

BestOf(places, cov) == CHOOSE p \in places : \A q \in places : q = p \/ Before(p, q, cov)

\* The three best others on the node, whose order nothing reads.
Alternates(i, primary, cov) ==
  LET others == {p \in FitsOn(i) : catalog[p[2]].specialist_id # primary.specialist_id}
  IN {catalog[p[2]] : p \in {q \in others : Cardinality({r \in others : Before(r, q, cov)}) < 3}}

-----------------------------------------------------------------------------
(* The strategies.                                                         *)

Left == {i \in DOMAIN hardware : i \notin ToSet(run.done)}

Hot(domain, mix) == domain \in DOMAIN mix /\ mix[domain] >= 5

\* Mutant: the second tier has to be asked for as well.
WantedIfHot(spec) ==
  \/ run.phase = "all"
  \/ run.phase = "tier1" /\ Tier(spec.domain) = 1
  \/ run.phase = "tier2" /\ Tier(spec.domain) = 2 /\ Hot(spec.domain, run.mix)
  \/ run.phase = "tier3" /\ Tier(spec.domain) = 3 /\ Hot(spec.domain, run.mix)

\* What a phase covers; the third tier has to be asked for.
Wanted(spec) ==
  \/ run.phase = "all"
  \/ run.phase = "tier1" /\ Tier(spec.domain) = 1
  \/ run.phase = "tier2" /\ Tier(spec.domain) = 2
  \/ run.phase = "tier3" /\ Tier(spec.domain) = 3 /\ Hot(spec.domain, run.mix)

Covering == {"all", "tier1", "tier2", "tier3"}
After == [all |-> "rest", tier1 |-> "tier2", tier2 |-> "tier3", tier3 |-> "seconds",
          seconds |-> "rest"]

\* Where a node that is left would cover a domain that nobody does.
Openings ==
  {p \in Places : /\ p[1] \in Left /\ Suits(p)
                  /\ Wanted(catalog[p[2]])
                  /\ catalog[p[2]].domain \notin Covered(run.cov)}

Assign(i, primary, alternates) ==
  run' = [run EXCEPT
    !.done = Append(@, i),
    !.cov = IF primary = NoSpec THEN @ ELSE @ \cup {<<primary.domain, i>>},
    !.got = [j \in DOMAIN @ \cup {i} |->
               IF j = i THEN [primary |-> primary, secondaries |-> {}, alternates |-> alternates]
               ELSE @[j]]]

\* The best placement that covers a domain; the alternates are ranked once it does.
CoverNext ==
  /\ run.phase \in Covering /\ Openings # {}
  /\ LET p == BestOf(Openings, run.cov)
         spec == catalog[p[2]]
     IN Assign(p[1], spec, Alternates(p[1], spec, run.cov \cup {<<spec.domain, p[1]>>}))

\* Mutant: what the primary takes is forgotten.
FitsAlone(spec, node, primary) == spec.runtime <= Memory(node)

FitsBeside(spec, node, primary) == spec.runtime <= Memory(node) - primary.runtime

\* Second specialists for a node whose primary takes at most half of it.
Seconds(i, primary) ==
  {p \in FitsOn(i) :
     /\ primary # NoSpec /\ Memory(hardware[i]) > 0
     /\ 2 * primary.runtime <= Memory(hardware[i])
     /\ catalog[p[2]].domain \in (Tier1 \cup Tier2) \ Covered(run.cov)
     /\ catalog[p[2]].specialist_id # primary.specialist_id
     /\ FitsBeside(catalog[p[2]], hardware[i], primary)}

FillSecondary ==
  /\ run.phase = "seconds" /\ run.looked < Len(run.done)
  /\ LET i == run.done[run.looked + 1]
         places == Seconds(i, run.got[i].primary)
         spec == catalog[BestOf(places, run.cov)[2]]
     IN IF places = {} THEN run' = [run EXCEPT !.looked = @ + 1]
        ELSE run' = [run EXCEPT !.looked = @ + 1,
                                !.cov = @ \cup {<<spec.domain, i>>},
                                !.got[i].secondaries = {spec}]

PhaseEnds ==
  /\ \/ run.phase \in Covering /\ Openings = {}
     \/ run.phase = "seconds" /\ run.looked = Len(run.done)
  /\ run' = [run EXCEPT !.phase = After[@]]

\* The most asked for domain, if a node can host it.
HeavyDomain(mix) ==
  IF DOMAIN mix = {} THEN "general"
  ELSE CHOOSE d \in DOMAIN mix : \A e \in DOMAIN mix : mix[e] <= mix[d]

Heavy(places) ==
  {p \in places : run.strategy = "tiered" /\ catalog[p[2]].domain = HeavyDomain(run.mix)}

\* Mutant: a node that cannot host the heaviest domain hosts nothing.
ReplicaOfHeavy(places) == IF run.strategy = "tiered" THEN Heavy(places) ELSE places

Replica(places) == IF Heavy(places) # {} THEN Heavy(places) ELSE places

\* One primary for each node that is left, in order.
FillRest ==
  /\ run.phase = "rest"
  /\ \E i \in Left :
       /\ \A j \in Left : i <= j
       /\ LET places == Replica(FitsOn(i))
              primary == IF places = {} THEN NoSpec ELSE catalog[BestOf(places, run.cov)[2]]
          IN Assign(i, primary, Alternates(i, primary, run.cov))

-----------------------------------------------------------------------------
(* What the registry knows, and asks.                                      *)

AllocatorInit == hardware = <<>> /\ catalog = <<>> /\ run = Idle /\ allocation = None

\* A value takes the place of the one with its key, or comes last: a dict.
Put(seq, value, key) ==
  IF \E i \in DOMAIN seq : seq[i][key] = value[key]
    THEN [i \in DOMAIN seq |-> IF seq[i][key] = value[key] THEN value ELSE seq[i]]
    ELSE Append(seq, value)

HeardOf(node) ==
  /\ run = Idle
  /\ hardware' = Put(hardware, node, "node_id")
  /\ allocation' = None
  /\ UNCHANGED <<catalog, run>>

RegisterCatalog(card) ==
  /\ run = Idle
  /\ catalog' = Put(catalog, card, "specialist_id")
  /\ allocation' = None
  /\ UNCHANGED <<hardware, run>>

FirstPhase == [tiered |-> "tier1", full_set |-> "all", best_per_machine |-> "rest"]

\* Nodes that left are allocated to as well.
RunAllocator(strategy, mix) ==
  /\ run = Idle /\ allocation = None
  /\ run' = [strategy |-> strategy, mix |-> mix, phase |-> FirstPhase[strategy],
             done |-> <<>>, looked |-> 0, cov |-> {}, got |-> <<>>]
  /\ UNCHANGED <<hardware, catalog, allocation>>

\* One round of allocate_cluster.
AllocateCluster ==
  /\ CoverNext \/ FillSecondary \/ PhaseEnds \/ FillRest
  /\ UNCHANGED <<hardware, catalog, allocation>>

RecordAllocation ==
  /\ run.phase = "rest" /\ Left = {}
  /\ allocation' = [strategy |-> run.strategy, got |-> run.got]
  /\ run' = Idle
  /\ UNCHANGED <<hardware, catalog>>

AllocatorNext ==
  \/ \E node \in Hardware : HeardOf(node)
  \/ \E card \in Cards : RegisterCatalog(card)
  \/ \E mix \in Mixes : RunAllocator("tiered", mix)
  \/ \E strategy \in {"best_per_machine", "full_set"} : RunAllocator(strategy, <<>>)
  \/ AllocateCluster \/ RecordAllocation

AllocatorSpec == AllocatorInit /\ [][AllocatorNext]_allocatorVars

-----------------------------------------------------------------------------
(* What an allocation promises.                                            *)

Hosted(suggestion) == ({suggestion.primary} \cup suggestion.secondaries) \ {NoSpec}

\* "One NodeSuggestion per node", whose primary is missing only where no specialist
\* passes the hard filters, and whose specialists all pass them.
AllocationComplete ==
  allocation # None =>
    /\ DOMAIN allocation.got = DOMAIN hardware
    /\ \A i \in DOMAIN hardware :
         LET suggestion == allocation.got[i]
         IN /\ suggestion.primary = NoSpec <=> \A s \in ToSet(catalog) : ~Eligible(s, hardware[i])
            /\ \A s \in Hosted(suggestion) \cup suggestion.alternates :
                 s \in ToSet(catalog) /\ Eligible(s, hardware[i])

\* Coverage before copies, for the strategies that promise it: of the nodes that have
\* the same domain for their primary, at most one could host an essential domain that
\* nobody hosts; full_set counts every domain as essential.
DomainsSpread ==
  allocation # None /\ allocation.strategy # "best_per_machine" =>
    LET missing == {s \in ToSet(catalog) :
                      /\ allocation.strategy = "full_set" \/ Tier(s.domain) < 3
                      /\ \A i \in DOMAIN hardware :
                           \A h \in Hosted(allocation.got[i]) : h.domain # s.domain}
        useful == {i \in DOMAIN hardware : \E s \in missing : Eligible(s, hardware[i])}
    IN \A i, j \in useful :
         allocation.got[i].primary.domain = allocation.got[j].primary.domain => i = j

\* Two specialists on one node fit into its memory together, and the second serves a
\* domain that no other second serves.
SecondaryFits ==
  allocation # None =>
    \A i \in DOMAIN hardware : \A s \in allocation.got[i].secondaries :
      /\ s.runtime + allocation.got[i].primary.runtime <= Memory(hardware[i])
      /\ s.domain # allocation.got[i].primary.domain
      /\ \A j \in DOMAIN hardware \ {i} :
           \A t \in allocation.got[j].secondaries : t.domain # s.domain
=============================================================================
