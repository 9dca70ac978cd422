---------------------------- MODULE MCTuningLoop ----------------------------
(* The parts of the tuning package, each in behaviours of its own: what    *)
(* one hands another (experiments, rows, checkpoints, exams) is a          *)
(* parameter of the other.  Ids are model values, rows are numbers.        *)
EXTENDS TuningLoop, AuditLog, TrainingNode, ConfigChallenger, Ignition, Curation, TLC

CONSTANTS a, b, g1, d1, j1, j2

ARow(mean, domain, judge, stub) ==
  [mean |-> mean, domains |-> d1 :> domain, judge |-> judge, n |-> 10, stub |-> stub]

MCExperiments == {a, b}
MCTrains == {a}
MCPriority == (a :> 1) @@ (b :> 2)
MCGenerators == {g1}
MCDomains == {d1}
MCJudges == {j1, j2}
MCEvalJudges == {j1}
MCBase == ARow(10, 20, j1, FALSE)

\* A marginal gain, a decisive one at the edge of a regression, and a stub whose row does
\* not say so.
MCCheckpoints ==
  {[row |-> ARow(16, 20, j1, FALSE), stub |-> FALSE],
   [row |-> ARow(22, 6, j1, FALSE), stub |-> FALSE],
   [row |-> ARow(40, 20, j1, FALSE), stub |-> TRUE]}

FourPrompts == 1..4
OneDomain == [p \in FourPrompts |-> d1]
ThreeOfIt == [d \in {d1} |-> 3]
FirstHoldout == 1..3
MCConfigs == [fallbacks : BOOLEAN, weight : 0..5]
MCDefaults == [fallbacks |-> FALSE, weight |-> 5]

\* The first prompt is one that fails without fallbacks.
MCScoreFor ==
  [c \in MCConfigs |->
     [p \in FourPrompts |->
        CASE p = 1 -> IF c.fallbacks THEN 120 ELSE 90
          [] p # 1 /\ c.weight = 4 -> 500
          [] p # 1 /\ c.weight = 5 -> 490
          [] OTHER -> 480 - p]]

NextTo(x, y) == x - y \in {-1, 0, 1}
FirstWindow == [c \in Clusters |-> Missing]

CuratedRow(prompt, score, key, emb, synthetic) ==
  [prompt |-> prompt, score |-> score, key |-> key, emb |-> emb, synthetic |-> synthetic]
EightRows ==
  <<CuratedRow(1, 8, 1, 0, FALSE), CuratedRow(1, 5, 2, 9, FALSE), CuratedRow(1, 9, 3, 2, TRUE),
    CuratedRow(2, 11, 4, 4, FALSE), CuratedRow(3, 5, 5, 9, FALSE), CuratedRow(4, 2, 6, 7, FALSE),
    CuratedRow(5, 9, 7, 1, TRUE), CuratedRow(6, 5, 8, 1, FALSE)>>
SublistsOfThem == {SelectSeq(EightRows, LAMBDA row : row \in rows) : rows \in SUBSET ToSet(EightRows)}
MCBatches == SublistsOfThem \cup {EightRows \o <<EightRows[k]>> : k \in DOMAIN EightRows}
FourGenerations == {<<>>, <<1, 7>>, <<7, 8>>, <<2>>}
MCDistance == [e \in {0, 1, 2, 4, 7} |-> e]
OneNearPair == {<<0, 1>>, <<1, 0>>}

-----------------------------------------------------------------------------

VARIABLE part

ofLoop == <<vars>>
ofOthers == <<auditVars, nodeVars, configVars, ignitionVars, curationVars>>

TuningInit ==
  /\ part \in {"loop", "audit", "node", "config", "ignition", "curation"}
  /\ Init /\ AuditInit /\ NodeInit /\ CurationInit
  /\ ConfigInit /\ holdout = FirstHoldout
  /\ IgnitionInit /\ windows[1].at = FirstWindow

TuningNext ==
  /\ \/ part = "loop" /\ Next /\ UNCHANGED ofOthers
     \/ /\ part # "loop" /\ UNCHANGED vars
        /\ \/ /\ part = "audit" /\ AuditNext
              /\ UNCHANGED <<nodeVars, configVars, ignitionVars, curationVars>>
           \/ /\ part = "node" /\ NodeNext
              /\ UNCHANGED <<auditVars, configVars, ignitionVars, curationVars>>
           \/ /\ part = "config" /\ ConfigNext
              /\ UNCHANGED <<auditVars, nodeVars, ignitionVars, curationVars>>
           \/ /\ part = "ignition" /\ IgnitionNext
              /\ UNCHANGED <<auditVars, nodeVars, configVars, curationVars>>
           \/ /\ part = "curation" /\ CurationNext
              /\ UNCHANGED <<auditVars, nodeVars, configVars, ignitionVars>>
  /\ UNCHANGED part

TuningSpec == TuningInit /\ [][TuningNext]_<<vars, ofOthers, part>> /\ Fairness
=============================================================================
