---------------------------- MODULE ChampionGate ----------------------------
(***************************************************************************)
(* The decision whether a challenger replaces the champion, of the tuning  *)
(* package: mesh/eval/gate.py, and around it the drift governor of         *)
(* mesh/eval/spotcheck.py.  Both are functions of evaluation rows and of a *)
(* window of score pairs; TuningLoop acts on what they say.  Scores are    *)
(* numbers of hundredths.                                                  *)
(***************************************************************************)
EXTENDS Integers, FiniteSets, Sequences, SequencesExt

CONSTANTS
  Domains,            \* the domains a row may have a mean for
  Judges,             \* judge models
  MeanScoreDelta,     \* mean_score_delta; the governor's decisive gain too
  MaxRegression,      \* per_domain_max_regression
  MinNEval,           \* min_n_eval
  RequireJudgeMatch,  \* require_judge_match
  Window, MinPairs    \* the rolling window of the drift tracker

ASSUME GateAssumption ==
  /\ MeanScoreDelta \in Nat \ {0}
  /\ MaxRegression \in Nat
  /\ MinNEval \in Nat
  /\ RequireJudgeMatch \in BOOLEAN
  /\ Window \in Nat \ {0}
  /\ MinPairs \in Nat \ {0}

\* What the gate reads of an evaluation row; a domain without probes has no mean.
IsRow(r) ==
  /\ r.mean \in Int
  /\ DOMAIN r.domains \subseteq Domains
  /\ \A d \in DOMAIN r.domains : r.domains[d] \in Int
  /\ r.judge \in Judges
  /\ r.n \in Nat
  /\ r.stub \in BOOLEAN

MeanDelta(champion, challenger) == challenger.mean - champion.mean

SharedDomains(champion, challenger) ==
  DOMAIN champion.domains \cap DOMAIN challenger.domains

Regresses(champion, challenger, d) ==
  challenger.domains[d] - champion.domains[d] < -MaxRegression

\* Mutant: the gain a challenger needs is not asked for.
RejectReasonsWithoutGain(champion, challenger) ==
  {r \in {"stub", "judge", "n_eval"} :
     \/ r = "stub" /\ (champion.stub \/ challenger.stub)
     \/ r = "judge" /\ RequireJudgeMatch /\ champion.judge # challenger.judge
     \/ r = "n_eval" /\ (champion.n < MinNEval \/ challenger.n < MinNEval)}

\* decide: every check that fails is a reason, and any reason rejects.
RejectReasons(champion, challenger) ==
  {r \in {"stub", "judge", "n_eval", "gain", "regression"} :
     \/ r = "stub" /\ (champion.stub \/ challenger.stub)
     \/ r = "judge" /\ RequireJudgeMatch /\ champion.judge # challenger.judge
     \/ r = "n_eval" /\ (champion.n < MinNEval \/ challenger.n < MinNEval)
     \/ r = "gain" /\ MeanDelta(champion, challenger) < MeanScoreDelta
     \/ /\ r = "regression"
        /\ \E d \in SharedDomains(champion, challenger) : Regresses(champion, challenger, d)}

Accepts(champion, challenger) == RejectReasons(champion, challenger) = {}

-----------------------------------------------------------------------------
(* The governor: accepted challengers that are marginal or in the sample   *)
(* are graded again by a cloud judge, and each pair of grades enters the   *)
(* window.                                                                 *)

SumOf(f) == FoldLeft(LAMBDA a, b : a + b, 0, f)

\* _rank, times two: ties share the mean of their positions.
TwiceRanks(values) ==
  [i \in DOMAIN values |->
     2 * Cardinality({j \in DOMAIN values : values[j] < values[i]})
       + Cardinality({j \in DOMAIN values : values[j] = values[i]}) + 1]

\* Len(xs)^2 times the covariance of two vectors of one length.
Covariance(xs, ys) ==
  Len(xs) * SumOf([i \in DOMAIN xs |-> xs[i] * ys[i]]) - SumOf(xs) * SumOf(ys)

Column(pairs, side) == [i \in DOMAIN pairs |-> pairs[i][side]]

\* correlation() < 0.7; without variance on a side the correlation is taken for 0.
Decorrelated(pairs) ==
  LET local == TwiceRanks(Column(pairs, "local"))
      cloud == TwiceRanks(Column(pairs, "cloud"))
      cov == Covariance(local, cloud)
  IN \/ cov <= 0
     \/ 100 * cov * cov < 49 * Covariance(local, local) * Covariance(cloud, cloud)

ShouldFreeze(pairs) == Len(pairs) >= MinPairs /\ Decorrelated(pairs)

\* record: a deque of maxlen Window.
Recorded(pairs, pair) ==
  LET all == Append(pairs, pair)
  IN IF Len(all) > Window THEN Tail(all) ELSE all

Marginal(champion, challenger) ==
  MeanDelta(champion, challenger) < 2 * MeanScoreDelta
=============================================================================
