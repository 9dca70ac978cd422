-------------------------- MODULE ConfigChallenger --------------------------
(***************************************************************************)
(* Edits of the routing configuration as gated challengers                 *)
(* (mesh/feedback.py), with the evaluation they are gated on: the holdout  *)
(* is sampled and written (mesh/eval/holdout.py), verified and read        *)
(* (mesh/eval/seed_verify.py), dispatched and scored (mesh/eval/runner.py) *)
(* once under the champion's configuration and once under the proposed     *)
(* one, and the same gate decides.  The package has no caller for this     *)
(* sequence; it is the one of the docstrings of feedback.py.               *)
(*                                                                         *)
(* Scores are hundredths of the scorer's 0 to 5; a call is a dispatch and  *)
(* its scoring, and either may fail.                                       *)
(***************************************************************************)
EXTENDS ChampionGate

CONSTANTS
  Corpus,       \* the prompts that holdouts are sampled from
  DomainOf,     \* of a prompt
  Share,        \* target_distribution times the size, for each domain
  Configs,      \* [fallbacks, weight], the weight in tenths
  Defaults,     \* the configuration of a router without a champion
  ScoreFor,     \* what a prompt scores under a configuration, when no call fails
  EvalJudges,   \* the judges that passes use
  NoConfig,
  MaxSamples,   \* bound: holdouts written after the first
  MaxWithdrawn  \* bound: rollbacks

ASSUME ConfigAssumption ==
  /\ Corpus # {} /\ IsFiniteSet(Corpus)
  /\ DomainOf \in [Corpus -> Domains] /\ Share \in [Domains -> Nat]
  /\ Defaults \in Configs /\ NoConfig \notin Configs
  /\ \A c \in Configs : /\ c.fallbacks \in BOOLEAN /\ c.weight \in 0..10
                        /\ [c EXCEPT !.fallbacks = TRUE] \in Configs
                        /\ c.weight > 0 => [c EXCEPT !.weight = @ - 1] \in Configs
  /\ ScoreFor \in [Configs -> [Corpus -> Nat]]
  /\ EvalJudges \subseteq Judges

VARIABLES
  holdout, manifest,      \* the holdout file, and the holdout whose hash the manifest holds
  stage,                  \* where the caller's sequence is
  base, proposed,         \* the configurations it evaluates
  baseRow, proposedRow,   \* and their evaluation rows
  configChampion, configPrevious,
  samples, withdrawn

files == <<holdout, manifest>>
cycle == <<stage, base, proposed, baseRow, proposedRow>>
pointers == <<configChampion, configPrevious>>
configVars == <<files, cycle, pointers, samples, withdrawn>>

InDomain(prompts, d) == {p \in prompts : DomainOf[p] = d}

\* sample_holdout: of each domain its share, or what there is.
Samples ==
  {s \in SUBSET Corpus :
     \A d \in Domains :
       LET available == Cardinality(InDomain(Corpus, d))
       IN Cardinality(InDomain(s, d)) = IF Share[d] < available THEN Share[d] ELSE available}

-----------------------------------------------------------------------------
(* run_eval_pass over a holdout, with the calls that failed.               *)

CallScore(config, failed, p) == IF p \in failed THEN 0 ELSE ScoreFor[config][p]
Scores(config, failed, prompts) ==
  [i \in 1..Cardinality(prompts) |-> CallScore(config, failed, SetToSeq(prompts)[i])]
Mean(config, failed, prompts) ==
  IF prompts = {} THEN 0
  ELSE SumOf(Scores(config, failed, prompts)) \div Cardinality(prompts)

RowOver(config, failed, judge, prompts, on) ==
  [mean |-> Mean(config, failed, prompts),
   domains |-> [d \in {DomainOf[p] : p \in prompts} |-> Mean(config, failed, InDomain(prompts, d))],
   judge |-> judge, n |-> Cardinality(prompts), stub |-> FALSE,
   failing |-> Cardinality({p \in prompts : CallScore(config, failed, p) < 100}),
   failed |-> failed, on |-> on]

\* Mutant: a call that failed does not count.
EvalRowWithoutFailed(config, failed, judge, prompts) ==
  RowOver(config, failed, judge, IF prompts = failed THEN prompts ELSE prompts \ failed, prompts)

\* A call that failed scores nothing and counts.
EvalRow(config, failed, judge, prompts) == RowOver(config, failed, judge, prompts, prompts)

NoRow == [n |-> 0]

-----------------------------------------------------------------------------
(* propose_config_edit: at most one edit, or none.                         *)

\* Of the calls that failed, dropped are those that were not dispatched.
WithoutFallbacks(config, dropped) == dropped # {} /\ ~config.fallbacks
LatencyBound(row) == 10 * row.failing >= row.n /\ row.mean >= 350

Edits(config, row, dropped) ==
  IF WithoutFallbacks(config, dropped) THEN {[config EXCEPT !.fallbacks = TRUE]}
  ELSE IF LatencyBound(row) /\ config.weight > 0 THEN {[config EXCEPT !.weight = @ - 1]}
  ELSE {}

Active == IF configChampion = NoConfig THEN Defaults ELSE configChampion

ConfigInit ==
  /\ holdout \in Samples /\ manifest = holdout
  /\ stage = "idle" /\ base = NoConfig /\ proposed = NoConfig
  /\ baseRow = NoRow /\ proposedRow = NoRow
  /\ configChampion = NoConfig /\ configPrevious = NoConfig
  /\ samples = 0 /\ withdrawn = 0

-----------------------------------------------------------------------------

\* write_holdout, and then the manifest.
WriteHoldout ==
  /\ samples < MaxSamples
  /\ holdout' \in Samples \ {holdout}
  /\ samples' = samples + 1
  /\ UNCHANGED <<manifest, cycle, pointers, withdrawn>>

WriteManifest ==
  /\ manifest # holdout
  /\ manifest' = holdout
  /\ UNCHANGED <<holdout, cycle, pointers, samples, withdrawn>>

BeginCycle ==
  /\ stage = "idle"
  /\ base' = Active
  /\ stage' = "base"
  /\ UNCHANGED <<files, proposed, baseRow, proposedRow, pointers, samples, withdrawn>>

ToIdle ==
  /\ stage' = "idle"
  /\ base' = NoConfig /\ proposed' = NoConfig /\ baseRow' = NoRow /\ proposedRow' = NoRow

\* load_verified_holdout hashes the file; on a mismatch the pass does not begin.
Verify ==
  /\ stage \in {"base", "proposed"}
  /\ manifest = holdout
  /\ stage' = IF stage = "base" THEN "base verified" ELSE "proposed verified"
  /\ UNCHANGED <<files, base, proposed, baseRow, proposedRow, pointers, samples, withdrawn>>

\* It reads the file once more, and that is what is evaluated.
EvaluateBase ==
  /\ stage = "base verified"
  /\ \E failed \in SUBSET holdout, judge \in EvalJudges : \E dropped \in SUBSET failed :
       LET row == EvalRow(base, failed, judge, holdout)
       IN \/ Edits(base, row, dropped) = {} /\ ToIdle
          \/ /\ proposed' \in Edits(base, row, dropped)
             /\ baseRow' = row
             /\ stage' = "proposed"
             /\ UNCHANGED <<base, proposedRow>>
  /\ UNCHANGED <<files, pointers, samples, withdrawn>>

EvaluateProposed ==
  /\ stage = "proposed verified"
  /\ \E failed \in SUBSET holdout, judge \in EvalJudges :
       proposedRow' = EvalRow(proposed, failed, judge, holdout)
  /\ stage' = "gate"
  /\ UNCHANGED <<files, base, proposed, baseRow, pointers, samples, withdrawn>>

\* promote_if_accepted: a rejected proposal is never applied.
Reject ==
  /\ stage = "gate" /\ ~Accepts(baseRow, proposedRow)
  /\ ToIdle
  /\ UNCHANGED <<files, pointers, samples, withdrawn>>

KeepPrevious ==
  /\ stage = "gate" /\ Accepts(baseRow, proposedRow)
  /\ configPrevious' = configChampion
  /\ stage' = "kept"
  /\ UNCHANGED <<files, base, proposed, baseRow, proposedRow, configChampion, samples, withdrawn>>

ReplaceChampion ==
  /\ stage = "kept"
  /\ configChampion' = proposed
  /\ ToIdle
  /\ UNCHANGED <<files, configPrevious, samples, withdrawn>>

\* rollback, by whoever asks for it.
Withdraw ==
  /\ withdrawn < MaxWithdrawn
  /\ configChampion # NoConfig
  /\ configChampion' = configPrevious /\ configPrevious' = NoConfig
  /\ withdrawn' = withdrawn + 1
  /\ UNCHANGED <<files, cycle, samples>>

\* The caller is ended and starts over.
Abandon == stage # "idle" /\ ToIdle /\ UNCHANGED <<files, pointers, samples, withdrawn>>

ConfigNext ==
  \/ WriteHoldout \/ WriteManifest
  \/ BeginCycle \/ Verify \/ EvaluateBase \/ EvaluateProposed
  \/ Reject \/ KeepPrevious \/ ReplaceChampion
  \/ Withdraw \/ Abandon

-----------------------------------------------------------------------------

TrueGain(prompts) == Mean(proposed, {}, prompts) - Mean(base, {}, prompts)

(* A configuration that becomes champion was accepted against the one it   *)
(* edits and is better by the required gain when nothing fails: unless the *)
(* pass of the incumbent had failing calls, or the holdout was changed     *)
(* between the passes, of which the gate asks neither.  A failing call of  *)
(* the challenger's own never helps it.                                    *)
ConfigEarned ==
  [][configChampion' \notin {configChampion, configPrevious, NoConfig} =>
       /\ configChampion' = proposed
       /\ baseRow.failed = {} /\ baseRow.on = proposedRow.on =>
            TrueGain(baseRow.on) >= MeanScoreDelta
    ]_configVars
=============================================================================
