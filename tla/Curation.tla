------------------------------ MODULE Curation ------------------------------
(***************************************************************************)
(* The curation of an ignited cluster (mesh/curation.py): its hardest real *)
(* rows become the frozen exam, the others the training pool, and thin     *)
(* bands of the pool are filled with synthetic rows.                       *)
(*                                                                         *)
(* A row's score is what the difficulty scorer says of it; its embedding   *)
(* stands at a distance from the cluster's centroid.  Rows with the same   *)
(* prompt fingerprint share a prompt; key is the hash of the whole row.    *)
(* Parts of a batch are sets of places in it.                              *)
(***************************************************************************)
EXTENDS Lists, SequencesExt

CONSTANTS
  Batches,         \* the lists of rows that are curated
  Generations,     \* what the generator may return for a band: lists of prompts
  NotFinite,       \* a score that is none
  NoEmbedding,
  Distance,        \* of an embedding from the centroid
  NearDuplicates,  \* pairs of embeddings, if near_dup_cosine is set
  HoldoutPercent, MinHoldout, MaxHoldout, MinTrain,
  NBands

ASSUME CurationAssumption ==
  /\ NearDuplicates \subseteq (DOMAIN Distance) \X (DOMAIN Distance)
  /\ HoldoutPercent \in 0..100
  /\ MinHoldout \in Nat /\ MaxHoldout \in Nat /\ MinTrain \in Nat
  /\ NBands \in Nat \ {0}
  /\ \A rows \in Batches :
       /\ rows \in Seq(ToSet(rows))
       /\ \A row \in ToSet(rows) :
            /\ row.score \in Int \cup {NotFinite} /\ row.prompt \in Int /\ row.key \in Int
            /\ row.synthetic \in BOOLEAN
            /\ \A other \in ToSet(rows) : row.key = other.key => row = other

VARIABLES batch, curated
curationVars == <<batch, curated>>

Refused == [exam |-> {}, train |-> {}, synthetic |-> {}, done |-> FALSE]

\* A score that is not a number counts as neutral: 5 of 10.
ScoreOf(row) == IF row.score = NotFinite THEN 5 ELSE row.score

Harder(a, b) ==
  \/ ScoreOf(a) > ScoreOf(b)
  \/ ScoreOf(a) = ScoreOf(b) /\ a.prompt < b.prompt
  \/ ScoreOf(a) = ScoreOf(b) /\ a.prompt = b.prompt /\ a.key < b.key

\* Pairs of places, the harder row first; rows that differ in nothing stay as they come.
RankByDifficulty(rows) ==
  {p \in (DOMAIN rows) \X (DOMAIN rows) :
     \/ Harder(rows[p[1]], rows[p[2]])
     \/ ~Harder(rows[p[2]], rows[p[1]]) /\ p[1] < p[2]}

PromptsIn(rows, places) == {rows[i].prompt : i \in places}
RealRows(rows) == {i \in DOMAIN rows : ~rows[i].synthetic}

\* round(), halves to the even side.
Rounded(percent, n) ==
  LET floor == (percent * n) \div 100
      over == (percent * n) % 100
  IN IF over > 50 \/ (over = 50 /\ floor % 2 = 1) THEN floor + 1 ELSE floor

AtLeast(a, b) == IF a > b THEN a ELSE b
AtMost(a, b) == IF a < b THEN a ELSE b

Target(rows) ==
  AtMost(AtLeast(Rounded(HoldoutPercent, Cardinality(RealRows(rows))), MinHoldout), MaxHoldout)

\* A real row whose prompt a harder one has is no entrant.
Entrants(rows) ==
  {i \in RealRows(rows) :
     \A j \in RealRows(rows) :
       <<j, i>> \in RankByDifficulty(rows) => rows[j].prompt # rows[i].prompt}

\* The walk, hardest first, until the exam is full.
Exam(rows) ==
  LET walked == Sorted(Entrants(rows), RankByDifficulty(rows))
  IN {walked[k] : k \in 1..AtMost(Target(rows), Cardinality(Entrants(rows)))}

NearDuplicate(row, exams) == \E e \in exams : <<row.emb, e.emb>> \in NearDuplicates

RowsAt(rows, places) == {rows[i] : i \in places}

\* Mutant: only the exam and its near duplicates are kept out of the pool.
TrainWithExamPrompts(rows, exam) ==
  {i \in (DOMAIN rows) \ exam : ~NearDuplicate(rows[i], RowsAt(rows, exam))}

\* Whatever shares a prompt with the exam is dropped, in the walk or after it.
Train(rows, exam) ==
  {i \in DOMAIN rows :
     /\ rows[i].prompt \notin PromptsIn(rows, exam)
     /\ ~NearDuplicate(rows[i], RowsAt(rows, exam))}

\* split_hard_holdout, or Refused where it raises.
Split(rows) ==
  LET exam == Exam(rows)
      train == Train(rows, exam)
  IN IF \/ MaxHoldout < MinHoldout
        \/ Cardinality(RealRows(rows)) < MinHoldout + MinTrain
        \/ Cardinality(train) < MinTrain
       THEN Refused
       ELSE [exam |-> exam, train |-> train, synthetic |-> {}, done |-> TRUE]

-----------------------------------------------------------------------------

\* coverage_bands: equal widths of distance; rows without an embedding count to the first.
CoverageBands(rows, train) ==
  LET embedded == {i \in train : rows[i].emb # NoEmbedding}
      distances == {Distance[rows[i].emb] : i \in embedded}
      lo == CHOOSE d \in distances : \A e \in distances : d <= e
      hi == CHOOSE d \in distances : \A e \in distances : d >= e
      BandOf(i) == IF i \notin embedded THEN 1
                   ELSE AtMost(((Distance[rows[i].emb] - lo) * NBands) \div (hi - lo) + 1, NBands)
  IN IF distances = {} THEN <<train>>
     ELSE IF lo = hi THEN <<train>>
     ELSE [k \in 1..NBands |-> {i \in train : BandOf(i) = k}]

MedianOf(bands) ==
  LET counts == SortSeq([k \in DOMAIN bands |-> Cardinality(bands[k])], LAMBDA a, b : a < b)
  IN counts[Len(counts) \div 2 + 1]

MaxSyntheticPerBand == 200

\* Of what the generator returns for a band, which is nothing if it raises, no more than
\* was asked for.
Asked(bands, generated) ==
  LET Wanted(k) == AtMost(MedianOf(bands) - Cardinality(bands[k]), MaxSyntheticPerBand)
      Returned(k) == SubSeq(generated[k], 1, AtMost(Wanted(k), Len(generated[k])))
  IN UNION {ToSet(Returned(k)) : k \in {b \in DOMAIN bands : Wanted(b) > 0}}

\* fill_gaps: the prompts that neither the exam nor the pool has, each once.
FillGaps(rows, split, generated) ==
  Asked(CoverageBands(rows, split.train), generated) \ PromptsIn(rows, split.exam \cup split.train)

CurationInit == batch = <<>> /\ curated = Refused

\* curate_cluster
Curate ==
  /\ batch = <<>>
  /\ batch' \in Batches
  /\ LET split == Split(batch')
     IN IF ~split.done THEN curated' = Refused
        ELSE \E generated \in [1..NBands -> Generations] :
               curated' = [split EXCEPT !.synthetic = FillGaps(batch', split, generated)]

CurationNext == Curate

CurationSpec == CurationInit /\ [][CurationNext]_curationVars

-----------------------------------------------------------------------------

(* The exam holds real rows of different prompts, none of which is trained *)
(* on, as it is or made up; it is no smaller than the minimum unless every *)
(* real prompt is in it; no row that is trained on and could have been in  *)
(* it is harder than one that is; and the order of the batch makes no      *)
(* difference to it.                                                       *)
ExamSound ==
  curated.done =>
    LET exam == curated.exam
        real == RealRows(batch)
        mirror == Reverse(batch)
    IN /\ exam \subseteq real
       /\ Cardinality(PromptsIn(batch, exam)) = Cardinality(exam)
       /\ PromptsIn(batch, exam) \cap (PromptsIn(batch, curated.train) \cup curated.synthetic) = {}
       /\ Cardinality(exam) >= MinHoldout \/ PromptsIn(batch, exam) = PromptsIn(batch, real)
       /\ \A e \in exam, t \in curated.train \cap real : ~Harder(batch[t], batch[e])
       /\ RowsAt(mirror, Split(mirror).exam) = RowsAt(batch, exam)
=============================================================================
