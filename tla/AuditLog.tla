------------------------------ MODULE AuditLog ------------------------------
(***************************************************************************)
(* The audit recorder of the tuning package (mesh/audit.py): threads of    *)
(* one process append verdicts to a log of rows, each chained by a hash to *)
(* the one before it, and tee them to a sink afterwards.                   *)
(*                                                                         *)
(* A hash stands for everything it is computed from: the rows up to its    *)
(* own, as a sequence of their contents.                                   *)
(***************************************************************************)
EXTENDS Integers, Sequences, SequencesExt

CONSTANTS
  Threads,    \* concurrent callers of record
  Verdicts,
  Nobody,
  MaxRows,    \* bound: rows ever written
  MaxCrashes  \* bound: ends of the process

ASSUME AuditAssumption == MaxRows \in Nat /\ MaxCrashes \in Nat /\ Nobody \notin Threads

VARIABLES
  lines,     \* the log file: rows, and what is left of a write that failed
  recorder,  \* the seq and the hash the next row gets, or Down
  teeing,    \* the rows that threads have written and not yet teed
  sink,      \* the rows the sink took
  returned,  \* history: rows that record returned
  faulted,   \* history: a write raised, or was cut short
  crashes

auditVars == <<lines, recorder, teeing, sink, returned, faulted, crashes>>

Genesis == <<>>
Down == [seq |-> 0, prev |-> Genesis, up |-> FALSE]
Garbage == [torn |-> TRUE]
Whole(line) == line # Garbage

Row(seq, prev, verdict) == [torn |-> FALSE, seq |-> seq, prev |-> prev, verdict |-> verdict]
Hash(row) == Append(row.prev, <<row.seq, row.verdict>>)

\* Mutant: the sequence goes on at the last row instead of after it.
ResumeAtLast(log) ==
  IF log = <<>> THEN [seq |-> 0, prev |-> Genesis, up |-> TRUE]
  ELSE [seq |-> Last(log).seq, prev |-> Hash(Last(log)), up |-> TRUE]

\* _resume: from the last line.
Resume(log) ==
  IF log = <<>> THEN [seq |-> 0, prev |-> Genesis, up |-> TRUE]
  ELSE [seq |-> Last(log).seq + 1, prev |-> Hash(Last(log)), up |-> TRUE]

AuditInit ==
  /\ lines = <<>>
  /\ recorder = Resume(lines)
  /\ teeing = [t \in Threads |-> Nobody]
  /\ sink = {} /\ returned = {}
  /\ faulted = FALSE
  /\ crashes = 0

\* A line is written behind whatever the file ends with; half a line swallows the next.
Written(log, row) == IF log # <<>> /\ Last(log) = Garbage THEN log ELSE Append(log, row)

HasRows == Len(lines) < MaxRows /\ recorder.seq < MaxRows
NextRow(verdict) == Row(recorder.seq, recorder.prev, verdict)

-----------------------------------------------------------------------------
(* record, under the lock up to the commit of the chain's state.  A row it *)
(* rejects, oversized or of nobody, changes nothing.                       *)

Record(t, verdict) ==
  /\ recorder.up /\ teeing[t] = Nobody /\ HasRows
  /\ lines' = Written(lines, NextRow(verdict))
  /\ recorder' = [recorder EXCEPT !.seq = @ + 1, !.prev = Hash(NextRow(verdict))]
  /\ teeing' = [teeing EXCEPT ![t] = NextRow(verdict)]
  /\ UNCHANGED <<sink, returned, faulted, crashes>>

\* The append raises, having written all of the line, some of it or nothing, and the
\* chain's state stays.
RecordRaises(t, verdict) ==
  /\ recorder.up /\ teeing[t] = Nobody /\ HasRows
  /\ lines' \in {lines, Written(lines, NextRow(verdict)), Written(lines, Garbage)}
  /\ faulted' = TRUE
  /\ UNCHANGED <<recorder, teeing, sink, returned, crashes>>

\* Outside the lock, so in any order; what the sink raises is reported and forgotten.
Tee(t) ==
  /\ teeing[t] # Nobody
  /\ sink' \in {sink, sink \cup {teeing[t]}}
  /\ returned' = returned \cup {teeing[t]}
  /\ teeing' = [teeing EXCEPT ![t] = Nobody]
  /\ UNCHANGED <<lines, recorder, faulted, crashes>>

-----------------------------------------------------------------------------

\* The process ends, perhaps in the middle of a line or right behind it.
Crash ==
  /\ recorder.up /\ crashes < MaxCrashes
  /\ crashes' = crashes + 1
  /\ \/ UNCHANGED <<lines, faulted>>
     \/ /\ Len(lines) < MaxRows
        /\ \E verdict \in Verdicts : lines' = Written(lines, NextRow(verdict))
        /\ UNCHANGED faulted
     \/ lines' = Written(lines, Garbage) /\ faulted' = TRUE
  /\ recorder' = Down
  /\ teeing' = [t \in Threads |-> Nobody]
  /\ UNCHANGED <<sink, returned>>

\* A last line that does not parse keeps the recorder from being constructed.
Reopen ==
  /\ ~recorder.up
  /\ lines # <<>> => Whole(Last(lines))
  /\ recorder' = Resume(lines)
  /\ UNCHANGED <<lines, teeing, sink, returned, faulted, crashes>>

AuditNext ==
  \/ \E t \in Threads :
       \/ \E verdict \in Verdicts : Record(t, verdict) \/ RecordRaises(t, verdict)
       \/ Tee(t)
  \/ Crash
  \/ Reopen

AuditSpec == AuditInit /\ [][AuditNext]_auditVars

-----------------------------------------------------------------------------

\* verify_chain: every row links to the one before it and counts on from it.
VerifyChain(log) ==
  /\ log # <<>>
  /\ \A i \in DOMAIN log :
       /\ Whole(log[i])
       /\ log[i].seq = i - 1
       /\ log[i].prev = IF i = 1 THEN Genesis ELSE Hash(log[i - 1])

(* "restarts keep a continuous seq + hash chain": as long as no append     *)
(* raised and none was cut short, the log verifies, whichever threads      *)
(* record and wherever the process ends, the recorder goes on from its tip,*)
(* and every row that was returned or teed is in it; and a row that is     *)
(* nowhere in the log was never teed, whatever failed, unless half a line  *)
(* swallowed it.                                                           *)
ChainIntact ==
  LET logged == ToSet(lines)
  IN /\ ~faulted =>
          /\ lines # <<>> => VerifyChain(lines)
          /\ returned \subseteq logged
          /\ recorder.up => recorder = Resume(lines)
     /\ Garbage \notin logged => sink \subseteq logged
=============================================================================
