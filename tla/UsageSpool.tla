----------------------------- MODULE UsageSpool -----------------------------
(***************************************************************************)
(* SpoolDrainSink of mesh/usage.py: requests append one line an event to a *)
(* file, and one background task posts the lines at the head of it to a    *)
(* receiver and rewrites the file without the ones it is done with.        *)
(*                                                                         *)
(* The task runs on the router's event loop: between two posts nothing     *)
(* else runs, and at each post the requests do.  A pass therefore is one   *)
(* action up to its first post and one action for each answer.             *)
(***************************************************************************)
EXTENDS Integers, FiniteSets, Sequences, SequencesExt

CONSTANTS
  MaxEvents,    \* bound: events ever emitted, in the order of their numbers
  HardCap,      \* hard_cap_bytes, in events
  BatchMax,     \* batch_max
  MaxFaults,    \* bound: failures of the disk
  MaxRestarts   \* bound: restarts of the router

ASSUME SpoolAssumption ==
  /\ MaxEvents \in Nat
  /\ HardCap \in Nat
  /\ BatchMax \in Nat \ {0}
  /\ MaxFaults \in Nat
  /\ MaxRestarts \in Nat

Events == 1..MaxEvents

\* Where a write stopped short: not at all, between two characters, within one.
Cuts == {"no", "text", "char"}

\* A line of the file: the events whose bytes it holds, how much of the last of them,
\* and whether its newline is missing.
Line == [events : Seq(Events), cut : Cuts, open : BOOLEAN]

VARIABLES
  emitted,   \* how many events requests have emitted
  spool,     \* the lines of the file
  batch,     \* drain_once's snapshot of the head of the file; empty when it sleeps
  at,        \* the line of the batch being posted
  received, refused, damaged,  \* histories: what became of the events
  accepted,  \* history: events written to the file
  faults, restarts

vars ==
  <<emitted, spool, batch, at, received, refused, damaged, accepted, faults, restarts>>

EventsOf(lines) == UNION {Range(l.events) : l \in Range(lines)}

Parses(line) == Len(line.events) = 1 /\ line.cut = "no"

\* json.loads never sees a line when the file is not UTF-8: reading it raises.
Readable == \A l \in Range(spool) : l.cut # "char"

Init ==
  /\ emitted = 0
  /\ spool = <<>>
  /\ batch = <<>>
  /\ at = 0
  /\ received = {} /\ refused = {} /\ damaged = {} /\ accepted = {}
  /\ faults = 0 /\ restarts = 0

-----------------------------------------------------------------------------
(* emit *)

\* Mutant: the newline is not written with the event.
WrittenUnended(lines, e, cut, open) ==
  IF lines # <<>> /\ Last(lines).open
    THEN Append(Front(lines),
                [Last(lines) EXCEPT !.events = Append(@, e),
                                    !.cut = IF @ = "char" THEN "char" ELSE cut])
    ELSE Append(lines, [events |-> <<e>>, cut |-> cut, open |-> open])

\* O_APPEND: the bytes go behind whatever the file ends with.
Written(lines, e, cut, open) ==
  IF lines # <<>> /\ Last(lines).open
    THEN Append(Front(lines),
                [events |-> Append(Last(lines).events, e),
                 cut |-> IF Last(lines).cut = "char" THEN "char" ELSE cut,
                 open |-> open])
    ELSE Append(lines, [events |-> <<e>>, cut |-> cut, open |-> open])

\* Mutant: the new line is not counted.
HasAnyRoom == Cardinality(EventsOf(spool)) <= HardCap

HasRoom == Cardinality(EventsOf(spool)) + 1 <= HardCap

Spool(cut, open) ==
  LET e == emitted + 1
      lines == Written(spool, e, cut, open)
  IN /\ HasRoom
     /\ emitted < MaxEvents
     /\ emitted' = e
     /\ spool' = lines
     /\ accepted' = accepted \cup {e}
     /\ damaged' = damaged \cup (IF Parses(Last(lines)) THEN {} ELSE Range(Last(lines).events))
     /\ UNCHANGED <<batch, at, received, refused, restarts>>

Emit == Spool("no", FALSE) /\ UNCHANGED faults

\* A full disk takes a part of the line; what os.write returns is not looked at.
EmitShort ==
  /\ faults < MaxFaults
  /\ \E cut \in Cuts : Spool(cut, TRUE)
  /\ faults' = faults + 1

\* An event without trustworthy token counts, one longer than a row may be, one whose
\* append raises, and at the hard cap any new event is dropped; never an old one.
EmitDropped ==
  /\ emitted < MaxEvents
  /\ emitted' = emitted + 1
  /\ UNCHANGED <<spool, batch, at, received, refused, damaged, accepted, faults, restarts>>

-----------------------------------------------------------------------------
(* drain_once, as run calls it after each sleep *)

Text(line) == <<line.events, line.cut>>

\* Mutant: the lines are not looked up, the file is emptied.
RemovedAll(lines, consumed) == {<<>>}

\* _remove_lines_locked: what the file may hold then, which is one thing: the lines whose
\* text is not that of a consumed line, in their order.  The rewrite ends every line.
Removed(lines, consumed) ==
  LET texts == {Text(l) : l \in Range(consumed)}
      kept == {i \in DOMAIN lines : Text(lines[i]) \notin texts}
      orders == {o \in [1..Cardinality(kept) -> kept] :
                   Range(o) = kept /\ \A i, j \in DOMAIN o : i < j => o[i] < o[j]}
  IN {[i \in DOMAIN o |-> [lines[o[i]] EXCEPT !.open = FALSE]] : o \in orders}

\* The pass ends: the lines before i leave the file, unless the rewrite fails (reading
\* the file raises, or the disk is full) and the pass has changed nothing.
EndPass(lines, i) ==
  /\ batch' = <<>>
  /\ at' = 0
  /\ \/ /\ i > 1 /\ Readable
        /\ spool' \in Removed(spool, SubSeq(lines, 1, i - 1))
        /\ UNCHANGED faults
     \/ /\ i = 1 \/ ~Readable
        /\ UNCHANGED <<spool, faults>>
     \/ /\ i > 1 /\ Readable
        /\ faults < MaxFaults
        /\ faults' = faults + 1
        /\ UNCHANGED spool

\* Mutant: a corrupt line ends the pass, and the next pass begins with it.
ContinueUnlessCorrupt(lines, i) ==
  IF i > Len(lines) \/ ~Parses(lines[i])
    THEN EndPass(lines, i)
    ELSE batch' = lines /\ at' = i /\ UNCHANGED <<spool, faults>>

\* Go on with the batch at i: skip what does not parse, then post the next line, or end
\* the pass behind the last.
Continue(lines, i) ==
  \E j \in i..(Len(lines) + 1) :
    /\ \A k \in i..(j - 1) : ~Parses(lines[k])
    /\ \/ j > Len(lines) /\ EndPass(lines, j)
       \/ /\ j <= Len(lines)
          /\ Parses(lines[j])
          /\ batch' = lines
          /\ at' = j
          /\ UNCHANGED <<spool, faults>>

StartPass ==
  /\ batch = <<>>
  /\ spool # <<>>
  /\ Readable
  /\ LET head == SubSeq(spool, 1, IF Len(spool) < BatchMax THEN Len(spool) ELSE BatchMax)
     IN Continue(head, 1)
  /\ UNCHANGED <<emitted, received, refused, damaged, accepted, restarts>>

Posting == Head(batch[at].events)

Delivered ==
  /\ batch # <<>>
  /\ received' = received \cup {Posting}
  /\ Continue(batch, at + 1)
  /\ UNCHANGED <<emitted, refused, damaged, accepted, restarts>>

Poisoned ==
  /\ batch # <<>>
  /\ refused' = refused \cup {Posting}
  /\ Continue(batch, at + 1)
  /\ UNCHANGED <<emitted, received, damaged, accepted, restarts>>

\* Mutant: a transient failure does not stop the pass.
AfterTransientGoingOn == Continue(batch, at + 1)

AfterTransient == EndPass(batch, at)

\* A 5xx or a transport error; the receiver may have had the event all the same.
Transient ==
  /\ batch # <<>>
  /\ received' \in {received, received \cup {Posting}}
  /\ AfterTransient
  /\ UNCHANGED <<emitted, refused, damaged, accepted, restarts>>

\* aclose cancels the pass at its post, and a crash ends it anywhere: the next router
\* starts from the file.
Restart ==
  /\ restarts < MaxRestarts
  /\ batch # <<>>
  /\ restarts' = restarts + 1
  /\ batch' = <<>>
  /\ at' = 0
  /\ UNCHANGED <<emitted, spool, received, refused, damaged, accepted, faults>>

-----------------------------------------------------------------------------
Drain == StartPass \/ Delivered \/ Poisoned \/ Transient

Next == Emit \/ EmitShort \/ EmitDropped \/ Drain \/ Restart

\* The task runs on, and a receiver that is asked again and again answers in the end.
Fairness == WF_vars(Drain) /\ SF_vars(Delivered \/ Poisoned)

\* The behaviours without any promise that the task runs.
Safety == Init /\ [][Next]_vars

Spec == Safety /\ Fairness

-----------------------------------------------------------------------------
(* Type correctness; the file stays within its cap and every event in it   *)
(* was accepted.                                                           *)
TypeOK ==
  /\ emitted \in 0..MaxEvents
  /\ spool \in Seq(Line) /\ batch \in Seq(Line)
  /\ at \in 0..Len(batch)
  /\ received \subseteq accepted /\ refused \subseteq accepted /\ damaged \subseteq accepted
  /\ accepted \subseteq 1..emitted
  /\ EventsOf(spool) \subseteq accepted
  /\ Cardinality(EventsOf(spool)) <= HardCap
  /\ \A i \in 1..(Len(spool) - 1) : ~spool[i].open
  /\ faults \in 0..MaxFaults /\ restarts \in 0..MaxRestarts

(* The class promises an "at-least-once local JSONL spool": an accepted    *)
(* event leaves the file only once the receiver has had it or refused it,  *)
(* or its line was damaged, through rewrites that race appends, lost       *)
(* answers, failing rewrites and restarts.                                 *)
Promise == INSTANCE UsageDelivery WITH outstanding <- EventsOf(spool)
AtLeastOnce == Promise!Spec

(* The spool is a FIFO: the receiver does not get an event while it has    *)
(* never had an earlier one, unless that one was refused or damaged.       *)
InOrder ==
  \A e \in received \cup refused :
    \A d \in accepted : d < e => d \in received \cup refused \cup damaged

(* A failing disk costs at most two events a failure: the one whose write  *)
(* stopped short and the one appended to what there is of it.              *)
FaultCostsTwo == Cardinality(damaged) <= 2 * faults

(* Every event in the file leaves it, as long as the file can be decoded.  *)
Drains ==
  \A e \in Events : e \in EventsOf(spool) ~> (e \notin EventsOf(spool) \/ ~Readable)
=============================================================================
