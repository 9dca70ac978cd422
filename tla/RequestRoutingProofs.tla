------------------------ MODULE RequestRoutingProofs ------------------------
(***************************************************************************)
(* Proofs about the router's requests and the circuit breaker they share,  *)
(* for every number of requests, nodes and attempts, every threshold,      *)
(* cooldown and size of the table: the router leaves failing nodes alone,  *)
(* forgets them last, and makes a bounded number of calls for a request.   *)
(***************************************************************************)
EXTENDS RequestRouting, FiniteSetTheorems, SequenceTheorems, TLAPS

-----------------------------------------------------------------------------
(* The circuit breaker (RuntimeHealth): what each method preserves and      *)
(* answers, for every set of bindings, threshold, cooldown and bound.      *)

\* The whole effect of _state_for: `key` is in the table, as it was or new, touched now;
\* every other binding of the table was there before and is as it was.
LEMMA StateForEffect ==
  ASSUME NEW table, NEW key \in Keys, NEW now \in Nat,
         TableType(table), NEW found \in StateFor(table, key, now)
  PROVE  /\ TableType(found)
         /\ key \in DOMAIN found
         /\ key \in DOMAIN table =>
              /\ DOMAIN found = DOMAIN table
              /\ found[key] = Touched(table[key], now)
         /\ key \notin DOMAIN table => found[key] = NewBinding(now)
         /\ \A k \in DOMAIN found \ {key} : k \in DOMAIN table /\ found[k] = table[k]
<1>1. NewBinding(now) \in BindingState
  BY BreakerAssumption DEF NewBinding, BindingState, NoTime
<1>2. CASE key \in DOMAIN table
  <2>1. found = [table EXCEPT ![key] = Touched(@, now)]
    BY <1>2 DEF StateFor
  <2>2. found[key] = Touched(table[key], now)
    BY <1>2, <2>1
  <2>3. found[key] \in BindingState
    BY <1>2, <2>2 DEF TableType, BindingState, Touched
  <2> QED
    BY <1>2, <2>1, <2>2, <2>3 DEF TableType
<1>3. CASE key \notin DOMAIN table
  <2>1. \E kept \in SUBSET DOMAIN table :
          found = [k \in kept \cup {key} |-> IF k = key THEN NewBinding(now) ELSE table[k]]
    <3>1. CASE Cardinality(DOMAIN table) < MaxBindings
      BY <1>3, <3>1 DEF StateFor, Put
    <3>2. CASE ~(Cardinality(DOMAIN table) < MaxBindings)
      <4>1. PICK evicted \in Evictable(table) :
              found = Put(Drop(table, evicted), key, NewBinding(now))
        BY <1>3, <3>2 DEF StateFor
      <4>2. found = [k \in (DOMAIN table \ {evicted}) \cup {key} |->
                       IF k = key THEN NewBinding(now) ELSE table[k]]
        BY <4>1, <1>3 DEF Put, Drop
      <4> QED
        BY <4>2
    <3> QED
      BY <3>1, <3>2
  <2>2. PICK kept \in SUBSET DOMAIN table :
          found = [k \in kept \cup {key} |-> IF k = key THEN NewBinding(now) ELSE table[k]]
    BY <2>1
  <2> QED
    BY <1>1, <1>3, <2>2 DEF TableType
<1> QED
  BY <1>2, <1>3

\* Looking a binding up never outgrows the bound: a full table gives one binding up
\* for the new one.
LEMMA StateForBounded ==
  ASSUME NEW table, NEW key \in Keys, NEW now \in Nat,
         TableWithinBound(table), NEW found \in StateFor(table, key, now)
  PROVE  TableWithinBound(found)
<1> USE DEF TableWithinBound
<1>1. CASE key \in DOMAIN table
  BY <1>1 DEF StateFor
<1>2. CASE key \notin DOMAIN table /\ Cardinality(DOMAIN table) < MaxBindings
  <2>1. DOMAIN found = DOMAIN table \cup {key}
    BY <1>2 DEF StateFor, Put
  <2>2. Cardinality(DOMAIN table) \in Nat
    BY FS_CardinalityType
  <2>3. /\ IsFiniteSet(DOMAIN found)
        /\ Cardinality(DOMAIN found) = Cardinality(DOMAIN table) + 1
    BY <1>2, <2>1, FS_AddElement
  <2> QED
    BY <1>2, <2>2, <2>3, BreakerAssumption
<1>3. CASE key \notin DOMAIN table /\ ~(Cardinality(DOMAIN table) < MaxBindings)
  <2>1. PICK evicted \in Evictable(table) :
          found = Put(Drop(table, evicted), key, NewBinding(now))
    BY <1>3 DEF StateFor
  <2>2. evicted \in DOMAIN table
    BY DEF Evictable
  <2>3. DOMAIN found = (DOMAIN table \ {evicted}) \cup {key}
    BY <2>1 DEF Put, Drop
  <2>4. Cardinality(DOMAIN table) \in Nat
    BY FS_CardinalityType
  <2>5. /\ IsFiniteSet(DOMAIN table \ {evicted})
        /\ Cardinality(DOMAIN table \ {evicted}) = Cardinality(DOMAIN table) - 1
    BY <2>2, FS_RemoveElement
  <2>6. /\ IsFiniteSet(DOMAIN found)
        /\ Cardinality(DOMAIN found) = Cardinality(DOMAIN table \ {evicted}) + 1
    BY <1>3, <2>3, <2>5, FS_AddElement
  <2> QED
    BY <2>4, <2>5, <2>6, BreakerAssumption
<1> QED
  BY <1>1, <1>2, <1>3

\* Which binding is given up: one whose circuit is not closed only if no circuit in the
\* table is closed.  A node that is known to fail is forgotten last.
THEOREM FailingNodeForgottenLast ==
  ASSUME NEW table, NEW key \in Keys, NEW now \in Nat,
         NEW found \in StateFor(table, key, now),
         NEW lost \in DOMAIN table \ DOMAIN found, table[lost].state # "closed"
  PROVE  \A k \in DOMAIN table : table[k].state # "closed"
<1>1. key \notin DOMAIN table /\ ~(Cardinality(DOMAIN table) < MaxBindings)
  BY DEF StateFor, Put
<1>2. PICK evicted \in Evictable(table) :
        found = Put(Drop(table, evicted), key, NewBinding(now))
  BY <1>1 DEF StateFor
<1>3. lost = evicted
  BY <1>2 DEF Put, Drop
<1> QED
  BY <1>2, <1>3 DEF Evictable

-----------------------------------------------------------------------------
(* is_routable, record_success and record_failure: the whole effect of     *)
(* each, and that each entry stays justified.                              *)

\* The entry of `key` after _state_for: justified if the table was.
LEMMA FoundJustified ==
  ASSUME NEW table, NEW key \in Keys, NEW now \in Nat,
         TableType(table), TableJustified(table, now),
         NEW found \in StateFor(table, key, now)
  PROVE  TableJustified(found, now)
<1>1. EntryJustified(NewBinding(now), now)
  BY BreakerAssumption DEF EntryJustified, NewBinding, NoTime
<1>2. ASSUME key \in DOMAIN table PROVE EntryJustified(found[key], now)
  <2>1. found[key] = Touched(table[key], now)
    BY <1>2, StateForEffect
  <2>2. table[key] \in BindingState /\ EntryJustified(table[key], now)
    BY <1>2 DEF TableType, TableJustified
  <2> QED
    BY <2>1, <2>2 DEF EntryJustified, BindingState, Touched
<1>3. EntryJustified(found[key], now)
  BY <1>1, <1>2, StateForEffect
<1>4. ASSUME NEW k \in DOMAIN found, k # key
      PROVE  EntryJustified(found[k], now)
  <2>1. k \in DOMAIN table /\ found[k] = table[k]
    BY <1>4, StateForEffect
  <2> QED
    BY <2>1 DEF TableJustified
<1> QED
  BY <1>3, <1>4 DEF TableJustified

Rewrite(found, key, entry) == [found EXCEPT ![key] = entry]

\* A method that rewrites the entry of `key` to a well-formed, justified one after
\* looking it up keeps the table well-formed, justified and within its bound.
LEMMA RewriteKeeps ==
  ASSUME NEW table, NEW key \in Keys, NEW now \in Nat,
         TableType(table), TableJustified(table, now), TableWithinBound(table),
         NEW found \in StateFor(table, key, now),
         NEW entry \in BindingState, EntryJustified(entry, now),
         NEW after, after = Rewrite(found, key, entry)
  PROVE  /\ TableType(after)
         /\ TableJustified(after, now)
         /\ TableWithinBound(after)
         /\ key \in DOMAIN after
         /\ after[key] = entry
         /\ DOMAIN after = DOMAIN found
         /\ \A k \in DOMAIN after \ {key} : k \in DOMAIN table /\ after[k] = table[k]
<1>1. TableType(found) /\ key \in DOMAIN found
  BY StateForEffect
<1>2. /\ DOMAIN after = DOMAIN found
      /\ after[key] = entry
      /\ \A k \in DOMAIN after \ {key} : after[k] = found[k]
  BY <1>1 DEF Rewrite
<1>3. TableType(after)
  <2>1. after = [k \in DOMAIN found |-> IF k = key THEN entry ELSE found[k]]
    BY <1>1 DEF TableType, Rewrite
  <2>2. DOMAIN found \subseteq Keys /\ \A k \in DOMAIN found : found[k] \in BindingState
    BY <1>1 DEF TableType
  <2> QED
    BY <2>1, <2>2 DEF TableType
<1>4. TableJustified(after, now)
  BY <1>2, FoundJustified DEF TableJustified
<1>5. TableWithinBound(after)
  BY <1>2, StateForBounded DEF TableWithinBound
<1> QED
  BY <1>1, <1>2, <1>3, <1>4, <1>5, StateForEffect

\* is_routable keeps the table sound.  The entry it leaves for the binding has the
\* failures and opening time the binding had (none if it is new), is half-open exactly
\* if it was so or the call reserved the probe, and is closed exactly if it was closed.
LEMMA IsRoutableKeeps ==
  ASSUME NEW table, NEW key \in Keys, NEW now \in Nat,
         TableType(table), TableJustified(table, now), TableWithinBound(table),
         NEW after \in AfterIsRoutable(table, key, now)
  PROVE  /\ TableType(after) /\ TableJustified(after, now) /\ TableWithinBound(after)
         /\ key \in DOMAIN after
         /\ \A k \in DOMAIN after \ {key} : k \in DOMAIN table /\ after[k] = table[k]
         /\ key \in DOMAIN table =>
              /\ after[key].consecutive_failures = table[key].consecutive_failures
              /\ after[key].opened_at = table[key].opened_at
              /\ after[key].state =
                   IF table[key].state = "open" /\ Routable(table, key, now)
                     THEN "half_open" ELSE table[key].state
         /\ key \notin DOMAIN table => after[key] = NewBinding(now)
<1>1. PICK found \in StateFor(table, key, now) :
        after = [found EXCEPT ![key].state =
                   IF @ = "open" /\ Routable(found, key, now) THEN "half_open" ELSE @]
  BY DEF AfterIsRoutable
<1> DEFINE probed == found[key].state = "open" /\ Routable(found, key, now)
           entry == [found[key] EXCEPT !.state = IF probed THEN "half_open" ELSE @]
<1>2. /\ TableType(found) /\ key \in DOMAIN found
      /\ key \in DOMAIN table => found[key] = Touched(table[key], now)
      /\ key \notin DOMAIN table => found[key] = NewBinding(now)
  BY StateForEffect
<1>3. found[key] \in BindingState /\ EntryJustified(found[key], now)
  BY <1>2, FoundJustified DEF TableType, TableJustified
<1>4. entry \in BindingState /\ EntryJustified(entry, now)
  BY <1>3 DEF EntryJustified, BindingState
<1>5. after = Rewrite(found, key, entry)
  BY <1>1, <1>2 DEF TableType, Rewrite
<1> HIDE DEF entry
<1>6. /\ TableType(after) /\ TableJustified(after, now) /\ TableWithinBound(after)
      /\ key \in DOMAIN after /\ after[key] = entry
      /\ \A k \in DOMAIN after \ {key} : k \in DOMAIN table /\ after[k] = table[k]
  BY <1>4, <1>5, RewriteKeeps
<1>7. ASSUME key \in DOMAIN table
      PROVE  /\ entry.consecutive_failures = table[key].consecutive_failures
             /\ entry.opened_at = table[key].opened_at
             /\ entry.state = IF table[key].state = "open" /\ Routable(table, key, now)
                                THEN "half_open" ELSE table[key].state
  <2>1. table[key] \in BindingState
    BY <1>7 DEF TableType
  <2>2. Routable(found, key, now) <=> Routable(table, key, now)
    BY <1>2, <1>7, <2>1 DEF Routable, CooledDown, BindingState, Touched
  <2> QED
    BY <1>2, <1>7, <2>1, <2>2 DEF entry, BindingState, Touched
<1>8. ASSUME key \notin DOMAIN table PROVE entry = NewBinding(now)
  BY <1>2, <1>8 DEF entry, NewBinding
<1> QED
  BY <1>6, <1>7, <1>8

\* record_success keeps the table sound and leaves the circuit closed without failures.
LEMMA SuccessKeeps ==
  ASSUME NEW table, NEW key \in Keys, NEW now \in Nat,
         TableType(table), TableJustified(table, now), TableWithinBound(table),
         NEW after \in AfterSuccess(table, key, now)
  PROVE  /\ TableType(after) /\ TableJustified(after, now) /\ TableWithinBound(after)
         /\ key \in DOMAIN after
         /\ \A k \in DOMAIN after \ {key} : k \in DOMAIN table /\ after[k] = table[k]
         /\ after[key].state = "closed" /\ after[key].consecutive_failures = 0
<1>1. PICK found \in StateFor(table, key, now) :
        after = [found EXCEPT ![key] = SuccessOn(@)]
  BY DEF AfterSuccess
<1> DEFINE entry == SuccessOn(found[key])
<1>2. TableType(found) /\ key \in DOMAIN found
  BY StateForEffect
<1>3. found[key] \in BindingState /\ EntryJustified(found[key], now)
  BY <1>2, FoundJustified DEF TableType, TableJustified
<1>4. /\ entry \in BindingState /\ EntryJustified(entry, now)
      /\ entry.state = "closed" /\ entry.consecutive_failures = 0
  BY <1>3, BreakerAssumption
     DEF SuccessOn, NewBinding, EntryJustified, BindingState, NoTime
<1>5. after = Rewrite(found, key, entry)
  BY <1>1, <1>2 DEF TableType, Rewrite
<1> HIDE DEF entry
<1> QED
  BY <1>4, <1>5, RewriteKeeps

\* What a failure makes of one justified entry.
LEMMA FailureOnEntry ==
  ASSUME NEW entry \in BindingState, NEW now \in Nat, EntryJustified(entry, now)
  PROVE  /\ FailureOn(entry, now) \in BindingState
         /\ EntryJustified(FailureOn(entry, now), now)
         /\ FailureOn(entry, now).consecutive_failures = entry.consecutive_failures + 1
         /\ \/ FailureOn(entry, now).state = "closed"
            \/ /\ FailureOn(entry, now).state = "open"
               /\ FailureOn(entry, now).opened_at = now
<1> DEFINE failures == entry.consecutive_failures + 1
           after == FailureOn(entry, now)
<1>1. /\ entry.state \in {"closed", "open", "half_open"}
      /\ entry.consecutive_failures \in Nat
      /\ entry.opened_at \in Nat \cup {NoTime}
      /\ entry.last_touched \in Nat
  BY DEF BindingState
<1>2. CASE entry.state = "half_open" \/ failures >= FailureThreshold
  <2>1. after = [state |-> "open", consecutive_failures |-> failures,
                 opened_at |-> now, last_touched |-> entry.last_touched]
    BY <1>2 DEF FailureOn, BindingState
  <2>2. /\ after.state = "open" /\ after.consecutive_failures = failures
        /\ after.opened_at = now /\ after.last_touched = entry.last_touched
        /\ after \in BindingState
    BY <1>1, <2>1 DEF BindingState
  <2>3. failures >= FailureThreshold
    BY <1>1, <1>2, BreakerAssumption DEF EntryJustified
  <2> QED
    BY <1>1, <2>2, <2>3, BreakerAssumption DEF EntryJustified, NoTime
<1>3. CASE ~(entry.state = "half_open" \/ failures >= FailureThreshold)
  <2>1. after = [state |-> entry.state, consecutive_failures |-> failures,
                 opened_at |-> entry.opened_at, last_touched |-> entry.last_touched]
    BY <1>3 DEF FailureOn, BindingState
  <2>2. /\ after.state = entry.state /\ after.consecutive_failures = failures
        /\ after.opened_at = entry.opened_at /\ after.last_touched = entry.last_touched
        /\ after \in BindingState
    BY <1>1, <2>1 DEF BindingState
  <2>3. entry.state = "closed"
    BY <1>1, <1>3, BreakerAssumption DEF EntryJustified
  <2> QED
    BY <1>1, <1>3, <2>2, <2>3, BreakerAssumption DEF EntryJustified
<1> QED
  BY <1>2, <1>3

\* record_failure keeps the table sound, counts one failure more, and opens the circuit
\* now or leaves it closed.
LEMMA FailureKeeps ==
  ASSUME NEW table, NEW key \in Keys, NEW now \in Nat,
         TableType(table), TableJustified(table, now), TableWithinBound(table),
         NEW after \in AfterFailure(table, key, now)
  PROVE  /\ TableType(after) /\ TableJustified(after, now) /\ TableWithinBound(after)
         /\ key \in DOMAIN after
         /\ \A k \in DOMAIN after \ {key} : k \in DOMAIN table /\ after[k] = table[k]
         /\ key \in DOMAIN table =>
              after[key].consecutive_failures = table[key].consecutive_failures + 1
         /\ key \notin DOMAIN table => after[key].consecutive_failures = 1
         /\ \/ after[key].state = "closed"
            \/ after[key].state = "open" /\ after[key].opened_at = now
<1>1. PICK found \in StateFor(table, key, now) :
        after = [found EXCEPT ![key] = FailureOn(@, now)]
  BY DEF AfterFailure
<1> DEFINE entry == FailureOn(found[key], now)
<1>2. /\ TableType(found) /\ key \in DOMAIN found
      /\ key \in DOMAIN table => found[key] = Touched(table[key], now)
      /\ key \notin DOMAIN table => found[key] = NewBinding(now)
  BY StateForEffect
<1>3. found[key] \in BindingState /\ EntryJustified(found[key], now)
  BY <1>2, FoundJustified DEF TableType, TableJustified
<1>4. /\ entry \in BindingState
      /\ EntryJustified(entry, now)
      /\ entry.consecutive_failures = found[key].consecutive_failures + 1
      /\ entry.state = "closed" \/ (entry.state = "open" /\ entry.opened_at = now)
  BY <1>3, FailureOnEntry
<1>5. after = Rewrite(found, key, entry)
  BY <1>1, <1>2 DEF TableType, Rewrite
<1>6. /\ key \in DOMAIN table =>
           found[key].consecutive_failures = table[key].consecutive_failures
      /\ key \notin DOMAIN table => found[key].consecutive_failures = 0
  <2>1. key \in DOMAIN table => table[key] \in BindingState
    BY DEF TableType
  <2> QED
    BY <1>2, <2>1 DEF NewBinding, BindingState, Touched
<1> HIDE DEF entry
<1> QED
  BY <1>4, <1>5, <1>6, RewriteKeeps

-----------------------------------------------------------------------------
(* Types of the pieces of a step.                                          *)

LEMMA ChainTyped ==
  ASSUME NEW state \in RequestState, NEW chain \in Seq(Keys)
  PROVE  [state EXCEPT !.chain = chain] \in RequestState
BY DEF RequestState

LEMMA FinishTyped ==
  ASSUME NEW state \in RequestState, NEW answer \in Answers
  PROVE  /\ Finish(state, answer) \in RequestState
         /\ Finish(state, answer).pc = "done"
         /\ Finish(state, answer).attempts = state.attempts
<1> DEFINE s1 == [state EXCEPT !.pc = "done", !.answer = answer, !.discovered = {}]
           s2 == [s1 EXCEPT !.ready = {}]
           s3 == [s2 EXCEPT !.chain = <<>>]
           s4 == [s3 EXCEPT !.node = NoKey, !.probing = FALSE]
<1>1. Finish(state, answer) = s4
  BY DEF Finish
<1>2. s1 \in RequestState
  BY DEF RequestState
<1> HIDE DEF s1
<1>3. s2 \in RequestState
  BY <1>2 DEF RequestState
<1> HIDE DEF s2
<1>4. s3 \in RequestState
  <2>1. <<>> \in Seq(Keys)
    OBVIOUS
  <2> QED
    BY <1>3, <2>1, ChainTyped
<1> HIDE DEF s3
<1>5. s4 \in RequestState
  BY <1>4 DEF RequestState
<1>6. Finish(state, answer).pc = "done" /\ Finish(state, answer).attempts = state.attempts
  BY DEF Finish, RequestState
<1> QED
  BY <1>1, <1>5, <1>6

LEMMA CalledTyped ==
  ASSUME NEW state \in RequestState, NEW node \in Keys, NEW rest \in Seq(Keys),
         NEW probing \in BOOLEAN
  PROVE  /\ Called(state, node, rest, probing) \in RequestState
         /\ Called(state, node, rest, probing).node = node
         /\ Called(state, node, rest, probing).attempts = state.attempts + 1
<1> DEFINE s1 == [state EXCEPT !.pc = "waiting", !.node = node]
           s2 == [s1 EXCEPT !.attempts = @ + 1]
           s3 == [s2 EXCEPT !.chain = rest]
           s4 == [s3 EXCEPT !.tried = @ \cup {node}, !.discovered = {}, !.ready = {}]
           s5 == [s4 EXCEPT !.probing = probing]
<1>1. Called(state, node, rest, probing) = s5
  BY DEF Called
<1>2. s1 \in RequestState
  <2>1. node \in Keys \cup {NoKey}
    OBVIOUS
  <2> QED
    BY <2>1 DEF RequestState
<1> HIDE DEF s1
<1>3. s2 \in RequestState
  <2>1. s1.attempts + 1 \in Nat
    BY <1>2 DEF RequestState
  <2> QED
    BY <1>2, <2>1 DEF RequestState
<1> HIDE DEF s2
<1>4. s3 \in RequestState
  BY <1>3, ChainTyped
<1> HIDE DEF s3
<1>5. s4 \in RequestState
  BY <1>4 DEF RequestState
<1> HIDE DEF s4
<1>6. s5 \in RequestState
  BY <1>5 DEF RequestState
<1>7. /\ Called(state, node, rest, probing).node = node
      /\ Called(state, node, rest, probing).attempts = state.attempts + 1
  BY DEF Called, RequestState
<1> QED
  BY <1>1, <1>6, <1>7

LEMMA CountTyped ==
  ASSUME NEW totals \in Counters,
         NEW field \in {"succeeded", "failed", "client_errors", "punts"}
  PROVE  Count(totals, field) \in Counters
BY DEF Count, Counters

LEMMA OrdersTyped ==
  ASSUME NEW S \in SUBSET Keys, NEW n \in Nat, NEW chain \in Orders(S, n)
  PROVE  chain \in Seq(Keys)
BY DEF Orders

-----------------------------------------------------------------------------
(* The table and the history, under each method of the breaker.            *)

\* A sound table, at time `now`, of which `history` is the history.
Sound(table, history, now) ==
  /\ TableType(table)
  /\ TableJustified(table, now)
  /\ TableWithinBound(table)
  /\ history \in [Keys -> Outcomes]
  /\ Agrees(table, history)

LEMMA RecallTyped ==
  ASSUME NEW history \in [Keys -> Outcomes], NEW before, NEW after
  PROVE  /\ Recall(history, before, after) \in [Keys -> Outcomes]
         /\ \A k \in Keys : Recall(history, before, after)[k] =
              IF k \in DOMAIN before \ DOMAIN after THEN Unseen ELSE history[k]
<1>1. Unseen \in Outcomes
  BY DEF Unseen, Outcomes
<1> QED
  BY <1>1 DEF Recall

\* Touching bindings of the table changes nothing of this, nor who is routable.
LEMMA TouchSound ==
  ASSUME NEW table, NEW history, NEW nodes, clock \in Nat, Sound(table, history, clock)
  PROVE  /\ Sound(Touch(table, nodes), history, clock)
         /\ DOMAIN Touch(table, nodes) = DOMAIN table
         /\ \A k \in Keys : Routable(Touch(table, nodes), k, clock)
                              <=> Routable(table, k, clock)
<1> DEFINE after == Touch(table, nodes)
<1>1. /\ TableType(table) /\ TableJustified(table, clock) /\ TableWithinBound(table)
      /\ history \in [Keys -> Outcomes] /\ Agrees(table, history)
  BY DEF Sound
<1>2. DOMAIN after = DOMAIN table
  BY DEF Touch
<1>3. ASSUME NEW k \in DOMAIN table
      PROVE  /\ after[k] \in BindingState
             /\ EntryJustified(after[k], clock)
             /\ after[k].state = table[k].state
             /\ after[k].opened_at = table[k].opened_at
             /\ after[k].consecutive_failures = table[k].consecutive_failures
  <2>1. table[k] \in BindingState /\ EntryJustified(table[k], clock)
    BY <1>1 DEF TableType, TableJustified
  <2>2. after[k] = table[k] \/ after[k] = Touched(table[k], clock)
    BY DEF Touch
  <2>3. CASE after[k] = table[k]
    BY <2>1, <2>3
  <2>4. CASE after[k] = Touched(table[k], clock)
    <3> DEFINE entry == Touched(table[k], clock)
    <3>1. /\ entry \in BindingState
          /\ entry.state = table[k].state
          /\ entry.opened_at = table[k].opened_at
          /\ entry.consecutive_failures = table[k].consecutive_failures
          /\ entry.last_touched = clock
      BY <2>1 DEF Touched, BindingState
    <3>2. EntryJustified(entry, clock)
      BY <2>1, <3>1 DEF EntryJustified, BindingState
    <3> HIDE DEF entry
    <3> QED
      BY <2>4, <3>1, <3>2 DEF entry
  <2> QED
    BY <2>2, <2>3, <2>4
<1>4. TableType(after)
  BY <1>1, <1>2, <1>3 DEF TableType, Touch
<1>5. TableJustified(after, clock)
  BY <1>2, <1>3 DEF TableJustified
<1>6. TableWithinBound(after)
  BY <1>1, <1>2 DEF TableWithinBound
<1>7. Agrees(after, history)
  BY <1>1, <1>2, <1>3 DEF Agrees
<1>8. \A k \in Keys : Routable(after, k, clock) <=> Routable(table, k, clock)
  BY <1>2, <1>3 DEF Routable, CooledDown
<1> QED
  BY <1>1, <1>2, <1>4, <1>5, <1>6, <1>7, <1>8 DEF Sound

\* After a failure of `node` the table and the history agree again, and the breaker lets
\* nobody call `node` at once if it has failed often enough.
LEMMA FailureSound ==
  ASSUME NEW table, NEW history, NEW node \in Keys, clock \in Nat,
         Sound(table, history, clock), NEW after \in AfterFailure(table, node, clock),
         NEW noted, noted = Recall(SeenFailure(history, node), table, after)
  PROVE  /\ Sound(after, noted, clock)
         /\ Routable(after, node, clock) => noted[node].failures < FailureThreshold
         /\ \A k \in Keys \ {node} : noted[k] = history[k] \/ noted[k] = Unseen
<1> DEFINE failed == SeenFailure(history, node)
<1>1. /\ TableType(table) /\ TableJustified(table, clock) /\ TableWithinBound(table)
      /\ history \in [Keys -> Outcomes] /\ Agrees(table, history)
  BY DEF Sound
<1>2. /\ TableType(after) /\ TableJustified(after, clock) /\ TableWithinBound(after)
      /\ node \in DOMAIN after
      /\ \A k \in DOMAIN after \ {node} : k \in DOMAIN table /\ after[k] = table[k]
      /\ node \in DOMAIN table =>
           after[node].consecutive_failures = table[node].consecutive_failures + 1
      /\ node \notin DOMAIN table => after[node].consecutive_failures = 1
      /\ \/ after[node].state = "closed"
         \/ after[node].state = "open" /\ after[node].opened_at = clock
  BY <1>1, FailureKeeps
<1>3. /\ failed \in [Keys -> Outcomes]
      /\ failed[node] = [failures |-> history[node].failures + 1, last |-> clock,
                         probed |-> FALSE]
      /\ \A k \in Keys \ {node} : failed[k] = history[k]
  BY <1>1 DEF SeenFailure, Outcomes
<1>4. /\ noted \in [Keys -> Outcomes]
      /\ \A k \in Keys : noted[k] =
           IF k \in DOMAIN table \ DOMAIN after THEN Unseen ELSE failed[k]
  BY <1>3, RecallTyped
<1>5. noted[node] = failed[node]
  BY <1>2, <1>4
<1>6. noted[node].failures = after[node].consecutive_failures
  <2>1. CASE node \in DOMAIN table
    BY <1>1, <1>2, <1>3, <1>5, <2>1 DEF Agrees
  <2>2. CASE node \notin DOMAIN table
    BY <1>1, <1>2, <1>3, <1>5, <2>2 DEF Agrees, Unseen
  <2> QED
    BY <2>1, <2>2
<1>7. ASSUME NEW k \in Keys, k # node, k \in DOMAIN after
      PROVE  /\ k \in DOMAIN table
             /\ after[k] = table[k]
             /\ noted[k] = history[k]
  BY <1>2, <1>3, <1>4, <1>7
<1>8. ASSUME NEW k \in Keys, k \notin DOMAIN after PROVE noted[k] = Unseen
  BY <1>1, <1>2, <1>3, <1>4, <1>8 DEF Agrees
<1>9. Agrees(after, noted)
  <2>1. /\ noted[node].probed <=> after[node].state = "half_open"
        /\ after[node].state # "closed" => noted[node].last = after[node].opened_at
    BY <1>2, <1>3, <1>5
  <2>2. ASSUME NEW k \in Keys, k # node, k \in DOMAIN after
        PROVE  /\ noted[k].failures = after[k].consecutive_failures
               /\ noted[k].probed <=> after[k].state = "half_open"
               /\ after[k].state # "closed" => noted[k].last = after[k].opened_at
    BY <1>1, <1>7, <2>2 DEF Agrees
  <2> QED
    BY <1>2, <1>6, <1>8, <2>1, <2>2 DEF Agrees
<1>10. ASSUME Routable(after, node, clock)
       PROVE  noted[node].failures < FailureThreshold
  <2>1. after[node].state = "closed"
    BY <1>2, <1>10, BreakerAssumption DEF Routable, CooledDown
  <2> QED
    BY <1>2, <1>6, <2>1 DEF TableJustified, EntryJustified
<1>11. \A k \in Keys \ {node} : noted[k] = history[k] \/ noted[k] = Unseen
  BY <1>3, <1>4
<1> QED
  BY <1>2, <1>4, <1>9, <1>10, <1>11 DEF Sound

\* The same after a success.
LEMMA SuccessSound ==
  ASSUME NEW table, NEW history, NEW node \in Keys, clock \in Nat,
         Sound(table, history, clock), NEW after \in AfterSuccess(table, node, clock),
         NEW noted, noted = Recall(SeenSuccess(history, node), table, after)
  PROVE  Sound(after, noted, clock)
<1> DEFINE cleared == SeenSuccess(history, node)
<1>1. /\ TableType(table) /\ TableJustified(table, clock) /\ TableWithinBound(table)
      /\ history \in [Keys -> Outcomes] /\ Agrees(table, history)
  BY DEF Sound
<1>2. /\ TableType(after) /\ TableJustified(after, clock) /\ TableWithinBound(after)
      /\ node \in DOMAIN after
      /\ \A k \in DOMAIN after \ {node} : k \in DOMAIN table /\ after[k] = table[k]
      /\ after[node].state = "closed" /\ after[node].consecutive_failures = 0
  BY <1>1, SuccessKeeps
<1>3. /\ cleared \in [Keys -> Outcomes]
      /\ cleared[node] = Unseen
      /\ \A k \in Keys \ {node} : cleared[k] = history[k]
  BY <1>1 DEF SeenSuccess, Outcomes, Unseen
<1>4. /\ noted \in [Keys -> Outcomes]
      /\ \A k \in Keys : noted[k] =
           IF k \in DOMAIN table \ DOMAIN after THEN Unseen ELSE cleared[k]
  BY <1>3, RecallTyped
<1>5. ASSUME NEW k \in Keys, k # node, k \in DOMAIN after
      PROVE  /\ noted[k].failures = after[k].consecutive_failures
             /\ noted[k].probed <=> after[k].state = "half_open"
             /\ after[k].state # "closed" => noted[k].last = after[k].opened_at
  <2>1. k \in DOMAIN table /\ after[k] = table[k] /\ noted[k] = history[k]
    BY <1>2, <1>3, <1>4, <1>5
  <2> QED
    BY <1>1, <2>1 DEF Agrees
<1>6. ASSUME NEW k \in Keys, k \notin DOMAIN after PROVE noted[k] = Unseen
  BY <1>1, <1>2, <1>3, <1>4, <1>6 DEF Agrees
<1>7. /\ noted[node].failures = after[node].consecutive_failures
      /\ noted[node].probed <=> after[node].state = "half_open"
  BY <1>2, <1>3, <1>4 DEF Unseen
<1>8. Agrees(after, noted)
  BY <1>2, <1>5, <1>6, <1>7 DEF Agrees
<1> QED
  BY <1>2, <1>4, <1>8 DEF Sound

\* A call of `node` is due: it has not failed often enough, or this is its first probe
\* after a cooldown.
CallDue(noted, history, node) ==
  noted[node].failures >= FailureThreshold =>
    /\ clock - noted[node].last >= Cooldown
    /\ ~history[node].probed
    /\ noted[node].failures = history[node].failures

\* A call that is_routable lets through keeps the table and the history in agreement, and
\* is due.
LEMMA CallSound ==
  ASSUME NEW table, NEW history, NEW node \in Keys, clock \in Nat,
         Sound(table, history, clock), Routable(table, node, clock),
         NEW after \in AfterIsRoutable(table, node, clock),
         NEW noted, noted = SeenCall(Recall(history, table, after), node, after[node])
  PROVE  /\ Sound(after, noted, clock)
         /\ CallDue(noted, history, node)
<1> DEFINE recalled == Recall(history, table, after)
<1>1. /\ TableType(table) /\ TableJustified(table, clock) /\ TableWithinBound(table)
      /\ history \in [Keys -> Outcomes] /\ Agrees(table, history)
  BY DEF Sound
<1>2. /\ TableType(after) /\ TableJustified(after, clock) /\ TableWithinBound(after)
      /\ node \in DOMAIN after
      /\ \A k \in DOMAIN after \ {node} : k \in DOMAIN table /\ after[k] = table[k]
      /\ node \in DOMAIN table =>
           /\ after[node].consecutive_failures = table[node].consecutive_failures
           /\ after[node].opened_at = table[node].opened_at
           /\ after[node].state =
                IF table[node].state = "open" /\ Routable(table, node, clock)
                  THEN "half_open" ELSE table[node].state
      /\ node \notin DOMAIN table => after[node] = NewBinding(clock)
  BY <1>1, IsRoutableKeeps
<1>3. /\ recalled \in [Keys -> Outcomes]
      /\ \A k \in Keys : recalled[k] =
           IF k \in DOMAIN table \ DOMAIN after THEN Unseen ELSE history[k]
  BY <1>1, RecallTyped
<1>4. /\ noted \in [Keys -> Outcomes]
      /\ noted[node].failures = recalled[node].failures
      /\ noted[node].last = recalled[node].last
      /\ noted[node].probed <=> recalled[node].probed \/ after[node].state = "half_open"
      /\ \A k \in Keys \ {node} : noted[k] = recalled[k]
  <2> DEFINE entry == [recalled[node] EXCEPT !.probed = @ \/ after[node].state = "half_open"]
  <2>1. recalled[node] \in Outcomes
    BY <1>3
  <2>2. entry \in Outcomes
    BY <2>1 DEF Outcomes
  <2>3. entry.failures = recalled[node].failures /\ entry.last = recalled[node].last
    BY <2>1 DEF Outcomes
  <2>4. entry.probed <=> recalled[node].probed \/ after[node].state = "half_open"
    <3>1. entry.probed = (recalled[node].probed \/ after[node].state = "half_open")
      BY <2>1 DEF Outcomes
    <3> QED
      BY <3>1
  <2> HIDE DEF recalled
  <2>5. noted = [recalled EXCEPT ![node] = entry]
    BY DEF SeenCall, recalled
  <2> HIDE DEF entry
  <2> QED
    BY <1>3, <2>2, <2>3, <2>4, <2>5
<1>5. recalled[node] = history[node]
  BY <1>2, <1>3
<1>6. ASSUME node \notin DOMAIN table
      PROVE  /\ noted[node].failures = after[node].consecutive_failures
             /\ noted[node].probed <=> after[node].state = "half_open"
             /\ after[node].state = "closed"
             /\ noted[node].failures < FailureThreshold
  <2>1. history[node] = Unseen
    BY <1>1, <1>6 DEF Agrees
  <2>2. after[node].state = "closed" /\ after[node].consecutive_failures = 0
    BY <1>2, <1>6 DEF NewBinding
  <2>3. history[node].failures = 0 /\ ~history[node].probed
    BY <2>1 DEF Unseen
  <2>4. ~noted[node].probed
    BY <1>4, <1>5, <2>2, <2>3
  <2>5. noted[node].failures = 0
    BY <1>4, <1>5, <2>3
  <2> QED
    BY <2>2, <2>4, <2>5, BreakerAssumption
<1>7. ASSUME node \in DOMAIN table
      PROVE  /\ noted[node].failures = after[node].consecutive_failures
             /\ noted[node].probed <=> after[node].state = "half_open"
             /\ after[node].state # "closed" =>
                  /\ noted[node].last = after[node].opened_at
                  /\ clock - noted[node].last >= Cooldown
             /\ ~history[node].probed
             /\ noted[node].failures >= FailureThreshold => after[node].state # "closed"
  <2>1. /\ history[node].failures = table[node].consecutive_failures
        /\ history[node].probed <=> table[node].state = "half_open"
        /\ table[node].state # "closed" => history[node].last = table[node].opened_at
    BY <1>1, <1>7 DEF Agrees
  <2>2. \/ table[node].state = "closed"
        \/ table[node].state = "open" /\ clock - table[node].opened_at >= Cooldown
    BY <1>7 DEF Routable, CooledDown
  <2>3. EntryJustified(after[node], clock)
    BY <1>2 DEF TableJustified
  <2>4. after[node].consecutive_failures \in Nat
    BY <1>2 DEF TableType, BindingState
  <2>5. after[node].state = IF table[node].state = "open" THEN "half_open" ELSE "closed"
    BY <1>2, <1>7, <2>2
  <2>6. ~history[node].probed
    BY <2>1, <2>2
  <2>7. noted[node].probed <=> after[node].state = "half_open"
    BY <1>4, <1>5, <2>6
  <2>8. noted[node].failures = after[node].consecutive_failures
    BY <1>2, <1>4, <1>5, <1>7, <2>1
  <2>9. ASSUME after[node].state # "closed"
        PROVE  noted[node].last = after[node].opened_at /\ clock - noted[node].last >= Cooldown
    BY <1>2, <1>4, <1>5, <1>7, <2>1, <2>2, <2>5, <2>9
  <2>10. noted[node].failures >= FailureThreshold => after[node].state # "closed"
    BY <2>3, <2>4, <2>8, BreakerAssumption DEF EntryJustified
  <2> QED
    BY <2>6, <2>7, <2>8, <2>9, <2>10
<1>8. ASSUME NEW k \in Keys, k # node, k \in DOMAIN after
      PROVE  /\ noted[k].failures = after[k].consecutive_failures
             /\ noted[k].probed <=> after[k].state = "half_open"
             /\ after[k].state # "closed" => noted[k].last = after[k].opened_at
  <2>1. k \in DOMAIN table /\ after[k] = table[k] /\ noted[k] = history[k]
    BY <1>2, <1>3, <1>4, <1>8
  <2> QED
    BY <1>1, <2>1 DEF Agrees
<1>9. ASSUME NEW k \in Keys, k \notin DOMAIN after PROVE noted[k] = Unseen
  BY <1>1, <1>2, <1>3, <1>4, <1>9 DEF Agrees
<1>10. Agrees(after, noted)
  BY <1>2, <1>6, <1>7, <1>8, <1>9 DEF Agrees
<1>11. noted[node].failures >= FailureThreshold =>
         /\ clock - noted[node].last >= Cooldown
         /\ ~history[node].probed
         /\ noted[node].failures = history[node].failures
  <2>1. noted[node].failures \in Nat
    BY <1>4 DEF Outcomes
  <2> QED
    BY <1>4, <1>5, <1>6, <1>7, <2>1, BreakerAssumption
<1> QED
  BY <1>2, <1>4, <1>10, <1>11 DEF Sound, CallDue

-----------------------------------------------------------------------------
(* The invariant, and what a step of one request has to show to keep it.   *)

Calling(state) == state.pc \in {"waiting", "streaming"}

\* A request that waits for a node, or streams from it, knows which.
WaitsForNode == \A r \in Requests : Calling(request[r]) => request[r].node \in Keys

\* The inductive invariant.  SeenAgrees (in Sound) is what CircuitsJustified lacks: it
\* ties the breaker's table to the outcomes the property speaks of, through evictions
\* and late answers.
IInv ==
  /\ TypeOK
  /\ Sound(bindings, seen, clock)
  /\ WaitsForNode

\* The action of FailingNodeIsLeftAlone.
LeftAlone ==
  \A r \in Requests :
    LET node == request'[r].node
    IN  /\ request'[r].attempts > request[r].attempts
        /\ seen'[node].failures >= FailureThreshold
        => clock - seen'[node].last >= Cooldown /\ ~seen[node].probed

\* A call of s.node, if the step made one, leaves failing nodes alone.
CallAllowed(s, before) ==
  seen'[s.node].failures >= FailureThreshold =>
    clock - seen'[s.node].last >= Cooldown /\ ~before[s.node].probed

\* A step in which request r comes to state s.
Step(r, s) ==
  /\ request' = [request EXCEPT ![r] = s]
  /\ s \in RequestState
  /\ Calling(s) => s.node \in Keys
  /\ s.attempts > request[r].attempts => CallAllowed(s, seen)
  /\ counters' \in Counters
  /\ Sound(bindings', seen', clock)
  /\ UNCHANGED clock

LEMMA StepKeeps ==
  ASSUME IInv, NEW r \in Requests, NEW s, Step(r, s)
  PROVE  IInv' /\ LeftAlone
<1>1. /\ request \in [Requests -> RequestState] /\ clock \in Nat
      /\ \A x \in Requests : Calling(request[x]) => request[x].node \in Keys
  BY DEF IInv, TypeOK, WaitsForNode
<1>2. /\ request' \in [Requests -> RequestState]
      /\ request'[r] = s
      /\ \A x \in Requests \ {r} : request'[x] = request[x]
  BY <1>1 DEF Step
<1>3. Sound(bindings', seen', clock')
  BY DEF Step
<1>4. TypeOK'
  BY <1>1, <1>2, <1>3 DEF TypeOK, Step, Sound
<1>5. WaitsForNode'
  BY <1>1, <1>2 DEF WaitsForNode, Step, Calling
<1>6. IInv'
  BY <1>3, <1>4, <1>5 DEF IInv, Sound
<1>7. LeftAlone
  <2> SUFFICES ASSUME NEW x \in Requests,
                      request'[x].attempts > request[x].attempts,
                      seen'[request'[x].node].failures >= FailureThreshold
               PROVE  /\ clock - seen'[request'[x].node].last >= Cooldown
                      /\ ~seen[request'[x].node].probed
    BY DEF LeftAlone
  <2>1. request[x].attempts \in Nat
    BY <1>1 DEF RequestState
  <2>2. x = r
    BY <1>2, <2>1
  <2> QED
    BY <1>2, <2>2 DEF Step, CallAllowed
<1> QED
  BY <1>6, <1>7

\* The attempt loop: from a sound table and history, with a chain of bindings, it goes on
\* to an allowed call or to a punt.
LEMMA ProceedEffect ==
  ASSUME NEW r \in Requests, NEW state \in RequestState, NEW table, NEW totals \in Counters,
         NEW history, clock \in Nat, Sound(table, history, clock),
         Proceed(r, state, table, totals, history)
  PROVE  \E s \in RequestState :
           /\ request' = [request EXCEPT ![r] = s]
           /\ Calling(s) => s.node \in Keys
           /\ s.attempts > state.attempts =>
                /\ s.node \in Keys
                /\ Routable(table, s.node, clock)
                /\ CallDue(seen', history, s.node)
           /\ counters' \in Counters
           /\ Sound(bindings', seen', clock)
<1> DEFINE chain == state.chain
           routable == {i \in DOMAIN chain : Routable(table, chain[i], clock)}
<1>1. CASE /\ routable = {}
           /\ bindings' = Touch(table, ToSet(chain))
           /\ counters' = Count(totals, "punts")
           /\ request' = [request EXCEPT ![r] = Finish(state, "punt")]
           /\ seen' = history
  <2> DEFINE s == Finish(state, "punt")
  <2>1. /\ s \in RequestState /\ s.pc = "done" /\ s.attempts = state.attempts
    BY FinishTyped DEF Answers
  <2>2. state.attempts \in Nat
    BY DEF RequestState
  <2>3. Sound(bindings', seen', clock)
    BY <1>1, TouchSound
  <2>4. counters' \in Counters
    BY <1>1, CountTyped
  <2>5. request' = [request EXCEPT ![r] = s]
    BY <1>1
  <2> HIDE DEF s
  <2>6. ~Calling(s) /\ ~(s.attempts > state.attempts)
    BY <2>1, <2>2 DEF Calling
  <2> QED
    BY <2>1, <2>3, <2>4, <2>5, <2>6
<1>2. ASSUME NEW i \in routable,
             LET node == chain[i]
                 passed == Touch(table, {chain[j] : j \in 1..(i - 1)})
             IN  \E next \in AfterIsRoutable(passed, node, clock) :
                   /\ bindings' = next
                   /\ counters' = totals
                   /\ request' = [request EXCEPT ![r] =
                        Called(state, node, SubSeq(chain, i + 1, Len(chain)),
                               next[node].state = "half_open")]
                   /\ seen' = SeenCall(Recall(history, table, next), node, next[node])
      PROVE  \E s \in RequestState :
               /\ request' = [request EXCEPT ![r] = s]
               /\ Calling(s) => s.node \in Keys
               /\ s.attempts > state.attempts =>
                    /\ s.node \in Keys
                    /\ Routable(table, s.node, clock)
                    /\ CallDue(seen', history, s.node)
               /\ counters' \in Counters
               /\ Sound(bindings', seen', clock)
  <2> DEFINE node == chain[i]
             passed == Touch(table, {chain[j] : j \in 1..(i - 1)})
             rest == SubSeq(chain, i + 1, Len(chain))
  <2>1. PICK next \in AfterIsRoutable(passed, node, clock) :
          /\ bindings' = next
          /\ counters' = totals
          /\ request' = [request EXCEPT ![r] =
               Called(state, node, rest, next[node].state = "half_open")]
          /\ seen' = SeenCall(Recall(history, table, next), node, next[node])
    BY <1>2
  <2>2. chain \in Seq(Keys)
    BY DEF RequestState
  <2>3. i \in 1..Len(chain) /\ node \in Keys /\ Routable(table, node, clock)
    BY <2>2
  <2>4. rest \in Seq(Keys)
    BY <2>2, <2>3, SubSeqProperties
  <2> DEFINE s == Called(state, node, rest, next[node].state = "half_open")
  <2>5. (next[node].state = "half_open") \in BOOLEAN
    OBVIOUS
  <2> HIDE DEF chain, node, rest, passed
  <2>6. s \in RequestState /\ s.node = node
    BY <2>3, <2>4, <2>5, CalledTyped
  <2>7. /\ Sound(passed, history, clock)
        /\ DOMAIN passed = DOMAIN table
        /\ Routable(passed, node, clock)
    BY <2>3, TouchSound DEF passed
  <2>8. seen' = SeenCall(Recall(history, passed, next), node, next[node])
    BY <2>1, <2>7 DEF Recall
  <2>9. /\ Sound(bindings', seen', clock)
        /\ CallDue(seen', history, node)
    BY <2>1, <2>3, <2>7, <2>8, CallSound
  <2>10. request' = [request EXCEPT ![r] = s] /\ counters' \in Counters
    BY <2>1
  <2> HIDE DEF s
  <2> QED
    BY <2>3, <2>6, <2>9, <2>10
<1> QED
  BY <1>1, <1>2 DEF Proceed

-----------------------------------------------------------------------------
(* The ways a handler goes on, each shown to be a Step.                    *)

\* What IInv says of one request and of the breaker.
LEMMA Facts ==
  ASSUME IInv, NEW r \in Requests
  PROVE  /\ clock \in Nat
         /\ counters \in Counters
         /\ Sound(bindings, seen, clock)
         /\ seen \in [Keys -> Outcomes]
         /\ request[r] \in RequestState
         /\ request[r].attempts \in Nat
         /\ Calling(request[r]) => request[r].node \in Keys
BY DEF IInv, TypeOK, WaitsForNode, RequestState

\* On with the loop, with nothing recorded.
LEMMA ProceedStep ==
  ASSUME IInv, NEW r \in Requests, NEW state \in RequestState,
         state.attempts = request[r].attempts,
         Proceed(r, state, bindings, counters, seen), UNCHANGED clock
  PROVE  \E s : Step(r, s)
<1>1. PICK s \in RequestState :
        /\ request' = [request EXCEPT ![r] = s]
        /\ Calling(s) => s.node \in Keys
        /\ s.attempts > state.attempts =>
             /\ s.node \in Keys
             /\ Routable(bindings, s.node, clock)
             /\ CallDue(seen', seen, s.node)
        /\ counters' \in Counters
        /\ Sound(bindings', seen', clock)
  BY Facts, ProceedEffect
<1> QED
  BY <1>1 DEF Step, CallAllowed, CallDue

\* record_failure, then on with the loop.  If that calls the node that just failed, the
\* node has not failed often enough; any other node was forgotten or is as before.
LEMMA FailThenProceedStep ==
  ASSUME IInv, NEW r \in Requests, Calling(request[r]), FailThenProceed(r),
         UNCHANGED clock
  PROVE  \E s : Step(r, s)
<1> DEFINE node == request[r].node
<1>1. PICK table \in AfterFailure(bindings, node, clock) :
        Proceed(r, request[r], table, Count(counters, "failed"),
                Recall(SeenFailure(seen, node), bindings, table))
  BY DEF FailThenProceed
<1> DEFINE noted == Recall(SeenFailure(seen, node), bindings, table)
<1>2. noted = Recall(SeenFailure(seen, node), bindings, table)
  OBVIOUS
<1> HIDE DEF noted
<1>3. /\ Sound(table, noted, clock)
      /\ Routable(table, node, clock) => noted[node].failures < FailureThreshold
      /\ \A k \in Keys \ {node} : noted[k] = seen[k] \/ noted[k] = Unseen
  BY <1>2, Facts, FailureSound
<1>4. Count(counters, "failed") \in Counters
  BY Facts, CountTyped
<1>5. PICK s \in RequestState :
        /\ request' = [request EXCEPT ![r] = s]
        /\ Calling(s) => s.node \in Keys
        /\ s.attempts > request[r].attempts =>
             /\ s.node \in Keys
             /\ Routable(table, s.node, clock)
             /\ CallDue(seen', noted, s.node)
        /\ counters' \in Counters
        /\ Sound(bindings', seen', clock)
  BY <1>1, <1>2, <1>3, <1>4, Facts, ProceedEffect
<1>6. ASSUME s.attempts > request[r].attempts,
             seen'[s.node].failures >= FailureThreshold
      PROVE  clock - seen'[s.node].last >= Cooldown /\ ~seen[s.node].probed
  <2>1. /\ clock - seen'[s.node].last >= Cooldown
        /\ ~noted[s.node].probed
        /\ noted[s.node].failures >= FailureThreshold
        /\ s.node \in Keys
        /\ Routable(table, s.node, clock)
    BY <1>5, <1>6 DEF CallDue
  <2>2. noted[s.node].failures \in Nat
    BY <1>3, <2>1 DEF Sound, Outcomes
  <2>3. s.node # node
    BY <1>3, <2>1, <2>2, BreakerAssumption
  <2>4. noted[s.node] # Unseen
    BY <2>1, BreakerAssumption DEF Unseen
  <2> QED
    BY <1>3, <2>1, <2>3, <2>4
<1> QED
  BY <1>5, <1>6 DEF Step, CallAllowed

\* record_failure, record_success or record_client_error, and no call.
LEMMA FailThenBecomeStep ==
  ASSUME IInv, NEW r \in Requests, Calling(request[r]), NEW state \in RequestState,
         state.attempts = request[r].attempts,
         Calling(state) => state.node \in Keys,
         FailThenBecome(r, state), UNCHANGED clock
  PROVE  Step(r, state)
<1> DEFINE node == request[r].node
<1>1. PICK table \in AfterFailure(bindings, node, clock) :
        /\ bindings' = table
        /\ counters' = Count(counters, "failed")
        /\ request' = [request EXCEPT ![r] = state]
        /\ seen' = Recall(SeenFailure(seen, node), bindings, table)
  BY DEF FailThenBecome
<1>2. Sound(bindings', seen', clock)
  BY <1>1, Facts, FailureSound
<1>3. counters' \in Counters
  BY <1>1, Facts, CountTyped
<1>4. ~(state.attempts > request[r].attempts)
  BY Facts
<1> QED
  BY <1>1, <1>2, <1>3, <1>4 DEF Step

LEMMA SucceedThenBecomeStep ==
  ASSUME IInv, NEW r \in Requests, Calling(request[r]), NEW state \in RequestState,
         state.attempts = request[r].attempts,
         Calling(state) => state.node \in Keys,
         SucceedThenBecome(r, state), UNCHANGED clock
  PROVE  Step(r, state)
<1> DEFINE node == request[r].node
<1>1. PICK table \in AfterSuccess(bindings, node, clock) :
        /\ bindings' = table
        /\ counters' = Count(counters, "succeeded")
        /\ request' = [request EXCEPT ![r] = state]
        /\ seen' = Recall(SeenSuccess(seen, node), bindings, table)
  BY DEF SucceedThenBecome
<1>2. Sound(bindings', seen', clock)
  BY <1>1, Facts, SuccessSound
<1>3. counters' \in Counters
  BY <1>1, Facts, CountTyped
<1>4. ~(state.attempts > request[r].attempts)
  BY Facts
<1> QED
  BY <1>1, <1>2, <1>3, <1>4 DEF Step

\* Nothing recorded on a binding.
LEMMA QuietStep ==
  ASSUME IInv, NEW r \in Requests, NEW state \in RequestState,
         state.attempts = request[r].attempts,
         Calling(state) => state.node \in Keys,
         request' = [request EXCEPT ![r] = state],
         counters' \in Counters, UNCHANGED <<bindings, clock, seen>>
  PROVE  Step(r, state)
<1>1. Sound(bindings', seen', clock)
  BY Facts
<1>2. ~(state.attempts > request[r].attempts)
  BY Facts
<1> QED
  BY <1>1, <1>2 DEF Step

LEMMA ClientErrorThenBecomeStep ==
  ASSUME IInv, NEW r \in Requests, NEW state \in RequestState,
         state.attempts = request[r].attempts,
         Calling(state) => state.node \in Keys,
         ClientErrorThenBecome(r, state), UNCHANGED clock
  PROVE  Step(r, state)
<1>1. counters' \in Counters
  BY Facts, CountTyped DEF ClientErrorThenBecome
<1> QED
  BY <1>1, QuietStep DEF ClientErrorThenBecome

\* A chat request, from its list of reachable bindings.
LEMMA RouteChatStep ==
  ASSUME IInv, NEW r \in Requests, NEW state \in RequestState,
         state.attempts = request[r].attempts,
         NEW discovered \in SUBSET Keys, NEW preferred,
         RouteChat(r, state, discovered, preferred), UNCHANGED clock
  PROVE  \E s : Step(r, s)
<1> DEFINE ready == Peeked(discovered)
           fanout == IF Cardinality(ready) < MaxFallbackAttempts THEN Cardinality(ready)
                                                                 ELSE MaxFallbackAttempts
<1>1. ready \in SUBSET Keys
  BY DEF Peeked
<1>2. fanout \in Nat
  <2>1. Cardinality(ready) \in Nat
    BY <1>1, FS_Subset, FS_CardinalityType, RoutingAssumption
  <2> QED
    BY <2>1, RoutingAssumption
<1>3. PICK chain \in Orders(ready, fanout) :
        Proceed(r, [state EXCEPT !.chain = chain], bindings, counters, seen)
  BY DEF RouteChat
<1> HIDE DEF ready, fanout
<1>4. chain \in Seq(Keys)
  BY <1>1, <1>2, <1>3, OrdersTyped
<1>5. [state EXCEPT !.chain = chain] \in RequestState
  BY <1>4, ChainTyped
<1>6. [state EXCEPT !.chain = chain].attempts = request[r].attempts
  BY DEF RequestState
<1> QED
  BY <1>3, <1>5, <1>6, ProceedStep

-----------------------------------------------------------------------------
(* Every action of a request is a Step.                                    *)

LEMMA ArrivalStep ==
  ASSUME IInv, NEW r \in Requests, Arrival(r)
  PROVE  \E s : Step(r, s)
<1>1. /\ request[r] \in RequestState /\ request[r].attempts \in Nat
      /\ counters \in Counters
  BY Facts
<1>2. ASSUME NEW kind \in {"chat", "stream"}, NEW discovered \in SUBSET Keys,
             ReceiveChat(r, kind, discovered)
      PROVE  \E s : Step(r, s)
  <2> DEFINE state == [request[r] EXCEPT !.kind = kind]
  <2>1. state \in RequestState /\ state.attempts = request[r].attempts
    BY <1>1 DEF RequestState, Kinds
  <2>2. RouteChat(r, state, discovered, NoKey) /\ UNCHANGED clock
    BY <1>2 DEF ReceiveChat
  <2> HIDE DEF state
  <2> QED
    BY <2>1, <2>2, RouteChatStep
<1>3. ASSUME NEW kind \in {"chat", "stream"}, NEW discovered \in SUBSET Keys,
             ReceiveAuto(r, kind, discovered)
      PROVE  \E s : Step(r, s)
  <2> DEFINE s1 == [request[r] EXCEPT !.pc = "selecting", !.kind = kind]
             state == [s1 EXCEPT !.discovered = discovered, !.ready = Peeked(discovered)]
  <2>1. /\ request' = [request EXCEPT ![r] = state]
        /\ UNCHANGED <<bindings, clock, counters, seen>>
    BY <1>3 DEF ReceiveAuto
  <2>2. s1 \in RequestState /\ s1.attempts = request[r].attempts /\ s1.pc = "selecting"
    BY <1>1 DEF RequestState, Kinds
  <2> HIDE DEF s1
  <2>3. /\ state \in RequestState /\ state.attempts = request[r].attempts
        /\ state.pc = "selecting"
    BY <2>2 DEF RequestState, Peeked
  <2> HIDE DEF state
  <2> QED
    BY <1>1, <2>1, <2>3, QuietStep DEF Calling
<1>4. ASSUME NEW discovered \in SUBSET Keys, ReceiveMedia(r, discovered)
      PROVE  \E s : Step(r, s)
  <2>1. PICK chain \in Orders(discovered, Cardinality(discovered)) :
          Proceed(r, [request[r] EXCEPT !.kind = "media", !.chain = chain],
                  bindings, counters, seen)
    BY <1>4 DEF ReceiveMedia, MediaChains
  <2>2. Cardinality(discovered) \in Nat
    BY FS_Subset, FS_CardinalityType, RoutingAssumption
  <2>3. chain \in Seq(Keys)
    BY <2>1, <2>2, OrdersTyped
  <2> DEFINE s1 == [request[r] EXCEPT !.kind = "media"]
             state == [s1 EXCEPT !.chain = chain]
  <2>4. s1 \in RequestState /\ s1.attempts = request[r].attempts
    BY <1>1 DEF RequestState, Kinds
  <2> HIDE DEF s1
  <2>5. state \in RequestState
    BY <2>3, <2>4, ChainTyped
  <2>6. state.attempts = request[r].attempts
    BY <2>4 DEF RequestState
  <2>7. Proceed(r, state, bindings, counters, seen)
    BY <2>1 DEF s1
  <2> HIDE DEF state
  <2> QED
    BY <1>4, <2>5, <2>6, <2>7, ProceedStep DEF ReceiveMedia
<1>5. ASSUME ReceiveUnknown(r)
      PROVE  \E s : Step(r, s)
  <2> DEFINE state == Finish(request[r], "not_found")
  <2>1. /\ state \in RequestState /\ state.attempts = request[r].attempts
        /\ state.pc = "done"
    BY <1>1, FinishTyped DEF Answers
  <2>2. counters' \in Counters
    BY <1>1, <1>5, CountTyped DEF ReceiveUnknown
  <2>3. /\ request' = [request EXCEPT ![r] = state]
        /\ UNCHANGED <<bindings, clock, seen>>
    BY <1>5 DEF ReceiveUnknown
  <2> HIDE DEF state
  <2> QED
    BY <2>1, <2>2, <2>3, QuietStep DEF Calling
<1>6. ASSUME ReceiveRefused(r)
      PROVE  \E s : Step(r, s)
  <2> DEFINE state == Finish(request[r], "refused")
  <2>1. /\ state \in RequestState /\ state.attempts = request[r].attempts
        /\ state.pc = "done"
    BY <1>1, FinishTyped DEF Answers
  <2>2. /\ request' = [request EXCEPT ![r] = state]
        /\ UNCHANGED <<bindings, clock, counters, seen>>
    BY <1>6 DEF ReceiveRefused
  <2> HIDE DEF state
  <2> QED
    BY <1>1, <2>1, <2>2, QuietStep DEF Calling
<1> QED
  BY <1>2, <1>3, <1>4, <1>5, <1>6 DEF Arrival

LEMMA ProgressStep ==
  ASSUME IInv, NEW r \in Requests, Progress(r)
  PROVE  \E s : Step(r, s)
<1>1. /\ request[r] \in RequestState /\ request[r].attempts \in Nat
      /\ counters \in Counters
      /\ Calling(request[r]) => request[r].node \in Keys
  BY Facts
<1>2. ASSUME NEW answer \in Answers
      PROVE  /\ Finish(request[r], answer) \in RequestState
             /\ Finish(request[r], answer).attempts = request[r].attempts
             /\ ~Calling(Finish(request[r], answer))
  BY <1>1, FinishTyped DEF Calling
<1>3. ASSUME NEW preferred \in Keys \cup {NoKey}, Selected(r, preferred)
      PROVE  \E s : Step(r, s)
  <2>1. CASE preferred = NoKey
    <3>1. /\ counters' = Count(counters, "punts")
          /\ request' = [request EXCEPT ![r] = Finish(request[r], "punt")]
          /\ UNCHANGED <<bindings, clock, seen>>
      BY <1>3, <2>1 DEF Selected
    <3>2. counters' \in Counters
      BY <1>1, <3>1, CountTyped
    <3>3. "punt" \in Answers
      BY DEF Answers
    <3> QED
      BY <1>2, <3>1, <3>2, <3>3, QuietStep
  <2>2. CASE preferred # NoKey
    <3>1. RouteChat(r, request[r], request[r].discovered, preferred) /\ UNCHANGED clock
      BY <1>3, <2>2 DEF Selected
    <3>2. request[r].discovered \in SUBSET Keys
      BY <1>1 DEF RequestState
    <3> QED
      BY <1>1, <3>1, <3>2, RouteChatStep
  <2> QED
    BY <2>1, <2>2
<1>4. ASSUME AttemptFails(r) PROVE \E s : Step(r, s)
  BY <1>4, FailThenProceedStep DEF AttemptFails, Calling
<1>5. ASSUME StreamOpensRetriable(r) PROVE \E s : Step(r, s)
  <2> DEFINE state == [request[r] EXCEPT !.pc = "closing", !.node = NoKey, !.probing = FALSE]
  <2>1. state \in RequestState /\ state.attempts = request[r].attempts /\ ~Calling(state)
    BY <1>1 DEF RequestState, Calling
  <2>2. Calling(request[r]) /\ FailThenBecome(r, state) /\ UNCHANGED clock
    BY <1>5 DEF StreamOpensRetriable, Calling
  <2> HIDE DEF state
  <2> QED
    BY <2>1, <2>2, FailThenBecomeStep
<1>6. ASSUME StreamClosed(r) PROVE \E s : Step(r, s)
  BY <1>1, <1>6, ProceedStep DEF StreamClosed
<1>7. ASSUME MediaFails(r) PROVE \E s : Step(r, s)
  <2>1. "bad_gateway" \in Answers
    BY DEF Answers
  <2> QED
    BY <1>2, <1>7, <2>1, FailThenBecomeStep DEF MediaFails, Calling
<1>8. ASSUME Calling(request[r]), Forwarded(r), UNCHANGED clock
      PROVE  \E s : Step(r, s)
  <2>1. "ok" \in Answers /\ "client_error" \in Answers /\ "server_error" \in Answers
    BY DEF Answers
  <2>2. CASE SucceedThenBecome(r, Finish(request[r], "ok"))
    BY <1>2, <1>8, <2>1, <2>2, SucceedThenBecomeStep
  <2>3. CASE ClientErrorThenBecome(r, Finish(request[r], "client_error"))
    BY <1>2, <1>8, <2>1, <2>3, ClientErrorThenBecomeStep
  <2>4. CASE FailThenBecome(r, Finish(request[r], "server_error"))
    BY <1>2, <1>8, <2>1, <2>4, FailThenBecomeStep
  <2> QED
    BY <1>8, <2>2, <2>3, <2>4 DEF Forwarded
<1>9. ASSUME StreamOpens(r) PROVE \E s : Step(r, s)
  <2> DEFINE won(answer) == [request[r] EXCEPT !.pc = "streaming", !.answer = answer,
                                               !.chain = <<>>]
  <2>1. Calling(request[r]) /\ UNCHANGED clock
    BY <1>9 DEF StreamOpens, Calling
  <2>2. ASSUME NEW answer \in Answers
        PROVE  /\ won(answer) \in RequestState
               /\ won(answer).attempts = request[r].attempts
               /\ won(answer).node \in Keys
    <3> DEFINE s1 == [request[r] EXCEPT !.pc = "streaming", !.answer = answer]
               s2 == [s1 EXCEPT !.chain = <<>>]
    <3>1. s1 \in RequestState
      BY <1>1 DEF RequestState
    <3>2. <<>> \in Seq(Keys)
      OBVIOUS
    <3>3. won(answer) = s2
      OBVIOUS
    <3> HIDE DEF s1
    <3>4. s2 \in RequestState
      BY <3>1, <3>2, ChainTyped
    <3>5. won(answer).attempts = request[r].attempts /\ won(answer).node = request[r].node
      BY <1>1 DEF RequestState
    <3> QED
      BY <1>1, <2>1, <3>3, <3>4, <3>5
  <2>3. "ok" \in Answers /\ "client_error" \in Answers /\ "server_error" \in Answers
    BY DEF Answers
  <2>4. \/ /\ request' = [request EXCEPT ![r] = won("ok")]
           /\ UNCHANGED <<bindings, counters, seen>>
        \/ ClientErrorThenBecome(r, won("client_error"))
        \/ FailThenBecome(r, won("server_error"))
    BY <1>9 DEF StreamOpens
  <2> HIDE DEF won
  <2>5. CASE /\ request' = [request EXCEPT ![r] = won("ok")]
             /\ UNCHANGED <<bindings, counters, seen>>
    BY <1>1, <2>1, <2>2, <2>3, <2>5, QuietStep
  <2>6. CASE ClientErrorThenBecome(r, won("client_error"))
    BY <2>1, <2>2, <2>3, <2>6, ClientErrorThenBecomeStep
  <2>7. CASE FailThenBecome(r, won("server_error"))
    BY <2>1, <2>2, <2>3, <2>7, FailThenBecomeStep
  <2> QED
    BY <2>4, <2>5, <2>6, <2>7
<1>10. ASSUME StreamEnds(r) PROVE \E s : Step(r, s)
  <2>1. Calling(request[r]) /\ UNCHANGED clock
    BY <1>10 DEF StreamEnds, Calling
  <2>2. request[r].answer \in Answers /\ "ok" \in Answers
    BY <1>1 DEF RequestState, Answers
  <2>3. CASE request[r].answer = "ok"
    <3>1. SucceedThenBecome(r, Finish(request[r], "ok"))
      BY <1>10, <2>3 DEF StreamEnds
    <3> QED
      BY <1>2, <2>1, <2>2, <3>1, SucceedThenBecomeStep
  <2>4. CASE request[r].answer # "ok"
    <3>1. /\ request' = [request EXCEPT ![r] = Finish(request[r], request[r].answer)]
          /\ UNCHANGED <<bindings, counters, seen>>
      BY <1>10, <2>4 DEF StreamEnds
    <3> QED
      BY <1>1, <1>2, <2>1, <2>2, <3>1, QuietStep
  <2> QED
    BY <2>3, <2>4
<1>11. ASSUME StreamBreaks(r) PROVE \E s : Step(r, s)
  <2>1. "aborted" \in Answers
    BY DEF Answers
  <2> QED
    BY <1>2, <1>11, <2>1, FailThenBecomeStep DEF StreamBreaks, Calling
<1>12. ASSUME Answered(r) PROVE \E s : Step(r, s)
  BY <1>8, <1>12 DEF Answered, Calling
<1>13. ASSUME MediaAnswered(r) PROVE \E s : Step(r, s)
  BY <1>8, <1>13 DEF MediaAnswered, Calling
<1> QED
  BY <1>3, <1>4, <1>5, <1>6, <1>7, <1>9, <1>10, <1>11, <1>12, <1>13 DEF Progress

LEMMA AbandonStep ==
  ASSUME IInv, NEW r \in Requests, Abandon(r)
  PROVE  \E s : Step(r, s)
<1> DEFINE state == Finish(request[r], "aborted")
<1>1. /\ state \in RequestState /\ state.attempts = request[r].attempts
      /\ state.pc = "done"
  BY Facts, FinishTyped DEF Answers
<1>2. /\ request' = [request EXCEPT ![r] = state]
      /\ counters' \in Counters
      /\ UNCHANGED <<bindings, clock, seen>>
  BY Facts DEF Abandon
<1> HIDE DEF state
<1> QED
  BY <1>1, <1>2, QuietStep DEF Calling

\* Time passes over a sound table: what is in the past stays there.
LEMMA TickKeeps ==
  ASSUME IInv, Tick
  PROVE  IInv' /\ LeftAlone
<1>1. /\ clock \in Nat /\ clock' = clock + 1
      /\ UNCHANGED <<bindings, counters, request, seen>>
      /\ request \in [Requests -> RequestState]
      /\ TableType(bindings) /\ TableJustified(bindings, clock)
  BY DEF IInv, TypeOK, Sound, Tick
<1>2. TableJustified(bindings, clock')
  <2> SUFFICES ASSUME NEW k \in DOMAIN bindings
               PROVE  EntryJustified(bindings[k], clock')
    BY DEF TableJustified
  <2>1. bindings[k] \in BindingState /\ EntryJustified(bindings[k], clock)
    BY <1>1 DEF TableType, TableJustified
  <2> QED
    BY <1>1, <2>1 DEF EntryJustified, BindingState, NoTime
<1>3. Sound(bindings', seen', clock')
  BY <1>1, <1>2 DEF IInv, Sound
<1>4. TypeOK'
  BY <1>1, <1>3 DEF IInv, TypeOK, Sound
<1>5. WaitsForNode'
  BY <1>1 DEF IInv, WaitsForNode, Calling
<1>6. LeftAlone
  <2>1. \A r \in Requests : request[r].attempts \in Nat
    BY <1>1 DEF RequestState
  <2> QED
    BY <1>1, <2>1 DEF LeftAlone
<1> QED
  BY <1>3, <1>4, <1>5, <1>6 DEF IInv, Sound

LEMMA InitEstablishes == Init => IInv
<1> SUFFICES ASSUME Init PROVE IInv
  OBVIOUS
<1>1. /\ DOMAIN bindings = {} /\ bindings \in [{} -> BindingState]
      /\ clock = 0
      /\ counters = [succeeded |-> 0, failed |-> 0, client_errors |-> 0, punts |-> 0]
      /\ request = [r \in Requests |-> NewRequest]
      /\ seen = [k \in Keys |-> Unseen]
  BY DEF Init
<1>2. NewRequest \in RequestState /\ ~Calling(NewRequest)
  BY DEF NewRequest, RequestState, Calling, Kinds, Answers
<1>3. counters \in Counters
  BY <1>1 DEF Counters
<1>4. Unseen \in Outcomes
  BY DEF Unseen, Outcomes
<1>5. TableType(bindings) /\ TableJustified(bindings, clock)
  BY <1>1 DEF TableType, TableJustified
<1>6. TableWithinBound(bindings)
  BY <1>1, FS_EmptySet, BreakerAssumption DEF TableWithinBound
<1>7. Agrees(bindings, seen)
  BY <1>1 DEF Agrees
<1>8. TypeOK
  BY <1>1, <1>2, <1>3, <1>4, <1>5 DEF TypeOK
<1>9. WaitsForNode
  BY <1>1, <1>2 DEF WaitsForNode
<1> QED
  BY <1>1, <1>4, <1>5, <1>6, <1>7, <1>8, <1>9 DEF IInv, Sound

\* Every step keeps the invariant and leaves failing nodes alone.
LEMMA NextKeeps == IInv /\ [Next]_vars => IInv' /\ LeftAlone
<1> SUFFICES ASSUME IInv, [Next]_vars PROVE IInv' /\ LeftAlone
  OBVIOUS
<1>1. ASSUME Tick PROVE IInv' /\ LeftAlone
  BY <1>1, TickKeeps
<1>2. ASSUME NEW r \in Requests, Arrival(r) \/ Progress(r) \/ Abandon(r)
      PROVE  IInv' /\ LeftAlone
  <2>1. \E s : Step(r, s)
    BY <1>2, ArrivalStep, ProgressStep, AbandonStep
  <2> QED
    BY <2>1, StepKeeps
<1>3. ASSUME UNCHANGED vars PROVE IInv' /\ LeftAlone
  <2>1. IInv'
    BY <1>3 DEF vars, IInv, TypeOK, Sound, WaitsForNode, Calling, Agrees
  <2>2. \A r \in Requests : request[r].attempts \in Nat
    BY DEF IInv, TypeOK, RequestState
  <2>3. LeftAlone
    BY <1>3, <2>2 DEF vars, LeftAlone
  <2> QED
    BY <2>1, <2>3
<1> QED
  BY <1>1, <1>2, <1>3 DEF Next

-----------------------------------------------------------------------------
(* The theorems.                                                           *)

\* Type correctness of the router's state.
THEOREM TypeCorrect == Safety => []TypeOK
<1>1. IInv => TypeOK
  BY DEF IInv
<1> QED
  BY <1>1, InitEstablishes, NextKeeps, PTL DEF Safety

\* Every circuit is in the state its recorded outcomes call for.
THEOREM CircuitsAlwaysJustified == Safety => []CircuitsJustified
<1>1. IInv => CircuitsJustified
  BY DEF IInv, Sound, CircuitsJustified
<1> QED
  BY <1>1, InitEstablishes, NextKeeps, PTL DEF Safety

\* The breaker's table never outgrows its bound.
THEOREM TableAlwaysBounded == Safety => []TableBounded
<1>1. IInv => TableBounded
  BY DEF IInv, Sound, TableBounded
<1> QED
  BY <1>1, InitEstablishes, NextKeeps, PTL DEF Safety

\* The promise of the breaker: no request calls a node that has failed FailureThreshold
\* times in a row within a cooldown of its last failure, and only one request probes it
\* after that until an outcome is recorded.
THEOREM FailingNodesLeftAlone == Safety => FailingNodeIsLeftAlone
<1>1. IInv /\ [Next]_vars => [LeftAlone]_vars
  BY NextKeeps
<1>2. [LeftAlone]_vars =>
        [\A r \in Requests :
           LET node == request'[r].node
           IN  /\ request'[r].attempts > request[r].attempts
               /\ seen'[node].failures >= FailureThreshold
               => clock - seen'[node].last >= Cooldown /\ ~seen[node].probed]_vars
  BY DEF LeftAlone
<1> QED
  BY <1>1, <1>2, InitEstablishes, NextKeeps, PTL DEF Safety, FailingNodeIsLeftAlone

-----------------------------------------------------------------------------
(* What one client request may cost.                                       *)

\* The calls made are to different nodes, and the chain holds others, each once.
Distinct(s) ==
  /\ IsFiniteSet(s.tried)
  /\ Cardinality(s.tried) = s.attempts
  /\ IsInjective(s.chain)
  /\ \A i \in DOMAIN s.chain : s.chain[i] \notin s.tried

\* A chat has spent, together with what it has left to try, no more than its bound; a
\* media request has spent one call at most, and is in no state from which it could go
\* on to another.
Spent(s) ==
  /\ s.kind # "media" => s.attempts + Len(s.chain) <= MaxFallbackAttempts
  /\ s.kind = "media" => s.attempts <= 1 /\ s.pc \in {"waiting", "done"}
  /\ s.pc \in {"new", "selecting"} => s.attempts = 0 /\ s.tried = {}

Within(s) == Distinct(s) /\ Spent(s)

AllWithin == \A r \in Requests : Within(request[r])

\* The inductive invariant.
FanInv == IInv /\ AllWithin

\* Request r comes to a state that keeps the bounds.
WithinStep(r) ==
  \E s : Within(s) /\ request' = [request EXCEPT ![r] = s]

LEMMA WithinStepKeeps ==
  ASSUME FanInv, NEW r \in Requests, WithinStep(r)
  PROVE  AllWithin'
BY DEF FanInv, IInv, TypeOK, AllWithin, WithinStep, Within, Distinct, Spent

LEMMA FinishWithin ==
  ASSUME NEW s \in RequestState, Within(s), NEW answer \in Answers
  PROVE  Within(Finish(s, answer))
<1> DEFINE t == Finish(s, answer)
<1>1. /\ t.pc = "done" /\ t.kind = s.kind /\ t.attempts = s.attempts
      /\ t.tried = s.tried /\ t.chain = <<>>
  BY DEF Finish, RequestState
<1> HIDE DEF t
<1>2. DOMAIN t.chain = {} /\ Len(t.chain) = 0
  BY <1>1
<1>3. Distinct(t)
  BY <1>1, <1>2 DEF Within, Distinct, IsInjective
<1>4. s.attempts + Len(s.chain) <= MaxFallbackAttempts => s.attempts <= MaxFallbackAttempts
  BY RoutingAssumption, LenProperties DEF RequestState
<1>5. Spent(t)
  BY <1>1, <1>2, <1>4 DEF Within, Spent, RequestState
<1> QED
  BY <1>3, <1>5 DEF Within, t

\* The elements of a sequence's tail.
LEMMA TailElement ==
  ASSUME NEW S, NEW q \in Seq(S), NEW m \in 1..(Len(q) + 1), NEW k \in 1..(Len(q) - m + 1)
  PROVE  SubSeq(q, m, Len(q))[k] = q[m + k - 1]
<1>1. m \in Int /\ Len(q) \in Int /\ \A x \in m..Len(q) : q[x] \in S
  OBVIOUS
<1>2. \A x \in 1..(Len(q) - m + 1) : SubSeq(q, m, Len(q))[x] = q[m + x - 1]
  BY <1>1, SubSeqProperties
<1> QED
  BY <1>2

\* A call of one of the chain's nodes, those after it left to try.
LEMMA CalledWithin ==
  ASSUME NEW s \in RequestState, Distinct(s), NEW i \in DOMAIN s.chain,
         s.kind # "media" => s.attempts + Len(s.chain) <= MaxFallbackAttempts,
         s.kind = "media" => s.attempts = 0, NEW probing \in BOOLEAN
  PROVE  Within(Called(s, s.chain[i], SubSeq(s.chain, i + 1, Len(s.chain)), probing))
<1> DEFINE rest == SubSeq(s.chain, i + 1, Len(s.chain))
           t == Called(s, s.chain[i], rest, probing)
<1>1. /\ s.chain \in Seq(Keys) /\ s.attempts \in Nat /\ i \in 1..Len(s.chain)
      /\ Len(s.chain) \in Nat
  BY LenProperties DEF RequestState
<1>2. /\ t.pc = "waiting" /\ t.kind = s.kind /\ t.attempts = s.attempts + 1
      /\ t.tried = s.tried \cup {s.chain[i]} /\ t.chain = rest
  BY DEF Called, RequestState
<1> HIDE DEF t
<1>3. /\ Len(rest) = Len(s.chain) - i
      /\ DOMAIN rest = 1..(Len(s.chain) - i)
      /\ \A j \in DOMAIN rest : i + j \in DOMAIN s.chain /\ i + j # i
                                /\ rest[j] = s.chain[i + j]
  <2> DEFINE chain == s.chain
  <2>1. chain \in Seq(Keys) /\ i \in 1..Len(chain) /\ Len(chain) \in Nat
    BY <1>1
  <2> HIDE DEF chain
  <2>2. /\ i + 1 \in 1..(Len(chain) + 1) /\ i + 1 \in Int
        /\ Len(chain) - (i + 1) + 1 = Len(chain) - i
        /\ i + 1 <= Len(chain) + 1
    BY <2>1
  <2> DEFINE tail == SubSeq(chain, i + 1, Len(chain))
  <2>3. Len(tail) = Len(chain) - i /\ DOMAIN tail = 1..(Len(chain) - i)
    BY <2>1, <2>2
  <2>4. ASSUME NEW j \in 1..(Len(chain) - i)
        PROVE  i + j \in 1..Len(chain) /\ i + j # i /\ tail[j] = chain[i + j]
    <3>1. i + j \in 1..Len(chain) /\ i + j # i /\ (i + 1) + j - 1 = i + j
      BY <2>1
    <3>2. j \in 1..(Len(chain) - (i + 1) + 1)
      BY <2>2
    <3>3. tail[j] = chain[(i + 1) + j - 1]
      BY <2>1, <2>2, <3>2, TailElement
    <3> HIDE DEF tail
    <3> QED
      BY <3>1, <3>3
  <2>5. rest = tail
    BY DEF chain
  <2>6. DOMAIN chain = 1..Len(chain)
    BY <2>1
  <2> HIDE DEF tail, rest
  <2> QED
    BY <2>3, <2>4, <2>5, <2>6 DEF chain
<1> HIDE DEF rest
<1>4. IsFiniteSet(t.tried) /\ Cardinality(t.tried) = s.attempts + 1
  <2>1. IsFiniteSet(s.tried) /\ Cardinality(s.tried) = s.attempts /\ s.chain[i] \notin s.tried
    BY DEF Distinct
  <2>2. Cardinality(s.tried \cup {s.chain[i]}) = Cardinality(s.tried) + 1
    BY <2>1, FS_AddElement
  <2>3. IsFiniteSet(s.tried \cup {s.chain[i]})
    BY <2>1, FS_AddElement
  <2> QED
    BY <1>2, <2>1, <2>2, <2>3
<1>5. IsInjective(rest)
  <2> SUFFICES ASSUME NEW a \in DOMAIN rest, NEW b \in DOMAIN rest, rest[a] = rest[b]
               PROVE  a = b
    BY DEF IsInjective
  <2>1. i + a = i + b
    BY <1>3 DEF Distinct, IsInjective
  <2> QED
    BY <1>1, <1>3, <2>1
<1>6. ASSUME NEW j \in DOMAIN rest
      PROVE  rest[j] \notin t.tried
  BY <1>2, <1>3 DEF Distinct, IsInjective
<1>7. Distinct(t)
  BY <1>2, <1>4, <1>5, <1>6 DEF Distinct
<1>8. Spent(t)
  <2>1. ASSUME t.kind # "media" PROVE t.attempts + Len(t.chain) <= MaxFallbackAttempts
    <3>1. s.attempts + Len(s.chain) <= MaxFallbackAttempts
      BY <1>2, <2>1
    <3>2. t.attempts = s.attempts + 1 /\ Len(t.chain) = Len(s.chain) - i
      BY <1>2, <1>3
    <3> QED
      BY <1>1, <3>1, <3>2, RoutingAssumption
  <2>2. t.kind = "media" => t.attempts <= 1
    BY <1>1, <1>2
  <2> QED
    BY <1>2, <2>1, <2>2 DEF Spent
<1> QED
  BY <1>7, <1>8 DEF Within, t, rest

\* The attempt loop, whether it ends in a call or in a punt.
LEMMA ProceedWithin ==
  ASSUME NEW r \in Requests, NEW s \in RequestState, NEW table, NEW totals, NEW history,
         Distinct(s),
         s.kind # "media" => s.attempts + Len(s.chain) <= MaxFallbackAttempts,
         s.kind = "media" => s.attempts = 0,
         Proceed(r, s, table, totals, history)
  PROVE  WithinStep(r)
<1> DEFINE routable == {i \in DOMAIN s.chain : Routable(table, s.chain[i], clock)}
<1>1. CASE request' = [request EXCEPT ![r] = Finish(s, "punt")]
  <2> DEFINE t == Finish(s, "punt")
  <2>1. /\ t.pc = "done" /\ t.kind = s.kind /\ t.attempts = s.attempts
        /\ t.tried = s.tried /\ t.chain = <<>>
    BY DEF Finish, RequestState
  <2>2. request' = [request EXCEPT ![r] = t]
    BY <1>1
  <2> HIDE DEF t
  <2>3. DOMAIN t.chain = {} /\ Len(t.chain) = 0
    BY <2>1
  <2>4. s.attempts + Len(s.chain) <= MaxFallbackAttempts
          => s.attempts <= MaxFallbackAttempts
    BY RoutingAssumption, LenProperties DEF RequestState
  <2>5. Distinct(t)
    BY <2>1, <2>3 DEF Distinct, IsInjective
  <2>6. Spent(t)
    BY <2>1, <2>3, <2>4 DEF Spent, RequestState
  <2> QED
    BY <2>2, <2>5, <2>6 DEF WithinStep, Within
<1>2. ASSUME NEW i \in routable,
             LET node == s.chain[i]
                 passed == Touch(table, {s.chain[j] : j \in 1..(i - 1)})
             IN  \E next \in AfterIsRoutable(passed, node, clock) :
                   request' = [request EXCEPT ![r] =
                        Called(s, node, SubSeq(s.chain, i + 1, Len(s.chain)),
                               next[node].state = "half_open")]
      PROVE  WithinStep(r)
  <2>1. PICK next :
          request' = [request EXCEPT ![r] =
             Called(s, s.chain[i], SubSeq(s.chain, i + 1, Len(s.chain)),
                    next[s.chain[i]].state = "half_open")]
    BY <1>2
  <2>2. Within(Called(s, s.chain[i], SubSeq(s.chain, i + 1, Len(s.chain)),
                      next[s.chain[i]].state = "half_open"))
    BY CalledWithin
  <2> QED
    BY <2>1, <2>2 DEF WithinStep
<1> QED
  BY <1>1, <1>2 DEF Proceed

LEMMA OrdersDistinct ==
  ASSUME NEW S \in SUBSET Keys, NEW n \in Nat, NEW chain \in Orders(S, n)
  PROVE  /\ chain \in Seq(Keys)
         /\ Len(chain) = n
         /\ IsInjective(chain)
BY DEF Orders

\* A request that has not called anybody yet, with a chain of different nodes.
LEMMA ChainedDistinct ==
  ASSUME NEW s \in RequestState, s.attempts = 0, s.tried = {},
         NEW chain \in Seq(Keys), IsInjective(chain), NEW t,
         t = [s EXCEPT !.chain = chain]
  PROVE  /\ t \in RequestState
         /\ Distinct(t)
         /\ t.kind = s.kind /\ t.attempts = 0 /\ t.chain = chain
<1>1. t \in RequestState
  BY ChainTyped
<1>2. t.kind = s.kind /\ t.attempts = 0 /\ t.tried = {} /\ t.chain = chain
  BY DEF RequestState
<1> QED
  BY <1>1, <1>2, FS_EmptySet DEF Distinct

LEMMA RouteChatWithin ==
  ASSUME NEW r \in Requests, NEW s \in RequestState, s.kind # "media",
         s.attempts = 0, s.tried = {}, NEW discovered \in SUBSET Keys, NEW preferred,
         RouteChat(r, s, discovered, preferred)
  PROVE  WithinStep(r)
<1> DEFINE ready == Peeked(discovered)
           fanout == IF Cardinality(ready) < MaxFallbackAttempts
                       THEN Cardinality(ready) ELSE MaxFallbackAttempts
<1>1. ready \in SUBSET Keys /\ Cardinality(ready) \in Nat
  BY FS_Subset, FS_CardinalityType, RoutingAssumption DEF Peeked
<1>2. PICK chain \in Orders(ready, fanout) :
        Proceed(r, [s EXCEPT !.chain = chain], bindings, counters, seen)
  BY DEF RouteChat
<1>3. fanout \in Nat /\ fanout <= MaxFallbackAttempts
  BY <1>1, RoutingAssumption
<1> HIDE DEF ready, fanout
<1>4. chain \in Seq(Keys) /\ Len(chain) = fanout /\ IsInjective(chain)
  BY <1>1, <1>2, <1>3, OrdersDistinct
<1> DEFINE t == [s EXCEPT !.chain = chain]
<1>5. /\ t \in RequestState /\ Distinct(t)
      /\ t.kind = s.kind /\ t.attempts = 0 /\ t.chain = chain
  BY <1>4, ChainedDistinct
<1>6. Proceed(r, t, bindings, counters, seen)
  BY <1>2
<1> HIDE DEF t
<1>7. t.attempts + Len(t.chain) <= MaxFallbackAttempts
  BY <1>3, <1>4, <1>5
<1> QED
  BY <1>5, <1>6, <1>7, ProceedWithin

-----------------------------------------------------------------------------
(* Every action of a request keeps the bounds.                             *)

LEMMA ArrivalWithin ==
  ASSUME FanInv, NEW r \in Requests, Arrival(r)
  PROVE  WithinStep(r)
<1>1. request[r] \in RequestState /\ Within(request[r])
  BY DEF FanInv, IInv, TypeOK, AllWithin
<1>2. CASE request[r].pc # "new"
  BY <1>2 DEF Arrival, ReceiveChat, ReceiveAuto, ReceiveMedia, ReceiveUnknown, ReceiveRefused
<1>3. SUFFICES ASSUME request[r].pc = "new" PROVE WithinStep(r)
  BY <1>2
<1>4. request[r].attempts = 0 /\ request[r].tried = {}
  BY <1>1, <1>3 DEF Within, Spent
<1>5. ASSUME NEW kind \in {"chat", "stream"}, NEW discovered \in SUBSET Keys,
             ReceiveChat(r, kind, discovered)
      PROVE  WithinStep(r)
  <2> DEFINE s == [request[r] EXCEPT !.kind = kind]
  <2>1. /\ s \in RequestState /\ s.kind # "media" /\ s.attempts = 0 /\ s.tried = {}
        /\ RouteChat(r, s, discovered, NoKey)
    BY <1>1, <1>4, <1>5 DEF ReceiveChat, RequestState, Kinds
  <2> HIDE DEF s
  <2> QED
    BY <2>1, RouteChatWithin
<1>6. ASSUME NEW kind \in {"chat", "stream"}, NEW discovered \in SUBSET Keys,
             ReceiveAuto(r, kind, discovered)
      PROVE  WithinStep(r)
  <2> DEFINE s == [request[r] EXCEPT !.pc = "selecting", !.kind = kind,
                     !.discovered = discovered, !.ready = Peeked(discovered)]
  <2>1. request' = [request EXCEPT ![r] = s]
    BY <1>6 DEF ReceiveAuto
  <2>2. /\ s.kind = kind /\ s.pc = "selecting" /\ s.attempts = request[r].attempts
        /\ s.tried = request[r].tried /\ s.chain = request[r].chain
    BY <1>1 DEF RequestState
  <2> HIDE DEF s
  <2>3. Distinct(s)
    BY <1>1, <2>2 DEF Within, Distinct
  <2>4. request[r].attempts + Len(request[r].chain) <= MaxFallbackAttempts
    BY <1>1, <1>3 DEF Within, Spent
  <2>5. Spent(s)
    BY <1>4, <2>2, <2>4 DEF Spent
  <2> QED
    BY <2>1, <2>3, <2>5 DEF WithinStep, Within
<1>7. ASSUME NEW discovered \in SUBSET Keys, ReceiveMedia(r, discovered)
      PROVE  WithinStep(r)
  <2>1. PICK chain \in Orders(discovered, Cardinality(discovered)) :
          Proceed(r, [request[r] EXCEPT !.kind = "media", !.chain = chain],
                  bindings, counters, seen)
    BY <1>7 DEF ReceiveMedia, MediaChains
  <2>2. Cardinality(discovered) \in Nat
    BY FS_Subset, FS_CardinalityType, RoutingAssumption
  <2>3. chain \in Seq(Keys) /\ IsInjective(chain)
    BY <2>1, <2>2, OrdersDistinct
  <2> DEFINE s == [request[r] EXCEPT !.kind = "media"]
             t == [s EXCEPT !.chain = chain]
  <2>4. /\ s \in RequestState /\ s.attempts = 0 /\ s.tried = {} /\ s.kind = "media"
    BY <1>1, <1>4 DEF RequestState, Kinds
  <2>5. Proceed(r, t, bindings, counters, seen)
    BY <2>1
  <2> HIDE DEF s
  <2>6. /\ t \in RequestState /\ Distinct(t)
        /\ t.kind = "media" /\ t.attempts = 0
    BY <2>3, <2>4, ChainedDistinct
  <2> HIDE DEF t
  <2> QED
    BY <2>5, <2>6, ProceedWithin
<1>8. CASE \E answer \in Answers : request' = [request EXCEPT ![r] = Finish(request[r], answer)]
  BY <1>1, <1>8, FinishWithin DEF WithinStep
<1>9. CASE ReceiveUnknown(r) \/ ReceiveRefused(r)
  <2>1. "not_found" \in Answers /\ "refused" \in Answers
    BY DEF Answers
  <2> QED
    BY <1>8, <1>9, <2>1 DEF ReceiveUnknown, ReceiveRefused
<1> QED
  BY <1>5, <1>6, <1>7, <1>9 DEF Arrival

LEMMA ProgressWithin ==
  ASSUME FanInv, NEW r \in Requests, Progress(r)
  PROVE  WithinStep(r)
<1>1. /\ request[r] \in RequestState /\ Within(request[r])
      /\ Distinct(request[r]) /\ Spent(request[r])
  BY DEF FanInv, IInv, TypeOK, AllWithin, Within
<1>2. ASSUME NEW answer \in Answers,
             request' = [request EXCEPT ![r] = Finish(request[r], answer)]
      PROVE  WithinStep(r)
  BY <1>1, <1>2, FinishWithin DEF WithinStep
<1>3. \A a \in {"ok", "client_error", "server_error", "bad_gateway", "punt", "aborted"} :
        a \in Answers
  BY DEF Answers
<1>4. ASSUME NEW preferred \in Keys \cup {NoKey}, Selected(r, preferred)
      PROVE  WithinStep(r)
  <2>1. CASE preferred = NoKey
    BY <1>2, <1>3, <1>4, <2>1 DEF Selected
  <2>2. CASE preferred # NoKey
    <3>1. /\ request[r].pc = "selecting"
          /\ RouteChat(r, request[r], request[r].discovered, preferred)
      BY <1>4, <2>2 DEF Selected
    <3>2. request[r].discovered \in SUBSET Keys
      BY <1>1 DEF RequestState
    <3>3. request[r].kind # "media" /\ request[r].attempts = 0 /\ request[r].tried = {}
      BY <1>1, <3>1 DEF Spent
    <3> QED
      BY <1>1, <3>1, <3>2, <3>3, RouteChatWithin
  <2> QED
    BY <2>1, <2>2
<1>5. ASSUME AttemptFails(r) PROVE WithinStep(r)
  <2>1. /\ request[r].kind # "media"
        /\ \E table : Proceed(r, request[r], table, Count(counters, "failed"),
             Recall(SeenFailure(seen, request[r].node), bindings, table))
    BY <1>5 DEF AttemptFails, FailThenProceed
  <2> QED
    BY <1>1, <2>1, ProceedWithin DEF Spent
<1>6. ASSUME StreamOpensRetriable(r) PROVE WithinStep(r)
  <2> DEFINE s == [request[r] EXCEPT !.pc = "closing", !.node = NoKey, !.probing = FALSE]
  <2>1. request[r].kind = "stream" /\ request' = [request EXCEPT ![r] = s]
    BY <1>6 DEF StreamOpensRetriable, FailThenBecome
  <2>2. /\ s.pc = "closing" /\ s.kind = request[r].kind
        /\ s.attempts = request[r].attempts
        /\ s.tried = request[r].tried /\ s.chain = request[r].chain
    BY <1>1 DEF RequestState
  <2> HIDE DEF s
  <2>3. Distinct(s) /\ Spent(s)
    BY <1>1, <2>1, <2>2 DEF Distinct, Spent
  <2> QED
    BY <2>1, <2>3 DEF WithinStep, Within
<1>7. ASSUME StreamClosed(r) PROVE WithinStep(r)
  <2>1. /\ request[r].pc = "closing"
        /\ Proceed(r, request[r], bindings, counters, seen)
    BY <1>7 DEF StreamClosed
  <2>2. request[r].kind # "media"
    BY <1>1, <2>1 DEF Spent
  <2> QED
    BY <1>1, <2>1, <2>2, ProceedWithin DEF Spent
<1>8. ASSUME MediaFails(r) PROVE WithinStep(r)
  BY <1>2, <1>3, <1>8 DEF MediaFails, FailThenBecome
<1>9. ASSUME Forwarded(r) PROVE WithinStep(r)
  BY <1>2, <1>3, <1>9
     DEF Forwarded, FailThenBecome, SucceedThenBecome, ClientErrorThenBecome
<1>10. ASSUME StreamOpens(r) PROVE WithinStep(r)
  <2> DEFINE won(answer) == [request[r] EXCEPT !.pc = "streaming", !.answer = answer,
                                               !.chain = <<>>]
  <2>1. PICK answer : request' = [request EXCEPT ![r] = won(answer)]
    BY <1>10 DEF StreamOpens, FailThenBecome, ClientErrorThenBecome
  <2>2. request[r].kind = "stream"
    BY <1>10 DEF StreamOpens
  <2> DEFINE s == won(answer)
  <2>3. /\ s.pc = "streaming" /\ s.kind = request[r].kind
        /\ s.attempts = request[r].attempts
        /\ s.tried = request[r].tried /\ s.chain = <<>>
    BY <1>1 DEF RequestState
  <2>4. request' = [request EXCEPT ![r] = s]
    BY <2>1
  <2> HIDE DEF s
  <2>5. DOMAIN s.chain = {} /\ Len(s.chain) = 0
    BY <2>3
  <2>6. s.attempts <= MaxFallbackAttempts
    BY <1>1, <2>2, <2>3, RoutingAssumption, LenProperties DEF Spent, RequestState
  <2>7. Distinct(s)
    BY <1>1, <2>3, <2>5 DEF Distinct, IsInjective
  <2>8. Spent(s)
    BY <1>1, <2>2, <2>3, <2>5, <2>6 DEF Spent, RequestState
  <2> QED
    BY <2>4, <2>7, <2>8 DEF WithinStep, Within
<1>11. ASSUME StreamEnds(r) PROVE WithinStep(r)
  <2>1. request[r].answer \in Answers
    BY <1>1 DEF RequestState
  <2> QED
    BY <1>2, <1>3, <1>11, <2>1 DEF StreamEnds, SucceedThenBecome
<1>12. ASSUME StreamBreaks(r) PROVE WithinStep(r)
  BY <1>2, <1>3, <1>12 DEF StreamBreaks, FailThenBecome
<1> QED
  BY <1>4, <1>5, <1>6, <1>7, <1>8, <1>9, <1>10, <1>11, <1>12
     DEF Progress, Answered, MediaAnswered

LEMMA AbandonWithin ==
  ASSUME FanInv, NEW r \in Requests, Abandon(r)
  PROVE  WithinStep(r)
<1>1. request[r] \in RequestState /\ Within(request[r])
  BY DEF FanInv, IInv, TypeOK, AllWithin
<1>2. "aborted" \in Answers
  BY DEF Answers
<1> QED
  BY <1>1, <1>2, FinishWithin DEF Abandon, WithinStep

LEMMA InitWithin == Init => FanInv
<1> SUFFICES ASSUME Init PROVE FanInv
  OBVIOUS
<1>1. /\ NewRequest.pc = "new" /\ NewRequest.kind = "chat" /\ NewRequest.attempts = 0
      /\ NewRequest.tried = {} /\ NewRequest.chain = <<>>
  BY DEF NewRequest
<1>2. Len(NewRequest.chain) = 0 /\ DOMAIN NewRequest.chain = {}
  BY <1>1
<1>3. Distinct(NewRequest)
  BY <1>1, <1>2, FS_EmptySet DEF Distinct, IsInjective
<1>4. Spent(NewRequest)
  BY <1>1, <1>2, RoutingAssumption DEF Spent
<1>5. AllWithin
  BY <1>3, <1>4 DEF Init, AllWithin, Within
<1> QED
  BY <1>5, InitEstablishes DEF FanInv

LEMMA NextWithin == FanInv /\ [Next]_vars => FanInv'
<1> SUFFICES ASSUME FanInv, [Next]_vars PROVE FanInv'
  OBVIOUS
<1>1. IInv'
  BY NextKeeps DEF FanInv
<1>2. ASSUME UNCHANGED request PROVE AllWithin'
  BY <1>2 DEF FanInv, AllWithin, Within, Distinct, Spent
<1>3. ASSUME NEW r \in Requests, Arrival(r) \/ Progress(r) \/ Abandon(r)
      PROVE  AllWithin'
  BY <1>3, ArrivalWithin, ProgressWithin, AbandonWithin, WithinStepKeeps
<1>4. AllWithin'
  BY <1>2, <1>3 DEF Next, Tick, vars
<1> QED
  BY <1>1, <1>4 DEF FanInv

\* One client request costs at most MaxFallbackAttempts calls, all to different nodes; a
\* media request, which may not be idempotent, costs at most one.
THEOREM FanOutAlwaysBounded == Safety => []FanOutBounded
<1>1. FanInv => FanOutBounded
  <2> SUFFICES ASSUME FanInv, NEW r \in Requests
               PROVE  /\ Cardinality(request[r].tried) = request[r].attempts
                      /\ request[r].attempts <= MaxFallbackAttempts
                      /\ request[r].kind = "media" => request[r].attempts <= 1
    BY DEF FanOutBounded
  <2>1. request[r] \in RequestState /\ Distinct(request[r]) /\ Spent(request[r])
    BY DEF FanInv, IInv, TypeOK, AllWithin, Within
  <2>2. request[r].attempts \in Nat /\ Len(request[r].chain) \in Nat
    BY <2>1, LenProperties DEF RequestState
  <2> QED
    BY <2>1, <2>2, RoutingAssumption DEF Distinct, Spent
<1> QED
  BY <1>1, InitWithin, NextWithin, PTL DEF Safety

-----------------------------------------------------------------------------
(* No handler runs in circles.                                             *)

\* Request r comes to a state from which fewer steps are left, at most n.
DownTo(r, n) ==
  \E s : /\ request' = [request EXCEPT ![r] = s]
         /\ StepsLeft(s) \in 0..n

LEMMA StepsOf ==
  ASSUME NEW s \in RequestState
  PROVE  /\ Len(s.chain) \in Nat
         /\ s.pc = "done" => StepsLeft(s) = 0
         /\ s.pc = "streaming" => StepsLeft(s) = 1
         /\ s.pc = "closing" => StepsLeft(s) = 2 * Len(s.chain) + 1
         /\ s.pc = "waiting" => StepsLeft(s) = 2 * Len(s.chain) + 2
         /\ s.pc = "selecting" => StepsLeft(s) = 2 * MaxFallbackAttempts + 3
<1>1. s.chain \in Seq(Keys)
  BY DEF RequestState
<1>2. Len(s.chain) \in Nat
  BY <1>1, LenProperties
<1> QED
  BY <1>2 DEF StepsLeft

LEMMA FinishDown ==
  ASSUME NEW s \in RequestState, NEW answer, NEW r, NEW n \in Nat,
         request' = [request EXCEPT ![r] = Finish(s, answer)]
  PROVE  DownTo(r, n)
<1> DEFINE t == Finish(s, answer)
<1>1. t.pc = "done"
  BY DEF Finish, RequestState
<1>2. request' = [request EXCEPT ![r] = t]
  OBVIOUS
<1> HIDE DEF t
<1>3. StepsLeft(t) = 0 /\ 0 \in 0..n
  BY <1>1 DEF StepsLeft
<1> QED
  BY <1>2, <1>3 DEF DownTo

\* The loop takes a binding off the chain for every call it makes.
LEMMA CalledDown ==
  ASSUME NEW s \in RequestState, NEW i \in DOMAIN s.chain, NEW probing, NEW r,
         request' = [request EXCEPT ![r] =
           Called(s, s.chain[i], SubSeq(s.chain, i + 1, Len(s.chain)), probing)]
  PROVE  DownTo(r, 2 * Len(s.chain))
<1> DEFINE chain == s.chain
           rest == SubSeq(chain, i + 1, Len(chain))
           t == Called(s, chain[i], rest, probing)
<1>1. t.pc = "waiting" /\ t.chain = rest /\ request' = [request EXCEPT ![r] = t]
  BY DEF Called, RequestState
<1>2. chain \in Seq(Keys)
  BY DEF RequestState
<1> HIDE DEF t, chain
<1>3. Len(chain) \in Nat /\ DOMAIN chain = 1..Len(chain)
  BY <1>2, LenProperties
<1>4. i \in 1..Len(chain)
  BY <1>3 DEF chain
<1>5. Len(rest) = Len(chain) - i
  BY <1>2, <1>3, <1>4, SubSeqProperties
<1> HIDE DEF rest
<1>6. StepsLeft(t) = 2 * Len(rest) + 2
  BY <1>1 DEF StepsLeft
<1>7. StepsLeft(t) \in 0..(2 * Len(chain))
  BY <1>3, <1>4, <1>5, <1>6
<1> QED
  BY <1>1, <1>7 DEF DownTo, chain

LEMMA ProceedDown ==
  ASSUME NEW r, NEW s \in RequestState, NEW table, NEW totals, NEW history,
         Proceed(r, s, table, totals, history)
  PROVE  DownTo(r, 2 * Len(s.chain))
<1>1. 2 * Len(s.chain) \in Nat
  BY StepsOf
<1>2. CASE request' = [request EXCEPT ![r] = Finish(s, "punt")]
  BY <1>1, <1>2, FinishDown
<1>3. ASSUME NEW i \in DOMAIN s.chain, NEW next,
             request' = [request EXCEPT ![r] =
               Called(s, s.chain[i], SubSeq(s.chain, i + 1, Len(s.chain)),
                      next[s.chain[i]].state = "half_open")]
      PROVE  DownTo(r, 2 * Len(s.chain))
  BY <1>3, CalledDown
<1> QED
  BY <1>2, <1>3 DEF Proceed

LEMMA RouteChatDown ==
  ASSUME NEW r, NEW s \in RequestState, NEW discovered \in SUBSET Keys, NEW preferred,
         RouteChat(r, s, discovered, preferred)
  PROVE  DownTo(r, 2 * MaxFallbackAttempts)
<1> DEFINE ready == Peeked(discovered)
           fanout == IF Cardinality(ready) < MaxFallbackAttempts
                       THEN Cardinality(ready) ELSE MaxFallbackAttempts
<1>1. ready \in SUBSET Keys /\ Cardinality(ready) \in Nat
  BY FS_Subset, FS_CardinalityType, RoutingAssumption DEF Peeked
<1>2. PICK chain \in Orders(ready, fanout) :
        Proceed(r, [s EXCEPT !.chain = chain], bindings, counters, seen)
  BY DEF RouteChat
<1>3. fanout \in Nat /\ fanout <= MaxFallbackAttempts
  BY <1>1, RoutingAssumption
<1> HIDE DEF ready, fanout
<1>4. chain \in Seq(Keys) /\ Len(chain) = fanout
  BY <1>1, <1>2, <1>3, OrdersDistinct
<1> DEFINE t == [s EXCEPT !.chain = chain]
<1>5. t \in RequestState
  BY <1>4, ChainTyped
<1>6. t.chain = chain
  BY DEF RequestState
<1>7. Proceed(r, t, bindings, counters, seen)
  BY <1>2
<1> HIDE DEF t
<1>8. DownTo(r, 2 * fanout)
  BY <1>4, <1>5, <1>6, <1>7, ProceedDown
<1>9. \A n \in 0..(2 * fanout) : n \in 0..(2 * MaxFallbackAttempts)
  BY <1>3, RoutingAssumption
<1> QED
  BY <1>8, <1>9 DEF DownTo

\* A step of a request that has arrived leaves it fewer to take.
LEMMA ProgressDown ==
  ASSUME IInv, NEW r \in Requests, Progress(r)
  PROVE  \E n \in Nat : n < StepsLeft(request[r]) /\ DownTo(r, n)
<1>1. request[r] \in RequestState
  BY DEF IInv, TypeOK
<1>2. /\ Len(request[r].chain) \in Nat /\ 2 * Len(request[r].chain) \in Nat
      /\ 2 * MaxFallbackAttempts \in Nat
      /\ request[r].pc = "streaming" => StepsLeft(request[r]) = 1
      /\ request[r].pc = "closing" => StepsLeft(request[r]) = 2 * Len(request[r].chain) + 1
      /\ request[r].pc = "waiting" => StepsLeft(request[r]) = 2 * Len(request[r].chain) + 2
      /\ request[r].pc = "selecting" => StepsLeft(request[r]) = 2 * MaxFallbackAttempts + 3
  BY <1>1, StepsOf, RoutingAssumption
<1>3. request[r].pc \in {"streaming", "closing", "waiting", "selecting"}
        => 0 < StepsLeft(request[r])
  BY <1>2
<1>4. ASSUME NEW answer, request' = [request EXCEPT ![r] = Finish(request[r], answer)],
             request[r].pc \in {"streaming", "waiting", "selecting"}
      PROVE  \E n \in Nat : n < StepsLeft(request[r]) /\ DownTo(r, n)
  BY <1>1, <1>3, <1>4, FinishDown
<1>5. ASSUME NEW preferred \in Keys \cup {NoKey}, Selected(r, preferred)
      PROVE  \E n \in Nat : n < StepsLeft(request[r]) /\ DownTo(r, n)
  <2>1. request[r].pc = "selecting" /\ request[r].discovered \in SUBSET Keys
    BY <1>1, <1>5 DEF Selected, RequestState
  <2>2. CASE preferred = NoKey
    BY <1>4, <1>5, <2>1, <2>2 DEF Selected
  <2>3. CASE preferred # NoKey
    <3>1. RouteChat(r, request[r], request[r].discovered, preferred)
      BY <1>5, <2>3 DEF Selected
    <3>2. DownTo(r, 2 * MaxFallbackAttempts)
      BY <1>1, <2>1, <3>1, RouteChatDown
    <3>3. 2 * MaxFallbackAttempts < StepsLeft(request[r])
      BY <1>2, <2>1
    <3> QED
      BY <1>2, <3>2, <3>3
  <2> QED
    BY <2>2, <2>3
<1>6. ASSUME AttemptFails(r) \/ StreamClosed(r)
      PROVE  \E n \in Nat : n < StepsLeft(request[r]) /\ DownTo(r, n)
  <2>1. /\ request[r].pc \in {"waiting", "closing"}
        /\ \E table, totals, history : Proceed(r, request[r], table, totals, history)
    BY <1>6 DEF AttemptFails, StreamClosed, FailThenProceed
  <2>2. DownTo(r, 2 * Len(request[r].chain))
    BY <1>1, <2>1, ProceedDown
  <2>3. 2 * Len(request[r].chain) < StepsLeft(request[r])
    BY <1>2, <2>1
  <2> QED
    BY <1>2, <2>2, <2>3
<1>7. ASSUME StreamOpensRetriable(r)
      PROVE  \E n \in Nat : n < StepsLeft(request[r]) /\ DownTo(r, n)
  <2> DEFINE s == [request[r] EXCEPT !.pc = "closing", !.node = NoKey, !.probing = FALSE]
             left == 2 * Len(request[r].chain) + 1
  <2>1. request[r].pc = "waiting" /\ request' = [request EXCEPT ![r] = s]
    BY <1>7 DEF StreamOpensRetriable, FailThenBecome
  <2>2. s.pc = "closing" /\ s.chain = request[r].chain
    BY <1>1 DEF RequestState
  <2> HIDE DEF s
  <2>3. StepsLeft(s) = left
    BY <2>2 DEF StepsLeft
  <2>4. left \in Nat /\ left \in 0..left /\ left < StepsLeft(request[r])
    BY <1>2, <2>1
  <2> HIDE DEF left
  <2>5. DownTo(r, left)
    BY <2>1, <2>3, <2>4 DEF DownTo
  <2> QED
    BY <2>4, <2>5
<1>8. ASSUME StreamOpens(r)
      PROVE  \E n \in Nat : n < StepsLeft(request[r]) /\ DownTo(r, n)
  <2> DEFINE won(answer) == [request[r] EXCEPT !.pc = "streaming", !.answer = answer,
                                               !.chain = <<>>]
  <2>1. PICK answer : request' = [request EXCEPT ![r] = won(answer)]
    BY <1>8 DEF StreamOpens, FailThenBecome, ClientErrorThenBecome
  <2>2. request[r].pc = "waiting"
    BY <1>8 DEF StreamOpens
  <2> DEFINE s == won(answer)
  <2>3. s.pc = "streaming"
    BY <1>1 DEF RequestState
  <2>4. request' = [request EXCEPT ![r] = s]
    BY <2>1
  <2> HIDE DEF s
  <2>5. StepsLeft(s) = 1
    BY <2>3 DEF StepsLeft
  <2>6. 1 \in 0..1 /\ 1 < StepsLeft(request[r])
    BY <1>2, <2>2
  <2>7. DownTo(r, 1)
    BY <2>4, <2>5, <2>6 DEF DownTo
  <2> QED
    BY <2>6, <2>7
<1>9. ASSUME MediaFails(r) \/ Answered(r) \/ MediaAnswered(r)
      PROVE  \E n \in Nat : n < StepsLeft(request[r]) /\ DownTo(r, n)
  <2>1. request[r].pc = "waiting"
    BY <1>9 DEF MediaFails, Answered, MediaAnswered
  <2>2. \E answer : request' = [request EXCEPT ![r] = Finish(request[r], answer)]
    BY <1>9 DEF MediaFails, Answered, MediaAnswered, Forwarded, FailThenBecome,
                SucceedThenBecome, ClientErrorThenBecome
  <2> QED
    BY <1>4, <2>1, <2>2
<1>10. ASSUME StreamEnds(r) \/ StreamBreaks(r)
       PROVE  \E n \in Nat : n < StepsLeft(request[r]) /\ DownTo(r, n)
  <2>1. request[r].pc = "streaming"
    BY <1>10 DEF StreamEnds, StreamBreaks
  <2>2. \E answer : request' = [request EXCEPT ![r] = Finish(request[r], answer)]
    BY <1>10 DEF StreamEnds, StreamBreaks, FailThenBecome, SucceedThenBecome
  <2> QED
    BY <1>4, <2>1, <2>2
<1> QED
  BY <1>5, <1>6, <1>7, <1>8, <1>9, <1>10 DEF Progress

LEMMA AbandonDown ==
  ASSUME IInv, NEW r \in Requests, Abandon(r)
  PROVE  \E n \in Nat : n < StepsLeft(request[r]) /\ DownTo(r, n)
<1>1. /\ request[r] \in RequestState
      /\ request[r].pc \in {"selecting", "waiting", "closing", "streaming"}
  BY DEF IInv, TypeOK, Abandon
<1>2. 0 < StepsLeft(request[r])
  BY <1>1, StepsOf, RoutingAssumption
<1>3. request' = [request EXCEPT ![r] = Finish(request[r], "aborted")]
  BY DEF Abandon
<1> QED
  BY <1>1, <1>2, <1>3, FinishDown

LEMMA NextDown ==
  ASSUME FanInv, [Next]_vars, NEW q \in Requests,
         request[q].pc # "new", request'[q] # request[q]
  PROVE  StepsLeft(request'[q]) < StepsLeft(request[q])
<1>1. IInv /\ request \in [Requests -> RequestState]
  BY DEF FanInv, IInv, TypeOK
<1>2. PICK r \in Requests : Arrival(r) \/ Progress(r) \/ Abandon(r)
  BY DEF Next, Tick, vars
<1>3. \E s : request' = [request EXCEPT ![r] = s]
  BY <1>1, <1>2, ArrivalWithin, ProgressWithin, AbandonWithin DEF WithinStep
<1>4. r = q
  BY <1>1, <1>3
<1>5. ~Arrival(r)
  BY <1>4 DEF Arrival, ReceiveChat, ReceiveAuto, ReceiveMedia, ReceiveUnknown, ReceiveRefused
<1>6. PICK n \in Nat : n < StepsLeft(request[r]) /\ DownTo(r, n)
  BY <1>1, <1>2, <1>5, ProgressDown, AbandonDown
<1>7. PICK s : request' = [request EXCEPT ![r] = s] /\ StepsLeft(s) \in 0..n
  BY <1>6 DEF DownTo
<1>8. request'[q] = s
  BY <1>1, <1>4, <1>7
<1>9. StepsLeft(request[q]) \in Nat
  <2>1. request[q] \in RequestState /\ 2 * MaxFallbackAttempts + 3 \in Nat
    BY <1>1, RoutingAssumption
  <2>2. Len(request[q].chain) \in Nat
    BY <2>1, StepsOf
  <2> QED
    BY <2>1, <2>2 DEF StepsLeft
<1>10. StepsLeft(s) < StepsLeft(request[q])
  BY <1>4, <1>6, <1>7, <1>9
<1> QED
  BY <1>8, <1>10

\* However requests, nodes and the breaker interleave, every step of a handler that has
\* started leaves it fewer to take: no retry, no late answer and no circuit that opens or
\* closes meanwhile sets it back, so the loop over the chain cannot run for ever.
THEOREM HandlersAlwaysRunDown == Safety => HandlersRunDown
<1>1. FanInv /\ [Next]_vars =>
        [\A r \in Requests :
           request[r].pc # "new" /\ request'[r] # request[r] =>
             StepsLeft(request'[r]) < StepsLeft(request[r])]_vars
  BY NextDown
<1> QED
  BY <1>1, InitWithin, NextWithin, PTL DEF Safety, HandlersRunDown
=============================================================================
