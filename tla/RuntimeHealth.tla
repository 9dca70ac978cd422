---------------------------- MODULE RuntimeHealth ----------------------------
(***************************************************************************)
(* The router's passive circuit breaker, mesh/runtime_health.py: a bounded *)
(* table of bindings (one specialist on one node) with the outcome of the  *)
(* inference attempts made through each.  Every method holds one lock from *)
(* end to end, so each is one step.  A method that touches a binding the   *)
(* full table does not hold evicts another one; the method is therefore an *)
(* operator from a table (a function from the keys it holds to their       *)
(* state) to the SET of tables it may leave behind.                        *)
(***************************************************************************)
EXTENDS Integers, FiniteSets

CONSTANTS
  Keys,              \* binding keys "specialist@node"
  FailureThreshold,  \* failure_threshold
  Cooldown,          \* cooldown_s, in clock ticks
  MaxBindings        \* max_bindings

\* The three ValueErrors of the constructor.
ASSUME BreakerAssumption ==
  /\ FailureThreshold \in Nat \ {0}
  /\ Cooldown \in Nat \ {0}
  /\ MaxBindings \in Nat \ {0}

NoTime == -1  \* opened_at is None

BindingState ==
  [state : {"closed", "open", "half_open"},
   consecutive_failures : Nat,
   opened_at : Nat \cup {NoTime},
   last_touched : Nat]

NewBinding(now) ==
  [state |-> "closed", consecutive_failures |-> 0,
   opened_at |-> NoTime, last_touched |-> now]

Touched(entry, now) == [entry EXCEPT !.last_touched = now]

-----------------------------------------------------------------------------
(* Helpers on tables.                                                      *)

Drop(table, key) == [k \in DOMAIN table \ {key} |-> table[k]]
Put(table, key, entry) ==
  [k \in DOMAIN table \cup {key} |-> IF k = key THEN entry ELSE table[k]]

\* The bindings eviction may pick: closed ones if there are any, and of those
\* the longest untouched.  Ties go by the text of the key, which is not modelled.
Evictable(table) ==
  LET closed == {k \in DOMAIN table : table[k].state = "closed"}
      candidates == IF closed # {} THEN closed ELSE DOMAIN table
  IN  {k \in candidates :
        \A other \in candidates : table[k].last_touched <= table[other].last_touched}

\* Mutant: a full table grows.
StateForWithoutEviction(table, key, now) ==
  IF key \in DOMAIN table
    THEN {[table EXCEPT ![key] = Touched(@, now)]}
    ELSE {Put(table, key, NewBinding(now))}

\* _state_for: the table after `key` was looked up, or created, at `now`.
StateFor(table, key, now) ==
  IF key \in DOMAIN table
    THEN {[table EXCEPT ![key] = Touched(@, now)]}
  ELSE IF Cardinality(DOMAIN table) < MaxBindings
    THEN {Put(table, key, NewBinding(now))}
  ELSE {Put(Drop(table, evicted), key, NewBinding(now)) : evicted \in Evictable(table)}

CooledDown(entry, now) == now - entry.opened_at >= Cooldown

\* Mutant: a half-open circuit lets everyone through.
RoutableWhileProbed(table, key, now) ==
  key \in DOMAIN table => table[key].state # "open" \/ CooledDown(table[key], now)

\* peek_routable, and the answer of is_routable: the two agree on every table.
Routable(table, key, now) ==
  key \in DOMAIN table =>
    \/ table[key].state = "closed"
    \/ /\ table[key].state = "open"
       /\ table[key].opened_at # NoTime
       /\ CooledDown(table[key], now)

\* is_routable: an open circuit that has cooled down becomes half-open, which
\* reserves the probe for the caller.
AfterIsRoutable(table, key, now) ==
  {[found EXCEPT ![key].state =
      IF @ = "open" /\ Routable(found, key, now) THEN "half_open" ELSE @] :
    found \in StateFor(table, key, now)}

\* Mutant: the failures counted so far are not reset.
AfterSuccessCountKept(table, key, now) ==
  {[found EXCEPT ![key].state = "closed", ![key].opened_at = NoTime] :
     found \in StateFor(table, key, now)}

\* record_success closes the circuit, whatever it was.
SuccessOn(entry) == NewBinding(entry.last_touched)

AfterSuccess(table, key, now) ==
  {[found EXCEPT ![key] = SuccessOn(@)] : found \in StateFor(table, key, now)}

\* record_failure: a failed probe, or one failure too many, (re)opens the circuit.
FailureOn(entry, now) ==
  LET failures == entry.consecutive_failures + 1
      opens == entry.state = "half_open" \/ failures >= FailureThreshold
  IN  [state |-> IF opens THEN "open" ELSE entry.state,
       consecutive_failures |-> failures,
       opened_at |-> IF opens THEN now ELSE entry.opened_at,
       last_touched |-> entry.last_touched]

AfterFailure(table, key, now) ==
  {[found EXCEPT ![key] = FailureOn(@, now)] : found \in StateFor(table, key, now)}

-----------------------------------------------------------------------------
(* What a table promises, whoever calls the methods.                       *)

TableType(table) ==
  /\ DOMAIN table \subseteq Keys
  /\ table \in [DOMAIN table -> BindingState]

\* An entry never lies about why it is in its state: the circuit is closed exactly
\* while fewer than FailureThreshold failures in a row were recorded, and then it
\* has no opening time; otherwise it has one, which is not in the future.  The
\* half-open state, which nothing but is_routable enters, keeps the failures of
\* the circuit it probes, so the code's `opened_at is None` branch is never taken.
EntryJustified(entry, now) ==
  /\ entry.state = "closed" <=> entry.consecutive_failures < FailureThreshold
  /\ entry.state = "closed" <=> entry.opened_at = NoTime
  /\ entry.opened_at <= now
  /\ entry.last_touched <= now

TableJustified(table, now) == \A k \in DOMAIN table : EntryJustified(table[k], now)

TableWithinBound(table) ==
  IsFiniteSet(DOMAIN table) /\ Cardinality(DOMAIN table) <= MaxBindings
=============================================================================
