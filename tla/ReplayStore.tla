----------------------------- MODULE ReplayStore -----------------------------
(***************************************************************************)
(* The traffic replay store (mesh/replay_store.py of the tuning package)   *)
(* as operators on its ordered dictionary: a sequence of entries, the      *)
(* least recently added first.  Each operation holds the store's lock.     *)
(***************************************************************************)
EXTENDS Integers, FiniteSets, Sequences, SequencesExt

CONSTANTS
  Prompts,   \* prompt hashes
  Topics,    \* what an entry's domain may be
  MaxSize    \* max_size

ASSUME StoreAssumption == MaxSize \in Nat \ {0}

Entry(prompt, domain) == [prompt |-> prompt, domain |-> domain]

Held(store) == {e.prompt : e \in ToSet(store)}

\* The items of a sequence at some of its indices, in their order.
Nth(indices, k) == CHOOSE i \in indices : Cardinality({j \in indices : j < i}) = k - 1
ItemsAt(s, indices) == [k \in 1..Cardinality(indices) |-> s[Nth(indices, k)]]

Without(store, prompt) == ItemsAt(store, {i \in DOMAIN store : store[i].prompt # prompt})

\* The newest MaxSize.
Trimmed(store) == IF Len(store) > MaxSize THEN SubSeq(store, Len(store) - MaxSize + 1, Len(store))
                  ELSE store

\* Mutant: a prompt seen again keeps its place.
AddedInPlace(store, prompt, domain) ==
  IF prompt \in Held(store)
    THEN [i \in DOMAIN store |-> IF store[i].prompt = prompt THEN Entry(prompt, domain)
                                 ELSE store[i]]
    ELSE Trimmed(Append(store, Entry(prompt, domain)))

\* add: a prompt seen again is updated and moves to the end.
Added(store, prompt, domain) == Trimmed(Append(Without(store, prompt), Entry(prompt, domain)))

\* recent: newest first.
Recent(store, n, domain) ==
  LET items == Reverse(store)
      of == ItemsAt(items, {i \in DOMAIN items : items[i].domain = domain})
  IN IF Len(of) > n THEN SubSeq(of, 1, n) ELSE of
=============================================================================
