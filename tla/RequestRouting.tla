--------------------------- MODULE RequestRouting ---------------------------
(***************************************************************************)
(* How the router (mesh/router_app.py) spends its bindings on concurrent   *)
(* requests: chat completions with a fallback chain, streamed or not, and  *)
(* media requests that get exactly one attempt, all sharing one circuit    *)
(* breaker.  Handlers are coroutines of one event loop: between two awaits *)
(* a handler runs alone, and everything it does there is one step.         *)
(*                                                                         *)
(* All requests ask for one specialist, so a node names its binding.       *)
(***************************************************************************)
EXTENDS RuntimeHealth, Sequences, SequencesExt

CONSTANTS
  Requests,             \* client requests, each made once
  MaxFallbackAttempts,  \* MAX_FALLBACK_ATTEMPTS
  MaxClock,             \* bound: the clock stops here
  NoKey                 \* no binding

ASSUME RoutingAssumption ==
  /\ MaxFallbackAttempts \in Nat \ {0}
  /\ MaxClock \in Nat
  /\ IsFiniteSet(Keys)
  /\ NoKey \notin Keys

VARIABLES
  bindings,  \* the breaker's table
  clock,     \* time.monotonic()
  counters,  \* the breaker's aggregate counters
  request,   \* where each request's handler stands
  seen       \* history: per binding, the outcomes seen since the table last forgot it

vars == <<bindings, clock, counters, request, seen>>

Kinds == {"chat", "stream", "media"}
Answers == {"none", "ok", "client_error", "server_error", "bad_gateway",
            "not_found", "refused", "punt", "aborted"}

\* The handler of one request.  `discovered`, `ready`: the bindings in the
\* snapshot it read, and those of them the automatic selector was shown; `chain`: the
\* bindings its loop has still to try; `tried`, `probing`: history, the bindings it
\* called, and whether its last attempt was let through as a half-open probe.
RequestState ==
  [pc : {"new", "selecting", "waiting", "closing", "streaming", "done"},
   kind : Kinds,
   discovered : SUBSET Keys,
   ready : SUBSET Keys,
   chain : Seq(Keys),
   node : Keys \cup {NoKey},
   attempts : Nat,
   tried : SUBSET Keys,
   probing : BOOLEAN,
   answer : Answers]

NewRequest ==
  [pc |-> "new", kind |-> "chat", discovered |-> {}, ready |-> {},
   chain |-> <<>>, node |-> NoKey,
   attempts |-> 0, tried |-> {}, probing |-> FALSE, answer |-> "none"]

\* History: `failures` in a row, the time of the last, and whether an attempt was let
\* through since although FailureThreshold was reached.
Outcomes == [failures : Nat, last : Nat \cup {NoTime}, probed : BOOLEAN]
Unseen == [failures |-> 0, last |-> NoTime, probed |-> FALSE]

Counters == [{"succeeded", "failed", "client_errors", "punts"} -> Nat]

Init ==
  /\ bindings = [k \in {} |-> NewBinding(0)]
  /\ clock = 0
  /\ counters = [succeeded |-> 0, failed |-> 0, client_errors |-> 0, punts |-> 0]
  /\ request = [r \in Requests |-> NewRequest]
  /\ seen = [k \in Keys |-> Unseen]

-----------------------------------------------------------------------------
(* Helpers: the effects of a step, handed from one part of it to the next. *)

Count(totals, field) == [totals EXCEPT ![field] = @ + 1]

\* History after a method made table `after` of table `before`: what it evicted is
\* forgotten.
Recall(history, before, after) ==
  [k \in Keys |-> IF k \in DOMAIN before \ DOMAIN after THEN Unseen ELSE history[k]]

SeenFailure(history, node) ==
  [history EXCEPT ![node] = [failures |-> @.failures + 1, last |-> clock,
                             probed |-> FALSE]]

SeenCall(history, node, entry) ==
  [history EXCEPT ![node].probed = @ \/ entry.state = "half_open"]

SeenSuccess(history, node) == [history EXCEPT ![node] = Unseen]

Touch(table, nodes) ==
  [k \in DOMAIN table |-> IF k \in nodes THEN Touched(table[k], clock) ELSE table[k]]

Finish(state, answer) ==
  [state EXCEPT !.pc = "done", !.answer = answer, !.discovered = {}, !.ready = {},
                !.chain = <<>>, !.node = NoKey, !.probing = FALSE]

\* Mutant: the binding that is called stays in the chain.
CalledAndKept(state, node, rest, probing) ==
  [state EXCEPT !.pc = "waiting", !.node = node, !.attempts = @ + 1,
                !.tried = @ \cup {node}, !.discovered = {}, !.ready = {},
                !.probing = probing]

\* The state of a request that has called `node` and has `rest` still to try.
Called(state, node, rest, probing) ==
  [state EXCEPT !.pc = "waiting", !.node = node, !.attempts = @ + 1, !.chain = rest,
                !.tried = @ \cup {node}, !.discovered = {}, !.ready = {},
                !.probing = probing]

\* The rest of the attempt loop up to its next await: skip the bindings whose
\* circuit says no, then call the first that says yes, or punt if none does.
\* A binding that is skipped is in the table, so skipping only touches it.
Proceed(r, state, table, totals, history) ==
  LET chain == state.chain
      routable == {i \in DOMAIN chain : Routable(table, chain[i], clock)}
  IN
  \/ /\ routable = {}
     /\ bindings' = Touch(table, ToSet(chain))
     /\ counters' = Count(totals, "punts")
     /\ request' = [request EXCEPT ![r] = Finish(state, "punt")]
     /\ seen' = history
  \/ \E i \in routable :
     /\ \A j \in routable : i <= j
     /\ LET node == chain[i]
            passed == Touch(table, {chain[j] : j \in 1..(i - 1)})
        IN \E next \in AfterIsRoutable(passed, node, clock) :
             /\ bindings' = next
             /\ counters' = totals
             /\ request' = [request EXCEPT ![r] =
                  Called(state, node, SubSeq(chain, i + 1, Len(chain)),
                         next[node].state = "half_open")]
             /\ seen' = SeenCall(Recall(history, table, next), node, next[node])

\* The orders in which n of the bindings of S may come.  A snapshot lists bindings in
\* any order, so an order is chosen only when one is needed.
Orders(S, n) == {s \in [1..n -> S] : IsInjective(s)}

Peeked(discovered) == {k \in discovered : Routable(bindings, k, clock)}

\* chat_completions from the list of reachable bindings on: filter by peek, put the
\* selector's choice first, cut to the fan-out bound, and enter the loop.
RouteChat(r, state, discovered, preferred) ==
  LET ready == Peeked(discovered)
      fanout == IF Cardinality(ready) < MaxFallbackAttempts THEN Cardinality(ready)
                                                            ELSE MaxFallbackAttempts
  IN  \E chain \in Orders(ready, fanout) :
        /\ preferred \in ready => chain[1] = preferred
        /\ Proceed(r, [state EXCEPT !.chain = chain], bindings, counters, seen)

-----------------------------------------------------------------------------
(* Arrivals.                                                               *)

\* An explicit model: a snapshot is read and routed on without an await between.
ReceiveChat(r, kind, discovered) ==
  /\ request[r].pc = "new"
  /\ RouteChat(r, [request[r] EXCEPT !.kind = kind], discovered, NoKey)
  /\ UNCHANGED clock

\* model = "auto": the selector runs in a thread on the bindings ready now.
ReceiveAuto(r, kind, discovered) ==
  /\ request[r].pc = "new"
  /\ request' = [request EXCEPT ![r] =
       [@ EXCEPT !.pc = "selecting", !.kind = kind, !.discovered = discovered,
                 !.ready = Peeked(discovered)]]
  /\ UNCHANGED <<bindings, clock, counters, seen>>

\* The selector comes back: with no suitable specialist, which punts, or with a
\* node of the old ready set.  The old snapshot is filtered by peek once more.
Selected(r, preferred) ==
  /\ request[r].pc = "selecting"
  /\ preferred \in request[r].ready \cup {NoKey}
  /\ IF preferred = NoKey
       THEN /\ counters' = Count(counters, "punts")
            /\ request' = [request EXCEPT ![r] = Finish(@, "punt")]
            /\ UNCHANGED <<bindings, seen>>
       ELSE RouteChat(r, request[r], request[r].discovered, preferred)
  /\ UNCHANGED clock

\* JSON and multipart routes alike try all candidates, in the order of the snapshot.
MediaChains(discovered) == Orders(discovered, Cardinality(discovered))

\* A media route walks all candidates with is_routable and calls the first that
\* says yes; `discovered` are the candidates with an acceptable origin.  A specialist
\* without the route's capability has none.
ReceiveMedia(r, discovered) ==
  /\ request[r].pc = "new"
  /\ \E chain \in MediaChains(discovered) :
       Proceed(r, [request[r] EXCEPT !.kind = "media", !.chain = chain],
               bindings, counters, seen)
  /\ UNCHANGED clock

\* A body that is malformed, of another type or too large never gets to a snapshot, and
\* is not counted.
ReceiveRefused(r) ==
  /\ request[r].pc = "new"
  /\ request' = [request EXCEPT ![r] = Finish(@, "refused")]
  /\ UNCHANGED <<bindings, clock, counters, seen>>

\* The specialist is not in the snapshot: 404.
ReceiveUnknown(r) ==
  /\ request[r].pc = "new"
  /\ request' = [request EXCEPT ![r] = Finish(@, "not_found")]
  /\ counters' = Count(counters, "client_errors")
  /\ UNCHANGED <<bindings, clock, seen>>

-----------------------------------------------------------------------------
(* What comes back from the node a request is waiting for.                 *)

\* record_failure on the binding of r, then `finish` or go on with the loop.
FailThenProceed(r) ==
  \E table \in AfterFailure(bindings, request[r].node, clock) :
    Proceed(r, request[r], table, Count(counters, "failed"),
            Recall(SeenFailure(seen, request[r].node), bindings, table))

FailThenBecome(r, state) ==
  \E table \in AfterFailure(bindings, request[r].node, clock) :
    /\ bindings' = table
    /\ counters' = Count(counters, "failed")
    /\ request' = [request EXCEPT ![r] = state]
    /\ seen' = Recall(SeenFailure(seen, request[r].node), bindings, table)

SucceedThenBecome(r, state) ==
  \E table \in AfterSuccess(bindings, request[r].node, clock) :
    /\ bindings' = table
    /\ counters' = Count(counters, "succeeded")
    /\ request' = [request EXCEPT ![r] = state]
    /\ seen' = Recall(SeenSuccess(seen, request[r].node), bindings, table)

ClientErrorThenBecome(r, state) ==
  /\ counters' = Count(counters, "client_errors")
  /\ request' = [request EXCEPT ![r] = state]
  /\ UNCHANGED <<bindings, seen>>

\* Transport error, or a 502/503/504 to a request that is not streamed.
AttemptFails(r) ==
  /\ request[r].pc = "waiting"
  /\ request[r].kind # "media"
  /\ FailThenProceed(r)
  /\ UNCHANGED clock

\* A stream opened with 502/503/504: recorded, then closed, which is an await.
StreamOpensRetriable(r) ==
  /\ request[r].pc = "waiting"
  /\ request[r].kind = "stream"
  /\ FailThenBecome(r, [request[r] EXCEPT !.pc = "closing", !.node = NoKey,
                                          !.probing = FALSE])
  /\ UNCHANGED clock

\* Mutant: after the last binding of the chain nobody answers the client.
StreamClosedUnlessLast(r) ==
  /\ request[r].pc = "closing"
  /\ request[r].chain # <<>>
  /\ Proceed(r, request[r], bindings, counters, seen)
  /\ UNCHANGED clock

StreamClosed(r) ==
  /\ request[r].pc = "closing"
  /\ Proceed(r, request[r], bindings, counters, seen)
  /\ UNCHANGED clock

\* Mutant: a media request falls back like a chat.
MediaFallsBack(r) ==
  /\ request[r].pc = "waiting"
  /\ request[r].kind = "media"
  /\ FailThenProceed(r)
  /\ UNCHANGED clock

\* A media answer the router will not forward (redirect, wrong media type, too
\* large, not inline) or a transport error: 502 to the client, never a retry.
MediaFails(r) ==
  /\ request[r].pc = "waiting"
  /\ request[r].kind = "media"
  /\ FailThenBecome(r, Finish(request[r], "bad_gateway"))
  /\ UNCHANGED clock

\* Any other answer is forwarded as it is.
Forwarded(r) ==
  \/ SucceedThenBecome(r, Finish(request[r], "ok"))
  \/ ClientErrorThenBecome(r, Finish(request[r], "client_error"))
  \/ FailThenBecome(r, Finish(request[r], "server_error"))

Answered(r) ==
  /\ request[r].pc = "waiting"
  /\ request[r].kind = "chat"
  /\ Forwarded(r)
  /\ UNCHANGED clock

MediaAnswered(r) ==
  /\ request[r].pc = "waiting"
  /\ request[r].kind = "media"
  /\ Forwarded(r)
  /\ UNCHANGED clock

\* A stream is won when it opens; a bad status is recorded there and then.
StreamOpens(r) ==
  LET won(answer) == [request[r] EXCEPT !.pc = "streaming", !.answer = answer,
                                        !.chain = <<>>]
  IN
  /\ request[r].pc = "waiting"
  /\ request[r].kind = "stream"
  /\ \/ /\ request' = [request EXCEPT ![r] = won("ok")]
        /\ UNCHANGED <<bindings, counters, seen>>
     \/ ClientErrorThenBecome(r, won("client_error"))
     \/ FailThenBecome(r, won("server_error"))
  /\ UNCHANGED clock

\* The last byte was forwarded: a success, unless the status was bad already.
StreamEnds(r) ==
  /\ request[r].pc = "streaming"
  /\ IF request[r].answer = "ok"
       THEN SucceedThenBecome(r, Finish(request[r], "ok"))
       ELSE /\ request' = [request EXCEPT ![r] = Finish(@, @.answer)]
            /\ UNCHANGED <<bindings, counters, seen>>
  /\ UNCHANGED clock

\* The node died, or the client left, in mid-stream.
StreamBreaks(r) ==
  /\ request[r].pc = "streaming"
  /\ FailThenBecome(r, Finish(request[r], "aborted"))
  /\ UNCHANGED clock

\* The handler is cancelled at an await, or the client library raises something
\* that is neither an httpx.HTTPError nor an OSError: nothing is recorded.  A stream
\* that is won ends so when its generator was never started, or is cancelled where it
\* closes the node's response; StreamBreaks is the one that gets to record it.
Abandon(r) ==
  /\ request[r].pc \in {"selecting", "waiting", "closing", "streaming"}
  /\ request' = [request EXCEPT ![r] = Finish(@, "aborted")]
  /\ UNCHANGED <<bindings, clock, counters, seen>>

Tick ==
  /\ clock < MaxClock
  /\ clock' = clock + 1
  /\ UNCHANGED <<bindings, counters, request, seen>>

Progress(r) ==
  \/ \E preferred \in Keys \cup {NoKey} : Selected(r, preferred)
  \/ AttemptFails(r) \/ StreamOpensRetriable(r) \/ StreamClosed(r)
  \/ MediaFails(r) \/ Answered(r) \/ MediaAnswered(r) \/ StreamOpens(r)
  \/ StreamEnds(r) \/ StreamBreaks(r)

Arrival(r) ==
  \/ \E discovered \in SUBSET Keys :
       \/ \E kind \in {"chat", "stream"} :
            ReceiveChat(r, kind, discovered) \/ ReceiveAuto(r, kind, discovered)
       \/ ReceiveMedia(r, discovered)
  \/ ReceiveUnknown(r) \/ ReceiveRefused(r)

Next == Tick \/ \E r \in Requests : Arrival(r) \/ Progress(r) \/ Abandon(r)

\* The event loop runs every coroutine that can run, the selector returns, and the
\* client's connect, read and write timeouts end every call and every stream that
\* falls silent: a handler that has started goes on.  (A node that streams for ever
\* is not cut off; it is left out.)  Clients, time and accidents owe nothing.
Fairness == \A r \in Requests : WF_vars(Progress(r))

\* The behaviours without any promise that handlers go on.
Safety == Init /\ [][Next]_vars

Spec == Safety /\ Fairness

-----------------------------------------------------------------------------
(* Properties.                                                             *)

TypeOK ==
  /\ TableType(bindings)
  /\ clock \in Nat
  /\ counters \in Counters
  /\ request \in [Requests -> RequestState]
  /\ seen \in [Keys -> Outcomes]

\* Whatever the interleaving of requests, late answers included, every circuit is
\* in the state that its recorded outcomes call for (EntryJustified).
CircuitsJustified == TableJustified(bindings, clock)

\* Touching bindings on behalf of many requests never outgrows the table.
TableBounded == TableWithinBound(bindings)

\* The promise of the breaker, in terms of calls and outcomes only: once a node has
\* failed FailureThreshold times in a row, no request, of any kind, calls it within
\* a cooldown of the last failure, and after that only one does until an outcome is
\* recorded.  (A node the table forgot starts afresh.)
FailingNodeIsLeftAlone ==
  [][\A r \in Requests :
       LET node == request'[r].node
       IN  /\ request'[r].attempts > request[r].attempts
           /\ seen'[node].failures >= FailureThreshold
           => clock - seen'[node].last >= Cooldown /\ ~seen[node].probed]_vars

\* What the breaker holds of a node is what was seen of it since it was last forgotten.
Agrees(table, history) ==
  \A k \in Keys :
    /\ k \notin DOMAIN table => history[k] = Unseen
    /\ k \in DOMAIN table =>
         /\ history[k].failures = table[k].consecutive_failures
         /\ history[k].probed <=> table[k].state = "half_open"
         /\ table[k].state # "closed" => history[k].last = table[k].opened_at

SeenAgrees == Agrees(bindings, seen)

\* One client request costs at most MaxFallbackAttempts calls, all to different
\* nodes; a media request, which may not be idempotent, costs at most one.
FanOutBounded ==
  \A r \in Requests :
    /\ Cardinality(request[r].tried) = request[r].attempts
    /\ request[r].attempts <= MaxFallbackAttempts
    /\ request[r].kind = "media" => request[r].attempts <= 1

\* How many more steps the handler of a request that arrived may take: a call and its
\* answer for every binding left to try, the selector before them, a stream after them.
StepsLeft(state) ==
  CASE state.pc = "done"      -> 0
    [] state.pc = "streaming" -> 1
    [] state.pc = "closing"   -> 2 * Len(state.chain) + 1
    [] state.pc = "waiting"   -> 2 * Len(state.chain) + 2
    [] OTHER                  -> 2 * MaxFallbackAttempts + 3

\* No handler runs in circles: whatever it does, and whatever other requests do to the
\* breaker meanwhile, each of its steps after the arrival leaves it fewer to take.
HandlersRunDown ==
  [][\A r \in Requests :
       request[r].pc # "new" /\ request'[r] # request[r] =>
         StepsLeft(request'[r]) < StepsLeft(request[r])]_vars

\* A handler that has started finishes, whatever its nodes do.
RequestsFinish == \A r \in Requests : request[r].pc # "new" ~> request[r].pc = "done"

\* An attempt that ends in a client error leaves no half-open circuit behind that no
\* request is probing: such a circuit refuses the node although it answered.
ClientErrorDoesNotPenalize ==
  [][\A r \in Requests :
       LET node == request[r].node
           probed == \E other \in Requests :
                       request'[other].node = node /\ request'[other].probing
       IN  /\ request[r].pc = "waiting"
           /\ request'[r].answer = "client_error"
           /\ node \in DOMAIN bindings'
           => (bindings'[node].state = "half_open" => probed)]_vars
=============================================================================
