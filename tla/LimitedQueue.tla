---------------------------- MODULE LimitedQueue ----------------------------
(***************************************************************************)
(* createLimitedQueue of packages/queue/src/index.ts: at most Limit works  *)
(* at once, the rest in order of arrival; calls with a key share one work  *)
(* and cancel it only when the last of them has left.                      *)
(*                                                                         *)
(* A work is named by the call that created it. What runs between two      *)
(* awaits is one step; a promise that settled and the code that waits for  *)
(* it are two, and any other code may run between them.                    *)
(***************************************************************************)
EXTENDS Naturals, FiniteSets, Sequences

CONSTANTS Calls,   \* calls of run
          Limit,   \* works at once
          KeyOf,   \* the key of each call, or NoKey
          NoKey, NoWork

LimitedQueueAssumption == Limit \in Nat \ {0} /\ NoWork \notin Calls

VARIABLES
  inFlight,   \* works the queue counts as started
  waiters,    \* works that wait for their turn
  work,       \* each work: where it stands, or how it ended
  shared,     \* per key: the work a new call joins
  consumers,  \* per work: how many calls follow it
  stopped,    \* works whose controller was aborted
  aborted,    \* calls whose own signal was aborted
  call        \* each call: where it stands, the work it follows, how that ended

vars == <<inFlight, waiters, work, shared, consumers, stopped, aborted, call>>

Keys == {KeyOf[c] : c \in Calls} \ {NoKey}
Outcome == {"value", "error", "cancelled"}
OnTheirWay == {"granted", "running"}   \* they hold a place

Init ==
  /\ inFlight = 0 /\ waiters = <<>>
  /\ work = [c \in Calls |-> "none"]
  /\ shared = [k \in Keys |-> NoWork]
  /\ consumers = [c \in Calls |-> 0]
  /\ stopped = {} /\ aborted = {}
  /\ call = [c \in Calls |-> [step |-> "idle", of |-> NoWork, got |-> "value"]]

Keyed(w) == KeyOf[w] # NoKey
\* What a work sees of cancellation: its controller, or its only caller's signal.
Cancelled(w) == IF Keyed(w) THEN w \in stopped ELSE w \in aborted

\* Mutant: the entry of the key is deleted, whose work it may be by now.
ForgottenByKey(w) == [k \in Keys |-> IF KeyOf[w] = k THEN NoWork ELSE shared[k]]

\* A work ends as `how`: nobody joins it any more, and its followers are told.
Forgotten(w) == [k \in Keys |-> IF shared[k] = w THEN NoWork ELSE shared[k]]
Told(w, how) ==
  [c \in Calls |-> IF call[c].of = w /\ call[c].step = "following"
                   THEN [call[c] EXCEPT !.step = "settled", !.got = how] ELSE call[c]]

-----------------------------------------------------------------------------

Is(c, rec) == call' = [call EXCEPT ![c] = rec]

\* run(): an aborted signal is refused; a key somebody works on is joined;
\* otherwise a work takes a free place, or waits.
Refuse(c) ==
  /\ call[c].step = "idle" /\ c \in aborted
  /\ Is(c, [call[c] EXCEPT !.step = "done", !.got = "cancelled"])
  /\ UNCHANGED <<inFlight, waiters, work, shared, consumers, stopped, aborted>>

Follows(c, w) ==
  /\ Is(c, [call[c] EXCEPT !.step = "following", !.of = w])
  /\ consumers' = [consumers EXCEPT ![w] = @ + 1]

Join(c) ==
  /\ call[c].step = "idle" /\ c \notin aborted
  /\ Keyed(c) /\ shared[KeyOf[c]] # NoWork
  /\ Follows(c, shared[KeyOf[c]])
  /\ UNCHANGED <<inFlight, waiters, work, shared, stopped, aborted>>

Start(c) ==
  /\ call[c].step = "idle" /\ c \notin aborted
  /\ Keyed(c) => shared[KeyOf[c]] = NoWork
  /\ IF inFlight < Limit
     THEN /\ inFlight' = inFlight + 1
          /\ work' = [work EXCEPT ![c] = "granted"]
          /\ UNCHANGED waiters
     ELSE /\ work' = [work EXCEPT ![c] = "waiting"]
          /\ waiters' = Append(waiters, c)
          /\ UNCHANGED inFlight
  /\ shared' = [k \in Keys |-> IF k = KeyOf[c] THEN c ELSE shared[k]]
  /\ Follows(c, c)
  /\ UNCHANGED <<stopped, aborted>>

\* The promise of acquire() has resolved and runUnkeyed goes on.
Begin(w) ==
  /\ work[w] = "granted"
  /\ work' = [work EXCEPT ![w] = "running"]
  /\ UNCHANGED <<inFlight, waiters, shared, consumers, stopped, aborted, call>>

\* Mutant: the place is freed, and the next waiter is left where it is.
ReleaseToNobody(ended) ==
  /\ inFlight' = inFlight - 1
  /\ work' = ended
  /\ UNCHANGED waiters

\* release(): the place goes to the waiter at the head, if there is one.
Release(ended) ==
  IF waiters = <<>>
  THEN inFlight' = inFlight - 1 /\ work' = ended /\ UNCHANGED waiters
  ELSE /\ waiters' = Tail(waiters)
       /\ work' = [ended EXCEPT ![Head(waiters)] = "granted"]
       /\ UNCHANGED inFlight

\* The work ends; one that has been cancelled may notice, or not.
End(w) ==
  /\ work[w] = "running"
  /\ \E how \in Outcome :
       /\ how = "cancelled" => Cancelled(w)
       /\ Release([work EXCEPT ![w] = "ended"])
       /\ call' = Told(w, how)
  /\ shared' = Forgotten(w)
  /\ UNCHANGED <<consumers, stopped, aborted>>

\* onAbort of a waiter: out of the queue, wherever it stands (indexOf, splice).
Without(w) ==
  IF ~\E i \in DOMAIN waiters : waiters[i] = w THEN waiters
  ELSE LET idx == CHOOSE i \in DOMAIN waiters : waiters[i] = w
       IN [i \in 1 .. Len(waiters) - 1 |-> waiters[IF i < idx THEN i ELSE i + 1]]

\* The caller gives up. A call of its own leaves the queue; what it runs hears
\* of it through the signal. A follower is told, and its work is not.
Abort(c) ==
  /\ c \notin aborted
  /\ aborted' = aborted \cup {c}
  /\ IF ~Keyed(c) /\ work[c] = "waiting"
     THEN /\ waiters' = Without(c)
          /\ work' = [work EXCEPT ![c] = "ended"]
          /\ call' = Told(c, "cancelled")
     ELSE /\ Is(c, IF Keyed(c) /\ call[c].step = "following"
                   THEN [call[c] EXCEPT !.step = "settled", !.got = "cancelled"] ELSE call[c])
          /\ UNCHANGED <<waiters, work>>
  /\ UNCHANGED <<inFlight, shared, consumers, stopped>>

LastOne(c) == consumers[call[c].of] = 1
Started(w) == work[w] \in {"running", "ended"}

\* A call without a key, or whose work others still follow, is over.
Leave(c) ==
  /\ call[c].step = "settled"
  /\ Keyed(c) => ~LastOne(c)
  /\ consumers' = [consumers EXCEPT ![call[c].of] = @ - 1]
  /\ Is(c, [call[c] EXCEPT !.step = "done"])
  /\ UNCHANGED <<inFlight, waiters, work, shared, stopped, aborted>>

\* The last one out stops the work. One that has not begun is forgotten first, so
\* that nobody joins it; a waiter leaves the queue.
LastLeaves(c) ==
  LET w == call[c].of IN
  /\ call[c].step = "settled" /\ Keyed(c) /\ LastOne(c)
  /\ consumers' = [consumers EXCEPT ![w] = 0]
  /\ shared' = IF Started(w) THEN shared ELSE Forgotten(w)
  /\ stopped' = stopped \cup {w}
  /\ waiters' = Without(w)
  /\ work' = IF work[w] = "waiting" THEN [work EXCEPT ![w] = "ended"] ELSE work
  /\ Is(c, [call[c] EXCEPT !.step = IF c \in aborted /\ call[c].got # "value" /\ Started(w) THEN "draining" ELSE "done"])
  /\ UNCHANGED <<inFlight, aborted>>

\* ... and waits for a work it has stopped.
Drained(c) ==
  /\ call[c].step = "draining" /\ work[call[c].of] = "ended"
  /\ Is(c, [call[c] EXCEPT !.step = "done"])
  /\ UNCHANGED <<inFlight, waiters, work, shared, consumers, stopped, aborted>>

Advance(c) ==
  Begin(c) \/ End(c) \/ Leave(c) \/ LastLeaves(c) \/ Drained(c)

Next == \E c \in Calls : Refuse(c) \/ Join(c) \/ Start(c) \/ Abort(c) \/ Advance(c)

(* Promises settle, and the works that run end. *)
Spec == Init /\ [][Next]_vars
Fairness == \A c \in Calls : WF_vars(Advance(c))

-----------------------------------------------------------------------------

\* "mantém em execução no máximo o limite": the count is that of the works that
\* hold a place, never above the limit, and no place is free while anybody
\* waits: neither an abort nor an end loses one.
PlacesAreAccounted ==
  /\ inFlight = Cardinality({w \in Calls : work[w] \in OnTheirWay})
  /\ inFlight <= Limit
  /\ waiters # <<>> => inFlight = Limit

\* Calls of one key that wait for a work wait for the same one, and it is the
\* one that a new call would join.
OneWorkPerKey ==
  \A c \in Calls :
    call[c].step = "following" /\ Keyed(c) => shared[KeyOf[c]] = call[c].of

\* Whoever calls gets an answer, whoever gives up before, during or after it.
EveryCallEnds == \A c \in Calls : call[c].step = "following" ~> call[c].step = "done"

\* "cancelar um consumidor não cancela trabalho compartilhado" (queue.test.ts): a
\* call that nobody aborted does not end in a cancellation.
OnlyOwnCancel ==
  \A c \in Calls :
    call[c].step = "done" /\ call[c].got = "cancelled" => c \in aborted
=============================================================================
