--------------------------- MODULE EditReservation ---------------------------
(***************************************************************************)
(* Who may edit a project: edit-reservation.ts on the server, and in each  *)
(* page edit-reservation-ui.js and createTabIdentity of project-path.js.   *)
(*                                                                         *)
(* A page acquires the reservation, signals every 20 s, gives it up when it *)
(* is left, and may take it from somebody else. Requests and replies travel *)
(* on their own: late, lost, in any order. A tab that was duplicated has   *)
(* its original's id until the original objects.                           *)
(*                                                                         *)
(* Time is the age of ultimoSinal in ticks. A section under                *)
(* withProjectWrite is one step; none waits for the lock as long as a tick. *)
(***************************************************************************)
EXTENDS Naturals, FiniteSets

CONSTANTS Page,
          TTL,        \* EDIT_RESERVATION_TTL_MS, in ticks
          MaxIds,     \* tab ids that may be in use at a time
          MaxEvents,  \* bound: takeovers, pages left, signals too late, losses
          First,      \* the page that is there first
          Nobody

VARIABLES
  file,      \* edit-reservation.json: an id and the age of its signal, or Nobody
  life,      \* per page: where it is between loading and closing
  id,        \* per page: its tab id
  told,      \* pages that know of another owner (currentOwner)
  changing,  \* pages whose id changed and is not confirmed (identityChanging)
  again,     \* pages with an acquire waiting in acquireQueue
  req,       \* per page and kind: a request under way
  hail,      \* messages on the BroadcastChannel
  events     \* bound: how many so far

pages == <<life, id, told, changing, again>>
vars == <<file, pages, req, hail, events>>

Ids == 1 .. MaxIds
Kind == {"acquire", "beat", "take", "release"}
NoRequest == [step |-> "none", id |-> 0, ok |-> FALSE]
Shown == {"opening", "open", "beating"}

Init ==
  /\ file = Nobody
  /\ life = [p \in Page |-> IF p = First THEN "opening" ELSE "closed"]
  /\ id = [p \in Page |-> IF p = First THEN 1 ELSE 0]
  /\ told = {} /\ changing = {} /\ again = {}
  /\ req = [p \in Page |-> [k \in Kind |-> NoRequest]]
  /\ hail = {}
  /\ events = 0

Sent(p, k) == [req EXCEPT ![p][k] = [NoRequest EXCEPT !.step = "sent", !.id = id[p]]]
Event == events < MaxEvents /\ events' = events + 1

\* A random id: none that anybody has, or is on its way.
UsedIds ==
  {id[p] : p \in Page} \cup {req[p][k].id : p \in Page, k \in Kind}
  \cup {m.id : m \in hail} \cup (IF file = Nobody THEN {} ELSE {file.id})
NewId == CHOOSE n \in Ids \ UsedIds : \A m \in Ids \ UsedIds : n <= m

Idle(p, k) == req[p][k].step = "none"

-----------------------------------------------------------------------------
(* The page.                                                               *)

\* A tab opens: a new id, or the one in its sessionStorage, which it had before
\* or which was copied from the tab it duplicates. It says hello with it.
Open(p) ==
  /\ life[p] = "closed" /\ \A k \in Kind \ {"release"} : Idle(p, k)
  /\ \/ id' = [id EXCEPT ![p] = NewId]
     \/ \E q \in Page :
          /\ id[q] # 0 /\ (q = p \/ life[q] # "closed")
          /\ id' = [id EXCEPT ![p] = id[q]]
  /\ life' = [life EXCEPT ![p] = "opening"]
  /\ hail' = {m \in hail : m.to # p} \cup
             {[type |-> "hello", id |-> id'[p], to |-> q, from |-> p] :
                q \in {q \in Page \ {p} : life[q] # "closed"}}
  /\ UNCHANGED <<file, told, changing, again, req, events>>

\* A page that the browser keeps frozen is discarded when a message is for it.
Discard(m) ==
  /\ m \in hail /\ life[m.to] = "hidden"
  /\ life' = [life EXCEPT ![m.to] = "closed"]
  /\ hail' = {x \in hail : x.to # m.to}
  /\ told' = told \ {m.to} /\ changing' = changing \ {m.to}
  /\ UNCHANGED <<file, id, again, req, events>>

\* A page of the id that a new page greets with objects.
Hello(m) ==
  /\ m \in hail /\ m.type = "hello" /\ life[m.to] # "hidden"
  /\ hail' = (hail \ {m}) \cup
       (IF life[m.to] # "closed" /\ id[m.to] = m.id
        THEN {[type |-> "conflict", id |-> m.id, to |-> m.from, from |-> m.to]} ELSE {})
  /\ UNCHANGED <<file, pages, req, events>>

\* Mutant: after the first 50 ms no objection is heard.
ObjectedInTime(p, m) == life[p] = "opening" /\ id[p] = m.id

Objected(p, m) == life[p] # "closed" /\ id[p] = m.id

\* changeId and its listener: read-only until the server confirms the new id.
Conflict(m) ==
  LET p == m.to IN
  /\ m \in hail /\ m.type = "conflict" /\ life[p] # "hidden"
  /\ hail' = hail \ {m}
  /\ IF Objected(p, m)
     THEN /\ id' = [id EXCEPT ![p] = NewId]
          /\ changing' = changing \cup {p}
          /\ again' = again \cup {p}
     ELSE UNCHANGED <<id, changing, again>>
  /\ UNCHANGED <<file, life, told, req, events>>

\* 50 ms after hello, or when a page comes back: resume() asks for the
\* reservation.
Resume(p) ==
  /\ life[p] = "opening" \/ life[p] = "hidden"
  /\ life' = [life EXCEPT ![p] = "open"]
  /\ again' = again \cup {p}
  /\ UNCHANGED <<file, id, told, changing, req, hail, events>>

\* acquireQueue: one at a time, each with the id of its moment.
Acquire(p) ==
  /\ p \in again /\ life[p] \in Shown /\ Idle(p, "acquire")
  /\ again' = again \ {p}
  /\ req' = Sent(p, "acquire")
  /\ UNCHANGED <<file, life, id, told, changing, hail, events>>

Beat(p) ==
  /\ life[p] = "beating" /\ Idle(p, "beat")
  /\ req' = Sent(p, "beat")
  /\ UNCHANGED <<file, pages, hail, events>>

\* The button is only there when somebody else is known to edit.
Take(p) ==
  /\ life[p] \in Shown /\ p \in told /\ Idle(p, "take")
  /\ Event
  /\ req' = Sent(p, "take")
  /\ UNCHANGED <<file, pages, hail>>

\* pagehide: the timer stops and a beacon gives the reservation up. The page is
\* kept to come back, or gone, and the answers to what it asked with it.
Hide(p) ==
  /\ life[p] \in Shown /\ Idle(p, "release")
  /\ Event
  /\ req' = [req EXCEPT ![p] = [k \in Kind |->
                IF k = "release" THEN [NoRequest EXCEPT !.step = "sent", !.id = id[p]]
                ELSE IF @[k].step = "answered" THEN NoRequest ELSE @[k]]]
  /\ again' = again \ {p}
  /\ \/ /\ life' = [life EXCEPT ![p] = "hidden"]
        /\ UNCHANGED <<told, changing>>
     \/ /\ life' = [life EXCEPT ![p] = "closed"]
        /\ told' = told \ {p} /\ changing' = changing \ {p}
  /\ UNCHANGED <<file, id, hail>>

\* A reply arrives, and counts if the page still has the id that it was for; the timer starts after the acquire of resume(). A take that
\* succeeds reloads the project, a conflict makes the page read-only.
Reply(p, k) ==
  LET r == req[p][k] IN
  /\ r.step = "answered"
  /\ req' = [req EXCEPT ![p][k] = NoRequest]
  /\ life' = [life EXCEPT ![p] =
                IF k = "acquire" /\ @ = "open" THEN "beating" ELSE @]
  /\ IF r.id = id[p]
     THEN /\ told' = IF r.ok THEN told \ {p} ELSE told \cup {p}
          /\ changing' = IF r.ok \/ k = "acquire" THEN changing \ {p} ELSE changing
      ELSE UNCHANGED <<told, changing>>
  /\ UNCHANGED <<file, id, again, hail, events>>

\* A request or its reply is lost: fetch throws, and resume() starts the timer
\* all the same.
Lose(p, k) ==
  /\ ~Idle(p, k) /\ req[p][k].step \in {"sent", "answered"}
  /\ Event
  /\ req' = [req EXCEPT ![p][k] = NoRequest]
  /\ life' = [life EXCEPT ![p] =
                IF k = "acquire" /\ @ = "open" THEN "beating" ELSE @]
  /\ UNCHANGED <<file, id, told, changing, again, hail>>

-----------------------------------------------------------------------------
(* The server.                                                             *)

\* vigente: the signal is not too old.
HeldByOther(r) == file # Nobody /\ file.age <= TTL /\ file.id # r.id

\* gravar.
Owns(r) == file' = [id |-> r.id, age |-> 0]
Answers(p, k, ok) ==
  req' = [req EXCEPT ![p][k] = IF life[p] \notin Shown THEN NoRequest
                               ELSE [@ EXCEPT !.step = "answered", !.ok = ok]]

\* Mutant: the second section of a heartbeat takes what was free in the first.
ObterUnchecked(p, k) ==
  IF k = "acquire" /\ HeldByOther(req[p][k])
  THEN Answers(p, k, FALSE) /\ UNCHANGED file
  ELSE Owns(req[p][k]) /\ Answers(p, k, TRUE)

\* obter: refused while another owner's signal is fresh.
Obter(p, k) ==
  IF HeldByOther(req[p][k])
  THEN Answers(p, k, FALSE) /\ UNCHANGED file
  ELSE Owns(req[p][k]) /\ Answers(p, k, TRUE)

\* sinal: renews its own, however old. Otherwise null, and the handler goes on
\* to obter in another section.
Sinal(p) ==
  LET r == req[p]["beat"] IN
  IF HeldByOther(r) THEN Answers(p, "beat", FALSE) /\ UNCHANGED file
  ELSE IF file # Nobody /\ file.id = r.id THEN Owns(r) /\ Answers(p, "beat", TRUE)
  ELSE /\ req' = [req EXCEPT ![p]["beat"].step = "second"]
       /\ UNCHANGED file

Section(p) ==
  /\ \/ req[p]["acquire"].step = "sent" /\ Obter(p, "acquire")
     \/ req[p]["beat"].step = "sent" /\ Sinal(p)
     \/ req[p]["beat"].step = "second" /\ Obter(p, "beat")
     \/ /\ req[p]["take"].step = "sent"
        /\ Owns(req[p]["take"]) /\ Answers(p, "take", TRUE)
     \/ /\ req[p]["release"].step = "sent"
        /\ file' = IF file # Nobody /\ file.id = req[p]["release"].id THEN Nobody ELSE file
        /\ req' = [req EXCEPT ![p]["release"] = NoRequest]
  /\ UNCHANGED <<pages, hail, events>>

\* Time. A reservation that a page signals for grows old only if the page is
\* suspended, or slow: every such time counts.
Tick ==
  /\ file # Nobody /\ file.age <= TTL
  /\ file' = [file EXCEPT !.age = @ + 1]
  /\ IF file.age = TTL /\ \E p \in Page : life[p] \in Shown /\ id[p] = file.id
     THEN Event ELSE UNCHANGED events
  /\ UNCHANGED <<pages, req, hail>>

Next ==
  \/ \E p \in Page :
       \/ Open(p) \/ Resume(p) \/ Take(p) \/ Hide(p) \/ Acquire(p) \/ Beat(p) \/ Section(p)
       \/ \E k \in Kind : Reply(p, k) \/ Lose(p, k)
  \/ \E m \in hail : Discard(m) \/ Hello(m) \/ Conflict(m)
  \/ Tick

(* A page that is shown goes on: its timers fire, and what it sends is handled
   and answered in the end. So are messages between pages of one browser.
   Nobody has to open, leave or take over, and time need not pass. *)
Spec == Init /\ [][Next]_vars
Fairness ==
  /\ \A p \in Page :
       /\ WF_vars(life[p] = "opening" /\ Resume(p)) /\ WF_vars(Acquire(p))
       /\ WF_vars(Beat(p)) /\ WF_vars(Section(p))
       /\ WF_vars(\E k \in Kind : Reply(p, k))
  /\ WF_vars(\E m \in hail : Discard(m) \/ Hello(m) \/ Conflict(m))

-----------------------------------------------------------------------------

\* A reservation whose signal is fresh goes to somebody else only by Assumir
\* Edição: not by a late heartbeat that found nothing in its first section, nor by
\* another page's request that waited for the lock.
LeaseHolds ==
  [][\A p \in Page :
       file # Nobody /\ file.age <= TTL /\ file' # Nobody /\ file'.id # file.id
         => \E q \in Page : req[q]["take"].step = "sent" /\ req[q]["take"].id = file'.id]_vars

\* Pages of which isReadOnly is false.
Editors == {p \in Page : life[p] \in Shown} \ (told \cup changing)

\* Two pages may believe for a moment that both may edit; not for ever, be it
\* after a takeover, an expired reservation, or with a copied id.
TwoEditorsEnd ==
  \A pair \in {set \in SUBSET Page : Cardinality(set) = 2} :
    pair \subseteq Editors ~> ~(pair \subseteq Editors)
=============================================================================
