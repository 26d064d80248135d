----------------------------- MODULE SpeechService -----------------------------
(***************************************************************************)
(* apps/cli/src/app/speech-runtime.ts, packages/transcript/src/client.ts   *)
(* and services/speech/worker.py: the speech process the server keeps for  *)
(* all projects.  The runtime owns a client, which owns one process at a   *)
(* time; an idle client is closed, and the next request makes another.     *)
(* Requests wait in the client's chain and are sent one at a time; to      *)
(* cancel one is to kill the process.                                      *)
(*                                                                         *)
(* The requests have one task id, as those of people who transcribe the    *)
(* same material again have.  Of a process there is the request it works   *)
(* on and what it has written and nobody has read.                         *)
(***************************************************************************)
EXTENDS Naturals, Sequences

CONSTANTS
  Request,
  None,
  MaxClients, MaxProcesses    \* bounds on the clients and the processes ever made

SpeechServiceAssumption ==
  MaxClients \in Nat /\ MaxProcesses \in Nat /\ None \notin Nat \cup Request

VARIABLES
  client,    \* the client of the runtime, or None
  closed,    \* the runtime has been closed
  rested,    \* idleMs have passed since lastUsed
  synced,    \* the environment of the service has been looked at
  clients,   \* [closed, child, chain]: the clients made
  proc,      \* [live, job, out]: the processes made
  req,       \* what becomes of each request
  aborted    \* the requests whose signal is aborted

vars == <<client, closed, rested, synced, clients, proc, req, aborted>>

\* at: "new", "syncing", "queued", "running", "done"; the process it ran on; how it
\* ended, and whose answer it got.
New == [at |-> "new", client |-> None, on |-> None, end |-> "none", by |-> None]

Init ==
  /\ client = None /\ closed = FALSE /\ rested = FALSE /\ synced = FALSE
  /\ clients = <<>> /\ proc = <<>> /\ aborted = {}
  /\ req = [r \in Request |-> New]

-----------------------------------------------------------------------------
(* The client                                                              *)

InFlight == {r \in Request : req[r].at \in {"syncing", "queued", "running"}}
Waiter(c) == {r \in Request : req[r].at = "running" /\ req[r].client = c}
Ended(r, how) == [req[r] EXCEPT !.at = "done", !.end = how]

\* stop: the process is killed and who waits for it is rejected.
Stopped(c, how) == [r \in Request |-> IF r \in Waiter(c) THEN Ended(r, how) ELSE req[r]]
Killed(c) == [p \in DOMAIN proc |-> IF p = clients[c].child THEN [proc[p] EXCEPT !.live = "killed"] ELSE proc[p]]
\* A request that ends lets the next one in the chain go, and is a use of the service.
Leave(c, left) ==
  LET chain == clients[c].chain IN
  [clients EXCEPT ![c] = [clients[c] EXCEPT !.child = left,
                                            !.chain = IF Waiter(c) = {} THEN chain ELSE Tail(chain)]]
Used(c) == rested' = (rested /\ Waiter(c) = {})

\* close of the client.
Closes(c) ==
  /\ clients' = [Leave(c, None) EXCEPT ![c].closed = TRUE]
  /\ proc' = Killed(c) /\ req' = Stopped(c, "interrupted")

\* exit and error: of the process the client has now; another one's is ignored.
Heeds(c, p) == clients[c].child = p

-----------------------------------------------------------------------------
(* The runtime                                                             *)

\* speech.worker: the client is made, or the one there is is used.
Asks(r) ==
  /\ req[r].at = "new" /\ ~closed
  /\ IF client # None THEN UNCHANGED <<client, clients>>
     ELSE /\ Len(clients) < MaxClients /\ client' = Len(clients) + 1
          /\ clients' = Append(clients, [closed |-> FALSE, child |-> None, chain |-> <<>>])
  /\ rested' = FALSE /\ req' = [req EXCEPT ![r] = [New EXCEPT !.at = "syncing", !.client = client']]
  /\ UNCHANGED <<closed, synced, proc, aborted>>

Refused(r) ==
  /\ req[r].at = "new" /\ closed /\ req' = [req EXCEPT ![r] = Ended(r, "interrupted")]
  /\ UNCHANGED <<client, closed, rested, synced, clients, proc, aborted>>

\* ensureSynced: one look for everybody; when it fails, all who wait for it fail.
Synced(r) ==
  /\ req[r].at = "syncing" /\ synced' = TRUE
  /\ clients' = [clients EXCEPT ![req[r].client].chain = Append(@, r)]
  /\ req' = [req EXCEPT ![r].at = "queued"]
  /\ UNCHANGED <<client, closed, rested, proc, aborted>>
SyncFails ==
  /\ ~synced /\ \E r \in Request : req[r].at = "syncing"
  /\ req' = [r \in Request |-> IF req[r].at = "syncing" THEN Ended(r, "failed") ELSE req[r]]
  /\ rested' = FALSE /\ UNCHANGED <<client, closed, synced, clients, proc, aborted>>

\* The chain has come to r.
Runs(r) ==
  LET c == req[r].client IN
  /\ req[r].at = "queued" /\ Head(clients[c].chain) = r
  /\ \/ /\ r \in aborted \/ clients[c].closed
        /\ req' = [req EXCEPT ![r] = Ended(r, "interrupted")] /\ rested' = FALSE
        /\ clients' = [clients EXCEPT ![c].chain = Tail(@)] /\ UNCHANGED proc
     \/ /\ r \notin aborted /\ ~clients[c].closed
        /\ IF clients[c].child # None
           THEN UNCHANGED clients /\ proc' = [proc EXCEPT ![clients[c].child].job = r]
           ELSE /\ Len(proc) < MaxProcesses /\ clients' = [clients EXCEPT ![c].child = Len(proc) + 1]
                /\ proc' = Append(proc, [live |-> "up", client |-> c, job |-> r, out |-> None])
        /\ req' = [req EXCEPT ![r] = [req[r] EXCEPT !.at = "running", !.on = clients'[c].child]] /\ UNCHANGED rested
  /\ UNCHANGED <<client, closed, synced, aborted>>

\* Nobody uses the service, and nobody did for idleMs.
RestedOnly == rested
Idle == InFlight = {} /\ rested
\* sweep, at a request of the server or by the timer.
Sweep ==
  /\ client # None /\ Idle
  /\ client' = None /\ synced' = FALSE /\ rested' = FALSE /\ Closes(client)
  /\ UNCHANGED <<closed, aborted>>

\* close, and killChildren.
Close ==
  /\ ~closed /\ closed' = TRUE /\ client' = None
  /\ IF client = None THEN UNCHANGED <<clients, proc, req>> ELSE Closes(client)
  /\ UNCHANGED <<rested, synced, aborted>>

TimePasses ==
  /\ ~rested /\ client # None /\ rested' = TRUE
  /\ UNCHANGED <<client, closed, synced, clients, proc, req, aborted>>

\* Cancelling r: of the process only while r is its request.
Abort(r) ==
  LET c == req[r].client IN
  /\ r \notin aborted /\ r \in InFlight /\ aborted' = aborted \cup {r}
  /\ IF req[r].at = "running"
     THEN proc' = Killed(c) /\ req' = Stopped(c, "interrupted") /\ clients' = Leave(c, None) /\ Used(c)
     ELSE UNCHANGED <<proc, req, clients, rested>>
  /\ UNCHANGED <<client, closed, synced>>

\* The watchdog of the request that runs.
WatchdogFires(c) ==
  /\ Waiter(c) # {} /\ proc' = Killed(c) /\ req' = Stopped(c, "stalled") /\ clients' = Leave(c, None) /\ Used(c)
  /\ UNCHANGED <<client, closed, synced, aborted>>

-----------------------------------------------------------------------------
(* The process                                                             *)

\* worker.py: an operation ends well, or with an error, and is written.  Being
\* killed takes a while.
Writes(p) ==
  /\ proc[p].live # "gone" /\ proc[p].job # None
  /\ proc' = [proc EXCEPT ![p] = [proc[p] EXCEPT !.job = None, !.out = proc[p].job]]
  /\ UNCHANGED <<client, closed, rested, synced, clients, req, aborted>>

\* dispatch: the line is for the waiter with its task id.
Reads(p) ==
  LET c == proc[p].client  r == proc[p].out IN
  /\ r # None /\ \E how \in {"ok", "failed"} :
       IF Heeds(c, p) /\ Waiter(c) # {}
       THEN /\ req' = [w \in Request |-> IF w \in Waiter(c) THEN [Ended(w, how) EXCEPT !.by = r] ELSE req[w]]
            /\ clients' = Leave(c, clients[c].child) /\ Used(c)
       ELSE UNCHANGED <<req, clients, rested>>
  /\ proc' = [proc EXCEPT ![p].out = None]
  /\ UNCHANGED <<client, closed, synced, aborted>>

\* The process ends, by itself or because it was killed.
Exits(p) ==
  LET c == proc[p].client IN
  /\ proc[p].live # "gone" /\ proc' = [proc EXCEPT ![p] = [proc[p] EXCEPT !.live = "gone", !.job = None]]
  /\ IF Heeds(c, p) THEN req' = Stopped(c, "died") /\ clients' = Leave(c, None) /\ Used(c)
     ELSE UNCHANGED <<req, clients, rested>>
  /\ UNCHANGED <<client, closed, synced, aborted>>

Next ==
  \/ \E r \in Request : Asks(r) \/ Refused(r) \/ Synced(r) \/ Runs(r) \/ Abort(r)
  \/ SyncFails \/ Sweep \/ Close \/ TimePasses
  \/ \E c \in DOMAIN clients : WatchdogFires(c)
  \/ \E p \in DOMAIN proc : Writes(p) \/ Reads(p) \/ Exits(p)

Spec == Init /\ [][Next]_vars

-----------------------------------------------------------------------------
(* Properties                                                              *)

\* What becomes of a request is its own doing: the answer is to it, its own process
\* ended under it, and only its cancel or the end of the server interrupts it; the
\* idle sweep and other people's requests do not.
OutcomeIsItsOwn ==
  \A r \in Request :
    /\ req[r].end = "ok" => req[r].by = r
    /\ req[r].end = "died" => proc[req[r].on].live = "gone"
    /\ req[r].end = "interrupted" => closed \/ r \in aborted
=============================================================================
