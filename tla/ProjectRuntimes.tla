---------------------------- MODULE ProjectRuntimes ----------------------------
(***************************************************************************)
(* apps/cli/src/app/project-root.ts, createProjectRuntimeRegistry, and the *)
(* life of a cleanup project's runtime in apps/cli/src/app/server.ts.  A   *)
(* project is opened by the first request for it and closed by a sweep     *)
(* when nobody used it for half an hour.  Every request sweeps before it   *)
(* looks for its project, a timer sweeps too, and a sweep stops and waits  *)
(* at every project it closes.                                             *)
(*                                                                         *)
(* One project of the root: that a sweep waits for others is a delay of    *)
(* its next step.  Of the runtime's work there are the preparation of the  *)
(* media (ingest), the plans that it and the requests ask for, and the     *)
(* journals all of them write.                                             *)
(***************************************************************************)
EXTENDS Naturals, Sequences

CONSTANTS
  Request, Timer,   \* who sweeps
  None,
  MaxRuntimes       \* bound on the runtimes ever made

ProjectRuntimesAssumption ==
  /\ Timer \notin Request /\ {"ingest", "plan"} \cap Request = {}
  /\ MaxRuntimes \in Nat /\ None \notin Nat \cup {"recent", "old"}

VARIABLES
  entry,      \* the project's entry in runtimes, or None
  lastUsed,   \* "recent", "old" (idleMs ago), or None
  active,     \* activeRequests of the project
  runtimes,   \* the runtimes made
  req,        \* where a request is, and in which runtime
  sweeps,     \* where a sweep is, and which entry it found
  closed      \* the registry has been closed

vars == <<entry, lastUsed, active, runtimes, req, sweeps, closed>>

Ingest == "ingest"   \* the ingest's own journal; Plan: the trace of its plan
Plan == "plan"

New == [at |-> "loading", stage |-> "new", ingest |-> "no",
        traces |-> {}, journals |-> {}, closing |-> "no", waits |-> {}, owed |-> FALSE]

Init ==
  /\ entry = None /\ lastUsed = None /\ active = 0 /\ runtimes = <<>> /\ closed = FALSE
  /\ req = [r \in Request |-> [at |-> "new", rt |-> None, creates |-> FALSE]]
  /\ sweeps = [c \in Request \cup {Timer} |-> [at |-> "none", rt |-> None]]

-----------------------------------------------------------------------------
(* A runtime                                                               *)

Terminal(rt) == rt.stage \in {"ready", "error", "cancelled"}
\* isBusy, the triage and the notes of fillers apart.
Busy(rt) ==
  \/ rt.ingest \notin {"no", "done"}
  \/ rt.ingest # "no" /\ ~Terminal(rt)

\* setStage and fail leave a cancelled job alone.
Staged(rt, stage) == IF rt.stage = "cancelled" THEN rt ELSE [rt EXCEPT !.stage = stage]

\* The part of close before its first await.
Closing(rt) == [rt EXCEPT !.stage = "cancelled", !.closing = IF rt.closing = "no" THEN "ingest" ELSE rt.closing]

\* startIngest.
WithIngest(rt) ==
  IF rt.closing # "no" \/ rt.ingest # "no" THEN rt
  ELSE [Staged(rt, "working") EXCEPT !.ingest = "running", !.journals = rt.journals \cup {Ingest}]

\* The ingest fails, or finds its job cancelled.
IngestFails(k) ==
  LET rt == runtimes[k] IN
  /\ rt.ingest = "running" /\ runtimes' = [runtimes EXCEPT ![k] = [Staged(rt, "error") EXCEPT !.ingest = "ending"]]
  /\ UNCHANGED <<entry, lastUsed, active, req, sweeps, closed>>

\* Whose plan waits for its input files: the ingest's at its end, or a request's.
Reading(k, x) ==
  IF x = Plan THEN runtimes[k].ingest = "running" ELSE req[x].at = "reading" /\ req[x].rt = k

\* A plan of x that ends takes the ingest, or the request, with it.
Ends(rt, x) == IF x = Plan THEN [rt EXCEPT !.ingest = "ending"] ELSE rt
Released(x) == IF x \in Request THEN IF active > 1 THEN active - 1 ELSE 0 ELSE active
Replied(x) == IF x \in Request THEN [req EXCEPT ![x] = [at |-> "done", rt |-> None, creates |-> FALSE]] ELSE req

RejectsNothing(rt) == FALSE
\* tracer.run: a runtime that closes starts nothing.
Rejects(rt) == rt.closing # "no"
Trace(k, x) ==
  LET rt == runtimes[k] IN
  /\ Reading(k, x) /\ rt.traces = {}
  /\ IF Rejects(rt)
     THEN /\ runtimes' = [runtimes EXCEPT ![k] = Ends(Staged(rt, "error"), x)]
          /\ active' = Released(x) /\ req' = Replied(x)
     ELSE /\ runtimes' = [runtimes EXCEPT ![k] =
               [Staged(rt, "working") EXCEPT !.traces = {x}, !.journals = rt.journals \cup {x},
                                             !.ingest = IF x = Plan THEN "tracing" ELSE rt.ingest]]
          /\ req' = IF x = Plan THEN req ELSE [req EXCEPT ![x].at = "tracing"]
          /\ UNCHANGED active
  /\ UNCHANGED <<entry, lastUsed, sweeps, closed>>

\* The plan is made, or it fails.
TraceEnds(k, x) ==
  LET rt == [runtimes[k] EXCEPT !.traces = runtimes[k].traces \ {x}] IN
  /\ x \in runtimes[k].traces
  /\ \E stage \in {"ready", "error"} : runtimes' = [runtimes EXCEPT ![k] = Ends(Staged(rt, stage), x)]
  /\ active' = Released(x) /\ req' = Replied(x)
  /\ UNCHANGED <<entry, lastUsed, sweeps, closed>>

\* The last append of a journal whose work has ended.
JournalCloses(k, x) ==
  LET rt == runtimes[k] IN
  /\ x \in rt.journals \ rt.traces /\ (x = Ingest => rt.ingest = "ending")
  /\ runtimes' = [runtimes EXCEPT ![k] =
       [rt EXCEPT !.journals = rt.journals \ {x}, !.ingest = IF x = Ingest THEN "done" ELSE rt.ingest]]
  /\ UNCHANGED <<entry, lastUsed, active, req, sweeps, closed>>

\* close: the ingest, then the traces, then the journals there are.
Drain(k) ==
  LET rt == runtimes[k] IN
  /\ runtimes' = [runtimes EXCEPT ![k] =
       CASE rt.closing = "ingest" -> [rt EXCEPT !.closing = "traces"]
         [] rt.closing = "traces" -> [rt EXCEPT !.closing = "journals", !.waits = rt.journals]
         [] OTHER -> [rt EXCEPT !.closing = "done", !.waits = {}]]
  /\ \/ rt.closing = "ingest" /\ rt.ingest \in {"no", "done"}
     \/ rt.closing = "traces" /\ rt.traces = {}
     \/ rt.closing = "journals" /\ rt.waits \cap rt.journals = {}
  /\ UNCHANGED <<entry, lastUsed, active, req, sweeps, closed>>

-----------------------------------------------------------------------------
(* The sweep                                                               *)

SweptBy(c) == sweeps' = [sweeps EXCEPT ![c] = [at |-> "done", rt |-> None]]

\* expired, taken before the first await.
StartSweep(c) ==
  /\ IF c = Timer THEN ~closed /\ sweeps[c].at \in {"none", "done"} ELSE req[c].at = "new" /\ sweeps[c].at = "none"
  /\ IF lastUsed = "old" /\ active = 0 THEN sweeps' = [sweeps EXCEPT ![c].at = "listed"] ELSE c # Timer /\ SweptBy(c)
  /\ UNCHANGED <<entry, lastUsed, active, runtimes, req, closed>>

\* The project's turn in the loop.
Looks(c) ==
  /\ sweeps[c].at = "listed"
  /\ IF entry = None THEN lastUsed' = None /\ SweptBy(c)
     ELSE UNCHANGED lastUsed /\ sweeps' = [sweeps EXCEPT ![c] = [at |-> "awaiting", rt |-> entry]]
  /\ UNCHANGED <<entry, active, runtimes, req, closed>>

ExpiredWhenListed(k) == runtimes[k].at = "open" /\ ~Busy(runtimes[k]) /\ entry = k
\* Whether the runtime a sweep waited for is still the one to close.
Expired(k) ==
  /\ runtimes[k].at = "open" /\ active = 0 /\ ~Busy(runtimes[k])
  /\ entry = k /\ lastUsed = "old"
Closes(c) ==
  LET k == sweeps[c].rt IN
  /\ sweeps[c].at = "awaiting" /\ runtimes[k].at # "loading"
  /\ IF Expired(k)
     THEN /\ entry' = None /\ lastUsed' = None
          /\ runtimes' = [runtimes EXCEPT ![k] = Closing(runtimes[k])] /\ sweeps' = [sweeps EXCEPT ![c].at = "closing"]
     ELSE SweptBy(c) /\ UNCHANGED <<entry, lastUsed, runtimes>>
  /\ UNCHANGED <<active, req, closed>>

Closed(c) ==
  /\ sweeps[c].at = "closing" /\ runtimes[sweeps[c].rt].closing = "done" /\ SweptBy(c)
  /\ UNCHANGED <<entry, lastUsed, active, runtimes, req, closed>>

-----------------------------------------------------------------------------
(* A request                                                               *)

\* The address lacks its slash: the answer is another address.
Redirect(r) ==
  /\ req[r].at = "new" /\ sweeps[r].at = "done"
  /\ lastUsed' = "recent" /\ req' = [req EXCEPT ![r].at = "done"]
  /\ UNCHANGED <<entry, active, runtimes, sweeps, closed>>

\* handle and runtimeFor: the project's runtime is the one there is or a new one.
Enter(r) ==
  /\ req[r].at = "new" /\ sweeps[r].at = "done"
  /\ lastUsed' = "recent" /\ active' = active + 1
  /\ IF entry # None THEN UNCHANGED <<entry, runtimes>>
     ELSE Len(runtimes) < MaxRuntimes /\ runtimes' = Append(runtimes, New) /\ entry' = Len(runtimes')
  /\ req' = [req EXCEPT ![r] = [at |-> "loading", rt |-> entry', creates |-> entry = None]]
  /\ UNCHANGED <<sweeps, closed>>

\* The folder is a project and opens, is none, or fails to open.
Loads(k) ==
  /\ runtimes[k].at = "loading"
  /\ \/ \E at \in {"open", "none"} : runtimes' = [runtimes EXCEPT ![k].at = at] /\ UNCHANGED entry
     \/ runtimes' = [runtimes EXCEPT ![k].at = "failed"] /\ entry' = None
  /\ UNCHANGED <<lastUsed, active, req, sweeps, closed>>

NotThere(r) ==
  /\ req[r].at = "loading" /\ runtimes[req[r].rt].at \in {"none", "failed"}
  /\ entry' = IF runtimes[req[r].rt].at = "none" /\ req[r].creates THEN None ELSE entry
  /\ active' = Released(r) /\ req' = Replied(r)
  /\ UNCHANGED <<lastUsed, runtimes, sweeps, closed>>

\* The runtime's handle: what is no delivery starts the ingest; a plan is waited
\* for, a cancellation and all others are answered.
Handle(r) ==
  LET k == req[r].rt IN
  /\ req[r].at = "loading" /\ runtimes[k].at = "open"
  /\ \/ \E delivery \in BOOLEAN :
          /\ runtimes' = [runtimes EXCEPT ![k] = IF delivery THEN runtimes[k] ELSE WithIngest(runtimes[k])]
          /\ \/ req' = [req EXCEPT ![r].at = "reading"] /\ UNCHANGED active
             \/ ~delivery /\ req' = Replied(r) /\ active' = Released(r)
     \/ /\ runtimes' = [runtimes EXCEPT ![k].stage = "cancelled"]
        /\ req' = Replied(r) /\ active' = Released(r)
  /\ UNCHANGED <<entry, lastUsed, sweeps, closed>>

\* close of the registry; the runtime there is is closed when it has loaded.
Close ==
  /\ ~closed /\ closed' = TRUE /\ entry' = None /\ lastUsed' = None /\ active' = 0
  /\ runtimes' = IF entry = None THEN runtimes ELSE [runtimes EXCEPT ![entry].owed = TRUE]
  /\ UNCHANGED <<req, sweeps>>
CloseLoaded(k) ==
  /\ runtimes[k].owed /\ runtimes[k].at = "open"
  /\ runtimes' = [runtimes EXCEPT ![k] = [Closing(runtimes[k]) EXCEPT !.owed = FALSE]]
  /\ UNCHANGED <<entry, lastUsed, active, req, sweeps, closed>>

TimePasses ==
  /\ lastUsed = "recent" /\ ~closed /\ lastUsed' = "old"
  /\ UNCHANGED <<entry, active, runtimes, req, sweeps, closed>>

Next ==
  \/ \E c \in Request \cup {Timer} : StartSweep(c) \/ Looks(c) \/ Closes(c) \/ Closed(c)
  \/ \E r \in Request : Redirect(r) \/ Enter(r) \/ NotThere(r) \/ Handle(r)
  \/ \E k \in DOMAIN runtimes :
       \/ Loads(k) \/ CloseLoaded(k) \/ IngestFails(k) \/ Drain(k)
       \/ \E x \in Request \cup {Plan} : Trace(k, x) \/ TraceEnds(k, x)
       \/ \E x \in Request \cup {Plan, Ingest} : JournalCloses(k, x)
  \/ Close \/ TimePasses

Spec == Init /\ [][Next]_vars

-----------------------------------------------------------------------------
(* Properties                                                              *)

\* While the server is up, a runtime that closes has nobody in it and nothing under
\* way, and there is one open runtime of the project at most.
KeptWhileNeeded ==
  ~closed =>
    /\ \A k \in DOMAIN runtimes : runtimes[k].closing # "no" =>
         /\ runtimes[k].ingest \in {"no", "done"} /\ runtimes[k].traces = {}
         /\ \A r \in Request : req[r].rt # k
    /\ \A j, k \in DOMAIN runtimes :
         runtimes[j].closing = "no" /\ runtimes[k].closing = "no"
         /\ {runtimes[j].at, runtimes[k].at} \subseteq {"loading", "open"} => j = k

\* A runtime that says it is closed writes nothing more, whatever a request that is
\* still in it does.
SilentWhenClosed ==
  \A k \in DOMAIN runtimes : runtimes[k].closing = "done" =>
    runtimes[k].traces = {} /\ runtimes[k].journals = {} /\ runtimes[k].ingest \in {"no", "done"}
=============================================================================
