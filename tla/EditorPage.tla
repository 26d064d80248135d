------------------------------ MODULE EditorPage ------------------------------
(***************************************************************************)
(* apps/cli/src/app/assembly/page.js, editor/api.js, editor/state.js and   *)
(* the monitor of editor/contexto.js: what a page shows of a project, and  *)
(* the requests it sends.  Edits and approvals are sent by people; the     *)
(* preview of a new revision is asked for by a timer, and while the server *)
(* works the page polls.  Answers come in any order, and some are lost.    *)
(*                                                                         *)
(* Of the server there is the revision and whether it has a preview and is *)
(* approved, the operation, and which preview is the newest; what          *)
(* its requests do to each other is AssemblyWork's matter.  One page edits *)
(* (EditReservation).  The project has scenes and no preparation runs.     *)
(***************************************************************************)
EXTENDS Naturals, FiniteSets

CONSTANTS
  Action,     \* slots for requests of people
  Timer,      \* slots for automatic previews; there is no limit in the program
  None,
  MaxEdits, MaxFaults   \* bounds

EditorPageAssumption ==
  /\ Action \cap Timer = {} /\ "poll" \notin Action \cup Timer
  /\ MaxEdits \in Nat /\ MaxFaults \in Nat
  /\ None \notin [rev : Nat, preview : BOOLEAN, approved : BOOLEAN,
                  op : {"idle", "rendering", "ready", "error"}]

VARIABLES
  server,     \* [rev, preview, approved, op]
  call,       \* the requests of the page
  screen,     \* state "project" and "operation"
  pending,    \* previewPending: the timer of the automatic preview is set
  polling,    \* the timer of the poller is set
  player,     \* data-rev, and whether what was played covers it
  watched,    \* the revision watched to its end, or 0
  played,     \* observation: the revisions whose video was played to its end
  late,       \* observation: a reconciliation showed what was no longer there, or was an edit's
  edits, faults

vars == <<server, call, screen, pending, polling, player, watched, played, late, edits, faults>>

Slot == Action \cup Timer \cup {"poll"}
Idle == [at |-> "idle", kind |-> "none", base |-> 0, newest |-> FALSE, status |-> "none", body |-> None,
         then |-> "none", seen |-> FALSE]

Init ==
  /\ server = [rev |-> 1, preview |-> FALSE, approved |-> FALSE, op |-> "idle"]
  /\ call = [c \in Slot |-> Idle]
  /\ screen = server /\ pending = TRUE /\ polling = FALSE
  /\ player = [src |-> 0, covered |-> FALSE] /\ watched = 0 /\ played = {}
  /\ late = FALSE /\ edits = 0 /\ faults = 0

-----------------------------------------------------------------------------
(* What the page decides from what it shows                                *)

Free(c) == call[c].at = "idle"
\* autoPreviewWanted
Wanted(s) == ~s.preview /\ s.op # "rendering"
\* isBusy: the poller goes on while the operation shown is under way.
Busy(s) == s.op = "rendering"
\* previewInflight: until the answer has been dealt with.
Previewing == \E t \in Timer : ~Free(t) /\ call[t].then # "check"

\* poller.schedule: one timer, one request.
Polls(s) == polling' = (polling \/ (call'["poll"].at = "idle" /\ Busy(s)))

\* state.set("project"), and renderPreview when its preview is another.
WatchesOn(s) ==
  /\ player' = IF s.preview THEN [player EXCEPT !.src = s.rev] ELSE player
  /\ watched' = IF s.rev # screen.rev THEN 0 ELSE watched
Watches(s) ==
  LET swaps == s.preview /\ player.src # s.rev IN
  /\ player' = IF swaps THEN [src |-> s.rev, covered |-> FALSE] ELSE player
  /\ watched' = IF swaps \/ s.rev # screen.rev THEN 0 ELSE watched

Shows(s) == screen' = s /\ Watches(s) /\ Polls(s)
Keeps == UNCHANGED <<screen, player, watched>> /\ Polls(screen)

\* An answer that is late does not bring back an older project.
Fresh(s) == s # None /\ s.rev >= screen.rev
\* maybeScheduleAutoPreview: after every answer with a project.
Applies(s) ==
  IF Fresh(s) THEN Shows(s) /\ pending' = Wanted(s) ELSE Keeps /\ UNCHANGED pending

Server == UNCHANGED <<server, edits, faults>>
Sends(c, kind, base, seen) ==
  call' = [call EXCEPT ![c] = [Idle EXCEPT !.at = "sent", !.kind = kind, !.base = base, !.seen = seen]]
Gets(c, then, status) ==
  call' = [call EXCEPT ![c] = [Idle EXCEPT !.at = "get", !.kind = call[c].kind, !.then = then, !.status = status,
                                           !.base = IF c \in Timer THEN call[c].base ELSE 0]]
Ends(c) == call' = [call EXCEPT ![c] = Idle]

-----------------------------------------------------------------------------
(* Requests                                                                *)

Edit(a) ==
  /\ Free(a) /\ edits < MaxEdits /\ edits' = edits + 1 /\ Sends(a, "edit", screen.rev, FALSE)
  /\ UNCHANGED <<server, screen, pending, polling, player, watched, played, late, faults>>

\* approveFinal.onclick: without having watched all of it a person is asked first.
Approve(a) ==
  /\ Free(a) /\ screen.preview /\ ~screen.approved /\ Sends(a, "approve", screen.rev, watched = screen.rev)
  /\ UNCHANGED <<server, screen, pending, polling, player, watched, played, late, edits, faults>>

\* refreshPreviewAction
Refresh(a) ==
  /\ Free(a) /\ ~screen.preview /\ ~Busy(screen) /\ ~Previewing /\ ~pending
  /\ Sends(a, "preview", screen.rev, FALSE)
  /\ UNCHANGED <<server, screen, pending, polling, player, watched, played, late, edits, faults>>

\* The timer of scheduleAutoPreview.
AutoFires ==
  /\ pending /\ pending' = FALSE
  /\ IF Previewing \/ ~Wanted(screen) THEN UNCHANGED call
     ELSE \E t \in Timer : Free(t) /\ Sends(t, "preview", screen.rev, FALSE)
  /\ UNCHANGED <<server, screen, polling, player, watched, played, late, edits, faults>>

PollFires ==
  /\ polling /\ polling' = FALSE /\ Gets("poll", "poll", "none")
  /\ UNCHANGED <<server, screen, pending, player, watched, played, late, edits, faults>>

\* isPreviewSrc
InMonitor == screen.preview /\ screen.rev = player.src
\* Playing the preview to its end; settleWatched.
Plays ==
  /\ InMonitor /\ player' = [player EXCEPT !.covered = TRUE] /\ played' = played \cup {player.src}
  /\ watched' = player.src
  /\ UNCHANGED <<server, call, screen, pending, polling, late, edits, faults>>
\* Any reading of the player once what was played covers it.
Settles ==
  /\ player.covered /\ InMonitor /\ watched' = player.src
  /\ UNCHANGED <<server, call, screen, pending, polling, player, played, late, edits, faults>>

-----------------------------------------------------------------------------
(* The server                                                              *)

Page == UNCHANGED <<screen, pending, polling, player, watched, played, late, edits>>
Answers(c, status) ==
  call' = [call EXCEPT ![c] = [call[c] EXCEPT !.at = "answered", !.status = status,
                                              !.body = IF status = "ok" THEN server' ELSE None]]

HandleEdit(c) ==
  /\ call[c].at = "sent" /\ call[c].kind = "edit"
  /\ IF call[c].base = server.rev
     THEN server' = [server EXCEPT !.rev = server.rev + 1, !.preview = FALSE, !.approved = FALSE] /\ Answers(c, "ok")
     ELSE UNCHANGED server /\ Answers(c, "stale")
  /\ UNCHANGED faults /\ Page

HandleApprove(c) ==
  /\ call[c].at = "sent" /\ call[c].kind = "approve"
  /\ IF call[c].base = server.rev /\ server.preview
     THEN server' = [server EXCEPT !.approved = TRUE] /\ Answers(c, "ok")
     ELSE UNCHANGED server /\ Answers(c, "stale")
  /\ UNCHANGED faults /\ Page

\* beginPreview comes before the revision is looked at.
HandlePreview(c) ==
  /\ call[c].at = "sent" /\ call[c].kind = "preview"
  /\ server' = [server EXCEPT !.op = "rendering"]
  /\ call' = [d \in Slot |->
       CASE d # c -> [call[d] EXCEPT !.newest = FALSE]
         [] d = c /\ call[c].base = server.rev -> [call[c] EXCEPT !.at = "rendering", !.newest = TRUE]
         [] OTHER -> [call[c] EXCEPT !.at = "answered", !.status = "stale", !.newest = FALSE]]
  /\ UNCHANGED faults /\ Page

RenderEnds(c) ==
  /\ call[c].at = "rendering"
  /\ LET current == call[c].newest
         op == IF current THEN "ready" ELSE server.op
     IN IF call[c].base # server.rev
        THEN server' = [server EXCEPT !.op = op] /\ Answers(c, "stale")
        ELSE server' = [server EXCEPT !.op = op, !.preview = server.preview \/ current] /\ Answers(c, "ok")
  /\ UNCHANGED faults /\ Page

RenderFails(c) ==
  /\ call[c].at = "rendering" /\ faults < MaxFaults /\ faults' = faults + 1
  /\ server' = [server EXCEPT !.op = IF call[c].newest THEN "error" ELSE server.op]
  /\ Answers(c, "failed") /\ Page

HandleGet(c) ==
  /\ call[c].at = "get" /\ call' = [call EXCEPT ![c] = [call[c] EXCEPT !.at = "got", !.body = server]]
  /\ UNCHANGED <<server, faults>> /\ Page

\* The connection breaks: a request or its answer is lost.
Lost(c) ==
  /\ faults < MaxFaults /\ faults' = faults + 1
  /\ \/ /\ call[c].at \in {"sent", "answered"}
        /\ call' = [call EXCEPT ![c] = [call[c] EXCEPT !.at = "answered", !.status = "lost", !.body = None]]
     \/ /\ call[c].at \in {"get", "got"}
        /\ call' = [call EXCEPT ![c] = [call[c] EXCEPT !.at = "got", !.body = None]]
  /\ UNCHANGED server /\ Page

-----------------------------------------------------------------------------
(* Answers                                                                 *)

\* After the last answer to c, which went well or not: what its caller does.
AgainNot(c, s) == FALSE
Again(c, s) == c \in Timer /\ s.rev # call[c].base /\ ~s.preview
Goes(c, how) ==
  IF call[c].kind = "preview" /\ (how = "refused" \/ (how = "lost" /\ c \in Timer))
  THEN Gets(c, "check", "none") ELSE Ends(c)
Got(c) == IF call[c].body = None THEN "lost" ELSE "ok"

Receive(c) ==
  /\ call[c].at = "answered"
  /\ CASE call[c].status = "stale" -> Gets(c, "recon", "stale") /\ Keeps /\ UNCHANGED pending
       [] call[c].status = "ok" -> Gets(c, "again", "ok") /\ Applies(call[c].body)
       [] OTHER -> Goes(c, IF call[c].status = "lost" THEN "lost" ELSE "refused") /\ Keeps /\ UNCHANGED pending
  /\ UNCHANGED <<played, late>> /\ Server

\* A conflict says that the base of the page is wrong: what the server has then is shown.
Reconciled(c) ==
  /\ call[c].at = "got" /\ call[c].then = "recon" /\ Goes(c, IF Got(c) = "ok" THEN "refused" ELSE "lost")
  /\ IF Got(c) = "ok" THEN Shows(call[c].body) /\ late' = (late \/ call[c].body # server \/ call[c].kind # "preview")
     ELSE Keeps /\ UNCHANGED late
  /\ UNCHANGED <<pending, played>> /\ Server

Confirmed(c) ==
  /\ call[c].at = "got" /\ call[c].then = "again" /\ Goes(c, Got(c))
  /\ LET s == IF Fresh(call[c].body) THEN call[c].body ELSE screen IN
     /\ IF Fresh(s) THEN Shows(s) ELSE Keeps
     /\ pending' = IF call[c].body # None /\ (Fresh(call[c].body) \/ Again(c, s)) THEN Wanted(s) ELSE pending
  /\ UNCHANGED <<played, late>> /\ Server

Checked(c) ==
  /\ call[c].at = "got" /\ call[c].then = "check" /\ Ends(c)
  /\ LET s == IF Fresh(call[c].body) THEN call[c].body ELSE screen IN
     /\ Shows(s)
     /\ pending' = IF (call[c].body # None /\ (c \in Action \/ Fresh(call[c].body))) \/ Again(c, s)
                   THEN Wanted(s) ELSE pending
  /\ UNCHANGED <<played, late>> /\ Server

Polled(c) ==
  /\ call[c].at = "got" /\ call[c].then = "poll" /\ Ends(c) /\ Applies(call[c].body)
  /\ UNCHANGED <<played, late>> /\ Server

Next ==
  \/ \E a \in Action : Edit(a) \/ Approve(a) \/ Refresh(a)
  \/ AutoFires \/ PollFires \/ Plays \/ Settles
  \/ \E c \in Slot :
       \/ HandleEdit(c) \/ HandleApprove(c) \/ HandlePreview(c) \/ RenderEnds(c) \/ RenderFails(c)
       \/ HandleGet(c) \/ Lost(c)
       \/ Receive(c) \/ Reconciled(c) \/ Confirmed(c) \/ Checked(c) \/ Polled(c)

Spec == Init /\ [][Next]_vars

-----------------------------------------------------------------------------
(* Properties                                                              *)

Quiet == (\A c \in Slot : Free(c)) /\ ~pending /\ ~polling

\* A page with nothing under way shows the revision the server has, with its preview;
\* for a page of which nothing was lost or failed, no answer to a conflict came late, and
\* no conflict was an edit's: after that, what is shown may be a revision without its
\* preview that nobody asks for any more.
QuietPageIsUpToDate ==
  Quiet /\ faults = 0 /\ ~late => screen.rev = server.rev /\ screen.preview /\ server.preview

\* An approval that a person was not asked about is of a video that was played to its
\* end in this page.
SeenWasPlayed == \A c \in Slot : call[c].kind = "approve" /\ call[c].seen => call[c].base \in played
=============================================================================
