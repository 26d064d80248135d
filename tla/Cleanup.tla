------------------------------ MODULE Cleanup ------------------------------
(* One cleanup ("Limpeza") project of the server: the job and its stage, the queue that plans the cut, the engine's    *)
(* plan file, the journal under which keep.txt and fillers.json change together, the requests that change or export    *)
(* the cut, a cancel, failing writes, and a crash followed by a restart over the same folder.                          *)
(* Sources: condense/filler-session.ts, condense/cleanup-planning.ts, app/jobs.ts, app/session.ts,                     *)
(* app/cleanup/routes.ts and the ingest of app/server.ts.                                                              *)
EXTENDS Naturals, Sequences, FiniteSets

CONSTANTS
    Requests,     \* HTTP requests to /jobs/<id>/keep, /fillers and /export
    Ingest,       \* the internal caller that plans once when the ingest is over
    Keeps,        \* keep-lists
    AllUnits,     \* the keep-list of a video nobody has cut yet
    Decisions,    \* decisions about fillers
    NoDecision,   \* the empty decisions
    Nothing,      \* an absent file, review or journal
    Torn,         \* a plan file the engine was writing when it died
    MaxFaults     \* failing writes of the session, and crashes, in a behaviour

\* What the journal holds: a file that was absent is Nothing in it.
Saved == [keep : Keeps \cup {Nothing}, fillers : Decisions \cup {Nothing}]

ASSUME CleanupAssumption ==
    /\ AllUnits \in Keeps /\ NoDecision \in Decisions /\ Ingest \notin Requests
    /\ Nothing \notin Keeps \cup Decisions \cup Saved /\ Torn \notin Saved \cup {Nothing} /\ MaxFaults \in Nat

VARIABLES
    keep, fillers, journal,   \* keep.txt, fillers.json, .fillers-session-pending.json
    plan, index,              \* the engine's plan; whether the index of units exists
    stage, shown, aborted,    \* the job: stage, review on the screen, its signal
    loaded, legacy,           \* the planning was loaded; it has no catalogue of fillers
    desired,                  \* [gen, keep, fillers]: every accepted change, merged
    pc, state, old, after,    \* the flight: its step, its copy of desired, the previous plan, who is recovering
    calls, line,              \* every caller's step, request and answer; the callers of withPlan in order
    asked, faults             \* history: pairs somebody asked for; faults so far

disk == <<keep, fillers, journal, plan, index>>
job == <<stage, shown, aborted>>
flight == <<pc, state, old, after>>
loading == <<loaded, legacy, desired>>
vars == <<disk, job, flight, loading, calls, line, asked, faults>>

Callers == Requests \cup {Ingest}
Cut == [keep : Keeps, fillers : Decisions]
Pair(k, f) == [keep |-> k, fillers |-> f]
Terminal == {"error", "cancelled"}
Free == [at |-> "free", kind |-> "none", keep |-> Nothing, fillers |-> Nothing, got |-> Nothing]

TypeOK ==
    /\ keep \in Keeps \cup {Nothing} /\ fillers \in Decisions \cup {Nothing}
    /\ journal \in Saved \cup {Nothing}
    /\ plan \in Cut \cup {Nothing, Torn} /\ old \in Cut \cup {Nothing, Torn} /\ shown \in Cut \cup {Nothing}
    /\ stage \in {"queued", "indexing", "planning", "ready"} \cup Terminal
    /\ {index, aborted, legacy} \subseteq BOOLEAN /\ loaded \in {"no", "loading", "yes"}
    /\ desired \in [gen : Nat, keep : Keeps, fillers : Decisions] /\ state \in [gen : Nat, keep : Keeps, fillers : Decisions]
    /\ pc \in {"none", "begin", "start", "engine", "review", "undoKeep", "undoFillers", "undoJournal", "journal", "keep",
               "fillers", "commit", "show", "rollback"}
    /\ after \in {"load", "write", "warn"}
    /\ \A c \in Callers : calls[c].at \in {"free", "line", "load", "wait", "planned", "failed", "read", "ok", "refused"}

First == [gen |-> 0, keep |-> AllUnits, fillers |-> NoDecision]

Init ==
    /\ keep = Nothing /\ fillers = Nothing /\ journal = Nothing /\ plan = Nothing /\ index = FALSE
    /\ stage = "queued" /\ shown = Nothing /\ aborted = FALSE
    /\ loaded = "no" /\ legacy = FALSE /\ desired = First
    /\ pc = "none" /\ state = First /\ old = Nothing /\ after = "load"
    /\ calls = [c \in Callers |-> Free] /\ line = <<>>
    /\ asked = {Pair(Nothing, Nothing)} /\ faults = 0

(***************************************************************************)
(* The job.  A terminal stage accepts no change but the ones that force.   *)
(***************************************************************************)
Live == stage \notin Terminal
SetStage(s) == stage' = IF Live THEN s ELSE stage
SetReview(cut) == IF Live THEN stage' = "ready" /\ shown' = cut ELSE UNCHANGED <<stage, shown>>
Fail == stage' = IF stage = "cancelled" THEN stage ELSE "error"

Cancel ==
    /\ ~aborted
    /\ stage' = "cancelled" /\ aborted' = TRUE
    /\ UNCHANGED <<disk, flight, loading, calls, line, asked, faults, shown>>

(***************************************************************************)
(* Callers.  /keep and /export go through the one-place line withPlan,     *)
(* /fillers and the ingest do not.                                         *)
(***************************************************************************)
StartIngest ==
    /\ calls[Ingest].at = "free" /\ stage = "queued"
    /\ stage' = "indexing"
    /\ calls' = [calls EXCEPT ![Ingest].at = "line", ![Ingest].kind = "replan"]
    /\ UNCHANGED <<disk, flight, loading, line, asked, faults, shown, aborted>>

\* The ingest ends: with the index on disk it plans, unless the job was cancelled; it may also fail.
EndIngest ==
    /\ calls[Ingest].at = "line"
    /\ \/ /\ index' = TRUE /\ UNCHANGED stage
          /\ calls' = [calls EXCEPT ![Ingest].at = IF stage = "cancelled" THEN "ok" ELSE "load"]
       \/ /\ Fail /\ calls' = [calls EXCEPT ![Ingest].at = "refused"] /\ UNCHANGED index
    /\ UNCHANGED <<keep, fillers, journal, plan, shown, aborted, flight, loading, line, asked, faults>>

Post(c) ==
    /\ calls[c].at = "free"
    /\ \E k \in Keeps, f \in Decisions :
         \/ /\ calls' = [calls EXCEPT ![c] = [@ EXCEPT !.at = "line", !.kind = "keep", !.keep = k]]
            /\ line' = Append(line, c)
         \/ /\ calls' = [calls EXCEPT ![c] = [@ EXCEPT !.at = "load", !.kind = "fillers", !.fillers = f]]
            /\ UNCHANGED line
         \/ /\ \E want \in {k, Nothing} :
                 calls' = [calls EXCEPT ![c] = [@ EXCEPT !.at = "line", !.kind = "export", !.keep = want]]
            /\ line' = Append(line, c)
    /\ UNCHANGED <<disk, job, flight, loading, asked, faults>>

\* The head of the line starts; an export that names no keep-list reads the plan as it is.
Turn(c) ==
    /\ calls[c].at = "line" /\ c \in Requests /\ line # <<>> /\ Head(line) = c
    /\ calls' = [calls EXCEPT ![c].at = IF calls[c].kind = "export" /\ calls[c].keep = Nothing THEN "read" ELSE "load"]
    /\ UNCHANGED <<disk, job, flight, loading, line, asked, faults>>

Reply(c, answer) == calls' = [calls EXCEPT ![c] = [Free EXCEPT !.at = answer]]
Leave(c) == line' = SelectSeq(line, LAMBDA d : d # c)

\* Once loaded, a change is merged into desired before the first await; a flight is started if there is none.
Merged(c) ==
    [gen |-> desired.gen + 1,
     keep |-> IF calls[c].keep = Nothing THEN desired.keep ELSE calls[c].keep,
     fillers |-> IF calls[c].fillers = Nothing THEN desired.fillers ELSE calls[c].fillers]
SavedFillers == IF journal = Nothing THEN fillers ELSE journal.fillers

Update(c) ==
    /\ calls[c].at = "load" /\ loaded = "yes"
    /\ ~(legacy /\ calls[c].kind = "fillers")
    /\ desired' = Merged(c)
    /\ asked' = asked \cup {Pair(Merged(c).keep, IF legacy THEN SavedFillers ELSE Merged(c).fillers)}
    /\ calls' = [calls EXCEPT ![c].at = "wait"]
    /\ pc' = IF pc = "none" THEN "begin" ELSE pc
    /\ UNCHANGED <<disk, job, state, old, after, loaded, legacy, line, faults>>

\* Without a catalogue no decision about fillers is accepted (409).
RefuseFillers(c) ==
    /\ calls[c].at = "load" /\ loaded = "yes" /\ legacy /\ calls[c].kind = "fillers"
    /\ Reply(c, "refused")
    /\ UNCHANGED <<disk, job, flight, loading, line, asked, faults>>

\* A mutation of Answered: the export leaves the line as soon as its replan is over.
AnsweredEarly(c) ==
    /\ calls[c].at \in {"planned", "failed"}
    /\ IF calls[c].at = "planned" /\ calls[c].kind = "export"
         THEN calls' = [calls EXCEPT ![c].at = "read"]
         ELSE Reply(c, IF calls[c].at = "planned" THEN "ok" ELSE "refused")
    /\ Leave(c)
    /\ IF c = Ingest /\ calls[c].at = "failed" THEN Fail ELSE UNCHANGED stage
    /\ UNCHANGED <<disk, shown, aborted, flight, loading, asked, faults>>

\* The flight was answered: /keep, /fillers and the ingest are over, an export reads the plan.
Answered(c) ==
    /\ calls[c].at \in {"planned", "failed"}
    /\ IF calls[c].at = "planned" /\ calls[c].kind = "export"
         THEN calls' = [calls EXCEPT ![c].at = "read"] /\ UNCHANGED line
         ELSE Reply(c, IF calls[c].at = "planned" THEN "ok" ELSE "refused") /\ Leave(c)
    /\ IF c = Ingest /\ calls[c].at = "failed" THEN Fail ELSE UNCHANGED stage
    /\ UNCHANGED <<disk, shown, aborted, flight, loading, asked, faults>>

ReadPlan(c) ==
    /\ calls[c].at = "read"
    /\ IF plan \in {Nothing, Torn} THEN Reply(c, "refused")
                                  ELSE calls' = [calls EXCEPT ![c].at = "ok", ![c].got = plan]
    /\ Leave(c)
    /\ UNCHANGED <<disk, job, flight, loading, asked, faults>>

(***************************************************************************)
(* The load, done once for every caller that waits for it.                 *)
(***************************************************************************)
Load ==
    /\ loaded = "no" /\ \E c \in Callers : calls[c].at = "load"
    /\ loaded' = "loading" /\ after' = "load"
    /\ pc' = IF journal = Nothing THEN "start" ELSE "undoKeep"
    /\ UNCHANGED <<disk, job, state, old, legacy, desired, calls, line, asked, faults>>

\* Without an index the load fails, every caller with it, and the next caller loads again.
LoadFails ==
    /\ loaded' = "no" /\ pc' = "none"
    /\ calls' = [c \in Callers |-> IF calls[c].at = "load" THEN [calls[c] EXCEPT !.at = "failed"] ELSE calls[c]]
    /\ UNCHANGED <<legacy, desired>>

Loaded ==
    /\ loaded = "loading" /\ pc = "start"
    /\ IF ~index THEN LoadFails
       ELSE \E broken \in BOOLEAN :
              /\ loaded' = "yes" /\ legacy' = broken /\ pc' = "none"
              /\ desired' = [gen |-> 0, keep |-> IF keep = Nothing THEN AllUnits ELSE keep,
                             fillers |-> IF broken \/ fillers = Nothing THEN NoDecision ELSE fillers]
              /\ UNCHANGED calls
    /\ UNCHANGED <<disk, job, state, old, after, line, asked, faults>>

(***************************************************************************)
(* The flight: plans the newest desired state until it is still the newest.*)
(***************************************************************************)
Current == state.gen = desired.gen
CutOf(s) == Pair(s.keep, s.fillers)

Begin ==
    /\ pc = "begin"
    /\ state' = desired /\ old' = plan
    /\ IF aborted THEN pc' = "rollback" /\ UNCHANGED stage
                  ELSE pc' = "engine" /\ SetStage("planning")
    /\ UNCHANGED <<disk, after, shown, aborted, loading, calls, line, asked, faults>>

\* The engine opens the plan file, then finishes it or dies (always, once the job is cancelled).
EngineWrites ==
    /\ pc = "engine" /\ plan' = Torn /\ plan # Torn
    /\ UNCHANGED <<keep, fillers, journal, index, job, flight, loading, calls, line, asked, faults>>
EngineEnds ==
    /\ pc = "engine"
    /\ \/ plan' = CutOf(state) /\ pc' = IF aborted THEN "rollback" ELSE "review"
       \/ plan' = plan /\ pc' = "rollback"
    /\ UNCHANGED <<keep, fillers, journal, index, state, old, after, job, loading, calls, line, asked, faults>>

\* The end of one pass: a newer change starts another, else the flight ends and everybody who waited is answered.
Settle(ok) ==
    IF Current
      THEN /\ pc' = "none" /\ state' = First /\ old' = Nothing
           /\ calls' = [c \in Callers |-> IF calls[c].at = "wait"
                          THEN [calls[c] EXCEPT !.at = IF ok THEN "planned" ELSE "failed"] ELSE calls[c]]
      ELSE pc' = "begin" /\ UNCHANGED <<state, old, calls>>

\* A mutation of Outdated: the plan of an outdated pass stays on disk.
OutdatedStays ==
    /\ pc = "review" /\ ~Current
    /\ Settle(TRUE)
    /\ UNCHANGED <<disk, job, after, loading, line, asked, faults>>

\* The review is built; an outdated one is thrown away and the previous plan comes back.
Outdated ==
    /\ pc = "review" /\ ~Current
    /\ plan' = old /\ Settle(TRUE)
    /\ UNCHANGED <<keep, fillers, journal, index, job, after, loading, line, asked, faults>>
Persist ==
    /\ pc = "review" /\ Current
    /\ after' = "write"
    /\ pc' = IF aborted THEN "rollback" ELSE IF journal = Nothing THEN "journal" ELSE "undoKeep"
    /\ UNCHANGED <<disk, job, state, old, loading, calls, line, asked, faults>>

\* The review reaches the screen.
Show ==
    /\ pc = "show"
    /\ SetReview(CutOf(state)) /\ Settle(TRUE)
    /\ UNCHANGED <<disk, aborted, after, loading, line, asked, faults>>

\* A pass that failed puts the previous plan back; the job keeps the cut it was showing, or fails if it had none.
Rollback ==
    /\ pc = "rollback"
    /\ plan' = old /\ Settle(FALSE)
    /\ IF ~Current THEN UNCHANGED stage ELSE IF shown # Nothing THEN SetStage("ready") ELSE Fail
    /\ UNCHANGED <<keep, fillers, journal, index, shown, aborted, after, loading, line, asked, faults>>

(***************************************************************************)
(* The session journal.                                                    *)
(***************************************************************************)
Unsaved == IF aborted THEN "rollback" ELSE "show"
AfterUndo == CASE after = "load" -> "start"
               [] after = "write" -> IF aborted THEN "rollback" ELSE "journal"
               [] after = "warn" -> Unsaved
\* A mutation of UndoKeep: the recovery drops the journal before the decisions are back.
UndoKeepDropsJournal ==
    /\ pc = "undoKeep"
    /\ keep' = journal.keep /\ pc' = AfterUndo /\ journal' = Nothing
    /\ UNCHANGED <<fillers, plan, index, job, state, old, after, loading, calls, line, asked, faults>>

\* recoverFillerSession: both files go back to what the journal holds, then the journal goes.
UndoKeep ==
    /\ pc = "undoKeep"
    /\ keep' = journal.keep /\ pc' = "undoFillers"
    /\ UNCHANGED <<fillers, journal, plan, index, job, state, old, after, loading, calls, line, asked, faults>>
UndoFillers ==
    /\ pc = "undoFillers"
    /\ fillers' = journal.fillers /\ pc' = "undoJournal"
    /\ UNCHANGED <<keep, journal, plan, index, job, state, old, after, loading, calls, line, asked, faults>>
UndoJournal ==
    /\ pc = "undoJournal"
    /\ journal' = Nothing /\ pc' = AfterUndo
    /\ UNCHANGED <<keep, fillers, plan, index, job, state, old, after, loading, calls, line, asked, faults>>

\* persistFillerSession: the journal of what is there, the keep-list, the decisions (not without a catalogue), and the
\* end of the journal, unless the job was cancelled meanwhile.
WriteJournal ==
    /\ pc = "journal"
    /\ journal' = Pair(keep, fillers) /\ pc' = "keep"
    /\ UNCHANGED <<keep, fillers, plan, index, job, state, old, after, loading, calls, line, asked, faults>>
WriteKeep ==
    /\ pc = "keep"
    /\ keep' = state.keep /\ pc' = IF legacy THEN "commit" ELSE "fillers"
    /\ UNCHANGED <<fillers, journal, plan, index, job, state, old, after, loading, calls, line, asked, faults>>
WriteFillers ==
    /\ pc = "fillers"
    /\ fillers' = state.fillers /\ pc' = "commit"
    /\ UNCHANGED <<keep, journal, plan, index, job, state, old, after, loading, calls, line, asked, faults>>
Commit ==
    /\ pc = "commit"
    /\ IF aborted THEN after' = "warn" /\ pc' = "undoKeep" /\ UNCHANGED journal
                  ELSE journal' = Nothing /\ pc' = "show" /\ UNCHANGED after
    /\ UNCHANGED <<keep, fillers, plan, index, job, state, old, loading, calls, line, asked, faults>>

\* A write or an unlink of the session fails: a publication is undone, a failed recovery leaves the journal as it is.
Fault ==
    /\ faults < MaxFaults
    /\ \/ /\ pc \in {"keep", "fillers", "commit"}
          /\ after' = "warn" /\ pc' = "undoKeep" /\ UNCHANGED <<loaded, legacy, desired, calls>>
       \/ /\ pc = "journal" \/ (pc \in {"undoKeep", "undoFillers", "undoJournal"} /\ after # "load")
          /\ pc' = Unsaved /\ UNCHANGED <<after, loaded, legacy, desired, calls>>
       \/ /\ pc \in {"undoKeep", "undoFillers", "undoJournal"} /\ after = "load"
          /\ LoadFails /\ UNCHANGED after
    /\ faults' = faults + 1
    /\ UNCHANGED <<disk, job, state, old, line, asked>>

\* The process dies and is started again over the same folder: requests are gone, the files are what they were.
Crash ==
    /\ faults < MaxFaults
    /\ faults' = faults + 1
    /\ stage' = "queued" /\ shown' = Nothing /\ aborted' = FALSE
    /\ loaded' = "no" /\ legacy' = FALSE /\ desired' = First
    /\ pc' = "none" /\ state' = First /\ old' = Nothing /\ after' = "load"
    /\ calls' = [c \in Callers |-> IF c = Ingest \/ calls[c].at = "free" THEN Free ELSE [Free EXCEPT !.at = "refused"]]
    /\ line' = <<>>
    /\ UNCHANGED <<disk, asked>>

Planning == Begin \/ EngineWrites \/ EngineEnds \/ Outdated \/ Persist \/ Show \/ Rollback
Session == UndoKeep \/ UndoFillers \/ UndoJournal \/ WriteJournal \/ WriteKeep \/ WriteFillers \/ Commit
Serve(c) == Turn(c) \/ Update(c) \/ RefuseFillers(c) \/ Answered(c) \/ ReadPlan(c)

Next ==
    \/ StartIngest \/ EndIngest \/ Cancel \/ Load \/ Loaded \/ Planning \/ Session \/ Fault \/ Crash
    \/ \E c \in Requests : Post(c)
    \/ \E c \in Callers : Serve(c)

Spec == Init /\ [][Next]_vars

\* The event loop runs what is ready, the engine ends, and the line is first come, first served.
Fairness ==
    /\ WF_vars(EndIngest) /\ WF_vars(Load) /\ WF_vars(Loaded) /\ WF_vars(Session)
    /\ WF_vars(Begin) /\ WF_vars(EngineEnds) /\ WF_vars(Outdated \/ Persist) /\ WF_vars(Show \/ Rollback)
    /\ \A c \in Callers : WF_vars(Serve(c))

----------------------------------------------------------------------------
\* Whenever no journal is pending, keep.txt and fillers.json are a pair somebody asked for together, across failed
\* writes, failed recoveries, cancels and crashes (filler-session.ts: "O diário desfaz uma troca interrompida").
SavedTogether == journal = Nothing => Pair(keep, fillers) \in asked

\* An export that names a keep-list delivers the plan of that keep-list, whatever other requests change meanwhile
\* (withPlan in cleanup/routes.ts).
ExportIsAsked ==
    \A c \in Requests : calls[c].kind = "export" /\ calls[c].at = "ok" /\ calls[c].keep # Nothing
        => calls[c].got.keep = calls[c].keep

\* When nothing is being planned and the job is ready, the plan on disk, which an export without a keep-list delivers,
\* is the cut the review on the screen shows: outdated and failed passes leave no trace.
ScreenMatchesPlan == pc = "none" /\ loaded = "yes" /\ stage = "ready" => plan = shown

\* Every request is answered: the line of withPlan moves on after an error and the queue of changes comes to an end.
EveryRequestAnswered == \A c \in Requests : calls[c].at # "free" ~> calls[c].at \in {"ok", "refused"}
=============================================================================
