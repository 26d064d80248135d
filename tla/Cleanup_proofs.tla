---------------------------- MODULE Cleanup_proofs ----------------------------
(***************************************************************************)
(* For any requests, keep-lists, decisions and number of faults: what the  *)
(* session leaves on disk is what somebody asked for, and the plan is what *)
(* the screen shows.                                                       *)
(***************************************************************************)
EXTENDS Cleanup, TLAPS

-----------------------------------------------------------------------------
(* The inductive invariant                                                 *)

Ats == {"free", "line", "load", "wait", "planned", "failed", "read", "ok", "refused"}
Calls == [at : Ats, kind : {"none", "replan", "keep", "fillers", "export"},
          keep : Keeps \cup {Nothing}, fillers : Decisions \cup {Nothing}, got : Cut \cup {Nothing}]
CallsOK == calls \in [Callers -> Calls]

Undoing == {"undoKeep", "undoFillers", "undoJournal"}

\* Who may be at which step: a load recovers the journal and ends in start, a flight
\* needs what the load read.
StepsFit ==
  /\ loaded = "no" => pc = "none"
  /\ loaded = "loading" => pc \in Undoing \cup {"start"} /\ after = "load"
  /\ loaded = "yes" => pc # "start" /\ (pc \in Undoing => after \in {"write", "warn"})

\* The decisions that count, and what a state of the flight will have saved.
Kept(s) == Pair(s.keep, IF legacy THEN SavedFillers ELSE s.fillers)

\* What is on disk while the two files and the journal change one after the other.
OnDisk ==
  /\ journal = Nothing => Pair(keep, fillers) \in asked
  /\ journal # Nothing => journal \in asked
  /\ pc = "journal" => journal = Nothing
  /\ pc \in Undoing \cup {"keep", "fillers", "commit"} => journal # Nothing
  /\ pc = "undoFillers" => keep = journal.keep
  /\ pc \in {"undoJournal", "keep"} => Pair(keep, fillers) = journal
  /\ pc = "fillers" => ~legacy /\ keep = state.keep
  /\ pc = "commit" => Pair(keep, fillers) = Kept(state)

\* What a flight will save was asked for.
Asked ==
  loaded = "yes" /\ pc # "none" =>
    /\ Kept(desired) \in asked
    /\ pc # "begin" => Kept(state) \in asked

\* The plan while a job that has a review plans another cut.
Review ==
  /\ loaded # "yes" => shown = Nothing
  /\ stage = "ready" => shown # Nothing
  /\ loaded = "yes" /\ pc \in Undoing \cup {"review", "journal", "keep", "fillers", "commit", "show"}
       => plan = CutOf(state)
  /\ loaded = "yes" /\ stage \notin Terminal /\ shown # Nothing =>
       IF pc \in {"none", "begin"} THEN plan = shown ELSE old = shown

IInv == TypeOK /\ CallsOK /\ StepsFit /\ OnDisk /\ Asked /\ Review

-----------------------------------------------------------------------------
(* The initial state, and the steps that move no file, plan or flight      *)

LEMMA InitHasIInv == Init => IInv
<1> SUFFICES ASSUME Init PROVE IInv
  OBVIOUS
<1> USE CleanupAssumption
<1>1. TypeOK
  BY DEF Init, TypeOK, First, Free, Terminal
<1>2. CallsOK
  BY DEF Init, CallsOK, Calls, Free, Ats
<1>3. StepsFit /\ OnDisk /\ Asked /\ Review
  BY DEF Init, StepsFit, OnDisk, Asked, Review, Undoing
<1> QED BY <1>1, <1>2, <1>3 DEF IInv

Steps == {"none", "begin", "start", "engine", "review", "undoKeep", "undoFillers", "undoJournal", "journal", "keep",
          "fillers", "commit", "show", "rollback"}
Stages == {"queued", "indexing", "planning", "ready"} \cup Terminal

\* A step that changes the job's stage and the callers at most, and shows nothing.
Aside ==
  /\ UNCHANGED <<keep, fillers, journal, plan, shown, flight, loading, asked>>
  /\ stage' \in Stages /\ (stage' = "ready" => stage = "ready") /\ (stage \in Terminal => stage' \in Terminal)
  /\ aborted' \in BOOLEAN /\ index' \in BOOLEAN

LEMMA AsideKeeps ==
  ASSUME TypeOK, StepsFit, OnDisk, Asked, Review, CallsOK', Aside
  PROVE  IInv'
<1>1. TypeOK'
  BY DEF TypeOK, Aside, flight, loading, Stages, CallsOK, Calls, Ats
<1>2. StepsFit'
  BY DEF StepsFit, Aside, flight, loading
<1>3. OnDisk'
  BY DEF OnDisk, Kept, SavedFillers, Aside, flight, loading
<1>4. Asked'
  BY DEF Asked, Kept, SavedFillers, Aside, flight, loading
<1>5. Review'
  BY DEF Review, CutOf, Aside, flight, loading
<1> QED BY <1>1, <1>2, <1>3, <1>4, <1>5 DEF IInv

LEMMA RepliesAreCalls ==
  ASSUME CallsOK, NEW c \in Callers, NEW answer \in Ats
  PROVE  /\ Reply(c, answer) => CallsOK'
         /\ calls' = [calls EXCEPT ![c].at = answer] => CallsOK'
<1>1. [Free EXCEPT !.at = answer] \in Calls
  BY DEF Free, Calls
<1>2. ASSUME Reply(c, answer) PROVE CallsOK'
  BY <1>1, <1>2 DEF CallsOK, Reply
<1>3. ASSUME calls' = [calls EXCEPT ![c].at = answer] PROVE CallsOK'
  BY <1>3 DEF CallsOK, Calls
<1> QED BY <1>2, <1>3

LEMMA CallersKeep ==
  ASSUME IInv, \/ StartIngest \/ EndIngest \/ Cancel
               \/ \E c \in Requests : Post(c)
               \/ \E c \in Callers : Turn(c) \/ RefuseFillers(c) \/ Answered(c) \/ ReadPlan(c)
  PROVE  IInv'
<1> USE CleanupAssumption DEF IInv
<1>a. /\ stage \in Stages /\ aborted \in BOOLEAN /\ index \in BOOLEAN /\ Ingest \in Callers
      /\ plan \in Cut \cup {Nothing, Torn} /\ {"queued", "indexing", "planning", "ready"} \cap Terminal = {}
  BY DEF TypeOK, Stages, Callers, Terminal
<1>b. Requests \subseteq Callers
  BY DEF Callers
<1>1. CASE StartIngest
  <2>1. CallsOK'
    <3> DEFINE r == [calls[Ingest] EXCEPT !.at = "line", !.kind = "replan"]
    <3>1. r \in Calls
      BY <1>a DEF CallsOK, Calls, Ats
    <3>2. calls' = [calls EXCEPT ![Ingest] = r]
      BY <1>1, <1>a DEF StartIngest, CallsOK
    <3> QED BY <1>a, <3>1, <3>2 DEF CallsOK
  <2>2. Aside
    BY <1>1, <1>a DEF StartIngest, Aside, disk, Stages
  <2> QED BY <2>1, <2>2, AsideKeeps
<1>2. CASE EndIngest
  <2>1. CallsOK'
    BY <1>2, <1>a, RepliesAreCalls DEF EndIngest, Ats
  <2>2. Aside
    BY <1>2, <1>a DEF EndIngest, Aside, Fail, Stages, Terminal
  <2> QED BY <2>1, <2>2, AsideKeeps
<1>3. CASE Cancel
  <2>1. CallsOK' /\ Aside
    BY <1>3, <1>a DEF Cancel, Aside, disk, Stages, Terminal, CallsOK
  <2> QED BY <2>1, AsideKeeps
<1>4. ASSUME NEW c \in Requests, Post(c)
      PROVE  IInv'
  <2>1. CallsOK'
    <3>1. PICK k \in Keeps, f \in Decisions, want \in Keeps \cup {Nothing} :
            \/ calls' = [calls EXCEPT ![c] = [calls[c] EXCEPT !.at = "line", !.kind = "keep", !.keep = k]]
            \/ calls' = [calls EXCEPT ![c] = [calls[c] EXCEPT !.at = "load", !.kind = "fillers", !.fillers = f]]
            \/ calls' = [calls EXCEPT ![c] = [calls[c] EXCEPT !.at = "line", !.kind = "export", !.keep = want]]
      BY <1>4, <1>b DEF Post, CallsOK
    <3>2. /\ [calls[c] EXCEPT !.at = "line", !.kind = "keep", !.keep = k] \in Calls
          /\ [calls[c] EXCEPT !.at = "load", !.kind = "fillers", !.fillers = f] \in Calls
          /\ [calls[c] EXCEPT !.at = "line", !.kind = "export", !.keep = want] \in Calls
      BY <1>b DEF CallsOK, Calls, Ats
    <3> QED BY <1>b, <3>1, <3>2 DEF CallsOK
  <2>2. Aside
    BY <1>4, <1>a DEF Post, Aside, disk, job
  <2> QED BY <2>1, <2>2, AsideKeeps
<1>5. ASSUME NEW c \in Callers, Turn(c) \/ RefuseFillers(c)
      PROVE  IInv'
  <2>1. CallsOK'
    BY <1>5, RepliesAreCalls DEF Turn, RefuseFillers, Ats
  <2>2. Aside
    BY <1>5, <1>a DEF Turn, RefuseFillers, Aside, disk, job
  <2> QED BY <2>1, <2>2, AsideKeeps
<1>6. ASSUME NEW c \in Callers, Answered(c)
      PROVE  IInv'
  <2>1. CallsOK'
    BY <1>6, RepliesAreCalls DEF Answered, Ats
  <2>2. Aside
    BY <1>6, <1>a DEF Answered, Fail, Aside, disk, Stages, Terminal
  <2> QED BY <2>1, <2>2, AsideKeeps
<1>7. ASSUME NEW c \in Callers, ReadPlan(c)
      PROVE  IInv'
  <2>1. CallsOK'
    <3>1. CASE plan \in {Nothing, Torn}
      BY <1>7, <3>1, RepliesAreCalls DEF ReadPlan, Ats
    <3>2. CASE plan \notin {Nothing, Torn}
      BY <1>7, <3>2, <1>a DEF ReadPlan, CallsOK, Calls, Ats
    <3> QED BY <3>1, <3>2
  <2>2. Aside
    BY <1>7, <1>a DEF ReadPlan, Aside, disk, job
  <2> QED BY <2>1, <2>2, AsideKeeps
<1> QED BY <1>1, <1>2, <1>3, <1>4, <1>5, <1>6, <1>7

-----------------------------------------------------------------------------
(* The load, the flight and the session                                    *)

LEMMA CutsAreSaved ==
  ASSUME TypeOK
  PROVE  /\ Cut \subseteq Saved /\ Nothing \notin Cut /\ Torn \notin Cut
         /\ CutOf(state) \in Cut /\ CutOf(desired) \in Cut
         /\ Pair(keep, fillers) \in Saved
         /\ journal # Nothing => journal \in Saved /\ journal = Pair(journal.keep, journal.fillers)
                                 /\ journal.keep \in Keeps \cup {Nothing} /\ journal.fillers \in Decisions \cup {Nothing}
BY CleanupAssumption DEF TypeOK, Cut, Saved, CutOf, Pair

LEMMA LoadKeeps ==
  ASSUME IInv, Load
  PROVE  IInv'
<1> USE CleanupAssumption DEF IInv, Load
<1>a. TypeOK /\ CallsOK /\ StepsFit /\ OnDisk /\ Asked /\ Review
  OBVIOUS
<1>1. TypeOK'
  BY CutsAreSaved DEF TypeOK, CallsOK, Calls, Ats, Terminal, First, Undoing, StepsFit, OnDisk, disk, job, flight, loading, Ats
<1>2. CallsOK'
  BY DEF CallsOK, Calls, Ats, Ats
<1>3. StepsFit'
  BY DEF StepsFit, Undoing, flight, loading, Ats
<1>4. OnDisk'
  BY CutsAreSaved DEF OnDisk, Asked, StepsFit, Kept, SavedFillers, Undoing, Pair, disk, flight, loading, Ats
<1>5. Asked'
  BY CutsAreSaved DEF OnDisk, Asked, StepsFit, Kept, SavedFillers, Undoing, Pair, disk, flight, loading, Ats
<1>6. Review'
  BY CutsAreSaved DEF Review, StepsFit, CutOf, Undoing, Terminal, TypeOK, disk, job, flight, loading, Ats
<1> QED BY <1>1, <1>2, <1>3, <1>4, <1>5, <1>6

LEMMA LoadedKeeps ==
  ASSUME IInv, Loaded
  PROVE  IInv'
<1> USE CleanupAssumption DEF IInv, Loaded
<1>a. TypeOK /\ CallsOK /\ StepsFit /\ OnDisk /\ Asked /\ Review
  OBVIOUS
<1>1. TypeOK'
  BY CutsAreSaved DEF TypeOK, CallsOK, Calls, Ats, Terminal, First, Undoing, StepsFit, OnDisk, disk, job, flight, loading, LoadFails
<1>2. CallsOK'
  BY DEF CallsOK, Calls, Ats, LoadFails
<1>3. StepsFit'
  BY DEF StepsFit, Undoing, flight, loading, LoadFails
<1>4. OnDisk'
  BY CutsAreSaved DEF OnDisk, Asked, StepsFit, Kept, SavedFillers, Undoing, Pair, disk, flight, loading, LoadFails
<1>5. Asked'
  BY CutsAreSaved DEF OnDisk, Asked, StepsFit, Kept, SavedFillers, Undoing, Pair, disk, flight, loading, LoadFails
<1>6. Review'
  BY CutsAreSaved DEF Review, StepsFit, CutOf, Undoing, Terminal, TypeOK, disk, job, flight, loading, LoadFails
<1> QED BY <1>1, <1>2, <1>3, <1>4, <1>5, <1>6

LEMMA BeginKeeps ==
  ASSUME IInv, Begin
  PROVE  IInv'
<1> USE CleanupAssumption DEF IInv, Begin
<1>a. TypeOK /\ CallsOK /\ StepsFit /\ OnDisk /\ Asked /\ Review
  OBVIOUS
<1>1. TypeOK'
  BY CutsAreSaved DEF TypeOK, CallsOK, Calls, Ats, Terminal, First, Undoing, StepsFit, OnDisk, disk, job, flight, loading, SetStage, Live
<1>2. CallsOK'
  BY DEF CallsOK, Calls, Ats, SetStage, Live
<1>3. StepsFit'
  BY DEF StepsFit, Undoing, flight, loading, SetStage, Live
<1>4. OnDisk'
  BY CutsAreSaved DEF OnDisk, Asked, StepsFit, Kept, SavedFillers, Undoing, Pair, disk, flight, loading, SetStage, Live
<1>5. Asked'
  BY CutsAreSaved DEF OnDisk, Asked, StepsFit, Kept, SavedFillers, Undoing, Pair, disk, flight, loading, SetStage, Live
<1>6. Review'
  BY CutsAreSaved DEF Review, StepsFit, CutOf, Undoing, Terminal, TypeOK, disk, job, flight, loading, SetStage, Live
<1> QED BY <1>1, <1>2, <1>3, <1>4, <1>5, <1>6

LEMMA EngineWritesKeeps ==
  ASSUME IInv, EngineWrites
  PROVE  IInv'
<1> USE CleanupAssumption DEF IInv, EngineWrites
<1>a. TypeOK /\ CallsOK /\ StepsFit /\ OnDisk /\ Asked /\ Review
  OBVIOUS
<1>1. TypeOK'
  BY CutsAreSaved DEF TypeOK, CallsOK, Calls, Ats, Terminal, First, Undoing, StepsFit, OnDisk, disk, job, flight, loading
<1>2. CallsOK'
  BY DEF CallsOK, Calls, Ats
<1>3. StepsFit'
  BY DEF StepsFit, Undoing, flight, loading
<1>4. OnDisk'
  BY CutsAreSaved DEF OnDisk, Asked, StepsFit, Kept, SavedFillers, Undoing, Pair, disk, flight, loading
<1>5. Asked'
  BY CutsAreSaved DEF OnDisk, Asked, StepsFit, Kept, SavedFillers, Undoing, Pair, disk, flight, loading
<1>6. Review'
  BY CutsAreSaved DEF Review, StepsFit, CutOf, Undoing, Terminal, TypeOK, disk, job, flight, loading
<1> QED BY <1>1, <1>2, <1>3, <1>4, <1>5, <1>6

LEMMA EngineEndsKeeps ==
  ASSUME IInv, EngineEnds
  PROVE  IInv'
<1> USE CleanupAssumption DEF IInv, EngineEnds
<1>a. TypeOK /\ CallsOK /\ StepsFit /\ OnDisk /\ Asked /\ Review
  OBVIOUS
<1>1. TypeOK'
  BY CutsAreSaved DEF TypeOK, CallsOK, Calls, Ats, Terminal, First, Undoing, StepsFit, OnDisk, disk, job, flight, loading
<1>2. CallsOK'
  BY DEF CallsOK, Calls, Ats
<1>3. StepsFit'
  BY DEF StepsFit, Undoing, flight, loading
<1>4. OnDisk'
  BY CutsAreSaved DEF OnDisk, Asked, StepsFit, Kept, SavedFillers, Undoing, Pair, disk, flight, loading
<1>5. Asked'
  BY CutsAreSaved DEF OnDisk, Asked, StepsFit, Kept, SavedFillers, Undoing, Pair, disk, flight, loading
<1>6. Review'
  BY CutsAreSaved DEF Review, StepsFit, CutOf, Undoing, Terminal, TypeOK, disk, job, flight, loading
<1> QED BY <1>1, <1>2, <1>3, <1>4, <1>5, <1>6

LEMMA OutdatedKeeps ==
  ASSUME IInv, Outdated
  PROVE  IInv'
<1> USE CleanupAssumption DEF IInv, Outdated
<1>a. TypeOK /\ CallsOK /\ StepsFit /\ OnDisk /\ Asked /\ Review
  OBVIOUS
<1>1. TypeOK'
  BY CutsAreSaved DEF TypeOK, CallsOK, Calls, Ats, Terminal, First, Undoing, StepsFit, OnDisk, disk, job, flight, loading, Settle, Current
<1>2. CallsOK'
  BY DEF CallsOK, Calls, Ats, Settle, Current
<1>3. StepsFit'
  BY DEF StepsFit, Undoing, flight, loading, Settle, Current
<1>4. OnDisk'
  BY CutsAreSaved DEF OnDisk, Asked, StepsFit, Kept, SavedFillers, Undoing, Pair, disk, flight, loading, Settle, Current
<1>5. Asked'
  BY CutsAreSaved DEF OnDisk, Asked, StepsFit, Kept, SavedFillers, Undoing, Pair, disk, flight, loading, Settle, Current
<1>6. Review'
  BY CutsAreSaved DEF Review, StepsFit, CutOf, Undoing, Terminal, TypeOK, disk, job, flight, loading, Settle, Current
<1> QED BY <1>1, <1>2, <1>3, <1>4, <1>5, <1>6

LEMMA PersistKeeps ==
  ASSUME IInv, Persist
  PROVE  IInv'
<1> USE CleanupAssumption DEF IInv, Persist
<1>a. TypeOK /\ CallsOK /\ StepsFit /\ OnDisk /\ Asked /\ Review
  OBVIOUS
<1>1. TypeOK'
  BY CutsAreSaved DEF TypeOK, CallsOK, Calls, Ats, Terminal, First, Undoing, StepsFit, OnDisk, disk, job, flight, loading, Current
<1>2. CallsOK'
  BY DEF CallsOK, Calls, Ats, Current
<1>3. StepsFit'
  BY DEF StepsFit, Undoing, flight, loading, Current
<1>4. OnDisk'
  BY CutsAreSaved DEF OnDisk, Asked, StepsFit, Kept, SavedFillers, Undoing, Pair, disk, flight, loading, Current
<1>5. Asked'
  BY CutsAreSaved DEF OnDisk, Asked, StepsFit, Kept, SavedFillers, Undoing, Pair, disk, flight, loading, Current
<1>6. Review'
  BY CutsAreSaved DEF Review, StepsFit, CutOf, Undoing, Terminal, TypeOK, disk, job, flight, loading, Current
<1> QED BY <1>1, <1>2, <1>3, <1>4, <1>5, <1>6

LEMMA ShowKeeps ==
  ASSUME IInv, Show
  PROVE  IInv'
<1> USE CleanupAssumption DEF IInv, Show
<1>a. TypeOK /\ CallsOK /\ StepsFit /\ OnDisk /\ Asked /\ Review
  OBVIOUS
<1>1. TypeOK'
  BY CutsAreSaved DEF TypeOK, CallsOK, Calls, Ats, Terminal, First, Undoing, StepsFit, OnDisk, disk, job, flight, loading, SetReview, Live, Settle, Current
<1>2. CallsOK'
  BY DEF CallsOK, Calls, Ats, SetReview, Live, Settle, Current
<1>3. StepsFit'
  BY DEF StepsFit, Undoing, flight, loading, SetReview, Live, Settle, Current
<1>4. OnDisk'
  BY CutsAreSaved DEF OnDisk, Asked, StepsFit, Kept, SavedFillers, Undoing, Pair, disk, flight, loading, SetReview, Live, Settle, Current
<1>5. Asked'
  BY CutsAreSaved DEF OnDisk, Asked, StepsFit, Kept, SavedFillers, Undoing, Pair, disk, flight, loading, SetReview, Live, Settle, Current
<1>6. Review'
  BY CutsAreSaved DEF Review, StepsFit, CutOf, Undoing, Terminal, TypeOK, disk, job, flight, loading, SetReview, Live, Settle, Current
<1> QED BY <1>1, <1>2, <1>3, <1>4, <1>5, <1>6

LEMMA RollbackKeeps ==
  ASSUME IInv, Rollback
  PROVE  IInv'
<1> USE CleanupAssumption DEF IInv, Rollback
<1>a. TypeOK /\ CallsOK /\ StepsFit /\ OnDisk /\ Asked /\ Review
  OBVIOUS
<1>1. TypeOK'
  BY CutsAreSaved DEF TypeOK, CallsOK, Calls, Ats, Terminal, First, Undoing, StepsFit, OnDisk, disk, job, flight, loading, Settle, SetStage, Live, Fail, Current
<1>2. CallsOK'
  BY DEF CallsOK, Calls, Ats, Settle, SetStage, Live, Fail, Current
<1>3. StepsFit'
  BY DEF StepsFit, Undoing, flight, loading, Settle, SetStage, Live, Fail, Current
<1>4. OnDisk'
  BY CutsAreSaved DEF OnDisk, Asked, StepsFit, Kept, SavedFillers, Undoing, Pair, disk, flight, loading, Settle, SetStage, Live, Fail, Current
<1>5. Asked'
  BY CutsAreSaved DEF OnDisk, Asked, StepsFit, Kept, SavedFillers, Undoing, Pair, disk, flight, loading, Settle, SetStage, Live, Fail, Current
<1>6. Review'
  BY CutsAreSaved DEF Review, StepsFit, CutOf, Undoing, Terminal, TypeOK, disk, job, flight, loading, Settle, SetStage, Live, Fail, Current
<1> QED BY <1>1, <1>2, <1>3, <1>4, <1>5, <1>6

LEMMA UndoKeepKeeps ==
  ASSUME IInv, UndoKeep
  PROVE  IInv'
<1> USE CleanupAssumption DEF IInv, UndoKeep
<1>a. TypeOK /\ CallsOK /\ StepsFit /\ OnDisk /\ Asked /\ Review
  OBVIOUS
<1>1. TypeOK'
  BY CutsAreSaved DEF TypeOK, CallsOK, Calls, Ats, Terminal, First, Undoing, StepsFit, OnDisk, disk, job, flight, loading
<1>2. CallsOK'
  BY DEF CallsOK, Calls, Ats
<1>3. StepsFit'
  BY DEF StepsFit, Undoing, flight, loading
<1>4. OnDisk'
  BY CutsAreSaved DEF OnDisk, Asked, StepsFit, Kept, SavedFillers, Undoing, Pair, disk, flight, loading
<1>5. Asked'
  BY CutsAreSaved DEF OnDisk, Asked, StepsFit, Kept, SavedFillers, Undoing, Pair, disk, flight, loading
<1>6. Review'
  BY CutsAreSaved DEF Review, StepsFit, CutOf, Undoing, Terminal, TypeOK, disk, job, flight, loading
<1> QED BY <1>1, <1>2, <1>3, <1>4, <1>5, <1>6

LEMMA UndoFillersKeeps ==
  ASSUME IInv, UndoFillers
  PROVE  IInv'
<1> USE CleanupAssumption DEF IInv, UndoFillers
<1>a. TypeOK /\ CallsOK /\ StepsFit /\ OnDisk /\ Asked /\ Review
  OBVIOUS
<1>1. TypeOK'
  BY CutsAreSaved DEF TypeOK, CallsOK, Calls, Ats, Terminal, First, Undoing, StepsFit, OnDisk, disk, job, flight, loading
<1>2. CallsOK'
  BY DEF CallsOK, Calls, Ats
<1>3. StepsFit'
  BY DEF StepsFit, Undoing, flight, loading
<1>4. OnDisk'
  BY CutsAreSaved DEF OnDisk, Asked, StepsFit, Kept, SavedFillers, Undoing, Pair, disk, flight, loading
<1>5. Asked'
  BY CutsAreSaved DEF OnDisk, Asked, StepsFit, Kept, SavedFillers, Undoing, Pair, disk, flight, loading
<1>6. Review'
  BY CutsAreSaved DEF Review, StepsFit, CutOf, Undoing, Terminal, TypeOK, disk, job, flight, loading
<1> QED BY <1>1, <1>2, <1>3, <1>4, <1>5, <1>6

LEMMA UndoJournalKeeps ==
  ASSUME IInv, UndoJournal
  PROVE  IInv'
<1> USE CleanupAssumption DEF IInv, UndoJournal
<1>a. TypeOK /\ CallsOK /\ StepsFit /\ OnDisk /\ Asked /\ Review
  OBVIOUS
<1>1. TypeOK'
  BY CutsAreSaved DEF TypeOK, CallsOK, Calls, Ats, Terminal, First, Undoing, StepsFit, OnDisk, disk, job, flight, loading, AfterUndo, Unsaved
<1>2. CallsOK'
  BY DEF CallsOK, Calls, Ats, AfterUndo, Unsaved
<1>3. StepsFit'
  BY DEF StepsFit, Undoing, flight, loading, AfterUndo, Unsaved
<1>4. OnDisk'
  <2>1. Pair(keep, fillers) = journal /\ journal # Nothing /\ journal \in asked
    BY DEF OnDisk, Undoing
  <2>2. pc' \in {"start", "rollback", "journal", "show"}
    BY DEF TypeOK, AfterUndo, Unsaved
  <2> QED BY <2>1, <2>2 DEF OnDisk, Undoing, Pair, flight
<1>5. Asked'
  BY CutsAreSaved DEF OnDisk, Asked, StepsFit, Kept, SavedFillers, Undoing, Pair, disk, flight, loading, AfterUndo, Unsaved
<1>6. Review'
  BY CutsAreSaved DEF Review, StepsFit, CutOf, Undoing, Terminal, TypeOK, disk, job, flight, loading, AfterUndo, Unsaved
<1> QED BY <1>1, <1>2, <1>3, <1>4, <1>5, <1>6

LEMMA WriteJournalKeeps ==
  ASSUME IInv, WriteJournal
  PROVE  IInv'
<1> USE CleanupAssumption DEF IInv, WriteJournal
<1>a. TypeOK /\ CallsOK /\ StepsFit /\ OnDisk /\ Asked /\ Review
  OBVIOUS
<1>1. TypeOK'
  BY CutsAreSaved DEF TypeOK, CallsOK, Calls, Ats, Terminal, First, Undoing, StepsFit, OnDisk, disk, job, flight, loading
<1>2. CallsOK'
  BY DEF CallsOK, Calls, Ats
<1>3. StepsFit'
  BY DEF StepsFit, Undoing, flight, loading
<1>4. OnDisk'
  BY CutsAreSaved DEF OnDisk, Asked, StepsFit, Kept, SavedFillers, Undoing, Pair, disk, flight, loading
<1>5. Asked'
  BY CutsAreSaved DEF OnDisk, Asked, StepsFit, Kept, SavedFillers, Undoing, Pair, disk, flight, loading
<1>6. Review'
  BY CutsAreSaved DEF Review, StepsFit, CutOf, Undoing, Terminal, TypeOK, disk, job, flight, loading
<1> QED BY <1>1, <1>2, <1>3, <1>4, <1>5, <1>6

LEMMA WriteKeepKeeps ==
  ASSUME IInv, WriteKeep
  PROVE  IInv'
<1> USE CleanupAssumption DEF IInv, WriteKeep
<1>a. TypeOK /\ CallsOK /\ StepsFit /\ OnDisk /\ Asked /\ Review
  OBVIOUS
<1>1. TypeOK'
  BY CutsAreSaved DEF TypeOK, CallsOK, Calls, Ats, Terminal, First, Undoing, StepsFit, OnDisk, disk, job, flight, loading
<1>2. CallsOK'
  BY DEF CallsOK, Calls, Ats
<1>3. StepsFit'
  BY DEF StepsFit, Undoing, flight, loading
<1>4. OnDisk'
  BY CutsAreSaved DEF OnDisk, Asked, StepsFit, Kept, SavedFillers, Undoing, Pair, disk, flight, loading
<1>5. Asked'
  BY CutsAreSaved DEF OnDisk, Asked, StepsFit, Kept, SavedFillers, Undoing, Pair, disk, flight, loading
<1>6. Review'
  BY CutsAreSaved DEF Review, StepsFit, CutOf, Undoing, Terminal, TypeOK, disk, job, flight, loading
<1> QED BY <1>1, <1>2, <1>3, <1>4, <1>5, <1>6

LEMMA WriteFillersKeeps ==
  ASSUME IInv, WriteFillers
  PROVE  IInv'
<1> USE CleanupAssumption DEF IInv, WriteFillers
<1>a. TypeOK /\ CallsOK /\ StepsFit /\ OnDisk /\ Asked /\ Review
  OBVIOUS
<1>1. TypeOK'
  BY CutsAreSaved DEF TypeOK, CallsOK, Calls, Ats, Terminal, First, Undoing, StepsFit, OnDisk, disk, job, flight, loading
<1>2. CallsOK'
  BY DEF CallsOK, Calls, Ats
<1>3. StepsFit'
  BY DEF StepsFit, Undoing, flight, loading
<1>4. OnDisk'
  BY CutsAreSaved DEF OnDisk, Asked, StepsFit, Kept, SavedFillers, Undoing, Pair, disk, flight, loading
<1>5. Asked'
  BY CutsAreSaved DEF OnDisk, Asked, StepsFit, Kept, SavedFillers, Undoing, Pair, disk, flight, loading
<1>6. Review'
  BY CutsAreSaved DEF Review, StepsFit, CutOf, Undoing, Terminal, TypeOK, disk, job, flight, loading
<1> QED BY <1>1, <1>2, <1>3, <1>4, <1>5, <1>6

LEMMA CommitKeeps ==
  ASSUME IInv, Commit
  PROVE  IInv'
<1> USE CleanupAssumption DEF IInv, Commit
<1>a. TypeOK /\ CallsOK /\ StepsFit /\ OnDisk /\ Asked /\ Review
  OBVIOUS
<1>1. TypeOK'
  BY CutsAreSaved DEF TypeOK, CallsOK, Calls, Ats, Terminal, First, Undoing, StepsFit, OnDisk, disk, job, flight, loading
<1>2. CallsOK'
  BY DEF CallsOK, Calls, Ats
<1>3. StepsFit'
  BY DEF StepsFit, Undoing, flight, loading
<1>4. OnDisk'
  <2>1. journal # Nothing /\ journal \in asked /\ Pair(keep, fillers) = Kept(state) /\ loaded = "yes"
    BY DEF TypeOK, OnDisk, StepsFit, Undoing
  <2>2. Kept(state) \in asked
    BY <2>1 DEF Asked
  <2>3. \/ journal' = Nothing /\ pc' = "show"
        \/ journal' = journal /\ pc' = "undoKeep"
    OBVIOUS
  <2>4. Pair(keep', fillers') = Pair(keep, fillers) /\ asked' = asked
    OBVIOUS
  <2> QED BY <2>1, <2>2, <2>3, <2>4 DEF OnDisk, Undoing
<1>5. Asked'
  BY CutsAreSaved DEF OnDisk, Asked, StepsFit, Kept, SavedFillers, Undoing, Pair, disk, flight, loading
<1>6. Review'
  BY CutsAreSaved DEF Review, StepsFit, CutOf, Undoing, Terminal, TypeOK, disk, job, flight, loading
<1> QED BY <1>1, <1>2, <1>3, <1>4, <1>5, <1>6

LEMMA FaultKeeps ==
  ASSUME IInv, Fault
  PROVE  IInv'
<1> USE CleanupAssumption DEF IInv, Fault
<1>a. TypeOK /\ CallsOK /\ StepsFit /\ OnDisk /\ Asked /\ Review
  OBVIOUS
<1>1. TypeOK'
  BY CutsAreSaved DEF TypeOK, CallsOK, Calls, Ats, Terminal, First, Undoing, StepsFit, OnDisk, disk, job, flight, loading, Unsaved, LoadFails
<1>2. CallsOK'
  BY DEF CallsOK, Calls, Ats, Unsaved, LoadFails
<1>3. StepsFit'
  BY DEF StepsFit, Undoing, flight, loading, Unsaved, LoadFails
<1>4. OnDisk'
  BY CutsAreSaved DEF OnDisk, Asked, StepsFit, Kept, SavedFillers, Undoing, Pair, disk, flight, loading, Unsaved, LoadFails
<1>5. Asked'
  BY CutsAreSaved DEF OnDisk, Asked, StepsFit, Kept, SavedFillers, Undoing, Pair, disk, flight, loading, Unsaved, LoadFails
<1>6. Review'
  BY CutsAreSaved DEF Review, StepsFit, CutOf, Undoing, Terminal, TypeOK, disk, job, flight, loading, Unsaved, LoadFails
<1> QED BY <1>1, <1>2, <1>3, <1>4, <1>5, <1>6

LEMMA CrashKeeps ==
  ASSUME IInv, Crash
  PROVE  IInv'
<1> USE CleanupAssumption DEF IInv, Crash
<1>a. TypeOK /\ CallsOK /\ StepsFit /\ OnDisk /\ Asked /\ Review
  OBVIOUS
<1>1. TypeOK'
  BY CutsAreSaved DEF TypeOK, CallsOK, Calls, Ats, Terminal, First, Undoing, StepsFit, OnDisk, disk, job, flight, loading, Free
<1>2. CallsOK'
  BY DEF CallsOK, Calls, Ats, Free
<1>3. StepsFit'
  BY DEF StepsFit, Undoing, flight, loading, Free
<1>4. OnDisk'
  BY CutsAreSaved DEF OnDisk, Asked, StepsFit, Kept, SavedFillers, Undoing, Pair, disk, flight, loading, Free
<1>5. Asked'
  BY CutsAreSaved DEF OnDisk, Asked, StepsFit, Kept, SavedFillers, Undoing, Pair, disk, flight, loading, Free
<1>6. Review'
  BY CutsAreSaved DEF Review, StepsFit, CutOf, Undoing, Terminal, TypeOK, disk, job, flight, loading, Free
<1> QED BY <1>1, <1>2, <1>3, <1>4, <1>5, <1>6

LEMMA UpdateKeeps ==
  ASSUME IInv, NEW c \in Callers, Update(c)
  PROVE  IInv'
<1> USE CleanupAssumption DEF IInv
<1>1. calls[c] \in Calls /\ calls' = [calls EXCEPT ![c].at = "wait"] /\ loaded = "yes" /\ desired' = Merged(c)
  BY DEF Update, CallsOK
<1>2. CallsOK'
  BY <1>1, RepliesAreCalls DEF Ats
<1>3. Merged(c) \in [gen : Nat, keep : Keeps, fillers : Decisions]
  BY <1>1 DEF Merged, Calls, TypeOK
<1>4. pc' = IF pc = "none" THEN "begin" ELSE pc
  BY DEF Update
<1>5. TypeOK'
  BY <1>1, <1>2, <1>3, <1>4 DEF TypeOK, Update, disk, job, CallsOK, Calls, Ats
<1>6. StepsFit'
  BY <1>4 DEF StepsFit, Update, Undoing
<1>7. OnDisk'
  BY <1>4 DEF OnDisk, Kept, SavedFillers, Update, Undoing, disk
<1>8. Asked'
  BY <1>1, <1>4 DEF Asked, Kept, SavedFillers, Update, disk
<1>9. Review'
  BY <1>4 DEF Review, Update, disk, job, CutOf, Undoing
<1> QED BY <1>2, <1>5, <1>6, <1>7, <1>8, <1>9

LEMMA NextKeepsIInv == IInv /\ [Next]_vars => IInv'
<1>1. ASSUME IInv, Next PROVE IInv'
  BY <1>1, CallersKeep, UpdateKeeps, LoadKeeps, LoadedKeeps, BeginKeeps, EngineWritesKeeps, EngineEndsKeeps,
     OutdatedKeeps, PersistKeeps, ShowKeeps, RollbackKeeps, UndoKeepKeeps, UndoFillersKeeps, UndoJournalKeeps,
     WriteJournalKeeps, WriteKeepKeeps, WriteFillersKeeps, CommitKeeps, FaultKeeps, CrashKeeps
     DEF Next, Planning, Session, Serve
<1>2. ASSUME IInv, UNCHANGED vars PROVE IInv'
  <2>1. CallsOK' /\ Aside
    BY <1>2 DEF vars, disk, job, IInv, CallsOK, TypeOK, Aside, Stages
  <2> QED BY <1>2, <2>1, AsideKeeps DEF IInv
<1> QED BY <1>1, <1>2

THEOREM Invariance == Spec => []IInv
BY InitHasIInv, NextKeepsIInv, PTL DEF Spec

\* Every variable keeps its type, for any requests, lists, decisions and number of faults.
THEOREM TypeCorrectness == Spec => []TypeOK
<1>1. IInv => TypeOK
  BY DEF IInv
<1> QED BY <1>1, Invariance, PTL

\* When no journal is pending, the keep-list and the decisions on disk were asked for
\* together, after any number of failed writes, failed recoveries, cancels and crashes.
THEOREM SavesTogether == Spec => []SavedTogether
<1>1. IInv => SavedTogether
  BY DEF IInv, OnDisk, SavedTogether
<1> QED BY <1>1, Invariance, PTL

\* A job that is ready and plans nothing has on disk the plan its screen shows.
THEOREM ScreenAndPlanMatch == Spec => []ScreenMatchesPlan
<1>1. IInv => ScreenMatchesPlan
  BY DEF IInv, Review, Terminal, ScreenMatchesPlan
<1> QED BY <1>1, Invariance, PTL
=============================================================================
