------------------------------- MODULE FileLock -------------------------------
(***************************************************************************)
(* withLock and clearStaleLock of packages/coordinator/src/index.ts: the   *)
(* .lock file behind every critical section of Coordinator.tla. A call     *)
(* creates the file with O_EXCL, writes its pid in a second step, runs its *)
(* section and unlinks the path. A call that finds the file there stats    *)
(* it, reads it, stats it again and unlinks it when it looks abandoned:    *)
(* four system calls that other calls and processes run between.           *)
(*                                                                         *)
(* A call of withLock creates the file at most once, so inode and mtime    *)
(* together are the creator and whether it has written its pid yet.        *)
(***************************************************************************)
EXTENDS Naturals, FiniteSets

CONSTANTS Calls,      \* calls of withLock
          Procs,      \* operating system processes, all on one host
          ProcOf,     \* the process of each call
          MaxFaults,  \* bound: crashes and disk errors in a behaviour
          NoFile

ASSUME LockAssumption ==
  /\ ProcOf \in [Calls -> Procs]
  /\ MaxFaults \in Nat
  /\ NoFile \notin [owner : Calls, written : BOOLEAN]

VARIABLES
  pc,      \* where each call stands
  file,    \* .lock: NoFile, or its creator and whether the pid is written
  seen,    \* clearStaleLock's `before`: the file of the first stat
  aged,    \* creators whose .lock is older than staleLockMs
  dead,    \* processes that died
  faults   \* bound

vars == <<pc, file, seen, aged, dead, faults>>

Files == [owner : Calls, written : BOOLEAN]
InSection == {"created", "holding"}

Init ==
  /\ pc = [c \in Calls |-> "idle"]
  /\ file = NoFile
  /\ seen = [c \in Calls |-> NoFile]
  /\ aged = {}
  /\ dead = {}
  /\ faults = 0

Goes(c, from, to) == pc[c] = from /\ pc' = [pc EXCEPT ![c] = to]
Fault == faults < MaxFaults /\ faults' = faults + 1

\* withLock is called.
Call(c) ==
  /\ Goes(c, "idle", "trying")
  /\ UNCHANGED <<file, seen, aged, dead, faults>>

\* open(.lock, "wx") succeeds: the file is there, and empty.
Create(c) ==
  /\ file = NoFile
  /\ Goes(c, "trying", "created")
  /\ file' = [owner |-> c, written |-> FALSE]
  /\ UNCHANGED <<seen, aged, dead, faults>>

\* ... or fails with EEXIST, and clearStaleLock stats the file.
FirstStat(c) ==
  /\ file # NoFile
  /\ Goes(c, "trying", "reading")
  /\ seen' = [seen EXCEPT ![c] = file]
  /\ UNCHANGED <<file, aged, dead, faults>>

\* Mutant: the file names the process instead of the call that created it.
WriteOnlyPid(c) ==
  /\ Goes(c, "created", "holding")
  /\ file' = [owner |-> ProcOf[c], written |-> TRUE]
  /\ UNCHANGED <<seen, aged, dead, faults>>

\* The pid goes to the file this call opened, wherever the path leads by now.
WritePid(c) ==
  /\ Goes(c, "created", "holding")
  /\ file' = IF file # NoFile /\ file.owner = c
             THEN [owner |-> c, written |-> TRUE] ELSE file
  /\ UNCHANGED <<seen, aged, dead, faults>>

\* Mutants: an empty file is taken for a dead owner's, as store.ts does with
\* project.lock (Number("") is 0); or only a dead owner counts.
EmptyIsStale(c) ==
  \/ seen[c].owner \in aged
  \/ file # NoFile /\ (file.written => ProcOf[file.owner] \in dead)
OnlyDeadIsStale(c) ==
  file # NoFile /\ file.written /\ ProcOf[file.owner] \in dead

\* lockIsStale: the file of the first stat is too old, or the content read
\* now names a dead process.
IsStale(c) ==
  \/ seen[c].owner \in aged
  \/ file # NoFile /\ file.written /\ ProcOf[file.owner] \in dead

Read(c) ==
  /\ pc[c] = "reading"
  /\ pc' = [pc EXCEPT ![c] = IF IsStale(c) THEN "suspecting" ELSE "trying"]
  /\ UNCHANGED <<file, seen, aged, dead, faults>>

\* "Confere de novo o inode e o mtime logo antes de apagar".
SecondStat(c) ==
  /\ pc[c] = "suspecting"
  /\ pc' = [pc EXCEPT ![c] = IF file = seen[c] THEN "unlinking" ELSE "trying"]
  /\ UNCHANGED <<file, seen, aged, dead, faults>>

\* unlink takes the path, not the inode.
UnlinkStale(c) ==
  /\ Goes(c, "unlinking", "trying")
  /\ file' = NoFile
  /\ UNCHANGED <<seen, aged, dead, faults>>

\* The section is over; so is the file, whoever created it.
Unlock(c) ==
  /\ Goes(c, "holding", "done")
  /\ file' = NoFile
  /\ UNCHANGED <<seen, aged, dead, faults>>

\* The pid cannot be written: withLock throws and leaves its file behind; or
\* the final unlink fails, which is ignored.
LeavesFile(c) ==
  /\ Fault
  /\ Goes(c, "created", "failed") \/ Goes(c, "holding", "done")
  /\ UNCHANGED <<file, seen, aged, dead>>

Crash(p) ==
  /\ Fault
  /\ p \notin dead
  /\ dead' = dead \cup {p}
  /\ pc' = [c \in Calls |-> IF ProcOf[c] = p THEN "dead" ELSE pc[c]]
  /\ UNCHANGED <<file, seen, aged>>

\* staleLockMs passes. A section lasts milliseconds and the limit is 30 s, so
\* only a file whose call is gone grows that old.
Age ==
  /\ file # NoFile
  /\ file.owner \notin aged /\ pc[file.owner] \notin InSection
  /\ aged' = aged \cup {file.owner}
  /\ UNCHANGED <<pc, file, seen, dead, faults>>

Over == {"idle", "done", "failed", "dead"}
Finished == (\A c \in Calls : pc[c] \in Over) /\ UNCHANGED vars

Advance(c) ==
  \/ Create(c) \/ FirstStat(c) \/ WritePid(c) \/ Read(c)
  \/ SecondStat(c) \/ UnlinkStale(c) \/ Unlock(c)

Next ==
  \/ \E c \in Calls : Call(c) \/ Advance(c) \/ LeavesFile(c)
  \/ \E p \in Procs : Crash(p)
  \/ Age
  \/ Finished

(* A call of a live process goes on: its promises settle, its poll timer
   fires. Time passes. *)
Spec == Init /\ [][Next]_vars
Fairness == (\A c \in Calls : WF_vars(Advance(c))) /\ WF_vars(Age)
FairSpec == Spec /\ Fairness

-----------------------------------------------------------------------------

TypeOK ==
  /\ pc \in [Calls -> InSection \cup Over
                      \cup {"trying", "reading", "suspecting", "unlinking"}]
  /\ file \in Files \cup {NoFile}
  /\ seen \in [Calls -> Files \cup {NoFile}]
  /\ aged \in SUBSET Calls
  /\ dead \in SUBSET Procs
  /\ faults \in 0 .. MaxFaults

Exclusive ==
  \A c, d \in Calls : pc[c] = "holding" /\ pc[d] = "holding" => c = d

\* As long as no process died and no file was left behind, two sections never
\* overlap: no contender takes a fresh, still empty, .lock for an orphan.
ExclusiveUntilFault == faults = 0 => Exclusive

\* "para não levar a trava nova de quem acabou de pegá-la": whoever clears a
\* dead owner's .lock never takes away the new one of a call that got it.
NeverTakesNewLock ==
  \A c \in Calls :
    pc[c] = "holding" => file # NoFile /\ file.owner = c

\* "um .lock órfão travava para sempre toda transcrição seguinte": it does not
\* any more. A call that wants the lock gets it, or its process dies, although
\* owners die before or after their pid is in the file.
EveryoneEnters ==
  \A c \in Calls : pc[c] = "trying" ~> pc[c] \in InSection \cup {"dead"}
=============================================================================
