------------------------------- MODULE LiveParts -------------------------------
(***************************************************************************)
(* The parts of the program that calls wait in line for: the file lock  *)
(* (whose definitions are this module's own), the coordinator and the      *)
(* queue. They share no state; one of them runs in each behaviour.         *)
(***************************************************************************)
EXTENDS FileLock, Sequences

CONSTANTS
  Callers, SlotCallers, Interactive, CallerProc, Tasks, TaskOf, SlotLimit, Lease, ExpiryLeases, Crashes, None, Error,
                                         \* of the coordinator
  Runs, Places, KeyOf, NoKey, NoWork     \* of the queue

VARIABLES
  part,   \* which one runs
  gpc, at, nextAt, waiters, bypassed, age, remembered, slots, tasks, held, beat,
  gfaults, lock, outcome, grant, overtaken, robbed,
  inFlight, queued, work, shared, consumers, stopped, aborted, call

G == INSTANCE Coordinator WITH
  ProcOf <- CallerProc, Limit <- SlotLimit, MaxFaults <- Crashes, pc <- gpc, faults <- gfaults

Q == INSTANCE LimitedQueue WITH Calls <- Runs, Limit <- Places, waiters <- queued

ASSUME LivePartsAssumption == Q!LimitedQueueAssumption

gVars == <<gpc, at, nextAt, waiters, bypassed, age, remembered, slots, tasks, held,
           beat, gfaults, lock, outcome, grant, overtaken, robbed>>
qVars == <<inFlight, queued, work, shared, consumers, stopped, aborted, call>>

LiveInit ==
  /\ Init /\ G!Init /\ Q!Init
  /\ part \in {"lock", "coordinator", "queue"}

LiveNext ==
  \/ part = "lock" /\ Next /\ UNCHANGED <<part, gVars, qVars>>
  \/ part = "coordinator" /\ G!Next /\ UNCHANGED <<part, vars, qVars>>
  \/ part = "queue" /\ Q!Next /\ UNCHANGED <<part, vars, gVars>>

\* What is fair differs from part to part: each liveness property says it.
LiveSpec == LiveInit /\ [][LiveNext]_<<part, vars, gVars, qVars>>

-----------------------------------------------------------------------------

\* A call that wants the file lock gets it, or its process dies, although owners
\* die before or after their pid is in the file.
LockIsEntered == Fairness => EveryoneEnters

\* Every call that waits for the coordinator ends, although holders and waiters
\* crash or fail while they hold a slot or head the queue.
EveryoneServed == G!Fairness => G!EveryoneServed

\* No place in the queue is lost, or given twice, by a call that gives up, and the calls of
\* one key that wait follow one work: the one a new call would join.
PlacesAndWorksAddUp == Q!PlacesAreAccounted /\ Q!OneWorkPerKey
=============================================================================
