------------------------- MODULE ServerParts_proofs -------------------------
(***************************************************************************)
(* Theorems about Coordinator, for every set of calls, processes and tasks *)
(* and every limit and lease. TypeCorrect comes first; then LeaseInv, the  *)
(* inductive invariant about task leases and results, from which follow    *)
(* OneLiveBuilder, SameResult, CompletedIsFinal and the refinement of      *)
(* SingleFlight; then SlotInv, from which follow LimitUnlessRobbed and     *)
(* RunsReleaseForGood; then OvertakenIsMarked, from which follows          *)
(* OvertakenOnce; last, for calls of one process, KeepsItsPlace.           *)
(*                                                                         *)
(* Then the videos, for every set of renders and montages and any number   *)
(* of revisions: VideoInv, from which follow CacheIsWhatItsKeySays (who    *)
(* publishes has its turn from the rename to the link, so what it links is *)
(* its own) and TakesOnlyOvertaken (what is listed to go is Kept revisions *)
(* old and was not referred to when the pruning first read).               *)
(***************************************************************************)
EXTENDS ServerParts, FiniteSetTheorems, TLAPS

-----------------------------------------------------------------------------
(* The lease records, by type.                                             *)

SlotType == [owner : Callers \cup {None}, ttl : 0 .. Lease]
TaskType == [status : Statuses, owner : RunCallers \cup {None},
             ttl : 0 .. Lease, result : RunCallers \cup {None}]

LEMMA FreshSlots ==
  /\ FreeSlot \in SlotType
  /\ \A c \in Callers : [owner |-> c, ttl |-> Lease] \in SlotType
  /\ \A r \in SlotType : [owner |-> r.owner, ttl |-> Less(r.ttl)] \in SlotType
  BY ConstantsAssumption DEF FreeSlot, SlotType, Less

LEMMA FreshTasks ==
  /\ \A st \in Statuses : Unleased(st) \in TaskType
  /\ \A r \in TaskType : WithTtl(r, Lease) \in TaskType
  /\ \A r \in TaskType : WithTtl(r, Less(r.ttl)) \in TaskType
  BY ConstantsAssumption DEF Unleased, WithTtl, TaskType, Less

LEMMA LeaseTypes ==
  TypeOK => slots \in [Slots -> SlotType] /\ tasks \in [Tasks -> TaskType]
  BY DEF TypeOK, SlotType, TaskType

-----------------------------------------------------------------------------
(* The queue helpers, by type.                                             *)

LEMMA ExpiryType == WaiterExpiry \in Nat /\ WaiterBeat \in Nat
  BY ConstantsAssumption DEF WaiterExpiry, WaiterBeat

LEMMA RefreshTypes ==
  ASSUME TypeOK, NEW c \in Callers
  PROVE  /\ ReadWaiters(c) \in SUBSET Callers
         /\ Refreshed(c) \in SUBSET Callers
         /\ RefreshedMarks(c) \in [Callers -> BOOLEAN]
         /\ RefreshedAges(c) \in [Callers -> Nat]
         /\ AfterClaimMarks(c) \in [Callers -> BOOLEAN]
<1>1. ReadWaiters(c) \in SUBSET Callers
  BY DEF TypeOK, ReadWaiters
<1>2. RefreshedMarks(c) \in [Callers -> BOOLEAN]
  BY DEF TypeOK, RefreshedMarks
<1>3. RefreshedAges(c) \in [Callers -> Nat]
  BY DEF TypeOK, RefreshedAges
<1>4. AfterClaimMarks(c) \in [Callers -> BOOLEAN]
  BY <1>2 DEF AfterClaimMarks
<1> QED
  BY <1>1, <1>2, <1>3, <1>4 DEF Refreshed

QueueTypeOK ==
  /\ waiters \in SUBSET Callers
  /\ bypassed \in [Callers -> BOOLEAN]
  /\ age \in [Callers -> Nat]

LEMMA WriteWaitersType ==
  ASSUME NEW c, NEW records \in SUBSET Callers,
         NEW marks \in [Callers -> BOOLEAN], NEW ages \in [Callers -> Nat],
         WriteWaiters(c, records, marks, ages)
  PROVE  QueueTypeOK'
<1>1. waiters' \in SUBSET Callers
  BY DEF WriteWaiters
<1>2. bypassed' \in [Callers -> BOOLEAN]
  BY Zenon DEF WriteWaiters
<1>3. age' \in [Callers -> Nat]
  BY DEF WriteWaiters
<1> QED BY <1>1, <1>2, <1>3 DEF QueueTypeOK

LEMMA ForgetOvertakesType ==
  ASSUME TypeOK, NEW gone, ForgetOvertakes(gone)
  PROVE  overtaken' \in [Callers -> Nat]
  BY DEF ForgetOvertakes, TypeOK

LEMMA LeaveQueueType ==
  ASSUME TypeOK, NEW c \in Callers, LeaveQueue(c)
  PROVE  QueueTypeOK' /\ overtaken' \in [Callers -> Nat]
<1>1. QueueTypeOK'
  <2>1. Refreshed(c) \ {c} \in SUBSET Callers
    BY RefreshTypes
  <2>2. WriteWaiters(c, Refreshed(c) \ {c}, AfterClaimMarks(c), age)
    BY DEF LeaveQueue
  <2> QED BY <2>1, <2>2, RefreshTypes, WriteWaitersType DEF TypeOK
<1>2. overtaken' \in [Callers -> Nat]
  BY DEF LeaveQueue, TypeOK
<1> QED BY <1>1, <1>2

-----------------------------------------------------------------------------
(* Type correctness, one group of actions at a time.                       *)

LEMMA InitType == Init => TypeOK
<1> SUFFICES ASSUME Init PROVE TypeOK
  OBVIOUS
<1>1. slots \in [Slots -> SlotType] /\ tasks \in [Tasks -> TaskType]
  BY ConstantsAssumption
  DEF Init, FreeSlot, NoTask, Unleased, Statuses, RunCallers, SlotType, TaskType
<1>2. /\ pc \in [Callers -> Active \cup {"idle", "done", "dead"}] /\ lock \in Callers \cup {None}
      /\ held \in [Callers -> Slots \cup {None}] /\ outcome \in [Callers -> Callers \cup {None, Error}]
      /\ beat \in [Callers -> BOOLEAN]
      /\ remembered \in [Callers -> BOOLEAN] /\ bypassed \in [Callers -> BOOLEAN]
  BY DEF Init
<1>3. /\ at \in [Callers -> Nat] /\ nextAt \in Nat /\ age \in [Callers -> Nat]
      /\ faults \in 0 .. MaxFaults /\ grant \in [Callers -> 0 .. Lease] /\ overtaken \in [Callers -> Nat]
      /\ robbed \in SUBSET Callers /\ waiters \in SUBSET Callers
  BY ConstantsAssumption DEF Init
<1> QED BY <1>1, <1>2, <1>3 DEF TypeOK, SlotType, TaskType

LEMMA WaitType ==
  ASSUME TypeOK, NEW c \in Callers,
         Enter(c) \/ Enqueue(c) \/ Wait(c)
  PROVE  TypeOK'
<1> USE ConstantsAssumption DEF Active, callVars, queueVars, leaseVars, beatVars
<1> DEFINE less == ReadWaiters(c) \ {c}
<1>0. /\ less \in SUBSET Callers
      /\ bypassed \in [Callers -> BOOLEAN] /\ age \in [Callers -> Nat]
  BY RefreshTypes DEF TypeOK
<1>1. CASE Enter(c)
  BY <1>1 DEF Enter, TypeOK
<1>2. CASE Enqueue(c)
  <2>0. PICK late \in 0 .. WaiterExpiry + 1 :
          WriteWaiters(c, Refreshed(c), RefreshedMarks(c), [age EXCEPT ![c] = late])
    BY <1>2 DEF Enqueue
  <2>1. [age EXCEPT ![c] = late] \in [Callers -> Nat]
    BY ExpiryType DEF TypeOK
  <2>2. WriteWaiters(c, Refreshed(c), RefreshedMarks(c), [age EXCEPT ![c] = late])
    BY <2>0
  <2>3. QueueTypeOK'
    BY <2>1, <2>2, RefreshTypes, WriteWaitersType
  <2>4. overtaken' \in [Callers -> Nat]
    BY <1>2, ForgetOvertakesType DEF Enqueue
  <2> QED BY <1>2, <2>3, <2>4 DEF Enqueue, TypeOK, QueueTypeOK
<1>3. CASE TakeResult(c)
  BY <1>3 DEF TakeResult, TypeOK, RunCallers
<1>4. CASE ClaimDone(c)
  <2>1. QueueTypeOK'
    BY <1>0, <1>4, WriteWaitersType DEF ClaimDone
  <2>2. overtaken' \in [Callers -> Nat]
    BY <1>4, ForgetOvertakesType DEF ClaimDone
  <2> QED BY <1>4, <2>1, <2>2 DEF ClaimDone, TypeOK, QueueTypeOK, RunCallers
<1>5. CASE Follow(c)
  <2>1. QueueTypeOK'
    BY <1>0, <1>5, WriteWaitersType DEF Follow
  <2>2. overtaken' \in [Callers -> Nat]
    BY <1>5, ForgetOvertakesType DEF Follow
  <2>3. remembered' \in [Callers -> BOOLEAN]
    BY <1>5 DEF Follow, RememberMark, TypeOK
  <2> QED BY <1>5, <2>1, <2>2, <2>3 DEF Follow, TypeOK, QueueTypeOK
<1>6. CASE KeepWaiting(c)
  <2>1. QueueTypeOK'
    BY <1>6, RefreshTypes, WriteWaitersType DEF KeepWaiting
  <2>2. overtaken' \in [Callers -> Nat]
    BY <1>6, ForgetOvertakesType DEF KeepWaiting
  <2> QED BY <1>6, <2>1, <2>2 DEF KeepWaiting, TypeOK, QueueTypeOK
<1>7. CASE Claim(c)
  <2>1. QueueTypeOK' /\ overtaken' \in [Callers -> Nat]
    BY <1>7, LeaveQueueType DEF Claim
  <2>2. /\ slots' \in [Slots -> SlotType]
        /\ tasks' \in [Tasks -> TaskType]
    BY <1>7, FreshSlots, LeaseTypes
    DEF Claim, TakeSlot, TaskType, Statuses, RunCallers
  <2>3. remembered' \in [Callers -> BOOLEAN] /\ at' \in [Callers -> Nat]
    BY <1>7 DEF Claim, Forget, TypeOK
  <2>4. /\ held' \in [Callers -> Slots \cup {None}]
        /\ grant' \in [Callers -> 0 .. Lease]
        /\ pc' \in [Callers -> Active \cup {"idle", "done", "dead"}]
    BY <1>7 DEF Claim, TypeOK
  <2>5. UNCHANGED <<nextAt, faults, outcome, beatVars>>
    BY <1>7 DEF Claim
  <2> QED BY <2>1, <2>2, <2>3, <2>4, <2>5 DEF TypeOK, QueueTypeOK, SlotType, TaskType
<1> QED BY <1>1, <1>2, <1>3, <1>4, <1>5, <1>6, <1>7 DEF Wait

LEMMA BeatType ==
  ASSUME TypeOK, NEW c \in Callers, Beat(c)
  PROVE  TypeOK'
<1> USE ConstantsAssumption DEF callVars, queueVars, leaseVars, beatVars
<1>1. CASE BeatFires(c)
  BY <1>1 DEF BeatFires, TypeOK
<1>2. CASE BeatReads(c)
  <2>1. tasks' \in [Tasks -> TaskType]
    BY <1>2, FreshTasks, LeaseTypes DEF BeatReads, Renewed
  <2>2. RenewsSlot(c) \in BOOLEAN
    BY DEF RenewsSlot, OwnsSlot, OwnsTask
  <2>3. beat' \in [Callers -> BOOLEAN] /\ lock' \in Callers \cup {None}
    BY <1>2, <2>2 DEF BeatReads, TypeOK
  <2> QED BY <1>2, <2>1, <2>3 DEF BeatReads, TypeOK, TaskType
<1>3. CASE BeatWrites(c)
  <2>1. slots' \in [Slots -> SlotType]
    BY <1>3, FreshSlots, LeaseTypes DEF BeatWrites
  <2>2. grant' \in [Callers -> 0 .. Lease]
    BY <1>3 DEF BeatWrites, TypeOK
  <2> QED BY <1>3, <2>1, <2>2 DEF BeatWrites, TypeOK, SlotType
<1> QED BY <1>1, <1>2, <1>3 DEF Beat

LEMMA WorkType ==
  ASSUME TypeOK, NEW c \in Callers, Work(c)
  PROVE  TypeOK'
<1> USE ConstantsAssumption DEF Leave, Active, queueVars, beatVars
<1>1. CASE Publish(c)
  BY <1>1 DEF Publish, CompletedRecord, TypeOK, Statuses
<1>2. CASE Abandon(c)
  BY <1>2 DEF Abandon, TypeOK
<1>3. CASE BuildFails(c)
  BY <1>3 DEF BuildFails, TypeOK
<1>4. CASE SlotWorkEnds(c)
  BY <1>4 DEF SlotWorkEnds, TypeOK
<1> QED BY <1>1, <1>2, <1>3, <1>4 DEF Work

LEMMA CleanType ==
  ASSUME TypeOK, NEW c \in Callers, Clean(c)
  PROVE  TypeOK'
<1> USE ConstantsAssumption DEF Active, queueVars, leaseVars, beatVars
<1>1. CASE Dequeue(c)
  <2>1. QueueTypeOK'
    BY <1>1, RefreshTypes, WriteWaitersType DEF Dequeue, TypeOK
  <2>2. overtaken' \in [Callers -> Nat]
    BY <1>1, ForgetOvertakesType DEF Dequeue
  <2>3. remembered' \in [Callers -> BOOLEAN] /\ at' \in [Callers -> Nat]
    BY <1>1 DEF Dequeue, Forget, TypeOK
  <2> QED BY <1>1, <2>1, <2>2, <2>3 DEF Dequeue, TypeOK, QueueTypeOK
<1>2. CASE Release(c)
  <2>1. slots' \in [Slots -> SlotType] /\ tasks' \in [Tasks -> TaskType]
    BY <1>2, FreshSlots, FreshTasks, LeaseTypes DEF Release, Statuses
  <2> QED BY <1>2, <2>1 DEF Release, TypeOK, SlotType, TaskType
<1>3. CASE SlotReleaseReads(c)
  BY <1>3 DEF SlotReleaseReads, TypeOK
<1>4. CASE SlotReleaseUnlinks(c)
  <2>1. slots' \in [Slots -> SlotType]
    BY <1>4, FreshSlots, LeaseTypes DEF SlotReleaseUnlinks
  <2> QED BY <1>4, <2>1 DEF SlotReleaseUnlinks, TypeOK, SlotType
<1> QED BY <1>1, <1>2, <1>3, <1>4 DEF Clean

LEMMA GoesWrongType ==
  ASSUME TypeOK, NEW c \in Callers, GoesWrong(c)
  PROVE  TypeOK'
<1> USE ConstantsAssumption DEF Active, Fault, queueVars, leaseVars, beatVars
<1>1. CASE EnqueueFails(c)
  BY <1>1 DEF EnqueueFails, TypeOK
<1>2. CASE CancelWaiting(c)
  BY <1>2 DEF CancelWaiting, TypeOK
<1>3. CASE ClaimBreaks(c)
  <2>1. QueueTypeOK' /\ overtaken' \in [Callers -> Nat]
    <3>1. CASE LeaveQueue(c)
      BY <3>1, LeaveQueueType
    <3>2. CASE /\ WriteWaiters(c, Refreshed(c), RefreshedMarks(c), RefreshedAges(c))
               /\ ForgetOvertakes(Dropped(c, Refreshed(c)))
      BY <3>2, RefreshTypes, WriteWaitersType, ForgetOvertakesType
    <3>3. CASE UNCHANGED queueVars
      BY <3>3 DEF QueueTypeOK, TypeOK
    <3> QED BY <1>3, <3>1, <3>2, <3>3 DEF ClaimBreaks
  <2>2. slots' \in [Slots -> SlotType]
    BY <1>3, FreshSlots, LeaseTypes DEF ClaimBreaks, TakeSlot
  <2>3. /\ outcome' \in [Callers -> Callers \cup {None, Error}]
        /\ pc' \in [Callers -> Active \cup {"idle", "done", "dead"}]
        /\ faults' \in 0 .. MaxFaults
    BY <1>3 DEF ClaimBreaks, TypeOK
  <2>4. UNCHANGED <<at, nextAt, remembered, held, tasks, grant, beatVars>>
    BY <1>3 DEF ClaimBreaks
  <2> QED BY <2>1, <2>2, <2>3, <2>4 DEF TypeOK, QueueTypeOK, SlotType
<1>4. CASE DequeueFails(c)
  BY <1>4 DEF DequeueFails, TypeOK
<1>5. CASE BeatFails(c)
  BY <1>5 DEF BeatFails, TypeOK, leaseVars
<1>6. CASE ReleaseFails(c)
  <2>1. slots' \in [Slots -> SlotType] /\ tasks' \in [Tasks -> TaskType]
    BY <1>6, FreshSlots, FreshTasks, LeaseTypes DEF ReleaseFails, Statuses
  <2>2. /\ pc' \in [Callers -> Active \cup {"idle", "done", "dead"}]
        /\ faults' \in 0 .. MaxFaults
        /\ UNCHANGED <<at, nextAt, remembered, held, outcome, queueVars, grant, beatVars>>
    BY <1>6 DEF ReleaseFails, TypeOK
  <2> QED BY <2>1, <2>2 DEF TypeOK, SlotType, TaskType
<1> QED BY <1>1, <1>2, <1>3, <1>4, <1>5, <1>6 DEF GoesWrong

LEMMA TickType == TypeOK /\ Tick => TypeOK'
<1> SUFFICES ASSUME TypeOK, Tick PROVE TypeOK'
  OBVIOUS
<1>1. slots' \in [Slots -> SlotType]
  BY FreshSlots, LeaseTypes DEF Tick
<1>2. tasks' \in [Tasks -> TaskType]
  BY FreshTasks, LeaseTypes DEF Tick
<1>3. grant' \in [Callers -> 0 .. Lease]
  <2>1. \A n \in 0 .. Lease : Less(n) \in 0 .. Lease
    BY ConstantsAssumption DEF Less
  <2>2. grant \in [Callers -> 0 .. Lease]
    BY DEF TypeOK
  <2> QED BY <2>1, <2>2 DEF Tick
<1>4. age' \in [Callers -> Nat]
  BY DEF Tick, TypeOK
<1> QED BY <1>1, <1>2, <1>3, <1>4
        DEF Tick, TypeOK, callVars, beatVars, SlotType, TaskType

LEMMA CrashType ==
  ASSUME TypeOK, NEW p \in Procs, Crash(p)
  PROVE  TypeOK'
<1> DEFINE victims == {c \in Callers : ProcOf[c] = p /\ pc[c] \in Active}
<1>1. pc' \in [Callers -> Active \cup {"idle", "done", "dead"}]
  BY DEF Crash, TypeOK
<1>2. beat' \in [Callers -> BOOLEAN]
  BY DEF Crash, TypeOK
<1>3. grant' \in [Callers -> 0 .. Lease]
  BY ConstantsAssumption DEF Crash, TypeOK
<1>4. lock' \in Callers \cup {None} /\ faults' \in 0 .. MaxFaults
  BY ConstantsAssumption DEF Crash, Fault, TypeOK
<1> QED BY <1>1, <1>2, <1>3, <1>4 DEF Crash, TypeOK, queueVars

LEMMA TypeStep == TypeOK /\ [Next]_vars => TypeOK'
<1> SUFFICES ASSUME TypeOK, [Next]_vars PROVE TypeOK'
  OBVIOUS
<1>1. ASSUME NEW c \in Callers,
             \/ Enter(c) \/ Enqueue(c) \/ Wait(c)
             \/ Work(c) \/ Clean(c) \/ Beat(c) \/ GoesWrong(c)
      PROVE TypeOK'
  BY <1>1, WaitType, WorkType, CleanType, BeatType, GoesWrongType
<1>2. CASE Tick
  BY <1>2, TickType
<1>3. ASSUME NEW p \in Procs, Crash(p) PROVE TypeOK'
  BY <1>3, CrashType
<1>4. CASE Finished \/ UNCHANGED vars
  BY <1>4 DEF Finished, TypeOK, vars, callVars, queueVars, leaseVars, beatVars
<1> QED BY <1>1, <1>2, <1>3, <1>4 DEF Next

\* Every variable keeps its shape, whatever the calls, crashes and errors do.
THEOREM TypeCorrect == Spec => []TypeOK
  BY InitType, TypeStep, PTL DEF Spec

-----------------------------------------------------------------------------
(* Task leases and results. LeaseInv is inductive where OneLiveBuilder and *)
(* SameResult are not: it ties what a caller believes to hold (grant) to   *)
(* what the task's record says, and says what a leased record looks like   *)
(* while a heartbeat is between its two writes.                            *)

LeasedIsRunning ==
  \A t \in Tasks : tasks[t].owner # None => tasks[t].status = "running"

CompletedHasResult ==
  \A t \in Tasks :
    /\ Completed(t) => /\ tasks[t].owner = None /\ tasks[t].ttl = 0
                       /\ tasks[t].result \in RunCallers
    /\ ~Completed(t) => tasks[t].result = None

HoldersOwnTasks ==
  \A c \in RunCallers :
    Holds(c) => /\ tasks[TaskOf[c]].owner = c
                /\ tasks[TaskOf[c]].ttl >= grant[c]

BeatersOwnTasks ==
  \A c \in RunCallers :
    lock = c => tasks[TaskOf[c]].owner = c /\ tasks[TaskOf[c]].ttl = Lease

Unsettled == {"idle", "entering", "polling", "working"}
SettledOnce ==
  \A c \in RunCallers : pc[c] \in Unsettled => outcome[c] = None

LeaseInv == /\ LeasedIsRunning /\ CompletedHasResult
            /\ HoldersOwnTasks /\ BeatersOwnTasks
            /\ SettledOnce /\ SameResult

LEMMA InitLease == Init => LeaseInv
  BY ConstantsAssumption
  DEF Init, LeaseInv, LeasedIsRunning, CompletedHasResult, HoldersOwnTasks,
      BeatersOwnTasks, SettledOnce, SameResult, NoTask, Unleased, Completed,
      Holds, RunCallers

\* Only five actions write a task: claim, heartbeat, publish, release, tick.
\* The others leave the leases alone and settle a call at most once.
LEMMA TasksUntouched ==
  ASSUME TypeOK, LeaseInv, UNCHANGED <<tasks, lock>>,
         \A c \in RunCallers : Holds(c)' => Holds(c) /\ grant'[c] = grant[c],
         \A c \in RunCallers :
           \/ outcome'[c] = Error /\ pc'[c] \notin Unsettled
           \/ /\ Completed(TaskOf[c]) /\ pc'[c] \notin Unsettled
              /\ outcome'[c] = tasks[TaskOf[c]].result
           \/ /\ outcome'[c] = outcome[c]
              /\ pc'[c] \in Unsettled => pc[c] \in Unsettled
  PROVE  LeaseInv'
<1> USE ConstantsAssumption DEF LeaseInv, Completed
<1>1. LeasedIsRunning' /\ CompletedHasResult' /\ BeatersOwnTasks'
  BY DEF LeasedIsRunning, CompletedHasResult, BeatersOwnTasks
<1>2. HoldersOwnTasks'
  BY DEF HoldersOwnTasks
<1>3. SettledOnce'
  BY DEF SettledOnce
<1>4. SameResult'
  BY DEF SameResult, TypeOK
<1> QED BY <1>1, <1>2, <1>3, <1>4

LEMMA WaitLease ==
  ASSUME TypeOK, LeaseInv, NEW c \in Callers,
         Enter(c) \/ Enqueue(c) \/ Wait(c)
  PROVE  LeaseInv'
<1> USE DEF Unsettled, leaseVars, beatVars, callVars, Holds, RunCallers
<1>1. CASE Enter(c)
  BY <1>1, TasksUntouched DEF Enter, TypeOK
<1>2. CASE Enqueue(c)
  BY <1>2, TasksUntouched DEF Enqueue, TypeOK
<1>3. CASE TakeResult(c)
  BY <1>3, TasksUntouched DEF TakeResult, TypeOK
<1>4. CASE ClaimDone(c)
  BY <1>4, TasksUntouched DEF ClaimDone, TypeOK
<1>5. CASE Follow(c)
  BY <1>5, TasksUntouched DEF Follow, TypeOK
<1>6. CASE KeepWaiting(c)
  BY <1>6, TasksUntouched DEF KeepWaiting, TypeOK
<1>7. CASE Claim(c)
  <2>1. CASE c \in SlotCallers
    BY <1>7, <2>1, TasksUntouched DEF Claim, TypeOK
  <2>2. CASE c \in RunCallers
    <3> DEFINE t == TaskOf[c]
               r == [status |-> "running", owner |-> c, ttl |-> Lease, result |-> None]
    <3>1. /\ t \in Tasks /\ tasks \in [Tasks -> TaskType]
          /\ tasks' = [tasks EXCEPT ![t] = r]
          /\ lock = None /\ lock' = None /\ outcome' = outcome
          /\ pc[c] = "polling" /\ pc' = [pc EXCEPT ![c] = "working"]
          /\ grant' = [grant EXCEPT ![c] = Lease]
      BY <1>7, <2>2, ConstantsAssumption, LeaseTypes DEF Claim, Competes
    <3>2. ~Completed(t) /\ ~RunningLive(t)
      BY <1>7, <2>2 DEF Claim, Competes, ToBuild
    <3>3. \A d \in RunCallers : TaskOf[d] = t => ~Holds(d)
      <4> SUFFICES ASSUME NEW d \in RunCallers, TaskOf[d] = t, Holds(d) PROVE FALSE
        OBVIOUS
      <4>1. tasks[t].owner = d /\ tasks[t].ttl >= grant[d]
        BY DEF LeaseInv, HoldersOwnTasks
      <4>2. grant[d] \in Nat /\ grant[d] > 0 /\ tasks[t].ttl \in Nat
        BY <3>1, ConstantsAssumption DEF TypeOK, TaskType
      <4>3. tasks[t].ttl > 0
        BY <4>1, <4>2
      <4>4. tasks[t].status = "running"
        BY <3>1, <4>1, ConstantsAssumption DEF LeaseInv, LeasedIsRunning
      <4> QED BY <3>2, <4>3, <4>4 DEF RunningLive
    <3>4. \A d \in RunCallers : TaskOf[d] = t => outcome[d] \notin Callers
      BY <3>2 DEF LeaseInv, SameResult
    <3> HIDE DEF t, r
    <3>5. tasks'[t] = r /\ \A u \in Tasks : u # t => tasks'[u] = tasks[u]
      BY <3>1
    <3>6. LeasedIsRunning' /\ CompletedHasResult'
      BY <3>5 DEF r, LeaseInv, LeasedIsRunning, CompletedHasResult, Completed
    <3>7. HoldersOwnTasks'
      <4> SUFFICES ASSUME NEW d \in RunCallers, Holds(d)'
                   PROVE  tasks'[TaskOf[d]].owner = d /\ tasks'[TaskOf[d]].ttl >= grant'[d]
        BY DEF HoldersOwnTasks
      <4>1. CASE d = c
        BY <4>1, <3>1, <3>5, ConstantsAssumption DEF r, t, TypeOK
      <4>2. CASE d # c
        <5>1. Holds(d) /\ grant'[d] = grant[d]
          BY <4>2, <3>1 DEF TypeOK
        <5>2. TaskOf[d] # t /\ TaskOf[d] \in Tasks
          BY <5>1, <3>3, ConstantsAssumption
        <5> QED BY <5>1, <5>2, <3>5 DEF LeaseInv, HoldersOwnTasks
      <4> QED BY <4>1, <4>2
    <3>8. BeatersOwnTasks' /\ SettledOnce'
      BY <3>1, ConstantsAssumption DEF LeaseInv, BeatersOwnTasks, SettledOnce, TypeOK
    <3>9. SameResult'
      <4> SUFFICES ASSUME NEW d \in RunCallers, outcome[d] \in Callers
                   PROVE  (Completed(TaskOf[d]) /\ tasks[TaskOf[d]].result = outcome[d])'
        BY <3>1 DEF SameResult
      <4>1. TaskOf[d] # t /\ TaskOf[d] \in Tasks
        BY <3>4, ConstantsAssumption
      <4> QED BY <4>1, <3>1, <3>5 DEF LeaseInv, SameResult, Completed
    <3> QED BY <3>6, <3>7, <3>8, <3>9 DEF LeaseInv
  <2> QED BY <2>1, <2>2
<1> QED BY <1>1, <1>2, <1>3, <1>4, <1>5, <1>6, <1>7 DEF Wait

\* A task's record is only rewritten by the call that is leased it.
LEMMA OwnTaskWritten ==
  ASSUME TypeOK, LeaseInv, NEW c \in RunCallers, OwnsTask(c), NEW r,
         tasks' = [tasks EXCEPT ![TaskOf[c]] = r]
  PROVE  /\ TaskOf[c] \in Tasks /\ tasks'[TaskOf[c]] = r
         /\ ~Completed(TaskOf[c]) /\ tasks[TaskOf[c]].status = "running"
         /\ \A u \in Tasks : u # TaskOf[c] => tasks'[u] = tasks[u]
         /\ \A d \in RunCallers \ {c} : Holds(d) => TaskOf[d] # TaskOf[c]
         /\ \A d \in RunCallers : outcome[d] \in Callers => TaskOf[d] # TaskOf[c]
<1>1. TaskOf[c] \in Tasks /\ tasks \in [Tasks -> TaskType]
  BY ConstantsAssumption, LeaseTypes
<1>2. tasks[TaskOf[c]].owner = c /\ c # None
  BY ConstantsAssumption DEF OwnsTask, RunCallers
<1>3. tasks[TaskOf[c]].status = "running"
  BY <1>1, <1>2 DEF LeaseInv, LeasedIsRunning
<1> QED BY <1>1, <1>2, <1>3 DEF LeaseInv, HoldersOwnTasks, SameResult, Completed

LEMMA BeatLease ==
  ASSUME TypeOK, LeaseInv, NEW c \in Callers, Beat(c)
  PROVE  LeaseInv'
<1> USE DEF leaseVars, beatVars, callVars
<1>1. CASE BeatFires(c)
  BY <1>1, TasksUntouched DEF BeatFires, TypeOK, Holds
<1>2. CASE BeatReads(c)
  <2>1. CASE ~(c \in RunCallers /\ OwnsTask(c))
    <3>1. CASE c \in RunCallers
      BY <1>2, <2>1, <3>1, TasksUntouched DEF BeatReads, RenewsSlot, TypeOK, Holds
    <3>2. CASE c \notin RunCallers
      BY <1>2, <2>1, <3>2, ConstantsAssumption
      DEF BeatReads, LeaseInv, LeasedIsRunning, CompletedHasResult, HoldersOwnTasks,
          BeatersOwnTasks, SettledOnce, SameResult, Holds, Completed, RunCallers
    <3> QED BY <3>1, <3>2
  <2>2. CASE c \in RunCallers /\ OwnsTask(c)
    <3> DEFINE t == TaskOf[c]
               r == WithTtl(tasks[t], Lease)
    <3>1. /\ tasks' = [tasks EXCEPT ![t] = r] /\ lock' \in {c, None}
          /\ UNCHANGED <<pc, outcome, grant>>
      BY <1>2, <2>2 DEF BeatReads, Renewed
    <3>2. /\ t \in Tasks /\ tasks'[t] = r
          /\ ~Completed(t) /\ tasks[t].status = "running"
          /\ \A u \in Tasks : u # t => tasks'[u] = tasks[u]
          /\ \A d \in RunCallers : outcome[d] \in Callers => TaskOf[d] # t
      BY <3>1, <2>2, OwnTaskWritten, Zenon
    <3>3. /\ r.status = "running" /\ r.owner = c /\ r.ttl = Lease
          /\ r.result = tasks[t].result
      BY <3>2, <2>2 DEF WithTtl, OwnsTask
    <3> HIDE DEF r, t
    <3>4. LeasedIsRunning' /\ CompletedHasResult'
      BY <3>2, <3>3 DEF LeaseInv, LeasedIsRunning, CompletedHasResult, Completed
    <3>5. HoldersOwnTasks'
      <4> SUFFICES ASSUME NEW d \in RunCallers, Holds(d)
                   PROVE  tasks'[TaskOf[d]].owner = d /\ tasks'[TaskOf[d]].ttl >= grant[d]
        BY <3>1 DEF HoldersOwnTasks, Holds
      <4>1. tasks[TaskOf[d]].owner = d /\ tasks[TaskOf[d]].ttl >= grant[d]
        BY DEF LeaseInv, HoldersOwnTasks
      <4>2. TaskOf[d] \in Tasks /\ grant[d] <= Lease /\ grant[d] \in Nat
        BY ConstantsAssumption DEF TypeOK, RunCallers
      <4>3. Lease >= grant[d]
        BY <4>2, ConstantsAssumption
      <4>4. CASE TaskOf[d] = t
        BY <2>2, <4>1, <4>3, <4>4, <3>2, <3>3 DEF OwnsTask, t
      <4>5. CASE TaskOf[d] # t
        BY <4>1, <4>2, <4>5, <3>2
      <4> QED BY <4>4, <4>5
    <3>6. BeatersOwnTasks'
      BY <3>1, <3>2, <3>3, ConstantsAssumption DEF BeatersOwnTasks, RunCallers, t
    <3>7. SettledOnce' /\ SameResult'
      <4>1. SettledOnce'
        BY <3>1 DEF LeaseInv, SettledOnce
      <4>2. SameResult'
        BY <3>1, <3>2, ConstantsAssumption DEF LeaseInv, SameResult, Completed
      <4> QED BY <4>1, <4>2
    <3> QED BY <3>4, <3>5, <3>6, <3>7 DEF LeaseInv
  <2> QED BY <2>1, <2>2
<1>3. CASE BeatWrites(c)
  <2>1. lock = c /\ lock' = None /\ UNCHANGED <<pc, tasks, outcome>>
    BY <1>3 DEF BeatWrites
  <2>2. LeasedIsRunning' /\ CompletedHasResult' /\ SettledOnce' /\ SameResult'
    BY <2>1 DEF LeaseInv, LeasedIsRunning, CompletedHasResult, SettledOnce, SameResult, Completed
  <2>3. BeatersOwnTasks'
    BY <2>1, ConstantsAssumption DEF BeatersOwnTasks, RunCallers
  <2>4. HoldersOwnTasks'
    <3> SUFFICES ASSUME NEW d \in RunCallers, Holds(d)'
                 PROVE  tasks[TaskOf[d]].owner = d /\ tasks[TaskOf[d]].ttl >= grant'[d]
      BY <2>1 DEF HoldersOwnTasks
    <3>1. CASE d = c
      BY <3>1, <2>1, <1>3, ConstantsAssumption DEF LeaseInv, BeatersOwnTasks, BeatWrites, Holds, TypeOK, RunCallers
    <3>2. CASE d # c
      BY <3>2, <2>1, <1>3 DEF LeaseInv, HoldersOwnTasks, BeatWrites, Holds, TypeOK, RunCallers
    <3> QED BY <3>1, <3>2
  <2> QED BY <2>2, <2>3, <2>4 DEF LeaseInv
<1> QED BY <1>1, <1>2, <1>3 DEF Beat

LEMMA WorkLease ==
  ASSUME TypeOK, LeaseInv, NEW c \in Callers, Work(c)
  PROVE  LeaseInv'
<1> USE DEF leaseVars, beatVars, Leave, Unsettled
<1>1. CASE Publish(c)
  <2> DEFINE t == TaskOf[c]
             r == CompletedRecord(c)
  <2>1. /\ c \in RunCallers /\ OwnsTask(c) /\ lock = None /\ lock' = None
        /\ tasks' = [tasks EXCEPT ![t] = r]
        /\ pc' = [pc EXCEPT ![c] = "cleanup"]
        /\ outcome' = [outcome EXCEPT ![c] = c]
        /\ grant' = [grant EXCEPT ![c] = 0]
    BY <1>1 DEF Publish, StillLeased
  <2>2. /\ t \in Tasks /\ tasks'[t] = r
        /\ ~Completed(t)
        /\ \A u \in Tasks : u # t => tasks'[u] = tasks[u]
        /\ \A d \in RunCallers \ {c} : Holds(d) => TaskOf[d] # t
        /\ \A d \in RunCallers : outcome[d] \in Callers => TaskOf[d] # t
    BY <2>1, OwnTaskWritten, Zenon
  <2>3. /\ r.status = "completed" /\ r.owner = None /\ r.ttl = 0 /\ r.result = c
    BY DEF CompletedRecord
  <2> HIDE DEF r
  <2>4. LeasedIsRunning' /\ CompletedHasResult'
    BY <2>1, <2>2, <2>3 DEF LeaseInv, LeasedIsRunning, CompletedHasResult, Completed
  <2>5. HoldersOwnTasks'
    BY <2>1, <2>2, ConstantsAssumption DEF LeaseInv, HoldersOwnTasks, Holds, TypeOK, RunCallers
  <2>6. BeatersOwnTasks' /\ SettledOnce'
    BY <2>1, ConstantsAssumption DEF LeaseInv, BeatersOwnTasks, SettledOnce, RunCallers, TypeOK
  <2>7. SameResult'
    <3> SUFFICES ASSUME NEW d \in RunCallers, outcome'[d] \in Callers
                 PROVE  Completed(TaskOf[d])' /\ tasks'[TaskOf[d]].result = outcome'[d]
      BY DEF SameResult
    <3>1. CASE d = c
      BY <3>1, <2>1, <2>2, <2>3 DEF Completed, TypeOK, RunCallers
    <3>2. CASE d # c
      <4>1. outcome'[d] = outcome[d] /\ TaskOf[d] # t /\ TaskOf[d] \in Tasks
        BY <3>2, <2>1, <2>2, ConstantsAssumption DEF TypeOK, RunCallers
      <4> QED BY <4>1, <2>2 DEF LeaseInv, SameResult, Completed
    <3> QED BY <3>1, <3>2
  <2> QED BY <2>4, <2>5, <2>6, <2>7 DEF LeaseInv
<1>2. CASE Abandon(c)
  BY <1>2, TasksUntouched DEF Abandon, TypeOK, Holds, RunCallers
<1>3. CASE BuildFails(c)
  BY <1>3, TasksUntouched DEF BuildFails, TypeOK, Holds, RunCallers
<1>4. CASE SlotWorkEnds(c)
  BY <1>4, TasksUntouched DEF SlotWorkEnds, TypeOK, Holds, RunCallers
<1> QED BY <1>1, <1>2, <1>3, <1>4 DEF Work

\* A failed task is forgotten by the call that was leased it, once it is over.
LEMMA TaskFails ==
  ASSUME TypeOK, LeaseInv, NEW c \in RunCallers, FailsTask(c),
         pc[c] \in {"release", "unlinking"},
         pc' = [pc EXCEPT ![c] = "done"], lock = None, lock' = None,
         UNCHANGED <<outcome, grant>>,
         tasks' = [tasks EXCEPT ![TaskOf[c]] = Unleased("failed")]
  PROVE  LeaseInv'
<1> DEFINE t == TaskOf[c]
           r == Unleased("failed")
<1>2. /\ t \in Tasks /\ tasks'[t] = r /\ ~Completed(t)
      /\ \A u \in Tasks : u # t => tasks'[u] = tasks[u]
      /\ \A d \in RunCallers \ {c} : Holds(d) => TaskOf[d] # t
      /\ \A d \in RunCallers : outcome[d] \in Callers => TaskOf[d] # t
  BY OwnTaskWritten, Zenon DEF FailsTask
<1>3. r.status = "failed" /\ r.owner = None /\ r.ttl = 0 /\ r.result = None
  BY DEF Unleased
<1> HIDE DEF r
<1>4. LeasedIsRunning' /\ CompletedHasResult'
  BY <1>2, <1>3 DEF LeaseInv, LeasedIsRunning, CompletedHasResult, Completed
<1>5. HoldersOwnTasks'
  BY <1>2, ConstantsAssumption DEF LeaseInv, HoldersOwnTasks, Holds, TypeOK, RunCallers
<1>6. BeatersOwnTasks' /\ SettledOnce'
  BY ConstantsAssumption
  DEF LeaseInv, BeatersOwnTasks, SettledOnce, Unsettled, RunCallers, TypeOK
<1>7. SameResult'
  BY <1>2, ConstantsAssumption DEF LeaseInv, SameResult, Completed
<1> QED BY <1>4, <1>5, <1>6, <1>7 DEF LeaseInv

LEMMA CleanLease ==
  ASSUME TypeOK, LeaseInv, NEW c \in Callers, Clean(c)
  PROVE  LeaseInv'
<1> USE DEF leaseVars, beatVars, Unsettled
<1>1. CASE Dequeue(c)
  BY <1>1, TasksUntouched DEF Dequeue, TypeOK, Holds, RunCallers
<1>2. CASE Release(c)
  <2>1. CASE FailsTask(c)
    BY <1>2, <2>1, TaskFails DEF Release
  <2>2. CASE ~FailsTask(c)
    BY <1>2, <2>2, TasksUntouched DEF Release, TypeOK, Holds, RunCallers
  <2> QED BY <2>1, <2>2
<1>3. CASE SlotReleaseReads(c)
  BY <1>3, TasksUntouched DEF SlotReleaseReads, TypeOK, Holds, RunCallers
<1>4. CASE SlotReleaseUnlinks(c)
  BY <1>4, TasksUntouched DEF SlotReleaseUnlinks, TypeOK, Holds, RunCallers
<1> QED BY <1>1, <1>2, <1>3, <1>4 DEF Clean

LEMMA GoesWrongLease ==
  ASSUME TypeOK, LeaseInv, NEW c \in Callers, GoesWrong(c)
  PROVE  LeaseInv'
<1> USE DEF leaseVars, beatVars, Unsettled, Holds, RunCallers, TypeOK
<1>1. CASE EnqueueFails(c)
  BY <1>1, TasksUntouched DEF EnqueueFails
<1>2. CASE CancelWaiting(c)
  BY <1>2, TasksUntouched DEF CancelWaiting
<1>3. CASE ClaimBreaks(c)
  <2>1. /\ UNCHANGED <<tasks, lock, grant>> /\ pc' = [pc EXCEPT ![c] = "cleanup"]
        /\ outcome' = [outcome EXCEPT ![c] = Error]
    BY <1>3 DEF ClaimBreaks
  <2> QED BY <2>1, TasksUntouched
<1>4. CASE DequeueFails(c)
  BY <1>4, TasksUntouched DEF DequeueFails
<1>5. CASE BeatFails(c)
  <2>1. lock' \in {lock, None} /\ UNCHANGED <<pc, outcome, tasks, grant>>
    BY <1>5 DEF BeatFails
  <2> QED BY <2>1, ConstantsAssumption
          DEF LeaseInv, LeasedIsRunning, CompletedHasResult, HoldersOwnTasks,
              BeatersOwnTasks, SettledOnce, SameResult, Completed
<1>6. CASE ReleaseFails(c)
  <2>1. /\ pc' = [pc EXCEPT ![c] = "done"] /\ UNCHANGED <<outcome, grant, lock>>
        /\ pc[c] \in {"release", "unlinking"}
    BY <1>6 DEF ReleaseFails
  <2>2. CASE UNCHANGED tasks
    BY <2>1, <2>2, TasksUntouched
  <2>3. CASE /\ c \in RunCallers /\ lock = None /\ FailsTask(c)
             /\ tasks' = [tasks EXCEPT ![TaskOf[c]] = Unleased("failed")]
    BY <2>1, <2>3, TaskFails
  <2> QED BY <1>6, <2>2, <2>3 DEF ReleaseFails
<1> QED BY <1>1, <1>2, <1>3, <1>4, <1>5, <1>6 DEF GoesWrong

LEMMA TickLease == TypeOK /\ LeaseInv /\ Tick => LeaseInv'
<1> SUFFICES ASSUME TypeOK, LeaseInv, Tick PROVE LeaseInv'
  OBVIOUS
<1>1. /\ lock = None /\ lock' = None /\ UNCHANGED <<pc, outcome>>
      /\ \A t \in Tasks : tasks'[t] = WithTtl(tasks[t], Less(tasks[t].ttl))
      /\ \A c \in Callers : grant'[c] = Less(grant[c])
  BY DEF Tick, callVars, beatVars
<1>2. \A t \in Tasks : /\ tasks'[t].status = tasks[t].status
                       /\ tasks'[t].owner = tasks[t].owner
                       /\ tasks'[t].ttl = Less(tasks[t].ttl)
                       /\ tasks'[t].result = tasks[t].result
  <2>1. ASSUME NEW r, NEW n
        PROVE  /\ WithTtl(r, n).status = r.status /\ WithTtl(r, n).owner = r.owner
               /\ WithTtl(r, n).ttl = n /\ WithTtl(r, n).result = r.result
    BY DEF WithTtl
  <2> SUFFICES ASSUME NEW t \in Tasks
               PROVE  /\ tasks'[t].status = tasks[t].status
                      /\ tasks'[t].owner = tasks[t].owner
                      /\ tasks'[t].ttl = Less(tasks[t].ttl)
                      /\ tasks'[t].result = tasks[t].result
    OBVIOUS
  <2>2. tasks'[t] = WithTtl(tasks[t], Less(tasks[t].ttl))
    BY <1>1
  <2> QED BY <2>1, <2>2, SMT
<1>3. LeasedIsRunning' /\ CompletedHasResult'
  BY <1>2 DEF LeaseInv, LeasedIsRunning, CompletedHasResult, Completed, Less
<1>4. BeatersOwnTasks' /\ SettledOnce' /\ SameResult'
  BY <1>1, <1>2, ConstantsAssumption
  DEF LeaseInv, BeatersOwnTasks, SettledOnce, SameResult, Completed, RunCallers
<1>5. HoldersOwnTasks'
  <2> SUFFICES ASSUME NEW d \in RunCallers, Holds(d)'
               PROVE  tasks'[TaskOf[d]].owner = d /\ tasks'[TaskOf[d]].ttl >= grant'[d]
    BY DEF HoldersOwnTasks
  <2>1. /\ TaskOf[d] \in Tasks /\ d \in Callers
        /\ grant[d] \in Nat /\ tasks[TaskOf[d]].ttl \in Nat
    BY ConstantsAssumption, LeaseTypes DEF TypeOK, TaskType, RunCallers
  <2>2. Less(grant[d]) > 0 /\ pc[d] = "working"
    BY <1>1, <2>1 DEF Holds
  <2>3. Holds(d)
    BY <2>1, <2>2 DEF Holds, Less
  <2>4. tasks[TaskOf[d]].owner = d /\ tasks[TaskOf[d]].ttl >= grant[d]
    BY <2>3 DEF LeaseInv, HoldersOwnTasks
  <2>5. Less(tasks[TaskOf[d]].ttl) >= Less(grant[d])
    BY <2>1, <2>4 DEF Less
  <2> QED BY <1>1, <1>2, <2>1, <2>4, <2>5
<1> QED BY <1>3, <1>4, <1>5 DEF LeaseInv

LEMMA CrashLease ==
  ASSUME TypeOK, LeaseInv, NEW p \in Procs, Crash(p)
  PROVE  LeaseInv'
<1>1. /\ UNCHANGED <<tasks, outcome>> /\ lock' \in {lock, None}
      /\ \A c \in Callers : /\ pc'[c] \in {pc[c], "dead"}
                            /\ pc'[c] # "dead" => grant'[c] = grant[c]
  BY DEF Crash
<1>2. LeasedIsRunning' /\ CompletedHasResult' /\ SameResult'
  BY <1>1 DEF LeaseInv, LeasedIsRunning, CompletedHasResult, SameResult, Completed
<1>3. HoldersOwnTasks'
  BY <1>1 DEF LeaseInv, HoldersOwnTasks, Holds, RunCallers
<1>4. BeatersOwnTasks' /\ SettledOnce'
  BY <1>1, ConstantsAssumption DEF LeaseInv, BeatersOwnTasks, SettledOnce, Unsettled, RunCallers
<1> QED BY <1>2, <1>3, <1>4 DEF LeaseInv

LEMMA LeaseStep == TypeOK /\ LeaseInv /\ [Next]_vars => LeaseInv'
<1> SUFFICES ASSUME TypeOK, LeaseInv, [Next]_vars PROVE LeaseInv'
  OBVIOUS
<1>1. ASSUME NEW c \in Callers,
             \/ Enter(c) \/ Enqueue(c) \/ Wait(c)
             \/ Work(c) \/ Clean(c) \/ Beat(c) \/ GoesWrong(c)
      PROVE LeaseInv'
  BY <1>1, WaitLease, WorkLease, CleanLease, BeatLease, GoesWrongLease
<1>2. CASE Tick
  BY <1>2, TickLease
<1>3. ASSUME NEW p \in Procs, Crash(p) PROVE LeaseInv'
  BY <1>3, CrashLease
<1>4. CASE Finished \/ UNCHANGED vars
  <2>1. UNCHANGED <<tasks, lock, pc, grant, outcome>>
    BY <1>4 DEF Finished, vars, callVars, leaseVars, beatVars
  <2> QED BY <2>1, TasksUntouched DEF Holds
<1> QED BY <1>1, <1>2, <1>3, <1>4 DEF Next

LEMMA LeaseAlways == Spec => [](TypeOK /\ LeaseInv)
<1>1. Init => LeaseInv
  BY InitLease
<1> QED BY <1>1, LeaseStep, TypeCorrect, PTL DEF Spec

\* Two calls that both work under a living lease work on different tasks:
\* each of them would have to own the one record of the task.
THEOREM SingleBuilder == Spec => []OneLiveBuilder
<1>1. LeaseInv => OneLiveBuilder
  BY DEF LeaseInv, HoldersOwnTasks, OneLiveBuilder
<1> QED BY <1>1, LeaseAlways, PTL

\* Every call that is answered for a task is answered with the same value.
THEOREM OneResult == Spec => []SameResult
<1>1. LeaseInv => SameResult
  BY DEF LeaseInv
<1> QED BY <1>1, LeaseAlways, PTL

-----------------------------------------------------------------------------
(* What a step may do to a task's record, and the refinement.              *)

TaskStepOK ==
  \A t \in Tasks :
    /\ Completed(t) => tasks'[t] = tasks[t]
    /\ \/ tasks'[t].result = tasks[t].result
       \/ \E c \in RunCallers : Publish(c) /\ t = TaskOf[c]

LEMMA OwnWriteOK ==
  ASSUME TypeOK, LeaseInv, NEW c \in RunCallers, OwnsTask(c), NEW r,
         tasks' = [tasks EXCEPT ![TaskOf[c]] = r],
         r.result = None \/ Publish(c)
  PROVE  TaskStepOK
<1>1. /\ tasks'[TaskOf[c]] = r /\ ~Completed(TaskOf[c])
      /\ \A u \in Tasks : u # TaskOf[c] => tasks'[u] = tasks[u]
  BY OwnTaskWritten, Zenon
<1>2. \A t \in Tasks : ~Completed(t) => tasks[t].result = None
  BY DEF LeaseInv, CompletedHasResult
<1> QED BY <1>1, <1>2 DEF TaskStepOK

LEMMA TaskStep ==
  ASSUME TypeOK, LeaseInv, [Next]_vars
  PROVE  TaskStepOK
<1>0. ASSUME UNCHANGED tasks PROVE TaskStepOK
  BY <1>0 DEF TaskStepOK
<1>1. ASSUME NEW c \in Callers, Claim(c) PROVE TaskStepOK
  <2>1. CASE c \in SlotCallers
    BY <1>0, <1>1, <2>1 DEF Claim
  <2>2. CASE c \in RunCallers
    <3> DEFINE r == [status |-> "running", owner |-> c, ttl |-> Lease, result |-> None]
    <3>0. r.result = None
      OBVIOUS
    <3>1. tasks' = [tasks EXCEPT ![TaskOf[c]] = r]
      BY <1>1, <2>2 DEF Claim, RunCallers
    <3> HIDE DEF r
    <3>2. ~Completed(TaskOf[c])
      BY <1>1, <2>2 DEF Claim, Competes, ToBuild
    <3>3. TaskOf[c] \in Tasks /\ tasks \in [Tasks -> TaskType]
      BY <2>2, ConstantsAssumption, LeaseTypes
    <3> QED BY <3>0, <3>1, <3>2, <3>3 DEF TaskStepOK, LeaseInv, CompletedHasResult
  <2> QED BY <2>1, <2>2 DEF RunCallers
<1>2. ASSUME NEW c \in Callers, BeatReads(c) PROVE TaskStepOK
  <2>1. CASE c \in RunCallers /\ OwnsTask(c)
    <3>1. TaskOf[c] \in Tasks /\ ~Completed(TaskOf[c])
      BY <2>1, ConstantsAssumption DEF LeaseInv, LeasedIsRunning, OwnsTask, Completed, RunCallers
    <3>2. tasks[TaskOf[c]].result = None
      BY <3>1 DEF LeaseInv, CompletedHasResult
    <3>3. WithTtl(tasks[TaskOf[c]], Lease).result = None
      BY <3>2 DEF WithTtl
    <3>4. tasks' = [tasks EXCEPT ![TaskOf[c]] = WithTtl(tasks[TaskOf[c]], Lease)]
      BY <1>2, <2>1 DEF BeatReads, Renewed
    <3> HIDE DEF WithTtl
    <3> QED BY <2>1, <3>3, <3>4, OwnWriteOK
  <2>2. CASE ~(c \in RunCallers /\ OwnsTask(c))
    BY <1>0, <1>2, <2>2 DEF BeatReads
  <2> QED BY <2>1, <2>2
<1>3. ASSUME NEW c \in Callers, Work(c) PROVE TaskStepOK
  <2>1. CASE Publish(c)
    BY <2>1, OwnWriteOK DEF Publish, StillLeased
  <2>2. CASE Abandon(c) \/ BuildFails(c) \/ SlotWorkEnds(c)
    BY <1>0, <2>2 DEF Abandon, BuildFails, SlotWorkEnds
  <2> QED BY <1>3, <2>1, <2>2 DEF Work
<1>4. ASSUME NEW c \in Callers, Release(c) \/ ReleaseFails(c) PROVE TaskStepOK
  <2>1. CASE /\ c \in RunCallers /\ FailsTask(c)
             /\ tasks' = [tasks EXCEPT ![TaskOf[c]] = Unleased("failed")]
    <3>1. Unleased("failed").result = None
      BY DEF Unleased
    <3> QED BY <2>1, <3>1, OwnWriteOK DEF FailsTask
  <2>2. CASE UNCHANGED tasks
    BY <1>0, <2>2
  <2> QED BY <1>4, <2>1, <2>2 DEF Release, ReleaseFails
<1>5. CASE Tick
  <2> SUFFICES ASSUME NEW t \in Tasks
               PROVE  /\ Completed(t) => tasks'[t] = tasks[t]
                      /\ tasks'[t].result = tasks[t].result
    BY DEF TaskStepOK
  <2>1. tasks[t] \in TaskType /\ tasks'[t] = WithTtl(tasks[t], Less(tasks[t].ttl))
    BY <1>5, LeaseTypes DEF Tick
  <2>2. Completed(t) => Less(tasks[t].ttl) = tasks[t].ttl
    BY DEF LeaseInv, CompletedHasResult, Less
  <2>3. ASSUME NEW r \in TaskType PROVE WithTtl(r, r.ttl) = r
    BY DEF WithTtl, TaskType
  <2>4. ASSUME NEW r, NEW n PROVE WithTtl(r, n).result = r.result
    BY DEF WithTtl
  <2> QED BY <2>1, <2>2, <2>3, <2>4, SMT
<1>6. ASSUME NEW p \in Procs, Crash(p) PROVE TaskStepOK
  BY <1>0, <1>6 DEF Crash
<1>7. CASE Finished \/ UNCHANGED vars
  BY <1>0, <1>7 DEF Finished, vars, leaseVars
<1>8. ASSUME NEW c \in Callers,
             \/ Enter(c) \/ Enqueue(c) \/ TakeResult(c) \/ ClaimDone(c)
             \/ Follow(c) \/ KeepWaiting(c) \/ BeatFires(c) \/ BeatWrites(c)
             \/ Dequeue(c) \/ SlotReleaseReads(c) \/ SlotReleaseUnlinks(c)
             \/ EnqueueFails(c) \/ CancelWaiting(c) \/ ClaimBreaks(c)
             \/ BeatFails(c) \/ DequeueFails(c)
      PROVE TaskStepOK
  <2>1. UNCHANGED tasks
    BY <1>8 DEF Enter, Enqueue, TakeResult, ClaimDone, Follow, KeepWaiting,
       BeatFires, BeatWrites, Dequeue, SlotReleaseReads, SlotReleaseUnlinks,
       EnqueueFails, CancelWaiting, ClaimBreaks, BeatFails, DequeueFails, leaseVars
  <2> QED BY <1>0, <2>1
<1>9. ASSUME NEW c \in Callers,
             \/ Enter(c) \/ Enqueue(c) \/ Wait(c)
             \/ Work(c) \/ Clean(c) \/ Beat(c) \/ GoesWrong(c)
      PROVE TaskStepOK
  BY <1>9, <1>1, <1>2, <1>3, <1>4, <1>8 DEF Wait, Clean, Beat, GoesWrong
<1> QED BY <1>5, <1>6, <1>7, <1>9 DEF Next

\* A completed task is never rebuilt, failed or overwritten.
THEOREM ResultIsFinal == Spec => CompletedIsFinal
<1>1. TypeOK /\ LeaseInv /\ [Next]_vars
        => [\A t \in Tasks : Completed(t) => tasks'[t] = tasks[t]]_vars
  BY TaskStep DEF TaskStepOK
<1> QED BY <1>1, LeaseAlways, PTL DEF Spec, CompletedIsFinal

Settled == [c \in RunCallers |-> IF pc[c] = "done" THEN outcome[c] ELSE None]

\* A step that changes no result and ends no call, or one call of run.
LEMMA StepMaps ==
  ASSUME TypeOK, LeaseInv, LeaseInv', TypeOK',
         \A t \in Tasks : tasks'[t].result = tasks[t].result,
         NEW c,
         \A d \in RunCallers \ {c} : Settled'[d] = Settled[d],
         c \in RunCallers => pc[c] # "done" \/ Settled'[c] = Settled[c]
  PROVE  [SF!Next]_SF!vars
<1>1. [t \in Tasks |-> tasks[t].result]' = [t \in Tasks |-> tasks[t].result]
  OBVIOUS
<1>2. CASE c \notin RunCallers \/ Settled'[c] = Settled[c]
  <2>1. Settled' = Settled
    BY <1>2 DEF Settled
  <2> QED BY <1>1, <2>1 DEF SF!vars, Settled
<1>3. CASE c \in RunCallers /\ Settled'[c] # Settled[c]
  <2>1. Settled[c] = None /\ Settled'[c] = outcome'[c] /\ pc'[c] = "done"
    BY <1>3 DEF Settled
  <2>2. Settled' = [Settled EXCEPT ![c] = outcome'[c]]
    BY <1>3, <2>1 DEF Settled
  <2>3. outcome'[c] \in Callers \cup {Error}
    BY <1>3, <2>1 DEF TypeOK, RunCallers
  <2>4. CASE outcome'[c] = Error
    BY <1>1, <1>3, <2>1, <2>2, <2>4 DEF SF!Next, SF!Reject, Settled
  <2>5. CASE outcome'[c] \in Callers
    <3>1. Completed(TaskOf[c])' /\ tasks'[TaskOf[c]].result = outcome'[c]
      BY <1>3, <2>5 DEF LeaseInv, SameResult
    <3>2. TaskOf[c] \in Tasks
      BY <1>3, ConstantsAssumption
    <3>3. tasks[TaskOf[c]].result = outcome'[c] /\ outcome'[c] # None
      BY <3>1, <3>2, <2>5, ConstantsAssumption
    <3> QED BY <1>1, <1>3, <2>1, <2>2, <3>2, <3>3 DEF SF!Next, SF!Return, Settled
  <2> QED BY <2>3, <2>4, <2>5
<1> QED BY <1>2, <1>3

LEMMA PublishMaps ==
  ASSUME TypeOK, LeaseInv, NEW c \in RunCallers, Publish(c)
  PROVE  [SF!Next]_SF!vars
<1>1. /\ OwnsTask(c) /\ pc[c] = "working" /\ pc' = [pc EXCEPT ![c] = "cleanup"]
      /\ outcome' = [outcome EXCEPT ![c] = c]
      /\ tasks' = [tasks EXCEPT ![TaskOf[c]] = CompletedRecord(c)]
  BY DEF Publish, StillLeased, Leave
<1>2. /\ TaskOf[c] \in Tasks /\ tasks'[TaskOf[c]] = CompletedRecord(c)
      /\ ~Completed(TaskOf[c])
      /\ \A u \in Tasks : u # TaskOf[c] => tasks'[u] = tasks[u]
  BY <1>1, OwnTaskWritten, Zenon
<1>3. Settled' = Settled
  BY <1>1 DEF Settled, TypeOK, RunCallers
<1>4. tasks[TaskOf[c]].result = None
  BY <1>2 DEF LeaseInv, CompletedHasResult
<1>5. CompletedRecord(c).result = c
  BY DEF CompletedRecord
<1>6. [t \in Tasks |-> tasks[t].result]'
        = [[t \in Tasks |-> tasks[t].result] EXCEPT ![TaskOf[c]] = c]
  BY <1>2, <1>5
<1>7. Settled[c] = None
  BY <1>1 DEF Settled
<1> QED BY <1>2, <1>3, <1>4, <1>6, <1>7 DEF SF!Next, SF!Publish, Settled

\* Only the last step of a call shows what it settled to.
EndsAtMost(c) ==
  /\ \A d \in RunCallers \ {c} : Settled'[d] = Settled[d]
  /\ c \in RunCallers => pc[c] # "done" \/ Settled'[c] = Settled[c]

LEMMA EndsOne ==
  ASSUME TypeOK, NEW c \in Callers,
         \/ Enter(c) \/ Enqueue(c) \/ Wait(c)
         \/ Work(c) \/ Clean(c) \/ Beat(c) \/ GoesWrong(c)
  PROVE  EndsAtMost(c)
<1>1. CASE pc[c] # "done"
  <2>1. \A d \in Callers \ {c} : pc'[d] = pc[d] /\ outcome'[d] = outcome[d]
    <3> USE DEF TypeOK, callVars, queueVars, leaseVars, beatVars, Leave, Forget
    <3>1. CASE Enter(c) \/ Enqueue(c)
      BY <3>1 DEF Enter, Enqueue
    <3>2. CASE Wait(c)
      BY <3>2 DEF Wait, TakeResult, ClaimDone, Follow, KeepWaiting, Claim
    <3>3. CASE Work(c)
      BY <3>3 DEF Work, Publish, Abandon, BuildFails, SlotWorkEnds
    <3>4. CASE Clean(c)
      BY <3>4 DEF Clean, Dequeue, Release, SlotReleaseReads, SlotReleaseUnlinks
    <3>5. CASE Beat(c)
      BY <3>5 DEF Beat, BeatFires, BeatReads, BeatWrites
    <3>6. CASE GoesWrong(c)
      BY <3>6 DEF GoesWrong, EnqueueFails, CancelWaiting, ClaimBreaks, BeatFails,
         DequeueFails, ReleaseFails
    <3> QED BY <3>1, <3>2, <3>3, <3>4, <3>5, <3>6
  <2> QED BY <1>1, <2>1 DEF EndsAtMost, Settled, RunCallers
<1>2. CASE pc[c] = "done"
  <2>1. UNCHANGED <<pc, outcome>>
    BY <1>2 DEF Enter, Enqueue, Wait, TakeResult, ClaimDone, Follow, KeepWaiting,
       Claim, Competes, Work, Publish, Abandon, BuildFails, SlotWorkEnds, Clean,
       Dequeue, Release, SlotReleaseReads, SlotReleaseUnlinks, Beat, BeatFires,
       BeatReads, BeatWrites, GoesWrong, EnqueueFails, CancelWaiting,
       ClaimBreaks, BeatFails, DequeueFails, ReleaseFails, callVars
  <2> QED BY <2>1 DEF EndsAtMost, Settled
<1> QED BY <1>1, <1>2

LEMMA NextMaps ==
  ASSUME TypeOK, LeaseInv, [Next]_vars
  PROVE  [SF!Next]_SF!vars
<1>0. LeaseInv' /\ TypeOK'
  BY LeaseStep, TypeStep
<1>1. CASE \E c \in RunCallers : Publish(c)
  BY <1>1, PublishMaps
<1>2. CASE ~ \E c \in RunCallers : Publish(c)
  <2>1. \A t \in Tasks : tasks'[t].result = tasks[t].result
    BY <1>2, TaskStep DEF TaskStepOK
  <2>2. ASSUME NEW c \in Callers, EndsAtMost(c) PROVE [SF!Next]_SF!vars
    BY <1>0, <2>1, <2>2, StepMaps DEF EndsAtMost
  <2>3. ASSUME \A d \in RunCallers : Settled'[d] = Settled[d]
        PROVE  [SF!Next]_SF!vars
    BY <1>0, <2>1, <2>3, StepMaps
  <2>4. CASE Tick \/ Finished \/ UNCHANGED vars
    <3>1. UNCHANGED <<pc, outcome>>
      BY <2>4 DEF Tick, Finished, vars, callVars
    <3> QED BY <3>1, <2>3 DEF Settled
  <2>5. ASSUME NEW p \in Procs, Crash(p) PROVE [SF!Next]_SF!vars
    <3>1. /\ outcome' = outcome
          /\ \A d \in Callers : pc'[d] = pc[d] \/ (pc[d] # "done" /\ pc'[d] # "done")
      BY <2>5 DEF Crash, Active
    <3> QED BY <3>1, <2>3 DEF Settled, RunCallers
  <2> QED BY <2>2, <2>4, <2>5, EndsOne DEF Next
<1> QED BY <1>1, <1>2

\* run implements a memo: its calls publish at most one value per task, and
\* each of them settles once, with that value or with an error.
THEOREM RefinesSingleFlight == Spec => IsSingleFlight
<1>1. Init => SF!Init
  BY ConstantsAssumption DEF Init, SF!Init, NoTask, Unleased, RunCallers
<1>2. TypeOK /\ LeaseInv /\ [Next]_vars => [SF!Next]_SF!vars
  BY NextMaps
<1> QED BY <1>1, <1>2, LeaseAlways, PTL DEF Spec, SF!Spec, IsSingleFlight

-----------------------------------------------------------------------------
(* Slots. The release of withSlot unlinks what it read a step before, so   *)
(* the holders that keep their slots are those that were not robbed, and   *)
(* the calls that are sure to give theirs back are those of run.           *)

HoldersOwnSlots ==
  \A c \in Callers \ robbed :
    Holds(c) => /\ held[c] \in Slots
                /\ slots[held[c]].owner = c
                /\ slots[held[c]].ttl >= grant[c]

\* Nobody claims a slot under the lock of a heartbeat: it is unlinked at most.
BeatersOwnSlots ==
  \A c \in Callers :
    lock = c => held[c] \in Slots /\ slots[held[c]].owner \in {c, None}

\* A heartbeat of run that stands between its read and its write works still,
\* or has not yet come to the section that frees the slot.
BeatersRelease ==
  \A c \in RunCallers : lock = c => pc[c] \in {"working", "cleanup", "release"} \/ faults # 0

\* While nothing has gone wrong, a slot of run belongs to the call that remembers it.
OwnersRemember ==
  faults = 0 =>
    \A c \in RunCallers, i \in Slots :
      slots[i].owner = c => pc[c] \in {"working", "cleanup", "release"} /\ held[c] = i

SlotInv == HoldersOwnSlots /\ BeatersOwnSlots /\ BeatersRelease /\ OwnersRemember

LEMMA InitSlot == Init => SlotInv
  BY ConstantsAssumption
  DEF Init, SlotInv, HoldersOwnSlots, BeatersOwnSlots, BeatersRelease, OwnersRemember, Holds, FreeSlot,
      RunCallers

LEMMA SlotsUntouched ==
  ASSUME SlotInv, TypeOK, UNCHANGED <<slots, held, robbed>>, lock' \in {lock, None},
         \A c \in Callers : Holds(c)' => Holds(c) /\ grant'[c] = grant[c],
         faults' = 0 => /\ faults = 0
                        /\ \A c \in RunCallers :
                             \/ pc'[c] = pc[c]
                             \/ pc'[c] \in {"cleanup", "release"}
                             \/ lock' # c /\ \A i \in Slots : slots[i].owner # c
  PROVE  SlotInv'
<1>1. HoldersOwnSlots'
  BY DEF SlotInv, HoldersOwnSlots
<1>2. BeatersOwnSlots'
  BY ConstantsAssumption DEF SlotInv, BeatersOwnSlots
<1>3. OwnersRemember'
  BY DEF SlotInv, OwnersRemember
<1>4. BeatersRelease'
  BY ConstantsAssumption DEF SlotInv, BeatersRelease, RunCallers
<1> QED BY <1>1, <1>2, <1>3, <1>4 DEF SlotInv

LEMMA ClaimSlot ==
  ASSUME SlotInv, TypeOK, NEW c \in Callers, NEW i \in Slots,
         lock = None, lock' = None, pc[c] = "polling", robbed' = robbed,
         IsFree(i), TakeSlot(c, i),
         \A d \in Callers \ {c} : /\ pc'[d] = pc[d] /\ held'[d] = held[d]
                                  /\ grant'[d] = grant[d],
         \/ pc'[c] = "working" /\ held'[c] = i /\ grant'[c] = Lease /\ faults' = faults
         \/ pc'[c] = "cleanup" /\ faults' # 0
  PROVE  SlotInv'
<1> DEFINE r == [owner |-> c, ttl |-> Lease]
<1>1. /\ slots' = [slots EXCEPT ![i] = r] /\ slots \in [Slots -> SlotType]
      /\ r.owner = c /\ r.ttl = Lease
  BY LeaseTypes DEF TakeSlot
<1> HIDE DEF r
<1>2. ASSUME NEW d \in Callers \ robbed, Holds(d) PROVE held[d] # i
  <2>1. /\ slots[held[d]].owner = d /\ slots[held[d]].ttl >= grant[d]
        /\ grant[d] \in Nat /\ grant[d] > 0 /\ held[d] \in Slots
    BY <1>2 DEF SlotInv, HoldersOwnSlots, Holds, TypeOK
  <2>2. slots[held[d]].owner # None /\ slots[held[d]].ttl # 0
    BY <1>1, <2>1, ConstantsAssumption DEF SlotType
  <2> QED BY <2>2 DEF IsFree
<1>3. HoldersOwnSlots'
  <2> SUFFICES ASSUME NEW d \in Callers \ robbed, Holds(d)'
               PROVE  /\ held'[d] \in Slots /\ slots'[held'[d]].owner = d
                      /\ slots'[held'[d]].ttl >= grant'[d]
    BY DEF HoldersOwnSlots
  <2>1. CASE d = c
    BY <2>1, <1>1, ConstantsAssumption DEF Holds
  <2>2. CASE d # c
    BY <2>2, <1>1, <1>2 DEF Holds, SlotInv, HoldersOwnSlots
  <2> QED BY <2>1, <2>2
<1>4. BeatersOwnSlots' /\ BeatersRelease'
  BY ConstantsAssumption DEF BeatersOwnSlots, BeatersRelease, RunCallers
<1>5. OwnersRemember'
  BY <1>1 DEF OwnersRemember, SlotInv, RunCallers
<1> QED BY <1>3, <1>4, <1>5 DEF SlotInv

\* A slot file that is gone is missed by nobody who was not robbed.
LEMMA FreedSlot ==
  ASSUME SlotInv, TypeOK, NEW c \in Callers, held[c] \in Slots,
         slots' = [slots EXCEPT ![held[c]] = FreeSlot],
         robbed \subseteq robbed', {slots[held[c]].owner} \ {c, None} \subseteq robbed',
         UNCHANGED <<held, grant, lock>>, pc' = [pc EXCEPT ![c] = "done"],
         c \in SlotCallers \/ lock = None, faults' = 0 => faults = 0
  PROVE  HoldersOwnSlots' /\ BeatersOwnSlots' /\ BeatersRelease'
<1>1. /\ FreeSlot.owner = None /\ slots \in [Slots -> SlotType]
  BY LeaseTypes DEF FreeSlot, TypeOK
<1>2. \A d \in Callers : Holds(d)' => Holds(d) /\ d # c
  BY DEF Holds, TypeOK
<1>3. HoldersOwnSlots'
  <2> SUFFICES ASSUME NEW d \in Callers \ robbed', Holds(d)'
               PROVE  /\ held[d] \in Slots /\ slots'[held[d]].owner = d
                      /\ slots'[held[d]].ttl >= grant[d]
    BY DEF HoldersOwnSlots
  <2>1. d # c /\ d \notin robbed /\ held[d] \in Slots /\ slots[held[d]].owner = d
        /\ slots[held[d]].ttl >= grant[d]
    BY <1>2 DEF SlotInv, HoldersOwnSlots
  <2>2. held[d] # held[c]
    BY <2>1, ConstantsAssumption
  <2> QED BY <1>1, <2>1, <2>2
<1>4. BeatersOwnSlots'
  BY <1>1 DEF SlotInv, BeatersOwnSlots
<1>5. BeatersRelease'
  BY ConstantsAssumption DEF SlotInv, BeatersRelease, RunCallers, TypeOK
<1> QED BY <1>3, <1>4, <1>5

LEMMA CallSlot ==
  ASSUME SlotInv, TypeOK, NEW c \in Callers,
         \/ Enter(c) \/ Enqueue(c) \/ Wait(c)
         \/ Work(c) \/ Clean(c) \/ GoesWrong(c)
  PROVE  SlotInv'
<1> USE ConstantsAssumption DEF callVars, leaseVars, beatVars
<1>1. CASE Enter(c) \/ Enqueue(c) \/ TakeResult(c) \/ ClaimDone(c) \/ Follow(c) \/ KeepWaiting(c)
  <2>1. /\ UNCHANGED <<slots, held, lock, grant, faults, robbed>>
        /\ pc[c] \in {"idle", "entering", "polling"}
        /\ \A d \in Callers \ {c} : pc'[d] = pc[d]
        /\ pc'[c] # "working"
    BY <1>1 DEF Enter, Enqueue, TakeResult, ClaimDone, Follow, KeepWaiting, Competes, TypeOK
  <2>2. c \in RunCallers /\ faults = 0 => lock # c /\ \A i \in Slots : slots[i].owner # c
    BY <2>1 DEF SlotInv, OwnersRemember, BeatersRelease
  <2> QED BY <2>1, <2>2, SlotsUntouched DEF Holds, RunCallers
<1>2. CASE Claim(c)
  <2>1. PICK i \in Slots : /\ Competes(c) /\ FirstFree(i) /\ TakeSlot(c, i)
                           /\ held' = [held EXCEPT ![c] = i]
                           /\ grant' = [grant EXCEPT ![c] = Lease]
                           /\ pc' = [pc EXCEPT ![c] = "working"]
                           /\ UNCHANGED <<faults, beatVars>>
    BY <1>2 DEF Claim
  <2> QED BY <2>1, ClaimSlot DEF Competes, FirstFree, TypeOK
<1>3. CASE Work(c)
  <2>1. /\ UNCHANGED <<slots, held, lock, faults, robbed>>
        /\ pc' = [pc EXCEPT ![c] = "cleanup"] /\ grant' = [grant EXCEPT ![c] = 0]
    BY <1>3 DEF Work, Publish, Abandon, BuildFails, SlotWorkEnds, Leave
  <2> QED BY <2>1, SlotsUntouched DEF Holds, TypeOK, RunCallers
<1>4. CASE Dequeue(c)
  <2>1. /\ UNCHANGED <<slots, held, lock, faults, grant, robbed>> /\ pc[c] = "cleanup" /\ lock = None
        /\ pc' = [pc EXCEPT ![c] = IF held[c] = None THEN "done" ELSE "release"]
    BY <1>4 DEF Dequeue
  <2>2. c \in RunCallers /\ held[c] = None /\ faults = 0 => \A i \in Slots : slots[i].owner # c
    BY DEF SlotInv, OwnersRemember
  <2> QED BY <2>1, <2>2, SlotsUntouched DEF Holds, TypeOK, RunCallers
<1>5. CASE Release(c) \/ ReleaseFails(c)
  <2>1. /\ UNCHANGED <<held, grant, lock, robbed>> /\ pc[c] \in {"release", "unlinking"}
        /\ pc' = [pc EXCEPT ![c] = "done"]
        /\ \/ OwnsSlot(c) /\ lock = None /\ slots' = [slots EXCEPT ![held[c]] = FreeSlot]
           \/ UNCHANGED slots /\ ((~OwnsSlot(c) /\ lock = None) \/ faults' # 0)
        /\ faults' = 0 => faults = 0
    BY <1>5 DEF Release, ReleaseFails, FreesSlot, Fault, TypeOK
  <2>2. \A d \in Callers : Holds(d)' => Holds(d) /\ d # c
    BY <2>1 DEF Holds, TypeOK
  <2>3. /\ FreeSlot.owner = None /\ slots \in [Slots -> SlotType]
        /\ held[c] \in Slots \cup {None}
    BY LeaseTypes DEF FreeSlot, TypeOK
  <2>4. CASE OwnsSlot(c) /\ lock = None /\ slots' = [slots EXCEPT ![held[c]] = FreeSlot]
    <3>0. slots[held[c]].owner = c /\ held[c] \in Slots
      BY <2>3, <2>4 DEF OwnsSlot
    <3>1. HoldersOwnSlots' /\ BeatersOwnSlots' /\ BeatersRelease'
      BY <2>1, <2>4, <3>0, FreedSlot
    <3>3. OwnersRemember'
      BY <2>1, <2>3, <2>4, <3>0 DEF SlotInv, OwnersRemember, TypeOK, RunCallers
    <3> QED BY <3>1, <3>3 DEF SlotInv
  <2>5. CASE UNCHANGED slots /\ ((~OwnsSlot(c) /\ lock = None) \/ faults' # 0)
    <3>1. faults' = 0 /\ c \in RunCallers => lock # c /\ \A i \in Slots : slots[i].owner # c
      BY <2>1, <2>5 DEF SlotInv, OwnersRemember, OwnsSlot
    <3> QED BY <2>1, <2>2, <2>5, <3>1, SlotsUntouched DEF TypeOK, RunCallers
  <2> QED BY <2>1, <2>4, <2>5
<1>6. CASE SlotReleaseReads(c)
  <2>1. /\ UNCHANGED <<slots, held, grant, lock, robbed, faults>> /\ c \notin RunCallers
        /\ pc' = [pc EXCEPT ![c] = IF OwnsSlot(c) THEN "unlinking" ELSE "done"]
    BY <1>6 DEF SlotReleaseReads, RunCallers
  <2> QED BY <2>1, SlotsUntouched DEF Holds, TypeOK, RunCallers
<1>9. CASE SlotReleaseUnlinks(c)
  <2>1. /\ c \in SlotCallers /\ slots' = [slots EXCEPT ![held[c]] = FreeSlot]
        /\ robbed' = robbed \cup ({slots[held[c]].owner} \ {c, None})
        /\ pc' = [pc EXCEPT ![c] = "done"] /\ UNCHANGED <<held, grant, lock, faults>>
    BY <1>9 DEF SlotReleaseUnlinks
  <2>2. FreeSlot.owner = None /\ slots \in [Slots -> SlotType] /\ held[c] \in Slots \cup {None}
    BY LeaseTypes DEF FreeSlot, TypeOK
  <2>3. CASE held[c] \in Slots
    <3>1. HoldersOwnSlots' /\ BeatersOwnSlots' /\ BeatersRelease'
      BY <2>1, <2>3, FreedSlot
    <3>2. OwnersRemember'
      BY <2>1, <2>2, <2>3 DEF SlotInv, OwnersRemember, RunCallers, TypeOK
    <3> QED BY <3>1, <3>2 DEF SlotInv
  <2>4. CASE held[c] = None
    <3>1. slots' = slots
      BY <2>1, <2>2, <2>4
    <3>2. HoldersOwnSlots'
      BY <2>1, <3>1 DEF SlotInv, HoldersOwnSlots, Holds, TypeOK
    <3>3. BeatersOwnSlots' /\ BeatersRelease' /\ OwnersRemember'
      BY <2>1, <3>1 DEF SlotInv, BeatersOwnSlots, BeatersRelease, OwnersRemember, RunCallers, TypeOK
    <3> QED BY <3>2, <3>3 DEF SlotInv
  <2> QED BY <2>2, <2>3, <2>4
<1>7. CASE EnqueueFails(c) \/ DequeueFails(c) \/ CancelWaiting(c) \/ BeatFails(c)
  <2>1. /\ UNCHANGED <<slots, held, grant, robbed>> /\ lock' \in {lock, None}
        /\ \A d \in Callers \ {c} : pc'[d] = pc[d]
        /\ pc'[c] # "working" \/ pc'[c] = pc[c]
        /\ faults' # 0 \/ (pc'[c] = "cleanup" /\ faults' = faults)
    BY <1>7 DEF EnqueueFails, DequeueFails, CancelWaiting, BeatFails, Fault, TypeOK
  <2> QED BY <2>1, SlotsUntouched DEF Holds, RunCallers
<1>8. CASE ClaimBreaks(c)
  <2>1. PICK i \in Slots : /\ Competes(c) /\ FirstFree(i) /\ TakeSlot(c, i)
                           /\ Fault /\ pc' = [pc EXCEPT ![c] = "cleanup"]
                           /\ UNCHANGED <<held, grant, beatVars>>
    BY <1>8 DEF ClaimBreaks
  <2> QED BY <2>1, ClaimSlot DEF Competes, FirstFree, Fault, TypeOK
<1> QED BY <1>1, <1>2, <1>3, <1>4, <1>5, <1>6, <1>7, <1>8, <1>9 DEF Wait, Clean, GoesWrong

LEMMA BeatSlot ==
  ASSUME SlotInv, TypeOK, NEW c \in Callers, Beat(c)
  PROVE  SlotInv'
<1> USE ConstantsAssumption DEF callVars, leaseVars
<1>1. CASE BeatFires(c)
  BY <1>1, SlotsUntouched DEF BeatFires, Holds
<1>2. CASE BeatReads(c)
  <2>1. /\ UNCHANGED <<slots, held, pc, faults, grant, robbed>>
        /\ lock' = IF RenewsSlot(c) THEN c ELSE None
    BY <1>2 DEF BeatReads
  <2>2. HoldersOwnSlots' /\ OwnersRemember'
    BY <2>1 DEF SlotInv, HoldersOwnSlots, OwnersRemember, Holds
  <2>3. BeatersOwnSlots'
    BY <2>1 DEF BeatersOwnSlots, RenewsSlot, OwnsSlot, TypeOK
  <2>4. BeatersRelease'
    BY <2>1 DEF BeatersRelease, RenewsSlot, OwnsSlot, TypeOK, SlotInv, OwnersRemember, RunCallers
  <2> QED BY <2>2, <2>3, <2>4 DEF SlotInv
<1>3. CASE BeatWrites(c)
  <2> DEFINE r == [owner |-> c, ttl |-> Lease]
  <2>1. /\ lock = c /\ lock' = None /\ UNCHANGED <<pc, held, faults, robbed>>
        /\ slots' = [slots EXCEPT ![held[c]] = r]
        /\ grant' = IF pc[c] = "working" THEN [grant EXCEPT ![c] = Lease] ELSE grant
        /\ r.owner = c /\ r.ttl = Lease
    BY <1>3 DEF BeatWrites
  <2> HIDE DEF r
  <2>2. held[c] \in Slots /\ slots[held[c]].owner \in {c, None} /\ slots \in [Slots -> SlotType]
    BY <2>1, LeaseTypes DEF SlotInv, BeatersOwnSlots
  <2>3. /\ slots'[held[c]] = r
        /\ \A i \in Slots : i # held[c] => slots'[i] = slots[i]
    BY <2>1, <2>2
  <2>4. BeatersOwnSlots' /\ BeatersRelease'
    BY <2>1 DEF SlotInv, BeatersOwnSlots, BeatersRelease, RunCallers
  <2>5. HoldersOwnSlots'
    <3> SUFFICES ASSUME NEW d \in Callers \ robbed, Holds(d)'
                 PROVE  /\ held[d] \in Slots /\ slots'[held[d]].owner = d
                        /\ slots'[held[d]].ttl >= grant'[d]
      BY <2>1 DEF HoldersOwnSlots
    <3>1. CASE d = c
      BY <3>1, <2>1, <2>2, <2>3 DEF Holds, TypeOK
    <3>2. CASE d # c
      BY <3>2, <2>1, <2>2, <2>3 DEF Holds, TypeOK, SlotInv, HoldersOwnSlots
    <3> QED BY <3>1, <3>2
  <2>6. OwnersRemember'
    <3> SUFFICES ASSUME faults = 0, NEW d \in RunCallers, NEW i \in Slots, slots'[i].owner = d
                 PROVE  pc[d] \in {"working", "cleanup", "release"} /\ held[d] = i
      BY <2>1 DEF OwnersRemember
    <3>1. CASE i = held[c]
      BY <3>1, <2>1, <2>3 DEF SlotInv, BeatersRelease
    <3>2. CASE i # held[c]
      BY <3>2, <2>3 DEF SlotInv, OwnersRemember
    <3> QED BY <3>1, <3>2
  <2> QED BY <2>4, <2>5, <2>6 DEF SlotInv
<1> QED BY <1>1, <1>2, <1>3 DEF Beat

LEMMA TickSlot == TypeOK /\ SlotInv /\ Tick => SlotInv'
<1> SUFFICES ASSUME TypeOK, SlotInv, Tick PROVE SlotInv'
  OBVIOUS
<1>1. /\ lock = None /\ lock' = None /\ UNCHANGED <<pc, held, faults, robbed>>
      /\ \A i \in Slots : /\ slots'[i].owner = slots[i].owner
                          /\ slots'[i].ttl = Less(slots[i].ttl)
      /\ \A c \in Callers : grant'[c] = Less(grant[c])
  BY DEF Tick, callVars, beatVars
<1>2. BeatersOwnSlots' /\ BeatersRelease' /\ OwnersRemember'
  BY <1>1, ConstantsAssumption DEF SlotInv, BeatersOwnSlots, BeatersRelease, OwnersRemember, RunCallers
<1>3. HoldersOwnSlots'
  <2> SUFFICES ASSUME NEW d \in Callers \ robbed, Holds(d)'
               PROVE  /\ held[d] \in Slots /\ slots'[held[d]].owner = d
                      /\ slots'[held[d]].ttl >= grant'[d]
    BY <1>1 DEF HoldersOwnSlots
  <2>1. grant[d] \in Nat /\ grant[d] > 0 /\ Holds(d)
    BY <1>1 DEF Holds, Less, TypeOK
  <2>2. held[d] \in Slots /\ slots[held[d]].owner = d /\ slots[held[d]].ttl >= grant[d]
    BY <2>1 DEF SlotInv, HoldersOwnSlots
  <2>3. slots[held[d]].ttl \in Nat
    BY <2>2, LeaseTypes DEF SlotType
  <2>4. Less(slots[held[d]].ttl) >= Less(grant[d])
    BY <2>1, <2>2, <2>3 DEF Less
  <2> QED BY <1>1, <2>2, <2>4
<1> QED BY <1>2, <1>3 DEF SlotInv

LEMMA SlotStep == TypeOK /\ SlotInv /\ [Next]_vars => SlotInv'
<1> SUFFICES ASSUME TypeOK, SlotInv, [Next]_vars PROVE SlotInv'
  OBVIOUS
<1>1. ASSUME NEW c \in Callers,
             \/ Enter(c) \/ Enqueue(c) \/ Wait(c)
             \/ Work(c) \/ Clean(c) \/ Beat(c) \/ GoesWrong(c)
      PROVE SlotInv'
  BY <1>1, CallSlot, BeatSlot
<1>2. CASE Tick
  BY <1>2, TickSlot
<1>3. ASSUME NEW p \in Procs, Crash(p) PROVE SlotInv'
  <2>1. /\ UNCHANGED <<slots, held, robbed>> /\ lock' \in {lock, None} /\ faults' # 0
        /\ \A c \in Callers : /\ pc'[c] \in {pc[c], "dead"}
                              /\ pc'[c] # "dead" => grant'[c] = grant[c]
    BY <1>3 DEF Crash, Fault, TypeOK
  <2> QED BY <2>1, SlotsUntouched DEF Holds
<1>4. CASE Finished \/ UNCHANGED vars
  <2>1. UNCHANGED <<slots, held, lock, pc, grant, faults, robbed>>
    BY <1>4 DEF Finished, vars, callVars, leaseVars, beatVars
  <2> QED BY <2>1, SlotsUntouched DEF Holds
<1> QED BY <1>1, <1>2, <1>3, <1>4 DEF Next

\* Two calls that work under a living lease work in different slots, however many calls,
\* slots and tasks there are, as long as neither slot was unlinked by the release of another
\* call of withSlot: claims, renewals and the releases under the lock do not exceed the limit.
THEOREM LimitHolds == Spec => []LimitUnlessRobbed
<1>1. SlotInv => LimitUnlessRobbed
  BY DEF SlotInv, HoldersOwnSlots, LimitUnlessRobbed
<1> QED BY <1>1, InitSlot, SlotStep, TypeCorrect, PTL DEF Spec

\* A call of run that ends with nothing gone wrong leaves no slot behind it, although calls
\* of withSlot free and renew theirs without the lock.
THEOREM RunFreesForGood == Spec => []RunsReleaseForGood
<1>1. SlotInv => RunsReleaseForGood
  BY DEF SlotInv, OwnersRemember, RunsReleaseForGood
<1> QED BY <1>1, InitSlot, SlotStep, TypeCorrect, PTL DEF Spec

-----------------------------------------------------------------------------
(* Priorities. Once overtaken, a batch call is marked, in its record or,   *)
(* while it follows a builder, in its own memory; a marked record is never *)
(* passed by a call that came later.                                       *)

OvertakenIsMarked ==
  \A w \in Callers \ Interactive :
    /\ overtaken[w] <= 1
    /\ overtaken[w] = 1 => IF w \in waiters THEN bypassed[w] ELSE remembered[w]

\* A queue write that keeps every mark it keeps a record for.
LEMMA QueueKeepsMarks ==
  ASSUME TypeOK, OvertakenIsMarked, NEW c \in Callers,
         NEW records, NEW marks \in [Callers -> BOOLEAN], NEW ages, NEW gone,
         WriteWaiters(c, records, marks, ages), ForgetOvertakes(gone),
         records \subseteq waiters \cup {c}, Dropped(c, records) \subseteq gone,
         \A w \in Callers : w \in waiters /\ w # c => marks[w] = bypassed[w],
         c \notin gone =>
           /\ c \in records => marks[c] = IF c \in waiters THEN bypassed[c] ELSE remembered[c]
           /\ c \notin records => remembered'[c] = IF c \in waiters THEN remembered[c] \/ bypassed[c] ELSE remembered[c],
         \A w \in Callers \ {c} : remembered'[w] = remembered[w]
  PROVE  OvertakenIsMarked'
<1> SUFFICES ASSUME NEW w \in Callers \ Interactive
             PROVE  /\ overtaken'[w] <= 1
                    /\ overtaken'[w] = 1 => IF w \in waiters' THEN bypassed'[w] ELSE remembered'[w]
  BY DEF OvertakenIsMarked
<1>1. /\ waiters' = records /\ (w \in records => bypassed'[w] = marks[w])
      /\ overtaken'[w] = IF w \in gone THEN 0 ELSE overtaken[w]
  <2>1. waiters' = records /\ bypassed' = [v \in Callers |-> v \in records /\ marks[v]]
    BY DEF WriteWaiters
  <2>2. w \in records => bypassed'[w] = marks[w]
    <3>1. marks[w] \in BOOLEAN
      OBVIOUS
    <3>2. bypassed'[w] = (w \in records /\ marks[w])
      BY <2>1, Zenon
    <3> QED BY <3>1, <3>2, Zenon
  <2> QED BY <2>1, <2>2 DEF ForgetOvertakes
<1>2. CASE w \in gone
  BY <1>1, <1>2
<1>3. CASE w \notin gone /\ w # c
  BY <1>1, <1>3 DEF OvertakenIsMarked, Dropped
<1>4. CASE w \notin gone /\ w = c
  BY <1>1, <1>4 DEF OvertakenIsMarked
<1> QED BY <1>2, <1>3, <1>4

\* A caller still waiting sees its own record, whatever its age.
LEMMA SeesItself ==
  ASSUME NEW c \in Callers, pc[c] \in {"entering", "polling"}
  PROVE  /\ c \in waiters <=> c \in ReadWaiters(c)
         /\ RefreshedMarks(c)[c] = IF c \in waiters THEN bypassed[c] ELSE RefreshedMarks(c)[c]
  BY DEF ReadWaiters, LiveHere, RefreshedMarks

LEMMA RefreshKeepsMarks ==
  ASSUME TypeOK, NEW c \in Callers, pc[c] \in {"entering", "polling"}
  PROVE  /\ Refreshed(c) \subseteq waiters \cup {c}
         /\ RefreshedMarks(c) \in [Callers -> BOOLEAN]
         /\ \A w \in Callers \ {c} : RefreshedMarks(c)[w] = bypassed[w]
         /\ RefreshedMarks(c)[c] = IF c \in waiters THEN bypassed[c] ELSE remembered[c]
<1>1. Refreshed(c) \subseteq waiters \cup {c}
  BY DEF Refreshed, ReadWaiters
<1>2. /\ \A w \in Callers \ {c} : RefreshedMarks(c)[w] = bypassed[w]
      /\ RefreshedMarks(c)[c] = IF c \in waiters THEN bypassed[c] ELSE remembered[c]
  BY SeesItself DEF RefreshedMarks, TypeOK
<1> QED BY <1>1, <1>2, RefreshTypes

\* A claim passes no marked record, and marks each record it passes.
LEMMA LeavingMarks ==
  ASSUME TypeOK, OvertakenIsMarked, NEW c \in Callers, pc[c] = "polling",
         IsHead(c), LeaveQueue(c),
         \A w \in Callers \ {c} : remembered'[w] = remembered[w]
  PROVE  OvertakenIsMarked'
<1> DEFINE records == Refreshed(c) \ {c}
<1> SUFFICES ASSUME NEW w \in Callers \ Interactive
             PROVE  /\ overtaken'[w] <= 1
                    /\ overtaken'[w] = 1 => IF w \in waiters' THEN bypassed'[w] ELSE remembered'[w]
  BY DEF OvertakenIsMarked
<1>1. /\ waiters' = records
      /\ overtaken'[w] = IF w \in Dropped(c, records) \cup {c} THEN 0
                         ELSE IF w \in records /\ c \in Interactive /\ at[w] < at[c]
                         THEN overtaken[w] + 1 ELSE overtaken[w]
  BY DEF LeaveQueue, WriteWaiters
<1>2. w \in records => bypassed'[w] = (RefreshedMarks(c)[w] \/ c \in Interactive)
  <2>1. bypassed' = [v \in Callers |-> v \in records /\ AfterClaimMarks(c)[v]]
    BY DEF LeaveQueue, WriteWaiters
  <2>2. AfterClaimMarks(c)[w] = (RefreshedMarks(c)[w] \/ c \in Interactive)
    BY DEF AfterClaimMarks
  <2>3. AfterClaimMarks(c)[w] \in BOOLEAN
    BY RefreshTypes
  <2>4. bypassed'[w] = (w \in records /\ AfterClaimMarks(c)[w])
    BY <2>1, Zenon
  <2> QED BY <2>2, <2>3, <2>4, Zenon
<1>3. w # c => RefreshedMarks(c)[w] = bypassed[w]
  BY RefreshKeepsMarks
<1>4. ASSUME w \in records, c \in Interactive, at[w] < at[c] PROVE overtaken[w] = 0
  <2>1. Before(c, w, RefreshedMarks(c))
    BY <1>4 DEF IsHead
  <2>2. at[w] \in Nat /\ at[c] \in Nat
    BY DEF TypeOK
  <2>3. ~RefreshedMarks(c)[w]
    BY <1>4, <2>1, <2>2 DEF Before, Rank
  <2>4. w \in waiters /\ ~bypassed[w]
    BY <1>3, <1>4, <2>3, RefreshKeepsMarks
  <2>5. overtaken[w] # 1
    BY <2>4, Zenon DEF OvertakenIsMarked
  <2>6. overtaken[w] \in Nat /\ overtaken[w] <= 1
    BY DEF OvertakenIsMarked, TypeOK
  <2> QED BY <2>5, <2>6
<1>5. CASE w \in Dropped(c, records) \cup {c}
  BY <1>1, <1>5
<1>6. CASE w \notin Dropped(c, records) \cup {c} /\ w \in records
  <2>1. w \in waiters /\ overtaken[w] \in Nat /\ bypassed[w] \in BOOLEAN
    BY <1>6, RefreshKeepsMarks DEF TypeOK
  <2>2. CASE c \in Interactive /\ at[w] < at[c]
    <3>1. overtaken[w] = 0 /\ bypassed'[w]
      BY <1>2, <1>4, <1>6, <2>2, Zenon
    <3>2. overtaken'[w] = 1
      BY <1>1, <1>6, <2>2, <3>1
    <3> QED BY <1>1, <1>6, <3>1, <3>2
  <2>3. CASE ~(c \in Interactive /\ at[w] < at[c])
    BY <1>1, <1>2, <1>3, <1>6, <2>1, <2>3 DEF OvertakenIsMarked
  <2> QED BY <2>2, <2>3
<1>7. CASE w \notin Dropped(c, records) \cup {c} /\ w \notin records
  BY <1>1, <1>7 DEF OvertakenIsMarked, Dropped
<1> QED BY <1>5, <1>6, <1>7

LEMMA CallMarks ==
  ASSUME TypeOK, OvertakenIsMarked, NEW c \in Callers,
         \/ Enter(c) \/ Enqueue(c) \/ Wait(c)
         \/ Work(c) \/ Clean(c) \/ Beat(c) \/ GoesWrong(c)
  PROVE  OvertakenIsMarked'
<1> DEFINE less == ReadWaiters(c) \ {c}
<1>0. ASSUME UNCHANGED <<waiters, bypassed, overtaken, remembered>>
      PROVE  OvertakenIsMarked'
  BY <1>0 DEF OvertakenIsMarked
<1>a. less \subseteq waiters \cup {c} /\ bypassed \in [Callers -> BOOLEAN]
  BY DEF ReadWaiters, TypeOK
<1>1. CASE Enqueue(c) \/ KeepWaiting(c)
  <2>1. PICK ages : /\ WriteWaiters(c, Refreshed(c), RefreshedMarks(c), ages)
                    /\ ForgetOvertakes(Dropped(c, Refreshed(c)))
                    /\ remembered' = remembered
                    /\ pc[c] \in {"entering", "polling"}
    BY <1>1 DEF Enqueue, KeepWaiting, Competes, callVars
  <2>2. c \in Refreshed(c)
    BY DEF Refreshed
  <2>3. c \notin Dropped(c, Refreshed(c))
    BY DEF Dropped
  <2> QED BY <2>1, <2>2, <2>3, RefreshKeepsMarks, QueueKeepsMarks
<1>2. CASE ClaimDone(c) \/ Dequeue(c)
  <2>1. /\ WriteWaiters(c, less, bypassed, age)
        /\ ForgetOvertakes(Dropped(c, less) \cup {c})
        /\ \A w \in Callers \ {c} : remembered'[w] = remembered[w]
    BY <1>2 DEF ClaimDone, Dequeue, Forget, TypeOK
  <2> HIDE DEF less
  <2> QED BY <1>a, <2>1, QueueKeepsMarks
<1>3. CASE Follow(c)
  <2>1. /\ WriteWaiters(c, less, bypassed, age) /\ c \in waiters
        /\ ForgetOvertakes(Dropped(c, less))
        /\ remembered' = [remembered EXCEPT ![c] = remembered[c] \/ bypassed[c]]
    BY <1>3 DEF Follow, RememberMark
  <2>2. c \notin less
    OBVIOUS
  <2>3. /\ remembered'[c] = (remembered[c] \/ bypassed[c])
        /\ \A w \in Callers \ {c} : remembered'[w] = remembered[w]
    BY <2>1 DEF TypeOK
  <2> HIDE DEF less
  <2> QED BY <1>a, <2>1, <2>2, <2>3, QueueKeepsMarks
<1>4. CASE Claim(c)
  BY <1>4, LeavingMarks DEF Claim, Competes, Forget, TypeOK
<1>5. CASE ClaimBreaks(c)
  <2>1. /\ pc[c] = "polling" /\ IsHead(c) /\ remembered' = remembered
        /\ \/ LeaveQueue(c)
           \/ /\ WriteWaiters(c, Refreshed(c), RefreshedMarks(c), RefreshedAges(c))
              /\ ForgetOvertakes(Dropped(c, Refreshed(c)))
           \/ UNCHANGED queueVars
    BY <1>5 DEF ClaimBreaks, Competes
  <2>2. c \in Refreshed(c) /\ c \notin Dropped(c, Refreshed(c))
    BY DEF Refreshed, Dropped
  <2> QED BY <1>0, <2>1, <2>2, LeavingMarks, RefreshKeepsMarks, QueueKeepsMarks DEF queueVars
<1>6. CASE \/ Enter(c) \/ TakeResult(c) \/ Work(c) \/ Release(c)
           \/ SlotReleaseReads(c) \/ SlotReleaseUnlinks(c) \/ Beat(c)
           \/ EnqueueFails(c) \/ CancelWaiting(c) \/ BeatFails(c)
           \/ DequeueFails(c) \/ ReleaseFails(c)
  <2>1. UNCHANGED <<waiters, bypassed, overtaken, remembered>>
    BY <1>6 DEF Enter, TakeResult, Work, Publish, Abandon, BuildFails,
       SlotWorkEnds, Release, SlotReleaseReads, SlotReleaseUnlinks, Beat,
       BeatFires, BeatReads, BeatWrites, EnqueueFails, CancelWaiting,
       BeatFails, DequeueFails, ReleaseFails, callVars, queueVars
  <2> QED BY <1>0, <2>1
<1> QED BY <1>1, <1>2, <1>3, <1>4, <1>5, <1>6 DEF Wait, Clean, GoesWrong

\* Priority is worth one overtake, for any number of interactive calls.
THEOREM OneOvertake == Spec => []OvertakenOnce
<1>1. Init => OvertakenIsMarked
  BY DEF Init, OvertakenIsMarked
<1>2. TypeOK /\ OvertakenIsMarked /\ [Next]_vars => OvertakenIsMarked'
  <2> SUFFICES ASSUME TypeOK, OvertakenIsMarked, [Next]_vars
               PROVE  OvertakenIsMarked'
    OBVIOUS
  <2>1. CASE Tick \/ Finished \/ UNCHANGED vars \/ \E p \in Procs : Crash(p)
    <3>1. UNCHANGED <<waiters, bypassed, overtaken, remembered>>
      BY <2>1 DEF Tick, Finished, Crash, vars, callVars, queueVars
    <3> QED BY <3>1 DEF OvertakenIsMarked
  <2> QED BY <2>1, CallMarks DEF Next
<1>3. OvertakenIsMarked => OvertakenOnce
  BY DEF OvertakenIsMarked, OvertakenOnce
<1> QED BY <1>1, <1>2, <1>3, TypeCorrect, PTL DEF Spec

-----------------------------------------------------------------------------
(* Places in the queue. A call that reads the queue keeps the record of    *)
(* every call its own process still serves; whoever writes it takes out,   *)
(* of those, only its own.                                                 *)

LEMMA ReaderKeepsItsProcess ==
  ASSUME NEW c \in Callers, NEW w \in waiters, w \in Callers,
         pc[w] = "polling", ProcOf[w] = ProcOf[c]
  PROVE  w \in ReadWaiters(c) /\ w \in Refreshed(c)
  BY DEF ReadWaiters, Refreshed, LiveHere

LEMMA LeavesOnlyToFollow ==
  ASSUME TypeOK, NEW c \in Callers, NEW w \in waiters \ waiters',
         pc[w] = "polling", pc'[w] = "polling", ProcOf[w] = ProcOf[c],
         \/ Enter(c) \/ Enqueue(c) \/ Wait(c)
         \/ Work(c) \/ Clean(c) \/ Beat(c) \/ GoesWrong(c)
  PROVE  w \in RunCallers /\ RunningLive(TaskOf[w])
<1> DEFINE less == ReadWaiters(c) \ {c}
<1>0. w \in Callers /\ w \in ReadWaiters(c) /\ w \in Refreshed(c)
  BY ReaderKeepsItsProcess DEF TypeOK
<1>1. CASE Follow(c)
  <2>1. waiters' = less /\ c \in RunCallers /\ RunningLive(TaskOf[c])
    BY <1>1 DEF Follow, WriteWaiters
  <2> QED BY <1>0, <2>1
<1>2. CASE ClaimDone(c) \/ Dequeue(c)
  <2>1. waiters' = less /\ pc'[c] # "polling"
    BY <1>2 DEF ClaimDone, Dequeue, WriteWaiters, TypeOK
  <2> QED BY <1>0, <2>1
<1>3. CASE Claim(c) \/ ClaimBreaks(c)
  <2>1. /\ pc'[c] # "polling"
        /\ waiters' \in {Refreshed(c) \ {c}, Refreshed(c), waiters}
    BY <1>3 DEF Claim, ClaimBreaks, LeaveQueue, WriteWaiters, queueVars, TypeOK
  <2> QED BY <1>0, <2>1
<1>4. CASE Enqueue(c) \/ KeepWaiting(c)
  <2>1. waiters' = Refreshed(c)
    BY <1>4 DEF Enqueue, KeepWaiting, WriteWaiters
  <2> QED BY <1>0, <2>1
<1>5. CASE \/ Enter(c) \/ TakeResult(c) \/ Work(c) \/ Release(c)
           \/ SlotReleaseReads(c) \/ SlotReleaseUnlinks(c) \/ Beat(c)
           \/ EnqueueFails(c) \/ CancelWaiting(c) \/ BeatFails(c)
           \/ DequeueFails(c) \/ ReleaseFails(c)
  <2>1. UNCHANGED waiters
    BY <1>5 DEF Enter, TakeResult, Work, Publish, Abandon, BuildFails,
       SlotWorkEnds, Release, SlotReleaseReads, SlotReleaseUnlinks, Beat,
       BeatFires, BeatReads, BeatWrites, EnqueueFails, CancelWaiting,
       BeatFails, DequeueFails, ReleaseFails, queueVars
  <2> QED BY <2>1
<1> QED BY <1>1, <1>2, <1>3, <1>4, <1>5 DEF Wait, Clean, GoesWrong

\* Between calls of one process nobody that waits loses its place, however
\* late its heartbeat, whatever is cancelled, fails or expires meanwhile.
THEOREM WaitersKeepTheirPlace ==
  ASSUME \A c, d \in Callers : ProcOf[c] = ProcOf[d]
  PROVE  Spec => KeepsItsPlace
<1>1. ASSUME TypeOK, [Next]_vars, NEW w \in waiters \ waiters',
             pc[w] = "polling", pc'[w] = "polling"
      PROVE  w \in RunCallers /\ RunningLive(TaskOf[w])
  <2>1. w \in Callers /\ waiters' # waiters
    BY <1>1 DEF TypeOK
  <2>2. ~(Tick \/ Finished \/ UNCHANGED vars \/ \E p \in Procs : Crash(p))
    BY <2>1 DEF Tick, Finished, Crash, vars, callVars, queueVars
  <2>3. PICK c \in Callers :
          \/ Enter(c) \/ Enqueue(c) \/ Wait(c)
          \/ Work(c) \/ Clean(c) \/ Beat(c) \/ GoesWrong(c)
    BY <1>1, <2>2 DEF Next
  <2>4. ProcOf[w] = ProcOf[c]
    BY <2>1, <2>3
  <2> QED BY <1>1, <2>3, <2>4, LeavesOnlyToFollow
<1>2. TypeOK /\ [Next]_vars =>
        [\A w \in waiters \ waiters' :
           pc[w] = "polling" /\ pc'[w] = "polling"
             => w \in RunCallers /\ RunningLive(TaskOf[w])]_vars
  BY <1>1
<1> QED BY <1>2, TypeCorrect, PTL DEF Spec, KeepsItsPlace

-----------------------------------------------------------------------------
(* The videos of a project, by type.                                       *)

Videos == [montage : Montage, profile : V!Profile, by : Render]
Folders == [there : BOOLEAN, video : Videos \cup {None}, mark : V!Key \cup {None}, works : SUBSET Render]
Entries == [video : Videos \cup {None}, ready : BOOLEAN]
Published == [revision : V!Revision, video : Videos \cup {None}]
Stages == {"asked", "decides", "engine", "publishes", "marks", "marks cached", "links", "links cached",
           "says ready", "prunes", "lists exports", "lists folders", "lists photos", "removes", "hashes", "records",
           "done", "failed"}
Targets == [kind : {"dir"}, of : V!Revision] \cup [kind : {"photo"}, of : V!Revision] \cup [kind : {"entry"}, of : V!Key]
Seens == [revision : 0 .. MaxRevision, manter : SUBSET V!Revision, pilha : SUBSET V!Revision,
          dirs : SUBSET V!Revision, delivered : SUBSET V!Revision]
Renders == [at : Stages, revision : 0 .. MaxRevision, key : V!Key \cup {None}, video : Videos \cup {None},
            seen : Seens, targets : SUBSET Targets]

ProjectType ==
  /\ project \in [revision : V!Revision, montage : Montage, preview : Published \cup {None}, steps : Seq(V!Revision)]
  /\ photo \in [V!Revision -> Montage \cup {None}]
  /\ exported \subseteq V!Revision
  /\ exporting \in V!Revision \cup {0}

VideoType ==
  /\ ProjectType
  /\ dir \in [V!Revision -> Folders]
  /\ cache \in [V!Key -> Entries]
  /\ turns \in Seq(Render)
  /\ render \in [Render -> Renders]
  /\ failures \in Nat

\* A render that has been asked for and is not over is of a revision there has been.
OfRevision ==
  /\ \A r \in Render : render[r].revision <= project.revision
  /\ \A r \in Render : render[r].at \notin {"asked", "failed", "done"} =>
       render[r].revision \in V!Revision /\ render[r].key \in V!Key

-----------------------------------------------------------------------------
(* The cache.                                                              *)

Fits(v, k) == v.montage = k.montage /\ v.profile = k.profile

\* Whoever publishes has its turn until it has linked what it published.
TurnsHold ==
  \A r \in Render : render[r].at \in {"marks", "links"} => V!Inside(r)
PublishesItsOwn ==
  /\ \A r \in Render : render[r].at \in {"publishes", "marks", "links"} =>
       render[r].video # None /\ Fits(render[r].video, render[r].key)
  /\ \A r \in Render : render[r].at \in {"marks", "links"} => dir[render[r].revision].video = render[r].video
CacheFits == \A k \in V!Key : cache[k].video # None => Fits(cache[k].video, k)

-----------------------------------------------------------------------------
(* What a pruning has read, and what it lists.                             *)

Reading == {"lists exports", "lists folders", "lists photos"}
\* While it reads: what the project refers to by now and referred to then is protected.
ReadsWell(seen, p) ==
  /\ seen.revision <= p.revision /\ seen.revision \in seen.manter
  /\ \A n \in seen.dirs : n <= p.revision
  /\ p.preview # None /\ p.preview.revision <= seen.revision => p.preview.revision \in seen.manter
  /\ \A i \in DOMAIN p.steps : p.steps[i] <= seen.revision => p.steps[i] \in seen.pilha \cup seen.manter
\* While it removes: what is listed is Kept revisions old, and came to be referred to later.
ListsOld(seen, t, p, f) ==
  /\ t.kind \in {"dir", "photo"} => t.of # seen.revision /\ t.of + Kept <= p.revision
  /\ t.kind = "dir" =>
       /\ p.preview # None /\ p.preview.revision = t.of => seen.revision < t.of
       /\ f = 0 => t.of \notin seen.delivered
  /\ t.kind = "photo" => \A i \in DOMAIN p.steps : p.steps[i] = t.of => seen.revision < t.of
SeenFits(x, p, e, f) ==
  /\ x.at \in Reading => ReadsWell(x.seen, p)
  /\ x.at = "lists exports" => x.seen.delivered \subseteq e
  /\ x.at \in Reading /\ x.at # "lists exports" /\ f = 0 => x.seen.delivered \subseteq x.seen.manter
  /\ x.at = "removes" => x.seen.revision <= p.revision /\ \A t \in x.targets : ListsOld(x.seen, t, p, f)
SeenIsOld == \A r \in Render : SeenFits(render[r], project, exported, failures)
\* There is nothing of a revision there has not been.
NothingAhead ==
  \A n \in V!Revision : dir[n].there \/ photo[n] # None => n <= project.revision

VideoInv == VideoType /\ OfRevision /\ TurnsHold /\ PublishesItsOwn /\ CacheFits /\ SeenIsOld /\ NothingAhead

LEMMA ProjectIs ==
  ASSUME VideoType
  PROVE  /\ project.revision \in V!Revision /\ project.montage \in Montage
         /\ project.preview \in Published \cup {None} /\ project.steps \in Seq(V!Revision)
         /\ project.preview # None => project.preview.revision \in V!Revision
  BY DEF VideoType, ProjectType, Published

LEMMA Counts == \A S : V!Cardinality(S) = Cardinality(S)
  BY Zenon DEF V!Cardinality, Cardinality

-----------------------------------------------------------------------------
(* What the steps of a render change, field by field.                      *)

Moves(r) == render' \in [Render -> Renders] /\ \A o \in Render : o # r => render'[o] = render[o]
LeavesAlone(r) == dir' \in [V!Revision -> Folders] /\ \A n \in V!Revision : n # render[r].revision => dir'[n] = dir[n]
KeepsTurns(r) == turns' \in Seq(Render) /\ \A o \in Render : o # r /\ V!Inside(o) => V!Inside(o)'
SameRevision(r) == render'[r].revision = render[r].revision
SameWork(r) == SameRevision(r) /\ render'[r].key = render[r].key /\ render'[r].video = render[r].video
FaultsGrow == failures' \in Nat /\ (failures' = 0 => failures = 0)

LEMMA RendersAre ==
  ASSUME VideoType, NEW r \in Render
  PROVE  /\ render[r] \in Renders /\ render[r].at \in Stages /\ render[r].revision \in 0 .. MaxRevision
         /\ render[r].key \in V!Key \cup {None} /\ render[r].video \in Videos \cup {None}
         /\ render[r].seen \in Seens /\ render[r].targets \subseteq Targets
<1>1. render[r] \in Renders BY DEF VideoType
<1> QED BY <1>1 DEF Renders

\* A render whose record is another.
LEMMA MovesTo ==
  ASSUME VideoType, NEW r \in Render, NEW x \in Renders, V!Is(r, x)
  PROVE  Moves(r) /\ render'[r] = x
  BY DEF VideoType, V!Is, Moves

LEMMA GoesTo ==
  ASSUME VideoType, NEW r \in Render, NEW stage \in Stages, V!Goes(r, stage)
  PROVE  /\ Moves(r) /\ SameWork(r)
         /\ render'[r].at = stage
<1> DEFINE x == [render[r] EXCEPT !.at = stage]
<1>1. /\ x \in Renders /\ x.at = stage /\ x.revision = render[r].revision /\ x.key = render[r].key
      /\ x.video = render[r].video
  BY RendersAre DEF Renders
<1>2. V!Is(r, x) BY DEF V!Goes
<1> HIDE DEF x
<1> QED BY <1>1, <1>2, MovesTo DEF SameRevision, SameWork

LEMMA FoldersAre ==
  ASSUME VideoType, NEW n \in V!Revision
  PROVE  /\ dir[n] \in Folders /\ dir[n].there \in BOOLEAN /\ dir[n].video \in Videos \cup {None}
         /\ dir[n].mark \in V!Key \cup {None} /\ dir[n].works \subseteq Render
<1>1. dir[n] \in Folders BY DEF VideoType
<1> QED BY <1>1 DEF Folders

\* The folder of a render's revision, when it is another.
LEMMA HasNow ==
  ASSUME VideoType, NEW r \in Render, render[r].revision \in V!Revision, NEW x \in Folders, V!Has(r, x)
  PROVE  LeavesAlone(r) /\ dir'[render[r].revision] = x
  BY DEF VideoType, V!Has, LeavesAlone

LEMMA TurnsStay ==
  ASSUME VideoType, NEW r \in Render, UNCHANGED turns
  PROVE  KeepsTurns(r) /\ (V!Inside(r) => V!Inside(r)')
  BY DEF KeepsTurns, V!Inside, VideoType

LEMMA TurnJoined ==
  ASSUME VideoType, NEW r \in Render, V!Joins(r)
  PROVE  KeepsTurns(r)
<1>1. turns' \in Seq(Render) /\ (turns # <<>> => turns' # <<>> /\ Head(turns') = Head(turns))
  BY DEF VideoType, V!Joins
<1> QED BY <1>1 DEF KeepsTurns, V!Inside

LEMMA TurnLeft ==
  ASSUME VideoType, NEW r \in Render, V!LeavesTurn(r)
  PROVE  KeepsTurns(r)
<1>1. CASE V!Inside(r)
  <2>1. turns' \in Seq(Render) BY <1>1 DEF VideoType, V!LeavesTurn, V!Inside
  <2> QED BY <1>1, <2>1 DEF KeepsTurns, V!Inside
<1>2. CASE ~V!Inside(r)
  BY <1>2 DEF KeepsTurns, V!LeavesTurn, V!Inside, VideoType
<1> QED BY <1>1, <1>2

-----------------------------------------------------------------------------
(* Steps of a render that change neither the project nor the cache.        *)

\* A video in a folder is replaced only in the turn of the render, and by a video.
Replaces(r) ==
  /\ dir' \in [V!Revision -> Folders]
  /\ \A n \in V!Revision : n # render[r].revision => dir'[n] = dir[n]
  /\ \A n \in V!Revision : n = render[r].revision =>
       dir'[n].video = dir[n].video \/ (dir'[n].video # None /\ V!Inside(r))

\* What such a step asks of the render that moves.
Behaves(r) ==
  /\ render'[r].revision <= project.revision
  /\ render'[r].at \notin {"asked", "failed", "done"} => render'[r].revision \in V!Revision /\ render'[r].key \in V!Key
  /\ render'[r].at \in {"marks", "links"} => V!Inside(r)' /\ dir'[render'[r].revision].video = render'[r].video
  /\ render'[r].at \in {"publishes", "marks", "links"} => render'[r].video # None /\ Fits(render'[r].video, render'[r].key)
  /\ SeenFits(render'[r], project, exported, failures')

LEMMA OneInside ==
  ASSUME NEW r, NEW o, V!Inside(r), V!Inside(o)
  PROVE  r = o
  BY DEF V!Inside

LEMMA SeenStays ==
  ASSUME NEW x, NEW p, NEW e, NEW f, NEW g, SeenFits(x, p, e, f), g = 0 => f = 0
  PROVE  SeenFits(x, p, e, g)
<1>1. \A t : ListsOld(x.seen, t, p, f) => ListsOld(x.seen, t, p, g)
  BY DEF ListsOld
<1> QED BY <1>1 DEF SeenFits
\* A render that prunes no more, or not yet.
LEMMA SeesNothing ==
  ASSUME NEW x, NEW p, NEW e, NEW f, x.at \notin Reading, x.at # "removes"
  PROVE  SeenFits(x, p, e, f)
  BY DEF SeenFits, Reading

LEMMA RenderWorks ==
  ASSUME VideoInv, NEW r \in Render, Moves(r), KeepsTurns(r), Replaces(r), Behaves(r),
         UNCHANGED <<project, photo, exported, exporting, cache>>, FaultsGrow
  PROVE  VideoInv'
<1> USE ServerPartsAssumption DEF V!PreviewsAssumption, VideoInv, Moves, KeepsTurns, Replaces, FaultsGrow
<1>1. VideoType' BY DEF VideoType, ProjectType
<1>2. OfRevision' BY DEF OfRevision, Behaves
<1>3. TurnsHold' BY DEF TurnsHold, Behaves
<1>4. PublishesItsOwn'
  <2>1. ASSUME NEW o \in Render, o # r, render[o].at \in {"marks", "links"}
        PROVE  dir'[render[o].revision].video = dir[render[o].revision].video
    <3>1. ~V!Inside(r) BY <2>1, OneInside DEF TurnsHold
    <3>2. render[o].revision \in V!Revision BY <2>1 DEF OfRevision
    <3> QED BY <3>1, <3>2
  <2> QED BY <2>1 DEF PublishesItsOwn, Behaves
<1>5. CacheFits' BY DEF CacheFits
<1>6. SeenIsOld'
  <2>1. ASSUME NEW o \in Render PROVE SeenFits(render'[o], project, exported, failures')
    BY SeenStays DEF SeenIsOld, Behaves
  <2> QED BY <2>1 DEF SeenIsOld
<1>7. NothingAhead' BY DEF NothingAhead, OfRevision
<1> QED BY <1>1, <1>2, <1>3, <1>4, <1>5, <1>6, <1>7

LEMMA FaultsStay ==
  ASSUME VideoInv, UNCHANGED failures \/ failures' = failures + 1
  PROVE  FaultsGrow
  BY DEF VideoInv, VideoType, FaultsGrow

LEMMA FolderStays ==
  ASSUME VideoType, NEW r \in Render, UNCHANGED dir
  PROVE  Replaces(r)
  BY DEF VideoType, Replaces

-----------------------------------------------------------------------------
(* One lemma for each of them.                                             *)

LEMMA AsksKeeps ==
  ASSUME VideoInv, NEW r \in Render, V!Asks(r)
  PROVE  VideoInv'
<1>1. PICK p \in V!Profile :
        V!Is(r, [render[r] EXCEPT !.at = "decides", !.revision = project.revision,
                                  !.key = [montage |-> project.montage, profile |-> p]])
  BY DEF V!Asks
<1> DEFINE k == [montage |-> project.montage, profile |-> p]
           x == [render[r] EXCEPT !.at = "decides", !.revision = project.revision, !.key = k]
<1>2. project.revision \in V!Revision /\ project.montage \in Montage
  BY DEF VideoInv, VideoType, ProjectType
<1>3. project.revision \in 0 .. MaxRevision /\ project.revision <= project.revision
  BY <1>2, ServerPartsAssumption DEF V!Revision, V!PreviewsAssumption
<1>4. k \in V!Key
  BY <1>2 DEF V!Key
<1>5. V!Is(r, x) BY <1>1
<1> HIDE DEF k
<1>6. x \in Renders /\ x.at = "decides" /\ x.revision = project.revision /\ x.key = k
  BY <1>3, <1>4, RendersAre DEF VideoInv, Renders, Stages
<1> HIDE DEF x
<1>7. Moves(r) /\ render'[r] = x
  BY <1>5, <1>6, MovesTo DEF VideoInv
<1>8. Behaves(r)
  BY <1>2, <1>3, <1>4, <1>6, <1>7, SeesNothing DEF Behaves, Reading
<1> QED BY <1>7, <1>8, RenderWorks, FolderStays, TurnsStay, FaultsStay DEF V!Asks, V!editing, VideoInv

LEMMA DecidesKeeps ==
  ASSUME VideoInv, NEW r \in Render, V!Decides(r)
  PROVE  VideoInv'
<1>0. render[r].at = "decides" /\ render[r].revision \in V!Revision /\ render[r].key \in V!Key
      /\ render[r].revision <= project.revision
  BY DEF V!Decides, VideoInv, OfRevision
<1>1. CASE V!Usable(render[r].key)
  <2>1. Moves(r) /\ SameWork(r) /\ render'[r].at = "marks cached" /\ KeepsTurns(r)
    BY <1>1, GoesTo, TurnJoined DEF V!Decides, VideoInv, Stages
  <2>2. Behaves(r)
    BY <1>0, <2>1, SeesNothing DEF Behaves, Reading, SameWork, SameRevision
  <2> QED BY <1>1, <2>1, <2>2, RenderWorks, FolderStays, FaultsStay DEF V!Decides, V!editing, VideoInv
<1>2. CASE ~V!Usable(render[r].key)
  <2> DEFINE x == [V!Folder(r) EXCEPT !.there = TRUE, !.works = @ \cup {r}]
  <2>1. Moves(r) /\ SameWork(r) /\ render'[r].at = "engine" /\ KeepsTurns(r)
    BY <1>2, GoesTo, TurnsStay DEF V!Decides, VideoInv, Stages
  <2>2. x \in Folders /\ x.video = dir[render[r].revision].video
    BY <1>0, FoldersAre DEF VideoInv, V!Folder, Folders
  <2>3. V!Has(r, x)
    BY <1>2 DEF V!Decides
  <2> HIDE DEF x
  <2>4. Replaces(r)
    BY <1>0, <2>2, <2>3, HasNow DEF Replaces, LeavesAlone, VideoInv
  <2>5. Behaves(r)
    BY <1>0, <2>1, SeesNothing DEF Behaves, Reading, SameWork, SameRevision
  <2> QED BY <1>2, <2>1, <2>4, <2>5, RenderWorks, FaultsStay DEF V!Decides, V!editing
<1> QED BY <1>1, <1>2

LEMMA EngineKeeps ==
  ASSUME VideoInv, NEW r \in Render, V!Engine(r)
  PROVE  VideoInv'
<1>0. render[r].at = "engine" /\ render[r].revision \in V!Revision /\ render[r].key \in V!Key
      /\ render[r].revision <= project.revision
  BY DEF V!Engine, VideoInv, OfRevision
<1>1. PICK p \in {render[r].key.profile, "software"} :
        V!Is(r, [render[r] EXCEPT !.at = "publishes", !.key = V!CacheKey(r, p),
                                  !.video = [montage |-> render[r].key.montage, profile |-> p, by |-> r]])
  BY DEF V!Engine
<1>2. p \in V!Profile /\ render[r].key.montage \in Montage
  BY <1>0, <1>1 DEF V!Key, V!Profile
<1> DEFINE v == [montage |-> render[r].key.montage, profile |-> p, by |-> r]
           k == V!CacheKey(r, p)
           x == [render[r] EXCEPT !.at = "publishes", !.key = k, !.video = v]
<1>3. k \in V!Key /\ k.montage = render[r].key.montage /\ k.profile = p
  BY <1>0, <1>2 DEF V!CacheKey, V!Key
<1>4. v \in Videos /\ v.montage = render[r].key.montage /\ v.profile = p /\ v # None
  BY <1>2, ServerPartsAssumption DEF Videos, V!PreviewsAssumption, V!Profile
<1>5. V!Is(r, x) BY <1>1
<1> HIDE DEF k, v
<1>6. x \in Renders /\ x.at = "publishes" /\ x.revision = render[r].revision /\ x.key = k /\ x.video = v
  BY <1>3, <1>4, RendersAre DEF VideoInv, Renders, Stages
<1> HIDE DEF x
<1>7. Moves(r) /\ render'[r] = x
  BY <1>5, <1>6, MovesTo DEF VideoInv
<1>8. Behaves(r)
  BY <1>0, <1>3, <1>4, <1>6, <1>7, SeesNothing DEF Behaves, Reading, Fits
<1> QED BY <1>7, <1>8, RenderWorks, FolderStays, TurnJoined, FaultsStay DEF V!Engine, V!editing, VideoInv

\* A render that fails, or waits for no more turns.
LEMMA EndsKeep ==
  ASSUME VideoInv, NEW r \in Render, NEW stage \in {"failed", "hashes"}, V!Goes(r, stage), V!LeavesTurn(r),
         stage = "hashes" => render[r].at \notin {"asked", "failed", "done"},
         Replaces(r), UNCHANGED <<project, photo, exported, exporting, cache>>, FaultsGrow
  PROVE  VideoInv'
<1>1. Moves(r) /\ SameWork(r) /\ render'[r].at = stage /\ KeepsTurns(r)
  BY GoesTo, TurnLeft DEF VideoInv, Stages
<1>2. Behaves(r)
  BY <1>1, SeesNothing DEF Behaves, Reading, SameWork, SameRevision, VideoInv, OfRevision
<1> QED BY <1>1, <1>2, RenderWorks

LEMMA HomelessKeeps ==
  ASSUME VideoInv, NEW r \in Render, V!Homeless(r)
  PROVE  VideoInv'
  BY EndsKeep, FolderStays, FaultsStay DEF V!Homeless, V!editing, VideoInv

LEMMA FailsKeeps ==
  ASSUME VideoInv, NEW r \in Render, V!Fails(r)
  PROVE  VideoInv'
<1> DEFINE x == [V!Folder(r) EXCEPT !.works = @ \ {r}]
<1>1. render[r].revision \in V!Revision
  BY DEF V!Fails, VideoInv, OfRevision
<1>2. x \in Folders /\ x.video = dir[render[r].revision].video
  BY <1>1, FoldersAre DEF VideoInv, V!Folder, Folders
<1>3. V!Has(r, x) BY DEF V!Fails
<1> HIDE DEF x
<1>4. Replaces(r)
  BY <1>1, <1>2, <1>3, HasNow DEF Replaces, LeavesAlone, VideoInv
<1> QED BY <1>4, EndsKeep, FaultsStay DEF V!Fails, V!editing

LEMMA PublishesKeeps ==
  ASSUME VideoInv, NEW r \in Render, V!Publishes(r)
  PROVE  VideoInv'
<1> DEFINE x == [V!Folder(r) EXCEPT !.video = render[r].video, !.works = @ \ {r}]
<1>1. /\ render[r].revision \in V!Revision /\ render[r].key \in V!Key /\ render[r].revision <= project.revision
      /\ render[r].video # None /\ Fits(render[r].video, render[r].key)
  BY DEF V!Publishes, VideoInv, OfRevision, PublishesItsOwn
<1>2. x \in Folders /\ x.video = render[r].video
  BY <1>1, FoldersAre, RendersAre DEF VideoInv, V!Folder, Folders
<1>3. V!Has(r, x) BY DEF V!Publishes
<1> HIDE DEF x
<1>4. Moves(r) /\ SameWork(r) /\ render'[r].at = "marks" /\ KeepsTurns(r) /\ V!Inside(r) /\ V!Inside(r)'
  BY GoesTo, TurnsStay DEF V!Publishes, VideoInv, Stages
<1>5. Replaces(r) /\ dir'[render[r].revision].video = render[r].video
  BY <1>1, <1>2, <1>3, <1>4, HasNow DEF Replaces, LeavesAlone, VideoInv
<1>6. Behaves(r)
  BY <1>1, <1>4, <1>5, SeesNothing DEF Behaves, Reading, SameWork, SameRevision
<1> QED BY <1>4, <1>5, <1>6, RenderWorks, FaultsStay DEF V!Publishes, V!editing

LEMMA MarksKeeps ==
  ASSUME VideoInv, NEW r \in Render, V!Marks(r)
  PROVE  VideoInv'
<1> DEFINE x == [V!Folder(r) EXCEPT !.there = TRUE, !.mark = render[r].key]
<1>1. /\ render[r].revision \in V!Revision /\ render[r].key \in V!Key /\ render[r].revision <= project.revision
      /\ render[r].at = "marks" =>
           /\ render[r].video # None /\ Fits(render[r].video, render[r].key)
           /\ dir[render[r].revision].video = render[r].video
  BY DEF V!Marks, VideoInv, OfRevision, PublishesItsOwn
<1>2. x \in Folders /\ x.video = dir[render[r].revision].video
  BY <1>1, FoldersAre DEF VideoInv, V!Folder, Folders
<1>3. V!Has(r, x) BY DEF V!Marks
<1> HIDE DEF x
<1>4. /\ Moves(r) /\ SameWork(r) /\ KeepsTurns(r) /\ V!Inside(r)'
      /\ render'[r].at = IF render[r].at = "marks" THEN "links" ELSE "links cached"
  BY GoesTo, TurnsStay DEF V!Marks, VideoInv, Stages
<1>5. Replaces(r) /\ dir'[render[r].revision].video = dir[render[r].revision].video
  BY <1>1, <1>2, <1>3, HasNow DEF Replaces, LeavesAlone, VideoInv
<1>6. Behaves(r)
  BY <1>1, <1>4, <1>5, SeesNothing DEF Behaves, Reading, SameWork, SameRevision
<1> QED BY <1>4, <1>5, <1>6, RenderWorks, FaultsStay DEF V!Marks, V!editing

LEMMA LinksCachedKeeps ==
  ASSUME VideoInv, NEW r \in Render, V!LinksCached(r)
  PROVE  VideoInv'
<1> DEFINE v == cache[render[r].key].video
           x == [V!Folder(r) EXCEPT !.video = v]
<1>1. render[r].revision \in V!Revision /\ render[r].key \in V!Key /\ V!Inside(r)
  BY DEF V!LinksCached, VideoInv, OfRevision
<1>a. CASE v = None
  <2>1. V!Goes(r, "failed") /\ UNCHANGED dir
    BY <1>a DEF V!LinksCached
  <2> QED BY <2>1, EndsKeep, FolderStays, FaultsStay DEF V!LinksCached, V!editing, VideoInv
<1>b. CASE v # None
  <2>1. V!Goes(r, "hashes") /\ V!Has(r, x)
    BY <1>b DEF V!LinksCached
  <2>2. v \in Videos \cup {None}
    BY <1>1 DEF VideoInv, VideoType, Entries
  <2> HIDE DEF v
  <2>3. x \in Folders /\ x.video = v
    BY <1>1, <2>2, FoldersAre DEF VideoInv, V!Folder, Folders
  <2> HIDE DEF x
  <2>4. Replaces(r)
    BY <1>b, <1>1, <2>1, <2>3, HasNow DEF Replaces, LeavesAlone, VideoInv
  <2> QED BY <2>1, <2>4, EndsKeep, FaultsStay DEF V!LinksCached, V!editing
<1> QED BY <1>a, <1>b

LEMMA HashesKeeps ==
  ASSUME VideoInv, NEW r \in Render, V!Hashes(r)
  PROVE  VideoInv'
<1> DEFINE v == V!Folder(r).video
           x == [render[r] EXCEPT !.video = v, !.at = IF v = None THEN "failed" ELSE "records"]
<1>1. render[r].revision \in V!Revision /\ render[r].key \in V!Key /\ render[r].revision <= project.revision
  BY DEF V!Hashes, VideoInv, OfRevision
<1>2. v \in Videos \cup {None} /\ v = dir[render[r].revision].video
  BY <1>1, FoldersAre DEF VideoInv, V!Folder
<1>3. V!Is(r, x) BY DEF V!Hashes
<1> HIDE DEF v
<1>4. /\ x \in Renders /\ x.revision = render[r].revision /\ x.key = render[r].key /\ x.video = v
      /\ x.at = IF v = None THEN "failed" ELSE "records"
  BY <1>2, RendersAre DEF VideoInv, Renders, Stages
<1> HIDE DEF x
<1>5. Moves(r) /\ render'[r] = x
  BY <1>3, <1>4, MovesTo DEF VideoInv
<1>6. UNCHANGED dir BY DEF V!Hashes
<1>7. Behaves(r)
  BY <1>1, <1>2, <1>4, <1>5, <1>6, SeesNothing DEF Behaves, Reading
<1> QED BY <1>5, <1>7, RenderWorks, FolderStays, TurnsStay, FaultsStay DEF V!Hashes, V!editing, VideoInv

-----------------------------------------------------------------------------
(* The steps of a pruning.                                                 *)

LEMMA NothingRead == V!Unread \in Seens
  BY ServerPartsAssumption DEF V!Unread, Seens, V!PreviewsAssumption

\* A render that has read more.
LEMMA ReadsMore ==
  ASSUME VideoType, NEW r \in Render, NEW stage \in Stages, NEW seen \in Seens, V!Reads(r, stage, seen)
  PROVE  Moves(r) /\ SameWork(r) /\ render'[r].at = stage /\ render'[r].seen = seen
<1> DEFINE x == [render[r] EXCEPT !.at = stage, !.seen = seen]
<1>1. /\ x \in Renders /\ x.at = stage /\ x.revision = render[r].revision /\ x.key = render[r].key
      /\ x.video = render[r].video /\ x.seen = seen
  BY RendersAre DEF Renders
<1>2. V!Is(r, x) BY DEF V!Reads
<1> HIDE DEF x
<1> QED BY <1>1, <1>2, MovesTo DEF SameRevision, SameWork

LEMMA ReadingKeeps ==
  ASSUME VideoInv, NEW r \in Render, NEW stage \in Reading, NEW seen \in Seens, V!Reads(r, stage, seen),
         render[r].at \notin {"asked", "failed", "done"}, ReadsWell(seen, project),
         IF stage = "lists exports" THEN seen.delivered \subseteq exported
                                    ELSE failures' = 0 => seen.delivered \subseteq seen.manter,
         UNCHANGED <<project, photo, exported, exporting, dir, cache, turns>>, FaultsGrow
  PROVE  VideoInv'
<1>1. Moves(r) /\ SameWork(r) /\ render'[r].at = stage /\ render'[r].seen = seen
  BY ReadsMore DEF VideoInv, Reading, Stages
<1>2. SeenFits(render'[r], project, exported, failures')
  BY <1>1 DEF SeenFits, Reading
<1>3. Behaves(r)
  BY <1>1, <1>2 DEF Behaves, SameWork, SameRevision, VideoInv, OfRevision, Reading
<1> QED BY <1>1, <1>3, RenderWorks, FolderStays, TurnsStay DEF VideoInv

LEMMA ReadsProjectKeeps ==
  ASSUME VideoInv, NEW r \in Render, V!ReadsProject(r)
  PROVE  VideoInv'
<1> DEFINE seen == [V!Unread EXCEPT !.revision = project.revision, !.manter = V!Protected(project),
                                   !.pilha = V!StepsOf(project), !.delivered = exported]
<1>1. /\ project.revision \in V!Revision /\ project.revision \in 0 .. MaxRevision
      /\ project.revision <= project.revision
  BY ProjectIs, ServerPartsAssumption DEF VideoInv, V!Revision, V!PreviewsAssumption
<1>2. /\ V!Protected(project) \subseteq V!Revision /\ project.revision \in V!Protected(project)
      /\ project.preview # None => project.preview.revision \in V!Protected(project)
  BY <1>1, ProjectIs DEF VideoInv, V!Protected
<1>3. V!StepsOf(project) \subseteq V!Revision
  BY ProjectIs DEF VideoInv, V!StepsOf
<1>4. exported \subseteq V!Revision
  BY DEF VideoInv, VideoType, ProjectType
<1>5. /\ seen \in Seens /\ seen.revision = project.revision /\ seen.manter = V!Protected(project)
      /\ seen.pilha = V!StepsOf(project) /\ seen.dirs = {} /\ seen.delivered = exported
  BY <1>1, <1>2, <1>3, <1>4, NothingRead DEF Seens, V!Unread
<1>6. V!Reads(r, "lists exports", seen)
  BY DEF V!ReadsProject
<1> HIDE DEF seen
<1>7. ReadsWell(seen, project)
  BY <1>1, <1>2, <1>5 DEF ReadsWell, V!StepsOf
<1> QED BY <1>5, <1>6, <1>7, ReadingKeeps, FaultsStay DEF V!ReadsProject, V!editing, Reading

LEMMA ListsExportsKeeps ==
  ASSUME VideoInv, NEW r \in Render, V!ListsExports(r)
  PROVE  VideoInv'
<1>1. /\ render[r].seen \in Seens /\ render[r].at = "lists exports" /\ ReadsWell(render[r].seen, project)
      /\ render[r].seen.delivered \subseteq exported
  BY RendersAre DEF V!ListsExports, VideoInv, SeenIsOld, SeenFits, Reading
<1>2. UNCHANGED <<project, photo, exported, exporting, dir, cache, turns>> /\ FaultsGrow
  BY FaultsStay DEF V!ListsExports, V!editing
<1>3. exported \subseteq V!Revision
  BY DEF VideoInv, VideoType, ProjectType
<1>a. CASE V!Reads(r, "lists folders", [render[r].seen EXCEPT !.manter = @ \cup exported])
  <2> DEFINE seen == [render[r].seen EXCEPT !.manter = @ \cup exported]
  <2>1. /\ seen \in Seens /\ seen.manter = render[r].seen.manter \cup exported /\ seen.revision = render[r].seen.revision
        /\ seen.pilha = render[r].seen.pilha /\ seen.dirs = render[r].seen.dirs
        /\ seen.delivered = render[r].seen.delivered
    BY <1>1, <1>3 DEF Seens
  <2> HIDE DEF seen
  <2>2. ReadsWell(seen, project)
    BY <1>1, <2>1 DEF ReadsWell
  <2>3. V!Reads(r, "lists folders", seen) BY <1>a DEF seen
  <2>4. seen.delivered \subseteq seen.manter BY <1>1, <2>1
  <2> QED BY <1>1, <1>2, <2>1, <2>2, <2>3, <2>4, ReadingKeeps DEF Reading
<1>b. CASE V!Reads(r, "lists folders", render[r].seen) /\ failures' = failures + 1
  <2>0. failures \in Nat /\ failures' = failures + 1 BY <1>b DEF VideoInv, VideoType
  <2>1. failures' # 0 BY <2>0
  <2> QED BY <1>1, <1>2, <1>b, <2>1, ReadingKeeps DEF Reading
<1> QED BY <1>a, <1>b DEF V!ListsExports

LEMMA ListsFoldersKeeps ==
  ASSUME VideoInv, NEW r \in Render, V!ListsFolders(r)
  PROVE  VideoInv'
<1> DEFINE seen == [render[r].seen EXCEPT !.dirs = {n \in V!Revision : dir[n].there}]
<1>1. /\ render[r].seen \in Seens /\ render[r].at = "lists folders" /\ ReadsWell(render[r].seen, project)
      /\ failures = 0 => render[r].seen.delivered \subseteq render[r].seen.manter
  BY RendersAre DEF V!ListsFolders, VideoInv, SeenIsOld, SeenFits, Reading
<1>2. /\ seen \in Seens /\ seen.manter = render[r].seen.manter /\ seen.revision = render[r].seen.revision
      /\ seen.pilha = render[r].seen.pilha /\ seen.delivered = render[r].seen.delivered
      /\ seen.dirs = {n \in V!Revision : dir[n].there}
  BY <1>1 DEF Seens
<1>3. V!Reads(r, "lists photos", seen)
  BY DEF V!ListsFolders
<1> HIDE DEF seen
<1>4. ReadsWell(seen, project)
  BY <1>1, <1>2 DEF ReadsWell, VideoInv, NothingAhead
<1> QED BY <1>1, <1>2, <1>3, <1>4, ReadingKeeps, FaultsStay DEF V!ListsFolders, V!editing, Reading

\* Of what is known, a revision that is not recent has Kept newer ones.
LEMMA NotRecent ==
  ASSUME NEW known \in SUBSET V!Revision, NEW n \in known, n \notin V!Recent(known),
         NEW last \in Nat, \A m \in known : m <= last
  PROVE  n + Kept <= last
<1> DEFINE newer == {m \in known : m > n}
<1>1. n \in Nat /\ n <= last /\ Kept \in Nat
  BY ServerPartsAssumption DEF V!Revision, V!PreviewsAssumption
<1>2. newer \subseteq (n + 1) .. last
  BY <1>1, ServerPartsAssumption DEF V!Revision, V!PreviewsAssumption
<1>3. ~ (Cardinality(newer) < Kept)
  BY Counts DEF V!Recent
<1> HIDE DEF newer
<1>4. IsFiniteSet((n + 1) .. last) /\ Cardinality((n + 1) .. last) = last - n
  <2>1. n + 1 \in Int /\ last \in Int BY <1>1
  <2>2. /\ IsFiniteSet((n + 1) .. last)
        /\ Cardinality((n + 1) .. last) = IF n + 1 > last THEN 0 ELSE last - (n + 1) + 1
    BY <2>1, FS_Interval
  <2> QED BY <1>1, <2>2
<1>5. Cardinality(newer) <= last - n /\ Cardinality(newer) \in Nat
  BY <1>2, <1>4, FS_Subset, FS_CardinalityType
<1> QED BY <1>1, <1>3, <1>5

LEMMA ListsPhotosKeeps ==
  ASSUME VideoInv, NEW r \in Render, V!ListsPhotos(r)
  PROVE  VideoInv'
<1> DEFINE seen == render[r].seen
           known == seen.dirs \cup V!Photos
           manter == seen.manter \cup V!Recent(known)
           t1s == [kind : {"dir"}, of : seen.dirs \ manter]
           t2s == [kind : {"photo"}, of : V!Photos \ (manter \cup seen.pilha)]
           t3s == [kind : {"entry"}, of : {k \in V!Key \ V!KeptKeys(seen.dirs \cap manter) : cache[k] # V!NoEntry}]
           ts == t1s \cup t2s \cup t3s
           last == [V!Unread EXCEPT !.revision = seen.revision, !.delivered = seen.delivered]
           x == [render[r] EXCEPT !.at = "removes", !.seen = last, !.targets = ts]
<1>1. /\ seen \in Seens /\ render[r].at = "lists photos" /\ ReadsWell(seen, project)
      /\ failures = 0 => seen.delivered \subseteq seen.manter
      /\ render[r].revision \in V!Revision /\ render[r].key \in V!Key /\ render[r].revision <= project.revision
  BY RendersAre DEF V!ListsPhotos, VideoInv, OfRevision, SeenIsOld, SeenFits, Reading
<1>2. /\ seen.revision \in 0 .. MaxRevision /\ seen.dirs \subseteq V!Revision /\ seen.delivered \subseteq V!Revision
      /\ V!Photos \subseteq V!Revision
  BY <1>1 DEF Seens, V!Photos
<1>3. ts \subseteq Targets
  BY <1>2 DEF Targets
<1>4. last \in Seens /\ last.revision = seen.revision /\ last.delivered = seen.delivered
  BY <1>2, NothingRead DEF Seens, V!Unread
<1>5. V!Is(r, x) BY DEF V!ListsPhotos
<1>6. \A n \in known : n <= project.revision
  BY <1>1 DEF ReadsWell, VideoInv, NothingAhead, V!Photos
<1>7. ASSUME NEW n \in known, n \notin manter
      PROVE  /\ n # seen.revision /\ n + Kept <= project.revision
             /\ project.preview # None /\ project.preview.revision = n => seen.revision < n
             /\ failures = 0 => n \notin seen.delivered
  <2>1. n \notin V!Recent(known) /\ n \notin seen.manter /\ n \in V!Revision /\ known \subseteq V!Revision
    BY <1>2, <1>7
  <2>2. project.revision \in Nat /\ n \in Nat /\ seen.revision \in Nat
    BY <1>2, <2>1, ProjectIs, ServerPartsAssumption DEF VideoInv, V!Revision, V!PreviewsAssumption
  <2> HIDE DEF known, seen
  <2>3. n + Kept <= project.revision
    BY <1>6, <1>7, <2>1, <2>2, NotRecent
  <2>4. /\ seen.revision \in seen.manter
        /\ project.preview # None /\ project.preview.revision <= seen.revision => project.preview.revision \in seen.manter
    BY <1>1 DEF ReadsWell
  <2>5. project.preview # None /\ project.preview.revision = n => ~ (n <= seen.revision)
    BY <2>1, <2>4
  <2>6. project.preview # None /\ project.preview.revision = n => seen.revision < n
    BY <2>2, <2>5
  <2> QED BY <1>1, <2>1, <2>3, <2>4, <2>6
<1>8. ASSUME NEW n \in V!Photos, n \notin manter, n \notin seen.pilha, NEW i \in DOMAIN project.steps, project.steps[i] = n
      PROVE  seen.revision < n
  <2>1. n \in Nat /\ seen.revision \in Nat /\ n \notin seen.manter
    BY <1>2, <1>8, ServerPartsAssumption DEF V!Revision, V!PreviewsAssumption
  <2>2. project.steps[i] <= seen.revision => project.steps[i] \in seen.pilha \cup seen.manter
    BY <1>1 DEF ReadsWell
  <2> HIDE DEF seen, manter
  <2>3. ~ (n <= seen.revision)
    BY <1>8, <2>1, <2>2
  <2> QED BY <2>1, <2>3
<1>9. \A t \in ts : ListsOld(last, t, project, failures)
  <2>1. ASSUME NEW t \in t1s PROVE t.kind = "dir" /\ t.of \in known /\ t.of \notin manter
    BY <2>1
  <2>2. ASSUME NEW t \in t2s PROVE t.kind = "photo" /\ t.of \in V!Photos /\ t.of \in known /\ t.of \notin manter /\ t.of \notin seen.pilha
    BY <2>2
  <2>3. \A t \in t3s : t.kind = "entry" OBVIOUS
  <2> HIDE DEF known, manter, t1s, t2s, t3s, last, seen
  <2>4. \A t \in t1s : ListsOld(last, t, project, failures)
    BY <1>4, <1>7, <2>1 DEF ListsOld
  <2>5. \A t \in t2s : ListsOld(last, t, project, failures)
    BY <1>4, <1>7, <1>8, <2>2 DEF ListsOld
  <2>6. \A t \in t3s : ListsOld(last, t, project, failures)
    BY <2>3 DEF ListsOld
  <2> QED BY <2>4, <2>5, <2>6
<1>10. last.revision <= project.revision
  BY <1>1, <1>4 DEF ReadsWell
<1>11. V!Inside(r) /\ UNCHANGED <<project, photo, exported, exporting, dir, cache, turns>> /\ FaultsGrow
  BY FaultsStay DEF V!ListsPhotos, V!editing
<1> HIDE DEF ts, last
<1>12. /\ x \in Renders /\ x.at = "removes" /\ x.revision = render[r].revision /\ x.key = render[r].key
       /\ x.targets = ts /\ x.seen = last
  BY <1>3, <1>4, RendersAre DEF VideoInv, Renders, Stages
<1> HIDE DEF x
<1>13. Moves(r) /\ render'[r] = x
  BY <1>5, <1>12, MovesTo DEF VideoInv
<1>14. SeenFits(x, project, exported, failures)
  BY <1>9, <1>10, <1>12 DEF SeenFits, Reading
<1>15. Behaves(r)
  BY <1>1, <1>11, <1>12, <1>13, <1>14, SeenStays DEF Behaves, FaultsGrow
<1> QED BY <1>11, <1>13, <1>15, RenderWorks, FolderStays, TurnsStay DEF VideoInv

LEMMA PrunedKeeps ==
  ASSUME VideoInv, NEW r \in Render, V!Pruned(r)
  PROVE  VideoInv'
<1> DEFINE x == [render[r] EXCEPT !.at = "hashes", !.seen = V!Unread]
<1>1. /\ x \in Renders /\ x.at = "hashes" /\ x.revision = render[r].revision /\ x.key = render[r].key
  BY RendersAre, NothingRead DEF VideoInv, Renders, Stages
<1>2. V!Is(r, x) /\ V!LeavesTurn(r) /\ UNCHANGED <<project, photo, exported, exporting, dir, cache>> /\ FaultsGrow
  BY FaultsStay DEF V!Pruned, V!editing
<1> HIDE DEF x
<1>3. Moves(r) /\ render'[r] = x /\ KeepsTurns(r)
  BY <1>1, <1>2, MovesTo, TurnLeft DEF VideoInv
<1>4. Behaves(r)
  BY <1>1, <1>3, SeesNothing DEF Behaves, Reading, V!Pruned, VideoInv, OfRevision
<1> QED BY <1>2, <1>3, <1>4, RenderWorks, FolderStays DEF VideoInv

\* A render whose list is a target shorter.
LEMMA ShorterList ==
  ASSUME VideoType, NEW r \in Render, NEW t, V!Is(r, [render[r] EXCEPT !.targets = @ \ {t}])
  PROVE  /\ Moves(r) /\ SameWork(r) /\ render'[r].at = render[r].at /\ render'[r].seen = render[r].seen
         /\ render'[r].targets = render[r].targets \ {t}
<1> DEFINE x == [render[r] EXCEPT !.targets = @ \ {t}]
<1>1. /\ x \in Renders /\ x.at = render[r].at /\ x.revision = render[r].revision /\ x.key = render[r].key
      /\ x.video = render[r].video /\ x.seen = render[r].seen /\ x.targets = render[r].targets \ {t}
  BY RendersAre DEF Renders
<1> HIDE DEF x
<1> QED BY <1>1, MovesTo DEF x, SameWork, SameRevision

LEMMA ShorterFits ==
  ASSUME NEW x, NEW y, NEW p, NEW e, NEW f, SeenFits(x, p, e, f), x.at = "removes", y.at = "removes",
         y.seen = x.seen, y.targets \subseteq x.targets
  PROVE  SeenFits(y, p, e, f)
  BY DEF SeenFits, Reading

LEMMA SparesKeeps ==
  ASSUME VideoInv, NEW r \in Render, V!Spares(r)
  PROVE  VideoInv'
<1>1. PICK t \in render[r].targets : V!Is(r, [render[r] EXCEPT !.targets = @ \ {t}])
  BY DEF V!Spares
<1>2. /\ Moves(r) /\ SameWork(r) /\ render'[r].at = "removes" /\ render'[r].seen = render[r].seen
      /\ render'[r].targets = render[r].targets \ {t}
  BY <1>1, ShorterList DEF V!Spares, VideoInv
<1>3. SeenFits(render'[r], project, exported, failures)
  BY <1>1, <1>2, ShorterFits DEF V!Spares, VideoInv, SeenIsOld
<1>4. FaultsGrow
  BY FaultsStay DEF V!Spares
<1>5. SeenFits(render'[r], project, exported, failures')
  BY <1>3, <1>4, SeenStays DEF FaultsGrow
<1>6. Behaves(r)
  BY <1>2, <1>5 DEF V!Spares, Behaves, SameWork, SameRevision, VideoInv, OfRevision
<1> QED BY <1>2, <1>4, <1>6, RenderWorks, FolderStays, TurnsStay DEF V!Spares, V!editing, VideoInv

-----------------------------------------------------------------------------
(* Steps that write in the cache, remove, or change the project.           *)

LEMMA LinksKeeps ==
  ASSUME VideoInv, NEW r \in Render, V!Links(r)
  PROVE  VideoInv'
<1> DEFINE v == V!Folder(r).video
           entry == [cache[render[r].key] EXCEPT !.video = v]
<1>1. /\ render[r].at = "links" /\ render[r].revision \in V!Revision /\ render[r].key \in V!Key
      /\ render[r].revision <= project.revision
  BY DEF V!Links, VideoInv, OfRevision
<1>2. v \in Videos /\ Fits(v, render[r].key)
  BY <1>1, RendersAre DEF VideoInv, PublishesItsOwn, V!Folder
<1> HIDE DEF v
<1>3. entry \in Entries /\ entry.video = v
  BY <1>1, <1>2 DEF VideoInv, VideoType, Entries
<1>4. cache' = [cache EXCEPT ![render[r].key] = entry]
  BY DEF V!Links, v
<1> HIDE DEF entry
<1>5. Moves(r) /\ SameWork(r) /\ render'[r].at = "says ready" /\ KeepsTurns(r)
  BY GoesTo, TurnsStay DEF V!Links, VideoInv, Stages
<1>6. UNCHANGED <<project, photo, exported, exporting, dir, failures>>
  BY DEF V!Links, V!editing
<1> USE DEF VideoInv, Moves, KeepsTurns, SameWork, SameRevision
<1>7. VideoType' BY <1>3, <1>4, <1>5, <1>6 DEF VideoType, ProjectType
<1>8. CacheFits' BY <1>1, <1>2, <1>3, <1>4 DEF CacheFits, VideoType
<1>9. OfRevision' BY <1>1, <1>5, <1>6 DEF OfRevision
<1>10. TurnsHold' BY <1>1, <1>5, <1>6 DEF TurnsHold
<1>11. PublishesItsOwn' BY <1>1, <1>5, <1>6 DEF PublishesItsOwn
<1>12. SeenIsOld' BY <1>5, <1>6, SeesNothing DEF SeenIsOld, Reading
<1>13. NothingAhead' BY <1>6 DEF NothingAhead
<1> QED BY <1>7, <1>8, <1>9, <1>10, <1>11, <1>12, <1>13

LEMMA SaysReadyKeeps ==
  ASSUME VideoInv, NEW r \in Render, V!SaysReady(r)
  PROVE  VideoInv'
<1> DEFINE entry == [cache[render[r].key] EXCEPT !.ready = TRUE]
<1>1. /\ render[r].at = "says ready" /\ render[r].revision \in V!Revision /\ render[r].key \in V!Key
      /\ render[r].revision <= project.revision /\ V!Inside(r)
  BY DEF V!SaysReady, VideoInv, OfRevision
<1>3. entry \in Entries /\ entry.video = cache[render[r].key].video
  BY <1>1 DEF VideoInv, VideoType, Entries
<1>4. cache' = [cache EXCEPT ![render[r].key] = entry]
  BY DEF V!SaysReady
<1> HIDE DEF entry
<1>5. Moves(r) /\ SameWork(r) /\ render'[r].at = "prunes"
  BY GoesTo DEF V!SaysReady, VideoInv, Stages
<1>a. KeepsTurns(r)
  <2>1. turns \in Seq(Render) /\ turns # <<>> /\ turns' = Append(Tail(turns), r)
    BY <1>1 DEF V!SaysReady, VideoInv, VideoType, V!Inside
  <2>2. Tail(turns) \in Seq(Render) BY <2>1
  <2>3. turns' \in Seq(Render) BY <2>1, <2>2
  <2> QED BY <1>1, <2>3, OneInside DEF KeepsTurns
<1>6. UNCHANGED <<project, photo, exported, exporting, dir, failures>>
  BY DEF V!SaysReady, V!editing
<1> USE DEF VideoInv, Moves, KeepsTurns, SameWork, SameRevision
<1>7. VideoType' BY <1>3, <1>4, <1>5, <1>6, <1>a DEF VideoType, ProjectType
<1>8. CacheFits' BY <1>1, <1>3, <1>4 DEF CacheFits, VideoType
<1>9. OfRevision' BY <1>1, <1>5, <1>6 DEF OfRevision
<1>10. TurnsHold' BY <1>1, <1>5, <1>a DEF TurnsHold
<1>11. PublishesItsOwn' BY <1>1, <1>5, <1>6 DEF PublishesItsOwn
<1>12. SeenIsOld' BY <1>5, <1>6, SeesNothing DEF SeenIsOld, Reading
<1>13. NothingAhead' BY <1>6 DEF NothingAhead
<1> QED BY <1>7, <1>8, <1>9, <1>10, <1>11, <1>12, <1>13

\* What is removed, of whichever kind, is on a list.
LEMMA RemovesKeeps ==
  ASSUME VideoInv, NEW r \in Render, V!Removes(r)
  PROVE  VideoInv'
<1>1. PICK t \in render[r].targets :
        /\ dir' = IF t.kind = "dir" THEN [dir EXCEPT ![t.of] = V!NoDir] ELSE dir
        /\ photo' = IF t.kind = "photo" THEN [photo EXCEPT ![t.of] = None] ELSE photo
        /\ cache' = IF t.kind = "entry" THEN [cache EXCEPT ![t.of] = V!NoEntry] ELSE cache
        /\ V!Is(r, [render[r] EXCEPT !.targets = @ \ {t}])
  BY DEF V!Removes
<1>2. /\ render[r].at = "removes" /\ V!Inside(r) /\ UNCHANGED <<project, exported, exporting, turns, failures>>
      /\ render[r].revision \in V!Revision /\ render[r].key \in V!Key
  BY DEF V!Removes, VideoInv, OfRevision
<1>3. /\ Moves(r) /\ SameWork(r) /\ render'[r].at = "removes" /\ render'[r].seen = render[r].seen
      /\ render'[r].targets = render[r].targets \ {t}
  BY <1>1, <1>2, ShorterList DEF VideoInv
<1>4. t \in Targets
  BY <1>1, RendersAre DEF VideoInv
<1>5. /\ t.kind \in {"dir", "photo"} => t.of \in V!Revision
      /\ t.kind = "entry" => t.of \in V!Key
  BY <1>4 DEF Targets
<1>6. V!NoDir \in Folders /\ V!NoDir.there = FALSE /\ V!NoEntry \in Entries /\ V!NoEntry.video = None
  BY DEF V!NoDir, V!NoEntry, Folders, Entries
<1>7. /\ dir' \in [V!Revision -> Folders]
      /\ \A n \in V!Revision : dir'[n] = dir[n] \/ (t.kind = "dir" /\ n = t.of /\ dir'[n].there = FALSE)
  BY <1>1, <1>5, <1>6 DEF VideoInv, VideoType
<1>8. /\ photo' \in [V!Revision -> Montage \cup {None}]
      /\ \A n \in V!Revision : photo'[n] = photo[n] \/ (t.kind = "photo" /\ n = t.of /\ photo'[n] = None)
  BY <1>1, <1>5 DEF VideoInv, VideoType, ProjectType
<1>9. cache' \in [V!Key -> Entries] /\ \A k \in V!Key : cache'[k] = cache[k] \/ cache'[k].video = None
  BY <1>1, <1>5, <1>6 DEF VideoInv, VideoType
<1>10. \A o \in Render : V!Inside(o) => o = r
  BY <1>2, OneInside
<1> USE DEF VideoInv, Moves, SameWork, SameRevision
<1>11. VideoType' BY <1>2, <1>3, <1>7, <1>8, <1>9 DEF VideoType, ProjectType
<1>12. CacheFits' BY <1>9 DEF CacheFits
<1>13. OfRevision' BY <1>2, <1>3 DEF OfRevision
<1>14. TurnsHold' BY <1>2, <1>3 DEF TurnsHold, V!Inside
<1>15. PublishesItsOwn' BY <1>2, <1>3, <1>10 DEF PublishesItsOwn, TurnsHold
<1>16. SeenIsOld'
  <2>1. SeenFits(render'[r], project, exported, failures)
    BY <1>2, <1>3, ShorterFits DEF SeenIsOld
  <2> QED BY <1>2, <1>3, <2>1 DEF SeenIsOld
<1>17. NothingAhead' BY <1>2, <1>7, <1>8 DEF NothingAhead
<1> QED BY <1>11, <1>12, <1>13, <1>14, <1>15, <1>16, <1>17

\* The project goes on: by a preview of its revision, by a revision, or back a step.
GoesOn(p, q) ==
  /\ p.revision <= q.revision
  /\ q.preview # None => q.preview.revision = p.revision \/ q.preview = p.preview
  /\ \A i \in DOMAIN q.steps : q.steps[i] = p.revision \/ \E j \in DOMAIN p.steps : q.steps[i] = p.steps[j]

LEMMA SeenStillFits ==
  ASSUME NEW x \in Renders, NEW p, NEW q, NEW e, NEW f, SeenFits(x, p, e, f), GoesOn(p, q),
         p.revision \in Nat, q.revision \in Nat
  PROVE  SeenFits(x, q, e, f)
<1>1. /\ x.seen.revision \in Nat /\ x.seen.dirs \subseteq Nat /\ Kept \in Nat
  BY ServerPartsAssumption DEF Renders, Seens, V!Revision, V!PreviewsAssumption
<1>2. ASSUME x.at \in Reading PROVE ReadsWell(x.seen, q)
  <2>1. ReadsWell(x.seen, p) BY <1>2 DEF SeenFits
  <2>2. x.seen.revision <= q.revision /\ \A n \in x.seen.dirs : n <= q.revision
    BY <1>1, <2>1 DEF ReadsWell, GoesOn
  <2>3. p.revision <= x.seen.revision => p.revision \in x.seen.manter
    <3>1. p.revision <= x.seen.revision => p.revision = x.seen.revision
      BY <1>1, <2>1 DEF ReadsWell
    <3> QED BY <2>1, <3>1 DEF ReadsWell
  <2> QED BY <2>1, <2>2, <2>3 DEF ReadsWell, GoesOn
<1>3. ASSUME x.at = "removes", NEW t \in x.targets PROVE ListsOld(x.seen, t, q, f)
  <2>1. ListsOld(x.seen, t, p, f) /\ x.seen.revision <= p.revision BY <1>3 DEF SeenFits
  <2>2. x.targets \subseteq Targets BY DEF Renders
  <2>3. t.kind \in {"dir", "photo"} => t.of \in Nat
    BY <2>2, ServerPartsAssumption DEF Targets, V!Revision, V!PreviewsAssumption
  <2>4. t.kind \in {"dir", "photo"} => t.of + Kept <= q.revision
    BY <1>1, <2>1, <2>3 DEF ListsOld, GoesOn
  <2>5. t.kind \in {"dir", "photo"} /\ t.of = p.revision => x.seen.revision < t.of
    BY <1>1, <2>1, <2>3 DEF ListsOld
  <2> QED BY <2>1, <2>4, <2>5 DEF ListsOld, GoesOn
<1>4. x.at = "removes" => x.seen.revision <= q.revision
  BY <1>1 DEF SeenFits, GoesOn
<1> QED BY <1>2, <1>3, <1>4 DEF SeenFits

LEMMA SeenAllFit ==
  ASSUME VideoInv, GoesOn(project, project'), project'.revision \in V!Revision, UNCHANGED <<exported, failures>>,
         \A r \in Render : render'[r] = render[r] \/ (render'[r].at \notin Reading /\ render'[r].at # "removes")
  PROVE  SeenIsOld'
<1>1. project.revision \in Nat /\ project'.revision \in Nat
  BY ProjectIs, ServerPartsAssumption DEF VideoInv, V!Revision, V!PreviewsAssumption
<1>2. ASSUME NEW r \in Render PROVE SeenFits(render'[r], project', exported', failures')
  <2>1. CASE render'[r] = render[r]
    <3>1. render[r] \in Renders /\ SeenFits(render[r], project, exported, failures)
      BY RendersAre DEF VideoInv, SeenIsOld
    <3>2. SeenFits(render[r], project', exported, failures)
      BY <1>1, <3>1, SeenStillFits
    <3> QED BY <2>1, <3>2
  <2>2. CASE render'[r].at \notin Reading /\ render'[r].at # "removes"
    BY <2>2, SeesNothing
  <2> QED BY <2>1, <2>2
<1> QED BY <1>2 DEF SeenIsOld

LEMMA RecordsKeeps ==
  ASSUME VideoInv, NEW r \in Render, V!Records(r)
  PROVE  VideoInv'
<1>1. /\ render[r].at = "records" /\ render[r].revision \in V!Revision /\ render[r].key \in V!Key
      /\ render[r].revision <= project.revision /\ render[r].video \in Videos \cup {None}
  BY RendersAre DEF V!Records, VideoInv, OfRevision
<1>2. Moves(r) /\ SameWork(r) /\ render'[r].at = "done"
  BY GoesTo DEF V!Records, VideoInv, Stages
<1>3. UNCHANGED <<photo, exported, exporting, dir, cache, turns, failures>>
  BY DEF V!Records
<1> DEFINE preview == [revision |-> render[r].revision, video |-> render[r].video]
           p == [project EXCEPT !.preview = preview]
<1>a. CASE project' = project
  <2>1. Behaves(r)
    BY <1>1, <1>2, <1>3, <1>a, SeesNothing DEF Behaves, SameWork, SameRevision, Reading
  <2> QED BY <1>2, <1>3, <1>a, <2>1, RenderWorks, FolderStays, TurnsStay, FaultsStay DEF VideoInv
<1>b. CASE project.revision = render[r].revision /\ project' = p
  <2>1. preview \in Published /\ preview.revision = project.revision
    BY <1>1, <1>b DEF Published
  <2> HIDE DEF preview
  <2>2. /\ p.revision = project.revision /\ p.montage = project.montage /\ p.steps = project.steps /\ p.preview = preview
        /\ p \in [revision : V!Revision, montage : Montage, preview : Published \cup {None}, steps : Seq(V!Revision)]
    BY <2>1 DEF VideoInv, VideoType, ProjectType
  <2> HIDE DEF p
  <2> USE DEF VideoInv, Moves, SameWork, SameRevision
  <2>3. VideoType' BY <1>2, <1>3, <1>b, <2>2 DEF VideoType, ProjectType
  <2>4. CacheFits' BY <1>3 DEF CacheFits
  <2>5. OfRevision' BY <1>2, <1>b, <2>2 DEF OfRevision
  <2>6. TurnsHold' BY <1>2, <1>3 DEF TurnsHold, V!Inside
  <2>7. PublishesItsOwn' BY <1>2, <1>3 DEF PublishesItsOwn
  <2>8. SeenIsOld'
    <3>1. GoesOn(project, project') /\ project'.revision \in V!Revision
      BY <1>b, <2>1, <2>2, ProjectIs, ServerPartsAssumption DEF GoesOn, V!Revision, V!PreviewsAssumption
    <3>2. \A o \in Render : render'[o] = render[o] \/ (render'[o].at \notin Reading /\ render'[o].at # "removes")
      BY <1>2 DEF Reading
    <3> QED BY <1>3, <3>1, <3>2, SeenAllFit
  <2>9. NothingAhead' BY <1>3, <1>b, <2>2 DEF NothingAhead
  <2> QED BY <2>3, <2>4, <2>5, <2>6, <2>7, <2>8, <2>9
<1> QED BY <1>a, <1>b DEF V!Records

\* The project goes on by a revision.
LEMMA EditKeeps ==
  ASSUME VideoInv, V!Edit
  PROVE  VideoInv'
<1>1. PICK m \in Montage :
        project' = [project EXCEPT !.revision = @ + 1, !.montage = m, !.steps = <<project.revision>> \o @]
  BY DEF V!Edit
<1>2. /\ photo' = [photo EXCEPT ![project.revision] = project.montage] /\ project.revision < MaxRevision
      /\ UNCHANGED <<exported, exporting, dir, cache, turns, render, failures>>
  BY DEF V!Edit
<1> DEFINE steps == <<project.revision>> \o project.steps
           rev == project.revision + 1
           p == [project EXCEPT !.revision = rev, !.montage = m, !.steps = steps]
<1>3. project.revision \in V!Revision /\ project.steps \in Seq(V!Revision) /\ project.montage \in Montage
  BY ProjectIs DEF VideoInv
<1>4. steps \in Seq(V!Revision)
  BY <1>3
<1>5. \A i \in DOMAIN steps : steps[i] = project.revision \/ \E j \in DOMAIN project.steps : steps[i] = project.steps[j]
  <2>1. /\ Len(steps) = 1 + Len(project.steps) /\ DOMAIN steps = 1 .. Len(steps)
        /\ \A i \in 1 .. Len(steps) : steps[i] = IF i = 1 THEN project.revision ELSE project.steps[i - 1]
    BY <1>3
  <2>2. DOMAIN project.steps = 1 .. Len(project.steps) /\ Len(project.steps) \in Nat
    BY <1>3
  <2> HIDE DEF steps
  <2> QED BY <2>1, <2>2
<1> HIDE DEF steps
<1>6. /\ rev \in V!Revision /\ project.revision <= rev
      /\ \A n \in V!Revision : n <= project.revision => n <= rev
  BY <1>2, <1>3, ServerPartsAssumption DEF V!Revision, V!PreviewsAssumption
<1>a. \A n \in 0 .. MaxRevision : n <= project.revision => n <= rev
  BY <1>2, <1>3, ServerPartsAssumption DEF V!Revision, V!PreviewsAssumption
<1>7. project' = p BY <1>1 DEF steps
<1> HIDE DEF rev
<1>8. /\ p.revision = rev /\ p.steps = steps /\ p.preview = project.preview
      /\ p \in [revision : V!Revision, montage : Montage, preview : Published \cup {None}, steps : Seq(V!Revision)]
  BY <1>4, <1>6 DEF VideoInv, VideoType, ProjectType
<1> HIDE DEF p
<1>9. /\ photo' \in [V!Revision -> Montage \cup {None}] /\ photo'[project.revision] # None
      /\ \A n \in V!Revision : n # project.revision => photo'[n] = photo[n]
  BY <1>2, <1>3, ServerPartsAssumption DEF VideoInv, VideoType, ProjectType, V!PreviewsAssumption
<1> USE DEF VideoInv
<1>10. VideoType' BY <1>2, <1>7, <1>8, <1>9 DEF VideoType, ProjectType
<1>11. OfRevision' BY <1>2, <1>7, <1>8, <1>a, RendersAre DEF OfRevision
<1>12. TurnsHold' BY <1>2 DEF TurnsHold, V!Inside
<1>13. PublishesItsOwn' BY <1>2 DEF PublishesItsOwn
<1>14. CacheFits' BY <1>2 DEF CacheFits
<1>15. SeenIsOld'
  <2>1. GoesOn(project, project')
    BY <1>5, <1>6, <1>7, <1>8 DEF GoesOn
  <2> QED BY <1>2, <1>6, <1>7, <1>8, <2>1, SeenAllFit
<1>16. NothingAhead' BY <1>2, <1>3, <1>6, <1>7, <1>8, <1>9 DEF NothingAhead
<1> QED BY <1>10, <1>11, <1>12, <1>13, <1>14, <1>15, <1>16

LEMMA UndoKeeps ==
  ASSUME VideoInv, V!Undo
  PROVE  VideoInv'
<1>1. /\ UNCHANGED <<photo, exported, exporting, dir, cache, turns, render, failures>> /\ project.revision < MaxRevision
      /\ project.steps # <<>> /\ photo[Head(project.steps)] # None
      /\ project' = [project EXCEPT !.revision = @ + 1, !.montage = photo[Head(project.steps)], !.steps = Tail(@)]
  BY DEF V!Undo
<1> DEFINE steps == Tail(project.steps)
           rev == project.revision + 1
           m == photo[Head(project.steps)]
           p == [project EXCEPT !.revision = rev, !.montage = m, !.steps = steps]
<1>3. project.revision \in V!Revision /\ project.steps \in Seq(V!Revision)
  BY ProjectIs DEF VideoInv
<1>4. steps \in Seq(V!Revision)
  BY <1>1, <1>3
<1>b. m \in Montage
  <2>1. Head(project.steps) \in V!Revision BY <1>1, <1>3
  <2> QED BY <1>1, <2>1 DEF VideoInv, VideoType, ProjectType
<1>5. \A i \in DOMAIN steps : \E j \in DOMAIN project.steps : steps[i] = project.steps[j]
  <2>1. /\ Len(steps) = Len(project.steps) - 1 /\ DOMAIN steps = 1 .. Len(steps)
        /\ \A i \in 1 .. Len(steps) : steps[i] = project.steps[i + 1]
    BY <1>1, <1>3
  <2>2. DOMAIN project.steps = 1 .. Len(project.steps) /\ Len(project.steps) \in Nat
    BY <1>3
  <2> HIDE DEF steps
  <2> QED BY <2>1, <2>2
<1> HIDE DEF steps, m
<1>6. /\ rev \in V!Revision /\ project.revision <= rev
      /\ \A n \in V!Revision : n <= project.revision => n <= rev
  BY <1>1, <1>3, ServerPartsAssumption DEF V!Revision, V!PreviewsAssumption
<1>a. \A n \in 0 .. MaxRevision : n <= project.revision => n <= rev
  BY <1>1, <1>3, ServerPartsAssumption DEF V!Revision, V!PreviewsAssumption
<1>7. project' = p BY <1>1 DEF steps, m
<1> HIDE DEF rev
<1>8. /\ p.revision = rev /\ p.steps = steps /\ p.preview = project.preview
      /\ p \in [revision : V!Revision, montage : Montage, preview : Published \cup {None}, steps : Seq(V!Revision)]
  BY <1>4, <1>6, <1>b DEF VideoInv, VideoType, ProjectType
<1> HIDE DEF p
<1> USE DEF VideoInv
<1>10. VideoType' BY <1>1, <1>7, <1>8 DEF VideoType, ProjectType
<1>11. OfRevision' BY <1>1, <1>7, <1>8, <1>a, RendersAre DEF OfRevision
<1>12. TurnsHold' BY <1>1 DEF TurnsHold, V!Inside
<1>13. PublishesItsOwn' BY <1>1 DEF PublishesItsOwn
<1>14. CacheFits' BY <1>1 DEF CacheFits
<1>15. SeenIsOld'
  <2>1. GoesOn(project, project')
    BY <1>5, <1>6, <1>7, <1>8 DEF GoesOn
  <2> QED BY <1>1, <1>6, <1>7, <1>8, <2>1, SeenAllFit
<1>16. NothingAhead' BY <1>1, <1>6, <1>7, <1>8 DEF NothingAhead
<1> QED BY <1>10, <1>11, <1>12, <1>13, <1>14, <1>15, <1>16

LEMMA DeliverKeeps ==
  ASSUME VideoInv, V!Exports \/ V!Deliver
  PROVE  VideoInv'
<1>1. UNCHANGED <<project, photo, dir, cache, turns, render, failures>>
  BY DEF V!Exports, V!Deliver
<1>2. /\ (exported' = exported \cup {exporting} /\ exporting # 0) \/ UNCHANGED exported
      /\ exporting' \in {0, project.revision}
  BY DEF V!Exports, V!Deliver
<1>3. exported' \subseteq V!Revision /\ exporting' \in V!Revision \cup {0}
  BY <1>2, ProjectIs DEF VideoInv, VideoType, ProjectType
<1> USE DEF VideoInv
<1>4. VideoType' BY <1>1, <1>3 DEF VideoType, ProjectType
<1>5. OfRevision' /\ TurnsHold' /\ PublishesItsOwn' /\ CacheFits' /\ NothingAhead'
  BY <1>1 DEF OfRevision, TurnsHold, PublishesItsOwn, CacheFits, V!Inside, NothingAhead
<1>6. SeenIsOld'
  <2>1. exported \subseteq exported' BY <1>2
  <2> QED BY <1>1, <2>1 DEF SeenIsOld, SeenFits
<1> QED BY <1>4, <1>5, <1>6

LEMMA IdleIs == V!Idle \in Renders /\ V!Idle.revision = 0 /\ V!Idle.at = "asked"
  BY NothingRead, ServerPartsAssumption DEF V!Idle, Renders, Stages, V!PreviewsAssumption

LEMMA CrashKeeps ==
  ASSUME VideoInv, V!Crash
  PROVE  VideoInv'
<1> DEFINE x == [V!Idle EXCEPT !.at = "failed"]
<1>1. x \in Renders /\ x.revision = 0 /\ x.at = "failed"
  BY IdleIs DEF Renders, Stages
<1>2. render' = [r \in Render |-> IF render[r].at = "asked" THEN V!Idle ELSE x]
  BY DEF V!Crash
<1>3. turns' = <<>> /\ UNCHANGED <<project, photo, exported, exporting, dir, cache>> /\ failures' \in Nat
  BY DEF V!Crash, V!editing, VideoInv, VideoType
<1> HIDE DEF x
<1>4. \A r \in Render : render'[r] \in Renders /\ render'[r].revision = 0 /\ render'[r].at \in {"asked", "failed"}
  BY <1>1, <1>2, IdleIs
<1>5. 0 <= project.revision
  BY ProjectIs, ServerPartsAssumption DEF VideoInv, V!Revision, V!PreviewsAssumption
<1> USE DEF VideoInv
<1>6. VideoType' BY <1>2, <1>3, <1>4 DEF VideoType, ProjectType
<1>7. OfRevision' BY <1>3, <1>4, <1>5 DEF OfRevision
<1>8. TurnsHold' /\ PublishesItsOwn' BY <1>4 DEF TurnsHold, PublishesItsOwn
<1>9. CacheFits' /\ NothingAhead' BY <1>3 DEF CacheFits, NothingAhead
<1>10. SeenIsOld' BY <1>4, SeesNothing DEF SeenIsOld, Reading
<1> QED BY <1>6, <1>7, <1>8, <1>9, <1>10

-----------------------------------------------------------------------------
(* The theorems about the videos.                                          *)

LEMMA VideosBegin == V!Init => VideoInv
<1> SUFFICES ASSUME V!Init PROVE VideoInv
  OBVIOUS
<1> USE ServerPartsAssumption DEF V!PreviewsAssumption
<1>1. PICK m \in Montage : project = [revision |-> 1, montage |-> m, preview |-> None, steps |-> <<>>]
  BY DEF V!Init
<1>2. V!NoDir \in Folders /\ V!NoDir.there = FALSE /\ V!NoEntry \in Entries /\ V!NoEntry.video = None
  BY DEF V!NoDir, V!NoEntry, Folders, Entries
<1>3. /\ photo = [n \in V!Revision |-> None] /\ exported = {} /\ exporting = 0 /\ turns = <<>> /\ failures = 0
      /\ dir = [n \in V!Revision |-> V!NoDir] /\ cache = [k \in V!Key |-> V!NoEntry]
      /\ render = [r \in Render |-> V!Idle]
  BY DEF V!Init
<1>4. /\ project.revision = 1 /\ project.preview = None /\ project.steps = <<>> /\ 1 \in V!Revision /\ 0 <= 1
      /\ project \in [revision : V!Revision, montage : Montage, preview : Published \cup {None}, steps : Seq(V!Revision)]
  BY <1>1 DEF V!Revision
<1>5. VideoType BY <1>2, <1>3, <1>4, IdleIs DEF VideoType, ProjectType
<1>6. OfRevision /\ TurnsHold /\ PublishesItsOwn /\ CacheFits /\ NothingAhead
  BY <1>2, <1>3, <1>4, IdleIs DEF OfRevision, TurnsHold, PublishesItsOwn, CacheFits, NothingAhead
<1>7. SeenIsOld
  BY <1>3, IdleIs, SeesNothing DEF SeenIsOld, Reading
<1> QED BY <1>5, <1>6, <1>7 DEF VideoInv

LEMMA VideoStep == VideoInv /\ V!Next => VideoInv'
  BY EditKeeps, UndoKeeps, DeliverKeeps, CrashKeeps, AsksKeeps, DecidesKeeps, EngineKeeps, HomelessKeeps,
     PublishesKeeps, MarksKeeps, LinksKeeps, SaysReadyKeeps, LinksCachedKeeps, FailsKeeps, HashesKeeps, RecordsKeeps,
     ReadsProjectKeeps, ListsExportsKeeps, ListsFoldersKeeps, ListsPhotosKeeps, RemovesKeeps, PrunedKeeps, SparesKeeps
  DEF V!Next

LEMMA VideoHolds == ServerSpec => []VideoInv
<1>1. ServerInit => VideoInv
  BY VideosBegin DEF ServerInit
<1>2. VideoInv /\ UNCHANGED vVars => VideoInv'
  BY DEF vVars, VideoInv, VideoType, ProjectType, OfRevision, TurnsHold, PublishesItsOwn, CacheFits, SeenIsOld,
         NothingAhead, V!Inside
<1>3. VideoInv /\ [ServerNext]_<<part, vars, vVars>> => VideoInv'
  BY <1>2, VideoStep DEF ServerNext
<1> QED BY <1>1, <1>3, PTL DEF ServerSpec

\* A cached video is of the montage and the encoder that its key names, whatever renders of one
\* revision publish and whatever the engine falls back to (render.ts).
THEOREM CacheFitsItsKey == ServerSpec => []CacheIsWhatItsKeySays
<1>1. VideoInv => CacheIsWhatItsKeySays
  BY DEF VideoInv, CacheFits, Fits, CacheIsWhatItsKeySays, V!CacheIsWhatItsKeySays, V!Usable
<1> QED BY <1>1, VideoHolds, PTL

-----------------------------------------------------------------------------
(* What a pruning takes.                                                   *)

\* No step of a render but a removal takes a video, and no step but a removal a photo.
LEMMA OnlyRemovalsTake ==
  ASSUME VideoInv, V!Next, NEW n \in V!Revision,
         (dir[n].video # None /\ dir'[n].video = None) \/ (photo[n] # None /\ photo'[n] = None)
  PROVE  \E r \in Render : V!Removes(r)
<1> USE ServerPartsAssumption DEF V!PreviewsAssumption
<1>1. ASSUME NEW r \in Render, NEW x \in Folders, V!Has(r, x), render[r].revision \in V!Revision,
             x.video = dir[render[r].revision].video \/ x.video # None, UNCHANGED photo
      PROVE  FALSE
  BY <1>1, HasNow DEF VideoInv, LeavesAlone
<1>2. CASE V!Edit
  <2>1. dir' = dir /\ photo' = [photo EXCEPT ![project.revision] = project.montage] BY <1>2 DEF V!Edit
  <2>2. project.montage # None BY ProjectIs DEF VideoInv
  <2> QED BY <2>1, <2>2 DEF VideoInv, VideoType, ProjectType
<1>3. CASE V!Undo \/ V!Exports \/ V!Deliver \/ V!Crash
  BY <1>3 DEF V!Undo, V!Exports, V!Deliver, V!Crash, V!editing
<1>4. ASSUME NEW r \in Render,
             \/ V!Asks(r) \/ V!Engine(r) \/ V!Homeless(r) \/ V!Links(r) \/ V!SaysReady(r) \/ V!Hashes(r) \/ V!Records(r)
             \/ V!ReadsProject(r) \/ V!ListsExports(r) \/ V!ListsFolders(r) \/ V!ListsPhotos(r) \/ V!Pruned(r) \/ V!Spares(r)
      PROVE  FALSE
  <2>1. UNCHANGED <<photo, dir>>
    BY <1>4 DEF V!Asks, V!Engine, V!Homeless, V!Links, V!SaysReady, V!Hashes, V!Records, V!ReadsProject,
                V!ListsExports, V!ListsFolders, V!ListsPhotos, V!Pruned, V!Spares, V!editing
  <2> QED BY <2>1
<1>5. ASSUME NEW r \in Render, V!Decides(r) PROVE FALSE
  <2> DEFINE x == [V!Folder(r) EXCEPT !.there = TRUE, !.works = @ \cup {r}]
  <2>1. render[r].revision \in V!Revision /\ UNCHANGED photo /\ (UNCHANGED dir \/ V!Has(r, x))
    BY <1>5 DEF V!Decides, VideoInv, OfRevision, V!editing
  <2>2. x \in Folders /\ x.video = dir[render[r].revision].video
    BY <2>1, FoldersAre DEF VideoInv, V!Folder, Folders
  <2> HIDE DEF x
  <2> QED BY <1>1, <2>1, <2>2
<1>6. ASSUME NEW r \in Render, V!Publishes(r) PROVE FALSE
  <2> DEFINE x == [V!Folder(r) EXCEPT !.video = render[r].video, !.works = @ \ {r}]
  <2>1. render[r].revision \in V!Revision /\ UNCHANGED photo /\ V!Has(r, x) /\ render[r].video # None
    BY <1>6 DEF V!Publishes, VideoInv, OfRevision, PublishesItsOwn, V!editing
  <2>2. x \in Folders /\ x.video = render[r].video
    BY <2>1, FoldersAre, RendersAre DEF VideoInv, V!Folder, Folders
  <2> HIDE DEF x
  <2> QED BY <1>1, <2>1, <2>2
<1>7. ASSUME NEW r \in Render, V!Marks(r) PROVE FALSE
  <2> DEFINE x == [V!Folder(r) EXCEPT !.there = TRUE, !.mark = render[r].key]
  <2>1. render[r].revision \in V!Revision /\ render[r].key \in V!Key /\ UNCHANGED photo /\ V!Has(r, x)
    BY <1>7 DEF V!Marks, VideoInv, OfRevision, V!editing
  <2>2. x \in Folders /\ x.video = dir[render[r].revision].video
    BY <2>1, FoldersAre DEF VideoInv, V!Folder, Folders
  <2> HIDE DEF x
  <2> QED BY <1>1, <2>1, <2>2
<1>8. ASSUME NEW r \in Render, V!LinksCached(r) PROVE FALSE
  <2> DEFINE v == cache[render[r].key].video
             x == [V!Folder(r) EXCEPT !.video = v]
  <2>1. /\ render[r].revision \in V!Revision /\ render[r].key \in V!Key /\ UNCHANGED photo
        /\ UNCHANGED dir \/ (V!Has(r, x) /\ v # None)
    BY <1>8 DEF V!LinksCached, VideoInv, OfRevision, V!editing
  <2>2. v \in Videos \cup {None}
    BY <2>1 DEF VideoInv, VideoType, Entries
  <2> HIDE DEF v
  <2>3. x \in Folders /\ x.video = v
    BY <2>1, <2>2, FoldersAre DEF VideoInv, V!Folder, Folders
  <2> HIDE DEF x
  <2> QED BY <1>1, <2>1, <2>3
<1>9. ASSUME NEW r \in Render, V!Fails(r) PROVE FALSE
  <2> DEFINE x == [V!Folder(r) EXCEPT !.works = @ \ {r}]
  <2>1. render[r].revision \in V!Revision /\ UNCHANGED photo /\ V!Has(r, x)
    BY <1>9 DEF V!Fails, VideoInv, OfRevision, V!editing
  <2>2. x \in Folders /\ x.video = dir[render[r].revision].video
    BY <2>1, FoldersAre DEF VideoInv, V!Folder, Folders
  <2> HIDE DEF x
  <2> QED BY <1>1, <2>1, <2>2
<1> QED BY <1>2, <1>3, <1>4, <1>5, <1>6, <1>7, <1>8, <1>9 DEF V!Next

LEMMA TakenIsOvertaken ==
  ASSUME VideoInv, V!Next, NEW n \in V!Revision
  PROVE  /\ dir[n].video # None /\ dir'[n].video = None =>
              /\ project.preview # None /\ project.preview.revision = n => V!Overtaken(n)
              /\ n \in exported /\ failures = 0 => n \notin render[Head(turns)].seen.delivered
         /\ photo[n] # None /\ photo'[n] = None /\ n \in V!StepsOf(project) => V!Overtaken(n)
<1> SUFFICES ASSUME (dir[n].video # None /\ dir'[n].video = None) \/ (photo[n] # None /\ photo'[n] = None)
             PROVE  /\ dir[n].video # None /\ dir'[n].video = None =>
                         /\ project.preview # None /\ project.preview.revision = n => V!Overtaken(n)
                         /\ n \in exported /\ failures = 0 => n \notin render[Head(turns)].seen.delivered
                    /\ photo[n] # None /\ photo'[n] = None /\ n \in V!StepsOf(project) => V!Overtaken(n)
  OBVIOUS
<1>1. PICK r \in Render : V!Removes(r)
  BY OnlyRemovalsTake
<1>2. PICK t \in render[r].targets :
        /\ dir' = IF t.kind = "dir" THEN [dir EXCEPT ![t.of] = V!NoDir] ELSE dir
        /\ photo' = IF t.kind = "photo" THEN [photo EXCEPT ![t.of] = None] ELSE photo
  BY <1>1 DEF V!Removes
<1>3. Head(turns) = r /\ render[r].at = "removes"
  BY <1>1 DEF V!Removes, V!Inside
<1>4. ListsOld(render[r].seen, t, project, failures)
  BY <1>2, <1>3 DEF VideoInv, SeenIsOld, SeenFits
<1>5. dir[n].video # None /\ dir'[n].video = None => t.kind = "dir" /\ t.of = n
  BY <1>2 DEF VideoInv, VideoType
<1>6. photo[n] # None /\ photo'[n] = None => t.kind = "photo" /\ t.of = n
  BY <1>2 DEF VideoInv, VideoType, ProjectType
<1>7. n \in V!StepsOf(project) => \E i \in DOMAIN project.steps : project.steps[i] = n
  BY DEF V!StepsOf
<1> QED BY <1>3, <1>4, <1>5, <1>6, <1>7 DEF ListsOld, V!Overtaken

\* Whatever edits, undos, renders and deliveries come between its reads and its removals, a pruning takes
\* a preview or a photo that the project refers to only when the reference is younger than its first
\* read and Kept revisions behind by now; and, without faults, nothing that had been delivered (pruneProject).
THEOREM PruningTakesOnlyOvertaken == ServerSpec => TakesOnlyOvertaken
<1>1. VideoInv /\ [ServerNext]_<<part, vars, vVars>> =>
        [\A n \in V!Revision :
           /\ dir[n].video # None /\ dir'[n].video = None =>
                /\ project.preview # None /\ project.preview.revision = n => V!Overtaken(n)
                /\ n \in exported /\ failures = 0 => n \notin render[Head(turns)].seen.delivered
           /\ photo[n] # None /\ photo'[n] = None /\ n \in V!StepsOf(project) => V!Overtaken(n)]_(V!vars)
  <2>1. CASE V!Next
    BY <2>1, TakenIsOvertaken
  <2>2. CASE UNCHANGED vVars
    BY <2>2 DEF vVars, V!vars
  <2> QED BY <2>1, <2>2 DEF ServerNext
<1> QED BY <1>1, VideoHolds, PTL DEF ServerSpec, TakesOnlyOvertaken, V!TakesOnlyOvertaken
=============================================================================
