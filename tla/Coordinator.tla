----------------------------- MODULE Coordinator -----------------------------
(***************************************************************************)
(* packages/coordinator/src/index.ts: the file coordinator every process   *)
(* of the product shares through one directory. waiters.json is the queue, *)
(* slots/<i>.json the capacity, tasks/<id>.json the memory of run().       *)
(*                                                                         *)
(* Each critical section (withLock) is one step; FileLock.tla models how   *)
(* the .lock file makes it so. What the code does without the lock - the   *)
(* heartbeat's slot read-then-write against withSlot's read-then-unlink -  *)
(* is split into steps. A caller is one call of run or withSlot; it claims *)
(* at most once, so the lease's random UUID is the caller itself, and a    *)
(* build's result is named by the caller that built it. Time passes in     *)
(* ticks: a lease holds the ticks it has left, a waiter its heartbeat age. *)
(***************************************************************************)
EXTENDS Integers, FiniteSets

CONSTANTS Callers,       \* calls of run or withSlot
          SlotCallers,   \* the calls of withSlot among them
          Interactive,   \* the calls with priority "interactive"
          Procs,         \* operating system processes
          ProcOf,        \* the process of each call
          Tasks,         \* task ids
          TaskOf,        \* the task id of each call of run
          Limit,         \* opts.limit: how many slots there are
          Lease,         \* leaseMs, in ticks
          ExpiryLeases,  \* leases of silence after which a waiter is dead: 4
          MaxFaults,     \* bound: crashes and disk errors in a behaviour
          None, Error    \* no caller, no result; a rejected call

RunCallers == Callers \ SlotCallers
Slots == 0 .. Limit - 1

ASSUME ConstantsAssumption ==
  /\ SlotCallers \subseteq Callers
  /\ Interactive \subseteq Callers
  /\ ProcOf \in [Callers -> Procs]
  /\ TaskOf \in [RunCallers -> Tasks]
  /\ Limit \in Nat \ {0}
  /\ Lease \in Nat \ {0}
  /\ ExpiryLeases \in Nat \ {0}
  /\ MaxFaults \in Nat
  /\ None \notin Callers /\ Error \notin Callers /\ None # Error
  /\ None \notin Slots

\* A waiter's heartbeat is due after a third of a lease; a waiter silent for
\* more than ExpiryLeases leases is taken for dead.
WaiterBeat == IF Lease \div 3 > 1 THEN Lease \div 3 ELSE 1
WaiterExpiry == ExpiryLeases * Lease

VARIABLES
  pc,         \* where each call stands
  at,         \* enteredAt: the caller's place in order of arrival
  nextAt,     \* the clock that hands out enteredAt
  waiters,    \* waiters.json: who has a record in it
  bypassed,   \* ... the "bypassed" mark of that record
  age,        \* ... ticks since that record's seenAt
  remembered, \* the caller's own copy of the mark (waiter.bypassed in run)
  slots,      \* slots/<i>.json
  tasks,      \* tasks/<id>.json
  held,       \* the slot index the caller got from its claim
  beat,       \* the caller's heartbeat timer fired, its section has not run
  faults,     \* bound: crashes and disk errors so far
  lock,       \* the heartbeat that holds .lock between its slot read and write
  outcome,    \* what the call settled to
  grant,      \* observation: ticks left of the lease the caller was given
  overtaken,  \* observation: interactive claims that passed this waiter
  robbed      \* observation: calls whose slot file another call's release unlinked

callVars == <<pc, at, nextAt, remembered, held, outcome, faults>>
queueVars == <<waiters, bypassed, age, overtaken>>
leaseVars == <<slots, tasks, grant>>
beatVars == <<beat, lock, robbed>>
vars == <<callVars, queueVars, leaseVars, beatVars>>

WithTtl(r, n) ==
  [status |-> r.status, owner |-> r.owner, ttl |-> n, result |-> r.result]
FreeSlot == [owner |-> None, ttl |-> 0]
Unleased(status) == [status |-> status, owner |-> None, ttl |-> 0, result |-> None]
NoTask == Unleased("none")

Init ==
  /\ pc = [c \in Callers |-> "idle"]
  /\ at = [c \in Callers |-> 0]
  /\ nextAt = 0
  /\ waiters = {}
  /\ bypassed = [c \in Callers |-> FALSE]
  /\ age = [c \in Callers |-> 0]
  /\ remembered = [c \in Callers |-> FALSE]
  /\ slots = [i \in Slots |-> FreeSlot]
  /\ tasks = [t \in Tasks |-> NoTask]
  /\ held = [c \in Callers |-> None]
  /\ beat = [c \in Callers |-> FALSE]
  /\ lock = None
  /\ faults = 0
  /\ outcome = [c \in Callers |-> None]
  /\ grant = [c \in Callers |-> 0]
  /\ overtaken = [c \in Callers |-> 0]
  /\ robbed = {}

-----------------------------------------------------------------------------
(* The queue file.                                                         *)

\* localWaiters: the calls this process is still serving. The entry is added
\* before the enqueue and deleted first thing in the finally block.
LiveHere(p) ==
  {c \in Callers : ProcOf[c] = p /\ pc[c] \in {"entering", "polling", "working"}}

\* Mutant: no record ever expires.
ReadWaitersKeepingAll(c) == waiters

\* Mutant: liveHere is not consulted.
ReadWaitersByAge(c) == {w \in waiters : age[w] <= WaiterExpiry}

\* readWaiters: a record whose heartbeat is too old is dropped on reading,
\* unless its call is alive in the reader's own process.
ReadWaiters(c) ==
  {w \in waiters : age[w] <= WaiterExpiry \/ w \in LiveHere(ProcOf[c])}

\* writeWaiters by caller c: the file holds exactly `records` afterwards. A
\* record that is gone without its own call removing it was dropped: it will
\* come back as a new one, whose overtakes count from zero.
WriteWaiters(c, records, marks, ages) ==
  /\ waiters' = records
  /\ bypassed' = [w \in Callers |-> w \in records /\ marks[w]]
  /\ age' = [w \in Callers |-> IF w \in records THEN ages[w] ELSE 0]

\* refreshWaiter: the caller's record is renewed when its heartbeat is due, or
\* put back, with its original order and the mark it remembers, when missing.
NeedsRefresh(c) == c \notin ReadWaiters(c) \/ age[c] >= WaiterBeat
Refreshed(c) == ReadWaiters(c) \cup {c}
RefreshedMarks(c) ==
  IF c \in ReadWaiters(c) THEN bypassed ELSE [bypassed EXCEPT ![c] = remembered[c]]
RefreshedAges(c) == IF NeedsRefresh(c) THEN [age EXCEPT ![c] = 0] ELSE age

\* rank and orderedWaiters: interactive or already bypassed first, then by
\* arrival. Arrivals are distinct here; the random waiterId breaks real ties.
Rank(w, marks) == IF w \in Interactive \/ marks[w] THEN 0 ELSE 1
Before(v, w, marks) ==
  \/ Rank(v, marks) < Rank(w, marks)
  \/ Rank(v, marks) = Rank(w, marks) /\ at[v] < at[w]

\* isHead, on the refreshed queue.
IsHead(c) ==
  \A w \in Refreshed(c) \ {c} : Before(c, w, RefreshedMarks(c))

\* afterClaim: the claimed record leaves; an interactive claim marks every
\* batch record still waiting.
AfterClaimMarks(c) ==
  [w \in Callers |-> \/ RefreshedMarks(c)[w]
                     \/ c \in Interactive /\ w \notin Interactive]

\* The caller's own record is gone for good: so are its order and its mark.
Forget(c) ==
  /\ at' = [at EXCEPT ![c] = 0]
  /\ remembered' = [remembered EXCEPT ![c] = FALSE]

\* The observation of overtakes outlives no record, except a follower's.
Dropped(c, records) == waiters \ (records \cup {c})
ForgetOvertakes(gone) ==
  overtaken' = [w \in Callers |->
                  IF w \in gone THEN 0 ELSE overtaken[w]]

-----------------------------------------------------------------------------
(* Slots and tasks.                                                        *)

IsFree(i) == slots[i].owner = None \/ slots[i].ttl = 0
FirstFree(i) == IsFree(i) /\ \A j \in Slots : j < i => ~IsFree(j)

Completed(t) == tasks[t].status = "completed"
RunningLive(t) == tasks[t].status = "running" /\ tasks[t].ttl > 0

\* A crash or a disk error, of which a behaviour has at most MaxFaults.
Fault == faults < MaxFaults /\ faults' = faults + 1

-----------------------------------------------------------------------------
(* Entering and waiting.                                                   *)

\* run and withSlot up to enqueue: the call notes its arrival.
Enter(c) ==
  /\ pc[c] = "idle"
  /\ pc' = [pc EXCEPT ![c] = "entering"]
  /\ at' = [at EXCEPT ![c] = nextAt]
  /\ nextAt' = nextAt + 1
  /\ UNCHANGED <<remembered, held, outcome, faults, queueVars, leaseVars, beatVars>>

\* enqueue: the record is appended to the queue file. Its seenAt is the moment
\* of arrival, and the call may have waited long for the lock since then.
Enqueue(c) ==
  /\ pc[c] = "entering" /\ lock = None
  /\ pc' = [pc EXCEPT ![c] = "polling"]
  /\ \E late \in 0 .. WaiterExpiry + 1 :
       WriteWaiters(c, Refreshed(c), RefreshedMarks(c), [age EXCEPT ![c] = late])
  /\ ForgetOvertakes(Dropped(c, Refreshed(c)))
  /\ UNCHANGED <<at, nextAt, faults, remembered, held, outcome, leaseVars, beatVars>>

\* enqueue throws (disk): the call is rejected and leaves liveHere.
EnqueueFails(c) ==
  /\ pc[c] = "entering"
  /\ Fault
  /\ pc' = [pc EXCEPT ![c] = "done"]
  /\ outcome' = [outcome EXCEPT ![c] = Error]
  /\ UNCHANGED <<at, nextAt, remembered, held, queueVars, leaseVars, beatVars>>

\* The signal is aborted, or the queue cannot be read, while waiting.
CancelWaiting(c) ==
  /\ pc[c] = "polling"
  /\ pc' = [pc EXCEPT ![c] = "cleanup"]
  /\ outcome' = [outcome EXCEPT ![c] = Error]
  /\ UNCHANGED <<at, nextAt, faults, remembered, held, queueVars, leaseVars, beatVars>>

\* run's loop reads the task without the lock and finds it completed. Its
\* dequeue is repeated in the finally block: Dequeue below stands for both.
TakeResult(c) ==
  /\ pc[c] = "polling" /\ c \in RunCallers
  /\ Completed(TaskOf[c])
  /\ pc' = [pc EXCEPT ![c] = "cleanup"]
  /\ outcome' = [outcome EXCEPT ![c] = tasks[TaskOf[c]].result]
  /\ UNCHANGED <<at, nextAt, faults, remembered, held, queueVars, leaseVars, beatVars>>

\* claimWork finds it completed under the lock: the record leaves at once.
ClaimDone(c) ==
  /\ pc[c] = "polling" /\ c \in RunCallers /\ lock = None
  /\ Completed(TaskOf[c])
  /\ pc' = [pc EXCEPT ![c] = "cleanup"]
  /\ outcome' = [outcome EXCEPT ![c] = tasks[TaskOf[c]].result]
  /\ LET records == ReadWaiters(c) \ {c} IN
       /\ WriteWaiters(c, records, bypassed, age)
       /\ ForgetOvertakes(Dropped(c, records) \cup {c})
  /\ UNCHANGED <<at, nextAt, faults, remembered, held, leaseVars, beatVars>>

\* Mutant: the follower does not carry its mark over.
ForgetMark(c) == UNCHANGED remembered
RememberMark(c) == remembered' = [remembered EXCEPT ![c] = @ \/ bypassed[c]]

\* claimWork finds somebody else building the task: the call follows, out of
\* the queue, remembering whether it had already been overtaken.
Follow(c) ==
  /\ pc[c] = "polling" /\ c \in RunCallers /\ lock = None
  /\ RunningLive(TaskOf[c])
  /\ c \in waiters
  /\ RememberMark(c)
  /\ LET records == ReadWaiters(c) \ {c} IN
       /\ WriteWaiters(c, records, bypassed, age)
       /\ ForgetOvertakes(Dropped(c, records))
  /\ UNCHANGED <<pc, at, nextAt, faults, held, outcome, leaseVars, beatVars>>

\* Mutants: a completed task, or a task being built, is built again.
NotBuilding(t) == ~RunningLive(t)
NotBuilt(t) == ~Completed(t)
ToBuild(t) == ~Completed(t) /\ ~RunningLive(t)

\* Where claimWork and claimSlot go on to compete for a slot.
Competes(c) ==
  /\ pc[c] = "polling" /\ lock = None
  /\ c \in RunCallers => ToBuild(TaskOf[c])

\* ... and get none: not the head, or every slot is taken.
KeepWaiting(c) ==
  /\ Competes(c)
  /\ ~IsHead(c) \/ \A i \in Slots : ~IsFree(i)
  /\ NeedsRefresh(c)
  /\ WriteWaiters(c, Refreshed(c), RefreshedMarks(c), RefreshedAges(c))
  /\ ForgetOvertakes(Dropped(c, Refreshed(c)))
  /\ UNCHANGED <<callVars, leaseVars, beatVars>>

\* writeSlot: the slot is the caller's for a lease.
TakeSlot(c, i) ==
  slots' = [slots EXCEPT ![i] = [owner |-> c, ttl |-> Lease]]

\* afterClaim, written back; the observation counts whom the claim passed.
LeaveQueue(c) ==
  LET records == Refreshed(c) \ {c} IN
  /\ WriteWaiters(c, records, AfterClaimMarks(c), age)
  /\ overtaken' = [w \in Callers |->
       IF w \in Dropped(c, records) \cup {c} THEN 0
       ELSE IF w \in records /\ c \in Interactive /\ at[w] < at[c]
       THEN overtaken[w] + 1 ELSE overtaken[w]]

\* claimWork and claimSlot: slot, queue and (run) task are written in turn.
Claim(c) ==
  \E i \in Slots :
    /\ Competes(c) /\ IsHead(c) /\ FirstFree(i)
    /\ TakeSlot(c, i)
    /\ LeaveQueue(c)
    /\ tasks' = IF c \in SlotCallers THEN tasks ELSE
         [tasks EXCEPT ![TaskOf[c]] =
            [status |-> "running", owner |-> c, ttl |-> Lease, result |-> None]]
    /\ held' = [held EXCEPT ![c] = i]
    /\ grant' = [grant EXCEPT ![c] = Lease]
    /\ pc' = [pc EXCEPT ![c] = "working"]
    /\ Forget(c)
    /\ UNCHANGED <<nextAt, faults, outcome, beatVars>>

\* The claim breaks off after one or two of its writes, so the caller does
\* not know of the slot it took. A crash there is this step and Crash.
ClaimBreaks(c) ==
  \E i \in Slots :
    /\ Fault
    /\ Competes(c) /\ IsHead(c) /\ FirstFree(i)
    /\ TakeSlot(c, i)
    /\ \/ LeaveQueue(c)
       \/ /\ NeedsRefresh(c)
          /\ WriteWaiters(c, Refreshed(c), RefreshedMarks(c), RefreshedAges(c))
          /\ ForgetOvertakes(Dropped(c, Refreshed(c)))
       \/ ~NeedsRefresh(c) /\ UNCHANGED queueVars
    /\ outcome' = [outcome EXCEPT ![c] = Error]
    /\ pc' = [pc EXCEPT ![c] = "cleanup"]
    /\ UNCHANGED <<at, nextAt, remembered, held, tasks, grant, beatVars>>

-----------------------------------------------------------------------------
(* The heartbeat of a caller that holds a lease.                           *)

\* setInterval fires. Clearing the timer does not recall a fired one.
BeatFires(c) ==
  /\ pc[c] = "working" /\ ~beat[c]
  /\ beat' = [beat EXCEPT ![c] = TRUE]
  /\ UNCHANGED <<callVars, queueVars, leaseVars, lock, robbed>>

OwnsTask(c) == tasks[TaskOf[c]].owner = c
OwnsSlot(c) == held[c] # None /\ slots[held[c]].owner = c

\* Mutant: the heartbeat adds a lease to what is left of the old one.
Extended(ttl) == ttl + Lease
Renewed(ttl) == Lease

\* Mutant: the heartbeat takes the slot back without looking who has it.
RenewsAnySlot(c) == held[c] # None /\ (c \in RunCallers => OwnsTask(c))
RenewsSlot(c) == OwnsSlot(c) /\ (c \in RunCallers => OwnsTask(c))

\* The section gets the lock: run renews its task if the lease is still its
\* own and reads its slot; withSlot reads its slot. The slot write is to come.
BeatReads(c) ==
  /\ beat[c] /\ lock = None /\ pc[c] # "dead"
  /\ tasks' = IF c \in RunCallers /\ OwnsTask(c)
              THEN [tasks EXCEPT ![TaskOf[c]] = WithTtl(@, Renewed(@.ttl))]
              ELSE tasks
  /\ lock' = IF RenewsSlot(c) THEN c ELSE None
  /\ beat' = [beat EXCEPT ![c] = RenewsSlot(c)]
  /\ UNCHANGED <<callVars, queueVars, slots, grant, robbed>>

\* writeSlot: the slot is written whatever happened to its file meanwhile.
BeatWrites(c) ==
  /\ lock = c
  /\ slots' = [slots EXCEPT ![held[c]] = [owner |-> c, ttl |-> Lease]]
  /\ grant' = IF pc[c] = "working" THEN [grant EXCEPT ![c] = Lease] ELSE grant
  /\ lock' = None
  /\ beat' = [beat EXCEPT ![c] = FALSE]
  /\ UNCHANGED <<callVars, queueVars, tasks, robbed>>

\* The section fails on disk, before or between its writes: it is ignored.
BeatFails(c) ==
  /\ beat[c] /\ pc[c] # "dead"
  /\ Fault
  /\ beat' = [beat EXCEPT ![c] = FALSE]
  /\ lock' = IF lock = c THEN None ELSE lock
  /\ UNCHANGED <<pc, at, nextAt, remembered, held, outcome, queueVars, leaseVars, robbed>>

-----------------------------------------------------------------------------
(* Ending the work.                                                        *)

\* The build is over. Its lease is no longer worked under.
Leave(c, answer) ==
  /\ pc' = [pc EXCEPT ![c] = "cleanup"]
  /\ outcome' = [outcome EXCEPT ![c] = answer]
  /\ grant' = [grant EXCEPT ![c] = 0]

\* Mutant: the result is published without comparing the lease.
NeverAbandoned(c) == TRUE
StillLeased(c) == OwnsTask(c)

\* Mutant: the completed record keeps its leaseId.
CompletedWithLease(c) ==
  [status |-> "completed", owner |-> c, ttl |-> 0, result |-> c]
CompletedRecord(c) ==
  [status |-> "completed", owner |-> None, ttl |-> 0, result |-> c]

\* run: the build succeeded and the task is still leased to the caller.
Publish(c) ==
  /\ pc[c] = "working" /\ c \in RunCallers /\ lock = None
  /\ StillLeased(c)
  /\ tasks' = [tasks EXCEPT ![TaskOf[c]] = CompletedRecord(c)]
  /\ Leave(c, c)
  /\ UNCHANGED <<at, nextAt, faults, remembered, held, queueVars, slots, beatVars>>

\* run: somebody else was leased the task meanwhile - AbandonedError.
Abandon(c) ==
  /\ pc[c] = "working" /\ c \in RunCallers /\ lock = None
  /\ ~StillLeased(c)
  /\ Leave(c, Error)
  /\ UNCHANGED <<at, nextAt, faults, remembered, held, queueVars, slots, tasks, beatVars>>

\* The build throws or is cancelled, before or after it starts, or the write
\* that would publish it fails.
BuildFails(c) ==
  /\ pc[c] = "working"
  /\ Leave(c, Error)
  /\ UNCHANGED <<at, nextAt, faults, remembered, held, queueVars, slots, tasks, beatVars>>

\* withSlot: fn returns; its value is the call's own and is not remembered.
SlotWorkEnds(c) ==
  /\ pc[c] = "working" /\ c \in SlotCallers
  /\ Leave(c, c)
  /\ UNCHANGED <<at, nextAt, faults, remembered, held, queueVars, slots, tasks, beatVars>>

\* finally: the waiter record goes first ...
Dequeue(c) ==
  /\ pc[c] = "cleanup" /\ lock = None
  /\ pc' = [pc EXCEPT ![c] = IF held[c] = None THEN "done" ELSE "release"]
  /\ LET records == ReadWaiters(c) \ {c} IN
       /\ WriteWaiters(c, records, bypassed, age)
       /\ ForgetOvertakes(Dropped(c, records) \cup {c})
  /\ Forget(c)
  /\ UNCHANGED <<nextAt, faults, held, outcome, leaseVars, beatVars>>

\* ... and when that throws, the rest of the block is not reached: the slot
\* and a running task are left to expire, the error replaces the answer.
DequeueFails(c) ==
  /\ pc[c] = "cleanup"
  /\ Fault
  /\ pc' = [pc EXCEPT ![c] = "done"]
  /\ outcome' = [outcome EXCEPT ![c] = Error]
  /\ UNCHANGED <<at, nextAt, remembered, held, queueVars, leaseVars, beatVars>>

FailsTask(c) == tasks[TaskOf[c]].status = "running" /\ OwnsTask(c)

\* Mutant: a call whose task is not running any more keeps its slot.
FreesAfterFailure(c) == OwnsSlot(c) /\ FailsTask(c)
FreesSlot(c) == OwnsSlot(c)

\* run, under the lock: a task still running under this lease has failed, and
\* the slot is freed if it is still the caller's.
Release(c) ==
  /\ pc[c] = "release" /\ c \in RunCallers /\ lock = None
  /\ tasks' = IF FailsTask(c)
       THEN [tasks EXCEPT ![TaskOf[c]] = Unleased("failed")]
       ELSE tasks
  /\ slots' = IF FreesSlot(c) THEN [slots EXCEPT ![held[c]] = FreeSlot] ELSE slots
  /\ pc' = [pc EXCEPT ![c] = "done"]
  /\ UNCHANGED <<at, nextAt, faults, remembered, held, outcome, queueVars, grant, beatVars>>

\* withSlot, with no lock: freeSlot reads the slot ...
SlotReleaseReads(c) ==
  /\ pc[c] = "release" /\ c \in SlotCallers
  /\ pc' = [pc EXCEPT ![c] = IF OwnsSlot(c) THEN "unlinking" ELSE "done"]
  /\ UNCHANGED <<at, nextAt, faults, remembered, held, outcome, queueVars, leaseVars, beatVars>>

\* ... and unlinks the file, whoever it belongs to by now.
SlotReleaseUnlinks(c) ==
  /\ pc[c] = "unlinking" /\ c \in SlotCallers
  /\ slots' = [slots EXCEPT ![held[c]] = FreeSlot]
  /\ robbed' = robbed \cup ({slots[held[c]].owner} \ {c, None})
  /\ pc' = [pc EXCEPT ![c] = "done"]
  /\ UNCHANGED <<at, nextAt, faults, remembered, held, outcome, queueVars, tasks, grant, beat, lock>>

\* The clean-up fails on disk and its error is dropped: the slot is not freed,
\* or (run) the task is not failed, and what is left has to expire.
ReleaseFails(c) ==
  /\ pc[c] \in {"release", "unlinking"}
  /\ Fault
  /\ \/ UNCHANGED <<slots, tasks>>
     \/ /\ c \in RunCallers /\ lock = None /\ FailsTask(c)
        /\ tasks' = [tasks EXCEPT ![TaskOf[c]] = Unleased("failed")]
        /\ UNCHANGED slots
     \/ /\ c \in RunCallers /\ lock = None /\ FreesSlot(c)
        /\ slots' = [slots EXCEPT ![held[c]] = FreeSlot]
        /\ UNCHANGED tasks
  /\ pc' = [pc EXCEPT ![c] = "done"]
  /\ UNCHANGED <<at, nextAt, remembered, held, outcome, queueVars, grant, beatVars>>

-----------------------------------------------------------------------------
(* Time and crashes.                                                       *)

Less(n) == IF n = 0 THEN 0 ELSE n - 1

\* A tick: leases run down, heartbeats grow old. Nothing keeps a holder from
\* being slower than its lease: a suspended machine, a blocked event loop. A
\* tick does not pass inside a section: the code's own premise is that one
\* lasts milliseconds.
Tick ==
  /\ lock = None
  /\ \/ \E i \in Slots : slots[i].ttl > 0
     \/ \E t \in Tasks : tasks[t].ttl > 0
     \/ \E w \in waiters : age[w] <= WaiterExpiry
  /\ slots' = [i \in Slots |->
                 [owner |-> slots[i].owner, ttl |-> Less(slots[i].ttl)]]
  /\ tasks' = [t \in Tasks |-> WithTtl(tasks[t], Less(tasks[t].ttl))]
  /\ grant' = [c \in Callers |-> Less(grant[c])]
  /\ age' = [w \in Callers |-> IF w \in waiters /\ age[w] <= WaiterExpiry
                               THEN age[w] + 1 ELSE age[w]]
  /\ UNCHANGED <<callVars, waiters, bypassed, overtaken, beatVars>>

Active == {"entering", "polling", "working", "cleanup", "release", "unlinking"}

\* A process dies: its calls and timers vanish, files stay as they are. The
\* .lock it may hold names a dead pid, which the next contender clears.
Crash(p) ==
  LET victims == {c \in Callers : ProcOf[c] = p /\ pc[c] \in Active} IN
  /\ Fault
  /\ victims # {} \/ \E c \in Callers : beat[c] /\ ProcOf[c] = p
  /\ pc' = [c \in Callers |-> IF c \in victims THEN "dead" ELSE pc[c]]
  /\ beat' = [c \in Callers |-> beat[c] /\ ProcOf[c] # p]
  /\ grant' = [c \in Callers |-> IF c \in victims THEN 0 ELSE grant[c]]
  /\ lock' = IF lock # None /\ ProcOf[lock] = p THEN None ELSE lock
  /\ UNCHANGED <<at, nextAt, remembered, held, outcome, queueVars, slots, tasks, robbed>>

\* Every call is over.
Finished ==
  /\ \A c \in Callers : pc[c] \in {"idle", "done", "dead"}
  /\ UNCHANGED vars

-----------------------------------------------------------------------------
Wait(c) == \/ TakeResult(c) \/ ClaimDone(c) \/ Follow(c)
           \/ KeepWaiting(c) \/ Claim(c)
Work(c) == Publish(c) \/ Abandon(c) \/ BuildFails(c) \/ SlotWorkEnds(c)
Clean(c) == \/ Dequeue(c) \/ Release(c)
            \/ SlotReleaseReads(c) \/ SlotReleaseUnlinks(c)
Beat(c) == BeatFires(c) \/ BeatReads(c) \/ BeatWrites(c)
GoesWrong(c) == \/ EnqueueFails(c) \/ CancelWaiting(c)
                \/ ClaimBreaks(c) \/ BeatFails(c)
                \/ DequeueFails(c) \/ ReleaseFails(c)

Next ==
  \/ \E c \in Callers : \/ Enter(c) \/ Enqueue(c) \/ Wait(c)
                        \/ Work(c) \/ Clean(c) \/ Beat(c) \/ GoesWrong(c)
  \/ Tick
  \/ \E p \in Procs : Crash(p)
  \/ Finished

Spec == Init /\ [][Next]_vars

(* Fairness: a call of a live process keeps going - the poll loop and the
   finally block are promises the event loop runs; the lock's polling loop
   lets each of them in; a build ends (its executor has its own time limits);
   time passes. Nobody has to call, crash, cancel or fail. *)
Fairness ==
  /\ \A c \in Callers :
       /\ WF_vars(Enqueue(c))
       /\ WF_vars(Wait(c))
       /\ WF_vars(Work(c))
       /\ WF_vars(Clean(c))
       /\ WF_vars(BeatWrites(c))
  /\ WF_vars(Tick)

FairSpec == Spec /\ Fairness

-----------------------------------------------------------------------------
(* Properties.                                                             *)

Statuses == {"none", "running", "completed", "failed"}

\* Shape of every variable: what the JSON files can hold.
TypeOK ==
  /\ pc \in [Callers -> Active \cup {"idle", "done", "dead"}]
  /\ at \in [Callers -> Nat] /\ nextAt \in Nat
  /\ waiters \in SUBSET Callers
  /\ bypassed \in [Callers -> BOOLEAN]
  /\ age \in [Callers -> Nat]
  /\ remembered \in [Callers -> BOOLEAN]
  /\ slots \in [Slots -> [owner : Callers \cup {None}, ttl : 0 .. Lease]]
  /\ tasks \in [Tasks -> [status : Statuses, owner : RunCallers \cup {None},
                          ttl : 0 .. Lease, result : RunCallers \cup {None}]]
  /\ held \in [Callers -> Slots \cup {None}]
  /\ beat \in [Callers -> BOOLEAN]
  /\ lock \in Callers \cup {None}
  /\ faults \in 0 .. MaxFaults
  /\ outcome \in [Callers -> Callers \cup {None, Error}]
  /\ grant \in [Callers -> 0 .. Lease]
  /\ overtaken \in [Callers -> Nat]
  /\ robbed \in SUBSET Callers

\* A call that works under a lease it has kept alive.
Holds(c) == pc[c] = "working" /\ grant[c] > 0

\* The limit is a limit: two calls that both work under a living lease work
\* in different slots, so no more than Limit of them do. It is not: the release
\* of withSlot unlinks a slot that has been claimed since it was read, and the
\* next call claims it again.
LimitRespected ==
  \A c, d \in Callers : Holds(c) /\ Holds(d) /\ c # d => held[c] # held[d]

\* That unlink is the only way over the limit: as long as no other call's release
\* has unlinked the slot of either, two calls that work under a living lease work
\* in different slots - although leases expire under a living holder, slots are
\* claimed anew, freed late and renewed by timers that fired before the release.
LimitUnlessRobbed ==
  \A c, d \in Callers \ robbed : Holds(c) /\ Holds(d) /\ c # d => held[c] # held[d]

\* A call that ended with no disk error has given its slot back for good: no
\* heartbeat of its own brings the slot back to life.
ReleasedStaysFree ==
  \A c \in Callers :
    pc[c] = "done" /\ faults = 0 => \A i \in Slots : slots[i].owner # c

\* ... which is so for the calls of run, that free their slot under the lock,
\* beside calls of withSlot too.
RunsReleaseForGood ==
  \A c \in RunCallers :
    pc[c] = "done" /\ faults = 0 => \A i \in Slots : slots[i].owner # c

\* Single-flight: of two calls that build the same task at the same time, at
\* least one has outlived its lease.
OneLiveBuilder ==
  \A c, d \in RunCallers :
    Holds(c) /\ Holds(d) /\ c # d => TaskOf[c] # TaskOf[d]

\* Every call of run that is answered for a task is answered with the one
\* value its completed record holds, whoever built it and whenever it asked:
\* a builder whose lease was taken over never returns a value of its own.
SameResult ==
  \A c \in RunCallers :
    outcome[c] \in Callers =>
      Completed(TaskOf[c]) /\ tasks[TaskOf[c]].result = outcome[c]

\* A completed task is never rebuilt, failed or given another result, by a
\* late heartbeat, a late publication or a late finally block.
CompletedIsFinal ==
  [][\A t \in Tasks : Completed(t) => tasks'[t] = tasks[t]]_vars

\* Interactive priority is worth one overtake: a batch call is passed by at
\* most one interactive call that arrived after it, followers included, for as
\* long as its record survives.
OvertakenOnce ==
  \A c \in Callers \ Interactive : overtaken[c] <= 1

\* Between calls of one process: a call that waits is not thrown out of the
\* queue, however late its heartbeat; it leaves only to follow a builder. (A
\* call of another process may take it for dead.)
KeepsItsPlace ==
  [][\A w \in waiters \ waiters' :
       pc[w] = "polling" /\ pc'[w] = "polling"
         => w \in RunCallers /\ RunningLive(TaskOf[w])]_vars

\* Every call that waits ends, although holders crash with a slot, waiters
\* crash at the head of the queue, claims break off half written and finally
\* blocks fail; unless its own process dies.
EveryoneServed ==
  \A c \in Callers : pc[c] = "polling" ~> pc[c] \in {"done", "dead"}

\* Refinement: run is a memo with one value per task.
SF == INSTANCE SingleFlight WITH
        Callers <- RunCallers,
        value <- [t \in Tasks |-> tasks[t].result],
        outcome <- [c \in RunCallers |->
                      IF pc[c] = "done" THEN outcome[c] ELSE None]
IsSingleFlight == SF!Spec
=============================================================================
