---------------------------- MODULE LiveParts_proofs ----------------------------
(***************************************************************************)
(* The .lock protocol excludes, for any number of calls and processes, as  *)
(* long as no owner died and no file was left behind. LockInv says why:    *)
(* then every file on disk belongs to a call that is in its section, so    *)
(* none is ever taken for stale.                                           *)
(*                                                                         *)
(* And the queue, for any calls, keys and places: QueueInv, by which the   *)
(* count is that of the works that hold a place, the line has each waiter  *)
(* once, and the consumers of a work are the calls that follow it, so that *)
(* the last one to leave is the last.                                      *)
(***************************************************************************)
EXTENDS LiveParts, FiniteSetTheorems, TLAPS

LEMMA NewFile ==
  ASSUME NEW c \in Calls, NEW w \in BOOLEAN
  PROVE  /\ [owner |-> c, written |-> w] \in Files
         /\ [owner |-> c, written |-> w] # NoFile
         /\ [owner |-> c, written |-> w].owner = c
  BY LockAssumption DEF Files

LEMMA InitType == Init => TypeOK
  BY LockAssumption DEF Init, TypeOK, InSection, Over

LEMMA TypeStep == TypeOK /\ [Next]_vars => TypeOK'
<1> SUFFICES ASSUME TypeOK, [Next]_vars PROVE TypeOK'
  OBVIOUS
<1> USE LockAssumption DEF TypeOK, Goes, InSection, Over, Files, Fault
<1>1. ASSUME NEW c \in Calls, Call(c) \/ Advance(c) \/ LeavesFile(c)
      PROVE  TypeOK'
  <2>1. CASE Call(c) \/ FirstStat(c) \/ Read(c) \/ SecondStat(c)
    BY <2>1 DEF Call, FirstStat, Read, SecondStat
  <2>2. CASE Create(c) \/ WritePid(c) \/ UnlinkStale(c) \/ Unlock(c)
    <3>1. file' \in Files \cup {NoFile}
      <4> HIDE DEF Files
      <4> QED BY <2>2, NewFile DEF Create, WritePid, UnlinkStale, Unlock
    <3>2. /\ pc' \in [Calls -> InSection \cup Over
                      \cup {"trying", "reading", "suspecting", "unlinking"}]
          /\ UNCHANGED <<seen, aged, dead, faults>>
      BY <2>2 DEF Create, WritePid, UnlinkStale, Unlock
    <3> QED BY <3>1, <3>2
  <2>3. CASE LeavesFile(c)
    BY <2>3 DEF LeavesFile
  <2> QED BY <1>1, <2>1, <2>2, <2>3 DEF Advance
<1>2. ASSUME NEW p \in Procs, Crash(p) PROVE TypeOK'
  BY <1>2 DEF Crash
<1>3. CASE Age
  BY <1>3 DEF Age
<1>4. CASE Finished \/ UNCHANGED vars
  BY <1>4 DEF Finished, vars
<1> QED BY <1>1, <1>2, <1>3, <1>4 DEF Next

\* Every variable keeps its shape.
THEOREM LockTypeCorrect == Spec => []TypeOK
  BY InitType, TypeStep, PTL DEF Spec

LockInv ==
  faults = 0 =>
    /\ dead = {} /\ aged = {}
    /\ file # NoFile => pc[file.owner] \in InSection
    /\ \A c \in Calls : pc[c] \in InSection => file # NoFile /\ file.owner = c
    /\ \A c \in Calls : pc[c] \notin {"suspecting", "unlinking", "dead"}

LEMMA LockStep == TypeOK /\ LockInv /\ [Next]_vars => LockInv'
<1> SUFFICES ASSUME TypeOK, LockInv, [Next]_vars, faults' = 0
             PROVE  LockInv'
  BY DEF LockInv
<1> USE DEF Goes, InSection, Over, Files
<1>0. /\ faults = 0
      /\ ~ \E c \in Calls : LeavesFile(c)
      /\ ~ \E p \in Procs : Crash(p)
  BY LockAssumption
  DEF TypeOK, Next, Call, Advance, Create, FirstStat, WritePid, Read, SecondStat,
      UnlinkStale, Unlock, LeavesFile, Crash, Fault, Age, Finished, vars
<1>1. ASSUME NEW c \in Calls, Call(c) \/ Advance(c) PROVE LockInv'
  <2>1. CASE Call(c) \/ FirstStat(c) \/ SecondStat(c) \/ UnlinkStale(c)
    BY <1>0, <2>1 DEF LockInv, TypeOK, Call, FirstStat, SecondStat, UnlinkStale
  <2>2. CASE Create(c)
    <3>1. \A d \in Calls : pc[d] \notin InSection
      BY <1>0, <2>2 DEF LockInv, Create
    <3>2. file' # NoFile /\ file'.owner = c
      BY <2>2, NewFile DEF Create
    <3>3. pc' = [pc EXCEPT ![c] = "created"] /\ UNCHANGED <<aged, dead, faults>>
      BY <2>2 DEF Create
    <3> QED BY <1>0, <3>1, <3>2, <3>3 DEF LockInv, TypeOK
  <2>3. CASE Read(c)
    <3>1. ~IsStale(c)
      BY <1>0 DEF LockInv, IsStale
    <3> QED BY <1>0, <2>3, <3>1 DEF LockInv, TypeOK, Read
  <2>4. CASE WritePid(c)
    <3>1. file # NoFile /\ file.owner = c
      BY <1>0, <2>4 DEF LockInv, WritePid
    <3>2. file' # NoFile /\ file'.owner = c
      BY <2>4, <3>1, NewFile DEF WritePid
    <3>3. /\ pc[c] = "created" /\ pc' = [pc EXCEPT ![c] = "holding"]
          /\ UNCHANGED <<aged, dead, faults>>
      BY <2>4 DEF WritePid
    <3> QED BY <1>0, <3>1, <3>2, <3>3 DEF LockInv, TypeOK
  <2>5. CASE Unlock(c)
    BY <1>0, <2>5 DEF LockInv, TypeOK, Unlock
  <2> QED BY <1>1, <2>1, <2>2, <2>3, <2>4, <2>5 DEF Advance
<1>2. CASE Age
  BY <1>0, <1>2 DEF LockInv, Age
<1>3. CASE Finished \/ UNCHANGED vars
  BY <1>0, <1>3 DEF LockInv, Finished, vars
<1> QED BY <1>0, <1>1, <1>2, <1>3 DEF Next

\* While nothing has gone wrong, two critical sections never overlap.
THEOREM LockExcludes == Spec => []ExclusiveUntilFault
<1>1. Init => LockInv
  BY DEF Init, LockInv, InSection
<1>2. LockInv => ExclusiveUntilFault
  BY DEF LockInv, ExclusiveUntilFault, Exclusive, InSection
<1> QED BY <1>1, <1>2, LockStep, LockTypeCorrect, PTL DEF Spec

-----------------------------------------------------------------------------
(* The queue.                                                              *)

LEMMA Counts == \A S : Q!Cardinality(S) = Cardinality(S)
  BY DEF Q!Cardinality, Cardinality

WorkSteps == {"none", "granted", "waiting", "running", "ended"}
CallSteps == {"idle", "following", "settled", "draining", "done"}
CallRecords == [step : CallSteps, of : Runs \cup {NoWork}, got : Q!Outcome]

QueueType ==
  /\ queued \in Seq(Runs)
  /\ work \in [Runs -> WorkSteps]
  /\ shared \in [Q!Keys -> Runs \cup {NoWork}]
  /\ consumers = [w \in Runs |-> consumers[w]]
  /\ call \in [Runs -> CallRecords]

Held == {w \in Runs : work[w] \in Q!OnTheirWay}
Followers(w) == {c \in Runs : call[c].of = w /\ call[c].step \in {"following", "settled"}}

\* Who waits is in the line once, and nobody who has not called is anywhere.
LineInv ==
  /\ \A i \in DOMAIN queued : work[queued[i]] = "waiting"
  /\ \A i, j \in DOMAIN queued : queued[i] = queued[j] => i = j
  /\ \A c \in Runs : call[c].step = "idle" => work[c] = "none"
  /\ \A c \in Runs : call[c].step \in {"following", "settled", "draining"} => call[c].of \in Runs

\* The count is that of the works that hold a place.
PlacesInv ==
  /\ IsFiniteSet(Held) /\ inFlight = Cardinality(Held)
  /\ inFlight <= Places
  /\ queued # <<>> => inFlight = Places

\* The consumers of a work are the calls that follow it and have not left.
ConsumersInv ==
  \A w \in Runs : IsFiniteSet(Followers(w)) /\ consumers[w] = Cardinality(Followers(w))

SharedInv ==
  \A c \in Runs : call[c].step = "following" /\ Q!Keyed(c) => shared[KeyOf[c]] = call[c].of

QueueInv == QueueType /\ LineInv /\ PlacesInv /\ ConsumersInv /\ SharedInv

-----------------------------------------------------------------------------
(* Lemmas about the records and the line.                                  *)

LEMMA CallsAre ==
  ASSUME QueueType, NEW c \in Runs
  PROVE  call[c] \in CallRecords /\ call[c].step \in CallSteps /\ call[c].of \in Runs \cup {NoWork} /\ call[c].got \in Q!Outcome
<1>1. call[c] \in CallRecords BY DEF QueueType
<1> QED BY <1>1 DEF CallRecords

CallMoves(c) == call' \in [Runs -> CallRecords] /\ \A o \in Runs : o # c => call'[o] = call[o]

LEMMA CallIs ==
  ASSUME QueueType, NEW c \in Runs, NEW x \in CallRecords, Q!Is(c, x)
  PROVE  CallMoves(c) /\ call'[c] = x
  BY DEF QueueType, Q!Is, CallMoves

\* A call whose step is another, and nothing else.
LEMMA CallGoes ==
  ASSUME QueueType, NEW c \in Runs, NEW step \in CallSteps, Q!Is(c, [call[c] EXCEPT !.step = step])
  PROVE  CallMoves(c) /\ call'[c].step = step /\ call'[c].of = call[c].of
<1> DEFINE x == [call[c] EXCEPT !.step = step]
<1>1. x \in CallRecords /\ x.step = step /\ x.of = call[c].of
  BY CallsAre DEF CallRecords
<1> HIDE DEF x
<1> QED BY <1>1, CallIs DEF x

\* A line without somebody is the line there was, somebody less.
LEMMA LineWithout ==
  ASSUME QueueType, LineInv, NEW w \in Runs, NEW line, line = Q!Without(w)
  PROVE  /\ line \in Seq(Runs)
         /\ \A i \in DOMAIN line : line[i] # w /\ \E j \in DOMAIN queued : line[i] = queued[j]
         /\ \A i, j \in DOMAIN line : line[i] = line[j] => i = j
         /\ line # <<>> => queued # <<>>
<1>1. queued \in Seq(Runs) /\ DOMAIN queued = 1 .. Len(queued) /\ Len(queued) \in Nat
  BY DEF QueueType
<1>2. \A i, j \in DOMAIN queued : queued[i] = queued[j] => i = j
  BY DEF LineInv
<1>3. CASE ~\E i \in DOMAIN queued : queued[i] = w
  BY <1>1, <1>2, <1>3 DEF Q!Without
<1>4. CASE \E i \in DOMAIN queued : queued[i] = w
  <2> DEFINE idx == CHOOSE i \in DOMAIN queued : queued[i] = w
  <2>1. idx \in DOMAIN queued /\ queued[idx] = w
    BY <1>4
  <2>2. line = [i \in 1 .. Len(queued) - 1 |-> queued[IF i < idx THEN i ELSE i + 1]]
    BY <1>4 DEF Q!Without
  <2> HIDE DEF idx
  <2>3. \A i \in 1 .. Len(queued) - 1 : (IF i < idx THEN i ELSE i + 1) \in DOMAIN queued \ {idx}
    BY <1>1, <2>1
  <2>4. DOMAIN line = 1 .. Len(queued) - 1 /\ \A i \in 1 .. Len(queued) - 1 : line[i] \in Runs
    BY <1>1, <2>2, <2>3
  <2>5. line \in Seq(Runs)
    BY <1>1, <2>1, <2>2, <2>4
  <2>6. ASSUME NEW i \in DOMAIN line PROVE line[i] # w /\ \E j \in DOMAIN queued : line[i] = queued[j]
    BY <1>2, <2>1, <2>2, <2>3, <2>4
  <2>7. ASSUME NEW i \in DOMAIN line, NEW j \in DOMAIN line, line[i] = line[j] PROVE i = j
    <3>1. (IF i < idx THEN i ELSE i + 1) = (IF j < idx THEN j ELSE j + 1)
      BY <1>2, <2>2, <2>3, <2>4, <2>7
    <3> QED BY <1>1, <2>1, <2>4, <3>1
  <2> QED BY <1>1, <2>1, <2>5, <2>6, <2>7
<1> QED BY <1>3, <1>4

-----------------------------------------------------------------------------
(* What the steps do to the places.                                        *)

\* Works that hold a place are those that did.
LEMMA PlacesStay ==
  ASSUME PlacesInv, UNCHANGED inFlight, queued' # <<>> => queued # <<>>,
         \A w \in Runs : work'[w] \in Q!OnTheirWay <=> work[w] \in Q!OnTheirWay
  PROVE  PlacesInv'
<1>1. Held' = Held BY DEF Held
<1> QED BY <1>1 DEF PlacesInv

LEMMA PlaceTaken ==
  ASSUME QueueType, PlacesInv, NEW c \in Runs, work[c] = "none", inFlight < Places, inFlight' = inFlight + 1,
         work' = [work EXCEPT ![c] = "granted"], UNCHANGED queued
  PROVE  PlacesInv'
<1>0. Places \in Nat BY LivePartsAssumption DEF Q!LimitedQueueAssumption
<1>1. Held' = Held \cup {c} /\ c \notin Held
  BY DEF Held, QueueType, Q!OnTheirWay
<1>2. IsFiniteSet(Held') /\ Cardinality(Held') = Cardinality(Held) + 1 /\ Cardinality(Held) \in Nat
  BY <1>1, FS_AddElement, FS_CardinalityType DEF PlacesInv
<1> QED BY <1>0, <1>2 DEF PlacesInv

LEMMA PlaceReleased ==
  ASSUME QueueType, LineInv, PlacesInv, NEW w \in Runs, work[w] = "running", Q!Release([work EXCEPT ![w] = "ended"])
  PROVE  PlacesInv' /\ work' \in [Runs -> WorkSteps] /\ queued' \in Seq(Runs)
<1>0. Places \in Nat BY LivePartsAssumption DEF Q!LimitedQueueAssumption
<1>1. w \in Held BY DEF Held, Q!OnTheirWay
<1>2. /\ IsFiniteSet(Held \ {w}) /\ Cardinality(Held \ {w}) = Cardinality(Held) - 1
      /\ Cardinality(Held) \in Nat
  BY <1>1, FS_RemoveElement, FS_CardinalityType DEF PlacesInv
<1>3. CASE queued = <<>>
  <2>1. /\ inFlight' = inFlight - 1 /\ work' = [work EXCEPT ![w] = "ended"] /\ UNCHANGED queued
    BY <1>3 DEF Q!Release
  <2>2. Held' = Held \ {w}
    BY <2>1 DEF Held, QueueType, Q!OnTheirWay
  <2> QED BY <1>0, <1>2, <1>3, <2>1, <2>2 DEF PlacesInv, QueueType, WorkSteps
<1>4. CASE queued # <<>>
  <2> DEFINE h == Head(queued)
  <2>1. /\ queued' = Tail(queued) /\ work' = [[work EXCEPT ![w] = "ended"] EXCEPT ![h] = "granted"] /\ UNCHANGED inFlight
    BY <1>4 DEF Q!Release
  <2>2. h \in Runs /\ work[h] = "waiting"
    BY <1>4 DEF QueueType, LineInv
  <2> HIDE DEF h
  <2>3. Held' = (Held \ {w}) \cup {h} /\ h \notin Held \ {w}
    BY <2>1, <2>2 DEF Held, QueueType, Q!OnTheirWay
  <2>4. IsFiniteSet(Held') /\ Cardinality(Held') = Cardinality(Held)
    <3> DEFINE H == Held \ {w}
    <3>1. IsFiniteSet(H) /\ Cardinality(H) = Cardinality(Held) - 1 BY <1>2
    <3>2. Held' = H \cup {h} /\ h \notin H BY <2>3
    <3> HIDE DEF H
    <3>3. IsFiniteSet(H \cup {h}) /\ Cardinality(H \cup {h}) = Cardinality(H) + 1
      BY <3>1, <3>2, FS_AddElement
    <3> QED BY <1>2, <3>1, <3>2, <3>3
  <2>5. queued' \in Seq(Runs) /\ work' \in [Runs -> WorkSteps]
    BY <1>4, <2>1, <2>2 DEF QueueType, WorkSteps
  <2> QED BY <1>4, <2>1, <2>4, <2>5 DEF PlacesInv
<1> QED BY <1>3, <1>4

-----------------------------------------------------------------------------
(* What the steps do to the consumers.                                     *)

\* Calls follow the works that they followed.
LEMMA ConsumersStay ==
  ASSUME ConsumersInv, UNCHANGED consumers,
         \A c \in Runs : /\ call'[c].of = call[c].of
                         /\ call'[c].step \in {"following", "settled"} <=> call[c].step \in {"following", "settled"}
  PROVE  ConsumersInv'
<1>1. ASSUME NEW w \in Runs PROVE Followers(w)' = Followers(w)
  BY DEF Followers
<1> QED BY <1>1 DEF ConsumersInv

LEMMA ConsumerComes ==
  ASSUME QueueType, ConsumersInv, NEW c \in Runs, NEW w \in Runs, call[c].step = "idle", Q!Follows(c, w)
  PROVE  /\ ConsumersInv' /\ consumers' = [x \in Runs |-> consumers'[x]]
         /\ CallMoves(c) /\ call'[c].step = "following" /\ call'[c].of = w
<1> DEFINE x == [call[c] EXCEPT !.step = "following", !.of = w]
<1>1. x \in CallRecords /\ x.step = "following" /\ x.of = w
  BY CallsAre DEF CallRecords, CallSteps
<1>2. Q!Is(c, x) BY DEF Q!Follows
<1> HIDE DEF x
<1>3. CallMoves(c) /\ call'[c] = x
  BY <1>1, <1>2, CallIs
<1>4. consumers' = [consumers EXCEPT ![w] = consumers[w] + 1]
  BY DEF Q!Follows
<1>5. Followers(w)' = Followers(w) \cup {c} /\ c \notin Followers(w)
  BY <1>1, <1>3 DEF Followers, CallMoves
<1>6. ASSUME NEW v \in Runs, v # w PROVE Followers(v)' = Followers(v)
  BY <1>1, <1>3, <1>6 DEF Followers, CallMoves
<1>7. IsFiniteSet(Followers(w)') /\ Cardinality(Followers(w)') = consumers[w] + 1
  BY <1>5, FS_AddElement DEF ConsumersInv
<1>8. consumers' = [v \in Runs |-> consumers'[v]] /\ consumers'[w] = consumers[w] + 1
      /\ \A v \in Runs : v # w => consumers'[v] = consumers[v]
  BY <1>4 DEF QueueType
<1>9. ConsumersInv'
  BY <1>6, <1>7, <1>8 DEF ConsumersInv
<1> QED BY <1>1, <1>3, <1>8, <1>9

\* A call that has settled leaves its work.
LEMMA ConsumerLeaves ==
  ASSUME QueueType, ConsumersInv, NEW c \in Runs, call[c].step = "settled", call[c].of \in Runs,
         CallMoves(c), call'[c].of = call[c].of, call'[c].step \notin {"following", "settled"},
         consumers' = [consumers EXCEPT ![call[c].of] = consumers[call[c].of] - 1]
  PROVE  ConsumersInv' /\ consumers' = [w \in Runs |-> consumers'[w]]
<1> DEFINE w == call[c].of
<1>5. Followers(w)' = Followers(w) \ {c} /\ c \in Followers(w)
  BY DEF Followers, CallMoves
<1>6. ASSUME NEW v \in Runs, v # w PROVE Followers(v)' = Followers(v)
  BY <1>6 DEF Followers, CallMoves
<1>7. IsFiniteSet(Followers(w)') /\ Cardinality(Followers(w)') = consumers[w] - 1
  BY <1>5, FS_RemoveElement DEF ConsumersInv
<1>8. consumers' = [v \in Runs |-> consumers'[v]] /\ consumers'[w] = consumers[w] - 1
      /\ \A v \in Runs : v # w => consumers'[v] = consumers[v]
  BY DEF QueueType
<1> QED BY <1>6, <1>7, <1>8 DEF ConsumersInv

\* Nobody follows the work of the last one to leave.
LEMMA LastIsLast ==
  ASSUME ConsumersInv, NEW c \in Runs, call[c].step = "settled", call[c].of \in Runs, Q!LastOne(c)
  PROVE  \A o \in Runs : o # c /\ call[o].of = call[c].of => call[o].step \notin {"following", "settled"}
<1> DEFINE S == Followers(call[c].of)
<1>1. IsFiniteSet(S) /\ Cardinality(S) = 1 /\ c \in S
  BY DEF ConsumersInv, Q!LastOne, Followers
<1>2. S = {c}
  BY <1>1, FS_Singleton
<1> QED BY <1>2 DEF Followers

-----------------------------------------------------------------------------
(* The steps of the queue.                                                 *)

LEMMA RefuseKeeps ==
  ASSUME QueueInv, NEW c \in Runs, Q!Refuse(c)
  PROVE  QueueInv'
<1> DEFINE x == [call[c] EXCEPT !.step = "done", !.got = "cancelled"]
<1>1. x \in CallRecords /\ x.step = "done" /\ x.of = call[c].of
  BY CallsAre DEF QueueInv, CallRecords, CallSteps, Q!Outcome
<1>2. Q!Is(c, x) /\ call[c].step = "idle" /\ UNCHANGED <<inFlight, queued, work, shared, consumers>>
  BY DEF Q!Refuse
<1> HIDE DEF x
<1>3. CallMoves(c) /\ call'[c].step = "done" /\ call'[c].of = call[c].of
  BY <1>1, <1>2, CallIs DEF QueueInv
<1> USE DEF QueueInv, CallMoves
<1>4. QueueType' BY <1>2, <1>3 DEF QueueType
<1>5. LineInv' BY <1>2, <1>3 DEF LineInv
<1>6. PlacesInv' BY <1>2, PlacesStay
<1>7. ConsumersInv' BY <1>2, <1>3, ConsumersStay
<1>8. SharedInv' BY <1>2, <1>3 DEF SharedInv
<1> QED BY <1>4, <1>5, <1>6, <1>7, <1>8

LEMMA JoinKeeps ==
  ASSUME QueueInv, NEW c \in Runs, Q!Join(c)
  PROVE  QueueInv'
<1> DEFINE w == shared[KeyOf[c]]
<1>1. /\ call[c].step = "idle" /\ Q!Keyed(c) /\ w # NoWork /\ Q!Follows(c, w)
      /\ UNCHANGED <<inFlight, queued, work, shared>>
  BY DEF Q!Join
<1>2. w \in Runs
  BY <1>1 DEF QueueInv, QueueType, Q!Keys, Q!Keyed
<1>3. /\ ConsumersInv' /\ consumers' = [v \in Runs |-> consumers'[v]]
      /\ CallMoves(c) /\ call'[c].step = "following" /\ call'[c].of = w
  BY <1>1, <1>2, ConsumerComes DEF QueueInv
<1> HIDE DEF w
<1> USE DEF QueueInv, CallMoves
<1>4. QueueType' BY <1>1, <1>3 DEF QueueType
<1>5. LineInv' BY <1>1, <1>2, <1>3 DEF LineInv
<1>6. PlacesInv' BY <1>1, PlacesStay
<1>8. SharedInv' BY <1>1, <1>3 DEF SharedInv, w
<1> QED BY <1>3, <1>4, <1>5, <1>6, <1>8

LEMMA StartKeeps ==
  ASSUME QueueInv, NEW c \in Runs, Q!Start(c)
  PROVE  QueueInv'
<1>0. Places \in Nat /\ NoWork \notin Runs BY LivePartsAssumption DEF Q!LimitedQueueAssumption
<1>1. /\ call[c].step = "idle" /\ Q!Follows(c, c) /\ (Q!Keyed(c) => shared[KeyOf[c]] = NoWork)
      /\ shared' = [k \in Q!Keys |-> IF k = KeyOf[c] THEN c ELSE shared[k]]
  BY DEF Q!Start
<1>2. work[c] = "none" /\ inFlight \in Nat /\ \A i \in DOMAIN queued : queued[i] # c
  BY <1>1, FS_CardinalityType DEF QueueInv, LineInv, PlacesInv
<1>3. /\ ConsumersInv' /\ consumers' = [v \in Runs |-> consumers'[v]]
      /\ CallMoves(c) /\ call'[c].step = "following" /\ call'[c].of = c
  BY <1>1, ConsumerComes DEF QueueInv
<1>4. shared' \in [Q!Keys -> Runs \cup {NoWork}]
  BY <1>1 DEF QueueInv, QueueType
<1>5. /\ PlacesInv' /\ queued' \in Seq(Runs) /\ work' \in [Runs -> WorkSteps]
      /\ \A o \in Runs : o # c => work'[o] = work[o]
      /\ \A i \in DOMAIN queued' : work'[queued'[i]] = "waiting"
      /\ \A i, j \in DOMAIN queued' : queued'[i] = queued'[j] => i = j
  <2>1. CASE inFlight < Places
    <3>1. inFlight' = inFlight + 1 /\ work' = [work EXCEPT ![c] = "granted"] /\ UNCHANGED queued
      BY <2>1 DEF Q!Start
    <3>2. PlacesInv'
      BY <1>2, <2>1, <3>1, PlaceTaken DEF QueueInv
    <3> QED BY <1>2, <3>1, <3>2 DEF QueueInv, QueueType, LineInv, WorkSteps
  <2>2. CASE ~(inFlight < Places)
    <3>1. UNCHANGED inFlight /\ work' = [work EXCEPT ![c] = "waiting"] /\ queued' = Append(queued, c)
      BY <2>2 DEF Q!Start
    <3>2. inFlight = Places
      BY <1>0, <1>2, <2>2 DEF QueueInv, PlacesInv
    <3>3. Held' = Held
      BY <1>2, <3>1 DEF Held, QueueInv, QueueType, Q!OnTheirWay
    <3>4. PlacesInv'
      BY <3>1, <3>2, <3>3 DEF QueueInv, PlacesInv
    <3>5. /\ queued' \in Seq(Runs) /\ DOMAIN queued' = 1 .. Len(queued) + 1 /\ queued'[Len(queued) + 1] = c
          /\ DOMAIN queued = 1 .. Len(queued) /\ Len(queued) \in Nat
          /\ \A i \in 1 .. Len(queued) : queued'[i] = queued[i]
      BY <3>1 DEF QueueInv, QueueType
    <3>6. \A i, j \in DOMAIN queued' : queued'[i] = queued'[j] => i = j
      BY <1>2, <3>5 DEF QueueInv, LineInv
    <3>7. \A i \in DOMAIN queued : queued[i] \in Runs /\ work[queued[i]] = "waiting"
      BY DEF QueueInv, QueueType, LineInv
    <3>8. /\ work' \in [Runs -> WorkSteps] /\ work'[c] = "waiting"
          /\ \A o \in Runs : o # c => work'[o] = work[o]
      BY <3>1 DEF QueueInv, QueueType, WorkSteps
    <3>9. \A i \in DOMAIN queued' : work'[queued'[i]] = "waiting"
      BY <1>2, <3>5, <3>7, <3>8
    <3> QED BY <3>4, <3>5, <3>6, <3>8, <3>9
  <2> QED BY <2>1, <2>2
<1> USE DEF QueueInv, CallMoves
<1>6. QueueType' BY <1>3, <1>4, <1>5 DEF QueueType
<1>7. LineInv' BY <1>3, <1>5 DEF LineInv
<1>8. SharedInv'
  <2>1. ASSUME NEW o \in Runs, o # c, call'[o].step = "following", Q!Keyed(o)
        PROVE  shared'[KeyOf[o]] = call'[o].of
    <3>1. call'[o] = call[o] /\ shared[KeyOf[o]] = call[o].of /\ call[o].of \in Runs
      BY <1>3, <2>1 DEF SharedInv, LineInv
    <3>2. KeyOf[o] \in Q!Keys /\ KeyOf[o] # KeyOf[c]
      BY <1>0, <1>1, <2>1, <3>1 DEF Q!Keys, Q!Keyed
    <3> QED BY <1>1, <3>1, <3>2
  <2>2. Q!Keyed(c) => shared'[KeyOf[c]] = call'[c].of
    BY <1>1, <1>3 DEF Q!Keys, Q!Keyed
  <2> QED BY <2>1, <2>2 DEF SharedInv, Q!Keyed
<1> QED BY <1>3, <1>5, <1>6, <1>7, <1>8

LEMMA BeginKeeps ==
  ASSUME QueueInv, NEW w \in Runs, Q!Begin(w)
  PROVE  QueueInv'
<1>1. /\ work[w] = "granted" /\ work' = [work EXCEPT ![w] = "running"]
      /\ UNCHANGED <<inFlight, queued, shared, consumers, call>>
  BY DEF Q!Begin
<1> USE DEF QueueInv
<1>2. work' \in [Runs -> WorkSteps] /\ work'[w] = "running" /\ \A o \in Runs : o # w => work'[o] = work[o]
  BY <1>1 DEF QueueType, WorkSteps
<1>3. QueueType' BY <1>1, <1>2 DEF QueueType
<1>4. LineInv' BY <1>1, <1>2 DEF LineInv, QueueType
<1>5. PlacesInv' BY <1>1, <1>2, PlacesStay DEF Q!OnTheirWay
<1>6. ConsumersInv' /\ SharedInv' BY <1>1, ConsumersStay DEF SharedInv
<1> QED BY <1>3, <1>4, <1>5, <1>6

\* Those who follow a work are told; the others go on.
LEMMA ToldAre ==
  ASSUME QueueType, NEW w \in Runs, NEW how \in Q!Outcome, call' = Q!Told(w, how)
  PROVE  /\ call' \in [Runs -> CallRecords]
         /\ \A c \in Runs : call'[c].of = call[c].of
         /\ \A c \in Runs : call'[c].step = IF call[c].of = w /\ call[c].step = "following" THEN "settled" ELSE call[c].step
<1>1. ASSUME NEW c \in Runs
      PROVE  /\ call'[c] \in CallRecords /\ call'[c].of = call[c].of
             /\ call'[c].step = IF call[c].of = w /\ call[c].step = "following" THEN "settled" ELSE call[c].step
  <2> DEFINE x == [call[c] EXCEPT !.step = "settled", !.got = how]
  <2>1. x \in CallRecords /\ x.of = call[c].of /\ x.step = "settled"
    BY CallsAre DEF CallRecords, CallSteps
  <2>2. call'[c] = IF call[c].of = w /\ call[c].step = "following" THEN x ELSE call[c]
    BY DEF Q!Told
  <2> HIDE DEF x
  <2> QED BY <2>1, <2>2, CallsAre
<1> QED BY <1>1 DEF Q!Told

LEMMA ForgottenType ==
  ASSUME QueueType, NEW w
  PROVE  /\ Q!Forgotten(w) \in [Q!Keys -> Runs \cup {NoWork}]
         /\ \A k \in Q!Keys : shared[k] # w => Q!Forgotten(w)[k] = shared[k]
  BY DEF QueueType, Q!Forgotten

LEMMA EndKeeps ==
  ASSUME QueueInv, NEW w \in Runs, Q!End(w)
  PROVE  QueueInv'
<1>1. PICK how \in Q!Outcome : Q!Release([work EXCEPT ![w] = "ended"]) /\ call' = Q!Told(w, how)
  BY DEF Q!End
<1>2. work[w] = "running" /\ shared' = Q!Forgotten(w) /\ UNCHANGED consumers
  BY DEF Q!End
<1> USE DEF QueueInv
<1>3. PlacesInv' /\ work' \in [Runs -> WorkSteps] /\ queued' \in Seq(Runs)
  BY <1>1, <1>2, PlaceReleased
<1>4. /\ call' \in [Runs -> CallRecords]
      /\ \A c \in Runs : call'[c].of = call[c].of
      /\ \A c \in Runs : call'[c].step = IF call[c].of = w /\ call[c].step = "following" THEN "settled" ELSE call[c].step
  BY <1>1, ToldAre
<1>5. QueueType' BY <1>2, <1>3, <1>4, ForgottenType DEF QueueType
<1>6. ConsumersInv' BY <1>2, <1>4, ConsumersStay
<1>7. SharedInv'
  <2>1. ASSUME NEW o \in Runs, call'[o].step = "following", Q!Keyed(o)
        PROVE  shared'[KeyOf[o]] = call'[o].of
    <3>1. call[o].step = "following" /\ call[o].of # w /\ call'[o].of = call[o].of
      BY <1>4, <2>1
    <3>2. shared[KeyOf[o]] = call[o].of /\ KeyOf[o] \in Q!Keys
      BY <2>1, <3>1 DEF SharedInv, Q!Keys, Q!Keyed
    <3> QED BY <1>2, <3>1, <3>2, ForgottenType
  <2> QED BY <2>1 DEF SharedInv, Q!Keyed
<1>8. /\ \A i \in DOMAIN queued' : work'[queued'[i]] = "waiting"
      /\ \A i, j \in DOMAIN queued' : queued'[i] = queued'[j] => i = j
      /\ \A o \in Runs : work[o] = "none" => work'[o] = "none"
  <2>1. CASE queued = <<>>
    BY <1>1, <1>2, <2>1 DEF Q!Release, LineInv, QueueType
  <2>2. CASE queued # <<>>
    <3> DEFINE h == Head(queued)
    <3>1. /\ queued' = Tail(queued) /\ work' = [[work EXCEPT ![w] = "ended"] EXCEPT ![h] = "granted"]
      BY <1>1, <2>2 DEF Q!Release
    <3>2. /\ h = queued[1] /\ h \in Runs /\ work[h] = "waiting" /\ DOMAIN queued = 1 .. Len(queued) /\ Len(queued) \in Nat
          /\ 1 \in DOMAIN queued
      BY <2>2 DEF QueueType, LineInv
    <3>3. DOMAIN queued' = 1 .. Len(queued) - 1 /\ \A i \in 1 .. Len(queued) - 1 : queued'[i] = queued[i + 1]
      BY <2>2, <3>1 DEF QueueType
    <3> HIDE DEF h
    <3>4. ASSUME NEW i \in DOMAIN queued'
          PROVE  /\ i + 1 \in DOMAIN queued /\ queued'[i] = queued[i + 1] /\ queued'[i] # h
                 /\ queued'[i] \in Runs /\ work[queued'[i]] = "waiting"
      BY <3>2, <3>3 DEF LineInv, QueueType
    <3>5. \A i \in DOMAIN queued' : work'[queued'[i]] = "waiting"
      BY <1>2, <3>1, <3>4 DEF QueueType
    <3>6. \A i, j \in DOMAIN queued' : queued'[i] = queued'[j] => i = j
      BY <3>2, <3>3, <3>4 DEF LineInv
    <3>7. \A o \in Runs : work[o] = "none" => work'[o] = "none"
      BY <1>2, <3>1, <3>2 DEF QueueType
    <3> QED BY <3>5, <3>6, <3>7
  <2> QED BY <2>1, <2>2
<1>9. LineInv' BY <1>4, <1>8 DEF LineInv
<1> QED BY <1>3, <1>5, <1>6, <1>7, <1>9

LEMMA DrainedKeeps ==
  ASSUME QueueInv, NEW c \in Runs, Q!Drained(c)
  PROVE  QueueInv'
<1>1. /\ call[c].step = "draining" /\ Q!Is(c, [call[c] EXCEPT !.step = "done"])
      /\ UNCHANGED <<inFlight, queued, work, shared, consumers>>
  BY DEF Q!Drained
<1>2. CallMoves(c) /\ call'[c].step = "done" /\ call'[c].of = call[c].of
  BY <1>1, CallGoes DEF QueueInv, CallSteps
<1> USE DEF QueueInv, CallMoves
<1>4. QueueType' BY <1>1, <1>2 DEF QueueType
<1>5. LineInv' BY <1>1, <1>2 DEF LineInv
<1>6. PlacesInv' BY <1>1, PlacesStay
<1>7. ConsumersInv' BY <1>1, <1>2, ConsumersStay
<1>8. SharedInv' BY <1>1, <1>2 DEF SharedInv
<1> QED BY <1>4, <1>5, <1>6, <1>7, <1>8

LEMMA LeaveKeeps ==
  ASSUME QueueInv, NEW c \in Runs, Q!Leave(c)
  PROVE  QueueInv'
<1>1. /\ call[c].step = "settled" /\ Q!Is(c, [call[c] EXCEPT !.step = "done"])
      /\ consumers' = [consumers EXCEPT ![call[c].of] = consumers[call[c].of] - 1]
      /\ UNCHANGED <<inFlight, queued, work, shared>>
  BY DEF Q!Leave
<1>2. CallMoves(c) /\ call'[c].step = "done" /\ call'[c].of = call[c].of /\ call[c].of \in Runs
  BY <1>1, CallGoes DEF QueueInv, CallSteps, LineInv
<1> USE DEF QueueInv
<1>3. ConsumersInv' /\ consumers' = [w \in Runs |-> consumers'[w]]
  BY <1>1, <1>2, ConsumerLeaves
<1> USE DEF CallMoves
<1>4. QueueType' BY <1>1, <1>2, <1>3 DEF QueueType
<1>5. LineInv' BY <1>1, <1>2 DEF LineInv
<1>6. PlacesInv' BY <1>1, PlacesStay
<1>8. SharedInv' BY <1>1, <1>2 DEF SharedInv
<1> QED BY <1>3, <1>4, <1>5, <1>6, <1>8

\* A waiter that leaves the line, and ends, leaves the places as they are.
LEMMA OutOfLine ==
  ASSUME QueueInv, NEW w \in Runs, UNCHANGED inFlight, queued' = Q!Without(w),
         work' = IF work[w] = "waiting" THEN [work EXCEPT ![w] = "ended"] ELSE work
  PROVE  /\ PlacesInv' /\ queued' \in Seq(Runs) /\ work' \in [Runs -> WorkSteps]
         /\ \A i \in DOMAIN queued' : work'[queued'[i]] = "waiting"
         /\ \A i, j \in DOMAIN queued' : queued'[i] = queued'[j] => i = j
         /\ \A o \in Runs : work[o] = "none" => work'[o] = "none"
<1> USE DEF QueueInv
<1>1. /\ queued' \in Seq(Runs)
      /\ \A i \in DOMAIN queued' : queued'[i] # w /\ \E j \in DOMAIN queued : queued'[i] = queued[j]
      /\ \A i, j \in DOMAIN queued' : queued'[i] = queued'[j] => i = j
      /\ queued' # <<>> => queued # <<>>
  BY LineWithout
<1>2. /\ work' \in [Runs -> WorkSteps] /\ \A o \in Runs : o # w => work'[o] = work[o]
      /\ work'[w] = IF work[w] = "waiting" THEN "ended" ELSE work[w]
  BY DEF QueueType, WorkSteps
<1>3. \A o \in Runs : work'[o] \in Q!OnTheirWay <=> work[o] \in Q!OnTheirWay
  BY <1>2 DEF Q!OnTheirWay
<1>4. PlacesInv' BY <1>1, <1>3, PlacesStay
<1>5. \A j \in DOMAIN queued : queued[j] \in Runs /\ work[queued[j]] = "waiting"
  BY DEF QueueType, LineInv
<1>6. \A i \in DOMAIN queued' : work'[queued'[i]] = "waiting"
  BY <1>1, <1>2, <1>5
<1> QED BY <1>1, <1>2, <1>4, <1>6

LEMMA LastLeavesKeeps ==
  ASSUME QueueInv, NEW c \in Runs, Q!LastLeaves(c)
  PROVE  QueueInv'
<1> DEFINE w == call[c].of
           step == IF c \in aborted /\ call[c].got # "value" /\ Q!Started(w) THEN "draining" ELSE "done"
<1>1. /\ call[c].step = "settled" /\ Q!Keyed(c) /\ Q!LastOne(c)
      /\ consumers' = [consumers EXCEPT ![w] = 0]
      /\ shared' = IF Q!Started(w) THEN shared ELSE Q!Forgotten(w)
      /\ queued' = Q!Without(w) /\ UNCHANGED inFlight
      /\ work' = IF work[w] = "waiting" THEN [work EXCEPT ![w] = "ended"] ELSE work
      /\ Q!Is(c, [call[c] EXCEPT !.step = step])
  BY DEF Q!LastLeaves
<1> USE DEF QueueInv
<1>2. w \in Runs BY <1>1 DEF LineInv
<1>3. step \in {"draining", "done"} /\ step \in CallSteps BY DEF CallSteps
<1> HIDE DEF step
<1>4. CallMoves(c) /\ call'[c].step = step /\ call'[c].of = w
  BY <1>1, <1>3, CallGoes
<1>5. ConsumersInv' /\ consumers' = [v \in Runs |-> consumers'[v]]
  <2>1. consumers' = [consumers EXCEPT ![w] = consumers[w] - 1]
    BY <1>1 DEF Q!LastOne
  <2> QED BY <1>1, <1>2, <1>3, <1>4, <2>1, ConsumerLeaves
<1>6. /\ PlacesInv' /\ queued' \in Seq(Runs) /\ work' \in [Runs -> WorkSteps]
      /\ \A i \in DOMAIN queued' : work'[queued'[i]] = "waiting"
      /\ \A i, j \in DOMAIN queued' : queued'[i] = queued'[j] => i = j
      /\ \A o \in Runs : work[o] = "none" => work'[o] = "none"
  BY <1>1, <1>2, OutOfLine
<1> USE DEF CallMoves
<1>7. QueueType' BY <1>1, <1>4, <1>5, <1>6, ForgottenType DEF QueueType
<1>8. LineInv' BY <1>2, <1>3, <1>4, <1>6 DEF LineInv
<1>9. SharedInv'
  <2>1. ASSUME NEW o \in Runs, call'[o].step = "following", Q!Keyed(o)
        PROVE  shared'[KeyOf[o]] = call'[o].of
    <3>1. o # c /\ call'[o] = call[o] /\ call[o].step = "following"
      BY <1>3, <1>4, <2>1
    <3>2. call[o].of # w
      BY <1>1, <1>2, <3>1, LastIsLast
    <3>3. shared[KeyOf[o]] = call[o].of /\ KeyOf[o] \in Q!Keys
      BY <2>1, <3>1 DEF SharedInv, Q!Keys, Q!Keyed
    <3> QED BY <1>1, <3>1, <3>2, <3>3, ForgottenType
  <2> QED BY <2>1 DEF SharedInv, Q!Keyed
<1> QED BY <1>5, <1>6, <1>7, <1>8, <1>9

LEMMA AbortKeeps ==
  ASSUME QueueInv, NEW c \in Runs, Q!Abort(c)
  PROVE  QueueInv'
<1>0. UNCHANGED <<inFlight, shared, consumers>> BY DEF Q!Abort
<1> USE DEF QueueInv
<1>1. CASE ~Q!Keyed(c) /\ work[c] = "waiting"
  <2>1. queued' = Q!Without(c) /\ work' = [work EXCEPT ![c] = "ended"] /\ call' = Q!Told(c, "cancelled")
    BY <1>1 DEF Q!Abort
  <2>2. /\ PlacesInv' /\ queued' \in Seq(Runs) /\ work' \in [Runs -> WorkSteps]
        /\ \A i \in DOMAIN queued' : work'[queued'[i]] = "waiting"
        /\ \A i, j \in DOMAIN queued' : queued'[i] = queued'[j] => i = j
        /\ \A o \in Runs : work[o] = "none" => work'[o] = "none"
    BY <1>0, <1>1, <2>1, OutOfLine
  <2>3. /\ call' \in [Runs -> CallRecords]
        /\ \A o \in Runs : call'[o].of = call[o].of
        /\ \A o \in Runs : call'[o].step = IF call[o].of = c /\ call[o].step = "following" THEN "settled" ELSE call[o].step
    BY <2>1, ToldAre DEF Q!Outcome
  <2>4. QueueType' BY <1>0, <2>2, <2>3 DEF QueueType
  <2>5. LineInv' BY <2>2, <2>3 DEF LineInv
  <2>6. ConsumersInv' BY <1>0, <2>3, ConsumersStay
  <2>7. SharedInv' BY <1>0, <2>3 DEF SharedInv, Q!Keyed
  <2> QED BY <2>2, <2>4, <2>5, <2>6, <2>7
<1>2. CASE ~(~Q!Keyed(c) /\ work[c] = "waiting")
  <2> DEFINE x == IF Q!Keyed(c) /\ call[c].step = "following"
                  THEN [call[c] EXCEPT !.step = "settled", !.got = "cancelled"] ELSE call[c]
  <2>1. Q!Is(c, x) /\ UNCHANGED <<queued, work>>
    BY <1>2 DEF Q!Abort
  <2>2. x \in CallRecords /\ x.of = call[c].of
        /\ x.step = IF Q!Keyed(c) /\ call[c].step = "following" THEN "settled" ELSE call[c].step
    BY CallsAre DEF CallRecords, CallSteps, Q!Outcome
  <2> HIDE DEF x
  <2>3. CallMoves(c) /\ call'[c] = x
    BY <2>1, <2>2, CallIs
  <2> USE DEF CallMoves
  <2>4. QueueType' BY <1>0, <2>1, <2>3 DEF QueueType
  <2>5. LineInv' BY <2>1, <2>2, <2>3 DEF LineInv
  <2>6. PlacesInv' BY <1>0, <2>1, PlacesStay
  <2>7. ConsumersInv' BY <1>0, <2>2, <2>3, ConsumersStay
  <2>8. SharedInv' BY <1>0, <2>2, <2>3 DEF SharedInv, Q!Keyed
  <2> QED BY <2>4, <2>5, <2>6, <2>7, <2>8
<1> QED BY <1>1, <1>2

-----------------------------------------------------------------------------
(* The theorem about the queue.                                            *)

LEMMA QueueBegins == Q!Init => QueueInv
<1> SUFFICES ASSUME Q!Init PROVE QueueInv
  OBVIOUS
<1>0. Places \in Nat BY LivePartsAssumption DEF Q!LimitedQueueAssumption
<1>1. /\ inFlight = 0 /\ queued = <<>> /\ work = [c \in Runs |-> "none"] /\ shared = [k \in Q!Keys |-> NoWork]
      /\ consumers = [c \in Runs |-> 0] /\ call = [c \in Runs |-> [step |-> "idle", of |-> NoWork, got |-> "value"]]
  BY DEF Q!Init
<1>2. QueueType
  BY <1>1 DEF QueueType, WorkSteps, CallRecords, CallSteps, Q!Outcome
<1>3. LineInv /\ SharedInv
  BY <1>1 DEF LineInv, SharedInv
<1>4. Held = {} /\ \A w \in Runs : Followers(w) = {}
  BY <1>1 DEF Held, Followers, Q!OnTheirWay
<1>5. PlacesInv
  BY <1>0, <1>1, <1>4, FS_EmptySet DEF PlacesInv
<1>6. ConsumersInv
  <2>1. ASSUME NEW w \in Runs PROVE IsFiniteSet(Followers(w)) /\ consumers[w] = Cardinality(Followers(w))
    <3>1. Followers(w) = {} BY <1>4
    <3> QED BY <1>1, <3>1, FS_EmptySet
  <2> QED BY <2>1 DEF ConsumersInv
<1> QED BY <1>2, <1>3, <1>5, <1>6 DEF QueueInv

LEMMA QueueStep == QueueInv /\ Q!Next => QueueInv'
  BY RefuseKeeps, JoinKeeps, StartKeeps, AbortKeeps, BeginKeeps, EndKeeps, LeaveKeeps, LastLeavesKeeps, DrainedKeeps
  DEF Q!Next, Q!Advance

\* No place of the queue is lost or given twice, and no place is free while anybody waits, whoever gives
\* up before, during or after its work; the calls of one key that wait follow one work (createLimitedQueue).
THEOREM PlacesAddUp == LiveSpec => []PlacesAndWorksAddUp
<1>1. LiveInit => QueueInv
  BY QueueBegins DEF LiveInit
<1>2. QueueInv /\ UNCHANGED qVars => QueueInv'
  BY DEF qVars, QueueInv, QueueType, LineInv, PlacesInv, ConsumersInv, SharedInv, Held, Followers
<1>3. QueueInv /\ [LiveNext]_<<part, vars, gVars, qVars>> => QueueInv'
  BY <1>2, QueueStep DEF LiveNext
<1>4. QueueInv => PlacesAndWorksAddUp
  <2>1. PlacesInv => Q!PlacesAreAccounted
    BY Counts DEF PlacesInv, Held, Q!PlacesAreAccounted
  <2>2. SharedInv => Q!OneWorkPerKey
    BY DEF SharedInv, Q!OneWorkPerKey, Q!Keyed
  <2> QED BY <2>1, <2>2 DEF QueueInv, PlacesAndWorksAddUp
<1> QED BY <1>1, <1>3, <1>4, PTL DEF LiveSpec
=============================================================================
