---------------------------- MODULE SingleFlight ----------------------------
(***************************************************************************)
(* What FileCoordinator.run promises its callers, with no queue, slot,     *)
(* lease, file or clock: per task there is at most one value, ever; a      *)
(* caller ends with that value or with an error.                           *)
(***************************************************************************)
CONSTANTS Callers,   \* calls of run
          TaskOf,    \* the task id each call asks for
          Tasks,     \* task ids
          None,      \* "no value yet"
          Error      \* the call was rejected

VARIABLES value,     \* per task: the caller whose build produced the value
          outcome    \* per caller: what its promise settled to

vars == <<value, outcome>>

Init == /\ value = [t \in Tasks |-> None]
        /\ outcome = [c \in Callers |-> None]

\* The build of c, a call still running, becomes the value of its task.
Publish(c) ==
  /\ value[TaskOf[c]] = None
  /\ outcome[c] = None
  /\ value' = [value EXCEPT ![TaskOf[c]] = c]
  /\ UNCHANGED outcome

\* c's promise resolves, once, with the published value.
Return(c) ==
  /\ value[TaskOf[c]] # None
  /\ outcome[c] = None
  /\ outcome' = [outcome EXCEPT ![c] = value[TaskOf[c]]]
  /\ UNCHANGED value

\* c's promise is rejected, once: build error, cancellation, lost lease or
\* disk error.
Reject(c) ==
  /\ outcome[c] = None
  /\ outcome' = [outcome EXCEPT ![c] = Error]
  /\ UNCHANGED value

Next == \E c \in Callers : Publish(c) \/ Return(c) \/ Reject(c)

Spec == Init /\ [][Next]_vars
=============================================================================
