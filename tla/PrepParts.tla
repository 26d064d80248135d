------------------------------- MODULE PrepParts -------------------------------
(***************************************************************************)
(* What is at work while a project is prepared: the preparations (whose    *)
(* definitions are this module's own), a page that shows the project, the  *)
(* speech service of the server, and the registry that opens and closes    *)
(* the projects.  They share no state; one of them runs in each behaviour. *)
(***************************************************************************)
EXTENDS Preparation

CONSTANTS
  Actions, Timers, MaxEdits, PageFaults,        \* EditorPage's
  Requests,                                     \* SpeechService's and ProjectRuntimes'
  MaxClients, MaxProcesses,                     \* SpeechService's
  Sweeper, MaxRuntimes                          \* ProjectRuntimes'

VARIABLES
  chosen, \* which one runs
  server, sent, screen, waiting, polling, player, watched, played, late, edits, faults,
  client, closed, rested, synced, clients, worker, req, given,
  entry, lastUsed, active, runtimes, visits, sweeps, down

eVars == <<server, sent, screen, waiting, polling, player, watched, played, late, edits, faults>>
sVars == <<client, closed, rested, synced, clients, worker, req, given>>
rVars == <<entry, lastUsed, active, runtimes, visits, sweeps, down>>

E == INSTANCE EditorPage WITH
  Action <- Actions, Timer <- Timers, None <- Nobody, MaxFaults <- PageFaults,
  call <- sent, pending <- waiting

S == INSTANCE SpeechService WITH
  Request <- Requests, None <- Nobody, proc <- worker, aborted <- given

R == INSTANCE ProjectRuntimes WITH
  Request <- Requests, Timer <- Sweeper, None <- Nobody, req <- visits, closed <- down

ASSUME PrepPartsAssumption ==
  /\ IsFiniteSet(Requests)
  /\ S!SpeechServiceAssumption /\ R!ProjectRuntimesAssumption /\ E!EditorPageAssumption

PartsInit == Init /\ E!Init /\ S!Init /\ R!Init
             /\ chosen \in {"preparation", "page", "speech", "registry"}
PartsNext ==
  \/ chosen = "preparation" /\ Next /\ UNCHANGED <<chosen, eVars, sVars, rVars>>
  \/ chosen = "page" /\ E!Next /\ UNCHANGED <<chosen, vars, sVars, rVars>>
  \/ chosen = "speech" /\ S!Next /\ UNCHANGED <<chosen, vars, eVars, rVars>>
  \/ chosen = "registry" /\ R!Next /\ UNCHANGED <<chosen, vars, eVars, sVars>>

\* Fairness is of preparations only; where they do not run nothing of it is enabled.
PartsSpec == PartsInit /\ [][PartsNext]_<<chosen, vars, eVars, sVars, rVars>> /\ Fairness

\* A page with nothing under way shows the revision the server has, with its preview.
QuietPageIsUpToDate == E!QuietPageIsUpToDate

\* An approval a person was not asked about is of a video played to its end.
SeenWasPlayed == E!SeenWasPlayed

\* The idle sweep and the requests of others change nothing of what becomes of one.
OutcomeIsItsOwn == S!OutcomeIsItsOwn

\* The idle sweep closes a project's runtime only when nobody and nothing needs it, and
\* once closed it writes no journal and starts no plan.
ClosedAtRest == R!KeptWhileNeeded /\ R!SilentWhenClosed
=============================================================================
