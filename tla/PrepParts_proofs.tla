--------------------------- MODULE PrepParts_proofs ---------------------------
(***************************************************************************)
(* What holds while a project is prepared, for any sources and any number  *)
(* of preparations, requests, edits and failures, in four parts:           *)
(*                                                                         *)
(*   - the preparations: one at a time is inside (ChainInv), and, from     *)
(*     what each knows of the project (Work), edits survive the proposals, *)
(*     a proposal is applied on complete evidence only, nothing is paid    *)
(*     for twice, and nobody marks a preparation that is at work;          *)
(*   - the speech service: what becomes of a request is its own doing      *)
(*     (SpeechInv);                                                        *)
(*   - the registry: what is closed is nobody's and writes nothing more    *)
(*     (RegistryInv);                                                      *)
(*   - the page: what was watched was played, and a page at rest shows     *)
(*     the newest revision (PageInv).                                      *)
(***************************************************************************)
EXTENDS PrepParts, FiniteSetTheorems, TLAPS

-----------------------------------------------------------------------------
(* The lock. A preparation is busy from its POST to its release; ChainInv  *)
(* says that the busy ones form a chain that ends in tail, in which each   *)
(* waits for the busy one before it.                                       *)

Busy(p) == pc[p] \notin {"none", "releasing", "ended"}

ChainInv ==
  /\ pc \in [Prep -> Steps] /\ before \in [Prep -> Prep \cup {Nobody}]
  /\ \A p, q \in Prep : q < p /\ pc[p] # "none" => pc[q] # "none"
  /\ tail # Nobody => tail \in Prep /\ Busy(tail)
  /\ \A p \in Prep : Busy(p) => tail \in Prep /\ p <= tail
  /\ \A p, q \in Prep : q < p /\ pc[p] \in Inside \cup {"releasing", "ended"} => ~Busy(q)
  /\ \A p \in Prep : pc[p] = "waiting" =>
       /\ before[p] \in Prep /\ before[p] < p /\ pc[before[p]] # "none"
       /\ \A q \in Prep : before[p] < q /\ q < p => ~Busy(q)

\* A step that moves one busy preparation from one place inside to another.
Moves(p) ==
  /\ pc[p] \in Inside
  /\ \E step \in Inside : pc' = [pc EXCEPT ![p] = step]
  /\ UNCHANGED <<before, tail>>

LEMMA MovingKeepsChain ==
  ASSUME ChainInv, NEW p \in Prep, Moves(p)
  PROVE  ChainInv'
<1>1. PICK step \in Inside : pc' = [pc EXCEPT ![p] = step]
  BY DEF Moves
<1>2. \A q \in Prep : q # p => pc'[q] = pc[q]
  BY <1>1 DEF ChainInv
<1>3. pc'[p] \in Inside /\ pc[p] \in Inside
  BY <1>1 DEF ChainInv, Moves
<1>4. \A q \in Prep : /\ Busy(q)' = Busy(q)
                      /\ (pc'[q] \in Inside) = (pc[q] \in Inside)
                      /\ (pc'[q] = "none") = (pc[q] = "none")
                      /\ (pc'[q] = "waiting") = (pc[q] = "waiting")
                      /\ (pc'[q] \in {"releasing", "ended"}) = (pc[q] \in {"releasing", "ended"})
  BY <1>2, <1>3 DEF Inside, Steps, Busy
<1>5. pc' \in [Prep -> Steps]
  BY <1>1 DEF ChainInv, Inside
<1>6. before' = before /\ tail' = tail
  BY DEF Moves
<1>7. \A q, r \in Prep : r < q /\ pc'[q] # "none" => pc'[r] # "none"
  BY <1>4 DEF ChainInv
<1>8. tail' # Nobody => tail' \in Prep /\ Busy(tail)'
  BY <1>4, <1>6 DEF ChainInv, Busy
<1>9. \A q \in Prep : Busy(q)' => tail' \in Prep /\ q <= tail'
  BY <1>4, <1>6 DEF ChainInv
<1>10. \A q, r \in Prep : r < q /\ pc'[q] \in Inside \cup {"releasing", "ended"} => ~Busy(r)'
  BY <1>4 DEF ChainInv
<1>11. ASSUME NEW q \in Prep, pc'[q] = "waiting"
       PROVE  /\ before'[q] \in Prep /\ before'[q] < q /\ pc'[before'[q]] # "none"
              /\ \A r \in Prep : before'[q] < r /\ r < q => ~Busy(r)'
  BY <1>4, <1>6, <1>11 DEF ChainInv
<1> QED BY <1>5, <1>6, <1>7, <1>8, <1>9, <1>10, <1>11 DEF ChainInv

\* A step that leaves the three variables of the lock alone.
LEMMA StandingKeepsChain ==
  ASSUME ChainInv, UNCHANGED <<pc, before, tail>>
  PROVE  ChainInv'
BY DEF ChainInv, Busy

LEMMA PostKeepsChain ==
  ASSUME ChainInv, NEW p \in Prep, NEW mode \in Modes, Post(p, mode)
  PROVE  ChainInv'
<1> USE PreparationAssumption
<1>1. /\ pc[p] = "none" /\ \A q \in 1 .. p - 1 : pc[q] # "none"
      /\ before' = [before EXCEPT ![p] = tail] /\ tail' = p
      /\ pc' = [pc EXCEPT ![p] = IF tail = Nobody THEN "opening" ELSE "waiting"]
  BY DEF Post, GoTo
<1>2. /\ \A q \in Prep : q < p => pc[q] # "none"
      /\ \A q \in Prep : p < q => pc[q] = "none"
  BY <1>1 DEF Prep, ChainInv
<1>3. \A q \in Prep : q # p => /\ pc'[q] = pc[q] /\ before'[q] = before[q]
                               /\ Busy(q)' = Busy(q)
  BY <1>1 DEF ChainInv, Busy
<1>4. pc'[p] \in {"opening", "waiting"} /\ before'[p] = tail /\ Busy(p)'
  BY <1>1 DEF ChainInv, Busy
<1>5. pc' \in [Prep -> Steps] /\ before' \in [Prep -> Prep \cup {Nobody}]
  BY <1>1 DEF ChainInv, Steps
<1>6. \A q, r \in Prep : r < q /\ pc'[q] # "none" => pc'[r] # "none"
  BY <1>2, <1>3, <1>4 DEF ChainInv, Prep
<1>7. tail' # Nobody => tail' \in Prep /\ Busy(tail)'
  BY <1>1, <1>4 DEF Busy
<1>8. \A q \in Prep : Busy(q)' => tail' \in Prep /\ q <= tail'
  BY <1>1, <1>2, <1>3 DEF Busy, Prep
<1>9. ASSUME NEW q \in Prep, NEW r \in Prep, r < q,
             pc'[q] \in Inside \cup {"releasing", "ended"}
      PROVE  ~Busy(r)'
  <2>1. CASE q = p
    <3>1. tail = Nobody
      BY <1>1, <1>9, <2>1 DEF Inside, ChainInv
    <3>2. ~Busy(r)
      BY <3>1 DEF ChainInv
    <3> QED BY <2>1, <3>2, <1>3, <1>9 DEF Prep
  <2>2. CASE q # p
    <3>1. pc[q] \in Inside \cup {"releasing", "ended"} /\ r # p
      BY <2>2, <1>2, <1>3, <1>9 DEF Inside, Prep
    <3> QED BY <3>1, <1>3, <1>9 DEF ChainInv
  <2> QED BY <2>1, <2>2
<1>10. ASSUME NEW q \in Prep, pc'[q] = "waiting"
       PROVE  /\ before'[q] \in Prep /\ before'[q] < q /\ pc'[before'[q]] # "none"
              /\ \A r \in Prep : before'[q] < r /\ r < q => ~Busy(r)'
  <2>1. CASE q = p
    <3>1. tail \in Prep /\ Busy(tail)
      BY <1>1, <1>10, <2>1 DEF ChainInv
    <3>2. tail < p
      BY <3>1, <1>1, <1>2 DEF Prep, Busy
    <3>3. \A r \in Prep : Busy(r) => r <= tail
      BY DEF ChainInv
    <3>4. pc'[tail] # "none"
      BY <3>1, <3>2, <1>3 DEF Busy, Prep
    <3>5. \A r \in Prep : tail < r /\ r < p => ~Busy(r)'
      BY <3>1, <3>3, <1>3 DEF Prep
    <3> QED BY <2>1, <3>1, <3>2, <3>4, <3>5, <1>4
  <2>2. CASE q # p
    <3>1. q < p /\ pc[q] = "waiting"
      BY <2>2, <1>2, <1>3, <1>10 DEF Prep
    <3>2. /\ before[q] \in Prep /\ before[q] < q /\ pc[before[q]] # "none"
          /\ \A r \in Prep : before[q] < r /\ r < q => ~Busy(r)
      BY <3>1 DEF ChainInv
    <3>3. before[q] # p /\ before'[q] = before[q]
      BY <2>2, <3>1, <3>2, <1>3 DEF Prep
    <3> QED BY <3>1, <3>2, <3>3, <1>3 DEF Prep
  <2> QED BY <2>1, <2>2
<1> QED BY <1>5, <1>6, <1>7, <1>8, <1>9, <1>10 DEF ChainInv

\* Everybody before the one it waited for is out, and so is that one.
LEMMA EnterKeepsChain ==
  ASSUME ChainInv, NEW p \in Prep, Enter(p)
  PROVE  ChainInv'
<1>1. /\ pc[p] = "waiting" /\ pc[before[p]] \in {"releasing", "ended"}
      /\ pc' = [pc EXCEPT ![p] = "opening"] /\ before' = before /\ tail' = tail
  BY DEF Enter, GoTo, Keeps, Frame
<1>2. /\ before[p] \in Prep /\ before[p] < p
      /\ \A q \in Prep : before[p] < q /\ q < p => ~Busy(q)
  BY <1>1 DEF ChainInv
<1>3. \A q \in Prep : q < before[p] => ~Busy(q)
  BY <1>1, <1>2 DEF ChainInv
<1>4. ~Busy(before[p])
  BY <1>1 DEF Busy
<1>5. \A q \in Prep : q < p => ~Busy(q)
  BY <1>2, <1>3, <1>4 DEF Prep
<1>6. /\ \A q \in Prep : Busy(q)' = Busy(q)
      /\ \A q \in Prep : q # p => pc'[q] = pc[q]
      /\ pc'[p] = "opening"
  BY <1>1 DEF ChainInv, Busy
<1>7. pc' \in [Prep -> Steps] /\ before' \in [Prep -> Prep \cup {Nobody}]
  BY <1>1 DEF ChainInv, Steps
<1>8. \A q, r \in Prep : r < q /\ pc'[q] # "none" => pc'[r] # "none"
  BY <1>1, <1>6 DEF ChainInv
<1>9. tail' # Nobody => tail' \in Prep /\ Busy(tail)'
  BY <1>1, <1>6 DEF ChainInv, Busy
<1>10. \A q \in Prep : Busy(q)' => tail' \in Prep /\ q <= tail'
  BY <1>1, <1>6 DEF ChainInv
<1>11. \A q, r \in Prep : r < q /\ pc'[q] \in Inside \cup {"releasing", "ended"} => ~Busy(r)'
  BY <1>5, <1>6 DEF ChainInv
<1>12. ASSUME NEW q \in Prep, pc'[q] = "waiting"
       PROVE  /\ before'[q] \in Prep /\ before'[q] < q /\ pc'[before'[q]] # "none"
              /\ \A r \in Prep : before'[q] < r /\ r < q => ~Busy(r)'
  BY <1>1, <1>6, <1>12 DEF ChainInv
<1> QED BY <1>7, <1>8, <1>9, <1>10, <1>11, <1>12 DEF ChainInv

\* Nobody is behind the last of the chain, so its entry may go.
LEMMA LeaveKeepsChain ==
  ASSUME ChainInv, NEW p \in Prep, Leave(p)
  PROVE  ChainInv'
<1> USE PreparationAssumption
<1>1. /\ pc[p] = "leaving" /\ pc' = [pc EXCEPT ![p] = "releasing"] /\ before' = before
      /\ tail' = IF tail = p THEN Nobody ELSE tail
  BY DEF Leave, GoTo, ChainAfter
<1>2. /\ pc'[p] = "releasing" /\ ~Busy(p)' /\ Busy(p)
      /\ \A q \in Prep : q # p => pc'[q] = pc[q] /\ Busy(q)' = Busy(q)
  BY <1>1 DEF ChainInv, Busy
<1>3. \A q \in Prep : q < p => ~Busy(q)
  BY <1>1 DEF ChainInv, Inside, Steps
<1>4. tail \in Prep
  BY <1>2 DEF ChainInv
<1>5. tail = p => \A q \in Prep : ~Busy(q)'
  BY <1>2, <1>3 DEF ChainInv, Prep
<1>6. pc' \in [Prep -> Steps] /\ before' \in [Prep -> Prep \cup {Nobody}]
  BY <1>1 DEF ChainInv, Steps
<1>7. \A q, r \in Prep : r < q /\ pc'[q] # "none" => pc'[r] # "none"
  BY <1>1, <1>2 DEF ChainInv
<1>8. tail' # Nobody => tail' \in Prep /\ Busy(tail)'
  BY <1>1, <1>2 DEF ChainInv, Busy
<1>9. \A q \in Prep : Busy(q)' => tail' \in Prep /\ q <= tail'
  BY <1>1, <1>2, <1>4, <1>5 DEF ChainInv
<1>10. \A q, r \in Prep : r < q /\ pc'[q] \in Inside \cup {"releasing", "ended"} => ~Busy(r)'
  BY <1>1, <1>2, <1>3 DEF ChainInv
<1>11. ASSUME NEW q \in Prep, pc'[q] = "waiting"
       PROVE  /\ before'[q] \in Prep /\ before'[q] < q /\ pc'[before'[q]] # "none"
              /\ \A r \in Prep : before'[q] < r /\ r < q => ~Busy(r)'
  BY <1>1, <1>2, <1>11 DEF ChainInv
<1> QED BY <1>6, <1>7, <1>8, <1>9, <1>10, <1>11 DEF ChainInv

LEMMA ReleaseKeepsChain ==
  ASSUME ChainInv, NEW p \in Prep, Release(p)
  PROVE  ChainInv'
<1>1. /\ pc[p] = "releasing" /\ pc' = [pc EXCEPT ![p] = "ended"]
      /\ before' = before /\ tail' = tail
  BY DEF Release, GoTo, Keeps, Frame
<1>2. /\ pc'[p] = "ended"
      /\ \A q \in Prep : q # p => pc'[q] = pc[q]
      /\ \A q \in Prep : Busy(q)' = Busy(q)
  BY <1>1 DEF ChainInv, Busy
<1>3. pc' \in [Prep -> Steps] /\ before' \in [Prep -> Prep \cup {Nobody}]
  BY <1>1 DEF ChainInv, Steps
<1>4. \A q, r \in Prep : r < q /\ pc'[q] # "none" => pc'[r] # "none"
  BY <1>1, <1>2 DEF ChainInv
<1>5. tail' # Nobody => tail' \in Prep /\ Busy(tail)'
  BY <1>1, <1>2 DEF ChainInv, Busy
<1>6. \A q \in Prep : Busy(q)' => tail' \in Prep /\ q <= tail'
  BY <1>1, <1>2 DEF ChainInv
<1>7. \A q, r \in Prep : r < q /\ pc'[q] \in Inside \cup {"releasing", "ended"} => ~Busy(r)'
  BY <1>1, <1>2 DEF ChainInv
<1>8. ASSUME NEW q \in Prep, pc'[q] = "waiting"
      PROVE  /\ before'[q] \in Prep /\ before'[q] < q /\ pc'[before'[q]] # "none"
             /\ \A r \in Prep : before'[q] < r /\ r < q => ~Busy(r)'
  BY <1>1, <1>2, <1>8 DEF ChainInv
<1> QED BY <1>3, <1>4, <1>5, <1>6, <1>7, <1>8 DEF ChainInv

\* After a restart nobody is busy.
LEMMA RestartKeepsChain ==
  ASSUME ChainInv, Restart
  PROVE  ChainInv'
<1>1. /\ pc' = [p \in Prep |-> IF pc[p] = "none" THEN "none" ELSE "ended"]
      /\ before' = before /\ tail' = Nobody
  BY DEF Restart
<1>2. \A p \in Prep : ~Busy(p)' /\ (pc'[p] # "none") = (pc[p] # "none") /\ pc'[p] # "waiting"
  BY <1>1 DEF Busy
<1>3. pc' \in [Prep -> Steps]
  BY <1>1 DEF Steps
<1> QED BY <1>1, <1>2, <1>3 DEF ChainInv

\* Every other step of a preparation moves it inside.
LEMMA StepsInsideMove ==
  ASSUME ChainInv, NEW p \in Prep,
         Proceed(p) \/ ProposalFails(p) \/ RenderFails(p) \/ Break(p),
         ~Enter(p), ~Leave(p), ~Release(p)
  PROVE  Moves(p) \/ UNCHANGED <<pc, before, tail>>
<1> USE DEF Moves, GoTo, Keeps, Frame, Mark, Inside, Steps
<1>1. CASE Open(p)
  BY <1>1 DEF Open
<1>2. CASE Claim(p)
  BY <1>2 DEF Claim
<1>3. CASE \E s \in Source : VerifyMedia(p, s) \/ AnalyseAudio(p, s) \/ DescribeImages(p, s)
  BY <1>3 DEF VerifyMedia, AnalyseAudio, DescribeImages, Staged
<1>4. CASE NextStage(p)
  BY <1>4 DEF NextStage
<1>5. CASE Settle(p)
  BY <1>5 DEF Settle
<1>6. CASE LoadCheckpoint(p)
  BY <1>6 DEF LoadCheckpoint
<1>7. CASE Ask(p)
  BY <1>7 DEF Ask
<1>8. CASE Reply(p)
  BY <1>8 DEF Reply
<1>9. CASE Place(p)
  BY <1>9 DEF Place
<1>10. CASE Apply(p)
  BY <1>10 DEF Apply, Interrupted
<1>11. CASE DiscardApplied(p)
  BY <1>11 DEF DiscardApplied
<1>12. CASE StartPreview(p)
  BY <1>12 DEF StartPreview
<1>13. CASE Rendered(p)
  BY <1>13 DEF Rendered
<1>14. CASE Stop(p)
  BY <1>14 DEF Stop
<1>15. CASE DiscardUnresumable(p)
  BY <1>15 DEF DiscardUnresumable, AfterStop
<1>16. CASE MarkTerminal(p)
  BY <1>16 DEF MarkTerminal
<1>17. CASE ProposalFails(p)
  BY <1>17 DEF ProposalFails, Interrupted
<1>18. CASE RenderFails(p)
  BY <1>18 DEF RenderFails
<1>19. CASE Break(p)
  BY <1>19 DEF Break
<1> QED
  BY <1>1, <1>2, <1>3, <1>4, <1>5, <1>6, <1>7, <1>8, <1>9, <1>10, <1>11, <1>12, <1>13,
     <1>14, <1>15, <1>16, <1>17, <1>18, <1>19 DEF Proceed

\* What everybody else does leaves the lock alone.
LEMMA OthersStand ==
  ASSUME \/ \E kind \in {"change", "correct"} \cup Source : EditLoad(kind)
         \/ EditSave \/ SettleCorrection
         \/ Cancel \/ ManualPreview \/ \E s \in Source : StartAnalysis(s)
         \/ AnalysisArrives \/ FindOrphan \/ MarkOrphan
  PROVE  UNCHANGED <<pc, before, tail>>
BY DEF EditLoad, EditSave, SettleCorrection, Cancel, ManualPreview, StartAnalysis,
       AnalysisArrives, FindOrphan, MarkOrphan, OtherOperation, ProcessStays, process

THEOREM ChainAlways == Spec => []ChainInv
<1>1. Init => ChainInv
  BY PreparationAssumption DEF Init, ChainInv, Busy, Inside, Steps
<1>2. ChainInv /\ [Next]_vars => ChainInv'
  <2> SUFFICES ASSUME ChainInv, [Next]_vars PROVE ChainInv'
    OBVIOUS
  <2>1. CASE \E p \in Prep, mode \in Modes : Post(p, mode)
    BY <2>1, PostKeepsChain
  <2>2. ASSUME NEW p \in Prep, Proceed(p) \/ ProposalFails(p) \/ RenderFails(p) \/ Break(p)
        PROVE  ChainInv'
    BY <2>2, StepsInsideMove, MovingKeepsChain, StandingKeepsChain, EnterKeepsChain,
       LeaveKeepsChain, ReleaseKeepsChain
  <2>3. CASE Restart
    BY <2>3, RestartKeepsChain
  <2>4. CASE UNCHANGED vars
    BY <2>4, StandingKeepsChain DEF vars, process
  <2> QED BY <2>1, <2>2, <2>3, <2>4, OthersStand, StandingKeepsChain DEF Next
<1> QED BY <1>1, <1>2, PTL DEF Spec

\* One preparation at a time is inside, for any number of POSTs, cancels and
\* restarts.
THEOREM OnlyOneInside == Spec => []OneAtATime
<1>1. ChainInv => OneAtATime
  <2> SUFFICES ASSUME ChainInv, NEW p \in Prep, NEW q \in Prep,
                      pc[p] \in Inside, pc[q] \in Inside
               PROVE  p = q
    BY DEF OneAtATime
  <2>1. Busy(p) /\ Busy(q)
    BY DEF Busy, Inside
  <2>2. ~(p < q) /\ ~(q < p)
    BY <2>1 DEF ChainInv
  <2> QED BY <2>2, PreparationAssumption DEF Prep
<1> QED BY <1>1, ChainAlways, PTL

-----------------------------------------------------------------------------
(* Types, one group of actions at a time. KeyType and ProjectType stay     *)
(* closed except where one of their fields is written.                     *)

LEMMA KeyTypes ==
  /\ NoKey \in KeyType
  /\ \A snap \in ProjectType : StateKey(snap) \in KeyType
  BY DEF NoKey, NoEvidence, KeyType, Null, Evidence, StateKey, ProjectType

LEMMA RecordTypes ==
  /\ NoRecord \in RecordType /\ BlankProject \in ProjectType
  /\ \A snap \in ProjectType, v \in Status : [snap EXCEPT !.prep.status = v] \in ProjectType
  /\ \A snap \in ProjectType, r \in RecordType : [snap EXCEPT !.prep = r] \in ProjectType
  /\ \A snap \in ProjectType : [snap EXCEPT !.preview = snap.rev] \in ProjectType
  /\ \A snap \in ProjectType : [snap EXCEPT !.pending = FALSE] \in ProjectType
<1>1. NoStages \in [Source -> [media : Stage, audio : Stage, visual : Stage]]
  BY DEF NoStages, Stage
<1>2. NoRecord \in RecordType
  BY <1>1, PreparationAssumption DEF NoRecord, RecordType, Modes, Status, Null
<1>3. BlankProject \in ProjectType
  BY <1>2, PreparationAssumption DEF BlankProject, ProjectType, Null, NoEvidence, Evidence
<1>4. \A snap \in ProjectType, v \in Status : [snap EXCEPT !.prep.status = v] \in ProjectType
  BY DEF ProjectType, RecordType
<1> QED BY <1>2, <1>3, <1>4 DEF ProjectType

LEMMA EvidenceTypes ==
  ASSUME NEW snap \in ProjectType, NEW s \in Source, NEW e \in Evidence, NEW outcome \in Stage
  PROVE  /\ [snap EXCEPT !.analysis[s] = e] \in ProjectType
         /\ [snap EXCEPT !.prep.sources[s].media = outcome, !.analysis[s] = e] \in ProjectType
         /\ [snap EXCEPT !.prep.sources[s].audio = outcome, !.analysis[s] = e] \in ProjectType
         /\ [snap EXCEPT !.prep.sources[s].visual = outcome, !.analysis[s] = e] \in ProjectType
<1> DEFINE sources == snap.prep.sources
           stages == [media : Stage, audio : Stage, visual : Stage]
<1>1. /\ snap.analysis \in [Source -> Evidence] /\ snap.prep \in RecordType
      /\ sources \in [Source -> stages]
  BY DEF ProjectType, RecordType
<1>2. /\ [sources EXCEPT ![s].media = outcome] \in [Source -> stages]
      /\ [sources EXCEPT ![s].audio = outcome] \in [Source -> stages]
      /\ [sources EXCEPT ![s].visual = outcome] \in [Source -> stages]
  BY <1>1
<1>3. \A f \in [Source -> stages] : [snap.prep EXCEPT !.sources = f] \in RecordType
  BY <1>1 DEF RecordType
<1>4. [snap.analysis EXCEPT ![s] = e] \in [Source -> Evidence]
  BY <1>1
<1>5. \A r \in RecordType, a \in [Source -> Evidence] :
        /\ [snap EXCEPT !.prep = r, !.analysis = a] \in ProjectType
        /\ [snap EXCEPT !.analysis = a] \in ProjectType
  BY DEF ProjectType
<1>6. [snap EXCEPT !.analysis[s] = e] = [snap EXCEPT !.analysis = [snap.analysis EXCEPT ![s] = e]]
  BY DEF ProjectType
<1>7. [snap EXCEPT !.prep.sources[s].media = outcome, !.analysis[s] = e]
      = [snap EXCEPT !.prep = [snap.prep EXCEPT !.sources = [sources EXCEPT ![s].media = outcome]],
                     !.analysis = [snap.analysis EXCEPT ![s] = e]]
  BY DEF ProjectType
<1>8. [snap EXCEPT !.prep.sources[s].audio = outcome, !.analysis[s] = e]
      = [snap EXCEPT !.prep = [snap.prep EXCEPT !.sources = [sources EXCEPT ![s].audio = outcome]],
                     !.analysis = [snap.analysis EXCEPT ![s] = e]]
  BY DEF ProjectType
<1>9. [snap EXCEPT !.prep.sources[s].visual = outcome, !.analysis[s] = e]
      = [snap EXCEPT !.prep = [snap.prep EXCEPT !.sources = [sources EXCEPT ![s].visual = outcome]],
                     !.analysis = [snap.analysis EXCEPT ![s] = e]]
  BY DEF ProjectType
<1> HIDE DEF sources, stages
<1>10. [snap EXCEPT !.analysis[s] = e] \in ProjectType
  BY <1>1, <1>4, <1>5, <1>6
<1>11. [snap EXCEPT !.prep.sources[s].media = outcome, !.analysis[s] = e] \in ProjectType
  BY <1>2, <1>3, <1>4, <1>5, <1>7
<1>12. [snap EXCEPT !.prep.sources[s].audio = outcome, !.analysis[s] = e] \in ProjectType
  BY <1>2, <1>3, <1>4, <1>5, <1>8
<1>13. [snap EXCEPT !.prep.sources[s].visual = outcome, !.analysis[s] = e] \in ProjectType
  BY <1>2, <1>3, <1>4, <1>5, <1>9
<1> QED BY <1>10, <1>11, <1>12, <1>13

\* What a save of an edit makes of the snapshot it had loaded.
LEMMA EditTypes ==
  ASSUME NEW old \in ProjectType, NEW toggled \in SUBSET Source, NEW pending \in BOOLEAN,
         NEW analysis \in [Source -> Evidence]
  PROVE  [old EXCEPT !.rev = old.rev + 1, !.preview = Null,
                     !.content = Append(old.content, Editor),
                     !.included = (old.included \ toggled) \cup (toggled \ old.included),
                     !.pending = pending, !.analysis = analysis] \in ProjectType
<1>1. old.content \in Seq(Prep \cup {Editor}) /\ old.rev \in Nat /\ old.included \in SUBSET Source
  BY DEF ProjectType
<1>2. Append(old.content, Editor) \in Seq(Prep \cup {Editor})
  BY <1>1
<1>3. \A n \in Nat, c \in Seq(Prep \cup {Editor}), i \in SUBSET Source :
        [old EXCEPT !.rev = n, !.preview = Null, !.content = c, !.included = i,
                    !.pending = pending, !.analysis = analysis] \in ProjectType
  BY DEF ProjectType
<1>4. /\ old.rev + 1 \in Nat
      /\ (old.included \ toggled) \cup (toggled \ old.included) \in SUBSET Source
  BY <1>1
<1> QED BY <1>2, <1>3, <1>4

LEMMA InitTypes == Init => TypeOK
<1> SUFFICES ASSUME Init PROVE TypeOK
  OBVIOUS
<1>1. NoRun \in RunType
  BY KeyTypes DEF NoRun, RunType, Modes, Null
<1>2. /\ run \in [Prep -> RunType]
      /\ checkpoint \in [Modes -> KeyType] /\ answered \in [Modes -> KeyType]
  BY <1>1, KeyTypes DEF Init
<1>3. edit \in [step : {"idle", "loaded"}, kind : {"none", "change", "correct"} \cup Source,
                loaded : ProjectType]
  BY RecordTypes DEF Init, NoEdit
<1>4. pc \in [Prep -> Steps] /\ events \in 0 .. MaxEvents
  BY PreparationAssumption DEF Init, Steps
<1> QED BY <1>2, <1>3, <1>4, RecordTypes DEF Init, TypeOK

LEMMA ObservedType ==
  ASSUME TypeOK, Observed, checkpoint' \in [Modes -> KeyType]
  PROVE  answered' \in [Modes -> KeyType]
  BY KeyTypes DEF Observed, TypeOK

HappensType == events' \in 0 .. MaxEvents

LEMMA EventsTypes ==
  ASSUME TypeOK, Happens \/ UNCHANGED events
  PROVE  HappensType
  BY PreparationAssumption DEF TypeOK, Happens, HappensType

\* A step of one preparation, as far as the types go.
LEMMA PrepTypes ==
  ASSUME TypeOK, project' \in ProjectType, checkpoint' \in [Modes -> KeyType],
         answered' \in [Modes -> KeyType], HappensType,
         pc' \in [Prep -> Steps], run' \in [Prep -> RunType], UNCHANGED Frame
  PROVE  TypeOK'
  BY DEF TypeOK, Frame, browser, HappensType

\* What a step may make of the variables of one preparation.
IsOver(p) == pc[p] = "releasing" /\ run' = [run EXCEPT ![p] = NoRun]
IsJudged(p) ==
  \E v \in (Status \ {"running"}) \cup {"none"} :
    run' = [run EXCEPT ![p] = [run[p] EXCEPT !.verdict = v]]
IsInterrupted(p) ==
  run' = [run EXCEPT ![p] = [run[p] EXCEPT !.todo = {}, !.verdict = "interrupted"]]
GetsTodo(p) ==
  \E todo \in SUBSET run[p].targets : run' = [run EXCEPT ![p] = [run[p] EXCEPT !.todo = todo]]
GetsTargets(p) ==
  pc[p] = "opening" /\ run' = [run EXCEPT ![p] = [run[p] EXCEPT !.targets = project.included]]
GetsBasis(p) ==
  pc[p] = "settling" /\ run' = [run EXCEPT ![p] = [run[p] EXCEPT !.basis = StateKey(project)]]
IsShown(p) == run' = [run EXCEPT ![p] = [run[p] EXCEPT !.shown = project.rev]]

RunStep(p) ==
  \/ UNCHANGED run \/ IsOver(p) \/ IsJudged(p) \/ IsInterrupted(p)
  \/ GetsTodo(p) \/ GetsTargets(p) \/ GetsBasis(p) \/ IsShown(p)

LEMMA RunTypes ==
  ASSUME TypeOK, NEW p \in Prep, RunStep(p)
  PROVE  run' \in [Prep -> RunType]
<1>1. /\ run \in [Prep -> RunType] /\ run[p] \in RunType
      /\ \A r \in RunType : [run EXCEPT ![p] = r] \in [Prep -> RunType]
  BY DEF TypeOK
<1>2. ASSUME NEW r \in RunType
      PROVE  /\ \A v \in Status \cup {"none"} : [r EXCEPT !.verdict = v] \in RunType
             /\ \A todo \in SUBSET Source, v \in Status :
                  [r EXCEPT !.todo = todo, !.verdict = v] \in RunType
             /\ \A todo \in SUBSET Source : [r EXCEPT !.todo = todo] \in RunType
             /\ \A targets \in SUBSET Source : [r EXCEPT !.targets = targets] \in RunType
             /\ \A key \in KeyType : [r EXCEPT !.basis = key] \in RunType
             /\ \A n \in Nat : [r EXCEPT !.shown = n] \in RunType
  BY DEF RunType
<1>3. /\ project.included \in SUBSET Source /\ run[p].targets \in SUBSET Source
      /\ project.rev \in Nat /\ NoRun \in RunType /\ StateKey(project) \in KeyType
  BY <1>1, KeyTypes DEF TypeOK, ProjectType, RunType, NoRun, Modes, Null
<1>4. /\ [run[p] EXCEPT !.targets = project.included] \in RunType
      /\ [run[p] EXCEPT !.basis = StateKey(project)] \in RunType
      /\ [run[p] EXCEPT !.shown = project.rev] \in RunType
      /\ [run[p] EXCEPT !.todo = {}, !.verdict = "interrupted"] \in RunType
      /\ \A v \in (Status \ {"running"}) \cup {"none"} : [run[p] EXCEPT !.verdict = v] \in RunType
      /\ \A todo \in SUBSET run[p].targets : [run[p] EXCEPT !.todo = todo] \in RunType
  BY <1>1, <1>2, <1>3 DEF Status
<1> QED BY <1>1, <1>3, <1>4, Zenon
        DEF RunStep, IsOver, IsJudged, IsInterrupted, GetsTodo, GetsTargets, GetsBasis, IsShown

Early == {"none", "waiting", "opening", "claiming"}

\* A verdict is never "running", and what is left to do is a part of what
\* there was to do.
VerdictOf(p) ==
  /\ run[p].verdict # "running"
  /\ pc[p] = "marking" => run[p].verdict # "none"
  /\ run[p].todo \subseteq run[p].targets
  /\ pc[p] \in Early => run[p].todo = {}

LEMMA ProceedRuns ==
  ASSUME TypeOK, NEW p \in Prep, VerdictOf(p), ~Leave(p),
         Proceed(p) \/ ProposalFails(p) \/ RenderFails(p) \/ Break(p)
  PROVE  RunStep(p)
<1> USE DEF Keeps, Mark, Interrupted, RunStep, IsOver, IsJudged, IsInterrupted, GetsTodo,
            GetsTargets, GetsBasis, IsShown
<1>1. CASE Enter(p) \/ Break(p) \/ DiscardApplied(p) \/ DiscardUnresumable(p)
           \/ MarkTerminal(p) \/ LoadCheckpoint(p)
  BY <1>1 DEF Enter, Break, DiscardApplied, DiscardUnresumable, MarkTerminal, LoadCheckpoint
<1>2. CASE Open(p)
  BY <1>2 DEF Open
<1>3. CASE NextStage(p)
  BY <1>3 DEF NextStage
<1>4. CASE Settle(p)
  BY <1>4 DEF Settle, Status
<1>5. CASE Ask(p) \/ Place(p)
  BY <1>5 DEF Ask, Place, Status
<1>6. CASE StartPreview(p) \/ Release(p)
  BY <1>6 DEF StartPreview, Release
<1>7. CASE Stop(p)
  BY <1>7 DEF Stop, Status
<1>8. CASE ProposalFails(p) \/ RenderFails(p)
  BY <1>8 DEF ProposalFails, RenderFails, Status
<1>9. CASE Claim(p)
  BY <1>9 DEF Claim
<1>10. CASE Reply(p)
  BY <1>10 DEF Reply, Status
<1>11. CASE Apply(p)
  BY <1>11 DEF Apply, Status
<1>12. CASE Rendered(p)
  BY <1>12 DEF Rendered, Status
<1>13. ASSUME NEW s \in Source, VerifyMedia(p, s) \/ AnalyseAudio(p, s) \/ DescribeImages(p, s)
       PROVE  RunStep(p)
  <2>1. run' = [run EXCEPT ![p].todo = run[p].todo \ {s}]
    BY <1>13 DEF VerifyMedia, AnalyseAudio, DescribeImages, Staged
  <2>2. run[p].todo \ {s} \in SUBSET run[p].targets
    BY DEF VerdictOf
  <2> QED BY <2>1, <2>2
<1> QED BY <1>1, <1>2, <1>3, <1>4, <1>5, <1>6, <1>7, <1>8, <1>9, <1>10, <1>11, <1>12, <1>13
        DEF Proceed

LEMMA PcTypes ==
  ASSUME TypeOK, NEW p \in Prep, NEW step \in Steps, GoTo(p, step)
  PROVE  pc' \in [Prep -> Steps]
  BY DEF TypeOK, GoTo

\* Steps that look and move on, or leave a verdict behind.
LEMMA LookingTypes ==
  ASSUME TypeOK, NEW p \in Prep, VerdictOf(p),
         \/ Enter(p) \/ Open(p) \/ NextStage(p) \/ Settle(p) \/ Ask(p) \/ Place(p)
         \/ StartPreview(p) \/ Stop(p) \/ Release(p)
         \/ ProposalFails(p) \/ RenderFails(p) \/ Break(p)
  PROVE  TypeOK'
<1> USE DEF Keeps, Mark, Interrupted
<1>0. /\ project \in ProjectType /\ checkpoint \in [Modes -> KeyType]
      /\ answered \in [Modes -> KeyType] /\ run \in [Prep -> RunType]
      /\ project.included \in SUBSET Source /\ run[p].targets \in SUBSET Source
      /\ project.rev \in Nat /\ NoRun \in RunType
  BY KeyTypes DEF TypeOK, ProjectType, RunType, NoRun, Modes, Null
<1>1. UNCHANGED <<project, checkpoint, answered, Frame>>
  BY DEF Enter, Open, NextStage, Settle, Ask, Place, StartPreview, Stop, Release,
         ProposalFails, RenderFails, Break
<1>2. HappensType
  <2>1. Happens \/ UNCHANGED events
    BY DEF Enter, Open, NextStage, Settle, Ask, Place, StartPreview, Stop, Release,
           ProposalFails, RenderFails, Break
  <2> QED BY <2>1, EventsTypes
<1>3. \E step \in Steps : GoTo(p, step)
  BY DEF Enter, Open, NextStage, Settle, Ask, Place, StartPreview, Stop, Release,
         ProposalFails, RenderFails, Break, Steps
<1>4. run' \in [Prep -> RunType]
  BY ProceedRuns, RunTypes DEF Leave, Enter, Open, NextStage, Settle, Ask, Place, StartPreview,
     Stop, Release, ProposalFails, RenderFails, Break, Proceed
<1> QED BY <1>0, <1>1, <1>2, <1>3, <1>4, PcTypes, PrepTypes

LEMMA StagedTypes ==
  ASSUME TypeOK, NEW p \in Prep, NEW s \in Source,
         NEW part \in {"media", "audio", "visual"}, NEW outcome \in {"ready", "error"},
         NEW evidence \in Evidence, Staged(p, s, part, outcome, evidence)
  PROVE  TypeOK'
<1>1. project' \in ProjectType
  <2>1. outcome \in Stage /\ project \in ProjectType
    BY DEF Stage, TypeOK
  <2>2. project' = [project EXCEPT !.prep.sources[s][part] = outcome, !.analysis[s] = evidence]
    BY DEF Staged
  <2>3. CASE part = "media"
    BY <2>1, <2>2, <2>3, EvidenceTypes
  <2>4. CASE part = "audio"
    BY <2>1, <2>2, <2>4, EvidenceTypes
  <2>5. CASE part = "visual"
    BY <2>1, <2>2, <2>5, EvidenceTypes
  <2> QED BY <2>3, <2>4, <2>5
<1>2. run' \in [Prep -> RunType]
  <2>1. /\ run[p].todo \ {s} \in SUBSET Source
        /\ run' = [run EXCEPT ![p] = [run[p] EXCEPT !.todo = run[p].todo \ {s}]]
    BY DEF Staged, TypeOK, RunType
  <2>2. [run[p] EXCEPT !.todo = run[p].todo \ {s}] \in RunType
    BY <2>1 DEF TypeOK, RunType
  <2> QED BY <2>1, <2>2 DEF TypeOK
<1>3. answered' \in [Modes -> KeyType] /\ checkpoint' \in [Modes -> KeyType]
  BY ObservedType DEF Staged, TypeOK
<1>4. HappensType
  BY EventsTypes DEF Staged
<1> QED BY <1>1, <1>2, <1>3, <1>4, PrepTypes DEF Staged, TypeOK

LEMMA StagesTypes ==
  ASSUME TypeOK, NEW p \in Prep, NEW s \in Source,
         VerifyMedia(p, s) \/ AnalyseAudio(p, s) \/ DescribeImages(p, s)
  PROVE  TypeOK'
<1>1. project.analysis[s] \in Evidence
  BY DEF TypeOK, ProjectType
<1>2. CASE VerifyMedia(p, s)
  BY <1>1, <1>2, StagedTypes DEF VerifyMedia
<1>3. CASE AnalyseAudio(p, s)
  BY <1>1, <1>3, StagedTypes DEF AnalyseAudio, Evidence
<1>4. CASE DescribeImages(p, s)
  BY <1>1, <1>4, StagedTypes DEF DescribeImages, Evidence
<1> QED BY <1>2, <1>3, <1>4

\* Steps that write the project, a checkpoint or the lock.
LEMMA WritingTypes ==
  ASSUME TypeOK, NEW p \in Prep, VerdictOf(p),
         \/ Claim(p) \/ LoadCheckpoint(p) \/ Reply(p) \/ Apply(p) \/ DiscardApplied(p)
         \/ Rendered(p) \/ DiscardUnresumable(p) \/ MarkTerminal(p)
  PROVE  TypeOK'
<1> USE DEF Keeps, Mark, Interrupted
<1>0. /\ project \in ProjectType /\ checkpoint \in [Modes -> KeyType]
      /\ answered \in [Modes -> KeyType] /\ run \in [Prep -> RunType] /\ run[p] \in RunType
      /\ NoKey \in KeyType /\ [m \in Modes |-> NoKey] \in [Modes -> KeyType]
  BY KeyTypes DEF TypeOK
<1>1. UNCHANGED Frame
  BY DEF Claim, LoadCheckpoint, Reply, Apply, DiscardApplied, Rendered, DiscardUnresumable,
         MarkTerminal
<1>2. HappensType
  <2>1. Happens \/ UNCHANGED events
    BY DEF Claim, LoadCheckpoint, Reply, Apply, DiscardApplied, Rendered, DiscardUnresumable,
           MarkTerminal
  <2> QED BY <2>1, EventsTypes
<1>3. \E step \in Steps : GoTo(p, step)
  BY DEF Claim, LoadCheckpoint, Reply, Apply, DiscardApplied, Rendered, DiscardUnresumable,
         MarkTerminal, AfterStop, Steps
<1>4. run' \in [Prep -> RunType]
  BY ProceedRuns, RunTypes DEF Proceed, Leave, Claim, LoadCheckpoint, Reply, Apply,
     DiscardApplied, Rendered, DiscardUnresumable, MarkTerminal
<1>5. checkpoint' \in [Modes -> KeyType]
  <2>1. \A m \in Modes, key \in KeyType : [checkpoint EXCEPT ![m] = key] \in [Modes -> KeyType]
    BY <1>0
  <2>2. run[p].mode \in Modes /\ run[p].basis \in KeyType
    BY <1>0 DEF RunType
  <2>3. CASE Claim(p) \/ Apply(p) \/ Rendered(p) \/ MarkTerminal(p)
    BY <1>0, <2>3 DEF Claim, Apply, Rendered, MarkTerminal
  <2>4. CASE LoadCheckpoint(p)
    BY <1>0, <2>1, <2>2, <2>4 DEF LoadCheckpoint
  <2>5. CASE Reply(p)
    BY <1>0, <2>1, <2>2, <2>5 DEF Reply
  <2>6. CASE DiscardApplied(p)
    BY <1>0, <2>6 DEF DiscardApplied
  <2>7. CASE DiscardUnresumable(p)
    BY <1>0, <2>1, <2>2, <2>7 DEF DiscardUnresumable
  <2> QED BY <2>3, <2>4, <2>5, <2>6, <2>7
<1>6. answered' \in [Modes -> KeyType]
  <2>1. Observed \/ UNCHANGED answered
    BY DEF Claim, LoadCheckpoint, Reply, Apply, DiscardApplied, Rendered, DiscardUnresumable,
           MarkTerminal
  <2> QED BY <1>0, <1>5, <2>1, ObservedType
<1>7. project' \in ProjectType
  <2>1. CASE LoadCheckpoint(p) \/ Reply(p) \/ DiscardApplied(p) \/ DiscardUnresumable(p)
    BY <1>0, <2>1 DEF LoadCheckpoint, Reply, DiscardApplied, DiscardUnresumable
  <2>2. CASE Claim(p)
    <3> DEFINE record == [id |-> p, mode |-> run[p].mode, base |-> run[p].base,
                          status |-> "running", sources |-> NoStages]
    <3>1. record \in RecordType
      BY <1>0 DEF RecordType, RunType, Status, NoStages, Stage
    <3>2. project' = project \/ project' = [project EXCEPT !.prep = record]
      BY <2>2 DEF Claim
    <3> HIDE DEF record
    <3> QED BY <1>0, <3>1, <3>2, RecordTypes
  <2>3. CASE Apply(p)
    <3>1. /\ run[p].basis.content \in Seq(Prep \cup {Editor})
          /\ Append(run[p].basis.content, p) \in Seq(Prep \cup {Editor})
      BY <1>0 DEF RunType, KeyType
    <3>2. \A n \in Nat, c \in Seq(Prep \cup {Editor}) :
            [project EXCEPT !.rev = n, !.preview = Null, !.content = c] \in ProjectType
      BY <1>0 DEF ProjectType
    <3>3. project.rev + 1 \in Nat
      BY <1>0 DEF ProjectType
    <3>4. \/ project' = project
          \/ project' = [project EXCEPT !.rev = project.rev + 1, !.preview = Null,
                                        !.content = Append(run[p].basis.content, p)]
      BY <2>3 DEF Apply
    <3> QED BY <1>0, <3>1, <3>2, <3>3, <3>4
  <2>4. CASE Rendered(p)
    BY <1>0, <2>4, RecordTypes DEF Rendered
  <2>5. CASE MarkTerminal(p)
    <3>1. run[p].verdict \in Status
      BY <1>0, <2>5 DEF MarkTerminal, VerdictOf, RunType
    <3> QED BY <1>0, <2>5, <3>1, RecordTypes DEF MarkTerminal
  <2> QED BY <2>1, <2>2, <2>3, <2>4, <2>5
<1> QED BY <1>1, <1>2, <1>3, <1>4, <1>5, <1>6, <1>7, PcTypes, PrepTypes

LEMMA LockTypes ==
  ASSUME TypeOK, NEW p \in Prep, Leave(p) \/ \E mode \in Modes : Post(p, mode)
  PROVE  TypeOK'
<1>1. CASE Leave(p)
  <2>1. GoTo(p, "releasing") /\ "releasing" \in Steps
    BY <1>1 DEF Leave, Steps
  <2>2. tail' \in Prep \cup {Nobody}
    BY <1>1 DEF Leave, ChainAfter, TypeOK
  <2>3. UNCHANGED <<project, checkpoint, before, run, aborted, latest, cancelled, browser,
                    answered, events>>
    BY <1>1 DEF Leave
  <2> QED BY <2>1, <2>2, <2>3, PcTypes DEF TypeOK, browser
<1>2. ASSUME NEW mode \in Modes, Post(p, mode)
      PROVE  TypeOK'
  <2>1. pc' \in [Prep -> Steps]
    BY <1>2, PcTypes DEF Post, Steps
  <2>2. NewRun(mode) \in RunType
    BY KeyTypes DEF NewRun, NoRun, RunType, TypeOK, ProjectType, Null, Modes
  <2>3. run' \in [Prep -> RunType] /\ before' \in [Prep -> Prep \cup {Nobody}]
    BY <1>2, <2>2 DEF Post, TypeOK
  <2>4. HappensType
    BY <1>2, EventsTypes DEF Post
  <2>5. /\ tail' \in Prep \cup {Nobody} /\ latest' \in Prep \cup {Nobody}
        /\ aborted' \subseteq Prep /\ cancelled' \in BOOLEAN /\ analysing' \in Source \cup {Nobody}
        /\ UNCHANGED <<project, checkpoint, edit, repair, answered>>
    BY <1>2 DEF Post, Begin, TypeOK
  <2> QED BY <2>1, <2>3, <2>4, <2>5 DEF TypeOK, HappensType
<1> QED BY <1>1, <1>2

LEMMA ElsewhereTypes ==
  ASSUME TypeOK,
         \/ \E kind \in {"change", "correct"} \cup Source : EditLoad(kind)
         \/ EditSave \/ SettleCorrection
         \/ Cancel \/ ManualPreview \/ \E s \in Source : StartAnalysis(s)
         \/ AnalysisArrives \/ FindOrphan \/ MarkOrphan \/ Restart
  PROVE  TypeOK'
<1> USE DEF ProcessStays, process, browser, OtherOperation
<1>0. /\ project \in ProjectType /\ edit.loaded \in ProjectType
      /\ [m \in Modes |-> NoKey] \in [Modes -> KeyType]
  BY KeyTypes DEF TypeOK
<1>1. HappensType
  <2>1. Happens \/ UNCHANGED events
    BY DEF EditLoad, EditSave, SettleCorrection, Cancel, ManualPreview, StartAnalysis,
           AnalysisArrives, FindOrphan, MarkOrphan, Restart
  <2> QED BY <2>1, EventsTypes
<1>2. ASSUME NEW kind \in {"change", "correct"} \cup Source, EditLoad(kind)
      PROVE  TypeOK'
  BY <1>0, <1>1, <1>2 DEF EditLoad, TypeOK, HappensType
<1>3. CASE EditSave
  <2>1. project' \in ProjectType
    <3> DEFINE old == edit.loaded
               toggled == {edit.kind} \cap Source
               pending == old.pending \/ edit.kind = "correct"
               analysis == [s \in Source |-> IF old.analysis[s] = "none"
                                             THEN project.analysis[s] ELSE old.analysis[s]]
    <3>1. /\ pending \in BOOLEAN /\ analysis \in [Source -> Evidence]
          /\ toggled \in SUBSET Source
      BY <1>0 DEF ProjectType
    <3>2. \/ project' = project
          \/ project' = [old EXCEPT
                 !.rev = old.rev + 1, !.preview = Null,
                 !.content = Append(old.content, Editor),
                 !.included = (old.included \ toggled) \cup (toggled \ old.included),
                 !.pending = pending, !.analysis = analysis]
      BY <1>3 DEF EditSave
    <3>3. old \in ProjectType
      BY <1>0
    <3> HIDE DEF old, toggled, pending, analysis
    <3>4. [old EXCEPT !.rev = old.rev + 1, !.preview = Null,
                      !.content = Append(old.content, Editor),
                      !.included = (old.included \ toggled) \cup (toggled \ old.included),
                      !.pending = pending, !.analysis = analysis] \in ProjectType
      BY <3>1, <3>3, EditTypes
    <3> QED BY <1>0, <3>2, <3>4
  <2>2. answered' \in [Modes -> KeyType]
    BY <1>3, ObservedType DEF EditSave, TypeOK
  <2>3. edit' \in [step : {"idle", "loaded"}, kind : {"none", "change", "correct"} \cup Source,
                   loaded : ProjectType]
    BY <1>3, RecordTypes DEF EditSave, NoEdit
  <2> QED BY <1>1, <1>3, <2>1, <2>2, <2>3 DEF EditSave, TypeOK, HappensType
<1>4. CASE SettleCorrection
  <2>1. project' \in ProjectType
    BY <1>0, <1>4, RecordTypes DEF SettleCorrection
  <2>2. answered' \in [Modes -> KeyType]
    BY <1>4, ObservedType DEF SettleCorrection, TypeOK
  <2> QED BY <1>1, <1>4, <2>1, <2>2 DEF SettleCorrection, TypeOK, HappensType
<1>5. CASE Cancel \/ ManualPreview \/ \E s \in Source : StartAnalysis(s)
  BY <1>1, <1>5 DEF Cancel, ManualPreview, StartAnalysis, TypeOK, HappensType
<1>6. CASE AnalysisArrives
  <2>1. analysing \in Source
    BY <1>6 DEF AnalysisArrives, TypeOK
  <2>2. PICK evidence \in {"speech", "failed"} :
          project' = [project EXCEPT !.analysis[analysing] = evidence]
    BY <1>6 DEF AnalysisArrives
  <2>3. evidence \in Evidence /\ "ready" \in Stage
    BY <2>2 DEF Evidence, Stage
  <2>4. project' \in ProjectType
    BY <1>0, <2>1, <2>2, <2>3, EvidenceTypes
  <2> QED BY <1>0, <1>1, <1>6, <2>4 DEF AnalysisArrives, TypeOK, HappensType
<1>7. CASE FindOrphan
  BY <1>1, <1>7 DEF FindOrphan, TypeOK, HappensType
<1>8. CASE MarkOrphan
  <2>1. project' \in ProjectType
    BY <1>0, <1>8, RecordTypes DEF MarkOrphan, Status
  <2> QED BY <1>1, <1>8, <2>1 DEF MarkOrphan, TypeOK, HappensType
<1>9. CASE Restart
  <2>1. pc' \in [Prep -> Steps] /\ run' \in [Prep -> RunType]
    BY <1>9, KeyTypes DEF Restart, Steps, NoRun, RunType, Modes, Null
  <2>2. edit' \in [step : {"idle", "loaded"}, kind : {"none", "change", "correct"} \cup Source,
                   loaded : ProjectType]
    BY <1>9, RecordTypes DEF Restart, NoEdit
  <2> QED BY <1>1, <1>9, <2>1, <2>2 DEF Restart, TypeOK, HappensType
<1> QED BY <1>2, <1>3, <1>4, <1>5, <1>6, <1>7, <1>8, <1>9

LEMMA TypesStep ==
  ASSUME TypeOK, \A p \in Prep : VerdictOf(p), [Next]_vars
  PROVE  TypeOK'
<1>1. CASE UNCHANGED vars
  BY <1>1 DEF TypeOK, vars, process, browser
<1>2. ASSUME NEW p \in Prep, Proceed(p) \/ ProposalFails(p) \/ RenderFails(p) \/ Break(p)
      PROVE  TypeOK'
  BY <1>2, LookingTypes, StagesTypes, WritingTypes, LockTypes DEF Proceed
<1> QED BY <1>1, <1>2, LockTypes, ElsewhereTypes DEF Next

-----------------------------------------------------------------------------
(* What a preparation knows. Work says, of each preparation, what a record *)
(* that bears its id is worth, wherever it is (in the project, or in what  *)
(* an edit has loaded and may bring back); how the input of its proposal   *)
(* relates to the project it was taken from; and what it has in common     *)
(* with the replies that were kept.                                        *)

Loaded == edit.step = "loaded"
Parts == {"media", "audio", "visual"}
Unproposed == Early \cup Parts \cup {"settling"}
Paying == {"proposing", "asking", "awaiting", "placing", "writing", "applied"}

\* While p is the latest operation, a source whose images are said to be ready
\* has full evidence, or none that counts.
RecordOf(p, snap) ==
  snap.prep.id = p =>
    /\ pc[p] \notin Early
    /\ pc[p] \in {"media", "audio"} =>
         \A s \in Source : snap.prep.sources[s].visual = "pending"
    /\ latest = p =>
         \A s \in Source : snap.prep.sources[s].visual = "ready"
                          => snap.analysis[s] \in {"full", "failed"}

RecordsOf(p) == RecordOf(p, project) /\ (Loaded => RecordOf(p, edit.loaded))

\* The input was complete when it was taken, and at that revision still is.
BasisOf(p) ==
  /\ pc[p] \in Unproposed => run[p].basis = NoKey
  /\ pc[p] \in Paying => run[p].basis # NoKey
  /\ run[p].basis # NoKey =>
       /\ run[p].basis.rev \in Nat /\ run[p].basis.rev <= project.rev
       /\ pc[p] = "applied" => run[p].basis.rev < project.rev
       /\ \A s \in run[p].basis.included :
            /\ s \in run[p].targets /\ run[p].basis.analysis[s] = "full"
            /\ project.prep.id = p /\ project.rev = run[p].basis.rev =>
                 \A part \in Parts : project.prep.sources[s][part] = "ready"

\* A kept reply that is still good answers the input of whoever has one by now.
AnswersOf(p) ==
  /\ \A m \in Modes : answered[m] # NoKey =>
       /\ pc[p] \in {"claiming"} \cup Parts => run[p].targets = project.included
       /\ pc[p] \in Inside /\ run[p].basis # NoKey =>
            answered[m] = run[p].basis /\ StateKey(project) = run[p].basis
  /\ pc[p] \in {"asking", "awaiting"} => answered[run[p].mode] = NoKey

Fits(p) == VerdictOf(p) /\ RecordsOf(p) /\ BasisOf(p) /\ AnswersOf(p)

AnalysisAlone == analysing # Nobody => latest = Nobody

\* What an edit has loaded is no newer than the project.
EditFits ==
  Loaded =>
    /\ edit.loaded.rev <= project.rev
    /\ edit.loaded.rev = project.rev => edit.loaded.content = project.content
    /\ edit.loaded.prep.id = project.prep.id /\ project.prep.status = "running"
         => edit.loaded.prep.status = "running"

\* What was answered can still be had from the disk, and differs from the
\* project by images at most.
AnswersFit ==
  \A m \in Modes : answered[m] # NoKey =>
    /\ checkpoint[m] = answered[m]
    /\ CleanupKey(StateKey(project)) = CleanupKey(answered[m])
    /\ \A s \in Source : IF s \in project.included THEN answered[m].analysis[s] = "full"
                         ELSE answered[m].analysis[s] = project.analysis[s]

Work == /\ TypeOK /\ AnalysisAlone /\ EditFits /\ AnswersFit
        /\ \A p \in Prep : Fits(p)

LEMMA InitWork == Init => Work
<1> SUFFICES ASSUME Init PROVE Work
  OBVIOUS
<1>1. TypeOK
  BY InitTypes
<1>2. \A p \in Prep : Fits(p)
  BY PreparationAssumption
  DEF Init, Fits, VerdictOf, RecordsOf, RecordOf, BasisOf, AnswersOf, Loaded, NoEdit, NoRun,
      BlankProject, NoRecord, Paying, Inside, Parts
<1> QED BY <1>1, <1>2 DEF Init, Work, AnalysisAlone, EditFits, AnswersFit, Loaded, NoEdit

-----------------------------------------------------------------------------
(* Keys.                                                                   *)

LEMMA KeyParts ==
  ASSUME NEW snap \in ProjectType
  PROVE  /\ StateKey(snap).rev = snap.rev /\ StateKey(snap).content = snap.content
         /\ StateKey(snap).included = snap.included /\ StateKey(snap).pending = snap.pending
         /\ StateKey(snap).analysis = snap.analysis
         /\ StateKey(snap) # NoKey
  BY DEF StateKey, NoKey, ProjectType, Null

LEMMA CleanupParts ==
  ASSUME NEW k \in KeyType, NEW l \in KeyType, CleanupKey(k) = CleanupKey(l)
  PROVE  /\ k.rev = l.rev /\ k.content = l.content
         /\ k.included = l.included /\ k.pending = l.pending
<1>1. ASSUME NEW key \in KeyType
      PROVE  /\ CleanupKey(key).rev = key.rev /\ CleanupKey(key).content = key.content
             /\ CleanupKey(key).included = key.included /\ CleanupKey(key).pending = key.pending
  BY DEF CleanupKey, KeyType
<1> QED BY <1>1

LEMMA SameKeys ==
  ASSUME NEW k \in KeyType, NEW l \in KeyType, CleanupKey(k) = CleanupKey(l),
         \A s \in Source : k.analysis[s] = l.analysis[s]
  PROVE  k = l
  BY CleanupParts, SMTT(60) DEF KeyType

\* A new revision, or a correction that is settled, makes all replies useless.
LEMMA NewKeyForgets ==
  ASSUME TypeOK, TypeOK', AnswersFit, Observed, UNCHANGED checkpoint,
         project'.rev # project.rev \/ project'.pending # project.pending
  PROVE  \A m \in Modes : answered'[m] = NoKey
<1> SUFFICES ASSUME NEW m \in Modes, answered'[m] # NoKey PROVE FALSE
  OBVIOUS
<1>1. /\ answered'[m] = answered[m] /\ answered[m] # NoKey
      /\ CleanupKey(StateKey(project')) = CleanupKey(answered[m])
  BY DEF Observed
<1>2. CleanupKey(StateKey(project)) = CleanupKey(answered[m])
  BY <1>1 DEF AnswersFit
<1>3. /\ StateKey(project) \in KeyType /\ StateKey(project') \in KeyType
      /\ answered[m] \in KeyType /\ project \in ProjectType /\ project' \in ProjectType
  BY KeyTypes DEF TypeOK
<1>4. /\ StateKey(project).rev = StateKey(project').rev
      /\ StateKey(project).pending = StateKey(project').pending
  BY <1>1, <1>2, <1>3, CleanupParts
<1>5. /\ StateKey(project).rev = project.rev /\ StateKey(project').rev = project'.rev
      /\ StateKey(project).pending = project.pending /\ StateKey(project').pending = project'.pending
  BY <1>3, KeyParts
<1> QED BY <1>4, <1>5

-----------------------------------------------------------------------------
(* What a step does not disturb.                                           *)

\* Preparation q, if it moves, moves on.
PcOnward(q) ==
  /\ pc'[q] \in Early => pc[q] \in Early
  /\ pc'[q] \in {"media", "audio"} => pc[q] \in {"media", "audio"}
  /\ pc'[q] \in Unproposed => pc[q] \in Unproposed
  /\ pc'[q] \in Paying => pc[q] \in Paying
  /\ pc'[q] = "applied" => pc[q] = "applied"
  /\ pc'[q] \in {"claiming"} \cup Parts => pc[q] \in {"claiming"} \cup Parts
  /\ pc'[q] \in {"asking", "awaiting"} => pc[q] \in {"asking", "awaiting"}
  /\ pc'[q] \in Inside => pc[q] \in Inside

Onward(q) ==
  /\ PcOnward(q)
  /\ run'[q].targets = run[q].targets /\ run'[q].basis = run[q].basis
  /\ run'[q].mode = run[q].mode

EditStays ==
  Loaded' => \/ edit'.loaded = project
             \/ Loaded /\ edit'.loaded = edit.loaded

LEMMA RecordsStay ==
  ASSUME NEW q \in Prep, RecordsOf(q), PcOnward(q), latest' = q => latest = q, EditStays,
         project'.prep.id = q =>
           /\ project.prep.id = q /\ project'.prep.sources = project.prep.sources
           /\ latest = q => project'.analysis = project.analysis
  PROVE  RecordsOf(q)'
<1>1. RecordOf(q, project)'
  BY DEF RecordsOf, RecordOf, PcOnward
<1>2. ASSUME Loaded' PROVE RecordOf(q, edit.loaded)'
  BY <1>2 DEF RecordsOf, RecordOf, PcOnward, EditStays
<1> QED BY <1>1, <1>2 DEF RecordsOf

LEMMA BasisStays ==
  ASSUME NEW q \in Prep, BasisOf(q), Onward(q), project.rev \in Nat, project'.rev \in Nat,
         project'.rev >= project.rev,
         project'.prep.id = q /\ project'.rev = project.rev =>
           project.prep.id = q /\ project'.prep.sources = project.prep.sources
  PROVE  BasisOf(q)'
  BY DEF BasisOf, Onward, PcOnward

LEMMA AnswersStay ==
  ASSUME NEW q \in Prep, AnswersOf(q), Onward(q),
         \A m \in Modes : \/ answered'[m] = NoKey
                          \/ /\ answered'[m] = answered[m]
                             /\ StateKey(project') = StateKey(project)
                             /\ project'.included = project.included,
         run[q].mode \in Modes
  PROVE  AnswersOf(q)'
<1>1. ASSUME NEW m \in Modes, answered'[m] # NoKey
      PROVE  /\ answered'[m] = answered[m] /\ StateKey(project') = StateKey(project)
             /\ project'.included = project.included
  BY <1>1
<1>2. ASSUME NEW m \in Modes, answered'[m] # NoKey
      PROVE  /\ pc'[q] \in {"claiming"} \cup Parts => run'[q].targets = project'.included
             /\ pc'[q] \in Inside /\ run'[q].basis # NoKey =>
                  answered'[m] = run'[q].basis /\ StateKey(project') = run'[q].basis
  BY <1>1, <1>2 DEF AnswersOf, Onward, PcOnward
<1>3. pc'[q] \in {"asking", "awaiting"} => answered'[run'[q].mode] = NoKey
  BY DEF AnswersOf, Onward, PcOnward
<1>4. StateKey(project)' = StateKey(project')
  BY DEF StateKey
<1> QED BY <1>2, <1>3, <1>4 DEF AnswersOf

-----------------------------------------------------------------------------
(* Steps of a preparation.                                                 *)

ProceedsOrFails(p) == Proceed(p) \/ ProposalFails(p) \/ RenderFails(p) \/ Break(p)

LEMMA ProceedMoves ==
  ASSUME NEW p \in Prep, ProceedsOrFails(p)
  PROVE  /\ UNCHANGED <<edit, latest, analysing>>
         /\ UNCHANGED pc \/ \E step \in Steps : pc' = [pc EXCEPT ![p] = step]
<1> USE DEF Keeps, Frame, browser, Mark, GoTo, Interrupted, Steps
<1>1. CASE Enter(p) \/ Open(p) \/ Claim(p) \/ NextStage(p) \/ Settle(p) \/ LoadCheckpoint(p)
  BY <1>1 DEF Enter, Open, Claim, NextStage, Settle, LoadCheckpoint
<1>2. CASE \E s \in Source : VerifyMedia(p, s) \/ AnalyseAudio(p, s) \/ DescribeImages(p, s)
  BY <1>2 DEF VerifyMedia, AnalyseAudio, DescribeImages, Staged
<1>3. CASE Ask(p) \/ Reply(p) \/ Place(p) \/ Apply(p) \/ DiscardApplied(p) \/ StartPreview(p)
  BY <1>3 DEF Ask, Reply, Place, Apply, DiscardApplied, StartPreview
<1>4. CASE Rendered(p) \/ Stop(p) \/ DiscardUnresumable(p) \/ MarkTerminal(p) \/ Leave(p)
           \/ Release(p)
  BY <1>4 DEF Rendered, Stop, DiscardUnresumable, AfterStop, MarkTerminal, Leave, Release
<1>5. CASE ProposalFails(p) \/ RenderFails(p) \/ Break(p)
  BY <1>5 DEF ProposalFails, RenderFails, Break
<1> QED BY <1>1, <1>2, <1>3, <1>4, <1>5 DEF ProceedsOrFails, Proceed

LEMMA ProceedRunStep ==
  ASSUME TypeOK, NEW p \in Prep, VerdictOf(p), ProceedsOrFails(p)
  PROVE  RunStep(p)
<1>1. CASE Leave(p)
  BY <1>1 DEF Leave, RunStep
<1> QED BY <1>1, ProceedRuns DEF ProceedsOrFails

\* The same by the fields.
RunParts(p) ==
  \/ pc[p] = "releasing" /\ run'[p] = NoRun
  \/ /\ run'[p].mode = run[p].mode /\ run'[p].verdict # "running"
     /\ \/ /\ run'[p].targets = run[p].targets /\ run'[p].basis = run[p].basis
           /\ run'[p].todo \subseteq run[p].targets
        \/ /\ pc[p] = "opening" /\ run'[p].targets = project.included
           /\ run'[p].basis = run[p].basis /\ run'[p].todo = run[p].todo
        \/ /\ pc[p] = "settling" /\ run'[p].basis = StateKey(project)
           /\ run'[p].targets = run[p].targets /\ run'[p].todo = run[p].todo

LEMMA ProceedRunParts ==
  ASSUME TypeOK, NEW p \in Prep, VerdictOf(p), ProceedsOrFails(p)
  PROVE  RunParts(p) /\ \A q \in Prep \ {p} : run'[q] = run[q]
<1>0. RunStep(p) /\ run \in [Prep -> RunType] /\ run[p] \in RunType
  BY ProceedRunStep DEF TypeOK
<1>1. \A q \in Prep \ {p} : run'[q] = run[q]
  BY <1>0 DEF RunStep, IsOver, IsJudged, IsInterrupted, GetsTodo, GetsTargets, GetsBasis, IsShown
<1>2. RunParts(p)
  <2>1. CASE UNCHANGED run \/ IsOver(p)
    BY <1>0, <2>1 DEF IsOver, RunParts, VerdictOf
  <2>2. CASE IsJudged(p)
    BY <1>0, <2>2 DEF IsJudged, RunParts, VerdictOf, RunType
  <2>3. CASE IsInterrupted(p)
    BY <1>0, <2>3 DEF IsInterrupted, RunParts, VerdictOf, RunType
  <2>4. CASE GetsTodo(p)
    BY <1>0, <2>4 DEF GetsTodo, RunParts, VerdictOf, RunType
  <2>5. CASE GetsTargets(p)
    BY <1>0, <2>5 DEF GetsTargets, RunParts, VerdictOf, RunType
  <2>6. CASE GetsBasis(p)
    BY <1>0, <2>6 DEF GetsBasis, RunParts, VerdictOf, RunType
  <2>7. CASE IsShown(p)
    BY <1>0, <2>7 DEF IsShown, RunParts, VerdictOf, RunType
  <2> QED BY <1>0, <2>1, <2>2, <2>3, <2>4, <2>5, <2>6, <2>7 DEF RunStep
<1> QED BY <1>1, <1>2

\* The others stand by.
LEMMA OthersStandBy ==
  ASSUME TypeOK, NEW p \in Prep, VerdictOf(p), ProceedsOrFails(p), NEW q \in Prep, q # p
  PROVE  Onward(q) /\ VerdictOf(q)' = VerdictOf(q)
<1>1. run'[q] = run[q]
  BY ProceedRunParts
<1>2. pc'[q] = pc[q]
  BY ProceedMoves DEF TypeOK
<1> QED BY <1>1, <1>2 DEF Onward, PcOnward, VerdictOf

LEMMA VerdictStep ==
  ASSUME TypeOK, NEW p \in Prep, VerdictOf(p), ProceedsOrFails(p)
  PROVE  VerdictOf(p)'
<1>0. /\ pc \in [Prep -> Steps] /\ run \in [Prep -> RunType] /\ run[p] \in RunType
      /\ RunParts(p)
  BY ProceedRunParts DEF TypeOK
<1>1. CASE Enter(p)
  BY <1>0, <1>1 DEF Enter, GoTo, Keeps, VerdictOf, Early
<1>2. CASE Open(p)
  BY <1>0, <1>2 DEF Open, GoTo, VerdictOf, Early, RunParts, RunType
<1>b. CASE Break(p)
  BY <1>0, <1>b DEF Break, GoTo, VerdictOf, Early
<1>3. ASSUME ~Enter(p), ~Open(p), ~Break(p)
      PROVE  /\ pc'[p] \notin Early /\ pc[p] # "opening"
             /\ pc'[p] = "marking" => run'[p].verdict # "none"
  <2> USE DEF Keeps, Mark, GoTo, Interrupted, Early
  <2>1. CASE Claim(p) \/ NextStage(p)
    BY <1>0, <2>1 DEF Claim, NextStage, RunType
  <2>2. CASE Settle(p) \/ LoadCheckpoint(p) \/ Ask(p) \/ Place(p)
    BY <1>0, <2>2 DEF Settle, LoadCheckpoint, Ask, Place, RunType
  <2>3. CASE \E s \in Source : VerifyMedia(p, s) \/ AnalyseAudio(p, s) \/ DescribeImages(p, s)
    BY <1>0, <2>3 DEF VerifyMedia, AnalyseAudio, DescribeImages, Staged
  <2>4. CASE Reply(p) \/ Apply(p) \/ DiscardApplied(p) \/ StartPreview(p)
    BY <1>0, <2>4 DEF Reply, Apply, DiscardApplied, StartPreview, RunType
  <2>5. CASE Rendered(p) \/ Stop(p)
    BY <1>0, <2>5 DEF Rendered, Stop, RunType
  <2>6. CASE DiscardUnresumable(p) \/ MarkTerminal(p) \/ Leave(p) \/ Release(p)
    BY <1>0, <2>6 DEF DiscardUnresumable, AfterStop, MarkTerminal, Leave, Release
  <2>7. CASE ProposalFails(p) \/ RenderFails(p)
    BY <1>0, <2>7 DEF ProposalFails, RenderFails, RunType
  <2> QED BY <1>3, <2>1, <2>2, <2>3, <2>4, <2>5, <2>6, <2>7 DEF ProceedsOrFails, Proceed
<1>4. CASE ~Enter(p) /\ ~Open(p) /\ ~Break(p)
  <2>1. run'[p].verdict # "running" /\ run'[p].todo \subseteq run'[p].targets
    BY <1>0, <1>3, <1>4 DEF RunParts, NoRun, VerdictOf
  <2> QED BY <1>3, <1>4, <2>1 DEF VerdictOf
<1> QED BY <1>1, <1>2, <1>b, <1>4

-----------------------------------------------------------------------------
(* Steps that leave the key of the project alone.                          *)

SameKey ==
  /\ project'.rev = project.rev /\ project'.content = project.content
  /\ project'.included = project.included /\ project'.pending = project.pending
  /\ project'.analysis = project.analysis

LEMMA OnwardFits ==
  ASSUME Work, TypeOK', NEW q \in Prep, Onward(q), VerdictOf(q)', SameKey, UNCHANGED answered,
         EditStays, latest' = q => latest = q,
         project'.prep.id = q => /\ project.prep.id = q
                                 /\ project'.prep.sources = project.prep.sources
  PROVE  Fits(q)'
<1>1. /\ Fits(q) /\ project.rev \in Nat /\ project'.rev \in Nat /\ run[q].mode \in Modes
  BY DEF Work, TypeOK, ProjectType, RunType
<1>2. RecordsOf(q)'
  BY <1>1, RecordsStay DEF SameKey, Fits, Onward
<1>3. BasisOf(q)'
  BY <1>1, BasisStays DEF SameKey, Fits
<1>4. StateKey(project') = StateKey(project)
  BY DEF SameKey, StateKey
<1>5. AnswersOf(q)'
  BY <1>1, <1>4, AnswersStay DEF SameKey, Fits
<1> QED BY <1>2, <1>3, <1>5 DEF Fits

LEMMA SameKeyStep ==
  ASSUME Work, TypeOK', SameKey, UNCHANGED <<edit, answered>>, AnalysisAlone',
         /\ Loaded /\ edit.loaded.prep.id = project'.prep.id /\ project'.prep.status = "running"
           => edit.loaded.prep.status = "running",
         \A m \in Modes : answered[m] # NoKey => checkpoint'[m] = checkpoint[m],
         \A q \in Prep : Fits(q)'
  PROVE  Work'
<1>1. EditFits'
  BY DEF Work, EditFits, SameKey, Loaded
<1>2. AnswersFit'
  <2>1. CleanupKey(StateKey(project')) = CleanupKey(StateKey(project))
    BY DEF SameKey, StateKey
  <2> SUFFICES ASSUME NEW m \in Modes, answered[m] # NoKey
               PROVE  /\ checkpoint'[m] = answered[m]
                      /\ CleanupKey(StateKey(project')) = CleanupKey(answered[m])
                      /\ \A s \in Source : IF s \in project'.included THEN answered[m].analysis[s] = "full"
                                           ELSE answered[m].analysis[s] = project'.analysis[s]
    BY DEF AnswersFit, CleanupKey, StateKey
  <2> QED BY <2>1 DEF Work, AnswersFit, SameKey
<1> QED BY <1>1, <1>2 DEF Work

Quiet(p) ==
  \/ NextStage(p) \/ Ask(p) \/ Place(p) \/ DiscardApplied(p) \/ StartPreview(p) \/ Rendered(p)
  \/ Stop(p) \/ DiscardUnresumable(p) \/ MarkTerminal(p) \/ Leave(p)
  \/ ProposalFails(p) \/ RenderFails(p) \/ Break(p)

LEMMA QuietOnward ==
  ASSUME TypeOK, NEW p \in Prep, VerdictOf(p), Quiet(p)
  PROVE  Onward(p)
<1>0. pc \in [Prep -> Steps] /\ run \in [Prep -> RunType] /\ RunParts(p)
  BY ProceedRunParts DEF TypeOK, Quiet, ProceedsOrFails, Proceed
<1>1. PcOnward(p)
  <2> USE DEF Keeps, Mark, GoTo, Interrupted, Early, PcOnward, Unproposed, Paying, Parts,
              Inside, Steps
  <2>1. CASE NextStage(p) \/ Ask(p) \/ Place(p)
    BY <1>0, <2>1 DEF NextStage, Ask, Place
  <2>2. CASE DiscardApplied(p) \/ StartPreview(p) \/ Rendered(p)
    BY <1>0, <2>2 DEF DiscardApplied, StartPreview, Rendered
  <2>3. CASE Stop(p) \/ DiscardUnresumable(p) \/ MarkTerminal(p) \/ Leave(p)
    BY <1>0, <2>3 DEF Stop, DiscardUnresumable, AfterStop, MarkTerminal, Leave
  <2>4. CASE ProposalFails(p) \/ RenderFails(p) \/ Break(p)
    BY <1>0, <2>4 DEF ProposalFails, RenderFails, Break
  <2> QED BY <2>1, <2>2, <2>3, <2>4 DEF Quiet
<1>2. CASE Break(p) \/ Stop(p)
  BY <1>0, <1>1, <1>2 DEF Break, Stop, Onward, RunType
<1>3. CASE ~Break(p) /\ ~Stop(p)
  <2>1. pc[p] \notin {"releasing", "opening", "settling"}
    BY <1>3 DEF Quiet, NextStage, Ask, Place, DiscardApplied, StartPreview, Rendered,
       DiscardUnresumable, MarkTerminal, Leave, ProposalFails, RenderFails
  <2> QED BY <1>0, <1>1, <2>1 DEF RunParts, Onward
<1> QED BY <1>2, <1>3

\* A discard takes no reply that is still good.
LEMMA QuietKeepsReplies ==
  ASSUME Work, NEW p \in Prep, Quiet(p), NEW m \in Modes, answered[m] # NoKey
  PROVE  checkpoint'[m] = checkpoint[m]
<1>0. /\ checkpoint \in [Modes -> KeyType] /\ project \in ProjectType /\ Fits(p)
      /\ run[p].mode \in Modes
  BY DEF Work, TypeOK, RunType
<1>1. CASE DiscardApplied(p)
  <2>1. pc[p] = "applied"
    BY <1>1 DEF DiscardApplied
  <2>2. run[p].basis # NoKey /\ run[p].basis.rev < project.rev /\ StateKey(project) = run[p].basis
    BY <1>0, <2>1 DEF Fits, BasisOf, AnswersOf, Paying, Inside, Steps
  <2>3. run[p].basis.rev = project.rev
    BY <1>0, <2>2, KeyParts
  <2> QED BY <1>0, <2>2, <2>3 DEF ProjectType
<1>2. CASE DiscardUnresumable(p)
  <2>1. pc[p] = "stopping" /\ pc[p] \in Inside
    BY <1>2 DEF DiscardUnresumable, Inside, Steps
  <2>2. CASE m # run[p].mode \/ ~Unresumable(p)
    BY <1>0, <1>2, <2>2 DEF DiscardUnresumable
  <2>3. CASE m = run[p].mode /\ Unresumable(p)
    <3>1. CASE run[p].basis # NoKey
      BY <1>0, <2>1, <2>3, <3>1 DEF Unresumable, Fits, AnswersOf
    <3>2. CASE run[p].basis = NoKey
      BY <2>3, <3>2 DEF Unresumable, Work, AnswersFit
    <3> QED BY <3>1, <3>2
  <2> QED BY <2>2, <2>3
<1>3. CASE ~DiscardApplied(p) /\ ~DiscardUnresumable(p)
  BY <1>3 DEF Quiet, NextStage, Ask, Place, StartPreview, Rendered, Stop, MarkTerminal, Leave,
     ProposalFails, RenderFails, Break
<1> QED BY <1>1, <1>2, <1>3

LEMMA QuietWork ==
  ASSUME Work, TypeOK', NEW p \in Prep, Quiet(p)
  PROVE  Work'
<1>0. ProceedsOrFails(p) /\ VerdictOf(p) /\ TypeOK /\ project \in ProjectType
  BY DEF Quiet, ProceedsOrFails, Proceed, Work, Fits, TypeOK
<1>1. UNCHANGED <<edit, latest, analysing>>
  BY <1>0, ProceedMoves
<1>2. /\ SameKey /\ UNCHANGED answered
      /\ project'.prep.id = project.prep.id /\ project'.prep.sources = project.prep.sources
      /\ project'.prep.status = "running" => project.prep.status = "running"
  <2> USE DEF SameKey, Keeps
  <2>1. CASE Rendered(p)
    BY <1>0, <2>1 DEF Rendered, ProjectType
  <2>2. CASE MarkTerminal(p)
    BY <1>0, <2>2 DEF MarkTerminal, VerdictOf, ProjectType, RecordType
  <2>3. CASE ~Rendered(p) /\ ~MarkTerminal(p)
    BY <2>3 DEF Quiet, NextStage, Ask, Place, DiscardApplied, StartPreview, Stop,
       DiscardUnresumable, Leave, ProposalFails, RenderFails, Break
  <2> QED BY <2>1, <2>2, <2>3
<1>3. \A q \in Prep : Onward(q) /\ VerdictOf(q)'
  BY <1>0, QuietOnward, OthersStandBy, VerdictStep DEF Work, Fits
<1>4. EditStays
  BY <1>1 DEF EditStays, Loaded
<1>5. \A q \in Prep : Fits(q)'
  BY <1>1, <1>2, <1>3, <1>4, OnwardFits
<1>6. AnalysisAlone'
  BY <1>1 DEF Work, AnalysisAlone
<1>7. \A m \in Modes : answered[m] # NoKey => checkpoint'[m] = checkpoint[m]
  BY QuietKeepsReplies
<1>8. /\ Loaded /\ edit.loaded.prep.id = project'.prep.id /\ project'.prep.status = "running"
        => edit.loaded.prep.status = "running"
  BY <1>2 DEF Work, EditFits
<1> QED BY <1>1, <1>2, <1>5, <1>6, <1>7, <1>8, SameKeyStep

RecordStays(p) ==
  \/ project'.prep = project.prep
  \/ project'.prep.id = p /\ (Loaded => edit.loaded.prep.id # p)
RepliesStay ==
  \A m \in Modes : answered[m] # NoKey => checkpoint'[m] = checkpoint[m]

\* The steps that change what is said of p itself, p's own part being shown.
LEMMA OwnStep ==
  ASSUME Work, TypeOK', NEW p \in Prep, ProceedsOrFails(p), SameKey, answered' = answered,
         RecordStays(p), RepliesStay, RecordsOf(p)', BasisOf(p)', AnswersOf(p)'
  PROVE  Work'
<1> USE DEF RecordStays, RepliesStay
<1>0. UNCHANGED <<edit, latest, analysing>> /\ VerdictOf(p) /\ TypeOK
  BY ProceedMoves DEF Work, Fits
<1>1. EditStays
  BY <1>0 DEF EditStays, Loaded
<1>2. ASSUME NEW q \in Prep, q # p PROVE Fits(q)'
  <2>1. Onward(q) /\ VerdictOf(q)'
    BY <1>0, <1>2, OthersStandBy DEF Work, Fits
  <2> QED BY <1>0, <1>1, <1>2, <2>1, OnwardFits
<1>3. Fits(p)'
  BY <1>0, VerdictStep DEF Fits
<1>4. AnalysisAlone'
  BY <1>0 DEF Work, AnalysisAlone
<1>5. /\ Loaded /\ edit.loaded.prep.id = project'.prep.id /\ project'.prep.status = "running"
        => edit.loaded.prep.status = "running"
  BY DEF Work, EditFits
<1>6. \A q \in Prep : Fits(q)'
  BY <1>2, <1>3
<1> QED BY <1>0, <1>4, <1>5, <1>6, SameKeyStep

LEMMA StartingWork ==
  ASSUME Work, TypeOK', NEW p \in Prep, Enter(p) \/ Open(p) \/ Release(p)
  PROVE  Work'
<1> USE DEF GoTo, Keeps, Frame, Early, Unproposed, Paying, Parts, Inside, Steps
<1>0. /\ pc \in [Prep -> Steps] /\ run \in [Prep -> RunType] /\ Fits(p) /\ ProceedsOrFails(p)
      /\ VerdictOf(p) /\ TypeOK
  BY DEF Work, TypeOK, Fits, ProceedsOrFails, Proceed
<1>1. UNCHANGED <<project, checkpoint, answered, edit, latest>>
  BY DEF Enter, Open, Release, browser
<1>2. SameKey
  BY <1>1 DEF SameKey
<1>3. RecordsOf(p)'
  <2>1. \/ pc[p] \in Early
        \/ pc'[p] \notin Early \cup {"media", "audio"}
    BY <1>0 DEF Enter, Open, Release
  <2>2. pc[p] \in Early => project.prep.id # p /\ (Loaded => edit.loaded.prep.id # p)
    BY <1>0 DEF Fits, RecordsOf, RecordOf
  <2> QED BY <1>0, <1>1, <2>1, <2>2 DEF RecordsOf, RecordOf, Fits, Loaded
<1>4. BasisOf(p)'
  <2>1. \/ pc[p] \in Early /\ run'[p].basis = run[p].basis
        \/ run'[p].basis = NoKey
    BY <1>0 DEF Enter, Open, Release, RunType, NoRun
  <2>2. run'[p].basis = NoKey /\ pc'[p] \notin Paying
    BY <1>0, <2>1 DEF Fits, BasisOf, Enter, Open, Release
  <2> QED BY <2>2 DEF BasisOf
<1>5. AnswersOf(p)'
  <2>1. run'[p].basis = NoKey
    BY <1>0 DEF Fits, BasisOf, Enter, Open, Release, RunType, NoRun
  <2>2. pc'[p] \in {"claiming"} \cup Parts => run'[p].targets = project.included
    BY <1>0 DEF Enter, Open, Release, RunType
  <2>3. pc'[p] \notin {"asking", "awaiting"}
    BY <1>0 DEF Enter, Open, Release
  <2> QED BY <1>1, <2>1, <2>2, <2>3 DEF AnswersOf
<1>6. answered' = answered /\ RecordStays(p) /\ RepliesStay
  BY <1>1 DEF RecordStays, RepliesStay
<1> QED BY <1>0, <1>2, <1>3, <1>4, <1>5, <1>6, OwnStep

LEMMA ClaimWork ==
  ASSUME Work, TypeOK', NEW p \in Prep, Claim(p)
  PROVE  Work'
<1> USE DEF GoTo, Keeps, Frame, Early, Unproposed, Paying, Parts, Inside, Steps
<1>0. /\ pc \in [Prep -> Steps] /\ run \in [Prep -> RunType] /\ Fits(p) /\ ProceedsOrFails(p)
      /\ pc[p] = "claiming" /\ run[p].basis = NoKey /\ run'[p].basis = run[p].basis
      /\ run'[p].targets = run[p].targets /\ pc'[p] \in {"leaving", "media"}
      /\ project \in ProjectType
  BY DEF Work, TypeOK, Fits, BasisOf, ProceedsOrFails, Proceed, Claim, RunType
<1>1. UNCHANGED <<checkpoint, answered, edit, latest>>
  BY DEF Claim, browser
<1>2. /\ SameKey
      /\ \/ project' = project
         \/ project'.prep.id = p /\ project'.prep.sources = NoStages
  BY <1>0 DEF Claim, SameKey, ProjectType
<1>3. project.prep.id # p /\ (Loaded => edit.loaded.prep.id # p)
  BY <1>0 DEF Fits, RecordsOf, RecordOf
<1>4. RecordsOf(p)'
  BY <1>0, <1>1, <1>2, <1>3 DEF RecordsOf, RecordOf, Loaded, NoStages
<1>5. BasisOf(p)'
  BY <1>0 DEF BasisOf
<1>6. AnswersOf(p)'
  BY <1>0, <1>1, <1>2 DEF AnswersOf, Fits, SameKey
<1>7. answered' = answered /\ RecordStays(p) /\ RepliesStay
  BY <1>1, <1>2, <1>3 DEF RecordStays, RepliesStay
<1> QED BY <1>0, <1>2, <1>4, <1>5, <1>6, <1>7, OwnStep

LEMMA LoadCheckpointWork ==
  ASSUME Work, TypeOK', NEW p \in Prep, LoadCheckpoint(p)
  PROVE  Work'
<1> USE DEF GoTo, Keeps, Frame, Early, Unproposed, Paying, Parts, Inside, Steps
<1>0. /\ pc \in [Prep -> Steps] /\ Fits(p) /\ ProceedsOrFails(p) /\ run[p].mode \in Modes
      /\ pc[p] = "proposing" /\ pc'[p] \in {"placing", "asking"} /\ run[p].basis # NoKey
      /\ checkpoint \in [Modes -> KeyType]
  BY DEF Work, TypeOK, Fits, BasisOf, ProceedsOrFails, Proceed, LoadCheckpoint, RunType
<1>1. UNCHANGED <<project, answered, edit, latest, run>> /\ SameKey
  BY DEF LoadCheckpoint, browser, SameKey
<1>2. answered[run[p].mode] # NoKey => checkpoint[run[p].mode] = run[p].basis
  BY <1>0 DEF Fits, AnswersOf, Work, AnswersFit
<1>3. \A m \in Modes : answered[m] # NoKey => checkpoint'[m] = checkpoint[m]
  BY <1>0, <1>2 DEF LoadCheckpoint
<1>4. RecordsOf(p)'
  BY <1>0, <1>1 DEF Fits, RecordsOf, RecordOf, Loaded
<1>5. BasisOf(p)'
  BY <1>0, <1>1 DEF Fits, BasisOf
<1>6. AnswersOf(p)'
  <2>1. pc'[p] = "asking" => answered[run[p].mode] = NoKey
    BY <1>0, <1>2 DEF LoadCheckpoint
  <2> QED BY <1>0, <1>1, <2>1 DEF Fits, AnswersOf
<1>7. answered' = answered /\ RecordStays(p) /\ RepliesStay
  BY <1>1, <1>3 DEF RecordStays, RepliesStay
<1> QED BY <1>0, <1>1, <1>4, <1>5, <1>6, <1>7, OwnStep

\* The input is taken: it is complete, and what was answered for a project that
\* differs by images at most was answered for this input.
LEMMA SettleWork ==
  ASSUME Work, TypeOK', NEW p \in Prep, Settle(p)
  PROVE  Work'
<1> DEFINE key == StateKey(project)
<1>0. /\ pc \in [Prep -> Steps] /\ run \in [Prep -> RunType] /\ Fits(p) /\ ProceedsOrFails(p)
      /\ pc[p] = "settling" /\ run[p].basis = NoKey /\ run'[p].targets = run[p].targets
      /\ project \in ProjectType
  BY DEF Work, TypeOK, Fits, BasisOf, Unproposed, ProceedsOrFails, Proceed, Settle, Mark, RunType
<1>1. UNCHANGED <<project, checkpoint, answered, edit, latest>>
  BY DEF Settle, Keeps, Frame, browser
<1>2. answered' = answered /\ SameKey /\ RecordStays(p) /\ RepliesStay
  BY <1>1 DEF SameKey, RecordStays, RepliesStay
<1>3. \/ pc'[p] = "marking" /\ run'[p].basis = NoKey
      \/ /\ pc'[p] = "proposing" /\ run'[p].basis = key
         /\ Alive(p) /\ ~Blocked(p)
  BY <1>0 DEF Settle, Mark, GoTo, RunType
<1>4. RecordsOf(p)'
  BY <1>0, <1>1, <1>3 DEF Fits, RecordsOf, RecordOf, Loaded, Early
<1>5. CASE pc'[p] = "marking"
  <2>1. BasisOf(p)'
    BY <1>3, <1>5 DEF BasisOf, Paying, Unproposed
  <2>2. AnswersOf(p)'
    BY <1>3, <1>5 DEF AnswersOf, Parts
  <2> QED BY <1>0, <1>2, <1>4, <2>1, <2>2, OwnStep
<1>6. CASE pc'[p] = "proposing"
  <2>0. run'[p].basis = key /\ Alive(p) /\ ~Blocked(p)
    BY <1>3, <1>6
  <2>1. /\ key.rev = project.rev /\ key.included = project.included
        /\ key.analysis = project.analysis /\ key # NoKey /\ key \in KeyType
    BY <1>0, KeyParts, KeyTypes
  <2> HIDE DEF key
  <2>2. \A s \in project.included :
          /\ s \in Source /\ s \in run[p].targets
          /\ \A part \in Parts : project.prep.sources[s][part] = "ready"
          /\ project.analysis[s] \notin {"none", "failed"}
    BY <1>0, <2>0 DEF Blocked, Parts, ProjectType
  <2>3. \A s \in project.included : project.analysis[s] = "full"
    <3>1. project.prep.id = p /\ latest = p
      BY <2>0 DEF Alive, NotStopped, IsCurrent
    <3> QED BY <1>0, <2>2, <3>1 DEF Fits, RecordsOf, RecordOf, Parts
  <2>4. BasisOf(p)'
    BY <1>0, <1>1, <1>6, <2>0, <2>1, <2>2, <2>3 DEF BasisOf, Unproposed, Paying, Parts, Early, ProjectType
  <2>5. \A m \in Modes : answered[m] # NoKey => answered[m] = key
    <3> SUFFICES ASSUME NEW m \in Modes, answered[m] # NoKey PROVE answered[m] = key
      OBVIOUS
    <3>1. /\ CleanupKey(answered[m]) = CleanupKey(key)
          /\ \A s \in Source : IF s \in project.included THEN answered[m].analysis[s] = "full"
                               ELSE answered[m].analysis[s] = project.analysis[s]
      BY DEF Work, AnswersFit, key
    <3>2. answered[m] \in KeyType
      BY DEF Work, TypeOK
    <3>3. \A s \in Source : answered[m].analysis[s] = key.analysis[s]
      BY <2>1, <2>3, <3>1
    <3> QED BY <2>1, <3>1, <3>2, <3>3, SameKeys
  <2>6. AnswersOf(p)'
    <3>1. StateKey(project) = key /\ StateKey(project)' = StateKey(project)
      BY <1>1 DEF key
    <3> QED BY <1>1, <1>6, <2>0, <2>5, <3>1 DEF AnswersOf, Parts
  <2> QED BY <1>0, <1>2, <1>4, <2>4, <2>6, OwnStep
<1> QED BY <1>3, <1>5, <1>6

\* The reply is kept: it is for the project as it is.
LEMMA ReplyWork ==
  ASSUME Work, OneAtATime, TypeOK', NEW p \in Prep, Reply(p)
  PROVE  Work'
<1>0. /\ pc \in [Prep -> Steps] /\ run \in [Prep -> RunType] /\ Fits(p) /\ ProceedsOrFails(p)
      /\ pc[p] = "awaiting" /\ run'[p].targets = run[p].targets /\ run'[p].basis = run[p].basis
      /\ run'[p].mode = run[p].mode /\ run[p].mode \in Modes /\ run[p].basis # NoKey
      /\ pc'[p] \in {"marking", "placing"} /\ project \in ProjectType /\ TypeOK /\ VerdictOf(p)
      /\ UNCHANGED <<project, edit, latest, analysing>>
      /\ checkpoint \in [Modes -> KeyType]
  BY DEF Work, TypeOK, Fits, BasisOf, Paying, ProceedsOrFails, Proceed, Reply, Mark, GoTo, RunType,
     Frame, browser
<1> DEFINE mode == run[p].mode
<1>1. \/ StateKey(project) = run[p].basis /\ checkpoint' = [checkpoint EXCEPT ![mode] = run[p].basis]
      \/ UNCHANGED checkpoint
  BY DEF Reply
<1>2. Observed
  BY DEF Reply
<1>3. ASSUME NEW m \in Modes, answered'[m] # NoKey
      PROVE  \/ /\ answered'[m] = answered[m] /\ checkpoint'[m] = checkpoint[m]
             \/ /\ m = mode /\ answered'[m] = run[p].basis /\ checkpoint'[m] = run[p].basis
                /\ StateKey(project) = run[p].basis
  <2>1. \/ checkpoint'[m] = checkpoint[m]
        \/ m = mode /\ checkpoint'[m] = run[p].basis /\ StateKey(project) = run[p].basis
    BY <1>0, <1>1
  <2>2. \/ answered'[m] = checkpoint'[m] /\ checkpoint[m] # checkpoint'[m]
        \/ answered'[m] = answered[m] /\ checkpoint[m] = checkpoint'[m]
    <3>1. \/ checkpoint'[m] # NoKey /\ checkpoint[m] # checkpoint'[m] /\ answered'[m] = checkpoint'[m]
          \/ ~(checkpoint'[m] # NoKey /\ checkpoint[m] # checkpoint'[m]) /\ answered'[m] = answered[m]
      BY <1>2, <1>3 DEF Observed
    <3> QED BY <1>0, <2>1, <3>1
  <2> QED BY <2>1, <2>2
<1>4. \A s \in run[p].basis.included : run[p].basis.analysis[s] = "full"
  BY <1>0 DEF Fits, BasisOf
<1>5. AnswersFit'
  <2> SUFFICES ASSUME NEW m \in Modes, answered'[m] # NoKey
               PROVE  /\ checkpoint'[m] = answered'[m]
                      /\ CleanupKey(StateKey(project)) = CleanupKey(answered'[m])
                      /\ \A s \in Source : IF s \in project.included THEN answered'[m].analysis[s] = "full"
                                           ELSE answered'[m].analysis[s] = project.analysis[s]
    BY <1>0 DEF AnswersFit, CleanupKey, StateKey
  <2>1. CASE answered'[m] = answered[m] /\ checkpoint'[m] = checkpoint[m]
    BY <2>1 DEF Work, AnswersFit
  <2>2. CASE answered'[m] = run[p].basis /\ checkpoint'[m] = run[p].basis /\ StateKey(project) = run[p].basis
    BY <1>0, <1>4, <2>2, KeyParts
  <2> QED BY <1>3, <2>1, <2>2
<1>6. EditStays
  BY <1>0 DEF EditStays, Loaded
<1>7. ASSUME NEW q \in Prep PROVE RecordsOf(q)' /\ BasisOf(q)' /\ VerdictOf(q)'
  <2>1. Onward(q) /\ VerdictOf(q)'
    <3>1. CASE q = p
      BY <1>0, <3>1, VerdictStep
         DEF Onward, PcOnward, Early, Unproposed, Paying, Parts, Inside, Steps
    <3>2. CASE q # p
      BY <1>0, <3>2, OthersStandBy DEF Work, Fits
    <3> QED BY <3>1, <3>2
  <2>2. Fits(q) /\ project.rev \in Nat
    BY DEF Work, TypeOK, ProjectType
  <2>3. RecordsOf(q)'
    BY <1>0, <1>6, <2>1, <2>2, RecordsStay DEF Fits, Onward
  <2>4. BasisOf(q)'
    BY <1>0, <2>1, <2>2, BasisStays DEF Fits
  <2> QED BY <2>1, <2>3, <2>4
<1>8. ASSUME NEW q \in Prep PROVE AnswersOf(q)'
  <2>1. CASE q = p
    <3>1. \A m \in Modes : answered'[m] # NoKey =>
            answered'[m] = run[p].basis /\ StateKey(project) = run[p].basis
      BY <1>0, <1>3 DEF Fits, AnswersOf, Inside, Steps
    <3>2. StateKey(project)' = StateKey(project)
      BY <1>0
    <3> QED BY <1>0, <2>1, <3>1, <3>2 DEF AnswersOf, Parts
  <2>2. CASE q # p
    <3>1. pc[q] \notin Inside /\ pc'[q] = pc[q] /\ run'[q] = run[q]
      BY <1>0, <2>2, ProceedRunParts, ProceedMoves DEF OneAtATime, Inside, Steps
    <3> QED BY <1>0, <3>1 DEF AnswersOf, Parts, Inside, Steps
  <2> QED BY <2>1, <2>2
<1>9. AnalysisAlone' /\ EditFits'
  BY <1>0 DEF Work, AnalysisAlone, EditFits, Loaded
<1> QED BY <1>5, <1>7, <1>8, <1>9 DEF Work, Fits

\* A step in which p changes the project: what holds of the other preparations.
LEMMA OthersFit ==
  ASSUME Work, OneAtATime, NEW p \in Prep, ProceedsOrFails(p), pc[p] \in Inside,
         project'.rev \in Nat, project'.rev >= project.rev, project'.prep.id \in {p, project.prep.id},
         project.prep.id # p => project' = project,
         NEW q \in Prep, q # p
  PROVE  Fits(q)'
<1>0. Fits(q) /\ TypeOK /\ VerdictOf(p) /\ project.rev \in Nat
  BY DEF Work, Fits, TypeOK, ProjectType
<1>1. Onward(q) /\ VerdictOf(q)'
  BY <1>0, OthersStandBy DEF Fits
<1>2. UNCHANGED <<edit, latest>> /\ EditStays
  BY <1>0, ProceedMoves DEF EditStays, Loaded
<1>3. RecordsOf(q)'
  BY <1>0, <1>1, <1>2, RecordsStay DEF Fits, Onward
<1>4. BasisOf(q)'
  BY <1>0, <1>1, BasisStays DEF Fits
<1>5. AnswersOf(q)'
  <2>1. pc[q] \notin Inside /\ pc'[q] = pc[q] /\ run'[q] = run[q]
    BY <1>0, ProceedRunParts, ProceedMoves DEF OneAtATime, Inside, Steps, TypeOK
  <2> QED BY <2>1 DEF AnswersOf, Parts, Inside, Steps
<1> QED BY <1>1, <1>3, <1>4, <1>5 DEF Fits

\* What a stage writes, field by field.
Writes(s, part, outcome, evidence) ==
  /\ project'.rev = project.rev /\ project'.content = project.content
  /\ project'.included = project.included /\ project'.pending = project.pending
  /\ project'.prep.id = project.prep.id /\ project'.prep.status = project.prep.status
  /\ \A t \in Source : project'.analysis[t] = IF t = s THEN evidence ELSE project.analysis[t]
  /\ \A t \in Source, part2 \in Parts :
       project'.prep.sources[t][part2] = IF t = s /\ part2 = part THEN outcome
                                         ELSE project.prep.sources[t][part2]

LEMMA StagedWrites ==
  ASSUME TypeOK, NEW p \in Prep, NEW s \in Source, NEW part \in Parts,
         NEW outcome \in {"ready", "error"}, NEW evidence \in Evidence,
         Staged(p, s, part, outcome, evidence)
  PROVE  Writes(s, part, outcome, evidence)
<1>1. /\ project \in ProjectType /\ project.analysis \in [Source -> Evidence]
      /\ project.prep.sources \in [Source -> [media : Stage, audio : Stage, visual : Stage]]
      /\ project' = [project EXCEPT !.prep.sources[s][part] = outcome, !.analysis[s] = evidence]
  BY DEF TypeOK, ProjectType, RecordType, Staged
<1> QED BY <1>1 DEF Writes, Parts, ProjectType, RecordType

LEMMA StagedWork ==
  ASSUME Work, OneAtATime, TypeOK', NEW p \in Prep, NEW s \in Source, NEW part \in Parts,
         NEW outcome \in {"ready", "error"}, NEW evidence \in Evidence,
         pc[p] = part, ProceedsOrFails(p), Staged(p, s, part, outcome, evidence),
         part = "visual" /\ outcome = "ready" => evidence \in {"full", "failed"}
  PROVE  Work'
<1>0. /\ run \in [Prep -> RunType] /\ Fits(p) /\ TypeOK /\ VerdictOf(p) /\ VerdictOf(p)'
      /\ run'[p].targets = run[p].targets /\ run'[p].basis = run[p].basis
      /\ s \in run[p].targets /\ run[p].basis = NoKey
      /\ project.prep.id = p /\ latest = p /\ project.rev \in Nat
      /\ UNCHANGED <<pc, checkpoint, edit, latest, analysing>> /\ Observed
  <2>1. /\ run \in [Prep -> RunType] /\ Fits(p) /\ TypeOK /\ VerdictOf(p) /\ VerdictOf(p)'
        /\ project \in ProjectType /\ project.rev \in Nat
    BY VerdictStep DEF Work, Fits, TypeOK, ProjectType
  <2>2. /\ run'[p].targets = run[p].targets /\ run'[p].basis = run[p].basis
        /\ s \in run[p].targets /\ project.prep.id = p /\ latest = p
        /\ UNCHANGED <<pc, checkpoint, edit, latest, analysing>> /\ Observed
    BY <2>1 DEF Fits, VerdictOf, RunType, Staged, Left, Alive, NotStopped, IsCurrent, Frame, browser
  <2>3. run[p].basis = NoKey
    BY <2>1 DEF Fits, BasisOf, Unproposed, Parts
  <2> QED BY <2>1, <2>2, <2>3
<1>1. Writes(s, part, outcome, evidence)
  BY <1>0, StagedWrites
<1>2. RecordsOf(p)'
  <2>1. RecordOf(p, project) /\ (Loaded => RecordOf(p, edit.loaded))
    BY <1>0 DEF Fits, RecordsOf
  <2>2. RecordOf(p, project)'
    <3>1. pc[p] \notin Early /\ \A t \in Source :
            /\ pc[p] \in {"media", "audio"} => project.prep.sources[t].visual = "pending"
            /\ project.prep.sources[t].visual = "ready" => project.analysis[t] \in {"full", "failed"}
      BY <1>0, <2>1 DEF RecordOf
    <3>2. \A t \in Source :
            /\ project'.prep.sources[t].visual = IF t = s /\ part = "visual" THEN outcome
                                                 ELSE project.prep.sources[t].visual
            /\ project'.analysis[t] = IF t = s THEN evidence ELSE project.analysis[t]
      BY <1>1 DEF Writes, Parts
    <3>3. ASSUME NEW t \in Source
          PROVE  /\ pc[p] \in {"media", "audio"} => project'.prep.sources[t].visual = "pending"
                 /\ project'.prep.sources[t].visual = "ready" => project'.analysis[t] \in {"full", "failed"}
      BY <3>1, <3>2 DEF Parts
    <3> QED BY <1>0, <3>1, <3>3 DEF RecordOf
  <2> QED BY <1>0, <2>1, <2>2 DEF RecordsOf, RecordOf, Loaded
<1>3. BasisOf(p)'
  BY <1>0 DEF BasisOf, Paying, Parts
<1>4. ASSUME NEW m \in Modes, answered'[m] # NoKey
      PROVE  /\ answered'[m] = answered[m] /\ checkpoint'[m] = checkpoint[m]
             /\ CleanupKey(StateKey(project')) = CleanupKey(answered[m])
  BY <1>0, <1>4 DEF Observed
<1>5. AnswersOf(p)'
  BY <1>0, <1>1, <1>4 DEF AnswersOf, Writes, Fits, Parts
<1>6. AnswersFit'
  <2> SUFFICES ASSUME NEW m \in Modes, answered'[m] # NoKey
               PROVE  /\ checkpoint'[m] = answered'[m]
                      /\ CleanupKey(StateKey(project')) = CleanupKey(answered'[m])
                      /\ \A t \in Source : IF t \in project'.included THEN answered'[m].analysis[t] = "full"
                                           ELSE answered'[m].analysis[t] = project'.analysis[t]
    BY DEF AnswersFit, CleanupKey, StateKey
  <2>1. s \in project.included
    BY <1>0, <1>4 DEF Fits, AnswersOf
  <2>2. /\ checkpoint[m] = answered[m]
        /\ \A t \in Source : IF t \in project.included THEN answered[m].analysis[t] = "full"
                              ELSE answered[m].analysis[t] = project.analysis[t]
    BY <1>4 DEF Work, AnswersFit
  <2> QED BY <1>1, <1>4, <2>1, <2>2 DEF Writes
<1>7. AnalysisAlone' /\ EditFits'
  BY <1>0, <1>1 DEF Work, AnalysisAlone, EditFits, Loaded, Writes
<1>8. ASSUME NEW q \in Prep PROVE Fits(q)'
  <2>1. pc[p] \in Inside
    BY DEF Inside, Steps, Parts
  <2>2. project'.rev \in Nat /\ project'.rev >= project.rev /\ project'.prep.id = p
    BY <1>0, <1>1 DEF Writes
  <2> QED BY <1>0, <1>2, <1>3, <1>5, <2>1, <2>2, OthersFit DEF Fits
<1> QED BY <1>6, <1>7, <1>8 DEF Work

LEMMA StagesWork ==
  ASSUME Work, OneAtATime, TypeOK', NEW p \in Prep, NEW s \in Source,
         VerifyMedia(p, s) \/ AnalyseAudio(p, s) \/ DescribeImages(p, s)
  PROVE  Work'
<1>1. ProceedsOrFails(p) /\ project.analysis[s] \in Evidence
  BY DEF ProceedsOrFails, Proceed, Work, TypeOK, ProjectType
<1>2. CASE VerifyMedia(p, s)
  BY <1>1, <1>2, StagedWork DEF VerifyMedia, Parts
<1>3. CASE AnalyseAudio(p, s)
  BY <1>1, <1>3, StagedWork DEF AnalyseAudio, Evidence, Parts
<1>4. CASE DescribeImages(p, s)
  BY <1>1, <1>4, StagedWork DEF DescribeImages, Evidence, Parts
<1> QED BY <1>2, <1>3, <1>4

\* Where nothing is written, the observer sees nothing.
LEMMA NothingObserved ==
  ASSUME TypeOK, AnswersFit, Observed, UNCHANGED <<project, checkpoint>>
  PROVE  answered' = answered
<1>1. ASSUME NEW m \in Modes PROVE answered'[m] = answered[m]
  BY DEF Observed, AnswersFit
<1>2. answered' = [m \in Modes |-> answered'[m]] /\ answered = [m \in Modes |-> answered[m]]
  BY DEF Observed, TypeOK
<1> QED BY <1>1, <1>2

\* A new revision on top of the project: everything that was answered is of no
\* more use, and no edit or basis is of it.
LEMMA NewRevision ==
  ASSUME Work, TypeOK', Observed, UNCHANGED checkpoint, project'.rev = project.rev + 1
  PROVE  /\ \A m \in Modes : answered'[m] = NoKey
         /\ AnswersFit'
         /\ UNCHANGED edit /\ UNCHANGED project.prep => EditFits'
<1>1. TypeOK /\ AnswersFit /\ EditFits /\ project.rev \in Nat
      /\ (Loaded => edit.loaded.rev \in Nat)
  BY DEF Work, TypeOK, ProjectType
<1>2. \A m \in Modes : answered'[m] = NoKey
  BY <1>1, NewKeyForgets
<1>3. AnswersFit'
  BY <1>2 DEF AnswersFit
<1>4. UNCHANGED edit /\ UNCHANGED project.prep => EditFits'
  BY <1>1 DEF EditFits, Loaded
<1> QED BY <1>2, <1>3, <1>4

\* The proposal is applied: that is a new revision, which is p's own.
LEMMA ApplyWork ==
  ASSUME Work, OneAtATime, TypeOK', NEW p \in Prep, Apply(p)
  PROVE  Work'
<1>0. /\ pc \in [Prep -> Steps] /\ run \in [Prep -> RunType] /\ Fits(p) /\ ProceedsOrFails(p)
      /\ pc[p] = "writing" /\ run[p].basis # NoKey /\ project \in ProjectType
      /\ VerdictOf(p) /\ TypeOK /\ AnswersFit /\ project.rev \in Nat
      /\ UNCHANGED <<checkpoint, edit, latest, analysing>> /\ Observed
  BY DEF Work, TypeOK, Fits, BasisOf, Paying, ProceedsOrFails, Proceed, Apply, Frame, browser,
     ProjectType
<1>1. CASE MayWrite(p) /\ pc'[p] = "applied"
  <2>1. /\ project'.rev = project.rev + 1 /\ project'.prep = project.prep
        /\ project'.analysis = project.analysis /\ UNCHANGED run
        /\ StateKey(project) = run[p].basis
    BY <1>0, <1>1 DEF Apply, Interrupted, Mark, GoTo, MayWrite, ProjectType
  <2>2. /\ \A m \in Modes : answered'[m] = NoKey
        /\ AnswersFit' /\ EditFits'
    BY <1>0, <2>1, NewRevision
  <2>3. RecordsOf(p)'
    BY <1>0, <1>1, <2>1 DEF Fits, RecordsOf, RecordOf, Loaded, Early
  <2>4. BasisOf(p)'
    <3>1. run[p].basis.rev = project.rev
      BY <1>0, <2>1, KeyParts
    <3> QED BY <1>0, <1>1, <2>1, <3>1 DEF Fits, BasisOf, Unproposed, Early, Parts
  <2>5. AnswersOf(p)'
    BY <1>0, <1>1, <2>1, <2>2 DEF AnswersOf, Parts
  <2>6. VerdictOf(p)'
    BY <1>0, VerdictStep
  <2>7. ASSUME NEW q \in Prep PROVE Fits(q)'
    BY <1>0, <1>1, <2>1, <2>3, <2>4, <2>5, <2>6, OthersFit DEF Fits, MayWrite, Inside, Steps
  <2> QED BY <1>0, <2>2, <2>7 DEF Work, AnalysisAlone
<1>2. CASE pc'[p] # "applied"
  <2>1. UNCHANGED project /\ pc'[p] \in {"stopping", "marking"}
    BY <1>0, <1>2 DEF Apply, Interrupted, Mark, GoTo
  <2>2. UNCHANGED answered
    BY <1>0, <2>1, NothingObserved
  <2>3. run'[p].targets = run[p].targets /\ run'[p].basis = run[p].basis /\ run'[p].mode = run[p].mode
    BY <1>0, ProceedRunParts DEF RunParts
  <2>4. Onward(p) /\ VerdictOf(p)'
    BY <1>0, <2>1, <2>3, VerdictStep
       DEF Onward, PcOnward, Early, Unproposed, Paying, Parts, Inside, Steps
  <2>5. SameKey /\ EditStays /\ RecordStays(p) /\ RepliesStay
    BY <1>0, <2>1 DEF SameKey, EditStays, RecordStays, RepliesStay, Loaded
  <2>6. Fits(p)'
    BY <1>0, <2>1, <2>2, <2>4, <2>5, OnwardFits
  <2> QED BY <1>0, <2>2, <2>5, <2>6, OwnStep DEF Fits
<1> QED BY <1>0, <1>1, <1>2 DEF Apply, Interrupted, Mark, GoTo

LEMMA ProceedWork ==
  ASSUME Work, OneAtATime, TypeOK', NEW p \in Prep, ProceedsOrFails(p)
  PROVE  Work'
BY StartingWork, ClaimWork, StagesWork, LoadCheckpointWork, SettleWork, ReplyWork, ApplyWork, QuietWork
DEF ProceedsOrFails, Proceed, Quiet

-----------------------------------------------------------------------------
(* Steps of everybody else.                                                *)

LEMMA StandingOnward ==
  ASSUME NEW q \in Prep, pc'[q] = pc[q], run'[q] = run[q]
  PROVE  Onward(q) /\ VerdictOf(q)' = VerdictOf(q)
  BY DEF Onward, PcOnward, VerdictOf

LEMMA PostWork ==
  ASSUME Work, TypeOK', NEW p \in Prep, NEW mode \in Modes, Post(p, mode)
  PROVE  Work'
<1>0. /\ pc \in [Prep -> Steps] /\ run \in [Prep -> RunType] /\ Fits(p) /\ pc[p] = "none"
      /\ pc'[p] \in {"opening", "waiting"} /\ run'[p] = NewRun(mode) /\ latest' = p
      /\ UNCHANGED <<project, checkpoint, edit, answered>> /\ analysing' = Nobody
      /\ project.rev \in Nat
  BY DEF Work, TypeOK, Post, GoTo, Begin, ProjectType
<1>1. /\ run'[p].basis = NoKey /\ run'[p].todo = {} /\ run'[p].targets = {}
      /\ run'[p].verdict = "none"
  BY <1>0 DEF NewRun, NoRun
<1>2. Fits(p)'
  <2>1. VerdictOf(p)'
    BY <1>0, <1>1 DEF VerdictOf
  <2>2. RecordsOf(p)'
    BY <1>0 DEF Fits, RecordsOf, RecordOf, Loaded, Early
  <2>3. BasisOf(p)'
    BY <1>0, <1>1 DEF BasisOf, Paying
  <2>4. AnswersOf(p)'
    BY <1>0, <1>1 DEF AnswersOf, Parts
  <2> QED BY <2>1, <2>2, <2>3, <2>4 DEF Fits
<1>3. ASSUME NEW q \in Prep, q # p PROVE Fits(q)'
  <2>1. pc'[q] = pc[q] /\ run'[q] = run[q]
    BY <1>0, <1>3 DEF Post, GoTo
  <2>2. Onward(q) /\ VerdictOf(q)'
    BY <2>1, StandingOnward DEF Work, Fits
  <2>3. SameKey /\ EditStays
    BY <1>0 DEF SameKey, EditStays, Loaded
  <2> QED BY <1>0, <1>3, <2>2, <2>3, OnwardFits
<1>4. AnalysisAlone' /\ EditFits' /\ AnswersFit'
  BY <1>0, SMTT(60) DEF Work, AnalysisAlone, EditFits, AnswersFit, Loaded, CleanupKey, StateKey
<1> QED BY <1>2, <1>3, <1>4 DEF Work

LEMMA RestartWork ==
  ASSUME Work, TypeOK', Restart
  PROVE  Work'
<1>0. /\ UNCHANGED <<project, checkpoint, answered>> /\ analysing' = Nobody /\ ~Loaded'
      /\ latest' = Nobody
  BY DEF Restart, Loaded, NoEdit
<1>1. ASSUME NEW q \in Prep PROVE Fits(q)'
  <2>1. /\ Fits(q) /\ run'[q] = NoRun /\ pc'[q] \in {"none", "ended"}
        /\ pc'[q] = "none" => pc[q] = "none"
    BY <1>1 DEF Work, Restart
  <2>2. VerdictOf(q)'
    BY <2>1 DEF VerdictOf, NoRun
  <2>3. RecordsOf(q)'
    BY <1>0, <2>1, PreparationAssumption DEF Fits, RecordsOf, RecordOf, Early
  <2>4. BasisOf(q)' /\ AnswersOf(q)'
    BY <2>1 DEF BasisOf, AnswersOf, Paying, Parts, Inside, NoRun
  <2> QED BY <2>2, <2>3, <2>4 DEF Fits
<1>2. AnalysisAlone' /\ EditFits' /\ AnswersFit'
  BY <1>0 DEF Work, AnalysisAlone, EditFits, AnswersFit, CleanupKey, StateKey
<1> QED BY <1>1, <1>2 DEF Work

\* What does not touch the project's key, whoever does it.
LEMMA AsideWork ==
  ASSUME Work, TypeOK', UNCHANGED <<checkpoint, answered, pc, run>>, SameKey, EditStays,
         latest' \in {latest, Nobody}, AnalysisAlone', EditFits',
         project'.prep.id = project.prep.id, project'.prep.sources = project.prep.sources
  PROVE  Work'
<1>1. ASSUME NEW q \in Prep PROVE Fits(q)'
  <2>1. Onward(q) /\ VerdictOf(q)'
    BY StandingOnward DEF Work, Fits
  <2>2. latest' = q => latest = q
    BY PreparationAssumption
  <2> QED BY <2>1, <2>2, OnwardFits
<1>2. AnswersFit'
  <2>1. StateKey(project)' = StateKey(project)
    BY DEF SameKey, StateKey
  <2>2. CleanupKey(StateKey(project))' = CleanupKey(StateKey(project))
    BY <2>1 DEF CleanupKey
  <2>3. AnswersFit
    BY DEF Work
  <2>4. \A m \in Modes : CleanupKey(answered[m])' = CleanupKey(answered[m])
    BY DEF CleanupKey
  <2> QED BY <2>2, <2>3, <2>4 DEF AnswersFit, SameKey
<1> QED BY <1>1, <1>2 DEF Work

\* A save of an edit brings back the record it had loaded, of whatever
\* preparation: RecordOf says what that is worth.
LEMMA EditSaveWork ==
  ASSUME Work, TypeOK', EditSave
  PROVE  Work'
<1> DEFINE old == edit.loaded
<1>0. /\ TypeOK /\ AnswersFit /\ EditFits /\ project.rev \in Nat /\ old \in ProjectType /\ Loaded
      /\ UNCHANGED <<checkpoint, pc, run, latest, analysing>> /\ ~Loaded' /\ Observed
      /\ old.rev <= project.rev
  BY DEF Work, TypeOK, ProjectType, EditSave, ProcessStays, process, Loaded, NoEdit, EditFits
<1>1. AnalysisAlone' /\ EditFits' /\ EditStays
  BY <1>0 DEF Work, AnalysisAlone, EditFits, EditStays
<1>2. CASE project.rev # old.rev
  <2>1. UNCHANGED project
    BY <1>2 DEF EditSave
  <2>2. UNCHANGED answered
    BY <1>0, <2>1, NothingObserved
  <2>3. SameKey
    BY <2>1 DEF SameKey
  <2> QED BY <1>0, <1>1, <2>1, <2>2, <2>3, AsideWork
<1>3. CASE project.rev = old.rev
  <2>1. /\ project'.rev = project.rev + 1 /\ project'.prep = old.prep
        /\ \A s \in Source : old.analysis[s] # "none" => project'.analysis[s] = old.analysis[s]
    BY <1>0, <1>3 DEF EditSave, ProjectType
  <2> HIDE DEF old
  <2>2. (\A m \in Modes : answered'[m] = NoKey) /\ AnswersFit'
    BY <1>0, <2>1, NewRevision
  <2>3. ASSUME NEW q \in Prep PROVE Fits(q)'
    <3>1. Onward(q) /\ VerdictOf(q)' /\ Fits(q) /\ run[q].mode \in Modes
      BY <1>0, StandingOnward DEF Work, Fits, TypeOK, RunType
    <3>2. RecordOf(q, old)
      BY <1>0, <3>1 DEF Fits, RecordsOf, old
    <3>3. RecordOf(q, project)'
      BY <1>0, <2>1, <3>2 DEF RecordOf
    <3>4. RecordsOf(q)'
      BY <1>0, <3>3 DEF RecordsOf
    <3>5. BasisOf(q)'
      BY <1>0, <2>1, <3>1, BasisStays DEF Fits
    <3>6. AnswersOf(q)'
      BY <2>2, <3>1, AnswersStay DEF Fits
    <3> QED BY <3>1, <3>4, <3>5, <3>6 DEF Fits
  <2> QED BY <1>1, <2>2, <2>3 DEF Work
<1> QED BY <1>2, <1>3

LEMMA SettleCorrectionWork ==
  ASSUME Work, TypeOK', SettleCorrection
  PROVE  Work'
<1>0. /\ TypeOK /\ AnswersFit /\ project.rev \in Nat /\ project \in ProjectType
      /\ UNCHANGED <<checkpoint, pc, run, latest, analysing, edit>> /\ Observed
      /\ project'.pending # project.pending /\ project'.rev = project.rev
      /\ project'.prep = project.prep /\ project'.content = project.content
      /\ project'.analysis = project.analysis
  BY DEF Work, TypeOK, SettleCorrection, ProcessStays, process, browser, ProjectType
<1>1. \A m \in Modes : answered'[m] = NoKey
  BY <1>0, NewKeyForgets
<1>2. AnalysisAlone' /\ EditFits' /\ EditStays /\ AnswersFit'
  BY <1>0, <1>1 DEF Work, AnalysisAlone, EditFits, EditStays, AnswersFit, Loaded
<1>3. ASSUME NEW q \in Prep PROVE Fits(q)'
  <2>1. Onward(q) /\ VerdictOf(q)' /\ Fits(q) /\ run[q].mode \in Modes
    BY <1>0, StandingOnward DEF Work, Fits, TypeOK, RunType
  <2>2. RecordsOf(q)'
    BY <1>0, <1>2, <2>1, RecordsStay DEF Fits, Onward
  <2>3. BasisOf(q)'
    BY <1>0, <2>1, BasisStays DEF Fits
  <2>4. AnswersOf(q)'
    BY <1>1, <2>1, AnswersStay DEF Fits
  <2> QED BY <2>1, <2>2, <2>3, <2>4 DEF Fits
<1> QED BY <1>2, <1>3 DEF Work

\* An analysis of its own arrives only where no preparation is the latest.
LEMMA AnalysisWork ==
  ASSUME Work, TypeOK', AnalysisArrives
  PROVE  Work'
<1>0. /\ TypeOK /\ project.rev \in Nat /\ project \in ProjectType
      /\ UNCHANGED <<checkpoint, pc, run, latest, edit>> /\ analysing' = Nobody
      /\ latest = Nobody /\ \A m \in Modes : answered'[m] = NoKey
      /\ project'.rev = project.rev
      /\ project'.prep = project.prep /\ project'.content = project.content
  BY DEF Work, TypeOK, AnalysisArrives, ProcessStays, process, ProjectType, AnalysisAlone
<1>1. AnalysisAlone' /\ EditFits' /\ EditStays /\ AnswersFit'
  BY <1>0 DEF Work, AnalysisAlone, EditFits, EditStays, AnswersFit, Loaded
<1>2. ASSUME NEW q \in Prep PROVE Fits(q)'
  <2>1. Onward(q) /\ VerdictOf(q)' /\ Fits(q) /\ run[q].mode \in Modes
    BY <1>0, StandingOnward DEF Work, Fits, TypeOK, RunType
  <2>2. RecordsOf(q)'
    BY <1>0, <1>1, <2>1, RecordsStay, PreparationAssumption DEF Fits, Onward
  <2>3. BasisOf(q)'
    BY <1>0, <2>1, BasisStays DEF Fits
  <2>4. AnswersOf(q)'
    BY <1>0, <2>1, AnswersStay DEF Fits
  <2> QED BY <2>1, <2>2, <2>3, <2>4 DEF Fits
<1> QED BY <1>1, <1>2 DEF Work

LEMMA ElsewhereWork ==
  ASSUME Work, TypeOK',
         \/ \E kind \in {"change", "correct"} \cup Source : EditLoad(kind)
         \/ Cancel \/ ManualPreview \/ \E s \in Source : StartAnalysis(s)
         \/ FindOrphan \/ MarkOrphan \/ UNCHANGED vars
  PROVE  Work'
<1> USE DEF ProcessStays, process, browser, OtherOperation
<1>0. project \in ProjectType
  BY DEF Work, TypeOK
<1>1. ASSUME NEW kind \in {"change", "correct"} \cup Source, EditLoad(kind)
      PROVE  Work'
  <2>1. /\ edit'.loaded = project
        /\ UNCHANGED <<project, checkpoint, answered, pc, run, latest, analysing>>
    BY <1>1 DEF EditLoad
  <2>2. SameKey /\ EditStays
    BY <2>1 DEF SameKey, EditStays
  <2>3. AnalysisAlone' /\ EditFits'
    BY <1>0, <2>1 DEF Work, AnalysisAlone, EditFits, ProjectType
  <2> QED BY <2>1, <2>2, <2>3, AsideWork
<1>2. CASE Cancel \/ ManualPreview \/ (\E s \in Source : StartAnalysis(s)) \/ FindOrphan \/ UNCHANGED vars
  <2>1. /\ UNCHANGED <<project, checkpoint, answered, pc, run, edit>>
        /\ \/ latest' = latest /\ analysing' \in {Nobody, analysing}
           \/ latest' = Nobody
    <3>1. CASE Cancel
      BY <3>1 DEF Cancel
    <3>2. CASE ManualPreview
      BY <3>2 DEF ManualPreview
    <3>3. CASE \E s \in Source : StartAnalysis(s)
      BY <3>3 DEF StartAnalysis
    <3>4. CASE FindOrphan
      BY <3>4 DEF FindOrphan
    <3>5. CASE UNCHANGED vars
      BY <3>5 DEF vars
    <3> QED BY <1>2, <3>1, <3>2, <3>3, <3>4, <3>5
  <2>2. SameKey /\ EditStays
    BY <2>1 DEF SameKey, EditStays, Loaded
  <2>3. AnalysisAlone' /\ EditFits'
    BY <2>1 DEF Work, AnalysisAlone, EditFits, Loaded
  <2> QED BY <2>1, <2>2, <2>3, AsideWork
<1>3. CASE MarkOrphan
  <2>1. /\ UNCHANGED <<checkpoint, answered, pc, run, latest, analysing, edit>>
        /\ SameKey
        /\ project'.prep.id = project.prep.id /\ project'.prep.sources = project.prep.sources
        /\ project'.prep.status = "running" => project.prep.status = "running"
    BY <1>0, <1>3 DEF MarkOrphan, SameKey, ProjectType, RecordType
  <2>2. EditStays
    BY <2>1 DEF EditStays, Loaded
  <2>3. AnalysisAlone' /\ EditFits'
    BY <2>1 DEF Work, AnalysisAlone, EditFits, Loaded, SameKey
  <2> QED BY <2>1, <2>2, <2>3, AsideWork
<1> QED BY <1>1, <1>2, <1>3

LEMMA WorkStep ==
  ASSUME Work, OneAtATime, [Next]_vars
  PROVE  Work'
<1>1. TypeOK'
  BY TypesStep DEF Work, Fits
<1>2. ASSUME NEW p \in Prep, Proceed(p) \/ ProposalFails(p) \/ RenderFails(p) \/ Break(p)
      PROVE  Work'
  BY <1>1, <1>2, ProceedWork DEF ProceedsOrFails
<1> QED BY <1>1, <1>2, PostWork, EditSaveWork, SettleCorrectionWork, AnalysisWork, RestartWork,
           ElsewhereWork DEF Next

\* The invariant, with the lock's.
THEOREM WorkAlways == Spec => [](Work /\ OneAtATime)
<1>1. Work /\ OneAtATime /\ [Next]_vars => Work'
  BY WorkStep
<1> QED BY <1>1, InitWork, OnlyOneInside, PTL DEF Spec

-----------------------------------------------------------------------------
(* What follows of the steps.                                              *)

\* The variables keep their types, for any sources, POSTs and events.
THEOREM TypeCorrectness == Spec => []TypeOK
<1>1. Work => TypeOK
  BY DEF Work
<1> QED BY <1>1, WorkAlways, PTL

Elsewhere ==
  \/ \E kind \in {"change", "correct"} \cup Source : EditLoad(kind)
  \/ Cancel \/ ManualPreview \/ \E s \in Source : StartAnalysis(s)
  \/ FindOrphan \/ Restart \/ UNCHANGED vars

\* Who may do a step, in groups by what they do to the project.
LEMMA WhoSteps ==
  ASSUME [Next]_vars
  PROVE  \/ \E p \in Prep, mode \in Modes : Post(p, mode)
         \/ \E p \in Prep : ProceedsOrFails(p)
         \/ EditSave \/ SettleCorrection \/ AnalysisArrives \/ MarkOrphan
         \/ Elsewhere
  BY DEF Next, Elsewhere, ProceedsOrFails

LEMMA OthersLeaveProject ==
  ASSUME Elsewhere \/ \E p \in Prep, mode \in Modes : Post(p, mode)
  PROVE  UNCHANGED project
  BY DEF Elsewhere, Post, EditLoad, Cancel, ManualPreview, StartAnalysis, FindOrphan, Restart,
     OtherOperation, vars

\* Of a preparation's steps, the application alone changes the content, and
\* claims and marks alone change a status.
LEMMA StepLeaves ==
  ASSUME TypeOK, NEW p \in Prep, ProceedsOrFails(p)
  PROVE  /\ ~Apply(p) => project'.content = project.content
         /\ ~Claim(p) /\ ~MarkTerminal(p) => project'.prep.status = project.prep.status
<1>0. project \in ProjectType /\ \A s \in Source : project.analysis[s] \in Evidence
  BY DEF TypeOK, ProjectType
<1>1. CASE Enter(p) \/ Open(p) \/ Release(p) \/ LoadCheckpoint(p) \/ Settle(p) \/ Reply(p)
  BY <1>1 DEF Enter, Open, Release, LoadCheckpoint, Settle, Reply, Keeps
<1>2. CASE Claim(p) \/ MarkTerminal(p)
  BY <1>0, <1>2 DEF Claim, MarkTerminal, ProjectType
<1>3. CASE Apply(p)
  BY <1>0, <1>3 DEF Apply, ProjectType
<1>4. ASSUME NEW s \in Source, VerifyMedia(p, s) \/ AnalyseAudio(p, s) \/ DescribeImages(p, s)
      PROVE  project'.content = project.content /\ project'.prep.status = project.prep.status
  <2>1. \E part \in Parts, outcome \in {"ready", "error"}, evidence \in Evidence :
          Staged(p, s, part, outcome, evidence)
    BY <1>0, <1>4 DEF VerifyMedia, AnalyseAudio, DescribeImages, Evidence, Parts
  <2> QED BY <2>1, StagedWrites DEF Writes
<1>5. CASE Quiet(p) /\ ~MarkTerminal(p)
  BY <1>0, <1>5 DEF Quiet, NextStage, Ask, Place, DiscardApplied, StartPreview, Rendered, Stop,
     DiscardUnresumable, Leave, ProposalFails, RenderFails, Break, Keeps, ProjectType
<1> QED BY <1>1, <1>2, <1>3, <1>4, <1>5 DEF ProceedsOrFails, Proceed, Quiet

\* Sequences: what is appended to, or left, is a prefix.
LEMMA GrowingHasPrefix ==
  ASSUME NEW Items, NEW c \in Seq(Items), NEW e \in Items
  PROVE  IsPrefix(c, c) /\ IsPrefix(c, Append(c, e))
<1>1. /\ Len(c) \in Nat /\ Len(Append(c, e)) = Len(c) + 1 /\ Append(c, e) \in Seq(Items)
      /\ \A i \in 1 .. Len(c) : Append(c, e)[i] = c[i]
  OBVIOUS
<1>2. SubSeq(c, 1, Len(c)) = SubSeq(Append(c, e), 1, Len(c))
  BY <1>1
<1> QED BY <1>1, <1>2 DEF IsPrefix

\* What people and proposals added before is kept by all that comes later, also
\* when a proposal is written whose input was taken long ago.
THEOREM EditsAreKept == Spec => EditsSurvive
<1> DEFINE Grows == \/ project'.content = project.content
                    \/ \E e \in Prep \cup {Editor} : project'.content = Append(project.content, e)
<1>1. ASSUME Work, [Next]_vars PROVE Grows
  <2>0. TypeOK /\ project \in ProjectType
    BY <1>1 DEF Work, TypeOK
  <2>1. ASSUME NEW p \in Prep, Apply(p) PROVE Grows
    <3>1. CASE UNCHANGED project
      BY <3>1
    <3>2. CASE MayWrite(p) /\ project'.content = Append(run[p].basis.content, p)
      BY <2>0, <3>2, KeyParts DEF MayWrite
    <3> QED BY <2>0, <2>1, <3>1, <3>2 DEF Apply, ProjectType
  <2>2. ASSUME NEW p \in Prep, ProceedsOrFails(p) PROVE Grows
    BY <2>0, <2>1, <2>2, StepLeaves
  <2>3. CASE EditSave
    <3>1. CASE project.rev # edit.loaded.rev
      BY <2>3, <3>1 DEF EditSave
    <3>2. CASE project.rev = edit.loaded.rev
      <4>1. edit.loaded.content = project.content
        BY <1>1, <2>3, <3>2 DEF Work, EditFits, Loaded, EditSave
      <4>2. project'.content = Append(edit.loaded.content, Editor)
        BY <2>0, <2>3, <3>2 DEF EditSave, TypeOK, ProjectType
      <4> QED BY <4>1, <4>2
    <3> QED BY <3>1, <3>2
  <2>4. CASE SettleCorrection \/ AnalysisArrives \/ MarkOrphan
    BY <2>0, <2>4 DEF SettleCorrection, AnalysisArrives, MarkOrphan, ProjectType
  <2>5. CASE Elsewhere \/ \E p \in Prep, mode \in Modes : Post(p, mode)
    BY <2>5, OthersLeaveProject
  <2> QED BY <1>1, <2>2, <2>3, <2>4, <2>5, WhoSteps
<1>2. ASSUME Work, Grows PROVE IsPrefix(project.content, project'.content)
  <2>1. project.content \in Seq(Prep \cup {Editor})
    BY <1>2 DEF Work, TypeOK, ProjectType
  <2>2. CASE project'.content = project.content
    <3>1. Editor \in Prep \cup {Editor}
      OBVIOUS
    <3> QED BY <2>1, <2>2, <3>1, GrowingHasPrefix
  <2>3. CASE \E e \in Prep \cup {Editor} : project'.content = Append(project.content, e)
    BY <2>1, <2>3, GrowingHasPrefix
  <2> QED BY <1>2, <2>2, <2>3
<1>3. Work /\ [Next]_vars => [IsPrefix(project.content, project'.content)]_vars
  BY <1>1, <1>2
<1> QED BY <1>3, WorkAlways, PTL DEF Spec, EditsSurvive

\* Only the application, of an input that is the project's, gets there.
LEMMA ReachesApplied ==
  ASSUME TypeOK, [Next]_vars, NEW p \in Prep, pc[p] = "writing", pc'[p] = "applied"
  PROVE  MayWrite(p)
<1>0. pc \in [Prep -> Steps]
  BY DEF TypeOK
<1>1. ASSUME NEW q \in Prep, ProceedsOrFails(q) PROVE q = p
  BY <1>0, <1>1, ProceedMoves
<1>2. CASE ProceedsOrFails(p)
  <2>1. Apply(p)
    <3> USE DEF GoTo, Keeps
    <3>1. ~Quiet(p)
      BY <1>0 DEF Quiet, NextStage, Ask, Place, DiscardApplied, StartPreview, Rendered, Stop,
         DiscardUnresumable, AfterStop, MarkTerminal, Leave, ProposalFails, RenderFails, Break,
         Interrupted, Mark
    <3>2. ~Enter(p) /\ ~Open(p) /\ ~Release(p) /\ ~Claim(p) /\ ~LoadCheckpoint(p) /\ ~Settle(p) /\ ~Reply(p)
      BY DEF Enter, Open, Release, Claim, LoadCheckpoint, Settle, Reply
    <3>3. ~\E s \in Source : VerifyMedia(p, s) \/ AnalyseAudio(p, s) \/ DescribeImages(p, s)
      BY DEF VerifyMedia, AnalyseAudio, DescribeImages
    <3> QED BY <1>2, <3>1, <3>2, <3>3 DEF ProceedsOrFails, Proceed, Quiet
  <2> QED BY <1>0, <2>1 DEF Apply, Interrupted, Mark, GoTo
<1>3. CASE \E q \in Prep, mode \in Modes : Post(q, mode)
  BY <1>0, <1>3 DEF Post, GoTo
<1>4. CASE Restart
  BY <1>4 DEF Restart
<1>5. CASE UNCHANGED vars
  BY <1>5 DEF vars, process
<1> QED BY <1>1, <1>2, <1>3, <1>4, <1>5, OthersStand DEF Next, ProceedsOrFails

\* No proposal is applied on partial evidence, whatever was included, left out
\* or analysed again while the preparation ran.
THEOREM AppliedOnCompleteEvidence == Spec => OnlyCompleteEvidence
<1>1. ASSUME Work, [Next]_vars, NEW p \in Prep, pc[p] = "writing", pc'[p] = "applied",
             NEW s \in project.included
      PROVE  /\ s \in run[p].targets /\ project.analysis[s] = "full"
             /\ \A part \in {"media", "audio", "visual"} : project.prep.sources[s][part] = "ready"
  <2>1. TypeOK /\ project \in ProjectType /\ BasisOf(p) /\ run[p].basis # NoKey
    BY <1>1 DEF Work, TypeOK, Fits, BasisOf, Paying
  <2>2. project.prep.id = p /\ StateKey(project) = run[p].basis
    BY <1>1, <2>1, ReachesApplied DEF MayWrite
  <2>3. /\ run[p].basis.rev = project.rev /\ run[p].basis.included = project.included
        /\ run[p].basis.analysis = project.analysis
    BY <2>1, <2>2, KeyParts
  <2> QED BY <2>1, <2>2, <2>3 DEF BasisOf, Parts
<1> DEFINE A == \A p \in Prep : pc[p] = "writing" /\ pc'[p] = "applied" =>
                  \A s \in project.included :
                    /\ s \in run[p].targets
                    /\ project.analysis[s] = "full"
                    /\ \A part \in {"media", "audio", "visual"} :
                         project.prep.sources[s][part] = "ready"
<1>2. Work /\ [Next]_vars => [A]_vars
  BY <1>1
<1> QED BY <1>2, WorkAlways, PTL DEF Spec, OnlyCompleteEvidence

\* The model is not asked again for an input it has answered, through cancels,
\* failures and restarts, while nothing but the evidence of images moves.
THEOREM NothingIsPaidTwice == Spec => PaysOncePerInput
<1> DEFINE A == \A p \in Prep : pc[p] = "asking" /\ pc'[p] = "awaiting" =>
                  answered[run[p].mode] # run[p].basis
<1>1. Work => A
  BY DEF Work, Fits, AnswersOf, BasisOf, Paying
<1>2. Work /\ [Next]_vars => [A]_vars
  BY <1>1
<1> QED BY <1>2, WorkAlways, PTL DEF Spec, PaysOncePerInput

\* Only its own steps end a preparation that is at work: neither the page's
\* search for orphans, nor an edit that saves what it loaded before, marks it.
THEOREM WorkersMarkThemselves == Spec => WorkIsNotAnOrphan
<1>1. ASSUME Work, [Next]_vars, NEW p \in Prep, pc[p] \in Inside, pc'[p] = pc[p],
             project.prep.id = p, project'.prep.id = p, project.prep.status = "running"
      PROVE  project'.prep.status = "running"
  <2>0. TypeOK /\ project \in ProjectType /\ pc \in [Prep -> Steps]
    BY <1>1 DEF Work, TypeOK
  <2>1. ASSUME NEW q \in Prep, ProceedsOrFails(q) PROVE project'.prep.status = "running"
    <3>1. CASE Claim(q)
      <4>1. UNCHANGED project \/ project'.prep.status = "running"
        BY <2>0, <3>1 DEF Claim, ProjectType
      <4> QED BY <1>1, <4>1
    <3>2. CASE MarkTerminal(q)
      <4>1. q # p
        BY <1>1, <2>0, <3>2 DEF MarkTerminal, GoTo
      <4> QED BY <1>1, <3>2, <4>1 DEF MarkTerminal
    <3> QED BY <1>1, <2>0, <2>1, <3>1, <3>2, StepLeaves
  <2>2. CASE EditSave
    <3>1. CASE project.rev # edit.loaded.rev
      BY <1>1, <2>2, <3>1 DEF EditSave
    <3>2. CASE project.rev = edit.loaded.rev
      <4>1. project'.prep = edit.loaded.prep
        BY <2>0, <2>2, <3>2 DEF EditSave, TypeOK, ProjectType
      <4> QED BY <1>1, <2>2, <4>1 DEF Work, EditFits, Loaded, EditSave
    <3> QED BY <3>1, <3>2
  <2>3. CASE MarkOrphan
    <3>1. IsPreparationActive
      BY <1>1 DEF IsPreparationActive, Started, Inside
    <3> QED BY <1>1, <2>3, <3>1 DEF MarkOrphan, StillOrphan, Orphan
  <2>4. CASE SettleCorrection \/ AnalysisArrives
    BY <1>1, <2>0, <2>4 DEF SettleCorrection, AnalysisArrives, ProjectType
  <2>5. CASE Elsewhere \/ \E q \in Prep, mode \in Modes : Post(q, mode)
    BY <1>1, <2>5, OthersLeaveProject
  <2> QED BY <1>1, <2>1, <2>2, <2>3, <2>4, <2>5, WhoSteps
<1> DEFINE A == \A p \in Prep :
                  /\ pc[p] \in Inside /\ pc'[p] = pc[p]
                  /\ project.prep.id = p /\ project'.prep.id = p /\ project.prep.status = "running"
                  => project'.prep.status = "running"
<1>2. Work /\ [Next]_vars => [A]_vars
  BY <1>1
<1> QED BY <1>2, WorkAlways, PTL DEF Spec, WorkIsNotAnOrphan

-----------------------------------------------------------------------------
(* The speech service.  What belongs together: a request that runs, the    *)
(* head of its client's chain, the client's process, and what that process *)
(* works on or has written.                                                *)

Clients == [closed : BOOLEAN, child : Nat \cup {Nobody}, chain : Seq(Requests)]
Processes == [live : {"up", "killed", "gone"}, client : Nat, job : Requests \cup {Nobody}, out : Requests \cup {Nobody}]
Asked == [at : {"new", "syncing", "queued", "running", "done"}, client : Nat \cup {Nobody}, on : Nat \cup {Nobody},
          end : {"none", "ok", "failed", "interrupted", "stalled", "died"}, by : Requests \cup {Nobody}]

SpeechTypes ==
  /\ clients \in Seq(Clients) /\ worker \in Seq(Processes) /\ req \in [Requests -> Asked]
  /\ client \in DOMAIN clients \cup {Nobody} /\ closed \in BOOLEAN /\ given \subseteq Requests

\* Where a request stands.
RequestFits(r) ==
  /\ req[r].at # "done" => req[r].end = "none"
  /\ req[r].at \in {"syncing", "queued", "running"} =>
       req[r].client \in DOMAIN clients /\ (clients[req[r].client].closed => closed)
  /\ req[r].at = "queued" => \E i \in DOMAIN clients[req[r].client].chain : clients[req[r].client].chain[i] = r
  /\ req[r].at = "running" =>
       /\ clients[req[r].client].chain # <<>> /\ Head(clients[req[r].client].chain) = r
       /\ req[r].on = clients[req[r].client].child /\ req[r].on # Nobody
  /\ req[r].end = "ok" => req[r].by = r
  /\ req[r].end = "died" => req[r].on \in DOMAIN worker /\ worker[req[r].on].live = "gone"
  /\ req[r].end = "interrupted" => closed \/ r \in given

\* The process a client has is alive and its own; it has the request that runs, or its
\* answer, and when none runs it has none.
ClientFits(c) ==
  LET p == clients[c].child IN
  p # Nobody =>
    /\ p \in DOMAIN worker /\ worker[p].client = c /\ worker[p].live # "gone"
    /\ \A r \in Requests : worker[p].job = r \/ worker[p].out = r => req[r].at = "running" /\ req[r].client = c
    /\ worker[p].job = Nobody \/ worker[p].out = Nobody

SpeechInv ==
  /\ SpeechTypes
  /\ client # Nobody => ~clients[client].closed
  /\ \A p \in DOMAIN worker : worker[p].client \in DOMAIN clients
  /\ \A r \in Requests : RequestFits(r)
  /\ \A c \in DOMAIN clients : ClientFits(c)

LEMMA SpeechConstants ==
  Nobody \notin Nat /\ Nobody \notin Requests /\ MaxClients \in Nat /\ MaxProcesses \in Nat
  BY PrepPartsAssumption DEF S!SpeechServiceAssumption

\* Of the requests of a client one runs at most: it is the head of the chain.
LEMMA OneRuns ==
  ASSUME SpeechInv, NEW c \in DOMAIN clients, NEW r \in S!Waiter(c)
  PROVE  S!Waiter(c) = {r} /\ clients[c].chain # <<>> /\ Head(clients[c].chain) = r
  BY DEF SpeechInv, RequestFits, S!Waiter

\* The clients when the request that runs on c has left it.
LeftBy(c, left, new) ==
  /\ new \in Seq(Clients) /\ DOMAIN new = DOMAIN clients
  /\ \A d \in DOMAIN clients \ {c} : new[d] = clients[d]
  /\ new[c].child = left /\ new[c].closed = clients[c].closed
  /\ new[c].chain = IF S!Waiter(c) = {} THEN clients[c].chain ELSE Tail(clients[c].chain)

LEMMA ClientLeaves ==
  ASSUME SpeechInv, NEW c \in DOMAIN clients, NEW left \in Nat \cup {Nobody}
  PROVE  LeftBy(c, left, S!Leave(c, left))
<1> DEFINE chain == IF S!Waiter(c) = {} THEN clients[c].chain ELSE Tail(clients[c].chain)
<1>1. clients \in Seq(Clients) /\ clients[c] \in Clients
  BY DEF SpeechInv, SpeechTypes
<1>2. chain \in Seq(Requests)
  <2>1. CASE S!Waiter(c) = {} BY <1>1, <2>1 DEF Clients
  <2>2. CASE S!Waiter(c) # {}
    <3>1. PICK r \in S!Waiter(c) : TRUE BY <2>2
    <3>2. clients[c].chain # <<>> BY <3>1, OneRuns
    <3> QED BY <1>1, <2>2, <3>2 DEF Clients
  <2> QED BY <2>1, <2>2
<1>3. S!Leave(c, left) = [clients EXCEPT ![c] = [clients[c] EXCEPT !.child = left, !.chain = chain]]
  BY <1>1 DEF S!Leave, Clients
<1> HIDE DEF chain
<1> DEFINE one == [clients[c] EXCEPT !.child = left, !.chain = chain]
<1>4. one \in Clients /\ one.child = left /\ one.chain = chain /\ one.closed = clients[c].closed
  BY <1>1, <1>2 DEF Clients
<1> HIDE DEF one
<1>5. [clients EXCEPT ![c] = one] \in Seq(Clients)
  BY <1>1, <1>4
<1> QED BY <1>1, <1>3, <1>4, <1>5 DEF one, chain, LeftBy

LEMMA KilledFits ==
  ASSUME SpeechInv, NEW c \in DOMAIN clients
  PROVE  LET new == S!Killed(c) IN
         /\ new \in Seq(Processes) /\ DOMAIN new = DOMAIN worker
         /\ \A p \in DOMAIN worker :
              /\ new[p].client = worker[p].client
              /\ p # clients[c].child => new[p] = worker[p]
<1>1. worker \in Seq(Processes) /\ DOMAIN worker = 1..Len(worker) /\ Len(worker) \in Nat
  BY DEF SpeechInv, SpeechTypes
<1>2. ASSUME NEW p \in DOMAIN worker
      PROVE  /\ [worker[p] EXCEPT !.live = "killed"] \in Processes
             /\ [worker[p] EXCEPT !.live = "killed"].client = worker[p].client
  <2>1. worker[p] \in Processes BY <1>1, <1>2
  <2> QED BY <2>1 DEF Processes
<1>3. S!Killed(c) = [p \in 1..Len(worker) |-> IF p = clients[c].child THEN [worker[p] EXCEPT !.live = "killed"] ELSE worker[p]]
  BY <1>1 DEF S!Killed
<1>4. \A p \in 1..Len(worker) : S!Killed(c)[p] \in Processes
  BY <1>1, <1>2, <1>3
<1>5. S!Killed(c) \in Seq(Processes)
  BY <1>1, <1>3, <1>4
<1> QED BY <1>1, <1>2, <1>3, <1>5

\* The request that runs on client c ends, its process with it.
LEMMA StopFits ==
  ASSUME SpeechInv, NEW c \in DOMAIN clients, NEW how \in {"interrupted", "stalled", "died"},
         req' = S!Stopped(c, how),
         clients' \in Seq(Clients), DOMAIN clients' = DOMAIN clients,
         \A d \in DOMAIN clients \ {c} : clients'[d] = clients[d],
         clients'[c].child = Nobody,
         clients'[c].chain = IF S!Waiter(c) = {} THEN clients[c].chain ELSE Tail(clients[c].chain),
         clients'[c].closed => clients[c].closed \/ closed' \/ S!InFlight = {},
         closed => closed', closed' \in BOOLEAN, given \subseteq given', given' \subseteq Requests,
         worker' \in Seq(Processes), DOMAIN worker' = DOMAIN worker,
         \A p \in DOMAIN worker :
           worker'[p].client = worker[p].client /\ (p # clients[c].child => worker'[p] = worker[p]),
         how = "interrupted" => S!Waiter(c) \subseteq given' \/ closed',
         how = "died" => clients[c].child \in DOMAIN worker' /\ worker'[clients[c].child].live = "gone",
         client' \in {client, Nobody}, client' # Nobody => ~clients'[client'].closed
  PROVE  SpeechInv'
<1> USE SpeechConstants
<1>1. SpeechTypes /\ (\A r \in Requests : RequestFits(r)) /\ (\A d \in DOMAIN clients : ClientFits(d))
      /\ \A p \in DOMAIN worker : worker[p].client \in DOMAIN clients
  BY DEF SpeechInv
<1>2. \A r \in Requests : IF r \in S!Waiter(c)
        THEN /\ req'[r] \in Asked /\ req'[r].at = "done" /\ req'[r].end = how /\ req'[r].on = clients[c].child
             /\ req[r].at = "running"
        ELSE req'[r] = req[r]
  <2>1. ASSUME NEW r \in S!Waiter(c)
        PROVE  /\ req'[r] \in Asked /\ req'[r].at = "done" /\ req'[r].end = how /\ req'[r].on = clients[c].child
               /\ req[r].at = "running"
    <3>1. r \in Requests /\ req[r] \in Asked /\ req[r].at = "running" /\ req[r].client = c
      BY <1>1, <2>1 DEF SpeechTypes, S!Waiter
    <3>2. req[r].on = clients[c].child
      BY <1>1, <3>1 DEF RequestFits
    <3>3. req'[r] = [req[r] EXCEPT !.at = "done", !.end = how]
      BY <2>1, <3>1 DEF S!Stopped, S!Ended
    <3> QED BY <3>1, <3>2, <3>3 DEF Asked
  <2>2. \A r \in Requests \ S!Waiter(c) : req'[r] = req[r]
    BY DEF S!Stopped
  <2> QED BY <2>1, <2>2
<1>3. SpeechTypes'
  <2>1. req' \in [Requests -> Asked]
    <3>1. DOMAIN req' = Requests /\ req' = [r \in Requests |-> req'[r]] BY DEF S!Stopped
    <3>2. \A r \in Requests : req'[r] \in Asked BY <1>1, <1>2 DEF SpeechTypes
    <3> QED BY <3>1, <3>2
  <2> QED BY <1>1, <2>1 DEF SpeechTypes
<1>4. ASSUME NEW r \in Requests PROVE RequestFits(r)'
  <2>0. RequestFits(r) /\ req[r] \in Asked BY <1>1 DEF SpeechTypes
  <2>1. CASE r \in S!Waiter(c)
    BY <1>2, <2>0, <2>1 DEF RequestFits
  <2>2. CASE r \notin S!Waiter(c)
    <3>0. req'[r] = req[r] BY <1>2, <2>2
    <3>1. req[r].at \in {"syncing", "queued", "running"} => (clients'[req[r].client].closed => closed')
      BY <2>0 DEF RequestFits, S!InFlight
    <3>2. ASSUME req[r].at = "queued"
          PROVE  \E i \in DOMAIN clients'[req[r].client].chain : clients'[req[r].client].chain[i] = r
      <4>1. CASE req[r].client # c \/ S!Waiter(c) = {} BY <2>0, <3>2, <4>1 DEF RequestFits
      <4>2. CASE req[r].client = c /\ S!Waiter(c) # {}
        <5>1. PICK q \in S!Waiter(c) : TRUE BY <4>2
        <5>2. clients[c].chain \in Seq(Requests) /\ clients[c].chain # <<>> /\ clients[c].chain[1] = q /\ q # r
          <6>1. clients[c].chain # <<>> /\ Head(clients[c].chain) = q BY <5>1, OneRuns
          <6>2. clients[c] \in Clients BY <1>1 DEF SpeechTypes
          <6>3. clients[c].chain \in Seq(Requests) BY <6>2 DEF Clients
          <6> QED BY <2>2, <5>1, <6>1, <6>3
        <5>3. PICK i \in DOMAIN clients[c].chain : clients[c].chain[i] = r
          BY <2>0, <3>2, <4>2 DEF RequestFits
        <5>4. i # 1 /\ i - 1 \in DOMAIN Tail(clients[c].chain) /\ Tail(clients[c].chain)[i - 1] = r
          BY <5>2, <5>3, SMTT(60)
        <5> QED BY <4>2, <5>4
      <4> QED BY <4>1, <4>2
    <3>3. req[r].at = "running" => req[r].client # c
      BY <2>2 DEF S!Waiter
    <3>4. req[r].end = "died" => req[r].on \in DOMAIN worker /\ worker'[req[r].on].live = "gone"
      BY <1>1, <2>0 DEF RequestFits, ClientFits
    <3>5. closed => closed' OBVIOUS
    <3> QED BY <2>0, <3>0, <3>1, <3>2, <3>3, <3>4, <3>5 DEF RequestFits
  <2> QED BY <2>1, <2>2
<1>5. ASSUME NEW d \in DOMAIN clients' PROVE ClientFits(d)'
  <2>1. CASE d = c BY <2>1 DEF ClientFits
  <2>2. CASE d # c
    <3>1. ClientFits(d) /\ clients'[d] = clients[d] /\ d \in DOMAIN clients BY <1>1, <2>2
    <3>2. clients[d].child # Nobody => clients[d].child # clients[c].child
      BY <1>1, <2>2, <3>1 DEF ClientFits
    <3>3. clients[d].child # Nobody => clients[d].child \in DOMAIN worker /\ worker'[clients[d].child] = worker[clients[d].child]
      BY <3>1, <3>2 DEF ClientFits
    <3>4. \A r \in Requests : req[r].client = d => req'[r] = req[r]
      BY <1>2, <2>2 DEF S!Waiter
    <3> QED BY <3>1, <3>3, <3>4 DEF ClientFits
  <2> QED BY <2>1, <2>2
<1> QED BY <1>1, <1>3, <1>4, <1>5 DEF SpeechInv

LEMMA SpeechTyped ==
  ASSUME SpeechInv
  PROVE  /\ \A c \in DOMAIN clients : clients[c] \in Clients
         /\ \A p \in DOMAIN worker : worker[p] \in Processes /\ worker[p].client \in DOMAIN clients
         /\ \A r \in Requests : req[r] \in Asked
<1>1. clients \in Seq(Clients) /\ worker \in Seq(Processes) /\ req \in [Requests -> Asked]
  BY DEF SpeechInv, SpeechTypes
<1>2. \A p \in DOMAIN worker : worker[p].client \in DOMAIN clients BY DEF SpeechInv
<1> QED BY <1>1, <1>2

\* What becomes of the clients and the processes when one is stopped.
LEMMA StoppedParts ==
  ASSUME SpeechInv, NEW c \in DOMAIN clients, clients' = S!Leave(c, Nobody)
  PROVE  /\ clients' \in Seq(Clients) /\ DOMAIN clients' = DOMAIN clients
         /\ \A d \in DOMAIN clients \ {c} : clients'[d] = clients[d]
         /\ \A d \in DOMAIN clients : clients'[d].closed = clients[d].closed
         /\ clients'[c].child = Nobody
         /\ clients'[c].chain = IF S!Waiter(c) = {} THEN clients[c].chain ELSE Tail(clients[c].chain)
         /\ client' = client => (client' # Nobody => ~clients'[client'].closed)
<1>1. /\ clients' \in Seq(Clients) /\ DOMAIN clients' = DOMAIN clients
      /\ \A d \in DOMAIN clients \ {c} : clients'[d] = clients[d]
      /\ clients'[c].child = Nobody /\ clients'[c].closed = clients[c].closed
      /\ clients'[c].chain = IF S!Waiter(c) = {} THEN clients[c].chain ELSE Tail(clients[c].chain)
  <2>1. LeftBy(c, Nobody, S!Leave(c, Nobody)) BY ClientLeaves
  <2> QED BY <2>1 DEF LeftBy
<1>2. \A d \in DOMAIN clients : clients'[d].closed = clients[d].closed BY <1>1
<1>3. client # Nobody => client \in DOMAIN clients /\ ~clients[client].closed BY DEF SpeechInv, SpeechTypes
<1> QED BY <1>1, <1>2, <1>3

LEMMA KilledParts ==
  ASSUME SpeechInv, NEW c \in DOMAIN clients, worker' = S!Killed(c)
  PROVE  /\ worker' \in Seq(Processes) /\ DOMAIN worker' = DOMAIN worker
         /\ \A p \in DOMAIN worker :
              worker'[p].client = worker[p].client /\ (p # clients[c].child => worker'[p] = worker[p])
  BY KilledFits

LEMMA AbortFits == ASSUME SpeechInv, NEW r \in Requests, S!Abort(r) PROVE SpeechInv'
<1> DEFINE c == req[r].client
<1>1. c \in DOMAIN clients /\ RequestFits(r)
  BY DEF S!Abort, S!InFlight, SpeechInv, RequestFits
<1>2. UNCHANGED <<client, closed>> /\ given' = given \cup {r} /\ SpeechTypes
      /\ (client # Nobody => ~clients[client].closed)
  BY DEF S!Abort, SpeechInv
<1> HIDE DEF c
<1>3. CASE req[r].at = "running"
  <2>1. r \in S!Waiter(c) /\ S!Waiter(c) = {r}
    BY <1>1, <1>3, OneRuns DEF S!Waiter, c
  <2>2. worker' = S!Killed(c) /\ req' = S!Stopped(c, "interrupted") /\ clients' = S!Leave(c, Nobody)
    BY <1>3 DEF S!Abort, c
  <2>3. closed \in BOOLEAN /\ given \subseteq Requests BY <1>2 DEF SpeechTypes
  <2>4. S!Waiter(c) \subseteq given' /\ given \subseteq given' /\ given' \subseteq Requests BY <1>2, <2>1, <2>3
  <2> QED BY <1>1, <1>2, <2>2, <2>3, <2>4, StopFits, StoppedParts, KilledParts
<1>4. CASE req[r].at # "running"
  <2>1. UNCHANGED <<worker, req, clients>> BY <1>4 DEF S!Abort
  <2>2. SpeechTypes' BY <1>2, <2>1 DEF SpeechTypes
  <2>3. \A q \in Requests : RequestFits(q)' BY <1>2, <2>1 DEF SpeechInv, RequestFits
  <2>4. \A d \in DOMAIN clients' : ClientFits(d)' BY <1>2, <2>1 DEF SpeechInv, ClientFits
  <2> QED BY <1>2, <2>1, <2>2, <2>3, <2>4 DEF SpeechInv
<1> QED BY <1>3, <1>4

LEMMA WatchdogFiresFits == ASSUME SpeechInv, NEW c \in DOMAIN clients, S!WatchdogFires(c) PROVE SpeechInv'
<1>1. UNCHANGED <<client, closed, given>> /\ SpeechTypes /\ (client # Nobody => ~clients[client].closed)
  BY DEF S!WatchdogFires, SpeechInv
<1>2. worker' = S!Killed(c) /\ req' = S!Stopped(c, "stalled") /\ clients' = S!Leave(c, Nobody)
  BY DEF S!WatchdogFires
<1>3. closed \in BOOLEAN /\ given \subseteq Requests BY <1>1 DEF SpeechTypes
<1> QED BY <1>1, <1>2, <1>3, StopFits, StoppedParts, KilledParts

LEMMA ClosesFits ==
  ASSUME SpeechInv, NEW c \in DOMAIN clients, S!Closes(c), client' = Nobody, given' = given, closed' \in BOOLEAN,
         closed => closed', closed' \/ S!InFlight = {}
  PROVE  SpeechInv'
<1> DEFINE left == S!Leave(c, Nobody)
<1>1. left \in Seq(Clients) /\ DOMAIN left = DOMAIN clients /\ c \in DOMAIN left
  <2>1. LeftBy(c, Nobody, left) BY ClientLeaves
  <2> QED BY <2>1 DEF LeftBy
<1>2. left[c] \in Clients BY <1>1
<1> HIDE DEF left
<1>3. [left EXCEPT ![c].closed = TRUE] = [left EXCEPT ![c] = [left[c] EXCEPT !.closed = TRUE]]
  BY <1>1
<1>4. [left[c] EXCEPT !.closed = TRUE] \in Clients /\ [left[c] EXCEPT !.closed = TRUE].child = left[c].child
      /\ [left[c] EXCEPT !.closed = TRUE].chain = left[c].chain
  BY <1>2 DEF Clients
<1> DEFINE one == [left[c] EXCEPT !.closed = TRUE]
<1> HIDE DEF one
<1>5. clients' = [left EXCEPT ![c] = one] /\ worker' = S!Killed(c) /\ req' = S!Stopped(c, "interrupted")
  BY <1>3 DEF S!Closes, left, one
<1>6. clients' \in Seq(Clients) /\ DOMAIN clients' = DOMAIN clients /\ (\A d \in DOMAIN clients \ {c} : clients'[d] = left[d])
      /\ clients'[c] = one
  BY <1>1, <1>4, <1>5 DEF one
<1>7. clients'[c].child = left[c].child /\ clients'[c].chain = left[c].chain
  BY <1>4, <1>6 DEF one
<1>8. S!Waiter(c) \subseteq given' \/ closed'
  BY DEF S!Waiter, S!InFlight
<1>9. /\ \A d \in DOMAIN clients \ {c} : clients'[d] = clients[d]
      /\ clients'[c].child = Nobody
      /\ clients'[c].chain = IF S!Waiter(c) = {} THEN clients[c].chain ELSE Tail(clients[c].chain)
  <2>1. /\ \A d \in DOMAIN clients \ {c} : left[d] = clients[d]
        /\ left[c].child = Nobody
        /\ left[c].chain = IF S!Waiter(c) = {} THEN clients[c].chain ELSE Tail(clients[c].chain)
    <3>1. LeftBy(c, Nobody, left) BY ClientLeaves DEF left
    <3> QED BY <3>1 DEF LeftBy
  <2> QED BY <1>6, <1>7, <2>1
<1>10. /\ worker' \in Seq(Processes) /\ DOMAIN worker' = DOMAIN worker /\ given \subseteq given' /\ given' \subseteq Requests
       /\ \A p \in DOMAIN worker : worker'[p].client = worker[p].client /\ (p # clients[c].child => worker'[p] = worker[p])
  BY <1>5, KilledParts DEF SpeechInv, SpeechTypes
<1> QED BY <1>5, <1>6, <1>8, <1>9, <1>10, StopFits

LEMMA SweepFits == ASSUME SpeechInv, S!Sweep PROVE SpeechInv'
<1>1. client \in DOMAIN clients /\ S!Closes(client) /\ client' = Nobody /\ UNCHANGED <<closed, given>> /\ S!InFlight = {}
      /\ closed \in BOOLEAN
  BY DEF S!Sweep, S!Idle, SpeechInv, SpeechTypes
<1> QED BY <1>1, ClosesFits

LEMMA CloseFits == ASSUME SpeechInv, S!Close PROVE SpeechInv'
<1>1. closed' = TRUE /\ client' = Nobody /\ given' = given BY DEF S!Close
<1>2. CASE client = Nobody
  <2>1. UNCHANGED <<clients, worker, req>> BY <1>2 DEF S!Close
  <2> QED BY <1>1, <2>1 DEF SpeechInv, SpeechTypes, RequestFits, ClientFits
<1>3. CASE client # Nobody
  <2>1. client \in DOMAIN clients /\ S!Closes(client) BY <1>3 DEF S!Close, SpeechInv, SpeechTypes
  <2> QED BY <1>1, <2>1, ClosesFits
<1> QED BY <1>2, <1>3

LEMMA ProcessChanges ==
  ASSUME SpeechInv, NEW p \in DOMAIN worker, NEW one \in Processes
  PROVE  LET new == [worker EXCEPT ![p] = one] IN
         new \in Seq(Processes) /\ DOMAIN new = DOMAIN worker /\ \A q \in DOMAIN worker : new[q] = IF q = p THEN one ELSE worker[q]
<1>1. worker \in Seq(Processes) BY DEF SpeechInv, SpeechTypes
<1> QED BY <1>1

LEMMA ExitsFits == ASSUME SpeechInv, NEW p \in DOMAIN worker, S!Exits(p) PROVE SpeechInv'
<1> DEFINE c == worker[p].client
           one == [worker[p] EXCEPT !.live = "gone", !.job = Nobody]
<1>1. worker[p] \in Processes /\ c \in DOMAIN clients BY SpeechTyped
<1>2. one \in Processes /\ one.client = worker[p].client /\ one.live = "gone" BY <1>1 DEF Processes
<1>3. UNCHANGED <<client, closed, given>> /\ worker' = [worker EXCEPT ![p] = one]
  BY DEF S!Exits
<1> HIDE DEF one, c
<1>4. /\ worker' \in Seq(Processes) /\ DOMAIN worker' = DOMAIN worker /\ worker'[p] = one
      /\ \A q \in DOMAIN worker \ {p} : worker'[q] = worker[q]
  BY <1>2, <1>3, ProcessChanges
<1>5. \A q \in DOMAIN worker : worker'[q].client = worker[q].client BY <1>2, <1>4
<1>6. closed \in BOOLEAN /\ given \subseteq Requests BY DEF SpeechInv, SpeechTypes
<1>7. CASE clients[c].child = p
  <2>1. req' = S!Stopped(c, "died") /\ clients' = S!Leave(c, Nobody) BY <1>7 DEF S!Exits, S!Heeds, c
  <2>2. clients[c].child \in DOMAIN worker' /\ worker'[clients[c].child].live = "gone" BY <1>2, <1>4, <1>7
  <2> QED BY <1>1, <1>3, <1>4, <1>5, <1>6, <1>7, <2>1, <2>2, StopFits, StoppedParts
<1>8. CASE clients[c].child # p
  <2>1. UNCHANGED <<req, clients>> BY <1>8 DEF S!Exits, S!Heeds, c
  <2>2. ASSUME NEW d \in DOMAIN clients PROVE clients[d].child # p
    <3>1. ClientFits(d) BY DEF SpeechInv
    <3>2. clients[d].child = p => clients[d].child # Nobody /\ worker[p].client = d
      BY <3>1, SpeechConstants DEF ClientFits, SpeechInv, SpeechTypes
    <3> QED BY <1>8, <3>2 DEF c
  <2>3. SpeechTypes' BY <1>3, <1>4, <2>1 DEF SpeechInv, SpeechTypes
  <2>4. ASSUME NEW r \in Requests PROVE RequestFits(r)'
    BY <1>2, <1>3, <1>4, <2>1 DEF SpeechInv, RequestFits
  <2>5. ASSUME NEW d \in DOMAIN clients' PROVE ClientFits(d)'
    BY <1>4, <2>1, <2>2 DEF SpeechInv, ClientFits
  <2> QED BY <1>3, <1>4, <1>5, <2>1, <2>3, <2>4, <2>5 DEF SpeechInv
<1> QED BY <1>7, <1>8

LEMMA AsksFits == ASSUME SpeechInv, NEW r \in Requests, S!Asks(r) PROVE SpeechInv'
<1> USE SpeechConstants
<1> DEFINE made == [closed |-> FALSE, child |-> Nobody, chain |-> <<>>]
<1>1. UNCHANGED <<closed, worker, given>> /\ req[r].at = "new" /\ ~closed /\ SpeechTypes
      /\ \/ client # Nobody /\ UNCHANGED <<client, clients>>
         \/ client = Nobody /\ client' = Len(clients) + 1 /\ clients' = Append(clients, made)
  BY DEF S!Asks, SpeechInv
<1>2. made \in Clients /\ made.child = Nobody /\ ~made.closed BY DEF Clients
<1> HIDE DEF made
<1>3. /\ clients' \in Seq(Clients) /\ DOMAIN clients \subseteq DOMAIN clients' /\ client' \in DOMAIN clients'
      /\ \A d \in DOMAIN clients : clients'[d] = clients[d]
      /\ \A d \in DOMAIN clients' \ DOMAIN clients : clients'[d] = made
      /\ ~clients'[client'].closed /\ client' \in Nat
  <2>1. clients \in Seq(Clients) /\ (client # Nobody => client \in DOMAIN clients /\ ~clients[client].closed)
    BY <1>1 DEF SpeechInv, SpeechTypes
  <2> QED BY <1>1, <1>2, <2>1
<1>4. /\ req'[r] \in Asked /\ req'[r].at = "syncing" /\ req'[r].client = client' /\ req'[r].end = "none"
      /\ req' \in [Requests -> Asked] /\ \A q \in Requests \ {r} : req'[q] = req[q]
  <2>1. req \in [Requests -> Asked] BY <1>1 DEF SpeechTypes
  <2> DEFINE one == [S!New EXCEPT !.at = "syncing", !.client = client']
  <2>2. req' = [req EXCEPT ![r] = one]
    BY DEF S!Asks
  <2>3. S!New \in Asked /\ S!New.end = "none" BY DEF Asked, S!New
  <2>4. one \in Asked /\ one.at = "syncing" /\ one.client = client' /\ one.end = "none"
    BY <1>3, <2>3 DEF Asked
  <2> HIDE DEF one
  <2> QED BY <2>1, <2>2, <2>4
<1>5. SpeechTypes' BY <1>1, <1>3, <1>4 DEF SpeechTypes
<1>6. ASSUME NEW q \in Requests PROVE RequestFits(q)'
  <2>1. CASE q = r BY <1>3, <1>4, <2>1 DEF RequestFits
  <2>2. CASE q # r BY <1>1, <1>3, <1>4, <2>2 DEF SpeechInv, RequestFits
  <2> QED BY <2>1, <2>2
<1>7. ASSUME NEW d \in DOMAIN clients' PROVE ClientFits(d)'
  <2>1. CASE d \in DOMAIN clients
    <3>1. ClientFits(d) /\ clients'[d] = clients[d] /\ worker' = worker BY <1>1, <1>3, <2>1 DEF SpeechInv
    <3>2. \A q \in Requests : req[q].at = "running" => req'[q] = req[q] BY <1>1, <1>4
    <3> QED BY <3>1, <3>2 DEF ClientFits
  <2>2. CASE d \notin DOMAIN clients BY <1>2, <1>3, <2>2 DEF ClientFits
  <2> QED BY <2>1, <2>2
<1> QED BY <1>1, <1>3, <1>5, <1>6, <1>7 DEF SpeechInv

\* Requests that run stay as they are, and one that ends does so for a reason of its own.
LEMMA RequestsChange ==
  ASSUME SpeechInv, UNCHANGED <<client, clients, worker, closed, given>>, req' \in [Requests -> Asked],
         \A q \in Requests : req[q].at = "running" => req'[q] = req[q],
         \A q \in Requests : RequestFits(q)'
  PROVE  SpeechInv'
<1>1. SpeechTypes' BY DEF SpeechInv, SpeechTypes
<1>2. ASSUME NEW d \in DOMAIN clients' PROVE ClientFits(d)'
  <2>1. ClientFits(d) BY <1>2 DEF SpeechInv
  <2> QED BY <2>1 DEF ClientFits
<1> QED BY <1>1, <1>2 DEF SpeechInv

LEMMA RefusedFits == ASSUME SpeechInv, NEW r \in Requests, S!Refused(r) PROVE SpeechInv'
<1>1. req[r] \in Asked /\ req \in [Requests -> Asked] /\ RequestFits(r) BY DEF SpeechInv, SpeechTypes
<1>2. req' = [req EXCEPT ![r] = [req[r] EXCEPT !.at = "done", !.end = "interrupted"]] /\ closed /\ req[r].at = "new"
      /\ UNCHANGED <<client, clients, worker, closed, given>>
  BY DEF S!Refused, S!Ended
<1>3. [req[r] EXCEPT !.at = "done", !.end = "interrupted"] \in Asked BY <1>1 DEF Asked
<1>4. /\ req' \in [Requests -> Asked] /\ req'[r].at = "done" /\ req'[r].end = "interrupted"
      /\ \A q \in Requests \ {r} : req'[q] = req[q]
  BY <1>1, <1>2, <1>3 DEF Asked
<1>5. ASSUME NEW q \in Requests PROVE RequestFits(q)'
  <2>1. CASE q = r BY <1>2, <1>4, <2>1 DEF RequestFits
  <2>2. CASE q # r BY <1>2, <1>4, <2>2 DEF SpeechInv, RequestFits
  <2> QED BY <2>1, <2>2
<1> QED BY <1>2, <1>4, <1>5, RequestsChange

LEMMA SyncFailsFits == ASSUME SpeechInv, S!SyncFails PROVE SpeechInv'
<1>1. UNCHANGED <<client, clients, worker, closed, given>> /\ req' = [q \in Requests |-> IF req[q].at = "syncing" THEN S!Ended(q, "failed") ELSE req[q]]
  BY DEF S!SyncFails
<1>2. ASSUME NEW q \in Requests
      PROVE  /\ req'[q] \in Asked /\ RequestFits(q)'
             /\ req[q].at = "running" => req'[q] = req[q]
  <2>1. RequestFits(q) /\ req[q] \in Asked BY SpeechTyped DEF SpeechInv
  <2>2. CASE req[q].at = "syncing"
    <3>1. req'[q] = [req[q] EXCEPT !.at = "done", !.end = "failed"] BY <1>1, <2>2 DEF S!Ended
    <3>2. req'[q] \in Asked /\ req'[q].at = "done" /\ req'[q].end = "failed" BY <2>1, <3>1 DEF Asked
    <3> QED BY <2>2, <3>2 DEF RequestFits
  <2>3. CASE req[q].at # "syncing"
    <3>1. req'[q] = req[q] BY <1>1, <2>3
    <3> QED BY <1>1, <2>1, <3>1 DEF RequestFits
  <2> QED BY <2>2, <2>3
<1>3. req' \in [Requests -> Asked] BY <1>1, <1>2
<1> QED BY <1>1, <1>2, <1>3, RequestsChange

LEMMA TimePassesFits == ASSUME SpeechInv, S!TimePasses PROVE SpeechInv'
<1>1. UNCHANGED <<client, clients, worker, closed, given, req>> BY DEF S!TimePasses
<1>2. ASSUME NEW q \in Requests PROVE RequestFits(q)' BY <1>1 DEF SpeechInv, RequestFits
<1> QED BY <1>1, <1>2, RequestsChange DEF SpeechInv, SpeechTypes

LEMMA SyncedFits == ASSUME SpeechInv, NEW r \in Requests, S!Synced(r) PROVE SpeechInv'
<1> DEFINE c == req[r].client
           longer == Append(clients[c].chain, r)
           one == [clients[c] EXCEPT !.chain = longer]
<1>1. RequestFits(r) /\ req[r] \in Asked /\ req[r].at = "syncing" /\ c \in DOMAIN clients /\ clients[c] \in Clients
      /\ UNCHANGED <<client, closed, worker, given>>
  BY SpeechTyped DEF SpeechInv, S!Synced, RequestFits
<1>2. clients' = [clients EXCEPT ![c] = one] /\ req' = [req EXCEPT ![r] = [req[r] EXCEPT !.at = "queued"]]
  BY DEF S!Synced
<1>3. clients[c].chain \in Seq(Requests) /\ longer \in Seq(Requests) BY <1>1 DEF Clients
<1> HIDE DEF longer
<1>4. one \in Clients /\ one.closed = clients[c].closed /\ one.child = clients[c].child
      /\ one.chain = longer
  BY <1>1, <1>3 DEF Clients
<1> HIDE DEF one, c
<1>5. /\ clients' \in Seq(Clients) /\ DOMAIN clients' = DOMAIN clients /\ clients'[c] = one
      /\ \A d \in DOMAIN clients \ {c} : clients'[d] = clients[d]
  BY <1>1, <1>2, <1>4 DEF SpeechInv, SpeechTypes
<1>6. /\ req'[r] \in Asked /\ req'[r].at = "queued" /\ req'[r].client = c /\ req'[r].end = req[r].end
      /\ req'[r].by = req[r].by /\ req'[r].on = req[r].on
      /\ req' \in [Requests -> Asked] /\ \A q \in Requests \ {r} : req'[q] = req[q]
  <2>1. req \in [Requests -> Asked] BY DEF SpeechInv, SpeechTypes
  <2>2. [req[r] EXCEPT !.at = "queued"] \in Asked BY <1>1 DEF Asked
  <2> QED BY <1>1, <1>2, <2>1, <2>2 DEF c, Asked
<1>7. ASSUME NEW d \in DOMAIN clients
      PROVE  clients'[d].closed = clients[d].closed /\ clients'[d].child = clients[d].child
  BY <1>4, <1>5, <1>7
<1>8. SpeechTypes' BY <1>1, <1>5, <1>6 DEF SpeechInv, SpeechTypes
<1>9. ASSUME NEW q \in Requests PROVE RequestFits(q)'
  <2>0. RequestFits(q) BY DEF SpeechInv
  <2>1. CASE q = r
    <3>1. Len(clients[c].chain) + 1 \in DOMAIN one.chain /\ one.chain[Len(clients[c].chain) + 1] = r
      BY <1>3, <1>4 DEF longer
    <3> QED BY <1>1, <1>5, <1>6, <1>7, <2>1, <3>1 DEF RequestFits, c
  <2>2. CASE q # r
    <3>1. req'[q] = req[q] BY <1>6, <2>2
    <3>2. CASE req[q].client = c /\ req[q].at \in {"queued", "running"}
      <4>1. DOMAIN clients[c].chain \subseteq DOMAIN one.chain
            /\ (\A i \in DOMAIN clients[c].chain : one.chain[i] = clients[c].chain[i])
            /\ (clients[c].chain # <<>> => one.chain # <<>> /\ Head(one.chain) = Head(clients[c].chain))
        BY <1>3, <1>4 DEF longer
      <4> QED BY <1>1, <1>5, <1>7, <2>0, <3>1, <3>2, <4>1 DEF RequestFits
    <3>3. CASE ~(req[q].client = c /\ req[q].at \in {"queued", "running"})
      BY <1>1, <1>5, <1>7, <2>0, <3>1, <3>3 DEF RequestFits
    <3> QED BY <3>2, <3>3
  <2> QED BY <2>1, <2>2
<1>10. ASSUME NEW d \in DOMAIN clients' PROVE ClientFits(d)'
  <2>1. ClientFits(d) /\ d \in DOMAIN clients BY <1>5, <1>10 DEF SpeechInv
  <2>2. \A q \in Requests : req[q].at = "running" => req'[q] = req[q] BY <1>1, <1>6
  <2> QED BY <1>1, <1>7, <2>1, <2>2 DEF ClientFits
<1> QED BY <1>1, <1>5, <1>7, <1>8, <1>9, <1>10 DEF SpeechInv, SpeechTypes

\* When the head of the chain waits nobody runs, and the process of the client, if it
\* has one, has nothing to do.
LEMMA HeadWaits ==
  ASSUME SpeechInv, NEW r \in Requests, req[r].at = "queued", Head(clients[req[r].client].chain) = r
  PROVE  LET c == req[r].client  p == clients[c].child IN
         /\ c \in DOMAIN clients /\ S!Waiter(c) = {}
         /\ p # Nobody => p \in DOMAIN worker /\ worker[p].job = Nobody /\ worker[p].out = Nobody
<1> DEFINE c == req[r].client
           p == clients[c].child
<1>1. RequestFits(r) BY DEF SpeechInv
<1>2. c \in DOMAIN clients BY <1>1 DEF RequestFits
<1>3. ASSUME NEW q \in S!Waiter(c) PROVE FALSE
  <2>1. Head(clients[c].chain) = q BY <1>2, <1>3, OneRuns
  <2> QED BY <1>3, <2>1 DEF S!Waiter
<1>4. ClientFits(c) BY <1>2 DEF SpeechInv
<1>5. ASSUME p # Nobody PROVE p \in DOMAIN worker /\ worker[p].job = Nobody /\ worker[p].out = Nobody
  <2>1. p \in DOMAIN worker /\ \A q \in Requests : worker[p].job # q /\ worker[p].out # q
    BY <1>3, <1>4, <1>5 DEF ClientFits, S!Waiter
  <2>2. worker[p] \in Processes BY <2>1, SpeechTyped
  <2> QED BY <2>1, <2>2 DEF Processes
<1> QED BY <1>2, <1>3, <1>5

LEMMA RunsFits == ASSUME SpeechInv, NEW r \in Requests, S!Runs(r) PROVE SpeechInv'
<1> USE SpeechConstants
<1> DEFINE c == req[r].client
           p == clients[c].child
<1>1. /\ req[r].at = "queued" /\ Head(clients[c].chain) = r /\ UNCHANGED <<client, closed, given>>
      /\ RequestFits(r) /\ req[r] \in Asked
  BY SpeechTyped DEF S!Runs, SpeechInv
<1>2. /\ c \in DOMAIN clients /\ S!Waiter(c) = {} /\ clients[c].chain # <<>>
      /\ p # Nobody => p \in DOMAIN worker /\ worker[p].job = Nobody /\ worker[p].out = Nobody
  <2>1. \E i \in DOMAIN clients[c].chain : TRUE BY <1>1 DEF RequestFits
  <2> QED BY <1>1, <2>1, HeadWaits
<1>3. clients[c] \in Clients /\ c \in Nat /\ clients \in Seq(Clients) /\ worker \in Seq(Processes) /\ req \in [Requests -> Asked]
  BY <1>2, SpeechTyped DEF SpeechInv, SpeechTypes
<1>4. clients[c].chain \in Seq(Requests) BY <1>3 DEF Clients
<1>5. CASE r \in given \/ clients[c].closed
  <2> DEFINE rest == Tail(clients[c].chain)
             one == [clients[c] EXCEPT !.chain = rest]
             ended == [req[r] EXCEPT !.at = "done", !.end = "interrupted"]
  <2>1. req' = [req EXCEPT ![r] = ended] /\ clients' = [clients EXCEPT ![c] = one] /\ worker' = worker
    BY <1>5 DEF S!Runs, S!Ended
  <2>2. rest \in Seq(Requests) BY <1>2, <1>4
  <2>3. ended \in Asked /\ ended.at = "done" /\ ended.end = "interrupted" BY <1>1 DEF Asked
  <2> HIDE DEF rest
  <2>4. one \in Clients /\ one.chain = rest /\ one.closed = clients[c].closed /\ one.child = p
    BY <1>3, <2>2 DEF Clients
  <2> HIDE DEF one, ended, c, p
  <2>5. /\ clients' \in Seq(Clients) /\ DOMAIN clients' = DOMAIN clients /\ clients'[c] = one
        /\ \A d \in DOMAIN clients \ {c} : clients'[d] = clients[d]
        /\ req' \in [Requests -> Asked] /\ req'[r] = ended /\ \A q \in Requests \ {r} : req'[q] = req[q]
    BY <1>2, <1>3, <2>1, <2>3, <2>4
  <2>6. SpeechTypes' BY <1>1, <2>1, <2>5 DEF SpeechInv, SpeechTypes
  <2>7. \A d \in DOMAIN clients : clients'[d].closed = clients[d].closed /\ clients'[d].child = clients[d].child
    BY <2>4, <2>5 DEF p
  <2>8. ASSUME NEW q \in Requests PROVE RequestFits(q)'
    <3>0. RequestFits(q) BY DEF SpeechInv
    <3>1. CASE q = r
      <4>1. closed \/ r \in given BY <1>1, <1>5 DEF RequestFits, c
      <4> QED BY <1>1, <2>3, <2>5, <3>1, <4>1 DEF RequestFits
    <3>2. CASE q # r
      <4>1. req'[q] = req[q] BY <2>5, <3>2
      <4>2. CASE req[q].at = "queued" /\ req[q].client = c
        <5>1. PICK i \in DOMAIN clients[c].chain : clients[c].chain[i] = q BY <3>0, <4>2 DEF RequestFits
        <5>2. i # 1 BY <1>1, <1>2, <1>4, <3>2, <5>1 DEF c
        <5>3. i - 1 \in DOMAIN rest /\ rest[i - 1] = q BY <1>2, <1>4, <5>1, <5>2 DEF rest
        <5> QED BY <1>1, <1>2, <2>1, <2>4, <2>5, <2>7, <3>0, <4>1, <4>2, <5>3 DEF RequestFits
      <4>3. CASE req[q].at = "running" /\ req[q].client = c BY <1>2, <4>3 DEF S!Waiter
      <4>4. CASE ~(req[q].at \in {"queued", "running"} /\ req[q].client = c)
        BY <1>1, <2>1, <2>5, <2>7, <3>0, <4>1, <4>4 DEF RequestFits
      <4> QED BY <4>2, <4>3, <4>4
    <3> QED BY <3>1, <3>2
  <2>9. ASSUME NEW d \in DOMAIN clients' PROVE ClientFits(d)'
    <3>1. ClientFits(d) /\ d \in DOMAIN clients BY <2>5, <2>9 DEF SpeechInv
    <3>2. \A q \in Requests : req[q].at = "running" => req'[q] = req[q] BY <1>1, <2>5
    <3> QED BY <2>1, <2>7, <3>1, <3>2 DEF ClientFits
  <2> QED BY <1>1, <2>1, <2>5, <2>6, <2>7, <2>8, <2>9 DEF SpeechInv, SpeechTypes
<1>6. CASE r \notin given /\ ~clients[c].closed
  <2> DEFINE k == clients'[c].child
             moved == [req[r] EXCEPT !.at = "running", !.on = k]
  <2>1. req' = [req EXCEPT ![r] = moved] BY <1>5, <1>6 DEF S!Runs
  <2>2. /\ clients' \in Seq(Clients) /\ DOMAIN clients' = DOMAIN clients /\ k \in Nat
        /\ \A d \in DOMAIN clients \ {c} : clients'[d] = clients[d]
        /\ clients'[c].chain = clients[c].chain /\ clients'[c].closed = clients[c].closed
        /\ worker' \in Seq(Processes) /\ DOMAIN worker \subseteq DOMAIN worker' /\ k \in DOMAIN worker'
        /\ \A q \in DOMAIN worker \ {k} : worker'[q] = worker[q]
        /\ worker'[k].job = r /\ worker'[k].out = Nobody /\ worker'[k].client = c /\ worker'[k].live # "gone"
        /\ DOMAIN worker' \subseteq DOMAIN worker \cup {k}
        /\ \A d \in DOMAIN clients \ {c} : clients[d].child # Nobody => clients[d].child # k
        /\ \A q \in DOMAIN worker : worker'[q].live = worker[q].live
    <3>0. \A d \in DOMAIN clients : ClientFits(d) BY DEF SpeechInv
    <3>1. CASE p # Nobody
      <4> DEFINE one == [worker[p] EXCEPT !.job = r]
      <4>1. clients' = clients /\ worker' = [worker EXCEPT ![p] = one] BY <1>6, <3>1 DEF S!Runs
      <4>2. worker[p] \in Processes /\ worker[p].client = c /\ worker[p].live # "gone" /\ p \in Nat
        <5>1. worker[p].client = c /\ worker[p].live # "gone" BY <1>2, <3>0, <3>1 DEF ClientFits
        <5>2. worker[p] \in Processes /\ p \in Nat BY <1>2, <1>3, <3>1, SpeechTyped
        <5> QED BY <5>1, <5>2
      <4>3. one \in Processes /\ one.job = r /\ one.out = worker[p].out /\ one.client = worker[p].client
            /\ one.live = worker[p].live
        BY <4>2 DEF Processes
      <4> HIDE DEF one
      <4>4. /\ worker' \in Seq(Processes) /\ DOMAIN worker' = DOMAIN worker
            /\ \A q \in DOMAIN worker : worker'[q] = IF q = p THEN one ELSE worker[q]
        BY <1>2, <3>1, <4>1, <4>3, ProcessChanges
      <4>5. k = p BY <4>1
      <4>6. \A d \in DOMAIN clients \ {c} : clients[d].child # Nobody => clients[d].child # p
        BY <3>0, <4>2 DEF ClientFits
      <4> HIDE DEF p, c, k
      <4> QED BY <1>2, <1>3, <3>1, <4>1, <4>2, <4>3, <4>4, <4>5, <4>6
    <3>2. CASE p = Nobody
      <4> DEFINE n == Len(worker) + 1
                 made == [live |-> "up", client |-> c, job |-> r, out |-> Nobody]
                 one == [clients[c] EXCEPT !.child = n]
      <4>1. clients' = [clients EXCEPT ![c] = one] /\ worker' = Append(worker, made) BY <1>6, <3>2 DEF S!Runs
      <4>2. n \in Nat /\ n \notin DOMAIN worker BY <1>3
      <4>3. made \in Processes BY <1>3 DEF Processes
      <4>4. one \in Clients /\ one.child = n /\ one.chain = clients[c].chain /\ one.closed = clients[c].closed
        BY <1>3, <4>2 DEF Clients
      <4>5. made.live = "up" /\ made.client = c /\ made.job = r /\ made.out = Nobody OBVIOUS
      <4> HIDE DEF made, one
      <4>6. /\ worker' \in Seq(Processes) /\ DOMAIN worker' = DOMAIN worker \cup {n} /\ worker'[n] = made
            /\ \A q \in DOMAIN worker : worker'[q] = worker[q]
        BY <1>3, <4>1, <4>3
      <4>7. /\ clients' \in Seq(Clients) /\ DOMAIN clients' = DOMAIN clients /\ clients'[c] = one
            /\ \A d \in DOMAIN clients \ {c} : clients'[d] = clients[d]
        BY <1>2, <1>3, <4>1, <4>4
      <4>8. \A d \in DOMAIN clients : clients[d].child # Nobody => clients[d].child # n
        BY <3>0, <4>2 DEF ClientFits
      <4>9. k = n BY <4>4, <4>7
      <4> HIDE DEF n, c, k
      <4> QED BY <4>2, <4>4, <4>5, <4>6, <4>7, <4>8, <4>9
    <3> QED BY <3>1, <3>2
  <2>3. moved \in Asked /\ moved.at = "running" /\ moved.on = k /\ moved.client = c /\ moved.end = req[r].end
        /\ moved.by = req[r].by
    BY <1>1, <2>2 DEF Asked
  <2> HIDE DEF moved, k, c, p
  <2>4. req' \in [Requests -> Asked] /\ req'[r] = moved /\ \A q \in Requests \ {r} : req'[q] = req[q]
    BY <1>3, <2>1, <2>3
  <2>5. SpeechTypes' BY <1>1, <2>2, <2>4 DEF SpeechInv, SpeechTypes
  <2>6. \A d \in DOMAIN clients : clients'[d].closed = clients[d].closed /\ clients'[d].chain = clients[d].chain
    BY <2>2
  <2>7. ASSUME NEW q \in Requests PROVE RequestFits(q)'
    <3>0. RequestFits(q) BY DEF SpeechInv
    <3>1. CASE q = r
      <4>1. req'[r].end = "none" BY <1>1, <2>3, <2>4, <3>0, <3>1 DEF RequestFits
      <4>2. /\ req'[r].at = "running" /\ req'[r].client = c /\ req'[r].on = clients'[c].child /\ req'[r].on # Nobody
            /\ clients'[c].chain = clients[c].chain /\ ~clients'[c].closed
        BY <1>2, <1>6, <2>2, <2>3, <2>4, <2>6 DEF k, c
      <4> QED BY <1>1, <1>2, <2>2, <3>1, <4>1, <4>2 DEF RequestFits, c
    <3>2. CASE q # r
      <4>1. req'[q] = req[q] /\ ~(req[q].at = "running" /\ req[q].client = c) BY <1>2, <2>4, <3>2 DEF S!Waiter
      <4> QED BY <1>1, <2>2, <2>6, <3>0, <4>1 DEF RequestFits
    <3> QED BY <3>1, <3>2
  <2>8. ASSUME NEW d \in DOMAIN clients' PROVE ClientFits(d)'
    <3>1. ClientFits(d) /\ d \in DOMAIN clients BY <2>2, <2>8 DEF SpeechInv
    <3>2. CASE d = c
      BY <2>2, <2>3, <2>4, <3>2 DEF ClientFits, k
    <3>3. CASE d # c
      <4>1. clients'[d] = clients[d] BY <2>2, <3>1, <3>3
      <4>2. clients[d].child # Nobody => clients[d].child # k /\ worker'[clients[d].child] = worker[clients[d].child]
        BY <2>2, <3>1, <3>3 DEF ClientFits
      <4>3. \A q \in Requests : req[q].at = "running" => req'[q] = req[q] BY <1>1, <2>4
      <4> QED BY <2>2, <3>1, <4>1, <4>2, <4>3 DEF ClientFits
    <3> QED BY <3>2, <3>3
  <2>9. \A q \in DOMAIN worker' : worker'[q].client \in DOMAIN clients' BY <1>2, <2>2 DEF SpeechInv
  <2> QED BY <1>1, <2>2, <2>5, <2>6, <2>7, <2>8, <2>9 DEF SpeechInv, SpeechTypes
<1> QED BY <1>5, <1>6

LEMMA WritesFits == ASSUME SpeechInv, NEW p \in DOMAIN worker, S!Writes(p) PROVE SpeechInv'
<1> DEFINE one == [worker[p] EXCEPT !.job = Nobody, !.out = worker[p].job]
<1>1. UNCHANGED <<client, closed, clients, req, given>> /\ worker' = [worker EXCEPT ![p] = one] /\ worker[p].job # Nobody
  BY DEF S!Writes
<1>2. worker[p] \in Processes BY SpeechTyped
<1>3. one \in Processes /\ one.client = worker[p].client /\ one.live = worker[p].live /\ one.job = Nobody
      /\ one.out = worker[p].job
  BY <1>2 DEF Processes
<1> HIDE DEF one
<1>4. worker' \in Seq(Processes) /\ DOMAIN worker' = DOMAIN worker /\ \A q \in DOMAIN worker : worker'[q] = IF q = p THEN one ELSE worker[q]
  BY <1>1, <1>3, ProcessChanges
<1>5. SpeechTypes' BY <1>1, <1>4 DEF SpeechInv, SpeechTypes
<1>6. \A r \in Requests : RequestFits(r)' BY <1>1, <1>3, <1>4 DEF SpeechInv, RequestFits
<1>7. ASSUME NEW d \in DOMAIN clients' PROVE ClientFits(d)'
  <2>1. ClientFits(d) BY <1>1, <1>7 DEF SpeechInv
  <2>2. CASE clients[d].child = p BY <1>1, <1>3, <1>4, <2>1, <2>2, SpeechConstants DEF ClientFits
  <2>3. CASE clients[d].child # p BY <1>1, <1>4, <2>1, <2>3 DEF ClientFits
  <2> QED BY <2>2, <2>3
<1>8. \A q \in DOMAIN worker : worker'[q].client = worker[q].client BY <1>3, <1>4
<1> QED BY <1>1, <1>4, <1>5, <1>6, <1>7, <1>8 DEF SpeechInv

LEMMA ReadsFits == ASSUME SpeechInv, NEW p \in DOMAIN worker, S!Reads(p) PROVE SpeechInv'
<1> USE SpeechConstants
<1> DEFINE c == worker[p].client
           r == worker[p].out
           one == [worker[p] EXCEPT !.out = Nobody]
<1>1. UNCHANGED <<client, closed, given>> /\ worker' = [worker EXCEPT ![p] = one] /\ r # Nobody
  BY DEF S!Reads
<1>2. worker[p] \in Processes /\ c \in DOMAIN clients BY SpeechTyped
<1>3. one \in Processes /\ one.client = worker[p].client /\ one.live = worker[p].live /\ one.job = worker[p].job
      /\ one.out = Nobody /\ r \in Requests
  BY <1>1, <1>2 DEF Processes
<1> HIDE DEF one
<1>4. worker' \in Seq(Processes) /\ DOMAIN worker' = DOMAIN worker /\ \A q \in DOMAIN worker : worker'[q] = IF q = p THEN one ELSE worker[q]
  BY <1>1, <1>3, ProcessChanges
<1>5. \A q \in DOMAIN worker : worker'[q].client = worker[q].client /\ worker'[q].live = worker[q].live BY <1>3, <1>4
<1>6. p \in Nat BY DEF SpeechInv, SpeechTypes
<1>7. CASE S!Heeds(c, p) /\ S!Waiter(c) # {}
  <2>1. clients[c].child = p /\ ClientFits(c) BY <1>2, <1>7 DEF S!Heeds, SpeechInv
  <2>2. r \in S!Waiter(c) /\ worker[p].job = Nobody
    BY <1>1, <1>3, <1>6, <2>1 DEF ClientFits, S!Waiter
  <2>3. S!Waiter(c) = {r} /\ clients[c].chain # <<>> /\ Head(clients[c].chain) = r BY <1>2, <2>2, OneRuns
  <2>4. clients' = S!Leave(c, p) /\ \E how \in {"ok", "failed"} :
          req' = [w \in Requests |-> IF w \in S!Waiter(c) THEN [S!Ended(w, how) EXCEPT !.by = r] ELSE req[w]]
    BY <1>7, <2>1 DEF S!Reads
  <2>5. PICK how \in {"ok", "failed"} :
          req' = [w \in Requests |-> IF w = r THEN [[req[w] EXCEPT !.at = "done", !.end = how] EXCEPT !.by = r] ELSE req[w]]
    BY <2>3, <2>4 DEF S!Ended
  <2>6. req[r] \in Asked /\ RequestFits(r) BY <1>3, SpeechTyped DEF SpeechInv
  <2> DEFINE ended == [req[r] EXCEPT !.at = "done", !.end = how]
  <2>7. ended \in Asked /\ ended.at = "done" /\ ended.end = how BY <2>6 DEF Asked
  <2> HIDE DEF ended
  <2> DEFINE told == [ended EXCEPT !.by = r]
  <2>8. told \in Asked /\ told.at = "done" /\ told.end = how /\ told.by = r BY <1>3, <2>7 DEF Asked
  <2> HIDE DEF told
  <2>9. req' \in [Requests -> Asked] /\ req'[r] = told /\ \A q \in Requests \ {r} : req'[q] = req[q]
    BY <1>3, <2>5, <2>8, SpeechTyped DEF told, ended
  <2>10. LeftBy(c, p, clients') BY <1>2, <1>6, <2>4, ClientLeaves
  <2>11. SpeechTypes' BY <1>1, <1>4, <2>9, <2>10 DEF SpeechInv, SpeechTypes, LeftBy
  <2>12. \A d \in DOMAIN clients : clients'[d].closed = clients[d].closed /\ clients'[d].child = clients[d].child
    BY <2>1, <2>10 DEF LeftBy
  <2>13. ASSUME NEW q \in Requests PROVE RequestFits(q)'
    <3>0. RequestFits(q) BY DEF SpeechInv
    <3>1. CASE q = r BY <2>8, <2>9, <3>1 DEF RequestFits
    <3>2. CASE q # r
      <4>1. req'[q] = req[q] BY <2>9, <3>2
      <4>2. CASE req[q].at = "queued" /\ req[q].client = c
        <5>1. PICK i \in DOMAIN clients[c].chain : clients[c].chain[i] = q BY <3>0, <4>2 DEF RequestFits
        <5>2. clients[c] \in Clients BY <1>2, SpeechTyped
        <5>3. clients[c].chain \in Seq(Requests) BY <5>2 DEF Clients
        <5>4. i # 1 BY <2>3, <3>2, <5>1, <5>3
        <5> DEFINE chain == clients[c].chain
        <5> HIDE DEF chain
        <5>5. chain \in Seq(Requests) /\ chain # <<>> /\ i \in DOMAIN chain /\ i # 1 /\ chain[i] = q
          BY <2>3, <5>1, <5>3, <5>4 DEF chain
        <5>6. i - 1 \in DOMAIN Tail(chain) /\ Tail(chain)[i - 1] = q BY <5>5
        <5>7. clients'[c].chain = Tail(chain) BY <2>3, <2>10 DEF LeftBy, chain
        <5>8. RequestFits(q) /\ q \notin {r} /\ c \in DOMAIN clients' /\ clients'[c].closed = clients[c].closed
          BY <1>2, <2>10, <2>12, <3>0, <3>2 DEF LeftBy
        <5> HIDE DEF c, r
        <5> QED BY <1>1, <4>1, <4>2, <5>6, <5>7, <5>8 DEF RequestFits
      <4>3. CASE req[q].at = "running" /\ req[q].client = c BY <2>3, <3>2, <4>3 DEF S!Waiter
      <4>4. CASE ~(req[q].at \in {"queued", "running"} /\ req[q].client = c)
        BY <1>1, <1>4, <1>5, <2>10, <2>12, <3>0, <4>1, <4>4 DEF RequestFits, LeftBy
      <4> QED BY <4>2, <4>3, <4>4
    <3> QED BY <3>1, <3>2
  <2>14. ASSUME NEW d \in DOMAIN clients' PROVE ClientFits(d)'
    <3>1. ClientFits(d) /\ d \in DOMAIN clients BY <2>10, <2>14 DEF SpeechInv, LeftBy
    <3>2. CASE d = c
      <4>1. worker'[p].job = Nobody /\ worker'[p].out = Nobody BY <1>3, <1>4, <2>2
      <4> QED BY <1>4, <1>5, <2>1, <2>12, <3>1, <3>2, <4>1 DEF ClientFits
    <3>3. CASE d # c
      <4>1. clients[d].child # Nobody => worker'[clients[d].child] = worker[clients[d].child]
        BY <1>4, <2>1, <3>1, <3>3 DEF ClientFits
      <4>2. \A q \in Requests : req[q].client = d /\ req[q].at = "running" => req'[q] = req[q]
        BY <2>2, <2>9, <3>3 DEF S!Waiter
      <4> QED BY <1>4, <2>12, <3>1, <4>1, <4>2 DEF ClientFits
    <3> QED BY <3>2, <3>3
  <2> QED BY <1>1, <1>4, <1>5, <2>10, <2>11, <2>12, <2>13, <2>14 DEF SpeechInv, SpeechTypes, LeftBy
<1>8. CASE ~(S!Heeds(c, p) /\ S!Waiter(c) # {})
  <2>1. UNCHANGED <<req, clients>> BY <1>8 DEF S!Reads
  <2>2. SpeechTypes' BY <1>1, <1>4, <2>1 DEF SpeechInv, SpeechTypes
  <2>3. \A q \in Requests : RequestFits(q)' BY <1>1, <1>4, <1>5, <2>1 DEF SpeechInv, RequestFits
  <2>4. ASSUME NEW d \in DOMAIN clients' PROVE ClientFits(d)'
    <3>1. ClientFits(d) BY <2>1, <2>4 DEF SpeechInv
    <3>2. CASE clients[d].child = p BY <1>3, <1>4, <2>1, <3>1, <3>2 DEF ClientFits
    <3>3. CASE clients[d].child # p BY <1>4, <2>1, <3>1, <3>3 DEF ClientFits
    <3> QED BY <3>2, <3>3
  <2> QED BY <1>1, <1>4, <1>5, <2>1, <2>2, <2>3, <2>4 DEF SpeechInv
<1> QED BY <1>7, <1>8

LEMMA SpeechMoves == ASSUME SpeechInv, S!Next PROVE SpeechInv'
  BY AsksFits, RefusedFits, SyncedFits, RunsFits, AbortFits, SyncFailsFits, SweepFits, CloseFits, TimePassesFits,
     WatchdogFiresFits, WritesFits, ReadsFits, ExitsFits DEF S!Next

LEMMA SpeechRests == ASSUME SpeechInv, UNCHANGED sVars PROVE SpeechInv'
<1> USE DEF sVars, SpeechInv
<1>1. SpeechTypes' BY DEF SpeechTypes
<1>2. \A r \in Requests : RequestFits(r)' BY DEF RequestFits
<1>3. \A c \in DOMAIN clients' : ClientFits(c)' BY DEF ClientFits
<1> QED BY <1>1, <1>2, <1>3

LEMMA SpeechStarts == ASSUME S!Init PROVE SpeechInv
<1> USE SpeechConstants DEF S!Init
<1>1. S!New \in Asked /\ S!New.at = "new" /\ S!New.end = "none" BY DEF Asked, S!New
<1>2. DOMAIN clients = {} /\ DOMAIN worker = {} OBVIOUS
<1>3. SpeechTypes
  <2>1. clients \in Seq(Clients) /\ worker \in Seq(Processes) OBVIOUS
  <2>2. req \in [Requests -> Asked] BY <1>1
  <2> QED BY <2>1, <2>2 DEF SpeechTypes
<1>4. \A r \in Requests : RequestFits(r) BY <1>1 DEF RequestFits
<1> QED BY <1>2, <1>3, <1>4 DEF SpeechInv

\* From its start, a system of parts keeps the invariant of the speech service.
LEMMA SpeechInvariance == PartsSpec => []SpeechInv
<1>1. ASSUME SpeechInv, [PartsNext]_<<chosen, vars, eVars, sVars, rVars>> PROVE SpeechInv'
  BY <1>1, SpeechMoves, SpeechRests DEF PartsNext
<1>2. PartsInit => SpeechInv BY SpeechStarts DEF PartsInit
<1> QED BY <1>1, <1>2, PTL DEF PartsSpec

\* What becomes of a request for speech is its own doing, for any number of requests,
\* clients and processes: an "ok" is the answer to itself, a "died" the end of the
\* process it ran on, and it is interrupted by its own cancel or the server's end only.
THEOREM NobodyElsesOutcome == PartsSpec => []OutcomeIsItsOwn
<1>1. SpeechInv => OutcomeIsItsOwn BY DEF SpeechInv, RequestFits, OutcomeIsItsOwn, S!OutcomeIsItsOwn
<1> QED BY <1>1, SpeechInvariance, PTL
-----------------------------------------------------------------------------
(* The registry.  A runtime is somebody's as long as it may work: while the *)
(* server is up the open one is the entry, whoever is in it is counted, and *)
(* what it still does is the ingest's or a request's.                      *)

Runtime == [at : {"loading", "open", "none", "failed"}, stage : {"new", "working", "ready", "error", "cancelled"},
            ingest : {"no", "running", "tracing", "ending", "done"},
            traces : SUBSET (Requests \cup {R!Plan}), journals : SUBSET (Requests \cup {R!Plan, R!Ingest}),
            closing : {"no", "ingest", "traces", "journals", "done"},
            waits : SUBSET (Requests \cup {R!Plan, R!Ingest}), owed : BOOLEAN]
Visit == [at : {"new", "loading", "reading", "tracing", "done"}, rt : Nat \cup {Nobody}, creates : BOOLEAN]
SweepAt == [at : {"none", "listed", "awaiting", "closing", "done"}, rt : Nat \cup {Nobody}]

RegistryTypes ==
  /\ runtimes \in Seq(Runtime) /\ visits \in [Requests -> Visit] /\ sweeps \in [Requests \cup {Sweeper} -> SweepAt]
  /\ entry \in DOMAIN runtimes \cup {Nobody} /\ active \in Nat /\ down \in BOOLEAN
  /\ \A c \in Requests \cup {Sweeper} : sweeps[c].at \in {"awaiting", "closing"} => sweeps[c].rt \in DOMAIN runtimes

Visitors == {r \in Requests : visits[r].rt # Nobody}

VisitFits(r) ==
  IF visits[r].at \in {"new", "done"} THEN visits[r].rt = Nobody ELSE visits[r].rt \in DOMAIN runtimes

\* A runtime that closes goes on only with what it had, and only an open one closes.
Sound(rt) ==
  /\ R!Plan \in rt.traces => rt.ingest = "tracing"
  /\ rt.closing \in {"traces", "journals", "done"} => rt.ingest \in {"no", "done"}
  /\ rt.closing \in {"journals", "done"} => rt.traces = {}
  /\ rt.closing = "journals" => rt.journals \subseteq rt.waits
  /\ rt.closing = "done" => rt.journals = {}
  /\ rt.at # "open" => rt.closing = "no"

\* Nothing is traced but for the ingest or a request that waits for it there.
RuntimeFits(k) ==
  /\ Sound(runtimes[k])
  /\ \A r \in Requests : r \in runtimes[k].traces => visits[r].at = "tracing" /\ visits[r].rt = k
  /\ runtimes[k].owed => down

\* While the server is up.
UpFits(k) ==
  LET rt == runtimes[k] IN
  /\ rt.closing # "no" => /\ rt.ingest \in {"no", "done"} /\ rt.traces = {}
                          /\ \A r \in Requests : visits[r].rt # k
  /\ rt.closing = "no" /\ rt.at \in {"loading", "open"} => entry = k

\* A runtime of which it turns out that there is no project is forgotten by the request
\* that created it, and by no other.
CreatorsFit ==
  /\ \A r, q \in Visitors : visits[r].creates /\ visits[q].creates /\ visits[r].rt = visits[q].rt => r = q
  /\ ~down => \A r \in Visitors : visits[r].creates /\ runtimes[visits[r].rt].at = "none" => entry = visits[r].rt

RegistryInv ==
  /\ RegistryTypes /\ CreatorsFit
  /\ \A r \in Requests : VisitFits(r)
  /\ \A k \in DOMAIN runtimes : RuntimeFits(k) /\ (~down => UpFits(k))
  /\ ~down => active = Cardinality(Visitors)
  /\ ~down /\ entry # Nobody => runtimes[entry].closing = "no" /\ runtimes[entry].at # "failed"

LEMMA RegistryNames ==
  /\ IsFiniteSet(Requests) /\ Sweeper \notin Requests /\ R!Plan \notin Requests /\ R!Ingest \notin Requests
  /\ R!Plan # R!Ingest /\ Nobody \notin Nat
<1>1. /\ IsFiniteSet(Requests) /\ Sweeper \notin Requests /\ {"ingest", "plan"} \cap Requests = {}
      /\ Nobody \notin Nat \cup {"recent", "old"}
  BY PrepPartsAssumption DEF R!ProjectRuntimesAssumption
<1>2. R!Plan = "plan" /\ R!Ingest = "ingest" BY DEF R!Plan, R!Ingest
<1>3. Nobody \notin Nat BY <1>1
<1>4. "plan" \notin Requests /\ "ingest" \notin Requests BY <1>1
<1> QED BY <1>1, <1>2, <1>3, <1>4

LEMMA RegistryTyped ==
  ASSUME RegistryInv
  PROVE  /\ \A k \in DOMAIN runtimes : runtimes[k] \in Runtime /\ k \in Nat \ {0} /\ k # Nobody
         /\ \A r \in Requests : visits[r] \in Visit
         /\ \A r \in Visitors : visits[r].rt \in DOMAIN runtimes
         /\ \A c \in Requests \cup {Sweeper} : sweeps[c] \in SweepAt
<1>1. runtimes \in Seq(Runtime) /\ visits \in [Requests -> Visit] /\ sweeps \in [Requests \cup {Sweeper} -> SweepAt]
  BY DEF RegistryInv, RegistryTypes
<1>2. \A k \in DOMAIN runtimes : runtimes[k] \in Runtime /\ k \in Nat \ {0} BY <1>1
<1>3. \A r \in Visitors : visits[r].rt \in DOMAIN runtimes BY DEF RegistryInv, Visitors, VisitFits
<1> QED BY <1>1, <1>2, <1>3, RegistryNames

LEMMA VisitorsCounted ==
  ASSUME RegistryInv
  PROVE  /\ IsFiniteSet(Visitors) /\ Cardinality(Visitors) \in Nat
         /\ Visitors # {} => Cardinality(Visitors) > 0
<1>1. IsFiniteSet(Visitors) BY RegistryNames, FS_Subset DEF Visitors
<1> QED BY <1>1, FS_CardinalityType, FS_EmptySet

\* A request that is answered is one visitor less.
LEMMA RepliedFits ==
  ASSUME RegistryInv, NEW r \in Visitors, visits' = R!Replied(r), active' = R!Released(r)
  PROVE  /\ visits' \in [Requests -> Visit] /\ visits'[r].at = "done" /\ visits'[r].rt = Nobody /\ Visitors' = Visitors \ {r}
         /\ visits'[r].creates = FALSE
         /\ \A q \in Requests \ {r} : visits'[q] = visits[q]
         /\ active' \in Nat /\ (~down => active' = Cardinality(Visitors'))
<1>1. r \in Requests /\ visits' = [visits EXCEPT ![r] = [at |-> "done", rt |-> Nobody, creates |-> FALSE]]
      /\ active' = IF active > 1 THEN active - 1 ELSE 0
  BY DEF Visitors, R!Replied, R!Released
<1>2. visits \in [Requests -> Visit] /\ active \in Nat BY DEF RegistryInv, RegistryTypes
<1>3. [at |-> "done", rt |-> Nobody, creates |-> FALSE] \in Visit BY DEF Visit
<1>4. visits' \in [Requests -> Visit] /\ visits'[r] = [at |-> "done", rt |-> Nobody, creates |-> FALSE]
      /\ \A q \in Requests \ {r} : visits'[q] = visits[q]
  BY <1>1, <1>2, <1>3
<1>5. Visitors' = Visitors \ {r} BY <1>1, <1>4 DEF Visitors
<1>6. active' \in Nat /\ (active \in Nat \ {0} => active' = active - 1) BY <1>1, <1>2
<1>7. ASSUME ~down PROVE active' = Cardinality(Visitors')
  <2>1. active = Cardinality(Visitors) /\ IsFiniteSet(Visitors) /\ Visitors # {}
    BY <1>7, VisitorsCounted DEF RegistryInv
  <2>2. Cardinality(Visitors \ {r}) = Cardinality(Visitors) - 1 BY <2>1, FS_RemoveElement
  <2>3. active \in Nat \ {0} BY <1>2, <2>1, VisitorsCounted
  <2> QED BY <1>5, <1>6, <2>1, <2>2, <2>3
<1> QED BY <1>4, <1>5, <1>6, <1>7

\* What a request that goes on in its runtime leaves.
LEMMA GoesOnFits ==
  ASSUME RegistryInv, NEW r \in Visitors, visits[r].at \in {"loading", "reading", "tracing"},
         NEW at \in {"reading", "tracing"}, visits' = [visits EXCEPT ![r].at = at]
  PROVE  /\ visits' \in [Requests -> Visit] /\ visits'[r].at = at /\ visits'[r].rt = visits[r].rt
         /\ visits'[r].creates = visits[r].creates /\ Visitors' = Visitors
         /\ \A q \in Requests \ {r} : visits'[q] = visits[q]
<1>1. visits \in [Requests -> Visit] /\ r \in Requests BY DEF RegistryInv, RegistryTypes, Visitors
<1> DEFINE v == [visits[r] EXCEPT !.at = at]
<1>2. v \in Visit /\ v.at = at /\ v.rt = visits[r].rt /\ v.creates = visits[r].creates BY <1>1 DEF Visit
<1>3. visits' = [visits EXCEPT ![r] = v] BY <1>1
<1> HIDE DEF v
<1>4. visits' \in [Requests -> Visit] /\ visits'[r] = v /\ \A q \in Requests \ {r} : visits'[q] = visits[q]
  BY <1>1, <1>2, <1>3
<1>5. Visitors' = Visitors BY <1>1, <1>2, <1>4 DEF Visitors
<1> QED BY <1>2, <1>4, <1>5

\* Who is in the runtimes when one of them works, or answers.
VisitsGo(k) ==
  \/ UNCHANGED <<visits, active>>
  \/ \E r \in Visitors :
       /\ visits[r].rt = k /\ r \notin runtimes'[k].traces
       /\ visits' = R!Replied(r) /\ active' = R!Released(r)
  \/ \E r \in Visitors, at \in {"reading", "tracing"} :
       /\ visits[r].rt = k /\ visits[r].at \in {"loading", "reading"}
       /\ visits' = [visits EXCEPT ![r].at = at] /\ active' = active

\* What holds of the visits, whichever way they go.
VisitsKept(k) ==
  /\ visits' \in [Requests -> Visit] /\ Visitors' \subseteq Visitors /\ active' \in Nat
  /\ ~down => active' = Cardinality(Visitors')
  /\ \A q \in Visitors' : visits'[q].rt = visits[q].rt /\ visits'[q].creates = visits[q].creates
  /\ \A q \in Requests : visits'[q].at \in {"new", "done"} => visits'[q].rt = Nobody
  /\ \A q \in Requests : visits'[q].at \notin {"new", "done"} => q \in Visitors'
  /\ \A q \in Requests : visits[q].rt # k => visits'[q] = visits[q]
  /\ k \in Nat => \A q \in Requests : visits'[q].rt = k => visits[q].rt = k

LEMMA VisitsGone ==
  ASSUME RegistryInv, NEW k, VisitsGo(k)
  PROVE  VisitsKept(k)
<1>0. /\ visits \in [Requests -> Visit] /\ active \in Nat /\ (~down => active = Cardinality(Visitors))
      /\ Visitors \subseteq Requests
      /\ \A q \in Requests : VisitFits(q)
      /\ \A q \in Visitors : visits[q].rt \in DOMAIN runtimes
      /\ \A j \in DOMAIN runtimes : j # Nobody
  BY RegistryTyped DEF RegistryInv, RegistryTypes, Visitors
<1>1. CASE UNCHANGED <<visits, active>>
  <2>1. Visitors' = Visitors BY <1>1 DEF Visitors
  <2> QED BY <1>0, <1>1, <2>1 DEF Visitors, VisitFits, VisitsKept
<1>2. ASSUME NEW r \in Visitors, visits[r].rt = k, visits' = R!Replied(r), active' = R!Released(r)
      PROVE  VisitsKept(k)
  BY <1>0, <1>2, RepliedFits, RegistryNames DEF Visitors, VisitFits, VisitsKept
<1>3. ASSUME NEW r \in Visitors, NEW at \in {"reading", "tracing"}, visits[r].rt = k, visits[r].at \in {"loading", "reading"},
             visits' = [visits EXCEPT ![r].at = at], active' = active
      PROVE  VisitsKept(k)
  BY <1>0, <1>3, GoesOnFits DEF Visitors, VisitFits, VisitsKept
<1> QED BY <1>1, <1>2, <1>3 DEF VisitsGo

\* One runtime goes on.
LEMMA RuntimeGoes ==
  ASSUME RegistryInv, NEW k \in DOMAIN runtimes, runtimes' = [runtimes EXCEPT ![k] = runtimes'[k]],
         runtimes'[k] \in Runtime, Sound(runtimes'[k]), VisitsGo(k), UNCHANGED <<entry, sweeps, down>>,
         runtimes'[k].at = runtimes[k].at, runtimes'[k].owed => runtimes[k].owed,
         \A r \in Requests : r \in runtimes'[k].traces => r \in runtimes[k].traces \/ (visits'[r].at = "tracing" /\ visits'[r].rt = k),
         ~down => (runtimes'[k].closing # "no" =>
           runtimes[k].closing # "no" /\ runtimes'[k].ingest \in {"no", "done"} /\ runtimes'[k].traces = {}),
         runtimes'[k].closing = "no" => runtimes[k].closing = "no"
  PROVE  RegistryInv'
<1>1. VisitsKept(k) /\ k \in Nat BY VisitsGone, RegistryTyped
<1>2. /\ runtimes' \in Seq(Runtime) /\ DOMAIN runtimes' = DOMAIN runtimes
      /\ \A j \in DOMAIN runtimes \ {k} : runtimes'[j] = runtimes[j]
  BY DEF RegistryInv, RegistryTypes
<1>3. RegistryTypes' BY <1>1, <1>2 DEF RegistryInv, RegistryTypes, VisitsKept
<1>4. \A r \in Requests : VisitFits(r)'
  <2>1. \A q \in Visitors : visits[q].rt \in DOMAIN runtimes BY RegistryTyped
  <2> QED BY <1>1, <1>2, <2>1 DEF VisitFits, VisitsKept
<1>5. ASSUME NEW j \in DOMAIN runtimes' PROVE RuntimeFits(j)'
  <2>1. ASSUME NEW r \in Requests, r \in runtimes'[j].traces PROVE visits'[r].at = "tracing" /\ visits'[r].rt = j
    <3>1. CASE r \in runtimes[j].traces
      <4>1. visits[r].at = "tracing" /\ visits[r].rt = j BY <1>2, <3>1 DEF RegistryInv, RuntimeFits
      <4>2. CASE j = k
        <5>1. CASE UNCHANGED <<visits, active>> BY <4>1, <5>1
        <5>2. ASSUME NEW q \in Visitors, q \notin runtimes'[k].traces, visits' = R!Replied(q), active' = R!Released(q)
              PROVE  visits'[r] = visits[r]
          BY <2>1, <4>2, <5>2, RepliedFits
        <5>3. ASSUME NEW q \in Visitors, NEW at \in {"reading", "tracing"}, visits[q].at \in {"loading", "reading"},
                     visits' = [visits EXCEPT ![q].at = at]
              PROVE  visits'[r] = visits[r]
          BY <4>1, <5>3, GoesOnFits
        <5> QED BY <4>1, <4>2, <5>1, <5>2, <5>3 DEF VisitsGo
      <4>3. CASE j # k BY <1>1, <4>1, <4>3 DEF VisitsKept
      <4> QED BY <4>2, <4>3
    <3>2. CASE r \notin runtimes[j].traces BY <1>2, <2>1, <3>2
    <3> QED BY <3>1, <3>2
  <2>2. Sound(runtimes'[j]) BY <1>2 DEF RegistryInv, RuntimeFits
  <2>3. runtimes'[j].owed => down' BY <1>2 DEF RegistryInv, RuntimeFits
  <2> QED BY <2>1, <2>2, <2>3 DEF RuntimeFits
<1>6. ASSUME ~down', NEW j \in DOMAIN runtimes' PROVE UpFits(j)'
  <2>1. UpFits(j) /\ ~down BY <1>2, <1>6 DEF RegistryInv
  <2>2. CASE j = k
    <3>1. runtimes'[k].closing # "no" => \A r \in Requests : visits'[r].rt # k
      BY <1>1, <2>1, <2>2 DEF UpFits, VisitsKept
    <3> QED BY <2>1, <2>2, <3>1 DEF UpFits
  <2>3. CASE j # k
    <3>1. \A r \in Requests : visits[r].rt # j => visits'[r].rt # j
      BY <1>1, <1>2, <2>3, RegistryTyped DEF Visitors, VisitsKept, RegistryInv, VisitFits
    <3> QED BY <1>2, <2>1, <2>3, <3>1 DEF UpFits
  <2> QED BY <2>2, <2>3
<1>7. CreatorsFit' BY <1>1, <1>2, RegistryTyped DEF RegistryInv, CreatorsFit, VisitsKept
<1>8. ~down' => active' = Cardinality(Visitors') BY <1>1 DEF VisitsKept
<1>9. ~down' /\ entry' # Nobody => runtimes'[entry'].closing = "no" /\ runtimes'[entry'].at # "failed"
  BY <1>2 DEF RegistryInv, RegistryTypes
<1> QED BY <1>3, <1>4, <1>5, <1>6, <1>7, <1>8, <1>9 DEF RegistryInv

\* What stages and closings leave of a runtime.
LEMMA StagedFits ==
  ASSUME NEW rt \in Runtime, NEW stage \in {"working", "ready", "error"}
  PROVE  /\ R!Staged(rt, stage) \in Runtime /\ R!Staged(rt, stage).at = rt.at
         /\ R!Staged(rt, stage).ingest = rt.ingest /\ R!Staged(rt, stage).traces = rt.traces
         /\ R!Staged(rt, stage).journals = rt.journals /\ R!Staged(rt, stage).closing = rt.closing
         /\ R!Staged(rt, stage).waits = rt.waits /\ R!Staged(rt, stage).owed = rt.owed
  BY DEF R!Staged, Runtime

LEMMA IngestFailsFits == ASSUME RegistryInv, NEW k \in DOMAIN runtimes, R!IngestFails(k) PROVE RegistryInv'
<1> DEFINE one == R!Staged(runtimes[k], "error")
           new == [one EXCEPT !.ingest = "ending"]
<1>1. /\ one \in Runtime /\ one.at = runtimes[k].at /\ one.traces = runtimes[k].traces
      /\ one.journals = runtimes[k].journals /\ one.closing = runtimes[k].closing
      /\ one.waits = runtimes[k].waits /\ one.owed = runtimes[k].owed
  BY RegistryTyped, StagedFits
<1>2. runtimes[k].ingest = "running" /\ runtimes' = [runtimes EXCEPT ![k] = new]
      /\ UNCHANGED <<entry, sweeps, down, visits, active>>
  BY DEF R!IngestFails
<1> HIDE DEF one
<1>3. /\ new \in Runtime /\ new.at = one.at /\ new.traces = one.traces /\ new.journals = one.journals
      /\ new.closing = one.closing /\ new.waits = one.waits /\ new.owed = one.owed /\ new.ingest = "ending"
  BY <1>1 DEF Runtime
<1> HIDE DEF new
<1>4. runtimes'[k] = new BY <1>2
<1>5. Sound(runtimes[k]) /\ (~down => UpFits(k)) BY DEF RegistryInv, RuntimeFits
<1>6. Sound(new) BY <1>1, <1>2, <1>3, <1>5 DEF Sound
<1>7. VisitsGo(k) BY <1>2 DEF VisitsGo
<1> QED BY <1>1, <1>2, <1>3, <1>4, <1>5, <1>6, <1>7, RuntimeGoes DEF UpFits

LEMMA JournalClosesFits ==
  ASSUME RegistryInv, NEW k \in DOMAIN runtimes, NEW x, R!JournalCloses(k, x) PROVE RegistryInv'
<1> DEFINE rt == runtimes[k]
           new == [rt EXCEPT !.journals = rt.journals \ {x}, !.ingest = IF x = R!Ingest THEN "done" ELSE rt.ingest]
<1>1. /\ x \in rt.journals /\ (x = R!Ingest => rt.ingest = "ending") /\ runtimes' = [runtimes EXCEPT ![k] = new]
      /\ UNCHANGED <<entry, sweeps, down, visits, active>>
  BY DEF R!JournalCloses
<1>2. rt \in Runtime /\ Sound(rt) /\ (~down => UpFits(k)) BY RegistryTyped DEF RegistryInv, RuntimeFits
<1>3. /\ new \in Runtime /\ new.at = rt.at /\ new.traces = rt.traces /\ new.journals \subseteq rt.journals
      /\ new.closing = rt.closing /\ new.waits = rt.waits /\ new.owed = rt.owed
      /\ new.ingest = IF x = R!Ingest THEN "done" ELSE rt.ingest
  BY <1>2 DEF Runtime
<1> HIDE DEF new
<1>4. runtimes'[k] = new BY <1>1
<1>5. Sound(new) BY <1>1, <1>2, <1>3 DEF Sound
<1>6. VisitsGo(k) BY <1>1 DEF VisitsGo
<1> QED BY <1>1, <1>2, <1>3, <1>4, <1>5, <1>6, RuntimeGoes DEF UpFits

LEMMA DrainFits == ASSUME RegistryInv, NEW k \in DOMAIN runtimes, R!Drain(k) PROVE RegistryInv'
<1> DEFINE rt == runtimes[k]
           new == CASE rt.closing = "ingest" -> [rt EXCEPT !.closing = "traces"]
                    [] rt.closing = "traces" -> [rt EXCEPT !.closing = "journals", !.waits = rt.journals]
                    [] OTHER -> [rt EXCEPT !.closing = "done", !.waits = {}]
<1>1. /\ runtimes' = [runtimes EXCEPT ![k] = new] /\ UNCHANGED <<entry, sweeps, down, visits, active>>
      /\ \/ rt.closing = "ingest" /\ rt.ingest \in {"no", "done"}
         \/ rt.closing = "traces" /\ rt.traces = {}
         \/ rt.closing = "journals" /\ rt.waits \cap rt.journals = {}
  BY DEF R!Drain
<1>2. rt \in Runtime /\ Sound(rt) /\ (~down => UpFits(k)) BY RegistryTyped DEF RegistryInv, RuntimeFits
<1> HIDE DEF rt
<1>3. new \in Runtime /\ new.at = rt.at /\ new.traces = rt.traces /\ new.journals = rt.journals
      /\ new.owed = rt.owed /\ new.ingest = rt.ingest
  <2>1. CASE rt.closing = "ingest" BY <1>2, <2>1 DEF Runtime
  <2>2. CASE rt.closing = "traces" BY <1>2, <2>2 DEF Runtime
  <2>3. CASE rt.closing = "journals" BY <1>2, <2>3 DEF Runtime
  <2> QED BY <1>1, <2>1, <2>2, <2>3
<1>4. /\ rt.closing # "no" /\ new.closing # "no"
      /\ rt.closing = "ingest" => new.closing = "traces"
      /\ rt.closing = "traces" => new.closing = "journals" /\ new.waits = rt.journals
      /\ rt.closing = "journals" => new.closing = "done"
  BY <1>1, <1>2 DEF Runtime
<1> HIDE DEF new
<1>5. runtimes'[k] = new BY <1>1
<1>6. Sound(new)
  <2>1. CASE rt.closing = "ingest" BY <1>1, <1>2, <1>3, <1>4, <2>1 DEF Sound
  <2>2. CASE rt.closing = "traces" BY <1>1, <1>2, <1>3, <1>4, <2>2 DEF Sound
  <2>3. CASE rt.closing = "journals" BY <1>1, <1>2, <1>3, <1>4, <2>3 DEF Sound
  <2> QED BY <1>1, <2>1, <2>2, <2>3
<1>7. VisitsGo(k) BY <1>1 DEF VisitsGo
<1> QED BY <1>1, <1>2, <1>3, <1>4, <1>5, <1>6, <1>7, RuntimeGoes DEF UpFits, rt

\* A runtime that is told to close; nothing of its work has changed yet.
LEMMA ClosingFits ==
  ASSUME NEW rt \in Runtime, Sound(rt), rt.at = "open"
  PROVE  LET new == R!Closing(rt) IN
         /\ new \in Runtime /\ Sound(new) /\ new.at = rt.at /\ new.traces = rt.traces /\ new.owed = rt.owed
         /\ new.ingest = rt.ingest /\ new.closing # "no"
<1> DEFINE new == R!Closing(rt)
<1>1. /\ new \in Runtime /\ new.at = rt.at /\ new.traces = rt.traces /\ new.owed = rt.owed /\ new.ingest = rt.ingest
      /\ new.journals = rt.journals /\ new.waits = rt.waits
      /\ new.closing = IF rt.closing = "no" THEN "ingest" ELSE rt.closing
  BY DEF R!Closing, Runtime
<1> HIDE DEF new
<1>2. Sound(new) BY <1>1 DEF Sound
<1> QED BY <1>1, <1>2 DEF new

LEMMA CloseLoadedFits == ASSUME RegistryInv, NEW k \in DOMAIN runtimes, R!CloseLoaded(k) PROVE RegistryInv'
<1> DEFINE rt == runtimes[k]
           one == R!Closing(rt)
           new == [one EXCEPT !.owed = FALSE]
<1>1. rt.owed /\ rt.at = "open" /\ runtimes' = [runtimes EXCEPT ![k] = new]
      /\ UNCHANGED <<entry, sweeps, down, visits, active>>
  BY DEF R!CloseLoaded
<1>2. rt \in Runtime /\ Sound(rt) /\ down BY <1>1, RegistryTyped DEF RegistryInv, RuntimeFits
<1>3. one \in Runtime /\ Sound(one) /\ one.at = rt.at /\ one.traces = rt.traces /\ one.closing # "no"
  BY <1>1, <1>2, ClosingFits
<1> HIDE DEF one
<1>4. /\ new \in Runtime /\ new.at = one.at /\ new.traces = one.traces /\ new.journals = one.journals /\ new.ingest = one.ingest
      /\ new.closing = one.closing /\ new.waits = one.waits /\ new.owed = FALSE
  BY <1>3 DEF Runtime
<1> HIDE DEF new
<1>5. runtimes'[k] = new BY <1>1
<1>6. Sound(new) BY <1>3, <1>4 DEF Sound
<1>7. VisitsGo(k) BY <1>1 DEF VisitsGo
<1> QED BY <1>1, <1>2, <1>3, <1>4, <1>5, <1>6, <1>7, RuntimeGoes

\* Whoever ends takes the ingest with it, or is answered.
LEMMA EndsFits ==
  ASSUME RegistryInv, NEW rt \in Runtime, Sound(rt), NEW x \in Requests \cup {R!Plan}, x \notin rt.traces,
         x = R!Plan => rt.ingest \in {"running", "tracing"}
  PROVE  LET new == R!Ends(rt, x) IN
         /\ new \in Runtime /\ Sound(new) /\ new.at = rt.at /\ new.traces = rt.traces /\ new.owed = rt.owed
         /\ new.closing = rt.closing /\ (x # R!Plan => new.ingest = rt.ingest)
<1> DEFINE new == R!Ends(rt, x)
<1>1. /\ new \in Runtime /\ new.at = rt.at /\ new.traces = rt.traces /\ new.owed = rt.owed
      /\ new.journals = rt.journals /\ new.waits = rt.waits /\ new.closing = rt.closing
      /\ new.ingest = IF x = R!Plan THEN "ending" ELSE rt.ingest
  BY DEF R!Ends, Runtime
<1> HIDE DEF new
<1>2. Sound(new) BY <1>1 DEF Sound
<1> QED BY <1>1, <1>2 DEF new

LEMMA EndedVisits ==
  ASSUME RegistryInv, NEW k, NEW x \in Requests \cup {R!Plan}, x # R!Plan => x \in Visitors /\ visits[x].rt = k,
         x \notin runtimes'[k].traces, visits' = R!Replied(x), active' = R!Released(x)
  PROVE  VisitsGo(k)
<1>1. CASE x = R!Plan
  <2>1. x \notin Requests BY <1>1, RegistryNames
  <2> QED BY <2>1 DEF R!Replied, R!Released, VisitsGo
<1>2. CASE x # R!Plan BY <1>2 DEF VisitsGo
<1> QED BY <1>1, <1>2

LEMMA TraceEndsFits ==
  ASSUME RegistryInv, NEW k \in DOMAIN runtimes, NEW x \in Requests \cup {R!Plan}, R!TraceEnds(k, x)
  PROVE  RegistryInv'
<1> DEFINE old == runtimes[k]
           rt == [old EXCEPT !.traces = old.traces \ {x}]
<1>1. PICK stage \in {"ready", "error"} :
        /\ x \in old.traces /\ runtimes' = [runtimes EXCEPT ![k] = R!Ends(R!Staged(rt, stage), x)]
        /\ visits' = R!Replied(x) /\ active' = R!Released(x) /\ UNCHANGED <<entry, sweeps, down>>
  BY DEF R!TraceEnds
<1>2. /\ old \in Runtime /\ Sound(old) /\ (~down => UpFits(k)) /\ (x = R!Plan => old.ingest = "tracing")
      /\ (x # R!Plan => visits[x].at = "tracing" /\ visits[x].rt = k)
  BY <1>1, RegistryTyped DEF RegistryInv, RuntimeFits, Sound
<1>3. /\ rt \in Runtime /\ rt.at = old.at /\ rt.traces = old.traces \ {x} /\ rt.owed = old.owed
      /\ rt.journals = old.journals /\ rt.waits = old.waits /\ rt.closing = old.closing /\ rt.ingest = old.ingest
  BY <1>2 DEF Runtime
<1> HIDE DEF rt
<1> DEFINE one == R!Staged(rt, stage)
           new == R!Ends(one, x)
<1>4. /\ one \in Runtime /\ one.at = old.at /\ one.traces = old.traces \ {x} /\ one.owed = old.owed
      /\ one.journals = old.journals /\ one.waits = old.waits /\ one.closing = old.closing /\ one.ingest = old.ingest
  BY <1>3, StagedFits
<1> HIDE DEF one
<1>5. Sound(one) BY <1>2, <1>4 DEF Sound
<1>6. /\ new \in Runtime /\ Sound(new) /\ new.at = old.at /\ new.traces = old.traces \ {x} /\ new.owed = old.owed
      /\ new.closing = old.closing
  BY <1>2, <1>4, <1>5, EndsFits
<1>7. runtimes' = [runtimes EXCEPT ![k] = new] BY <1>1 DEF one
<1> HIDE DEF new
<1>8. runtimes'[k] = new /\ runtimes' = [runtimes EXCEPT ![k] = runtimes'[k]] BY <1>7
<1>9. x # R!Plan => x \in Visitors BY <1>2, RegistryTyped DEF Visitors, RegistryInv, VisitFits
<1>10. VisitsGo(k) BY <1>1, <1>2, <1>6, <1>8, <1>9, EndedVisits
<1>11. ~down => old.closing = "no" BY <1>1, <1>2 DEF UpFits
<1> QED BY <1>1, <1>6, <1>8, <1>10, <1>11, RuntimeGoes

LEMMA TraceFits ==
  ASSUME RegistryInv, NEW k \in DOMAIN runtimes, NEW x \in Requests \cup {R!Plan}, R!Trace(k, x)
  PROVE  RegistryInv'
<1> DEFINE rt == runtimes[k]
<1>1. R!Reading(k, x) /\ rt.traces = {} /\ UNCHANGED <<entry, sweeps, down>> BY DEF R!Trace
<1>2. /\ rt \in Runtime /\ Sound(rt) /\ (~down => UpFits(k)) /\ (x = R!Plan => rt.ingest = "running")
      /\ (x # R!Plan => visits[x].at = "reading" /\ visits[x].rt = k /\ x \in Visitors)
  BY <1>1, RegistryTyped DEF RegistryInv, RuntimeFits, R!Reading, Visitors
<1>3. ~down => rt.closing = "no"
  <2>1. ~down /\ x # R!Plan => rt.closing = "no" BY <1>2 DEF UpFits
  <2>2. ~down /\ x = R!Plan => rt.closing = "no" BY <1>2 DEF UpFits
  <2> QED BY <2>1, <2>2
<1>4. CASE R!Rejects(rt)
  <2> DEFINE one == R!Staged(rt, "error")
             new == R!Ends(one, x)
  <2>1. /\ one \in Runtime /\ one.at = rt.at /\ one.traces = {} /\ one.owed = rt.owed
        /\ one.journals = rt.journals /\ one.waits = rt.waits /\ one.closing = rt.closing /\ one.ingest = rt.ingest
    BY <1>1, <1>2, StagedFits
  <2>2. /\ runtimes' = [runtimes EXCEPT ![k] = new] /\ active' = R!Released(x) /\ visits' = R!Replied(x)
    BY <1>4 DEF R!Trace
  <2> HIDE DEF one
  <2>3. Sound(one) BY <1>1, <1>2, <2>1 DEF Sound
  <2>4. /\ new \in Runtime /\ Sound(new) /\ new.at = rt.at /\ new.traces = {} /\ new.owed = rt.owed
        /\ new.closing = rt.closing
    BY <1>2, <2>1, <2>3, EndsFits
  <2> HIDE DEF new
  <2>5. runtimes'[k] = new /\ runtimes' = [runtimes EXCEPT ![k] = runtimes'[k]] BY <2>2
  <2>6. VisitsGo(k) BY <1>2, <2>2, <2>4, <2>5, EndedVisits
  <2> QED BY <1>1, <1>3, <2>4, <2>5, <2>6, RuntimeGoes
<1>5. CASE ~R!Rejects(rt)
  <2> DEFINE one == R!Staged(rt, "working")
             new == [one EXCEPT !.traces = {x}, !.journals = rt.journals \cup {x},
                                !.ingest = IF x = R!Plan THEN "tracing" ELSE rt.ingest]
  <2>1. /\ one \in Runtime /\ one.at = rt.at /\ one.owed = rt.owed /\ one.waits = rt.waits /\ one.closing = rt.closing
    BY <1>1, <1>2, StagedFits
  <2>2. /\ runtimes' = [runtimes EXCEPT ![k] = new] /\ UNCHANGED active
        /\ visits' = IF x = R!Plan THEN visits ELSE [visits EXCEPT ![x].at = "tracing"]
    BY <1>5 DEF R!Trace
  <2> HIDE DEF one
  <2>3. rt.closing = "no" BY <1>5 DEF R!Rejects
  <2>4. /\ new \in Runtime /\ new.at = rt.at /\ new.traces = {x} /\ new.owed = rt.owed /\ new.closing = "no"
        /\ new.ingest = IF x = R!Plan THEN "tracing" ELSE rt.ingest
    BY <1>2, <2>1, <2>3 DEF Runtime
  <2> HIDE DEF new
  <2>5. Sound(new) BY <2>4 DEF Sound
  <2>6. runtimes'[k] = new /\ runtimes' = [runtimes EXCEPT ![k] = runtimes'[k]] BY <2>2
  <2>7. VisitsGo(k) BY <1>2, <2>2 DEF VisitsGo
  <2>8. \A r \in Requests : r \in new.traces => visits'[r].at = "tracing" /\ visits'[r].rt = k
    <3>1. CASE x = R!Plan BY <2>4, <3>1, RegistryNames
    <3>2. CASE x # R!Plan
      <4>1. x \in Visitors /\ visits[x].at \in {"loading", "reading", "tracing"} /\ visits' = [visits EXCEPT ![x].at = "tracing"]
        BY <1>2, <2>2, <3>2
      <4>2. visits'[x].at = "tracing" /\ visits'[x].rt = k BY <1>2, <3>2, <4>1, GoesOnFits
      <4> QED BY <2>4, <4>2
    <3> QED BY <3>1, <3>2
  <2> QED BY <1>1, <2>3, <2>4, <2>5, <2>6, <2>7, <2>8, RuntimeGoes
<1> QED BY <1>4, <1>5

LEMMA WithIngestFits ==
  ASSUME NEW rt \in Runtime, Sound(rt)
  PROVE  LET new == R!WithIngest(rt) IN
         /\ new \in Runtime /\ Sound(new) /\ new.at = rt.at /\ new.traces = rt.traces /\ new.owed = rt.owed
         /\ new.closing = rt.closing /\ (rt.closing # "no" => new.ingest = rt.ingest)
<1>1. CASE rt.closing # "no" \/ rt.ingest # "no" BY <1>1 DEF R!WithIngest
<1>2. CASE rt.closing = "no" /\ rt.ingest = "no"
  <2> DEFINE one == R!Staged(rt, "working")
             new == [one EXCEPT !.ingest = "running", !.journals = rt.journals \cup {R!Ingest}]
  <2>1. /\ one \in Runtime /\ one.at = rt.at /\ one.traces = rt.traces /\ one.owed = rt.owed /\ one.waits = rt.waits
        /\ one.closing = rt.closing
    BY StagedFits
  <2>2. R!WithIngest(rt) = new BY <1>2 DEF R!WithIngest
  <2> HIDE DEF one
  <2>3. /\ new \in Runtime /\ new.at = rt.at /\ new.traces = rt.traces /\ new.owed = rt.owed /\ new.closing = rt.closing
        /\ new.ingest = "running"
    BY <2>1 DEF Runtime
  <2> HIDE DEF new
  <2>4. Sound(new) BY <1>2, <2>3 DEF Sound
  <2> QED BY <1>2, <2>2, <2>3, <2>4
<1> QED BY <1>1, <1>2

LEMMA HandleFits == ASSUME RegistryInv, NEW r \in Requests, R!Handle(r) PROVE RegistryInv'
<1> DEFINE k == visits[r].rt
           rt == runtimes[k]
<1>1. visits[r].at = "loading" /\ rt.at = "open" /\ UNCHANGED <<entry, sweeps, down>> BY DEF R!Handle
<1>2. k \in DOMAIN runtimes /\ r \in Visitors
  BY <1>1, RegistryTyped DEF RegistryInv, VisitFits, Visitors
<1>3. rt \in Runtime /\ Sound(rt) /\ (~down => UpFits(k)) /\ r \notin rt.traces
  BY <1>1, <1>2, RegistryTyped DEF RegistryInv, RuntimeFits
<1>4. ~down => rt.closing = "no" BY <1>3 DEF UpFits
<1>5. ASSUME NEW delivery \in BOOLEAN,
             runtimes' = [runtimes EXCEPT ![k] = IF delivery THEN rt ELSE R!WithIngest(rt)],
             \/ visits' = [visits EXCEPT ![r].at = "reading"] /\ UNCHANGED active
             \/ visits' = R!Replied(r) /\ active' = R!Released(r)
      PROVE  RegistryInv'
  <2> DEFINE new == IF delivery THEN rt ELSE R!WithIngest(rt)
  <2>1. /\ new \in Runtime /\ Sound(new) /\ new.at = rt.at /\ new.traces = rt.traces /\ new.owed = rt.owed
        /\ new.closing = rt.closing
    BY <1>3, WithIngestFits
  <2>2. runtimes' = [runtimes EXCEPT ![k] = new] BY <1>5
  <2> HIDE DEF new
  <2>3. runtimes'[k] = new /\ runtimes' = [runtimes EXCEPT ![k] = runtimes'[k]] BY <1>2, <2>2
  <2>4. VisitsGo(k)
    <3>1. CASE visits' = [visits EXCEPT ![r].at = "reading"] /\ UNCHANGED active BY <1>1, <1>2, <3>1 DEF VisitsGo
    <3>2. CASE visits' = R!Replied(r) /\ active' = R!Released(r) BY <1>2, <1>3, <2>1, <2>3, <3>2 DEF VisitsGo
    <3> QED BY <1>5, <3>1, <3>2
  <2> HIDE DEF k, rt
  <2> QED BY <1>1, <1>2, <1>4, <2>1, <2>3, <2>4, RuntimeGoes DEF rt
<1>6. ASSUME runtimes' = [runtimes EXCEPT ![k].stage = "cancelled"], visits' = R!Replied(r), active' = R!Released(r)
      PROVE  RegistryInv'
  <2> DEFINE new == [rt EXCEPT !.stage = "cancelled"]
  <2>1. /\ new \in Runtime /\ new.at = rt.at /\ new.traces = rt.traces /\ new.owed = rt.owed
        /\ new.closing = rt.closing /\ new.ingest = rt.ingest /\ new.journals = rt.journals /\ new.waits = rt.waits
    BY <1>3 DEF Runtime
  <2>2. runtimes' = [runtimes EXCEPT ![k] = new] BY <1>2, <1>6
  <2> HIDE DEF new
  <2>3. Sound(new) BY <1>3, <2>1 DEF Sound
  <2>4. runtimes'[k] = new /\ runtimes' = [runtimes EXCEPT ![k] = runtimes'[k]] BY <1>2, <2>2
  <2>5. VisitsGo(k) BY <1>2, <1>3, <1>6, <2>1, <2>4 DEF VisitsGo
  <2> HIDE DEF k, rt
  <2> QED BY <1>1, <1>2, <1>4, <2>1, <2>3, <2>4, <2>5, RuntimeGoes DEF rt
<1> QED BY <1>5, <1>6 DEF R!Handle

LEMMA LoadsFits == ASSUME RegistryInv, NEW k \in DOMAIN runtimes, R!Loads(k) PROVE RegistryInv'
<1> DEFINE rt == runtimes[k]
<1>1. PICK at \in {"open", "none", "failed"} :
        /\ runtimes' = [runtimes EXCEPT ![k].at = at] /\ entry' = IF at = "failed" THEN Nobody ELSE entry
        /\ rt.at = "loading" /\ UNCHANGED <<active, visits, sweeps, down>>
  BY DEF R!Loads
<1>2. /\ rt \in Runtime /\ RuntimeFits(k) /\ (~down => UpFits(k)) /\ runtimes \in Seq(Runtime)
  BY RegistryTyped DEF RegistryInv, RegistryTypes
<1>3. rt.closing = "no" /\ Sound(rt) /\ (~down => entry = k) BY <1>1, <1>2 DEF RuntimeFits, Sound, UpFits
<1> DEFINE new == [rt EXCEPT !.at = at]
<1>4. /\ new \in Runtime /\ new.at = at /\ new.traces = rt.traces /\ new.owed = rt.owed
      /\ new.closing = "no" /\ new.ingest = rt.ingest /\ new.journals = rt.journals /\ new.waits = rt.waits
  BY <1>2, <1>3 DEF Runtime
<1>5. runtimes' = [runtimes EXCEPT ![k] = new] BY <1>1
<1> HIDE DEF new
<1>6. /\ runtimes' \in Seq(Runtime) /\ DOMAIN runtimes' = DOMAIN runtimes /\ runtimes'[k] = new
      /\ \A j \in DOMAIN runtimes \ {k} : runtimes'[j] = runtimes[j]
  BY <1>2, <1>4, <1>5
<1>7. Sound(new) BY <1>3, <1>4 DEF Sound
<1>8. RegistryTypes' BY <1>1, <1>6 DEF RegistryInv, RegistryTypes
<1>9. \A r \in Requests : VisitFits(r)' BY <1>1, <1>6 DEF RegistryInv, VisitFits
<1>10. \A j \in DOMAIN runtimes' : RuntimeFits(j)'
  BY <1>1, <1>2, <1>4, <1>6, <1>7 DEF RegistryInv, RuntimeFits
<1>11. ASSUME ~down', NEW j \in DOMAIN runtimes' PROVE UpFits(j)'
  <2>1. UpFits(j) /\ entry = k /\ k # Nobody BY <1>1, <1>3, <1>6, <1>11, RegistryTyped DEF RegistryInv
  <2>2. CASE j = k BY <1>1, <1>4, <1>6, <2>1, <2>2 DEF UpFits
  <2>3. CASE j # k BY <1>1, <1>6, <2>1, <2>3 DEF UpFits
  <2> QED BY <2>2, <2>3
<1>12. Visitors' = Visitors /\ (~down => active = Cardinality(Visitors)) BY <1>1 DEF Visitors, RegistryInv
<1>13. CreatorsFit'
  <2>1. ASSUME ~down', NEW r \in Visitors, visits[r].creates, runtimes'[visits[r].rt].at = "none" PROVE entry' = visits[r].rt
    <3>1. ~down /\ entry = k /\ visits[r].rt \in DOMAIN runtimes /\ k # Nobody BY <1>1, <1>3, <2>1, RegistryTyped
    <3>2. CASE visits[r].rt = k BY <1>1, <1>4, <1>6, <2>1, <3>1, <3>2
    <3>3. CASE visits[r].rt # k
      <4>1. entry = visits[r].rt BY <1>6, <2>1, <3>1, <3>3 DEF RegistryInv, CreatorsFit
      <4> QED BY <3>1, <3>3, <4>1
    <3> QED BY <3>2, <3>3
  <2>2. \A r, q \in Visitors : visits[r].creates /\ visits[q].creates /\ visits[r].rt = visits[q].rt => r = q
    BY DEF RegistryInv, CreatorsFit
  <2> QED BY <1>1, <1>12, <2>1, <2>2 DEF CreatorsFit
<1>14. ~down' /\ entry' # Nobody => runtimes'[entry'].closing = "no" /\ runtimes'[entry'].at # "failed"
  BY <1>1, <1>3, <1>4, <1>6
<1> QED BY <1>1, <1>8, <1>9, <1>10, <1>11, <1>12, <1>13, <1>14 DEF RegistryInv

\* What the registry's other steps change is the entry, the requests and the sweeps.
LEMMA RuntimesStay ==
  ASSUME RegistryInv, UNCHANGED <<runtimes, visits, down>>, RegistryTypes', UNCHANGED <<active, entry>>
  PROVE  RegistryInv'
<1>1. Visitors' = Visitors BY DEF Visitors
<1>2. CreatorsFit' BY <1>1 DEF RegistryInv, CreatorsFit
<1>3. \A r \in Requests : VisitFits(r)' BY DEF RegistryInv, VisitFits
<1>4. \A k \in DOMAIN runtimes' : RuntimeFits(k)' /\ (~down' => UpFits(k)') BY DEF RegistryInv, RuntimeFits, UpFits
<1> QED BY <1>1, <1>2, <1>3, <1>4 DEF RegistryInv

LEMMA SweptFits ==
  ASSUME RegistryInv, NEW c \in Requests \cup {Sweeper}, NEW at \in {"none", "listed", "awaiting", "closing", "done"},
         NEW rt \in Nat \cup {Nobody}, at \in {"awaiting", "closing"} => rt \in DOMAIN runtimes,
         sweeps' = [sweeps EXCEPT ![c] = [at |-> at, rt |-> rt]]
  PROVE  /\ sweeps' \in [Requests \cup {Sweeper} -> SweepAt]
         /\ \A d \in Requests \cup {Sweeper} : sweeps'[d].at \in {"awaiting", "closing"} => sweeps'[d].rt \in DOMAIN runtimes
<1>1. [at |-> at, rt |-> rt] \in SweepAt BY DEF SweepAt
<1> DEFINE new == [at |-> at, rt |-> rt]
<1>2. new.at = at /\ new.rt = rt /\ new \in SweepAt BY <1>1
<1> HIDE DEF new
<1>3. sweeps' = [sweeps EXCEPT ![c] = new] BY DEF new
<1> QED BY <1>2, <1>3 DEF RegistryInv, RegistryTypes

LEMMA StartSweepFits == ASSUME RegistryInv, NEW c \in Requests \cup {Sweeper}, R!StartSweep(c) PROVE RegistryInv'
<1>1. UNCHANGED <<entry, active, runtimes, visits, down>>
      /\ (sweeps' = [sweeps EXCEPT ![c].at = "listed"] \/ R!SweptBy(c))
  BY DEF R!StartSweep
<1>2. sweeps[c] \in SweepAt /\ sweeps \in [Requests \cup {Sweeper} -> SweepAt] BY RegistryTyped DEF RegistryInv, RegistryTypes
<1>3. sweeps[c].rt \in Nat \cup {Nobody} /\ [sweeps[c] EXCEPT !.at = "listed"] = [at |-> "listed", rt |-> sweeps[c].rt]
  BY <1>2 DEF SweepAt
<1>4. \/ sweeps' = [sweeps EXCEPT ![c] = [at |-> "listed", rt |-> sweeps[c].rt]]
      \/ sweeps' = [sweeps EXCEPT ![c] = [at |-> "done", rt |-> Nobody]]
  <2>1. [sweeps EXCEPT ![c].at = "listed"] = [sweeps EXCEPT ![c] = [sweeps[c] EXCEPT !.at = "listed"]] BY <1>2
  <2> QED BY <1>1, <1>3, <2>1 DEF R!SweptBy
<1>5. RegistryTypes' BY <1>1, <1>3, <1>4, SweptFits DEF RegistryInv, RegistryTypes
<1> QED BY <1>1, <1>5, RuntimesStay

LEMMA LooksFits == ASSUME RegistryInv, NEW c \in Requests \cup {Sweeper}, R!Looks(c) PROVE RegistryInv'
<1>1. UNCHANGED <<entry, active, runtimes, visits, down>>
      /\ IF entry = Nobody THEN sweeps' = [sweeps EXCEPT ![c] = [at |-> "done", rt |-> Nobody]]
         ELSE sweeps' = [sweeps EXCEPT ![c] = [at |-> "awaiting", rt |-> entry]]
  BY DEF R!Looks, R!SweptBy
<1>2. entry # Nobody => entry \in DOMAIN runtimes /\ entry \in Nat BY RegistryTyped DEF RegistryInv, RegistryTypes
<1>3. RegistryTypes' BY <1>1, <1>2, SweptFits DEF RegistryInv, RegistryTypes
<1> QED BY <1>1, <1>3, RuntimesStay

LEMMA ClosedFits == ASSUME RegistryInv, NEW c \in Requests \cup {Sweeper}, R!Closed(c) PROVE RegistryInv'
<1>1. UNCHANGED <<entry, active, runtimes, visits, down>> /\ sweeps' = [sweeps EXCEPT ![c] = [at |-> "done", rt |-> Nobody]]
  BY DEF R!Closed, R!SweptBy
<1>2. RegistryTypes' BY <1>1, SweptFits DEF RegistryInv, RegistryTypes
<1> QED BY <1>1, <1>2, RuntimesStay

\* The sweep closes a runtime nobody is in and nothing is under way in.
LEMMA ClosesRuntimeFits ==
  ASSUME RegistryInv, NEW c \in Requests \cup {Sweeper}, R!Closes(c) PROVE RegistryInv'
<1> DEFINE k == sweeps[c].rt
           rt == runtimes[k]
<1>1. sweeps[c].at = "awaiting" /\ UNCHANGED <<active, visits, down>> /\ k \in DOMAIN runtimes
  BY DEF R!Closes, RegistryInv, RegistryTypes
<1>2. /\ rt \in Runtime /\ RuntimeFits(k) /\ (~down => UpFits(k)) /\ runtimes \in Seq(Runtime) /\ k \in Nat
      /\ sweeps[c] \in SweepAt /\ sweeps \in [Requests \cup {Sweeper} -> SweepAt] /\ Sound(rt)
  BY <1>1, RegistryTyped DEF RegistryInv, RegistryTypes, RuntimeFits
<1>3. CASE R!Expired(k)
  <2> DEFINE new == R!Closing(rt)
  <2>1. entry = k /\ active = 0 /\ rt.at = "open" /\ ~R!Busy(rt) /\ entry' = Nobody
        /\ runtimes' = [runtimes EXCEPT ![k] = new] /\ sweeps' = [sweeps EXCEPT ![c].at = "closing"]
    BY <1>3 DEF R!Closes, R!Expired
  <2>2. /\ new \in Runtime /\ Sound(new) /\ new.at = rt.at /\ new.traces = rt.traces /\ new.owed = rt.owed
        /\ new.ingest = rt.ingest /\ new.closing # "no"
    BY <1>2, <2>1, ClosingFits
  <2> HIDE DEF new
  <2>3. /\ runtimes' \in Seq(Runtime) /\ DOMAIN runtimes' = DOMAIN runtimes /\ runtimes'[k] = new
        /\ \A j \in DOMAIN runtimes \ {k} : runtimes'[j] = runtimes[j]
    BY <1>1, <1>2, <2>1, <2>2
  <2>4. ~down => Visitors = {} BY <2>1, VisitorsCounted DEF RegistryInv
  <2>5. rt.ingest \in {"no", "done"} BY <1>2, <2>1 DEF R!Busy, Runtime
  <2>6. ~down => rt.traces = {}
    <3>1. ~down => \A r \in Requests : r \notin rt.traces
      BY <1>1, <1>2, <2>4, RegistryTyped DEF RuntimeFits, Visitors
    <3>2. R!Plan \notin rt.traces BY <1>2, <2>5 DEF Sound
    <3> QED BY <1>2, <3>1, <3>2 DEF Runtime
  <2>7. [sweeps EXCEPT ![c].at = "closing"] = [sweeps EXCEPT ![c] = [at |-> "closing", rt |-> k]]
    <3>1. [sweeps EXCEPT ![c].at = "closing"] = [sweeps EXCEPT ![c] = [sweeps[c] EXCEPT !.at = "closing"]] BY <1>2
    <3>2. [sweeps[c] EXCEPT !.at = "closing"] = [at |-> "closing", rt |-> k] BY <1>2 DEF SweepAt
    <3> QED BY <3>1, <3>2
  <2>8. RegistryTypes' BY <1>1, <1>2, <2>1, <2>3, <2>7, SweptFits DEF RegistryInv, RegistryTypes
  <2>9. \A r \in Requests : VisitFits(r)' BY <1>1, <2>3 DEF RegistryInv, VisitFits
  <2>10. \A j \in DOMAIN runtimes' : RuntimeFits(j)' BY <1>1, <1>2, <2>2, <2>3 DEF RegistryInv, RuntimeFits
  <2>11. ASSUME ~down', NEW j \in DOMAIN runtimes' PROVE UpFits(j)'
    <3>1. UpFits(j) /\ Visitors = {} /\ ~down BY <1>1, <2>3, <2>4, <2>11 DEF RegistryInv
    <3>2. \A r \in Requests : visits'[r].rt # j BY <1>1, <2>3, <2>11, <3>1, RegistryTyped DEF Visitors
    <3>3. CASE j = k BY <2>2, <2>3, <2>5, <2>6, <3>1, <3>2, <3>3 DEF UpFits
    <3>4. CASE j # k BY <2>1, <2>3, <3>1, <3>2, <3>4 DEF UpFits
    <3> QED BY <3>3, <3>4
  <2>12. Visitors' = Visitors BY <1>1 DEF Visitors
  <2>13. CreatorsFit' BY <1>1, <2>4, <2>12 DEF RegistryInv, CreatorsFit
  <2> QED BY <1>1, <2>1, <2>8, <2>9, <2>10, <2>11, <2>12, <2>13 DEF RegistryInv
<1>4. CASE ~R!Expired(k)
  <2>1. sweeps' = [sweeps EXCEPT ![c] = [at |-> "done", rt |-> Nobody]] /\ UNCHANGED <<entry, runtimes>>
    BY <1>4 DEF R!Closes, R!SweptBy
  <2>2. RegistryTypes' BY <1>1, <2>1, SweptFits DEF RegistryInv, RegistryTypes
  <2> QED BY <1>1, <2>1, <2>2, RuntimesStay
<1> QED BY <1>3, <1>4

LEMMA RedirectFits == ASSUME RegistryInv, NEW r \in Requests, R!Redirect(r) PROVE RegistryInv'
<1>1. visits[r].at = "new" /\ visits' = [visits EXCEPT ![r].at = "done"] /\ UNCHANGED <<entry, active, runtimes, sweeps, down>>
  BY DEF R!Redirect
<1>2. visits \in [Requests -> Visit] /\ visits[r] \in Visit /\ visits[r].rt = Nobody
  BY <1>1, RegistryTyped DEF RegistryInv, RegistryTypes, VisitFits
<1> DEFINE new == [visits[r] EXCEPT !.at = "done"]
<1>3. new \in Visit /\ new.at = "done" /\ new.rt = Nobody BY <1>2 DEF Visit
<1>4. visits' = [visits EXCEPT ![r] = new] BY <1>1, <1>2
<1> HIDE DEF new
<1>5. visits' \in [Requests -> Visit] /\ visits'[r] = new /\ \A q \in Requests \ {r} : visits'[q] = visits[q]
  BY <1>2, <1>3, <1>4
<1>6. Visitors' = Visitors BY <1>2, <1>3, <1>5 DEF Visitors
<1>7. RegistryTypes' BY <1>1, <1>5 DEF RegistryInv, RegistryTypes
<1>8. \A q \in Visitors : q # r /\ visits'[q] = visits[q] BY <1>2, <1>5 DEF Visitors
<1>9. CreatorsFit' BY <1>1, <1>6, <1>8 DEF RegistryInv, CreatorsFit
<1>10. \A q \in Requests : VisitFits(q)' BY <1>1, <1>3, <1>5 DEF RegistryInv, VisitFits
<1>11. \A k \in DOMAIN runtimes' : RuntimeFits(k)' BY <1>1, <1>5 DEF RegistryInv, RuntimeFits
<1>12. ~down' => \A k \in DOMAIN runtimes' : UpFits(k)'
  <2>1. \A k \in DOMAIN runtimes : k # Nobody BY RegistryTyped
  <2> QED BY <1>1, <1>3, <1>5, <2>1 DEF RegistryInv, UpFits
<1> QED BY <1>1, <1>6, <1>7, <1>9, <1>10, <1>11, <1>12 DEF RegistryInv

LEMMA EnterFits == ASSUME RegistryInv, NEW r \in Requests, R!Enter(r) PROVE RegistryInv'
<1> DEFINE new == [at |-> "loading", rt |-> entry', creates |-> entry = Nobody]
<1>1. /\ visits[r].at = "new" /\ active' = active + 1 /\ UNCHANGED <<sweeps, down>> /\ visits' = [visits EXCEPT ![r] = new]
      /\ IF entry # Nobody THEN UNCHANGED <<entry, runtimes>>
         ELSE runtimes' = Append(runtimes, R!New) /\ entry' = Len(runtimes')
  BY DEF R!Enter
<1>2. /\ visits \in [Requests -> Visit] /\ runtimes \in Seq(Runtime) /\ active \in Nat /\ r \notin Visitors
      /\ entry \in DOMAIN runtimes \cup {Nobody} /\ Visitors \subseteq Requests
  BY <1>1 DEF RegistryInv, RegistryTypes, VisitFits, Visitors
<1>3. R!New \in Runtime /\ Sound(R!New) /\ R!New.at = "loading" /\ R!New.closing = "no" /\ R!New.traces = {} /\ R!New.owed = FALSE
  BY DEF R!New, Runtime, Sound
<1>4. /\ runtimes' \in Seq(Runtime) /\ DOMAIN runtimes \subseteq DOMAIN runtimes' /\ entry' \in DOMAIN runtimes'
      /\ \A k \in DOMAIN runtimes : runtimes'[k] = runtimes[k]
      /\ entry # Nobody => entry' = entry /\ DOMAIN runtimes' = DOMAIN runtimes
      /\ entry = Nobody => runtimes'[entry'] = R!New /\ entry' \notin DOMAIN runtimes /\ DOMAIN runtimes' = DOMAIN runtimes \cup {entry'}
  <2> HIDE DEF new
  <2>1. CASE entry # Nobody BY <1>1, <1>2, <2>1
  <2>2. CASE entry = Nobody
    <3>1. runtimes' = Append(runtimes, R!New) BY <1>1, <2>2
    <3>2. runtimes' \in Seq(Runtime) /\ Len(runtimes') = Len(runtimes) + 1 /\ (\A k \in 1..Len(runtimes) : runtimes'[k] = runtimes[k])
          /\ runtimes'[Len(runtimes) + 1] = R!New
      BY <1>2, <1>3, <3>1
    <3>3. entry' = Len(runtimes) + 1 BY <1>1, <2>2, <3>2
    <3>4. DOMAIN runtimes' = 1..(Len(runtimes) + 1) /\ DOMAIN runtimes = 1..Len(runtimes) /\ Len(runtimes) \in Nat
      BY <1>2, <3>2
    <3> QED BY <2>2, <3>2, <3>3, <3>4
  <2> QED BY <2>1, <2>2
<1>5. entry' \in Nat /\ entry' # Nobody BY <1>4, RegistryNames
<1>6. new \in Visit /\ new.at = "loading" /\ new.rt = entry' /\ new.creates = (entry = Nobody) BY <1>5 DEF Visit
<1> HIDE DEF new
<1>7. visits' \in [Requests -> Visit] /\ visits'[r] = new /\ \A q \in Requests \ {r} : visits'[q] = visits[q]
  BY <1>1, <1>2, <1>6
<1>8. Visitors' = Visitors \cup {r} BY <1>5, <1>6, <1>7 DEF Visitors
<1>9. active' \in Nat /\ (~down' => active' = Cardinality(Visitors'))
  <2>1. ~down => active = Cardinality(Visitors) BY DEF RegistryInv
  <2>2. Cardinality(Visitors \cup {r}) = Cardinality(Visitors) + 1 BY <1>2, VisitorsCounted, FS_AddElement
  <2> QED BY <1>1, <1>2, <1>8, <2>1, <2>2
<1>10. RegistryTypes' BY <1>1, <1>4, <1>7, <1>9 DEF RegistryInv, RegistryTypes
<1>11. \A q \in Requests : VisitFits(q)'
  BY <1>4, <1>6, <1>7 DEF RegistryInv, VisitFits
<1>12. ASSUME NEW k \in DOMAIN runtimes' PROVE RuntimeFits(k)'
  <2>1. CASE k \in DOMAIN runtimes
    <3>1. \A q \in Requests : q \in runtimes[k].traces => q # r BY <1>1, <2>1 DEF RegistryInv, RuntimeFits
    <3> QED BY <1>1, <1>4, <1>7, <2>1, <3>1 DEF RegistryInv, RuntimeFits
  <2>2. CASE k \notin DOMAIN runtimes
    <3>1. runtimes'[k] = R!New BY <1>4, <2>2
    <3> QED BY <1>3, <3>1 DEF RuntimeFits
  <2> QED BY <2>1, <2>2
<1>13. ASSUME ~down', NEW k \in DOMAIN runtimes' PROVE UpFits(k)'
  <2>1. CASE k \in DOMAIN runtimes
    <3>1. UpFits(k) /\ k # Nobody /\ (entry # Nobody => runtimes[entry].closing = "no")
      BY <1>1, <1>13, <2>1, RegistryTyped DEF RegistryInv
    <3>2. runtimes[k].closing # "no" => \A q \in Requests : visits'[q].rt # k
      BY <1>4, <1>6, <1>7, <2>1, <3>1 DEF UpFits
    <3> QED BY <1>4, <2>1, <3>1, <3>2 DEF UpFits
  <2>2. CASE k \notin DOMAIN runtimes
    <3>1. runtimes'[k] = R!New /\ k = entry' BY <1>4, <2>2
    <3> QED BY <1>3, <3>1 DEF UpFits
  <2> QED BY <2>1, <2>2
<1>14. CreatorsFit'
  <2>1. \A q \in Visitors : q # r /\ visits'[q] = visits[q] /\ visits[q].rt \in DOMAIN runtimes
    BY <1>2, <1>7, RegistryTyped
  <2>2. \A q, p \in Visitors : visits[q].creates /\ visits[p].creates /\ visits[q].rt = visits[p].rt => q = p
    BY DEF RegistryInv, CreatorsFit
  <2>3. \A q \in Visitors : new.creates => visits[q].rt # new.rt BY <1>4, <1>6, <2>1
  <2>4. \A q, p \in Visitors' : visits'[q].creates /\ visits'[p].creates /\ visits'[q].rt = visits'[p].rt => q = p
    BY <1>7, <1>8, <2>1, <2>2, <2>3
  <2>5. ASSUME ~down', NEW q \in Visitors', visits'[q].creates, runtimes'[visits'[q].rt].at = "none" PROVE entry' = visits'[q].rt
    <3>1. CASE q = r BY <1>6, <1>7, <3>1
    <3>2. CASE q \in Visitors
      <4>1. ~down /\ visits[q].creates /\ runtimes[visits[q].rt].at = "none" BY <1>1, <1>4, <2>1, <2>5, <3>2
      <4>2. entry = visits[q].rt BY <3>2, <4>1 DEF RegistryInv, CreatorsFit
      <4>3. entry # Nobody BY <2>1, <3>2, <4>2, RegistryTyped
      <4> QED BY <1>4, <2>1, <3>2, <4>2, <4>3
    <3> QED BY <1>8, <3>1, <3>2
  <2> QED BY <2>4, <2>5 DEF CreatorsFit
<1>15. ~down' /\ entry' # Nobody => runtimes'[entry'].closing = "no" /\ runtimes'[entry'].at # "failed"
  BY <1>1, <1>2, <1>3, <1>4 DEF RegistryInv
<1> QED BY <1>1, <1>9, <1>10, <1>11, <1>12, <1>13, <1>14, <1>15 DEF RegistryInv

LEMMA NotThereFits == ASSUME RegistryInv, NEW r \in Requests, R!NotThere(r) PROVE RegistryInv'
<1> DEFINE k == visits[r].rt
<1>1. /\ visits[r].at = "loading" /\ runtimes[k].at \in {"none", "failed"} /\ UNCHANGED <<runtimes, sweeps, down>>
      /\ entry' = IF runtimes[k].at = "none" /\ visits[r].creates THEN Nobody ELSE entry
      /\ active' = R!Released(r) /\ visits' = R!Replied(r)
  BY DEF R!NotThere
<1>2. r \in Visitors /\ k \in DOMAIN runtimes BY <1>1, RegistryTyped DEF RegistryInv, VisitFits, Visitors
<1>3. /\ visits' \in [Requests -> Visit] /\ visits'[r].at = "done" /\ visits'[r].rt = Nobody /\ Visitors' = Visitors \ {r}
      /\ \A q \in Requests \ {r} : visits'[q] = visits[q]
      /\ active' \in Nat /\ (~down => active' = Cardinality(Visitors'))
  BY <1>1, <1>2, RepliedFits
<1>4. Visitors \subseteq Requests /\ \A j \in DOMAIN runtimes : j # Nobody BY RegistryTyped DEF Visitors
<1>5. RegistryTypes' BY <1>1, <1>3 DEF RegistryInv, RegistryTypes
<1>6. \A q \in Requests : VisitFits(q)' BY <1>1, <1>3 DEF RegistryInv, VisitFits
<1>7. \A j \in DOMAIN runtimes' : RuntimeFits(j)'
  <2>1. \A j \in DOMAIN runtimes : r \notin runtimes[j].traces BY <1>1, <1>2, <1>4 DEF RegistryInv, RuntimeFits
  <2> QED BY <1>1, <1>3, <2>1 DEF RegistryInv, RuntimeFits
<1>8. ASSUME ~down', NEW j \in DOMAIN runtimes' PROVE UpFits(j)'
  <2>1. UpFits(j) /\ ~down /\ j \in DOMAIN runtimes BY <1>1, <1>8 DEF RegistryInv
  <2>2. runtimes[j].closing # "no" => \A q \in Requests : visits'[q].rt # j
    BY <1>3, <1>4, <2>1 DEF UpFits
  <2>3. runtimes[j].closing = "no" /\ runtimes[j].at \in {"loading", "open"} => entry' = j
    <3>1. runtimes[k].at = "none" /\ visits[r].creates => entry = k
      BY <1>2, <2>1 DEF RegistryInv, CreatorsFit
    <3> QED BY <1>1, <2>1, <3>1 DEF UpFits
  <2> QED BY <1>1, <2>1, <2>2, <2>3 DEF UpFits
<1>9. CreatorsFit'
  <2>1. \A q \in Visitors' : q \in Visitors /\ q # r /\ visits'[q] = visits[q] BY <1>3, <1>4
  <2>2. \A q, p \in Visitors : visits[q].creates /\ visits[p].creates /\ visits[q].rt = visits[p].rt => q = p
    BY DEF RegistryInv, CreatorsFit
  <2>3. ASSUME ~down', NEW q \in Visitors', visits'[q].creates, runtimes'[visits'[q].rt].at = "none" PROVE entry' = visits'[q].rt
    <3>1. q \in Visitors /\ q # r /\ visits'[q] = visits[q] BY <2>1, <2>3
    <3>2. ~down /\ visits[q].creates /\ runtimes[visits[q].rt].at = "none" BY <1>1, <2>3, <3>1
    <3>3. entry = visits[q].rt BY <3>1, <3>2 DEF RegistryInv, CreatorsFit
    <3>4. runtimes[k].at = "none" /\ visits[r].creates => entry = k
      BY <1>2, <3>2 DEF RegistryInv, CreatorsFit
    <3>5. ~(runtimes[k].at = "none" /\ visits[r].creates)
      <4>1. ASSUME runtimes[k].at = "none", visits[r].creates PROVE FALSE
        <5>1. visits[q].rt = visits[r].rt BY <3>3, <3>4, <4>1
        <5> QED BY <1>2, <2>2, <3>1, <3>2, <4>1, <5>1
      <4> QED BY <4>1
    <3> QED BY <1>1, <3>1, <3>3, <3>5
  <2> QED BY <2>1, <2>2, <2>3 DEF CreatorsFit
<1>10. ~down' /\ entry' # Nobody => runtimes'[entry'].closing = "no" /\ runtimes'[entry'].at # "failed"
  BY <1>1 DEF RegistryInv
<1> QED BY <1>1, <1>3, <1>5, <1>6, <1>7, <1>8, <1>9, <1>10 DEF RegistryInv

\* The registry closes: whoever is still in a runtime is counted no more.
LEMMA RegistryClosesFits == ASSUME RegistryInv, R!Close PROVE RegistryInv'
<1>1. down' /\ down' = TRUE /\ entry' = Nobody /\ active' = 0 /\ UNCHANGED <<visits, sweeps>>
      /\ runtimes' = IF entry = Nobody THEN runtimes ELSE [runtimes EXCEPT ![entry].owed = TRUE]
  BY DEF R!Close
<1>2. /\ runtimes' \in Seq(Runtime) /\ DOMAIN runtimes' = DOMAIN runtimes
      /\ \A k \in DOMAIN runtimes : runtimes'[k].traces = runtimes[k].traces /\ (Sound(runtimes[k]) => Sound(runtimes'[k]))
  <2>1. CASE entry = Nobody BY <1>1, <2>1 DEF RegistryInv, RegistryTypes
  <2>2. CASE entry # Nobody
    <3> DEFINE rt == runtimes[entry]
               new == [rt EXCEPT !.owed = TRUE]
    <3>1. entry \in DOMAIN runtimes /\ rt \in Runtime /\ runtimes \in Seq(Runtime)
      BY <2>2, RegistryTyped DEF RegistryInv, RegistryTypes
    <3>2. /\ new \in Runtime /\ new.at = rt.at /\ new.traces = rt.traces /\ new.journals = rt.journals
          /\ new.closing = rt.closing /\ new.waits = rt.waits /\ new.ingest = rt.ingest
      BY <3>1 DEF Runtime
    <3>3. runtimes' = [runtimes EXCEPT ![entry] = new] BY <1>1, <2>2, <3>1
    <3> HIDE DEF new
    <3>4. /\ runtimes' \in Seq(Runtime) /\ DOMAIN runtimes' = DOMAIN runtimes /\ runtimes'[entry] = new
          /\ \A k \in DOMAIN runtimes \ {entry} : runtimes'[k] = runtimes[k]
      BY <3>1, <3>2, <3>3
    <3>5. Sound(rt) => Sound(new) BY <3>2 DEF Sound
    <3> QED BY <3>2, <3>4, <3>5
  <2> QED BY <2>1, <2>2
<1>3. Visitors' = Visitors BY <1>1 DEF Visitors
<1>4. RegistryTypes' BY <1>1, <1>2 DEF RegistryInv, RegistryTypes
<1>5. \A r \in Requests : VisitFits(r)' BY <1>1, <1>2 DEF RegistryInv, VisitFits
<1>6. ASSUME NEW k \in DOMAIN runtimes' PROVE RuntimeFits(k)'
  <2>1. RuntimeFits(k) /\ runtimes'[k].traces = runtimes[k].traces /\ (Sound(runtimes[k]) => Sound(runtimes'[k]))
    BY <1>2 DEF RegistryInv
  <2>2. Sound(runtimes'[k]) BY <2>1 DEF RuntimeFits
  <2>3. runtimes'[k].owed => down' BY <1>1
  <2>4. \A r \in Requests : r \in runtimes'[k].traces => visits'[r].at = "tracing" /\ visits'[r].rt = k
    BY <1>1, <2>1 DEF RuntimeFits
  <2> QED BY <2>2, <2>3, <2>4 DEF RuntimeFits
<1>7. CreatorsFit' BY <1>1, <1>3 DEF RegistryInv, CreatorsFit
<1> QED BY <1>1, <1>4, <1>5, <1>6, <1>7 DEF RegistryInv

LEMMA TimeGoesOn == ASSUME RegistryInv, R!TimePasses PROVE RegistryInv'
<1>1. UNCHANGED <<entry, active, runtimes, visits, sweeps, down>> BY DEF R!TimePasses
<1>2. RegistryTypes' BY <1>1 DEF RegistryInv, RegistryTypes
<1> QED BY <1>1, <1>2, RuntimesStay

LEMMA RegistryInitially == R!Init => RegistryInv
<1> SUFFICES ASSUME R!Init PROVE RegistryInv OBVIOUS
<1>1. entry = Nobody /\ active = 0 /\ runtimes = <<>> /\ down = FALSE BY DEF R!Init
<1>2. /\ visits \in [Requests -> Visit]
      /\ \A r \in Requests : visits[r].at = "new" /\ visits[r].rt = Nobody
  BY DEF R!Init, Visit
<1>3. /\ sweeps \in [Requests \cup {Sweeper} -> SweepAt]
      /\ \A c \in Requests \cup {Sweeper} : sweeps[c].at = "none"
  BY DEF R!Init, SweepAt
<1>4. Visitors = {} BY <1>2 DEF Visitors
<1>5. Cardinality(Visitors) = 0 BY <1>4, FS_EmptySet
<1>6. RegistryTypes
  <2>1. runtimes \in Seq(Runtime) BY <1>1
  <2>2. entry \in DOMAIN runtimes \cup {Nobody} /\ active \in Nat /\ down \in BOOLEAN BY <1>1
  <2> QED BY <1>2, <1>3, <2>1, <2>2 DEF RegistryTypes
<1>7. CreatorsFit BY <1>4 DEF CreatorsFit
<1> QED BY <1>1, <1>2, <1>5, <1>6, <1>7 DEF RegistryInv, VisitFits

LEMMA RegistryGoesOn == ASSUME RegistryInv, R!Next PROVE RegistryInv'
<1>1. ASSUME NEW c \in Requests \cup {Sweeper}, R!StartSweep(c) \/ R!Looks(c) \/ R!Closes(c) \/ R!Closed(c) PROVE RegistryInv'
  BY <1>1, StartSweepFits, LooksFits, ClosesRuntimeFits, ClosedFits
<1>2. ASSUME NEW r \in Requests, R!Redirect(r) \/ R!Enter(r) \/ R!NotThere(r) \/ R!Handle(r) PROVE RegistryInv'
  BY <1>2, RedirectFits, EnterFits, NotThereFits, HandleFits
<1>3. ASSUME NEW k \in DOMAIN runtimes, R!Loads(k) \/ R!CloseLoaded(k) \/ R!IngestFails(k) \/ R!Drain(k) PROVE RegistryInv'
  BY <1>3, LoadsFits, CloseLoadedFits, IngestFailsFits, DrainFits
<1>4. ASSUME NEW k \in DOMAIN runtimes, NEW x \in Requests \cup {R!Plan}, R!Trace(k, x) \/ R!TraceEnds(k, x) PROVE RegistryInv'
  BY <1>4, TraceFits, TraceEndsFits
<1>5. ASSUME NEW k \in DOMAIN runtimes, NEW x, R!JournalCloses(k, x) PROVE RegistryInv'
  BY <1>5, JournalClosesFits
<1>6. CASE R!Close \/ R!TimePasses BY <1>6, RegistryClosesFits, TimeGoesOn
<1> QED BY <1>1, <1>2, <1>3, <1>4, <1>5, <1>6 DEF R!Next

LEMMA RegistryInvariance == PartsSpec => []RegistryInv
<1>1. PartsInit => RegistryInv BY RegistryInitially DEF PartsInit
<1>2. RegistryInv /\ [PartsNext]_<<chosen, vars, eVars, sVars, rVars>> => RegistryInv'
  <2> SUFFICES ASSUME RegistryInv, [PartsNext]_<<chosen, vars, eVars, sVars, rVars>> PROVE RegistryInv' OBVIOUS
  <2>1. CASE UNCHANGED rVars
    <3>1. UNCHANGED <<entry, lastUsed, active, runtimes, visits, sweeps, down>> BY <2>1 DEF rVars
    <3>2. RegistryTypes' BY <3>1 DEF RegistryInv, RegistryTypes
    <3> QED BY <3>1, <3>2, RuntimesStay
  <2>2. CASE R!Next BY <2>2, RegistryGoesOn
  <2> QED BY <2>1, <2>2 DEF PartsNext
<1> QED BY <1>1, <1>2, PTL DEF PartsSpec

\* The idle sweep closes a project's runtime only when nobody and nothing needs it, and a
\* runtime that says it is closed writes no journal and starts no plan, whatever a request
\* that is still in it does; there is one open runtime of a project at most.
THEOREM ClosesAtRest == PartsSpec => []ClosedAtRest
<1>1. RegistryInv => ClosedAtRest
  <2> SUFFICES ASSUME RegistryInv PROVE ClosedAtRest OBVIOUS
  <2>1. ASSUME ~down, NEW k \in DOMAIN runtimes, runtimes[k].closing # "no"
        PROVE  /\ runtimes[k].ingest \in {"no", "done"} /\ runtimes[k].traces = {}
               /\ \A r \in Requests : visits[r].rt # k
    BY <2>1 DEF RegistryInv, UpFits
  <2>2. ASSUME ~down, NEW j \in DOMAIN runtimes, NEW k \in DOMAIN runtimes,
               runtimes[j].closing = "no", runtimes[k].closing = "no", {runtimes[j].at, runtimes[k].at} \subseteq {"loading", "open"}
        PROVE  j = k
    BY <2>2 DEF RegistryInv, UpFits
  <2>3. R!KeptWhileNeeded BY <2>1, <2>2 DEF R!KeptWhileNeeded
  <2>4. ASSUME NEW k \in DOMAIN runtimes, runtimes[k].closing = "done"
        PROVE  runtimes[k].traces = {} /\ runtimes[k].journals = {} /\ runtimes[k].ingest \in {"no", "done"}
    BY <2>4 DEF RegistryInv, RuntimeFits, Sound
  <2>5. R!SilentWhenClosed BY <2>4 DEF R!SilentWhenClosed
  <2> QED BY <2>3, <2>5 DEF ClosedAtRest
<1> QED BY <1>1, RegistryInvariance, PTL
-----------------------------------------------------------------------------
(* The page.  What it shows and is told is a revision of the server's, with *)
(* a preview the server still has; and as long as nothing was lost, whoever *)
(* has seen an edit's answer, a preview of the page or the poller will show *)
(* the newest revision, or ask for its preview.                             *)

State == [rev : Nat \ {0}, preview : BOOLEAN, approved : BOOLEAN, op : {"idle", "rendering", "ready", "error"}]
Call == [at : {"idle", "sent", "rendering", "answered", "get", "got"}, kind : {"none", "edit", "approve", "preview"},
         base : Nat, newest : BOOLEAN, status : {"none", "ok", "stale", "failed", "lost"}, body : State \cup {Nobody},
         then : {"none", "recon", "again", "check", "poll"}, seen : BOOLEAN]

PageTypes ==
  /\ server \in State /\ screen \in State /\ sent \in [E!Slot -> Call]
  /\ waiting \in BOOLEAN /\ polling \in BOOLEAN /\ late \in BOOLEAN
  /\ player \in [src : Nat, covered : BOOLEAN] /\ watched \in Nat /\ played \subseteq Nat /\ faults \in Nat

\* What was watched was played to its end.
WatchedFits ==
  /\ watched # 0 => watched \in played
  /\ player.covered => player.src \in played
  /\ \A c \in E!Slot : sent[c].kind = "approve" /\ sent[c].seen => sent[c].base \in played

\* What is known of the server was true of it, and its preview of the revision still is.
Known(s) == s.rev <= server.rev /\ (s.rev = server.rev /\ s.preview => server.preview)

CallFits(c) ==
  /\ sent[c].base <= server.rev
  /\ c = "poll" => sent[c].kind = "none"
  /\ sent[c].then = "poll" => c = "poll"
  /\ sent[c].body # Nobody => Known(sent[c].body)
  /\ sent[c].at = "answered" /\ sent[c].status = "ok" => sent[c].body # Nobody
  /\ faults = 0 =>
       /\ sent[c].at = "answered" => sent[c].status \in {"ok", "stale"}
       /\ sent[c].at = "got" => sent[c].body # Nobody
       /\ c \in Timers /\ sent[c].at = "got" => sent[c].base <= sent[c].body.rev

\* An answer that will bring the newest revision.
Brings(c) == sent[c].at = "answered" /\ sent[c].status = "ok" /\ sent[c].body.rev = server.rev
\* A refused preview of a person asks the server and then for the preview again.
Retries(c) == sent[c].kind = "preview" /\ sent[c].at \in {"get", "got"} /\ sent[c].then \in {"recon", "check"}

Newest == screen.rev = server.rev \/ \E c \in E!Slot : Brings(c)
Cared ==
  \/ screen.rev = server.rev /\ screen.preview
  \/ waiting \/ E!Busy(screen)
  \/ \E c \in E!Slot : Brings(c)
  \/ \E t \in Timers : ~E!Free(t)
  \/ \E a \in Actions : Retries(a)

PageInv ==
  /\ PageTypes /\ WatchedFits /\ Known(screen)
  /\ \A c \in E!Slot : CallFits(c)
  /\ polling => E!Free("poll")
  /\ E!Busy(screen) => polling \/ ~E!Free("poll")
  /\ faults = 0 /\ ~late => Newest /\ Cared

LEMMA PageNames ==
  Actions \cap Timers = {} /\ "poll" \notin Actions \cup Timers /\ Nobody \notin State
<1>1. /\ Actions \cap Timers = {} /\ "poll" \notin Actions \cup Timers
      /\ Nobody \notin [rev : Nat, preview : BOOLEAN, approved : BOOLEAN, op : {"idle", "rendering", "ready", "error"}]
  BY PrepPartsAssumption DEF E!EditorPageAssumption
<1>2. State \subseteq [rev : Nat, preview : BOOLEAN, approved : BOOLEAN, op : {"idle", "rendering", "ready", "error"}]
  BY DEF State
<1> QED BY <1>1, <1>2

LEMMA PageTyped ==
  ASSUME PageInv
  PROVE  /\ PageTypes /\ WatchedFits /\ Known(screen) /\ screen.rev \in Nat \ {0} /\ server.rev \in Nat \ {0}
         /\ \A c \in E!Slot : sent[c] \in Call /\ CallFits(c)
         /\ \A c \in E!Slot : sent[c].body # Nobody => sent[c].body \in State /\ sent[c].body.rev \in Nat \ {0}
<1>1. PageTypes /\ WatchedFits /\ Known(screen) /\ \A c \in E!Slot : CallFits(c) BY DEF PageInv
<1>2. \A c \in E!Slot : sent[c] \in Call BY <1>1 DEF PageTypes
<1>3. \A s \in State : s.rev \in Nat \ {0} BY DEF State
<1>4. \A c \in E!Slot : sent[c].body # Nobody => sent[c].body \in State BY <1>2 DEF Call
<1> QED BY <1>1, <1>2, <1>3, <1>4 DEF PageTypes

LEMMA IdleFits == E!Idle \in Call /\ E!Idle.at = "idle" /\ E!Idle.kind = "none" /\ E!Idle.base = 0 /\ E!Idle.body = Nobody /\ E!Idle.seen = FALSE /\ E!Idle.then = "none"
  BY DEF E!Idle, Call

\* The server's side: one request gets further, and the revision does not go back.
LEMMA ServerGoes ==
  ASSUME PageInv, NEW c \in E!Slot, sent' \in [E!Slot -> Call], server' \in State, faults' \in Nat, faults' >= faults,
         UNCHANGED <<screen, waiting, polling, player, watched, played, late>>,
         server'.rev >= server.rev, server'.rev = server.rev /\ server.preview => server'.preview,
         \A d \in E!Slot \ {c} : /\ sent'[d].at = sent[d].at /\ sent'[d].kind = sent[d].kind /\ sent'[d].base = sent[d].base
                                 /\ sent'[d].status = sent[d].status /\ sent'[d].body = sent[d].body
                                 /\ sent'[d].then = sent[d].then /\ sent'[d].seen = sent[d].seen,
         sent[c].at # "idle", sent'[c].at # "idle",
         sent'[c].kind = sent[c].kind, sent'[c].base = sent[c].base, sent'[c].then = sent[c].then, sent'[c].seen = sent[c].seen,
         sent[c].at \in {"get", "got"} => sent'[c].at \in {"get", "got"},
         faults' = 0 => sent[c].at # "answered",
         CallFits(c)',
         server'.rev # server.rev => Brings(c)'
  PROVE  PageInv'
<1>1. PageTypes' BY PageTyped DEF PageTypes
<1>2. WatchedFits' BY PageTyped DEF WatchedFits
<1>3. /\ server.rev \in Nat /\ server'.rev \in Nat /\ faults \in Nat
      /\ \A s \in State : s.rev \in Nat
  BY PageTyped DEF State, PageTypes
<1>4. \A s \in State : Known(s) => (s.rev <= server'.rev /\ (s.rev = server'.rev /\ s.preview => server'.preview))
  BY <1>3 DEF Known
<1>5. Known(screen)' BY <1>4, PageTyped DEF Known, PageTypes
<1>6. ASSUME NEW d \in E!Slot PROVE CallFits(d)'
  <2>1. CASE d = c BY <2>1
  <2>2. CASE d # c
    <3>1. CallFits(d) /\ sent[d] \in Call /\ (sent[d].body # Nobody => sent[d].body \in State) BY PageTyped
    <3>2. sent'[d].base <= server'.rev BY <1>3, <2>2, <3>1 DEF CallFits, Call
    <3>3. sent'[d].body # Nobody => Known(sent[d].body)' BY <1>4, <2>2, <3>1 DEF CallFits, Known
    <3>4. faults' = 0 => faults = 0 BY <1>3
    <3> QED BY <2>2, <3>1, <3>2, <3>3, <3>4 DEF CallFits, Known
  <2> QED BY <2>1, <2>2
<1>7. E!Busy(screen)' => polling' \/ ~E!Free("poll")'
  BY DEF PageInv, E!Busy, E!Free, E!Slot
<1>9. polling' => E!Free("poll")'
  BY DEF PageInv, E!Free, E!Slot
<1>8. ASSUME faults' = 0, ~late' PROVE Newest' /\ Cared'
  <2>1. faults = 0 /\ ~late /\ Newest /\ Cared BY <1>3, <1>8 DEF PageInv
  <2>2. CASE server'.rev # server.rev BY <2>2 DEF Newest, Cared
  <2>3. CASE server'.rev = server.rev
    <3>1. \A d \in E!Slot : Brings(d) => Brings(d)' BY <1>8, <2>3 DEF Brings
    <3>2. Newest' BY <2>1, <2>3, <3>1 DEF Newest
    <3>3. \A t \in Timers : ~E!Free(t) => ~E!Free(t)' BY DEF E!Free, E!Slot
    <3>4. \A a \in Actions : Retries(a) => Retries(a)' BY DEF Retries, E!Slot
    <3>5. Cared' BY <2>1, <2>3, <3>1, <3>3, <3>4 DEF Cared, E!Busy
    <3> QED BY <3>2, <3>5
  <2> QED BY <2>2, <2>3
<1> QED BY <1>1, <1>2, <1>5, <1>6, <1>7, <1>8, <1>9 DEF PageInv

\* The fields of an answer, and of what a request that was sent has become.
LEMMA AnswerFits ==
  ASSUME PageInv, NEW c \in E!Slot, NEW status \in {"ok", "stale", "failed"}, E!Answers(c, status), server' \in State
  PROVE  /\ sent' \in [E!Slot -> Call] /\ \A d \in E!Slot \ {c} : sent'[d] = sent[d]
         /\ sent'[c].at = "answered" /\ sent'[c].status = status
         /\ sent'[c].body = IF status = "ok" THEN server' ELSE Nobody
         /\ sent'[c].kind = sent[c].kind /\ sent'[c].base = sent[c].base /\ sent'[c].then = sent[c].then
         /\ sent'[c].seen = sent[c].seen
<1> DEFINE body == IF status = "ok" THEN server' ELSE Nobody
           new == [sent[c] EXCEPT !.at = "answered", !.status = status, !.body = body]
<1>1. sent[c] \in Call /\ sent \in [E!Slot -> Call] BY PageTyped DEF PageTypes
<1>2. body \in State \cup {Nobody} OBVIOUS
<1>3. sent' = [sent EXCEPT ![c] = new] BY DEF E!Answers
<1> HIDE DEF body
<1>4. /\ new \in Call /\ new.at = "answered" /\ new.status = status /\ new.body = body
      /\ new.kind = sent[c].kind /\ new.base = sent[c].base /\ new.then = sent[c].then /\ new.seen = sent[c].seen
  BY <1>1, <1>2 DEF Call
<1> HIDE DEF new
<1>5. sent' \in [E!Slot -> Call] /\ sent'[c] = new /\ \A d \in E!Slot \ {c} : sent'[d] = sent[d]
  BY <1>1, <1>3, <1>4
<1> QED BY <1>4, <1>5 DEF body

LEMMA HandleEditFits == ASSUME PageInv, NEW c \in E!Slot, E!HandleEdit(c) PROVE PageInv'
<1>1. sent[c].at = "sent" /\ sent[c].kind = "edit" /\ UNCHANGED <<faults, screen, waiting, polling, player, watched, played, late>>
  BY DEF E!HandleEdit, E!Page
<1>2. faults \in Nat /\ faults' \in Nat /\ faults' >= faults /\ CallFits(c) /\ server \in State /\ server.rev \in Nat \ {0}
      /\ sent[c] \in Call
  BY <1>1, PageTyped DEF PageTypes
<1>3. CASE sent[c].base = server.rev
  <2> DEFINE next == server.rev + 1
             new == [server EXCEPT !.rev = next, !.preview = FALSE, !.approved = FALSE]
  <2>0. next \in Nat \ {0} BY <1>2
  <2>1. server' = new /\ E!Answers(c, "ok") BY <1>3 DEF E!HandleEdit
  <2> HIDE DEF next
  <2>2. new \in State /\ new.rev = next /\ new.preview = FALSE BY <1>2, <2>0 DEF State
  <2> HIDE DEF new
  <2>3. server' \in State /\ server'.rev = server.rev + 1 /\ server' # Nobody BY <2>1, <2>2, PageNames DEF next
  <2>4. /\ sent' \in [E!Slot -> Call] /\ \A d \in E!Slot \ {c} : sent'[d] = sent[d]
        /\ sent'[c].at = "answered" /\ sent'[c].status = "ok" /\ sent'[c].body = server'
        /\ sent'[c].kind = sent[c].kind /\ sent'[c].base = sent[c].base /\ sent'[c].then = sent[c].then
        /\ sent'[c].seen = sent[c].seen
    BY <2>1, <2>3, AnswerFits
  <2>5. CallFits(c)' BY <1>1, <1>2, <1>3, <2>3, <2>4 DEF CallFits, Known
  <2>6. Brings(c)' BY <2>4 DEF Brings
  <2>7. server'.rev >= server.rev /\ server'.rev # server.rev BY <1>2, <2>3
  <2> QED BY <1>1, <1>2, <2>3, <2>4, <2>5, <2>6, <2>7, ServerGoes
<1>4. CASE sent[c].base # server.rev
  <2>1. server' = server /\ E!Answers(c, "stale") /\ server' \in State BY <1>2, <1>4 DEF E!HandleEdit
  <2>2. /\ sent' \in [E!Slot -> Call] /\ \A d \in E!Slot \ {c} : sent'[d] = sent[d]
        /\ sent'[c].at = "answered" /\ sent'[c].status = "stale" /\ sent'[c].body = Nobody
        /\ sent'[c].kind = sent[c].kind /\ sent'[c].base = sent[c].base /\ sent'[c].then = sent[c].then
        /\ sent'[c].seen = sent[c].seen
    BY <2>1, AnswerFits
  <2>3. CallFits(c)' BY <1>1, <1>2, <2>1, <2>2 DEF CallFits
  <2>4. server'.rev >= server.rev BY <1>2, <2>1
  <2> QED BY <1>1, <1>2, <2>1, <2>2, <2>3, <2>4, ServerGoes
<1> QED BY <1>3, <1>4

LEMMA HandleApproveFits == ASSUME PageInv, NEW c \in E!Slot, E!HandleApprove(c) PROVE PageInv'
<1>1. sent[c].at = "sent" /\ UNCHANGED <<faults, screen, waiting, polling, player, watched, played, late>>
  BY DEF E!HandleApprove, E!Page
<1>2. faults \in Nat /\ faults' \in Nat /\ faults' >= faults /\ CallFits(c) /\ server \in State /\ server.rev \in Nat \ {0}
      /\ sent[c] \in Call
  BY <1>1, PageTyped DEF PageTypes
<1>3. /\ server' \in State /\ server'.rev = server.rev /\ server'.preview = server.preview
      /\ E!Answers(c, "ok") \/ E!Answers(c, "stale")
  <2>1. [server EXCEPT !.approved = TRUE] \in State /\ [server EXCEPT !.approved = TRUE].rev = server.rev
        /\ [server EXCEPT !.approved = TRUE].preview = server.preview
    BY <1>2 DEF State
  <2> QED BY <1>2, <2>1 DEF E!HandleApprove
<1>4. server' # Nobody /\ server'.rev >= server.rev BY <1>2, <1>3, PageNames
<1>5. /\ sent' \in [E!Slot -> Call] /\ \A d \in E!Slot \ {c} : sent'[d] = sent[d]
      /\ sent'[c].at = "answered" /\ sent'[c].status \in {"ok", "stale"}
      /\ sent'[c].body = IF sent'[c].status = "ok" THEN server' ELSE Nobody
      /\ sent'[c].kind = sent[c].kind /\ sent'[c].base = sent[c].base /\ sent'[c].then = sent[c].then
      /\ sent'[c].seen = sent[c].seen
  <2>1. CASE E!Answers(c, "ok") BY <1>3, <2>1, AnswerFits
  <2>2. CASE E!Answers(c, "stale") BY <1>3, <2>2, AnswerFits
  <2> QED BY <1>3, <2>1, <2>2
<1>6. CallFits(c)' BY <1>1, <1>2, <1>3, <1>4, <1>5 DEF CallFits, Known
<1> QED BY <1>1, <1>2, <1>3, <1>4, <1>5, <1>6, ServerGoes

LEMMA HandlePreviewFits == ASSUME PageInv, NEW c \in E!Slot, E!HandlePreview(c) PROVE PageInv'
<1> DEFINE busy == [server EXCEPT !.op = "rendering"]
<1>1. sent[c].at = "sent" /\ sent[c].kind = "preview" /\ server' = busy
      /\ UNCHANGED <<faults, screen, waiting, polling, player, watched, played, late>>
  BY DEF E!HandlePreview, E!Page
<1>2. faults \in Nat /\ faults' \in Nat /\ faults' >= faults /\ CallFits(c) /\ server \in State /\ server.rev \in Nat \ {0}
      /\ \A d \in E!Slot : sent[d] \in Call
  BY <1>1, PageTyped DEF PageTypes
<1>3. busy \in State /\ busy.rev = server.rev /\ busy.preview = server.preview BY <1>2 DEF State
<1> HIDE DEF busy
<1> DEFINE next(d) == CASE d # c -> [sent[d] EXCEPT !.newest = FALSE]
                        [] d = c /\ sent[c].base = server.rev -> [sent[c] EXCEPT !.at = "rendering", !.newest = TRUE]
                        [] OTHER -> [sent[c] EXCEPT !.at = "answered", !.status = "stale", !.newest = FALSE]
<1>4. sent' = [d \in E!Slot |-> next(d)] BY DEF E!HandlePreview
<1>5. ASSUME NEW d \in E!Slot \ {c}
      PROVE  /\ next(d) \in Call /\ next(d).at = sent[d].at /\ next(d).kind = sent[d].kind /\ next(d).base = sent[d].base
             /\ next(d).status = sent[d].status /\ next(d).body = sent[d].body /\ next(d).then = sent[d].then
             /\ next(d).seen = sent[d].seen
  <2>1. next(d) = [sent[d] EXCEPT !.newest = FALSE] /\ sent[d] \in Call BY <1>2
  <2> HIDE DEF next
  <2> QED BY <2>1 DEF Call
<1>6. /\ next(c) \in Call /\ next(c).kind = sent[c].kind /\ next(c).base = sent[c].base
      /\ next(c).at \in {"rendering", "answered"} /\ (next(c).at = "answered" => next(c).status = "stale")
      /\ next(c).body = sent[c].body /\ next(c).then = sent[c].then /\ next(c).seen = sent[c].seen
  <2>0. sent[c] \in Call BY <1>2
  <2>1. CASE sent[c].base = server.rev
    <3>1. next(c) = [sent[c] EXCEPT !.at = "rendering", !.newest = TRUE] BY <2>1
    <3> HIDE DEF next
    <3> QED BY <2>0, <3>1 DEF Call
  <2>2. CASE sent[c].base # server.rev
    <3>1. next(c) = [sent[c] EXCEPT !.at = "answered", !.status = "stale", !.newest = FALSE] BY <2>2
    <3> HIDE DEF next
    <3> QED BY <2>0, <3>1 DEF Call
  <2> QED BY <2>1, <2>2
<1> HIDE DEF next
<1>7. sent' \in [E!Slot -> Call] /\ \A d \in E!Slot : sent'[d] = next(d) BY <1>4, <1>5, <1>6
<1>8. sent[c].body # Nobody => Known(sent[c].body)' BY <1>1, <1>2, <1>3, <1>6, <1>7 DEF CallFits, Known
<1>9. CallFits(c)' BY <1>1, <1>2, <1>3, <1>6, <1>7, <1>8 DEF CallFits, Known
<1>10. server' \in State /\ server'.rev = server.rev /\ server'.preview = server.preview /\ server'.rev >= server.rev
  BY <1>1, <1>2, <1>3
<1> QED BY <1>1, <1>2, <1>5, <1>6, <1>7, <1>9, <1>10, ServerGoes

LEMMA RenderEndsFits == ASSUME PageInv, NEW c \in E!Slot, E!RenderEnds(c) PROVE PageInv'
<1> DEFINE op == IF sent[c].newest THEN "ready" ELSE server.op
<1>1. sent[c].at = "rendering" /\ UNCHANGED <<faults, screen, waiting, polling, player, watched, played, late>>
  BY DEF E!RenderEnds, E!Page
<1>2. faults \in Nat /\ faults' \in Nat /\ faults' >= faults /\ CallFits(c) /\ server \in State /\ server.rev \in Nat \ {0}
      /\ sent[c] \in Call
  BY <1>1, PageTyped DEF PageTypes
<1>3. op \in {"idle", "rendering", "ready", "error"} /\ sent[c].newest \in BOOLEAN BY <1>2 DEF State, Call
<1> HIDE DEF op
<1>4. /\ server' \in State /\ server'.rev = server.rev /\ (server.preview => server'.preview)
      /\ E!Answers(c, "ok") \/ E!Answers(c, "stale")
  <2>1. CASE sent[c].base # server.rev
    <3>1. server' = [server EXCEPT !.op = op] /\ E!Answers(c, "stale") BY <2>1 DEF E!RenderEnds, op
    <3> QED BY <1>2, <1>3, <3>1 DEF State
  <2>2. CASE sent[c].base = server.rev
    <3>1. server' = [server EXCEPT !.op = op, !.preview = server.preview \/ sent[c].newest] /\ E!Answers(c, "ok")
      BY <2>2 DEF E!RenderEnds, op
    <3>2. server.preview \in BOOLEAN /\ (server.preview \/ sent[c].newest) \in BOOLEAN BY <1>2, <1>3 DEF State
    <3> QED BY <1>2, <1>3, <3>1, <3>2 DEF State
  <2> QED BY <2>1, <2>2
<1>5. server' # Nobody /\ server'.rev >= server.rev BY <1>2, <1>4, PageNames
<1>6. /\ sent' \in [E!Slot -> Call] /\ \A d \in E!Slot \ {c} : sent'[d] = sent[d]
      /\ sent'[c].at = "answered" /\ sent'[c].status \in {"ok", "stale"}
      /\ sent'[c].body = IF sent'[c].status = "ok" THEN server' ELSE Nobody
      /\ sent'[c].kind = sent[c].kind /\ sent'[c].base = sent[c].base /\ sent'[c].then = sent[c].then
      /\ sent'[c].seen = sent[c].seen
  <2>1. CASE E!Answers(c, "ok") BY <1>4, <2>1, AnswerFits
  <2>2. CASE E!Answers(c, "stale") BY <1>4, <2>2, AnswerFits
  <2> QED BY <1>4, <2>1, <2>2
<1>7. CallFits(c)' BY <1>1, <1>2, <1>4, <1>5, <1>6 DEF CallFits, Known
<1> QED BY <1>1, <1>2, <1>4, <1>5, <1>6, <1>7, ServerGoes

LEMMA RenderFailsFits == ASSUME PageInv, NEW c \in E!Slot, E!RenderFails(c) PROVE PageInv'
<1> DEFINE op == IF sent[c].newest THEN "error" ELSE server.op
<1>1. /\ sent[c].at = "rendering" /\ UNCHANGED <<screen, waiting, polling, player, watched, played, late>>
      /\ server' = [server EXCEPT !.op = op] /\ E!Answers(c, "failed") /\ faults' = faults + 1
  BY DEF E!RenderFails, E!Page
<1>2. faults \in Nat /\ faults' \in Nat /\ faults' >= faults /\ faults' # 0 /\ CallFits(c) /\ server \in State
      /\ server.rev \in Nat \ {0} /\ sent[c] \in Call
  BY <1>1, PageTyped DEF PageTypes
<1>3. op \in {"idle", "rendering", "ready", "error"} BY <1>2 DEF State
<1> HIDE DEF op
<1>4. server' \in State /\ server'.rev = server.rev /\ server'.preview = server.preview BY <1>1, <1>2, <1>3 DEF State
<1>5. /\ sent' \in [E!Slot -> Call] /\ \A d \in E!Slot \ {c} : sent'[d] = sent[d]
      /\ sent'[c].at = "answered" /\ sent'[c].status = "failed" /\ sent'[c].body = Nobody
      /\ sent'[c].kind = sent[c].kind /\ sent'[c].base = sent[c].base /\ sent'[c].then = sent[c].then
      /\ sent'[c].seen = sent[c].seen
  BY <1>1, <1>4, AnswerFits
<1>6. CallFits(c)' /\ server'.rev >= server.rev BY <1>2, <1>4, <1>5 DEF CallFits
<1> QED BY <1>1, <1>2, <1>4, <1>5, <1>6, ServerGoes

\* A request that becomes another of the same kind.
LEMMA CallGoes ==
  ASSUME PageInv, NEW c \in E!Slot, NEW new \in Call, sent' = [sent EXCEPT ![c] = new]
  PROVE  sent' \in [E!Slot -> Call] /\ sent'[c] = new /\ \A d \in E!Slot \ {c} : sent'[d] = sent[d]
  BY PageTyped DEF PageTypes

LEMMA HandleGetFits == ASSUME PageInv, NEW c \in E!Slot, E!HandleGet(c) PROVE PageInv'
<1> DEFINE new == [sent[c] EXCEPT !.at = "got", !.body = server]
<1>1. /\ sent[c].at = "get" /\ UNCHANGED <<server, faults, screen, waiting, polling, player, watched, played, late>>
      /\ sent' = [sent EXCEPT ![c] = new]
  BY DEF E!HandleGet, E!Page
<1>2. faults \in Nat /\ faults' \in Nat /\ faults' >= faults /\ CallFits(c) /\ server \in State /\ server # Nobody
      /\ server.rev \in Nat \ {0} /\ sent[c] \in Call
  BY <1>1, PageTyped, PageNames DEF PageTypes
<1>3. /\ new \in Call /\ new.at = "got" /\ new.body = server /\ new.kind = sent[c].kind /\ new.base = sent[c].base
      /\ new.then = sent[c].then /\ new.seen = sent[c].seen
  BY <1>2 DEF Call
<1> HIDE DEF new
<1>4. sent' \in [E!Slot -> Call] /\ sent'[c] = new /\ \A d \in E!Slot \ {c} : sent'[d] = sent[d]
  BY <1>1, <1>3, CallGoes
<1>5. CallFits(c)' /\ server' \in State /\ server'.rev >= server.rev BY <1>1, <1>2, <1>3, <1>4 DEF CallFits, Known
<1> QED BY <1>1, <1>2, <1>3, <1>4, <1>5, ServerGoes

LEMMA LostFits == ASSUME PageInv, NEW c \in E!Slot, E!Lost(c) PROVE PageInv'
<1>1. UNCHANGED <<server, screen, waiting, polling, player, watched, played, late>> /\ faults' = faults + 1
  BY DEF E!Lost, E!Page
<1>2. faults \in Nat /\ faults' \in Nat /\ faults' >= faults /\ faults' # 0 /\ CallFits(c) /\ server \in State
      /\ server.rev \in Nat \ {0} /\ sent[c] \in Call
  BY <1>1, PageTyped DEF PageTypes
<1>3. /\ sent' \in [E!Slot -> Call] /\ \A d \in E!Slot \ {c} : sent'[d] = sent[d]
      /\ sent'[c].at # "idle" /\ (sent[c].at \in {"get", "got"} => sent'[c].at \in {"get", "got"}) /\ sent[c].at # "idle"
      /\ sent'[c].body = Nobody /\ (sent'[c].at = "answered" => sent'[c].status = "lost")
      /\ sent'[c].kind = sent[c].kind /\ sent'[c].base = sent[c].base /\ sent'[c].then = sent[c].then
      /\ sent'[c].seen = sent[c].seen
  <2>1. CASE sent[c].at \in {"sent", "answered"}
             /\ sent' = [sent EXCEPT ![c] = [sent[c] EXCEPT !.at = "answered", !.status = "lost", !.body = Nobody]]
    <3> DEFINE new == [sent[c] EXCEPT !.at = "answered", !.status = "lost", !.body = Nobody]
    <3>1. /\ new \in Call /\ new.at = "answered" /\ new.status = "lost" /\ new.body = Nobody /\ new.kind = sent[c].kind
          /\ new.base = sent[c].base /\ new.then = sent[c].then /\ new.seen = sent[c].seen
      BY <1>2 DEF Call
    <3> HIDE DEF new
    <3>2. sent' \in [E!Slot -> Call] /\ sent'[c] = new /\ \A d \in E!Slot \ {c} : sent'[d] = sent[d]
      BY <2>1, <3>1, CallGoes DEF new
    <3> QED BY <2>1, <3>1, <3>2
  <2>2. CASE sent[c].at \in {"get", "got"} /\ sent' = [sent EXCEPT ![c] = [sent[c] EXCEPT !.at = "got", !.body = Nobody]]
    <3> DEFINE new == [sent[c] EXCEPT !.at = "got", !.body = Nobody]
    <3>1. /\ new \in Call /\ new.at = "got" /\ new.body = Nobody /\ new.kind = sent[c].kind
          /\ new.base = sent[c].base /\ new.then = sent[c].then /\ new.seen = sent[c].seen
      BY <1>2 DEF Call
    <3> HIDE DEF new
    <3>2. sent' \in [E!Slot -> Call] /\ sent'[c] = new /\ \A d \in E!Slot \ {c} : sent'[d] = sent[d]
      BY <2>2, <3>1, CallGoes DEF new
    <3> QED BY <2>2, <3>1, <3>2
  <2> QED BY <2>1, <2>2 DEF E!Lost
<1>4. CallFits(c)' /\ server' \in State /\ server'.rev >= server.rev BY <1>1, <1>2, <1>3 DEF CallFits
<1> QED BY <1>1, <1>2, <1>3, <1>4, ServerGoes

-----------------------------------------------------------------------------
(* The page's own steps.                                                   *)

\* A free slot takes a request; what the page shows stays.
LEMMA SendsFits ==
  ASSUME PageInv, NEW c \in E!Slot, E!Free(c), NEW new \in Call, sent' = [sent EXCEPT ![c] = new],
         new.at \in {"sent", "get"}, new.body = Nobody, new.base <= server.rev, c = "poll" => new.kind = "none",
         new.then = "poll" => c = "poll",
         new.kind = "approve" /\ new.seen => new.base \in played,
         UNCHANGED <<server, screen, player, watched, played, late, faults>>, waiting' \in BOOLEAN, polling' \in BOOLEAN,
         waiting => waiting' \/ c \in Timers, polling => polling' \/ c = "poll",
         polling' => polling /\ c # "poll"
  PROVE  PageInv'
<1>1. sent' \in [E!Slot -> Call] /\ sent'[c] = new /\ \A d \in E!Slot \ {c} : sent'[d] = sent[d]
  BY CallGoes
<1>2. PageTypes' BY <1>1, PageTyped DEF PageTypes
<1>3. WatchedFits' BY <1>1, PageTyped DEF WatchedFits
<1>4. ASSUME NEW d \in E!Slot PROVE CallFits(d)'
  <2>1. CASE d = c BY <1>1, <2>1 DEF CallFits
  <2>2. CASE d # c
    <3>1. CallFits(d) /\ sent'[d] = sent[d] BY <1>1, <2>2, PageTyped
    <3> QED BY <3>1 DEF CallFits, Known
  <2> QED BY <2>1, <2>2
<1>5. Known(screen)' BY PageTyped DEF Known
<1>6. E!Busy(screen)' => polling' \/ ~E!Free("poll")'
  <2>1. "poll" \in E!Slot BY DEF E!Slot
  <2>2. E!Busy(screen) => polling \/ ~E!Free("poll") BY DEF PageInv
  <2> QED BY <1>1, <2>1, <2>2 DEF E!Busy, E!Free
<1>8. polling' => E!Free("poll")'
  BY <1>1 DEF PageInv, E!Free, E!Slot
<1>7. ASSUME faults' = 0, ~late' PROVE Newest' /\ Cared'
  <2>1. Newest /\ Cared BY <1>7 DEF PageInv
  <2>2. \A d \in E!Slot : Brings(d) => Brings(d)' BY <1>1 DEF Brings, E!Free
  <2>3. \A t \in Timers : ~E!Free(t) => ~E!Free(t)' BY <1>1 DEF E!Free, E!Slot
  <2>4. \A a \in Actions : Retries(a) => Retries(a)' BY <1>1 DEF Retries, E!Free, E!Slot
  <2>5. c \in Timers => \E t \in Timers : ~E!Free(t)' BY <1>1 DEF E!Free
  <2>6. Newest' BY <2>1, <2>2 DEF Newest
  <2>7. Cared' BY <2>1, <2>2, <2>3, <2>4, <2>5 DEF Cared, E!Busy
  <2> QED BY <2>6, <2>7
<1> QED BY <1>2, <1>3, <1>4, <1>5, <1>6, <1>7, <1>8 DEF PageInv

\* A request of a person, or of the timer, for the revision shown.
LEMMA ShownIsSent ==
  ASSUME PageInv, NEW c \in Actions \cup Timers, E!Free(c), NEW kind \in {"edit", "approve", "preview"}, NEW seen \in BOOLEAN,
         E!Sends(c, kind, screen.rev, seen), kind = "approve" /\ seen => screen.rev \in played,
         UNCHANGED <<server, screen, polling, player, watched, played, late, faults>>, waiting' \in BOOLEAN,
         waiting => waiting' \/ c \in Timers
  PROVE  PageInv'
<1> DEFINE new == [E!Idle EXCEPT !.at = "sent", !.kind = kind, !.base = screen.rev, !.seen = seen]
<1>1. screen.rev \in Nat /\ c \in E!Slot /\ c # "poll" /\ screen.rev <= server.rev /\ polling' \in BOOLEAN
  BY PageTyped, PageNames DEF E!Slot, Known, PageTypes
<1>2. sent' = [sent EXCEPT ![c] = new] BY DEF E!Sends
<1>3. new \in Call /\ new.at = "sent" /\ new.kind = kind /\ new.base = screen.rev /\ new.seen = seen /\ new.body = Nobody
      /\ new.then = "none"
  BY <1>1 DEF E!Idle, Call
<1> HIDE DEF new
<1> QED BY <1>1, <1>2, <1>3, SendsFits

LEMMA PersonFits ==
  ASSUME PageInv, NEW a \in Actions, E!Edit(a) \/ E!Approve(a) \/ E!Refresh(a) PROVE PageInv'
<1>1. waiting \in BOOLEAN /\ screen.rev \in Nat \ {0} BY PageTyped DEF PageTypes
<1>2. CASE E!Edit(a)
  <2>1. /\ E!Free(a) /\ E!Sends(a, "edit", screen.rev, FALSE)
        /\ UNCHANGED <<server, screen, waiting, polling, player, watched, played, late, faults>>
    BY <1>2 DEF E!Edit
  <2> QED BY <1>1, <2>1, ShownIsSent
<1>3. CASE E!Approve(a)
  <2>1. /\ E!Free(a) /\ E!Sends(a, "approve", screen.rev, watched = screen.rev)
        /\ UNCHANGED <<server, screen, waiting, polling, player, watched, played, late, faults>>
    BY <1>3 DEF E!Approve
  <2>2. watched = screen.rev => screen.rev \in played BY <1>1, PageTyped DEF WatchedFits
  <2>3. (watched = screen.rev) \in BOOLEAN OBVIOUS
  <2> DEFINE seen == (watched = screen.rev)
  <2>4. seen \in BOOLEAN /\ E!Sends(a, "approve", screen.rev, seen) /\ (seen => screen.rev \in played) BY <2>1, <2>2
  <2> HIDE DEF seen
  <2> QED BY <1>1, <2>1, <2>4, ShownIsSent
<1>4. CASE E!Refresh(a)
  <2>1. /\ E!Free(a) /\ E!Sends(a, "preview", screen.rev, FALSE)
        /\ UNCHANGED <<server, screen, waiting, polling, player, watched, played, late, faults>>
    BY <1>4 DEF E!Refresh
  <2> QED BY <1>1, <2>1, ShownIsSent
<1> QED BY <1>2, <1>3, <1>4

LEMMA AutoFiresFits == ASSUME PageInv, E!AutoFires PROVE PageInv'
<1>1. waiting' = FALSE /\ UNCHANGED <<server, screen, polling, player, watched, played, late, faults>> BY DEF E!AutoFires
<1>2. CASE E!Previewing \/ ~E!Wanted(screen)
  <2>1. UNCHANGED sent BY <1>2 DEF E!AutoFires
  <2>2. PageTypes' BY <1>1, <2>1, PageTyped DEF PageTypes
  <2>3. WatchedFits' /\ Known(screen)' /\ \A c \in E!Slot : CallFits(c)'
    BY <1>1, <2>1, PageTyped DEF WatchedFits, Known, CallFits
  <2>4. E!Busy(screen)' => polling' \/ ~E!Free("poll")' BY <1>1, <2>1 DEF PageInv, E!Busy, E!Free
  <2>6. polling' => E!Free("poll")' BY <1>1, <2>1 DEF PageInv, E!Free
  <2>5. ASSUME faults' = 0, ~late' PROVE Newest' /\ Cared'
    <3>1. Newest BY <1>1, <2>5 DEF PageInv
    <3>2. Newest' BY <1>1, <2>1, <3>1 DEF Newest, Brings
    <3>3. CASE E!Previewing
      <4>1. \E t \in Timers : ~E!Free(t) BY <3>3 DEF E!Previewing
      <4> QED BY <2>1, <3>2, <4>1 DEF Cared, E!Free
    <3>4. CASE ~E!Wanted(screen)
      <4>1. screen.preview \/ E!Busy(screen) BY <3>4 DEF E!Wanted, E!Busy
      <4> QED BY <1>1, <3>2, <4>1 DEF Cared, Newest, E!Busy
    <3> QED BY <1>2, <3>3, <3>4
  <2> QED BY <2>2, <2>3, <2>4, <2>5, <2>6 DEF PageInv
<1>3. CASE ~(E!Previewing \/ ~E!Wanted(screen))
  <2>1. PICK t \in Timers : E!Free(t) /\ E!Sends(t, "preview", screen.rev, FALSE) BY <1>3 DEF E!AutoFires
  <2> QED BY <1>1, <2>1, ShownIsSent
<1> QED BY <1>2, <1>3

LEMMA PollFiresFits ==
  ASSUME PageInv, E!PollFires PROVE PageInv'
<1> DEFINE new == [E!Idle EXCEPT !.at = "get", !.kind = sent["poll"].kind, !.then = "poll", !.status = "none",
                                 !.base = IF "poll" \in Timers THEN sent["poll"].base ELSE 0]
<1>1. polling' = FALSE /\ UNCHANGED <<server, screen, waiting, player, watched, played, late, faults>>
      /\ sent' = [sent EXCEPT !["poll"] = new]
  BY DEF E!PollFires, E!Gets
<1>2. "poll" \in E!Slot /\ "poll" \notin Timers /\ CallFits("poll") /\ E!Free("poll") /\ waiting \in BOOLEAN /\ server.rev \in Nat
  BY PageTyped, PageNames DEF E!Slot, PageTypes, PageInv, E!PollFires
<1>3. new \in Call /\ new.at = "get" /\ new.kind = sent["poll"].kind /\ new.seen = FALSE
      /\ new.base \in {0, sent["poll"].base} /\ new.body = Nobody
  <2>1. sent["poll"] \in Call BY <1>2, PageTyped
  <2>2. sent["poll"].kind \in {"none", "edit", "approve", "preview"} /\ sent["poll"].base \in Nat BY <2>1 DEF Call
  <2> QED BY <2>2 DEF E!Idle, Call
<1> HIDE DEF new
<1>4. new.kind = "none" /\ new.base <= server.rev BY <1>2, <1>3 DEF CallFits
<1> QED BY <1>1, <1>2, <1>3, <1>4, SendsFits

LEMMA WatchFits == ASSUME PageInv, E!Plays \/ E!Settles PROVE PageInv'
<1>1. UNCHANGED <<server, sent, screen, waiting, polling, late, faults>> /\ watched' = player.src
  BY DEF E!Plays, E!Settles
<1>2. player \in [src : Nat, covered : BOOLEAN] /\ WatchedFits /\ played \subseteq Nat BY PageTyped DEF PageTypes
<1>3. /\ player' \in [src : Nat, covered : BOOLEAN] /\ player'.src = player.src /\ played \subseteq played'
      /\ player.src \in played' /\ played' \subseteq Nat
  <2>1. CASE E!Plays
    <3>1. player' = [player EXCEPT !.covered = TRUE] /\ played' = played \cup {player.src} BY <2>1 DEF E!Plays
    <3> QED BY <1>2, <3>1
  <2>2. CASE E!Settles BY <1>2, <2>2 DEF E!Settles, WatchedFits
  <2> QED BY <2>1, <2>2
<1>4. PageTypes' BY <1>1, <1>2, <1>3, PageTyped DEF PageTypes
<1>5. WatchedFits' BY <1>1, <1>2, <1>3 DEF WatchedFits
<1>6. Known(screen)' /\ \A c \in E!Slot : CallFits(c)' BY <1>1, PageTyped DEF Known, CallFits
<1>7. (E!Busy(screen)' => polling' \/ ~E!Free("poll")') /\ (polling' => E!Free("poll")') BY <1>1 DEF PageInv, E!Busy, E!Free
<1>8. faults' = 0 /\ ~late' => Newest' /\ Cared'
  BY <1>1 DEF PageInv, Newest, Cared, Brings, Retries, E!Busy, E!Free
<1> QED BY <1>4, <1>5, <1>6, <1>7, <1>8 DEF PageInv

-----------------------------------------------------------------------------
(* Answers.  What becomes of the request, and of what the page shows.      *)

Turns(c, new) ==
  /\ new \in Call /\ new.at \in {"idle", "get"} /\ new.body = Nobody /\ new.seen = FALSE /\ new.base \in {0, sent[c].base}
  /\ new.then # "poll" /\ new.kind \in {"none", sent[c].kind} /\ sent[c].at # "idle" /\ sent' = [sent EXCEPT ![c] = new]

Screen == E!Keeps \/ \E s \in State : Known(s) /\ E!Shows(s)

LEMMA EndsTurns == ASSUME PageInv, NEW c \in E!Slot, sent[c].at # "idle", E!Ends(c) PROVE Turns(c, E!Idle)
  BY IdleFits DEF Turns, E!Ends

LEMMA GetsTurns ==
  ASSUME PageInv, NEW c \in E!Slot, sent[c].at # "idle", NEW then \in {"recon", "again", "check"},
         NEW status \in {"none", "ok", "stale"}, E!Gets(c, then, status)
  PROVE  /\ Turns(c, sent'[c]) /\ sent'[c].at = "get" /\ sent'[c].kind = sent[c].kind /\ sent'[c].then = then
<1> DEFINE new == [E!Idle EXCEPT !.at = "get", !.kind = sent[c].kind, !.then = then, !.status = status,
                                 !.base = IF c \in Timers THEN sent[c].base ELSE 0]
<1>1. /\ new \in Call /\ new.at = "get" /\ new.kind = sent[c].kind /\ new.then = then /\ new.seen = FALSE
      /\ new.base \in {0, sent[c].base} /\ new.body = Nobody
  <2>1. sent[c] \in Call BY PageTyped
  <2>2. sent[c].kind \in {"none", "edit", "approve", "preview"} /\ sent[c].base \in Nat BY <2>1 DEF Call
  <2> QED BY <2>2 DEF E!Idle, Call
<1>2. sent' = [sent EXCEPT ![c] = new] BY DEF E!Gets
<1> HIDE DEF new
<1>3. sent'[c] = new BY <1>1, <1>2, CallGoes
<1> QED BY <1>1, <1>2, <1>3 DEF Turns

LEMMA TurnsLeaves ==
  ASSUME PageInv, NEW c \in E!Slot, NEW new, Turns(c, new)
  PROVE  /\ sent' \in [E!Slot -> Call] /\ sent'[c] = new /\ sent[c].at # "idle" /\ new.at \in {"idle", "get"}
         /\ \A d \in E!Slot \ {c} : sent'[d] = sent[d]
  BY CallGoes DEF Turns

LEMMA AnswerTaken ==
  ASSUME PageInv, NEW c \in E!Slot, NEW new, Turns(c, new), UNCHANGED <<server, faults, played>>,
         waiting' \in BOOLEAN, late' \in BOOLEAN, Screen, faults' = 0 /\ ~late' => Newest' /\ Cared'
  PROVE  PageInv'
<1>1. /\ sent' \in [E!Slot -> Call] /\ sent'[c] = new /\ \A d \in E!Slot \ {c} : sent'[d] = sent[d]
  BY TurnsLeaves
<1>2. PICK s \in State : /\ Known(s) /\ screen' = s /\ E!Polls(s)
                        /\ \/ UNCHANGED <<player, watched>>
                           \/ E!Watches(s)
  <2>1. CASE E!Keeps
    <3>1. screen \in State /\ Known(screen) BY PageTyped DEF PageTypes
    <3> QED BY <2>1, <3>1 DEF E!Keeps
  <2>2. CASE \E s \in State : Known(s) /\ E!Shows(s) BY <2>2 DEF E!Shows
  <2> QED BY <2>1, <2>2 DEF Screen
<1>3. PageTypes /\ WatchedFits /\ s.rev \in Nat /\ "poll" \in E!Slot BY PageTyped DEF State, E!Slot
<1>4. /\ player' \in [src : Nat, covered : BOOLEAN] /\ watched' \in Nat
      /\ (player'.covered => player'.src \in played) /\ (watched' # 0 => watched' \in played)
  <2>1. CASE UNCHANGED <<player, watched>> BY <1>3, <2>1 DEF PageTypes, WatchedFits
  <2>2. CASE E!Watches(s)
    <3>1. player' \in {player, [src |-> s.rev, covered |-> FALSE]} /\ watched' \in {0, watched} BY <2>2 DEF E!Watches
    <3> DEFINE fresh == [src |-> s.rev, covered |-> FALSE]
    <3>2. fresh \in [src : Nat, covered : BOOLEAN] /\ fresh.covered = FALSE BY <1>3
    <3> HIDE DEF fresh
    <3>3. player' = player \/ player' = fresh BY <3>1 DEF fresh
    <3> QED BY <1>3, <3>1, <3>2, <3>3 DEF PageTypes, WatchedFits
  <2> QED BY <1>2, <2>1, <2>2
<1>5. polling' = (polling \/ (E!Free("poll")' /\ E!Busy(screen)')) BY <1>2 DEF E!Polls, E!Free, E!Busy
<1>6. polling' \in BOOLEAN /\ (E!Busy(screen)' => polling' \/ ~E!Free("poll")') BY <1>3, <1>5 DEF PageTypes
<1>7. polling' => E!Free("poll")'
  <2>1. polling => E!Free("poll")' BY <1>1, <1>3, TurnsLeaves DEF PageInv, E!Free
  <2> QED BY <1>5, <2>1
<1>8. PageTypes' BY <1>1, <1>2, <1>3, <1>4, <1>6 DEF PageTypes
<1>9. WatchedFits'
  <2>1. ASSUME NEW d \in E!Slot, sent'[d].kind = "approve", sent'[d].seen PROVE sent'[d].base \in played
    <3>1. d # c BY <1>1, <2>1 DEF Turns
    <3> QED BY <1>1, <1>3, <2>1, <3>1 DEF WatchedFits
  <2> QED BY <1>4, <2>1 DEF WatchedFits
<1>10. Known(screen)' BY <1>2 DEF Known
<1>11. ASSUME NEW d \in E!Slot PROVE CallFits(d)'
  <2>1. CallFits(d) /\ server.rev \in Nat /\ sent[d] \in Call BY PageTyped
  <2>2. CASE d = c
    <3>1. new.base <= server.rev BY <2>1, <2>2 DEF CallFits, Turns
    <3> QED BY <1>1, <2>1, <2>2, <3>1 DEF CallFits, Turns
  <2>3. CASE d # c BY <1>1, <2>1, <2>3 DEF CallFits, Known
  <2> QED BY <2>2, <2>3
<1> QED BY <1>6, <1>7, <1>8, <1>9, <1>10, <1>11 DEF PageInv

LEMMA GoesTurns ==
  ASSUME PageInv, NEW c \in E!Slot, sent[c].at # "idle", NEW how, E!Goes(c, how)
  PROVE  /\ Turns(c, sent'[c])
         /\ sent[c].kind = "preview" /\ how = "refused" =>
              sent'[c].at = "get" /\ sent'[c].kind = "preview" /\ sent'[c].then = "check"
<1>1. CASE E!Gets(c, "check", "none") BY <1>1, GetsTurns
<1>2. CASE E!Ends(c) /\ ~(sent[c].kind = "preview" /\ how = "refused")
  <2>1. Turns(c, E!Idle) BY <1>2, EndsTurns
  <2>2. sent'[c] = E!Idle BY <2>1, TurnsLeaves
  <2> QED BY <1>2, <2>1, <2>2
<1> QED BY <1>1, <1>2 DEF E!Goes

LEMMA NewestShown ==
  ASSUME PageInv, faults = 0, ~late, NEW c \in E!Slot, NEW new, Turns(c, new), UNCHANGED server,
         screen'.rev \in Nat, screen'.rev >= screen.rev, screen'.rev <= server.rev,
         Brings(c) => screen'.rev = server.rev
  PROVE  screen'.rev = server'.rev \/ \E d \in E!Slot : Brings(d)'
<1>1. Newest /\ screen.rev \in Nat /\ server.rev \in Nat /\ screen.rev <= server.rev
  BY PageTyped DEF PageInv, Known
<1>2. CASE screen.rev = server.rev BY <1>1, <1>2
<1>3. ASSUME NEW d \in E!Slot, Brings(d) PROVE screen'.rev = server'.rev \/ Brings(d)'
  BY <1>3, TurnsLeaves DEF Brings
<1> QED BY <1>1, <1>2, <1>3 DEF Newest

LEMMA CaredShown ==
  ASSUME PageInv, faults = 0, ~late, NEW c \in E!Slot, NEW new, Turns(c, new), UNCHANGED server,
         screen'.rev \in Nat, screen'.rev >= screen.rev, screen'.rev <= server.rev,
         Brings(c) => screen'.rev = server.rev,
         screen'.preview \/ E!Busy(screen') \/ waiting'
  PROVE  Newest' /\ Cared'
  BY NewestShown DEF Newest, Cared, E!Busy

\* An answer that changes nothing on the screen.
LEMMA CaredKept ==
  ASSUME PageInv, faults = 0, ~late, NEW c \in E!Slot, NEW new, Turns(c, new), UNCHANGED <<server, screen, waiting>>,
         ~Brings(c), ~Retries(c), c \in Timers => new.at = "get"
  PROVE  Newest' /\ Cared'
<1>1. Newest /\ Cared BY DEF PageInv
<1>2. \A d \in E!Slot : Brings(d) => Brings(d)' BY TurnsLeaves DEF Brings
<1>3. \A a \in Actions : Retries(a) => Retries(a)' BY TurnsLeaves DEF Retries, E!Slot
<1>4. \A t \in Timers : ~E!Free(t) => ~E!Free(t)' BY TurnsLeaves DEF E!Free, E!Slot
<1> QED BY <1>1, <1>2, <1>3, <1>4 DEF Newest, Cared, E!Busy

\* What a request was answered with, when the page applies it.
LEMMA AppliedFits ==
  ASSUME PageInv, NEW c \in E!Slot, sent[c].at \in {"answered", "got"}, NEW new, Turns(c, new), E!Applies(sent[c].body),
         UNCHANGED <<server, faults, played, late>>, sent[c].at = "answered" => sent[c].status = "ok",
         c \in Timers => new.at = "get", ~Retries(c)
  PROVE  PageInv'
<1> DEFINE s == sent[c].body
<1>1. PageTypes /\ CallFits(c) BY PageTyped
<1>2. CASE E!Fresh(s)
  <2>1. s # Nobody /\ s.rev >= screen.rev /\ E!Shows(s) /\ waiting' = E!Wanted(s) /\ screen' = s
    BY <1>2 DEF E!Fresh, E!Applies, E!Shows
  <2>2. s \in State /\ s.rev \in Nat /\ Known(s) BY <1>1, <2>1, PageTyped DEF CallFits
  <2> HIDE DEF s
  <2>3. waiting' \in BOOLEAN /\ late' \in BOOLEAN BY <1>1, <2>1 DEF E!Wanted, PageTypes
  <2>4. Screen BY <2>1, <2>2 DEF Screen
  <2>5. screen'.preview \/ E!Busy(screen') \/ waiting' BY <2>1 DEF E!Wanted, E!Busy
  <2>6. Brings(c) => s.rev = server.rev BY DEF Brings, s
  <2>7. s.rev <= server.rev BY <2>2 DEF Known
  <2>8. ASSUME faults' = 0, ~late' PROVE Newest' /\ Cared'
    BY <2>1, <2>2, <2>5, <2>6, <2>7, <2>8, CaredShown
  <2> QED BY <2>3, <2>4, <2>8, AnswerTaken
<1>3. CASE ~E!Fresh(s)
  <2>1. E!Keeps /\ UNCHANGED <<screen, waiting>> BY <1>3 DEF E!Applies, E!Keeps
  <2>2. Screen /\ waiting' \in BOOLEAN /\ late' \in BOOLEAN BY <1>1, <2>1 DEF Screen, PageTypes
  <2>3. ASSUME faults' = 0, ~late' PROVE ~Brings(c)
    <3>1. ASSUME Brings(c) PROVE FALSE
      <4>1. s # Nobody /\ s.rev = server.rev /\ screen.rev <= server.rev /\ screen.rev \in Nat
        BY <1>1, <3>1, PageTyped DEF Brings, CallFits, Known
      <4> QED BY <1>3, <4>1 DEF E!Fresh
    <3> QED BY <3>1
  <2>4. ASSUME faults' = 0, ~late' PROVE Newest' /\ Cared'
    BY <2>1, <2>3, <2>4, CaredKept
  <2> QED BY <2>2, <2>4, AnswerTaken
<1> QED BY <1>2, <1>3

LEMMA ReceiveFits == ASSUME PageInv, NEW c \in E!Slot, E!Receive(c) PROVE PageInv'
<1>1. sent[c].at = "answered" /\ UNCHANGED <<server, faults, played, late>> BY DEF E!Receive, E!Server
<1>2. PageTypes /\ CallFits(c) /\ ~Retries(c) BY <1>1, PageTyped DEF Retries
<1>3. CASE sent[c].status = "ok"
  <2>1. E!Gets(c, "again", "ok") /\ E!Applies(sent[c].body) BY <1>1, <1>3 DEF E!Receive
  <2>2. Turns(c, sent'[c]) /\ sent'[c].at = "get" BY <1>1, <2>1, GetsTurns
  <2> QED BY <1>1, <1>2, <1>3, <2>1, <2>2, AppliedFits
<1>4. CASE sent[c].status = "stale"
  <2>1. E!Gets(c, "recon", "stale") /\ E!Keeps /\ UNCHANGED waiting BY <1>1, <1>4 DEF E!Receive
  <2>2. Turns(c, sent'[c]) /\ sent'[c].at = "get" BY <1>1, <2>1, GetsTurns
  <2>3. Screen /\ waiting' \in BOOLEAN /\ late' \in BOOLEAN /\ UNCHANGED screen BY <1>1, <1>2, <2>1 DEF Screen, PageTypes, E!Keeps
  <2>4. ~Brings(c) BY <1>4 DEF Brings
  <2>5. faults' = 0 /\ ~late' => Newest' /\ Cared' BY <1>1, <1>2, <2>1, <2>2, <2>3, <2>4, CaredKept
  <2> QED BY <1>1, <2>2, <2>3, <2>5, AnswerTaken
<1>5. CASE sent[c].status \notin {"ok", "stale"}
  <2>1. PICK how : E!Goes(c, how) /\ E!Keeps /\ UNCHANGED waiting BY <1>1, <1>5 DEF E!Receive
  <2>2. Turns(c, sent'[c]) BY <1>1, <2>1, GoesTurns
  <2>3. Screen /\ waiting' \in BOOLEAN /\ late' \in BOOLEAN BY <1>1, <1>2, <2>1 DEF Screen, PageTypes
  <2>4. faults' # 0 BY <1>1, <1>2, <1>5 DEF CallFits
  <2> QED BY <1>1, <2>2, <2>3, <2>4, AnswerTaken
<1> QED BY <1>3, <1>4, <1>5

LEMMA PolledFits == ASSUME PageInv, NEW c \in E!Slot, E!Polled(c) PROVE PageInv'
<1>1. sent[c].at = "got" /\ sent[c].then = "poll" /\ E!Ends(c) /\ E!Applies(sent[c].body)
      /\ UNCHANGED <<server, faults, played, late>>
  BY DEF E!Polled, E!Server
<1>2. Turns(c, E!Idle) /\ ~Retries(c) BY <1>1, EndsTurns DEF Retries
<1>3. c \notin Timers BY <1>1, PageTyped, PageNames DEF CallFits
<1> QED BY <1>1, <1>2, <1>3, AppliedFits

\* A conflict: the page shows what the server has, and a preview is asked about again.
LEMMA ReconciledFits == ASSUME PageInv, NEW c \in E!Slot, E!Reconciled(c) PROVE PageInv'
<1> DEFINE s == sent[c].body
<1>1. sent[c].at = "got" /\ sent[c].then = "recon" /\ UNCHANGED <<server, faults, played, waiting>>
  BY DEF E!Reconciled, E!Server
<1>2. PageTypes /\ CallFits(c) /\ waiting' \in BOOLEAN BY <1>1, PageTyped DEF PageTypes
<1>3. CASE s # Nobody
  <2>1. E!Goes(c, "refused") /\ E!Shows(s) /\ late' = (late \/ s # server \/ sent[c].kind # "preview")
    BY <1>3 DEF E!Reconciled, E!Got
  <2>2. /\ Turns(c, sent'[c])
        /\ sent[c].kind = "preview" => sent'[c].at = "get" /\ sent'[c].kind = "preview" /\ sent'[c].then = "check"
    BY <1>1, <2>1, GoesTurns
  <2>3. s \in State /\ Known(s) BY <1>2, <1>3, PageTyped DEF CallFits
  <2>4. screen' = s BY <2>1 DEF E!Shows
  <2> HIDE DEF s
  <2>5. Screen /\ late' \in BOOLEAN BY <1>2, <2>1, <2>3 DEF Screen, PageTypes
  <2>6. ASSUME faults' = 0, ~late' PROVE Newest' /\ Cared'
    <3>1. s = server /\ sent[c].kind = "preview" BY <2>1, <2>6
    <3>2. Newest' BY <1>1, <2>4, <3>1 DEF Newest
    <3>3. c \in Timers \/ c \in Actions BY <1>2, <3>1 DEF CallFits, E!Slot
    <3>4. (c \in Timers => ~E!Free(c)') /\ (c \in Actions => Retries(c)') BY <2>2, <3>1 DEF E!Free, Retries
    <3> QED BY <3>2, <3>3, <3>4 DEF Cared
  <2> QED BY <1>1, <1>2, <2>2, <2>5, <2>6, AnswerTaken
<1>4. CASE s = Nobody
  <2>1. E!Goes(c, "lost") /\ E!Keeps /\ UNCHANGED late BY <1>4 DEF E!Reconciled, E!Got
  <2>2. Turns(c, sent'[c]) BY <1>1, <2>1, GoesTurns
  <2>3. Screen /\ late' \in BOOLEAN BY <1>2, <2>1 DEF Screen, PageTypes
  <2>4. faults' # 0 BY <1>1, <1>2, <1>4 DEF CallFits
  <2> QED BY <1>1, <1>2, <2>2, <2>3, <2>4, AnswerTaken
<1> QED BY <1>3, <1>4

\* What the last answer shows is a project of the server's, and no older one than is shown.
Better(c) == IF E!Fresh(sent[c].body) THEN sent[c].body ELSE screen

LEMMA BetterFits ==
  ASSUME PageInv, NEW c \in E!Slot
  PROVE  /\ Better(c) \in State /\ Known(Better(c)) /\ Better(c).rev \in Nat \ {0} /\ Better(c).rev >= screen.rev
         /\ E!Fresh(Better(c)) /\ (E!Fresh(sent[c].body) => Better(c) = sent[c].body)
         /\ (~E!Fresh(sent[c].body) => Better(c) = screen)
<1>1. /\ PageTypes /\ Known(screen) /\ screen.rev \in Nat \ {0} /\ CallFits(c) /\ screen # Nobody
      /\ sent[c].body # Nobody => sent[c].body \in State /\ sent[c].body.rev \in Nat \ {0}
  BY PageTyped, PageNames DEF PageTypes
<1>2. CASE E!Fresh(sent[c].body) BY <1>1, <1>2 DEF E!Fresh, Better, CallFits
<1>3. CASE ~E!Fresh(sent[c].body) BY <1>1, <1>3 DEF E!Fresh, Better, PageTypes
<1> QED BY <1>2, <1>3

\* The last answer to an automatic preview that is older than what is shown: it asks
\* for the preview again, unless what is shown has one.
LEMMA OldTimerAsks ==
  ASSUME PageInv, faults = 0, NEW c \in Timers, c \in E!Slot, sent[c].at = "got", ~E!Fresh(sent[c].body)
  PROVE  sent[c].body # Nobody /\ (E!Again(c, screen) \/ screen.preview)
<1>1. CallFits(c) /\ sent[c] \in Call /\ screen.rev \in Nat /\ sent[c].body # Nobody /\ sent[c].body.rev \in Nat
  BY PageTyped DEF CallFits
<1>2. sent[c].base <= sent[c].body.rev /\ sent[c].base \in Nat BY <1>1 DEF CallFits, Call
<1>3. sent[c].base # screen.rev BY <1>1, <1>2 DEF E!Fresh
<1> QED BY <1>1, <1>3 DEF E!Again

LEMMA ConfirmedFits == ASSUME PageInv, NEW c \in E!Slot, E!Confirmed(c) PROVE PageInv'
<1> DEFINE s == Better(c)
           b == sent[c].body
<1>1. /\ sent[c].at = "got" /\ sent[c].then = "again" /\ UNCHANGED <<server, faults, played, late>>
      /\ E!Goes(c, E!Got(c)) /\ IF E!Fresh(s) THEN E!Shows(s) ELSE E!Keeps
      /\ waiting' = IF b # Nobody /\ (E!Fresh(b) \/ E!Again(c, s)) THEN E!Wanted(s) ELSE waiting
  BY DEF E!Confirmed, E!Server, Better
<1>2. PageTypes /\ CallFits(c) /\ ~Retries(c) /\ ~Brings(c) BY <1>1, PageTyped DEF Retries, Brings
<1>3. s \in State /\ Known(s) /\ s.rev \in Nat /\ s.rev >= screen.rev /\ s.rev <= server.rev /\ E!Shows(s) /\ screen' = s
  BY <1>1, BetterFits DEF Known, E!Shows
<1>4. Turns(c, sent'[c]) BY <1>1, GoesTurns
<1>5. (E!Fresh(b) => s = b) /\ (~E!Fresh(b) => s = screen) BY BetterFits
<1> HIDE DEF s, b
<1>6. Screen BY <1>3 DEF Screen
<1>7. waiting' \in BOOLEAN /\ late' \in BOOLEAN BY <1>1, <1>2 DEF PageTypes, E!Wanted
<1>8. ASSUME faults' = 0, ~late' PROVE Newest' /\ Cared'
  <2>1. faults = 0 /\ ~late /\ b # Nobody BY <1>1, <1>2, <1>8 DEF CallFits, b
  <2>2. CASE waiting' = E!Wanted(s)
    <3>1. screen'.preview \/ E!Busy(screen') \/ waiting' BY <1>3, <2>2 DEF E!Wanted, E!Busy
    <3> QED BY <1>1, <1>2, <1>3, <1>4, <2>1, <3>1, CaredShown
  <2>3. CASE waiting' # E!Wanted(s)
    <3>1. ~E!Fresh(b) /\ ~E!Again(c, s) /\ UNCHANGED waiting /\ s = screen BY <1>1, <1>5, <2>1, <2>3
    <3>2. CASE c \in Timers
      <4>1. screen.preview BY <1>1, <2>1, <3>1, <3>2, OldTimerAsks DEF b
      <4> QED BY <1>1, <1>2, <1>3, <1>4, <2>1, <3>1, <4>1, CaredShown
    <3>3. CASE c \notin Timers BY <1>1, <1>2, <1>3, <1>4, <2>1, <3>1, <3>3, CaredKept
    <3> QED BY <3>2, <3>3
  <2> QED BY <2>2, <2>3
<1> QED BY <1>1, <1>4, <1>6, <1>7, <1>8, AnswerTaken

LEMMA CheckedFits == ASSUME PageInv, NEW c \in E!Slot, E!Checked(c) PROVE PageInv'
<1> DEFINE s == Better(c)
           b == sent[c].body
<1>1. /\ sent[c].at = "got" /\ sent[c].then = "check" /\ UNCHANGED <<server, faults, played, late>>
      /\ E!Ends(c) /\ E!Shows(s)
      /\ waiting' = IF (b # Nobody /\ (c \in Actions \/ E!Fresh(b))) \/ E!Again(c, s) THEN E!Wanted(s) ELSE waiting
  BY DEF E!Checked, E!Server, Better
<1>2. PageTypes /\ CallFits(c) /\ ~Brings(c) BY <1>1, PageTyped DEF Brings
<1>3. s \in State /\ Known(s) /\ s.rev \in Nat /\ s.rev >= screen.rev /\ s.rev <= server.rev /\ screen' = s
  BY <1>1, BetterFits DEF Known, E!Shows
<1>4. Turns(c, E!Idle) BY <1>1, EndsTurns
<1>5. (E!Fresh(b) => s = b) /\ (~E!Fresh(b) => s = screen) BY BetterFits
<1> HIDE DEF s, b
<1>6. Screen BY <1>1, <1>3 DEF Screen
<1>7. waiting' \in BOOLEAN /\ late' \in BOOLEAN BY <1>1, <1>2 DEF PageTypes, E!Wanted
<1>8. ASSUME faults' = 0, ~late' PROVE Newest' /\ Cared'
  <2>1. faults = 0 /\ ~late /\ b # Nobody BY <1>1, <1>2, <1>8 DEF CallFits, b
  <2>2. CASE waiting' = E!Wanted(s)
    <3>1. screen'.preview \/ E!Busy(screen') \/ waiting' BY <1>3, <2>2 DEF E!Wanted, E!Busy
    <3> QED BY <1>1, <1>2, <1>3, <1>4, <2>1, <3>1, CaredShown
  <2>3. CASE waiting' # E!Wanted(s)
    <3>1. ~E!Fresh(b) /\ ~E!Again(c, s) /\ c \notin Actions /\ UNCHANGED waiting /\ s = screen BY <1>1, <1>5, <2>1, <2>3
    <3>2. CASE c \in Timers
      <4>1. screen.preview BY <1>1, <2>1, <3>1, <3>2, OldTimerAsks DEF b
      <4> QED BY <1>1, <1>2, <1>3, <1>4, <2>1, <3>1, <4>1, CaredShown
    <3>3. CASE c \notin Timers
      <4>1. ~Retries(c) BY <1>1, <1>2, <3>1, <3>3 DEF Retries, CallFits, E!Slot
      <4> QED BY <1>1, <1>2, <1>3, <1>4, <2>1, <3>1, <3>3, <4>1, CaredKept
    <3> QED BY <3>2, <3>3
  <2> QED BY <2>2, <2>3
<1> QED BY <1>1, <1>4, <1>6, <1>7, <1>8, AnswerTaken

LEMMA PageInitially == ASSUME E!Init PROVE PageInv
<1> DEFINE first == [rev |-> 1, preview |-> FALSE, approved |-> FALSE, op |-> "idle"]
<1>1. /\ server = first /\ screen = server /\ sent = [c \in E!Slot |-> E!Idle] /\ waiting = TRUE /\ polling = FALSE
      /\ player = [src |-> 0, covered |-> FALSE] /\ watched = 0 /\ played = {} /\ late = FALSE /\ faults = 0
  BY DEF E!Init
<1>2. first \in State /\ first.rev = 1 /\ first.preview = FALSE /\ first.op = "idle" BY DEF State
<1> HIDE DEF first
<1>3. \A c \in E!Slot : sent[c] = E!Idle BY <1>1
<1>4. PageTypes BY <1>1, <1>2, IdleFits DEF PageTypes
<1>5. WatchedFits BY <1>1, <1>3, IdleFits DEF WatchedFits
<1>6. Known(screen) BY <1>1, <1>2 DEF Known
<1>7. \A c \in E!Slot : CallFits(c) BY <1>1, <1>2, <1>3, IdleFits DEF CallFits
<1>8. ~E!Busy(screen) BY <1>1, <1>2 DEF E!Busy
<1>9. Newest /\ Cared BY <1>1 DEF Newest, Cared
<1> QED BY <1>1, <1>4, <1>5, <1>6, <1>7, <1>8, <1>9 DEF PageInv

LEMMA PageGoesOn == ASSUME PageInv, E!Next PROVE PageInv'
<1>1. ASSUME NEW a \in Actions, E!Edit(a) \/ E!Approve(a) \/ E!Refresh(a) PROVE PageInv'
  BY <1>1, PersonFits
<1>2. CASE E!AutoFires \/ E!PollFires \/ E!Plays \/ E!Settles
  BY <1>2, AutoFiresFits, PollFiresFits, WatchFits
<1>3. ASSUME NEW c \in E!Slot, E!HandleEdit(c) \/ E!HandleApprove(c) \/ E!HandlePreview(c) PROVE PageInv'
  BY <1>3, HandleEditFits, HandleApproveFits, HandlePreviewFits
<1>4. ASSUME NEW c \in E!Slot, E!RenderEnds(c) \/ E!RenderFails(c) \/ E!HandleGet(c) \/ E!Lost(c) PROVE PageInv'
  BY <1>4, RenderEndsFits, RenderFailsFits, HandleGetFits, LostFits
<1>5. ASSUME NEW c \in E!Slot, E!Receive(c) \/ E!Reconciled(c) \/ E!Confirmed(c) \/ E!Checked(c) \/ E!Polled(c)
      PROVE  PageInv'
  BY <1>5, ReceiveFits, ReconciledFits, ConfirmedFits, CheckedFits, PolledFits
<1> QED BY <1>1, <1>2, <1>3, <1>4, <1>5 DEF E!Next

LEMMA PageInvariance == PartsSpec => []PageInv
<1>1. PartsInit => PageInv BY PageInitially DEF PartsInit
<1>2. PageInv /\ [PartsNext]_<<chosen, vars, eVars, sVars, rVars>> => PageInv'
  <2> SUFFICES ASSUME PageInv, [PartsNext]_<<chosen, vars, eVars, sVars, rVars>> PROVE PageInv' OBVIOUS
  <2>1. CASE UNCHANGED eVars
    <3>1. UNCHANGED <<server, sent, screen, waiting, polling, player, watched, played, late, edits, faults>>
      BY <2>1 DEF eVars
    <3> QED BY <3>1 DEF PageInv, PageTypes, WatchedFits, Known, CallFits, Newest, Cared, Brings, Retries, E!Busy, E!Free
  <2>2. CASE E!Next BY <2>2, PageGoesOn
  <2> QED BY <2>1, <2>2 DEF PartsNext
<1> QED BY <1>1, <1>2, PTL DEF PartsSpec

\* An approval a person was not asked about is of a revision whose video was played to
\* its end in the page, whatever answers came in the meantime and in whatever order.
THEOREM ApprovesWhatWasSeen == PartsSpec => []SeenWasPlayed
<1>1. PageInv => SeenWasPlayed BY DEF PageInv, WatchedFits, SeenWasPlayed, E!SeenWasPlayed
<1> QED BY <1>1, PageInvariance, PTL

\* A page with nothing under way shows the newest revision and its preview, for any
\* number of requests, edits and automatic previews, when nothing was lost or failed
\* and no reconciliation was late or an edit's.
THEOREM RestsUpToDate == PartsSpec => []QuietPageIsUpToDate
<1>1. PageInv => QuietPageIsUpToDate
  <2> SUFFICES ASSUME PageInv, E!Quiet, faults = 0, ~late
               PROVE  screen.rev = server.rev /\ screen.preview /\ server.preview
    BY DEF QuietPageIsUpToDate, E!QuietPageIsUpToDate
  <2>1. \A c \in E!Slot : E!Free(c) /\ ~Brings(c) BY DEF E!Quiet, E!Free, Brings
  <2>2. ~waiting /\ ~polling BY DEF E!Quiet
  <2>3. Newest /\ Cared /\ Known(screen) /\ ~E!Busy(screen)
    BY <2>1, <2>2 DEF PageInv, E!Slot
  <2>4. \A a \in Actions : ~Retries(a) BY <2>1 DEF Retries, E!Free, E!Slot
  <2>5. screen.rev = server.rev /\ screen.preview BY <2>1, <2>2, <2>3, <2>4 DEF Newest, Cared, E!Slot
  <2> QED BY <2>3, <2>5 DEF Known
<1> QED BY <1>1, PageInvariance, PTL
=============================================================================
