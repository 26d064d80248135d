--------------------------------- MODULE Takes ---------------------------------
(***************************************************************************)
(* apps/cli/src/app/assembly/words.ts, rhythm.ts, fillers.ts and           *)
(* speech-proposal.ts: what is cut from one take of speech.                *)
(*                                                                         *)
(* People remove, restore and protect words; a proposal for a phrase, the  *)
(* cuts of fillers and a rhythm profile take more away, and fillers and    *)
(* rhythm are layers: each remembers what it took, to give it back.        *)
(* Time is a row of cells of some frames each; a list of ranges is the set *)
(* of the cells in it, and normalising it is what sets do.  A word has its *)
(* own cells, and its cut (cutStart, cutEnd) some of the pause around it.  *)
(* Words are in the order in which they begin.  Nothing keeps them from    *)
(* overlapping: a transcript is checked one word at a time.                *)
(***************************************************************************)
EXTENDS Integers, FiniteSets

CONSTANTS
  Length,       \* the take's cells are 1 .. Length
  Words,        \* the words of the take are 1 .. Words (effectiveWords)
  WordCells,    \* of each word
  CutCells,     \* of each word: what removing it alone takes (wordCutInterval)
  Fillers,      \* sets of words that count as fillers (classifyFillers)
  FillerRanges, \* of each filler: what the acoustic cut may take (snapRange)
  RhythmCells,  \* of each profile: the middle of the pauses it shortens (rhythmPauses)
  MaxGap,       \* mergeableGap: pauses up to so long vanish with the words around them
  MaxChanges    \* bound

Cell == 1 .. Length
Word == 1 .. Words
Profiles == DOMAIN RhythmCells

Least(S) == CHOOSE x \in S : \A y \in S : x <= y
Most(S) == CHOOSE x \in S : \A y \in S : y <= x
From(i, j) == {x \in Cell : i < x /\ x < j}

\* The pause between a word and the next, without what their cuts take.
Pause(w) == From(Most(CutCells[w]), Least(CutCells[w + 1]))

\* The words of a filler do not overlap (abstention), and rhythm takes what lies
\* between the cuts of two words in a row.
TakesAssumption ==
  /\ Length \in Nat /\ Words \in Nat /\ MaxGap \in Nat /\ MaxChanges \in Nat
  /\ \A w \in Word : \E i, j, k, l \in Cell :
       i <= k /\ k <= l /\ l <= j /\ CutCells[w] = i .. j /\ WordCells[w] = k .. l
  /\ \A w, v \in Word : w < v => Least(WordCells[w]) <= Least(WordCells[v])
  /\ \A f \in Fillers :
       /\ f \subseteq Word /\ \A range \in FillerRanges[f] : range \subseteq Cell
       /\ \A w, v \in f : w # v => WordCells[w] \cap WordCells[v] = {}
  /\ \A profile \in Profiles : RhythmCells[profile] \subseteq UNION {Pause(w) : w \in {v \in Word : v + 1 \in Word}}

VARIABLES
  removed, protected,
  fillers,    \* take.fillers.cuts: the words of each, and what it took (effective)
  rhythm,     \* take.rhythm: its profile and what it took
  exceptions, \* fillerExceptions: words of fillers a person wants to keep
  named,      \* observation: the words the last request named
  restored,   \* observation: the last request was to restore them
  changes

take == <<removed, protected, fillers, rhythm, exceptions>>
vars == <<take, named, restored, changes>>

Speech == UNION {WordCells[w] : w \in Word}
CellsOf(ws) == UNION {WordCells[w] : w \in ws}

\* wordIntervalsInTake: words in a row go from where the cut of the first begins
\* to where that of the last ends.
Rows(ws) == {row \in ws \X ws : row[1] .. row[2] \subseteq ws /\ row[1] <= row[2] /\ {row[1] - 1, row[2] + 1} \cap ws = {}}
Intervals(ws) == UNION {Least(CutCells[row[1]]) .. Most(CutCells[row[2]]) : row \in Rows(ws)}

\* buildSpeechProposal: each goes as far as its own cut, and with it the pause
\* before the next when that is short.
Reached(ws, w) == Most(UNION {CutCells[v] : v \in {v \in ws : v <= w /\ v .. w \subseteq ws}})
PauseAfter(ws, w) == From(Reached(ws, w), Least(CutCells[w + 1]))
SpeechIntervals(ws) == (UNION {CutCells[w] : w \in ws})
  \cup (UNION {PauseAfter(ws, w) : w \in {v \in ws : v + 1 \in ws /\ Cardinality(PauseAfter(ws, v)) <= MaxGap}})

\* The cells next to x on each side that are cut, when there are both.
Gap(cut, x) == From(Most({0} \cup {y \in cut : y < x}), Least({Length + 1} \cup {y \in cut : y > x}))
Inner(cut, x) == (\E y \in cut : y < x) /\ (\E y \in cut : y > x)
MergeableByLength(gap) == Cardinality(gap) <= MaxGap
\* A gap between two cuts may go with them: short, without words, not protected.
Mergeable(gap) == Cardinality(gap) <= MaxGap /\ gap \cap (Speech \cup protected) = {}
Bridges(cut) == {x \in Cell \ cut : Inner(cut, x) /\ Mergeable(Gap(cut, x))}

\* mergeRemoved: the ranges are gone through in order; a gap goes when the range
\* after it, or what has grown together before it, has a new cut in it.
MergeRemoved(added) ==
  LET cut == removed \cup added
      bridges == Bridges(cut)
  IN cut \cup {x \in bridges :
       \/ \E y \in added : y > x /\ From(x, y) \subseteq cut \cup Gap(cut, x)
       \/ \E y \in added : y < x /\ From(y, x) \subseteq cut \cup bridges}

Init ==
  /\ removed = {} /\ protected = {} /\ fillers = {} /\ exceptions = {}
  /\ rhythm = [profile |-> "none", removed |-> {}]
  /\ named = {} /\ restored = FALSE /\ changes = 0

Asks(ws) == changes < MaxChanges /\ changes' = changes + 1 /\ named' = ws /\ restored' = FALSE

-----------------------------------------------------------------------------
(* By hand                                                                 *)

\* A cut of fillers whose words are all removed by hand belongs to the hand from
\* then on, and so does one of which nothing is left.
Covered(c, intervals) == CellsOf(c.words) \subseteq intervals \/ c.effective \subseteq intervals

Remove(ws) ==
  LET intervals == Intervals(ws) IN
  /\ Asks(ws) /\ intervals \cap protected = {}
  /\ removed' = MergeRemoved(intervals)
  /\ fillers' = {c \in fillers : ~Covered(c, intervals)}
  /\ UNCHANGED <<protected, rhythm, exceptions>>

WithoutRecords(cuts) == removed
\* withoutFillerCuts: what the cuts took comes back, and their words are kept.
Without(cuts) == removed \ UNION {c.effective : c \in cuts}

\* Restoring a word of a filler restores the filler; then the other words.
Restore(ws) ==
  LET cuts == {c \in fillers : c.words \cap ws # {}}
      rest == ws \ UNION {c.words : c \in cuts}
      intervals == Intervals(rest)
  IN
  /\ changes < MaxChanges /\ changes' = changes + 1 /\ named' = ws /\ restored' = TRUE
  /\ cuts # {} \/ removed \cap intervals # {}
  /\ removed' = Without(cuts) \ intervals
  /\ fillers' = {c \in {[d EXCEPT !.effective = @ \ intervals] : d \in fillers \ cuts} : c.effective # {}}
  /\ exceptions' = exceptions \cup UNION {c.words : c \in cuts}
  /\ UNCHANGED <<protected, rhythm>>

Protect(ws) ==
  /\ Asks(ws) /\ protected' = protected \cup Intervals(ws)
  /\ UNCHANGED <<removed, fillers, rhythm, exceptions>>

Unprotect(ws) ==
  /\ Asks(ws) /\ Intervals(ws) \cap protected # {} /\ protected' = protected \ Intervals(ws)
  /\ UNCHANGED <<removed, fillers, rhythm, exceptions>>

-----------------------------------------------------------------------------
(* By proposals and layers                                                 *)

\* applySpeechCuts: never what is protected.
AcceptSpeech(ws) ==
  LET allowed == (SpeechIntervals(ws) \ protected) \ removed IN
  /\ Asks(ws) /\ allowed # {} /\ removed' = MergeRemoved(allowed)
  /\ UNCHANGED <<protected, fillers, rhythm, exceptions>>

\* cutFillerOccurrence, by a person or, unless it is to be kept, automatically:
\* the range must take the filler and no part of another word that is heard.
CutFiller(f, range, origin) ==
  LET after == MergeRemoved(range) IN
  /\ Asks(f) /\ (origin = "auto" => f \cap exceptions = {})
  /\ CellsOf(f) \subseteq range /\ range \cap protected = {}
  /\ CellsOf(f) \cap removed = {} /\ \A c \in fillers : c.words # f
  /\ \A w \in Word \ f : WordCells[w] \subseteq removed \/ (after \ removed) \cap WordCells[w] = {}
  /\ removed' = after
  /\ fillers' = fillers \cup {[words |-> f, effective |-> after \ removed]}
  /\ exceptions' = IF origin = "user" THEN exceptions \ f ELSE exceptions
  /\ UNCHANGED <<protected, rhythm>>

RestoreFiller(c) ==
  /\ changes < MaxChanges /\ changes' = changes + 1 /\ named' = c.words /\ restored' = TRUE
  /\ removed' = Without({c}) /\ fillers' = fillers \ {c} /\ exceptions' = exceptions \cup c.words
  /\ UNCHANGED <<protected, rhythm>>

\* applyRhythmCuts: the layer there was is taken off before the new one is put on.
AcceptRhythm(profile) ==
  LET base == removed \ rhythm.removed
      allowed == (RhythmCells[profile] \ protected) \ base
  IN
  /\ Asks({})
  /\ removed' = base \cup allowed /\ rhythm' = [profile |-> profile, removed |-> allowed]
  /\ <<removed', rhythm'>> # <<removed, rhythm>>
  /\ UNCHANGED <<protected, fillers, exceptions>>

Next ==
  \/ \E ws \in (SUBSET Word) \ {{}} :
       Remove(ws) \/ Restore(ws) \/ Protect(ws) \/ Unprotect(ws) \/ AcceptSpeech(ws)
  \/ \E f \in Fillers : \E range \in FillerRanges[f], origin \in {"auto", "user"} : CutFiller(f, range, origin)
  \/ \E c \in fillers : RestoreFiller(c)
  \/ \E profile \in Profiles : AcceptRhythm(profile)

Spec == Init /\ [][Next]_vars

-----------------------------------------------------------------------------
(* Properties                                                              *)

\* No other word has begun before w ends, or ends after w has begun.
Alone(w) == \A v \in Word \ {w} :
  IF v < w THEN \A x \in CutCells[v], y \in WordCells[w] : x < y
           ELSE \A x \in WordCells[w], y \in CutCells[v] : x < y

\* However the cuts of several layers grow together, no request takes a protected
\* cell, any speech but in the ranges it asks for, or any of a word that it does not
\* name and that overlaps no other.
OnlyTheNamedGoes ==
  [][/\ (removed' \ removed) \cap protected = {}
     /\ \A x \in (removed' \ removed) \cap Speech :
          x \in Intervals(named') \cup SpeechIntervals(named') \cup rhythm'.removed
     /\ \A w \in Word \ named' : Alone(w) => (removed' \ removed) \cap WordCells[w] = {}]_vars

\* What wordCutInterval says of itself, that it never cuts inside the word beside.
\* Does not hold of words that overlap.
NeverCutsTheNeighbour ==
  [][\A w \in Word \ named' : (removed' \ removed) \cap WordCells[w] = {}]_vars

\* Words that are restored are heard, whichever layer or hand had removed them,
\* unless they overlap others.
RestoredIsHeard == restored => \A w \in named : Alone(w) => WordCells[w] \cap removed = {}

\* What fillers took stays cut when the rhythm changes. Does not hold: what rhythm
\* remembers is not updated when the words around a pause are removed as well.
RhythmKeepsCuts ==
  [][rhythm'.profile # rhythm.profile => \A c \in fillers : c.effective \cap removed \subseteq removed']_vars
=============================================================================
