------------------------------ MODULE UndoStack ------------------------------
(***************************************************************************)
(* What the editor promises about a project's editorial content, with no   *)
(* file, photo, revision or request: an edit can be undone step by step,   *)
(* back to exactly what it replaced, as long as only undoable changes are  *)
(* made; and losing the newest save takes the project back to what it was  *)
(* just before that save, its undo steps included.                         *)
(***************************************************************************)
EXTENDS Naturals, Sequences, SequencesExt

CONSTANTS Editor,     \* who makes a change; a content is the changes made
          UndoLimit   \* steps that are remembered

VARIABLES content,    \* what the project says
          past,       \* what the undo button goes back to, newest last
          kept        \* what is left if the newest save is lost

vars == <<content, past, kept>>
Now == <<content, past>>

Init == /\ content = <<>>
        /\ past = <<>>
        /\ kept = Now

\* The state is put aside; a change is only made to a state put aside.
Keep == /\ kept' = Now
        /\ UNCHANGED <<content, past>>

Newest(s) == SubSeq(s, IF Len(s) > UndoLimit THEN Len(s) - UndoLimit + 1 ELSE 1, Len(s))

Edit(e) == /\ content' = Append(content, e)
           /\ past' = Newest(Append(past, content))

\* A change that cannot be undone ends the possibility to undo the others.
Replace(e) == /\ content' = Append(content, e)
              /\ past' = <<>>

Undo == /\ past # <<>>
        /\ content' = Last(past)
        /\ past' = Front(past)

Change == /\ kept = Now
          /\ Undo \/ \E e \in Editor : Edit(e) \/ Replace(e)
          /\ UNCHANGED kept

LoseNewest == /\ content' = kept[1]
              /\ past' = kept[2]
              /\ UNCHANGED kept

Next == Keep \/ Change \/ LoseNewest

Spec == Init /\ [][Next]_vars
=============================================================================
