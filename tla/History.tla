------------------------------ MODULE History ------------------------------
(***************************************************************************)
(* What undo, redo and the unsaved mark of a document promise: a line of    *)
(* contents with the present one somewhere in it, one of them marked as the *)
(* one on disk.  Session.tla implements it.                                 *)
(***************************************************************************)
EXTENDS Naturals, Sequences

CONSTANTS
  Texts,      \* The contents a document may have.
  Limit       \* How many steps back are kept, at least one.

VARIABLES
  back,       \* The contents that undo leads back to, oldest first.
  now,        \* The content of the document.
  ahead,      \* The contents that redo leads to, nearest last.
  disk        \* What the last save wrote, or the file that was opened.

vars == <<back, now, ahead, disk>>

(* A content and whether it carries the mark of the saved one.             *)
Entries == [text : Texts, saved : BOOLEAN]
Unmarked(s) == [i \in DOMAIN s |-> [s[i] EXCEPT !.saved = FALSE]]
Newest(s) == IF Len(s) > Limit THEN Tail(s) ELSE s

Front(s) == SubSeq(s, 1, Len(s) - 1)

Init ==
  /\ back = <<>> /\ ahead = <<>>
  /\ now \in Entries
  /\ disk \in Texts
  /\ now.saved => now.text = disk

(* A change is a step of its own, and forgets the oldest one past the limit *)
Change ==
  /\ \E t \in Texts : now' = [text |-> t, saved |-> FALSE]
  /\ back' = Newest(Append(back, now))
  /\ ahead' = <<>>
  /\ UNCHANGED disk

(* ... or joins the last one, but never one that was saved.                *)
Join ==
  /\ ~now.saved /\ back # <<>> /\ ahead = <<>>
  /\ \E t \in Texts : now' = [now EXCEPT !.text = t]
  /\ UNCHANGED <<back, ahead, disk>>

Undo ==
  /\ back # <<>>
  /\ now' = back[Len(back)]
  /\ back' = Front(back)
  /\ ahead' = Append(ahead, now)
  /\ UNCHANGED disk

Redo ==
  /\ ahead # <<>>
  /\ now' = ahead[Len(ahead)]
  /\ ahead' = Front(ahead)
  /\ back' = Append(back, now)
  /\ UNCHANGED disk

Save ==
  /\ now' = [now EXCEPT !.saved = TRUE]
  /\ back' = Unmarked(back)
  /\ ahead' = Unmarked(ahead)
  /\ disk' = now.text

Next == Change \/ Join \/ Undo \/ Redo \/ Save

Spec == Init /\ [][Next]_vars

-----------------------------------------------------------------------------
(* The mark is right wherever undo and redo may lead: what it marks is what *)
(* is on disk.                                                             *)
MarkIsDisk ==
  /\ now.saved => now.text = disk
  /\ \A i \in DOMAIN back : back[i].saved => back[i].text = disk
  /\ \A i \in DOMAIN ahead : ahead[i].saved => ahead[i].text = disk
=============================================================================
