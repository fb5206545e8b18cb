------------------------------ MODULE NoteText ------------------------------
(***************************************************************************)
(* What converting a note promises, whoever carries it out: the text of a   *)
(* note is at one place at a time, and it stays until the user throws it    *)
(* away or has it in a file.  Handoff.tla implements this.                  *)
(***************************************************************************)
CONSTANT Notes

VARIABLES
  where,      \* The place of the text: the newest copy the user can get at.
  kept,       \* The notes whose record can still be brought back.
  discarded   \* The notes the user threw away.

vars == <<where, kept, discarded>>

Init ==
  /\ where = [n \in Notes |-> "note"]
  /\ kept = Notes
  /\ discarded = {}

(* Where the text is when nothing else has it.                             *)
Home(n) == IF n \in kept THEN "note" ELSE "discarded"

(* A note that is kept leaves for a document window ...                     *)
Leave(n) ==
  /\ where[n] = "note"
  /\ n \in kept
  /\ where' = [where EXCEPT ![n] = "moving"]
  /\ UNCHANGED <<kept, discarded>>

(* ... where it arrives as a tab, ...                                      *)
Arrive(n) ==
  /\ where[n] = "moving"
  /\ where' = [where EXCEPT ![n] = "tab"]
  /\ UNCHANGED <<kept, discarded>>

(* ... or not.  An unsaved tab that goes sends it home as well.  One window  *)
(* that goes can send several notes home at once.                          *)
Return(ns) ==
  /\ \A n \in ns : where[n] \in {"moving", "tab"}
  /\ where' = [n \in Notes |-> IF n \in ns THEN Home(n) ELSE where[n]]
  /\ UNCHANGED <<kept, discarded>>

Save(n) ==
  /\ where[n] = "tab"
  /\ where' = [where EXCEPT ![n] = "file"]
  /\ UNCHANGED <<kept, discarded>>

(* Only a note that is in a file loses its record by itself.                *)
Forget(n) ==
  /\ where[n] = "file"
  /\ kept' = kept \ {n}
  /\ UNCHANGED <<where, discarded>>

Discard(n) ==
  /\ n \in kept
  /\ kept' = kept \ {n}
  /\ discarded' = discarded \cup {n}
  /\ where' = IF where[n] = "note" THEN [where EXCEPT ![n] = "discarded"]
              ELSE where

Next ==
  \/ \E n \in Notes : Leave(n) \/ Arrive(n) \/ Save(n) \/ Forget(n) \/ Discard(n)
  \/ \E ns \in SUBSET Notes : Return(ns)

Spec == Init /\ [][Next]_vars
=============================================================================
