--------------------------- MODULE HistoryProofs ---------------------------
(* Proofs about History, for any texts and any limit of at least one.       *)
EXTENDS History, TLAPS

TypeOK ==
  /\ back \in Seq(Entries) /\ ahead \in Seq(Entries)
  /\ now \in Entries /\ disk \in Texts

LEMMA FrontType ==
  ASSUME NEW s \in Seq(Entries), s # <<>>
  PROVE  /\ Front(s) \in Seq(Entries)
         /\ s[Len(s)] \in Entries
         /\ Len(s) \in DOMAIN s
         /\ \A i \in DOMAIN Front(s) : i \in DOMAIN s /\ Front(s)[i] = s[i]
  BY DEF Front

LEMMA NewestType ==
  ASSUME Limit \in Nat \ {0}, NEW s \in Seq(Entries), NEW e \in Entries
  PROVE  /\ Newest(Append(s, e)) \in Seq(Entries)
         /\ \A i \in DOMAIN Newest(Append(s, e)) :
              Newest(Append(s, e))[i] = e \/ \E j \in DOMAIN s : Newest(Append(s, e))[i] = s[j]
  <1>1. CASE Len(Append(s, e)) > Limit
    BY <1>1 DEF Newest
  <1>2. CASE ~(Len(Append(s, e)) > Limit)
    BY <1>2 DEF Newest
  <1>3. QED BY <1>1, <1>2

LEMMA UnmarkedType ==
  ASSUME NEW s \in Seq(Entries)
  PROVE  /\ Unmarked(s) \in Seq(Entries)
         /\ \A i \in DOMAIN Unmarked(s) : ~Unmarked(s)[i].saved
  <1>1. ASSUME NEW e \in Entries
        PROVE  [e EXCEPT !.saved = FALSE] \in Entries /\ ~[e EXCEPT !.saved = FALSE].saved
    BY DEF Entries
  <1>2. Unmarked(s) \in Seq(Entries)
    BY <1>1 DEF Unmarked
  <1>3. \A i \in DOMAIN Unmarked(s) : i \in DOMAIN s /\ s[i] \in Entries /\ Unmarked(s)[i] = [s[i] EXCEPT !.saved = FALSE]
    BY DEF Unmarked
  <1>4. QED BY <1>1, <1>2, <1>3

(* What is marked as saved is what is on disk, wherever undo and redo lead  *)
(* to, however many steps were dropped at the limit.                       *)
THEOREM SavedIsDisk ==
  ASSUME Limit \in Nat \ {0}
  PROVE  Spec => []MarkIsDisk
  <1>1. Init => TypeOK /\ MarkIsDisk
    BY DEF Init, TypeOK, MarkIsDisk
  <1>2. TypeOK /\ MarkIsDisk /\ [Next]_vars => TypeOK' /\ MarkIsDisk'
    <2> SUFFICES ASSUME TypeOK, MarkIsDisk, [Next]_vars PROVE TypeOK' /\ MarkIsDisk'
      OBVIOUS
    <2> USE DEF TypeOK, MarkIsDisk
    <2>1. CASE Change
      <3>1. now' \in Entries /\ ~now'.saved
        BY <2>1 DEF Change, Entries
      <3>2. back' \in Seq(Entries) /\ \A i \in DOMAIN back' : back'[i] = now \/ \E j \in DOMAIN back : back'[i] = back[j]
        BY <2>1, NewestType DEF Change
      <3>3. ahead' = <<>> /\ ahead' \in Seq(Entries) /\ disk' = disk
        BY <2>1 DEF Change
      <3>4. \A i \in DOMAIN back' : back'[i].saved => back'[i].text = disk'
        BY <3>2, <3>3
      <3>5. QED BY <3>1, <3>2, <3>3, <3>4
    <2>2. CASE Join
      <3>1. now' \in Entries /\ ~now'.saved
        BY <2>2 DEF Join, Entries
      <3>2. QED BY <2>2, <3>1 DEF Join
    <2>3. CASE Undo
      BY <2>3, FrontType DEF Undo
    <2>4. CASE Redo
      BY <2>4, FrontType DEF Redo
    <2>5. CASE Save
      <3>1. now' \in Entries /\ now'.text = now.text
        BY <2>5 DEF Save, Entries
      <3>2. disk' \in Texts
        BY <2>5 DEF Save, Entries
      <3>3. QED BY <2>5, <3>1, <3>2, UnmarkedType DEF Save
    <2>6. CASE UNCHANGED vars
      BY <2>6 DEF vars
    <2>7. QED BY <2>1, <2>2, <2>3, <2>4, <2>5, <2>6 DEF Next
  <1>3. QED BY <1>1, <1>2, PTL DEF Spec
=============================================================================
