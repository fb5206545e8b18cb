-------------------------- MODULE NoteStoreProofs --------------------------
(* What is proved of NoteStore for any notes, windows, edits and writes.      *)
EXTENDS NoteStore, TLAPS

(* A note is written under the numbers of one window in a run of the app.     *)
OneWindow == Reopens = FALSE

(* The calls under way and the record of a note, in the order of their        *)
(* numbers, are in the order of their texts, and none is ahead of the window.  *)
Ordered ==
  /\ \A n \in Notes : /\ edits[n] >= stored[n]
                      /\ Shown(n) => /\ n \in opened
                                     /\ text[n] >= stored[n]
                                     /\ edits[n] >= text[n]
  /\ \A c \in calls : /\ c.note \in opened
                      /\ c.seq <= counter[c.view]
                      /\ edits[c.note] >= c.ver
                      /\ c.seq >= seqs[c.note] => c.ver >= stored[c.note]
                      /\ Shown(c.note) => /\ c.view = shownIn[c.note]
                                          /\ text[c.note] >= c.ver
  /\ \A c, d \in calls : c.note = d.note /\ c.seq >= d.seq => c.ver >= d.ver

(* Every step keeps the types.  One step per action.                         *)
LEMMA TypeStep == TypeOK /\ [Next]_vars => TypeOK'
<1> SUFFICES ASSUME TypeOK, [Next]_vars PROVE TypeOK'
  OBVIOUS
<1> USE StoreAssumption, NobodyAssumption
    DEF TypeOK, Call, Reply, core, ipc, window, editor, Shown
<1>1. ASSUME NEW n \in Notes, NEW v \in Views, Open(n, v) PROVE TypeOK'
  BY <1>1 DEF Open
<1>2. ASSUME NEW n \in Notes, Edit(n) PROVE TypeOK'
  BY <1>2 DEF Edit
<1>3. ASSUME NEW n \in Notes, Persist(n) PROVE TypeOK'
  BY <1>3 DEF Persist, Sent, Drawn
<1>4. ASSUME NEW n \in Notes, Discard(n) PROVE TypeOK'
  BY <1>4 DEF Discard
<1>5. ASSUME NEW v \in Views, Close(v) PROVE TypeOK'
  BY <1>5 DEF Close
<1>6. ASSUME NEW c \in calls, Upsert(c) PROVE TypeOK'
  <2>1. PICK ok \in {TRUE, ~MayFail(c)} :
          /\ IF Stale(c) \/ ~ok
             THEN UNCHANGED core
             ELSE /\ records' = records \cup {c.note}
                  /\ stored' = [stored EXCEPT ![c.note] = c.ver]
                  /\ seqs' = [seqs EXCEPT ![c.note] = c.seq]
          /\ replies' = replies \cup {Result(c, ok \/ Stale(c))}
    BY <1>6 DEF Upsert
  <2>2. ASSUME NEW b \in BOOLEAN PROVE Result(c, b) \in Reply
    BY DEF Result
  <2>3. (ok \/ Stale(c)) \in BOOLEAN
    BY Zenon
  <2>4. Result(c, ok \/ Stale(c)) \in Reply
    BY <2>2, <2>3
  <2> QED
    BY <1>6, <2>1, <2>4 DEF Upsert
<1>7. ASSUME NEW r \in replies, HearReply(r) PROVE TypeOK'
  BY <1>7 DEF HearReply, Failures
<1>8. ASSUME Restart PROVE TypeOK'
  BY <1>8 DEF Restart
<1>9. ASSUME UNCHANGED vars PROVE TypeOK'
  BY <1>9 DEF vars
<1> QED
  BY <1>1, <1>2, <1>3, <1>4, <1>5, <1>6, <1>7, <1>8, <1>9 DEF Next

(* The state has its type, whatever is written, dropped, discarded or crashes. *)
THEOREM TypeCorrect == Spec => []TypeOK
<1>1. Init => TypeOK
  BY StoreAssumption DEF Init, TypeOK
<1> QED
  BY <1>1, TypeStep, PTL DEF Spec

-----------------------------------------------------------------------------
(* Every step keeps the order of the writes of a note.                        *)
LEMMA OrderStep ==
  ASSUME OneWindow, TypeOK, Ordered, [Next]_vars
  PROVE  Ordered'
<1> USE StoreAssumption, NobodyAssumption
    DEF TypeOK, Call, Ordered, core, ipc, window, editor, Shown
<1>1. ASSUME NEW n \in Notes, NEW v \in Views, Open(n, v) PROVE Ordered'
  BY <1>1 DEF Open, OneWindow
<1>2. ASSUME NEW n \in Notes, Edit(n) PROVE Ordered'
  BY <1>2 DEF Edit
<1>3. ASSUME NEW n \in Notes, Persist(n) PROVE Ordered'
  BY <1>3 DEF Persist, Sent, Drawn
<1>4. ASSUME NEW n \in Notes, Discard(n) PROVE Ordered'
  BY <1>4 DEF Discard
<1>5. ASSUME NEW v \in Views, Close(v) PROVE Ordered'
  BY <1>5 DEF Close
<1>6. ASSUME NEW c \in calls, Upsert(c) PROVE Ordered'
  BY <1>6 DEF Upsert, Stale
<1>7. ASSUME NEW r \in replies, HearReply(r) PROVE Ordered'
  BY <1>7 DEF HearReply
<1>8. ASSUME Restart PROVE Ordered'
  BY <1>8 DEF Restart
<1>9. ASSUME UNCHANGED vars PROVE Ordered'
  BY <1>9 DEF vars
<1> QED
  BY <1>1, <1>2, <1>3, <1>4, <1>5, <1>6, <1>7, <1>8, <1>9 DEF Next

(* Init is in order, and so is every state after it, when a run of the app    *)
(* shows a note in one window at most.                                       *)
LEMMA AlwaysOrdered ==
  ASSUME OneWindow
  PROVE  Spec => [](TypeOK /\ Ordered)
<1>1. Init => TypeOK /\ Ordered
  BY StoreAssumption, NobodyAssumption DEF Init, TypeOK, Ordered, Shown
<1>2. TypeOK /\ Ordered /\ [Next]_vars => (TypeOK /\ Ordered)'
  BY TypeStep, OrderStep
<1> QED
  BY <1>1, <1>2, PTL DEF Spec

(* The text of a record never goes back to an older one, whichever order the   *)
(* pool runs the writes in and whichever of them fail, as long as a run shows a *)
(* note in one window (upsert_ordered, nextSeq).                             *)
THEOREM NeverOlder ==
  ASSUME OneWindow
  PROVE  Spec => NoStepBack
<1> DEFINE Kept == \A n \in Notes : n \in records => stored'[n] >= stored[n]
<1>1. TypeOK /\ Ordered /\ [Next]_vars => [Kept]_vars
  <2> SUFFICES ASSUME TypeOK, Ordered, Next PROVE Kept
    OBVIOUS
  <2> USE DEF TypeOK, core, ipc, window, editor
  <2>1. CASE UNCHANGED stored
    BY <2>1
  <2>2. CASE \E c \in calls : Upsert(c)
    BY <2>2 DEF Upsert, Ordered, Stale, Call
  <2> QED
    BY <2>1, <2>2 DEF Next, Edit, Persist, Discard, Open, Close, HearReply,
                      Restart
<1>2. Spec => [](TypeOK /\ Ordered)
  BY AlwaysOrdered
<1> QED
  BY <1>1, <1>2, PTL DEF NoStepBack, Spec

-----------------------------------------------------------------------------
(* Where the text of a note is that was not thrown away: in the store, still   *)
(* with its window, or on the way in the write the window sent last.          *)
Held(n) ==
  IF ~Shown(n) THEN stored[n] = text[n]
  ELSE \/ n \in unsaved
       \/ stored[n] = text[n]
       \/ \E c \in calls : /\ c.note = n /\ c.view = shownIn[n]
                           /\ c.seq = last[n] /\ c.ver = text[n]

(* The window that shows a note sent its last write under the highest number.  *)
Numbered(n) ==
  /\ n \notin opened => seqs[n] = 0
  /\ Shown(n) => seqs[n] <= last[n] /\ last[n] <= counter[shownIn[n]]

Behind(c) ==
  /\ Shown(c.note) => c.seq <= last[c.note]
  /\ c.note \notin discarded => text[c.note] >= c.ver

Fresh ==
  /\ \A n \in Notes : Numbered(n)
  /\ \A c \in calls : Behind(c)
  /\ \A n \in Notes \ discarded : Held(n)

(* No write fails: a failing one is not in the core's order.                  *)
NeverFails == Failing = "never"

(* Every step keeps the text of a note in one of these three places.          *)
LEMMA FreshStep ==
  ASSUME OneWindow, NeverFails, TypeOK, Ordered, Ordered', Fresh, [Next]_vars
  PROVE  Fresh'
<1> USE StoreAssumption, NobodyAssumption
    DEF TypeOK, Call, core, ipc, window, editor, Shown, Numbered, Behind, Held
<1>1. ASSUME NEW n \in Notes, NEW v \in Views, Open(n, v) PROVE Fresh'
  BY <1>1 DEF Open, OneWindow, Ordered, Fresh
<1>2. ASSUME NEW n \in Notes, Edit(n) PROVE Fresh'
  BY <1>2 DEF Edit, Ordered, Fresh
<1>3. ASSUME NEW n \in Notes, Persist(n) PROVE Fresh'
  <2>1. \A m \in Notes : Numbered(m)'
    BY <1>3 DEF Persist, Sent, Drawn, Ordered, Fresh
  <2>2. \A c \in calls' : Behind(c)'
    BY <1>3 DEF Persist, Sent, Drawn, Ordered, Fresh
  <2>3. ASSUME NEW m \in Notes \ discarded PROVE Held(m)'
    <3>1. CASE m = n
      <4> DEFINE k == [note |-> n, view |-> shownIn[n],
                       seq |-> Drawn(shownIn[n]), ver |-> text[n]]
      <4>1. k \in calls' /\ last'[n] = k.seq
        BY <1>3 DEF Persist, Sent
      <4>2. /\ k.note = n /\ k.view = shownIn'[n] /\ k.ver = text'[n]
            /\ Shown(n)'
        BY <1>3 DEF Persist
      <4> HIDE DEF k
      <4> QED
        BY <3>1, <4>1, <4>2
    <3>2. CASE m # n
      BY <1>3, <3>2 DEF Persist, Sent, Drawn, Fresh
    <3> QED
      BY <3>1, <3>2
  <2> QED
    BY <1>3, <2>1, <2>2, <2>3 DEF Persist, Fresh
<1>4. ASSUME NEW n \in Notes, Discard(n) PROVE Fresh'
  BY <1>4 DEF Discard, Fresh
<1>5. ASSUME NEW v \in Views, Close(v) PROVE Fresh'
  BY <1>5 DEF Close, Flushed, Fresh
<1>6. ASSUME NEW c \in calls, Upsert(c) PROVE Fresh'
  <2>1. \A m \in Notes : Numbered(m)'
    BY <1>6 DEF Upsert, Stale, Ordered, Fresh
  <2>2. \A d \in calls' : Behind(d)'
    BY <1>6 DEF Upsert, Fresh
  <2>3. ASSUME NEW m \in Notes \ discarded PROVE Held(m)'
    <3>1. CASE c.note # m
      BY <1>6, <3>1 DEF Upsert, Fresh
    <3>2. CASE c.note = m /\ Stale(c)
      BY <1>6, <3>2 DEF Upsert, Stale, Fresh
    <3>3. CASE c.note = m /\ ~Stale(c)
      <4>1. /\ stored' = [stored EXCEPT ![c.note] = c.ver]
            /\ calls' = calls \ {c}
            /\ UNCHANGED <<text, shownIn, unsaved, last>>
        BY <1>6, <3>3 DEF Upsert, MayFail, NeverFails
      <4>2. c.ver >= stored[m] /\ text[m] >= c.ver
        BY <3>3 DEF Stale, Ordered, Fresh
      <4>3. Held(m)
        BY DEF Fresh
      <4>4. stored'[m] = c.ver
        BY <3>3, <4>1
      <4>5. CASE stored[m] = text[m]
        BY <4>1, <4>2, <4>4, <4>5
      <4>6. CASE stored[m] # text[m]
        BY <3>3, <4>1, <4>3, <4>4, <4>6
      <4> QED
        BY <4>5, <4>6
    <3> QED
      BY <3>1, <3>2, <3>3
  <2> QED
    BY <1>6, <2>1, <2>2, <2>3 DEF Upsert, Fresh
<1>7. ASSUME NEW r \in replies, HearReply(r) PROVE Fresh'
  BY <1>7 DEF HearReply, Fresh
<1>8. ASSUME Restart PROVE Fresh'
  BY <1>8 DEF Restart, Fresh
<1>9. ASSUME UNCHANGED vars PROVE Fresh'
  BY <1>9 DEF vars, Fresh
<1> QED
  BY <1>1, <1>2, <1>3, <1>4, <1>5, <1>6, <1>7, <1>8, <1>9 DEF Next

(* A window that is flushed, and a window that closed, left the text it showed  *)
(* in the store: what closing and quitting rest on, for any notes, windows,     *)
(* edits and writes under way, with any order of the writes and a restart at    *)
(* any moment, as long as no write fails and a run shows a note in one window.  *)
THEOREM FlushedStored ==
  ASSUME OneWindow, NeverFails
  PROVE  Spec => []FlushedIsStored
<1>1. Init => Fresh
  BY NobodyAssumption DEF Init, Fresh, Shown, Numbered, Behind, Held
<1>2. TypeOK /\ Ordered /\ (TypeOK /\ Ordered)' /\ Fresh /\ [Next]_vars
      => Fresh'
  BY FreshStep
<1>3. TypeOK /\ Fresh => FlushedIsStored
  BY DEF TypeOK, Fresh, Held, FlushedIsStored, Flushed, Shown
<1>4. Spec => [](TypeOK /\ Ordered)
  BY AlwaysOrdered
<1> QED
  BY <1>1, <1>2, <1>3, <1>4, PTL DEF Spec
=============================================================================
