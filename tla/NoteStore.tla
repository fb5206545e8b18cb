----------------------------- MODULE NoteStore -----------------------------
(***************************************************************************)
(* How the text of a note reaches its snapshot (upsert_ordered and delete of *)
(* src-tauri/src/note_store.rs, seq.ts, debounce.ts, stickyNote.svelte.ts,   *)
(* upsertTab of documentWindow.svelte.ts).  A window writes a note some time *)
(* after its last edit; the writes run on a pool of threads in any order,    *)
(* and the store drops one whose number is lower than the last it wrote for  *)
(* that note.  The number is drawn by the script of the window.  A deletion  *)
(* has none.                                                               *)
(***************************************************************************)
EXTENDS Naturals, FiniteSets

CONSTANTS
  Notes,     \* The notes, sticky or document.
  Views,     \* The windows that show them, each a script of its own.
  MaxEdits,  \* How often a note is edited: bounds the runs only.
  MaxCalls,  \* How many writes are under way at once.
  Failing,   \* Whether a write may fail: "never", "alone" (with no other write
             \* under way) or "any".
  Reopens    \* Whether a run of the app opens a note in a second window.

ASSUME StoreAssumption ==
  /\ MaxEdits \in Nat /\ MaxCalls \in Nat
  /\ Failing \in {"never", "alone", "any"} /\ Reopens \in BOOLEAN

Nobody == "no window"
ASSUME NobodyAssumption == Nobody \notin Views

VARIABLES
  records,   \* The notes that have a record in the store and on disk ...
  stored,    \* ... and its text, by the edit that made it.
  seqs,      \* The number of the last write of a note; 0: there is none.
  calls,     \* The upsert_note calls under way.
  replies,   \* Their results on the way back.
  shownIn,   \* The window that shows a note.
  gone,      \* The windows that were closed.
  counter,   \* The last number a window drew.
  edits,     \* The last edit of a note ...
  text,      \* ... and the text its window shows, or showed last.
  unsaved,   \* The notes whose write waits for the user to pause.
  last,      \* The number of the last write a window sent for a note.
  failed,    \* The notes whose window believes its last write failed.
  opened,    \* The notes that were opened in this run of the app.
  discarded  \* The notes the user threw away.

core   == <<records, stored, seqs>>
ipc    == <<calls, replies>>
window == <<shownIn, gone, counter, opened>>
editor == <<edits, text, unsaved, last, failed>>
vars   == <<core, ipc, window, editor, discarded>>

Call  == [note : Notes, view : Views, seq : Nat, ver : Nat]
Reply == [note : Notes, view : Views, seq : Nat, ok : BOOLEAN]

TypeOK ==
  /\ records \in SUBSET Notes
  /\ stored \in [Notes -> Nat]
  /\ seqs \in [Notes -> Nat]
  /\ calls \in SUBSET Call
  /\ replies \in SUBSET Reply
  /\ shownIn \in [Notes -> Views \cup {Nobody}]
  /\ gone \in SUBSET Views
  /\ counter \in [Views -> Nat]
  /\ opened \in SUBSET Notes
  /\ edits \in [Notes -> Nat]
  /\ text \in [Notes -> Nat]
  /\ unsaved \in SUBSET Notes
  /\ last \in [Notes -> Nat]
  /\ failed \in SUBSET Notes
  /\ discarded \in SUBSET Notes

Init ==
  /\ records = Notes
  /\ stored = [n \in Notes |-> 0]
  /\ seqs = [n \in Notes |-> 0]
  /\ calls = {} /\ replies = {}
  /\ shownIn = [n \in Notes |-> Nobody]
  /\ gone = {}
  /\ counter = [v \in Views |-> 0]
  /\ opened = {}
  /\ edits = [n \in Notes |-> 0]
  /\ text = [n \in Notes |-> 0]
  /\ unsaved = {}
  /\ last = [n \in Notes |-> 0]
  /\ failed = {}
  /\ discarded = {}

Shown(n) == shownIn[n] # Nobody

(* Wrong: the write that was sent last is not awaited.                       *)
Flushed_Unawaited(n) == n \notin unsaved

(* flush: no write waits, and the last that was sent has come back.          *)
Flushed(n) ==
  /\ n \notin unsaved
  /\ \A m \in calls \cup replies :
       ~(m.note = n /\ m.view = shownIn[n] /\ m.seq = last[n])

-----------------------------------------------------------------------------
(* The windows.                                                            *)

(* A window shows a note as the store has it.                               *)
Open(n, v) ==
  /\ ~Shown(n) /\ n \in records /\ v \notin gone
  /\ Reopens \/ n \notin opened
  /\ shownIn' = [shownIn EXCEPT ![n] = v]
  /\ opened' = opened \cup {n}
  /\ text' = [text EXCEPT ![n] = stored[n]]
  /\ last' = [last EXCEPT ![n] = 0]
  /\ failed' = failed \ {n}
  /\ UNCHANGED <<core, ipc, gone, counter, edits, unsaved, discarded>>

Edit(n) ==
  /\ Shown(n) /\ edits[n] < MaxEdits
  /\ edits' = [edits EXCEPT ![n] = @ + 1]
  /\ text' = [text EXCEPT ![n] = edits[n] + 1]
  /\ unsaved' = unsaved \cup {n}
  /\ UNCHANGED <<core, ipc, window, last, failed, discarded>>

(* nextSeq.                                                                *)
Drawn(v) == counter[v] + 1

(* Wrong: nothing is sent while a write of the note is under way.            *)
Sent_OneAtATime(n, v) ==
  IF \E c \in calls : c.note = n THEN {}
  ELSE {[note |-> n, view |-> v, seq |-> Drawn(v), ver |-> text[n]]}

Sent(n, v) == {[note |-> n, view |-> v, seq |-> Drawn(v), ver |-> text[n]]}

(* The user paused, or a flush does not wait for that: the text is sent.      *)
Persist(n) ==
  LET v == shownIn[n] IN
  /\ Shown(n) /\ n \in unsaved
  /\ Cardinality(calls \cup replies) < MaxCalls
  /\ counter' = [counter EXCEPT ![v] = Drawn(v)]
  /\ last' = [last EXCEPT ![n] = Drawn(v)]
  /\ calls' = calls \cup Sent(n, v)
  /\ unsaved' = unsaved \ {n}
  /\ UNCHANGED <<core, replies, shownIn, gone, opened, edits, text, failed,
                 discarded>>

(* Wrong: a failure goes to the console alone.                              *)
Failures_Logged(r) == failed \ {r.note}

Failures(r) == IF r.ok THEN failed \ {r.note} ELSE failed \cup {r.note}

(* The result of a write, if the window still shows the note: whichever write *)
(* it is of, it says whether the last one failed.                            *)
HearReply(r) ==
  /\ r \in replies
  /\ replies' = replies \ {r}
  /\ failed' = IF shownIn[r.note] # r.view THEN failed
               ELSE Failures(r)
  /\ UNCHANGED <<core, calls, window, edits, text, unsaved, last, discarded>>

(* A window closes when everything it shows is flushed, and stays open when   *)
(* something of it could not be written.                                    *)
Close(v) ==
  /\ v \notin gone
  /\ \E n \in Notes : shownIn[n] = v
  /\ \A n \in Notes : shownIn[n] = v => Flushed(n) /\ n \notin failed
  /\ gone' = gone \cup {v}
  /\ shownIn' = [n \in Notes |-> IF shownIn[n] = v THEN Nobody ELSE shownIn[n]]
  /\ UNCHANGED <<core, ipc, counter, opened, editor, discarded>>

(* The user throws a note away.  What waits to be written is dropped; what     *)
(* was sent is under way.                                                  *)
Discard(n) ==
  /\ Shown(n)
  /\ unsaved' = unsaved \ {n}
  /\ records' = records \ {n}
  /\ shownIn' = [shownIn EXCEPT ![n] = Nobody]
  /\ discarded' = discarded \cup {n}
  /\ UNCHANGED <<stored, seqs, ipc, gone, counter, opened, edits, text, last,
                 failed>>

-----------------------------------------------------------------------------
(* The core.                                                               *)

(* Wrong: writes are applied as they come.                                  *)
Stale_Never(c) == FALSE

Stale(c) == c.seq < seqs[c.note]

(* Wrong: the result is addressed to the note and not to the window.          *)
Result_ToNote(c, ok) ==
  [note |-> c.note, view |-> c.note, seq |-> c.seq, ok |-> ok]

Result(c, ok) == [note |-> c.note, view |-> c.view, seq |-> c.seq, ok |-> ok]

(* The record cannot be written.                                           *)
MayFail(c) == Failing = "any" \/ (Failing = "alone" /\ calls \cup replies = {c})

(* upsert_ordered: a write that is dropped is reported like one that was done. *)
Upsert(c) ==
  /\ c \in calls
  /\ calls' = calls \ {c}
  /\ \E ok \in {TRUE, ~MayFail(c)} :
       /\ IF Stale(c) \/ ~ok
          THEN UNCHANGED core
          ELSE /\ records' = records \cup {c.note}
               /\ stored' = [stored EXCEPT ![c.note] = c.ver]
               /\ seqs' = [seqs EXCEPT ![c.note] = c.seq]
       /\ replies' = replies \cup {Result(c, ok \/ Stale(c))}
  /\ UNCHANGED <<window, editor, discarded>>

(* The app goes away at any moment and is started again: the store is what is *)
(* on disk, and its numbers begin anew like those of the windows.             *)
Restart ==
  /\ seqs' = [n \in Notes |-> 0]
  /\ calls' = {} /\ replies' = {}
  /\ text' = [n \in Notes |-> IF Shown(n) THEN stored[n]
                              ELSE text[n]]
  /\ shownIn' = [n \in Notes |-> Nobody]
  /\ gone' = {}
  /\ counter' = [v \in Views |-> 0]
  /\ opened' = {}
  /\ unsaved' = {}
  /\ last' = [n \in Notes |-> 0]
  /\ failed' = {}
  /\ UNCHANGED <<records, stored, edits, discarded>>

Next ==
  \/ \E n \in Notes : \/ Edit(n) \/ Persist(n) \/ Discard(n)
                      \/ \E v \in Views : Open(n, v)
  \/ \E v \in Views : Close(v)
  \/ \E c \in calls : Upsert(c)
  \/ \E r \in replies : HearReply(r)
  \/ Restart

(* Timers fire, the pool runs what it is given and scripts hear the results.  *)
Fairness ==
  /\ \A n \in Notes : WF_vars(Persist(n))
  /\ WF_vars(\E c \in calls : Upsert(c))
  /\ WF_vars(\E r \in replies : HearReply(r))

Spec == Init /\ [][Next]_vars
FairSpec == Spec /\ Fairness

-----------------------------------------------------------------------------
(* What a window believes to be written is in the store: a note that is       *)
(* flushed, with no failure to show for it, and a note whose window closed    *)
(* (flush, snapshotFailed, upsert_ordered).  Closing and quitting rest on it.  *)
FlushedIsStored ==
  \A n \in Notes \ discarded :
    (Shown(n) => Flushed(n) /\ n \notin failed) => stored[n] = text[n]

(* A write never puts an older text in the place of a newer one, whichever    *)
(* order the pool runs the writes in (upsert_ordered).                       *)
NoStepBack ==
  [][\A n \in Notes :
       n \in records => stored'[n] >= stored[n]]_vars

(* A note that was thrown away does not come back (discard, "so a following   *)
(* delete can't be undone by it").                                         *)
DiscardedStaysAway == discarded \cap records = {}

(* What the user typed is stored, unless the note goes or the app does, or    *)
(* the window is told that it could not be.                                  *)
EditsAreStored ==
  \A n \in Notes : n \in unsaved ~> (~Shown(n) \/ stored[n] = text[n] \/ n \in failed)
=============================================================================
