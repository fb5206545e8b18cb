-------------------------------- MODULE Tabs --------------------------------
(***************************************************************************)
(* The ordinary tabs of a document window (documentWindow.svelte.ts,        *)
(* missingFiles.svelte.ts, closeGate.svelte.ts): how a text gets into its   *)
(* file, how it gets into the record a restart reads, and how a tab and the *)
(* window are closed.                                                      *)
(*                                                                         *)
(* The scripts of a window run one at a time but stop at every await.  A    *)
(* script that waits is a job; the user, the timer and the other scripts go *)
(* on meanwhile.                                                           *)
(***************************************************************************)
EXTENDS Naturals, Sequences, SequencesExt, FiniteSets

CONSTANTS
  Files,        \* Paths.
  Jobs,         \* Scripts that may wait at once.
  None,
  MaxTabs,      \* Bound on the tabs that are opened.
  MaxEdits,     \* Bound on the texts that are typed.
  MaxCalls,     \* Bound on the writes of records under way.
  Failing,      \* What may fail: "first", the first save of an untitled tab;
                \* "file", any other write of a file; "record", the write of a
                \* record with changes and no other of its tab under way;
                \* "records", that of any record; "delete", the removal of a
                \* record that shows its tab as it is; "deletes", of any.
  Careless,     \* What the user may do: "type", while a script of his waits;
                \* "turn", to another tab or to the close button of the window
                \* with a question on the screen; "over", save a tab over the file of another.
  Overtaking    \* Whether a deletion may overtake a write sent before it.

ASSUME TabsAssumption ==
  /\ None \notin Files \cup Jobs \cup Nat
  /\ MaxTabs \in Nat /\ MaxEdits \in Nat /\ MaxCalls \in Nat
  /\ Failing \subseteq {"file", "first", "record", "records",
                  "delete", "deletes"}
  /\ Careless \subseteq {"type", "turn", "over"}
  /\ Overtaking \in BOOLEAN

VARIABLES
  disk,         \* File -> its text.
  stored,       \* Tab -> its record in the note store.
  calls,        \* Writes of records under way, in the order of their numbers.
  doomed,       \* Tabs of the closed window whose records are about to go.
  up,           \* Whether the window is open.
  tabs, active, \* The tabs in their order, and which of them is shown.
  path,         \* Tab -> its file, None for an untitled tab.
  text,         \* Tab -> its buffer.
  base,         \* Tab -> savedContent, the text the buffer is compared with.
  unwritten,    \* Tabs with writeFailed.
  timer,        \* Whether persistActive waits.
  settled,      \* Whether lastSave has settled.
  asking,       \* The tab confirmClose was raised for, None if it is down.
  gate,         \* The tab the close gate is up for, None if it is down.
  job,          \* What each script waits for.
  edits, made   \* How many texts were typed and tabs made.

files == <<disk>>
store == <<stored, calls, doomed>>
frame == <<up, tabs, active>>
buffers == <<path, text, base>>
saving == <<unwritten, timer, settled>>
dialogs == <<asking, gate>>
history == <<edits, made>>
vars == <<files, store, frame, buffers, saving, dialogs, job, history>>

Tabs == 1..MaxTabs
Empty == 0
OnDisk == 1
Texts == 0..(MaxEdits + 1)

Record == [path : Files \cup {None}, dirty : BOOLEAN, text : Texts]
ASSUME NoRecordIsNone == None \notin Record
Call == [tab : Tabs, rec : Record, live : BOOLEAN, by : SUBSET Jobs]

(* What a script waits for.                                                *)
Idle == [pc |-> "idle"]
Write(t, f, c, how, then) ==
  [pc |-> "write", tab |-> t, to |-> f, out |-> c, how |-> how, then |-> then]
Wrote(t, f, c, how, then) ==
  [pc |-> "wrote", tab |-> t, to |-> f, out |-> c, how |-> how, then |-> then]
Recording(then) == [pc |-> "record", then |-> then]
Deleting(t, i, let) == [pc |-> "delete", tab |-> t, at |-> i, letGo |-> let]
Turning(i, t, then) == [pc |-> "turn", at |-> i, tab |-> t, then |-> then]
Rereading(t) == [pc |-> "reread", tab |-> t]
Flushing == [pc |-> "flush"]
Thens == {"end", "close", "gate", "check"}

Hows == {"save", "first", "as"}

JobState ==
  {Idle, Flushing}
  \cup [pc : {"write", "wrote"}, tab : Tabs, to : Files, out : Texts,
        how : Hows, then : Thens]
  \cup [pc : {"record"}, then : Thens]
  \cup [pc : {"delete"}, tab : Tabs, at : Nat, letGo : Tabs \cup {None}]
  \cup [pc : {"turn"}, at : Nat, tab : Tabs \cup {None}, then : Thens]
  \cup [pc : {"reread"}, tab : Tabs]

TypeOK ==
  /\ disk \in [Files -> Texts]
  /\ stored \in [Tabs -> Record \cup {None}]
  /\ calls \in Seq(Call)
  /\ doomed \in SUBSET Tabs
  /\ up \in BOOLEAN
  /\ tabs \in Seq(Tabs)
  /\ active \in Nat \ {0}
  /\ path \in [Tabs -> Files \cup {None}]
  /\ text \in [Tabs -> Texts]
  /\ base \in [Tabs -> Texts]
  /\ unwritten \in SUBSET Tabs
  /\ timer \in BOOLEAN /\ settled \in BOOLEAN
  /\ asking \in Tabs \cup {None}
  /\ gate \in Tabs \cup {None}
  /\ job \in [Jobs -> JobState]
  /\ edits \in 0..MaxEdits /\ made \in 0..MaxTabs

Init ==
  /\ disk = [f \in Files |-> OnDisk]
  /\ stored = [t \in Tabs |-> None]
  /\ calls = <<>> /\ doomed = {}
  /\ up = TRUE
  /\ tabs = <<>> /\ active = 1
  /\ path = [t \in Tabs |-> None]
  /\ text = [t \in Tabs |-> Empty]
  /\ base = [t \in Tabs |-> Empty]
  /\ unwritten = {} /\ timer = FALSE /\ settled = TRUE
  /\ asking = None /\ gate = None
  /\ job = [j \in Jobs |-> Idle]
  /\ edits = 0 /\ made = 0

Open == ToSet(tabs)
Shown == active \in DOMAIN tabs
Current == tabs[active]
Dirty(t) == text[t] # base[t]
Resting == \A j \in Jobs : job[j] = Idle

(* A set of numbers in its order.                                           *)
InOrder(S) == {s \in [1..Cardinality(S) -> S] :
                \A i, k \in DOMAIN s : i < k => s[i] < s[k]}
Free(j) == up /\ job[j] = Idle

(* The files the user picks for a tab in the save dialog.                   *)
Offered(t) ==
  {f \in Files : "over" \in Careless
                 \/ \A u \in Open \ {t} : path[u] # f}

-----------------------------------------------------------------------------
(* The records.                                                            *)

(* snapshot, of the texts the script left: a clean tab is read from its file  *)
(* again.                                                                  *)
Snapshot(tx, t) ==
  [path |-> path[t], dirty |-> tx[t] # base[t],
   text |-> IF tx[t] # base[t] THEN tx[t] ELSE Empty]

CleanRecord(f) == [path |-> f, dirty |-> FALSE, text |-> Empty]

Sent(tx, t, by) == [tab |-> t, rec |-> Snapshot(tx, t), live |-> TRUE, by |-> by]

(* The write that was sent last is awaited, if it is under way still.        *)
Awaited(cs, done, j) ==
  IF done \/ cs = <<>> THEN cs
  ELSE [cs EXCEPT ![Len(cs)].by = @ \cup {j}]

(* Wrong: the timer is stopped and nothing is sent.                          *)
FlushTimer_Cancel(j, tx, cs, done) ==
  /\ timer' = FALSE
  /\ settled' = done
  /\ calls' = Awaited(cs, done, j)

(* persistActive.flush, then await lastSave; tx, cs and done are the texts,   *)
(* the writes and the state of lastSave that the script left so far.         *)
FlushTimer(j, tx, cs, done) ==
  LET send == timer /\ Shown IN
  /\ timer' = FALSE
  /\ settled' = (done /\ ~send)
  /\ calls' = IF send THEN Append(cs, Sent(tx, Current, {j}))
              ELSE Awaited(cs, done, j)
  /\ Len(calls') <= MaxCalls

Waits(j) == \E i \in DOMAIN calls : j \in calls[i].by

(* The timer fires: the tab shown by then is written.                       *)
Persist ==
  /\ up /\ timer
  /\ timer' = FALSE
  /\ IF Shown
     THEN /\ Len(calls) < MaxCalls
          /\ calls' = Append(calls, Sent(text, Current, {}))
          /\ settled' = FALSE
     ELSE UNCHANGED <<calls, settled>>
  /\ UNCHANGED <<files, stored, doomed, frame, buffers, unwritten, dialogs,
                 job, history>>

(* setBounds: the window was moved, every tab is written.                   *)
MoveWindow ==
  /\ up /\ tabs # <<>>
  /\ Len(calls) + Len(tabs) <= MaxCalls
  /\ calls' = calls \o [i \in DOMAIN tabs |-> Sent(text, tabs[i], {})]
  /\ settled' = FALSE
  /\ UNCHANGED <<files, stored, doomed, frame, buffers, unwritten, timer,
                 dialogs, job, history>>

MayFail(i) ==
  \/ "records" \in Failing
  \/ /\ "record" \in Failing
     /\ calls[i].rec.dirty
     /\ \A k \in DOMAIN calls \ {i} : calls[k].tab # calls[i].tab

(* upsert_note, on a pool: an older write than the last that succeeded is     *)
(* dropped and reported as done.                                           *)
Outdate(cs, i) ==
  [k \in DOMAIN cs |->
     [cs[k] EXCEPT !.live = @ /\ ~(k < i /\ cs[k].tab = cs[i].tab)]]

Land(i) ==
  LET c == calls[i] IN
  /\ calls' = RemoveAt(Outdate(calls, i), i)
  /\ stored' = IF c.live THEN [stored EXCEPT ![c.tab] = c.rec] ELSE stored
  /\ unwritten' = unwritten \ {c.tab}
  /\ settled' = (settled \/ i = Len(calls))
  /\ UNCHANGED <<files, doomed, frame, buffers, timer, dialogs, job, history>>

FailRecord(i) ==
  /\ calls[i].live /\ MayFail(i)
  /\ calls' = RemoveAt(calls, i)
  /\ unwritten' = unwritten \cup {calls[i].tab}
  /\ settled' = (settled \/ i = Len(calls))
  /\ UNCHANGED <<files, stored, doomed, frame, buffers, timer, dialogs, job,
                 history>>

-----------------------------------------------------------------------------
(* Edits.                                                                  *)

(* updateActiveContent.                                                    *)
Edited(c) ==
  /\ up /\ Shown
  /\ "type" \in Careless \/ (Resting /\ asking = None /\ gate = None)
  /\ text' = [text EXCEPT ![Current] = c]
  /\ timer' = TRUE
  /\ UNCHANGED <<files, store, frame, path, base, unwritten, settled, dialogs,
                 job, made>>

Type ==
  /\ edits < MaxEdits
  /\ edits' = edits + 1
  /\ Edited(OnDisk + edits + 1)

(* The user takes his edits back.                                           *)
Undo ==
  /\ Shown /\ Dirty(Current)
  /\ Edited(base[Current])
  /\ UNCHANGED edits

-----------------------------------------------------------------------------
(* Saving.                                                                 *)

Become(j, what) == job' = [job EXCEPT ![j] = what]

(* Wrong: what is written is the text as it was saved last.                   *)
BeginWrite_Saved(j, t, f, how, then) == Become(j, Write(t, f, base[t], how, then))

(* What is written is the buffer as it is now.                              *)
BeginWrite(j, t, f, how, then) == Become(j, Write(t, f, text[t], how, then))

(* saveActive: an untitled tab takes the name that was chosen for it at once. *)
SaveActive(j, then) ==
  LET t == Current IN
  /\ IF path[t] # None
     THEN /\ BeginWrite(j, t, path[t], "save", then)
          /\ UNCHANGED path
     ELSE \E f \in Offered(t) :
            /\ path' = [path EXCEPT ![t] = f]
            /\ BeginWrite(j, t, f, "first", then)
  /\ UNCHANGED <<files, store, frame, text, base, saving, history>>

Save(j) ==
  /\ Free(j) /\ Shown
  /\ SaveActive(j, "end")
  /\ UNCHANGED dialogs

(* saveAs: one at a time for a tab (runTabOp).                              *)
SaveAs(j, then) ==
  LET t == Current IN
  /\ Free(j) /\ Shown
  /\ \A k \in Jobs : job[k].pc \in {"write", "wrote"} =>
                        ~(job[k].how = "as" /\ job[k].tab = t)
  /\ \E f \in Offered(t) : BeginWrite(j, t, f, "as", then)
  /\ UNCHANGED <<files, store, frame, buffers, saving, dialogs, history>>

(* write_file_encoded, on a pool.                                          *)
WriteFile(j) ==
  LET b == job[j] IN
  /\ b.pc = "write"
  /\ disk' = [disk EXCEPT ![b.to] = b.out]
  /\ Become(j, IF up THEN Wrote(b.tab, b.to, b.out, b.how, b.then) ELSE Idle)
  /\ UNCHANGED <<store, frame, buffers, saving, dialogs, history>>

(* The tab stays as it is, and so does the question; the gate goes down.      *)
FailFile(j) ==
  /\ job[j].pc = "write"
  /\ (IF job[j].how = "first" THEN "first" ELSE "file") \in Failing
  /\ gate' = IF job[j].then = "gate" THEN None ELSE gate
  /\ Become(j, Idle)
  /\ UNCHANGED <<files, store, frame, buffers, saving, asking, history>>

(* The script goes on: what the buffer holds by now is marked as saved.       *)
MarkSaved(j) ==
  LET b == job[j]
      t == b.tab IN
  /\ up /\ b.pc = "wrote"
  /\ Len(calls) < MaxCalls
  /\ path' = IF b.how = "as" THEN [path EXCEPT ![t] = b.to] ELSE path
  /\ base' = [base EXCEPT ![t] = text[t]]
  /\ calls' = Append(calls,
                [tab |-> t, live |-> TRUE, by |-> {j},
                 rec |-> CleanRecord(path'[t])])
  /\ settled' = FALSE
  /\ Become(j, Recording(b.then))
  /\ UNCHANGED <<files, stored, doomed, frame, text, unwritten, timer, dialogs,
                 history>>

-----------------------------------------------------------------------------
(* What a restart would show.                                               *)
OnFile(r) == IF r.path = None THEN Empty ELSE disk[r.path]
Restored(r) == IF r.dirty THEN r.text ELSE OnFile(r)
RecordShows(t) ==
  /\ stored[t] # None /\ Restored(stored[t]) = text[t]
  /\ \A i \in DOMAIN calls : calls[i].tab # t

-----------------------------------------------------------------------------
(* Closing a tab.                                                          *)

(* deleteTab(activeIndex): the tab and its place are taken down before the    *)
(* deletion of the record is awaited.  For the properties the tab that the    *)
(* user was asked about and let go goes with them.                           *)
BeginDelete(j, let) ==
  IF Shown
  THEN /\ timer' = FALSE
       /\ Become(j, Deleting(Current, active, let))
  ELSE Become(j, Idle) /\ UNCHANGED timer

Attentive == "turn" \in Careless \/ (asking = None /\ gate = None)

(* requestClose: a tab with changes is asked about.                         *)
RequestClose(j) ==
  /\ Free(j) /\ Shown /\ Attentive
  /\ IF Dirty(Current)
     THEN asking' = Current /\ UNCHANGED <<job, timer>>
     ELSE BeginDelete(j, None) /\ UNCHANGED asking
  /\ UNCHANGED <<files, store, frame, buffers, unwritten, settled, gate,
                 history>>

ConfirmSave(j) ==
  /\ asking # None /\ Free(j) /\ Shown
  /\ SaveActive(j, "close")
  /\ UNCHANGED dialogs

ConfirmDiscard(j) ==
  /\ asking # None /\ Free(j)
  /\ asking' = None
  /\ BeginDelete(j, asking)
  /\ UNCHANGED <<files, store, frame, buffers, unwritten, settled, gate,
                 history>>

CancelClose ==
  /\ up /\ asking # None /\ Resting
  /\ asking' = None
  /\ UNCHANGED <<files, store, frame, buffers, saving, gate, job, history>>

(* Wrong: the tab to the left is shown when the active one goes.              *)
ActiveAfter_Left(i, ts) ==
  IF active >= i THEN active - 1 ELSE active

(* The tab that is shown after the one at place i has gone.                  *)
ActiveAfter(i, ts) ==
  IF active > i THEN active - 1
  ELSE IF active > Len(ts) /\ ts # <<>> THEN Len(ts) ELSE active

(* Of a window that goes the writes under way go on.                         *)
Abandoned == [k \in Jobs |-> IF job[k].pc = "write" THEN job[k] ELSE Idle]

Splice(i) == IF i \in DOMAIN tabs THEN RemoveAt(tabs, i) ELSE tabs

(* delete_note, and the rest of deleteTab and finishTabClose: the tab at the  *)
(* place that was taken down goes, and with the last one the window.         *)
DeleteTab(j) ==
  LET b == job[j]
      left == Splice(b.at) IN
  /\ up /\ b.pc = "delete"
  /\ Overtaking \/ \A i \in DOMAIN calls : calls[i].tab # b.tab
  /\ stored' = [stored EXCEPT ![b.tab] = None]
  /\ tabs' = left
  /\ active' = ActiveAfter(b.at, left)
  /\ up' = (left # <<>>)
  /\ job' = IF left = <<>> THEN [Abandoned EXCEPT ![j] = Idle]
            ELSE [job EXCEPT ![j] = Idle]
  /\ UNCHANGED <<files, calls, doomed, buffers, saving, dialogs, history>>

(* The tab stays, without its timer.                                       *)
FailDelete(j) ==
  LET t == job[j].tab IN
  /\ up /\ job[j].pc = "delete"
  /\ \/ "deletes" \in Failing
     \/ "delete" \in Failing /\ RecordShows(t)
  /\ Become(j, Idle)
  /\ UNCHANGED <<files, store, frame, buffers, saving, dialogs, history>>

-----------------------------------------------------------------------------
(* Turning to a tab, opening one.                                           *)

(* switchTo.                                                               *)
SwitchTo(j, i) ==
  /\ Free(j) /\ Attentive
  /\ i \in DOMAIN tabs \ {active}
  /\ FlushTimer(j, text, calls, settled)
  /\ Become(j, Turning(i, None, "end"))
  /\ UNCHANGED <<files, stored, doomed, frame, buffers, unwritten, dialogs,
                 history>>

(* newTab, openNormal: the tab is there at once and shown a little later.     *)
AddTab(j, f) ==
  LET t == made + 1
      c == IF f = None THEN Empty ELSE disk[f] IN
  /\ Free(j) /\ Attentive
  /\ made < MaxTabs /\ t \notin Open
  /\ made' = t
  /\ tabs' = Append(tabs, t)
  /\ path' = [path EXCEPT ![t] = f]
  /\ text' = [text EXCEPT ![t] = c]
  /\ base' = [base EXCEPT ![t] = c]
  /\ IF active = Len(tabs')
     THEN UNCHANGED <<timer, settled, calls>>
     ELSE FlushTimer(j, text, calls, settled)
  /\ Become(j, Turning(Len(tabs'), t, "end"))
  /\ UNCHANGED <<files, stored, doomed, up, active, unwritten, dialogs, edits>>

NewTab(j) == AddTab(j, None)

(* openTab: a file that is open is shown.                                   *)
OpenFile(j, f) ==
  IF \E t \in Open : path[t] = f
  THEN \E i \in DOMAIN tabs : path[tabs[i]] = f /\ SwitchTo(j, i)
  ELSE AddTab(j, f)

(* The switch is over; a tab that was opened is written.                     *)
Turned(j) ==
  LET b == job[j] IN
  /\ up /\ b.pc = "turn" /\ ~Waits(j)
  /\ active' = b.at
  /\ gate' = IF b.then = "gate" /\ b.at \in DOMAIN tabs THEN tabs[b.at] ELSE gate
  /\ IF b.tab # None
     THEN /\ Len(calls) < MaxCalls
          /\ calls' = Append(calls, Sent(text, b.tab, {j}))
          /\ settled' = FALSE
          /\ Become(j, Recording("end"))
     ELSE Become(j, Idle) /\ UNCHANGED <<calls, settled>>
  /\ UNCHANGED <<files, stored, doomed, up, tabs, buffers, unwritten, timer,
                 asking, history>>

(* setEncoding: a clean tab is read from its file again.                     *)
BeginReread(j) ==
  /\ Free(j) /\ Shown
  /\ ~Dirty(Current) /\ path[Current] # None
  /\ Become(j, Rereading(Current))
  /\ UNCHANGED <<files, store, frame, buffers, saving, dialogs, history>>

Reread(j) ==
  LET t == job[j].tab
      c == disk[path[t]] IN
  /\ up /\ job[j].pc = "reread"
  /\ text' = [text EXCEPT ![t] = c]
  /\ base' = [base EXCEPT ![t] = c]
  /\ timer' = TRUE
  /\ Become(j, Idle)
  /\ UNCHANGED <<files, store, frame, path, unwritten, settled, dialogs,
                 history>>

-----------------------------------------------------------------------------
(* Closing the window.                                                     *)

(* Wrong: the tab that is shown stands for all.                              *)
Unwritable_Shown(tx) == {i \in DOMAIN tabs : /\ i = active
                                             /\ tx[tabs[i]] # base[tabs[i]]
                                             /\ tabs[i] \in unwritten}

(* firstUnwritableDirtyIndex.                                              *)
Unwritable(tx) == {i \in DOMAIN tabs : /\ tx[tabs[i]] # base[tabs[i]]
                                       /\ tabs[i] \in unwritten}

(* finishWindowClose: the records of the clean tabs are to go.               *)
FinishClose(j, tx, cs, done) ==
  /\ doomed' = {t \in Open : tx[t] = base[t]}
  /\ up' = FALSE
  /\ gate' = None /\ asking' = None
  /\ timer' = FALSE
  /\ calls' = cs /\ settled' = done
  /\ job' = [Abandoned EXCEPT ![j] = Idle]

(* The tab at place i is asked about next.                                   *)
First(i, bad) == i \in bad /\ \A k \in bad : i <= k

(* Wrong: the window does not turn to the tab it asks about.                  *)
Prompt_InPlace(j, tx, cs, done) ==
  \/ /\ Unwritable(tx) = {}
     /\ FinishClose(j, tx, cs, done)
  \/ \E i \in DOMAIN tabs :
       /\ First(i, Unwritable(tx))
       /\ gate' = tabs[i]
       /\ calls' = cs /\ settled' = done
       /\ Become(j, Idle)
       /\ UNCHANGED <<doomed, up, asking, timer>>

(* prompt: ask about the first tab that could not be written, or close.       *)
Prompt(j, tx, cs, done) ==
  \/ /\ Unwritable(tx) = {}
     /\ FinishClose(j, tx, cs, done)
  \/ \E i \in DOMAIN tabs :
       /\ First(i, Unwritable(tx))
       /\ IF i = active
          THEN /\ gate' = tabs[i]
               /\ calls' = cs /\ settled' = done
               /\ Become(j, Idle) /\ UNCHANGED timer
          ELSE /\ FlushTimer(j, tx, cs, done)
               /\ Become(j, Turning(i, None, "gate"))
               /\ UNCHANGED gate
       /\ UNCHANGED <<doomed, up, asking>>

(* close-flush-request, flushAll.                                          *)
CloseWindow(j) ==
  /\ Free(j) /\ Attentive
  /\ FlushTimer(j, text, calls, settled)
  /\ Become(j, Flushing)
  /\ UNCHANGED <<files, stored, doomed, frame, buffers, unwritten, dialogs,
                 history>>

FlushAll(j) ==
  LET bad == {i \in DOMAIN tabs : Dirty(tabs[i])} IN
  /\ up /\ job[j].pc = "flush" /\ ~Waits(j)
  /\ Len(calls) + Cardinality(bad) <= MaxCalls
  /\ \E order \in InOrder(bad) :
       calls' = calls \o [i \in DOMAIN order |-> Sent(text, tabs[order[i]], {j})]
  /\ settled' = (settled /\ bad = {})
  /\ Become(j, Recording("check"))
  /\ UNCHANGED <<files, stored, doomed, frame, buffers, unwritten, timer,
                 dialogs, history>>

(* The write of a record has come back, and the script goes on.              *)
Recorded(j) ==
  LET then == job[j].then IN
  /\ up /\ job[j].pc = "record" /\ ~Waits(j)
  /\ \/ /\ then = "end"
        /\ Become(j, Idle)
        /\ UNCHANGED <<calls, doomed, up, dialogs, timer, settled>>
     \/ /\ then = "close"
        /\ asking' = None
        /\ BeginDelete(j, None)
        /\ UNCHANGED <<calls, doomed, up, gate, settled>>
     \/ /\ then \in {"gate", "check"}
        /\ Prompt(j, text, calls, settled)
  /\ UNCHANGED <<files, stored, tabs, active, buffers, unwritten, history>>

GateSave(j) == gate # None /\ SaveAs(j, "gate")

(* discardChanges(activeIndex): its write is not awaited.                    *)
GateDiscard(j) ==
  LET t == Current
      tx == [text EXCEPT ![t] = base[t]] IN
  /\ gate # None /\ Free(j) /\ Shown
  /\ Len(calls) < MaxCalls
  /\ text' = tx
  /\ Prompt(j, tx, Append(calls, [tab |-> t, rec |-> CleanRecord(path[t]),
                                  live |-> TRUE, by |-> {}]), FALSE)
  /\ UNCHANGED <<files, stored, tabs, active, path, base, unwritten, history>>

GateCancel ==
  /\ up /\ gate # None /\ Resting
  /\ gate' = None
  /\ UNCHANGED <<files, store, frame, buffers, saving, asking, job, history>>

(* drop_closed_tabs, a little after the window went; not in a quit.           *)
Forget ==
  /\ doomed # {}
  /\ stored' = [t \in Tabs |-> IF t \in doomed THEN None ELSE stored[t]]
  /\ doomed' = {}
  /\ UNCHANGED <<files, calls, frame, buffers, saving, dialogs, job, history>>

-----------------------------------------------------------------------------
(* The app dies at any moment, or ends, and is started again.                *)

Kept == {t \in Tabs : stored[t] # None}

(* init, loadTab: what a dirty record holds wins over the file.              *)
Restart ==
  /\ calls' = <<>> /\ doomed' = {}
  /\ up' = TRUE
  /\ tabs' \in InOrder(Kept)
  /\ active' \in {1} \cup DOMAIN tabs'
  /\ path' = [t \in Tabs |-> IF t \in Kept THEN stored[t].path ELSE None]
  /\ base' = [t \in Tabs |-> IF t \in Kept THEN OnFile(stored[t]) ELSE Empty]
  /\ text' = [t \in Tabs |-> IF t \in Kept THEN Restored(stored[t]) ELSE Empty]
  /\ unwritten' = {} /\ timer' = FALSE /\ settled' = TRUE
  /\ asking' = None /\ gate' = None
  /\ job' = [j \in Jobs |-> Idle]
  /\ UNCHANGED <<files, stored, history>>

UserActs ==
  \/ Type \/ Undo \/ CancelClose \/ GateCancel
  \/ \E j \in Jobs :
       \/ Save(j) \/ SaveAs(j, "end") \/ RequestClose(j) \/ ConfirmSave(j)
       \/ ConfirmDiscard(j) \/ NewTab(j) \/ BeginReread(j) \/ CloseWindow(j)
       \/ GateSave(j) \/ GateDiscard(j)
       \/ \E i \in 1..MaxTabs : SwitchTo(j, i)
       \/ \E f \in Files : OpenFile(j, f)

ScriptsGoOn ==
  \/ Persist \/ MoveWindow
  \/ \E j \in Jobs : MarkSaved(j) \/ Turned(j) \/ Reread(j) \/ FlushAll(j)
                     \/ Recorded(j)

CoreActs ==
  \/ Forget
  \/ \E i \in DOMAIN calls : Land(i) \/ FailRecord(i)
  \/ \E j \in Jobs : WriteFile(j) \/ FailFile(j) \/ DeleteTab(j) \/ FailDelete(j)

Next == UserActs \/ ScriptsGoOn \/ CoreActs \/ Restart

Spec == Init /\ [][Next]_vars

-----------------------------------------------------------------------------
(* A tab that shows no changes shows its file, when nothing is under way      *)
(* (saveActive, saveAsNow, setEncoding, loadTab).                           *)
CleanIsOnDisk ==
  up /\ Resting =>
    \A t \in Open : ~Dirty(t) /\ path[t] # None => disk[path[t]] = text[t]

(* Changes leave a tab when the user takes them back, or when he was asked    *)
(* about this tab and let them go (closeNow, confirmDiscard, deleteTab,       *)
(* prompt, discardChanges).                                                *)
LetGo(t) ==
  \/ gate = t
  \/ \E j \in Jobs : job[j].pc = "delete" /\ job[j].letGo = t

AskedBeforeLost ==
  [][Undo \/ Type \/ Restart \/
     \A t \in Open : Dirty(t) =>
       LetGo(t) \/ (t \in ToSet(tabs') /\ text'[t] = text[t])]_vars

(* What was changed in a window that is closed is there for the next start    *)
(* (onCloseFlushRequest, flushAll, firstUnwritableDirtyIndex).              *)
ClosedKeepsEdits ==
  ~up => \A t \in Open : Dirty(t) =>
           /\ stored[t] # None
           /\ stored[t].dirty /\ stored[t].text = text[t]

(* Once everything has come to rest a restart shows what the window shows,    *)
(* but for the tabs whose record is known to have failed (persistActive,      *)
(* upsertTab, deleteTab).                                                  *)
RestartShowsTabs ==
  up /\ Resting /\ calls = <<>> /\ ~timer =>
    /\ Kept \subseteq Open
    /\ \A t \in Open \ unwritten :
         stored[t] # None /\ Restored(stored[t]) = text[t]

=============================================================================
