------------------------------ MODULE Handoff ------------------------------
(***************************************************************************)
(* A sticky note whose text outgrew its editor becomes a tab of a document *)
(* window (src-tauri/src/convert_handoff.rs).  The note's window writes a   *)
(* conversion file, asks for a handoff and stays locked; the core sends the *)
(* handoff to a document window, which claims it, opens a tab over the file *)
(* and reports it done.  A handoff that cannot end that way is reclaimed:   *)
(* its file is deleted and the note's window is told, so that it unlocks.   *)
(*                                                                         *)
(* Three kinds of processes interleave: the commands of the core (each on a *)
(* thread of its own; every step below takes one lock, so a command with    *)
(* several locks has several steps), the scripts of the windows (which stop *)
(* with their window, while a command they called goes on), and the event   *)
(* loop of the core, which runs the clean-up of a destroyed window.         *)
(*                                                                         *)
(* One attempt to convert a note has one number: it names the conversion    *)
(* file, the handoff over it and the tab the handoff becomes.              *)
(***************************************************************************)
EXTENDS Naturals, FiniteSets

CONSTANTS
  Notes,        \* The sticky notes.
  Windows,      \* The document windows; a label is never used again.
  MaxAttempts   \* How many conversions are tried: bounds the runs only.

ASSUME MaxAttemptsAssumption == MaxAttempts \in Nat

Ids == 1..MaxAttempts
NoWindow == "no window"
NoNote == "no note"
ASSUME NamesAssumption == NoWindow \notin Windows /\ NoNote \notin Notes

VARIABLES
  attempts,   \* How many conversions were begun.
  noteOf,     \* The note an attempt converts.
  phase,      \* The state of its handoff; "none" before there is one.
  sentTo,     \* The window it was sent to, then the one that claimed it.
  late,       \* The handoffs older than CLAIM_TIMEOUT.
  file,       \* Its conversion file: in the store, a session's, or deleted.
  owner,      \* Who takes the file along: a window, the note's window, no one.
  starter,    \* Where the command convert_handoff_start of the attempt is.
  dest,       \* The window that command picked.
  opener,     \* Where the window that was given the handoff is with it.
  deliveries, \* How often a window was given it.
  tab,        \* The tab over the file.
  window,     \* The life of a document window.
  ready,      \* The windows that announced themselves.
  queued,     \* The handoffs that wait for a window to do so.
  unread,     \* The handoffs a window went away without having received.
  job,        \* The script of a note's window; "closed" without one.
  told,       \* The convert-reclaimed events on their way to that script.
  record,     \* The notes that have a record.
  discarded,  \* The notes the user threw away.
  handedTo    \* The window of the tab of a note that was handed off.

core   == <<phase, sentTo, late, file, owner>>
shell  == <<window, ready, queued, unread>>
store  == <<record, discarded, handedTo>>
script == <<job, told>>
vars == <<attempts, noteOf, core, starter, dest, opener, deliveries, tab,
          shell, script, store>>

Phases   == {"none", "Pending", "Claimed", "Done", "Reclaimed"}
Files    == {"none", "stored", "session", "deleted"}
Owners   == Windows \cup {NoWindow, "sticky"}
Starters == {"idle", "start", "target", "send", "route", "emit", "fail",
             "ok", "err", "over"}
Openers  == {"idle", "claim", "own", "claimed", "open", "took", "refused",
             "done", "handoff", "close", "fail", "over"}
Tabs     == {"none", "open", "saving", "saved", "releasing", "closed"}
Jobs     == {"closed", "free", "converting", "starting", "waiting"}

TypeOK ==
  /\ attempts \in 0..MaxAttempts
  /\ noteOf \in [Ids -> Notes \cup {NoNote}]
  /\ phase \in [Ids -> Phases]
  /\ sentTo \in [Ids -> Windows \cup {NoWindow}]
  /\ late \in SUBSET Ids
  /\ file \in [Ids -> Files]
  /\ owner \in [Ids -> Owners]
  /\ starter \in [Ids -> Starters]
  /\ dest \in [Ids -> Windows \cup {NoWindow}]
  /\ opener \in [Ids -> Openers]
  /\ deliveries \in [Ids -> Nat]
  /\ tab \in [Ids -> Tabs]
  /\ window \in [Windows -> {"unborn", "open", "gone"}]
  /\ ready \in SUBSET Windows
  /\ queued \in [Windows -> SUBSET Ids]
  /\ unread \in SUBSET Ids
  /\ job \in [Notes -> [pc : Jobs, id : Ids \cup {0}]]
  /\ told \in SUBSET Ids
  /\ record \in SUBSET Notes
  /\ discarded \in SUBSET Notes
  /\ handedTo \in [Notes -> Windows \cup {NoWindow}]

Free   == [pc |-> "free", id |-> 0]
Closed == [pc |-> "closed", id |-> 0]
At(pc, id) == [pc |-> pc, id |-> id]

Init ==
  /\ attempts = 0
  /\ noteOf = [h \in Ids |-> NoNote]
  /\ phase = [h \in Ids |-> "none"]
  /\ sentTo = [h \in Ids |-> NoWindow]
  /\ late = {}
  /\ file = [h \in Ids |-> "none"]
  /\ owner = [h \in Ids |-> NoWindow]
  /\ starter = [h \in Ids |-> "idle"]
  /\ dest = [h \in Ids |-> NoWindow]
  /\ opener = [h \in Ids |-> "idle"]
  /\ deliveries = [h \in Ids |-> 0]
  /\ tab = [h \in Ids |-> "none"]
  /\ window = [w \in Windows |-> "unborn"]
  /\ ready = {}
  /\ queued = [w \in Windows |-> {}]
  /\ unread = {}
  /\ job = [n \in Notes |-> Free]
  /\ told = {}
  /\ record = Notes
  /\ discarded = {}
  /\ handedTo = [n \in Notes |-> NoWindow]

-----------------------------------------------------------------------------
(* What the state machine of the handoffs and the file store do.           *)

Alive(w) == w \in Windows /\ window[w] = "open"

(* Wrong: the file of a handoff that goes back is kept.                      *)
Aborted_None(hs) == file

(* ConvertStore::abort: a file a session took is not the store's any more.  *)
Aborted(hs) ==
  [h \in Ids |-> IF h \in hs /\ file[h] = "stored" THEN "deleted" ELSE file[h]]

(* reclaim, for each handoff of hs that is still Pending or Claimed, and    *)
(* the deletion of their files.                                            *)
Reclaimable(hs) == {h \in hs : phase[h] \in {"Pending", "Claimed"}}
Reclaim(hs) ==
  phase' = [h \in Ids |-> IF h \in Reclaimable(hs) THEN "Reclaimed"
                          ELSE phase[h]]

(* sticky_reclaimed: an event to the window of each note, if it has one.    *)
Tell(hs) ==
  told' = told \cup {h \in Reclaimable(hs) : job[noteOf[h]].pc # "closed"}

(* give_back: what is reclaimed, and only that, loses its file and is told. *)
GiveBack(hs) ==
  /\ Reclaim(hs)
  /\ file' = Aborted(Reclaimable(hs))
  /\ Tell(hs)

(* The note's window is destroyed: its script stops, events on their way to *)
(* it are lost, and a file it owns goes with it.                            *)
StickyWindowGone(n) ==
  /\ job' = [job EXCEPT ![n] = Closed]
  /\ told' = {h \in told : noteOf[h] # n}
  /\ file' = Aborted({h \in Ids : noteOf[h] = n /\ owner[h] = "sticky"})

-----------------------------------------------------------------------------
(* The note's window.                                                      *)

(* The user pastes and confirms slower than what an earlier attempt sent     *)
(* arrives.  Both the event and convert_release name the note and not the    *)
(* handoff, so that a late one would act on the attempt under way.           *)
Settled(n) ==
  \A h \in Ids :
    noteOf[h] = n => h \notin told /\ tab[h] \notin {"saving", "releasing"}

(* A paste the user confirmed is written to a finished conversion file.     *)
Convert(n) ==
  /\ job[n].pc = "free"
  /\ Settled(n)
  /\ n \in record
  /\ attempts < MaxAttempts
  /\ LET h == attempts + 1 IN
     /\ attempts' = h
     /\ noteOf' = [noteOf EXCEPT ![h] = n]
     /\ file' = [file EXCEPT ![h] = "stored"]
     /\ owner' = [owner EXCEPT ![h] = "sticky"]
     /\ job' = [job EXCEPT ![n] = At("converting", h)]
  /\ UNCHANGED <<phase, sentTo, late, starter, dest, opener, deliveries, tab,
                 shell, told, store>>

(* The conversion fails or is given up before the core has the file.        *)
GiveUpConversion(n) ==
  /\ job[n].pc = "converting"
  /\ file' = Aborted({job[n].id})
  /\ job' = [job EXCEPT ![n] = Free]
  /\ UNCHANGED <<attempts, noteOf, phase, sentTo, late, owner, starter, dest,
                 opener, deliveries, tab, shell, told, store>>

(* The note's record is flushed and the core is asked for a handoff.        *)
AskHandoff(n) ==
  LET h == job[n].id IN
  /\ job[n].pc = "converting"
  /\ job' = [job EXCEPT ![n] = At("starting", h)]
  /\ starter' = [starter EXCEPT ![h] = "start"]
  /\ UNCHANGED <<attempts, noteOf, core, dest, opener, deliveries, tab, shell,
                 told, store>>

(* The core answered.  With a handoff the note stays locked; without, not.  *)
StartReply(h) ==
  LET n == noteOf[h] IN
  /\ starter[h] \in {"ok", "err"}
  /\ starter' = [starter EXCEPT ![h] = "over"]
  /\ job' = IF job[n] # At("starting", h) THEN job
            ELSE [job EXCEPT ![n] =
                    IF starter[h] = "ok" THEN At("waiting", h) ELSE Free]
  /\ UNCHANGED <<attempts, noteOf, core, dest, opener, deliveries, tab, shell,
                 told, store>>

(* convert-reclaimed arrives.  The script looks the job up by the note: one *)
(* that does not wait for a handoff yet ignores the event.                  *)
HearReclaimed(h) ==
  LET n == noteOf[h] IN
  /\ h \in told
  /\ told' = told \ {h}
  /\ job' = IF job[n].pc = "waiting" THEN [job EXCEPT ![n] = Free] ELSE job
  /\ UNCHANGED <<attempts, noteOf, core, starter, dest, opener, deliveries,
                 tab, shell, store>>

(* The user discards the note, locked or not, and closes its window.        *)
DiscardSticky(n) ==
  /\ job[n].pc # "closed"
  /\ n \in record
  /\ record' = record \ {n}
  /\ discarded' = discarded \cup {n}
  /\ StickyWindowGone(n)
  /\ UNCHANGED <<attempts, noteOf, phase, sentTo, late, owner, starter, dest,
                 opener, deliveries, tab, shell, handedTo>>

(* A note that is listed and has no window is opened again.                 *)
ReopenSticky(n) ==
  /\ job[n].pc = "closed"
  /\ n \in record
  /\ handedTo[n] = NoWindow
  /\ job' = [job EXCEPT ![n] = Free]
  /\ UNCHANGED <<attempts, noteOf, core, starter, dest, opener, deliveries,
                 tab, shell, told, store>>

-----------------------------------------------------------------------------
(* convert_handoff_start.                                                  *)

(* start_core: the file is nobody's from here on; the handoff is Pending.   *)
Start(h) ==
  /\ starter[h] = "start"
  /\ IF file[h] = "stored"
     THEN /\ owner' = [owner EXCEPT ![h] = NoWindow]
          /\ phase' = [phase EXCEPT ![h] = "Pending"]
          /\ starter' = [starter EXCEPT ![h] = "target"]
     ELSE /\ starter' = [starter EXCEPT ![h] = "err"]
          /\ UNCHANGED <<owner, phase>>
  /\ UNCHANGED <<attempts, noteOf, sentTo, late, file, dest, opener,
                 deliveries, tab, shell, script, store>>

(* target_window: the window the user was in last, a new one, or none.      *)
PickWindow(h, w) ==
  /\ starter[h] = "target"
  /\ window[w] # "gone"
  /\ window' = [window EXCEPT ![w] = "open"]
  /\ dest' = [dest EXCEPT ![h] = w]
  /\ starter' = [starter EXCEPT ![h] = "send"]
  /\ UNCHANGED <<attempts, noteOf, core, opener, deliveries, tab, ready,
                 queued, unread, script, store>>

NoTarget(h) ==
  /\ starter[h] = "target"
  /\ starter' = [starter EXCEPT ![h] = "fail"]
  /\ UNCHANGED <<attempts, noteOf, core, dest, opener, deliveries, tab, shell,
                 script, store>>

(* Handoffs::send_to.                                                      *)
SendTo(h) ==
  /\ starter[h] = "send"
  /\ sentTo' = IF phase[h] = "Pending" THEN [sentTo EXCEPT ![h] = dest[h]]
               ELSE sentTo
  /\ starter' = [starter EXCEPT ![h] = "route"]
  /\ UNCHANGED <<attempts, noteOf, phase, late, file, owner, dest, opener,
                 deliveries, tab, shell, script, store>>

(* PendingOpens::route_handoff: queued until the window announced itself.   *)
RouteHandoff(h) ==
  /\ starter[h] = "route"
  /\ IF dest[h] \in ready
     THEN /\ starter' = [starter EXCEPT ![h] = "emit"]
          /\ UNCHANGED queued
     ELSE /\ starter' = [starter EXCEPT ![h] = "ok"]
          /\ queued' = [queued EXCEPT ![dest[h]] = @ \cup {h}]
  /\ UNCHANGED <<attempts, noteOf, core, dest, opener, deliveries, tab,
                 window, ready, unread, script, store>>

(* A window is given handoffs: its script calls convert_claim for each.     *)
Delivered(hs) ==
  /\ opener' = [h \in Ids |-> IF h \in hs /\ opener[h] = "idle" THEN "claim"
                              ELSE opener[h]]
  /\ deliveries' = [h \in Ids |-> deliveries[h] + IF h \in hs THEN 1 ELSE 0]

(* The event open-converted; nobody hears it in a window that is gone.      *)
EmitHandoff(h) ==
  /\ starter[h] = "emit"
  /\ starter' = [starter EXCEPT ![h] = "ok"]
  /\ Delivered(IF Alive(dest[h]) THEN {h} ELSE {})
  /\ UNCHANGED <<attempts, noteOf, core, dest, tab, shell, script, store>>

EmitFails(h) ==
  /\ starter[h] = "emit"
  /\ starter' = [starter EXCEPT ![h] = "fail"]
  /\ UNCHANGED <<attempts, noteOf, core, dest, opener, deliveries, tab, shell,
                 script, store>>

(* The error path: the handoff is reclaimed if it still can be, and the     *)
(* note is told by the error and not by an event.                           *)
StartFails(h) ==
  /\ starter[h] = "fail"
  /\ Reclaim({h})
  /\ file' = Aborted(Reclaimable({h}))
  /\ starter' = [starter EXCEPT ![h] = "err"]
  /\ UNCHANGED <<attempts, noteOf, sentTo, late, owner, dest, opener,
                 deliveries, tab, shell, script, store>>

(* CLAIM_TIMEOUT passes for a handoff.                                     *)
ClockPasses(h) ==
  /\ phase[h] \in {"Pending", "Claimed"}
  /\ h \notin late
  /\ late' = late \cup {h}
  /\ UNCHANGED <<attempts, noteOf, phase, sentTo, file, owner, starter, dest,
                 opener, deliveries, tab, shell, script, store>>

(* Wrong: a handoff that was claimed expires as well; one that was sent to a  *)
(* window never does.                                                      *)
Due_Claimed == {h \in late : phase[h] \in {"Pending", "Claimed"}}
Due_Unsent == {h \in late : phase[h] = "Pending" /\ sentTo[h] = NoWindow}

(* expire_core, by the timer of one of them: those nobody claimed in time.  *)
Due == {h \in late : phase[h] = "Pending"}

Expire ==
  /\ Due # {}
  /\ GiveBack(Due)
  /\ UNCHANGED <<attempts, noteOf, sentTo, late, owner, starter, dest, opener,
                 deliveries, tab, shell, job, store>>

-----------------------------------------------------------------------------
(* The document window: openHandoff, and the commands it calls.            *)

OpenWindow(w) ==
  /\ window[w] = "unborn"
  /\ window' = [window EXCEPT ![w] = "open"]
  /\ UNCHANGED <<attempts, noteOf, core, starter, dest, opener, deliveries,
                 tab, ready, queued, unread, script, store>>

(* Wrong: what was queued stays queued.                                     *)
WindowReady_KeepsQueue(w) ==
  /\ Alive(w)
  /\ w \notin ready
  /\ ready' = ready \cup {w}
  /\ Delivered(queued[w])
  /\ UNCHANGED <<attempts, noteOf, core, starter, dest, tab, window, queued,
                 unread, script, store>>

(* doc_window_ready: what was queued is handed over, once.                  *)
WindowReady(w) ==
  /\ Alive(w)
  /\ w \notin ready
  /\ ready' = ready \cup {w}
  /\ queued' = [queued EXCEPT ![w] = {}]
  /\ Delivered(queued[w])
  /\ UNCHANGED <<attempts, noteOf, core, starter, dest, tab, window, unread,
                 script, store>>

(* Handoffs::claim.                                                        *)
Claim(h) ==
  /\ opener[h] = "claim"
  /\ IF phase[h] = "Pending" /\ h \notin late
          /\ sentTo[h] \in {NoWindow, dest[h]}
     THEN /\ phase' = [phase EXCEPT ![h] = "Claimed"]
          /\ sentTo' = [sentTo EXCEPT ![h] = dest[h]]
          /\ opener' = [opener EXCEPT ![h] = "own"]
     ELSE /\ opener' = [opener EXCEPT ![h] = "over"]
          /\ UNCHANGED <<phase, sentTo>>
  /\ UNCHANGED <<attempts, noteOf, late, file, owner, starter, dest,
                 deliveries, tab, shell, script, store>>

(* Wrong: the file is given to the note, whose id is a string as well.        *)
OwnFile_ToNote(h) ==
  /\ opener[h] = "own"
  /\ owner' = IF file[h] = "stored" THEN [owner EXCEPT ![h] = noteOf[h]]
              ELSE owner
  /\ opener' = [opener EXCEPT ![h] = "claimed"]
  /\ UNCHANGED <<attempts, noteOf, phase, sentTo, late, file, starter, dest,
                 deliveries, tab, shell, script, store>>

(* The rest of claim_core: the file goes with the window, if it is there.   *)
OwnFile(h) ==
  /\ opener[h] = "own"
  /\ owner' = IF file[h] = "stored" THEN [owner EXCEPT ![h] = dest[h]]
              ELSE owner
  /\ opener' = [opener EXCEPT ![h] = "claimed"]
  /\ UNCHANGED <<attempts, noteOf, phase, sentTo, late, file, starter, dest,
                 deliveries, tab, shell, script, store>>

(* The script has the claim and calls windowed_open_converted.              *)
AskOpen(h) ==
  /\ opener[h] = "claimed"
  /\ Alive(dest[h])
  /\ opener' = [opener EXCEPT ![h] = "open"]
  /\ UNCHANGED <<attempts, noteOf, core, starter, dest, deliveries, tab, shell,
                 script, store>>

(* windowed_open_converted: ConvertStore::take, then a session over it.     *)
TakeFile(h) ==
  /\ opener[h] = "open"
  /\ IF file[h] = "stored"
     THEN /\ file' = [file EXCEPT ![h] = "session"]
          /\ opener' = [opener EXCEPT ![h] = "took"]
     ELSE /\ opener' = [opener EXCEPT ![h] = "refused"]
          /\ UNCHANGED file
  /\ UNCHANGED <<attempts, noteOf, phase, sentTo, late, owner, starter, dest,
                 deliveries, tab, shell, script, store>>

(* It fails before or after the file was taken, which is deleted then.      *)
OpenFails(h) ==
  /\ opener[h] = "open"
  /\ \/ file' = IF file[h] = "stored" THEN [file EXCEPT ![h] = "deleted"]
                ELSE file
     \/ UNCHANGED file
  /\ opener' = [opener EXCEPT ![h] = "refused"]
  /\ UNCHANGED <<attempts, noteOf, phase, sentTo, late, owner, starter, dest,
                 deliveries, tab, shell, script, store>>

(* The tab is there and the script calls convert_done.                      *)
ShowTab(h) ==
  /\ opener[h] = "took"
  /\ Alive(dest[h])
  /\ tab' = [tab EXCEPT ![h] = "open"]
  /\ opener' = [opener EXCEPT ![h] = "done"]
  /\ UNCHANGED <<attempts, noteOf, core, starter, dest, deliveries, shell,
                 script, store>>

(* There is no tab and the script calls convert_failed.                     *)
AskFail(h) ==
  /\ opener[h] = "refused"
  /\ Alive(dest[h])
  /\ opener' = [opener EXCEPT ![h] = "fail"]
  /\ UNCHANGED <<attempts, noteOf, core, starter, dest, deliveries, tab, shell,
                 script, store>>

(* failed_core.                                                            *)
Failed(h) ==
  /\ opener[h] = "fail"
  /\ GiveBack({h})
  /\ opener' = [opener EXCEPT ![h] = "over"]
  /\ UNCHANGED <<attempts, noteOf, sentTo, late, owner, starter, dest,
                 deliveries, tab, shell, job, store>>

(* done_core takes three locks: Handoffs::done, ...                         *)
Done(h) ==
  /\ opener[h] = "done"
  /\ IF phase[h] = "Claimed" /\ sentTo[h] = dest[h]
     THEN /\ phase' = [phase EXCEPT ![h] = "Done"]
          /\ opener' = [opener EXCEPT ![h] = "handoff"]
     ELSE /\ opener' = [opener EXCEPT ![h] = "over"]
          /\ UNCHANGED phase
  /\ UNCHANGED <<attempts, noteOf, sentTo, late, file, owner, starter, dest,
                 deliveries, tab, shell, script, store>>

(* Wrong: the record goes with the note, before the tab was saved.           *)
HandOff_DeletesRecord(h) ==
  /\ opener[h] = "handoff"
  /\ handedTo' = [handedTo EXCEPT ![noteOf[h]] = dest[h]]
  /\ record' = record \ {noteOf[h]}
  /\ opener' = [opener EXCEPT ![h] = "close"]
  /\ UNCHANGED <<attempts, noteOf, core, starter, dest, deliveries, tab, shell,
                 script, discarded>>

(* ... NoteStore::hand_off, which takes the note off the lists, ...         *)
HandOff(h) ==
  /\ opener[h] = "handoff"
  /\ handedTo' = [handedTo EXCEPT ![noteOf[h]] = dest[h]]
  /\ opener' = [opener EXCEPT ![h] = "close"]
  /\ UNCHANGED <<attempts, noteOf, core, starter, dest, deliveries, tab, shell,
                 script, record, discarded>>

(* ... and close_sticky.                                                   *)
CloseSticky(h) ==
  /\ opener[h] = "close"
  /\ StickyWindowGone(noteOf[h])
  /\ opener' = [opener EXCEPT ![h] = "over"]
  /\ UNCHANGED <<attempts, noteOf, phase, sentTo, late, owner, starter, dest,
                 deliveries, tab, shell, store>>

-----------------------------------------------------------------------------
(* What becomes of the tab.                                                *)

(* The first save wrote the text; the script calls convert_sticky_saved.    *)
SaveTab(h) ==
  /\ tab[h] = "open"
  /\ tab' = [tab EXCEPT ![h] = "saving"]
  /\ UNCHANGED <<attempts, noteOf, core, starter, dest, opener, deliveries,
                 shell, script, store>>

(* sticky_saved_core: the note's record goes and it is handed off no more.  *)
StickySaved(h) ==
  /\ tab[h] = "saving"
  /\ tab' = [tab EXCEPT ![h] = "saved"]
  /\ record' = record \ {noteOf[h]}
  /\ handedTo' = [handedTo EXCEPT ![noteOf[h]] = NoWindow]
  /\ UNCHANGED <<attempts, noteOf, core, starter, dest, opener, deliveries,
                 shell, script, discarded>>

(* The user closes the unsaved tab: its session ends, convert_release.      *)
DropTab(h) ==
  /\ tab[h] = "open"
  /\ tab' = [tab EXCEPT ![h] = "releasing"]
  /\ file' = [file EXCEPT ![h] = "deleted"]
  /\ UNCHANGED <<attempts, noteOf, phase, sentTo, late, owner, starter, dest,
                 opener, deliveries, shell, script, store>>

(* release_core: a note that was handed off comes back as its record has it. *)
Release(h) ==
  LET n == noteOf[h] IN
  /\ tab[h] = "releasing"
  /\ tab' = [tab EXCEPT ![h] = "closed"]
  /\ handedTo' = [handedTo EXCEPT ![n] = NoWindow]
  /\ job' = IF handedTo[n] # NoWindow /\ n \in record /\ job[n] = Closed
            THEN [job EXCEPT ![n] = Free] ELSE job
  /\ UNCHANGED <<attempts, noteOf, core, starter, dest, opener, deliveries,
                 shell, told, record, discarded>>

-----------------------------------------------------------------------------
(* A document window is destroyed: its script and its tabs go, and the event *)
(* loop cleans up (handle_window_event).  Each piece of the clean-up has a   *)
(* lock of its own; a command of another thread that slips in between finds  *)
(* what it would find before or after all of them, so they are one step.     *)
DestroyWindow(w) ==
  /\ window[w] = "open"
  /\ window' = [window EXCEPT ![w] = "gone"]
  /\ tab' = [h \in Ids |-> IF dest[h] = w /\ tab[h] = "open" THEN "closed"
                           ELSE tab[h]]
  \* release_pending_opens
  /\ ready' = ready \ {w}
  /\ queued' = [queued EXCEPT ![w] = {}]
  /\ unread' = unread \cup queued[w]
  \* convert_handoff::window_destroyed, then convert::window_destroyed
  /\ LET mine == {h \in Ids : sentTo[h] = w} IN
     /\ Reclaim(mine)
     /\ Tell(mine)
     /\ file' = Aborted(Reclaimable(mine) \cup {h \in Ids : owner[h] = w})
  /\ handedTo' = [n \in Notes |-> IF handedTo[n] = w THEN NoWindow
                                  ELSE handedTo[n]]
  /\ UNCHANGED <<attempts, noteOf, sentTo, late, owner, starter, dest, opener,
                 deliveries, job, record, discarded>>

(* The thread that gives back what the window never received.               *)
GiveBackUnread(h) ==
  /\ h \in unread
  /\ unread' = unread \ {h}
  /\ GiveBack({h})
  /\ UNCHANGED <<attempts, noteOf, sentTo, late, owner, starter, dest, opener,
                 deliveries, tab, window, ready, queued, job, store>>

-----------------------------------------------------------------------------
CoreStep(h) ==
  \/ Start(h) \/ SendTo(h) \/ RouteHandoff(h) \/ EmitHandoff(h)
  \/ StartFails(h) \/ Claim(h) \/ OwnFile(h) \/ TakeFile(h) \/ Failed(h)
  \/ Done(h) \/ HandOff(h) \/ CloseSticky(h) \/ StickySaved(h) \/ Release(h)
  \/ GiveBackUnread(h) \/ StartReply(h) \/ HearReclaimed(h)

ScriptStep(h) == AskOpen(h) \/ ShowTab(h) \/ AskFail(h)

Choice(h) == NoTarget(h) \/ EmitFails(h) \/ OpenFails(h)

User ==
  \/ \E n \in Notes : \/ Convert(n) \/ GiveUpConversion(n) \/ AskHandoff(n)
                      \/ DiscardSticky(n) \/ ReopenSticky(n)
  \/ \E w \in Windows : OpenWindow(w) \/ DestroyWindow(w)
  \/ \E h \in Ids : SaveTab(h) \/ DropTab(h)

Target(h) == NoTarget(h) \/ \E w \in Windows : PickWindow(h, w)

Next ==
  \/ \E h \in Ids : CoreStep(h) \/ ScriptStep(h) \/ Choice(h) \/ Target(h)
                    \/ ClockPasses(h)
  \/ Expire
  \/ \E w \in Windows : WindowReady(w)
  \/ User

(* Commands of the core and the scripts of windows that live run on, time    *)
(* passes and its timers fire; the user, and what may fail, are free.        *)
Fairness ==
  /\ \A h \in Ids : /\ WF_vars(CoreStep(h))
                    /\ WF_vars(ScriptStep(h))
                    /\ WF_vars(Target(h))
                    /\ WF_vars(ClockPasses(h))
  /\ WF_vars(Expire)
  /\ \A w \in Windows : WF_vars(WindowReady(w))

Spec == Init /\ [][Next]_vars
FairSpec == Spec /\ Fairness

-----------------------------------------------------------------------------
(* Properties.                                                             *)

(* The text of a note can be edited at one place at most: in its unlocked    *)
(* window, or in one unsaved tab.  convert_handoff.rs keeps the window       *)
(* locked from the paste until the handoff is reclaimed or the tab is done.  *)
OneEditor ==
  \A n \in Notes :
    LET tabs == {h \in Ids : noteOf[h] = n /\ tab[h] = "open"} IN
    IF job[n].pc = "free" THEN tabs = {} ELSE Cardinality(tabs) <= 1

(* The text of a note is never lost: there is its record, or its tab was     *)
(* saved, or the user threw it away (sticky_saved_core and the discard are   *)
(* the only ways a record goes).                                           *)
TextKept ==
  \A n \in Notes :
    \/ n \in record \/ n \in discarded
    \/ \E h \in Ids : noteOf[h] = n /\ tab[h] \in {"saving", "saved"}

(* A conversion file in the store is in somebody's hands: the note's window   *)
(* that writes it, the command that was given it, a handoff that waits, or    *)
(* the living window that claimed it.  No order of claims, timeouts, errors   *)
(* and closing windows leaves one behind (set_owner, give_back, abort_window).*)
NoOrphanFile ==
  \A h \in Ids :
    file[h] = "stored" =>
      \/ job[noteOf[h]] = At("converting", h)
      \/ starter[h] = "start"
      \/ phase[h] = "Pending"
      \/ phase[h] = "Claimed" /\ Alive(sentTo[h])

(* A handoff reaches its window once, or is given back unread, never both     *)
(* (the one guard of pending_opens.rs over the queue and the ready set).      *)
DeliveredOnce ==
  \A h \in Ids : deliveries[h] + (IF h \in unread THEN 1 ELSE 0) <= 1

(* Every handoff ends: it is done or it is reclaimed, whichever window goes   *)
(* away, is slow or never answers before it claimed (CLAIM_TIMEOUT).          *)
HandoffSettles ==
  \A h \in Ids :
    phase[h] \in {"Pending", "Claimed"} ~> phase[h] \in {"Done", "Reclaimed"}

(* A note whose handoff went back does not stay locked: "the note unlocks     *)
(* and the user is told" (convertController.svelte.ts).                      *)
ReclaimedUnlocks ==
  \A n \in Notes, h \in Ids :
    phase[h] = "Reclaimed" /\ job[n].id = h ~> job[n].id # h

(* A note is off the lists only while its tab exists: it comes back when the   *)
(* changes are discarded or the window of the tab goes away                  *)
(* (convert_handoff.rs, on a Done note).                                     *)
HandedOffHasTab ==
  \A n \in Notes :
    handedTo[n] # NoWindow =>
      \E h \in Ids : noteOf[h] = n /\ dest[h] = handedTo[n]
                    /\ tab[h] \in {"open", "saving", "releasing"}

(* Handoff implements NoteText.                                            *)
Has(n, tabs) == \E h \in Ids : noteOf[h] = n /\ tab[h] \in tabs
Moving(n) ==
  \E h \in Ids : /\ noteOf[h] = n
                 /\ phase[h] \in {"Pending", "Claimed"}
                 /\ tab[h] = "none"
Place(n) ==
  CASE Has(n, {"saving", "saved"}) -> "file"
    [] ~Has(n, {"saving", "saved"}) /\ Has(n, {"open"}) -> "tab"
    [] ~Has(n, {"saving", "saved", "open"}) /\ Moving(n) -> "moving"
    [] OTHER -> IF n \in record THEN "note" ELSE "discarded"

Text == INSTANCE NoteText WITH
          where <- [n \in Notes |-> Place(n)], kept <- record
TextSpec == Text!Spec
=============================================================================
