------------------------------- MODULE Clips -------------------------------
(***************************************************************************)
(* Large copies and pastes (clipboard_store.rs, pasteRouting.ts).           *)
(*                                                                         *)
(* A copy that is too large for a page is written to a file, a clip, and    *)
(* the system clipboard is taken with a promise of its text.  A paste first *)
(* asks whether the clipboard is a clip of ours and then pins its file; if  *)
(* not it reads the text of another app.  Three devices keep the two apart: *)
(*   - reservations: a paste waits for the copies that were pressed before; *)
(*   - gates: a text is read behind a gate, and no clip is handed to the    *)
(*     clipboard while one is open, nor a gate opened meanwhile;            *)
(*   - CLIP_LOCK, over what the core takes for the clip on the clipboard.   *)
(* Reservations and gates are leases: pages that go silent lose them.       *)
(***************************************************************************)
EXTENDS Naturals, FiniteSets

CONSTANTS
  Copies, Pastes,   \* What the user presses.
  Wins,             \* Pages.
  None,             \* No copy.
  Attempts,         \* How often a paste starts over (4 in the code).
  MaxForeign        \* Bound on what other apps copy.

ASSUME ClipAssumption ==
  None \notin Copies /\ Attempts \in Nat \ {0} /\ MaxForeign \in Nat

VARIABLES
  onMain,     \* The clipboard is used on the main thread (macOS) or not.
  board,      \* The system clipboard: its change count and the clip it shows.
  foreign,    \* How often another app wrote to it.
  files,      \* Clips whose file exists.
  lock,       \* Who holds CLIP_LOCK between two steps.
  copySeq,    \* Inner.copy_seq
  active,     \* Inner.clip_state
  ours,       \* Gate.ours, read without the lock.
  numbers,    \* NUMBERS
  live,       \* The copies with a reservation.
  leaked,     \* For the properties: those that lost it before they released it.
  publishing, \* Hand-overs under way.
  gates, lapsed, revoking,  \* Pastes with a gate; its deadline is over; it was told to close.
  cpc, cwin, res, seq, count,             \* Copies.
  ppc, pwin, via, mark, found, got, lost  \* Pastes.

core == <<onMain, copySeq, active, ours, lock>>
clipboard == <<board, foreign>>
leases == <<numbers, live, leaked>>
gating == <<gates, lapsed, revoking>>
copies == <<cpc, cwin, res, seq, count>>
pastes == <<ppc, pwin, via, mark, found, got, lost>>
vars == <<core, clipboard, files, leases, publishing, gating, copies, pastes>>

Ended == {"offered", "superseded", "failed", "dropped"}
Settled == {"clip", "text", "nothing"}
Free == lock = None
Valid == active # None /\ board.shows = active
Goes(c, where) == cpc' = [cpc EXCEPT ![c] = where]
Turns(p, where) == ppc' = [ppc EXCEPT ![p] = where]

Init ==
  /\ onMain \in BOOLEAN
  /\ board = [count |-> 0, shows |-> None] /\ foreign = 0
  /\ files = {} /\ lock = None /\ copySeq = 0 /\ active = None /\ ours = None
  /\ numbers = 0 /\ live = {} /\ leaked = {}
  /\ publishing = {} /\ gates = {} /\ lapsed = {} /\ revoking = {}
  /\ cpc = [c \in Copies |-> "none"] /\ cwin \in [Copies -> Wins]
  /\ res = [c \in Copies |-> 0] /\ seq = [c \in Copies |-> 0] /\ count = [c \in Copies |-> 0]
  /\ ppc = [p \in Pastes |-> "none"] /\ pwin \in [Pastes -> Wins]
  /\ via \in [Pastes -> {"web", "core"}]
  /\ mark = [p \in Pastes |-> 0] /\ found = [p \in Pastes |-> None]
  /\ got = [p \in Pastes |-> None] /\ lost = [p \in Pastes |-> 0]

-----------------------------------------------------------------------------
(* Copies.                                                                 *)

(* The copy is pressed: it is reserved at once and waits in its page.       *)
Reserve(c) ==
  /\ cpc[c] = "none"
  /\ Goes(c, "reserved")
  /\ numbers' = numbers + 1 /\ res' = [res EXCEPT ![c] = numbers + 1]
  /\ live' = live \union {c}
  /\ UNCHANGED <<core, clipboard, files, leaked, publishing, gating, cwin, seq, count, pastes>>

(* copy_with: it is the latest from now on.                                 *)
Begin(c) ==
  /\ cpc[c] = "reserved" /\ Free
  /\ Goes(c, "begun")
  /\ copySeq' = copySeq + 1 /\ seq' = [seq EXCEPT ![c] = copySeq + 1]
  /\ UNCHANGED <<onMain, active, ours, lock, clipboard, files, leases, publishing, gating,
                 cwin, res, count, pastes>>

(* The change count is noted, then the clip is written.                     *)
Write(c) ==
  /\ cpc[c] = "begun"
  /\ Goes(c, "written") /\ count' = [count EXCEPT ![c] = board.count]
  /\ files' = files \union {c}
  /\ UNCHANGED <<core, clipboard, leases, publishing, gating, cwin, res, seq, pastes>>

(* The main thread does not answer, or the clip cannot be written or staged. *)
WriteFails(c) ==
  /\ cpc[c] = "begun"
  /\ Goes(c, "failed")
  /\ UNCHANGED <<core, clipboard, files, leases, publishing, gating, cwin, res, seq, count, pastes>>

(* The hand-over holds on until no gate is open; those that ran out go.     *)
BeginPublish(c) ==
  /\ cpc[c] = "written" /\ gates \subseteq lapsed
  /\ Goes(c, "publishing") /\ publishing' = publishing \union {c}
  /\ gates' = {} /\ lapsed' = {}
  /\ UNCHANGED <<core, clipboard, files, leases, revoking, cwin, res, seq, count, pastes>>

ExpireGates(c) ==
  /\ cpc[c] = "written" /\ lapsed # {}
  /\ gates' = gates \ lapsed /\ lapsed' = {}
  /\ UNCHANGED <<core, clipboard, files, leases, revoking, publishing, copies, pastes>>

(* Wrong: the gates of the core are told, those of the pages are not.       *)
RevokeDue_Core(c) ==
  /\ cpc[c] = "written"
  /\ \E due \in SUBSET {p \in gates \ revoking : via[p] = "core"} :
       due # {} /\ revoking' = revoking \union due
  /\ UNCHANGED <<core, clipboard, files, leases, publishing, gates, lapsed, copies, pastes>>

(* Pages whose gate has been open for long are told to close it.            *)
RevokeDue(c) ==
  /\ cpc[c] = "written"
  /\ \E due \in SUBSET {p \in gates \ revoking : via[p] = "web"} :
       due # {} /\ revoking' = revoking \union due
  /\ UNCHANGED <<core, clipboard, files, leases, publishing, gates, lapsed, copies, pastes>>

(* offer_on_main: the job is queued, or cannot be.                          *)
Queue(c) ==
  /\ cpc[c] = "publishing" /\ onMain /\ Free
  /\ \/ Goes(c, "queued") /\ UNCHANGED files
     \/ Goes(c, "failed") /\ files' = files \ {c}
  /\ UNCHANGED <<core, clipboard, leases, publishing, gating, cwin, res, seq, count, pastes>>

Stale(c) == copySeq # seq[c] \/ board.count # count[c]

(* offer_locked: the clipboard is taken, if nobody else took it meanwhile;  *)
(* a clipboard that refuses may be left empty.                             *)
Offer(c) ==
  /\ cpc[c] = (IF onMain THEN "queued" ELSE "publishing") /\ Free
  /\ \/ /\ Stale(c)
        /\ Goes(c, "superseded") /\ files' = files \ {c}
        /\ UNCHANGED <<board, lock>>
     \/ /\ ~Stale(c)
        /\ Goes(c, "published") /\ lock' = c
        /\ board' = [count |-> board.count + 1, shows |-> c]
        /\ UNCHANGED files
     \/ /\ ~Stale(c)
        /\ Goes(c, "failed") /\ files' = files \ {c}
        /\ board' \in {board, [count |-> board.count + 1, shows |-> None]}
        /\ UNCHANGED lock
  /\ UNCHANGED <<onMain, copySeq, active, ours, foreign, leases, publishing, gating,
                 cwin, res, seq, count, pastes>>

(* Wrong: the file of the clip before stays.                                *)
Install_KeepsOld(c) ==
  /\ cpc[c] = "published"
  /\ active' = c /\ ours' = c /\ lock' = None
  /\ Goes(c, "offered")
  /\ UNCHANGED <<onMain, copySeq, clipboard, files, leases, publishing, gating,
                 cwin, res, seq, count, pastes>>

(* set_state, under the same lock; the clip before goes.                    *)
Install(c) ==
  /\ cpc[c] = "published"
  /\ active' = c /\ ours' = c /\ lock' = None
  /\ files' = files \ {active}
  /\ Goes(c, "offered")
  /\ UNCHANGED <<onMain, copySeq, clipboard, leases, publishing, gating,
                 cwin, res, seq, count, pastes>>

(* Wrong: the file goes without a look at how far the job is.               *)
StopWaiting_Blind(c) ==
  /\ cpc[c] \in {"queued", "published"}
  /\ files' = files \ {c}
  /\ IF cpc[c] = "queued" THEN Goes(c, "failed") ELSE UNCHANGED cpc
  /\ UNCHANGED <<core, clipboard, leases, publishing, gating, cwin, res, seq, count, pastes>>

(* The main thread takes too long: the job is cancelled, if it did not run. *)
StopWaiting(c) ==
  /\ cpc[c] = "queued" /\ Free
  /\ Goes(c, "failed") /\ files' = files \ {c}
  /\ UNCHANGED <<core, clipboard, leases, publishing, gating, cwin, res, seq, count, pastes>>

(* Wrong: only a hand-over that went well lets gates open.                  *)
Publishing_Offered(c) ==
  /\ c \in publishing /\ cpc[c] = "offered"
  /\ publishing' = publishing \ {c}
  /\ UNCHANGED <<core, clipboard, files, leases, gating, copies, pastes>>

(* The hand-over is over, however it went: gates may open.                  *)
Publishing(c) ==
  /\ c \in publishing /\ cpc[c] \in Ended
  /\ publishing' = publishing \ {c}
  /\ UNCHANGED <<core, clipboard, files, leases, gating, copies, pastes>>

(* The copy leaves the queue of its page without being made.                *)
Drop(c) ==
  /\ cpc[c] = "reserved"
  /\ Goes(c, "dropped")
  /\ UNCHANGED <<core, clipboard, files, leases, publishing, gating, cwin, res, seq, count, pastes>>

(* The command is over and gives the reservation back, or the page does for *)
(* a copy that was dropped.                                                *)
Release(c) ==
  /\ c \in live /\ cpc[c] \in Ended /\ c \notin publishing
  /\ live' = live \ {c}
  /\ UNCHANGED <<core, clipboard, files, numbers, leaked, publishing, gating, copies, pastes>>

ReservationLapses(c) ==
  /\ c \in live
  /\ live' = live \ {c} /\ leaked' = leaked \union {c}
  /\ UNCHANGED <<core, clipboard, files, numbers, publishing, gating, copies, pastes>>

-----------------------------------------------------------------------------
(* Pastes.                                                                 *)

Press(p) ==
  /\ ppc[p] = "none"
  /\ Turns(p, "waiting") /\ mark' = [mark EXCEPT ![p] = numbers]
  /\ UNCHANGED <<core, clipboard, files, leases, publishing, gating, copies,
                 pwin, via, found, got, lost>>

(* Wrong: only the copies of the page are waited for.                       *)
ReleasedThrough_OwnPage(p) ==
  /\ ppc[p] = "waiting" /\ \A c \in live : res[c] > mark[p] \/ cwin[c] # pwin[p]
  /\ Turns(p, "asking")
  /\ UNCHANGED <<core, clipboard, files, leases, publishing, gating, copies,
                 pwin, via, mark, found, got, lost>>

(* The copies that were pressed before are done, or their page is silent.   *)
ReleasedThrough(p) ==
  /\ ppc[p] = "waiting" /\ \A c \in live : res[c] > mark[p]
  /\ Turns(p, "asking")
  /\ UNCHANGED <<core, clipboard, files, leases, publishing, gating, copies,
                 pwin, via, mark, found, got, lost>>

(* validate_locked: a clip the clipboard no longer shows is let go.         *)
ValidateLocked ==
  /\ Free
  /\ active' = IF Valid THEN active ELSE None
  /\ ours' = active'
  /\ files' = IF Valid THEN files ELSE files \ {active}

Status(p) ==
  /\ ppc[p] = "asking"
  /\ ValidateLocked
  /\ Turns(p, IF Valid THEN "pinning" ELSE "opening")
  /\ found' = [found EXCEPT ![p] = IF Valid THEN active ELSE @]
  /\ UNCHANGED <<onMain, copySeq, lock, clipboard, leases, publishing, gating, copies,
                 pwin, via, mark, got, lost>>

(* What a paste does when the clip it was told of is not there.             *)
NoClip(p) ==
  IF ppc[p] = "pinning" THEN Turns(p, "opening") /\ UNCHANGED lost
  ELSE /\ lost' = [lost EXCEPT ![p] = @ + 1]
       /\ Turns(p, IF lost'[p] = Attempts THEN "nothing" ELSE "asking")

Pinning == {"pinning", "repinning"}

(* open_with: checked and opened in one stretch of the lock.                *)
Pin(p) ==
  /\ ppc[p] \in Pinning
  /\ ValidateLocked
  /\ IF Valid /\ active = found[p] /\ active \in files
     THEN Turns(p, "clip") /\ UNCHANGED lost
     ELSE NoClip(p)
  /\ UNCHANGED <<onMain, copySeq, lock, clipboard, leases, publishing, gating, copies,
                 pwin, via, mark, found, got>>

(* The main thread does not answer a paste in time.                         *)
Unanswered(p) ==
  /\ onMain
  /\ \/ ppc[p] = "asking" /\ Turns(p, "opening") /\ UNCHANGED lost
     \/ ppc[p] \in Pinning /\ NoClip(p)
  /\ UNCHANGED <<core, clipboard, files, leases, publishing, gating, copies,
                 pwin, via, mark, found, got>>

(* The window gets the focus.                                              *)
ValidateOnFocus ==
  /\ ValidateLocked
  /\ UNCHANGED <<onMain, copySeq, lock, clipboard, leases, publishing, gating, copies, pastes>>

(* A gate opens unless a clip is handed over: the page asks again then, and *)
(* the core waits.                                                         *)
Open(p) ==
  /\ ppc[p] = "opening" /\ publishing = {}
  /\ Turns(p, "checking")
  /\ gates' = (gates \ lapsed) \union {p} /\ lapsed' = {} /\ revoking' = revoking \ {p}
  /\ UNCHANGED <<core, clipboard, files, leases, publishing, copies,
                 pwin, via, mark, found, got, lost>>

(* Wrong: the lease of a gate outlives it.                                  *)
CloseGate_KeepsLease(p) == gates' = gates \ {p} /\ revoking' = revoking \ {p} /\ UNCHANGED lapsed

CloseGate(p) == gates' = gates \ {p} /\ lapsed' = lapsed \ {p} /\ revoking' = revoking \ {p}

(* ours_if: without the lock, behind the gate.                              *)
Check(p) ==
  /\ ppc[p] = "checking"
  /\ IF ours = None \/ board.shows # ours
     THEN Turns(p, "reading") /\ UNCHANGED <<gating, found, lost>>
     ELSE /\ CloseGate(p)
          /\ IF via[p] = "web"
             THEN /\ Turns(p, "repinning") /\ found' = [found EXCEPT ![p] = ours]
                  /\ UNCHANGED lost
             ELSE NoClip(p) /\ UNCHANGED found
  /\ UNCHANGED <<core, clipboard, files, leases, publishing, copies, pwin, via, mark, got>>

(* The text on the clipboard is read: a clip of ours or of another app.     *)
Read(p) ==
  /\ ppc[p] = "reading"
  /\ Turns(p, "read") /\ got' = [got EXCEPT ![p] = board.shows]
  /\ UNCHANGED <<core, clipboard, files, leases, publishing, gating, copies,
                 pwin, via, mark, found, lost>>

(* The main thread does not answer the core; the page has lost the focus,   *)
(* or the user types on.                                                   *)
GiveUpReading(p) ==
  /\ ppc[p] = "reading" /\ (via[p] = "core" => onMain)
  /\ Turns(p, "nothing") /\ CloseGate(p)
  /\ UNCHANGED <<core, clipboard, files, leases, publishing, copies,
                 pwin, via, mark, found, got, lost>>

(* Wrong: the page does not ask whether its gate was still held.            *)
EndRead_Trusting(p) ==
  /\ ppc[p] = "read"
  /\ Turns(p, "text") /\ CloseGate(p)
  /\ UNCHANGED <<core, clipboard, files, leases, publishing, copies,
                 pwin, via, mark, found, got, lost>>

(* The text counts if the gate was held all the while.                      *)
EndRead(p) ==
  /\ ppc[p] = "read"
  /\ Turns(p, IF via[p] = "core" \/ p \in gates \ lapsed THEN "text" ELSE "nothing")
  /\ CloseGate(p)
  /\ UNCHANGED <<core, clipboard, files, leases, publishing, copies,
                 pwin, via, mark, found, got, lost>>

(* clip-gate-revoked is heard by the page that reads.                       *)
HearRevoked(p) ==
  /\ p \in revoking /\ ppc[p] \in {"reading", "read"}
  /\ Turns(p, "nothing") /\ CloseGate(p)
  /\ UNCHANGED <<core, clipboard, files, leases, publishing, copies,
                 pwin, via, mark, found, got, lost>>

(* A page that goes silent lets its gate run out; it may still renew it     *)
(* before anybody looks.  The core is done before its own lease is.         *)
GateLapses(p) ==
  /\ p \in gates \ lapsed /\ via[p] = "web"
  /\ lapsed' = lapsed \union {p}
  /\ UNCHANGED <<core, clipboard, files, leases, publishing, gates, revoking, copies, pastes>>

Renew(p) ==
  /\ p \in lapsed
  /\ lapsed' = lapsed \ {p}
  /\ UNCHANGED <<core, clipboard, files, leases, publishing, gates, revoking, copies, pastes>>

(* A page is loaded anew, or its window closes: what it held goes, and what *)
(* it was about to do.                                                     *)
WindowReset(w) ==
  LET mine == {c \in live : cwin[c] = w}
      queued == {c \in Copies : cwin[c] = w /\ cpc[c] = "reserved"}
      gone == {p \in Pastes : pwin[p] = w /\ ppc[p] \notin Settled \union {"none"}}
  IN
  /\ mine \union queued \union gone # {}
  /\ live' = live \ mine /\ leaked' = leaked \union mine
  /\ cpc' = [c \in Copies |-> IF c \in queued THEN "dropped" ELSE cpc[c]]
  /\ ppc' = [p \in Pastes |-> IF p \in gone THEN "nothing" ELSE ppc[p]]
  /\ gates' = gates \ gone /\ lapsed' = lapsed \ gone /\ revoking' = revoking \ gone
  /\ UNCHANGED <<core, clipboard, files, numbers, publishing, cwin, res, seq, count,
                 pwin, via, mark, found, got, lost>>

(* Another app copies.                                                     *)
Foreign ==
  /\ foreign < MaxForeign
  /\ foreign' = foreign + 1 /\ board' = [count |-> board.count + 1, shows |-> None]
  /\ UNCHANGED <<core, files, leases, publishing, gating, copies, pastes>>

-----------------------------------------------------------------------------
CopyStep(c) ==
  \/ Begin(c) \/ Write(c) \/ WriteFails(c) \/ BeginPublish(c) \/ Queue(c)
  \/ Offer(c) \/ Install(c) \/ StopWaiting(c) \/ Publishing(c) \/ Release(c)

PasteStep(p) ==
  \/ ReleasedThrough(p) \/ Status(p) \/ Pin(p) \/ Unanswered(p) \/ Open(p) \/ Check(p)
  \/ EndRead(p) \/ HearRevoked(p)

Next ==
  \/ \E c \in Copies : Reserve(c) \/ Drop(c) \/ CopyStep(c) \/ ExpireGates(c) \/ RevokeDue(c)
                       \/ ReservationLapses(c)
  \/ \E p \in Pastes : Press(p) \/ PasteStep(p) \/ Read(p) \/ GiveUpReading(p)
                       \/ GateLapses(p) \/ Renew(p)
  \/ \E w \in Wins : WindowReset(w)
  \/ ValidateOnFocus \/ Foreign

Spec == Init /\ [][Next]_vars

(* Threads and pages go on; nobody presses, and a page may read for ever.   *)
Fairness ==
  /\ \A c \in Copies : WF_vars(CopyStep(c)) /\ WF_vars(RevokeDue(c))
  /\ \A p \in Pastes : /\ WF_vars(PasteStep(p))
                       /\ WF_vars(via[p] = "core" /\ Read(p))
FairSpec == Spec /\ Fairness

-----------------------------------------------------------------------------
TypeOK ==
  /\ onMain \in BOOLEAN
  /\ board \in [count : Nat, shows : Copies \union {None}] /\ foreign \in Nat
  /\ files \subseteq Copies /\ {lock, active, ours} \subseteq Copies \union {None}
  /\ copySeq \in Nat /\ numbers \in Nat
  /\ live \subseteq Copies /\ leaked \subseteq Copies /\ publishing \subseteq Copies
  /\ lapsed \subseteq gates /\ gates \subseteq Pastes /\ revoking \subseteq Pastes
  /\ cpc \in [Copies -> Ended \union {"none", "reserved", "begun", "written",
                                      "publishing", "queued", "published"}]
  /\ cwin \in [Copies -> Wins] /\ {res, seq, count} \subseteq [Copies -> Nat]
  /\ ppc \in [Pastes -> Settled \union Pinning \union {"none", "waiting", "asking", "opening",
                                                       "checking", "reading", "read"}]
  /\ pwin \in [Pastes -> Wins] /\ via \in [Pastes -> {"web", "core"}]
  /\ mark \in [Pastes -> Nat] /\ found \in [Pastes -> Copies \union {None}]
  /\ got \in [Pastes -> Copies \union {None}] /\ lost \in [Pastes -> 0 .. Attempts]

(* "What is read is never ours": a text that is pasted as the text of       *)
(* another app is not a clip of ours, whatever was handed over, ran out,    *)
(* was revoked or timed out while it was read.                             *)
TextIsForeign == \A p \in Pastes : ppc[p] = "text" => got[p] = None

(* The text that was promised to other apps can be supplied: the file of    *)
(* the clip on the clipboard is there.                                     *)
OfferHasFile == board.shows # None => board.shows \in files

(* No clip file is left behind by a copy that failed, was overtaken or      *)
(* timed out: each is of the clip in use or of a copy under way.           *)
NoStrayFile ==
  \A c \in files \ {active} : cpc[c] \in {"written", "publishing", "queued", "published"}

(* A paste gets the copy that was pressed last before it, of whatever       *)
(* window, or a newer one, unless the page of that copy went silent.        *)
PasteIsNotOlder ==
  \A p \in Pastes, c \in Copies \ leaked :
    ppc[p] = "clip" /\ cpc[c] = "offered" /\ res[c] <= mark[p] => seq[c] <= seq[found[p]]

(* A copy comes to an end, though pages read for ever behind their gates.   *)
CopyEnds == \A c \in Copies : cpc[c] = "begun" ~> cpc[c] \in Ended /\ c \notin publishing

(* A paste gets its clip, reads, or is told there is nothing.               *)
PasteAnswered == \A p \in Pastes : ppc[p] = "waiting" ~> ppc[p] \in Settled \union {"reading"}
=============================================================================
