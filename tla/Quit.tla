-------------------------------- MODULE Quit --------------------------------
(***************************************************************************)
(* Quitting asks every window first (src-tauri/src/flush.rs, flush_then_exit *)
(* of lib.rs, closeGate.svelte.ts and the flush listeners of StickyApp).     *)
(* A quit arms the flush gate with the labels of the windows and broadcasts  *)
(* flush-request.  A window writes its edits to snapshots and acks, or       *)
(* vetoes the quit: something of it fits in no snapshot, or input is still   *)
(* on its way into it.  A thread waits for the last ack, a veto or a timeout *)
(* and exits, or undoes the handshake, releases the guard and broadcasts     *)
(* flush-cancelled.  Acks and vetoes are calls of their own: they say which  *)
(* window they are from, and not which handshake.                           *)
(***************************************************************************)
EXTENDS Naturals, FiniteSetsExt, Sequences

CONSTANTS
  Wins,        \* The windows with something to flush.
  MaxQuits,    \* How many handshakes are started: bounds the runs only.
  MaxEdits,    \* How many edits are made: bounds the runs only.
  Overlap      \* Whether a quit may be asked for again while windows still
               \* work on what the vetoed one asked of them.

ASSUME QuitAssumption ==
  MaxQuits \in Nat /\ MaxEdits \in Nat /\ Overlap \in BOOLEAN

Quits == 1..MaxQuits

VARIABLES
  app,         \* "running", or how it ended: "completed" or "timed out".
  inFlight,    \* QUIT_IN_FLIGHT.
  pending, cancelled, generation,  \* The flush gate.
  quits,       \* The handshakes started.
  thread,      \* Where each handshake is, and the generation it waits on.
  alive,       \* The windows that are there ...
  closing,     \* ... and those that flushed and are about to be destroyed.
  inbox,       \* The events on their way to a window, in order.
  quitting,    \* The windows that believe the app is about to exit.
  task,        \* Where a window is with its answer to a handshake ...
  waiting,     \* ... and the answers that wait for the next flush-cancelled.
  edits,       \* The edits made in a window ...
  snapped,     \* ... the edits its snapshots and files have ...
  writing,     \* ... those a flush under way writes, by handshake ...
  asked,       \* ... and those there were when the last handshake began.
  unfit,       \* The windows with an edit that fits in no snapshot.
  busy,        \* The windows with input on its way in (windowedPending).
  dialog       \* The windows that ask the user about what does not fit.

gate == <<pending, cancelled, generation>>
core == <<inFlight, quits, thread>>
wins == <<alive, closing, quitting>>
work == <<task, waiting>>
text == <<edits, snapped, writing, asked, unfit, busy>>
vars == <<app, core, gate, wins, inbox, work, text, dialog>>

(* An event says no more than its name; the handshake is for the properties.   *)
Request(q)   == [name |-> "flush-request", quit |-> q]
Cancelled(q) == [name |-> "flush-cancelled", quit |-> q]
Event == [name : {"flush-request", "flush-cancelled"}, quit : Quits]

Apps    == {"running", "completed", "timed out"}
Threads == {"none", "arm", "emit", "wait", "disarm", "release", "announce",
            "over", "exited"}
Tasks   == {"none", "flush", "ack", "acked", "veto", "veto busy", "land", "landed",
            "ask", "asked"}

TypeOK ==
  /\ app \in Apps
  /\ inFlight \in BOOLEAN
  /\ pending \in SUBSET Wins
  /\ cancelled \in BOOLEAN
  /\ generation \in Nat
  /\ quits \in 0..MaxQuits
  /\ thread \in [Quits -> [pc : Threads, gen : Nat]]
  /\ alive \in SUBSET Wins
  /\ closing \in SUBSET Wins
  /\ inbox \in [Wins -> Seq(Event)]
  /\ quitting \in SUBSET Wins
  /\ task \in [Wins -> [Quits -> Tasks]]
  /\ waiting \in SUBSET (Wins \X Quits)
  /\ edits \in [Wins -> Nat]
  /\ snapped \in [Wins -> Nat]
  /\ writing \in [Wins -> [Quits -> Nat]]
  /\ asked \in [Wins -> Nat]
  /\ unfit \in SUBSET Wins
  /\ busy \in SUBSET Wins
  /\ dialog \in SUBSET Wins

Init ==
  /\ app = "running"
  /\ inFlight = FALSE
  /\ pending = {} /\ cancelled = FALSE /\ generation = 0
  /\ quits = 0
  /\ thread = [q \in Quits |-> [pc |-> "none", gen |-> 0]]
  /\ alive = Wins
  /\ closing = {}
  /\ inbox = [w \in Wins |-> <<>>]
  /\ quitting = {}
  /\ task = [w \in Wins |-> [q \in Quits |-> "none"]]
  /\ waiting = {}
  /\ edits = [w \in Wins |-> 0]
  /\ snapped = [w \in Wins |-> 0]
  /\ writing = [w \in Wins |-> [q \in Quits |-> 0]]
  /\ asked = [w \in Wins |-> 0]
  /\ unfit = {}
  /\ busy = {}
  /\ dialog = {}

Running == app = "running"
At(q, pc) == thread[q].pc = pc
Goto(q, pc) == thread' = [thread EXCEPT ![q].pc = pc]
Answer(w, q, t) == task' = [task EXCEPT ![w][q] = t]

-----------------------------------------------------------------------------
(* flush_then_exit.                                                        *)

(* Nothing is left of an earlier handshake but the step that asks again.     *)
Quiet ==
  /\ \A q \in Quits : thread[q].pc \in {"none", "over"}
  /\ \A w \in alive : inbox[w] = <<>>
  /\ \A w \in alive, q \in Quits :
       task'[w][q] \in {"none", "acked", "asked"}

(* The guard lets one handshake through at a time; any other is ignored.     *)
Guarded == inFlight
AskToQuit ==
  IF Guarded
  THEN UNCHANGED core
  ELSE /\ quits < MaxQuits
       /\ Overlap \/ Quiet
       /\ inFlight' = TRUE
       /\ quits' = quits + 1
       /\ thread' = [thread EXCEPT ![quits + 1].pc = "arm"]

(* The menu, the tray, Cmd+Q.                                              *)
UserQuits ==
  /\ Running
  /\ UNCHANGED <<app, gate, wins, inbox, work, text, dialog>>
  /\ AskToQuit

(* FlushGate::arm, with the labels of the windows there are; none: exit.     *)
Arm(q) ==
  /\ Running /\ At(q, "arm")
  /\ asked' = edits
  /\ IF alive = {}
     THEN /\ app' = "completed"
          /\ Goto(q, "exited")
          /\ UNCHANGED gate
     ELSE /\ pending' = alive
          /\ cancelled' = FALSE
          /\ generation' = generation + 1
          /\ thread' = [thread EXCEPT ![q] = [pc |-> "emit", gen |-> generation']]
          /\ UNCHANGED app
  /\ UNCHANGED <<inFlight, quits, wins, inbox, work, edits, snapped, writing,
                 unfit, busy, dialog>>

(* Wrong: the name that is sent is not the one that is listened for.         *)
Broadcast_Misnamed(event) ==
  inbox' = [w \in Wins |-> IF w \in alive THEN Append(inbox[w], [event EXCEPT !.name = "flush"])
                           ELSE inbox[w]]

Broadcast(event) ==
  inbox' = [w \in Wins |-> IF w \in alive THEN Append(inbox[w], event)
                           ELSE inbox[w]]

EmitRequest(q) ==
  /\ Running /\ At(q, "emit")
  /\ Broadcast(Request(q))
  /\ Goto(q, "wait")
  /\ UNCHANGED <<app, inFlight, gate, quits, wins, work, text, dialog>>

(* Wrong: wait looks at the generation and the acks alone.                   *)
Superseded_NoVeto(q) == thread[q].gen # generation

(* FlushGate::wait returns.  A veto, or a gate that is another handshake's,  *)
(* wins over completion and over the timeout.                               *)
Superseded(q) == thread[q].gen # generation \/ cancelled

WaitCancelled(q) ==
  /\ Running /\ At(q, "wait")
  /\ Superseded(q)
  /\ Goto(q, "disarm")
  /\ UNCHANGED <<app, inFlight, gate, quits, wins, inbox, work, text, dialog>>

Exit(q, how) ==
  /\ app' = how
  /\ Goto(q, "exited")
  /\ UNCHANGED <<inFlight, gate, quits, wins, inbox, work, text, dialog>>

WaitCompleted(q) ==
  /\ Running /\ At(q, "wait")
  /\ ~Superseded(q)
  /\ pending = {}
  /\ Exit(q, "completed")

WaitTimedOut(q) ==
  /\ Running /\ At(q, "wait")
  /\ ~Superseded(q)
  /\ pending # {}
  /\ Exit(q, "timed out")

(* FlushGate::disarm, ...                                                  *)
Disarm(q) ==
  /\ Running /\ At(q, "disarm")
  /\ pending' = {}
  /\ cancelled' = FALSE
  /\ generation' = generation + 1
  /\ Goto(q, "release")
  /\ UNCHANGED <<app, inFlight, quits, wins, inbox, work, text, dialog>>

(* Wrong: the wait ends without giving the guard back.                      *)
ReleaseGuard_Kept(q) ==
  /\ Running /\ At(q, "release")
  /\ Goto(q, "announce")
  /\ UNCHANGED <<app, inFlight, gate, quits, wins, inbox, work, text, dialog>>

(* ... the guard, ...                                                      *)
ReleaseGuard(q) ==
  /\ Running /\ At(q, "release")
  /\ inFlight' = FALSE
  /\ Goto(q, "announce")
  /\ UNCHANGED <<app, gate, quits, wins, inbox, work, text, dialog>>

(* Wrong: only the windows still awaited hear that the quit was called off.  *)
Announce_Awaited(q) ==
  /\ Running /\ At(q, "announce")
  /\ inbox' = [w \in Wins |-> IF w \in alive \cap pending
                              THEN Append(inbox[w], Cancelled(q)) ELSE inbox[w]]
  /\ Goto(q, "over")
  /\ UNCHANGED <<app, inFlight, gate, quits, wins, work, text, dialog>>

(* ... and then the event.                                                 *)
Announce(q) ==
  /\ Running /\ At(q, "announce")
  /\ Broadcast(Cancelled(q))
  /\ Goto(q, "over")
  /\ UNCHANGED <<app, inFlight, gate, quits, wins, work, text, dialog>>

-----------------------------------------------------------------------------
(* A window.                                                               *)

Heard(w, event) ==
  /\ Running
  /\ w \in alive
  /\ inbox[w] # <<>> /\ Head(inbox[w]) = event
  /\ inbox' = [inbox EXCEPT ![w] = Tail(@)]

Working(w, q, t) == Running /\ w \in alive /\ task[w][q] = t

(* Wrong: the ack does not wait for the flush it starts.                     *)
Flushes_Unawaited(w, q) ==
  /\ Answer(w, q, "ack")
  /\ writing' = [writing EXCEPT ![w][q] = edits[w]]

Flushes(w, q) ==
  /\ Answer(w, q, "flush")
  /\ writing' = [writing EXCEPT ![w][q] = edits[w]]

(* Wrong: the veto is not waited out.                                       *)
Waits_Not(w, q) == UNCHANGED waiting

(* nextCancelled.                                                          *)
Waits(w, q) == waiting' = waiting \cup {<<w, q>>}

(* onFlushRequest.  Input on its way in, and what fits in no snapshot, veto   *)
(* at once; anything else is flushed.                                       *)
HearRequest(w, q) ==
  /\ Heard(w, Request(q))
  /\ quitting' = quitting \cup {w}
  /\ CASE w \in busy ->
            /\ Answer(w, q, "veto busy")
            /\ Waits(w, q)
            /\ UNCHANGED writing
       [] w \in unfit \ busy ->
            /\ Answer(w, q, "veto")
            /\ UNCHANGED <<waiting, writing>>
       [] OTHER ->
            /\ Flushes(w, q)
            /\ UNCHANGED waiting
  /\ UNCHANGED <<app, core, gate, alive, closing, edits, snapped, asked, unfit,
                 busy, dialog>>

(* flushAll ends; what was edited since it began is not in it.              *)
FlushEnds(w, q) ==
  /\ Working(w, q, "flush")
  /\ snapped' = [snapped EXCEPT ![w] = IF writing[w][q] > @ THEN writing[w][q]
                                       ELSE @]
  /\ writing' = [writing EXCEPT ![w][q] = 0]
  /\ Answer(w, q, "ack")
  /\ UNCHANGED <<app, core, gate, wins, inbox, waiting, edits, asked, unfit,
                 busy, dialog>>

(* A snapshot could not be written, which only the attempt shows.            *)
FlushFails(w, q) ==
  /\ Working(w, q, "flush")
  /\ unfit' = unfit \cup {w}
  /\ writing' = [writing EXCEPT ![w][q] = 0]
  /\ Answer(w, q, "veto")
  /\ UNCHANGED <<app, core, gate, wins, inbox, waiting, edits, snapped, asked,
                 busy, dialog>>

(* FlushGate::ack.                                                         *)
AckedBy(w) == pending' = pending \ {w}

Ack(w, q) ==
  /\ Running
  /\ task[w][q] = "ack"
  /\ AckedBy(w)
  /\ Answer(w, q, "acked")
  /\ UNCHANGED <<app, core, cancelled, generation, wins, inbox, waiting, text,
                 dialog>>

(* FlushGate::cancel.                                                      *)
Cancel(w, q) ==
  /\ Running
  /\ task[w][q] \in {"veto", "veto busy"}
  /\ cancelled' = TRUE
  /\ Answer(w, q, IF task[w][q] = "veto" THEN "ask" ELSE "land")
  /\ UNCHANGED <<app, core, pending, generation, wins, inbox, waiting, text,
                 dialog>>

(* endComposition: the input has landed.                                    *)
Land(w, q) ==
  /\ Working(w, q, "land")
  /\ busy' = busy \ {w}
  /\ Answer(w, q, "landed")
  /\ UNCHANGED <<app, core, gate, wins, inbox, waiting, edits, snapped, writing,
                 asked, unfit, dialog>>

(* prompt: ask about what does not fit; with nothing to ask, quit again.      *)
Prompt(w, q) ==
  /\ Working(w, q, "ask") \/ Working(w, q, "landed")
  /\ <<w, q>> \notin waiting
  /\ Answer(w, q, "asked")
  /\ IF w \in unfit
     THEN dialog' = dialog \cup {w} /\ UNCHANGED core
     ELSE AskToQuit /\ UNCHANGED dialog
  /\ UNCHANGED <<app, gate, wins, inbox, waiting, text>>

(* onFlushCancelled.                                                       *)
HearCancelled(w) ==
  /\ \E q \in Quits : Heard(w, Cancelled(q))
  /\ quitting' = quitting \ {w}
  /\ waiting' = {p \in waiting : p[1] # w}
  /\ UNCHANGED <<app, core, gate, alive, closing, task, text, dialog>>

(* The user saves or discards what does not fit, and the quit goes on; or     *)
(* leaves it as it is.                                                     *)
Resolve(w) ==
  /\ Running /\ w \in alive \cap dialog
  /\ dialog' = dialog \ {w}
  /\ UNCHANGED <<app, gate, wins, inbox, work, edits, writing, asked, busy>>
  /\ \/ /\ unfit' = unfit \ {w}
        /\ snapped' = [snapped EXCEPT ![w] = edits[w]]
        /\ AskToQuit
     \/ UNCHANGED <<unfit, snapped, core>>

(* The user types.  What is typed may fit in no snapshot, or still be on its  *)
(* way in.                                                                 *)
Edit(w) ==
  /\ Running /\ w \in alive
  /\ MapThenSumSet(LAMBDA v : edits[v], Wins) < MaxEdits
  /\ edits' = [edits EXCEPT ![w] = @ + 1]
  /\ unfit' \in {unfit, unfit \cup {w}}
  /\ busy' \in {busy, busy \cup {w}}
  /\ UNCHANGED <<app, core, gate, wins, inbox, work, snapped, writing, asked,
                 dialog>>

InputLands(w) ==
  /\ Running /\ w \in alive \cap busy
  /\ busy' = busy \ {w}
  /\ UNCHANGED <<app, core, gate, wins, inbox, work, edits, snapped, writing,
                 asked, unfit, dialog>>

(* A window closes on its own, flushed and with nothing unfit: not once it    *)
(* believes that the app exits.                                            *)
CloseWindow(w) ==
  /\ Running /\ w \in alive \ closing
  /\ w \notin quitting \cup unfit \cup busy
  /\ closing' = closing \cup {w}
  /\ snapped' = [snapped EXCEPT ![w] = edits[w]]
  /\ UNCHANGED <<app, core, gate, alive, quitting, inbox, work, edits, writing,
                 asked, unfit, busy, dialog>>

(* Wrong: nobody acks for the window.                                       *)
AckForGone_Not(w) == UNCHANGED pending

AckForGone(w) == AckedBy(w)

(* Destroyed: the core acks for the window, its webview runs no further, and  *)
(* only a call that it has already made still arrives.                       *)
Destroyed(w) ==
  /\ Running /\ w \in closing
  /\ alive' = alive \ {w}
  /\ closing' = closing \ {w}
  /\ AckForGone(w)
  /\ inbox' = [inbox EXCEPT ![w] = <<>>]
  /\ quitting' = quitting \ {w}
  /\ dialog' = dialog \ {w}
  /\ UNCHANGED <<app, core, cancelled, generation, work, text>>

-----------------------------------------------------------------------------
ThreadStep(q) ==
  \/ Arm(q) \/ EmitRequest(q) \/ WaitCancelled(q) \/ WaitCompleted(q)
  \/ WaitTimedOut(q) \/ Disarm(q) \/ ReleaseGuard(q) \/ Announce(q)

WindowStep(w) ==
  \/ \E q \in Quits : \/ HearRequest(w, q) \/ FlushEnds(w, q) \/ Ack(w, q)
                      \/ Cancel(w, q) \/ Land(w, q) \/ Prompt(w, q)
  \/ HearCancelled(w)
  \/ Destroyed(w)

User(w) == Resolve(w) \/ Edit(w) \/ InputLands(w) \/ CloseWindow(w)

Next ==
  \/ UserQuits
  \/ \E q \in Quits : ThreadStep(q)
  \/ \E w \in Wins : \/ WindowStep(w)
                     \/ User(w)
                     \/ \E q \in Quits : FlushFails(w, q)

(* Threads run, the timeout included, and so do windows.                     *)
Fairness ==
  /\ \A q \in Quits : WF_vars(ThreadStep(q))
  /\ \A w \in Wins : WF_vars(WindowStep(w))

Spec == Init /\ [][Next]_vars
FairSpec == Spec /\ Fairness

-----------------------------------------------------------------------------
(* An exit loses no edit made before the quit was asked for, in any window    *)
(* whose answer came; with no timeout that is every window (flush_then_exit,  *)
(* FlushGate::wait).                                                       *)
ExitKeepsEdits ==
  app # "running" =>
    /\ \A w \in alive \ pending : snapped[w] >= asked[w]
    /\ app = "completed" => pending = {}

(* An exit that no timeout forced loses no edit made before the quit was      *)
(* asked for, in any window there is (FlushGate::disarm, FlushGate::wait).    *)
CompletedKeepsEdits ==
  app = "completed" => \A w \in alive : snapped[w] >= asked[w]

(* A veto that reached the gate stands: the handshake it answers ends in no   *)
(* exit, not even by the timeout (FlushGate::cancel, FlushGate::wait).        *)
VetoStands ==
  \A q \in Quits, w \in Wins :
    At(q, "exited") => task[w][q] \notin {"land", "landed", "ask", "asked"}

(* The gate never waits for a window that is gone (the Destroyed arm of       *)
(* handle_window_event), so no quit stalls until the timeout on its account.  *)
OnlyLiveAwaited == Running => pending \subseteq alive

(* A window that called the quit off for input on its way asks for it again   *)
(* only after that handshake released the guard, so that the request is not   *)
(* ignored because of the very handshake it follows (onFlushRequest).         *)
ResumeHeeded ==
  [][\A w \in Wins, q \in Quits :
       task[w][q] = "landed" /\ task'[w][q] = "asked" /\ w \notin unfit
         => thread[q].pc \in {"announce", "over"}]_vars

(* Every quit comes to an end: the app exits, or it may be asked to quit      *)
(* again and no window believes any longer that it exits (flush_then_exit,    *)
(* onFlushCancelled).                                                      *)
QuitSettles ==
  (inFlight \/ quitting # {}) ~> ((~inFlight /\ quitting = {}) \/ ~Running)

=============================================================================
