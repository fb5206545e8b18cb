----------------------------- MODULE QuitProofs -----------------------------
(* What is proved of Quit for any windows, handshakes and edits; where a      *)
(* theorem does not say otherwise, whether or not handshakes overlap.        *)
EXTENDS Quit, TLAPS

(* The gate waits for living windows only: Arm takes those there are, and a   *)
(* window that is destroyed is taken off by the core (handle_window_event),   *)
(* in whatever order windows close, ack and veto.                            *)
THEOREM AwaitsTheLiving == Spec => []OnlyLiveAwaited
<1> DEFINE Inv == app \in Apps /\ pending \subseteq alive
<1>1. Init => Inv
  BY DEF Init, Apps
<1>2. Inv /\ [Next]_vars => Inv'
  <2> SUFFICES ASSUME Inv, [Next]_vars PROVE Inv'
    OBVIOUS
  <2> USE DEF gate, core, wins, work, text, Goto, Answer, Apps
  <2>1. CASE UserQuits
    BY <2>1 DEF UserQuits
  <2>2. ASSUME NEW q \in Quits, ThreadStep(q) PROVE Inv'
    <3>1. CASE Arm(q)
      BY <3>1 DEF Arm
    <3>2. CASE EmitRequest(q) \/ WaitCancelled(q)
      BY <3>2 DEF EmitRequest, WaitCancelled
    <3>3. CASE WaitCompleted(q) \/ WaitTimedOut(q)
      BY <3>3 DEF WaitCompleted, WaitTimedOut, Exit
    <3>4. CASE Disarm(q) \/ ReleaseGuard(q) \/ Announce(q)
      BY <3>4 DEF Disarm, ReleaseGuard, Announce
    <3> QED
      BY <2>2, <3>1, <3>2, <3>3, <3>4 DEF ThreadStep
  <2>3. ASSUME NEW w \in Wins, WindowStep(w) PROVE Inv'
    <3>1. ASSUME NEW q \in Quits, HearRequest(w, q) \/ FlushEnds(w, q)
          PROVE  Inv'
      BY <3>1 DEF HearRequest, FlushEnds
    <3>2. ASSUME NEW q \in Quits, Ack(w, q) PROVE Inv'
      BY <3>2 DEF Ack, AckedBy
    <3>3. ASSUME NEW q \in Quits, Cancel(w, q) \/ Land(w, q) \/ Prompt(w, q)
          PROVE  Inv'
      BY <3>3 DEF Cancel, Land, Prompt
    <3>4. CASE HearCancelled(w)
      BY <3>4 DEF HearCancelled
    <3>5. CASE Destroyed(w)
      BY <3>5 DEF Destroyed, AckForGone, AckedBy
    <3> QED
      BY <2>3, <3>1, <3>2, <3>3, <3>4, <3>5 DEF WindowStep
  <2>4. ASSUME NEW w \in Wins, User(w) PROVE Inv'
    BY <2>4 DEF User, Resolve, Edit, InputLands, CloseWindow
  <2>5. ASSUME NEW w \in Wins, NEW q \in Quits, FlushFails(w, q) PROVE Inv'
    BY <2>5 DEF FlushFails
  <2>6. CASE UNCHANGED vars
    BY <2>6 DEF vars
  <2> QED
    BY <2>1, <2>2, <2>3, <2>4, <2>5, <2>6 DEF Next
<1>3. Inv => OnlyLiveAwaited
  BY DEF OnlyLiveAwaited
<1> QED
  BY <1>1, <1>2, <1>3, PTL DEF Spec

-----------------------------------------------------------------------------
(* The events that are sent are events.                                      *)
LEMMA EventTypes == \A q \in Quits : Request(q) \in Event /\ Cancelled(q) \in Event
BY DEF Request, Cancelled, Event

(* What is found in a queue after an event was put into it, and is not that  *)
(* event, was there before.                                                  *)
LEMMA FoundBefore ==
  ASSUME NEW S, NEW s \in Seq(S), NEW e \in S, NEW x, x # e,
         NEW t, t = s \/ t = Append(s, e),
         NEW i \in 1..Len(t), t[i] = x
  PROVE  \E j \in 1..Len(s) : s[j] = x
<1>1. CASE t = s
  BY <1>1
<1>2. CASE t = Append(s, e)
  <2>1. Len(t) = Len(s) + 1 /\ Len(s) \in Nat /\ t[Len(s) + 1] = e
    BY <1>2
  <2>2. i \in 1..Len(s)
    BY <2>1
  <2>3. s[i] = t[i]
    BY <1>2, <2>2
  <2> QED
    BY <2>2, <2>3
<1> QED
  BY <1>1, <1>2

LEMMA BroadcastType ==
  ASSUME TypeOK, NEW e \in Event, Broadcast(e)
  PROVE  inbox' \in [Wins -> Seq(Event)]
BY DEF TypeOK, Broadcast

LEMMA HeardType ==
  ASSUME TypeOK, NEW w \in Wins, NEW e, Heard(w, e)
  PROVE  inbox' \in [Wins -> Seq(Event)]
BY DEF TypeOK, Heard

LEMMA GotoType ==
  ASSUME TypeOK, NEW q \in Quits, NEW pc \in Threads, Goto(q, pc)
  PROVE  thread' \in [Quits -> [pc : Threads, gen : Nat]]
BY DEF TypeOK, Goto

LEMMA AnswerType ==
  ASSUME TypeOK, NEW w \in Wins, NEW q \in Quits, NEW t \in Tasks, Answer(w, q, t)
  PROVE  task' \in [Wins -> [Quits -> Tasks]]
BY DEF TypeOK, Answer

LEMMA AskToQuitType ==
  ASSUME TypeOK, AskToQuit
  PROVE  /\ inFlight' \in BOOLEAN /\ quits' \in 0..MaxQuits
         /\ thread' \in [Quits -> [pc : Threads, gen : Nat]]
<1>1. CASE UNCHANGED core
  BY <1>1 DEF TypeOK, core
<1>2. CASE ~UNCHANGED core
  <2>1. /\ inFlight' = TRUE /\ quits < MaxQuits /\ quits' = quits + 1
        /\ thread' = [thread EXCEPT ![quits + 1].pc = "arm"]
    BY <1>2 DEF AskToQuit, core
  <2>2. quits + 1 \in Quits /\ quits + 1 \in 0..MaxQuits
    BY <2>1, QuitAssumption DEF TypeOK, Quits
  <2>3. PICK q \in Quits : q = quits + 1
    BY <2>2
  <2>4. Goto(q, "arm")
    BY <2>1, <2>3 DEF Goto
  <2> QED
    BY <2>1, <2>2, <2>4, GotoType DEF Threads
<1> QED
  BY <1>1, <1>2

LEMMA TypeStep == TypeOK /\ [Next]_vars => TypeOK'
<1> SUFFICES ASSUME TypeOK, [Next]_vars PROVE TypeOK'
  OBVIOUS
<1> USE QuitAssumption DEF gate, core, wins, work, text
<1>1. CASE UserQuits
  BY <1>1, AskToQuitType DEF UserQuits, TypeOK
<1>2. ASSUME NEW q \in Quits, ThreadStep(q) PROVE TypeOK'
  <2>1. CASE Arm(q)
    <3>1. CASE alive = {}
      BY <2>1, <3>1, GotoType DEF Arm, TypeOK, Apps, Threads
    <3>2. CASE alive # {}
      <4>1. PICK r \in [pc : Threads, gen : Nat] :
              r = [pc |-> "emit", gen |-> generation']
        <5>1. generation' \in Nat
          BY <2>1, <3>2 DEF Arm, TypeOK
        <5>2. \A n \in Nat : [pc |-> "emit", gen |-> n] \in [pc : Threads, gen : Nat]
          BY DEF Threads
        <5> QED
          BY <5>1, <5>2
      <4>2. thread' = [thread EXCEPT ![q] = r]
        BY <2>1, <3>2, <4>1 DEF Arm
      <4>3. thread' \in [Quits -> [pc : Threads, gen : Nat]]
        BY <4>1, <4>2 DEF TypeOK
      <4>4. generation' \in Nat /\ pending' \in SUBSET Wins /\ asked' \in [Wins -> Nat]
        BY <2>1, <3>2, SMTT(20) DEF Arm, TypeOK
      <4>5. cancelled' = FALSE
        BY <2>1, <3>2 DEF Arm
      <4>6. UNCHANGED <<app, inFlight, quits, wins, inbox, work, edits, snapped,
                        writing, unfit, busy, dialog>>
        BY <2>1, <3>2 DEF Arm
      <4> QED
        BY <4>3, <4>4, <4>5, <4>6 DEF TypeOK
    <3> QED
      BY <3>1, <3>2
  <2>2. CASE EmitRequest(q)
    BY <2>2, EventTypes, BroadcastType, GotoType DEF EmitRequest, TypeOK, Threads
  <2>3. CASE WaitCancelled(q)
    BY <2>3, GotoType DEF WaitCancelled, TypeOK, Threads
  <2>4. CASE WaitCompleted(q) \/ WaitTimedOut(q)
    BY <2>4, GotoType DEF WaitCompleted, WaitTimedOut, Exit, TypeOK, Threads, Apps
  <2>5. CASE Disarm(q)
    <3>1. thread' \in [Quits -> [pc : Threads, gen : Nat]]
      BY <2>5, GotoType DEF Disarm, Threads
    <3>2. generation' \in Nat
      BY <2>5 DEF Disarm, TypeOK
    <3> QED
      BY <2>5, <3>1, <3>2 DEF Disarm, TypeOK
  <2>6. CASE ReleaseGuard(q)
    BY <2>6, GotoType DEF ReleaseGuard, TypeOK, Threads
  <2>7. CASE Announce(q)
    BY <2>7, EventTypes, BroadcastType, GotoType DEF Announce, TypeOK, Threads
  <2> QED
    BY <1>2, <2>1, <2>2, <2>3, <2>4, <2>5, <2>6, <2>7 DEF ThreadStep
<1>3. ASSUME NEW w \in Wins, NEW q \in Quits,
             \/ HearRequest(w, q) \/ FlushEnds(w, q) \/ Ack(w, q)
             \/ Cancel(w, q) \/ Land(w, q) \/ Prompt(w, q) \/ FlushFails(w, q)
      PROVE  TypeOK'
  <2>1. CASE HearRequest(w, q)
    <3>1. PICK t \in {"veto busy", "veto", "flush"} : Answer(w, q, t)
      BY <2>1 DEF HearRequest, Flushes
    <3>2. /\ task' \in [Wins -> [Quits -> Tasks]]
          /\ inbox' \in [Wins -> Seq(Event)]
      BY <2>1, <3>1, AnswerType, HeardType DEF HearRequest, Tasks
    <3>3. waiting' \in SUBSET (Wins \X Quits)
      <4>1. waiting' = waiting \/ waiting' = waiting \cup {<<w, q>>}
        BY <2>1 DEF HearRequest, Waits
      <4>2. <<w, q>> \in Wins \X Quits /\ waiting \in SUBSET (Wins \X Quits)
        BY DEF TypeOK
      <4> HIDE DEF TypeOK
      <4> QED
        BY <4>1, <4>2
    <3>4. writing' \in [Wins -> [Quits -> Nat]]
      <4>1. writing' = writing \/ writing' = [writing EXCEPT ![w][q] = edits[w]]
        BY <2>1 DEF HearRequest, Flushes
      <4>2. PICK n \in Nat : n = edits[w]
        BY DEF TypeOK
      <4>3. writing \in [Wins -> [Quits -> Nat]]
        BY DEF TypeOK
      <4>4. [writing EXCEPT ![w][q] = n] \in [Wins -> [Quits -> Nat]]
        BY <4>3
      <4> QED
        BY <4>1, <4>2, <4>3, <4>4
    <3> QED
      BY <2>1, <3>2, <3>3, <3>4 DEF HearRequest, TypeOK
  <2>2. CASE FlushEnds(w, q)
    <3>1. task' \in [Wins -> [Quits -> Tasks]]
      BY <2>2, AnswerType DEF FlushEnds, Tasks
    <3> QED
      BY <2>2, <3>1, ZenonT(40) DEF FlushEnds, TypeOK
  <2>3. CASE Ack(w, q) \/ Cancel(w, q)
    <3>1. task' \in [Wins -> [Quits -> Tasks]]
      BY <2>3, AnswerType DEF Ack, Cancel, Tasks
    <3> QED
      BY <2>3, <3>1 DEF Ack, AckedBy, Cancel, TypeOK
  <2>4. CASE Land(w, q)
    <3>1. task' \in [Wins -> [Quits -> Tasks]]
      BY <2>4, AnswerType DEF Land, Tasks
    <3> QED
      BY <2>4, <3>1 DEF Land, TypeOK
  <2>5. CASE Prompt(w, q)
    <3>1. task' \in [Wins -> [Quits -> Tasks]]
      BY <2>5, AnswerType DEF Prompt, Tasks
    <3> QED
      BY <2>5, <3>1, AskToQuitType DEF Prompt, TypeOK
  <2>6. CASE FlushFails(w, q)
    <3>1. task' \in [Wins -> [Quits -> Tasks]]
      BY <2>6, AnswerType DEF FlushFails, Tasks
    <3> QED
      BY <2>6, <3>1 DEF FlushFails, TypeOK
  <2> QED
    BY <1>3, <2>1, <2>2, <2>3, <2>4, <2>5, <2>6
<1>4. ASSUME NEW w \in Wins, HearCancelled(w) \/ Destroyed(w) \/ User(w)
      PROVE  TypeOK'
  <2>1. CASE HearCancelled(w)
    BY <2>1, HeardType DEF HearCancelled, TypeOK
  <2>2. CASE Destroyed(w)
    BY <2>2 DEF Destroyed, AckForGone, AckedBy, TypeOK
  <2>3. CASE Resolve(w)
    BY <2>3, AskToQuitType DEF Resolve, TypeOK
  <2>4. CASE Edit(w)
    BY <2>4 DEF Edit, TypeOK
  <2>5. CASE InputLands(w) \/ CloseWindow(w)
    BY <2>5 DEF InputLands, CloseWindow, TypeOK
  <2> QED
    BY <1>4, <2>1, <2>2, <2>3, <2>4, <2>5 DEF User
<1>5. CASE UNCHANGED vars
  BY <1>5 DEF vars, TypeOK
<1> QED
  BY <1>1, <1>2, <1>3, <1>4, <1>5 DEF Next, WindowStep

THEOREM TypeCorrect == Spec => []TypeOK
<1>1. Init => TypeOK
  <2> SUFFICES ASSUME Init PROVE TypeOK
    OBVIOUS
  <2>1. thread \in [Quits -> [pc : Threads, gen : Nat]]
    BY DEF Init, Threads
  <2>2. task \in [Wins -> [Quits -> Tasks]] /\ writing \in [Wins -> [Quits -> Nat]]
    BY DEF Init, Tasks
  <2>3. inbox \in [Wins -> Seq(Event)]
    BY DEF Init
  <2>4. 0 \in 0..MaxQuits
    BY QuitAssumption
  <2> QED
    BY <2>1, <2>2, <2>3, <2>4 DEF Init, TypeOK, Apps
<1> QED
  BY <1>1, TypeStep, PTL DEF Spec

-----------------------------------------------------------------------------
(* A handshake whose request went out.                                       *)
Begun(q) == thread[q].pc \notin {"none", "arm", "emit"}
Vetoed == {"land", "landed", "ask", "asked"}

(* What a window is told or answers is of a handshake whose request went out; *)
(* one that is vetoed is not over by an exit, and waits no longer than until  *)
(* it looks: either the veto is there or the gate has moved on, and the gate   *)
(* never comes back to it.                                                  *)
VetoInv ==
  /\ \A q \in Quits : Running => thread[q].pc # "exited"
  /\ \A q \in Quits : q > quits => thread[q].pc = "none"
  /\ \A q \in Quits : thread[q].gen <= generation
  /\ \A w \in Wins, q \in Quits :
       /\ \A i \in 1..Len(inbox[w]) : inbox[w][i] = Request(q) => Begun(q)
       /\ task[w][q] # "none" => Begun(q)
       /\ task[w][q] \in Vetoed =>
            thread[q].pc # "exited" /\ (thread[q].pc = "wait" => Superseded(q))

(* A step that takes no thread back, sends no request, begins no answer, sets  *)
(* no veto down and does not move the gate keeps VetoInv.                     *)
LEMMA VetoKept ==
  ASSUME TypeOK, VetoInv, Running,
         UNCHANGED <<quits, thread, generation>>,
         cancelled => cancelled',
         \A w \in Wins, q \in Quits :
           /\ \A i \in 1..Len(inbox'[w]) :
                inbox'[w][i] = Request(q) =>
                  \E j \in 1..Len(inbox[w]) : inbox[w][j] = Request(q)
           /\ task'[w][q] = "none" \/ Begun(q)
           /\ task'[w][q] \in Vetoed =>
                task[w][q] \in Vetoed \/ (cancelled' /\ thread[q].pc # "exited"),
         app' = app
  PROVE  VetoInv'
<1>1. \A q \in Quits : (Superseded(q) => Superseded(q)') /\ (Begun(q) <=> Begun(q)')
  BY DEF Superseded, Begun
<1>2. \A q \in Quits : cancelled' => Superseded(q)'
  BY DEF Superseded
<1> QED
  BY <1>1, <1>2 DEF VetoInv, Running, Request

(* An event that is heard leaves those behind it.                            *)
LEMMA HeardLeaves ==
  ASSUME TypeOK, NEW w \in Wins, NEW e, Heard(w, e)
  PROVE  /\ \A d : \A v \in Wins : \A i \in 1..Len(inbox'[v]) : inbox'[v][i] = d =>
                \E j \in 1..Len(inbox[v]) : inbox[v][j] = d
         /\ 1 \in 1..Len(inbox[w]) /\ inbox[w][1] = e
BY DEF TypeOK, Heard

(* A handshake is asked for by a thread of its own.                          *)
LEMMA AskKeepsVetoes ==
  ASSUME TypeOK, VetoInv, Running, AskToQuit,
         UNCHANGED <<app, generation, cancelled, inbox>>,
         \A w \in Wins, q \in Quits :
           /\ task'[w][q] = "none" => task[w][q] = "none"
           /\ task[w][q] = "none" => task'[w][q] = "none"
           /\ task'[w][q] \in Vetoed => task[w][q] \in Vetoed
  PROVE  VetoInv'
<1>1. CASE UNCHANGED core
  <2>1. UNCHANGED <<quits, thread>>
    BY <1>1 DEF core
  <2>2. \A w \in Wins, q \in Quits : task'[w][q] = "none" \/ Begun(q)
    BY DEF VetoInv
  <2> QED
    BY <2>1, <2>2, VetoKept
<1>2. CASE ~UNCHANGED core
  <2>1. /\ quits < MaxQuits /\ quits' = quits + 1
        /\ thread' = [thread EXCEPT ![quits + 1].pc = "arm"]
    BY <1>2 DEF AskToQuit, core
  <2>2. quits + 1 \in Quits /\ quits \in Nat
    BY <2>1, QuitAssumption DEF TypeOK, Quits
  <2>3. PICK n \in Quits : n = quits + 1
    BY <2>2
  <2>4. thread[n].pc = "none"
    BY <2>2, <2>3 DEF VetoInv, Quits
  <2>5. /\ thread'[n].pc = "arm" /\ thread'[n].gen = thread[n].gen
        /\ \A q \in Quits : q # n => thread'[q] = thread[q]
    BY <2>1, <2>3 DEF TypeOK
  <2>6. \A q \in Quits : Begun(q) => q # n
    BY <2>4 DEF Begun
  <2>7. \A q \in Quits : Begun(q) => Begun(q)' /\ (Superseded(q) => Superseded(q)')
                                     /\ thread'[q] = thread[q]
    BY <2>5, <2>6 DEF Begun, Superseded
  <2>8. \A w \in Wins, q \in Quits :
          /\ task'[w][q] # "none" => Begun(q)
          /\ task'[w][q] \in Vetoed => Begun(q) /\ task[w][q] \in Vetoed
    BY DEF VetoInv, Vetoed
  <2>9. \A q \in Quits : q > quits' => q > quits /\ q # n
    BY <2>1, <2>2, <2>3 DEF Quits
  <2> QED
    BY <2>5, <2>7, <2>8, <2>9 DEF VetoInv, Running, Request
<1> QED
  BY <1>1, <1>2

(* A thread that moves on, the gate as it was.                               *)
LEMMA GotoKeepsVetoes ==
  ASSUME TypeOK, VetoInv, Running,
         NEW q \in Quits, NEW pc, Goto(q, pc),
         pc \notin {"none", "arm", "emit", "wait"},
         Begun(q),
         pc = "exited" => thread[q].pc = "wait" /\ ~Superseded(q) /\ app' # "running",
         pc # "exited" => app' = app,
         UNCHANGED <<quits, generation, cancelled, task>>,
         \A w \in Wins, r \in Quits : \A i \in 1..Len(inbox'[w]) :
            inbox'[w][i] = Request(r) =>
              \E j \in 1..Len(inbox[w]) : inbox[w][j] = Request(r)
  PROVE  VetoInv'
<1>1. /\ thread'[q].pc = pc /\ thread'[q].gen = thread[q].gen
      /\ \A r \in Quits : r # q => thread'[r] = thread[r]
  BY DEF Goto, TypeOK
<1>2. \A r \in Quits : Begun(r) => Begun(r)'
  BY <1>1 DEF Begun
<1>3. \A r \in Quits : Superseded(r) => Superseded(r)'
  BY <1>1 DEF Superseded
<1>4. \A r \in Quits : r > quits => r # q
  BY DEF VetoInv, Begun
<1> QED
  BY <1>1, <1>2, <1>3, <1>4 DEF VetoInv, Running, Request

LEMMA VetoThreads ==
  ASSUME TypeOK, VetoInv, NEW q \in Quits, ThreadStep(q)
  PROVE  VetoInv'
<1> USE DEF gate, core, wins, work, text
<1>1. CASE Arm(q)
  <2>1. Running /\ thread[q].pc = "arm"
    BY <1>1 DEF Arm, At
  <2>2. CASE alive = {}
    <3>1. app' # "running" /\ UNCHANGED <<inbox, task, quits, gate>>
      BY <1>1, <2>2 DEF Arm
    <3>2. /\ thread'[q].pc = "exited" /\ thread'[q].gen = thread[q].gen
          /\ \A r \in Quits : r # q => thread'[r] = thread[r]
      BY <1>1, <2>2 DEF Arm, Goto, TypeOK
    <3>3. \A r \in Quits : Begun(r) => r # q /\ Begun(r)' /\ thread'[r] = thread[r]
      BY <2>1, <3>2 DEF Begun
    <3>4. \A r \in Quits : Superseded(r)' = Superseded(r) \/ r = q
      BY <3>1, <3>2 DEF Superseded
    <3> QED
      BY <2>1, <3>1, <3>2, <3>3, <3>4 DEF VetoInv, Running, Request, Vetoed
  <2>3. CASE alive # {}
    <3>1. /\ generation' = generation + 1 /\ generation \in Nat
          /\ UNCHANGED <<app, inbox, task, quits>>
      BY <1>1, <2>3 DEF Arm, TypeOK
    <3>2. /\ thread'[q].pc = "emit" /\ thread'[q].gen = generation'
          /\ \A r \in Quits : r # q => thread'[r] = thread[r]
      BY <1>1, <2>3 DEF Arm, TypeOK
    <3>3. \A r \in Quits : Begun(r) => r # q /\ Begun(r)' /\ thread'[r] = thread[r]
      BY <2>1, <3>2 DEF Begun
    <3>4. \A r \in Quits : r # q => Superseded(r)'
      BY <3>1, <3>2 DEF Superseded, VetoInv, TypeOK
    <3>5. \A r \in Quits : Running' => thread'[r].pc # "exited"
      BY <2>1, <3>1, <3>2 DEF VetoInv, Running
    <3>6. q <= quits
      BY <2>1, QuitAssumption DEF VetoInv, TypeOK, Quits
    <3>7. \A r \in Quits : r > quits' => thread'[r].pc = "none"
      <4>1. \A r \in Quits : r > quits => r # q
        BY <3>6, QuitAssumption DEF TypeOK, Quits
      <4> QED
        BY <3>1, <3>2, <4>1 DEF VetoInv
    <3>8. \A r \in Quits : thread'[r].gen <= generation'
      <4>1. \A r \in Quits : thread[r].gen \in Nat /\ thread[r].gen <= generation
        BY DEF VetoInv, TypeOK
      <4> QED
        BY <3>1, <3>2, <4>1
    <3>9. ASSUME NEW w \in Wins, NEW r \in Quits
          PROVE  /\ \A i \in 1..Len(inbox'[w]) : inbox'[w][i] = Request(r) => Begun(r)'
                 /\ task'[w][r] # "none" => Begun(r)'
                 /\ task'[w][r] \in Vetoed =>
                      /\ thread'[r].pc # "exited"
                      /\ thread'[r].pc = "wait" => Superseded(r)'
      BY <3>1, <3>2, <3>3, <3>4 DEF VetoInv, Vetoed
    <3> QED
      BY <3>5, <3>7, <3>8, <3>9 DEF VetoInv, Request
  <2> QED
    BY <2>2, <2>3
<1>2. CASE EmitRequest(q)
  <2>1. /\ Running /\ thread[q].pc = "emit"
        /\ UNCHANGED <<app, quits, generation, cancelled, task>>
    BY <1>2 DEF EmitRequest, At
  <2>2. /\ thread'[q].pc = "wait" /\ thread'[q].gen = thread[q].gen
        /\ \A r \in Quits : r # q => thread'[r] = thread[r]
    BY <1>2 DEF EmitRequest, Goto, TypeOK
  <2>3. \A w \in Wins, r \in Quits : \A i \in 1..Len(inbox'[w]) :
           inbox'[w][i] = Request(r) =>
             r = q \/ \E j \in 1..Len(inbox[w]) : inbox[w][j] = Request(r)
    <3>1. Broadcast(Request(q))
      BY <1>2 DEF EmitRequest
    <3>2. \A r \in Quits : Request(r) = Request(q) => r = q
      BY DEF Request
    <3>3. \A w \in Wins : inbox[w] \in Seq(Event)
      BY DEF TypeOK
    <3>4. \A w \in Wins : inbox'[w] = inbox[w] \/ inbox'[w] = Append(inbox[w], Request(q))
      BY <3>1 DEF Broadcast
    <3> HIDE DEF Event
    <3>5. ASSUME NEW w \in Wins, NEW r \in Quits, NEW i \in 1..Len(inbox'[w]),
                 inbox'[w][i] = Request(r), r # q
          PROVE  \E j \in 1..Len(inbox[w]) : inbox[w][j] = Request(r)
      <4>1. Request(r) # Request(q)
        BY <3>2, <3>5
      <4> QED
        BY <3>3, <3>4, <3>5, <4>1, EventTypes, FoundBefore, SMTT(20)
    <3> QED
      BY <3>5
  <2>4. \A r \in Quits : Begun(r) => Begun(r)' /\ r # q
    BY <2>1, <2>2 DEF Begun
  <2>5. Begun(q)'
    BY <2>2 DEF Begun
  <2>6. \A r \in Quits : Superseded(r) => Superseded(r)'
    BY <2>1, <2>2 DEF Superseded
  <2>7. q <= quits
    BY <2>1, QuitAssumption DEF VetoInv, TypeOK, Quits
  <2>8. \A w \in Wins : task'[w][q] = "none"
    BY <2>1 DEF VetoInv, Begun
  <2> QED
    <3>1. \A r \in Quits : Running' => thread'[r].pc # "exited"
      BY <2>1, <2>2 DEF VetoInv, Running
    <3>2. \A r \in Quits : r > quits' => thread'[r].pc = "none"
      BY <2>1, <2>2, <2>7, QuitAssumption DEF VetoInv, TypeOK, Quits
    <3>3. \A r \in Quits : thread'[r].gen <= generation'
      BY <2>1, <2>2 DEF VetoInv
    <3>4. ASSUME NEW w \in Wins, NEW r \in Quits
          PROVE  /\ \A i \in 1..Len(inbox'[w]) : inbox'[w][i] = Request(r) => Begun(r)'
                 /\ task'[w][r] # "none" => Begun(r)'
                 /\ task'[w][r] \in Vetoed =>
                      /\ thread'[r].pc # "exited"
                      /\ thread'[r].pc = "wait" => Superseded(r)'
      BY <2>1, <2>2, <2>3, <2>4, <2>5, <2>6, <2>8 DEF VetoInv, Vetoed
    <3> QED
      BY <3>1, <3>2, <3>3, <3>4 DEF VetoInv, Request
<1>3. CASE WaitCancelled(q) \/ ReleaseGuard(q)
  BY <1>3, GotoKeepsVetoes DEF WaitCancelled, ReleaseGuard, At, Begun
<1>4. CASE WaitCompleted(q) \/ WaitTimedOut(q)
  BY <1>4, GotoKeepsVetoes DEF WaitCompleted, WaitTimedOut, Exit, At, Begun
<1>5. CASE Announce(q)
  <2>1. Broadcast(Cancelled(q))
    BY <1>5 DEF Announce
  <2>2. \A r \in Quits : Request(r) # Cancelled(q)
    BY DEF Request, Cancelled
  <2>3. \A w \in Wins : inbox[w] \in Seq(Event)
    BY DEF TypeOK
  <2>4. \A w \in Wins : inbox'[w] = inbox[w] \/ inbox'[w] = Append(inbox[w], Cancelled(q))
    BY <2>1 DEF Broadcast
  <2>5. ASSUME NEW w \in Wins, NEW r \in Quits, NEW i \in 1..Len(inbox'[w]),
               inbox'[w][i] = Request(r)
        PROVE  \E j \in 1..Len(inbox[w]) : inbox[w][j] = Request(r)
    <3>1. Request(r) # Cancelled(q)
      BY <2>2
    <3> HIDE DEF Event
    <3> QED
      BY <2>3, <2>4, <2>5, <3>1, EventTypes, FoundBefore
  <2> QED
    BY <1>5, <2>5, GotoKeepsVetoes DEF Announce, At, Begun
<1>6. CASE Disarm(q)
  <2>1. /\ Running /\ thread[q].pc = "disarm"
        /\ generation' = generation + 1 /\ generation \in Nat
        /\ UNCHANGED <<app, inbox, task, quits>>
    BY <1>6 DEF Disarm, At, TypeOK
  <2>2. /\ thread'[q].pc = "release" /\ thread'[q].gen = thread[q].gen
        /\ \A r \in Quits : r # q => thread'[r] = thread[r]
    BY <1>6 DEF Disarm, Goto, TypeOK
  <2>3. \A r \in Quits : Begun(r) => Begun(r)'
    BY <2>1, <2>2 DEF Begun
  <2>4. \A r \in Quits : thread'[r].gen \in Nat /\ thread'[r].gen <= generation
    BY <2>2 DEF VetoInv, TypeOK
  <2>5. \A r \in Quits : Superseded(r)'
    BY <2>1, <2>4 DEF Superseded
  <2>6. q <= quits
    BY <2>1, QuitAssumption DEF VetoInv, TypeOK, Quits
  <2>7. \A r \in Quits : Running' => thread'[r].pc # "exited"
    BY <2>1, <2>2 DEF VetoInv, Running
  <2>8. \A r \in Quits : r > quits' => thread'[r].pc = "none"
    BY <2>1, <2>2, <2>6, QuitAssumption DEF VetoInv, TypeOK, Quits
  <2>9. \A r \in Quits : thread'[r].gen <= generation'
    BY <2>1, <2>4
  <2>10. ASSUME NEW w \in Wins, NEW r \in Quits
         PROVE  /\ \A i \in 1..Len(inbox'[w]) : inbox'[w][i] = Request(r) => Begun(r)'
                /\ task'[w][r] # "none" => Begun(r)'
                /\ task'[w][r] \in Vetoed => thread'[r].pc # "exited"
    BY <2>1, <2>2, <2>3 DEF VetoInv
  <2> QED
    BY <2>5, <2>7, <2>8, <2>9, <2>10 DEF VetoInv, Request
<1> QED
  BY <1>1, <1>2, <1>3, <1>4, <1>5, <1>6 DEF ThreadStep

LEMMA VetoAnswers ==
  ASSUME TypeOK, VetoInv, NEW w \in Wins, NEW q \in Quits,
         \/ HearRequest(w, q) \/ FlushEnds(w, q) \/ Ack(w, q)
         \/ Cancel(w, q) \/ Land(w, q) \/ Prompt(w, q) \/ FlushFails(w, q)
  PROVE  VetoInv'
<1> USE DEF gate, core, wins, work, text
<1>1. CASE HearRequest(w, q)
  <2>1. PICK t \in {"veto busy", "veto", "flush"} : Answer(w, q, t)
    BY <1>1 DEF HearRequest, Flushes
  <2>2. Heard(w, Request(q)) /\ Running /\ UNCHANGED <<app, core, gate>>
    BY <1>1 DEF HearRequest, Heard
  <2>3. Begun(q)
    BY <2>2, HeardLeaves DEF VetoInv
  <2>4. \A v \in Wins, r \in Quits :
          task'[v][r] = task[v][r] \/ (r = q /\ task'[v][r] = t)
    BY <2>1 DEF Answer, TypeOK
  <2>5. \A v \in Wins, r \in Quits :
          /\ task'[v][r] = "none" \/ Begun(r)
          /\ task'[v][r] \in Vetoed => task[v][r] \in Vetoed
    BY <2>3, <2>4 DEF VetoInv, Vetoed
  <2> QED
    BY <2>2, <2>5, HeardLeaves, VetoKept
<1>2. CASE FlushEnds(w, q) \/ FlushFails(w, q) \/ Ack(w, q)
  <2>1. PICK t \in {"ack", "veto", "acked"} : Answer(w, q, t)
    BY <1>2 DEF FlushEnds, FlushFails, Ack
  <2>2. /\ Running /\ task[w][q] # "none"
        /\ UNCHANGED <<app, core, cancelled, generation, inbox>>
    BY <1>2 DEF FlushEnds, FlushFails, Ack, Working
  <2>3. Begun(q)
    BY <2>2 DEF VetoInv
  <2>4. \A v \in Wins, r \in Quits :
          task'[v][r] = task[v][r] \/ (r = q /\ task'[v][r] = t)
    BY <2>1 DEF Answer, TypeOK
  <2>5. \A v \in Wins, r \in Quits :
          /\ task'[v][r] = "none" \/ Begun(r)
          /\ task'[v][r] \in Vetoed => task[v][r] \in Vetoed
    BY <2>3, <2>4 DEF VetoInv, Vetoed
  <2> QED
    BY <2>2, <2>5, VetoKept
<1>3. CASE Cancel(w, q)
  <2>1. PICK t \in {"ask", "land"} : Answer(w, q, t)
    BY <1>3 DEF Cancel
  <2>2. /\ Running /\ task[w][q] # "none" /\ cancelled'
        /\ UNCHANGED <<app, core, generation, inbox>>
    BY <1>3 DEF Cancel
  <2>3. Begun(q) /\ thread[q].pc # "exited"
    BY <2>2 DEF VetoInv
  <2>4. \A v \in Wins, r \in Quits :
          task'[v][r] = task[v][r] \/ (r = q /\ task'[v][r] = t)
    BY <2>1 DEF Answer, TypeOK
  <2>5. \A v \in Wins, r \in Quits :
          /\ task'[v][r] = "none" \/ Begun(r)
          /\ task'[v][r] \in Vetoed =>
               task[v][r] \in Vetoed \/ (cancelled' /\ thread[r].pc # "exited")
    BY <2>2, <2>3, <2>4 DEF VetoInv
  <2> QED
    BY <2>2, <2>5, VetoKept
<1>4. CASE Land(w, q) \/ Prompt(w, q)
  <2>1. PICK t \in {"landed", "asked"} : Answer(w, q, t)
    BY <1>4 DEF Land, Prompt
  <2>2. /\ Running /\ task[w][q] \in Vetoed /\ task[w][q] # "none"
        /\ UNCHANGED <<app, gate, inbox>>
    BY <1>4 DEF Land, Prompt, Working, Vetoed
  <2>3. \A v \in Wins, r \in Quits :
          task'[v][r] = task[v][r] \/ (r = q /\ v = w /\ task'[v][r] = t)
    BY <2>1 DEF Answer, TypeOK
  <2>4. \A v \in Wins, r \in Quits :
          /\ task'[v][r] = "none" => task[v][r] = "none"
          /\ task[v][r] = "none" => task'[v][r] = "none"
          /\ task'[v][r] \in Vetoed => task[v][r] \in Vetoed
    BY <2>2, <2>3
  <2>5. CASE AskToQuit
    BY <2>2, <2>4, <2>5, AskKeepsVetoes
  <2>6. CASE UNCHANGED core
    <3>1. \A v \in Wins, r \in Quits : task'[v][r] = "none" \/ Begun(r)
      BY <2>4 DEF VetoInv
    <3> QED
      BY <2>2, <2>4, <2>6, <3>1, VetoKept
  <2> QED
    BY <1>4, <2>5, <2>6 DEF Land, Prompt
<1> QED
  BY <1>1, <1>2, <1>3, <1>4

LEMMA VetoWindows ==
  ASSUME TypeOK, VetoInv, NEW w \in Wins,
         HearCancelled(w) \/ Destroyed(w) \/ User(w)
  PROVE  VetoInv'
<1> USE DEF gate, core, wins, work, text
<1>1. \A v \in Wins, r \in Quits : task[v][r] = "none" \/ Begun(r)
  BY DEF VetoInv
<1>2. CASE HearCancelled(w)
  <2>1. PICK e : Heard(w, e)
    BY <1>2 DEF HearCancelled
  <2>2. Running /\ UNCHANGED <<app, core, gate, task>>
    BY <1>2, <2>1 DEF HearCancelled, Heard
  <2> QED
    BY <1>1, <2>1, <2>2, HeardLeaves, VetoKept
<1>3. CASE Destroyed(w)
  <2>1. Running /\ UNCHANGED <<app, core, cancelled, generation, task>>
    BY <1>3 DEF Destroyed
  <2>2. \A v \in Wins : inbox'[v] = inbox[v] \/ inbox'[v] = <<>>
    BY <1>3 DEF Destroyed, TypeOK
  <2>3. \A d : \A v \in Wins : \A i \in 1..Len(inbox'[v]) : inbox'[v][i] = d =>
          \E j \in 1..Len(inbox[v]) : inbox[v][j] = d
    BY <2>2
  <2> QED
    BY <1>1, <2>1, <2>3, VetoKept
<1>4. CASE Edit(w) \/ InputLands(w) \/ CloseWindow(w)
  <2>1. Running /\ UNCHANGED <<app, core, gate, inbox, task>>
    BY <1>4 DEF Edit, InputLands, CloseWindow
  <2> QED
    BY <1>1, <2>1, VetoKept
<1>5. CASE Resolve(w)
  <2>1. /\ Running /\ UNCHANGED <<app, gate, inbox, task>>
        /\ AskToQuit \/ UNCHANGED core
    BY <1>5 DEF Resolve
  <2> QED
    BY <1>1, <2>1, VetoKept, AskKeepsVetoes
<1> QED
  BY <1>2, <1>3, <1>4, <1>5 DEF User

LEMMA VetoInvHolds == Spec => []VetoInv
<1>1. Init => VetoInv
  BY DEF Init, VetoInv, Vetoed
<1>2. TypeOK /\ VetoInv /\ [Next]_vars => VetoInv'
  <2> SUFFICES ASSUME TypeOK, VetoInv, [Next]_vars PROVE VetoInv'
    OBVIOUS
  <2>1. CASE UserQuits
    <3>1. Running /\ AskToQuit /\ UNCHANGED <<app, gate, inbox, task>>
      BY <2>1 DEF UserQuits, work
    <3> QED
      BY <3>1, AskKeepsVetoes DEF gate
  <2>2. CASE UNCHANGED vars
    BY <2>2 DEF vars, core, gate, work, VetoInv, Running, Begun, Superseded, Request
  <2> QED
    BY <2>1, <2>2, VetoThreads, VetoAnswers, VetoWindows DEF Next, WindowStep
<1> QED
  BY <1>1, <1>2, TypeCorrect, PTL DEF Spec

(* A veto is never overruled, by no timeout, no ack and no other handshake,   *)
(* also when quits overlap (FlushGate::cancel, FlushGate::wait).              *)
THEOREM NoVetoOverruled == Spec => []VetoStands
<1>1. VetoInv => VetoStands
  BY DEF VetoInv, VetoStands, At, Vetoed
<1> QED
  BY <1>1, VetoInvHolds, PTL

-----------------------------------------------------------------------------
(* Before a handshake takes the labels of the windows, nothing of an earlier   *)
(* one is at work; what a window then flushes and acks is no older than the    *)
(* edits there were; and while the gate is this handshake's, a window it no    *)
(* longer awaits has them all.                                               *)
Unstarted == \A w \in alive :
  inbox[w] = <<>> /\ \A q \in Quits : task[w][q] \in {"none", "acked", "asked"}

KeepInv ==
  /\ Running => pending \subseteq alive
  /\ \A q \in Quits : thread[q].gen <= generation
  /\ \A q \in Quits : thread[q].pc = "arm" =>
       /\ inFlight /\ Unstarted
       /\ \A r \in Quits : r # q => thread[r].pc \in {"none", "over"}
  /\ \A w \in Wins : asked[w] <= edits[w]
  /\ \A w \in alive, q \in Quits :
       /\ task[w][q] = "flush" => writing[w][q] >= asked[w]
       /\ task[w][q] = "ack" => snapped[w] >= asked[w]
  /\ \A q \in Quits :
       thread[q].pc \in {"emit", "wait"} /\ thread[q].gen = generation
         => \A w \in alive \ pending : snapped[w] >= asked[w]
  /\ ExitKeepsEdits

(* A step of a window that begins nothing while a handshake is about to be      *)
(* armed, flushes what is there, acks what it flushed, and is awaited until    *)
(* it has it all, keeps KeepInv.                                             *)
LEMMA WindowKeeps ==
  ASSUME TypeOK, TypeOK', KeepInv, Running,
         UNCHANGED <<app, core, generation, asked>>,
         alive' \subseteq alive, pending' \subseteq alive',
         \A w \in Wins : edits'[w] >= edits[w],
         \A w \in Wins : snapped'[w] >= snapped[w] \/ snapped'[w] >= asked[w],
         Unstarted => Unstarted',
         \A w \in alive', q \in Quits :
           /\ task'[w][q] = "flush" => writing'[w][q] >= asked[w]
           /\ task'[w][q] = "ack" => snapped'[w] >= asked[w],
         \A w \in alive' \ pending' : w \in alive \ pending \/ snapped'[w] >= asked[w]
  PROVE  KeepInv'
<1>1. app' = "running" /\ UNCHANGED <<inFlight, quits, thread>>
  BY DEF Running, core
<1>2. \A w \in Wins : /\ asked[w] \in Nat /\ edits[w] \in Nat /\ snapped[w] \in Nat
                      /\ edits'[w] \in Nat /\ snapped'[w] \in Nat
                      /\ asked[w] <= edits[w]
  BY DEF TypeOK, KeepInv
<1>3. Running' => pending' \subseteq alive'
  OBVIOUS
<1>4. \A w \in Wins : asked'[w] <= edits'[w]
  BY <1>2
<1>5. \A w \in alive' \ pending' : (w \in alive \ pending /\ snapped[w] >= asked[w])
                                    => snapped'[w] >= asked[w]
  <2>1. \A w \in alive : w \in Wins
    BY DEF TypeOK
  <2> QED
    BY <1>2, <2>1
<1>6. ExitKeepsEdits'
  BY <1>1 DEF ExitKeepsEdits
<1> QED
  BY <1>1, <1>3, <1>4, <1>5, <1>6 DEF KeepInv

LEMMA AskKeeps ==
  ASSUME Overlap = FALSE, TypeOK, TypeOK', KeepInv, Running, AskToQuit,
         UNCHANGED <<app, pending, generation, alive, inbox, writing, asked, edits>>,
         \A w \in Wins : snapped'[w] >= snapped[w] \/ snapped'[w] >= asked[w],
         Unstarted => Unstarted',
         \A w \in Wins, q \in Quits :
           task'[w][q] \in {"flush", "ack"} => task[w][q] = task'[w][q]
  PROVE  KeepInv'
<1>1. \A w \in alive : w \in Wins
  BY DEF TypeOK
<1>2. \A w \in Wins : /\ asked[w] \in Nat /\ edits[w] \in Nat /\ snapped[w] \in Nat
                      /\ snapped'[w] \in Nat
  BY DEF TypeOK
<1>3. \A w \in alive, q \in Quits :
        /\ task'[w][q] = "flush" => writing'[w][q] >= asked[w]
        /\ task'[w][q] = "ack" => snapped'[w] >= asked[w]
  BY <1>1, <1>2 DEF KeepInv
<1>4. CASE UNCHANGED core
  BY <1>2, <1>3, <1>4, WindowKeeps DEF KeepInv
<1>5. CASE ~UNCHANGED core
  <2>1. /\ quits < MaxQuits /\ quits' = quits + 1 /\ Quiet
        /\ inFlight' = TRUE
        /\ thread' = [thread EXCEPT ![quits + 1].pc = "arm"]
    BY <1>5 DEF AskToQuit, core
  <2>2. quits + 1 \in Quits
    BY <2>1, QuitAssumption DEF TypeOK, Quits
  <2>3. PICK n \in Quits : n = quits + 1
    BY <2>2
  <2>4. /\ thread'[n].pc = "arm" /\ thread'[n].gen = thread[n].gen
        /\ \A q \in Quits : q # n => thread'[q] = thread[q]
    BY <2>1, <2>3 DEF TypeOK
  <2>5. \A q \in Quits : thread[q].pc \in {"none", "over"}
    BY <2>1 DEF Quiet
  <2>6. Unstarted'
    BY <2>1 DEF Quiet, Unstarted
  <2>7. /\ Running' => pending' \subseteq alive'
        /\ \A q \in Quits : thread'[q].gen <= generation'
        /\ \A w \in Wins : asked'[w] <= edits'[w]
    BY <2>4 DEF KeepInv, Running
  <2>8. \A q \in Quits : thread'[q].pc \notin {"emit", "wait"}
    BY <2>4, <2>5
  <2>9. \A q \in Quits : thread'[q].pc = "arm" =>
          q = n /\ \A r \in Quits : r # q => thread'[r].pc \in {"none", "over"}
    BY <2>4, <2>5
  <2>10. ExitKeepsEdits'
    BY DEF ExitKeepsEdits, Running
  <2> QED
    BY <1>3, <2>1, <2>6, <2>7, <2>8, <2>9, <2>10 DEF KeepInv
<1> QED
  BY <1>4, <1>5

(* A thread that goes on within its handshake, the gate as it was or moved on. *)
LEMMA ThreadKeeps ==
  ASSUME TypeOK, TypeOK', KeepInv, Running, app' = app,
         NEW q \in Quits, NEW pc \in Threads, Goto(q, pc),
         pc # "arm",
         pc \in {"emit", "wait"} => thread[q].pc \in {"emit", "wait"},
         thread[q].pc \notin {"none", "arm", "over"},
         UNCHANGED <<alive, text, work>>,
         \/ UNCHANGED <<pending, generation>>
         \/ pending' = {} /\ generation' = generation + 1
  PROVE  KeepInv'
<1>1. /\ thread'[q].pc = pc /\ thread'[q].gen = thread[q].gen
      /\ \A r \in Quits : r # q => thread'[r] = thread[r]
  BY DEF Goto, TypeOK
<1>2. \A r \in Quits : thread'[r].pc # "arm"
  <2>1. \A r \in Quits : thread[r].pc # "arm"
    BY DEF KeepInv
  <2> QED
    BY <1>1, <2>1
<1>3. \A r \in Quits : thread[r].gen \in Nat /\ generation \in Nat /\ thread[r].gen <= generation
  BY DEF TypeOK, KeepInv
<1>4. \A r \in Quits : thread'[r].gen = thread[r].gen /\ thread'[r].gen <= generation'
  BY <1>1, <1>3
<1>5. Running' => pending' \subseteq alive'
  BY DEF KeepInv, Running
<1>6. \A r \in Quits : thread'[r].pc \in {"emit", "wait"} /\ thread'[r].gen = generation'
        => UNCHANGED pending /\ thread[r].pc \in {"emit", "wait"} /\ thread[r].gen = generation
  BY <1>1, <1>3, <1>4
<1>7. ExitKeepsEdits'
  BY DEF ExitKeepsEdits, Running
<1>8. UNCHANGED <<task, writing, snapped, asked, edits>>
  BY DEF work, text
<1> QED
  BY <1>2, <1>4, <1>5, <1>6, <1>7, <1>8 DEF KeepInv

LEMMA KeepThreads ==
  ASSUME Overlap = FALSE, TypeOK, TypeOK', KeepInv, NEW q \in Quits, ThreadStep(q)
  PROVE  KeepInv'
<1> USE DEF gate, core, wins
<1>1. CASE Arm(q)
  <2>1. /\ Running /\ thread[q].pc = "arm" /\ asked' = edits
        /\ UNCHANGED <<inFlight, alive, inbox, task, writing, snapped, edits>>
    BY <1>1 DEF Arm, At, work
  <2>2. /\ Unstarted /\ pending \subseteq alive
        /\ \A r \in Quits : r # q => thread[r].pc \in {"none", "over"}
    BY <2>1 DEF KeepInv
  <2>3. \A w \in alive, r \in Quits : task'[w][r] \notin {"flush", "ack"}
    BY <2>1, <2>2 DEF Unstarted
  <2>4. \A w \in Wins : asked'[w] <= edits'[w]
    BY <2>1 DEF TypeOK
  <2>5. \A r \in Quits : thread[r].gen \in Nat /\ generation \in Nat /\ thread[r].gen <= generation
    BY DEF TypeOK, KeepInv
  <2>6. CASE alive = {}
    <3>1. app' # "running" /\ UNCHANGED gate
      BY <1>1, <2>6 DEF Arm
    <3>2. /\ thread'[q].pc = "exited" /\ thread'[q].gen = thread[q].gen
          /\ \A r \in Quits : r # q => thread'[r] = thread[r]
      BY <1>1, <2>6 DEF Arm, Goto, TypeOK
    <3>3. \A r \in Quits : thread'[r].pc \notin {"arm", "emit", "wait"}
      BY <2>2, <3>2
    <3>4. \A r \in Quits : thread'[r].gen <= generation'
      BY <2>5, <3>1, <3>2
    <3>5. ExitKeepsEdits'
      BY <2>1, <2>2, <2>6, <3>1 DEF ExitKeepsEdits
    <3> QED
      BY <2>1, <2>3, <2>4, <3>1, <3>3, <3>4, <3>5 DEF KeepInv, Running
  <2>7. CASE alive # {}
    <3>1. /\ pending' = alive /\ generation' = generation + 1 /\ UNCHANGED app
      BY <1>1, <2>7 DEF Arm
    <3>2. /\ thread'[q].pc = "emit" /\ thread'[q].gen = generation'
          /\ \A r \in Quits : r # q => thread'[r] = thread[r]
      BY <1>1, <2>7 DEF Arm, TypeOK
    <3>3. \A r \in Quits : thread'[r].pc # "arm"
      BY <2>2, <3>2
    <3>4. \A r \in Quits : thread'[r].gen <= generation'
      BY <2>5, <3>1, <3>2
    <3>5. ExitKeepsEdits'
      BY <2>1, <3>1 DEF ExitKeepsEdits, Running
    <3> QED
      BY <2>1, <2>3, <2>4, <3>1, <3>3, <3>4, <3>5 DEF KeepInv
  <2> QED
    BY <2>6, <2>7
<1>2. CASE EmitRequest(q)
  BY <1>2, ThreadKeeps DEF EmitRequest, At, Threads
<1>3. CASE WaitCancelled(q) \/ ReleaseGuard(q)
  BY <1>3, ThreadKeeps DEF WaitCancelled, ReleaseGuard, At, Threads
<1>4. CASE WaitCompleted(q) \/ WaitTimedOut(q)
  <2>1. /\ Running /\ thread[q].pc = "wait" /\ thread[q].gen = generation
        /\ app' # "running" /\ (app' = "completed" => pending = {})
        /\ UNCHANGED <<inFlight, gate, quits, wins, inbox, work, text>>
        /\ Goto(q, "exited")
    BY <1>4 DEF WaitCompleted, WaitTimedOut, Exit, At, Superseded
  <2>2. UNCHANGED <<alive, task, writing, snapped, asked, edits>>
    BY <2>1 DEF work, text
  <2>3. /\ thread'[q].pc = "exited" /\ thread'[q].gen = thread[q].gen
        /\ \A r \in Quits : r # q => thread'[r] = thread[r]
    BY <2>1 DEF Goto, TypeOK
  <2>4. ExitKeepsEdits'
    BY <2>1, <2>2 DEF KeepInv, ExitKeepsEdits
  <2>5. \A r \in Quits : thread'[r].pc # "arm"
    BY <2>1, <2>3 DEF KeepInv
  <2>6. ~Running'
    BY <2>1 DEF Running
  <2> QED
    BY <2>1, <2>2, <2>3, <2>4, <2>5, <2>6 DEF KeepInv
<1>5. CASE Announce(q)
  BY <1>5, ThreadKeeps DEF Announce, At, Threads
<1>6. CASE Disarm(q)
  BY <1>6, ThreadKeeps DEF Disarm, At, Threads
<1> QED
  BY <1>1, <1>2, <1>3, <1>4, <1>5, <1>6 DEF ThreadStep

LEMMA WritingAt ==
  ASSUME TypeOK, NEW w \in Wins, NEW q \in Quits, NEW n,
         writing' = [writing EXCEPT ![w][q] = n]
  PROVE  /\ writing'[w][q] = n
         /\ \A v \in Wins, r \in Quits : writing'[v][r] = writing[v][r] \/ (v = w /\ r = q)
BY DEF TypeOK

LEMMA NothingLess ==
  ASSUME TypeOK, UNCHANGED <<edits, snapped>>
  PROVE  \A w \in Wins : edits'[w] >= edits[w] /\ snapped'[w] >= snapped[w]
BY DEF TypeOK

LEMMA KeepAnswers ==
  ASSUME Overlap = FALSE, TypeOK, TypeOK', KeepInv, NEW w \in Wins, NEW q \in Quits,
         \/ HearRequest(w, q) \/ FlushEnds(w, q) \/ Ack(w, q)
         \/ Cancel(w, q) \/ Land(w, q) \/ Prompt(w, q) \/ FlushFails(w, q)
  PROVE  KeepInv'
<1> USE DEF gate, wins, work, text
<1>1. \A v \in Wins : /\ asked[v] \in Nat /\ edits[v] \in Nat /\ snapped[v] \in Nat
                      /\ snapped'[v] \in Nat /\ asked[v] <= edits[v]
                      /\ \A r \in Quits : writing[v][r] \in Nat
  BY DEF TypeOK, KeepInv
<1>2. \A v \in alive : v \in Wins
  BY DEF TypeOK
<1>3. /\ Running => pending \subseteq alive
      /\ \A v \in alive, r \in Quits :
           /\ task[v][r] = "flush" => writing[v][r] >= asked[v]
           /\ task[v][r] = "ack" => snapped[v] >= asked[v]
  BY DEF KeepInv
<1>4. \A t \in Tasks : Answer(w, q, t) =>
        /\ task'[w][q] = t
        /\ \A v \in Wins, r \in Quits : task'[v][r] = task[v][r] \/ (v = w /\ r = q)
  BY DEF Answer, TypeOK
<1>5. CASE HearRequest(w, q)
  <2>1. PICK t \in {"veto busy", "veto", "flush"} : Answer(w, q, t)
    BY <1>5 DEF HearRequest, Flushes
  <2>2. /\ task'[w][q] = t
        /\ \A v \in Wins, r \in Quits : task'[v][r] = task[v][r] \/ (v = w /\ r = q)
    BY <1>4, <2>1 DEF Tasks
  <2>3. /\ Running /\ w \in alive /\ inbox[w] # <<>>
        /\ UNCHANGED <<app, core, pending, generation, alive, asked, edits, snapped>>
    BY <1>5 DEF HearRequest, Heard
  <2>4. ~Unstarted
    BY <2>3 DEF Unstarted
  <2>5. /\ \A v \in Wins, r \in Quits : writing'[v][r] = writing[v][r] \/ (v = w /\ r = q)
        /\ t = "flush" => writing'[w][q] = edits[w]
    <3>1. (writing' = writing /\ t # "flush")
            \/ writing' = [writing EXCEPT ![w][q] = edits[w]]
      <4>1. CASE w \in busy
        BY <1>5, <2>2, <4>1, <1>4 DEF HearRequest, Tasks
      <4>2. CASE w \in unfit \ busy
        BY <1>5, <2>2, <4>2, <1>4 DEF HearRequest, Tasks
      <4>3. CASE w \notin busy /\ w \notin unfit
        BY <1>5, <4>3 DEF HearRequest, Flushes
      <4> QED
        BY <4>1, <4>2, <4>3
    <3>2. CASE writing' = [writing EXCEPT ![w][q] = edits[w]]
      BY <3>2, WritingAt, ZenonT(40)
    <3> QED
      BY <3>1, <3>2
  <2>6. \A v \in alive, r \in Quits :
          /\ task'[v][r] = "flush" => writing'[v][r] >= asked[v]
          /\ task'[v][r] = "ack" => snapped'[v] >= asked[v]
    <3>1. ASSUME NEW v \in alive, NEW r \in Quits, task'[v][r] = "flush"
          PROVE  writing'[v][r] >= asked[v]
      <4>1. CASE v = w /\ r = q
        BY <1>1, <2>2, <2>5, <3>1, <4>1
      <4>2. CASE ~(v = w /\ r = q)
        BY <1>2, <1>3, <2>2, <2>5, <3>1, <4>2
      <4> QED
        BY <4>1, <4>2
    <3>2. ASSUME NEW v \in alive, NEW r \in Quits, task'[v][r] = "ack"
          PROVE  snapped'[v] >= asked[v]
      BY <1>2, <1>3, <2>2, <2>3, <3>2
    <3> QED
      BY <3>1, <3>2
  <2> QED
    BY <1>3, <2>3, <2>4, <2>6, NothingLess, WindowKeeps
<1>6. CASE FlushEnds(w, q)
  <2>1. /\ Running /\ w \in alive /\ task[w][q] = "flush" /\ Answer(w, q, "ack")
        /\ UNCHANGED <<app, core, pending, generation, alive, asked, edits>>
        /\ writing' = [writing EXCEPT ![w][q] = 0]
    BY <1>6 DEF FlushEnds, Working
  <2>2. /\ task'[w][q] = "ack"
        /\ \A v \in Wins, r \in Quits : task'[v][r] = task[v][r] \/ (v = w /\ r = q)
    BY <1>4, <2>1 DEF Tasks
  <2>3. ~Unstarted
    BY <2>1 DEF Unstarted
  <2>4. /\ \A v \in Wins : v # w => snapped'[v] = snapped[v]
        /\ snapped'[w] = IF writing[w][q] > snapped[w] THEN writing[w][q] ELSE snapped[w]
    BY <1>6 DEF FlushEnds, TypeOK
  <2>5. \A v \in Wins : snapped'[v] >= snapped[v]
    BY <1>1, <2>4
  <2>6. snapped'[w] >= asked[w]
    BY <1>1, <1>3, <2>1, <2>4
  <2>7. \A v \in Wins, r \in Quits : writing'[v][r] = writing[v][r] \/ (v = w /\ r = q)
    BY <2>1, WritingAt
  <2>8. \A v \in alive, r \in Quits :
          /\ task'[v][r] = "flush" => writing'[v][r] >= asked[v]
          /\ task'[v][r] = "ack" => snapped'[v] >= asked[v]
    <3>1. ASSUME NEW v \in alive, NEW r \in Quits, task'[v][r] = "flush"
          PROVE  writing'[v][r] >= asked[v]
      BY <1>2, <1>3, <2>2, <2>7, <3>1
    <3>2. ASSUME NEW v \in alive, NEW r \in Quits, task'[v][r] = "ack"
          PROVE  snapped'[v] >= asked[v]
      <4>1. CASE v = w
        BY <2>6, <4>1
      <4>2. CASE v # w
        BY <1>2, <1>3, <2>2, <2>4, <3>2, <4>2
      <4> QED
        BY <4>1, <4>2
    <3> QED
      BY <3>1, <3>2
  <2>9. \A v \in Wins : edits'[v] >= edits[v]
    BY <1>1, <2>1
  <2> QED
    BY <1>3, <2>1, <2>3, <2>5, <2>8, <2>9, WindowKeeps
<1>7. CASE Ack(w, q) \/ FlushFails(w, q) \/ Cancel(w, q) \/ Land(w, q)
  <2>1. /\ Running
        /\ UNCHANGED <<app, core, generation, alive, inbox, asked, edits, snapped>>
        /\ \/ UNCHANGED pending
           \/ pending' = pending \ {w} /\ task[w][q] = "ack"
        /\ writing' = writing \/ writing' = [writing EXCEPT ![w][q] = 0]
    BY <1>7 DEF Ack, AckedBy, FlushFails, Cancel, Land, Working
  <2>2. PICK t \in {"acked", "veto", "ask", "land", "landed"} : Answer(w, q, t)
    BY <1>7 DEF Ack, FlushFails, Cancel, Land
  <2>3. /\ task'[w][q] = t
        /\ \A v \in Wins, r \in Quits : task'[v][r] = task[v][r] \/ (v = w /\ r = q)
    BY <1>4, <2>2 DEF Tasks
  <2>4. \A v \in Wins, r \in Quits : writing'[v][r] = writing[v][r] \/ (v = w /\ r = q)
    BY <2>1, WritingAt
  <2>5. \A v \in alive, r \in Quits :
          /\ task'[v][r] = "flush" => writing'[v][r] >= asked[v]
          /\ task'[v][r] = "ack" => snapped'[v] >= asked[v]
    BY <1>2, <1>3, <2>1, <2>3, <2>4
  <2>6. Unstarted => Unstarted'
    <3>1. w \in alive /\ t # "acked" => ~Unstarted
      BY <1>7, <1>4, <2>3 DEF Unstarted, Ack, FlushFails, Cancel, Land, Working, Tasks
    <3>2. w \notin alive \/ t = "acked" => (Unstarted => Unstarted')
      BY <1>2, <2>1, <2>3 DEF Unstarted
    <3> QED
      BY <3>1, <3>2
  <2>7. \A v \in alive \ pending' : v \in alive \ pending \/ snapped'[v] >= asked[v]
    BY <1>3, <2>1
  <2>8. \A v \in Wins : edits'[v] >= edits[v] /\ snapped'[v] >= snapped[v]
    BY <1>1, <2>1
  <2> QED
    BY <1>3, <2>1, <2>5, <2>6, <2>7, <2>8, WindowKeeps
<1>8. CASE Prompt(w, q)
  <2>1. /\ Running /\ w \in alive /\ Answer(w, q, "asked") /\ task[w][q] \in {"ask", "landed"}
        /\ UNCHANGED <<app, pending, generation, alive, inbox, text>>
        /\ AskToQuit \/ UNCHANGED core
    BY <1>8 DEF Prompt, Working
  <2>2. /\ task'[w][q] = "asked"
        /\ \A v \in Wins, r \in Quits : task'[v][r] = task[v][r] \/ (v = w /\ r = q)
    BY <1>4, <2>1 DEF Tasks
  <2>3. ~Unstarted
    BY <2>1 DEF Unstarted
  <2>4. \A v \in Wins : edits'[v] >= edits[v] /\ snapped'[v] >= snapped[v]
    BY <1>1, <2>1
  <2>5. \A v \in Wins, r \in Quits :
          task'[v][r] \in {"flush", "ack"} => task[v][r] = task'[v][r]
    BY <2>2
  <2>6. CASE AskToQuit
    BY <2>1, <2>3, <2>4, <2>5, <2>6, AskKeeps
  <2>7. CASE UNCHANGED core
    <3>1. \A v \in alive, r \in Quits :
            /\ task'[v][r] = "flush" => writing'[v][r] >= asked[v]
            /\ task'[v][r] = "ack" => snapped'[v] >= asked[v]
      BY <1>2, <1>3, <2>1, <2>5
    <3> QED
      BY <1>3, <2>1, <2>3, <2>4, <2>7, <3>1, WindowKeeps
  <2> QED
    BY <2>1, <2>6, <2>7
<1> QED
  BY <1>5, <1>6, <1>7, <1>8

LEMMA KeepWindows ==
  ASSUME Overlap = FALSE, TypeOK, TypeOK', KeepInv, NEW w \in Wins,
         HearCancelled(w) \/ Destroyed(w) \/ User(w)
  PROVE  KeepInv'
<1> USE DEF gate, wins, work, text
<1>1. \A v \in Wins : /\ asked[v] \in Nat /\ edits[v] \in Nat /\ snapped[v] \in Nat
                      /\ snapped'[v] \in Nat /\ asked[v] <= edits[v]
  BY DEF TypeOK, KeepInv
<1>2. \A v \in alive : v \in Wins
  BY DEF TypeOK
<1>3. /\ Running => pending \subseteq alive
      /\ \A v \in alive, r \in Quits :
           /\ task[v][r] = "flush" => writing[v][r] >= asked[v]
           /\ task[v][r] = "ack" => snapped[v] >= asked[v]
  BY DEF KeepInv
<1>4. CASE HearCancelled(w)
  <2>1. /\ Running /\ w \in alive /\ inbox[w] # <<>>
        /\ UNCHANGED <<app, core, pending, generation, alive, task, text>>
    BY <1>4 DEF HearCancelled, Heard
  <2>2. ~Unstarted
    BY <2>1 DEF Unstarted
  <2> QED
    BY <1>1, <1>3, <2>1, <2>2, WindowKeeps
<1>5. CASE Destroyed(w)
  <2>1. /\ Running /\ alive' = alive \ {w} /\ pending' = pending \ {w}
        /\ UNCHANGED <<app, core, generation, task, text>>
        /\ \A v \in Wins : v # w => inbox'[v] = inbox[v]
    BY <1>5 DEF Destroyed, AckForGone, AckedBy, TypeOK
  <2>2. Unstarted => Unstarted'
    BY <1>2, <2>1 DEF Unstarted
  <2> QED
    BY <1>1, <1>3, <2>1, <2>2, WindowKeeps
<1>6. CASE Edit(w) \/ InputLands(w)
  <2>1. /\ Running
        /\ UNCHANGED <<app, core, pending, generation, alive, inbox, task, snapped,
                      writing, asked>>
        /\ edits' = edits \/ edits' = [edits EXCEPT ![w] = @ + 1]
    BY <1>6 DEF Edit, InputLands
  <2>2. \A v \in Wins : edits'[v] >= edits[v] /\ snapped'[v] >= snapped[v]
    <3>1. CASE edits' = edits
      BY <1>1, <2>1, <3>1
    <3>2. CASE edits' = [edits EXCEPT ![w] = @ + 1]
      <4>1. \A v \in Wins : edits'[v] = edits[v] \/ edits'[v] = edits[v] + 1
        BY <3>2 DEF TypeOK
      <4> QED
        BY <1>1, <2>1, <4>1
    <3> QED
      BY <2>1, <3>1, <3>2
  <2>3. Unstarted => Unstarted'
    BY <2>1 DEF Unstarted
  <2> QED
    BY <1>1, <1>2, <1>3, <2>1, <2>2, <2>3, WindowKeeps
<1>7. ASSUME snapped' = [snapped EXCEPT ![w] = edits[w]]
      PROVE  \A v \in Wins : snapped'[v] >= snapped[v] \/ snapped'[v] >= asked[v]
  <2>1. \A v \in Wins : snapped'[v] = snapped[v] \/ snapped'[v] = edits[v]
    BY <1>7 DEF TypeOK
  <2> QED
    BY <1>1, <2>1
<1>8. CASE CloseWindow(w)
  <2>1. /\ Running /\ UNCHANGED <<app, core, gate, alive, inbox, task, edits, writing, asked>>
        /\ snapped' = [snapped EXCEPT ![w] = edits[w]]
    BY <1>8 DEF CloseWindow
  <2>2. \A v \in Wins :
          edits'[v] >= edits[v] /\ (snapped'[v] >= snapped[v] \/ snapped'[v] >= asked[v])
    BY <1>1, <1>7, <2>1
  <2>3. Unstarted => Unstarted'
    BY <2>1 DEF Unstarted
  <2>4. \A v \in alive, r \in Quits : task[v][r] = "ack" => snapped'[v] >= asked[v]
    BY <1>1, <1>2, <1>3, <2>2
  <2> QED
    BY <1>3, <2>1, <2>2, <2>3, <2>4, WindowKeeps
<1>9. CASE Resolve(w)
  <2>1. /\ Running /\ UNCHANGED <<app, gate, alive, inbox, task, edits, writing, asked>>
        /\ snapped' = [snapped EXCEPT ![w] = edits[w]] \/ snapped' = snapped
        /\ AskToQuit \/ UNCHANGED core
    BY <1>9 DEF Resolve
  <2>2. \A v \in Wins :
          edits'[v] >= edits[v] /\ (snapped'[v] >= snapped[v] \/ snapped'[v] >= asked[v])
    BY <1>1, <1>7, <2>1
  <2>3. Unstarted => Unstarted'
    BY <2>1 DEF Unstarted
  <2>4. \A v \in alive, r \in Quits : task[v][r] = "ack" => snapped'[v] >= asked[v]
    BY <1>1, <1>2, <1>3, <2>2
  <2>5. CASE AskToQuit
    BY <2>1, <2>2, <2>3, <2>5, AskKeeps
  <2>6. CASE UNCHANGED core
    BY <1>3, <2>1, <2>2, <2>3, <2>4, <2>6, WindowKeeps
  <2> QED
    BY <2>1, <2>5, <2>6
<1> QED
  BY <1>4, <1>5, <1>6, <1>8, <1>9 DEF User

(* An exit loses no edit made before the quit was asked for, where no timeout  *)
(* forced it, when a quit is asked for again only after the windows are done   *)
(* with the vetoed one (flush_then_exit, FlushGate::wait).                    *)
THEOREM EditsKept ==
  ASSUME Overlap = FALSE
  PROVE  Spec => []ExitKeepsEdits
<1>1. Init => KeepInv
  BY DEF Init, KeepInv, ExitKeepsEdits
<1>2. TypeOK /\ TypeOK' /\ KeepInv /\ [Next]_vars => KeepInv'
  <2> SUFFICES ASSUME TypeOK, TypeOK', KeepInv, [Next]_vars PROVE KeepInv'
    OBVIOUS
  <2>1. CASE UserQuits
    <3>1. /\ Running /\ AskToQuit
          /\ UNCHANGED <<app, gate, alive, inbox, task, text>>
      BY <2>1 DEF UserQuits, work, wins
    <3>2. Unstarted => Unstarted'
      BY <3>1 DEF Unstarted
    <3>3. \A w \in Wins : snapped'[w] >= snapped[w]
      BY <3>1 DEF text, TypeOK
    <3> QED
      BY <3>1, <3>2, <3>3, AskKeeps DEF gate, text
  <2>2. CASE UNCHANGED vars
    BY <2>2 DEF vars, core, gate, wins, work, text, KeepInv, Unstarted, Running,
                ExitKeepsEdits
  <2> QED
    BY <2>1, <2>2, KeepThreads, KeepAnswers, KeepWindows DEF Next, WindowStep
<1>3. KeepInv => ExitKeepsEdits
  BY DEF KeepInv
<1> QED
  BY <1>1, <1>2, <1>3, TypeCorrect, PTL DEF Spec
-----------------------------------------------------------------------------
(* A handshake is under way alone, and its flush-cancelled goes out when it is *)
(* over; a window that waits for input has one to wait for, or it has heard it. *)
Active(q) == thread[q].pc \notin {"none", "over"}
Paused == {"veto busy", "land", "landed"}
CalledOff(event) == event.name = "flush-cancelled"

ResumeInv ==
  /\ \A q, r \in Quits : Active(q) /\ Active(r) => q = r
  /\ \A w \in alive : \A i \in 1..Len(inbox[w]) :
       CalledOff(inbox[w][i]) => \A q \in Quits : ~Active(q)
  /\ \A w \in alive, q \in Quits :
       task[w][q] \in Paused /\ <<w, q>> \notin waiting => At(q, "over")

(* A step of a window that is told nothing new, and that waits for input only  *)
(* with a flush-cancelled to come or of a handshake that is over.              *)
LEMMA ResumeKept ==
  ASSUME ResumeInv, UNCHANGED thread, alive' \subseteq alive,
         \A w \in alive' : \A i \in 1..Len(inbox'[w]) :
           \E j \in 1..Len(inbox[w]) : inbox[w][j] = inbox'[w][i],
         \A w \in alive', q \in Quits : task'[w][q] \in Paused =>
           \/ <<w, q>> \in waiting' \/ At(q, "over")
           \/ task[w][q] \in Paused /\ <<w, q>> \notin waiting
  PROVE  ResumeInv'
<1>1. \A q \in Quits : (Active(q)' <=> Active(q)) /\ (At(q, "over")' <=> At(q, "over"))
  BY DEF Active, At
<1>2. ASSUME NEW w \in alive', NEW i \in 1..Len(inbox'[w]), CalledOff(inbox'[w][i]),
             NEW q \in Quits
      PROVE  ~Active(q)
  <2>1. PICK j \in 1..Len(inbox[w]) : inbox[w][j] = inbox'[w][i]
    OBVIOUS
  <2> QED
    BY <1>2, <2>1 DEF ResumeInv
<1>3. ASSUME NEW w \in alive', NEW q \in Quits,
             task'[w][q] \in Paused, <<w, q>> \notin waiting'
      PROVE  At(q, "over")
  BY <1>3 DEF ResumeInv
<1>4. \A q, r \in Quits : Active(q)' /\ Active(r)' => q = r
  BY <1>1 DEF ResumeInv
<1> QED
  BY <1>1, <1>2, <1>3, <1>4 DEF ResumeInv

(* A quit is asked for when nothing is left of the last one.                  *)
LEMMA AskResumes ==
  ASSUME Overlap = FALSE, TypeOK, AskToQuit, ~UNCHANGED core, UNCHANGED <<alive, inbox>>
  PROVE  ResumeInv'
<1>1. /\ Quiet /\ quits < MaxQuits
      /\ thread' = [thread EXCEPT ![quits + 1].pc = "arm"]
  BY DEF AskToQuit, core
<1>2. quits + 1 \in Quits
  BY <1>1, QuitAssumption DEF TypeOK, Quits
<1>3. PICK n \in Quits : n = quits + 1
  BY <1>2
<1>4. \A q \in Quits : q # n => thread'[q] = thread[q]
  BY <1>1, <1>3 DEF TypeOK
<1>5. \A q \in Quits : Active(q)' => q = n
  BY <1>1, <1>4 DEF Quiet, Active
<1>6. \A w \in alive' : Len(inbox'[w]) = 0
  BY <1>1 DEF Quiet
<1>7. \A w \in alive', q \in Quits : task'[w][q] \notin Paused
  BY <1>1 DEF Quiet, Paused
<1>8. \A w \in alive' : \A i \in 1..Len(inbox'[w]) : FALSE
  BY <1>6
<1> QED
  BY <1>5, <1>7, <1>8 DEF ResumeInv

LEMMA AskOrNot ==
  ASSUME Overlap = FALSE, TypeOK, ResumeInv, AskToQuit, UNCHANGED <<alive, inbox, waiting>>,
         \A w \in alive', q \in Quits : task'[w][q] \in Paused => task'[w][q] = task[w][q]
  PROVE  ResumeInv'
<1>1. CASE UNCHANGED core
  <2>1. UNCHANGED thread
    BY <1>1 DEF core
  <2> QED
    BY <2>1, ResumeKept
<1> QED
  BY <1>1, AskResumes

(* The thread of the handshake goes on; only its last step calls off.          *)
LEMMA ResumeThread ==
  ASSUME TypeOK, ResumeInv, NEW q \in Quits, Active(q), UNCHANGED <<alive, task, waiting>>,
         \A r \in Quits : r # q => thread'[r] = thread[r],
         \A w \in alive :
           \/ inbox'[w] = inbox[w]
           \/ \E e \in Event : /\ inbox'[w] = Append(inbox[w], e)
                               /\ CalledOff(e) => ~Active(q)'
  PROVE  ResumeInv'
<1>1. \A r \in Quits : Active(r) => r = q
  BY DEF ResumeInv
<1>2. \A r \in Quits : Active(r)' => r = q
  BY <1>1 DEF Active
<1>3. ASSUME NEW w \in alive, NEW i \in 1..Len(inbox'[w]), CalledOff(inbox'[w][i])
      PROVE  ~Active(q)'
  <2>1. \A j \in 1..Len(inbox[w]) : ~CalledOff(inbox[w][j])
    BY DEF ResumeInv
  <2>2. CASE inbox'[w] = inbox[w]
    BY <1>3, <2>1, <2>2
  <2>3. ASSUME NEW e \in Event, inbox'[w] = Append(inbox[w], e), CalledOff(e) => ~Active(q)'
        PROVE  ~Active(q)'
    <3>1. PICK s \in Seq(Event) : s = inbox[w]
      BY DEF TypeOK
    <3>2. i \in 1..Len(s) \/ inbox'[w][i] = e
      BY <1>3, <2>3, <3>1
    <3>3. i \in 1..Len(s) => inbox'[w][i] = s[i]
      BY <2>3, <3>1
    <3> QED
      BY <1>3, <2>1, <2>3, <3>1, <3>2, <3>3
  <2> QED
    BY <2>2, <2>3
<1>4. \A r \in Quits : At(r, "over") => At(r, "over")'
  BY DEF At, Active
<1> QED
  BY <1>2, <1>3, <1>4 DEF ResumeInv

LEMMA ResumeThreads ==
  ASSUME Overlap = FALSE, TypeOK, ResumeInv, NEW q \in Quits, ThreadStep(q)
  PROVE  ResumeInv'
<1>1. CASE Arm(q)
  <2>1. /\ Active(q) /\ UNCHANGED <<alive, inbox, task, waiting>>
        /\ \A r \in Quits : r # q => thread'[r] = thread[r]
    BY <1>1 DEF Arm, At, Active, Goto, wins, work, TypeOK
  <2> QED
    BY <2>1, ResumeThread
<1>2. CASE EmitRequest(q)
  <2>1. /\ Active(q) /\ UNCHANGED <<alive, task, waiting>>
        /\ \A r \in Quits : r # q => thread'[r] = thread[r]
    BY <1>2 DEF EmitRequest, At, Active, Goto, wins, work, TypeOK
  <2>2. Request(q) \in Event /\ ~CalledOff(Request(q))
    BY EventTypes DEF Request, CalledOff
  <2>3. \A w \in alive : inbox'[w] = Append(inbox[w], Request(q))
    BY <1>2 DEF EmitRequest, Broadcast, TypeOK
  <2> QED
    BY <2>1, <2>2, <2>3, ResumeThread
<1>3. CASE Announce(q)
  <2>1. /\ Active(q) /\ UNCHANGED <<alive, task, waiting>>
        /\ \A r \in Quits : r # q => thread'[r] = thread[r]
    BY <1>3 DEF Announce, At, Active, Goto, wins, work, TypeOK
  <2>2. Cancelled(q) \in Event /\ ~Active(q)'
    BY <1>3, EventTypes DEF Announce, Goto, Active, TypeOK
  <2>3. \A w \in alive : inbox'[w] = Append(inbox[w], Cancelled(q))
    BY <1>3 DEF Announce, Broadcast, TypeOK
  <2> QED
    BY <2>1, <2>2, <2>3, ResumeThread
<1>4. CASE \/ WaitCancelled(q) \/ WaitCompleted(q) \/ WaitTimedOut(q)
           \/ Disarm(q) \/ ReleaseGuard(q)
  <2>1. /\ Active(q) /\ UNCHANGED <<alive, inbox, task, waiting>>
        /\ \A r \in Quits : r # q => thread'[r] = thread[r]
    BY <1>4 DEF WaitCancelled, WaitCompleted, WaitTimedOut, Exit, Disarm, ReleaseGuard,
                At, Active, Goto, wins, work, TypeOK
  <2> QED
    BY <2>1, ResumeThread
<1> QED
  BY <1>1, <1>2, <1>3, <1>4 DEF ThreadStep

LEMMA ResumeAnswers ==
  ASSUME Overlap = FALSE, TypeOK, ResumeInv, NEW w \in Wins, NEW q \in Quits,
         \/ HearRequest(w, q) \/ FlushEnds(w, q) \/ FlushFails(w, q) \/ Ack(w, q)
         \/ Cancel(w, q) \/ Land(w, q) \/ Prompt(w, q)
  PROVE  ResumeInv'
<1>0. /\ "ack" \notin Paused /\ "acked" \notin Paused /\ "veto" \notin Paused
      /\ "ask" \notin Paused /\ "asked" \notin Paused
      /\ "veto busy" \in Paused /\ "land" \in Paused
  BY DEF Paused
<1>1. ASSUME NEW t, Answer(w, q, t)
      PROVE  /\ task'[w][q] = t
             /\ \A v \in Wins, r \in Quits : v # w \/ r # q => task'[v][r] = task[v][r]
  BY <1>1 DEF Answer, TypeOK
<1>2. alive \subseteq Wins
  BY DEF TypeOK
<1>3. CASE HearRequest(w, q)
  <2>1. UNCHANGED <<thread, alive>>
    BY <1>3 DEF HearRequest, core
  <2>2. \A v \in Wins : \A i \in 1..Len(inbox'[v]) :
          \E j \in 1..Len(inbox[v]) : inbox[v][j] = inbox'[v][i]
    BY <1>3, HeardLeaves DEF HearRequest
  <2>3. PICK t \in Tasks : /\ Answer(w, q, t) /\ waiting \subseteq waiting'
                           /\ t \in Paused => <<w, q>> \in waiting'
                           /\ waiting' \subseteq waiting \cup {<<w, q>>}
    <3>1. CASE w \in busy
      BY <1>3, <3>1 DEF HearRequest, Waits, Tasks
    <3>2. CASE w \in unfit \ busy
      BY <1>3, <3>2 DEF HearRequest, Paused, Tasks
    <3>3. CASE w \notin busy /\ w \notin unfit
      BY <1>3, <3>3 DEF HearRequest, Flushes, Paused, Tasks
    <3> QED
      BY <3>1, <3>2, <3>3
  <2>4. ASSUME NEW v \in alive, NEW r \in Quits, task'[v][r] \in Paused
        PROVE  <<v, r>> \in waiting' \/ (task[v][r] \in Paused /\ <<v, r>> \notin waiting)
    BY <1>1, <1>2, <2>3, <2>4
  <2> QED
    BY <1>2, <2>1, <2>2, <2>4, ResumeKept
<1>4. CASE FlushEnds(w, q) \/ FlushFails(w, q) \/ Ack(w, q) \/ Cancel(w, q) \/ Land(w, q)
  <2>1. UNCHANGED <<thread, alive, inbox, waiting>>
    BY <1>4 DEF FlushEnds, FlushFails, Ack, Cancel, Land, core, wins
  <2>2. PICK t : Answer(w, q, t) /\ (t \in Paused => task[w][q] \in Paused)
    <3>1. CASE FlushEnds(w, q)
      BY <1>0, <3>1 DEF FlushEnds
    <3>2. CASE Ack(w, q)
      BY <1>0, <3>2 DEF Ack
    <3>3. CASE FlushFails(w, q)
      BY <1>0, <3>3 DEF FlushFails
    <3>4. CASE Cancel(w, q)
      <4>1. CASE task[w][q] = "veto"
        BY <1>0, <3>4, <4>1 DEF Cancel
      <4>2. CASE task[w][q] = "veto busy"
        <5>1. PICK t : Answer(w, q, t)
          BY <3>4 DEF Cancel
        <5> QED
          BY <1>0, <4>2, <5>1
      <4> QED
        BY <3>4, <4>1, <4>2 DEF Cancel
    <3>5. CASE Land(w, q)
      BY <1>0, <3>5 DEF Land, Working
    <3> QED
      BY <1>4, <3>1, <3>2, <3>3, <3>4, <3>5
  <2>3. \A v \in alive, r \in Quits : task'[v][r] \in Paused => task[v][r] \in Paused
    BY <1>1, <1>2, <2>2
  <2> QED
    BY <2>1, <2>3, ResumeKept
<1>5. CASE Prompt(w, q)
  <2>1. /\ UNCHANGED <<alive, inbox, waiting>> /\ Answer(w, q, "asked")
        /\ AskToQuit \/ UNCHANGED core
    BY <1>5 DEF Prompt, wins
  <2>2. \A v \in alive, r \in Quits : task'[v][r] \in Paused => task'[v][r] = task[v][r]
    <3>1. task'[w][q] \notin Paused
      BY <1>0, <1>1, <2>1
    <3> QED
      BY <1>1, <1>2, <2>1, <3>1
  <2>3. CASE UNCHANGED core
    <3>1. UNCHANGED thread
      BY <2>3 DEF core
    <3> QED
      BY <2>1, <2>2, <3>1, ResumeKept
  <2> QED
    BY <2>1, <2>2, <2>3, AskOrNot
<1> QED
  BY <1>3, <1>4, <1>5

LEMMA ResumeWindows ==
  ASSUME Overlap = FALSE, TypeOK, VetoInv, ResumeInv, NEW w \in Wins,
         HearCancelled(w) \/ Destroyed(w) \/ User(w)
  PROVE  ResumeInv'
<1>1. alive \subseteq Wins
  BY DEF TypeOK
<1>2. CASE HearCancelled(w)
  <2>1. PICK c \in Quits : Heard(w, Cancelled(c))
    BY <1>2 DEF HearCancelled
  <2>2. /\ UNCHANGED <<thread, alive, task>> /\ w \in alive
        /\ waiting' = {p \in waiting : p[1] # w}
    BY <1>2, <2>1 DEF HearCancelled, Heard, core
  <2>3. /\ \A v \in Wins : \A i \in 1..Len(inbox'[v]) :
             \E j \in 1..Len(inbox[v]) : inbox[v][j] = inbox'[v][i]
        /\ 1 \in 1..Len(inbox[w]) /\ inbox[w][1] = Cancelled(c)
    BY <2>1, HeardLeaves
  <2>4. CalledOff(inbox[w][1])
    BY <2>3 DEF CalledOff, Cancelled
  <2>5. \A q \in Quits : ~Active(q)
    BY <2>2, <2>3, <2>4 DEF ResumeInv
  <2>6. ASSUME NEW v \in alive, NEW q \in Quits, task'[v][q] \in Paused
        PROVE  At(q, "over")
    <3>1. Begun(q)
      BY <1>1, <2>2, <2>6 DEF VetoInv, Paused
    <3> QED
      BY <2>5, <3>1 DEF Begun, Active, At
  <2> QED
    BY <1>1, <2>2, <2>3, <2>6, ResumeKept
<1>3. CASE Destroyed(w)
  <2>1. /\ UNCHANGED <<thread, task, waiting>> /\ alive' = alive \ {w}
        /\ inbox' = [inbox EXCEPT ![w] = <<>>]
    BY <1>3 DEF Destroyed, core, work
  <2>2. \A v \in alive' : inbox'[v] = inbox[v]
    BY <1>1, <2>1 DEF TypeOK
  <2> QED
    BY <2>1, <2>2, ResumeKept
<1>4. CASE Resolve(w)
  <2>1. UNCHANGED <<alive, inbox, task, waiting>> /\ (AskToQuit \/ UNCHANGED core)
    BY <1>4 DEF Resolve, wins, work
  <2>2. CASE UNCHANGED core
    <3>1. UNCHANGED thread
      BY <2>2 DEF core
    <3> QED
      BY <2>1, <3>1, ResumeKept
  <2> QED
    BY <2>1, <2>2, AskOrNot
<1>5. CASE Edit(w) \/ InputLands(w) \/ CloseWindow(w)
  <2>1. UNCHANGED <<thread, alive, inbox, task, waiting>>
    BY <1>5 DEF Edit, InputLands, CloseWindow, core, wins, work
  <2> QED
    BY <2>1, ResumeKept
<1> QED
  BY <1>2, <1>3, <1>4, <1>5 DEF User

(* Only the window itself, its input landed, asks again.                      *)
LEMMA OnlyPrompts ==
  ASSUME TypeOK, [Next]_vars, NEW w \in Wins, NEW q \in Quits,
         task[w][q] = "landed", task'[w][q] = "asked"
  PROVE  Prompt(w, q)
<1>1. task' # task
  OBVIOUS
<1>2. PICK v \in Wins, r \in Quits :
        \/ HearRequest(v, r) \/ FlushEnds(v, r) \/ FlushFails(v, r) \/ Ack(v, r)
        \/ Cancel(v, r) \/ Land(v, r) \/ Prompt(v, r)
  <2>1. ~UNCHANGED vars /\ ~UserQuits
    BY <1>1 DEF vars, work, UserQuits
  <2>2. ASSUME NEW p \in Quits, ThreadStep(p) PROVE FALSE
    BY <1>1, <2>2 DEF ThreadStep, Arm, EmitRequest, WaitCancelled, WaitCompleted, WaitTimedOut,
       Exit, Disarm, ReleaseGuard, Announce, work
  <2>3. ASSUME NEW v \in Wins, HearCancelled(v) \/ Destroyed(v) \/ User(v) PROVE FALSE
    BY <1>1, <2>3 DEF HearCancelled, Destroyed, User, Resolve, Edit, InputLands, CloseWindow, work
  <2> QED
    BY <2>1, <2>2, <2>3 DEF Next, WindowStep
<1>3. PICK t : Answer(v, r, t)
  BY <1>2 DEF HearRequest, Flushes, FlushEnds, FlushFails, Ack, Cancel, Land, Prompt
<1>4. v = w /\ r = q
  BY <1>3 DEF Answer, TypeOK
<1>5. ASSUME NEW u, Answer(w, q, u) PROVE u = "asked"
  BY <1>5 DEF Answer, TypeOK
<1>6. ~(HearRequest(w, q) \/ FlushEnds(w, q) \/ FlushFails(w, q) \/ Ack(w, q)
        \/ Cancel(w, q) \/ Land(w, q))
  <2>1. ~HearRequest(w, q)
    BY <1>5 DEF HearRequest, Flushes
  <2> QED
    BY <1>5, <2>1 DEF FlushEnds, FlushFails, Ack, Cancel, Land, Working
<1> QED
  BY <1>2, <1>4, <1>6

(* A window that called a quit off for input on its way asks for it again only *)
(* after that handshake gave the guard back, so that its request counts, when  *)
(* a quit is asked for only after the windows are done with the one before     *)
(* (onFlushRequest, onFlushCancelled, flush_then_exit).                       *)
THEOREM AskedAgainInTime ==
  ASSUME Overlap = FALSE
  PROVE  Spec => ResumeHeeded
<1>1. Init => ResumeInv
  BY DEF Init, ResumeInv, Active, Paused
<1>2. TypeOK /\ VetoInv /\ ResumeInv /\ [Next]_vars => ResumeInv'
  <2> SUFFICES ASSUME TypeOK, VetoInv, ResumeInv, [Next]_vars PROVE ResumeInv'
    OBVIOUS
  <2>1. CASE UserQuits
    <3>1. AskToQuit /\ UNCHANGED <<alive, inbox, task, waiting>>
      BY <2>1 DEF UserQuits, wins, work
    <3> QED
      BY <3>1, AskOrNot
  <2>2. CASE UNCHANGED vars
    <3>1. UNCHANGED <<thread, alive, inbox, task, waiting>>
      BY <2>2 DEF vars, core, wins, work
    <3> QED
      BY <3>1, ResumeKept
  <2> QED
    BY <2>1, <2>2, ResumeThreads, ResumeAnswers, ResumeWindows DEF Next, WindowStep
<1>3. TypeOK /\ ResumeInv /\ [Next]_vars
        => [\A w \in Wins, q \in Quits :
              task[w][q] = "landed" /\ task'[w][q] = "asked" /\ w \notin unfit
                => thread[q].pc \in {"announce", "over"}]_vars
  <2> SUFFICES ASSUME TypeOK, ResumeInv, [Next]_vars, NEW w \in Wins, NEW q \in Quits,
                      task[w][q] = "landed", task'[w][q] = "asked"
               PROVE  thread[q].pc \in {"announce", "over"}
    OBVIOUS
  <2>1. Prompt(w, q)
    BY OnlyPrompts
  <2>2. w \in alive /\ <<w, q>> \notin waiting
    BY <2>1 DEF Prompt, Working
  <2> QED
    BY <2>2 DEF ResumeInv, Paused, At
<1> QED
  BY <1>1, <1>2, <1>3, TypeCorrect, VetoInvHolds, PTL DEF Spec, ResumeHeeded
=============================================================================
