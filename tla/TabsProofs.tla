----------------------------- MODULE TabsProofs -----------------------------
(* What is proved of Tabs for any files, tabs, texts and failures.             *)
EXTENDS Tabs, FiniteSetTheorems, TLAPS

(* The user answers a question before he does anything else, and scripts       *)
(* never wait side by side.                                                 *)
OneAtATime == Careless = {} /\ \A j, k \in Jobs : j = k

Shape ==
  /\ tabs \in Seq(Tabs)
  /\ made \in Nat
  /\ path = [t \in Tabs |-> path[t]]
  /\ text = [t \in Tabs |-> text[t]]
  /\ base = [t \in Tabs |-> base[t]]
  /\ job = [j \in Jobs |-> job[j]]

(* A question is about the tab that is shown, and only one is asked.           *)
Questions ==
  /\ asking # None => gate = None /\ Shown /\ Current = asking
  /\ gate # None => Shown /\ Current = gate

(* What holds while a script waits.                                         *)
Calm(b) ==
  /\ b.pc \in {"flush", "delete"} => asking = None /\ gate = None
  /\ b.pc = "turn" =>
       /\ asking = None
       /\ IF b.then = "gate" THEN b.at \in DOMAIN tabs ELSE gate = None
  /\ b.pc \in {"write", "wrote", "record"} /\ b.then \in {"gate", "check"} =>
       asking = None
  /\ b.pc \in {"write", "wrote"} =>
       b.tab \in Tabs /\ (b.then = "close" => asking = b.tab)
  /\ b.pc = "record" /\ b.then = "close" => asking # None /\ ~Dirty(asking)
  /\ b.pc = "reread" => b.tab \in Tabs /\ ~Dirty(b.tab)
  /\ b.pc = "delete" =>
       /\ b.at \in DOMAIN tabs /\ tabs[b.at] = b.tab
       /\ b.letGo = b.tab \/ ~Dirty(b.tab)

IInv == Shape /\ Questions /\ \A j \in Jobs : Calm(job[j])

USE DEF files, store, frame, buffers, saving, dialogs, history

(* What is left alone leaves the invariant alone.                            *)
LEMMA Untouched ==
  ASSUME IInv, UNCHANGED <<tabs, active, path, text, base, dialogs, job, made>>
  PROVE  IInv'
BY DEF IInv, Shape, Questions, Calm, Shown, Current, Dirty

(* The one script there is waits for x.                                      *)
LEMMA Becomes ==
  ASSUME OneAtATime, Shape, NEW j \in Jobs, NEW x, Become(j, x)
  PROVE  job' = [k \in Jobs |-> job'[k]] /\ \A k \in Jobs : job'[k] = x
BY DEF OneAtATime, Shape, Become

(* While no other script waits, it is enough to look at the one that acts.     *)
LEMMA StepOf ==
  ASSUME OneAtATime, IInv, NEW j \in Jobs, NEW x, Become(j, x),
         UNCHANGED <<tabs, made>>,
         path' = [t \in Tabs |-> path'[t]], text' = [t \in Tabs |-> text'[t]],
         base' = [t \in Tabs |-> base'[t]],
         Questions', Calm(x)'
  PROVE  IInv'
BY Becomes DEF IInv, Shape

(* A step that leaves frame, text and questions alone.                       *)
LEMMA WaitsNext ==
  ASSUME OneAtATime, IInv, NEW j \in Jobs, NEW x, Become(j, x),
         UNCHANGED <<tabs, active, text, base, asking, gate, made>>,
         path' = [t \in Tabs |-> path'[t]],
         Calm(x)
  PROVE  IInv'
<1>1. Questions'
  BY DEF IInv, Questions, Shown, Current
<1>2. Calm(x)'
  BY DEF Calm, Dirty
<1>3. /\ text' = [t \in Tabs |-> text'[t]]
      /\ base' = [t \in Tabs |-> base'[t]]
  BY DEF IInv, Shape
<1> QED
  BY <1>1, <1>2, <1>3, StepOf

LEMMA Current0 ==
  ASSUME IInv, Shown
  PROVE  Current \in Tabs /\ active \in DOMAIN tabs /\ Current = tabs[active]
BY DEF IInv, Shape, Shown, Current

-----------------------------------------------------------------------------
LEMMA EditedStep ==
  ASSUME OneAtATime, IInv, NEW c, Edited(c)
  PROVE  IInv'
<1>1. Resting /\ asking = None /\ gate = None
  BY DEF Edited, OneAtATime
<1>2. /\ text' = [t \in Tabs |-> text'[t]]
      /\ UNCHANGED <<tabs, active, path, base, asking, gate, job, made>>
  BY DEF Edited, IInv, Shape
<1>3. \A j \in Jobs : Calm(job[j])'
  BY <1>1, <1>2 DEF Resting, Idle, Calm
<1> QED
  BY <1>1, <1>2, <1>3 DEF IInv, Shape, Questions

LEMMA SaveActiveStep ==
  ASSUME OneAtATime, IInv, NEW j \in Jobs, Shown, UNCHANGED dialogs,
         NEW then \in {"end", "close"}, SaveActive(j, then),
         then = "close" => asking # None
  PROVE  IInv'
<1>1. PICK f, how : Become(j, Write(Current, f, text[Current], how, then))
  BY DEF SaveActive, BeginWrite
<1>2. path' = [t \in Tabs |-> path'[t]]
  BY DEF SaveActive, IInv, Shape
<1>3. UNCHANGED <<tabs, active, text, base, asking, gate, made>>
  BY DEF SaveActive
<1>4. Current \in Tabs /\ (then = "close" => asking = Current)
  BY Current0 DEF IInv, Questions
<1>5. Calm(Write(Current, f, text[Current], how, then))
  BY <1>4 DEF Calm, Write
<1> QED
  BY <1>1, <1>2, <1>3, <1>5, WaitsNext

LEMMA SaveAsStep ==
  ASSUME OneAtATime, IInv, NEW j \in Jobs, NEW then \in {"end", "gate"},
         SaveAs(j, then), then = "gate" => gate # None
  PROVE  IInv'
<1>1. PICK f : Become(j, Write(Current, f, text[Current], "as", then))
  BY DEF SaveAs, BeginWrite
<1>2. /\ UNCHANGED <<tabs, active, path, text, base, asking, gate, made>>
      /\ path' = [t \in Tabs |-> path'[t]]
  BY DEF SaveAs, IInv, Shape
<1>3. Current \in Tabs /\ (then = "gate" => asking = None)
  BY Current0 DEF SaveAs, IInv, Questions
<1>4. Calm(Write(Current, f, text[Current], "as", then))
  BY <1>3 DEF Calm, Write
<1> QED
  BY <1>1, <1>2, <1>4, WaitsNext

LEMMA WriteFileStep ==
  ASSUME OneAtATime, IInv, NEW j \in Jobs, WriteFile(j)
  PROVE  IInv'
<1> DEFINE b == job[j]
<1>1. PICK x \in {Wrote(b.tab, b.to, b.out, b.how, b.then), Idle} : Become(j, x)
  BY DEF WriteFile
<1>2. /\ UNCHANGED <<tabs, active, path, text, base, asking, gate, made>>
      /\ path' = [t \in Tabs |-> path'[t]]
  BY DEF WriteFile, IInv, Shape
<1>3. b.pc = "write" /\ Calm(b)
  BY DEF WriteFile, IInv
<1>4. Calm(x)
  BY <1>1, <1>3 DEF Calm, Wrote, Idle
<1> QED
  BY <1>1, <1>2, <1>4, WaitsNext

LEMMA FailFileStep ==
  ASSUME OneAtATime, IInv, NEW j \in Jobs, FailFile(j)
  PROVE  IInv'
<1>1. Become(j, Idle) /\ UNCHANGED <<tabs, active, path, text, base, asking, made>>
  BY DEF FailFile
<1>2. gate' \in {None, gate}
  BY DEF FailFile
<1>3. Questions'
  BY <1>1, <1>2 DEF IInv, Questions, Shown, Current
<1>4. Calm(Idle)'
  BY DEF Calm, Idle
<1> QED
  BY <1>1, <1>3, <1>4, StepOf DEF IInv, Shape

LEMMA MarkSavedStep ==
  ASSUME OneAtATime, IInv, NEW j \in Jobs, MarkSaved(j)
  PROVE  IInv'
<1>1. PICK t, then : t = job[j].tab /\ then = job[j].then
  OBVIOUS
<1>2. /\ Become(j, Recording(then)) /\ job[j].pc = "wrote"
      /\ base' = [base EXCEPT ![t] = text[t]]
      /\ UNCHANGED <<tabs, active, text, asking, gate, made>>
  BY <1>1 DEF MarkSaved
<1>3. /\ t \in Tabs
      /\ then = "close" => asking = t
      /\ then \in {"gate", "check"} => asking = None
  BY <1>1, <1>2 DEF IInv, Calm
<1>4. t # None
  BY <1>3, TabsAssumption DEF Tabs
<1>5. path' = [u \in Tabs |-> path'[u]]
  BY <1>1 DEF MarkSaved, IInv, Shape
<1>6. /\ text' = [u \in Tabs |-> text'[u]]
      /\ base' = [u \in Tabs |-> base'[u]]
      /\ base'[t] = text'[t]
  BY <1>2, <1>3 DEF IInv, Shape
<1>7. Questions'
  BY <1>2 DEF IInv, Questions, Shown, Current
<1>8. Calm(Recording(then))'
  BY <1>2, <1>3, <1>4, <1>6 DEF Calm, Recording, Dirty
<1> QED
  BY <1>2, <1>5, <1>6, <1>7, <1>8, StepOf

-----------------------------------------------------------------------------
(* Taking the shown tab down, once it was asked about or has no changes.        *)
LEMMA BeginDeleteStep ==
  ASSUME OneAtATime, IInv, NEW j \in Jobs, NEW let, BeginDelete(j, let),
         asking' = None, gate = None,
         Shown => let = Current \/ ~Dirty(Current),
         UNCHANGED <<tabs, active, path, text, base, gate, made>>
  PROVE  IInv'
<1>1. Questions'
  BY DEF Questions
<1>2. /\ path' = [t \in Tabs |-> path'[t]]
      /\ text' = [t \in Tabs |-> text'[t]]
      /\ base' = [t \in Tabs |-> base'[t]]
  BY DEF IInv, Shape
<1>3. CASE Shown
  <2>1. PICK t : t = Current /\ t = tabs[active] /\ active \in DOMAIN tabs
    BY <1>3, Current0
  <2>2. Become(j, Deleting(t, active, let))
    BY <1>3, <2>1 DEF BeginDelete
  <2>3. PICK x : x = Deleting(t, active, let)
    OBVIOUS
  <2>4. Calm(x)'
    BY <1>3, <2>1, <2>3 DEF Calm, Deleting, Dirty
  <2> QED
    BY <1>1, <1>2, <2>2, <2>3, <2>4, StepOf
<1>4. CASE ~Shown
  <2>1. Become(j, Idle)
    BY <1>4 DEF BeginDelete
  <2>2. Calm(Idle)'
    BY DEF Calm, Idle
  <2> QED
    BY <1>1, <1>2, <2>1, <2>2, StepOf
<1> QED
  BY <1>3, <1>4

LEMMA RequestCloseStep ==
  ASSUME OneAtATime, IInv, NEW j \in Jobs, RequestClose(j)
  PROVE  IInv'
<1>1. asking = None /\ gate = None /\ Shown /\ job[j] = Idle
  BY DEF RequestClose, Attentive, OneAtATime, Free
<1>2. UNCHANGED <<tabs, active, path, text, base, gate, made>>
  BY DEF RequestClose
<1>3. CASE Dirty(Current)
  <2>1. asking' = Current /\ job' = job
    BY <1>3 DEF RequestClose
  <2>2. Questions'
    BY <1>1, <1>2, <2>1 DEF Questions, Shown, Current
  <2>3. \A k \in Jobs : job'[k] = Idle
    BY <1>1, <2>1 DEF OneAtATime
  <2>4. \A k \in Jobs : Calm(job[k])'
    BY <2>3 DEF Calm, Idle
  <2> QED
    BY <1>2, <2>1, <2>2, <2>4 DEF IInv, Shape
<1>4. CASE ~Dirty(Current)
  <2>1. BeginDelete(j, None) /\ asking' = None
    BY <1>1, <1>4 DEF RequestClose
  <2> QED
    BY <1>1, <1>2, <1>4, <2>1, BeginDeleteStep
<1> QED
  BY <1>3, <1>4

LEMMA ConfirmDiscardStep ==
  ASSUME OneAtATime, IInv, NEW j \in Jobs, ConfirmDiscard(j)
  PROVE  IInv'
<1>1. gate = None /\ Current = asking
  BY DEF ConfirmDiscard, IInv, Questions
<1> QED
  BY <1>1, BeginDeleteStep DEF ConfirmDiscard

LEMMA CancelStep ==
  ASSUME OneAtATime, IInv, CancelClose \/ GateCancel
  PROVE  IInv'
<1>1. /\ \A j \in Jobs : job[j] = Idle
      /\ UNCHANGED <<tabs, active, path, text, base, job, made>>
      /\ asking' \in {None, asking} /\ gate' \in {None, gate}
  BY DEF CancelClose, GateCancel, Resting
<1>2. Questions'
  BY <1>1 DEF IInv, Questions, Shown, Current
<1>3. \A j \in Jobs : Calm(job[j])'
  BY <1>1 DEF Calm, Idle
<1> QED
  BY <1>1, <1>2, <1>3 DEF IInv, Shape

(* Everything is at rest and nothing is asked.                              *)
LEMMA AllIdle ==
  ASSUME IInv, tabs' \in Seq(Tabs), made' \in Nat,
         path' = [t \in Tabs |-> path'[t]], text' = [t \in Tabs |-> text'[t]],
         base' = [t \in Tabs |-> base'[t]],
         job' = [j \in Jobs |-> job'[j]], \A j \in Jobs : job'[j] = Idle,
         asking' = None, gate' = None
  PROVE  IInv'
<1>1. \A j \in Jobs : Calm(job[j])'
  BY DEF Calm, Idle
<1> QED
  BY <1>1 DEF IInv, Shape, Questions

(* The elements of two sequences put together.                              *)
LEMMA Joined ==
  ASSUME NEW S, NEW p \in Seq(S), NEW q \in Seq(S)
  PROVE  /\ p \o q \in Seq(S)
         /\ DOMAIN (p \o q) = 1..(Len(p) + Len(q))
         /\ \A m \in 1..Len(p) : (p \o q)[m] = p[m]
         /\ \A m \in 1..Len(q) : (p \o q)[Len(p) + m] = q[m]
OBVIOUS

(* An index of the second of two sequences is one of the two put together.   *)
LEMMA Shifted ==
  ASSUME NEW a \in Nat, NEW b \in Nat, NEW m \in 1..b
  PROVE  a + m \in 1..(a + b)
OBVIOUS

(* Taking one element out of a sequence leaves the others.                   *)
LEMMA Removed ==
  ASSUME NEW S, NEW s \in Seq(S), NEW i \in DOMAIN s
  PROVE  /\ RemoveAt(s, i) \in Seq(S)
         /\ \A k \in DOMAIN s : k # i =>
              \E m \in DOMAIN RemoveAt(s, i) : RemoveAt(s, i)[m] = s[k]
<1>0. PICK p, q : p = SubSeq(s, 1, i - 1) /\ q = SubSeq(s, i + 1, Len(s))
  OBVIOUS
<1>1. i \in Nat /\ 1 <= i /\ i <= Len(s) /\ Len(s) \in Nat
  OBVIOUS
<1>2. p \in Seq(S) /\ Len(p) = i - 1 /\ \A m \in 1..(i - 1) : p[m] = s[m]
  BY <1>0, <1>1
<1>3. q \in Seq(S) /\ Len(q) = Len(s) - i /\ \A m \in 1..(Len(s) - i) : q[m] = s[i + m]
  BY <1>0, <1>1
<1>4. RemoveAt(s, i) = p \o q
  BY <1>0 DEF RemoveAt
<1>5. /\ p \o q \in Seq(S)
      /\ DOMAIN (p \o q) = 1..(Len(p) + Len(q))
      /\ \A m \in 1..Len(p) : (p \o q)[m] = p[m]
      /\ \A m \in 1..Len(q) : (p \o q)[Len(p) + m] = q[m]
  <2>1. p \in Seq(S) /\ q \in Seq(S)
    BY <1>2, <1>3
  <2>2. p \o q \in Seq(S)
    BY <2>1, Joined
  <2>3. DOMAIN (p \o q) = 1..(Len(p) + Len(q))
    BY <2>1, Joined
  <2>4. \A m \in 1..Len(p) : (p \o q)[m] = p[m]
    BY <2>1, Joined
  <2>5. \A m \in 1..Len(q) : (p \o q)[Len(p) + m] = q[m]
    BY <2>1, Joined
  <2> QED
    BY <2>2, <2>3, <2>4, <2>5
<1>6. ASSUME NEW k \in DOMAIN s, k # i
      PROVE  \E m \in DOMAIN (p \o q) : (p \o q)[m] = s[k]
  <2>1. CASE k < i
    <3>1. k \in 1..(i - 1) /\ k \in 1..(Len(p) + Len(q))
      BY <1>1, <1>2, <1>3, <2>1
    <3>2. (p \o q)[k] = s[k]
      BY <1>2, <1>5, <3>1
    <3> QED
      BY <1>5, <3>1, <3>2
  <2>2. CASE k > i
    <3>1. PICK m \in 1..(Len(s) - i) : k = i + m
      BY <1>1, <2>2
    <3>2. q[m] = s[k]
      BY <1>3, <3>1
    <3>3. m \in 1..Len(q) /\ Len(p) + m \in 1..(Len(p) + Len(q))
      <4>1. Len(p) \in Nat /\ Len(q) \in Nat
        BY <1>2, <1>3
      <4>2. m \in 1..Len(q)
        BY <1>3, <3>1
      <4>3. Len(p) + m \in 1..(Len(p) + Len(q))
        BY <4>1, <4>2, Shifted
      <4> QED
        BY <4>2, <4>3
    <3>4. (p \o q)[Len(p) + m] = q[m]
      BY <1>5, <3>3
    <3> QED
      BY <1>5, <3>2, <3>3, <3>4
  <2> QED
    BY <1>1, <1>6, <2>1, <2>2
<1> QED
  BY <1>4, <1>5, <1>6

LEMMA DeleteTabStep ==
  ASSUME OneAtATime, IInv, NEW j \in Jobs, DeleteTab(j)
  PROVE  IInv'
<1>1. asking = None /\ gate = None
  BY DEF DeleteTab, IInv, Calm
<1>2. tabs' = Splice(job[j].at) /\ tabs' \in Seq(Tabs)
  BY Removed DEF DeleteTab, Splice, IInv, Shape
<1>3. job' = [k \in Jobs |-> job'[k]] /\ \A k \in Jobs : job'[k] = Idle
  BY DEF DeleteTab, Abandoned, OneAtATime, IInv, Shape
<1>4. UNCHANGED <<path, text, base, asking, gate, made>>
  BY DEF DeleteTab
<1> QED
  BY <1>1, <1>2, <1>3, <1>4, AllIdle DEF IInv, Shape

LEMMA FailDeleteStep ==
  ASSUME OneAtATime, IInv, NEW j \in Jobs, FailDelete(j)
  PROVE  IInv'
<1>1. Calm(Idle)
  BY DEF Calm, Idle
<1> QED
  BY <1>1, WaitsNext DEF FailDelete, IInv, Shape

-----------------------------------------------------------------------------
(* A script that waits with nothing asked.                                   *)
LEMMA SwitchToStep ==
  ASSUME OneAtATime, IInv, NEW j \in Jobs, NEW i, SwitchTo(j, i)
  PROVE  IInv'
<1>1. asking = None /\ gate = None
  BY DEF SwitchTo, Attentive, OneAtATime
<1>2. /\ Become(j, Turning(i, None, "end"))
      /\ UNCHANGED <<tabs, active, path, text, base, asking, gate, made>>
      /\ path' = [t \in Tabs |-> path'[t]]
  BY DEF SwitchTo, IInv, Shape
<1>3. Calm(Turning(i, None, "end"))
  BY <1>1 DEF Calm, Turning
<1> QED
  BY <1>2, <1>3, WaitsNext

LEMMA Appended ==
  ASSUME NEW S, NEW s \in Seq(S), NEW e
  PROVE  /\ e \in S => Append(s, e) \in Seq(S)
         /\ DOMAIN s \subseteq DOMAIN Append(s, e)
         /\ \A i \in DOMAIN s : Append(s, e)[i] = s[i]
OBVIOUS

LEMMA AddTabStep ==
  ASSUME OneAtATime, IInv, NEW j \in Jobs, NEW f, AddTab(j, f)
  PROVE  IInv'
<1>1. asking = None /\ gate = None
  BY DEF AddTab, Attentive, OneAtATime
<1>2. /\ made \in Nat /\ made + 1 \in Tabs /\ made' \in Nat
      /\ tabs' = Append(tabs, made + 1)
  BY TabsAssumption DEF AddTab, IInv, Shape, Tabs
<1>3. tabs' \in Seq(Tabs)
  BY <1>2, Appended DEF IInv, Shape
<1>4. /\ path' = [t \in Tabs |-> path'[t]]
      /\ text' = [t \in Tabs |-> text'[t]]
      /\ base' = [t \in Tabs |-> base'[t]]
      /\ UNCHANGED <<asking, gate>>
  BY DEF AddTab, IInv, Shape
<1>5. PICK x : x = Turning(Len(tabs'), made + 1, "end")
  OBVIOUS
<1>6. Become(j, x)
  BY <1>5 DEF AddTab
<1>7. job' = [k \in Jobs |-> job'[k]] /\ \A k \in Jobs : job'[k] = x
  BY <1>6, Becomes DEF IInv
<1>8. x.pc = "turn" /\ x.then = "end"
  BY <1>5 DEF Turning
<1>9. \A k \in Jobs : Calm(job[k])'
  BY <1>1, <1>4, <1>7, <1>8 DEF Calm
<1> QED
  BY <1>1, <1>2, <1>3, <1>4, <1>7, <1>9 DEF IInv, Shape, Questions

LEMMA OpenFileStep ==
  ASSUME OneAtATime, IInv, NEW j \in Jobs, NEW f, OpenFile(j, f)
  PROVE  IInv'
<1>1. CASE \E t \in Open : path[t] = f
  BY <1>1, SwitchToStep DEF OpenFile
<1>2. CASE ~ \E t \in Open : path[t] = f
  BY <1>2, AddTabStep DEF OpenFile
<1> QED
  BY <1>1, <1>2

LEMMA TurnedStep ==
  ASSUME OneAtATime, IInv, NEW j \in Jobs, Turned(j)
  PROVE  IInv'
<1>1. PICK i, then : i = job[j].at /\ then = job[j].then
  OBVIOUS
<1>2. /\ asking = None
      /\ IF then = "gate" THEN i \in DOMAIN tabs ELSE gate = None
  BY <1>1 DEF Turned, IInv, Calm
<1>3. /\ active' = i
      /\ gate' = IF then = "gate" THEN tabs[i] ELSE None
      /\ UNCHANGED <<tabs, path, text, base, asking, made>>
  BY <1>1, <1>2 DEF Turned
<1>4. Questions'
  BY <1>2, <1>3 DEF Questions, Shown, Current
<1>5. PICK x \in {Idle, Recording("end")} : Become(j, x)
  BY DEF Turned
<1>6. Calm(x)'
  BY <1>5 DEF Calm, Idle, Recording
<1> QED
  BY <1>3, <1>4, <1>5, <1>6, StepOf DEF IInv, Shape

LEMMA BeginRereadStep ==
  ASSUME OneAtATime, IInv, NEW j \in Jobs, BeginReread(j)
  PROVE  IInv'
<1>1. Current \in Tabs /\ ~Dirty(Current)
  BY Current0 DEF BeginReread
<1>2. Calm(Rereading(Current))
  BY <1>1 DEF Calm, Rereading
<1> QED
  BY <1>2, WaitsNext DEF BeginReread, IInv, Shape

LEMMA RereadStep ==
  ASSUME OneAtATime, IInv, NEW j \in Jobs, Reread(j)
  PROVE  IInv'
<1>1. /\ Become(j, Idle)
      /\ UNCHANGED <<tabs, active, path, asking, gate, made>>
      /\ text' = [t \in Tabs |-> text'[t]]
      /\ base' = [t \in Tabs |-> base'[t]]
  BY DEF Reread, IInv, Shape
<1>2. Questions'
  BY <1>1 DEF IInv, Questions, Shown, Current
<1>3. Calm(Idle)'
  BY DEF Calm, Idle
<1> QED
  BY <1>1, <1>2, <1>3, StepOf DEF IInv, Shape

LEMMA CloseWindowStep ==
  ASSUME OneAtATime, IInv, NEW j \in Jobs, CloseWindow(j)
  PROVE  IInv'
<1>1. asking = None /\ gate = None
  BY DEF CloseWindow, Attentive, OneAtATime
<1>2. Calm(Flushing)
  BY <1>1 DEF Calm, Flushing
<1> QED
  BY <1>2, WaitsNext DEF CloseWindow, IInv, Shape

LEMMA FlushAllStep ==
  ASSUME OneAtATime, IInv, NEW j \in Jobs, FlushAll(j)
  PROVE  IInv'
<1>1. asking = None
  BY DEF FlushAll, IInv, Calm
<1>2. Calm(Recording("check"))
  BY <1>1 DEF Calm, Recording
<1> QED
  BY <1>2, WaitsNext DEF FlushAll, IInv, Shape

LEMMA PromptStep ==
  ASSUME OneAtATime, IInv, NEW j \in Jobs, NEW tx, NEW cs, NEW done,
         Prompt(j, tx, cs, done), asking = None,
         UNCHANGED <<tabs, active, path, base, made>>,
         text' = [t \in Tabs |-> text'[t]]
  PROVE  IInv'
<1>1. /\ tabs' \in Seq(Tabs) /\ made' \in Nat
      /\ path' = [t \in Tabs |-> path'[t]]
      /\ base' = [t \in Tabs |-> base'[t]]
  BY DEF IInv, Shape
<1>2. CASE FinishClose(j, tx, cs, done)
  <2>1. job' = [k \in Jobs |-> job'[k]] /\ \A k \in Jobs : job'[k] = Idle
    BY <1>2 DEF FinishClose, Abandoned, OneAtATime
  <2> QED
    BY <1>1, <1>2, <2>1, AllIdle DEF FinishClose
<1>3. ASSUME NEW i \in DOMAIN tabs, i = active,
             gate' = tabs[i], Become(j, Idle), asking' = asking
      PROVE  IInv'
  <2>1. Questions'
    BY <1>3 DEF Questions, Shown, Current
  <2>2. Calm(Idle)'
    BY DEF Calm, Idle
  <2> QED
    BY <1>1, <1>3, <2>1, <2>2, StepOf
<1>4. ASSUME NEW i \in DOMAIN tabs,
             Become(j, Turning(i, None, "gate")), UNCHANGED <<gate, asking>>
      PROVE  IInv'
  <2>1. Questions'
    BY <1>4 DEF IInv, Questions, Shown, Current
  <2>2. Calm(Turning(i, None, "gate"))'
    BY <1>4 DEF Calm, Turning
  <2> QED
    BY <1>1, <1>4, <2>1, <2>2, StepOf
<1> QED
  BY <1>2, <1>3, <1>4 DEF Prompt

LEMMA RecordedStep ==
  ASSUME OneAtATime, IInv, NEW j \in Jobs, Recorded(j)
  PROVE  IInv'
<1>1. /\ UNCHANGED <<tabs, active, path, text, base, made>>
      /\ text' = [t \in Tabs |-> text'[t]]
  BY DEF Recorded, IInv, Shape
<1>2. CASE job[j].then = "end"
  <2>1. Become(j, Idle) /\ UNCHANGED <<asking, gate>>
    BY <1>2 DEF Recorded
  <2>2. Calm(Idle)
    BY DEF Calm, Idle
  <2> QED
    BY <1>1, <2>1, <2>2, WaitsNext DEF IInv, Shape
<1>3. CASE job[j].then = "close"
  <2>1. asking # None /\ ~Dirty(asking)
    BY <1>3 DEF Recorded, IInv, Calm
  <2>2. gate = None /\ Current = asking
    BY <2>1 DEF IInv, Questions
  <2>3. BeginDelete(j, None) /\ asking' = None /\ gate' = gate
    BY <1>3 DEF Recorded
  <2> QED
    BY <1>1, <2>1, <2>2, <2>3, BeginDeleteStep
<1>4. CASE job[j].then \in {"gate", "check"}
  <2>1. asking = None
    BY <1>4 DEF Recorded, IInv, Calm
  <2>2. Prompt(j, text, calls, settled)
    BY <1>4 DEF Recorded
  <2> QED
    BY <1>1, <2>1, <2>2, PromptStep
<1> QED
  BY <1>2, <1>3, <1>4 DEF Recorded

LEMMA GateDiscardStep ==
  ASSUME OneAtATime, IInv, NEW j \in Jobs, GateDiscard(j)
  PROVE  IInv'
<1>1. asking = None
  BY DEF GateDiscard, IInv, Questions
<1>2. /\ text' = [t \in Tabs |-> text'[t]]
      /\ UNCHANGED <<tabs, active, path, base, made>>
  BY DEF GateDiscard, IInv, Shape
<1>3. PICK tx, cs : Prompt(j, tx, cs, FALSE)
  BY DEF GateDiscard
<1> QED
  BY <1>1, <1>2, <1>3, PromptStep

LEMMA RestartStep ==
  ASSUME OneAtATime, IInv, Restart
  PROVE  IInv'
<1>1. /\ asking' = None /\ gate' = None /\ made' \in Nat
      /\ job' = [j \in Jobs |-> job'[j]] /\ \A j \in Jobs : job'[j] = Idle
      /\ path' = [t \in Tabs |-> path'[t]]
      /\ text' = [t \in Tabs |-> text'[t]]
      /\ base' = [t \in Tabs |-> base'[t]]
  BY DEF Restart, IInv, Shape
<1>2. Cardinality(Kept) \in Nat
  <2>1. IsFiniteSet(Tabs)
    BY FS_Interval, TabsAssumption DEF Tabs
  <2>2. IsFiniteSet(Kept)
    BY <2>1, FS_Subset DEF Kept
  <2> QED
    BY <2>2, FS_CardinalityType
<1>3. tabs' \in [1..Cardinality(Kept) -> Kept] /\ Kept \subseteq Tabs
  BY DEF Restart, InOrder, Kept
<1>4. tabs' \in Seq(Tabs)
  BY <1>2, <1>3
<1> QED
  BY <1>1, <1>4, AllIdle

-----------------------------------------------------------------------------
LEMMA InitIInv == Init => IInv
BY DEF Init, IInv, Shape, Questions, Calm, Idle

LEMMA StepIInv ==
  ASSUME OneAtATime, IInv, [Next]_vars
  PROVE  IInv'
<1>1. CASE UserActs
  <2>1. CASE Type \/ Undo
    BY <2>1, EditedStep DEF Type, Undo
  <2>2. CASE CancelClose \/ GateCancel
    BY <2>2, CancelStep
  <2>3. ASSUME NEW j \in Jobs, Save(j)
        PROVE  IInv'
    BY <2>3, SaveActiveStep DEF Save
  <2>4. ASSUME NEW j \in Jobs, SaveAs(j, "end") \/ GateSave(j)
        PROVE  IInv'
    BY <2>4, SaveAsStep DEF GateSave
  <2>5. ASSUME NEW j \in Jobs, ConfirmSave(j)
        PROVE  IInv'
    BY <2>5, SaveActiveStep DEF ConfirmSave
  <2>6. ASSUME NEW j \in Jobs, RequestClose(j) \/ ConfirmDiscard(j)
        PROVE  IInv'
    BY <2>6, RequestCloseStep, ConfirmDiscardStep
  <2>7. ASSUME NEW j \in Jobs, NewTab(j) \/ BeginReread(j) \/ CloseWindow(j)
                               \/ GateDiscard(j)
        PROVE  IInv'
    BY <2>7, AddTabStep, BeginRereadStep, CloseWindowStep, GateDiscardStep
       DEF NewTab
  <2>8. ASSUME NEW j \in Jobs, NEW i \in 1..MaxTabs, SwitchTo(j, i)
        PROVE  IInv'
    BY <2>8, SwitchToStep
  <2>9. ASSUME NEW j \in Jobs, NEW f \in Files, OpenFile(j, f)
        PROVE  IInv'
    BY <2>9, OpenFileStep
  <2> QED
    BY <1>1, <2>1, <2>2, <2>3, <2>4, <2>5, <2>6, <2>7, <2>8, <2>9 DEF UserActs
<1>2. CASE ScriptsGoOn
  <2>1. CASE Persist \/ MoveWindow
    BY <2>1, Untouched DEF Persist, MoveWindow
  <2>2. ASSUME NEW j \in Jobs, MarkSaved(j) \/ Turned(j) \/ Reread(j)
                               \/ FlushAll(j) \/ Recorded(j)
        PROVE  IInv'
    BY <2>2, MarkSavedStep, TurnedStep, RereadStep, FlushAllStep, RecordedStep
  <2> QED
    BY <1>2, <2>1, <2>2 DEF ScriptsGoOn
<1>3. CASE CoreActs
  <2>1. CASE Forget \/ \E i \in DOMAIN calls : Land(i) \/ FailRecord(i)
    BY <2>1, Untouched DEF Forget, Land, FailRecord
  <2>2. ASSUME NEW j \in Jobs, WriteFile(j) \/ FailFile(j) \/ DeleteTab(j)
                               \/ FailDelete(j)
        PROVE  IInv'
    BY <2>2, WriteFileStep, FailFileStep, DeleteTabStep, FailDeleteStep
  <2> QED
    BY <1>3, <2>1, <2>2 DEF CoreActs
<1>4. CASE Restart
  BY <1>4, RestartStep
<1>5. CASE UNCHANGED vars
  BY <1>5, Untouched DEF vars
<1> QED
  BY <1>1, <1>2, <1>3, <1>4, <1>5 DEF Next

-----------------------------------------------------------------------------
(* What no step but an edit or a restart may do to a tab with changes.         *)
Lossless ==
  \A t \in Open : Dirty(t) =>
    LetGo(t) \/ (t \in ToSet(tabs') /\ text'[t] = text[t])

LEMMA StillOpen ==
  ASSUME UNCHANGED <<tabs, text>>
  PROVE  Lossless
BY DEF Lossless, Open

(* A tab goes that was let go or has no changes; the others stay.             *)
LEMMA DeleteLossless ==
  ASSUME IInv, NEW j \in Jobs, DeleteTab(j)
  PROVE  Lossless
<1>1. PICK i, u : i = job[j].at /\ u = job[j].tab
  OBVIOUS
<1>2. /\ job[j].pc = "delete"
      /\ i \in DOMAIN tabs /\ tabs[i] = u
      /\ job[j].letGo = u \/ ~Dirty(u)
  BY <1>1 DEF DeleteTab, IInv, Calm
<1>3. tabs' = RemoveAt(tabs, i) /\ text' = text
  BY <1>1, <1>2 DEF DeleteTab, Splice
<1> SUFFICES ASSUME NEW t \in Open, Dirty(t), ~LetGo(t)
             PROVE  t \in ToSet(tabs')
  BY <1>3 DEF Lossless
<1>4. t # u
  BY <1>2 DEF LetGo
<1>5. PICK k \in DOMAIN tabs : tabs[k] = t /\ k # i
  BY <1>2, <1>4 DEF Open, ToSet
<1>6. PICK m \in DOMAIN tabs' : tabs'[m] = t
  BY <1>2, <1>3, <1>5, Removed DEF IInv, Shape
<1> QED
  BY <1>6 DEF ToSet

LEMMA AddLossless ==
  ASSUME IInv, NEW j \in Jobs, NEW f, AddTab(j, f)
  PROVE  Lossless
<1>1. PICK c : /\ tabs' = Append(tabs, made + 1)
               /\ text' = [text EXCEPT ![made + 1] = c]
               /\ made + 1 \notin Open
  BY DEF AddTab
<1> SUFFICES ASSUME NEW t \in Open
             PROVE  t \in ToSet(tabs') /\ text'[t] = text[t]
  BY DEF Lossless
<1>2. PICK k \in DOMAIN tabs : tabs[k] = t
  BY DEF Open, ToSet
<1>3. t \in Tabs
  BY <1>2 DEF IInv, Shape
<1>4. text'[t] = text[t]
  BY <1>1, <1>3 DEF IInv, Shape
<1>5. k \in DOMAIN tabs' /\ tabs'[k] = t
  BY <1>1, <1>2, Appended DEF IInv, Shape
<1> QED
  BY <1>4, <1>5 DEF ToSet

LEMMA RereadLossless ==
  ASSUME IInv, NEW j \in Jobs, Reread(j)
  PROVE  Lossless
<1>1. PICK u, c : /\ u = job[j].tab
                  /\ text' = [text EXCEPT ![u] = c] /\ tabs' = tabs
  BY DEF Reread
<1>2. ~Dirty(u)
  BY <1>1 DEF Reread, IInv, Calm
<1> SUFFICES ASSUME NEW t \in Open, Dirty(t)
             PROVE  text'[t] = text[t]
  BY <1>1 DEF Lossless, Open
<1>3. t \in Tabs /\ t # u
  BY <1>2 DEF Open, ToSet, IInv, Shape
<1> QED
  BY <1>1, <1>3 DEF IInv, Shape

LEMMA DiscardLossless ==
  ASSUME IInv, NEW j \in Jobs, GateDiscard(j)
  PROVE  Lossless
<1>1. PICK u, c : u = Current /\ text' = [text EXCEPT ![u] = c] /\ tabs' = tabs
  BY DEF GateDiscard
<1>2. gate = u
  BY <1>1 DEF GateDiscard, IInv, Questions
<1> SUFFICES ASSUME NEW t \in Open, t # u
             PROVE  text'[t] = text[t]
  BY <1>1, <1>2 DEF Lossless, Open, LetGo
<1>3. t \in Tabs
  BY DEF Open, ToSet, IInv, Shape
<1> QED
  BY <1>1, <1>3 DEF IInv, Shape

LEMMA StepLossless ==
  ASSUME IInv, [Next]_vars, ~(Undo \/ Type \/ Restart)
  PROVE  Lossless
<1>1. CASE UserActs
  <2>1. CASE CancelClose \/ GateCancel
    BY <2>1, StillOpen DEF CancelClose, GateCancel
  <2>2. ASSUME NEW j \in Jobs, Save(j) \/ ConfirmSave(j)
        PROVE  Lossless
    BY <2>2, StillOpen DEF Save, ConfirmSave, SaveActive
  <2>3. ASSUME NEW j \in Jobs, SaveAs(j, "end") \/ GateSave(j)
        PROVE  Lossless
    BY <2>3, StillOpen DEF SaveAs, GateSave
  <2>4. ASSUME NEW j \in Jobs, RequestClose(j) \/ ConfirmDiscard(j)
                               \/ BeginReread(j) \/ CloseWindow(j)
        PROVE  Lossless
    BY <2>4, StillOpen
       DEF RequestClose, ConfirmDiscard, BeginReread, CloseWindow
  <2>5. ASSUME NEW j \in Jobs, NewTab(j) \/ GateDiscard(j)
        PROVE  Lossless
    BY <2>5, AddLossless, DiscardLossless DEF NewTab
  <2>6. ASSUME NEW j \in Jobs, NEW i, SwitchTo(j, i)
        PROVE  Lossless
    BY <2>6, StillOpen DEF SwitchTo
  <2>7. ASSUME NEW j \in Jobs, NEW f \in Files, OpenFile(j, f)
        PROVE  Lossless
    BY <2>6, <2>7, AddLossless DEF OpenFile
  <2> QED
    BY <1>1, <2>1, <2>2, <2>3, <2>4, <2>5, <2>6, <2>7 DEF UserActs
<1>2. CASE ScriptsGoOn
  <2>1. CASE Persist \/ MoveWindow
    BY <2>1, StillOpen DEF Persist, MoveWindow
  <2>2. ASSUME NEW j \in Jobs, MarkSaved(j) \/ Turned(j) \/ FlushAll(j)
                               \/ Recorded(j)
        PROVE  Lossless
    BY <2>2, StillOpen DEF MarkSaved, Turned, FlushAll, Recorded
  <2>3. ASSUME NEW j \in Jobs, Reread(j)
        PROVE  Lossless
    BY <2>3, RereadLossless
  <2> QED
    BY <1>2, <2>1, <2>2, <2>3 DEF ScriptsGoOn
<1>3. CASE CoreActs
  <2>1. CASE Forget \/ \E i \in DOMAIN calls : Land(i) \/ FailRecord(i)
    BY <2>1, StillOpen DEF Forget, Land, FailRecord
  <2>2. ASSUME NEW j \in Jobs, WriteFile(j) \/ FailFile(j) \/ FailDelete(j)
        PROVE  Lossless
    BY <2>2, StillOpen DEF WriteFile, FailFile, FailDelete
  <2>3. ASSUME NEW j \in Jobs, DeleteTab(j)
        PROVE  Lossless
    BY <2>3, DeleteLossless
  <2> QED
    BY <1>3, <2>1, <2>2, <2>3 DEF CoreActs
<1>4. CASE UNCHANGED vars
  BY <1>4, StillOpen DEF vars
<1> QED
  BY <1>1, <1>2, <1>3, <1>4 DEF Next

(* A question that is on the screen is about the tab that is shown, so that    *)
(* the answer, which names no tab, is for the tab it was given for.            *)
THEOREM QuestionsAreAboutTheShown ==
  ASSUME OneAtATime
  PROVE  Spec => []Questions
<1>1. Init => IInv
  BY InitIInv
<1>2. IInv /\ [Next]_vars => IInv'
  BY StepIInv
<1>3. IInv => Questions
  BY DEF IInv
<1> QED
  BY <1>1, <1>2, <1>3, PTL DEF Spec

(* No tab loses its changes unless the user takes them back or, asked about    *)
(* this very tab, lets them go: for any files, tabs and texts and whatever     *)
(* writes of files and records and deletions fail.                           *)
THEOREM ChangesAreAskedAbout ==
  ASSUME OneAtATime
  PROVE  Spec => AskedBeforeLost
<1>1. Init => IInv
  BY InitIInv
<1>2. IInv /\ [Next]_vars => IInv'
  BY StepIInv
<1>3. IInv /\ [Next]_vars =>
        [Undo \/ Type \/ Restart \/
         \A t \in Open : Dirty(t) =>
           LetGo(t) \/ (t \in ToSet(tabs') /\ text'[t] = text[t])]_vars
  BY StepLossless DEF Lossless
<1> QED
  BY <1>1, <1>2, <1>3, PTL DEF Spec, AskedBeforeLost
-----------------------------------------------------------------------------
(* Types.  A tab has a number, and no tab that is named anywhere has a number   *)
(* that was not given yet: this is what makes the number of a new tab new.      *)

Data ==
  /\ disk \in [Files -> Texts]
  /\ stored \in [Tabs -> Record \cup {None}]
  /\ doomed \in SUBSET Tabs
  /\ up \in BOOLEAN
  /\ tabs \in Seq(Tabs)
  /\ active \in Nat \ {0}
  /\ path \in [Tabs -> Files \cup {None}]
  /\ text \in [Tabs -> Texts]
  /\ base \in [Tabs -> Texts]
  /\ unwritten \in SUBSET Tabs
  /\ timer \in BOOLEAN /\ settled \in BOOLEAN
  /\ asking \in Tabs \cup {None}
  /\ gate \in Tabs \cup {None}
  /\ edits \in 0..MaxEdits /\ made \in 0..MaxTabs
Born ==
  /\ \A i \in DOMAIN tabs : tabs[i] <= made
  /\ \A t \in Tabs : stored[t] # None => t <= made
Sends(cs) == cs \in Seq(Call) /\ \A i \in DOMAIN cs : cs[i].tab <= made
Older(b) ==
  /\ b.pc \in {"write", "wrote", "delete", "reread"} => b.tab <= made
  /\ b.pc = "turn" => b.at # 0 /\ (b.tab # None => b.tab <= made)
  /\ b.pc = "delete" => b.at # 0
  /\ b.pc = "reread" => path[b.tab] # None
Works == job \in [Jobs -> JobState] /\ \A j \in Jobs : Older(job[j])
Typed == Data /\ Born /\ Sends(calls) /\ Works

LEMMA Numbers ==
  /\ Empty \in Texts /\ OnDisk \in Texts
  /\ None \notin Tabs /\ None \notin Files /\ None \notin Record
  /\ \A n \in 0..MaxTabs : n <= MaxTabs /\ n \in Nat
  /\ Tabs \subseteq Nat \ {0}
<1>1. None \notin Record
  BY NoRecordIsNone
<1> QED
  BY <1>1, TabsAssumption DEF Empty, OnDisk, Texts, Tabs

(* What a script waits for, put together and taken apart.                     *)
LEMMA Waiting ==
  /\ Idle \in JobState /\ Flushing \in JobState
  /\ \A t \in Tabs, f \in Files, c \in Texts, how \in Hows, then \in Thens :
       Write(t, f, c, how, then) \in JobState /\ Wrote(t, f, c, how, then) \in JobState
  /\ \A then \in Thens : Recording(then) \in JobState
  /\ \A t \in Tabs, i \in Nat, let \in Tabs \cup {None} : Deleting(t, i, let) \in JobState
  /\ \A i \in Nat, t \in Tabs \cup {None}, then \in Thens : Turning(i, t, then) \in JobState
  /\ \A t \in Tabs : Rereading(t) \in JobState
BY DEF Idle, Flushing, Write, Wrote, Recording, Deleting, Turning, Rereading, JobState

LEMMA Waits1 ==
  ASSUME NEW b \in JobState
  PROVE  /\ b.pc \in {"write", "wrote"} =>
              b.tab \in Tabs /\ b.to \in Files /\ b.out \in Texts /\ b.how \in Hows /\ b.then \in Thens
         /\ b.pc = "record" => b.then \in Thens
         /\ b.pc = "delete" => b.tab \in Tabs /\ b.at \in Nat
         /\ b.pc = "turn" => b.at \in Nat /\ b.tab \in Tabs \cup {None} /\ b.then \in Thens
         /\ b.pc = "reread" => b.tab \in Tabs
BY DEF Idle, Flushing, JobState

LEMMA BecomesTyped ==
  ASSUME Works, NEW j \in Jobs, NEW x \in JobState, Become(j, x),
         made' >= made, made \in Nat, made' \in Nat,
         \A k \in Jobs : job[k].pc = "reread" => path'[job[k].tab] = path[job[k].tab],
         Older(x)'
  PROVE  Works'
<1>1. job' \in [Jobs -> JobState] /\ \A k \in Jobs : job'[k] = x \/ job'[k] = job[k]
  BY DEF Works, Become
<1>2. ASSUME NEW k \in Jobs, job'[k] = job[k]
      PROVE  Older(job[k])'
  <2>1. PICK b \in JobState : b = job[k]
    BY DEF Works
  <2>2. Older(b) /\ (b.pc = "reread" => path'[b.tab] = path[b.tab])
    BY <2>1 DEF Works
  <2>3. b.pc \in {"write", "wrote", "delete", "reread"} => b.tab \in Nat
    BY Waits1, Numbers
  <2>4. b.pc = "turn" => b.tab = None \/ b.tab \in Nat
    BY Waits1, Numbers
  <2>5. Older(b)'
    BY <2>2, <2>3, <2>4 DEF Older
  <2> QED
    BY <1>2, <2>1, <2>5
<1> QED
  BY <1>1, <1>2 DEF Works

LEMMA AllIdleTyped ==
  ASSUME job' \in [Jobs -> JobState], \A k \in Jobs : job'[k] = Idle \/ (job'[k] = job[k] /\ job[k].pc = "write"),
         made' = made, Works
  PROVE  Works'
BY DEF Works, Older, Idle

(* One more call, some more calls, one less.                                  *)
LEMMA Appending ==
  ASSUME NEW S, NEW s \in Seq(S), NEW e \in S
  PROVE  /\ Append(s, e) \in Seq(S) /\ Len(Append(s, e)) = Len(s) + 1
         /\ \A i \in DOMAIN Append(s, e) : i \in DOMAIN s \/ i = Len(s) + 1
         /\ Len(s) + 1 \in DOMAIN Append(s, e) /\ Len(s) + 1 \notin DOMAIN s
         /\ Append(s, e)[Len(s) + 1] = e
         /\ \A i \in DOMAIN s : /\ i \in DOMAIN Append(s, e) /\ i < Len(s) + 1
                                /\ Append(s, e)[i] = s[i]
OBVIOUS

LEMMA CallTyped ==
  ASSUME path \in [Tabs -> Files \cup {None}], NEW tx \in [Tabs -> Texts],
         NEW t \in Tabs, NEW by \in SUBSET Jobs
  PROVE  /\ Sent(tx, t, by) \in Call
         /\ Sent(tx, t, by).tab = t /\ Sent(tx, t, by).live
         /\ Sent(tx, t, by).by = by /\ Sent(tx, t, by).rec = Snapshot(tx, t)
<1>1. Snapshot(tx, t) \in Record
  BY Numbers DEF Snapshot, Record
<1> QED
  BY <1>1 DEF Sent, Call

LEMMA CleanTyped ==
  ASSUME NEW t \in Tabs, NEW f \in Files \cup {None}, NEW by \in SUBSET Jobs
  PROVE  /\ CleanRecord(f) \in Record
         /\ [tab |-> t, live |-> TRUE, by |-> by, rec |-> CleanRecord(f)] \in Call
BY Numbers DEF CleanRecord, Record, Call

LEMMA CallParts ==
  ASSUME NEW cs \in Seq(Call), NEW i \in DOMAIN cs
  PROVE  /\ cs[i] \in Call /\ cs[i].tab \in Tabs /\ cs[i].tab \in Nat
         /\ cs[i].rec \in Record /\ cs[i].live \in BOOLEAN /\ cs[i].by \in SUBSET Jobs
<1>1. cs[i] \in Call
  OBVIOUS
<1>2. /\ cs[i].tab \in Tabs /\ cs[i].rec \in Record /\ cs[i].live \in BOOLEAN
      /\ cs[i].by \in SUBSET Jobs
  BY <1>1 DEF Call
<1> QED
  BY <1>1, <1>2, Numbers

LEMMA OneMore ==
  ASSUME NEW cs, Sends(cs), NEW c \in Call, c.tab <= made
  PROVE  Sends(Append(cs, c))
<1>1. cs \in Seq(Call)
  BY DEF Sends
<1>2. Append(cs, c) \in Seq(Call)
  BY <1>1, Appending
<1>3. \A i \in DOMAIN Append(cs, c) : Append(cs, c)[i] = c \/ (i \in DOMAIN cs /\ Append(cs, c)[i] = cs[i])
  BY <1>1, Appending
<1> QED
  BY <1>2, <1>3 DEF Sends

LEMMA SomeMore ==
  ASSUME NEW cs, Sends(cs), NEW ds, Sends(ds)
  PROVE  Sends(cs \o ds)
<1>1. cs \in Seq(Call) /\ ds \in Seq(Call)
  BY DEF Sends
<1>2. cs \o ds \in Seq(Call)
  BY <1>1
<1>3. \A i \in DOMAIN (cs \o ds) : \/ i \in DOMAIN cs /\ (cs \o ds)[i] = cs[i]
                                   \/ (i - Len(cs)) \in DOMAIN ds /\ (cs \o ds)[i] = ds[i - Len(cs)]
  BY <1>1
<1> QED
  BY <1>2, <1>3 DEF Sends

LEMMA RemovedAt ==
  ASSUME NEW S, NEW s \in Seq(S), NEW i \in DOMAIN s
  PROVE  /\ RemoveAt(s, i) \in Seq(S)
         /\ DOMAIN RemoveAt(s, i) = 1..(Len(s) - 1)
         /\ \A k \in 1..(Len(s) - 1) :
              RemoveAt(s, i)[k] = IF k < i THEN s[k] ELSE s[k + 1]
<1>0. PICK p, q : p = SubSeq(s, 1, i - 1) /\ q = SubSeq(s, i + 1, Len(s))
  OBVIOUS
<1>1. i \in Nat /\ 1 <= i /\ i <= Len(s) /\ Len(s) \in Nat
  OBVIOUS
<1>2. p \in Seq(S) /\ Len(p) = i - 1 /\ \A m \in 1..(i - 1) : p[m] = s[m]
  BY <1>0, <1>1
<1>3. q \in Seq(S) /\ Len(q) = Len(s) - i /\ \A m \in 1..(Len(s) - i) : q[m] = s[i + m]
  BY <1>0, <1>1
<1>4. RemoveAt(s, i) = p \o q
  BY <1>0 DEF RemoveAt
<1>5. p \o q \in Seq(S) /\ DOMAIN (p \o q) = 1..(Len(s) - 1)
  BY <1>1, <1>2, <1>3
<1>7. \A m \in 1..Len(q) : (p \o q)[Len(p) + m] = q[m]
  <2>1. p \in Seq(S) /\ q \in Seq(S)
    BY <1>2, <1>3
  <2> QED
    BY <2>1, Joined
<1>6. ASSUME NEW k \in 1..(Len(s) - 1)
      PROVE  (p \o q)[k] = IF k < i THEN s[k] ELSE s[k + 1]
  <2>1. CASE k < i
    <3>1. k \in 1..Len(p) /\ k \in 1..(i - 1)
      BY <1>1, <1>2, <2>1
    <3>2. (p \o q)[k] = p[k]
      BY <1>2, <1>3, <3>1
    <3> QED
      BY <1>2, <2>1, <3>1, <3>2
  <2>2. CASE ~(k < i)
    <3>0. PICK m : m = k - i + 1
      OBVIOUS
    <3>1. m \in 1..(Len(s) - i) /\ k = (i - 1) + m /\ k + 1 = i + m
      BY <1>1, <2>2, <3>0
    <3>2. m \in 1..Len(q) /\ k = Len(p) + m
      BY <1>1, <1>2, <1>3, <3>1
    <3>3. (p \o q)[Len(p) + m] = q[m]
      BY <1>7, <3>2
    <3> QED
      BY <1>3, <2>2, <3>1, <3>2, <3>3
  <2> QED
    BY <2>1, <2>2
<1> QED
  BY <1>4, <1>5, <1>6

LEMMA AwaitedCalls ==
  ASSUME NEW cs \in Seq(Call), NEW done, NEW j \in Jobs
  PROVE  /\ Awaited(cs, done, j) \in Seq(Call)
         /\ DOMAIN Awaited(cs, done, j) = DOMAIN cs
         /\ \A i \in DOMAIN cs : /\ Awaited(cs, done, j)[i].tab = cs[i].tab
                                 /\ Awaited(cs, done, j)[i].rec = cs[i].rec
                                 /\ Awaited(cs, done, j)[i].live = cs[i].live
                                 /\ cs[i].by \subseteq Awaited(cs, done, j)[i].by
<1>1. CASE done \/ cs = <<>>
  BY <1>1 DEF Awaited
<1>2. CASE ~(done \/ cs = <<>>)
  <2>1. PICK n, c : n = Len(cs) /\ c = [cs[n] EXCEPT !.by = @ \cup {j}]
    OBVIOUS
  <2>2. n \in DOMAIN cs /\ cs[n] \in Call
    BY <1>2, <2>1
  <2>3. /\ c \in Call /\ c.tab = cs[n].tab /\ c.rec = cs[n].rec /\ c.live = cs[n].live
        /\ cs[n].by \subseteq c.by
    BY <2>1, <2>2 DEF Call
  <2>4. Awaited(cs, done, j) = [cs EXCEPT ![n] = c]
    BY <1>2, <2>1, <2>2 DEF Awaited
  <2>5. [cs EXCEPT ![n] = c] \in Seq(Call)
    BY <2>2, <2>3
  <2>6. \A i \in DOMAIN cs : [cs EXCEPT ![n] = c][i] = IF i = n THEN c ELSE cs[i]
    BY <2>2
  <2> QED
    BY <2>3, <2>4, <2>5, <2>6
<1> QED
  BY <1>1, <1>2

LEMMA FlushTyped ==
  ASSUME Data, Born, NEW cs, Sends(cs), NEW tx \in [Tabs -> Texts], NEW done \in BOOLEAN,
         NEW j \in Jobs, FlushTimer(j, tx, cs, done)
  PROVE  timer' = FALSE /\ settled' \in BOOLEAN /\ Sends(calls')
<1>1. CASE timer /\ Shown
  <2>1. Current \in Tabs /\ Current <= made
    BY <1>1 DEF Data, Born, Shown, Current
  <2>2. PICK c : c = Sent(tx, Current, {j})
    OBVIOUS
  <2>3. c \in Call /\ c.tab = Current
    BY <2>1, <2>2, CallTyped DEF Data
  <2>4. calls' = Append(cs, c)
    BY <1>1, <2>2 DEF FlushTimer
  <2>5. Sends(Append(cs, c))
    BY <2>1, <2>3, OneMore
  <2> QED
    BY <1>1, <2>4, <2>5 DEF FlushTimer
<1>2. CASE ~(timer /\ Shown)
  <2>1. calls' = Awaited(cs, done, j)
    BY <1>2 DEF FlushTimer
  <2>2. Sends(Awaited(cs, done, j))
    BY AwaitedCalls DEF Sends
  <2> QED
    BY <1>2, <2>1, <2>2 DEF FlushTimer
<1> QED
  BY <1>1, <1>2

(* Where a call was before the one at place i went, and where it is then.      *)
Old(i, k) == IF k < i THEN k ELSE k + 1
New(i, k) == IF k < i THEN k ELSE k - 1

LEMMA Places ==
  ASSUME NEW n \in Nat, NEW i \in 1..n
  PROVE  /\ \A k \in 1..(n - 1) : Old(i, k) \in 1..n /\ Old(i, k) # i /\ New(i, Old(i, k)) = k
         /\ \A k \in 1..n : k # i => New(i, k) \in 1..(n - 1) /\ Old(i, New(i, k)) = k
         /\ \A k, l \in 1..(n - 1) : k < l <=> Old(i, k) < Old(i, l)
         /\ \A k \in 1..n, l \in 1..(n - 1) : k # i => (New(i, k) < l <=> k < Old(i, l))
BY DEF Old, New

LEMMA LandCalls ==
  ASSUME calls \in Seq(Call), NEW i \in DOMAIN calls, Land(i)
  PROVE  /\ calls' \in Seq(Call) /\ DOMAIN calls' = 1..(Len(calls) - 1)
         /\ \A k \in DOMAIN calls' :
              /\ calls'[k].tab = calls[Old(i, k)].tab /\ calls'[k].rec = calls[Old(i, k)].rec
              /\ calls'[k].by = calls[Old(i, k)].by
              /\ calls'[k].live <=> /\ calls[Old(i, k)].live
                                    /\ ~(Old(i, k) < i /\ calls[Old(i, k)].tab = calls[i].tab)
<1>1. PICK cs : cs = Outdate(calls, i)
  OBVIOUS
<1>2. DOMAIN cs = DOMAIN calls
  BY <1>1 DEF Outdate
<1>3. ASSUME NEW k \in DOMAIN calls
      PROVE  /\ cs[k] \in Call
             /\ cs[k].tab = calls[k].tab /\ cs[k].rec = calls[k].rec /\ cs[k].by = calls[k].by
             /\ cs[k].live <=> calls[k].live /\ ~(k < i /\ calls[k].tab = calls[i].tab)
  <2>1. calls[k] \in Call
    OBVIOUS
  <2>2. cs[k] = [calls[k] EXCEPT !.live = @ /\ ~(k < i /\ calls[k].tab = calls[i].tab)]
    BY <1>1 DEF Outdate
  <2>3. PICK b \in BOOLEAN : b <=> calls[k].live /\ ~(k < i /\ calls[k].tab = calls[i].tab)
    BY Zenon
  <2>4. cs[k] = [calls[k] EXCEPT !.live = b]
    <3>1. calls[k].live \in BOOLEAN
      BY <2>1 DEF Call
    <3>2. b = (calls[k].live /\ ~(k < i /\ calls[k].tab = calls[i].tab))
      BY <2>3, <3>1
    <3> QED
      BY <2>2, <3>2
  <2> QED
    BY <2>1, <2>3, <2>4 DEF Call
<1>4. cs \in Seq(Call) /\ Len(cs) = Len(calls)
  <2>1. DOMAIN cs = 1..Len(calls) /\ cs = [k \in 1..Len(calls) |-> cs[k]]
    BY <1>1, <1>2 DEF Outdate
  <2>2. \A k \in 1..Len(calls) : cs[k] \in Call
    BY <1>3
  <2> QED
    BY <2>1, <2>2
<1>5. calls' = RemoveAt(cs, i)
  BY <1>1 DEF Land
<1>6. /\ RemoveAt(cs, i) \in Seq(Call) /\ DOMAIN RemoveAt(cs, i) = 1..(Len(cs) - 1)
      /\ \A k \in 1..(Len(cs) - 1) : RemoveAt(cs, i)[k] = IF k < i THEN cs[k] ELSE cs[k + 1]
  BY <1>2, <1>4, RemovedAt
<1>7. ASSUME NEW k \in 1..(Len(calls) - 1)
      PROVE  calls'[k] = cs[Old(i, k)] /\ Old(i, k) \in DOMAIN calls
  BY <1>4, <1>5, <1>6 DEF Old
<1> QED
  BY <1>3, <1>4, <1>5, <1>6, <1>7

LEMMA FailCalls ==
  ASSUME calls \in Seq(Call), NEW i \in DOMAIN calls, FailRecord(i)
  PROVE  /\ calls' \in Seq(Call) /\ DOMAIN calls' = 1..(Len(calls) - 1)
         /\ \A k \in DOMAIN calls' : calls'[k] = calls[Old(i, k)]
<1>1. calls' = RemoveAt(calls, i)
  BY DEF FailRecord
<1>2. /\ RemoveAt(calls, i) \in Seq(Call) /\ DOMAIN RemoveAt(calls, i) = 1..(Len(calls) - 1)
      /\ \A k \in 1..(Len(calls) - 1) : RemoveAt(calls, i)[k] = IF k < i THEN calls[k] ELSE calls[k + 1]
  BY RemovedAt
<1> QED
  BY <1>1, <1>2 DEF Old

-----------------------------------------------------------------------------
(* Each action keeps the types.                                             *)

LEMMA SendsLater ==
  ASSUME Sends(calls'), made \in Nat, made' \in Nat, made' >= made
  PROVE  Sends(calls)'
<1>1. \A i \in DOMAIN calls' : calls'[i].tab \in Nat
  BY CallParts DEF Sends
<1> QED
  BY <1>1 DEF Sends

LEMMA WorksSame ==
  ASSUME Works, UNCHANGED <<job, path, made>>
  PROVE  Works'
BY DEF Works, Older

LEMMA MadeNumber ==
  ASSUME Data
  PROVE  made \in Nat
BY Numbers DEF Data

LEMMA ScriptTyped ==
  ASSUME Typed, NEW j \in Jobs, NEW x \in JobState, Become(j, x),
         UNCHANGED <<path, made>>, Older(x)'
  PROVE  Works'
<1>1. made \in Nat /\ made' = made
  BY MadeNumber DEF Typed
<1>2. made' >= made /\ Works
  BY <1>1 DEF Typed
<1> QED
  BY <1>1, <1>2, BecomesTyped

LEMMA FlushNowTyped ==
  ASSUME Typed, NEW j \in Jobs, FlushTimer(j, text, calls, settled)
  PROVE  timer' = FALSE /\ settled' \in BOOLEAN /\ Sends(calls')
<1>1. text \in [Tabs -> Texts] /\ settled \in BOOLEAN
  BY DEF Typed, Data
<1>2. Data /\ Born /\ Sends(calls)
  BY DEF Typed
<1> QED
  BY <1>1, <1>2, FlushTyped

LEMMA TurningParts ==
  ASSUME NEW i \in Nat, NEW t \in Tabs \cup {None}
  PROVE  /\ Turning(i, t, "end") \in JobState /\ Turning(i, t, "gate") \in JobState
         /\ \A then : /\ Turning(i, t, then).pc = "turn" /\ Turning(i, t, then).at = i
                      /\ Turning(i, t, then).tab = t /\ Turning(i, t, then).then = then
<1>1. "end" \in Thens /\ "gate" \in Thens
  BY DEF Thens
<1> QED
  BY <1>1, Waiting DEF Turning

LEMMA PersistTyped ==
  ASSUME Typed, Persist \/ MoveWindow
  PROVE  Typed'
<1>1. Data' /\ Born' /\ Works'
  BY WorksSame DEF Persist, MoveWindow, Typed, Data, Born
<1>2. Sends(calls')
  <2>1. CASE Persist /\ Shown
    <3>1. Current \in Tabs /\ Current <= made
      BY <2>1 DEF Typed, Data, Born, Shown, Current
    <3>2. PICK c : c = Sent(text, Current, {})
      OBVIOUS
    <3>3. c \in Call /\ c.tab = Current
      BY <3>1, <3>2, CallTyped DEF Typed, Data
    <3>4. calls' = Append(calls, c)
      BY <2>1, <3>2 DEF Persist
    <3> QED
      BY <3>1, <3>3, <3>4, OneMore DEF Typed
  <2>2. CASE Persist /\ ~Shown
    BY <2>2 DEF Persist, Typed
  <2>3. CASE MoveWindow
    <3>1. PICK ds : ds = [i \in DOMAIN tabs |-> Sent(text, tabs[i], {})]
      OBVIOUS
    <3>2. \A i \in DOMAIN tabs : tabs[i] \in Tabs /\ tabs[i] <= made
      BY DEF Typed, Data, Born
    <3>3. \A i \in DOMAIN tabs : Sent(text, tabs[i], {}) \in Call /\ Sent(text, tabs[i], {}).tab = tabs[i]
      BY <3>2, CallTyped DEF Typed, Data
    <3>4. Sends(ds)
      <4>1. ds \in Seq(Call)
        BY <3>1, <3>3 DEF Typed, Data
      <4>2. DOMAIN ds = DOMAIN tabs
        BY <3>1
      <4> QED
        BY <3>1, <3>2, <3>3, <4>1, <4>2 DEF Sends
    <3>5. calls' = calls \o ds
      BY <2>3, <3>1 DEF MoveWindow
    <3> QED
      BY <3>4, <3>5, SomeMore DEF Typed
  <2> QED
    BY <2>1, <2>2, <2>3
<1>3. made' = made /\ made \in Nat
  BY MadeNumber DEF Persist, MoveWindow, Typed
<1> QED
  BY <1>1, <1>2, <1>3, SendsLater DEF Typed

LEMMA LandTyped ==
  ASSUME Typed, NEW i \in DOMAIN calls, Land(i) \/ FailRecord(i)
  PROVE  Typed'
<1>0. calls[i] \in Call /\ calls[i].tab \in Tabs /\ calls[i].tab <= made /\ calls[i].rec \in Record
  BY CallParts DEF Typed, Sends
<1>1. Data' /\ Born' /\ Works'
  <2>1. CASE Land(i)
    <3>1. \/ stored' = stored
          \/ stored' = [stored EXCEPT ![calls[i].tab] = calls[i].rec]
      BY <2>1 DEF Land
    <3>2. stored' \in [Tabs -> Record \cup {None}]
      BY <1>0, <3>1 DEF Typed, Data
    <3>3. \A t \in Tabs : stored'[t] # None => t <= made
      BY <1>0, <3>1 DEF Typed, Data, Born
    <3>4. settled' \in BOOLEAN
      BY <2>1 DEF Land, Typed, Data
    <3>5. UNCHANGED <<files, doomed, frame, buffers, timer, dialogs, job, history>> /\ unwritten' \subseteq unwritten
      BY <2>1 DEF Land
    <3> QED
      BY <3>2, <3>3, <3>4, <3>5, WorksSame DEF Typed, Data, Born
  <2>2. CASE FailRecord(i)
    BY <1>0, <2>2, WorksSame DEF FailRecord, Typed, Data, Born
  <2> QED
    BY <2>1, <2>2
<1>2. made' = made /\ made \in Nat
  BY MadeNumber DEF Land, FailRecord, Typed
<1>3. Sends(calls')
  <2>1. \A k \in DOMAIN calls' : calls'[k].tab = calls[Old(i, k)].tab
    BY LandCalls, FailCalls DEF Typed, Sends
  <2>2. calls' \in Seq(Call) /\ DOMAIN calls' = 1..(Len(calls) - 1)
    BY LandCalls, FailCalls DEF Typed, Sends
  <2>3. \A k \in DOMAIN calls' : Old(i, k) \in DOMAIN calls
    <3>1. Len(calls) \in Nat /\ DOMAIN calls = 1..Len(calls)
      BY DEF Typed, Sends
    <3> QED
      BY <2>2, <3>1, Places
  <2> QED
    BY <2>1, <2>2, <2>3 DEF Typed, Sends
<1> QED
  BY <1>1, <1>2, <1>3, SendsLater DEF Typed

LEMMA EditTyped ==
  ASSUME Typed, Type \/ Undo
  PROVE  Typed'
<1>1. PICK c \in Texts : Edited(c) /\ edits' \in 0..MaxEdits
  <2>1. CASE Type
    <3>1. OnDisk + edits + 1 \in Texts /\ edits + 1 \in 0..MaxEdits
      <4>1. edits \in 0..MaxEdits /\ edits < MaxEdits
        BY <2>1 DEF Type, Typed, Data
      <4> QED
        BY <4>1, TabsAssumption DEF OnDisk, Texts
    <3> QED
      BY <2>1, <3>1 DEF Type
  <2>2. CASE Undo
    <3>1. base[Current] \in Texts
      BY <2>2 DEF Undo, Typed, Data, Shown, Current
    <3> QED
      BY <2>2, <3>1 DEF Undo, Typed, Data
  <2> QED
    BY <2>1, <2>2
<1>2. text' \in [Tabs -> Texts] /\ timer'
  BY <1>1 DEF Edited, Typed, Data
<1>3. UNCHANGED <<files, store, frame, path, base, unwritten, settled, dialogs, job, made>> /\ timer' = TRUE
  BY <1>1 DEF Edited
<1> QED
  BY <1>1, <1>2, <1>3, WorksSame DEF Typed, Data, Born, Sends

LEMMA WriteTyped ==
  ASSUME Typed, NEW j \in Jobs, UNCHANGED dialogs,
         NEW then \in {"end", "close"}, Shown, SaveActive(j, then)
  PROVE  Typed'
<1>1. Current \in Tabs /\ Current <= made /\ path[Current] \in Files \cup {None} /\ text[Current] \in Texts
  BY DEF Typed, Data, Born, Shown, Current
<1>2. PICK f \in Files, how \in {"save", "first"} :
        /\ Become(j, Write(Current, f, text[Current], how, then))
        /\ path' = path \/ path' = [path EXCEPT ![Current] = f]
  BY <1>1, Numbers DEF SaveActive, BeginWrite, Offered
<1>3. PICK x : x = Write(Current, f, text[Current], how, then)
  OBVIOUS
<1>4. x \in JobState /\ x.pc = "write" /\ x.tab = Current
  <2>1. how \in Hows /\ then \in Thens
    BY DEF Hows, Thens
  <2> QED
    BY <1>1, <1>3, <2>1, Waiting DEF Write
<1>5. UNCHANGED <<files, store, frame, text, base, saving, history>> /\ path' \in [Tabs -> Files \cup {None}]
  BY <1>1, <1>2 DEF SaveActive, Typed, Data
<1>6. Works'
  <2>1. \A u \in Tabs : path[u] # None => path'[u] # None
    BY <1>1, <1>2, Numbers DEF Typed, Data
  <2>2. job' \in [Jobs -> JobState] /\ \A k \in Jobs : job'[k] = x \/ job'[k] = job[k]
    BY <1>2, <1>3, <1>4 DEF Typed, Works, Become
  <2>3. Older(x)'
    BY <1>1, <1>4, <1>5 DEF Older
  <2>4. ASSUME NEW k \in Jobs, job'[k] = job[k]
        PROVE  Older(job[k])'
    <3>1. PICK b \in JobState : b = job[k]
      BY DEF Typed, Works
    <3>2. Older(b)
      BY <3>1 DEF Typed, Works
    <3>3. Older(b)'
      BY <1>5, <2>1, <3>2, Waits1 DEF Older
    <3> QED
      BY <2>4, <3>1, <3>3
  <2> QED
    BY <2>2, <2>3, <2>4 DEF Works
<1> QED
  BY <1>5, <1>6 DEF Typed, Data, Born, Sends

LEMMA SaveAsTyped ==
  ASSUME Typed, NEW j \in Jobs, NEW then \in {"end", "gate"}, SaveAs(j, then)
  PROVE  Typed'
<1>1. Current \in Tabs /\ Current <= made /\ text[Current] \in Texts
  BY DEF SaveAs, Typed, Data, Born, Shown, Current
<1>2. PICK f \in Files : Become(j, Write(Current, f, text[Current], "as", then))
  BY DEF SaveAs, BeginWrite, Offered
<1>3. PICK x : x = Write(Current, f, text[Current], "as", then)
  OBVIOUS
<1>4. x \in JobState /\ x.pc = "write" /\ x.tab = Current
  <2>1. "as" \in Hows /\ then \in Thens
    BY DEF Hows, Thens
  <2> QED
    BY <1>1, <1>3, <2>1, Waiting DEF Write
<1>5. UNCHANGED <<files, store, frame, buffers, saving, dialogs, history>>
  BY DEF SaveAs
<1>6. Older(x)'
  BY <1>1, <1>4, <1>5 DEF Older
<1>7. Works'
  BY <1>2, <1>3, <1>4, <1>5, <1>6, BecomesTyped, MadeNumber DEF Typed
<1> QED
  BY <1>5, <1>7 DEF Typed, Data, Born, Sends

LEMMA FileTyped ==
  ASSUME Typed, NEW j \in Jobs, WriteFile(j) \/ FailFile(j)
  PROVE  Typed'
<1>0. PICK b \in JobState : b = job[j]
  BY DEF Typed, Works
<1>1. b.pc = "write" /\ b.tab \in Tabs /\ b.to \in Files /\ b.out \in Texts /\ b.how \in Hows /\ b.then \in Thens
  BY <1>0, Waits1 DEF WriteFile, FailFile
<1>2. PICK x \in JobState : Become(j, x) /\ x \in {Idle, Wrote(b.tab, b.to, b.out, b.how, b.then)}
  BY <1>0, <1>1, Waiting DEF WriteFile, FailFile
<1>3. Older(b)
  BY <1>0 DEF Typed, Works
<1>4. UNCHANGED <<store, frame, buffers, saving, asking, history>> /\ gate' \in {gate, None}
  BY DEF WriteFile, FailFile
<1>5. Older(x)'
  BY <1>1, <1>2, <1>3, <1>4 DEF Older, Idle, Wrote
<1>6. disk' \in [Files -> Texts]
  BY <1>0, <1>1 DEF WriteFile, FailFile, Typed, Data
<1>7. Works'
  BY <1>2, <1>4, <1>5, BecomesTyped, MadeNumber DEF Typed
<1> QED
  BY <1>4, <1>6, <1>7 DEF Typed, Data, Born, Sends

LEMMA MarkTyped ==
  ASSUME Typed, NEW j \in Jobs, MarkSaved(j)
  PROVE  Typed'
<1>0. PICK b \in JobState : b = job[j]
  BY DEF Typed, Works
<1>1. b.pc = "wrote" /\ b.tab \in Tabs /\ b.tab <= made /\ b.to \in Files /\ b.then \in Thens
  BY <1>0, Waits1 DEF MarkSaved, Typed, Works, Older
<1>2. /\ path' = path \/ path' = [path EXCEPT ![b.tab] = b.to]
      /\ base' = [base EXCEPT ![b.tab] = text[b.tab]]
      /\ calls' = Append(calls, [tab |-> b.tab, live |-> TRUE, by |-> {j}, rec |-> CleanRecord(path'[b.tab])])
      /\ settled' = FALSE /\ Become(j, Recording(b.then))
      /\ UNCHANGED <<files, stored, doomed, frame, text, unwritten, timer, dialogs, history>>
  BY <1>0 DEF MarkSaved
<1>3. /\ path' \in [Tabs -> Files \cup {None}]
      /\ \A u \in Tabs : path[u] # None => path'[u] # None
      /\ base' \in [Tabs -> Texts]
  BY <1>1, <1>2, Numbers DEF Typed, Data
<1>4. Data' /\ Born'
  BY <1>2, <1>3 DEF Typed, Data, Born
<1>5. Sends(calls)'
  <2>1. PICK p, c : p = path'[b.tab] /\ c = [tab |-> b.tab, live |-> TRUE, by |-> {j}, rec |-> CleanRecord(p)]
    OBVIOUS
  <2>2. c \in Call /\ c.tab = b.tab
    BY <1>1, <1>3, <2>1, CleanTyped
  <2>3. Sends(Append(calls, c))
    BY <1>1, <2>2, OneMore DEF Typed
  <2>4. calls' = Append(calls, c)
    BY <1>2, <2>1
  <2> QED
    BY <1>2, <2>3, <2>4, SendsLater, MadeNumber DEF Typed
<1>6. Works'
  <2>1. PICK x \in JobState : x = Recording(b.then) /\ x.pc = "record"
    BY <1>1, Waiting DEF Recording
  <2>2. job' \in [Jobs -> JobState] /\ \A k \in Jobs : job'[k] = x \/ job'[k] = job[k]
    BY <1>2, <2>1 DEF Typed, Works, Become
  <2>3. Older(x)'
    BY <2>1 DEF Older
  <2>4. ASSUME NEW k \in Jobs, job'[k] = job[k]
        PROVE  Older(job[k])'
    <3>1. PICK c \in JobState : c = job[k]
      BY DEF Typed, Works
    <3>2. Older(c) /\ made' = made
      BY <1>2, <3>1 DEF Typed, Works
    <3>3. Older(c)'
      BY <1>3, <3>2, Waits1 DEF Older
    <3> QED
      BY <2>4, <3>1, <3>3
  <2> QED
    BY <2>2, <2>3, <2>4 DEF Works
<1> QED
  BY <1>4, <1>5, <1>6 DEF Typed

(* Taking the shown tab down changes the timer and the script.                *)
LEMMA TakeDownTyped ==
  ASSUME Typed, NEW j \in Jobs, NEW let \in Tabs \cup {None}, BeginDelete(j, let),
         UNCHANGED <<tabs, active, path, made>>
  PROVE  Works' /\ timer' \in BOOLEAN
<1>1. CASE Shown
  <2>1. Current \in Tabs /\ Current <= made /\ active \in Nat /\ active # 0
    BY <1>1 DEF Typed, Data, Born, Shown, Current
  <2>2. PICK x \in JobState : x = Deleting(Current, active, let)
    BY <2>1, Waiting
  <2>3. x.pc = "delete" /\ x.tab = Current /\ x.at = active
    BY <2>2 DEF Deleting
  <2>4. Become(j, x) /\ timer' = FALSE
    BY <1>1, <2>2 DEF BeginDelete
  <2>5. Older(x)'
    BY <2>1, <2>3 DEF Older
  <2> QED
    BY <2>4, <2>5, ScriptTyped DEF Typed, Data
<1>2. CASE ~Shown
  <2>1. Become(j, Idle) /\ timer' = timer
    BY <1>2 DEF BeginDelete
  <2>2. Older(Idle)'
    BY DEF Older, Idle
  <2> QED
    BY <2>1, <2>2, BecomesTyped, Waiting, MadeNumber DEF Typed, Data
<1> QED
  BY <1>1, <1>2

LEMMA CloseTyped ==
  ASSUME Typed, NEW j \in Jobs, RequestClose(j) \/ ConfirmDiscard(j)
  PROVE  Typed'
<1>1. UNCHANGED <<files, store, frame, buffers, unwritten, settled, gate, history>>
  BY DEF RequestClose, ConfirmDiscard
<1>2. Works' /\ timer' \in BOOLEAN
  <2>1. CASE UNCHANGED <<job, timer>>
    BY <1>1, <2>1, WorksSame DEF Typed, Data
  <2>2. CASE ~UNCHANGED <<job, timer>>
    <3>1. PICK let \in Tabs \cup {None} : BeginDelete(j, let)
      BY <2>2 DEF RequestClose, ConfirmDiscard, Typed, Data
    <3> QED
      BY <1>1, <3>1, TakeDownTyped
  <2> QED
    BY <2>1, <2>2
<1>3. asking' \in Tabs \cup {None}
  <2>1. asking' \in {asking, None} \/ (Shown /\ asking' = Current)
    BY DEF RequestClose, ConfirmDiscard
  <2> QED
    BY <2>1 DEF Typed, Data, Shown, Current
<1> QED
  BY <1>1, <1>2, <1>3 DEF Typed, Data, Born, Sends

LEMMA CancelTyped ==
  ASSUME Typed, CancelClose \/ GateCancel \/ Forget
  PROVE  Typed'
<1>1. CASE CancelClose \/ GateCancel
  BY <1>1, WorksSame DEF CancelClose, GateCancel, Typed, Data, Born, Sends
<1>2. CASE Forget
  <2>1. /\ stored' \in [Tabs -> Record \cup {None}]
        /\ \A t \in Tabs : stored'[t] # None => stored[t] # None
    BY <1>2 DEF Forget, Typed, Data
  <2> QED
    BY <1>2, <2>1, WorksSame DEF Forget, Typed, Data, Born, Sends
<1> QED
  BY <1>1, <1>2

(* Of the scripts of a window that went at most the writes of files are left.   *)
LEMMA LeftTyped ==
  ASSUME Typed, NEW j \in Jobs, job' = [Abandoned EXCEPT ![j] = Idle], made' = made
  PROVE  Works'
<1>1. \A k \in Jobs : job'[k] = Idle \/ (job'[k] = job[k] /\ job[k].pc = "write")
  BY DEF Abandoned
<1>2. job' \in [Jobs -> JobState]
  BY Waiting DEF Abandoned, Typed, Works
<1> QED
  BY <1>1, <1>2, AllIdleTyped DEF Typed

LEMMA DeleteTyped ==
  ASSUME Typed, NEW j \in Jobs, DeleteTab(j)
  PROVE  Typed'
<1>0. PICK b \in JobState : b = job[j]
  BY DEF Typed, Works
<1>1. b.pc = "delete" /\ b.tab \in Tabs /\ b.at \in Nat /\ b.at # 0
  BY <1>0, Waits1 DEF DeleteTab, Typed, Works, Older
<1>2. PICK left : left = Splice(b.at)
  OBVIOUS
<1>3. left \in Seq(Tabs) /\ \A i \in DOMAIN left : left[i] <= made
  <2>1. CASE b.at \in DOMAIN tabs
    <3>0. tabs \in Seq(Tabs) /\ Len(tabs) \in Nat /\ DOMAIN tabs = 1..Len(tabs)
      BY DEF Typed, Data
    <3>1. /\ left \in Seq(Tabs) /\ DOMAIN left = 1..(Len(tabs) - 1)
          /\ \A k \in 1..(Len(tabs) - 1) : left[k] = IF k < b.at THEN tabs[k] ELSE tabs[k + 1]
      BY <1>2, <2>1, <3>0, RemovedAt DEF Splice
    <3>2. \A k \in 1..(Len(tabs) - 1) : k \in DOMAIN tabs /\ k + 1 \in DOMAIN tabs
      BY <3>0
    <3> QED
      BY <3>1, <3>2 DEF Typed, Born
  <2>2. CASE b.at \notin DOMAIN tabs
    BY <1>2, <2>2 DEF Splice, Typed, Data, Born
  <2> QED
    BY <2>1, <2>2
<1>4. /\ tabs' = left /\ up' \in BOOLEAN
      /\ active' = ActiveAfter(b.at, left)
      /\ stored' = [stored EXCEPT ![b.tab] = None]
      /\ job' = [Abandoned EXCEPT ![j] = Idle] \/ job' = [job EXCEPT ![j] = Idle]
      /\ UNCHANGED <<files, calls, doomed, buffers, saving, dialogs, history>>
  BY <1>0, <1>2 DEF DeleteTab
<1>5. active' \in Nat \ {0}
  <2>1. active \in Nat /\ active # 0 /\ Len(left) \in Nat /\ (left # <<>> => Len(left) # 0)
    BY <1>3 DEF Typed, Data
  <2> QED
    BY <1>1, <1>4, <2>1 DEF ActiveAfter
<1>6. stored' \in [Tabs -> Record \cup {None}] /\ \A t \in Tabs : stored'[t] # None => stored[t] # None
  BY <1>4 DEF Typed, Data
<1>7. Works'
  <2>1. Older(Idle)'
    BY DEF Older, Idle
  <2>2. CASE job' = [job EXCEPT ![j] = Idle]
    BY <1>4, <2>1, <2>2, ScriptTyped, Waiting DEF Become
  <2> QED
    BY <1>4, <2>2, LeftTyped
<1> QED
  BY <1>3, <1>4, <1>5, <1>6, <1>7 DEF Typed, Data, Born, Sends

LEMMA IdleTyped ==
  ASSUME Typed, NEW j \in Jobs, FailDelete(j) \/ BeginReread(j) \/ CloseWindow(j)
  PROVE  Typed'
<1>1. UNCHANGED <<files, stored, doomed, frame, buffers, unwritten, dialogs, history>>
  BY DEF FailDelete, BeginReread, CloseWindow
<1>2. PICK x \in JobState : Become(j, x) /\ Older(x)'
  <2>1. Older(Idle)' /\ Older(Flushing)'
    BY DEF Older, Idle, Flushing
  <2>2. CASE BeginReread(j)
    <3>1. Current \in Tabs /\ Current <= made /\ path[Current] # None
      BY <2>2 DEF BeginReread, Typed, Data, Born, Shown, Current
    <3>2. PICK x \in JobState : x = Rereading(Current) /\ x.pc = "reread" /\ x.tab = Current
      BY <3>1, Waiting DEF Rereading
    <3>3. Older(x)'
      BY <1>1, <3>1, <3>2 DEF Older
    <3> QED
      BY <2>2, <3>2, <3>3 DEF BeginReread
  <2> QED
    BY <2>1, <2>2, Waiting DEF FailDelete, CloseWindow
<1>3. Works'
  BY <1>1, <1>2, ScriptTyped
<1>4. timer' \in BOOLEAN /\ settled' \in BOOLEAN /\ Sends(calls')
  <2>1. CASE CloseWindow(j)
    BY <2>1, FlushNowTyped DEF CloseWindow
  <2>2. CASE FailDelete(j) \/ BeginReread(j)
    BY <2>2 DEF FailDelete, BeginReread, Typed, Data
  <2> QED
    BY <2>1, <2>2
<1>5. Sends(calls)'
  BY <1>1, <1>4 DEF Sends
<1> QED
  BY <1>1, <1>3, <1>4, <1>5 DEF Typed, Data, Born

LEMMA SwitchTyped ==
  ASSUME Typed, NEW j \in Jobs, NEW i, SwitchTo(j, i)
  PROVE  Typed'
<1>1. /\ UNCHANGED <<files, stored, doomed, frame, buffers, unwritten, dialogs, history>>
      /\ FlushTimer(j, text, calls, settled) /\ i \in DOMAIN tabs /\ Become(j, Turning(i, None, "end"))
  BY DEF SwitchTo
<1>2. i \in Nat /\ i # 0
  BY <1>1 DEF Typed, Data
<1>3. PICK x \in JobState : x = Turning(i, None, "end") /\ x.pc = "turn" /\ x.at = i /\ x.tab = None
  BY <1>2, TurningParts
<1>4. Works'
  <2>1. Older(x)'
    BY <1>2, <1>3 DEF Older
  <2> QED
    BY <1>1, <1>3, <2>1, ScriptTyped
<1>5. timer' \in BOOLEAN /\ settled' \in BOOLEAN /\ Sends(calls')
  BY <1>1, FlushNowTyped
<1>6. Sends(calls)'
  BY <1>1, <1>5 DEF Sends
<1> QED
  BY <1>1, <1>4, <1>5, <1>6 DEF Typed, Data, Born

LEMMA AddTyped ==
  ASSUME Typed, NEW j \in Jobs, NEW f \in Files \cup {None}, AddTab(j, f)
  PROVE  Typed'
<1>1. PICK t, c : t = made + 1 /\ c = IF f = None THEN Empty ELSE disk[f]
  OBVIOUS
<1>2. t \in Tabs /\ made \in Nat /\ made' = t /\ made' \in 0..MaxTabs
  BY <1>1, TabsAssumption DEF AddTab, Typed, Data, Tabs
<1>3. c \in Texts
  BY <1>1, Numbers DEF Typed, Data
<1>4. /\ tabs' = Append(tabs, t) /\ path' = [path EXCEPT ![t] = f]
      /\ text' = [text EXCEPT ![t] = c] /\ base' = [base EXCEPT ![t] = c]
      /\ Become(j, Turning(Len(tabs'), t, "end"))
      /\ UNCHANGED <<files, stored, doomed, up, active, unwritten, dialogs, edits>>
      /\ UNCHANGED <<timer, settled, calls>> \/ FlushTimer(j, text, calls, settled)
  BY <1>1 DEF AddTab
<1>5. /\ tabs' \in Seq(Tabs) /\ Len(tabs') \in Nat /\ Len(tabs') # 0
      /\ \A i \in DOMAIN tabs' : tabs'[i] <= made'
  <2>1. tabs \in Seq(Tabs)
    BY DEF Typed, Data
  <2>2. /\ tabs' \in Seq(Tabs) /\ Len(tabs') = Len(tabs) + 1
        /\ \A i \in DOMAIN tabs' : i \in DOMAIN tabs \/ i = Len(tabs) + 1
        /\ tabs'[Len(tabs) + 1] = t
        /\ \A i \in DOMAIN tabs : tabs'[i] = tabs[i]
    BY <1>2, <1>4, <2>1, Appending
  <2>3. \A i \in DOMAIN tabs : tabs[i] <= made /\ tabs[i] \in Nat
    <3>1. \A i \in DOMAIN tabs : tabs[i] \in Tabs
      BY <2>1
    <3>2. \A i \in DOMAIN tabs : tabs[i] <= made
      BY DEF Typed, Born
    <3> QED
      BY <3>1, <3>2, Numbers
  <2>4. t \in Nat /\ made <= t
    BY <1>1, <1>2
  <2>5. \A i \in DOMAIN tabs : tabs[i] <= t
    BY <1>2, <2>3, <2>4
  <2>6. Len(tabs) \in Nat
    BY <2>1
  <2>7. \A i \in DOMAIN tabs' : tabs'[i] <= t
    BY <2>2, <2>4, <2>5
  <2> QED
    BY <1>2, <2>2, <2>6, <2>7
<1>6. /\ path' \in [Tabs -> Files \cup {None}] /\ text' \in [Tabs -> Texts] /\ base' \in [Tabs -> Texts]
  BY <1>2, <1>3, <1>4 DEF Typed, Data
<1>7. timer' \in BOOLEAN /\ settled' \in BOOLEAN /\ Sends(calls')
  <2>1. CASE UNCHANGED <<timer, settled, calls>>
    BY <2>1 DEF Typed, Data
  <2>2. CASE FlushTimer(j, text, calls, settled)
    BY <2>2, FlushNowTyped
  <2> QED
    BY <1>4, <2>1, <2>2
<1>8. Data' /\ Born'
  <2>1. \A u \in Tabs : stored'[u] # None => u <= made'
    BY <1>1, <1>2, <1>4, Numbers DEF Typed, Born
  <2> QED
    BY <1>2, <1>4, <1>5, <1>6, <1>7, <2>1 DEF Typed, Data, Born
<1>9. Sends(calls)'
  BY <1>1, <1>2, <1>7, SendsLater, Numbers
<1>10. Works'
  <2>1. PICK x \in JobState : x = Turning(Len(tabs'), t, "end") /\ x.pc = "turn" /\ x.at = Len(tabs') /\ x.tab = t
    BY <1>2, <1>5, TurningParts
  <2>2. Older(x)'
    BY <1>2, <1>5, <2>1, Numbers DEF Older
  <2>3. \A k \in Jobs : job[k].pc = "reread" => path'[job[k].tab] = path[job[k].tab]
    <3>1. ASSUME NEW k \in Jobs, job[k].pc = "reread"
          PROVE  path'[job[k].tab] = path[job[k].tab]
      <4>1. PICK b \in JobState : b = job[k]
        BY DEF Typed, Works
      <4>2. b.tab \in Tabs /\ b.tab \in Nat /\ b.tab <= made
        BY <3>1, <4>1, Waits1, Numbers DEF Typed, Works, Older
      <4>3. b.tab # t
        BY <1>1, <1>2, <4>2
      <4> QED
        BY <1>4, <4>1, <4>2, <4>3 DEF Typed, Data
    <3> QED
      BY <3>1
  <2>4. Become(j, x) /\ made' >= made /\ made' \in Nat
    BY <1>1, <1>2, <1>4, <2>1
  <2> QED
    BY <1>2, <2>2, <2>3, <2>4, BecomesTyped DEF Typed
<1> QED
  BY <1>8, <1>9, <1>10 DEF Typed

LEMMA TurnedTyped ==
  ASSUME Typed, NEW j \in Jobs, Turned(j)
  PROVE  Typed'
<1>0. PICK b \in JobState : b = job[j]
  BY DEF Typed, Works
<1>1. /\ b.pc = "turn" /\ b.at \in Nat /\ b.at # 0 /\ b.tab \in Tabs \cup {None}
      /\ b.tab # None => b.tab <= made
  BY <1>0, Waits1 DEF Turned, Typed, Works, Older
<1>2. /\ active' = b.at
      /\ gate' = gate \/ (b.at \in DOMAIN tabs /\ gate' = tabs[b.at])
      /\ UNCHANGED <<files, stored, doomed, up, tabs, buffers, unwritten, timer, asking, history>>
  BY <1>0 DEF Turned
<1>3. gate' \in Tabs \cup {None}
  BY <1>2 DEF Typed, Data
<1>4. CASE b.tab # None
  <2>1. PICK c : c = Sent(text, b.tab, {j})
    OBVIOUS
  <2>2. c \in Call /\ c.tab = b.tab
    BY <1>1, <1>4, <2>1, CallTyped DEF Typed, Data
  <2>3. calls' = Append(calls, c) /\ settled' = FALSE /\ Become(j, Recording("end"))
    BY <1>0, <1>4, <2>1 DEF Turned
  <2>4. Sends(Append(calls, c))
    BY <1>1, <1>4, <2>2, OneMore DEF Typed
  <2>5. Sends(calls)'
    BY <1>2, <2>3, <2>4 DEF Sends
  <2>6. PICK x \in JobState : x = Recording("end") /\ x.pc = "record"
    BY Waiting DEF Recording, Thens
  <2>7. Older(x)'
    BY <2>6 DEF Older
  <2>8. Works'
    BY <1>2, <2>3, <2>6, <2>7, ScriptTyped
  <2> QED
    BY <1>1, <1>2, <1>3, <2>3, <2>5, <2>8 DEF Typed, Data, Born
<1>5. CASE b.tab = None
  <2>1. Become(j, Idle) /\ UNCHANGED <<calls, settled>>
    BY <1>0, <1>5 DEF Turned
  <2>2. Older(Idle)'
    BY DEF Older, Idle
  <2>3. Works'
    BY <1>2, <2>1, <2>2, ScriptTyped, Waiting
  <2> QED
    BY <1>1, <1>2, <1>3, <2>1, <2>3 DEF Typed, Data, Born, Sends
<1> QED
  BY <1>4, <1>5

LEMMA RereadTyped ==
  ASSUME Typed, NEW j \in Jobs, Reread(j)
  PROVE  Typed'
<1>0. PICK b \in JobState : b = job[j]
  BY DEF Typed, Works
<1>1. b.pc = "reread" /\ b.tab \in Tabs /\ path[b.tab] # None
  BY <1>0, Waits1 DEF Reread, Typed, Works, Older
<1>2. PICK c : c = disk[path[b.tab]]
  OBVIOUS
<1>3. c \in Texts
  BY <1>1, <1>2 DEF Typed, Data
<1>4. /\ text' = [text EXCEPT ![b.tab] = c] /\ base' = [base EXCEPT ![b.tab] = c]
      /\ timer' = TRUE /\ Become(j, Idle)
      /\ UNCHANGED <<files, store, frame, path, unwritten, settled, dialogs, history>>
  BY <1>0, <1>2 DEF Reread
<1>5. text' \in [Tabs -> Texts] /\ base' \in [Tabs -> Texts]
  BY <1>3, <1>4 DEF Typed, Data
<1>6. Works'
  <2>1. Older(Idle)'
    BY DEF Older, Idle
  <2> QED
    BY <1>4, <2>1, ScriptTyped, Waiting
<1> QED
  BY <1>4, <1>5, <1>6 DEF Typed, Data, Born, Sends

(* A set of numbers put in order: each of them once.                          *)
LEMMA Ordered ==
  ASSUME NEW S \in SUBSET Nat, IsFiniteSet(S), NEW o \in InOrder(S)
  PROVE  /\ o \in Seq(S)
         /\ \A i, k \in DOMAIN o : o[i] = o[k] => i = k
         /\ \A x \in S : \E i \in DOMAIN o : o[i] = x
<1>1. PICK n \in Nat : n = Cardinality(S)
  BY FS_CardinalityType
<1>2. o \in [1..n -> S] /\ \A i, k \in 1..n : i < k => o[i] < o[k]
  BY <1>1 DEF InOrder
<1>3. \A i, k \in 1..n : o[i] = o[k] => i = k
  <2>1. \A i \in 1..n : o[i] \in Nat
    BY <1>2
  <2> QED
    BY <1>2, <2>1
<1>4. IsFiniteSet(1..n) /\ Cardinality(1..n) = n
  BY <1>1, FS_Interval
<1>5. o \in Injection(1..n, S)
  BY <1>2, <1>3 DEF Injection, IsInjective
<1>6. o \in Surjection(1..n, S)
  BY <1>1, <1>4, <1>5, FS_Injection
<1>7. \A x \in S : \E i \in 1..n : o[i] = x
  BY <1>6 DEF Surjection
<1> QED
  BY <1>1, <1>2, <1>3, <1>7

LEMMA TabsFinite ==
  /\ IsFiniteSet(Tabs) /\ Tabs \in SUBSET Nat
  /\ \A S \in SUBSET Tabs : IsFiniteSet(S) /\ S \in SUBSET Nat
<1>1. IsFiniteSet(Tabs)
  BY FS_Interval, TabsAssumption DEF Tabs
<1> QED
  BY <1>1, FS_Subset, Numbers

LEMMA PlacesFinite ==
  ASSUME tabs \in Seq(Tabs), NEW S \in SUBSET DOMAIN tabs
  PROVE  IsFiniteSet(S) /\ S \in SUBSET Nat
<1>1. DOMAIN tabs = 1..Len(tabs) /\ Len(tabs) \in Nat
  OBVIOUS
<1>2. IsFiniteSet(DOMAIN tabs)
  BY <1>1, FS_Interval
<1> QED
  BY <1>1, <1>2, FS_Subset

LEMMA FlushAllTyped ==
  ASSUME Typed, NEW j \in Jobs, FlushAll(j)
  PROVE  Typed'
<1>1. PICK bad : bad = {i \in DOMAIN tabs : Dirty(tabs[i])}
  OBVIOUS
<1>2. PICK order \in InOrder(bad) :
        calls' = calls \o [i \in DOMAIN order |-> Sent(text, tabs[order[i]], {j})]
  BY <1>1 DEF FlushAll
<1>3. order \in Seq(bad) /\ bad \subseteq DOMAIN tabs
  BY <1>1, <1>2, PlacesFinite, Ordered DEF Typed, Data
<1>4. PICK ds : ds = [i \in DOMAIN order |-> Sent(text, tabs[order[i]], {j})]
  OBVIOUS
<1>5. ASSUME NEW i \in DOMAIN order
      PROVE  ds[i] \in Call /\ ds[i].tab <= made
  <2>1. PICK t \in Tabs : t = tabs[order[i]] /\ t <= made
    BY <1>3 DEF Typed, Data, Born
  <2>2. Sent(text, t, {j}) \in Call /\ Sent(text, t, {j}).tab = t
    BY CallTyped DEF Typed, Data
  <2> QED
    BY <1>4, <2>1, <2>2
<1>6. Sends(ds)
  <2>1. DOMAIN ds = DOMAIN order
    BY <1>4
  <2>2. DOMAIN order = 1..Len(order) /\ Len(order) \in Nat
    BY <1>3
  <2>3. ds = [i \in 1..Len(order) |-> ds[i]]
    BY <1>4, <2>2
  <2>4. ds \in Seq(Call)
    BY <1>5, <2>2, <2>3
  <2> QED
    BY <1>5, <2>1, <2>4 DEF Sends
<1>7. Sends(calls \o ds)
  BY <1>6, SomeMore DEF Typed
<1>8. /\ UNCHANGED <<files, stored, doomed, frame, buffers, unwritten, timer, dialogs, history>>
      /\ Become(j, Recording("check")) /\ settled' \in BOOLEAN
  BY DEF FlushAll, Typed, Data
<1>9. Sends(calls)'
  BY <1>2, <1>4, <1>7, <1>8 DEF Sends
<1>10. Works'
  <2>1. PICK x : x = Recording("check")
    OBVIOUS
  <2>2. x \in JobState /\ x.pc = "record"
    BY <2>1, Waiting DEF Recording, Thens
  <2>3. Older(x)'
    BY <2>2 DEF Older
  <2> QED
    BY <1>8, <2>1, <2>2, <2>3, ScriptTyped
<1> QED
  BY <1>8, <1>9, <1>10 DEF Typed, Data, Born

LEMMA PromptTyped ==
  ASSUME Typed, NEW j \in Jobs, NEW tx \in [Tabs -> Texts], NEW cs, Sends(cs), NEW done \in BOOLEAN,
         Prompt(j, tx, cs, done), text' = tx,
         UNCHANGED <<files, stored, tabs, active, path, base, unwritten, history>>
  PROVE  Typed'
<1>1. CASE FinishClose(j, tx, cs, done)
  <2>1. Works'
    BY <1>1, LeftTyped DEF FinishClose
  <2>2. Sends(calls)'
    BY <1>1 DEF FinishClose, Sends
  <2>3. doomed' \in SUBSET Tabs
    BY <1>1 DEF FinishClose, Open, ToSet, Typed, Data
  <2> QED
    BY <1>1, <2>1, <2>2, <2>3 DEF FinishClose, Typed, Data, Born
<1>2. ASSUME NEW i \in DOMAIN tabs, i = active, gate' = tabs[i], calls' = cs, settled' = done,
             Become(j, Idle), UNCHANGED <<timer, doomed, up, asking>>
      PROVE  Typed'
  <2>1. Older(Idle)'
    BY DEF Older, Idle
  <2>2. Works'
    BY <1>2, <2>1, ScriptTyped, Waiting
  <2>3. Sends(calls)'
    BY <1>2 DEF Sends
  <2>4. gate' \in Tabs \cup {None}
    BY <1>2 DEF Typed, Data
  <2> QED
    BY <1>2, <2>2, <2>3, <2>4 DEF Typed, Data, Born
<1>3. ASSUME NEW i \in DOMAIN tabs, FlushTimer(j, tx, cs, done), Become(j, Turning(i, None, "gate")),
             UNCHANGED <<gate, doomed, up, asking>>
      PROVE  Typed'
  <2>1. i \in Nat /\ i # 0
    BY DEF Typed, Data
  <2>2. PICK x : x = Turning(i, None, "gate")
    OBVIOUS
  <2>3. x \in JobState /\ x.pc = "turn" /\ x.at = i /\ x.tab = None
    BY <2>1, <2>2, TurningParts
  <2>4. Older(x)'
    BY <2>1, <2>3 DEF Older
  <2>5. Works'
    BY <1>3, <2>2, <2>3, <2>4, ScriptTyped
  <2>6. Data /\ Born
    BY DEF Typed
  <2>7. timer' = FALSE /\ settled' \in BOOLEAN /\ Sends(calls')
    BY <1>3, <2>6, FlushTyped
  <2>8. Sends(calls)'
    BY <2>7 DEF Sends
  <2> QED
    BY <1>3, <2>5, <2>7, <2>8 DEF Typed, Data, Born
<1> QED
  BY <1>1, <1>2, <1>3 DEF Prompt

LEMMA RecordedTyped ==
  ASSUME Typed, NEW j \in Jobs, Recorded(j)
  PROVE  Typed'
<1>1. UNCHANGED <<files, stored, tabs, active, buffers, unwritten, history>>
  BY DEF Recorded
<1>2. CASE job[j].then \in {"end", "close"}
  <2>1. UNCHANGED <<calls, doomed, up, gate, settled>> /\ asking' \in {asking, None}
    BY <1>2 DEF Recorded
  <2>2. Works' /\ timer' \in BOOLEAN
    <3>1. CASE Become(j, Idle) /\ timer' = timer
      <4>1. Older(Idle)'
        BY DEF Older, Idle
      <4>2. Works'
        BY <1>1, <3>1, <4>1, ScriptTyped, Waiting
      <4> QED
        BY <3>1, <4>2 DEF Typed, Data
    <3>2. CASE BeginDelete(j, None)
      BY <1>1, <3>2, TakeDownTyped
    <3> QED
      BY <1>2, <3>1, <3>2 DEF Recorded
  <2> QED
    BY <1>1, <2>1, <2>2 DEF Typed, Data, Born, Sends
<1>3. CASE job[j].then \in {"gate", "check"}
  <2>1. Prompt(j, text, calls, settled)
    BY <1>3 DEF Recorded
  <2>2. text \in [Tabs -> Texts] /\ settled \in BOOLEAN /\ Sends(calls)
    BY DEF Typed, Data
  <2> QED
    BY <1>1, <2>1, <2>2, PromptTyped
<1> QED
  BY <1>2, <1>3 DEF Recorded

LEMMA DiscardTyped ==
  ASSUME Typed, NEW j \in Jobs, GateDiscard(j)
  PROVE  Typed'
<1>1. PICK t : t = Current
  OBVIOUS
<1>2. t \in Tabs /\ t <= made /\ base[t] \in Texts /\ path[t] \in Files \cup {None}
  BY <1>1 DEF GateDiscard, Typed, Data, Born, Shown, Current
<1>3. PICK tx, c : /\ tx = [text EXCEPT ![t] = base[t]]
                   /\ c = [tab |-> t, rec |-> CleanRecord(path[t]), live |-> TRUE, by |-> {}]
  OBVIOUS
<1>4. tx \in [Tabs -> Texts]
  BY <1>2, <1>3 DEF Typed, Data
<1>5. c \in Call /\ c.tab = t
  <2>1. CleanRecord(path[t]) \in Record
    BY <1>2, CleanTyped
  <2> QED
    BY <1>2, <1>3, <2>1 DEF Call
<1>6. Sends(Append(calls, c))
  BY <1>2, <1>5, OneMore DEF Typed
<1>7. /\ text' = tx /\ Prompt(j, tx, Append(calls, c), FALSE)
      /\ UNCHANGED <<files, stored, tabs, active, path, base, unwritten, history>>
  BY <1>1, <1>3 DEF GateDiscard
<1> QED
  BY <1>4, <1>6, <1>7, PromptTyped

LEMMA RestartTyped ==
  ASSUME Typed, Restart
  PROVE  Typed'
<1>1. IsFiniteSet(Kept) /\ Kept \in SUBSET Nat /\ Kept \subseteq Tabs
  BY TabsFinite DEF Kept
<1>2. tabs' \in Seq(Kept)
  BY <1>1, Ordered DEF Restart
<1>3. tabs' \in Seq(Tabs) /\ \A i \in DOMAIN tabs' : tabs'[i] \in Kept
  <2>1. PICK K, s : K = Kept /\ s = tabs' /\ s \in Seq(K)
    BY <1>2
  <2>2. \A i \in DOMAIN s : s[i] \in K
    BY <2>1
  <2>3. K \subseteq Tabs
    BY <1>1, <2>1
  <2>4. s \in Seq(Tabs)
    <3>1. PICK n \in Nat : n = Len(s) /\ s \in [1..n -> K]
      BY <2>1
    <3>2. s \in [1..n -> Tabs]
      BY <2>3, <3>1
    <3> QED
      BY <3>1, <3>2
  <2> QED
    BY <2>1, <2>2, <2>4
<1>4. \A t \in Kept : /\ stored[t] \in Record /\ stored[t].path \in Files \cup {None}
                      /\ stored[t].text \in Texts /\ t <= made
  <2>1. \A t \in Kept : stored[t] \in Record /\ t <= made
    BY DEF Kept, Typed, Data, Born
  <2> QED
    BY <2>1 DEF Record
<1>5. \A t \in Kept : OnFile(stored[t]) \in Texts /\ Restored(stored[t]) \in Texts
  <2>1. \A t \in Kept : OnFile(stored[t]) \in Texts
    BY <1>4, Numbers DEF OnFile, Typed, Data
  <2> QED
    BY <1>4, <2>1 DEF Restored
<1>6. path' \in [Tabs -> Files \cup {None}]
  BY <1>4 DEF Restart
<1>7. base' \in [Tabs -> Texts]
  BY <1>5, Numbers DEF Restart
<1>8. text' \in [Tabs -> Texts]
  BY <1>5, Numbers DEF Restart
<1>9. active' \in Nat \ {0}
  BY <1>3 DEF Restart
<1>10. /\ calls' = <<>> /\ doomed' = {} /\ up' = TRUE /\ unwritten' = {} /\ timer' = FALSE /\ settled' = TRUE
       /\ asking' = None /\ gate' = None /\ UNCHANGED <<files, stored, history>>
       /\ job' = [j \in Jobs |-> Idle]
  BY DEF Restart
<1>11. Data'
  BY <1>3, <1>6, <1>7, <1>8, <1>9, <1>10 DEF Typed, Data
<1>12. Born'
  BY <1>3, <1>4, <1>10 DEF Typed, Born
<1>13. Works' /\ Sends(calls)'
  BY <1>10, Waiting DEF Works, Older, Idle, Sends
<1> QED
  BY <1>11, <1>12, <1>13 DEF Typed

LEMMA InitTyped == Init => Typed
<1> SUFFICES ASSUME Init PROVE Typed
  OBVIOUS
<1>1. Data
  <2>1. 0 \in 0..MaxEdits /\ 0 \in 0..MaxTabs /\ <<>> \in Seq(Tabs)
    BY TabsAssumption
  <2>2. stored \in [Tabs -> Record \cup {None}] /\ path \in [Tabs -> Files \cup {None}]
    BY DEF Init
  <2>3. disk \in [Files -> Texts] /\ text \in [Tabs -> Texts] /\ base \in [Tabs -> Texts]
    BY Numbers DEF Init
  <2>4. doomed \in SUBSET Tabs /\ unwritten \in SUBSET Tabs /\ tabs \in Seq(Tabs)
    BY <2>1 DEF Init
  <2>5. active \in Nat \ {0}
    BY DEF Init
  <2>7. up \in BOOLEAN /\ timer \in BOOLEAN /\ settled \in BOOLEAN
    BY Zenon DEF Init
  <2>6. asking \in Tabs \cup {None} /\ gate \in Tabs \cup {None} /\ edits \in 0..MaxEdits /\ made \in 0..MaxTabs
    BY <2>1 DEF Init
  <2> QED
    BY <2>2, <2>3, <2>4, <2>5, <2>6, <2>7 DEF Data
<1>2. Born /\ Sends(calls) /\ Works
  BY Waiting DEF Init, Born, Sends, Works, Older, Idle
<1> QED
  BY <1>1, <1>2 DEF Typed

LEMMA NextTyped ==
  ASSUME Typed, [Next]_vars
  PROVE  Typed'
<1>1. CASE UserActs
  <2>1. CASE Type \/ Undo \/ CancelClose \/ GateCancel
    BY <2>1, EditTyped, CancelTyped
  <2>2. ASSUME NEW j \in Jobs, Save(j) \/ ConfirmSave(j)
        PROVE  Typed'
    BY <2>2, WriteTyped DEF Save, ConfirmSave
  <2>3. ASSUME NEW j \in Jobs, SaveAs(j, "end") \/ GateSave(j)
        PROVE  Typed'
    BY <2>3, SaveAsTyped DEF GateSave
  <2>4. ASSUME NEW j \in Jobs, RequestClose(j) \/ ConfirmDiscard(j) \/ BeginReread(j)
                               \/ CloseWindow(j) \/ GateDiscard(j)
        PROVE  Typed'
    BY <2>4, CloseTyped, IdleTyped, DiscardTyped
  <2>5. ASSUME NEW j \in Jobs, NEW i, SwitchTo(j, i)
        PROVE  Typed'
    BY <2>5, SwitchTyped
  <2>6. ASSUME NEW j \in Jobs, NEW f \in Files, NewTab(j) \/ OpenFile(j, f)
        PROVE  Typed'
    BY <2>5, <2>6, AddTyped DEF NewTab, OpenFile
  <2>7. ASSUME NEW j \in Jobs, NewTab(j)
        PROVE  Typed'
    BY <2>7, AddTyped DEF NewTab
  <2> QED
    BY <1>1, <2>1, <2>2, <2>3, <2>4, <2>5, <2>6, <2>7 DEF UserActs
<1>2. CASE ScriptsGoOn
  BY <1>2, PersistTyped, MarkTyped, TurnedTyped, RereadTyped, FlushAllTyped, RecordedTyped DEF ScriptsGoOn
<1>3. CASE CoreActs
  BY <1>3, CancelTyped, LandTyped, FileTyped, DeleteTyped, IdleTyped DEF CoreActs
<1>4. CASE Restart
  BY <1>4, RestartTyped
<1>5. CASE UNCHANGED vars
  BY <1>5, WorksSame DEF vars, Typed, Data, Born, Sends
<1> QED
  BY <1>1, <1>2, <1>3, <1>4, <1>5 DEF Next

(* Every variable keeps its type, whatever fails and however careless the user  *)
(* is: no script names a tab, a file or a place that is none.                 *)
THEOREM TypeCorrect == Spec => []TypeOK
<1>1. Typed => TypeOK
  BY DEF Typed, Data, Sends, Works, TypeOK
<1> QED
  BY <1>1, InitTyped, NextTyped, PTL DEF Spec
-----------------------------------------------------------------------------
(* What is written where.  In what follows a set of records stands for what is  *)
(* asked of one: R of the records that may come last, W of the one that counts. *)

(* What holds with no failures but those of a first write, of records without   *)
(* another one on its way and of deletions that are not needed, and while no    *)
(* deletion overtakes a write.                                              *)
Reliable ==
  /\ OneAtATime /\ ~Overtaking
  /\ "first" \notin Failing /\ "records" \notin Failing /\ "deletes" \notin Failing

Under(t) == IF path[t] = None THEN Empty ELSE disk[path[t]]

(* Records with which a restart would show the tab as it is, that name its     *)
(* file, that do so and leave its text to the file, that hold its changes.      *)
Telling(t) == {r \in Record : r.path = path[t] /\ Restored(r) = text[t]}
Placed(t) == {r \in Record : r.path = path[t]} \cup {None}
Renaming(t) == {r \in Record : r.path = path[t] /\ ~r.dirty}
Keeping(t) == {r \in Record : r.dirty /\ r.text = text[t]}

(* The record that counts is on its way, awaited by the scripts K.             *)
Pending(t, K, W, R) ==
  \E i \in DOMAIN calls :
    /\ calls[i].tab = t /\ calls[i].live /\ calls[i].rec \in W /\ K \subseteq calls[i].by
    /\ \A k \in DOMAIN calls : k > i /\ calls[k].tab = t => calls[k].live /\ calls[k].rec \in R
(* It is there.                                                            *)
Landed(t, R) ==
  /\ stored[t] \in R
  /\ \A i \in DOMAIN calls : calls[i].tab = t /\ calls[i].live => calls[i].rec \in R
(* It is known to have failed.                                               *)
Failed(t, R) ==
  /\ t \in unwritten
  /\ \A i \in DOMAIN calls : calls[i].tab = t => calls[i].live /\ calls[i].rec \in R

LEMMA LandPlaces ==
  ASSUME Typed, NEW i \in DOMAIN calls, Land(i) \/ FailRecord(i)
  PROVE  /\ \A k \in DOMAIN calls' :
              /\ Old(i, k) \in DOMAIN calls /\ Old(i, k) # i
              /\ calls'[k].tab = calls[Old(i, k)].tab /\ calls'[k].rec = calls[Old(i, k)].rec
              /\ calls'[k].by = calls[Old(i, k)].by
         /\ \A k \in DOMAIN calls : k # i => New(i, k) \in DOMAIN calls' /\ Old(i, New(i, k)) = k
         /\ \A k \in DOMAIN calls, l \in DOMAIN calls' : k # i => (New(i, k) < l <=> k < Old(i, l))
<1>1. calls \in Seq(Call) /\ Len(calls) \in Nat /\ DOMAIN calls = 1..Len(calls)
  BY DEF Typed, Sends
<1>2. DOMAIN calls' = 1..(Len(calls) - 1)
  BY <1>1, LandCalls, FailCalls
<1>3. \A k \in DOMAIN calls' : /\ calls'[k].tab = calls[Old(i, k)].tab /\ calls'[k].rec = calls[Old(i, k)].rec
                               /\ calls'[k].by = calls[Old(i, k)].by
  BY <1>1, LandCalls, FailCalls
<1>4. \A k \in DOMAIN calls' : Old(i, k) \in DOMAIN calls /\ Old(i, k) # i
  BY <1>1, <1>2, Places DEF Old
<1>5. \A k \in DOMAIN calls : k # i => New(i, k) \in DOMAIN calls' /\ Old(i, New(i, k)) = k
  BY <1>1, <1>2, Places DEF Old, New
<1>6. \A k \in DOMAIN calls, l \in DOMAIN calls' : k # i => (New(i, k) < l <=> k < Old(i, l))
  BY <1>1, <1>2, Places DEF Old, New
<1> QED
  BY <1>3, <1>4, <1>5, <1>6

LEMMA LandKeeps ==
  ASSUME Typed, NEW i \in DOMAIN calls, Land(i), NEW t \in Tabs,
         NEW K, NEW W, NEW R, W \subseteq R
  PROVE  /\ Pending(t, K, W, R) => Pending(t, K, W, R)' \/ Landed(t, R)'
         /\ Landed(t, R) => Landed(t, R)'
         /\ Failed(t, R) => Failed(t, R)' \/ Landed(t, R)'
<1>0. calls \in Seq(Call) /\ stored \in [Tabs -> Record \cup {None}]
  BY DEF Typed, Sends, Data
<1>1. \A k \in DOMAIN calls' :
        calls'[k].live <=> /\ calls[Old(i, k)].live
                           /\ ~(Old(i, k) < i /\ calls[Old(i, k)].tab = calls[i].tab)
  BY <1>0, LandCalls
<1>2. calls[i].tab \in Tabs /\ calls[i].rec \in Record
  BY <1>0, CallParts
<1>3. /\ stored'[t] = IF calls[i].live /\ calls[i].tab = t THEN calls[i].rec ELSE stored[t]
      /\ unwritten' = unwritten \ {calls[i].tab}
  BY <1>0, <1>2 DEF Land
<1>4. ASSUME Landed(t, R)
      PROVE  Landed(t, R)'
  <2>1. stored'[t] \in R
    BY <1>3, <1>4 DEF Landed
  <2>2. ASSUME NEW k \in DOMAIN calls', calls'[k].tab = t, calls'[k].live
        PROVE  calls'[k].rec \in R
    BY <1>1, <1>4, <2>2, LandPlaces DEF Landed
  <2> QED
    BY <2>1, <2>2 DEF Landed
<1>5. ASSUME Failed(t, R)
      PROVE  Failed(t, R)' \/ Landed(t, R)'
  <2>1. CASE calls[i].tab = t
    <3>1. stored'[t] \in R
      BY <1>3, <1>5, <2>1 DEF Failed
    <3>2. \A k \in DOMAIN calls' : calls'[k].tab = t => calls'[k].rec \in R
      BY <1>5, LandPlaces DEF Failed
    <3> QED
      BY <3>1, <3>2 DEF Landed
  <2>2. CASE calls[i].tab # t
    <3>1. t \in unwritten'
      BY <1>3, <1>5, <2>2 DEF Failed
    <3>2. ASSUME NEW k \in DOMAIN calls', calls'[k].tab = t
          PROVE  calls'[k].live /\ calls'[k].rec \in R
      BY <1>1, <1>5, <2>2, <3>2, LandPlaces DEF Failed
    <3> QED
      BY <3>1, <3>2 DEF Failed
  <2> QED
    BY <2>1, <2>2
<1>6. ASSUME Pending(t, K, W, R)
      PROVE  Pending(t, K, W, R)' \/ Landed(t, R)'
  <2>1. PICK n \in DOMAIN calls :
          /\ calls[n].tab = t /\ calls[n].live /\ calls[n].rec \in W /\ K \subseteq calls[n].by
          /\ \A k \in DOMAIN calls : k > n /\ calls[k].tab = t => calls[k].live /\ calls[k].rec \in R
    BY <1>6 DEF Pending
  <2>0. n \in Nat /\ i \in Nat
    BY <1>0
  <2>2. CASE calls[i].tab = t /\ i >= n
    <3>1. calls[i].live /\ calls[i].rec \in R
      BY <2>0, <2>1, <2>2
    <3>2. stored'[t] \in R
      BY <1>3, <2>2, <3>1
    <3>3. ASSUME NEW k \in DOMAIN calls', calls'[k].tab = t, calls'[k].live
          PROVE  calls'[k].rec \in R
      <4>1. PICK l \in DOMAIN calls : /\ l = Old(i, k) /\ l # i /\ calls[l].tab = t
                                      /\ calls'[k].rec = calls[l].rec /\ ~(l < i) /\ l \in Nat
        BY <1>0, <1>1, <2>2, <3>3, LandPlaces
      <4>2. l > n
        BY <2>0, <2>2, <4>1
      <4> QED
        BY <2>1, <4>1, <4>2
    <3> QED
      BY <3>2, <3>3 DEF Landed
  <2>3. CASE ~(calls[i].tab = t /\ i >= n)
    <3>1. n # i /\ ~(n < i /\ calls[i].tab = t)
      BY <2>0, <2>1, <2>3
    <3>2. PICK m \in DOMAIN calls' : m = New(i, n) /\ Old(i, m) = n
      BY <3>1, LandPlaces
    <3>3. /\ calls'[m].tab = t /\ calls'[m].live /\ calls'[m].rec \in W /\ K \subseteq calls'[m].by
      BY <1>1, <2>1, <3>1, <3>2, LandPlaces
    <3>4. ASSUME NEW k \in DOMAIN calls', k > m, calls'[k].tab = t
          PROVE  calls'[k].live /\ calls'[k].rec \in R
      <4>1. PICK l \in DOMAIN calls : l = Old(i, k) /\ l # i /\ calls[l].tab = t /\ calls'[k].rec = calls[l].rec /\ l \in Nat
        BY <1>0, <3>4, LandPlaces
      <4>0. k \in Nat /\ m \in Nat
        BY <1>0, LandCalls
      <4>2. n < l
        <5>1. m < k
          BY <3>4, <4>0
        <5> QED
          BY <3>1, <3>2, <4>1, <5>1, LandPlaces
      <4>3. calls[l].live /\ calls[l].rec \in R
        BY <2>0, <2>1, <4>1, <4>2
      <4>4. ~(l < i /\ calls[l].tab = calls[i].tab)
        BY <2>0, <2>3, <4>1, <4>2
      <4> QED
        BY <1>1, <4>1, <4>3, <4>4
    <3> QED
      BY <3>3, <3>4 DEF Pending
  <2> QED
    BY <2>2, <2>3
<1> QED
  BY <1>4, <1>5, <1>6

LEMMA FailKeeps ==
  ASSUME Typed, Reliable, NEW i \in DOMAIN calls, FailRecord(i), NEW t \in Tabs,
         NEW K, NEW W, NEW R, W \subseteq R
  PROVE  /\ Pending(t, K, W, R) => Pending(t, K, W, R)' \/ (Failed(t, R)' /\ \E r \in W : r.dirty)
         /\ Landed(t, R) => Landed(t, R)'
         /\ Failed(t, R) => Failed(t, R)'
<1>0. calls \in Seq(Call)
  BY DEF Typed, Sends
<1>1. \A k \in DOMAIN calls' : calls'[k] = calls[Old(i, k)]
  BY <1>0, FailCalls
<1>2. /\ stored' = stored /\ unwritten' = unwritten \cup {calls[i].tab}
      /\ calls[i].rec.dirty
      /\ \A k \in DOMAIN calls : k # i => calls[k].tab # calls[i].tab
  BY DEF FailRecord, MayFail, Reliable
<1>3. ASSUME Landed(t, R)
      PROVE  Landed(t, R)'
  BY <1>1, <1>2, <1>3, LandPlaces DEF Landed
<1>4. ASSUME Failed(t, R)
      PROVE  Failed(t, R)'
  BY <1>1, <1>2, <1>4, LandPlaces DEF Failed
<1>5. ASSUME Pending(t, K, W, R)
      PROVE  Pending(t, K, W, R)' \/ (Failed(t, R)' /\ \E r \in W : r.dirty)
  <2>1. PICK n \in DOMAIN calls :
          /\ calls[n].tab = t /\ calls[n].live /\ calls[n].rec \in W /\ K \subseteq calls[n].by
          /\ \A k \in DOMAIN calls : k > n /\ calls[k].tab = t => calls[k].live /\ calls[k].rec \in R
    BY <1>5 DEF Pending
  <2>2. CASE n = i
    <3>1. \A k \in DOMAIN calls' : calls'[k].tab # t
      BY <1>1, <1>2, <2>1, <2>2, LandPlaces
    <3> QED
      BY <1>2, <2>1, <2>2, <3>1 DEF Failed
  <2>3. CASE n # i
    <3>2. PICK m \in DOMAIN calls' : m = New(i, n) /\ Old(i, m) = n
      BY <2>3, LandPlaces
    <3>3. calls'[m] = calls[n]
      BY <1>1, <3>2
    <3>4. ASSUME NEW k \in DOMAIN calls', k > m, calls'[k].tab = t
          PROVE  calls'[k].live /\ calls'[k].rec \in R
      <4>1. PICK l \in DOMAIN calls : l = Old(i, k) /\ calls[l].tab = t /\ calls'[k] = calls[l] /\ l \in Nat
        BY <1>0, <1>1, <3>4, LandPlaces
      <4>0. k \in Nat /\ m \in Nat /\ n \in Nat
        BY <1>0, FailCalls
      <4>2. n < l
        <5>1. m < k
          BY <3>4, <4>0
        <5> QED
          BY <2>3, <3>2, <4>1, <5>1, LandPlaces
      <4> QED
        BY <2>1, <4>0, <4>1, <4>2
    <3> QED
      BY <2>1, <3>3, <3>4 DEF Pending
  <2> QED
    BY <2>2, <2>3
<1> QED
  BY <1>3, <1>4, <1>5

(* More calls were sent, and some that were there are awaited by more.          *)
Grown ==
  /\ calls' \in Seq(Call) /\ DOMAIN calls \subseteq DOMAIN calls'
  /\ \A i \in DOMAIN calls : /\ calls'[i].tab = calls[i].tab /\ calls'[i].rec = calls[i].rec
                             /\ calls'[i].live = calls[i].live
                             /\ calls[i].by \subseteq calls'[i].by
  /\ \A i \in DOMAIN calls' : i \notin DOMAIN calls => calls'[i].live
Since(t, R) == \A i \in DOMAIN calls' : i \notin DOMAIN calls /\ calls'[i].tab = t => calls'[i].rec \in R

LEMMA GrownKeeps ==
  ASSUME Typed, Grown, NEW t \in Tabs, UNCHANGED <<stored, unwritten>>,
         NEW K, NEW W, NEW R, Since(t, R)
  PROVE  /\ Pending(t, K, W, R) => Pending(t, K, W, R)'
         /\ Landed(t, R) => Landed(t, R)'
         /\ Failed(t, R) => Failed(t, R)'
<1>1. ASSUME Landed(t, R)
      PROVE  Landed(t, R)'
  BY <1>1 DEF Landed, Grown, Since
<1>2. ASSUME Failed(t, R)
      PROVE  Failed(t, R)'
  BY <1>2 DEF Failed, Grown, Since
<1>3. ASSUME Pending(t, K, W, R)
      PROVE  Pending(t, K, W, R)'
  <2>1. PICK n \in DOMAIN calls :
          /\ calls[n].tab = t /\ calls[n].live /\ calls[n].rec \in W /\ K \subseteq calls[n].by
          /\ \A k \in DOMAIN calls : k > n /\ calls[k].tab = t => calls[k].live /\ calls[k].rec \in R
    BY <1>3 DEF Pending
  <2>2. /\ n \in DOMAIN calls' /\ calls'[n].tab = t /\ calls'[n].live /\ calls'[n].rec \in W
        /\ K \subseteq calls'[n].by
    BY <2>1 DEF Grown
  <2>3. \A k \in DOMAIN calls' : k > n /\ calls'[k].tab = t => calls'[k].live /\ calls'[k].rec \in R
    BY <2>1 DEF Grown, Since
  <2> QED
    BY <2>2, <2>3 DEF Pending
<1> QED
  BY <1>1, <1>2, <1>3

LEMMA GrownPending ==
  ASSUME Typed, Grown, NEW t \in Tabs, NEW K, NEW W, NEW R, Since(t, R),
         NEW i \in DOMAIN calls', i \notin DOMAIN calls,
         calls'[i].tab = t, calls'[i].rec \in W, K \subseteq calls'[i].by
  PROVE  Pending(t, K, W, R)'
<1>1. calls'[i].live
  BY DEF Grown
<1>2. ASSUME NEW k \in DOMAIN calls', k > i
      PROVE  k \notin DOMAIN calls
  BY <1>2 DEF Grown, Typed, Sends
<1>3. \A k \in DOMAIN calls' : k > i /\ calls'[k].tab = t => calls'[k].live /\ calls'[k].rec \in R
  BY <1>2 DEF Grown, Since
<1> QED
  BY <1>1, <1>3 DEF Pending

LEMMA Wider ==
  ASSUME NEW t, NEW K, NEW W, NEW R, NEW V, NEW S, W \subseteq V, R \subseteq S
  PROVE  /\ Pending(t, K, W, R) => Pending(t, K, V, S)
         /\ Landed(t, R) => Landed(t, S)
         /\ Failed(t, R) => Failed(t, S)
BY DEF Pending, Landed, Failed


-----------------------------------------------------------------------------
(* The invariant behind CleanIsOnDisk, RestartShowsTabs and ClosedKeepsEdits.   *)

Writing(b) == b.pc \in {"write", "wrote"}
FirstSave(t) == \E j \in Jobs : Writing(job[j]) /\ job[j].how = "first" /\ job[j].tab = t
Written(t) == \E j \in Jobs : job[j].pc = "wrote" /\ job[j].tab = t /\ job[j].to = path[t]
Passing(t) == \E j \in Jobs : job[j].pc \in {"turn", "delete"} /\ job[j].tab = t
Timed(t) == timer /\ Shown /\ t = Current

(* The window closes once this script is through.                             *)
Ending(b) == \/ b.pc = "record" /\ b.then = "check"
             \/ b.pc \in {"write", "wrote", "record", "turn"} /\ b.then = "gate"
Closing == gate # None \/ \E j \in Jobs : Ending(job[j])

(* A file belongs to one tab, in the window, in the store and on its way there. *)
Named(t, f) ==
  \/ t \in Open /\ path[t] = f
  \/ stored[t] # None /\ stored[t].path = f
  \/ \E i \in DOMAIN calls : calls[i].tab = t /\ calls[i].live /\ calls[i].rec.path = f
Distinct == \A t, u \in Tabs, f \in Files : Named(t, f) /\ Named(u, f) => t = u
OneEach == \A i, k \in DOMAIN tabs : tabs[i] = tabs[k] => i = k

(* The record names the file of the tab, shows the tab as it is, and does so    *)
(* before any script goes on.                                               *)
Lying(t) == Landed(t, Placed(t)) \/ Pending(t, Jobs, Renaming(t), Placed(t))
Heard(t) ==
  Landed(t, Telling(t)) \/ Pending(t, {}, Telling(t), Telling(t)) \/ Failed(t, Telling(t))
Safe(t) ==
  Landed(t, Telling(t)) \/ Pending(t, Jobs, Telling(t), Telling(t)) \/ Failed(t, Telling(t))

(* Of each tab, what a script that waits still has to do included.              *)
Grounded(t) == FirstSave(t) \/ Written(t) \/ Under(t) = base[t]
InPlace(t) == FirstSave(t) \/ Lying(t)
Told(t) == FirstSave(t) \/ Timed(t) \/ Passing(t) \/ Heard(t)
Secure(t) == Closing /\ Dirty(t) => FirstSave(t) \/ Safe(t)

(* Of the script.                                                           *)
Busy(b) ==
  /\ b.pc \in {"idle", "write", "wrote", "delete", "reread"} => \A j \in Jobs : ~Waits(j)
  /\ Writing(b) => /\ b.tab \in Open /\ b.out = text[b.tab] /\ b.to \in Files
                   /\ b.how \in {"save", "first"} => b.to = path[b.tab]
                   /\ \A u \in Tabs \ {b.tab} : ~Named(u, b.to)
                   /\ b.then # "check"
  /\ b.pc = "wrote" => disk[b.to] = b.out
  /\ b.pc = "delete" => ~timer /\ b.at \in DOMAIN tabs /\ b.tab = tabs[b.at]
  /\ b.pc = "flush" => ~timer
  /\ b.pc = "turn" => /\ ~timer \/ b.at = active
                      /\ b.tab # None => b.at \in DOMAIN tabs /\ b.tab = tabs[b.at] /\ b.then = "end"
  /\ b.pc = "reread" => Shown /\ b.tab = Current /\ path[b.tab] # None

WhileUp ==
  /\ doomed = {} /\ Kept \subseteq Open /\ \A i \in DOMAIN calls : calls[i].tab \in Open
  /\ \A t \in Open : Grounded(t) /\ InPlace(t) /\ Told(t) /\ Secure(t)
  /\ \A j \in Jobs : Busy(job[j])
  /\ Closing /\ timer /\ Shown => ~Dirty(Current)
WhileDown ==
  /\ \A j \in Jobs : job[j] = Idle
  /\ \A t \in Open : Dirty(t) => t \notin doomed /\ Landed(t, Keeping(t))
Sound == Distinct /\ OneEach /\ (up => WhileUp) /\ (~up => WhileDown)

LEMMA OpenTabs ==
  ASSUME Typed
  PROVE  /\ Open \subseteq Tabs /\ Kept \subseteq Tabs
         /\ \A i \in DOMAIN tabs : tabs[i] \in Open
         /\ \A t \in Open : \E i \in DOMAIN tabs : tabs[i] = t
         /\ Shown => Current \in Open
BY DEF Typed, Data, Open, ToSet, Kept, Shown, Current

(* The sets in the parts by a name, now and after the step.                    *)
LEMMA PartsNow ==
  ASSUME NEW t, NEW P, NEW L, NEW N, P = Placed(t), L = Telling(t), N = Renaming(t)
  PROVE  /\ Lying(t) <=> Landed(t, P) \/ Pending(t, Jobs, N, P)
         /\ Heard(t) <=> Landed(t, L) \/ Pending(t, {}, L, L) \/ Failed(t, L)
         /\ Safe(t) <=> Landed(t, L) \/ Pending(t, Jobs, L, L) \/ Failed(t, L)
         /\ N \subseteq P /\ L \subseteq P
         /\ \A r \in N : ~r.dirty
<1>1. N \subseteq P /\ L \subseteq P /\ \A r \in N : ~r.dirty
  BY DEF Placed, Telling, Renaming
<1> QED
  BY <1>1 DEF Lying, Heard, Safe

LEMMA PartsThen ==
  ASSUME NEW t, NEW P, NEW L, NEW N, P = Placed(t)', L = Telling(t)', N = Renaming(t)'
  PROVE  /\ Landed(t, P)' \/ Pending(t, Jobs, N, P)' => Lying(t)'
         /\ Landed(t, L)' \/ Pending(t, {}, L, L)' \/ Failed(t, L)' => Heard(t)'
         /\ Landed(t, L)' \/ Pending(t, Jobs, L, L)' \/ Failed(t, L)' => Safe(t)'
<1>1. Landed(t, P)' \/ Pending(t, Jobs, N, P)' => Lying(t)'
  BY DEF Lying, Landed, Pending
<1>2. Landed(t, L)' \/ Pending(t, {}, L, L)' \/ Failed(t, L)' => Heard(t)'
  BY DEF Heard, Landed, Pending, Failed
<1>3. Landed(t, L)' \/ Pending(t, Jobs, L, L)' \/ Failed(t, L)' => Safe(t)'
  BY DEF Safe, Landed, Pending, Failed
<1> QED
  BY <1>1, <1>2, <1>3

LEMMA CarriedPlace ==
  ASSUME Typed, Grown, NEW t \in Tabs, UNCHANGED <<stored, unwritten>>,
         NEW P, P = Placed(t)', NEW N, N = Renaming(t)', Placed(t) \subseteq P, Renaming(t) \subseteq N,
         Since(t, P), Lying(t)
  PROVE  Lying(t)'
<1>1. Landed(t, P) \/ Pending(t, Jobs, N, P)
  BY DEF Lying, Landed, Pending
<1>2. Landed(t, P)' \/ Pending(t, Jobs, N, P)'
  BY <1>1, GrownKeeps
<1>3. PICK L : L = Telling(t)'
  OBVIOUS
<1> QED
  BY <1>2, <1>3, PartsThen

LEMMA CarriedText ==
  ASSUME Typed, Grown, NEW t \in Tabs, UNCHANGED <<stored, unwritten>>,
         NEW L, L = Telling(t)', Telling(t) \subseteq L, Since(t, L)
  PROVE  (Heard(t) => Heard(t)') /\ (Safe(t) => Safe(t)')
<1>1. /\ Heard(t) => Landed(t, L) \/ Pending(t, {}, L, L) \/ Failed(t, L)
      /\ Safe(t) => Landed(t, L) \/ Pending(t, Jobs, L, L) \/ Failed(t, L)
  BY DEF Heard, Safe, Landed, Pending, Failed
<1>2. /\ Landed(t, L) => Landed(t, L)'
      /\ Failed(t, L) => Failed(t, L)'
      /\ Pending(t, {}, L, L) => Pending(t, {}, L, L)'
      /\ Pending(t, Jobs, L, L) => Pending(t, Jobs, L, L)'
  BY GrownKeeps
<1>3. PICK P, N : P = Placed(t)' /\ N = Renaming(t)'
  OBVIOUS
<1> QED
  BY <1>1, <1>2, <1>3, PartsThen

(* With one script, what some script does is what it does.                     *)
LEMMA Script ==
  ASSUME Reliable, NEW j \in Jobs, NEW b, job[j] = b
  PROVE  /\ Jobs = {j}
         /\ \A t : FirstSave(t) <=> Writing(b) /\ b.how = "first" /\ b.tab = t
         /\ \A t : Written(t) <=> b.pc = "wrote" /\ b.tab = t /\ b.to = path[t]
         /\ \A t : Passing(t) <=> b.pc \in {"turn", "delete"} /\ b.tab = t
         /\ Closing <=> gate # None \/ Ending(b)
<1>1. Jobs = {j}
  BY DEF Reliable, OneAtATime
<1> QED
  BY <1>1 DEF FirstSave, Written, Passing, Closing

LEMMA ScriptNext ==
  ASSUME Reliable, NEW j \in Jobs, NEW x, job'[j] = x
  PROVE  /\ \A t : FirstSave(t)' <=> Writing(x) /\ x.how = "first" /\ x.tab = t
         /\ \A t : Written(t)' <=> x.pc = "wrote" /\ x.tab = t /\ x.to = path'[t]
         /\ \A t : Passing(t)' <=> x.pc \in {"turn", "delete"} /\ x.tab = t
         /\ Closing' <=> gate' # None \/ Ending(x)
         /\ Busy(x)' => \A k \in Jobs : Busy(job[k])'
<1>1. Jobs = {j}
  BY DEF Reliable, OneAtATime
<1>2. \A k \in Jobs : job'[k] = x
  BY <1>1
<1>3. Busy(x)' => \A k \in Jobs : Busy(job[k])'
  BY <1>2 DEF Busy
<1>4. Ending(x)' <=> Ending(x)
  BY DEF Ending
<1> QED
  BY <1>1, <1>2, <1>3, <1>4 DEF FirstSave, Written, Passing, Closing, Writing, Ending

(* A snapshot shows the tab, the file of which is not just being named.         *)
LEMMA SnapshotTells ==
  ASSUME Typed, Sound, up, NEW t \in Open, ~FirstSave(t)
  PROVE  Snapshot(text, t) \in Telling(t)
<1>0. t \in Tabs /\ path[t] \in Files \cup {None} /\ text[t] \in Texts
  BY OpenTabs DEF Typed, Data
<1>1. PICK r : r = Snapshot(text, t)
  OBVIOUS
<1>2. r \in Record
  BY <1>0, <1>1, Numbers DEF Snapshot, Record
<1>3. r.path = path[t] /\ (r.dirty <=> Dirty(t)) /\ (Dirty(t) => r.text = text[t])
  BY <1>1 DEF Snapshot, Dirty
<1>4. ASSUME ~Dirty(t)
      PROVE  Under(t) = text[t]
  <2>1. CASE Written(t)
    <3>1. PICK k \in Jobs : job[k].pc = "wrote" /\ job[k].tab = t /\ job[k].to = path[t]
      BY <2>1 DEF Written
    <3>2. Busy(job[k])
      BY DEF Sound, WhileUp
    <3>3. path[t] \in Files /\ disk[path[t]] = text[t]
      BY <3>1, <3>2 DEF Busy, Writing
    <3> QED
      BY <3>3, Numbers DEF Under
  <2>2. CASE Under(t) = base[t]
    BY <1>4, <2>2 DEF Dirty
  <2>3. Grounded(t)
    BY DEF Sound, WhileUp
  <2> QED
    BY <2>1, <2>2, <2>3 DEF Grounded
<1>5. Restored(r) = text[t]
  BY <1>3, <1>4 DEF Restored, OnFile, Under
<1> QED
  BY <1>1, <1>2, <1>3, <1>5 DEF Telling

(* What was sent says of a tab that is open what it shows.                      *)
Honest ==
  /\ Grown
  /\ \A i \in DOMAIN calls' : i \notin DOMAIN calls =>
       /\ calls'[i].tab \in Open /\ calls'[i].rec.path = path[calls'[i].tab]
       /\ FirstSave(calls'[i].tab) \/ calls'[i].rec \in Telling(calls'[i].tab)
Reported(t, K) ==
  \E i \in DOMAIN calls' : /\ i \notin DOMAIN calls /\ calls'[i].tab = t
                           /\ calls'[i].rec \in Telling(t) /\ K \subseteq calls'[i].by

LEMMA NothingSent ==
  ASSUME Typed, UNCHANGED calls
  PROVE  Honest
BY CallParts DEF Honest, Grown, Typed, Sends

LEMMA HonestNames ==
  ASSUME Honest, UNCHANGED <<stored, tabs, path>>, NEW t, NEW f, Named(t, f)'
  PROVE  Named(t, f)
<1>1. CASE \E i \in DOMAIN calls' : calls'[i].tab = t /\ calls'[i].live /\ calls'[i].rec.path = f
  BY <1>1 DEF Named, Honest, Grown
<1> QED
  BY <1>1 DEF Named, Open

LEMMA HonestKeeps ==
  ASSUME Typed, Honest, UNCHANGED <<stored, unwritten>>, NEW t \in Open,
         Placed(t)' = Placed(t), Renaming(t)' = Renaming(t), Telling(t)' = Telling(t)
  PROVE  /\ Lying(t) => Lying(t)'
         /\ ~FirstSave(t) => (Heard(t) => Heard(t)') /\ (Safe(t) => Safe(t)')
         /\ ~FirstSave(t) /\ Reported(t, {}) => Heard(t)'
         /\ ~FirstSave(t) /\ Reported(t, Jobs) => Safe(t)'
<1>0. t \in Tabs /\ Grown
  BY OpenTabs DEF Honest
<1>1. PICK P, L, N : /\ P = Placed(t)' /\ L = Telling(t)' /\ N = Renaming(t)'
                     /\ P = Placed(t) /\ L = Telling(t) /\ N = Renaming(t)
  OBVIOUS
<1>2. Since(t, P)
  <2>1. ASSUME NEW i \in DOMAIN calls', i \notin DOMAIN calls, calls'[i].tab = t
        PROVE  calls'[i].rec \in P
    BY <1>0, <1>1, <2>1, CallParts DEF Honest, Grown, Placed
  <2> QED
    BY <2>1 DEF Since
<1>3. ~FirstSave(t) => Since(t, L)
  BY <1>1 DEF Since, Honest
<1>4. Lying(t) => Lying(t)'
  BY <1>0, <1>1, <1>2, CarriedPlace
<1>5. ~FirstSave(t) => (Heard(t) => Heard(t)') /\ (Safe(t) => Safe(t)')
  BY <1>0, <1>1, <1>3, CarriedText
<1>6. ASSUME NEW K, ~FirstSave(t), Reported(t, K)
      PROVE  Pending(t, K, L, L)'
  BY <1>0, <1>1, <1>3, <1>6, GrownPending DEF Reported
<1>7. ~FirstSave(t) /\ Reported(t, {}) => Heard(t)'
  BY <1>1, <1>6, PartsThen
<1>8. ~FirstSave(t) /\ Reported(t, Jobs) => Safe(t)'
  BY <1>1, <1>6, PartsThen
<1> QED
  BY <1>4, <1>5, <1>7, <1>8

(* Steps of a window that leave the files, the tabs and their buffers alone.     *)
LEMMA Quiet ==
  ASSUME Typed, Sound, up, Honest,
         UNCHANGED <<disk, stored, doomed, up, tabs, path, text, base, unwritten>>,
         \A t \in Open : FirstSave(t) => FirstSave(t)',
         \A t \in Open : Written(t) => Written(t)',
         \A t \in Open : ~FirstSave(t) /\ (Timed(t) \/ Passing(t)) => Told(t)',
         \A t \in Open : ~FirstSave(t) /\ Closing' /\ Dirty(t) => Closing \/ Safe(t)',
         \A k \in Jobs : Busy(job[k])',
         Closing' /\ timer' /\ Shown' => ~Dirty(Current)'
  PROVE  Sound'
<1>1. Open' = Open /\ Kept' = Kept
  BY DEF Open, Kept
<1>2. Distinct'
  BY HonestNames DEF Distinct, Sound
<1>3. OneEach'
  BY DEF OneEach, Sound
<1>4. \A i \in DOMAIN calls' : calls'[i].tab \in Open
  BY DEF Sound, WhileUp, Honest, Grown
<1>5. ASSUME NEW t \in Open
      PROVE  Grounded(t)' /\ InPlace(t)' /\ Told(t)' /\ Secure(t)'
  <2>1. Placed(t)' = Placed(t) /\ Renaming(t)' = Renaming(t) /\ Telling(t)' = Telling(t)
    BY DEF Placed, Renaming, Telling, Restored, OnFile
  <2>2. /\ Lying(t) => Lying(t)'
        /\ ~FirstSave(t) => (Heard(t) => Heard(t)') /\ (Safe(t) => Safe(t)')
    BY <2>1, HonestKeeps
  <2>3. Grounded(t) /\ InPlace(t) /\ Told(t) /\ Secure(t)
    BY DEF Sound, WhileUp
  <2>4. Grounded(t)'
    BY <2>3 DEF Grounded, Under
  <2>5. InPlace(t)'
    BY <2>2, <2>3 DEF InPlace
  <2>6. Told(t)'
    BY <2>2, <2>3 DEF Told
  <2>7. Dirty(t)' <=> Dirty(t)
    BY DEF Dirty
  <2>8. Secure(t)'
    BY <2>2, <2>3, <2>7 DEF Secure
  <2> QED
    BY <2>4, <2>5, <2>6, <2>8
<1>6. WhileUp'
  BY <1>1, <1>4, <1>5 DEF Sound, WhileUp
<1> QED
  BY <1>2, <1>3, <1>6 DEF Sound


(* What no script waits for is not on its way for all of them.                 *)
LEMMA Alone ==
  ASSUME NEW j \in Jobs, ~Waits(j), NEW t
  PROVE  /\ Lying(t) => Landed(t, Placed(t))
         /\ Safe(t) => Landed(t, Telling(t)) \/ Failed(t, Telling(t))
<1>1. \A i \in DOMAIN calls : ~(Jobs \subseteq calls[i].by)
  BY DEF Waits
<1> QED
  BY <1>1 DEF Lying, Safe, Pending

LEMMA Resumes ==
  ASSUME Typed, NEW j \in Jobs, NEW x, Become(j, x)
  PROVE  job'[j] = x
BY DEF Typed, Works, Become

LEMMA FreeScript ==
  ASSUME Reliable, Typed, Sound, NEW j \in Jobs, Free(j)
  PROVE  /\ up /\ WhileUp /\ Jobs = {j} /\ Resting
         /\ \A k \in Jobs : ~Waits(k)
         /\ \A t : ~FirstSave(t) /\ ~Written(t) /\ ~Passing(t)
         /\ Closing <=> gate # None
<1>1. PICK b : b = job[j] /\ b = Idle /\ up
  BY DEF Free
<1>2. WhileUp /\ Busy(b) /\ b.pc = "idle"
  <2>1. WhileUp
    BY <1>1 DEF Sound
  <2>2. Busy(job[j])
    BY <2>1 DEF WhileUp
  <2>3. b.pc = "idle"
    BY <1>1 DEF Idle
  <2> QED
    BY <1>1, <2>1, <2>2, <2>3
<1>3. ~Writing(b) /\ ~Ending(b) /\ b.pc \notin {"wrote", "turn", "delete"}
  BY <1>2 DEF Writing, Ending
<1>4. \A k \in Jobs : ~Waits(k)
  BY <1>2 DEF Busy
<1>5. /\ Jobs = {j}
      /\ \A t : ~FirstSave(t) /\ ~Written(t) /\ ~Passing(t)
      /\ Closing <=> gate # None
  BY <1>1, <1>3, Script
<1>6. Resting
  BY <1>1, <1>5 DEF Resting
<1> QED
  BY <1>1, <1>2, <1>4, <1>5, <1>6

(* A name that no tab in the window has is new.                              *)
LEMMA Fresh ==
  ASSUME Reliable, Typed, Sound, NEW j \in Jobs, Free(j), NEW t, NEW f \in Files,
         \A u \in Open \ {t} : path[u] # f
  PROVE  \A u \in Tabs \ {t} : ~Named(u, f)
<1>0. WhileUp /\ ~Waits(j)
  BY FreeScript
<1> SUFFICES ASSUME NEW u \in Tabs \ {t}
             PROVE  ~Named(u, f)
  OBVIOUS
<1>1. CASE u \in Open
  <2>1. InPlace(u) /\ ~FirstSave(u)
    BY <1>0, <1>1, FreeScript DEF WhileUp
  <2>2. Landed(u, Placed(u))
    BY <1>0, <2>1, Alone DEF InPlace
  <2>3. path[u] # f /\ None \notin Record
    BY <1>1, Numbers
  <2>4. \A r \in Placed(u) : r # None => r.path = path[u]
    BY DEF Placed
  <2>5. ~(stored[u] # None /\ stored[u].path = f)
    BY <2>2, <2>3, <2>4 DEF Landed
  <2>6. \A i \in DOMAIN calls : calls[i].rec # None
    BY <2>3, CallParts DEF Typed, Sends
  <2>7. \A i \in DOMAIN calls : ~(calls[i].tab = u /\ calls[i].live /\ calls[i].rec.path = f)
    BY <2>2, <2>3, <2>4, <2>6 DEF Landed
  <2> QED
    BY <2>3, <2>5, <2>7 DEF Named
<1>2. CASE u \notin Open
  <2>1. stored[u] = None /\ \A i \in DOMAIN calls : calls[i].tab # u
    BY <1>0, <1>2 DEF WhileUp, Kept
  <2> QED
    BY <1>2, <2>1 DEF Named
<1> QED
  BY <1>1, <1>2

LEMMA Extended ==
  ASSUME NEW S, NEW p \in Seq(S), NEW q \in Seq(S)
  PROVE  /\ p \o q \in Seq(S)
         /\ \A i \in DOMAIN p : i \in DOMAIN (p \o q) /\ (p \o q)[i] = p[i]
         /\ \A i \in DOMAIN (p \o q) : i \notin DOMAIN p => \E m \in DOMAIN q : (p \o q)[i] = q[m]
         /\ \A m \in DOMAIN q : \E i \in DOMAIN (p \o q) : i \notin DOMAIN p /\ (p \o q)[i] = q[m]
<1>1. /\ p \o q \in Seq(S)
      /\ DOMAIN (p \o q) = 1..(Len(p) + Len(q))
      /\ DOMAIN p = 1..Len(p) /\ DOMAIN q = 1..Len(q) /\ Len(p) \in Nat /\ Len(q) \in Nat
  OBVIOUS
<1>2. /\ \A m \in 1..Len(p) : (p \o q)[m] = p[m]
      /\ \A m \in 1..Len(q) : (p \o q)[Len(p) + m] = q[m]
  BY Joined
<1>3. \A i \in DOMAIN p : i \in DOMAIN (p \o q) /\ (p \o q)[i] = p[i]
  BY <1>1, <1>2
<1>4. ASSUME NEW i \in DOMAIN (p \o q), i \notin DOMAIN p
      PROVE  \E m \in DOMAIN q : (p \o q)[i] = q[m]
  <2>1. PICK m \in 1..Len(q) : i = Len(p) + m
    <3>1. i - Len(p) \in 1..Len(q) /\ i = Len(p) + (i - Len(p))
      BY <1>1, <1>4
    <3> QED
      BY <3>1
  <2> QED
    BY <1>1, <1>2, <2>1
<1>5. ASSUME NEW m \in DOMAIN q
      PROVE  \E i \in DOMAIN (p \o q) : i \notin DOMAIN p /\ (p \o q)[i] = q[m]
  <2>1. PICK i : i = Len(p) + m
    OBVIOUS
  <2>2. i \in DOMAIN (p \o q) /\ i \notin DOMAIN p
    BY <1>1, <2>1
  <2> QED
    BY <1>1, <1>2, <2>1, <2>2
<1> QED
  BY <1>1, <1>3, <1>4, <1>5

(* Snapshots were sent.                                                      *)
LEMMA SentSome ==
  ASSUME Typed, Sound, up, NEW ds \in Seq(Call), calls' = calls \o ds, NEW by,
         \A m \in DOMAIN ds : /\ ds[m].tab \in Open /\ ds[m].live /\ ds[m].by = by
                              /\ ds[m].rec = Snapshot(text, ds[m].tab)
  PROVE  /\ Honest
         /\ \A m \in DOMAIN ds : ~FirstSave(ds[m].tab) => Reported(ds[m].tab, by)
         /\ \A k \in Jobs : Waits(k)' => Waits(k) \/ k \in by
<1>1. /\ calls' \in Seq(Call)
      /\ \A i \in DOMAIN calls : i \in DOMAIN calls' /\ calls'[i] = calls[i]
      /\ \A i \in DOMAIN calls' : i \notin DOMAIN calls => \E m \in DOMAIN ds : calls'[i] = ds[m]
      /\ \A m \in DOMAIN ds : \E i \in DOMAIN calls' : i \notin DOMAIN calls /\ calls'[i] = ds[m]
  <2>1. calls \in Seq(Call)
    BY DEF Typed, Sends
  <2> QED
    BY <2>1, Extended
<1>2. ASSUME NEW m \in DOMAIN ds
      PROVE  /\ ds[m].rec.path = path[ds[m].tab]
             /\ ~FirstSave(ds[m].tab) => ds[m].rec \in Telling(ds[m].tab)
  <2>1. PICK t \in Open : t = ds[m].tab /\ ds[m].rec = Snapshot(text, t)
    OBVIOUS
  <2>2. Snapshot(text, t).path = path[t]
    BY DEF Snapshot
  <2>3. ~FirstSave(t) => Snapshot(text, t) \in Telling(t)
    BY <2>1, SnapshotTells
  <2> QED
    BY <2>1, <2>2, <2>3
<1>3. Grown
  BY <1>1 DEF Grown
<1>4. Honest
  <2>1. ASSUME NEW i \in DOMAIN calls', i \notin DOMAIN calls
        PROVE  /\ calls'[i].tab \in Open /\ calls'[i].rec.path = path[calls'[i].tab]
               /\ FirstSave(calls'[i].tab) \/ calls'[i].rec \in Telling(calls'[i].tab)
    <3>1. PICK m \in DOMAIN ds : calls'[i] = ds[m]
      BY <1>1, <2>1
    <3> QED
      BY <1>2, <3>1
  <2> QED
    BY <1>3, <2>1 DEF Honest
<1>5. ASSUME NEW m \in DOMAIN ds, ~FirstSave(ds[m].tab)
      PROVE  Reported(ds[m].tab, by)
  <2>1. PICK i \in DOMAIN calls' : i \notin DOMAIN calls /\ calls'[i] = ds[m]
    BY <1>1
  <2>2. calls'[i].rec \in Telling(ds[m].tab) /\ by \subseteq calls'[i].by
    BY <1>2, <1>5, <2>1
  <2> QED
    BY <2>1, <2>2 DEF Reported
<1>6. \A k \in Jobs : Waits(k)' => Waits(k) \/ k \in by
  BY <1>1 DEF Waits
<1> QED
  BY <1>4, <1>5, <1>6

LEMMA SnapshotCall ==
  ASSUME Typed, NEW t \in Open, NEW by \in SUBSET Jobs, NEW c, c = Sent(text, t, by)
  PROVE  c \in Call /\ c.tab = t /\ c.live /\ c.by = by /\ c.rec = Snapshot(text, t)
<1>1. path \in [Tabs -> Files \cup {None}] /\ text \in [Tabs -> Texts] /\ t \in Tabs
  BY OpenTabs DEF Typed, Data
<1> QED
  BY <1>1, CallTyped

LEMMA SentAll ==
  ASSUME Typed, Sound, up, NEW s \in Seq(Open), NEW by \in SUBSET Jobs,
         NEW ds, ds = [i \in DOMAIN s |-> ds[i]], \A i \in DOMAIN s : ds[i] = Sent(text, s[i], by),
         calls' = calls \o ds
  PROVE  /\ Honest
         /\ \A i \in DOMAIN s : ~FirstSave(s[i]) => Reported(s[i], by)
         /\ \A k \in Jobs : Waits(k)' => Waits(k) \/ k \in by
<1>1. ASSUME NEW i \in DOMAIN s
      PROVE  /\ ds[i] \in Call /\ ds[i].tab = s[i] /\ ds[i].live /\ ds[i].by = by
             /\ ds[i].rec = Snapshot(text, s[i])
  <2>1. PICK t \in Open : t = s[i]
    OBVIOUS
  <2>2. ds[i] = Sent(text, t, by)
    BY <2>1
  <2> QED
    BY <2>1, <2>2, SnapshotCall
<1>2. DOMAIN ds = DOMAIN s /\ ds \in Seq(Call)
  <2>1. PICK n \in Nat : DOMAIN s = 1..n
    OBVIOUS
  <2>2. ds \in [1..n -> Call]
    BY <1>1, <2>1
  <2> QED
    BY <2>1, <2>2
<1>3. \A m \in DOMAIN ds : /\ ds[m].tab = s[m] /\ ds[m].tab \in Open /\ ds[m].live /\ ds[m].by = by
                           /\ ds[m].rec = Snapshot(text, ds[m].tab)
  BY <1>1, <1>2
<1>4. /\ Honest
      /\ \A m \in DOMAIN ds : ~FirstSave(ds[m].tab) => Reported(ds[m].tab, by)
      /\ \A k \in Jobs : Waits(k)' => Waits(k) \/ k \in by
  BY <1>2, <1>3, SentSome
<1> QED
  BY <1>2, <1>3, <1>4

LEMMA SentOne ==
  ASSUME Typed, Sound, up, NEW t \in Open, NEW by \in SUBSET Jobs,
         calls' = Append(calls, Sent(text, t, by))
  PROVE  /\ Honest
         /\ ~FirstSave(t) => Reported(t, by)
         /\ \A k \in Jobs : Waits(k)' => Waits(k) \/ k \in by
<1>1. PICK c : c = Sent(text, t, by)
  OBVIOUS
<1>2. c \in Call /\ c.tab = t /\ c.live /\ c.by = by /\ c.rec = Snapshot(text, t)
  BY <1>1, SnapshotCall
<1>3. PICK ds : ds = <<c>>
  OBVIOUS
<1>4. ds \in Seq(Call) /\ DOMAIN ds = {1} /\ ds[1] = c
  BY <1>2, <1>3
<1>5. calls' = calls \o ds
  <2>1. calls' = Append(calls, c) /\ calls \in Seq(Call)
    BY <1>1 DEF Typed, Sends
  <2> QED
    BY <1>2, <1>3, <2>1
<1>6. \A m \in DOMAIN ds : /\ ds[m].tab \in Open /\ ds[m].live /\ ds[m].by = by
                           /\ ds[m].rec = Snapshot(text, ds[m].tab)
  BY <1>2, <1>4
<1>7. /\ Honest
      /\ \A m \in DOMAIN ds : ~FirstSave(ds[m].tab) => Reported(ds[m].tab, by)
      /\ \A k \in Jobs : Waits(k)' => Waits(k) \/ k \in by
  BY <1>4, <1>5, <1>6, SentSome
<1> QED
  BY <1>2, <1>4, <1>7

LEMMA FlushHonest ==
  ASSUME Typed, Sound, up, NEW j \in Jobs, FlushTimer(j, text, calls, settled)
  PROVE  /\ Honest /\ timer' = FALSE
         /\ \A t \in Open : ~FirstSave(t) /\ Timed(t) => Reported(t, {})
<1>1. CASE timer /\ Shown
  <2>1. Current \in Open /\ calls' = Append(calls, Sent(text, Current, {j}))
    BY <1>1, OpenTabs DEF FlushTimer
  <2>2. Honest /\ (~FirstSave(Current) => Reported(Current, {j}))
    BY <2>1, SentOne
  <2>3. Reported(Current, {j}) => Reported(Current, {})
    BY DEF Reported
  <2> QED
    BY <2>2, <2>3 DEF Timed, FlushTimer
<1>2. CASE ~(timer /\ Shown)
  <2>1. calls' = Awaited(calls, settled, j) /\ calls \in Seq(Call)
    BY <1>2 DEF FlushTimer, Typed, Sends
  <2>2. Grown /\ DOMAIN calls' = DOMAIN calls
    BY <2>1, AwaitedCalls DEF Grown
  <2> QED
    BY <1>2, <2>2 DEF Honest, Timed, FlushTimer
<1> QED
  BY <1>1, <1>2

LEMMA QuietHears ==
  ASSUME Typed, Honest, UNCHANGED <<disk, stored, path, text, unwritten>>, NEW t \in Open, ~FirstSave(t)
  PROVE  /\ Heard(t) \/ Reported(t, {}) => Heard(t)'
         /\ Safe(t) \/ Reported(t, Jobs) => Safe(t)'
<1>1. Placed(t)' = Placed(t) /\ Renaming(t)' = Renaming(t) /\ Telling(t)' = Telling(t)
  BY DEF Placed, Renaming, Telling, Restored, OnFile
<1> QED
  BY <1>1, HonestKeeps

(* Names and waits do not become more by what only sends.                      *)
LEMMA BusySame ==
  ASSUME Typed, Honest, NEW b, Busy(b),
         UNCHANGED <<disk, stored, tabs, active, path, text>>, timer' => timer,
         \A k \in Jobs : Waits(k)' => Waits(k)
  PROVE  Busy(b)'
<1>1. \A u, f : Named(u, f)' => Named(u, f)
  BY HonestNames
<1> QED
  BY <1>1 DEF Busy, Writing, Open, Shown, Current

LEMMA PersistSound ==
  ASSUME Reliable, Typed, Sound, Persist \/ MoveWindow
  PROVE  Sound'
<1>1. up /\ UNCHANGED <<disk, stored, doomed, up, tabs, active, path, text, base, unwritten, gate, job>>
  BY DEF Persist, MoveWindow
<1>2. /\ Honest /\ (timer' => timer)
      /\ \A k \in Jobs : Waits(k)' => Waits(k)
      /\ \A t \in Open : ~FirstSave(t) /\ Timed(t) => Timed(t)' \/ Reported(t, {})
  <2>1. CASE Persist /\ Shown
    <3>1. Current \in Open /\ calls' = Append(calls, Sent(text, Current, {})) /\ timer' = FALSE
      BY <2>1, OpenTabs DEF Persist
    <3>2. /\ Honest
          /\ ~FirstSave(Current) => Reported(Current, {})
          /\ \A k \in Jobs : Waits(k)' => Waits(k)
      BY <1>1, <3>1, SentOne
    <3> QED
      BY <3>1, <3>2 DEF Timed
  <2>2. CASE Persist /\ ~Shown
    <3>1. Honest /\ timer' = FALSE /\ UNCHANGED calls
      BY <2>2, NothingSent DEF Persist
    <3> QED
      BY <2>2, <3>1 DEF Timed, Waits
  <2>3. CASE MoveWindow
    <3>1. tabs \in Seq(Open)
      <4>1. PICK n \in Nat : DOMAIN tabs = 1..n /\ tabs \in [1..n -> Tabs]
        BY DEF Typed, Data
      <4>2. tabs \in [1..n -> Open]
        BY <4>1, OpenTabs
      <4> QED
        BY <4>2
    <3>2. Honest /\ (\A k \in Jobs : Waits(k)' => Waits(k))
      <4>1. PICK ds : ds = [i \in DOMAIN tabs |-> Sent(text, tabs[i], {})]
        OBVIOUS
      <4>2. PICK s : s = tabs /\ s \in Seq(Open)
        BY <3>1
      <4>3. PICK by \in SUBSET Jobs : by = {}
        OBVIOUS
      <4>4. ds = [i \in DOMAIN s |-> ds[i]]
        BY <4>1, <4>2
      <4>5. \A i \in DOMAIN s : ds[i] = Sent(text, s[i], by)
        BY <4>1, <4>2, <4>3
      <4>6. calls' = calls \o ds /\ up
        BY <1>1, <2>3, <4>1 DEF MoveWindow
      <4>7. s \in Seq(Open)
        BY <4>2
      <4>8. Honest /\ (\A k \in Jobs : Waits(k)' => Waits(k) \/ k \in by)
        BY ONLY Typed, Sound, <4>4, <4>5, <4>6, <4>7, SentAll
      <4> QED
        BY <4>3, <4>8
    <3>3. timer' = timer
      BY <2>3 DEF MoveWindow
    <3> QED
      BY <1>1, <3>2, <3>3 DEF Timed, Shown, Current
  <2> QED
    BY <2>1, <2>2, <2>3
<1>3. \A t : (FirstSave(t)' <=> FirstSave(t)) /\ (Written(t)' <=> Written(t)) /\ (Passing(t)' <=> Passing(t))
  BY <1>1 DEF FirstSave, Written, Passing, Writing
<1>4. Closing' <=> Closing
  BY <1>1 DEF Closing, Ending
<1>5. \A k \in Jobs : Busy(job[k])'
  <2> TAKE k \in Jobs
  <2>1. PICK b : b = job[k] /\ b = job'[k] /\ Busy(b)
    BY <1>1 DEF Sound, WhileUp
  <2>2. Busy(b)'
    BY <1>1, <1>2, <2>1, BusySame
  <2> QED
    BY <2>1, <2>2 DEF Busy, Writing
<1>6. \A t \in Open : ~FirstSave(t) /\ (Timed(t) \/ Passing(t)) => Told(t)'
  BY <1>1, <1>2, <1>3, QuietHears DEF Told
<1>7. Closing' /\ timer' /\ Shown' => ~Dirty(Current)'
  BY <1>1, <1>2, <1>4 DEF Sound, WhileUp, Shown, Current, Dirty
<1> QED
  BY <1>1, <1>2, <1>3, <1>4, <1>5, <1>6, <1>7, Quiet


(* A script goes on from b to x, without a file or a tab that changes.          *)
LEMMA ScriptQuiet ==
  ASSUME Reliable, Typed, Sound, up, Honest,
         UNCHANGED <<disk, stored, doomed, up, tabs, path, text, base, unwritten>>,
         NEW j \in Jobs, NEW b, b = job[j], NEW x, job'[j] = x,
         b.pc # "wrote", b.pc = "write" => b.how # "first",
         \A t \in Open : Timed(t) \/ (b.pc \in {"turn", "delete"} /\ b.tab = t) => Told(t)',
         Ending(x) \/ gate' # None => Closing \/ \A t \in Open : Dirty(t) => Safe(t)',
         Busy(x)', Closing' /\ timer' /\ Shown' => ~Dirty(Current)'
  PROVE  Sound'
<1>1. \A t : ~FirstSave(t) /\ ~Written(t)
  BY Script DEF Writing
<1>2. \A t : Passing(t) => b.pc \in {"turn", "delete"} /\ b.tab = t
  BY Script
<1>3. Closing' => Ending(x) \/ gate' # None
  BY ScriptNext
<1>4. \A k \in Jobs : Busy(job[k])'
  BY ScriptNext
<1> QED
  BY <1>1, <1>2, <1>3, <1>4, Quiet

LEMMA FlushSound ==
  ASSUME Reliable, Typed, Sound, up,
         UNCHANGED <<disk, stored, doomed, up, tabs, path, text, base, unwritten, gate>>,
         NEW j \in Jobs, FlushTimer(j, text, calls, settled),
         NEW b, b = job[j], b.pc \in {"idle", "record"}, NEW x, Become(j, x),
         \/ x.pc = "flush"
         \/ x.pc = "turn" /\ x.tab = None /\ (x.then = "gate" => Closing)
  PROVE  Sound'
<1>1. job'[j] = x
  BY Resumes
<1>2. /\ Honest /\ timer' = FALSE
      /\ \A t \in Open : ~FirstSave(t) /\ Timed(t) => Reported(t, {})
  BY FlushHonest
<1>3. \A t : ~FirstSave(t)
  BY Script DEF Writing
<1>4. \A t \in Open : Timed(t) \/ (b.pc \in {"turn", "delete"} /\ b.tab = t) => Told(t)'
  BY <1>2, <1>3, QuietHears DEF Told
<1>5. Ending(x) \/ gate' # None => Closing
  BY DEF Ending, Closing
<1>6. Busy(x)'
  BY <1>2 DEF Busy, Writing
<1> QED
  BY <1>1, <1>2, <1>4, <1>5, <1>6, ScriptQuiet

LEMMA SwitchSound ==
  ASSUME Reliable, Typed, Sound, NEW j \in Jobs, (\E i : SwitchTo(j, i)) \/ CloseWindow(j)
  PROVE  Sound'
<1>1. /\ Free(j) /\ FlushTimer(j, text, calls, settled)
      /\ UNCHANGED <<disk, stored, doomed, up, tabs, path, text, base, unwritten, gate>>
  BY DEF SwitchTo, CloseWindow
<1>2. PICK x : /\ Become(j, x)
               /\ \/ x.pc = "flush"
                  \/ x.pc = "turn" /\ x.tab = None /\ x.then = "end"
  <2>1. Flushing.pc = "flush"
    BY DEF Flushing
  <2>2. \A i : /\ Turning(i, None, "end").pc = "turn" /\ Turning(i, None, "end").tab = None
               /\ Turning(i, None, "end").then = "end"
    BY DEF Turning
  <2> QED
    BY <2>1, <2>2 DEF SwitchTo, CloseWindow
<1>3. PICK b : b = job[j] /\ b.pc = "idle"
  BY <1>1 DEF Free, Idle
<1>4. up
  BY <1>1 DEF Free
<1> QED
  BY <1>1, <1>2, <1>3, <1>4, FlushSound

(* A script stops that has nothing to do any more.                            *)
LEMMA StopSound ==
  ASSUME Reliable, Typed, Sound, up, UNCHANGED calls,
         UNCHANGED <<disk, stored, doomed, up, tabs, active, path, text, base, unwritten, timer>>,
         NEW j \in Jobs, NEW b, b = job[j], Become(j, Idle), ~Waits(j),
         b.pc # "wrote", b.pc = "write" => b.how # "first",
         \A t \in Open : b.pc \in {"turn", "delete"} /\ b.tab = t => Heard(t),
         gate' # None => Closing
  PROVE  Sound'
<1>1. PICK x : x = Idle /\ job'[j] = x
  BY Resumes
<1>2. x.pc = "idle" /\ ~Writing(x) /\ ~Ending(x)
  BY <1>1 DEF Idle, Writing, Ending
<1>3. Honest
  BY NothingSent
<1>4. \A t : ~FirstSave(t)
  BY Script DEF Writing
<1>5. \A t \in Open : Timed(t) \/ (b.pc \in {"turn", "delete"} /\ b.tab = t) => Told(t)'
  <2>1. \A t \in Open : Timed(t) => Timed(t)'
    BY DEF Timed, Shown, Current
  <2>2. \A t \in Open : Heard(t) => Heard(t)'
    BY <1>3, <1>4, QuietHears
  <2> QED
    BY <2>1, <2>2 DEF Told
<1>6. Busy(x)'
  <2>1. \A k \in Jobs : ~Waits(k)'
    BY Script DEF Waits
  <2> QED
    BY <1>2, <2>1 DEF Busy, Writing
<1>7. Closing' => gate' # None
  BY <1>1, <1>2, ScriptNext
<1>8. Closing' /\ timer' /\ Shown' => ~Dirty(Current)'
  BY <1>7 DEF Sound, WhileUp, Shown, Current, Dirty
<1> QED
  BY <1>1, <1>2, <1>3, <1>5, <1>6, <1>7, <1>8, ScriptQuiet

LEMMA FailFileSound ==
  ASSUME Reliable, Typed, Sound, NEW j \in Jobs, FailFile(j)
  PROVE  Sound'
<1>1. PICK b : b = job[j] /\ b.pc = "write" /\ b.how # "first"
  <2>1. job[j].pc = "write" /\ job[j].how # "first"
    BY DEF FailFile, Reliable
  <2> QED
    BY <2>1
<1>2. up
  <2>1. Idle.pc # "write"
    BY DEF Idle
  <2> QED
    BY <1>1, <2>1 DEF Sound, WhileDown
<1>3. ~Waits(j)
  <2>1. Busy(b)
    BY <1>1, <1>2 DEF Sound, WhileUp
  <2> QED
    BY <1>1, <2>1 DEF Busy
<1>4. /\ UNCHANGED calls
      /\ UNCHANGED <<disk, stored, doomed, up, tabs, active, path, text, base, unwritten, timer>>
      /\ Become(j, Idle) /\ (gate' # None => Closing)
  BY DEF FailFile, Closing
<1> QED
  BY <1>1, <1>2, <1>3, <1>4, StopSound

LEMMA FailDeleteSound ==
  ASSUME Reliable, Typed, Sound, NEW j \in Jobs, FailDelete(j)
  PROVE  Sound'
<1>1. PICK b, t : b = job[j] /\ t = b.tab /\ b.pc = "delete"
  BY DEF FailDelete
<1>2. up /\ RecordShows(t)
  BY <1>1 DEF FailDelete, Reliable
<1>3. Busy(b) /\ t \in Tabs
  <2>1. WhileUp
    BY <1>2 DEF Sound
  <2>2. Busy(b)
    BY <1>1, <2>1 DEF WhileUp
  <2> QED
    BY <1>1, <2>2, OpenTabs DEF Busy
<1>4. ASSUME t \in Open
      PROVE  Heard(t)
  <2>1. InPlace(t) /\ ~FirstSave(t)
    BY <1>1, <1>2, <1>4, Script DEF Sound, WhileUp, Writing
  <2>2. stored[t] \in Placed(t)
    BY <1>2, <2>1 DEF InPlace, Lying, Landed, Pending, RecordShows
  <2>3. stored[t] \in Telling(t)
    BY <1>2, <2>2 DEF Placed, Telling, RecordShows
  <2> QED
    BY <1>2, <2>3 DEF Heard, Landed, RecordShows
<1>5. /\ UNCHANGED calls
      /\ UNCHANGED <<disk, stored, doomed, up, tabs, active, path, text, base, unwritten, timer>>
      /\ Become(j, Idle) /\ (gate' # None => Closing)
  BY DEF FailDelete, Closing
<1>6. ~Waits(j)
  BY <1>1, <1>3 DEF Busy
<1>7. \A u \in Open : b.pc \in {"turn", "delete"} /\ b.tab = u => Heard(u)
  BY <1>1, <1>4
<1> QED
  BY <1>1, <1>2, <1>5, <1>6, <1>7, StopSound

(* Questions, which no record depends on.                                     *)
LEMMA AskSound ==
  ASSUME Typed, Sound, UNCHANGED calls,
         UNCHANGED <<disk, stored, doomed, up, tabs, active, path, text, base, unwritten, timer, job>>,
         gate' # None => gate # None
  PROVE  Sound'
<1>1. \A t : /\ FirstSave(t)' <=> FirstSave(t)
             /\ Written(t)' <=> Written(t)
             /\ Passing(t)' <=> Passing(t)
             /\ Timed(t)' <=> Timed(t)
  BY DEF FirstSave, Written, Passing, Timed, Writing, Shown, Current
<1>2. Closing' => Closing
  BY DEF Closing, Ending
<1>3. Honest
  BY NothingSent
<1>4. CASE up
  <2>1. ASSUME NEW k \in Jobs
        PROVE  Busy(job[k])'
    <3>1. PICK b : b = job[k] /\ b = job'[k] /\ Busy(b)
      BY <1>4 DEF Sound, WhileUp
    <3>2. \A i \in Jobs : Waits(i)' => Waits(i)
      BY DEF Waits
    <3>3. Busy(b)'
      BY <1>3, <3>1, <3>2, BusySame
    <3> QED
      BY <3>1, <3>3 DEF Busy, Writing
  <2>2. Closing' /\ timer' /\ Shown' => ~Dirty(Current)'
    BY <1>2, <1>4 DEF Sound, WhileUp, Shown, Current, Dirty
  <2>3. \A t \in Open : ~FirstSave(t) /\ (Timed(t) \/ Passing(t)) => Told(t)'
    BY <1>1 DEF Told
  <2> QED
    BY <1>1, <1>2, <1>3, <1>4, <2>1, <2>2, <2>3, Quiet
<1>5. CASE ~up
  <2>1. Distinct'
    BY <1>3, HonestNames DEF Distinct, Sound
  <2>2. ASSUME NEW t \in Open, Dirty(t)'
        PROVE  t \notin doomed /\ Landed(t, Keeping(t))'
    <3>1. Dirty(t)
      BY <2>2 DEF Dirty
    <3>2. t \notin doomed /\ Landed(t, Keeping(t))
      BY <1>5, <3>1 DEF Sound, WhileDown
    <3>3. Landed(t, Keeping(t))'
      BY <3>2 DEF Landed, Keeping
    <3> QED
      BY <3>2, <3>3
  <2>3. WhileDown'
    BY <1>5, <2>2 DEF Sound, WhileDown, Open
  <2> QED
    BY <1>5, <2>1, <2>3 DEF Sound, OneEach
<1> QED
  BY <1>4, <1>5

(* deleteTab takes down the tab that is shown.                                *)
LEMMA TakeDownSound ==
  ASSUME Reliable, Typed, Sound, up, NEW j \in Jobs, ~Waits(j), NEW let, BeginDelete(j, let),
         UNCHANGED calls, gate' # None => Closing,
         UNCHANGED <<disk, stored, doomed, up, tabs, active, path, text, base, unwritten>>,
         NEW b, b = job[j], b.pc \in {"idle", "record"}
  PROVE  Sound'
<1>1. CASE Shown
  <2>1. PICK x : x = Deleting(Current, active, let) /\ timer' = FALSE /\ Become(j, x)
    BY <1>1 DEF BeginDelete
  <2>2. x.pc = "delete" /\ x.tab = Current /\ x.at = active /\ ~Writing(x) /\ ~Ending(x)
    BY <2>1 DEF Deleting, Writing, Ending
  <2>3. job'[j] = x
    BY <2>1, Resumes
  <2>4. \A t \in Open : Timed(t) => Told(t)'
    <3>1. \A t : Passing(t)' <=> x.pc \in {"turn", "delete"} /\ x.tab = t
      BY <2>3, ScriptNext
    <3> QED
      BY <2>2, <3>1 DEF Timed, Told
  <2>5. Busy(x)'
    <3>1. \A k \in Jobs : ~Waits(k)'
      BY Script DEF Waits
    <3>2. x.at \in DOMAIN tabs /\ x.tab = tabs[x.at]
      BY <1>1, <2>2 DEF Shown, Current
    <3> QED
      BY <2>1, <2>2, <3>1, <3>2 DEF Busy, Writing
  <2>6. Honest
    BY NothingSent
  <2> QED
    BY <2>1, <2>2, <2>3, <2>4, <2>5, <2>6, ScriptQuiet
<1>2. CASE ~Shown
  BY <1>2, StopSound DEF BeginDelete
<1> QED
  BY <1>1, <1>2

LEMMA RequestSound ==
  ASSUME Reliable, Typed, Sound, NEW j \in Jobs, RequestClose(j) \/ ConfirmDiscard(j)
  PROVE  Sound'
<1>1. /\ Free(j) /\ UNCHANGED calls
      /\ UNCHANGED <<disk, stored, doomed, up, tabs, active, path, text, base, unwritten, gate>>
  BY DEF RequestClose, ConfirmDiscard
<1>2. up /\ ~Waits(j)
  BY <1>1, FreeScript
<1>3. PICK b : b = job[j] /\ b.pc = "idle"
  BY <1>1 DEF Free, Idle
<1>4. CASE UNCHANGED <<job, timer>>
  BY <1>1, <1>4, AskSound
<1>5. CASE \E let : BeginDelete(j, let)
  <2>1. gate' # None => Closing
    BY <1>1 DEF Closing
  <2> QED
    BY <1>1, <1>2, <1>3, <1>5, <2>1, TakeDownSound
<1> QED
  BY <1>4, <1>5 DEF RequestClose, ConfirmDiscard

LEMMA CancelSound ==
  ASSUME Typed, Sound, CancelClose \/ GateCancel
  PROVE  Sound'
BY AskSound DEF CancelClose, GateCancel


LEMMA TurnedSound ==
  ASSUME Reliable, Typed, Sound, NEW j \in Jobs, Turned(j)
  PROVE  Sound'
<1>1. PICK b : b = job[j] /\ b.pc = "turn"
  BY DEF Turned
<1>2. up /\ ~Waits(j) /\ UNCHANGED <<disk, stored, doomed, up, tabs, path, text, base, unwritten, timer>>
  BY DEF Turned
<1>3. Busy(b) /\ WhileUp
  BY <1>1, <1>2 DEF Sound, WhileUp
<1>4. timer => b.at = active /\ active' = active
  BY <1>1, <1>3 DEF Busy, Turned
<1>5. \A t \in Open : Timed(t) => Timed(t)'
  BY <1>2, <1>4 DEF Timed, Shown, Current
<1>6. gate' # None => Closing
  <2>1. gate' # None => gate # None \/ b.then = "gate"
    BY <1>1 DEF Turned
  <2>2. b.then = "gate" => Ending(b)
    BY <1>1 DEF Ending
  <2>3. Ending(b) => Closing
    BY <1>1, Script
  <2> QED
    BY <2>1, <2>2, <2>3 DEF Closing
<1>7. ASSUME Closing, timer', Shown'
      PROVE  ~Dirty(Current)'
  <2>1. Shown /\ Current' = Current
    BY <1>2, <1>4, <1>7 DEF Shown, Current
  <2>2. ~Dirty(Current)
    BY <1>2, <1>3, <1>7, <2>1 DEF WhileUp
  <2> QED
    BY <1>2, <2>1, <2>2 DEF Dirty
<1>8. CASE b.tab # None
  <2>1. PICK t \in Open : t = b.tab /\ b.then = "end"
    BY <1>1, <1>3, <1>8, OpenTabs DEF Busy
  <2>2. calls' = Append(calls, Sent(text, t, {j})) /\ Become(j, Recording("end"))
    BY <1>1, <1>8, <2>1 DEF Turned
  <2>3. PICK x : x = Recording("end") /\ job'[j] = x
    BY <2>2, Resumes
  <2>4. x.pc = "record" /\ x.then = "end"
    BY <2>3 DEF Recording
  <2>5. ~FirstSave(t)
    BY <1>1, Script DEF Writing
  <2>6. Honest /\ Reported(t, {j})
    BY <1>2, <2>1, <2>2, <2>5, SentOne
  <2>7. Heard(t)'
    <3>1. Reported(t, {})
      BY <2>6 DEF Reported
    <3> QED
      BY <1>2, <2>5, <2>6, <3>1, QuietHears
  <2>8. \A u \in Open : Timed(u) \/ (b.pc \in {"turn", "delete"} /\ b.tab = u) => Told(u)'
    BY <1>5, <2>1, <2>7 DEF Told
  <2>9. Busy(x)' /\ ~Ending(x)
    BY <2>4 DEF Busy, Writing, Ending
  <2>10. Closing' => Closing
    BY <1>6, <2>3, <2>9, ScriptNext
  <2> QED
    BY <1>1, <1>2, <1>6, <1>7, <2>3, <2>6, <2>8, <2>9, <2>10, ScriptQuiet
<1>9. CASE b.tab = None
  <2>1. UNCHANGED calls /\ Become(j, Idle)
    BY <1>1, <1>9 DEF Turned
  <2>2. PICK x : x = Idle /\ job'[j] = x
    BY <2>1, Resumes
  <2>3. x.pc = "idle" /\ ~Ending(x) /\ ~Writing(x)
    BY <2>2 DEF Idle, Ending, Writing
  <2>4. Honest
    BY <2>1, NothingSent
  <2>5. Busy(x)'
    <3>1. \A k \in Jobs : ~Waits(k)'
      BY <1>2, <2>1, Script DEF Waits
    <3> QED
      BY <2>3, <3>1 DEF Busy, Writing
  <2>6. \A u \in Open : Timed(u) \/ (b.pc \in {"turn", "delete"} /\ b.tab = u) => Told(u)'
    <3>1. \A u \in Open : u # None
      BY OpenTabs, Numbers
    <3> QED
      BY <1>5, <1>9, <3>1 DEF Told
  <2>7. Closing' => Closing
    BY <1>6, <2>2, <2>3, ScriptNext
  <2> QED
    BY <1>1, <1>2, <1>6, <1>7, <2>2, <2>3, <2>4, <2>5, <2>6, <2>7, ScriptQuiet
<1> QED
  BY <1>8, <1>9

LEMMA BeginRereadSound ==
  ASSUME Reliable, Typed, Sound, NEW j \in Jobs, BeginReread(j)
  PROVE  Sound'
<1>1. Free(j) /\ Shown /\ path[Current] # None /\ Become(j, Rereading(Current))
  BY DEF BeginReread
<1>2. UNCHANGED <<disk, stored, calls, doomed, up, tabs, active, path, text, base, unwritten, timer, gate>>
  BY DEF BeginReread
<1>3. PICK x : x = Rereading(Current) /\ job'[j] = x
  BY <1>1, Resumes
<1>4. x.pc = "reread" /\ x.tab = Current /\ ~Writing(x) /\ ~Ending(x)
  BY <1>3 DEF Rereading, Writing, Ending
<1>5. PICK b : b = job[j] /\ b.pc = "idle"
  BY <1>1 DEF Free, Idle
<1>6. WhileUp /\ up /\ \A k \in Jobs : ~Waits(k)
  BY <1>1, FreeScript
<1>7. Busy(x)'
  <2>1. \A k \in Jobs : ~Waits(k)'
    BY <1>2, <1>6 DEF Waits
  <2>2. Shown' /\ Current' = Current
    BY <1>1, <1>2 DEF Shown, Current
  <2> QED
    BY <1>1, <1>2, <1>4, <2>1, <2>2 DEF Busy, Writing
<1>8. \A t \in Open : Timed(t) => Told(t)'
  BY <1>2 DEF Timed, Told, Shown, Current
<1>9. Closing' => Closing
  BY <1>2, <1>3, <1>4, ScriptNext DEF Closing
<1>10. Closing' /\ timer' /\ Shown' => ~Dirty(Current)'
  BY <1>2, <1>6, <1>9 DEF WhileUp, Shown, Current, Dirty
<1>11. Honest
  BY <1>2, NothingSent
<1> QED
  BY <1>2, <1>3, <1>4, <1>5, <1>6, <1>7, <1>8, <1>9, <1>10, <1>11, ScriptQuiet DEF Closing

LEMMA FlushAllSound ==
  ASSUME Reliable, Typed, Sound, NEW j \in Jobs, FlushAll(j)
  PROVE  Sound'
<1>1. PICK b : b = job[j] /\ b.pc = "flush"
  BY DEF FlushAll
<1>2. up /\ UNCHANGED <<disk, stored, doomed, up, tabs, active, path, text, base, unwritten, timer, gate>>
  BY DEF FlushAll
<1>3. ~timer
  <2>1. Busy(b)
    BY <1>1, <1>2 DEF Sound, WhileUp
  <2> QED
    BY <1>1, <2>1 DEF Busy
<1>4. \A t : ~FirstSave(t)
  BY <1>1, Script DEF Writing
<1>5. PICK bad : bad = {i \in DOMAIN tabs : Dirty(tabs[i])}
  OBVIOUS
<1>6. PICK order \in InOrder(bad) :
        calls' = calls \o [i \in DOMAIN order |-> Sent(text, tabs[order[i]], {j})]
  BY <1>5 DEF FlushAll
<1>7. order \in Seq(bad) /\ \A i \in bad : \E m \in DOMAIN order : order[m] = i
  <2>1. bad \in SUBSET DOMAIN tabs /\ tabs \in Seq(Tabs)
    BY <1>5 DEF Typed, Data
  <2>2. IsFiniteSet(bad) /\ bad \in SUBSET Nat
    BY <2>1, PlacesFinite
  <2> QED
    BY <2>2, Ordered
<1>8. PICK s : s = [m \in DOMAIN order |-> tabs[order[m]]]
  OBVIOUS
<1>9. DOMAIN s = DOMAIN order /\ s \in Seq(Open)
  <2>1. PICK n \in Nat : DOMAIN order = 1..n
    BY <1>7
  <2>2. \A m \in 1..n : order[m] \in DOMAIN tabs
    BY <1>5, <1>7, <2>1
  <2>3. s \in [1..n -> Open]
    BY <1>8, <2>1, <2>2, OpenTabs
  <2> QED
    BY <1>8, <2>1, <2>3
<1>10. PICK by \in SUBSET Jobs : by = {j}
  OBVIOUS
<1>11. PICK ds : ds = [i \in DOMAIN order |-> Sent(text, tabs[order[i]], {j})]
  OBVIOUS
<1>12. ds = [i \in DOMAIN s |-> ds[i]] /\ \A i \in DOMAIN s : ds[i] = Sent(text, s[i], by)
  BY <1>8, <1>9, <1>10, <1>11
<1>13. calls' = calls \o ds
  BY <1>6, <1>11
<1>14. Honest /\ \A i \in DOMAIN s : ~FirstSave(s[i]) => Reported(s[i], by)
  BY <1>2, <1>9, <1>10, <1>12, <1>13, SentAll
<1>15. ASSUME NEW t \in Open, Dirty(t)
       PROVE  Safe(t)'
  <2>1. PICK m \in DOMAIN s : s[m] = t
    <3>1. PICK i \in DOMAIN tabs : tabs[i] = t
      BY OpenTabs
    <3>2. i \in bad
      BY <1>5, <1>15, <3>1
    <3>3. PICK m \in DOMAIN order : order[m] = i
      BY <1>7, <3>2
    <3> QED
      BY <1>8, <1>9, <3>1, <3>3
  <2>2. Reported(t, by) /\ by = Jobs
    BY <1>4, <1>10, <1>14, <2>1, Script
  <2> QED
    BY <1>2, <1>4, <1>14, <2>2, QuietHears
<1>16. PICK x : x = Recording("check") /\ job'[j] = x
  BY Resumes DEF FlushAll
<1>17. x.pc = "record"
  BY <1>16 DEF Recording
<1>18. Busy(x)'
  BY <1>17 DEF Busy, Writing
<1>19. \A t \in Open : ~Timed(t)
  BY <1>3 DEF Timed
<1> QED
  BY <1>1, <1>2, <1>3, <1>14, <1>15, <1>16, <1>18, <1>19, ScriptQuiet

LEMMA ClosedSound ==
  ASSUME Reliable, Typed, Sound, NEW j \in Jobs, NEW tx, NEW cs, NEW done, FinishClose(j, tx, cs, done),
         text' = tx, UNCHANGED <<tabs, base>>,
         \A t \in Open : tx[t] # base[t] => Landed(t, Keeping(t))',
         \A t, f : Named(t, f)' => Named(t, f)
  PROVE  Sound'
<1>1. up' = FALSE /\ doomed' = {t \in Open : tx[t] = base[t]}
  BY DEF FinishClose
<1>2. \A k \in Jobs : job'[k] = Idle
  <2>1. Jobs = {j} /\ job' = [Abandoned EXCEPT ![j] = Idle]
    BY Script DEF FinishClose
  <2>2. DOMAIN Abandoned = Jobs
    BY DEF Abandoned
  <2> QED
    BY <2>1, <2>2
<1>3. Open' = Open /\ OneEach'
  BY DEF Open, OneEach, Sound
<1>4. ASSUME NEW t \in Open, Dirty(t)'
      PROVE  t \notin doomed' /\ Landed(t, Keeping(t))'
  BY <1>1, <1>4 DEF Dirty
<1>5. WhileDown'
  BY <1>2, <1>3, <1>4 DEF WhileDown
<1> QED
  BY <1>1, <1>3, <1>5 DEF Sound, Distinct

(* The record that shows a tab with changes holds them.                         *)
LEMMA TellingKeeps ==
  ASSUME Typed, Sound, up, NEW t \in Open, Dirty(t), ~FirstSave(t), ~Written(t)
  PROVE  Telling(t) \subseteq Keeping(t)
<1>1. Under(t) = base[t]
  BY DEF Sound, WhileUp, Grounded
<1>2. ASSUME NEW r \in Telling(t)
      PROVE  r \in Keeping(t)
  <2>1. r \in Record /\ r.path = path[t] /\ Restored(r) = text[t]
    BY <1>2 DEF Telling
  <2>2. r.dirty
    BY <1>1, <2>1 DEF Restored, OnFile, Under, Dirty
  <2> QED
    BY <2>1, <2>2 DEF Keeping, Restored
<1> QED
  BY <1>2

(* The window closes: what cannot be written is asked about first.              *)
LEMMA ReadyToClose ==
  ASSUME Reliable, Typed, Sound, up, NEW j \in Jobs, ~Waits(j), Closing,
         NEW t \in Open, Dirty(t), ~FirstSave(t), ~Written(t), t \notin unwritten
  PROVE  Landed(t, Keeping(t))
<1>1. Safe(t)
  BY DEF Sound, WhileUp, Secure
<1>2. Landed(t, Telling(t))
  BY <1>1, Alone DEF Failed
<1>3. Telling(t) \subseteq Keeping(t)
  BY TellingKeeps
<1> QED
  BY <1>2, <1>3, Wider

LEMMA RecordedSound ==
  ASSUME Reliable, Typed, Sound, NEW j \in Jobs, Recorded(j)
  PROVE  Sound'
<1>1. PICK b : b = job[j] /\ b.pc = "record"
  BY DEF Recorded
<1>2. up /\ ~Waits(j) /\ UNCHANGED <<disk, stored, tabs, active, path, text, base, unwritten>>
  BY DEF Recorded
<1>3. \A t : ~FirstSave(t) /\ ~Written(t)
  BY <1>1, Script DEF Writing
<1>4. CASE b.then = "end"
  <2>1. UNCHANGED <<calls, doomed, up, gate, timer>> /\ Become(j, Idle)
    BY <1>1, <1>4 DEF Recorded
  <2>2. gate' # None => Closing
    BY <2>1 DEF Closing
  <2> QED
    BY <1>1, <1>2, <2>1, <2>2, StopSound
<1>5. CASE b.then = "close"
  <2>1. UNCHANGED <<calls, doomed, up, gate>> /\ BeginDelete(j, None)
    BY <1>1, <1>5 DEF Recorded
  <2>2. gate' # None => Closing
    BY <2>1 DEF Closing
  <2> QED
    BY <1>1, <1>2, <2>1, <2>2, TakeDownSound
<1>6. CASE b.then \in {"gate", "check"}
  <2>1. Closing
    <3>1. Ending(b)
      BY <1>1, <1>6 DEF Ending
    <3> QED
      BY <1>1, <3>1, Script
  <2>2. Prompt(j, text, calls, settled)
    BY <1>1, <1>6 DEF Recorded
  <2>3. CASE Unwritable(text) = {} /\ FinishClose(j, text, calls, settled)
    <3>1. ASSUME NEW t \in Open, text[t] # base[t]
          PROVE  Landed(t, Keeping(t))'
      <4>1. Dirty(t)
        BY <3>1 DEF Dirty
      <4>2. t \notin unwritten
        <5>1. PICK i \in DOMAIN tabs : tabs[i] = t
          BY OpenTabs
        <5> QED
          BY <2>3, <3>1, <5>1 DEF Unwritable
      <4>3. Landed(t, Keeping(t))
        BY <1>2, <1>3, <2>1, <4>1, <4>2, ReadyToClose
      <4>4. calls' = calls
        BY <2>3 DEF FinishClose
      <4> QED
        BY <1>2, <4>3, <4>4 DEF Landed, Keeping
    <3>2. \A t, f : Named(t, f)' => Named(t, f)
      <4>1. Honest
        BY <2>3, NothingSent DEF FinishClose
      <4> QED
        BY <1>2, <4>1, HonestNames
    <3>3. PICK tx, cs, done : FinishClose(j, tx, cs, done) /\ tx = text
      BY <2>3
    <3> QED
      BY <1>2, <3>1, <3>2, <3>3, ClosedSound
  <2>4. ASSUME NEW i \in DOMAIN tabs, i = active, gate' = tabs[i], calls' = calls,
               Become(j, Idle), UNCHANGED <<timer, doomed, up>>
        PROVE  Sound'
    BY <1>1, <1>2, <2>1, <2>4, StopSound
  <2>5. ASSUME NEW i \in DOMAIN tabs, FlushTimer(j, text, calls, settled),
               Become(j, Turning(i, None, "gate")), UNCHANGED <<gate, doomed, up>>
        PROVE  Sound'
    <3>1. PICK x : x = Turning(i, None, "gate")
      OBVIOUS
    <3>2. x.pc = "turn" /\ x.tab = None
      BY <3>1 DEF Turning
    <3> QED
      BY <1>1, <1>2, <2>1, <2>5, <3>1, <3>2, FlushSound
  <2> QED
    BY <2>2, <2>3, <2>4, <2>5 DEF Prompt
<1> QED
  BY <1>1, <1>4, <1>5, <1>6 DEF Recorded


LEMMA WriteQuiet ==
  ASSUME Reliable, Typed, Sound, NEW j \in Jobs, Free(j), Shown, NEW f \in Files,
         NEW how \in {"save", "as"}, NEW then, then # "check", then = "gate" => gate # None,
         Become(j, Write(Current, f, text[Current], how, then)),
         how = "save" => f = path[Current], \A u \in Tabs \ {Current} : ~Named(u, f),
         UNCHANGED <<disk, stored, calls, doomed, up, tabs, active, path, text, base, unwritten, timer, gate>>
  PROVE  Sound'
<1>1. PICK x : x = Write(Current, f, text[Current], how, then) /\ job'[j] = x
  BY Resumes
<1>2. /\ x.pc = "write" /\ x.tab = Current /\ x.to = f /\ x.out = text[Current]
      /\ x.how = how /\ x.then = then
  BY <1>1 DEF Write
<1>3. WhileUp /\ up /\ (\A k \in Jobs : ~Waits(k)) /\ Current \in Open
  BY FreeScript, OpenTabs
<1>4. Honest
  BY NothingSent
<1>5. Busy(x)'
  <2>1. \A k \in Jobs : ~Waits(k)'
    BY <1>3 DEF Waits
  <2>2. \A u \in Tabs \ {x.tab} : ~Named(u, x.to)'
    BY <1>2, <1>4, HonestNames
  <2>3. Current' = Current /\ Open' = Open
    BY DEF Current, Open
  <2> QED
    BY <1>2, <1>3, <2>1, <2>2, <2>3 DEF Busy, Writing
<1>6. Ending(x) => Closing
  BY <1>2 DEF Ending, Closing
<1>7. Closing' => Closing
  BY <1>1, <1>6, ScriptNext DEF Closing
<1>8. Closing' /\ timer' /\ Shown' => ~Dirty(Current)'
  BY <1>3, <1>7 DEF WhileUp, Shown, Current, Dirty
<1>9. \A t \in Open : Timed(t) => Told(t)'
  BY DEF Timed, Told, Shown, Current
<1>10. PICK b : b = job[j] /\ b.pc = "idle"
  BY DEF Free, Idle
<1> QED
  BY <1>1, <1>3, <1>4, <1>5, <1>6, <1>8, <1>9, <1>10, ScriptQuiet DEF Closing

LEMMA OneName ==
  ASSUME Sound, NEW t, NEW f, \A u \in Tabs \ {t} : ~Named(u, f),
         \A u \in Tabs, g \in Files : Named(u, g)' => Named(u, g) \/ (u = t /\ g = f)
  PROVE  Distinct'
BY DEF Sound, Distinct

(* An untitled tab gets a name.                                              *)
LEMMA FirstSound ==
  ASSUME Reliable, Typed, Sound, NEW j \in Jobs, Free(j), NEW t, t = Current, Shown, path[t] = None,
         NEW f \in Offered(t), path' = [path EXCEPT ![t] = f],
         NEW then, then \notin {"check", "gate"}, Become(j, Write(t, f, text[t], "first", then)),
         UNCHANGED <<disk, stored, calls, doomed, up, tabs, active, text, base, unwritten, timer, gate>>
  PROVE  Sound'
<1>1. WhileUp /\ up /\ (\A k \in Jobs : ~Waits(k)) /\ t \in Open /\ t \in Tabs
  BY FreeScript, OpenTabs
<1>2. f \in Files /\ \A u \in Open \ {t} : path[u] # f
  BY DEF Offered, Reliable, OneAtATime
<1>3. \A u \in Tabs \ {t} : ~Named(u, f)
  BY <1>2, Fresh
<1>4. path'[t] = f /\ \A u \in Tabs \ {t} : path'[u] = path[u]
  BY <1>1 DEF Typed, Data
<1>5. \A u \in Tabs : \A g : Named(u, g)' => Named(u, g) \/ (u = t /\ g = f)
  BY <1>4 DEF Named, Open
<1>6. Distinct'
  BY <1>3, <1>5, OneName
<1>7. PICK x : x = Write(t, f, text[t], "first", then) /\ job'[j] = x
  BY Resumes
<1>8. /\ x.pc = "write" /\ x.tab = t /\ x.to = f /\ x.out = text[t]
      /\ x.how = "first" /\ x.then = then
  BY <1>7 DEF Write
<1>9. Busy(x)'
  <2>1. \A k \in Jobs : ~Waits(k)'
    BY <1>1 DEF Waits
  <2>2. \A u \in Tabs \ {x.tab} : ~Named(u, x.to)'
    BY <1>2, <1>3, <1>5, <1>8
  <2>3. Open' = Open
    BY DEF Open
  <2> QED
    BY <1>1, <1>2, <1>4, <1>8, <2>1, <2>2, <2>3 DEF Busy, Writing
<1>10. FirstSave(t)'
  BY <1>7, <1>8, ScriptNext DEF Writing
<1>11. Closing' => Closing
  BY <1>7, <1>8, ScriptNext DEF Closing, Ending
<1>12. ASSUME NEW u \in Open
       PROVE  Grounded(u)' /\ InPlace(u)' /\ Told(u)' /\ Secure(u)'
  <2>1. CASE u = t
    BY <1>10, <2>1 DEF Grounded, InPlace, Told, Secure
  <2>2. CASE u # t
    <3>1. ~FirstSave(u) /\ ~Written(u) /\ ~Passing(u) /\ path'[u] = path[u]
      BY <1>4, <2>2, FreeScript, OpenTabs
    <3>2. Grounded(u) /\ InPlace(u) /\ Told(u) /\ Secure(u)
      BY <1>1 DEF WhileUp
    <3>3. Placed(u)' = Placed(u) /\ Renaming(u)' = Renaming(u) /\ Telling(u)' = Telling(u)
      BY <3>1 DEF Placed, Renaming, Telling, Restored, OnFile
    <3>4. Honest
      BY NothingSent
    <3>5. (Lying(u) => Lying(u)') /\ (Heard(u) => Heard(u)') /\ (Safe(u) => Safe(u)')
      BY <3>1, <3>3, <3>4, HonestKeeps
    <3>6. Grounded(u)'
      BY <3>1, <3>2 DEF Grounded, Under
    <3>7. InPlace(u)'
      BY <3>1, <3>2, <3>5 DEF InPlace
    <3>8. Told(u)'
      BY <3>1, <3>2, <3>5 DEF Told, Timed, Shown, Current
    <3>9. Secure(u)'
      BY <1>11, <3>1, <3>2, <3>5 DEF Secure, Dirty
    <3> QED
      BY <3>6, <3>7, <3>8, <3>9
  <2> QED
    BY <2>1, <2>2
<1>13. Open' = Open /\ Kept' = Kept
  BY DEF Open, Kept
<1>14. \A k \in Jobs : Busy(job[k])'
  BY <1>7, <1>9, ScriptNext
<1>15. Closing' /\ timer' /\ Shown' => ~Dirty(Current)'
  BY <1>1, <1>11 DEF WhileUp, Shown, Current, Dirty
<1>16. WhileUp'
  BY <1>1, <1>12, <1>13, <1>14, <1>15 DEF WhileUp
<1> QED
  BY <1>1, <1>6, <1>16 DEF Sound, OneEach

LEMMA SaveSound ==
  ASSUME Reliable, Typed, Sound, NEW j \in Jobs, Save(j) \/ ConfirmSave(j)
  PROVE  Sound'
<1>1. PICK then \in {"end", "close"} : SaveActive(j, then)
  BY DEF Save, ConfirmSave
<1>2. Free(j) /\ Shown /\ gate' = gate
  BY DEF Save, ConfirmSave
<1>3. UNCHANGED <<disk, stored, calls, doomed, up, tabs, active, text, base, unwritten, timer>>
  BY <1>1 DEF SaveActive
<1>4. PICK t : t = Current
  OBVIOUS
<1>5. t \in Open /\ t \in Tabs /\ path[t] \in Files \cup {None}
  BY <1>2, <1>4, OpenTabs DEF Typed, Data
<1>6. CASE path[t] # None
  <2>1. PICK f \in Files : f = path[t]
    BY <1>5, <1>6
  <2>2. Become(j, Write(Current, f, text[Current], "save", then)) /\ path' = path
    BY <1>1, <1>4, <1>6, <2>1 DEF SaveActive, BeginWrite
  <2>3. Named(t, f)
    BY <1>5, <2>1 DEF Named
  <2>4. \A u \in Tabs \ {Current} : ~Named(u, f)
    BY <1>4, <1>5, <2>3 DEF Sound, Distinct
  <2> QED
    BY <1>2, <1>3, <1>4, <2>1, <2>2, <2>4, WriteQuiet
<1>7. CASE path[t] = None
  <2>1. PICK f \in Offered(t) :
          path' = [path EXCEPT ![t] = f] /\ Become(j, Write(t, f, text[t], "first", then))
    BY <1>1, <1>4, <1>7 DEF SaveActive, BeginWrite
  <2> QED
    BY <1>1, <1>2, <1>3, <1>4, <1>7, <2>1, FirstSound
<1> QED
  BY <1>6, <1>7

LEMMA SaveAsSound ==
  ASSUME Reliable, Typed, Sound, NEW j \in Jobs, SaveAs(j, "end") \/ GateSave(j)
  PROVE  Sound'
<1>1. PICK then \in {"end", "gate"} : SaveAs(j, then) /\ (then = "gate" => gate # None)
  BY DEF GateSave
<1>2. PICK f \in Offered(Current) : Become(j, Write(Current, f, text[Current], "as", then))
  BY <1>1 DEF SaveAs, BeginWrite
<1>3. /\ Free(j) /\ Shown
      /\ UNCHANGED <<disk, stored, calls, doomed, up, tabs, active, path, text, base, unwritten, timer, gate>>
  BY <1>1 DEF SaveAs
<1>4. f \in Files /\ \A u \in Open \ {Current} : path[u] # f
  BY DEF Offered, Reliable, OneAtATime
<1>5. PICK t : t = Current
  OBVIOUS
<1>6. \A u \in Tabs \ {Current} : ~Named(u, f)
  BY <1>3, <1>4, <1>5, Fresh
<1> QED
  BY <1>1, <1>2, <1>3, <1>4, <1>6, WriteQuiet

(* Scripts that wait belong to a window.                                      *)
LEMMA AtWork ==
  ASSUME Sound, NEW j \in Jobs, NEW b, b = job[j], b.pc # "idle"
  PROVE  up /\ WhileUp /\ Busy(b)
<1>1. b # Idle
  BY DEF Idle
<1> QED
  BY <1>1 DEF Sound, WhileUp, WhileDown

LEMMA WriteFileSound ==
  ASSUME Reliable, Typed, Sound, NEW j \in Jobs, WriteFile(j)
  PROVE  Sound'
<1>1. PICK b : b = job[j] /\ b.pc = "write"
  BY DEF WriteFile
<1>2. up /\ WhileUp /\ Busy(b)
  BY <1>1, AtWork
<1>3. UNCHANGED <<stored, calls, doomed, up, tabs, active, path, text, base, unwritten, timer, gate>>
  BY DEF WriteFile
<1>4. PICK x : x = Wrote(b.tab, b.to, b.out, b.how, b.then) /\ job'[j] = x
  BY <1>1, <1>2, Resumes DEF WriteFile
<1>5. /\ x.pc = "wrote" /\ x.tab = b.tab /\ x.to = b.to /\ x.out = b.out
      /\ x.how = b.how /\ x.then = b.then
  BY <1>4 DEF Wrote
<1>6. /\ b.tab \in Open /\ b.to \in Files /\ b.out = text[b.tab]
      /\ b.how \in {"save", "first"} => b.to = path[b.tab]
      /\ \A u \in Tabs \ {b.tab} : ~Named(u, b.to)
      /\ b.then # "check" /\ \A k \in Jobs : ~Waits(k)
  BY <1>1, <1>2 DEF Busy, Writing
<1>7. disk'[b.to] = b.out /\ \A f \in Files : f # b.to => disk'[f] = disk[f]
  BY <1>1, <1>6 DEF WriteFile, Typed, Data
<1>8. \A u \in Open \ {b.tab} : path[u] # b.to
  BY <1>6, OpenTabs DEF Named
<1>9. Open' = Open /\ Kept' = Kept
  BY <1>3 DEF Open, Kept
<1>10. Closing' => Closing
  <2>1. Ending(x) => Ending(b)
    BY <1>1, <1>5, <1>6 DEF Ending
  <2> QED
    BY <1>1, <1>3, <1>4, <2>1, Script, ScriptNext
<1>11. Honest
  BY <1>3, NothingSent
<1>12. Busy(x)'
  <2>1. \A k \in Jobs : ~Waits(k)'
    BY <1>3, <1>6 DEF Waits
  <2>2. \A u \in Tabs \ {x.tab} : ~Named(u, x.to)'
    BY <1>3, <1>5, <1>6, <1>11, HonestNames
  <2> QED
    BY <1>3, <1>5, <1>6, <1>7, <1>9, <2>1, <2>2 DEF Busy, Writing
<1>13. ASSUME NEW u \in Open
       PROVE  Grounded(u)' /\ InPlace(u)' /\ Told(u)' /\ Secure(u)'
  <2>0. u \in Tabs /\ path[u] \in Files \cup {None} /\ None \notin Files
    BY OpenTabs, Numbers DEF Typed, Data
  <2>1. Grounded(u) /\ InPlace(u) /\ Told(u) /\ Secure(u)
    BY <1>2 DEF WhileUp
  <2>2. FirstSave(u) => FirstSave(u)'
    BY <1>1, <1>4, <1>5, Script, ScriptNext DEF Writing
  <2>3. ~Passing(u) /\ ~Written(u)
    BY <1>1, Script
  <2>4. PICK P, L, N : P = Placed(u)' /\ L = Telling(u)' /\ N = Renaming(u)'
    OBVIOUS
  <2>5. Placed(u) \subseteq P /\ Renaming(u) \subseteq N
    BY <1>3, <2>4 DEF Placed, Renaming
  <2>6. ASSUME NEW r \in Telling(u)
        PROVE  r \in L
    <3>1. r \in Record /\ r.path = path[u] /\ Restored(r) = text[u]
      BY <2>6 DEF Telling
    <3>2. CASE path[u] = b.to
      <4>1. u = b.tab
        BY <1>8, <3>2
      <4>2. Restored(r)' = text[u]
        BY <1>6, <1>7, <2>0, <3>1, <3>2, <4>1 DEF Restored, OnFile
      <4> QED
        BY <1>3, <2>4, <3>1, <4>2 DEF Telling
    <3>3. CASE path[u] # b.to
      <4>1. Restored(r)' = Restored(r)
        BY <1>7, <2>0, <3>1, <3>3 DEF Restored, OnFile
      <4> QED
        BY <1>3, <2>4, <3>1, <4>1 DEF Telling
    <3> QED
      BY <3>2, <3>3
  <2>7. Grown /\ Since(u, P) /\ Since(u, L)
    BY <1>3, <1>11 DEF Since, Honest
  <2>8. (Lying(u) => Lying(u)') /\ (Heard(u) => Heard(u)') /\ (Safe(u) => Safe(u)')
    BY <1>3, <2>0, <2>4, <2>5, <2>6, <2>7, CarriedPlace, CarriedText
  <2>9. Grounded(u)'
    <3>1. CASE FirstSave(u)
      BY <2>2, <3>1 DEF Grounded
    <3>2. CASE path[u] = b.to
      <4>1. u = b.tab
        BY <1>8, <3>2
      <4>2. Written(u)'
        BY <1>3, <1>4, <1>5, <3>2, <4>1, ScriptNext
      <4> QED
        BY <4>2 DEF Grounded
    <3>3. CASE path[u] # b.to /\ ~FirstSave(u)
      <4>1. Under(u) = base[u] /\ Under(u)' = Under(u)
        BY <1>3, <1>7, <2>0, <2>1, <2>3, <3>3 DEF Grounded, Under
      <4> QED
        BY <1>3, <4>1 DEF Grounded
    <3> QED
      BY <3>1, <3>2, <3>3
  <2>10. InPlace(u)'
    BY <2>1, <2>2, <2>8 DEF InPlace
  <2>11. Told(u)'
    BY <1>3, <2>1, <2>2, <2>3, <2>8 DEF Told, Timed, Shown, Current
  <2>12. Secure(u)'
    BY <1>3, <1>10, <2>1, <2>2, <2>8 DEF Secure, Dirty
  <2> QED
    BY <2>9, <2>10, <2>11, <2>12
<1>14. \A k \in Jobs : Busy(job[k])'
  BY <1>4, <1>12, ScriptNext
<1>15. Closing' /\ timer' /\ Shown' => ~Dirty(Current)'
  BY <1>2, <1>3, <1>10 DEF WhileUp, Shown, Current, Dirty
<1>16. WhileUp'
  BY <1>2, <1>3, <1>9, <1>13, <1>14, <1>15 DEF WhileUp
<1>17. Distinct'
  BY <1>3, <1>11, HonestNames DEF Distinct, Sound
<1> QED
  BY <1>2, <1>3, <1>16, <1>17 DEF Sound, OneEach


(* The name under which the tab goes on, and the record that tells it.          *)
LEMMA MarkParts ==
  ASSUME Typed, NEW j \in Jobs, MarkSaved(j), NEW b, b = job[j], Busy(b)
  PROVE  \E t \in Open, f \in Files, c \in Call :
           /\ t = b.tab /\ f = b.to /\ t \in Tabs
           /\ path'[t] = f /\ base'[t] = text[t]
           /\ \A u \in Tabs \ {t} : path'[u] = path[u] /\ base'[u] = base[u]
           /\ calls' = Append(calls, c)
           /\ c.tab = t /\ c.live /\ c.by = {j} /\ c.rec = CleanRecord(f)
<1>1. b.pc = "wrote"
  BY DEF MarkSaved
<1>2. /\ b.tab \in Open /\ b.to \in Files /\ b.tab \in Tabs
      /\ b.how \in {"save", "first"} => b.to = path[b.tab]
  BY <1>1, OpenTabs DEF Busy, Writing
<1>3. b.how \in Hows
  BY <1>1, Waits1 DEF Typed, Works
<1>4. PICK t, f : t = b.tab /\ f = b.to
  OBVIOUS
<1>5. path'[t] = f /\ \A u \in Tabs \ {t} : path'[u] = path[u]
  <2>1. CASE b.how = "as"
    <3>1. path' = [path EXCEPT ![t] = f]
      BY <1>4, <2>1 DEF MarkSaved
    <3> QED
      BY <1>2, <1>4, <3>1 DEF Typed, Data
  <2>2. CASE b.how # "as"
    <3>1. path' = path
      BY <2>2 DEF MarkSaved
    <3> QED
      BY <1>2, <1>3, <1>4, <2>2, <3>1 DEF Hows
  <2> QED
    BY <2>1, <2>2
<1>6. base'[t] = text[t] /\ \A u \in Tabs \ {t} : base'[u] = base[u]
  <2>1. base' = [base EXCEPT ![t] = text[t]]
    BY <1>4 DEF MarkSaved
  <2> QED
    BY <1>2, <1>4, <2>1 DEF Typed, Data
<1>7. PICK c : c = [tab |-> t, live |-> TRUE, by |-> {j}, rec |-> CleanRecord(f)]
  OBVIOUS
<1>8. c \in Call
  BY <1>2, <1>4, <1>7, CleanTyped
<1>9. calls' = Append(calls, c)
  BY <1>4, <1>5, <1>7 DEF MarkSaved
<1> QED
  BY <1>2, <1>4, <1>5, <1>6, <1>7, <1>8, <1>9

LEMMA OneMoreCall ==
  ASSUME Typed, NEW c \in Call, c.live, calls' = Append(calls, c)
  PROVE  /\ Grown
         /\ \A i \in DOMAIN calls' : i \notin DOMAIN calls => calls'[i] = c
         /\ \E i \in DOMAIN calls' : i \notin DOMAIN calls /\ calls'[i] = c
         /\ \A i \in DOMAIN calls : calls'[i] = calls[i]
         /\ \A k \in Jobs : Waits(k)' => Waits(k) \/ k \in c.by
<1>1. calls \in Seq(Call)
  BY DEF Typed, Sends
<1>2. PICK cs : cs = Append(calls, c)
  OBVIOUS
<1>3. /\ cs \in Seq(Call) /\ Len(cs) = Len(calls) + 1
      /\ \A i \in DOMAIN cs : i \in DOMAIN calls \/ i = Len(calls) + 1
      /\ Len(calls) + 1 \in DOMAIN cs /\ Len(calls) + 1 \notin DOMAIN calls
      /\ cs[Len(calls) + 1] = c
      /\ \A i \in DOMAIN calls : i \in DOMAIN cs /\ cs[i] = calls[i]
  BY <1>1, <1>2, Appending
<1>4. cs = calls'
  BY <1>2
<1>5. Grown
  BY <1>3, <1>4 DEF Grown
<1>6. \A i \in DOMAIN calls' : i \notin DOMAIN calls => calls'[i] = c
  BY <1>3, <1>4
<1>7. \E i \in DOMAIN calls' : i \notin DOMAIN calls /\ calls'[i] = c
  BY <1>3, <1>4
<1>8. \A i \in DOMAIN calls : calls'[i] = calls[i]
  BY <1>3, <1>4
<1>9. \A k \in Jobs : Waits(k)' => Waits(k) \/ k \in c.by
  BY <1>6, <1>8 DEF Waits
<1> QED
  BY <1>5, <1>6, <1>7, <1>8, <1>9

LEMMA MarkSound ==
  ASSUME Reliable, Typed, Sound, NEW j \in Jobs, MarkSaved(j)
  PROVE  Sound'
<1>1. PICK b : b = job[j] /\ b.pc = "wrote"
  BY DEF MarkSaved
<1>2. up /\ WhileUp /\ Busy(b)
  BY <1>1, AtWork
<1>3. PICK t \in Open, f \in Files, c \in Call :
        /\ t = b.tab /\ f = b.to /\ t \in Tabs
        /\ path'[t] = f /\ base'[t] = text[t]
        /\ \A u \in Tabs \ {t} : path'[u] = path[u] /\ base'[u] = base[u]
        /\ calls' = Append(calls, c)
        /\ c.tab = t /\ c.live /\ c.by = {j} /\ c.rec = CleanRecord(f)
  BY <1>1, <1>2, MarkParts
<1>4. /\ Grown
      /\ \A i \in DOMAIN calls' : i \notin DOMAIN calls => calls'[i] = c
      /\ \E i \in DOMAIN calls' : i \notin DOMAIN calls /\ calls'[i] = c
      /\ \A i \in DOMAIN calls : calls'[i] = calls[i]
  BY <1>3, OneMoreCall
<1>5. UNCHANGED <<disk, stored, doomed, up, tabs, active, text, unwritten, timer, gate>>
  BY DEF MarkSaved
<1>6. /\ disk[f] = text[t] /\ b.then # "check"
      /\ \A u \in Tabs \ {t} : ~Named(u, f)
  BY <1>1, <1>2, <1>3 DEF Busy, Writing
<1>7. CleanRecord(f).path = f /\ ~CleanRecord(f).dirty /\ CleanRecord(f) \in Record
  BY <1>3, CleanTyped DEF CleanRecord
<1>8. \A u \in Tabs : \A g : Named(u, g)' => Named(u, g) \/ (u = t /\ g = f)
  <2>1. \A u \in Tabs : \A g : u \in Open' /\ path'[u] = g => Named(u, g) \/ (u = t /\ g = f)
    BY <1>3, <1>5 DEF Named, Open
  <2>2. \A u \in Tabs : \A g : (\E i \in DOMAIN calls' : calls'[i].tab = u /\ calls'[i].live /\ calls'[i].rec.path = g)
                             => Named(u, g) \/ (u = t /\ g = f)
    BY <1>3, <1>4, <1>7 DEF Named
  <2>3. \A u \in Tabs : \A g : stored'[u] # None /\ stored'[u].path = g => Named(u, g)
    BY <1>5 DEF Named
  <2> QED
    BY <2>1, <2>2, <2>3 DEF Named
<1>9. Distinct'
  BY <1>6, <1>8, OneName
<1>10. PICK x : x = Recording(b.then) /\ job'[j] = x
  BY <1>1, Resumes DEF MarkSaved
<1>11. x.pc = "record" /\ x.then = b.then
  BY <1>10 DEF Recording
<1>12. Busy(x)'
  BY <1>11 DEF Busy, Writing
<1>13. Closing' => Closing
  <2>1. Ending(x) => Ending(b)
    BY <1>1, <1>6, <1>11 DEF Ending
  <2> QED
    BY <1>1, <1>5, <1>10, <2>1, Script, ScriptNext
<1>14. Jobs = {j}
  BY Script
<1>15. ASSUME NEW u \in Open
       PROVE  Grounded(u)' /\ InPlace(u)' /\ Told(u)' /\ Secure(u)'
  <2>0. u \in Tabs /\ None \notin Files
    BY OpenTabs, Numbers
  <2>1. PICK P, L, N : P = Placed(u)' /\ L = Telling(u)' /\ N = Renaming(u)'
    OBVIOUS
  <2>2. CASE u = t
    <3>1. c.rec \in P /\ c.rec \in N
      BY <1>3, <1>7, <2>1, <2>2 DEF Placed, Renaming
    <3>2. c.rec \in L
      <4>1. Restored(CleanRecord(f))' = text'[t]
        BY <1>3, <1>5, <1>6, <1>7, <2>0 DEF Restored, OnFile
      <4> QED
        BY <1>3, <1>7, <2>1, <2>2, <4>1 DEF Telling
    <3>3. Since(u, P) /\ Since(u, L)
      BY <1>4, <3>1, <3>2 DEF Since
    <3>4. PICK i \in DOMAIN calls' : i \notin DOMAIN calls /\ calls'[i] = c
      BY <1>4
    <3>5. Pending(u, Jobs, N, P)'
      BY <1>3, <1>4, <1>14, <2>0, <2>2, <3>1, <3>3, <3>4, GrownPending
    <3>6. Pending(u, {}, L, L)'
      BY <1>3, <1>4, <2>0, <2>2, <3>2, <3>3, <3>4, GrownPending
    <3>7. Lying(u)' /\ Heard(u)'
      BY <2>1, <3>5, <3>6, PartsThen
    <3>8. Grounded(u)'
      BY <1>3, <1>5, <1>6, <2>0, <2>2 DEF Grounded, Under
    <3>9. ~Dirty(u)'
      BY <1>3, <1>5, <2>2 DEF Dirty
    <3> QED
      BY <3>7, <3>8, <3>9 DEF InPlace, Told, Secure
  <2>3. CASE u # t
    <3>1. ~FirstSave(u) /\ ~Written(u) /\ ~Passing(u) /\ path'[u] = path[u] /\ base'[u] = base[u]
      BY <1>1, <1>3, <2>0, <2>3, Script
    <3>2. Grounded(u) /\ InPlace(u) /\ Told(u) /\ Secure(u)
      BY <1>2 DEF WhileUp
    <3>3. Placed(u) \subseteq P /\ Renaming(u) \subseteq N /\ Telling(u) \subseteq L
      BY <1>5, <2>1, <3>1 DEF Placed, Renaming, Telling, Restored, OnFile
    <3>4. Since(u, P) /\ Since(u, L)
      BY <1>3, <1>4, <2>3 DEF Since
    <3>5. (Lying(u) => Lying(u)') /\ (Heard(u) => Heard(u)') /\ (Safe(u) => Safe(u)')
      BY <1>4, <1>5, <2>0, <2>1, <3>3, <3>4, CarriedPlace, CarriedText
    <3>6. Grounded(u)'
      BY <1>5, <3>1, <3>2 DEF Grounded, Under
    <3>7. InPlace(u)'
      BY <3>1, <3>2, <3>5 DEF InPlace
    <3>8. Told(u)'
      BY <1>5, <3>1, <3>2, <3>5 DEF Told, Timed, Shown, Current
    <3>9. Secure(u)'
      BY <1>5, <1>13, <3>1, <3>2, <3>5 DEF Secure, Dirty
    <3> QED
      BY <3>6, <3>7, <3>8, <3>9
  <2> QED
    BY <2>2, <2>3
<1>16. Open' = Open /\ Kept' = Kept
  BY <1>5 DEF Open, Kept
<1>17. \A k \in Jobs : Busy(job[k])'
  BY <1>10, <1>12, ScriptNext
<1>18. Closing' /\ timer' /\ Shown' => ~Dirty(Current)'
  <2>1. \A u \in Tabs : Dirty(u)' => Dirty(u)
    BY <1>3, <1>5 DEF Dirty
  <2>2. Shown' => Shown /\ Current' = Current /\ Current \in Tabs
    BY <1>5, OpenTabs DEF Shown, Current
  <2>3. Closing' /\ timer' /\ Shown' => ~Dirty(Current)
    BY <1>2, <1>5, <1>13, <2>2 DEF WhileUp
  <2>4. Shown' => (Dirty(Current)' <=> text'[Current] # base'[Current])
    BY <1>5, <2>2 DEF Dirty
  <2>5. Shown' => (base'[Current] = base[Current] \/ base'[Current] = text[Current])
    BY <1>3, <2>2
  <2> QED
    BY <1>5, <2>3, <2>4, <2>5 DEF Dirty
<1>19. \A i \in DOMAIN calls' : calls'[i].tab \in Open
  BY <1>2, <1>3, <1>4 DEF WhileUp
<1>20. WhileUp'
  BY <1>2, <1>5, <1>15, <1>16, <1>17, <1>18, <1>19 DEF WhileUp
<1> QED
  BY <1>2, <1>5, <1>9, <1>20 DEF Sound, OneEach

(* One tab has gone.                                                        *)
LEMMA OneLess ==
  ASSUME Typed, OneEach, NEW i \in DOMAIN tabs, tabs' = RemoveAt(tabs, i)
  PROVE  OneEach' /\ Open' = Open \ {tabs[i]}
<1>1. tabs \in Seq(Tabs) /\ DOMAIN tabs = 1..Len(tabs) /\ Len(tabs) \in Nat
  BY DEF Typed, Data
<1>2. /\ DOMAIN tabs' = 1..(Len(tabs) - 1)
      /\ \A k \in 1..(Len(tabs) - 1) : tabs'[k] = tabs[Old(i, k)]
  <2>1. /\ DOMAIN RemoveAt(tabs, i) = 1..(Len(tabs) - 1)
        /\ \A k \in 1..(Len(tabs) - 1) : RemoveAt(tabs, i)[k] = IF k < i THEN tabs[k] ELSE tabs[k + 1]
    BY <1>1, RemovedAt
  <2> QED
    BY <2>1 DEF Old
<1>3. /\ \A k \in DOMAIN tabs' : Old(i, k) \in DOMAIN tabs /\ Old(i, k) # i /\ New(i, Old(i, k)) = k
      /\ \A k \in DOMAIN tabs : k # i => New(i, k) \in DOMAIN tabs' /\ Old(i, New(i, k)) = k
  BY <1>1, <1>2, Places
<1>4. OneEach'
  BY <1>2, <1>3 DEF OneEach
<1>5. \A t \in Open' : t \in Open \ {tabs[i]}
  BY <1>2, <1>3 DEF OneEach, Open, ToSet
<1>6. \A t \in Open \ {tabs[i]} : t \in Open'
  BY <1>2, <1>3 DEF Open, ToSet
<1> QED
  BY <1>4, <1>5, <1>6

LEMMA DeleteSound ==
  ASSUME Reliable, Typed, Sound, NEW j \in Jobs, DeleteTab(j)
  PROVE  Sound'
<1>1. PICK b, t, i : b = job[j] /\ b.pc = "delete" /\ t = b.tab /\ i = b.at
  BY DEF DeleteTab
<1>2. up /\ WhileUp /\ Busy(b)
  BY <1>1, AtWork
<1>3. i \in DOMAIN tabs /\ t = tabs[i] /\ ~timer /\ (\A k \in Jobs : ~Waits(k)) /\ t \in Tabs
  BY <1>1, <1>2, OpenTabs DEF Busy
<1>4. \A k \in DOMAIN calls : calls[k].tab # t
  BY <1>1 DEF DeleteTab, Reliable
<1>5. /\ UNCHANGED <<disk, calls, doomed, path, text, base, unwritten, timer, gate>>
      /\ stored'[t] = None /\ \A u \in Tabs \ {t} : stored'[u] = stored[u]
  BY <1>1, <1>3 DEF DeleteTab, Typed, Data
<1>6. tabs' = RemoveAt(tabs, i)
  BY <1>1, <1>3 DEF DeleteTab, Splice
<1>7. OneEach' /\ Open' = Open \ {t}
  BY <1>3, <1>6, OneLess DEF Sound
<1>8. \A u, f : u \in Tabs /\ Named(u, f)' => Named(u, f)
  BY <1>5, <1>7 DEF Named
<1>9. Distinct'
  BY <1>8 DEF Distinct, Sound
<1>10. \A k \in Jobs : job'[k] = Idle
  <2>1. Jobs = {j}
    BY Script
  <2>2. DOMAIN Abandoned = Jobs
    BY DEF Abandoned
  <2>3. job' = [Abandoned EXCEPT ![j] = Idle] \/ job' = [job EXCEPT ![j] = Idle]
    BY DEF DeleteTab
  <2> QED
    BY <2>1, <2>2, <2>3 DEF Typed, Works
<1>11. CASE up'
  <2>1. PICK x : x = Idle /\ job'[j] = x
    BY <1>10
  <2>2. x.pc = "idle" /\ ~Writing(x) /\ ~Ending(x)
    BY <2>1 DEF Idle, Writing, Ending
  <2>3. Busy(x)'
    <3>1. \A k \in Jobs : ~Waits(k)'
      BY <1>3, <1>5 DEF Waits
    <3> QED
      BY <2>2, <3>1 DEF Busy, Writing
  <2>4. Closing' => Closing
    BY <1>5, <2>1, <2>2, ScriptNext DEF Closing
  <2>5. \A k \in Jobs : Busy(job[k])'
    BY <2>1, <2>3, ScriptNext
  <2>6. Kept' \subseteq Open'
    BY <1>2, <1>5, <1>7 DEF WhileUp, Kept
  <2>7. ASSUME NEW u \in Open'
        PROVE  Grounded(u)' /\ InPlace(u)' /\ Told(u)' /\ Secure(u)'
    <3>1. u \in Open /\ u \in Tabs /\ u # t /\ stored'[u] = stored[u]
      BY <1>5, <1>7, OpenTabs
    <3>2. ~FirstSave(u) /\ ~Written(u) /\ ~Passing(u) /\ ~Timed(u)
      BY <1>1, <1>3, <3>1, Script DEF Writing, Timed
    <3>3. Grounded(u) /\ InPlace(u) /\ Told(u) /\ Secure(u)
      BY <1>2, <3>1 DEF WhileUp
    <3>4. Lying(u)' /\ Heard(u)' /\ (Safe(u) => Safe(u)')
      <4>1. Placed(u)' = Placed(u) /\ Renaming(u)' = Renaming(u) /\ Telling(u)' = Telling(u)
        BY <1>5 DEF Placed, Renaming, Telling, Restored, OnFile
      <4>2. Lying(u)'
        BY <1>5, <3>1, <3>2, <3>3, <4>1 DEF InPlace, Lying, Landed, Pending
      <4>3. Heard(u)'
        BY <1>5, <3>1, <3>2, <3>3, <4>1 DEF Told, Heard, Landed, Pending, Failed
      <4>4. Safe(u) => Safe(u)'
        BY <1>5, <3>1, <4>1 DEF Safe, Landed, Pending, Failed
      <4> QED
        BY <4>2, <4>3, <4>4
    <3>5. Grounded(u)'
      BY <1>5, <3>2, <3>3 DEF Grounded, Under
    <3>6. Secure(u)'
      BY <1>5, <2>4, <3>2, <3>3, <3>4 DEF Secure, Dirty
    <3> QED
      BY <3>4, <3>5, <3>6 DEF InPlace, Told
  <2>8. \A k \in DOMAIN calls' : calls'[k].tab \in Open'
    BY <1>2, <1>4, <1>5, <1>7 DEF WhileUp
  <2>9. WhileUp'
    BY <1>2, <1>3, <1>5, <2>5, <2>6, <2>7, <2>8 DEF WhileUp
  <2> QED
    BY <1>7, <1>9, <1>11, <2>9 DEF Sound
<1>12. CASE ~up'
  <2>1. tabs' = <<>>
    BY <1>12 DEF DeleteTab
  <2>2. Open' = {}
    BY <2>1 DEF Open, ToSet
  <2>3. WhileDown'
    BY <1>10, <2>2 DEF WhileDown
  <2> QED
    BY <1>7, <1>9, <1>12, <2>3 DEF Sound
<1> QED
  BY <1>11, <1>12


(* The buffer of the tab that is shown changes, and the timer starts.           *)
LEMMA BufferSound ==
  ASSUME Typed, Sound, up, Shown, NEW t, t = Current, timer' = TRUE,
         UNCHANGED <<disk, stored, calls, doomed, up, tabs, active, path, unwritten, gate>>,
         \A u \in Tabs \ {t} : text'[u] = text[u] /\ base'[u] = base[u],
         \A u : ~FirstSave(u) /\ ~Written(u) /\ ~Passing(u),
         Under(t)' = base'[t], Closing' => Closing /\ ~Dirty(t)',
         \A k \in Jobs : Busy(job[k])'
  PROVE  Sound'
<1>1. WhileUp /\ t \in Open /\ t \in Tabs
  BY OpenTabs DEF Sound
<1>2. Honest /\ Open' = Open /\ Kept' = Kept
  BY NothingSent DEF Open, Kept
<1>3. Timed(t)' /\ Current' = t
  BY DEF Timed, Shown, Current
<1>4. ASSUME NEW u \in Open
      PROVE  Grounded(u)' /\ InPlace(u)' /\ Told(u)' /\ Secure(u)'
  <2>0. u \in Tabs
    BY OpenTabs
  <2>1. Grounded(u) /\ InPlace(u) /\ Told(u) /\ Secure(u)
    BY <1>1 DEF WhileUp
  <2>2. InPlace(u)'
    <3>1. Placed(u)' = Placed(u) /\ Renaming(u)' = Renaming(u)
      BY DEF Placed, Renaming
    <3>2. Lying(u)
      BY <2>1 DEF InPlace
    <3>3. Lying(u)'
      BY <3>1, <3>2 DEF Lying, Landed, Pending
    <3> QED
      BY <3>3 DEF InPlace
  <2>3. CASE u = t
    <3>1. Grounded(u)' /\ Told(u)'
      BY <1>3, <2>3 DEF Grounded, Told
    <3>2. Secure(u)'
      BY <2>3 DEF Secure
    <3> QED
      BY <2>2, <3>1, <3>2
  <2>4. CASE u # t
    <3>1. text'[u] = text[u] /\ base'[u] = base[u]
      BY <2>0, <2>4
    <3>2. Telling(u)' = Telling(u)
      BY <3>1 DEF Telling, Restored, OnFile
    <3>3. Heard(u)
      BY <2>1, <2>4 DEF Told, Timed
    <3>4. Heard(u)' /\ (Safe(u) => Safe(u)')
      BY <3>2, <3>3 DEF Heard, Safe, Landed, Pending, Failed
    <3>5. Grounded(u)'
      BY <2>1, <3>1 DEF Grounded, Under
    <3>6. Secure(u)'
      BY <2>1, <3>1, <3>4 DEF Secure, Dirty
    <3> QED
      BY <2>2, <3>4, <3>5, <3>6 DEF Told
  <2> QED
    BY <2>3, <2>4
<1>5. Closing' /\ timer' /\ Shown' => ~Dirty(Current)'
  BY <1>3 DEF Dirty
<1>6. WhileUp'
  BY <1>1, <1>2, <1>4, <1>5 DEF WhileUp
<1>7. Distinct'
  BY <1>2, HonestNames DEF Distinct, Sound
<1> QED
  BY <1>6, <1>7 DEF Sound, OneEach

LEMMA EditSound ==
  ASSUME Reliable, Typed, Sound, Type \/ Undo
  PROVE  Sound'
<1>1. PICK c : Edited(c)
  BY DEF Type, Undo
<1>2. up /\ Shown /\ Resting /\ gate = None /\ timer' = TRUE
  BY <1>1 DEF Edited, Reliable, OneAtATime
<1>3. PICK t : t = Current /\ t \in Tabs /\ t \in Open
  BY <1>2, OpenTabs
<1>4. UNCHANGED <<disk, stored, calls, doomed, up, tabs, active, path, base, unwritten, gate, job>>
  BY <1>1 DEF Edited
<1>5. \A u \in Tabs \ {t} : text'[u] = text[u]
  BY <1>1, <1>3 DEF Edited, Typed, Data
<1>6. \A k \in Jobs : job[k].pc = "idle" /\ Busy(job[k])
  BY <1>2 DEF Resting, Idle, Sound, WhileUp
<1>7. \A u : ~FirstSave(u) /\ ~Written(u) /\ ~Passing(u)
  BY <1>6 DEF FirstSave, Written, Passing, Writing
<1>8. ~Closing'
  BY <1>2, <1>4, <1>6 DEF Closing, Ending
<1>9. \A k \in Jobs : Busy(job[k])'
  <2> TAKE k \in Jobs
  <2>1. job'[k].pc = "idle" /\ \A i \in Jobs : ~Waits(i)'
    BY <1>4, <1>6 DEF Busy, Waits
  <2> QED
    BY <2>1 DEF Busy, Writing
<1>10. Under(t)' = base'[t]
  BY <1>2, <1>3, <1>4, <1>7 DEF Sound, WhileUp, Grounded, Under
<1> QED
  BY <1>2, <1>3, <1>4, <1>5, <1>7, <1>8, <1>9, <1>10, BufferSound

LEMMA RereadSound ==
  ASSUME Reliable, Typed, Sound, NEW j \in Jobs, Reread(j)
  PROVE  Sound'
<1>1. PICK b : b = job[j] /\ b.pc = "reread"
  BY DEF Reread
<1>2. up /\ WhileUp /\ Busy(b)
  BY <1>1, AtWork
<1>3. PICK t : t = Current /\ Shown /\ b.tab = t /\ path[t] # None /\ t \in Tabs
  BY <1>1, <1>2, OpenTabs DEF Busy
<1>4. UNCHANGED <<disk, stored, calls, doomed, up, tabs, active, path, unwritten, gate>> /\ timer' = TRUE
  BY DEF Reread
<1>5. /\ \A u \in Tabs \ {t} : text'[u] = text[u] /\ base'[u] = base[u]
      /\ text'[t] = disk[path[t]] /\ base'[t] = disk[path[t]]
  BY <1>1, <1>3 DEF Reread, Typed, Data
<1>6. \A u : ~FirstSave(u) /\ ~Written(u) /\ ~Passing(u)
  BY <1>1, Script DEF Writing
<1>7. PICK x : x = Idle /\ job'[j] = x
  BY Resumes DEF Reread
<1>8. x.pc = "idle" /\ ~Writing(x) /\ ~Ending(x)
  BY <1>7 DEF Idle, Writing, Ending
<1>9. Busy(x)'
  <2>1. \A k \in Jobs : ~Waits(k)'
    BY <1>1, <1>2, <1>4 DEF Busy, Waits
  <2> QED
    BY <1>8, <2>1 DEF Busy, Writing
<1>10. Closing' => Closing
  BY <1>4, <1>7, <1>8, ScriptNext DEF Closing
<1>11. ~Dirty(t)' /\ Under(t)' = base'[t]
  BY <1>3, <1>4, <1>5 DEF Dirty, Under
<1>12. \A k \in Jobs : Busy(job[k])'
  BY <1>7, <1>9, ScriptNext
<1> QED
  BY <1>2, <1>3, <1>4, <1>5, <1>6, <1>10, <1>11, <1>12, BufferSound

(* A window that has gone: what it knew is looked after by the store alone.      *)
LEMMA ForgetSound ==
  ASSUME Typed, Sound, Forget
  PROVE  Sound'
<1>1. /\ UNCHANGED <<disk, calls, up, tabs, path, text, base, job>> /\ doomed' = {} /\ doomed # {}
      /\ \A t \in Tabs : stored'[t] = IF t \in doomed THEN None ELSE stored[t]
  BY DEF Forget
<1>2. ~up /\ WhileDown
  BY <1>1 DEF Sound, WhileUp
<1>3. \A t \in Tabs, f \in Files : Named(t, f)' => Named(t, f)
  BY <1>1 DEF Named, Open
<1>4. ASSUME NEW t \in Open, Dirty(t)'
      PROVE  Landed(t, Keeping(t))'
  <2>1. t \in Tabs /\ t \notin doomed /\ Landed(t, Keeping(t))
    BY <1>1, <1>2, <1>4, OpenTabs DEF WhileDown, Dirty
  <2>2. Keeping(t)' = Keeping(t)
    BY <1>1 DEF Keeping
  <2> QED
    BY <1>1, <2>1, <2>2 DEF Landed
<1>5. WhileDown'
  BY <1>1, <1>2, <1>4 DEF WhileDown, Open
<1> QED
  BY <1>1, <1>2, <1>3, <1>5 DEF Sound, Distinct, OneEach

LEMMA RestartSound ==
  ASSUME Typed, Sound, Restart
  PROVE  Sound'
<1>0. None \notin Record /\ None \notin Files
  BY Numbers
<1>1. IsFiniteSet(Kept) /\ Kept \in SUBSET Nat /\ Kept \subseteq Tabs
  BY TabsFinite DEF Kept
<1>2. /\ tabs' \in Seq(Kept)
      /\ \A i, k \in DOMAIN tabs' : tabs'[i] = tabs'[k] => i = k
      /\ \A t \in Kept : \E i \in DOMAIN tabs' : tabs'[i] = t
  BY <1>1, Ordered DEF Restart
<1>3. OneEach'
  BY <1>2 DEF OneEach
<1>4. Open' = Kept
  <2>1. PICK K, s : K = Kept /\ s = tabs' /\ s \in Seq(K)
    BY <1>2
  <2>2. \A i \in DOMAIN s : s[i] \in K
    BY <2>1
  <2> QED
    BY <1>2, <2>1, <2>2 DEF Open, ToSet
<1>5. /\ calls' = <<>> /\ doomed' = {} /\ up' = TRUE /\ unwritten' = {} /\ timer' = FALSE
      /\ gate' = None /\ UNCHANGED <<disk, stored>> /\ job' = [k \in Jobs |-> Idle]
  BY DEF Restart
<1>6. \A t \in Kept : /\ path'[t] = stored[t].path /\ base'[t] = OnFile(stored[t])
                      /\ text'[t] = Restored(stored[t]) /\ stored[t] \in Record
  BY <1>1 DEF Restart, Kept, Typed, Data
<1>7. DOMAIN calls' = {}
  BY <1>5
<1>8. \A t \in Tabs : \A f : Named(t, f)' => Named(t, f)
  BY <1>4, <1>5, <1>6, <1>7 DEF Named, Kept
<1>9. \A k \in Jobs : job'[k].pc = "idle" /\ Busy(job[k])'
  BY <1>5, <1>7 DEF Busy, Writing, Waits, Idle
<1>10. ~Closing'
  BY <1>5, <1>9 DEF Closing, Ending
<1>11. ASSUME NEW t \in Kept
       PROVE  Grounded(t)' /\ InPlace(t)' /\ Told(t)' /\ Secure(t)'
  <2>1. stored'[t] \in Telling(t)' /\ stored'[t] \in Placed(t)'
    BY <1>5, <1>6, <1>11 DEF Telling, Placed, Restored, OnFile
  <2>2. Lying(t)' /\ Heard(t)'
    BY <1>7, <2>1 DEF Lying, Heard, Landed
  <2>3. Under(t)' = base'[t]
    BY <1>5, <1>6 DEF Under, OnFile
  <2> QED
    BY <1>10, <2>2, <2>3 DEF Grounded, InPlace, Told, Secure
<1>12. Kept' = Kept
  BY <1>5 DEF Kept
<1>13. WhileUp'
  BY <1>4, <1>5, <1>7, <1>9, <1>10, <1>11, <1>12 DEF WhileUp
<1>14. Distinct'
  BY <1>8 DEF Distinct, Sound
<1> QED
  BY <1>3, <1>5, <1>13, <1>14 DEF Sound

(* A call ends.                                                             *)
LEMMA EndSound ==
  ASSUME Typed, Sound, NEW i \in DOMAIN calls, Land(i) \/ FailRecord(i),
         \A t \in Tabs : \A f : Named(t, f)' => Named(t, f),
         up => \A t \in Open : /\ Lying(t) => Lying(t)'
                               /\ Heard(t) => Heard(t)'
                               /\ Safe(t) => Safe(t)',
         up => Kept' \subseteq Open,
         ~up => \A t \in Open : Landed(t, Keeping(t)) => Landed(t, Keeping(t))'
  PROVE  Sound'
<1>1. UNCHANGED <<disk, doomed, up, tabs, active, path, text, base, timer, gate, job>>
  BY DEF Land, FailRecord
<1>2. Open' = Open
  BY <1>1 DEF Open
<1>3. \A k \in DOMAIN calls' : /\ Old(i, k) \in DOMAIN calls /\ calls'[k].tab = calls[Old(i, k)].tab
                               /\ calls'[k].by = calls[Old(i, k)].by
  BY LandPlaces
<1>4. \A k \in Jobs : Waits(k)' => Waits(k)
  BY <1>3 DEF Waits
<1>5. Distinct' /\ OneEach'
  BY <1>1 DEF Distinct, OneEach, Sound
<1>6. CASE up
  <2>1. WhileUp
    BY <1>6 DEF Sound
  <2>2. \A t : /\ FirstSave(t)' <=> FirstSave(t)
               /\ Written(t)' <=> Written(t)
               /\ Passing(t)' <=> Passing(t)
               /\ Timed(t)' <=> Timed(t)
               /\ Dirty(t)' <=> Dirty(t)
    BY <1>1 DEF FirstSave, Written, Passing, Timed, Writing, Shown, Current, Dirty
  <2>3. (Closing' <=> Closing) /\ (Shown' <=> Shown) /\ Current' = Current
    BY <1>1 DEF Closing, Ending, Shown, Current
  <2>4. ASSUME NEW t \in Open
        PROVE  Grounded(t)' /\ InPlace(t)' /\ Told(t)' /\ Secure(t)'
    <3>1. Grounded(t) /\ InPlace(t) /\ Told(t) /\ Secure(t)
      BY <2>1 DEF WhileUp
    <3>2. Grounded(t)'
      BY <1>1, <2>2, <3>1 DEF Grounded, Under
    <3>3. InPlace(t)'
      BY <1>6, <2>2, <3>1 DEF InPlace
    <3>4. Told(t)'
      BY <1>6, <2>2, <3>1 DEF Told
    <3>5. Secure(t)'
      BY <1>6, <2>2, <2>3, <3>1 DEF Secure
    <3> QED
      BY <3>2, <3>3, <3>4, <3>5
  <2>5. ASSUME NEW k \in Jobs
        PROVE  Busy(job[k])'
    <3>1. PICK b : b = job[k] /\ b = job'[k] /\ Busy(b)
      BY <1>1, <2>1 DEF WhileUp
    <3>2. Busy(b)'
      BY <1>1, <1>2, <1>4, <2>3, <3>1 DEF Busy, Writing
    <3> QED
      BY <3>1, <3>2 DEF Busy, Writing
  <2>6. Closing' /\ timer' /\ Shown' => ~Dirty(Current)'
    BY <1>1, <2>1, <2>3 DEF WhileUp, Dirty
  <2>7. \A k \in DOMAIN calls' : calls'[k].tab \in Open
    BY <1>3, <2>1 DEF WhileUp
  <2>8. WhileUp'
    BY <1>1, <1>2, <1>6, <2>1, <2>4, <2>5, <2>6, <2>7 DEF WhileUp
  <2> QED
    BY <1>1, <1>5, <1>6, <2>8 DEF Sound
<1>7. CASE ~up
  <2>1. WhileDown'
    BY <1>1, <1>2, <1>7 DEF Sound, WhileDown, Dirty
  <2> QED
    BY <1>1, <1>5, <1>7, <2>1 DEF Sound
<1> QED
  BY <1>6, <1>7

LEMMA LandSound ==
  ASSUME Typed, Sound, NEW i \in DOMAIN calls, Land(i)
  PROVE  Sound'
<1>0. calls[i].tab \in Tabs /\ calls[i].rec \in Record /\ None \notin Record /\ stored \in [Tabs -> Record \cup {None}]
  BY CallParts, Numbers DEF Typed, Sends, Data
<1>1. UNCHANGED <<disk, up, tabs, path, text>>
  BY DEF Land
<1>2. \A t \in Tabs : stored'[t] = IF calls[i].live /\ calls[i].tab = t THEN calls[i].rec ELSE stored[t]
  BY <1>0 DEF Land
<1>3. DOMAIN stored' = Tabs
  BY <1>0 DEF Land
<1>4. \A k \in DOMAIN calls' : /\ Old(i, k) \in DOMAIN calls /\ calls'[k].tab = calls[Old(i, k)].tab
                               /\ calls'[k].rec = calls[Old(i, k)].rec
                               /\ calls'[k].live => calls[Old(i, k)].live
  <2>1. calls \in Seq(Call)
    BY DEF Typed, Sends
  <2> QED
    BY <2>1, LandPlaces, LandCalls
<1>5. ASSUME NEW t \in Tabs, NEW f, Named(t, f)'
      PROVE  Named(t, f)
  <2>1. CASE t \in Open' /\ path'[t] = f
    BY <1>1, <2>1 DEF Named, Open
  <2>2. CASE stored'[t] # None /\ stored'[t].path = f
    BY <1>2, <2>2 DEF Named
  <2>3. CASE \E k \in DOMAIN calls' : calls'[k].tab = t /\ calls'[k].live /\ calls'[k].rec.path = f
    BY <1>4, <2>3 DEF Named
  <2> QED
    BY <1>5, <2>1, <2>2, <2>3 DEF Named
<1>6. ASSUME NEW t \in Tabs
      PROVE  /\ Lying(t) => Lying(t)'
             /\ Heard(t) => Heard(t)'
             /\ Safe(t) => Safe(t)'
             /\ Landed(t, Keeping(t)) => Landed(t, Keeping(t))'
  <2>1. PICK P, L, N, H : P = Placed(t) /\ L = Telling(t) /\ N = Renaming(t) /\ H = Keeping(t)
    OBVIOUS
  <2>2. P = Placed(t)' /\ L = Telling(t)' /\ N = Renaming(t)' /\ H = Keeping(t)'
    BY <1>1, <2>1 DEF Placed, Telling, Renaming, Keeping, Restored, OnFile
  <2>3. N \subseteq P
    BY <2>1, PartsNow
  <2>4. /\ Landed(t, P) => Landed(t, P)'
        /\ Pending(t, Jobs, N, P) => Pending(t, Jobs, N, P)' \/ Landed(t, P)'
    BY <2>3, LandKeeps
  <2>5. /\ Landed(t, L) => Landed(t, L)'
        /\ Pending(t, {}, L, L) => Pending(t, {}, L, L)' \/ Landed(t, L)'
        /\ Pending(t, Jobs, L, L) => Pending(t, Jobs, L, L)' \/ Landed(t, L)'
        /\ Failed(t, L) => Failed(t, L)' \/ Landed(t, L)'
    BY LandKeeps
  <2>6. Landed(t, H) => Landed(t, H)'
    BY LandKeeps
  <2>7. Landed(t, Keeping(t)) => Landed(t, Keeping(t))'
    BY <2>1, <2>2, <2>6 DEF Landed
  <2>8. Lying(t) => Lying(t)'
    BY <2>1, <2>2, <2>4, PartsNow, PartsThen
  <2>9. Heard(t) => Heard(t)'
    BY <2>1, <2>2, <2>5, PartsNow, PartsThen
  <2>10. Safe(t) => Safe(t)'
    BY <2>1, <2>2, <2>5, PartsNow, PartsThen
  <2> QED
    BY <2>7, <2>8, <2>9, <2>10
<1>7. up => Kept' \subseteq Open
  BY <1>2 DEF Kept, Sound, WhileUp
<1> QED
  BY <1>5, <1>6, <1>7, OpenTabs, EndSound

LEMMA FailRecordSound ==
  ASSUME Reliable, Typed, Sound, NEW i \in DOMAIN calls, FailRecord(i)
  PROVE  Sound'
<1>0. calls \in Seq(Call)
  BY DEF Typed, Sends
<1>1. UNCHANGED <<disk, up, tabs, path, text, stored>>
  BY DEF FailRecord
<1>2. \A k \in DOMAIN calls' : Old(i, k) \in DOMAIN calls /\ calls'[k] = calls[Old(i, k)]
  BY <1>0, LandPlaces, FailCalls
<1>3. \A t, f : Named(t, f)' => Named(t, f)
  BY <1>1, <1>2 DEF Named, Open
<1>4. ASSUME NEW t \in Tabs
      PROVE  /\ Lying(t) => Lying(t)'
             /\ Heard(t) => Heard(t)'
             /\ Safe(t) => Safe(t)'
             /\ Landed(t, Keeping(t)) => Landed(t, Keeping(t))'
  <2>1. PICK P, L, N, H : P = Placed(t) /\ L = Telling(t) /\ N = Renaming(t) /\ H = Keeping(t)
    OBVIOUS
  <2>2. P = Placed(t)' /\ L = Telling(t)' /\ N = Renaming(t)' /\ H = Keeping(t)'
    BY <1>1, <2>1 DEF Placed, Telling, Renaming, Keeping, Restored, OnFile
  <2>3. N \subseteq P /\ \A r \in N : ~r.dirty
    BY <2>1, PartsNow
  <2>4. /\ Landed(t, P) => Landed(t, P)'
        /\ Pending(t, Jobs, N, P) => Pending(t, Jobs, N, P)'
    BY <2>3, FailKeeps
  <2>5. /\ Landed(t, L) => Landed(t, L)'
        /\ Pending(t, {}, L, L) => Pending(t, {}, L, L)' \/ Failed(t, L)'
        /\ Pending(t, Jobs, L, L) => Pending(t, Jobs, L, L)' \/ Failed(t, L)'
        /\ Failed(t, L) => Failed(t, L)'
    BY FailKeeps
  <2>6. Landed(t, H) => Landed(t, H)'
    BY FailKeeps
  <2>7. Landed(t, Keeping(t)) => Landed(t, Keeping(t))'
    BY <2>1, <2>2, <2>6 DEF Landed
  <2>8. Lying(t) => Lying(t)'
    BY <2>1, <2>2, <2>4, PartsNow, PartsThen
  <2>9. Heard(t) => Heard(t)'
    BY <2>1, <2>2, <2>5, PartsNow, PartsThen
  <2>10. Safe(t) => Safe(t)'
    BY <2>1, <2>2, <2>5, PartsNow, PartsThen
  <2> QED
    BY <2>7, <2>8, <2>9, <2>10
<1>5. up => Kept' \subseteq Open
  BY <1>1 DEF Kept, Sound, WhileUp
<1> QED
  BY <1>3, <1>4, <1>5, OpenTabs, EndSound


(* A tab is opened; what the timer had for another one is sent first.           *)
LEMMA AddSends ==
  ASSUME Typed, Sound, WhileUp, up, NEW j \in Jobs, \A t : ~FirstSave(t),
         NEW n, n = Len(tabs) + 1,
         IF active = n THEN UNCHANGED <<timer, calls>> ELSE FlushTimer(j, text, calls, settled)
  PROVE  /\ Honest
         /\ ~timer' \/ active = n
         /\ \A t \in Open : Timed(t) => Reported(t, {})
<1>1. CASE active = n
  <2>1. ~Shown
    BY <1>1 DEF Shown, Typed, Data
  <2> QED
    BY <1>1, <2>1, NothingSent DEF Timed
<1>2. CASE active # n
  BY <1>2, FlushHonest
<1> QED
  BY <1>1, <1>2

LEMMA AddSound ==
  ASSUME Reliable, Typed, Sound, NEW j \in Jobs, NEW f \in Files \cup {None}, AddTab(j, f),
         \A u \in Open : f # None => path[u] # f
  PROVE  Sound'
<1>0. None \notin Files /\ Free(j)
  BY Numbers DEF AddTab
<1>1. WhileUp /\ up /\ (\A t : ~FirstSave(t) /\ ~Written(t) /\ ~Passing(t)) /\ (Closing <=> gate # None)
  BY <1>0, FreeScript
<1>2. PICK t, n, c : /\ t = made + 1 /\ n = Len(tabs) + 1
                     /\ c = IF f = None THEN Empty ELSE disk[f]
  OBVIOUS
<1>3. tabs \in Seq(Tabs) /\ made \in Nat /\ t \in Tabs /\ t \notin Open
  <2>1. made \in Nat /\ made < MaxTabs /\ t \notin Open /\ tabs \in Seq(Tabs)
    BY <1>2, MadeNumber DEF AddTab, Typed, Data
  <2> QED
    BY <1>2, <2>1, TabsAssumption DEF Tabs
<1>4. stored[t] = None /\ \A i \in DOMAIN calls : calls[i].tab # t
  BY <1>1, <1>3 DEF WhileUp, Kept
<1>5. /\ Len(tabs') = n /\ n \in DOMAIN tabs' /\ tabs'[n] = t /\ n \notin DOMAIN tabs
      /\ \A i \in DOMAIN tabs' : i \in DOMAIN tabs \/ i = n
      /\ \A i \in DOMAIN tabs : i \in DOMAIN tabs' /\ tabs'[i] = tabs[i]
  <2>1. tabs' = Append(tabs, t)
    BY <1>2 DEF AddTab
  <2>2. PICK s : s = Append(tabs, t)
    OBVIOUS
  <2>3. /\ s \in Seq(Tabs) /\ Len(s) = Len(tabs) + 1
        /\ \A i \in DOMAIN s : i \in DOMAIN tabs \/ i = Len(tabs) + 1
        /\ Len(tabs) + 1 \in DOMAIN s /\ Len(tabs) + 1 \notin DOMAIN tabs
        /\ s[Len(tabs) + 1] = t
        /\ \A i \in DOMAIN tabs : i \in DOMAIN s /\ s[i] = tabs[i]
    BY <1>3, <2>2, Appending
  <2> QED
    BY <1>2, <2>1, <2>2, <2>3
<1>6. Open' = Open \cup {t}
  <2>1. \A u \in Open' : u \in Open \/ u = t
    BY <1>5 DEF Open, ToSet
  <2>2. \A u \in Open : u \in Open'
    BY <1>5 DEF Open, ToSet
  <2>3. t \in Open'
    BY <1>5 DEF Open, ToSet
  <2> QED
    BY <2>1, <2>2, <2>3
<1>7. OneEach'
  <2>1. \A i \in DOMAIN tabs : tabs[i] # t
    BY <1>3 DEF Open, ToSet
  <2>2. OneEach
    BY DEF Sound
  <2> QED
    BY <1>5, <2>1, <2>2 DEF OneEach
<1>8. /\ path'[t] = f /\ text'[t] = c /\ base'[t] = c
      /\ \A u \in Tabs \ {t} : path'[u] = path[u] /\ text'[u] = text[u] /\ base'[u] = base[u]
  BY <1>2, <1>3 DEF AddTab, Typed, Data
<1>9. UNCHANGED <<disk, stored, doomed, up, active, unwritten, gate>> /\ gate = None
  <2>1. gate = None
    BY DEF AddTab, Attentive, Reliable, OneAtATime
  <2> QED
    BY <2>1 DEF AddTab
<1>10. IF active = n THEN UNCHANGED <<timer, calls>> ELSE FlushTimer(j, text, calls, settled)
  BY <1>2, <1>5 DEF AddTab
<1>11. /\ Honest
       /\ ~timer' \/ active = n
       /\ \A u \in Open : Timed(u) => Reported(u, {})
  BY <1>1, <1>2, <1>10, AddSends
<1>12. PICK x : x = Turning(n, t, "end") /\ job'[j] = x
  BY <1>2, <1>5, Resumes DEF AddTab
<1>13. x.pc = "turn" /\ x.at = n /\ x.tab = t /\ x.then = "end" /\ ~Writing(x) /\ ~Ending(x)
  BY <1>12 DEF Turning, Writing, Ending
<1>14. Busy(x)'
  BY <1>5, <1>9, <1>11, <1>13 DEF Busy, Writing
<1>15. ~Closing'
  BY <1>9, <1>12, <1>13, ScriptNext
<1>16. Passing(t)'
  BY <1>12, <1>13, ScriptNext
<1>17. \A i \in DOMAIN calls' : calls'[i].tab \in Open
  BY <1>1, <1>11 DEF WhileUp, Honest, Grown
<1>18. \A u \in Tabs, g \in Files : Named(u, g)' => Named(u, g) \/ (u = t /\ g = f)
  <2>1. \A u \in Tabs, g \in Files : u \in Open' /\ path'[u] = g => Named(u, g) \/ (u = t /\ g = f)
    BY <1>6, <1>8 DEF Named
  <2>2. \A u \in Tabs, g \in Files : stored'[u] # None /\ stored'[u].path = g => Named(u, g)
    BY <1>9 DEF Named
  <2>3. ASSUME NEW u \in Tabs, NEW g \in Files, NEW i \in DOMAIN calls',
               calls'[i].tab = u, calls'[i].live, calls'[i].rec.path = g
        PROVE  Named(u, g)
    BY <1>11, <2>3 DEF Named, Honest, Grown
  <2> QED
    BY <2>1, <2>2, <2>3 DEF Named
<1>19. Distinct'
  <2>1. CASE f = None
    BY <1>0, <1>18, <2>1 DEF Distinct, Sound
  <2>2. CASE f # None
    <3>1. \A u \in Tabs \ {t} : ~Named(u, f)
      BY <1>0, <2>2, Fresh
    <3> QED
      BY <1>18, <3>1, OneName
  <2> QED
    BY <2>1, <2>2
<1>20. ASSUME NEW u \in Open'
       PROVE  Grounded(u)' /\ InPlace(u)' /\ Told(u)' /\ Secure(u)'
  <2>1. CASE u = t
    <3>1. Under(u)' = base'[u]
      BY <1>2, <1>8, <1>9, <2>1 DEF Under
    <3>2. Landed(u, Placed(u))'
      BY <1>3, <1>4, <1>9, <1>17, <2>1 DEF Landed, Placed
    <3>3. Lying(u)'
      BY <3>2 DEF Lying
    <3> QED
      BY <1>15, <1>16, <2>1, <3>1, <3>3 DEF Grounded, InPlace, Told, Secure
  <2>2. CASE u # t
    <3>0. u \in Open /\ u \in Tabs /\ path'[u] = path[u] /\ text'[u] = text[u] /\ base'[u] = base[u]
      BY <1>6, <1>8, <2>2, OpenTabs
    <3>1. Grounded(u) /\ InPlace(u) /\ Told(u)
      BY <1>1, <3>0 DEF WhileUp
    <3>2. Placed(u)' = Placed(u) /\ Renaming(u)' = Renaming(u) /\ Telling(u)' = Telling(u)
      BY <1>9, <3>0 DEF Placed, Renaming, Telling, Restored, OnFile
    <3>3. Lying(u) => Lying(u)'
      BY <1>9, <1>11, <3>0, <3>2, HonestKeeps
    <3>4. Heard(u) \/ Reported(u, {}) => Heard(u)'
      BY <1>1, <1>9, <1>11, <3>0, <3>2, HonestKeeps
    <3>5. Heard(u)'
      BY <1>1, <1>11, <3>0, <3>1, <3>4 DEF Told
    <3>6. Grounded(u)'
      BY <1>1, <1>9, <3>0, <3>1 DEF Grounded, Under
    <3>7. InPlace(u)'
      BY <1>1, <3>1, <3>3 DEF InPlace
    <3> QED
      BY <1>15, <3>5, <3>6, <3>7 DEF Told, Secure
  <2> QED
    BY <2>1, <2>2
<1>21. Kept' \subseteq Open'
  BY <1>1, <1>6, <1>9 DEF WhileUp, Kept
<1>22. \A k \in Jobs : Busy(job[k])'
  BY <1>12, <1>14, ScriptNext
<1>23. WhileUp'
  BY <1>1, <1>6, <1>9, <1>15, <1>17, <1>20, <1>21, <1>22 DEF WhileUp
<1> QED
  BY <1>1, <1>7, <1>9, <1>19, <1>23 DEF Sound


(* What flushing the timer adds to the calls a script left.                    *)
LEMMA FlushGrows ==
  ASSUME Typed, NEW cs \in Seq(Call), NEW tx \in [Tabs -> Texts], NEW done, NEW j \in Jobs,
         FlushTimer(j, tx, cs, done)
  PROVE  /\ timer' = FALSE /\ calls' \in Seq(Call)
         /\ \A i \in DOMAIN cs : /\ i \in DOMAIN calls' /\ calls'[i].tab = cs[i].tab
                                 /\ calls'[i].rec = cs[i].rec /\ calls'[i].live = cs[i].live
                                 /\ cs[i].by \subseteq calls'[i].by
         /\ \A i \in DOMAIN calls' : i \notin DOMAIN cs =>
              Shown /\ calls'[i].live /\ calls'[i].tab = Current /\ calls'[i].rec = Snapshot(tx, Current)
<1>1. CASE timer /\ Shown
  <2>1. PICK c : c = Sent(tx, Current, {j})
    OBVIOUS
  <2>2. Current \in Tabs /\ path \in [Tabs -> Files \cup {None}]
    BY <1>1, OpenTabs DEF Typed, Data
  <2>3. c \in Call /\ c.tab = Current /\ c.live /\ c.rec = Snapshot(tx, Current)
    BY <2>1, <2>2, CallTyped
  <2>4. calls' = Append(cs, c)
    BY <1>1, <2>1 DEF FlushTimer
  <2>5. PICK ds : ds = Append(cs, c)
    OBVIOUS
  <2>6. /\ ds \in Seq(Call)
        /\ \A i \in DOMAIN ds : i \in DOMAIN cs \/ (i = Len(cs) + 1 /\ ds[i] = c)
        /\ \A i \in DOMAIN cs : i \in DOMAIN ds /\ ds[i] = cs[i]
    BY <2>3, <2>5, Appending
  <2>7. timer' = FALSE /\ calls' = ds
    BY <2>4, <2>5 DEF FlushTimer
  <2> QED
    BY <1>1, <2>3, <2>6, <2>7
<1>2. CASE ~(timer /\ Shown)
  <2>1. calls' = Awaited(cs, done, j) /\ timer' = FALSE
    BY <1>2 DEF FlushTimer
  <2> QED
    BY <2>1, AwaitedCalls
<1> QED
  BY <1>1, <1>2

(* The changes of the tab that is shown are let go, and the window stays.        *)
LEMMA DiscardStays ==
  ASSUME Reliable, Typed, Sound, NEW j \in Jobs, Free(j), Shown, gate # None, NEW t, t = Current,
         Grown, NEW i \in DOMAIN calls', i \notin DOMAIN calls, calls'[i].tab = t,
         \A k \in DOMAIN calls' : k \notin DOMAIN calls =>
           calls'[k].tab = t /\ calls'[k].rec = CleanRecord(path[t]),
         text'[t] = base[t], \A u \in Tabs \ {t} : text'[u] = text[u],
         UNCHANGED <<disk, stored, doomed, up, tabs, active, path, base, unwritten>>,
         timer' => timer, \A k \in Jobs : Busy(job[k])'
  PROVE  Sound'
<1>1. WhileUp /\ up /\ (\A u : ~FirstSave(u) /\ ~Written(u) /\ ~Passing(u)) /\ Closing
  BY FreeScript
<1>2. t \in Open /\ t \in Tabs /\ path[t] \in Files \cup {None}
  BY OpenTabs DEF Typed, Data
<1>3. CleanRecord(path[t]) \in Record /\ CleanRecord(path[t]).path = path[t] /\ ~CleanRecord(path[t]).dirty
  BY <1>2, CleanTyped DEF CleanRecord
<1>4. Under(t) = base[t]
  BY <1>1, <1>2 DEF WhileUp, Grounded
<1>5. \A u \in Tabs : \A f : Named(u, f)' => Named(u, f)
  <2>1. ASSUME NEW u \in Tabs, NEW f, NEW k \in DOMAIN calls',
               calls'[k].tab = u, calls'[k].live, calls'[k].rec.path = f
        PROVE  Named(u, f)
    BY <1>2, <1>3, <2>1 DEF Named, Grown
  <2> QED
    BY <2>1 DEF Named, Open
<1>6. ASSUME NEW u \in Open
      PROVE  Grounded(u)' /\ InPlace(u)' /\ Told(u)' /\ Secure(u)'
  <2>0. u \in Tabs
    BY OpenTabs
  <2>1. Grounded(u) /\ InPlace(u) /\ Told(u) /\ Secure(u)
    BY <1>1 DEF WhileUp
  <2>2. PICK P, L, N : P = Placed(u)' /\ L = Telling(u)' /\ N = Renaming(u)'
    OBVIOUS
  <2>3. Placed(u) \subseteq P /\ Renaming(u) \subseteq N
    BY <2>2 DEF Placed, Renaming
  <2>4. Since(u, P)
    <3>1. u = t => CleanRecord(path[t]) \in P
      BY <1>3, <2>2 DEF Placed
    <3> QED
      BY <3>1 DEF Since
  <2>5. Lying(u)'
    BY <1>1, <2>0, <2>1, <2>2, <2>3, <2>4, CarriedPlace DEF InPlace
  <2>6. Grounded(u)'
    BY <1>1, <2>1 DEF Grounded, Under
  <2>7. CASE u = t
    <3>1. CleanRecord(path[t]) \in L
      <4>1. Restored(CleanRecord(path[t]))' = text'[t]
        BY <1>3, <1>4 DEF Restored, OnFile, Under
      <4> QED
        BY <1>3, <2>2, <2>7, <4>1 DEF Telling
    <3>2. Since(u, L)
      BY <3>1 DEF Since
    <3>3. Pending(u, {}, L, L)'
      BY <2>0, <2>7, <3>1, <3>2, GrownPending
    <3>4. Heard(u)'
      BY <2>2, <3>3, PartsThen
    <3>5. ~Dirty(u)'
      BY <2>7 DEF Dirty
    <3> QED
      BY <2>5, <2>6, <3>4, <3>5 DEF InPlace, Told, Secure
  <2>8. CASE u # t
    <3>1. text'[u] = text[u]
      BY <2>0, <2>8
    <3>2. Telling(u) \subseteq L
      BY <2>2, <3>1 DEF Telling, Restored, OnFile
    <3>3. Since(u, L)
      BY <2>8 DEF Since
    <3>4. (Heard(u) => Heard(u)') /\ (Safe(u) => Safe(u)')
      BY <2>0, <2>2, <3>2, <3>3, CarriedText
    <3>5. Heard(u)
      BY <1>1, <2>1, <2>8 DEF Told, Timed
    <3>6. Secure(u)'
      BY <1>1, <2>1, <3>1, <3>4 DEF Secure, Dirty
    <3> QED
      BY <2>5, <2>6, <3>4, <3>5, <3>6 DEF InPlace, Told
  <2> QED
    BY <2>7, <2>8
<1>7. Closing' /\ timer' /\ Shown' => ~Dirty(Current)'
  <2>1. Current' = t
    BY DEF Current
  <2> QED
    BY <2>1 DEF Dirty
<1>8. Open' = Open /\ Kept' = Kept /\ \A k \in DOMAIN calls' : calls'[k].tab \in Open
  BY <1>1, <1>2 DEF Open, Kept, WhileUp, Grown
<1>9. WhileUp'
  BY <1>1, <1>6, <1>7, <1>8 DEF WhileUp
<1> QED
  BY <1>1, <1>5, <1>9 DEF Sound, Distinct, OneEach

LEMMA DiscardSound ==
  ASSUME Reliable, Typed, Sound, NEW j \in Jobs, GateDiscard(j)
  PROVE  Sound'
<1>1. Free(j) /\ Shown /\ gate # None /\ UNCHANGED <<disk, stored, tabs, active, path, base, unwritten>>
  BY DEF GateDiscard
<1>2. PICK t, tx, c : /\ t = Current /\ tx = [text EXCEPT ![t] = base[t]]
                      /\ c = [tab |-> t, rec |-> CleanRecord(path[t]), live |-> TRUE, by |-> {}]
  OBVIOUS
<1>3. /\ WhileUp /\ up /\ (\A u : ~FirstSave(u) /\ ~Written(u)) /\ Closing
      /\ \A k \in Jobs : ~Waits(k)
  BY <1>1, FreeScript
<1>4. t \in Open /\ t \in Tabs /\ path[t] \in Files \cup {None}
  BY <1>1, <1>2, OpenTabs DEF Typed, Data
<1>5. /\ tx \in [Tabs -> Texts] /\ tx[t] = base[t]
      /\ \A u \in Tabs \ {t} : tx[u] = text[u]
  BY <1>2, <1>4 DEF Typed, Data
<1>6. c \in Call /\ c.tab = t /\ c.live /\ c.by = {} /\ c.rec = CleanRecord(path[t])
  <2>1. CleanRecord(path[t]) \in Record
    BY <1>4, CleanTyped
  <2> QED
    BY <1>2, <1>4, <2>1 DEF Call
<1>7. PICK cs : cs = Append(calls, c)
  OBVIOUS
<1>8. /\ cs \in Seq(Call)
      /\ \E i \in DOMAIN cs : i \notin DOMAIN calls /\ cs[i] = c
      /\ \A i \in DOMAIN cs : i \notin DOMAIN calls => cs[i] = c
      /\ \A i \in DOMAIN calls : i \in DOMAIN cs /\ cs[i] = calls[i]
  <2>1. calls \in Seq(Call)
    BY DEF Typed, Sends
  <2>2. /\ cs \in Seq(Call) /\ Len(cs) = Len(calls) + 1
        /\ \A i \in DOMAIN cs : i \in DOMAIN calls \/ i = Len(calls) + 1
        /\ Len(calls) + 1 \in DOMAIN cs /\ Len(calls) + 1 \notin DOMAIN calls
        /\ cs[Len(calls) + 1] = c
        /\ \A i \in DOMAIN calls : i \in DOMAIN cs /\ cs[i] = calls[i]
    BY <1>6, <1>7, <2>1, Appending
  <2> QED
    BY <2>2
<1>9. text' = tx /\ Prompt(j, tx, cs, FALSE)
  BY <1>2, <1>7 DEF GateDiscard
<1>10. CleanRecord(path[t]).path = path[t]
  BY DEF CleanRecord
<1>11. CASE Unwritable(tx) = {} /\ FinishClose(j, tx, cs, FALSE)
  <2>1. calls' = cs
    BY <1>11 DEF FinishClose
  <2>2. ASSUME NEW u \in Open, tx[u] # base[u]
        PROVE  Landed(u, Keeping(u))'
    <3>1. u \in Tabs /\ u # t /\ text'[u] = text[u] /\ Dirty(u)
      BY <1>5, <1>9, <2>2, OpenTabs DEF Dirty
    <3>2. u \notin unwritten
      <4>1. PICK i \in DOMAIN tabs : tabs[i] = u
        BY OpenTabs
      <4> QED
        BY <1>11, <2>2, <4>1 DEF Unwritable
    <3>3. Landed(u, Keeping(u))
      BY <1>3, <3>1, <3>2, ReadyToClose
    <3>4. Keeping(u)' = Keeping(u)
      BY <3>1 DEF Keeping
    <3> QED
      BY <1>1, <1>6, <1>8, <2>1, <3>1, <3>3, <3>4 DEF Landed
  <2>3. ASSUME NEW u, NEW f, Named(u, f)'
        PROVE  Named(u, f)
    <3>1. ASSUME NEW k \in DOMAIN calls', calls'[k].tab = u, calls'[k].live, calls'[k].rec.path = f
          PROVE  Named(u, f)
      BY <1>4, <1>6, <1>8, <1>10, <2>1, <3>1 DEF Named
    <3> QED
      BY <1>1, <2>3, <3>1 DEF Named, Open
  <2>4. PICK done : FinishClose(j, tx, cs, done)
    BY <1>11
  <2> QED
    BY <1>1, <1>9, <2>2, <2>3, <2>4, ClosedSound
<1>12. ASSUME NEW i \in DOMAIN tabs, i = active, calls' = cs, Become(j, Idle), UNCHANGED <<timer, doomed, up>>
       PROVE  Sound'
  <2>1. PICK x : x = Idle /\ job'[j] = x
    BY <1>12, Resumes
  <2>2. x.pc = "idle" /\ ~Writing(x)
    BY <2>1 DEF Idle, Writing
  <2>3. \A k \in Jobs : ~Waits(k)'
    BY <1>3, <1>6, <1>8, <1>12 DEF Waits
  <2>4. Busy(x)'
    BY <2>2, <2>3 DEF Busy, Writing
  <2>5. \A k \in Jobs : Busy(job[k])'
    BY <2>1, <2>4, ScriptNext
  <2>6. Grown
    BY <1>6, <1>8, <1>12 DEF Grown
  <2>7. PICK m \in DOMAIN calls' : m \notin DOMAIN calls /\ calls'[m].tab = t
    BY <1>6, <1>8, <1>12
  <2>8. \A k \in DOMAIN calls' : k \notin DOMAIN calls =>
          calls'[k].tab = t /\ calls'[k].rec = CleanRecord(path[t])
    BY <1>6, <1>8, <1>12
  <2> QED
    BY <1>1, <1>2, <1>5, <1>9, <1>12, <2>5, <2>6, <2>7, <2>8, DiscardStays
<1>13. ASSUME NEW i \in DOMAIN tabs, FlushTimer(j, tx, cs, FALSE), Become(j, Turning(i, None, "gate")),
              UNCHANGED <<gate, doomed, up>>
       PROVE  Sound'
  <2>1. PICK x : x = Turning(i, None, "gate") /\ job'[j] = x
    BY <1>13, Resumes
  <2>2. x.pc = "turn" /\ x.tab = None /\ ~Writing(x)
    BY <2>1 DEF Turning, Writing
  <2>3. /\ timer' = FALSE /\ calls' \in Seq(Call)
        /\ \A k \in DOMAIN cs : /\ k \in DOMAIN calls' /\ calls'[k].tab = cs[k].tab
                                /\ calls'[k].rec = cs[k].rec /\ calls'[k].live = cs[k].live
                                /\ cs[k].by \subseteq calls'[k].by
        /\ \A k \in DOMAIN calls' : k \notin DOMAIN cs =>
             Shown /\ calls'[k].live /\ calls'[k].tab = Current /\ calls'[k].rec = Snapshot(tx, Current)
    BY <1>5, <1>8, <1>13, FlushGrows
  <2>4. Snapshot(tx, t) = CleanRecord(path[t])
    BY <1>5 DEF Snapshot, CleanRecord
  <2>5. Busy(x)'
    BY <2>2, <2>3 DEF Busy, Writing
  <2>6. \A k \in Jobs : Busy(job[k])'
    BY <2>1, <2>5, ScriptNext
  <2>7. Grown
    BY <1>6, <1>8, <2>3 DEF Grown
  <2>8. PICK m \in DOMAIN calls' : m \notin DOMAIN calls /\ calls'[m].tab = t
    BY <1>6, <1>8, <2>3
  <2>9. \A k \in DOMAIN calls' : k \notin DOMAIN calls =>
          calls'[k].tab = t /\ calls'[k].rec = CleanRecord(path[t])
    BY <1>2, <1>6, <1>8, <2>3, <2>4
  <2> QED
    BY <1>1, <1>2, <1>5, <1>9, <1>13, <2>3, <2>6, <2>7, <2>8, <2>9, DiscardStays
<1> QED
  BY <1>9, <1>11, <1>12, <1>13 DEF Prompt

LEMMA InitSound == Init => Sound
<1> SUFFICES ASSUME Init PROVE Sound
  OBVIOUS
<1>1. Open = {} /\ Kept = {} /\ DOMAIN calls = {}
  BY DEF Init, Open, ToSet, Kept
<1>2. \A k \in Jobs : job[k].pc = "idle"
  BY DEF Init, Idle
<1>3. \A k \in Jobs : Busy(job[k])
  BY <1>1, <1>2 DEF Busy, Writing, Waits
<1>4. ~Closing /\ up /\ doomed = {}
  BY <1>2 DEF Init, Closing, Ending
<1>5. WhileUp
  BY <1>1, <1>3, <1>4 DEF WhileUp
<1>6. \A t \in Tabs : \A f : ~Named(t, f)
  BY <1>1 DEF Init, Named
<1> QED
  BY <1>4, <1>5, <1>6 DEF Sound, Distinct, OneEach, Init

LEMMA NextSound ==
  ASSUME Reliable, Typed, Sound, [Next]_vars
  PROVE  Sound'
<1>1. CASE UserActs
  <2>1. CASE Type \/ Undo \/ CancelClose \/ GateCancel
    BY <2>1, EditSound, CancelSound
  <2>2. ASSUME NEW j \in Jobs, Save(j) \/ ConfirmSave(j) \/ SaveAs(j, "end") \/ GateSave(j)
        PROVE  Sound'
    BY <2>2, SaveSound, SaveAsSound
  <2>3. ASSUME NEW j \in Jobs, RequestClose(j) \/ ConfirmDiscard(j) \/ BeginReread(j)
                               \/ CloseWindow(j) \/ GateDiscard(j)
        PROVE  Sound'
    BY <2>3, RequestSound, BeginRereadSound, SwitchSound, DiscardSound
  <2>4. ASSUME NEW j \in Jobs, NEW i, SwitchTo(j, i)
        PROVE  Sound'
    BY <2>4, SwitchSound
  <2>5. ASSUME NEW j \in Jobs, NewTab(j)
        PROVE  Sound'
    BY <2>5, AddSound DEF NewTab
  <2>6. ASSUME NEW j \in Jobs, NEW f \in Files, OpenFile(j, f)
        PROVE  Sound'
    <3>1. CASE \E t \in Open : path[t] = f
      BY <2>4, <2>6, <3>1 DEF OpenFile
    <3>2. CASE ~\E t \in Open : path[t] = f
      BY <2>6, <3>2, AddSound DEF OpenFile
    <3> QED
      BY <3>1, <3>2
  <2> QED
    BY <1>1, <2>1, <2>2, <2>3, <2>4, <2>5, <2>6 DEF UserActs
<1>2. CASE ScriptsGoOn
  BY <1>2, PersistSound, MarkSound, TurnedSound, RereadSound, FlushAllSound, RecordedSound DEF ScriptsGoOn
<1>3. CASE CoreActs
  BY <1>3, ForgetSound, LandSound, FailRecordSound, WriteFileSound, FailFileSound, DeleteSound,
     FailDeleteSound DEF CoreActs
<1>4. CASE Restart
  BY <1>4, RestartSound
<1>5. CASE UNCHANGED vars
  <2>1. /\ UNCHANGED calls
        /\ UNCHANGED <<disk, stored, doomed, up, tabs, active, path, text, base, unwritten, timer, job>>
        /\ gate' = gate
    BY <1>5 DEF vars
  <2> QED
    BY <2>1, AskSound
<1> QED
  BY <1>1, <1>2, <1>3, <1>4, <1>5 DEF Next

LEMMA AlwaysSound == ASSUME Reliable PROVE Spec => [](Typed /\ Sound)
<1>1. Init => Typed /\ Sound
  BY InitTyped, InitSound
<1>2. Typed /\ Sound /\ [Next]_vars => (Typed /\ Sound)'
  BY NextTyped, NextSound
<1> QED
  BY <1>1, <1>2, PTL DEF Spec

(* A tab that shows no changes shows its file, whatever writes are under way and *)
(* however records fail, when at most one script of the user waits at a time.    *)
THEOREM CleanShowsItsFile == ASSUME Reliable PROVE Spec => []CleanIsOnDisk
<1>1. Typed /\ Sound => CleanIsOnDisk
  <2> SUFFICES ASSUME Typed, Sound, up, Resting, NEW t \in Open, ~Dirty(t), path[t] # None
               PROVE  disk[path[t]] = text[t]
    BY DEF CleanIsOnDisk
  <2>1. \A k \in Jobs : job[k].pc = "idle"
    BY DEF Resting, Idle
  <2>2. ~FirstSave(t) /\ ~Written(t)
    BY <2>1 DEF FirstSave, Written, Writing
  <2>3. Under(t) = base[t]
    BY <2>2 DEF Sound, WhileUp, Grounded
  <2> QED
    BY <2>3 DEF Under, Dirty
<1> QED
  BY <1>1, AlwaysSound, PTL

(* No change is lost when the window closes: what could not be written was asked *)
(* about, and the record of what could is not among those that go.              *)
THEOREM ClosedWindowKeepsEdits == ASSUME Reliable PROVE Spec => []ClosedKeepsEdits
<1>1. Typed /\ Sound => ClosedKeepsEdits
  <2> SUFFICES ASSUME Typed, Sound, ~up, NEW t \in Open, Dirty(t)
               PROVE  stored[t] # None /\ stored[t].dirty /\ stored[t].text = text[t]
    BY DEF ClosedKeepsEdits
  <2>1. stored[t] \in Keeping(t)
    BY DEF Sound, WhileDown, Landed
  <2> QED
    BY <2>1, Numbers DEF Keeping
<1> QED
  BY <1>1, AlwaysSound, PTL

(* A restart shows the tabs of the window and their texts, but for those whose   *)
(* record is known to have failed.                                           *)
THEOREM RestartShowsTheTabs == ASSUME Reliable PROVE Spec => []RestartShowsTabs
<1>1. Typed /\ Sound => RestartShowsTabs
  <2> SUFFICES ASSUME Typed, Sound, up, Resting, calls = <<>>, ~timer
               PROVE  /\ Kept \subseteq Open
                      /\ \A t \in Open \ unwritten : stored[t] # None /\ Restored(stored[t]) = text[t]
    BY DEF RestartShowsTabs
  <2>1. WhileUp
    BY DEF Sound
  <2>2. \A k \in Jobs : job[k].pc = "idle"
    BY DEF Resting, Idle
  <2>3. ASSUME NEW t \in Open \ unwritten
        PROVE  stored[t] # None /\ Restored(stored[t]) = text[t]
    <3>1. ~FirstSave(t) /\ ~Passing(t) /\ ~Timed(t)
      BY <2>2 DEF FirstSave, Passing, Timed, Writing
    <3>2. Heard(t)
      BY <2>1, <3>1 DEF WhileUp, Told
    <3>3. DOMAIN calls = {}
      OBVIOUS
    <3>4. stored[t] \in Telling(t)
      BY <3>2, <3>3 DEF Heard, Landed, Pending, Failed
    <3> QED
      BY <3>4, Numbers DEF Telling
  <2> QED
    BY <2>1, <2>3 DEF WhileUp
<1> QED
  BY <1>1, AlwaysSound, PTL
=============================================================================
