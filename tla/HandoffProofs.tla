--------------------------- MODULE HandoffProofs ---------------------------
(* What is proved of Handoff for any notes, windows and number of attempts. *)
EXTENDS Handoff, FiniteSetTheorems, TLAPS

(* Every step keeps the types.  One step per action.                       *)
LEMMA TypeStep == TypeOK /\ [Next]_vars => TypeOK'
<1> SUFFICES ASSUME TypeOK, [Next]_vars PROVE TypeOK'
  OBVIOUS
<1> USE MaxAttemptsAssumption, NamesAssumption DEF TypeOK, Ids
<1>1. ASSUME NEW n \in Notes, Convert(n) PROVE TypeOK'
  BY <1>1 DEF Convert, core, shell, script, store, At, Jobs, Files, Owners
<1>2. ASSUME NEW n \in Notes, GiveUpConversion(n) PROVE TypeOK'
  BY <1>2 DEF GiveUpConversion, core, shell, script, store, Aborted, Free, Files, Jobs
<1>3. ASSUME NEW n \in Notes, AskHandoff(n) PROVE TypeOK'
  BY <1>3 DEF AskHandoff, core, shell, script, store, At, Jobs, Starters
<1>4. ASSUME NEW n \in Notes, DiscardSticky(n) PROVE TypeOK'
  BY <1>4 DEF DiscardSticky, core, shell, script, store, StickyWindowGone, Aborted, Closed, Files, Jobs
<1>5. ASSUME NEW n \in Notes, ReopenSticky(n) PROVE TypeOK'
  BY <1>5 DEF ReopenSticky, core, shell, script, store, Free, Jobs
<1>6. ASSUME NEW h \in Ids, StartReply(h) PROVE TypeOK'
  BY <1>6 DEF StartReply, core, shell, script, store, At, Free, Jobs, Starters
<1>7. ASSUME NEW h \in Ids, HearReclaimed(h) PROVE TypeOK'
  BY <1>7 DEF HearReclaimed, core, shell, script, store, Free, Jobs
<1>8. ASSUME NEW h \in Ids, Start(h) PROVE TypeOK'
  BY <1>8, ZenonT(40) DEF Start, core, shell, script, store, Owners, Phases, Starters
<1>9. ASSUME NEW h \in Ids, NoTarget(h) PROVE TypeOK'
  BY <1>9 DEF NoTarget, core, shell, script, store, Starters
<1>10. ASSUME NEW h \in Ids, SendTo(h) PROVE TypeOK'
  BY <1>10 DEF SendTo, core, shell, script, store, Starters
<1>11. ASSUME NEW h \in Ids, RouteHandoff(h) PROVE TypeOK'
  <2>1. queued' \in [Windows -> SUBSET Ids]
    <3>1. CASE dest[h] \in ready
      BY <1>11, <3>1 DEF RouteHandoff
    <3>2. CASE dest[h] \notin ready
      <4>1. queued' = [w \in Windows |-> IF w = dest[h] THEN queued[w] \cup {h}
                                       ELSE queued[w]]
        BY <1>11, <3>2 DEF RouteHandoff
      <4> QED
        BY <4>1
    <3> QED
      BY <3>1, <3>2
  <2>2. starter' \in [Ids -> Starters]
    BY <1>11 DEF RouteHandoff, Starters
  <2> QED
    BY <1>11, <2>1, <2>2 DEF RouteHandoff, core, shell, script, store
<1>12. ASSUME NEW h \in Ids, EmitHandoff(h) PROVE TypeOK'
  BY <1>12 DEF EmitHandoff, core, shell, script, store, Delivered, Starters, Openers
<1>13. ASSUME NEW h \in Ids, EmitFails(h) PROVE TypeOK'
  BY <1>13 DEF EmitFails, core, shell, script, store, Starters
<1>14. ASSUME NEW h \in Ids, StartFails(h) PROVE TypeOK'
  BY <1>14 DEF StartFails, core, shell, script, store, Reclaim, Reclaimable, Aborted, Starters, Phases, Files
<1>15. ASSUME NEW h \in Ids, ClockPasses(h) PROVE TypeOK'
  BY <1>15 DEF ClockPasses, core, shell, script, store
<1>16. ASSUME NEW h \in Ids, Claim(h) PROVE TypeOK'
  BY <1>16, ZenonT(40) DEF Claim, core, shell, script, store, Phases, Openers
<1>17. ASSUME NEW h \in Ids, OwnFile(h) PROVE TypeOK'
  BY <1>17 DEF OwnFile, core, shell, script, store, Owners, Openers
<1>18. ASSUME NEW h \in Ids, AskOpen(h) PROVE TypeOK'
  BY <1>18 DEF AskOpen, core, shell, script, store, Openers
<1>19. ASSUME NEW h \in Ids, TakeFile(h) PROVE TypeOK'
  BY <1>19 DEF TakeFile, core, shell, script, store, Openers, Files
<1>20. ASSUME NEW h \in Ids, OpenFails(h) PROVE TypeOK'
  BY <1>20 DEF OpenFails, core, shell, script, store, Openers, Files
<1>21. ASSUME NEW h \in Ids, ShowTab(h) PROVE TypeOK'
  BY <1>21 DEF ShowTab, core, shell, script, store, Openers, Tabs
<1>22. ASSUME NEW h \in Ids, AskFail(h) PROVE TypeOK'
  BY <1>22 DEF AskFail, core, shell, script, store, Openers
<1>23. ASSUME NEW h \in Ids, Failed(h) PROVE TypeOK'
  BY <1>23 DEF Failed, core, shell, script, store, GiveBack, Reclaim, Reclaimable, Tell, Aborted, Openers, Phases, Files
<1>24. ASSUME NEW h \in Ids, Done(h) PROVE TypeOK'
  BY <1>24 DEF Done, core, shell, script, store, Openers, Phases
<1>25. ASSUME NEW h \in Ids, HandOff(h) PROVE TypeOK'
  BY <1>25 DEF HandOff, core, shell, script, store, Openers
<1>26. ASSUME NEW h \in Ids, CloseSticky(h) PROVE TypeOK'
  BY <1>26 DEF CloseSticky, core, shell, script, store, StickyWindowGone, Aborted, Closed, Openers, Files, Jobs
<1>27. ASSUME NEW h \in Ids, SaveTab(h) PROVE TypeOK'
  BY <1>27 DEF SaveTab, core, shell, script, store, Tabs
<1>28. ASSUME NEW h \in Ids, StickySaved(h) PROVE TypeOK'
  BY <1>28 DEF StickySaved, core, shell, script, store, Tabs
<1>29. ASSUME NEW h \in Ids, DropTab(h) PROVE TypeOK'
  BY <1>29 DEF DropTab, core, shell, script, store, Tabs, Files
<1>30. ASSUME NEW h \in Ids, Release(h) PROVE TypeOK'
  BY <1>30 DEF Release, core, shell, script, store, Tabs, Free, Jobs
<1>31. ASSUME NEW h \in Ids, GiveBackUnread(h) PROVE TypeOK'
  BY <1>31 DEF GiveBackUnread, core, shell, script, store, GiveBack, Reclaim, Reclaimable, Tell, Aborted, Phases, Files
<1>32. ASSUME NEW w \in Windows, OpenWindow(w) PROVE TypeOK'
  BY <1>32 DEF OpenWindow, core, shell, script, store
<1>33. ASSUME NEW w \in Windows, WindowReady(w) PROVE TypeOK'
  BY <1>33 DEF WindowReady, core, shell, script, store, Delivered, Openers
<1>34. ASSUME NEW w \in Windows, DestroyWindow(w) PROVE TypeOK'
  BY <1>34 DEF DestroyWindow, core, shell, script, store, Reclaim, Reclaimable, Tell, Aborted, Phases, Files, Tabs
<1>35. ASSUME NEW h \in Ids, NEW w \in Windows, PickWindow(h, w) PROVE TypeOK'
  BY <1>35 DEF PickWindow, core, shell, script, store, Starters
<1>36. ASSUME Expire PROVE TypeOK'
  BY <1>36 DEF Expire, Due, core, shell, script, store, GiveBack, Reclaim, Reclaimable, Tell, Aborted, Phases, Files
<1>37. ASSUME UNCHANGED vars PROVE TypeOK'
  BY <1>37 DEF vars, core, shell, script, store
<1> QED
  BY <1>1, <1>2, <1>3, <1>4, <1>5, <1>6, <1>7, <1>8, <1>9, <1>10, <1>11, <1>12, <1>13, <1>14, <1>15, <1>16, <1>17, <1>18, <1>19, <1>20, <1>21, <1>22, <1>23, <1>24, <1>25, <1>26, <1>27, <1>28, <1>29, <1>30, <1>31, <1>32, <1>33, <1>34, <1>35, <1>36, <1>37
  DEF Next, CoreStep, ScriptStep, Choice, Target, User

(* The state has its type whatever the windows, the timers and the user do.  *)
THEOREM TypeCorrect == Spec => []TypeOK
<1>1. Init => TypeOK
  BY MaxAttemptsAssumption, NamesAssumption
     DEF Init, TypeOK, Ids, Free, Phases, Files, Owners, Starters, Openers,
         Tabs, Jobs
<1> QED
  BY <1>1, TypeStep, PTL DEF Spec

-----------------------------------------------------------------------------
(* No attempt that was not begun has a note.                               *)
Fresh == \A h \in Ids : h > attempts => noteOf[h] = NoNote

(* A step gives a note to the attempt it begins and to no later one (Convert). *)
LEMMA FreshStep == TypeOK /\ Fresh /\ [Next]_vars => Fresh'
<1> SUFFICES ASSUME TypeOK, Fresh, [Next]_vars PROVE Fresh'
  OBVIOUS
<1>1. ASSUME NEW n \in Notes, Convert(n) PROVE Fresh'
  BY <1>1 DEF Convert, Fresh, TypeOK, Ids
<1>2. ASSUME UNCHANGED <<attempts, noteOf>> PROVE Fresh'
  BY <1>2 DEF Fresh
<1>3. ASSUME ~\E n \in Notes : Convert(n) PROVE UNCHANGED <<attempts, noteOf>>
  BY <1>3, ZenonT(40) DEF Next, CoreStep, ScriptStep, Choice, Target, User, vars,
     GiveUpConversion, AskHandoff, DiscardSticky, ReopenSticky, OpenWindow,
     DestroyWindow, SaveTab, DropTab, Start, SendTo, RouteHandoff, EmitHandoff,
     StartFails, Claim, OwnFile, TakeFile, Failed, Done, HandOff, CloseSticky,
     StickySaved, Release, GiveBackUnread, StartReply, HearReclaimed, AskOpen,
     ShowTab, AskFail, NoTarget, EmitFails, OpenFails, PickWindow, ClockPasses,
     Expire, WindowReady
<1> QED
  BY <1>1, <1>2, <1>3

(* The note an attempt converts never changes.                             *)
LEMMA NoteOfStays ==
  ASSUME TypeOK, Fresh, [Next]_vars, NEW h \in Ids, NEW n \in Notes,
         noteOf[h] = n
  PROVE  noteOf'[h] = n
<1>1. ASSUME NEW m \in Notes, Convert(m) PROVE noteOf'[h] = n
  BY <1>1, NamesAssumption DEF Convert, Fresh, TypeOK, Ids
<1>2. ASSUME ~\E m \in Notes : Convert(m) PROVE UNCHANGED noteOf
  BY <1>2, ZenonT(40) DEF Next, CoreStep, ScriptStep, Choice, Target, User, vars,
     GiveUpConversion, AskHandoff, DiscardSticky, ReopenSticky, OpenWindow,
     DestroyWindow, SaveTab, DropTab, Start, SendTo, RouteHandoff, EmitHandoff,
     StartFails, Claim, OwnFile, TakeFile, Failed, Done, HandOff, CloseSticky,
     StickySaved, Release, GiveBackUnread, StartReply, HearReclaimed, AskOpen,
     ShowTab, AskFail, NoTarget, EmitFails, OpenFails, PickWindow, ClockPasses,
     Expire, WindowReady
<1> QED
  BY <1>1, <1>2

(* There is no tab before the script shows it.                             *)
NoTabYet ==
  \A h \in Ids :
    opener[h] \in {"idle", "claim", "own", "claimed", "open", "took"}
      => tab[h] = "none"

(* Only ShowTab makes a tab, and it moves the opener on.                     *)
LEMMA NoTabYetStep == TypeOK /\ NoTabYet /\ [Next]_vars => NoTabYet'
<1> SUFFICES ASSUME TypeOK, NoTabYet, [Next]_vars PROVE NoTabYet'
  OBVIOUS
<1> USE DEF TypeOK, NoTabYet
<1>1. ASSUME NEW h \in Ids, EmitHandoff(h) PROVE NoTabYet'
  BY <1>1 DEF EmitHandoff, Delivered
<1>2. ASSUME NEW w \in Windows, WindowReady(w) PROVE NoTabYet'
  BY <1>2 DEF WindowReady, Delivered
<1>3. ASSUME NEW w \in Windows, DestroyWindow(w) PROVE NoTabYet'
  BY <1>3 DEF DestroyWindow
<1>4. ASSUME NEW h \in Ids,
             Claim(h) \/ OwnFile(h) \/ AskOpen(h) \/ TakeFile(h) \/ ShowTab(h)
      PROVE  NoTabYet'
  BY <1>4 DEF Claim, OwnFile, AskOpen, TakeFile, ShowTab
<1>5. ASSUME NEW h \in Ids,
             \/ Failed(h) \/ Done(h) \/ HandOff(h) \/ CloseSticky(h)
             \/ AskFail(h) \/ OpenFails(h)
      PROVE  NoTabYet'
  BY <1>5 DEF Failed, Done, HandOff, CloseSticky, AskFail, OpenFails
<1>6. ASSUME NEW h \in Ids,
             SaveTab(h) \/ DropTab(h) \/ StickySaved(h) \/ Release(h)
      PROVE  NoTabYet'
  BY <1>6 DEF SaveTab, DropTab, StickySaved, Release
<1>7. ASSUME UNCHANGED <<opener, tab>> PROVE NoTabYet'
  BY <1>7
<1> QED
  BY <1>1, <1>2, <1>3, <1>4, <1>5, <1>6, <1>7
  DEF Next, CoreStep, ScriptStep, Choice, Target, User, vars, Convert,
     GiveUpConversion, AskHandoff, DiscardSticky, ReopenSticky, OpenWindow,
     Start, SendTo, RouteHandoff, StartFails, GiveBackUnread, StartReply,
     HearReclaimed, NoTarget, EmitFails, PickWindow, ClockPasses, Expire

(* A tab whose text is in a file stays so.                                 *)
LEMMA SavedStays ==
  ASSUME TypeOK, NoTabYet, [Next]_vars, NEW h \in Ids,
         tab[h] \in {"saving", "saved"}
  PROVE  tab'[h] \in {"saving", "saved"}
<1> USE DEF TypeOK
<1>1. ASSUME NEW g \in Ids, SaveTab(g) \/ StickySaved(g) \/ DropTab(g)
             \/ Release(g) \/ ShowTab(g)
      PROVE  tab'[h] \in {"saving", "saved"}
  <2>1. CASE ShowTab(g)
    BY <2>1 DEF ShowTab, NoTabYet
  <2> QED
    BY <1>1, <2>1 DEF SaveTab, StickySaved, DropTab, Release
<1>2. ASSUME NEW w \in Windows, DestroyWindow(w)
      PROVE  tab'[h] \in {"saving", "saved"}
  BY <1>2 DEF DestroyWindow
<1>3. ASSUME ~\E w \in Windows : DestroyWindow(w),
             ~\E g \in Ids : SaveTab(g) \/ StickySaved(g) \/ DropTab(g)
                            \/ Release(g) \/ ShowTab(g)
      PROVE  UNCHANGED tab
  BY <1>3, ZenonT(40) DEF Next, CoreStep, ScriptStep, Choice, Target, User, vars, Convert,
     GiveUpConversion, AskHandoff, DiscardSticky, ReopenSticky, OpenWindow,
     Start, SendTo, RouteHandoff, EmitHandoff, StartFails, Claim, OwnFile,
     TakeFile, Failed, Done, HandOff, CloseSticky, GiveBackUnread, StartReply,
     HearReclaimed, AskOpen, AskFail, NoTarget, EmitFails, OpenFails,
     PickWindow, ClockPasses, Expire, WindowReady
<1> QED
  BY <1>1, <1>2, <1>3

(* Every step keeps the text somewhere: only a save and a discard take a     *)
(* record (sticky_saved_core, StickyApp's discard).                          *)
LEMMA TextKeptStep ==
  TypeOK /\ Fresh /\ NoTabYet /\ TextKept /\ [Next]_vars => TextKept'
<1> SUFFICES ASSUME TypeOK, Fresh, NoTabYet, TextKept, [Next]_vars,
                    NEW n \in Notes
             PROVE  \/ n \in record' \/ n \in discarded'
                    \/ \E h \in Ids : noteOf'[h] = n
                                     /\ tab'[h] \in {"saving", "saved"}
  BY DEF TextKept, Ids
<1>1. CASE \E h \in Ids : noteOf[h] = n /\ tab[h] \in {"saving", "saved"}
  BY <1>1, NoteOfStays, SavedStays
<1>2. CASE n \in discarded
  BY <1>2 DEF Next, CoreStep, ScriptStep, Choice, Target, User, vars, store,
     Convert, GiveUpConversion, AskHandoff, DiscardSticky, ReopenSticky,
     OpenWindow, DestroyWindow, SaveTab, DropTab, Start, SendTo, RouteHandoff,
     EmitHandoff, StartFails, Claim, OwnFile, TakeFile, Failed, Done, HandOff,
     CloseSticky, StickySaved, Release, GiveBackUnread, StartReply,
     HearReclaimed, AskOpen, ShowTab, AskFail, NoTarget, EmitFails, OpenFails,
     PickWindow, ClockPasses, Expire, WindowReady
<1>3. CASE n \in record /\ ~\E h \in Ids : noteOf[h] = n
                                        /\ tab[h] \in {"saving", "saved"}
  <2>1. ASSUME NEW h \in Ids, StickySaved(h) PROVE n \in record'
    BY <1>3, <2>1 DEF StickySaved
  <2>2. ASSUME NEW m \in Notes, DiscardSticky(m)
        PROVE  n \in record' \/ n \in discarded'
    BY <1>3, <2>2 DEF DiscardSticky
  <2>3. ASSUME ~\E h \in Ids : StickySaved(h),
               ~\E m \in Notes : DiscardSticky(m)
        PROVE  UNCHANGED record
    BY <2>3, ZenonT(40) DEF Next, CoreStep, ScriptStep, Choice, Target, User, vars, store,
       Convert, GiveUpConversion, AskHandoff, ReopenSticky, OpenWindow,
       DestroyWindow, SaveTab, DropTab, Start, SendTo, RouteHandoff,
       EmitHandoff, StartFails, Claim, OwnFile, TakeFile, Failed, Done,
       HandOff, CloseSticky, Release, GiveBackUnread, StartReply,
       HearReclaimed, AskOpen, ShowTab, AskFail, NoTarget, EmitFails,
       OpenFails, PickWindow, ClockPasses, Expire, WindowReady
  <2> QED
    BY <1>3, <2>1, <2>2, <2>3
<1> QED
  BY <1>1, <1>2, <1>3 DEF TextKept

(* However claims, timeouts, failures, closing windows and the user's saves   *)
(* interleave, the text of every note is in its record or in a file, or was  *)
(* thrown away by the user.                                                *)
THEOREM TextIsKept == Spec => []TextKept
<1> DEFINE Inv == TypeOK /\ Fresh /\ NoTabYet /\ TextKept
<1>1. Init => Inv
  <2>1. Init => Fresh /\ NoTabYet /\ TextKept
    BY DEF Init, Fresh, NoTabYet, TextKept
  <2>2. Init => TypeOK
    BY MaxAttemptsAssumption, NamesAssumption
       DEF Init, TypeOK, Ids, Free, Phases, Files, Owners, Starters, Openers,
           Tabs, Jobs
  <2> QED
    BY <2>1, <2>2
<1>2. Inv /\ [Next]_vars => Inv'
  BY TypeStep, FreshStep, NoTabYetStep, TextKeptStep
<1>3. Inv => TextKept
  OBVIOUS
<1> QED
  BY <1>1, <1>2, <1>3, PTL DEF Spec

-----------------------------------------------------------------------------
(* The way of a handoff to its window.                                     *)

(* Where the command is while nothing of its handoff can reach a window.      *)
Before == {"idle", "start", "target", "send", "route", "emit", "fail", "err"}

(* A note under conversion has an attempt of its own that no command is at.   *)
Begun ==
  /\ \A h \in Ids : noteOf[h] = NoNote => starter[h] = "idle"
  /\ \A n \in Notes : job[n].pc = "converting" =>
       /\ job[n].id \in Ids /\ noteOf[job[n].id] = n
       /\ starter[job[n].id] = "idle"

(* A handoff is with the command, in one queue, unread, or with the window.   *)
Given(h) ==
  /\ deliveries[h] \in {0, 1}
  /\ deliveries[h] = 0 => opener[h] = "idle"
  /\ h \in unread => deliveries[h] = 0
  /\ \A w \in Windows : h \in queued[w] =>
       w = dest[h] /\ deliveries[h] = 0 /\ h \notin unread
  /\ starter[h] \in Before =>
       /\ deliveries[h] = 0 /\ h \notin unread
       /\ \A w \in Windows : h \notin queued[w]

DeliverInv == TypeOK /\ Fresh /\ Begun /\ \A h \in Ids : Given(h)

(* Only AskHandoff calls the command, for the attempt the script is at.      *)
LEMMA BegunStep == DeliverInv /\ [Next]_vars => Begun'
<1> SUFFICES ASSUME DeliverInv, [Next]_vars PROVE Begun'
  OBVIOUS
<1> USE DEF DeliverInv, TypeOK, Begun
<1>1. ASSUME NEW n \in Notes, Convert(n) PROVE Begun'
  <2> DEFINE h == attempts + 1
  <2>1. /\ h \in Ids /\ noteOf[h] = NoNote /\ starter[h] = "idle"
        /\ \A g \in Ids : noteOf'[g] = IF g = h THEN n ELSE noteOf[g]
        /\ \A m \in Notes : job'[m] = IF m = n THEN At("converting", h)
                                      ELSE job[m]
        /\ starter' = starter
    BY <1>1, MaxAttemptsAssumption DEF Convert, Fresh, Ids
  <2> HIDE DEF h
  <2>2. \A g \in Ids : noteOf'[g] = NoNote => starter'[g] = "idle"
    BY <2>1, NamesAssumption
  <2>3. ASSUME NEW m \in Notes, job'[m].pc = "converting"
        PROVE  /\ job'[m].id \in Ids /\ noteOf'[job'[m].id] = m
               /\ starter'[job'[m].id] = "idle"
    BY <2>1, <2>3, NamesAssumption DEF At
  <2> QED
    BY <2>2, <2>3
<1>2. ASSUME NEW n \in Notes, AskHandoff(n) PROVE Begun'
  BY <1>2, NamesAssumption DEF AskHandoff, At
<1>3. ASSUME NEW n \in Notes,
             GiveUpConversion(n) \/ DiscardSticky(n) \/ ReopenSticky(n)
      PROVE  Begun'
  BY <1>3 DEF GiveUpConversion, DiscardSticky, ReopenSticky, StickyWindowGone,
     Free, Closed
<1>4. ASSUME NEW h \in Ids,
             \/ Start(h) \/ SendTo(h) \/ RouteHandoff(h) \/ EmitHandoff(h)
             \/ StartFails(h) \/ NoTarget(h) \/ EmitFails(h)
             \/ \E w \in Windows : PickWindow(h, w)
      PROVE  Begun'
  BY <1>4 DEF Start, SendTo, RouteHandoff, EmitHandoff, StartFails, NoTarget,
     EmitFails, PickWindow, script
<1>5. ASSUME NEW h \in Ids,
             StartReply(h) \/ HearReclaimed(h) \/ CloseSticky(h) \/ Release(h)
      PROVE  Begun'
  BY <1>5 DEF StartReply, HearReclaimed, CloseSticky, Release,
     StickyWindowGone, Free, Closed, At
<1>6. ASSUME UNCHANGED <<noteOf, starter, job>> PROVE Begun'
  BY <1>6
<1> QED
  BY <1>1, <1>2, <1>3, <1>4, <1>5, <1>6
  DEF Next, CoreStep, ScriptStep, Choice, Target, User, vars, script,
     OpenWindow, DestroyWindow, SaveTab, DropTab, Claim, OwnFile, TakeFile,
     Failed, Done, HandOff, StickySaved, GiveBackUnread, AskOpen, ShowTab,
     AskFail, OpenFails, ClockPasses, Expire, WindowReady, GiveBack

(* A handoff goes from the command to a queue or to the window, from a       *)
(* queue to the window or to what is given back, and never two ways          *)
(* (RouteHandoff, EmitHandoff, WindowReady, DestroyWindow).                  *)
LEMMA GivenStep == DeliverInv /\ [Next]_vars => \A g \in Ids : Given(g)'
<1> SUFFICES ASSUME DeliverInv, [Next]_vars, NEW g \in Ids PROVE Given(g)'
  OBVIOUS
<1> USE DEF DeliverInv, TypeOK, Given, Before
<1>1. ASSUME NEW n \in Notes, AskHandoff(n) PROVE Given(g)'
  BY <1>1 DEF AskHandoff, Begun, shell
<1>2. ASSUME NEW h \in Ids,
             Start(h) \/ SendTo(h) \/ StartFails(h) \/ NoTarget(h) \/ EmitFails(h)
      PROVE  Given(g)'
  BY <1>2 DEF Start, SendTo, StartFails, NoTarget, EmitFails, shell
<1>3. ASSUME NEW h \in Ids, NEW w \in Windows, PickWindow(h, w)
      PROVE  Given(g)'
  BY <1>3 DEF PickWindow
<1>4. ASSUME NEW h \in Ids, RouteHandoff(h) PROVE Given(g)'
  BY <1>4 DEF RouteHandoff
<1>5. ASSUME NEW h \in Ids, EmitHandoff(h) PROVE Given(g)'
  BY <1>5 DEF EmitHandoff, Delivered, shell
<1>6. ASSUME NEW w \in Windows, WindowReady(w) PROVE Given(g)'
  BY <1>6 DEF WindowReady, Delivered
<1>7. ASSUME NEW w \in Windows, DestroyWindow(w) PROVE Given(g)'
  BY <1>7 DEF DestroyWindow
<1>8. ASSUME NEW h \in Ids, StartReply(h) PROVE Given(g)'
  BY <1>8 DEF StartReply, shell
<1>9. ASSUME NEW h \in Ids, GiveBackUnread(h) PROVE Given(g)'
  BY <1>9 DEF GiveBackUnread
<1>10. ASSUME NEW h \in Ids,
              \/ Claim(h) \/ OwnFile(h) \/ AskOpen(h) \/ TakeFile(h)
              \/ OpenFails(h) \/ ShowTab(h) \/ AskFail(h) \/ Failed(h)
              \/ Done(h) \/ HandOff(h) \/ CloseSticky(h)
       PROVE  Given(g)'
  BY <1>10 DEF Claim, OwnFile, AskOpen, TakeFile, OpenFails, ShowTab, AskFail,
     Failed, Done, HandOff, CloseSticky, shell
<1>11. ASSUME UNCHANGED <<starter, dest, opener, deliveries, queued, unread>>
       PROVE  Given(g)'
  BY <1>11
<1> QED
  BY <1>1, <1>2, <1>3, <1>4, <1>5, <1>6, <1>7, <1>8, <1>9, <1>10, <1>11
  DEF Next, CoreStep, ScriptStep, Choice, Target, User, vars, shell, Convert,
     GiveUpConversion, DiscardSticky, ReopenSticky, OpenWindow, SaveTab,
     DropTab, StickySaved, Release, HearReclaimed, ClockPasses, Expire

(* At first no handoff is anywhere.                                          *)
LEMMA DeliverInitially == Init => DeliverInv
<1> SUFFICES ASSUME Init PROVE DeliverInv
  OBVIOUS
<1>1. TypeOK
  BY MaxAttemptsAssumption, NamesAssumption
     DEF Init, TypeOK, Ids, Free, Phases, Files, Owners, Starters, Openers,
         Tabs, Jobs
<1> QED
  BY <1>1 DEF Init, DeliverInv, Fresh, Begun, Given, Free

(* DeliverInv is inductive.                                                  *)
LEMMA DeliverStep == DeliverInv /\ [Next]_vars => DeliverInv'
BY TypeStep, FreshStep, BegunStep, GivenStep DEF DeliverInv

(* However the announcement of a window, its end and the command meet, a     *)
(* handoff reaches a window once or is given back unread, and never both.    *)
THEOREM HandedOverOnce == Spec => []DeliveredOnce
<1>1. DeliverInv => DeliveredOnce
  BY DEF DeliverInv, Given, DeliveredOnce
<1> QED
  BY <1>1, DeliverInitially, DeliverStep, PTL DEF Spec

-----------------------------------------------------------------------------
(* The file of a handoff goes where the handoff goes.                        *)

(* What the window does between its claim and its report.                    *)
Fetching == {"own", "claimed", "open", "took", "done"}

(* A handoff on its way is on its way to the window the command picked; a     *)
(* living window that fetches the file has the claim.                        *)
Phased(h) ==
  /\ starter[h] \in {"idle", "start"} => phase[h] = "none"
  /\ starter[h] = "err" => phase[h] \notin {"Pending", "Claimed"}
  /\ starter[h] \in {"route", "emit", "ok", "over"} /\ phase[h] = "Pending"
       => sentTo[h] = dest[h]
  /\ opener[h] = "claim" /\ phase[h] = "Pending" => Alive(dest[h])
  /\ phase[h] = "Claimed" => Alive(sentTo[h])
  /\ opener[h] \in Fetching /\ Alive(dest[h])
       => phase[h] = "Claimed" /\ sentTo[h] = dest[h]
  /\ opener[h] \in {"handoff", "close"} => phase[h] = "Done"
  /\ dest[h] \in Windows => window[dest[h]] # "unborn"

PhaseInv == DeliverInv /\ \A h \in Ids : Phased(h)

(* The steps of the two scripts and of the state machine of the handoffs     *)
(* keep together what Phased relates: a claim takes what is on its way to    *)
(* the claiming window, and a window that goes takes its claims along.       *)
LEMMA PhasedStep == PhaseInv /\ [Next]_vars => \A g \in Ids : Phased(g)'
<1> SUFFICES ASSUME PhaseInv, [Next]_vars, NEW g \in Ids PROVE Phased(g)'
  OBVIOUS
<1>0. Given(g) /\ Phased(g) /\ TypeOK /\ Begun
  BY DEF PhaseInv, DeliverInv
<1> USE <1>0 DEF TypeOK, Given, Before, Phased, Fetching, Alive
<1>1. ASSUME NEW n \in Notes, AskHandoff(n) PROVE Phased(g)'
  BY <1>1 DEF AskHandoff, Begun, shell, core
<1>2. ASSUME NEW h \in Ids, Start(h) PROVE Phased(g)'
  BY <1>2 DEF Start, shell
<1>3. ASSUME NEW h \in Ids, SendTo(h) PROVE Phased(g)'
  BY <1>3 DEF SendTo, shell
<1>4. ASSUME NEW h \in Ids, RouteHandoff(h) \/ NoTarget(h) \/ EmitFails(h)
      PROVE  Phased(g)'
  BY <1>4 DEF RouteHandoff, NoTarget, EmitFails, shell, core
<1>5. ASSUME NEW h \in Ids, StartFails(h) PROVE Phased(g)'
  BY <1>5 DEF StartFails, Reclaim, Reclaimable, shell
<1>6. ASSUME NEW h \in Ids, NEW w \in Windows, PickWindow(h, w)
      PROVE  Phased(g)'
  BY <1>6 DEF PickWindow, core
<1>7. ASSUME NEW h \in Ids, EmitHandoff(h) PROVE Phased(g)'
  BY <1>7 DEF EmitHandoff, Delivered, shell, core
<1>8. ASSUME NEW w \in Windows, WindowReady(w) PROVE Phased(g)'
  BY <1>8 DEF WindowReady, Delivered, core
<1>9. ASSUME NEW w \in Windows, OpenWindow(w) PROVE Phased(g)'
  BY <1>9 DEF OpenWindow, core
<1>10. ASSUME NEW w \in Windows, DestroyWindow(w) PROVE Phased(g)'
  <2>1. /\ window' = [v \in Windows |-> IF v = w THEN "gone" ELSE window[v]]
        /\ phase'[g] = IF sentTo[g] = w /\ phase[g] \in {"Pending", "Claimed"}
                       THEN "Reclaimed" ELSE phase[g]
        /\ UNCHANGED <<starter, dest, opener, sentTo>>
    BY <1>10 DEF DestroyWindow, Reclaim, Reclaimable
  <2>2. opener[g] = "claim" /\ phase'[g] = "Pending" => Alive(dest[g])'
    <3>1. opener[g] = "claim" => starter[g] \in {"ok", "over"}
      BY DEF Starters
    <3> QED
      BY <2>1, <3>1
  <2>3. phase'[g] = "Claimed" => Alive(sentTo[g])'
    BY <2>1
  <2>4. opener[g] \in Fetching /\ Alive(dest[g])'
         => phase'[g] = "Claimed" /\ sentTo[g] = dest[g]
    BY <2>1
  <2>5. dest[g] \in Windows => window'[dest[g]] # "unborn"
    BY <2>1
  <2> QED
    BY <2>1, <2>2, <2>3, <2>4, <2>5
<1>11. ASSUME NEW h \in Ids, StartReply(h) PROVE Phased(g)'
  BY <1>11 DEF StartReply, shell, core
<1>12. ASSUME NEW h \in Ids, GiveBackUnread(h) PROVE Phased(g)'
  BY <1>12 DEF GiveBackUnread, GiveBack, Reclaim, Reclaimable
<1>13. ASSUME Expire PROVE Phased(g)'
  BY <1>13 DEF Expire, Due, GiveBack, Reclaim, Reclaimable, shell
<1>14. ASSUME NEW h \in Ids, Claim(h) PROVE Phased(g)'
  BY <1>14 DEF Claim, shell
<1>15. ASSUME NEW h \in Ids,
              \/ OwnFile(h) \/ AskOpen(h) \/ TakeFile(h) \/ OpenFails(h)
              \/ ShowTab(h) \/ AskFail(h) \/ HandOff(h) \/ CloseSticky(h)
       PROVE  Phased(g)'
  BY <1>15 DEF OwnFile, AskOpen, TakeFile, OpenFails, ShowTab, AskFail,
     HandOff, CloseSticky, shell, core
<1>16. ASSUME NEW h \in Ids, Failed(h) PROVE Phased(g)'
  BY <1>16 DEF Failed, GiveBack, Reclaim, Reclaimable, shell
<1>17. ASSUME NEW h \in Ids, Done(h) PROVE Phased(g)'
  BY <1>17 DEF Done, shell
<1>18. ASSUME UNCHANGED <<starter, dest, opener, phase, sentTo, window>>
       PROVE  Phased(g)'
  BY <1>18
<1> QED
  BY <1>1, <1>2, <1>3, <1>4, <1>5, <1>6, <1>7, <1>8, <1>9, <1>10, <1>11,
     <1>12, <1>13, <1>14, <1>15, <1>16, <1>17, <1>18
  DEF Next, CoreStep, ScriptStep, Choice, Target, User, vars, shell, core,
     Convert, GiveUpConversion, DiscardSticky, ReopenSticky, SaveTab, DropTab,
     StickySaved, Release, HearReclaimed, ClockPasses

(* At first every handoff is idle.                                           *)
LEMMA PhaseInitially == Init => PhaseInv
BY DeliverInitially, NamesAssumption DEF Init, PhaseInv, Phased, Fetching, Alive

(* PhaseInv is inductive.                                                    *)
LEMMA PhaseStep == PhaseInv /\ [Next]_vars => PhaseInv'
BY DeliverStep, PhasedStep DEF PhaseInv

(* A file in the store has someone who will take it or delete it; a session    *)
(* took it before its tab is shown.                                          *)
Kept(h) ==
  \/ /\ job[noteOf[h]].pc = "converting" /\ job[noteOf[h]].id = h
     /\ owner[h] = "sticky"
  \/ starter[h] = "start"
  \/ phase[h] \in {"Pending", "Claimed"}

Held(h) ==
  /\ opener[h] \in {"took", "done", "handoff", "close"} => file[h] # "stored"
  /\ file[h] = "stored" => noteOf[h] \in Notes /\ Kept(h)

FileInv == PhaseInv /\ \A h \in Ids : Held(h)

(* Whatever lets go of a file deletes it or passes it on (Aborted).          *)
LEMMA HeldStep == FileInv /\ [Next]_vars => \A g \in Ids : Held(g)'
<1> SUFFICES ASSUME FileInv, [Next]_vars, NEW g \in Ids PROVE Held(g)'
  OBVIOUS
<1>0. Given(g) /\ Phased(g) /\ Held(g) /\ TypeOK /\ Begun /\ Fresh
  BY DEF FileInv, PhaseInv, DeliverInv
<1>a. noteOf[g] \in Notes => noteOf'[g] = noteOf[g]
  BY <1>0, NoteOfStays
<1> USE <1>0 DEF TypeOK, Given, Before, Held, Kept
<1>1. ASSUME NEW n \in Notes, Convert(n) PROVE Held(g)'
  <2> DEFINE h == attempts + 1
  <2>1. /\ h \in Ids /\ noteOf[h] = NoNote /\ starter[h] = "idle"
        /\ opener' = opener /\ phase' = phase /\ starter' = starter
        /\ \A i \in Ids : /\ noteOf'[i] = IF i = h THEN n ELSE noteOf[i]
                          /\ file'[i] = IF i = h THEN "stored" ELSE file[i]
                          /\ owner'[i] = IF i = h THEN "sticky" ELSE owner[i]
        /\ \A m \in Notes : job'[m] = IF m = n THEN At("converting", h)
                                      ELSE job[m]
        /\ job[n].pc = "free"
    BY <1>1, MaxAttemptsAssumption DEF Convert, Fresh, Begun, Ids
  <2> HIDE DEF h
  <2> QED
    BY <2>1 DEF At
<1>2. ASSUME NEW n \in Notes, GiveUpConversion(n) PROVE Held(g)'
  BY <1>2 DEF GiveUpConversion, Aborted, Free, Begun
<1>3. ASSUME NEW n \in Notes, AskHandoff(n) PROVE Held(g)'
  BY <1>3 DEF AskHandoff, At, core, Begun
<1>4. ASSUME NEW n \in Notes, DiscardSticky(n) PROVE Held(g)'
  BY <1>4 DEF DiscardSticky, StickyWindowGone, Aborted, Closed
<1>5. ASSUME NEW n \in Notes, ReopenSticky(n) PROVE Held(g)'
  BY <1>5 DEF ReopenSticky, Free, core
<1>6. ASSUME NEW h \in Ids, StartReply(h) PROVE Held(g)'
  BY <1>6 DEF StartReply, Free, At, core
<1>7. ASSUME NEW h \in Ids, HearReclaimed(h) PROVE Held(g)'
  BY <1>7 DEF HearReclaimed, Free, core
<1>8. ASSUME NEW h \in Ids, Release(h) PROVE Held(g)'
  BY <1>8 DEF Release, Free, Closed, core
<1>9. ASSUME NEW h \in Ids, CloseSticky(h) PROVE Held(g)'
  BY <1>9 DEF CloseSticky, StickyWindowGone, Aborted, Closed
<1>10. ASSUME NEW h \in Ids, Start(h) PROVE Held(g)'
  BY <1>10 DEF Start, script
<1>11. ASSUME NEW h \in Ids,
              SendTo(h) \/ RouteHandoff(h) \/ NoTarget(h) \/ EmitFails(h)
       PROVE  Held(g)'
  BY <1>11 DEF SendTo, RouteHandoff, NoTarget, EmitFails, script, core
<1>12. ASSUME NEW h \in Ids, StartFails(h) PROVE Held(g)'
  BY <1>12 DEF StartFails, Reclaim, Reclaimable, Aborted, script
<1>13. ASSUME NEW h \in Ids, NEW w \in Windows, PickWindow(h, w)
       PROVE  Held(g)'
  BY <1>13 DEF PickWindow, script, core
<1>14. ASSUME NEW h \in Ids, EmitHandoff(h) PROVE Held(g)'
  BY <1>14 DEF EmitHandoff, Delivered, script, core
<1>15. ASSUME NEW w \in Windows, WindowReady(w) PROVE Held(g)'
  BY <1>15 DEF WindowReady, Delivered, script, core
<1>16. ASSUME NEW w \in Windows, DestroyWindow(w) PROVE Held(g)'
  BY <1>16 DEF DestroyWindow, Reclaim, Reclaimable, Aborted
<1>17. ASSUME NEW h \in Ids, GiveBackUnread(h) \/ Failed(h) PROVE Held(g)'
  BY <1>17 DEF GiveBackUnread, Failed, GiveBack, Reclaim, Reclaimable, Aborted
<1>18. ASSUME Expire PROVE Held(g)'
  BY <1>18 DEF Expire, Due, GiveBack, Reclaim, Reclaimable, Aborted
<1>19. ASSUME NEW h \in Ids, Claim(h) \/ OwnFile(h) PROVE Held(g)'
  <2>1. CASE Claim(h)
    BY <2>1 DEF Claim, script
  <2>2. CASE OwnFile(h)
    <3>1. starter[h] # "idle"
      BY <2>2 DEF OwnFile, FileInv, PhaseInv, DeliverInv
    <3>2. /\ UNCHANGED <<noteOf, job, file, starter, phase>>
          /\ g # h => opener'[g] = opener[g] /\ owner'[g] = owner[g]
          /\ opener'[h] = "claimed"
      BY <2>2 DEF OwnFile, script
    <3>3. noteOf[g] \in Notes /\ job[noteOf[g]].pc = "converting"
            => starter[job[noteOf[g]].id] = "idle"
      BY DEF Begun
    <3> QED
      BY <3>1, <3>2, <3>3
  <2> QED
    BY <1>19, <2>1, <2>2
<1>20. ASSUME NEW h \in Ids,
              \/ AskOpen(h) \/ TakeFile(h) \/ OpenFails(h) \/ ShowTab(h)
              \/ AskFail(h) \/ HandOff(h) \/ Done(h)
       PROVE  Held(g)'
  BY <1>20 DEF AskOpen, TakeFile, OpenFails, ShowTab, AskFail, HandOff, Done,
     script, core
<1>21. ASSUME NEW h \in Ids, DropTab(h) PROVE Held(g)'
  BY <1>21 DEF DropTab, script
<1>22. ASSUME UNCHANGED <<noteOf, job, starter, opener, phase, file, owner>>
       PROVE  Held(g)'
  BY <1>22
<1> QED
  BY <1>1, <1>2, <1>3, <1>4, <1>5, <1>6, <1>7, <1>8, <1>9, <1>10, <1>11,
     <1>12, <1>13, <1>14, <1>15, <1>16, <1>17, <1>18, <1>19, <1>20, <1>21,
     <1>22
  DEF Next, CoreStep, ScriptStep, Choice, Target, User, vars, script, core,
     OpenWindow, SaveTab, StickySaved, ClockPasses

(* At first there are no files.                                              *)
LEMMA FileInitially == Init => FileInv
BY PhaseInitially DEF Init, FileInv, Held

(* FileInv is inductive.                                                     *)
LEMMA FileStep == FileInv /\ [Next]_vars => FileInv'
BY PhaseStep, HeldStep DEF FileInv

(* No order of claims, timeouts, errors and closing windows leaves a         *)
(* conversion file behind that nobody will take or delete.                   *)
THEOREM NoFileLeftBehind == Spec => []NoOrphanFile
<1>1. FileInv => NoOrphanFile
  <2> SUFFICES ASSUME FileInv, NEW h \in Ids, file[h] = "stored"
               PROVE  \/ job[noteOf[h]] = At("converting", h)
                      \/ starter[h] = "start"
                      \/ phase[h] = "Pending"
                      \/ phase[h] = "Claimed" /\ Alive(sentTo[h])
    BY DEF NoOrphanFile
  <2>1. noteOf[h] \in Notes /\ Kept(h) /\ TypeOK /\ Phased(h)
    BY DEF FileInv, PhaseInv, DeliverInv, Held
  <2> QED
    BY <2>1 DEF Kept, TypeOK, Phased, At
<1> QED
  BY <1>1, FileInitially, FileStep, PTL DEF Spec

-----------------------------------------------------------------------------
(* One editor.                                                             *)

(* The command that starts the handoff is at work.                           *)
Starting == {"start", "target", "send", "route", "emit", "fail"}

(* An attempt that is under way, and one that has to do with its note.        *)
Engaged(h) ==
  \/ starter[h] \in Starting
  \/ phase[h] \in {"Pending", "Claimed"}
  \/ opener[h] \in {"handoff", "close"}
Occupied(h) == Engaged(h) \/ tab[h] \in {"open", "saving", "saved", "releasing"}

LockedFor(n, h) == job[n].pc \in {"starting", "waiting"} /\ job[n].id = h
Away(n, h) == n \notin record \/ handedTo[n] = dest[h]

(* Tabs are shown by windows that live and come after their handoff; a saved   *)
(* one has no record; what is told to a note was reclaimed.                  *)
Shown(h) ==
  /\ h \in told => phase[h] = "Reclaimed"
  /\ tab[h] # "none" => opener[h] \in {"done", "handoff", "close", "over"}
  /\ opener[h] \in {"done", "handoff", "close"} => tab[h] # "none"
  /\ tab[h] = "open" => Alive(dest[h])
  /\ tab[h] = "saved" => noteOf[h] \notin record

(* While an attempt is under way its note is locked for it, or gone; a message  *)
(* that unlocks a note is for the attempt it is locked for; a note with an    *)
(* open tab is locked or off the lists.                                     *)
Locks(n, h) ==
  /\ Engaged(h) => LockedFor(n, h) \/ (job[n].pc = "closed" /\ n \notin record)
  /\ starter[h] \in Starting => job[n].pc # "waiting"
  /\ h \in told => job[n].pc = "free" \/ LockedFor(n, h)
  /\ job[n].pc = "converting" => ~Occupied(h)
  /\ tab[h] = "open" =>
       \/ opener[h] \in {"done", "handoff"}
       \/ opener[h] = "close" /\ Away(n, h)
       \/ job[n].pc = "closed" /\ Away(n, h)

OnlyOne ==
  \A g, h \in Ids :
    noteOf[g] = noteOf[h] /\ noteOf[g] \in Notes /\ Occupied(g) /\ Occupied(h)
      => g = h

LockInv ==
  /\ FileInv
  /\ \A h \in Ids : Shown(h)
  /\ \A h \in Ids : noteOf[h] \in Notes => Locks(noteOf[h], h)
  /\ OnlyOne

(* Tabs are made by living windows and go with them (ShowTab,                *)
(* DestroyWindow).                                                           *)
LEMMA ShownStep == LockInv /\ [Next]_vars => \A g \in Ids : Shown(g)'
<1> SUFFICES ASSUME LockInv, [Next]_vars, NEW g \in Ids PROVE Shown(g)'
  OBVIOUS
<1>0. Given(g) /\ Phased(g) /\ Shown(g) /\ TypeOK /\ Begun /\ Fresh
  BY DEF LockInv, FileInv, PhaseInv, DeliverInv
<1> USE <1>0 DEF TypeOK, Given, Before, Shown, Alive
<1>b. ASSUME NEW n \in Notes, Convert(n) PROVE Shown(g)'
  <2>1. /\ noteOf[attempts + 1] = NoNote
        /\ noteOf' = [noteOf EXCEPT ![attempts + 1] = n]
        /\ UNCHANGED <<phase, dest, opener, tab, window, told, record>>
    BY <1>b, MaxAttemptsAssumption DEF Convert, Fresh, Ids, core, shell, store
  <2>2. noteOf[g] = NoNote => tab[g] = "none"
    BY DEF Begun
  <2> QED
    BY <2>1, <2>2
<1>1. ASSUME NEW n \in Notes, DiscardSticky(n) PROVE Shown(g)'
  BY <1>1 DEF DiscardSticky, StickyWindowGone, shell
<1>2. ASSUME NEW h \in Ids, Start(h) PROVE Shown(g)'
  BY <1>2 DEF Start, Phased, shell, script, store
<1>3. ASSUME NEW h \in Ids, StartFails(h) PROVE Shown(g)'
  BY <1>3 DEF StartFails, Reclaim, Reclaimable, shell, script, store
<1>4. ASSUME NEW h \in Ids, HearReclaimed(h) PROVE Shown(g)'
  BY <1>4 DEF HearReclaimed, shell, core, store
<1>5. ASSUME NEW h \in Ids, NEW w \in Windows, PickWindow(h, w)
      PROVE  Shown(g)'
  BY <1>5 DEF PickWindow, core, script, store
<1>6. ASSUME NEW h \in Ids, EmitHandoff(h) PROVE Shown(g)'
  BY <1>6 DEF EmitHandoff, Delivered, shell, core, script, store
<1>7. ASSUME NEW w \in Windows, WindowReady(w) PROVE Shown(g)'
  BY <1>7 DEF WindowReady, Delivered, core, script, store
<1>8. ASSUME NEW w \in Windows, OpenWindow(w) PROVE Shown(g)'
  BY <1>8 DEF OpenWindow, core, script, store
<1>9. ASSUME NEW w \in Windows, DestroyWindow(w) PROVE Shown(g)'
  BY <1>9 DEF DestroyWindow, Reclaim, Reclaimable, Tell, store
<1>10. ASSUME NEW h \in Ids, GiveBackUnread(h) \/ Failed(h) PROVE Shown(g)'
  BY <1>10 DEF GiveBackUnread, Failed, GiveBack, Reclaim, Reclaimable, Tell,
     shell, store
<1>11. ASSUME Expire PROVE Shown(g)'
  BY <1>11 DEF Expire, Due, GiveBack, Reclaim, Reclaimable, Tell, shell, store
<1>12. ASSUME NEW h \in Ids, Claim(h) \/ Done(h) PROVE Shown(g)'
  BY <1>12 DEF Claim, Done, shell, script, store
<1>13. ASSUME NEW h \in Ids,
              \/ OwnFile(h) \/ AskOpen(h) \/ TakeFile(h) \/ OpenFails(h)
              \/ ShowTab(h) \/ AskFail(h) \/ HandOff(h)
       PROVE  Shown(g)'
  BY <1>13 DEF OwnFile, AskOpen, TakeFile, OpenFails, ShowTab, AskFail,
     HandOff, shell, core, script, store
<1>14. ASSUME NEW h \in Ids, CloseSticky(h) PROVE Shown(g)'
  BY <1>14 DEF CloseSticky, StickyWindowGone, shell, store
<1>15. ASSUME NEW h \in Ids,
              SaveTab(h) \/ StickySaved(h) \/ DropTab(h) \/ Release(h)
       PROVE  Shown(g)'
  BY <1>15 DEF SaveTab, StickySaved, DropTab, Release, shell, core, script, store
<1>16. ASSUME UNCHANGED <<noteOf, phase, dest, opener, tab, window, told,
                           record>>
       PROVE  Shown(g)'
  BY <1>16
<1> QED
  BY <1>b, <1>1, <1>2, <1>3, <1>4, <1>5, <1>6, <1>7, <1>8, <1>9, <1>10, <1>11,
     <1>12, <1>13, <1>14, <1>15, <1>16
  DEF Next, CoreStep, ScriptStep, Choice, Target, User, vars, shell, core,
     script, store, GiveUpConversion, AskHandoff, ReopenSticky, SendTo,
     RouteHandoff, NoTarget, EmitFails, StartReply, ClockPasses

(* An attempt comes to occupy its note by asking for a handoff only.         *)
LEMMA OccupiedBefore ==
  ASSUME LockInv, [Next]_vars, NEW g \in Ids, Occupied(g)'
  PROVE  \/ Occupied(g)
         \/ \E n \in Notes : AskHandoff(n) /\ g = job[n].id
<1>0. Given(g) /\ Phased(g) /\ Shown(g) /\ TypeOK
  BY DEF LockInv, FileInv, PhaseInv, DeliverInv
<1> USE <1>0 DEF TypeOK, Occupied, Engaged, Starting
<1>1. ASSUME NEW n \in Notes, AskHandoff(n), g # job[n].id
      PROVE  Occupied(g)
  BY <1>1 DEF AskHandoff, core
<1>2. ASSUME NEW h \in Ids,
             \/ Start(h) \/ SendTo(h) \/ RouteHandoff(h) \/ NoTarget(h)
             \/ EmitFails(h) \/ StartReply(h)
             \/ \E w \in Windows : PickWindow(h, w)
      PROVE  Occupied(g)
  BY <1>2 DEF Start, SendTo, RouteHandoff, NoTarget, EmitFails, PickWindow,
     StartReply, core
<1>3. ASSUME NEW h \in Ids, StartFails(h) PROVE Occupied(g)
  BY <1>3 DEF StartFails, Reclaim, Reclaimable
<1>4. ASSUME NEW h \in Ids, EmitHandoff(h) PROVE Occupied(g)
  BY <1>4 DEF EmitHandoff, Delivered, core
<1>5. ASSUME NEW w \in Windows, WindowReady(w) PROVE Occupied(g)
  BY <1>5 DEF WindowReady, Delivered, core
<1>6. ASSUME NEW w \in Windows, DestroyWindow(w) PROVE Occupied(g)
  BY <1>6 DEF DestroyWindow, Reclaim, Reclaimable
<1>7. ASSUME NEW h \in Ids, GiveBackUnread(h) \/ Failed(h) PROVE Occupied(g)
  BY <1>7 DEF GiveBackUnread, Failed, GiveBack, Reclaim, Reclaimable
<1>8. ASSUME Expire PROVE Occupied(g)
  BY <1>8 DEF Expire, Due, GiveBack, Reclaim, Reclaimable
<1>9. ASSUME NEW h \in Ids,
             \/ Claim(h) \/ OwnFile(h) \/ AskOpen(h) \/ TakeFile(h)
             \/ OpenFails(h) \/ AskFail(h) \/ Done(h) \/ HandOff(h)
             \/ CloseSticky(h)
      PROVE  Occupied(g)
  BY <1>9 DEF Claim, OwnFile, AskOpen, TakeFile, OpenFails, AskFail, Done,
     HandOff, CloseSticky, core
<1>10. ASSUME NEW h \in Ids, ShowTab(h) PROVE Occupied(g)
  BY <1>10 DEF ShowTab, core, Phased, Fetching
<1>11. ASSUME NEW h \in Ids,
              SaveTab(h) \/ StickySaved(h) \/ DropTab(h) \/ Release(h)
       PROVE  Occupied(g)
  BY <1>11 DEF SaveTab, StickySaved, DropTab, Release, core
<1>12. ASSUME UNCHANGED <<starter, opener, phase, tab>> PROVE Occupied(g)
  BY <1>12
<1> QED
  BY <1>1, <1>2, <1>3, <1>4, <1>5, <1>6, <1>7, <1>8, <1>9, <1>10, <1>11,
     <1>12
  DEF Next, CoreStep, ScriptStep, Choice, Target, User, vars, core, Convert,
     GiveUpConversion, DiscardSticky, ReopenSticky, OpenWindow, HearReclaimed,
     ClockPasses

(* The attempts of a note are the same before and after a step but for the one *)
(* that a conversion begins, which no note had.                             *)
LEMMA NoteOfNext ==
  ASSUME LockInv, [Next]_vars, NEW g \in Ids, noteOf'[g] \in Notes
  PROVE  \/ noteOf[g] = noteOf'[g]
         \/ noteOf[g] = NoNote /\ ~Occupied(g)
            /\ \E n \in Notes : Convert(n) /\ g = attempts + 1 /\ noteOf'[g] = n
<1>0. /\ TypeOK /\ Fresh /\ Begun /\ Given(g) /\ Phased(g) /\ Shown(g)
  BY DEF LockInv, FileInv, PhaseInv, DeliverInv
<1>1. CASE noteOf[g] \in Notes
  BY <1>0, <1>1, NoteOfStays
<1>2. CASE noteOf[g] = NoNote
  <2>1. starter[g] = "idle" /\ phase[g] = "none" /\ opener[g] = "idle"
        /\ tab[g] = "none"
    BY <1>0, <1>2 DEF Begun, Given, Before, Phased, Shown, TypeOK
  <2>2. ~Occupied(g)
    BY <2>1 DEF Occupied, Engaged, Starting
  <2>3. ASSUME NEW n \in Notes, Convert(n), g # attempts + 1
        PROVE  noteOf'[g] = noteOf[g]
    BY <2>3, <1>0 DEF Convert, TypeOK
  <2>4. ASSUME NEW n \in Notes, Convert(n), g = attempts + 1
        PROVE  noteOf'[g] = n
    BY <2>4, <1>0 DEF Convert, TypeOK
  <2>5. ASSUME ~\E n \in Notes : Convert(n) PROVE UNCHANGED noteOf
    BY <2>5, ZenonT(40) DEF Next, CoreStep, ScriptStep, Choice, Target, User, vars,
       GiveUpConversion, AskHandoff, DiscardSticky, ReopenSticky, OpenWindow,
       DestroyWindow, SaveTab, DropTab, Start, SendTo, RouteHandoff,
       EmitHandoff, StartFails, Claim, OwnFile, TakeFile, Failed, Done,
       HandOff, CloseSticky, StickySaved, Release, GiveBackUnread, StartReply,
       HearReclaimed, AskOpen, ShowTab, AskFail, NoTarget, EmitFails,
       OpenFails, PickWindow, ClockPasses, Expire, WindowReady
  <2> QED
    BY <1>2, <2>2, <2>3, <2>4, <2>5, NamesAssumption
<1> QED
  BY <1>0, <1>1, <1>2 DEF TypeOK

(* No second attempt begins while one occupies the note.                     *)
LEMMA OnlyOneStep == LockInv /\ [Next]_vars => OnlyOne'
<1> SUFFICES ASSUME LockInv, [Next]_vars, NEW g \in Ids, NEW h \in Ids,
                    noteOf'[g] = noteOf'[h], noteOf'[g] \in Notes,
                    Occupied(g)', Occupied(h)', g # h
             PROVE  FALSE
  BY DEF OnlyOne
<1>0. TypeOK /\ Begun
  BY DEF LockInv, FileInv, PhaseInv, DeliverInv
<1>1. ASSUME NEW i \in Ids, noteOf'[i] \in Notes, Occupied(i)'
      PROVE  noteOf'[i] = noteOf[i]
  <2>1. CASE Occupied(i)
    BY <1>1, <2>1, NoteOfNext
  <2>2. ASSUME NEW n \in Notes, AskHandoff(n), i = job[n].id
        PROVE  noteOf'[i] = noteOf[i]
    BY <2>2 DEF AskHandoff
  <2> QED
    BY <1>1, <2>1, <2>2, OccupiedBefore
<1>2. noteOf[g] = noteOf[h] /\ noteOf[g] \in Notes
  BY <1>1
<1>3. ASSUME NEW n \in Notes, AskHandoff(n), NEW i \in Ids, noteOf[i] = n
      PROVE  ~Occupied(i)
  BY <1>3 DEF LockInv, Locks, AskHandoff
<1>4. ASSUME NEW n \in Notes, AskHandoff(n)
      PROVE  noteOf[job[n].id] = n
  BY <1>0, <1>4 DEF Begun, AskHandoff
<1>5. ASSUME NEW n \in Notes, AskHandoff(n), g = job[n].id \/ h = job[n].id
      PROVE  FALSE
  <2>1. noteOf[g] = n /\ noteOf[h] = n
    BY <1>2, <1>4, <1>5
  <2>2. ~Occupied(g) /\ ~Occupied(h)
    BY <1>3, <1>5, <2>1
  <2>3. PICK m \in Notes : AskHandoff(m) /\ g = job[m].id
    BY <2>2, OccupiedBefore
  <2>4. PICK l \in Notes : AskHandoff(l) /\ h = job[l].id
    BY <2>2, OccupiedBefore
  <2>5. m = n /\ l = n
    BY <1>4, <2>1, <2>3, <2>4
  <2> QED
    BY <2>3, <2>4, <2>5
<1>6. Occupied(g) /\ Occupied(h)
  BY <1>5, OccupiedBefore
<1> QED
  BY <1>2, <1>6 DEF LockInv, OnlyOne

(* Nothing of an unlocked note is under way, and it has no open tab.          *)
LEMMA FreeIsIdle ==
  ASSUME LockInv, NEW g \in Ids, noteOf[g] \in Notes,
         job[noteOf[g]].pc = "free"
  PROVE  ~Engaged(g) /\ tab[g] # "open"
<1>0. Phased(g) /\ Shown(g) /\ Locks(noteOf[g], g)
  BY DEF LockInv, FileInv, PhaseInv
<1>1. ~Engaged(g)
  BY <1>0 DEF Locks, LockedFor
<1>2. opener[g] = "done" /\ Alive(dest[g]) => phase[g] = "Claimed"
  BY <1>0 DEF Phased, Fetching
<1> QED
  BY <1>0, <1>1, <1>2 DEF Locks, Shown, Engaged

(* Nothing is told or open of a note that can be shown again.               *)
LEMMA ListedIsIdle ==
  ASSUME LockInv, NEW g \in Ids, noteOf[g] \in Notes,
         job[noteOf[g]].pc = "closed", noteOf[g] \in record,
         tab[g] = "open" => handedTo[noteOf[g]] # dest[g]
  PROVE  ~Engaged(g) /\ tab[g] # "open" /\ g \notin told
<1>0. Phased(g) /\ Shown(g) /\ Locks(noteOf[g], g)
  BY DEF LockInv, FileInv, PhaseInv
<1>1. ~Engaged(g) /\ g \notin told
  BY <1>0 DEF Locks, LockedFor
<1>2. opener[g] = "done" /\ Alive(dest[g]) => phase[g] = "Claimed"
  BY <1>0 DEF Phased, Fetching
<1> QED
  BY <1>0, <1>1, <1>2 DEF Locks, Shown, Engaged, Away

(* The note's window is locked for the attempt that is under way, and        *)
(* unlocked by what ends that attempt and nothing else.                      *)
LEMMA LocksStep ==
  LockInv /\ [Next]_vars =>
    \A g \in Ids : noteOf'[g] \in Notes => Locks(noteOf[g], g)'
<1> SUFFICES ASSUME LockInv, [Next]_vars, NEW g \in Ids, NEW n \in Notes,
                    noteOf'[g] = n
             PROVE  Locks(n, g)'
  OBVIOUS
<1>0. TypeOK /\ Begun /\ Fresh /\ Given(g) /\ Phased(g) /\ Shown(g)
  BY DEF LockInv, FileInv, PhaseInv, DeliverInv
<1> USE <1>0 DEF TypeOK
<1>1. ASSUME NEW m \in Notes, Convert(m) PROVE Locks(n, g)'
  <2>1. /\ job[m].pc = "free" /\ Settled(m)
        /\ job' = [job EXCEPT ![m] = At("converting", attempts + 1)]
        /\ m \in record
        /\ UNCHANGED <<phase, starter, dest, opener, tab, told, record, handedTo>>
    BY <1>1 DEF Convert, store
  <2>2. CASE noteOf[g] = n
    <3>1. Locks(n, g)
      BY <2>2 DEF LockInv
    <3>2. CASE m = n
      <4>1. ~Engaged(g) /\ tab[g] # "open"
        BY <2>1, <2>2, <3>2, FreeIsIdle
      <4>2. g \notin told /\ tab[g] \notin {"saving", "saved", "releasing"}
        BY <2>1, <2>2, <3>2 DEF Settled, Shown
      <4> QED
        BY <2>1, <4>1, <4>2 DEF Locks, Occupied, Engaged
    <3>3. CASE m # n
      BY <2>1, <3>1, <3>3 DEF Locks, LockedFor, Occupied, Engaged, Away
    <3> QED
      BY <3>2, <3>3
  <2>3. CASE noteOf[g] # n
    <3>1. noteOf[g] = NoNote /\ ~Occupied(g) /\ phase[g] = "none"
      BY <2>3, NoteOfNext DEF Begun, Phased
    <3>2. g \notin told
      BY <3>1 DEF Shown
    <3> QED
      BY <2>1, <3>1, <3>2 DEF Locks, Occupied, Engaged
  <2> QED
    BY <2>2, <2>3
<1>2. ASSUME noteOf[g] = n PROVE Locks(n, g)'
  <2>0. Locks(n, g)
    BY <1>2 DEF LockInv
  <2>a. ASSUME NEW h \in Ids, noteOf[h] = n, Occupied(h), Occupied(g) PROVE g = h
    BY <1>2, <2>a DEF LockInv, OnlyOne
  <2>b. ASSUME NEW h \in Ids, h # g, noteOf[h] = n, Occupied(h)
        PROVE  ~Engaged(g) /\ tab[g] # "open"
    BY <2>a, <2>b DEF Occupied
  <2> USE <1>2, <2>0
  <2>1. ASSUME NEW m \in Notes, AskHandoff(m) PROVE Locks(n, g)'
    <3>1. /\ job[m].pc = "converting" /\ noteOf[job[m].id] = m
          /\ job[m].id \in Ids
          /\ job' = [job EXCEPT ![m] = At("starting", job[m].id)]
          /\ starter' = [starter EXCEPT ![job[m].id] = "start"]
          /\ UNCHANGED <<phase, dest, opener, tab, told, record, handedTo>>
      BY <2>1 DEF AskHandoff, Begun, core, store
    <3>2. CASE n = m
      BY <3>1, <3>2 DEF Locks, LockedFor, Occupied, Engaged, Starting, At, Away
    <3>3. CASE n # m
      BY <3>1, <3>3 DEF Locks, LockedFor, Occupied, Engaged, Away
    <3> QED
      BY <3>2, <3>3
  <2>2. ASSUME NEW m \in Notes, GiveUpConversion(m) PROVE Locks(n, g)'
    BY <2>2 DEF GiveUpConversion, store, Free, Locks, LockedFor, Occupied,
       Engaged, Away
  <2>3. ASSUME NEW m \in Notes, DiscardSticky(m) PROVE Locks(n, g)'
    BY <2>3 DEF DiscardSticky, StickyWindowGone, Closed, Locks, LockedFor,
       Occupied, Engaged, Away
  <2>4. ASSUME NEW m \in Notes, ReopenSticky(m) PROVE Locks(n, g)'
    <3>1. /\ job[m].pc = "closed" /\ m \in record /\ handedTo[m] = NoWindow
          /\ job' = [job EXCEPT ![m] = Free]
          /\ UNCHANGED <<starter, phase, dest, opener, tab, told, record,
                         handedTo>>
      BY <2>4 DEF ReopenSticky, store, core
    <3>2. tab[g] = "open" => dest[g] # NoWindow
      BY NamesAssumption DEF Shown, Alive
    <3>3. n = m => ~Engaged(g) /\ tab[g] # "open" /\ g \notin told
      BY <3>1, <3>2, ListedIsIdle
    <3> QED
      BY <3>1, <3>3 DEF Locks, LockedFor, Occupied, Engaged, Away, Free
  <2>5. ASSUME NEW h \in Ids, StartReply(h) PROVE Locks(n, g)'
    <3>1. /\ starter[h] \in {"ok", "err"}
          /\ starter' = [starter EXCEPT ![h] = "over"]
          /\ UNCHANGED <<phase, dest, opener, tab, told, record, handedTo>>
      BY <2>5 DEF StartReply, core, store
    <3>2. CASE job'[n] = job[n]
      BY <3>1, <3>2 DEF Locks, LockedFor, Occupied, Engaged, Away, Starting
    <3>3. CASE job'[n] # job[n]
      <4>1. /\ job[n] = At("starting", h) /\ noteOf[h] = n
            /\ job'[n] = IF starter[h] = "ok" THEN At("waiting", h) ELSE Free
        BY <2>5, <3>3 DEF StartReply
      <4>2. job[n].pc = "starting" /\ job[n].id = h
        BY <4>1 DEF At
      <4>3. Engaged(g) => g = h
        BY <4>2 DEF Locks, LockedFor
      <4>4. starter[h] = "err" => ~Engaged(h)
        BY DEF LockInv, FileInv, PhaseInv, DeliverInv, Phased, Given, Before,
           Engaged, Starting
      <4>5. starter[g] \in Starting => g # h
        BY <3>1 DEF Starting
      <4> QED
        BY <3>1, <4>1, <4>2, <4>3, <4>4, <4>5
        DEF Locks, LockedFor, Occupied, Engaged, Away, Starting, At, Free
    <3> QED
      BY <3>2, <3>3
  <2>6. ASSUME NEW h \in Ids, HearReclaimed(h) PROVE Locks(n, g)'
    <3>1. /\ h \in told /\ told' = told \ {h}
          /\ UNCHANGED <<starter, phase, dest, opener, tab, record, handedTo>>
      BY <2>6 DEF HearReclaimed, core, store
    <3>2. CASE job'[n] = job[n]
      BY <3>1, <3>2 DEF Locks, LockedFor, Occupied, Engaged, Away
    <3>3. CASE job'[n] # job[n]
      <4>1. job[n].pc = "waiting" /\ noteOf[h] = n /\ job'[n] = Free
        BY <2>6, <3>3 DEF HearReclaimed
      <4>2. Locks(n, h) /\ Phased(h) /\ phase[h] = "Reclaimed"
        BY <3>1, <4>1 DEF LockInv, FileInv, PhaseInv, Shown
      <4>3. job[n].id = h
        BY <3>1, <4>1, <4>2 DEF Locks, LockedFor
      <4>4. ~Engaged(h)
        BY <4>1, <4>2 DEF Locks, Engaged, Phased
      <4>5. ~Engaged(g)
        BY <4>1, <4>3, <4>4 DEF Locks, LockedFor
      <4> QED
        BY <3>1, <4>1, <4>5 DEF Locks, LockedFor, Occupied, Engaged, Away, Free
    <3> QED
      BY <3>2, <3>3
  <2>7. ASSUME NEW h \in Ids, Release(h) PROVE Locks(n, g)'
    <3>1. /\ tab[h] = "releasing" /\ tab' = [tab EXCEPT ![h] = "closed"]
          /\ handedTo' = [handedTo EXCEPT ![noteOf[h]] = NoWindow]
          /\ UNCHANGED <<starter, phase, dest, opener, told, record>>
      BY <2>7 DEF Release, core
    <3>2. noteOf[h] = n => tab[g] # "open"
      BY <3>1, <2>b DEF Occupied
    <3>3. CASE job'[n] = job[n]
      BY <3>1, <3>2, <3>3 DEF Locks, LockedFor, Occupied, Engaged, Away
    <3>4. CASE job'[n] # job[n]
      <4>1. /\ job[n].pc = "closed" /\ n \in record /\ noteOf[h] = n
            /\ job'[n] = Free
        BY <2>7, <3>4 DEF Release, Closed
      <4>2. ~Engaged(g) /\ tab[g] # "open" /\ g \notin told
        BY <3>2, <4>1, ListedIsIdle
      <4> QED
        BY <3>1, <4>1, <4>2 DEF Locks, LockedFor, Occupied, Engaged, Away, Free
    <3> QED
      BY <3>3, <3>4
  <2>8. ASSUME NEW h \in Ids, CloseSticky(h) PROVE Locks(n, g)'
    <3>1. /\ opener[h] = "close" /\ opener' = [opener EXCEPT ![h] = "over"]
          /\ job' = [job EXCEPT ![noteOf[h]] = Closed]
          /\ told' = {i \in told : noteOf[i] # noteOf[h]}
          /\ UNCHANGED <<starter, phase, dest, tab, record, handedTo>>
      BY <2>8 DEF CloseSticky, StickyWindowGone, store
    <3>2. Occupied(h)
      BY <3>1 DEF Occupied, Engaged
    <3>3. CASE noteOf[h] # n
      BY <3>1, <3>3 DEF Locks, LockedFor, Occupied, Engaged, Away
    <3>4. CASE noteOf[h] = n /\ g # h
      BY <2>b, <3>1, <3>2, <3>4
      DEF Locks, LockedFor, Occupied, Engaged, Away, Closed
    <3>5. CASE g = h
      <4>1. phase[g] = "Done" /\ starter[g] \notin Starting
        BY <3>1, <3>5 DEF Phased, Given, Before, Starting
      <4>2. tab[g] = "open" => Away(n, g)
        BY <3>1, <3>5 DEF Locks
      <4>3. job'[n].pc = "closed"
        BY <3>1, <3>5 DEF Closed
      <4>4. g \notin told'
        BY <3>1, <3>5
      <4> QED
        BY <3>1, <3>5, <4>1, <4>2, <4>3, <4>4
        DEF Locks, LockedFor, Occupied, Engaged, Away
    <3> QED
      BY <3>3, <3>4, <3>5
  <2>9. ASSUME NEW h \in Ids, HandOff(h) PROVE Locks(n, g)'
    <3>1. /\ opener[h] = "handoff" /\ opener' = [opener EXCEPT ![h] = "close"]
          /\ handedTo' = [handedTo EXCEPT ![noteOf[h]] = dest[h]]
          /\ UNCHANGED <<starter, phase, dest, tab, job, told, record>>
      BY <2>9 DEF HandOff, core, script
    <3>2. Occupied(h)
      BY <3>1 DEF Occupied, Engaged
    <3>3. noteOf[h] = n /\ g # h => tab[g] # "open"
      BY <2>b, <3>2
    <3> QED
      BY <3>1, <3>3 DEF Locks, LockedFor, Occupied, Engaged, Away
  <2>10. ASSUME NEW h \in Ids, Done(h) PROVE Locks(n, g)'
    BY <2>10 DEF Done, script, store, Locks, LockedFor, Occupied, Engaged,
       Away, Phased, Shown, Fetching
  <2>11. ASSUME NEW h \in Ids, ShowTab(h) PROVE Locks(n, g)'
    BY <2>11 DEF ShowTab, core, script, store, Locks, LockedFor, Occupied,
       Engaged, Away, Phased, Fetching
  <2>12. ASSUME NEW h \in Ids, Claim(h) PROVE Locks(n, g)'
    BY <2>12 DEF Claim, script, store, Locks, LockedFor, Occupied, Engaged,
       Away, Shown
  <2>13. ASSUME NEW h \in Ids, Start(h) PROVE Locks(n, g)'
    BY <2>13 DEF Start, script, store, Locks, LockedFor, Occupied, Engaged,
       Starting, Away, Phased, Shown
  <2>14. ASSUME NEW h \in Ids,
                SendTo(h) \/ RouteHandoff(h) \/ NoTarget(h) \/ EmitFails(h)
         PROVE  Locks(n, g)'
    BY <2>14 DEF SendTo, RouteHandoff, NoTarget, EmitFails, core, script,
       store, Locks, LockedFor, Occupied, Engaged, Starting, Away
  <2>15. ASSUME NEW h \in Ids, NEW w \in Windows, PickWindow(h, w)
         PROVE  Locks(n, g)'
    BY <2>15 DEF PickWindow, core, script, store, Locks, LockedFor, Occupied,
       Engaged, Starting, Away, Given, Before, Shown
  <2>16. ASSUME NEW h \in Ids, StartFails(h) PROVE Locks(n, g)'
    BY <2>16 DEF StartFails, Reclaim, Reclaimable, script, store, Locks,
       LockedFor, Occupied, Engaged, Starting, Away
  <2>17. ASSUME NEW h \in Ids, EmitHandoff(h) PROVE Locks(n, g)'
    BY <2>17 DEF EmitHandoff, Delivered, core, script, store, Locks, LockedFor,
       Occupied, Engaged, Starting, Away
  <2>18. ASSUME NEW w \in Windows, WindowReady(w) PROVE Locks(n, g)'
    BY <2>18 DEF WindowReady, Delivered, core, script, store, Locks, LockedFor,
       Occupied, Engaged, Away
  <2>19. ASSUME NEW h \in Ids,
                \/ OwnFile(h) \/ AskOpen(h) \/ TakeFile(h) \/ OpenFails(h)
                \/ AskFail(h)
         PROVE  Locks(n, g)'
    BY <2>19 DEF OwnFile, AskOpen, TakeFile, OpenFails, AskFail, core, script,
       store, Locks, LockedFor, Occupied, Engaged, Away
  <2>20. ASSUME NEW h \in Ids, Failed(h) PROVE Locks(n, g)'
    BY <2>20 DEF Failed, GiveBack, Reclaim, Reclaimable, Tell, store, Locks,
       LockedFor, Occupied, Engaged, Away
  <2>21. ASSUME NEW h \in Ids, GiveBackUnread(h) PROVE Locks(n, g)'
    BY <2>21 DEF GiveBackUnread, GiveBack, Reclaim, Reclaimable, Tell, store,
       Locks, LockedFor, Occupied, Engaged, Away
  <2>22. ASSUME Expire PROVE Locks(n, g)'
    BY <2>22 DEF Expire, Due, GiveBack, Reclaim, Reclaimable, Tell, store,
       Locks, LockedFor, Occupied, Engaged, Away
  <2>23. ASSUME NEW w \in Windows, DestroyWindow(w) PROVE Locks(n, g)'
    <3>1. /\ tab'[g] = IF dest[g] = w /\ tab[g] = "open" THEN "closed" ELSE tab[g]
          /\ phase'[g] = IF sentTo[g] = w /\ phase[g] \in {"Pending", "Claimed"}
                         THEN "Reclaimed" ELSE phase[g]
          /\ g \in told' => \/ g \in told
                            \/ /\ job[n].pc # "closed"
                               /\ phase[g] \in {"Pending", "Claimed"}
          /\ handedTo'[n] = IF handedTo[n] = w THEN NoWindow ELSE handedTo[n]
          /\ UNCHANGED <<starter, dest, opener, job, record>>
      BY <2>23 DEF DestroyWindow, Reclaim, Reclaimable, Tell
    <3> QED
      BY <3>1 DEF Locks, LockedFor, Occupied, Engaged, Away
  <2>24. ASSUME NEW h \in Ids, SaveTab(h) \/ DropTab(h) \/ StickySaved(h)
         PROVE  Locks(n, g)'
    BY <2>24 DEF SaveTab, DropTab, StickySaved, core, script, store, Locks,
       LockedFor, Occupied, Engaged, Away
  <2>25. ASSUME UNCHANGED <<starter, dest, opener, phase, tab, job, told,
                            record, handedTo>>
         PROVE  Locks(n, g)'
    BY <2>25 DEF Locks, LockedFor, Occupied, Engaged, Away
  <2>26. CASE \E m \in Notes : Convert(m)
    BY <1>1, <2>26
  <2> QED
    BY <2>1, <2>2, <2>3, <2>4, <2>5, <2>6, <2>7, <2>8, <2>9, <2>10, <2>11,
       <2>12, <2>13, <2>14, <2>15, <2>16, <2>17, <2>18, <2>19, <2>20, <2>21,
       <2>22, <2>23, <2>24, <2>25, <2>26
    DEF Next, CoreStep, ScriptStep, Choice, Target, User, vars, core, script,
       store, OpenWindow, ClockPasses
<1>3. noteOf[g] # n => \E m \in Notes : Convert(m)
  BY NoteOfNext
<1> QED
  BY <1>1, <1>2, <1>3

(* At first no attempt was begun.                                            *)
LEMMA LockInitially == Init => LockInv
BY FileInitially, NamesAssumption
DEF Init, LockInv, Shown, OnlyOne, Occupied, Engaged, Starting

(* LockInv is inductive.                                                     *)
LEMMA LockStep == LockInv /\ [Next]_vars => LockInv'
<1> SUFFICES ASSUME LockInv, [Next]_vars PROVE LockInv'
  OBVIOUS
<1>1. FileInv'
  BY FileStep DEF LockInv
<1>2. \A g \in Ids : Shown(g)'
  BY ShownStep
<1>3. \A g \in Ids : noteOf'[g] \in Notes => Locks(noteOf[g], g)'
  BY LocksStep
<1>4. OnlyOne'
  BY OnlyOneStep
<1> QED
  BY <1>1, <1>2, <1>3, <1>4 DEF LockInv

(* The text of a note can be edited at one place at most: in its unlocked    *)
(* window or in one unsaved tab.                                             *)
THEOREM AtMostOneEditor == Spec => []OneEditor
<1>1. LockInv => OneEditor
  <2> SUFFICES ASSUME LockInv, NEW n \in Notes,
                      NEW T, T = {h \in Ids : noteOf[h] = n /\ tab[h] = "open"}
               PROVE  IF job[n].pc = "free" THEN T = {} ELSE Cardinality(T) <= 1
    BY DEF OneEditor
  <2>1. job[n].pc = "free" => T = {}
    BY FreeIsIdle
  <2>2. \A g, h \in T : g = h
    BY DEF LockInv, OnlyOne, Occupied
  <2>3. CASE T = {}
    BY <2>3, FS_EmptySet
  <2>4. CASE T # {}
    <3>1. PICK h \in T : T = {h}
      BY <2>2, <2>4
    <3>2. Cardinality(T) = 1
      BY <3>1, FS_Singleton
    <3> QED
      BY <2>1, <2>4, <3>2
  <2> QED
    BY <2>1, <2>3, <2>4
<1> QED
  BY <1>1, LockInitially, LockStep, PTL DEF Spec

-----------------------------------------------------------------------------
(* The refinement of NoteText.                                             *)

(* What is under conversion is the text of a note that has a record.          *)
Recorded(h) ==
  /\ job[noteOf[h]].pc = "converting" => noteOf[h] \in record
  /\ starter[h] = "start" /\ file[h] = "stored" =>
       owner[h] = "sticky" /\ noteOf[h] \in record

RecordInv ==
  /\ LockInv
  /\ \A h \in Ids : noteOf[h] \in Notes => Recorded(h)

(* A record goes with a discard, which deletes the file as well, and after   *)
(* a save, when no conversion is under way.                                  *)
LEMMA RecordedStep ==
  RecordInv /\ [Next]_vars =>
    \A g \in Ids : noteOf'[g] \in Notes => Recorded(g)'
<1> SUFFICES ASSUME RecordInv, [Next]_vars, NEW g \in Ids, NEW n \in Notes,
                    noteOf'[g] = n
             PROVE  Recorded(g)'
  OBVIOUS
<1>0. /\ TypeOK /\ Begun /\ Given(g) /\ Phased(g) /\ Held(g)
  BY DEF RecordInv, LockInv, FileInv, PhaseInv, DeliverInv
<1> USE <1>0 DEF TypeOK
<1>1. CASE noteOf[g] # n
  <2>1. PICK m \in Notes : Convert(m) /\ g = attempts + 1 /\ noteOf'[g] = m
    BY <1>1, NoteOfNext DEF RecordInv
  <2>2. noteOf[g] = NoNote /\ starter[g] = "idle"
    BY <1>1, NoteOfNext DEF RecordInv, Begun
  <2>3. m = n /\ m \in record /\ record' = record /\ starter'[g] = "idle"
    BY <2>1, <2>2 DEF Convert, store
  <2> QED
    BY <2>3 DEF Recorded
<1>2. CASE noteOf[g] = n
  <2>0. Recorded(g) /\ Locks(n, g)
    BY <1>2 DEF RecordInv, LockInv
  <2>a. ASSUME NEW h \in Ids, noteOf[h] = n, h # g, Occupied(h)
        PROVE  ~Occupied(g)
    BY <1>2, <2>a DEF RecordInv, LockInv, OnlyOne
  <2> USE <1>2, <2>0
  <2>1. ASSUME NEW m \in Notes, Convert(m) PROVE Recorded(g)'
    <3>1. /\ m \in record /\ UNCHANGED <<record, starter>>
          /\ \A k \in Notes : k # m => job'[k] = job[k]
      BY <2>1 DEF Convert, store
    <3>2. file'[g] = file[g] /\ owner'[g] = owner[g]
      BY <2>1, NamesAssumption DEF Convert, RecordInv, LockInv, FileInv,
         PhaseInv, DeliverInv, Fresh, Ids
    <3> QED
      BY <3>1, <3>2 DEF Recorded
  <2>2. ASSUME NEW m \in Notes, AskHandoff(m) PROVE Recorded(g)'
    <3>1. job[m].pc = "converting" /\ starter[job[m].id] = "idle"
          /\ noteOf[job[m].id] = m /\ job[m].id \in Ids
      BY <2>2 DEF AskHandoff, Begun
    <3>2. g = job[m].id /\ file[g] = "stored"
            => owner[g] = "sticky" /\ n \in record
      BY <3>1 DEF Held, Kept, Phased, Recorded
    <3> QED
      BY <2>2, <3>1, <3>2 DEF AskHandoff, Recorded, core, store, At
  <2>3. ASSUME NEW m \in Notes,
               GiveUpConversion(m) \/ DiscardSticky(m) \/ ReopenSticky(m)
        PROVE  Recorded(g)'
    <3>1. CASE GiveUpConversion(m)
      BY <3>1 DEF GiveUpConversion, Aborted, Free, Recorded, store
    <3>2. CASE DiscardSticky(m)
      <4>1. /\ record' = record \ {m} /\ job' = [job EXCEPT ![m] = Closed]
            /\ file'[g] = IF n = m /\ owner[g] = "sticky" /\ file[g] = "stored"
                          THEN "deleted" ELSE file[g]
            /\ UNCHANGED <<noteOf, starter, owner>>
        BY <3>2 DEF DiscardSticky, StickyWindowGone, Aborted
      <4> QED
        BY <4>1 DEF Closed, Recorded
    <3>3. CASE ReopenSticky(m)
      BY <3>3 DEF ReopenSticky, Free, Recorded, core, store
    <3> QED
      BY <2>3, <3>1, <3>2, <3>3
  <2>4. ASSUME NEW h \in Ids,
               StartReply(h) \/ HearReclaimed(h) \/ CloseSticky(h) \/ Release(h)
        PROVE  Recorded(g)'
    BY <2>4 DEF StartReply, HearReclaimed, CloseSticky, Release,
       StickyWindowGone, Aborted, Free, Closed, At, Recorded, core, store
  <2>5. ASSUME NEW h \in Ids, StickySaved(h) PROVE Recorded(g)'
    <3>1. Occupied(h)
      BY <2>5 DEF StickySaved, Occupied
    <3>2. CASE noteOf[h] # n
      BY <2>5, <3>2 DEF StickySaved, Recorded, core, script
    <3>3. CASE noteOf[h] = n
      <4>1. job[n].pc # "converting"
        BY <3>1, <3>3 DEF RecordInv, LockInv, Locks
      <4>2. h = g \/ starter[g] # "start"
        BY <2>a, <3>1, <3>3 DEF Occupied, Engaged, Starting
      <4>3. starter[h] # "start"
        BY <2>5 DEF StickySaved, RecordInv, LockInv, FileInv, PhaseInv,
           DeliverInv, Shown, Given, Before
      <4> QED
        BY <2>5, <3>3, <4>1, <4>2, <4>3 DEF StickySaved, Recorded, core, script
    <3> QED
      BY <3>2, <3>3
  <2>6. ASSUME NEW h \in Ids, OwnFile(h) PROVE Recorded(g)'
    <3>1. starter[h] # "start"
      BY <2>6 DEF OwnFile, RecordInv, LockInv, FileInv, PhaseInv, DeliverInv,
         Given, Before
    <3> QED
      BY <2>6, <3>1 DEF OwnFile, Recorded, script, store
  <2>7. ASSUME NEW h \in Ids,
               \/ Start(h) \/ SendTo(h) \/ RouteHandoff(h) \/ EmitHandoff(h)
               \/ NoTarget(h) \/ EmitFails(h) \/ StartFails(h)
               \/ \E w \in Windows : PickWindow(h, w)
        PROVE  Recorded(g)'
    BY <2>7 DEF Start, SendTo, RouteHandoff, EmitHandoff, NoTarget, EmitFails,
       StartFails, Aborted, PickWindow, Recorded, core, script, store
  <2>8. ASSUME NEW h \in Ids,
               \/ TakeFile(h) \/ OpenFails(h) \/ Failed(h) \/ DropTab(h)
               \/ GiveBackUnread(h)
        PROVE  Recorded(g)'
    BY <2>8 DEF TakeFile, OpenFails, Failed, DropTab, GiveBackUnread, GiveBack,
       Aborted, Recorded, script, store
  <2>9. ASSUME Expire \/ \E w \in Windows : DestroyWindow(w)
        PROVE  Recorded(g)'
    BY <2>9 DEF Expire, DestroyWindow, GiveBack, Aborted, Recorded, store
  <2>10. ASSUME UNCHANGED <<noteOf, job, starter, file, owner, record>>
         PROVE  Recorded(g)'
    BY <2>10 DEF Recorded
  <2> QED
    BY <2>1, <2>2, <2>3, <2>4, <2>5, <2>6, <2>7, <2>8, <2>9, <2>10
    DEF Next, CoreStep, ScriptStep, Choice, Target, User, vars, core, script,
       store, OpenWindow, SaveTab, Claim, Done, HandOff, AskOpen, ShowTab,
       AskFail, ClockPasses, WindowReady
<1> QED
  BY <1>1, <1>2

(* At first every note has a record.                                         *)
LEMMA RecordInitially == Init => RecordInv
BY LockInitially DEF Init, RecordInv, Recorded, Free

(* RecordInv is inductive.                                                   *)
LEMMA RecordStep == RecordInv /\ [Next]_vars => RecordInv'
BY LockStep, RecordedStep DEF RecordInv

(* Where the place of a text comes from: the attempt that occupies the note.  *)
Travels(h) == tab[h] = "none" /\ phase[h] \in {"Pending", "Claimed"}
Written(h) == tab[h] \in {"saving", "saved"}

Places ==
  \A n \in Notes :
    /\ \A h \in Ids : noteOf[h] = n =>
         /\ Written(h) => Place(n) = "file"
         /\ tab[h] = "open" => Place(n) = "tab"
         /\ Travels(h) => Place(n) = "moving"
    /\ (\A h \in Ids : noteOf[h] = n =>
          ~Written(h) /\ tab[h] # "open" /\ ~Travels(h))
       => Place(n) = IF n \in record THEN "note" ELSE "discarded"

(* With one attempt to a note, its state says where the text is.             *)
LEMMA PlacesHold == OnlyOne => Places
<1> SUFFICES ASSUME OnlyOne, NEW n \in Notes
             PROVE  /\ \A h \in Ids : noteOf[h] = n =>
                         /\ Written(h) => Place(n) = "file"
                         /\ tab[h] = "open" => Place(n) = "tab"
                         /\ Travels(h) => Place(n) = "moving"
                    /\ (\A h \in Ids : noteOf[h] = n =>
                          ~Written(h) /\ tab[h] # "open" /\ ~Travels(h))
                       => Place(n) = IF n \in record THEN "note" ELSE "discarded"
  BY DEF Places
<1>1. ASSUME NEW h \in Ids, noteOf[h] = n, Written(h) PROVE Place(n) = "file"
  <2>1. Has(n, {"saving", "saved"}) /\ Has(n, {"saving", "saved", "open"})
    BY <1>1 DEF Has, Written
  <2> QED
    BY <2>1 DEF Place
<1>2. ASSUME NEW h \in Ids, noteOf[h] = n, tab[h] = "open"
      PROVE  Place(n) = "tab"
  <2>1. Has(n, {"open"}) /\ Has(n, {"saving", "saved", "open"})
    BY <1>2 DEF Has
  <2>2. ~Has(n, {"saving", "saved"})
    BY <1>2 DEF Has, OnlyOne, Occupied
  <2> QED
    BY <2>1, <2>2 DEF Place
<1>3. ASSUME NEW h \in Ids, noteOf[h] = n, Travels(h)
      PROVE  Place(n) = "moving"
  <2>1. Moving(n)
    BY <1>3 DEF Moving, Travels
  <2>2. /\ ~Has(n, {"saving", "saved"}) /\ ~Has(n, {"open"})
        /\ ~Has(n, {"saving", "saved", "open"})
    BY <1>3 DEF Has, OnlyOne, Occupied, Engaged, Travels
  <2> QED
    BY <2>1, <2>2 DEF Place
<1>4. ASSUME \A h \in Ids : noteOf[h] = n =>
               ~Written(h) /\ tab[h] # "open" /\ ~Travels(h)
      PROVE  Place(n) = IF n \in record THEN "note" ELSE "discarded"
  <2>1. /\ ~Has(n, {"saving", "saved"}) /\ ~Has(n, {"open"})
        /\ ~Has(n, {"saving", "saved", "open"}) /\ ~Moving(n)
    BY <1>4 DEF Has, Moving, Written, Travels
  <2> QED
    BY <2>1 DEF Place
<1> QED
  BY <1>1, <1>2, <1>3, <1>4

(* The text of a note stays where it is while its attempts and its record do.  *)
Same(h) ==
  /\ Written(h)' = Written(h)
  /\ (tab'[h] = "open") = (tab[h] = "open")
  /\ Travels(h)' = Travels(h)

LEMMA PlaceStays ==
  ASSUME NEW n,
         \A h \in Ids : (noteOf'[h] = n) = (noteOf[h] = n),
         \A h \in Ids : noteOf[h] = n => Same(h),
         (n \in record') = (n \in record)
  PROVE  Place(n)' = Place(n)
<1>1. /\ Has(n, {"saving", "saved"})' <=> Has(n, {"saving", "saved"})
      /\ Has(n, {"open"})' <=> Has(n, {"open"})
      /\ Has(n, {"saving", "saved", "open"})'
           <=> Has(n, {"saving", "saved", "open"})
      /\ Moving(n)' <=> Moving(n)
  BY DEF Has, Moving, Same, Written, Travels
<1> QED
  BY <1>1 DEF Place

(* What goes home: the texts of the attempts that a step ends.                *)
Ended(h) ==
  /\ tab[h] = "open" \/ Travels(h)
  /\ ~Written(h)' /\ tab'[h] # "open" /\ ~Travels(h)'

LEMMA ReturnStep ==
  ASSUME LockInv, OnlyOne',
         UNCHANGED <<noteOf, record, discarded>>,
         \A h \in Ids : Same(h) \/ Ended(h)
  PROVE  Text!Next
<1> DEFINE ns == {n \in Notes : \E h \in Ids : noteOf[h] = n /\ Ended(h)}
<1>0. Places /\ Places' /\ OnlyOne
  BY PlacesHold, PTL DEF LockInv
<1>1. \A n \in ns : Place(n) \in {"moving", "tab"}
  BY <1>0 DEF Places, Ended
<1>2. ASSUME NEW n \in ns
      PROVE  Place(n)' = IF n \in record THEN "note" ELSE "discarded"
  <2>1. PICK h \in Ids : noteOf[h] = n /\ Ended(h)
    OBVIOUS
  <2>2. Occupied(h)
    BY <2>1 DEF Ended, Occupied, Engaged, Travels
  <2>3. ASSUME NEW g \in Ids, noteOf[g] = n, g # h
        PROVE  ~Written(g)' /\ tab'[g] # "open" /\ ~Travels(g)'
    <3>1. ~Occupied(g)
      BY <1>0, <2>1, <2>2, <2>3 DEF OnlyOne
    <3>2. ~Written(g) /\ tab[g] # "open" /\ ~Travels(g)
      BY <3>1 DEF Occupied, Engaged, Written, Travels
    <3> QED
      BY <3>2 DEF Same, Ended
  <2> QED
    BY <1>0, <2>1, <2>3 DEF Places, Ended
<1>3. ASSUME NEW n \in Notes, n \notin ns PROVE Place(n)' = Place(n)
  BY <1>3, PlaceStays
<1>4. Text!Return(ns)
  BY <1>1, <1>2, <1>3 DEF Text!Return, Text!Home
<1> QED
  BY <1>4 DEF Text!Next

(* Steps that leave every text where it is.                                 *)
LEMMA StutterStep ==
  ASSUME \A n \in Notes, h \in Ids : (noteOf'[h] = n) = (noteOf[h] = n),
         \A h \in Ids : noteOf[h] \in Notes => Same(h),
         UNCHANGED <<record, discarded>>
  PROVE  UNCHANGED Text!vars
<1>1. \A n \in Notes : Place(n)' = Place(n)
  BY PlaceStays
<1> QED
  BY <1>1 DEF Text!vars

(* An attempt with a tab or a phase is an attempt of a note.                  *)
LEMMA HasNote ==
  ASSUME LockInv, NEW h \in Ids, tab[h] # "none" \/ phase[h] # "none"
  PROVE  noteOf[h] \in Notes
BY DEF LockInv, FileInv, PhaseInv, DeliverInv, Begun, Given, Before, Phased,
   Shown, TypeOK

(* Every step of the handoff moves texts as NoteText says, or moves none.    *)
LEMMA NoteTextStep ==
  ASSUME RecordInv, RecordInv', [Next]_vars
  PROVE  [Text!Next]_(Text!vars)
<1>0. /\ LockInv /\ OnlyOne /\ OnlyOne' /\ TypeOK
      /\ Places /\ Places'
  BY PlacesHold, PTL DEF RecordInv, LockInv, FileInv, PhaseInv, DeliverInv
<1>a. \A h \in Ids : Shown(h) /\ Phased(h) /\ Given(h) /\ Held(h)
  BY <1>0 DEF LockInv, FileInv, PhaseInv, DeliverInv
<1> USE <1>0 DEF TypeOK
<1>1. ASSUME NEW n \in Notes, Convert(n) PROVE UNCHANGED Text!vars
  <2>1. PICK h \in Ids :
           /\ noteOf[h] = NoNote /\ noteOf' = [noteOf EXCEPT ![h] = n]
           /\ UNCHANGED <<tab, phase, record, discarded>>
    <3>1. attempts + 1 \in Ids
      BY <1>1, MaxAttemptsAssumption DEF Convert, Ids
    <3>2. noteOf[attempts + 1] = NoNote
      BY <3>1 DEF LockInv, FileInv, PhaseInv, DeliverInv, Fresh, Ids
    <3> QED
      BY <1>1, <3>1, <3>2 DEF Convert, store
  <2>2. tab[h] = "none" /\ phase[h] = "none"
    BY <2>1, HasNote, NamesAssumption
  <2>3. ASSUME NEW m \in Notes PROVE Place(m)' = Place(m)
    <3>1. \A g \in Ids : g # h => (noteOf'[g] = m) = (noteOf[g] = m)
      BY <2>1
    <3>2. tab[h] \notin {"open", "saving", "saved"} /\ ~Travels(h)
      BY <2>2 DEF Travels
    <3>3. /\ Has(m, {"saving", "saved"})' <=> Has(m, {"saving", "saved"})
          /\ Has(m, {"open"})' <=> Has(m, {"open"})
          /\ Has(m, {"saving", "saved", "open"})'
               <=> Has(m, {"saving", "saved", "open"})
      BY <2>1, <3>1, <3>2 DEF Has
    <3>4. Moving(m)' <=> Moving(m)
      BY <2>1, <3>1, <3>2 DEF Moving, Travels
    <3> QED
      BY <2>1, <3>3, <3>4 DEF Place
  <2> QED
    BY <2>1, <2>3 DEF Text!vars
<1>2. ASSUME NEW h \in Ids, Start(h) PROVE [Text!Next]_(Text!vars)
  <2> DEFINE n == noteOf[h]
  <2>1. UNCHANGED <<noteOf, tab, record, discarded>>
    BY <1>2 DEF Start, store
  <2>2. starter[h] = "start" /\ phase[h] = "none"
    BY <1>2, <1>a DEF Start, Phased
  <2>3. CASE file[h] = "stored"
    <3>1. n \in Notes /\ n \in record
      BY <1>a, <2>2, <2>3 DEF RecordInv, Recorded, Held
    <3>2. /\ tab[h] = "none" /\ Travels(h)'
          /\ \A g \in Ids : g # h => phase'[g] = phase[g]
      BY <1>2, <1>a, <2>2, <2>3 DEF Start, Shown, Given, Before, Travels
    <3>3. \A g \in Ids : noteOf[g] = n /\ g # h => ~Occupied(g)
      BY <2>2, <3>1 DEF OnlyOne, Occupied, Engaged, Starting
    <3>4. Place(n) = "note"
      BY <2>2, <3>1, <3>2, <3>3 DEF Places, Occupied, Engaged, Written, Travels
    <3>5. Place(n)' = "moving"
      BY <2>1, <3>1, <3>2 DEF Places
    <3>6. \A m \in Notes : m # n => Place(m)' = Place(m)
      BY <2>1, <3>2, PlaceStays DEF Same, Written, Travels
    <3>7. Text!Leave(n)
      BY <2>1, <3>1, <3>4, <3>5, <3>6 DEF Text!Leave
    <3> QED
      BY <3>1, <3>7 DEF Text!Next
  <2>4. CASE file[h] # "stored"
    <3>1. UNCHANGED phase
      BY <1>2, <2>4 DEF Start
    <3> QED
      BY <2>1, <3>1, StutterStep DEF Same, Written, Travels
  <2> QED
    BY <2>3, <2>4
<1>3. ASSUME NEW h \in Ids, ShowTab(h) PROVE Text!Next
  <2> DEFINE n == noteOf[h]
  <2>1. UNCHANGED <<noteOf, phase, record, discarded>>
        /\ tab' = [tab EXCEPT ![h] = "open"]
    BY <1>3 DEF ShowTab, core, store
  <2>2. tab[h] = "none" /\ phase[h] = "Claimed" /\ n \in Notes
    BY <1>3, <1>a, HasNote DEF ShowTab, Shown, Phased, Fetching
  <2>3. Place(n) = "moving"
    BY <2>2 DEF Places, Travels
  <2>4. Place(n)' = "tab"
    BY <2>1, <2>2 DEF Places
  <2>5. \A m \in Notes : m # n => Place(m)' = Place(m)
    BY <2>1, PlaceStays DEF Same, Written, Travels
  <2>6. Text!Arrive(n)
    BY <2>1, <2>2, <2>3, <2>4, <2>5 DEF Text!Arrive
  <2> QED
    BY <2>2, <2>6 DEF Text!Next
<1>4. ASSUME NEW h \in Ids, SaveTab(h) PROVE Text!Next
  <2> DEFINE n == noteOf[h]
  <2>1. /\ UNCHANGED <<noteOf, phase, record, discarded>>
        /\ tab[h] = "open" /\ tab' = [tab EXCEPT ![h] = "saving"]
    BY <1>4 DEF SaveTab, core, store
  <2>2. n \in Notes
    BY <2>1, HasNote
  <2>3. Place(n) = "tab" /\ Place(n)' = "file"
    BY <2>1, <2>2 DEF Places, Written
  <2>4. \A m \in Notes : m # n => Place(m)' = Place(m)
    BY <2>1, PlaceStays DEF Same, Written, Travels
  <2>5. Text!Save(n)
    BY <2>1, <2>2, <2>3, <2>4 DEF Text!Save
  <2> QED
    BY <2>2, <2>5 DEF Text!Next
<1>5. ASSUME NEW h \in Ids, StickySaved(h) PROVE Text!Next
  <2> DEFINE n == noteOf[h]
  <2>1. UNCHANGED <<noteOf, phase, discarded>> /\ record' = record \ {n}
        /\ tab[h] = "saving" /\ tab' = [tab EXCEPT ![h] = "saved"]
    BY <1>5 DEF StickySaved, core
  <2>2. n \in Notes
    BY <2>1, HasNote
  <2>3. Place(n) = "file" /\ Place(n)' = "file"
    BY <2>1, <2>2 DEF Places, Written
  <2>4. \A m \in Notes : m # n => Place(m)' = Place(m)
    BY <2>1, PlaceStays DEF Same, Written, Travels
  <2>5. Text!Forget(n)
    BY <2>1, <2>2, <2>3, <2>4 DEF Text!Forget
  <2> QED
    BY <2>2, <2>5 DEF Text!Next
<1>6. ASSUME NEW n \in Notes, DiscardSticky(n) PROVE Text!Next
  <2>1. /\ UNCHANGED <<noteOf, phase, tab>> /\ n \in record
        /\ record' = record \ {n} /\ discarded' = discarded \cup {n}
    BY <1>6 DEF DiscardSticky
  <2>2. \A m \in Notes : m # n => Place(m)' = Place(m)
    BY <2>1, PlaceStays DEF Same, Written, Travels
  <2>3. Place(n)' = IF Place(n) = "note" THEN "discarded" ELSE Place(n)
    <3>1. CASE \E h \in Ids :
                 noteOf[h] = n /\ (Written(h) \/ tab[h] = "open" \/ Travels(h))
      BY <2>1, <3>1 DEF Places, Written, Travels
    <3>2. CASE ~\E h \in Ids :
                 noteOf[h] = n /\ (Written(h) \/ tab[h] = "open" \/ Travels(h))
      BY <2>1, <3>2 DEF Places, Written, Travels
    <3> QED
      BY <3>1, <3>2
  <2>4. Text!Discard(n)
    BY <2>1, <2>2, <2>3 DEF Text!Discard
  <2> QED
    BY <2>4 DEF Text!Next
<1>7. ASSUME NEW h \in Ids, StartFails(h) PROVE Text!Next
  <2>1. /\ UNCHANGED <<noteOf, record, discarded, tab>>
        /\ \A g \in Ids : \/ phase'[g] = phase[g]
                          \/ /\ phase[g] \in {"Pending", "Claimed"}
                             /\ phase'[g] = "Reclaimed"
    BY <1>7 DEF StartFails, Reclaim, Reclaimable, store
  <2> QED
    BY <2>1, ReturnStep DEF Same, Ended, Written, Travels
<1>8. ASSUME \/ Expire
             \/ \E h \in Ids : Failed(h) \/ GiveBackUnread(h)
      PROVE  Text!Next
  <2>1. /\ UNCHANGED <<noteOf, record, discarded, tab>>
        /\ \A g \in Ids : \/ phase'[g] = phase[g]
                          \/ /\ phase[g] \in {"Pending", "Claimed"}
                             /\ phase'[g] = "Reclaimed"
    BY <1>8 DEF Expire, Failed, GiveBackUnread, GiveBack, Reclaim, Reclaimable,
       store
  <2> QED
    BY <2>1, ReturnStep DEF Same, Ended, Written, Travels
<1>9. ASSUME NEW w \in Windows, DestroyWindow(w) PROVE Text!Next
  <2>1. /\ UNCHANGED <<noteOf, record, discarded>>
        /\ \A g \in Ids : \/ tab'[g] = tab[g]
                          \/ (tab[g] = "open" /\ tab'[g] = "closed")
        /\ \A g \in Ids : \/ phase'[g] = phase[g]
                          \/ /\ phase[g] \in {"Pending", "Claimed"}
                             /\ phase'[g] = "Reclaimed"
    BY <1>9 DEF DestroyWindow, Reclaim, Reclaimable
  <2>2. ASSUME NEW g \in Ids PROVE Same(g) \/ Ended(g)
    BY <2>1 DEF Same, Ended, Written, Travels
  <2> QED
    BY <2>1, <2>2, ReturnStep
<1>10. ASSUME NEW h \in Ids, DropTab(h) PROVE Text!Next
  <2>1. /\ UNCHANGED <<noteOf, phase, record, discarded>>
        /\ tab[h] = "open" /\ tab' = [tab EXCEPT ![h] = "releasing"]
    BY <1>10 DEF DropTab, store
  <2> QED
    BY <2>1, ReturnStep DEF Same, Ended, Written, Travels
<1>11. ASSUME NEW h \in Ids, Claim(h) PROVE UNCHANGED Text!vars
  <2>1. /\ UNCHANGED <<noteOf, tab, record, discarded>>
        /\ \A g \in Ids : \/ phase'[g] = phase[g]
                          \/ (phase[g] = "Pending" /\ phase'[g] = "Claimed")
    BY <1>11 DEF Claim, store
  <2> QED
    BY <2>1, StutterStep DEF Same, Written, Travels
<1>12. ASSUME NEW h \in Ids, Done(h) PROVE UNCHANGED Text!vars
  <2>1. /\ UNCHANGED <<noteOf, tab, record, discarded>>
        /\ tab[h] # "none"
        /\ \A g \in Ids : g # h => phase'[g] = phase[g]
    BY <1>12, <1>a DEF Done, store, Shown
  <2> QED
    BY <2>1, StutterStep DEF Same, Written, Travels
<1>13. ASSUME NEW h \in Ids, Release(h) PROVE UNCHANGED Text!vars
  <2>1. /\ UNCHANGED <<noteOf, phase, record, discarded>>
        /\ tab[h] = "releasing" /\ tab' = [tab EXCEPT ![h] = "closed"]
    BY <1>13 DEF Release, core
  <2> QED
    BY <2>1, StutterStep DEF Same, Written, Travels
<1>14. ASSUME UNCHANGED <<noteOf, tab, phase, record, discarded>>
       PROVE  UNCHANGED Text!vars
  BY <1>14, StutterStep DEF Same, Written, Travels
<1> QED
  BY <1>1, <1>2, <1>3, <1>4, <1>5, <1>6, <1>7, <1>8, <1>9, <1>10, <1>11,
     <1>12, <1>13, <1>14
  DEF Next, CoreStep, ScriptStep, Choice, Target, User, vars, core, store,
     GiveUpConversion, AskHandoff, ReopenSticky, OpenWindow, SendTo,
     RouteHandoff, EmitHandoff, OwnFile, TakeFile, HandOff, CloseSticky,
     StartReply, HearReclaimed, AskOpen, AskFail, NoTarget, EmitFails,
     OpenFails, PickWindow, ClockPasses, WindowReady

(* The handoff implements NoteText: from the first paste to the last save,   *)
(* every text is at one place, moves only along the ways NoteText allows,    *)
(* and is lost by a discard only.                                            *)
THEOREM HandoffImplementsNoteText == Spec => TextSpec
<1>1. Init => Text!Init
  <2> SUFFICES ASSUME Init PROVE Text!Init
    OBVIOUS
  <2>1. \A n \in Notes : Place(n) = "note"
    <3>1. OnlyOne /\ Places
      BY RecordInitially, PlacesHold DEF RecordInv, LockInv
    <3> QED
      BY <3>1 DEF Init, Places, Written, Travels
  <2> QED
    BY <2>1 DEF Init, Text!Init
<1>2. RecordInv /\ RecordInv' /\ [Next]_vars => [Text!Next]_(Text!vars)
  BY NoteTextStep
<1> QED
  BY <1>1, <1>2, RecordInitially, RecordStep, PTL DEF Spec, TextSpec, Text!Spec
=============================================================================
