--------------------------- MODULE SnapshotDir ---------------------------
(***************************************************************************)
(* The folder of the snapshot files (note_store.rs, snapshot_lock.rs): its  *)
(* choice at startup, its switch to another one with or without the files,  *)
(* and the lock file that keeps two apps out of one folder.                 *)
(*                                                                         *)
(* An app has a default folder of its own, named like the app, and the      *)
(* folders the user may pick are shared.  The store is locked while it is   *)
(* switched: what interleaves is the end of the app and the other apps.     *)
(***************************************************************************)
EXTENDS Naturals, FiniteSets

CONSTANTS
  Apps,         \* Apps, or copies of one, each with a default folder.
  Picked,       \* Folders the user may pick.
  Ids,          \* Notes.
  MaxTexts,     \* Bound on the texts that are typed.
  MaxStarts,    \* Bound on the starts and switches, together.
  Mishaps       \* What may happen besides: "unlisted", a folder that cannot be
                \* listed after files were moved to it; "kept", a setting that
                \* cannot be saved after the destination's copies won; "shown",
                \* windows that stay open over a switch.

ASSUME FolderAssumption ==
  /\ Apps \cap Picked = {} /\ "nobody" \notin Apps
  /\ MaxTexts \in Nat /\ MaxStarts \in Nat
  /\ Mishaps \subseteq {"unlisted", "kept", "shown"}

VARIABLES
  files,        \* Folder -> note -> the text in its file, 0 for none.
  lock,         \* Folder -> who holds its lock file.
  setting,      \* App -> the folder its settings name.
  dir,          \* App -> the folder of its store.
  list,         \* App -> note -> its text in the store.
  shown,        \* App -> note -> the text in its window.
  reason,       \* App -> FallbackReason
  switch,       \* App -> what it does.
  texts, starts,
  wanted        \* For the properties: the texts nobody gave up.

disk == <<files, setting>>
store == <<dir, list, shown, reason>>
vars == <<disk, lock, store, switch, texts, starts, wanted>>

Folders == Apps \union Picked
Nobody == "nobody"
Empty == [n \in Ids |-> 0]
Down == [pc |-> "down"]
Idle == [pc |-> "idle"]
Policies == {"source", "dest", "both"}

Running(a) == switch[a].pc # "down"
Present(f) == {n \in Ids : files[f][n] # 0}
Become(a, what) == switch' = [switch EXCEPT ![a] = what]

Init ==
  /\ files = [f \in Folders |-> Empty]
  /\ lock = [f \in Folders |-> Nobody]
  /\ setting = [a \in Apps |-> a]
  /\ dir = [a \in Apps |-> a]
  /\ list = [a \in Apps |-> Empty] /\ shown = [a \in Apps |-> Empty]
  /\ reason = [a \in Apps |-> "none"]
  /\ switch = [a \in Apps |-> Down]
  /\ texts = 0 /\ starts = 0
  /\ wanted = {}

-----------------------------------------------------------------------------
(* The start of an app, and its end.                                       *)

Locked(f) == lock[f] # Nobody

(* Wrong: a reason the settings window does not know.                       *)
Decide_Misnamed(a, writable) ==
  IF writable /\ ~Locked(setting[a]) THEN [dir |-> setting[a], reason |-> "none"]
  ELSE [dir |-> a, reason |-> "fallback"]

(* Wrong: a folder that is locked is used without the lock.                 *)
Decide_Unlocked(a, writable) ==
  IF writable THEN [dir |-> setting[a], reason |-> "none"]
  ELSE [dir |-> a, reason |-> "unwritable"]

(* The chosen folder if it can be written and locked, else the default one, *)
(* which is used even if it cannot be locked.                              *)
Decide(a, writable) ==
  LET chosen == setting[a] IN
  IF chosen = a THEN [dir |-> a, reason |-> "none"]
  ELSE IF ~writable THEN [dir |-> a, reason |-> "unwritable"]
  ELSE IF Locked(chosen) THEN [dir |-> a, reason |-> "inUse"]
  ELSE [dir |-> chosen, reason |-> "none"]

Launch(a) ==
  /\ ~Running(a) /\ starts < MaxStarts
  /\ \E writable \in BOOLEAN :
       LET choice == Decide(a, writable) IN
       /\ dir' = [dir EXCEPT ![a] = choice.dir]
       /\ reason' = [reason EXCEPT ![a] = choice.reason]
       /\ lock' = IF Locked(choice.dir) THEN lock ELSE [lock EXCEPT ![choice.dir] = a]
       /\ list' = [list EXCEPT ![a] = files[choice.dir]]
       /\ shown' = [shown EXCEPT ![a] = files[choice.dir]]
  /\ Become(a, Idle)
  /\ starts' = starts + 1
  /\ UNCHANGED <<disk, texts, wanted>>

(* The app quits or dies: the system drops its locks.                      *)
End(a) ==
  /\ Running(a)
  /\ lock' = [f \in Folders |-> IF lock[f] = a THEN Nobody ELSE lock[f]]
  /\ list' = [list EXCEPT ![a] = Empty] /\ shown' = [shown EXCEPT ![a] = Empty]
  /\ Become(a, Down)
  /\ UNCHANGED <<disk, dir, reason, texts, starts, wanted>>

-----------------------------------------------------------------------------
(* Notes.                                                                  *)

Put(a, n, t) ==
  /\ files' = [files EXCEPT ![dir[a]][n] = t]
  /\ list' = [list EXCEPT ![a][n] = t]
  /\ shown' = [shown EXCEPT ![a][n] = t]
  /\ UNCHANGED <<lock, setting, dir, reason, switch, starts>>

(* The id of a new note or of a kept copy is one nobody has.               *)
Fresh == {n \in Ids : /\ \A f \in Folders : files[f][n] = 0
                      /\ \A a \in Apps : list[a][n] = 0 /\ shown[a][n] = 0}

(* What a window writes takes the place of what it showed.                  *)
Upsert(a, n) ==
  /\ switch[a] = Idle /\ texts < MaxTexts
  /\ shown[a][n] # 0 \/ n \in Fresh
  /\ Put(a, n, texts + 1)
  /\ texts' = texts + 1
  /\ wanted' = (wanted \ {shown[a][n]}) \union {texts + 1}

Delete(a, n) ==
  /\ switch[a] = Idle /\ shown[a][n] # 0
  /\ Put(a, n, 0)
  /\ wanted' = wanted \ {shown[a][n]}
  /\ UNCHANGED texts

-----------------------------------------------------------------------------
(* switch_dir.  A switch copies, removes, loads and saves the setting; if   *)
(* that fails the files go back the same way.                               *)

(* Wrong: only a switch clears the notice.                                  *)
Repick_KeepsReason(a) ==
  /\ switch[a] = Idle /\ starts < MaxStarts
  /\ setting' = [setting EXCEPT ![a] = dir[a]]
  /\ starts' = starts + 1
  /\ UNCHANGED <<files, lock, store, switch, texts, wanted>>

(* The folder that is in use is picked: only the setting is saved.          *)
Repick(a) ==
  /\ switch[a] = Idle /\ starts < MaxStarts
  /\ setting' = [setting EXCEPT ![a] = dir[a]]
  /\ reason' = [reason EXCEPT ![a] = "none"]
  /\ starts' = starts + 1
  /\ UNCHANGED <<files, lock, dir, list, shown, switch, texts, wanted>>

CopyingOn(from, to, policy, back, todo, moved, landed) ==
  [pc |-> "copying", from |-> from, to |-> to, policy |-> policy, back |-> back,
   todo |-> todo, moved |-> moved, landed |-> landed]
Moving(from, to, policy, back) == CopyingOn(from, to, policy, back, Present(from), {}, {})
Loading(to, policy, move) == [pc |-> "loading", to |-> to, policy |-> policy, move |-> move]

(* The new folder is locked before anything else.                          *)
BeginSwitch(a) ==
  /\ switch[a] = Idle /\ starts < MaxStarts
  /\ \E f \in (Picked \union {a}) \ {dir[a]}, policy \in Policies, move \in BOOLEAN :
       /\ ~Locked(f)
       /\ lock' = [lock EXCEPT ![f] = a]
       /\ Become(a, IF move THEN Moving(dir[a], f, policy, FALSE) ELSE Loading(f, policy, FALSE))
  /\ starts' = starts + 1
  /\ UNCHANGED <<disk, store, texts, wanted>>

(* Where a file that is copied may land.                                   *)
Landing(s, n) ==
  IF files[s.to][n] = 0 \/ s.policy = "source" THEN {n}
  ELSE IF s.policy = "both" THEN Fresh ELSE {}

(* The texts given up by choosing that the source wins.                    *)
GivenUp(s, n) == IF s.back \/ s.policy # "source" THEN {} ELSE {files[s.to][n]} \ {files[s.from][n]}

Copy(a) ==
  LET s == switch[a] IN
  /\ s.pc = "copying"
  /\ \E n \in s.todo :
       \/ /\ Landing(s, n) = {} /\ s.policy = "dest"
          /\ Become(a, CopyingOn(s.from, s.to, s.policy, s.back, s.todo \ {n}, s.moved, s.landed))
          /\ UNCHANGED <<files, wanted>>
       \/ \E m \in Landing(s, n) :
            /\ files' = [files EXCEPT ![s.to][m] = files[s.from][n]]
            /\ Become(a, CopyingOn(s.from, s.to, s.policy, s.back,
                                   s.todo \ {n}, s.moved \union {n}, s.landed \union {m}))
            /\ wanted' = wanted \ GivenUp(s, n)
  /\ UNCHANGED <<lock, setting, store, texts, starts>>

(* The list is read again; windows stay as they are, or are opened anew.    *)
Shows(a, notes) ==
  /\ list' = [list EXCEPT ![a] = notes]
  /\ shown' = IF "shown" \in Mishaps THEN shown ELSE [shown EXCEPT ![a] = notes]
Unlock(f) == lock' = [lock EXCEPT ![f] = Nobody]

(* A switch that failed: the lock of the new folder goes with it.           *)
GiveUp(a) ==
  /\ Become(a, Idle)
  /\ Unlock(IF switch[a].pc = "copying" /\ switch[a].back THEN switch[a].from ELSE switch[a].to)

(* A copy fails: the ones made so far are removed.                         *)
CopyFails(a) ==
  LET s == switch[a] IN
  /\ s.pc = "copying" /\ s.todo # {}
  /\ files' = [files EXCEPT ![s.to] = [n \in Ids |-> IF n \in s.landed THEN 0 ELSE @[n]]]
  /\ GiveUp(a)
  /\ IF s.back THEN Shows(a, files'[dir[a]]) ELSE UNCHANGED <<list, shown>>
  /\ UNCHANGED <<setting, dir, reason, texts, starts, wanted>>

(* Wrong: everything in the old folder is removed, copied or not.           *)
RemoveSources_All(a) ==
  LET s == switch[a] IN
  /\ s.pc = "copying" /\ s.todo = {}
  /\ files' = [files EXCEPT ![s.from] = Empty]
  /\ IF s.back THEN GiveUp(a) /\ Shows(a, files'[dir[a]])
     ELSE Become(a, Loading(s.to, s.policy, TRUE)) /\ UNCHANGED <<lock, list, shown>>
  /\ UNCHANGED <<setting, dir, reason, texts, starts, wanted>>

(* The files that were copied are removed; what cannot be removed stays.    *)
RemoveSources(a) ==
  LET s == switch[a] IN
  /\ s.pc = "copying" /\ s.todo = {}
  /\ \E stays \in SUBSET s.moved :
       files' = [files EXCEPT ![s.from] =
                   [n \in Ids |-> IF n \in s.moved \ stays THEN 0 ELSE @[n]]]
  /\ IF s.back THEN GiveUp(a) /\ Shows(a, files'[dir[a]])
     ELSE Become(a, Loading(s.to, s.policy, TRUE)) /\ UNCHANGED <<lock, list, shown>>
  /\ UNCHANGED <<setting, dir, reason, texts, starts, wanted>>

Load(a) ==
  LET s == switch[a] IN
  /\ s.pc = "loading"
  /\ Become(a, [pc |-> "loaded", to |-> s.to, policy |-> s.policy, move |-> s.move,
                notes |-> files[s.to]])
  /\ UNCHANGED <<disk, lock, store, texts, starts, wanted>>

LoadFails(a) ==
  /\ switch[a].pc = "loading"
  /\ switch[a].move => "unlisted" \in Mishaps
  /\ GiveUp(a)
  /\ UNCHANGED <<disk, store, texts, starts, wanted>>

(* The setting is saved and the old folder let go.                         *)
Commit(a) ==
  LET s == switch[a] IN
  /\ s.pc = "loaded"
  /\ setting' = [setting EXCEPT ![a] = s.to]
  /\ dir' = [dir EXCEPT ![a] = s.to]
  /\ Shows(a, s.notes)
  /\ reason' = [reason EXCEPT ![a] = "none"]
  /\ lock' = [lock EXCEPT ![dir[a]] = IF @ = a THEN Nobody ELSE @]
  /\ Become(a, Idle)
  /\ UNCHANGED <<files, texts, starts, wanted>>

(* Wrong: the files stay where they were moved to.                          *)
PersistFails_NoMoveBack(a) ==
  /\ switch[a].pc = "loaded"
  /\ GiveUp(a)
  /\ UNCHANGED <<disk, store, texts, starts, wanted>>

(* The setting cannot be saved: what was moved is moved back.               *)
PersistFails(a) ==
  LET s == switch[a] IN
  /\ s.pc = "loaded"
  /\ s.move /\ s.policy = "dest" => "kept" \in Mishaps
  /\ IF s.move THEN Become(a, Moving(s.to, dir[a], "source", TRUE)) /\ UNCHANGED lock
     ELSE GiveUp(a)
  /\ UNCHANGED <<disk, store, texts, starts, wanted>>

Next ==
  \E a \in Apps :
    \/ Launch(a) \/ End(a)
    \/ \E n \in Ids : Upsert(a, n) \/ Delete(a, n)
    \/ Repick(a) \/ BeginSwitch(a) \/ Copy(a) \/ CopyFails(a) \/ RemoveSources(a)
    \/ Load(a) \/ LoadFails(a) \/ Commit(a) \/ PersistFails(a)

Spec == Init /\ [][Next]_vars

-----------------------------------------------------------------------------
Contents == [Ids -> 0 .. MaxTexts]
Settled(a) == switch[a] = Idle

TypeOK ==
  /\ files \in [Folders -> Contents]
  /\ lock \in [Folders -> Apps \union {Nobody}]
  /\ setting \in [Apps -> Folders] /\ dir \in [Apps -> Folders]
  /\ list \in [Apps -> Contents] /\ shown \in [Apps -> Contents]
  /\ reason \in [Apps -> {"none", "unwritable", "inUse"}]
  /\ texts \in 0 .. MaxTexts /\ wanted \subseteq 1 .. MaxTexts

(* A folder is written by one app only, whatever fails, ends or is picked   *)
(* while another one is in it or on its way: the lock on the new folder is  *)
(* there before the first file and the one on the old is kept to the last.  *)
Writes(a) ==
  IF ~Running(a) THEN {}
  ELSE {dir[a]} \union (IF Settled(a) THEN {}
                        ELSE IF switch[a].pc = "copying" THEN {switch[a].from, switch[a].to}
                        ELSE {switch[a].to})
OneWriter == \A a, b \in Apps : a # b => Writes(a) \cap Writes(b) = {}

(* No text is gone that its writer did not replace or delete and that no    *)
(* choice of the user gave up: a switch may end or fail anywhere.           *)
NothingLost == \A t \in wanted : \E f \in Folders, n \in Ids : files[f][n] = t

(* "The list always agrees with disk", after a switch that failed as well.  *)
ListIsDisk == \A a \in Apps : Settled(a) => list[a] = files[dir[a]]

(* "Files and setting never disagree", unless the app says why.             *)
SettingHolds == \A a \in Apps : Settled(a) => (reason[a] = "none" <=> dir[a] = setting[a])
=============================================================================
