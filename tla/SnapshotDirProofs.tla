------------------------ MODULE SnapshotDirProofs ------------------------
(* Proofs about SnapshotDir, for any apps, folders, notes and mishaps.       *)
EXTENDS SnapshotDir, TLAPS

(* What an app may do with a folder: it is its default one, or locked by it. *)
Own(a, f) == f = a \/ (f \in Picked /\ lock[f] = a)

Copying == [pc : {"copying"}, from : Folders, to : Folders, policy : Policies, back : BOOLEAN,
            todo : SUBSET Ids, moved : SUBSET Ids, landed : SUBSET Ids]
Loads == [pc : {"loading"}, to : Folders, policy : Policies, move : BOOLEAN]
Loaded == [pc : {"loaded"}, to : Folders, policy : Policies, move : BOOLEAN, notes : [Ids -> Nat]]

Shape(s) == s \in {Down, Idle} \union Copying \union Loads \union Loaded

Types ==
  /\ files \in [Folders -> [Ids -> Nat]]
  /\ lock \in [Folders -> Apps \union {Nobody}]
  /\ setting \in [Apps -> Folders] /\ dir \in [Apps -> Folders]
  /\ reason \in [Apps -> {"none", "unwritable", "inUse"}]
  /\ texts \in Nat
  /\ switch = [a \in Apps |-> switch[a]]
  /\ list = [a \in Apps |-> list[a]]

Held(a) ==
  /\ Shape(switch[a])
  /\ setting[a] \in Picked \union {a} /\ dir[a] \in Picked \union {a}
  /\ Running(a) => Own(a, dir[a])
  /\ switch[a] \in Copying =>
       /\ Own(a, switch[a].from) /\ Own(a, switch[a].to) /\ switch[a].from # switch[a].to
       /\ IF switch[a].back THEN switch[a].to = dir[a] ELSE switch[a].from = dir[a]
  /\ switch[a] \in Loads \union Loaded => Own(a, switch[a].to) /\ switch[a].to # dir[a]
Noticed(a) == Running(a) => (reason[a] = "none" <=> dir[a] = setting[a])
Locks == Types /\ \A a \in Apps : Held(a) /\ Noticed(a)

(* An app changes nothing of another one, and no lock of another one.       *)
Others(a) ==
  /\ \A b \in Apps \ {a} : /\ switch'[b] = switch[b] /\ dir'[b] = dir[b]
                           /\ setting'[b] = setting[b] /\ reason'[b] = reason[b]
  /\ \A f \in Picked : lock'[f] = lock[f] \/ lock[f] \in {Nobody, a}
Step(a) == Types' /\ Others(a) /\ Held(a)' /\ Noticed(a)'

LEMMA Owned ==
  ASSUME Locks, NEW a \in Apps, NEW b \in Apps, a # b, NEW f, Own(a, f)
  PROVE  ~Own(b, f) /\ f \in Folders
  BY FolderAssumption DEF Own, Folders

LEMMA HeldByOthers ==
  ASSUME Locks, NEW a \in Apps, Step(a)
  PROVE  Locks'
  <1> SUFFICES ASSUME NEW b \in Apps, b # a PROVE Held(b)' /\ Noticed(b)'
    BY DEF Locks, Step
  <1>1. switch'[b] = switch[b] /\ dir'[b] = dir[b] /\ setting'[b] = setting[b] /\ reason'[b] = reason[b]
    BY DEF Step, Others
  <1>2. Held(b) /\ Noticed(b)
    BY DEF Locks
  <1>3. \A f : Own(b, f) => Own(b, f)'
    BY FolderAssumption DEF Step, Others, Own, Folders, Nobody
  <1>4. Held(b)'
    BY <1>1, <1>2, <1>3 DEF Held, Running
  <1>5. Noticed(b)'
    BY <1>1, <1>2 DEF Noticed, Running
  <1>6. QED BY <1>4, <1>5

LEMMA Shapes ==
  /\ Down.pc = "down" /\ Idle.pc = "idle"
  /\ \A s : s \in Copying => s.pc = "copying" /\ s.back \in BOOLEAN
  /\ \A s : s \in Loads => s.pc = "loading"
  /\ \A s : s \in Loaded => s.pc = "loaded" /\ s.notes \in [Ids -> Nat]
  /\ \A s : Shape(s) => /\ s.pc = "down" => s = Down
                        /\ s.pc = "idle" => s = Idle
                        /\ s.pc = "copying" => s \in Copying
                        /\ s.pc = "loading" => s \in Loads
                        /\ s.pc = "loaded" => s \in Loaded
  BY DEF Down, Idle, Copying, Loads, Loaded, Shape

(* What becomes of the switch of a.                                        *)
LEMMA Becomes ==
  ASSUME Types, NEW a \in Apps, NEW s, Become(a, s)
  PROVE  /\ switch'[a] = s
         /\ \A b \in Apps \ {a} : switch'[b] = switch[b]
         /\ switch' = [b \in Apps |-> switch'[b]]
  BY DEF Become, Types

LEMMA Files == \A f : Present(f) \in SUBSET Ids
  BY DEF Present

-----------------------------------------------------------------------------
(* Each action, as a step of its app.                                      *)

LEMMA LaunchStep ==
  ASSUME Locks, NEW a \in Apps, Launch(a)
  PROVE  Step(a)
  <1> USE DEF Locks, Types
  <1> PICK writable \in BOOLEAN :
        /\ dir' = [dir EXCEPT ![a] = Decide(a, writable).dir]
        /\ reason' = [reason EXCEPT ![a] = Decide(a, writable).reason]
        /\ lock' = IF Locked(Decide(a, writable).dir) THEN lock
                   ELSE [lock EXCEPT ![Decide(a, writable).dir] = a]
    BY DEF Launch
  <1> PICK f, r : f = Decide(a, writable).dir /\ r = Decide(a, writable).reason
    OBVIOUS
  <1>1. /\ f \in Folders /\ f \in Picked \union {a}
        /\ f = a \/ ~Locked(f)
        /\ r \in {"none", "unwritable", "inUse"}
        /\ r = "none" <=> f = setting[a]
    BY DEF Decide, Held, Folders
  <1>2. /\ dir' = [dir EXCEPT ![a] = f] /\ reason' = [reason EXCEPT ![a] = r]
        /\ lock' = lock \/ (lock' = [lock EXCEPT ![f] = a] /\ ~Locked(f))
        /\ ~Locked(f) => lock' = [lock EXCEPT ![f] = a]
    OBVIOUS
  <1>3. Become(a, Idle) /\ UNCHANGED <<files, setting, texts>> /\ list' = [list EXCEPT ![a] = list'[a]]
    BY DEF Launch, disk
  <1>4. switch'[a] = Idle /\ (\A b \in Apps \ {a} : switch'[b] = switch[b])
        /\ switch' = [b \in Apps |-> switch'[b]]
    BY <1>3, Becomes
  <1>5. Types'
    BY <1>1, <1>2, <1>3, <1>4
  <1>6. Others(a)
    BY <1>2, <1>3, <1>4, <1>1 DEF Others, Locked, Nobody
  <1>7. Own(a, f)'
    BY <1>1, <1>2 DEF Own
  <1>8. dir'[a] = f /\ reason'[a] = r /\ setting'[a] = setting[a] /\ setting[a] \in Picked \union {a}
    BY <1>2, <1>3 DEF Held
  <1>9. Held(a)'
    BY <1>1, <1>4, <1>7, <1>8, Shapes DEF Held, Shape
  <1>10. Noticed(a)'
    BY <1>1, <1>8 DEF Noticed
  <1>11. QED BY <1>5, <1>6, <1>9, <1>10 DEF Step

LEMMA EndStep ==
  ASSUME Locks, NEW a \in Apps, End(a)
  PROVE  Step(a)
  <1> USE DEF Locks, Types
  <1>1. /\ switch'[a] = Down /\ (\A b \in Apps \ {a} : switch'[b] = switch[b])
        /\ switch' = [b \in Apps |-> switch'[b]]
        /\ UNCHANGED <<files, setting, dir, reason, texts>>
    BY Becomes DEF End, disk
  <1>2. Types'
    BY <1>1 DEF End
  <1>3. Others(a)
    <2>1. \A f \in Picked : lock'[f] = lock[f] \/ lock[f] = a
      BY DEF End, Folders
    <2>2. QED BY <1>1, <2>1 DEF Others
  <1>4. Held(a)' /\ Noticed(a)'
    BY <1>1, Shapes DEF Held, Shape, Noticed, Running
  <1>5. QED BY <1>2, <1>3, <1>4 DEF Step

(* Steps of a store that is in one folder and stays there.                 *)
LEMMA Quiet ==
  ASSUME Locks, NEW a \in Apps, Running(a), Types',
         UNCHANGED <<lock, dir>>,
         \A b \in Apps \ {a} : switch'[b] = switch[b] /\ setting'[b] = setting[b] /\ reason'[b] = reason[b],
         setting'[a] \in {setting[a], dir[a]},
         setting'[a] = setting[a] => reason'[a] = reason[a],
         setting'[a] # setting[a] => reason'[a] = "none",
         Shape(switch'[a]),
         switch'[a] \in Copying => switch[a] \in Copying /\ switch'[a].from = switch[a].from
                                   /\ switch'[a].to = switch[a].to /\ switch'[a].back = switch[a].back,
         switch'[a] \in Loads \union Loaded =>
            /\ switch'[a].to = switch[a].to
            /\ (switch[a] \in Copying /\ ~switch[a].back) \/ switch[a] \in Loads \union Loaded
  PROVE  Step(a)
  <1>1. Others(a)
    BY DEF Others
  <1>2. Held(a) /\ Noticed(a)
    BY DEF Locks
  <1>3. \A f : Own(a, f)' <=> Own(a, f)
    BY DEF Own
  <1>4. Held(a)'
    BY <1>2, <1>3, Shapes DEF Held, Shape
  <1>5. Noticed(a)'
    BY <1>2 DEF Noticed
  <1>6. QED BY <1>1, <1>4, <1>5 DEF Step

LEMMA NoteStep ==
  ASSUME Locks, NEW a \in Apps, NEW n \in Ids, Upsert(a, n) \/ Delete(a, n)
  PROVE  Step(a)
  <1> USE DEF Locks, Types
  <1>1. PICK t \in Nat : Put(a, n, t) /\ texts' \in Nat
    BY SMTT(20) DEF Upsert, Delete
  <1>2. switch[a] = Idle
    BY DEF Upsert, Delete
  <1>3. files' = [files EXCEPT ![dir[a]] = [files[dir[a]] EXCEPT ![n] = t]]
        /\ list' = [list EXCEPT ![a] = [list[a] EXCEPT ![n] = t]]
        /\ UNCHANGED <<lock, setting, dir, reason, switch>>
    BY <1>1 DEF Put
  <1>4. files' \in [Folders -> [Ids -> Nat]] /\ list' = [b \in Apps |-> list'[b]]
    <2>1. dir[a] \in Folders /\ files[dir[a]] \in [Ids -> Nat]
      OBVIOUS
    <2>2. [files[dir[a]] EXCEPT ![n] = t] \in [Ids -> Nat]
      BY <2>1
    <2>3. QED BY <1>3, <2>2
  <1>5. Types'
    BY <1>1, <1>3, <1>4
  <1>6. Running(a) /\ Shape(switch'[a]) /\ switch'[a] \notin Copying \union Loads \union Loaded
    BY <1>2, <1>3, Shapes DEF Running, Shape
  <1>7. QED BY <1>3, <1>5, <1>6, Quiet

LEMMA RepickStep ==
  ASSUME Locks, NEW a \in Apps, Repick(a)
  PROVE  Step(a)
  <1> USE DEF Locks, Types
  <1>1. switch[a] = Idle /\ UNCHANGED <<files, lock, dir, list, switch, texts>>
        /\ setting' = [setting EXCEPT ![a] = dir[a]] /\ reason' = [reason EXCEPT ![a] = "none"]
    BY DEF Repick
  <1>2. Types'
    BY <1>1
  <1>3. Running(a) /\ Shape(switch'[a]) /\ switch'[a] \notin Copying \union Loads \union Loaded
    BY <1>1, Shapes DEF Running, Shape
  <1>4. Others(a)
    BY <1>1 DEF Others
  <1>5. Held(a) /\ Held(a)'
    BY <1>1, <1>3 DEF Held, Own, Running
  <1>6. Noticed(a)'
    BY <1>1 DEF Noticed
  <1>7. QED BY <1>2, <1>4, <1>5, <1>6 DEF Step

(* A switch begins with its files or without.                              *)
LEMMA BeginStep ==
  ASSUME Locks, NEW a \in Apps, BeginSwitch(a)
  PROVE  Step(a)
  <1> USE DEF Locks, Types
  <1>1. PICK f \in (Picked \union {a}) \ {dir[a]}, policy \in Policies, move \in BOOLEAN :
          /\ ~Locked(f)
          /\ lock' = [lock EXCEPT ![f] = a]
          /\ Become(a, IF move THEN Moving(dir[a], f, policy, FALSE) ELSE Loading(f, policy, FALSE))
    BY DEF BeginSwitch
  <1>2. switch[a] = Idle /\ UNCHANGED <<files, setting, dir, list, reason, texts>>
    BY DEF BeginSwitch, disk, store
  <1>3. f \in Folders /\ dir[a] \in Folders /\ f # dir[a]
    BY DEF Folders
  <1>0. policy \in Policies
    BY <1>1
  <1>4. CASE move
    <2>1. PICK s : s = Moving(dir[a], f, policy, FALSE)
      OBVIOUS
    <2>2. s \in Copying /\ s.from = dir[a] /\ s.to = f /\ ~s.back
      BY <1>0, <1>3, <2>1, Files DEF Moving, CopyingOn, Copying
    <2>3. switch'[a] = s /\ (\A b \in Apps \ {a} : switch'[b] = switch[b])
          /\ switch' = [b \in Apps |-> switch'[b]]
      BY <1>1, <1>4, <2>1, Becomes
    <2>4. Types' /\ Others(a)
      BY <1>1, <1>2, <1>3, <2>3 DEF Others, Locked, Nobody
    <2>5. Own(a, f)' /\ Own(a, dir[a])'
      BY <1>1, <1>2, <1>3, Shapes DEF Own, Held, Running
    <2>6. Held(a)'
      <3>1. setting[a] \in Picked \union {a} /\ dir[a] \in Picked \union {a}
        BY DEF Held
      <3>2. Shape(switch'[a])
        BY <2>2, <2>3 DEF Shape
      <3>3. dir'[a] = dir[a] /\ setting'[a] = setting[a]
        BY <1>2
      <3> HIDE DEF Locks, Types
      <3>4. QED BY <1>3, <2>2, <2>3, <2>5, <3>1, <3>2, <3>3, Shapes DEF Held
    <2>7. Noticed(a)'
      BY <1>2, <2>3, Shapes DEF Noticed, Running
    <2>8. QED BY <2>4, <2>6, <2>7 DEF Step
  <1>5. CASE ~move
    <2>1. PICK s : s = Loading(f, policy, FALSE)
      OBVIOUS
    <2>2. s \in Loads /\ s.to = f
      BY <1>0, <1>3, <2>1, Files DEF Loading, Loads
    <2>3. switch'[a] = s /\ (\A b \in Apps \ {a} : switch'[b] = switch[b])
          /\ switch' = [b \in Apps |-> switch'[b]]
      BY <1>1, <1>5, <2>1, Becomes
    <2>4. Types' /\ Others(a)
      BY <1>1, <1>2, <1>3, <2>3 DEF Others, Locked, Nobody
    <2>5. Own(a, f)' /\ Own(a, dir[a])'
      BY <1>1, <1>2, <1>3, Shapes DEF Own, Held, Running
    <2>6. Held(a)'
      <3>1. setting[a] \in Picked \union {a} /\ dir[a] \in Picked \union {a}
        BY DEF Held
      <3>2. Shape(switch'[a])
        BY <2>2, <2>3 DEF Shape
      <3>3. dir'[a] = dir[a] /\ setting'[a] = setting[a]
        BY <1>2
      <3> HIDE DEF Locks, Types
      <3>4. QED BY <1>3, <2>2, <2>3, <2>5, <3>1, <3>2, <3>3, Shapes DEF Held
    <2>7. Noticed(a)'
      BY <1>2, <2>3, Shapes DEF Noticed, Running
    <2>8. QED BY <2>4, <2>6, <2>7 DEF Step
  <1>6. QED BY <1>4, <1>5

(* A switch that is given up leaves the store where it is.                  *)
LEMMA GiveUpStep ==
  ASSUME Locks, NEW a \in Apps, GiveUp(a), switch[a] \in Copying \union Loads \union Loaded,
         files' \in [Folders -> [Ids -> Nat]], list' = [b \in Apps |-> list'[b]],
         UNCHANGED <<setting, dir, reason, texts>>
  PROVE  Step(a)
  <1> USE DEF Locks, Types
  <1> DEFINE f == IF switch[a].pc = "copying" /\ switch[a].back THEN switch[a].from ELSE switch[a].to
  <1>1. Own(a, f) /\ f # dir[a] /\ Running(a) /\ Own(a, dir[a])
    BY Shapes DEF Held, Running
  <1>2. lock' = [lock EXCEPT ![f] = Nobody] /\ Become(a, Idle)
    BY DEF GiveUp, Unlock
  <1> HIDE DEF f
  <1>3. switch'[a] = Idle /\ (\A b \in Apps \ {a} : switch'[b] = switch[b])
        /\ switch' = [b \in Apps |-> switch'[b]]
    BY <1>2, Becomes
  <1>4. Types' /\ Others(a)
    BY <1>1, <1>2, <1>3, FolderAssumption DEF Others, Own, Folders
  <1>5. Own(a, dir[a])'
    BY <1>1, <1>2 DEF Own
  <1>6. Held(a)'
    BY <1>3, <1>5, Shapes DEF Held, Shape
  <1>7. Noticed(a)'
    BY <1>1, <1>3 DEF Noticed
  <1>8. QED BY <1>4, <1>6, <1>7 DEF Step

LEMMA CopyStep ==
  ASSUME Locks, NEW a \in Apps, Copy(a)
  PROVE  Step(a)
  <1> USE DEF Locks, Types
  <1> DEFINE s == switch[a]
  <1>1. s \in Copying /\ Running(a)
    BY Shapes DEF Copy, Held, Running
  <1>2. UNCHANGED <<lock, setting, dir, list, reason, texts>>
    BY DEF Copy, store
  <1>3. PICK r : /\ r \in Copying /\ r.from = s.from /\ r.to = s.to /\ r.back = s.back
                 /\ Become(a, r) /\ files' \in [Folders -> [Ids -> Nat]]
    <2>1. PICK n \in s.todo :
            \/ Become(a, CopyingOn(s.from, s.to, s.policy, s.back, s.todo \ {n}, s.moved, s.landed)) /\ UNCHANGED files
            \/ \E m \in Landing(s, n) :
                 /\ files' = [files EXCEPT ![s.to][m] = files[s.from][n]]
                 /\ Become(a, CopyingOn(s.from, s.to, s.policy, s.back, s.todo \ {n}, s.moved \union {n}, s.landed \union {m}))
      BY DEF Copy
    <2>2. n \in Ids /\ s.todo \in SUBSET Ids /\ s.moved \in SUBSET Ids /\ s.landed \in SUBSET Ids
          /\ s.to \in Folders /\ s.from \in Folders
      BY <1>1, <2>1 DEF Copying
    <2>3. CASE Become(a, CopyingOn(s.from, s.to, s.policy, s.back, s.todo \ {n}, s.moved, s.landed)) /\ UNCHANGED files
      <3> DEFINE q == CopyingOn(s.from, s.to, s.policy, s.back, s.todo \ {n}, s.moved, s.landed)
      <3>1. s.todo \ {n} \in SUBSET Ids
        BY <2>2
      <3>2. q \in Copying /\ q.from = s.from /\ q.to = s.to /\ q.back = s.back
        BY <1>1, <2>2, <3>1 DEF CopyingOn, Copying
      <3> HIDE DEF q
      <3>3. Become(a, q)
        BY <2>3 DEF q
      <3>4. QED BY <2>3, <3>2, <3>3
    <2>4. CASE \E m \in Landing(s, n) :
                 /\ files' = [files EXCEPT ![s.to][m] = files[s.from][n]]
                 /\ Become(a, CopyingOn(s.from, s.to, s.policy, s.back, s.todo \ {n}, s.moved \union {n}, s.landed \union {m}))
      <3>1. PICK m \in Landing(s, n) :
                 /\ files' = [files EXCEPT ![s.to] = [files[s.to] EXCEPT ![m] = files[s.from][n]]]
                 /\ Become(a, CopyingOn(s.from, s.to, s.policy, s.back, s.todo \ {n}, s.moved \union {n}, s.landed \union {m}))
        BY <2>4
      <3>2. m \in Ids
        BY <2>2 DEF Landing, Fresh
      <3> DEFINE q == CopyingOn(s.from, s.to, s.policy, s.back, s.todo \ {n}, s.moved \union {n}, s.landed \union {m})
      <3>3. s.todo \ {n} \in SUBSET Ids /\ s.moved \union {n} \in SUBSET Ids /\ s.landed \union {m} \in SUBSET Ids
        BY <2>2, <3>2
      <3>4. q \in Copying /\ q.from = s.from /\ q.to = s.to /\ q.back = s.back
        BY <1>1, <3>3 DEF CopyingOn, Copying
      <3> HIDE DEF q
      <3>5. Become(a, q)
        BY <3>1 DEF q
      <3>6. [files[s.to] EXCEPT ![m] = files[s.from][n]] \in [Ids -> Nat]
        BY <2>2, <3>2
      <3>7. files' \in [Folders -> [Ids -> Nat]]
        BY <2>2, <3>1, <3>6
      <3>8. QED BY <3>4, <3>5, <3>7
    <2>5. QED BY <2>1, <2>3, <2>4
  <1>4. switch'[a] = r /\ (\A b \in Apps \ {a} : switch'[b] = switch[b])
        /\ switch' = [b \in Apps |-> switch'[b]]
    BY <1>3, Becomes
  <1>5. Types'
    BY <1>2, <1>3, <1>4
  <1>6. Shape(switch'[a]) /\ switch'[a] \notin Loads \union Loaded
    BY <1>3, <1>4, Shapes DEF Shape
  <1>7. QED BY <1>1, <1>2, <1>3, <1>4, <1>5, <1>6, Quiet

LEMMA CopyFailsStep ==
  ASSUME Locks, NEW a \in Apps, CopyFails(a)
  PROVE  Step(a)
  <1> USE DEF Locks, Types
  <1>1. switch[a] \in Copying
    BY Shapes DEF CopyFails, Held
  <1>2. switch[a].to \in Folders
    BY <1>1 DEF Copying
  <1>3. files' \in [Folders -> [Ids -> Nat]]
    BY <1>2 DEF CopyFails
  <1>4. list' = [b \in Apps |-> list'[b]]
    BY DEF CopyFails, Shows
  <1>5. QED BY <1>1, <1>3, <1>4, GiveUpStep DEF CopyFails

LEMMA RemoveStep ==
  ASSUME Locks, NEW a \in Apps, RemoveSources(a)
  PROVE  Step(a)
  <1> USE DEF Locks, Types
  <1>1. switch[a] \in Copying /\ Running(a)
    BY Shapes DEF RemoveSources, Held, Running
  <1>2. switch[a].from \in Folders /\ switch[a].to \in Folders /\ switch[a].policy \in Policies
    BY <1>1 DEF Copying
  <1>3. files' \in [Folders -> [Ids -> Nat]]
    BY <1>2 DEF RemoveSources
  <1>4. list' = [b \in Apps |-> list'[b]] /\ UNCHANGED <<setting, dir, reason, texts>>
    BY DEF RemoveSources, Shows
  <1>5. CASE switch[a].back
    BY <1>1, <1>3, <1>4, <1>5, GiveUpStep DEF RemoveSources
  <1>6. CASE ~switch[a].back
    <2> DEFINE r == Loading(switch[a].to, switch[a].policy, TRUE)
    <2>1. r \in Loads /\ r.to = switch[a].to
      BY <1>2 DEF Loading, Loads
    <2>2. Become(a, r) /\ UNCHANGED lock
      BY <1>6 DEF RemoveSources
    <2> HIDE DEF r
    <2>3. switch'[a] = r /\ (\A b \in Apps \ {a} : switch'[b] = switch[b])
          /\ switch' = [b \in Apps |-> switch'[b]]
      BY <2>2, Becomes
    <2>4. Types'
      BY <1>3, <1>4, <2>2, <2>3
    <2>5. Shape(switch'[a]) /\ switch'[a] \notin Copying
      BY <2>1, <2>3, Shapes DEF Shape
    <2>6. QED BY <1>1, <1>4, <1>6, <2>1, <2>2, <2>3, <2>4, <2>5, Quiet
  <1>7. QED BY <1>5, <1>6

LEMMA LoadStep ==
  ASSUME Locks, NEW a \in Apps, Load(a)
  PROVE  Step(a)
  <1> USE DEF Locks, Types
  <1>1. switch[a] \in Loads /\ Running(a)
    BY Shapes DEF Load, Held, Running
  <1> DEFINE s == switch[a]
             r == [pc |-> "loaded", to |-> s.to, policy |-> s.policy, move |-> s.move, notes |-> files[s.to]]
  <1>2. r \in Loaded /\ r.to = s.to
    BY <1>1 DEF Loads, Loaded
  <1>3. Become(a, r) /\ UNCHANGED <<files, setting, lock, dir, list, reason, texts>>
    BY DEF Load, disk, store
  <1> HIDE DEF r
  <1>4. switch'[a] = r /\ (\A b \in Apps \ {a} : switch'[b] = switch[b])
        /\ switch' = [b \in Apps |-> switch'[b]]
    BY <1>3, Becomes
  <1>5. Types'
    BY <1>3, <1>4
  <1>6. Shape(switch'[a]) /\ switch'[a] \notin Copying
    BY <1>2, <1>4, Shapes DEF Shape
  <1>7. QED BY <1>1, <1>2, <1>3, <1>4, <1>5, <1>6, Quiet

LEMMA LoadFailsStep ==
  ASSUME Locks, NEW a \in Apps, LoadFails(a)
  PROVE  Step(a)
  <1>1. switch[a] \in Loads
    BY Shapes DEF Locks, LoadFails, Held
  <1>2. QED BY <1>1, GiveUpStep DEF LoadFails, disk, store, Locks, Types

(* The new folder is held already when the old one is let go.               *)
LEMMA CommitStep ==
  ASSUME Locks, NEW a \in Apps, Commit(a)
  PROVE  Step(a)
  <1> USE DEF Locks, Types
  <1> DEFINE s == switch[a]
  <1>1. s \in Loaded /\ Own(a, s.to) /\ s.to # dir[a] /\ s.to \in Folders /\ Own(a, dir[a])
    BY Shapes DEF Commit, Held, Running, Loaded
  <1>2. /\ UNCHANGED <<files, texts>> /\ list' = [b \in Apps |-> list'[b]]
        /\ setting' = [setting EXCEPT ![a] = s.to] /\ dir' = [dir EXCEPT ![a] = s.to]
        /\ reason' = [reason EXCEPT ![a] = "none"]
        /\ lock' = [lock EXCEPT ![dir[a]] = IF @ = a THEN Nobody ELSE @]
    BY DEF Commit, Shows
  <1>3. switch'[a] = Idle /\ (\A b \in Apps \ {a} : switch'[b] = switch[b])
        /\ switch' = [b \in Apps |-> switch'[b]]
    BY Becomes DEF Commit
  <1> PICK t : t = s.to
    OBVIOUS
  <1>4. Types' /\ Others(a)
    <2>1. Types'
      BY <1>1, <1>2, <1>3
    <2>2. \A f \in Picked : lock'[f] = lock[f] \/ lock[f] = a
      BY <1>2 DEF Folders
    <2>3. QED BY <1>2, <1>3, <2>1, <2>2 DEF Others
  <1>5. Own(a, t)' /\ dir'[a] = t /\ setting'[a] = t /\ reason'[a] = "none"
    BY <1>1, <1>2 DEF Own
  <1>6. t \in Picked \union {a}
    BY <1>1 DEF Own
  <1>7. Held(a)'
    BY <1>3, <1>5, <1>6, Shapes DEF Held, Shape
  <1>8. Noticed(a)'
    BY <1>5 DEF Noticed
  <1>9. QED BY <1>4, <1>7, <1>8 DEF Step

LEMMA PersistFailsStep ==
  ASSUME Locks, NEW a \in Apps, PersistFails(a)
  PROVE  Step(a)
  <1> USE DEF Locks, Types
  <1> DEFINE s == switch[a]
  <1>1. s \in Loaded /\ Own(a, s.to) /\ s.to # dir[a] /\ s.to \in Folders /\ Own(a, dir[a]) /\ Running(a)
    BY Shapes DEF PersistFails, Held, Running, Loaded
  <1>2. UNCHANGED <<files, setting, dir, list, reason, texts>>
    BY DEF PersistFails, disk, store
  <1>3. CASE ~s.move
    BY <1>1, <1>2, <1>3, GiveUpStep DEF PersistFails
  <1>4. CASE s.move
    <2> DEFINE r == Moving(s.to, dir[a], "source", TRUE)
    <2>1. r \in Copying /\ r.from = s.to /\ r.to = dir[a] /\ r.back
      BY <1>1, Files DEF Policies, Moving, CopyingOn, Copying
    <2>2. Become(a, r) /\ UNCHANGED lock
      BY <1>4 DEF PersistFails
    <2> HIDE DEF r
    <2>3. switch'[a] = r /\ (\A b \in Apps \ {a} : switch'[b] = switch[b])
          /\ switch' = [b \in Apps |-> switch'[b]]
      BY <2>2, Becomes
    <2>4. Types' /\ Others(a)
      BY <1>2, <2>2, <2>3 DEF Others
    <2>5. Held(a)'
      BY <1>1, <1>2, <2>1, <2>2, <2>3, Shapes DEF Held, Shape, Own
    <2>6. Noticed(a)'
      BY <1>1, <1>2 DEF Noticed
    <2>7. QED BY <2>4, <2>5, <2>6 DEF Step
  <1>5. QED BY <1>3, <1>4

-----------------------------------------------------------------------------
LEMMA LocksInit == Init => Locks
  <1> SUFFICES ASSUME Init PROVE Locks
    OBVIOUS
  <1>1. Types
    BY DEF Init, Types, Folders, Empty
  <1>2. \A a \in Apps : switch[a] = Down /\ setting[a] = a /\ dir[a] = a
    BY DEF Init
  <1>3. \A a \in Apps : Held(a) /\ Noticed(a)
    BY <1>2, Shapes DEF Held, Noticed, Running, Shape
  <1>4. QED BY <1>1, <1>3 DEF Locks

LEMMA NextIsStep ==
  ASSUME Locks, NEW a \in Apps,
         \/ Launch(a) \/ End(a)
         \/ \E n \in Ids : Upsert(a, n) \/ Delete(a, n)
         \/ Repick(a) \/ BeginSwitch(a) \/ Copy(a) \/ CopyFails(a) \/ RemoveSources(a)
         \/ Load(a) \/ LoadFails(a) \/ Commit(a) \/ PersistFails(a)
  PROVE  Step(a)
  BY LaunchStep, EndStep, NoteStep, RepickStep, BeginStep, CopyStep, CopyFailsStep, RemoveStep,
     LoadStep, LoadFailsStep, CommitStep, PersistFailsStep

LEMMA LocksNext == Locks /\ [Next]_vars => Locks'
  <1> SUFFICES ASSUME Locks, [Next]_vars PROVE Locks'
    OBVIOUS
  <1>1. CASE Next
    BY <1>1, NextIsStep, HeldByOthers DEF Next
  <1>2. CASE UNCHANGED vars
    <2>1. UNCHANGED <<files, lock, setting, dir, reason, texts, switch, list>>
      BY <1>2 DEF vars, disk, store
    <2>2. QED BY <2>1 DEF Locks, Types, Held, Noticed, Running, Own
  <1>3. QED BY <1>1, <1>2

LEMMA LocksAlways == Spec => []Locks
  BY LocksInit, LocksNext, PTL DEF Spec

(* Two apps never write to one folder (snapshot_lock, decide_startup_dir,   *)
(* switch_dir), whatever fails or dies on the way.                          *)
THEOREM OneAppPerFolder == Spec => []OneWriter
  <1>1. Locks => OneWriter
    <2> SUFFICES ASSUME Locks, NEW a \in Apps, NEW b \in Apps, a # b
                 PROVE  Writes(a) \cap Writes(b) = {}
      BY DEF OneWriter
    <2>1. \A c \in Apps : \A f : f \in Writes(c) => Own(c, f)
      <3> SUFFICES ASSUME NEW c \in Apps, NEW f, f \in Writes(c) PROVE Own(c, f)
        OBVIOUS
      <3>1. Held(c) /\ Running(c)
        BY DEF Locks, Writes
      <3>2. QED BY <3>1, Shapes DEF Held, Writes, Settled, Shape, Running
    <2>2. QED BY <2>1, Owned
  <1>2. QED BY <1>1, LocksAlways, PTL

(* The folder in use is the one the settings name, or the app says why not  *)
(* (switch_and_persist, SnapshotFallback::switched).                        *)
THEOREM SettingOrNotice == Spec => []SettingHolds
  <1>1. Locks => SettingHolds
    BY Shapes DEF Locks, Noticed, SettingHolds, Settled, Running
  <1>2. QED BY <1>1, LocksAlways, PTL

-----------------------------------------------------------------------------
(* The list in memory and the files.                                       *)

Keeps(a) == \/ switch[a] = Idle
            \/ switch[a] \in Copying /\ ~switch[a].back
            \/ switch[a] \in Loads \union Loaded /\ ~switch[a].move
Agrees(a) == /\ Keeps(a) => list[a] = files[dir[a]]
             /\ switch[a] \in Loaded => switch[a].notes = files[switch[a].to]
Apart(a) == /\ \A b \in Apps \ {a} : list'[b] = list[b]
            /\ \A f \in Folders : ~Own(a, f) => files'[f] = files[f]

LEMMA AgreesByOthers ==
  ASSUME Locks, NEW a \in Apps, Step(a), Apart(a), Agrees(a)', \A b \in Apps : Agrees(b)
  PROVE  \A b \in Apps : Agrees(b)'
  <1> SUFFICES ASSUME NEW b \in Apps, b # a PROVE Agrees(b)'
    OBVIOUS
  <1>1. switch'[b] = switch[b] /\ dir'[b] = dir[b] /\ list'[b] = list[b]
    BY DEF Step, Others, Apart
  <1>2. Held(b) /\ Agrees(b)
    BY DEF Locks
  <1>3. \A f : Own(b, f) => files'[f] = files[f]
    BY Owned DEF Apart
  <1>4. Keeps(b) => Own(b, dir[b])
    BY <1>2, Shapes DEF Keeps, Held, Running
  <1>5. switch[b] \in Loaded => Own(b, switch[b].to)
    BY <1>2 DEF Held
  <1>6. QED BY <1>1, <1>2, <1>3, <1>4, <1>5 DEF Agrees, Keeps

LEMMA AgreesSteps ==
  ASSUME Locks, NEW a \in Apps, Agrees(a), "unlisted" \notin Mishaps,
         \/ Launch(a) \/ End(a)
         \/ \E n \in Ids : Upsert(a, n) \/ Delete(a, n)
         \/ Repick(a) \/ BeginSwitch(a) \/ Copy(a) \/ CopyFails(a) \/ RemoveSources(a)
         \/ Load(a) \/ LoadFails(a) \/ Commit(a) \/ PersistFails(a)
  PROVE  Apart(a) /\ Agrees(a)'
  <1>0. Types /\ Held(a) /\ Step(a)
    BY NextIsStep DEF Locks
  <1>1. CASE Launch(a)
    <2>1. PICK w \in BOOLEAN : /\ dir' = [dir EXCEPT ![a] = Decide(a, w).dir]
                               /\ list' = [list EXCEPT ![a] = files[Decide(a, w).dir]]
      BY <1>1 DEF Launch
    <2>2. UNCHANGED files /\ Become(a, Idle)
      BY <1>1 DEF Launch, disk
    <2>3. list'[a] = files'[dir'[a]] /\ \A b \in Apps \ {a} : list'[b] = list[b]
      BY <1>0, <2>1, <2>2 DEF Types
    <2>4. switch'[a] = Idle
      BY <1>0, <2>2, Becomes
    <2>5. QED BY <2>2, <2>3, <2>4, Shapes DEF Apart, Agrees
  <1>2. CASE End(a)
    <2>1. UNCHANGED files /\ Become(a, Down) /\ \A b \in Apps \ {a} : list'[b] = list[b]
      BY <1>0, <1>2 DEF End, disk, Types
    <2>2. switch'[a] = Down
      BY <1>0, <2>1, Becomes
    <2>3. QED BY <2>1, <2>2, Shapes DEF Apart, Agrees, Keeps
  <1>3. ASSUME NEW n \in Ids, Upsert(a, n) \/ Delete(a, n) PROVE Apart(a) /\ Agrees(a)'
    <2>1. PICK t : Put(a, n, t) /\ switch[a] = Idle
      BY <1>3 DEF Upsert, Delete
    <2>2. /\ files' = [files EXCEPT ![dir[a]] = [files[dir[a]] EXCEPT ![n] = t]]
          /\ list' = [list EXCEPT ![a] = [list[a] EXCEPT ![n] = t]]
          /\ UNCHANGED <<dir, switch>>
      BY <2>1 DEF Put
    <2>3. list[a] = files[dir[a]] /\ dir[a] \in Folders /\ Own(a, dir[a])
      BY <1>0, <2>1, Shapes DEF Agrees, Keeps, Types, Held, Running
    <2>4. list'[a] = files'[dir'[a]] /\ Apart(a)
      BY <1>0, <2>2, <2>3 DEF Types, Apart
    <2>5. QED BY <2>1, <2>2, <2>4, Shapes DEF Agrees
  <1>4. CASE Repick(a)
    BY <1>4 DEF Repick, Apart, Agrees, Keeps
  <1>5. CASE BeginSwitch(a)
    <2>1. switch[a] = Idle /\ UNCHANGED <<files, dir, list>>
      BY <1>5 DEF BeginSwitch, disk, store
    <2>2. switch'[a] \notin Loaded
      <3>1. PICK s : Become(a, s) /\ s.pc \in {"copying", "loading"}
        BY <1>5 DEF BeginSwitch, Moving, CopyingOn, Loading
      <3>2. switch'[a] = s
        BY <1>0, <3>1, Becomes
      <3>3. QED BY <3>1, <3>2, Shapes
    <2>3. QED BY <2>1, <2>2 DEF Apart, Agrees, Keeps
  <1>6. CASE Copy(a)
    <2>1. /\ switch[a] \in Copying /\ switch[a].to \in Folders /\ Own(a, switch[a].to)
          /\ ~switch[a].back => dir[a] # switch[a].to
      BY <1>0, <1>6, Shapes DEF Copy, Held, Copying
    <2>2. /\ UNCHANGED <<dir, list>>
          /\ \A f \in Folders : f # switch[a].to => files'[f] = files[f]
      BY <1>0, <1>6, <2>1 DEF Copy, store, Types
    <2>3. switch'[a] \in Copying /\ switch'[a].back = switch[a].back
      <3>1. PICK s, t, m, l : Become(a, CopyingOn(s.from, s.to, s.policy, s.back, t, m, l)) /\ s = switch[a]
        BY <1>6 DEF Copy
      <3>2. switch'[a] = CopyingOn(s.from, s.to, s.policy, s.back, t, m, l)
        BY <1>0, <3>1, Becomes
      <3>3. switch'[a].pc = "copying" /\ switch'[a].back = switch[a].back
        BY <3>1, <3>2 DEF CopyingOn
      <3>4. QED BY <1>0, <3>3, Shapes DEF Step, Held
    <2>4. QED BY <1>0, <2>1, <2>2, <2>3, Shapes DEF Apart, Agrees, Keeps, Types
  <1>7. CASE CopyFails(a)
    <2>1. /\ switch[a] \in Copying /\ switch[a].to \in Folders /\ Own(a, switch[a].to)
          /\ ~switch[a].back => dir[a] # switch[a].to
      BY <1>0, <1>7, Shapes DEF CopyFails, Held, Copying
    <2>2. \A f \in Folders : f # switch[a].to => files'[f] = files[f]
      BY <1>0, <1>7, <2>1 DEF CopyFails, Types
    <2>3. /\ Become(a, Idle) /\ UNCHANGED dir
          /\ IF switch[a].back THEN list' = [list EXCEPT ![a] = files'[dir[a]]] ELSE UNCHANGED list
      BY <1>7 DEF CopyFails, GiveUp, Shows
    <2>4. switch'[a] = Idle /\ dir[a] \in Folders
      BY <1>0, <2>3, Becomes DEF Types
    <2>5. list'[a] = files'[dir'[a]] /\ \A b \in Apps \ {a} : list'[b] = list[b]
      <3>1. CASE switch[a].back
        BY <1>0, <2>3, <3>1 DEF Types
      <3>2. CASE ~switch[a].back
        BY <2>1, <2>2, <2>3, <2>4, <3>2 DEF Agrees, Keeps
      <3>3. QED BY <3>1, <3>2
    <2>6. Apart(a)
      BY <2>1, <2>2, <2>5 DEF Apart
    <2>7. QED BY <2>4, <2>5, <2>6, Shapes DEF Agrees
  <1>8. CASE RemoveSources(a)
    <2>1. switch[a] \in Copying /\ switch[a].from \in Folders /\ Own(a, switch[a].from)
      BY <1>0, <1>8, Shapes DEF RemoveSources, Held, Copying
    <2>2. \A f \in Folders : f # switch[a].from => files'[f] = files[f]
      BY <1>0, <1>8, <2>1 DEF RemoveSources, Types
    <2>3. CASE switch[a].back
      <3>1. Become(a, Idle) /\ UNCHANGED dir /\ list' = [list EXCEPT ![a] = files'[dir[a]]]
        BY <1>8, <2>3 DEF RemoveSources, GiveUp, Shows
      <3>2. switch'[a] = Idle
        BY <1>0, <3>1, Becomes
      <3>3. list'[a] = files'[dir'[a]] /\ \A b \in Apps \ {a} : list'[b] = list[b]
        BY <1>0, <3>1 DEF Types
      <3>4. QED BY <2>1, <2>2, <3>2, <3>3, Shapes DEF Apart, Agrees
    <2>4. CASE ~switch[a].back
      <3>1. PICK s : Become(a, s) /\ s.pc = "loading" /\ s.move /\ UNCHANGED list
        BY <1>8, <2>4 DEF RemoveSources, Loading
      <3>2. switch'[a] = s
        BY <1>0, <3>1, Becomes
      <3>3. QED BY <2>1, <2>2, <3>1, <3>2, Shapes DEF Apart, Agrees, Keeps
    <2>5. QED BY <2>3, <2>4
  <1>9. CASE Load(a)
    <2>1. switch[a] \in Loads /\ UNCHANGED <<files, dir, list>>
      BY <1>0, <1>9, Shapes DEF Load, Held, disk, store
    <2>2. PICK s : Become(a, s) /\ s.notes = files[s.to] /\ s.move = switch[a].move /\ s.pc = "loaded"
      BY <1>9 DEF Load
    <2>3. switch'[a] = s
      BY <1>0, <2>2, Becomes
    <2>4. QED BY <2>1, <2>2, <2>3, Shapes DEF Apart, Agrees, Keeps
  <1>10. CASE LoadFails(a)
    <2>1. switch[a] \in Loads /\ ~switch[a].move /\ UNCHANGED <<files, dir, list>> /\ Become(a, Idle)
      BY <1>0, <1>10, Shapes DEF LoadFails, Held, disk, store, GiveUp
    <2>2. switch'[a] = Idle
      BY <1>0, <2>1, Becomes
    <2>3. QED BY <2>1, <2>2, Shapes DEF Apart, Agrees, Keeps
  <1>11. CASE Commit(a)
    <2>1. PICK s : s = switch[a] /\ s \in Loaded /\ s.to \in Folders /\ s.notes = files[s.to]
      BY <1>0, <1>11, Shapes DEF Commit, Held, Loaded, Agrees
    <2>2. /\ UNCHANGED files /\ Become(a, Idle)
          /\ dir' = [dir EXCEPT ![a] = s.to] /\ list' = [list EXCEPT ![a] = s.notes]
      BY <1>11, <2>1 DEF Commit, Shows
    <2>3. switch'[a] = Idle
      BY <1>0, <2>2, Becomes
    <2>4. list'[a] = files'[dir'[a]] /\ \A b \in Apps \ {a} : list'[b] = list[b]
      BY <1>0, <2>1, <2>2 DEF Types
    <2>5. QED BY <2>2, <2>3, <2>4, Shapes DEF Apart, Agrees
  <1>12. CASE PersistFails(a)
    <2>1. switch[a] \in Loaded /\ UNCHANGED <<files, dir, list>>
      BY <1>0, <1>12, Shapes DEF PersistFails, Held, disk, store
    <2>2. CASE switch[a].move
      <3>1. PICK s : Become(a, s) /\ s.pc = "copying" /\ s.back
        BY <1>12, <2>2 DEF PersistFails, Moving, CopyingOn
      <3>2. switch'[a] = s
        BY <1>0, <3>1, Becomes
      <3>3. QED BY <2>1, <3>1, <3>2, Shapes DEF Apart, Agrees, Keeps
    <2>3. CASE ~switch[a].move
      <3>1. Become(a, Idle)
        BY <1>12, <2>3 DEF PersistFails, GiveUp
      <3>2. switch'[a] = Idle
        BY <1>0, <3>1, Becomes
      <3>3. QED BY <2>1, <2>3, <3>2, Shapes DEF Apart, Agrees, Keeps
    <2>4. QED BY <2>2, <2>3
  <1>13. QED BY <1>1, <1>2, <1>3, <1>4, <1>5, <1>6, <1>7, <1>8, <1>9, <1>10, <1>11, <1>12

(* The list of a store at rest is what its folder holds, after a switch     *)
(* that failed and was taken back as well (switch_dir), as long as a folder *)
(* can be listed once files were moved to it.                              *)
THEOREM ListAgrees ==
  ASSUME "unlisted" \notin Mishaps
  PROVE  Spec => []ListIsDisk
  <1> DEFINE All == \A a \in Apps : Agrees(a)
  <1>1. Init => All
    BY Shapes DEF Init, Agrees, Keeps
  <1>2. Locks /\ All /\ [Next]_vars => All'
    <2> SUFFICES ASSUME Locks, All, [Next]_vars PROVE All'
      OBVIOUS
    <2>1. CASE Next
      <3>1. PICK a \in Apps :
         \/ Launch(a) \/ End(a)
         \/ \E n \in Ids : Upsert(a, n) \/ Delete(a, n)
         \/ Repick(a) \/ BeginSwitch(a) \/ Copy(a) \/ CopyFails(a) \/ RemoveSources(a)
         \/ Load(a) \/ LoadFails(a) \/ Commit(a) \/ PersistFails(a)
        BY <2>1 DEF Next
      <3>2. Step(a)
        BY <3>1, NextIsStep
      <3>3. Apart(a) /\ Agrees(a)'
        BY <3>1, AgreesSteps
      <3>4. QED BY <3>2, <3>3, AgreesByOthers
    <2>2. CASE UNCHANGED vars
      BY <2>2 DEF vars, disk, store, Agrees, Keeps
    <2>3. QED BY <2>1, <2>2
  <1>3. All => ListIsDisk
    BY DEF Agrees, Keeps, ListIsDisk, Settled
  <1> HIDE DEF All
  <1>4. QED BY <1>1, <1>2, <1>3, LocksAlways, PTL DEF Spec

-----------------------------------------------------------------------------
(* Nothing is lost.  A switch that copies knows where each text it took is, *)
(* and what it overwrites on the way back came from where it copies.       *)

Covered(f, g) == \A n \in Ids : files[f][n] # 0 => \E m \in Ids : files[g][m] = files[f][n]

Traced(s) ==
  /\ s.todo \subseteq Present(s.from) \ s.landed
  /\ s.moved \subseteq Present(s.from)
  /\ \A m \in s.landed : \E n \in Ids : files[s.from][n] = files[s.to][m]
  /\ \A n \in s.moved : \E m \in s.landed : files[s.to][m] = files[s.from][n]
  /\ s.policy # "dest" => Present(s.from) \subseteq s.todo \union s.moved
  /\ s.back => s.policy = "source" /\ Covered(s.to, s.from)

Backed(a) ==
  /\ switch[a] \in Copying => Traced(switch[a])
  /\ switch[a] \in Loads \union Loaded /\ switch[a].move /\ switch[a].policy # "dest"
       => Covered(dir[a], switch[a].to)

LEMMA BackedByOthers ==
  ASSUME Locks, NEW a \in Apps, Step(a), Apart(a), Backed(a)', \A b \in Apps : Backed(b)
  PROVE  \A b \in Apps : Backed(b)'
  <1> SUFFICES ASSUME NEW b \in Apps, b # a PROVE Backed(b)'
    OBVIOUS
  <1>1. switch'[b] = switch[b] /\ dir'[b] = dir[b]
    BY DEF Step, Others
  <1>2. Held(b) /\ Backed(b)
    BY DEF Locks
  <1>3. \A f : Own(b, f) => files'[f] = files[f]
    BY Owned DEF Apart
  <1>4. switch[b] \in Copying =>
          /\ files'[switch[b].from] = files[switch[b].from]
          /\ files'[switch[b].to] = files[switch[b].to]
    BY <1>2, <1>3 DEF Held
  <1>5. switch[b] \in Loads \union Loaded =>
          files'[dir[b]] = files[dir[b]] /\ files'[switch[b].to] = files[switch[b].to]
    BY <1>2, <1>3, Shapes DEF Held, Running
  <1>6. switch[b] \in Copying => Traced(switch[b])'
    BY <1>1, <1>2, <1>4 DEF Backed, Traced, Covered, Present
  <1>7. switch[b] \in Loads \union Loaded /\ switch[b].move /\ switch[b].policy # "dest"
          => Covered(dir[b], switch[b].to)'
    BY <1>1, <1>2, <1>5 DEF Backed, Covered
  <1>8. QED BY <1>1, <1>6, <1>7 DEF Backed

(* One file is copied.                                                     *)
LEMMA CopyBacked ==
  ASSUME Locks, NEW a \in Apps, Backed(a), Copy(a), NothingLost, wanted \subseteq Nat \ {0}
  PROVE  Backed(a)' /\ NothingLost'
  <1> USE DEF Locks, Types
  <1>0. PICK s : s = switch[a]
    OBVIOUS
  <1>1. s \in Copying /\ Traced(s) /\ s.from # s.to /\ s.from \in Folders /\ s.to \in Folders
    BY <1>0, Shapes DEF Copy, Held, Backed, Copying
  <1>2. PICK n \in s.todo :
       \/ /\ Landing(s, n) = {} /\ s.policy = "dest"
          /\ Become(a, CopyingOn(s.from, s.to, s.policy, s.back, s.todo \ {n}, s.moved, s.landed))
          /\ UNCHANGED <<files, wanted>>
       \/ \E m \in Landing(s, n) :
            /\ files' = [files EXCEPT ![s.to][m] = files[s.from][n]]
            /\ Become(a, CopyingOn(s.from, s.to, s.policy, s.back,
                                   s.todo \ {n}, s.moved \union {n}, s.landed \union {m}))
            /\ wanted' = wanted \ GivenUp(s, n)
    BY <1>0 DEF Copy
  <1>3. n \in Ids /\ files[s.from][n] # 0 /\ n \notin s.landed
    BY <1>1, <1>2 DEF Traced, Present
  <1>4. CASE /\ s.policy = "dest"
             /\ Become(a, CopyingOn(s.from, s.to, s.policy, s.back, s.todo \ {n}, s.moved, s.landed))
             /\ UNCHANGED <<files, wanted>>
    <2>0. PICK q : q = CopyingOn(s.from, s.to, s.policy, s.back, s.todo \ {n}, s.moved, s.landed)
      OBVIOUS
    <2>1. /\ q.pc = "copying" /\ q.from = s.from /\ q.to = s.to /\ q.policy = "dest" /\ q.back = s.back
          /\ q.todo = s.todo \ {n} /\ q.moved = s.moved /\ q.landed = s.landed
      BY <1>4, <2>0 DEF CopyingOn
    <2>2. switch'[a] = q
      BY <1>4, <2>0, Becomes
    <2>3. Traced(q)'
      BY <1>1, <1>4, <2>1 DEF Traced, Present, Covered
    <2>4. q \notin Loads \union Loaded
      BY <2>1, Shapes
    <2>5. NothingLost'
      BY <1>4 DEF NothingLost
    <2>6. QED BY <2>2, <2>3, <2>4, <2>5 DEF Backed
  <1>5. CASE \E m \in Landing(s, n) :
            /\ files' = [files EXCEPT ![s.to][m] = files[s.from][n]]
            /\ Become(a, CopyingOn(s.from, s.to, s.policy, s.back,
                                   s.todo \ {n}, s.moved \union {n}, s.landed \union {m}))
            /\ wanted' = wanted \ GivenUp(s, n)
    <2>1. PICK m \in Landing(s, n) :
            /\ files' = [files EXCEPT ![s.to] = [files[s.to] EXCEPT ![m] = files[s.from][n]]]
            /\ Become(a, CopyingOn(s.from, s.to, s.policy, s.back,
                                   s.todo \ {n}, s.moved \union {n}, s.landed \union {m}))
            /\ wanted' = wanted \ GivenUp(s, n)
      BY <1>5
    <2>2. /\ m \in Ids
          /\ \/ m = n /\ (files[s.to][n] = 0 \/ s.policy = "source")
             \/ m \notin Present(s.from) /\ files[s.to][m] = 0
      BY <1>1, <1>3 DEF Landing, Fresh, Present
    <2>0. PICK q : q = CopyingOn(s.from, s.to, s.policy, s.back, s.todo \ {n}, s.moved \union {n}, s.landed \union {m})
      OBVIOUS
    <2>3. /\ q.pc = "copying" /\ q.from = s.from /\ q.to = s.to /\ q.policy = s.policy /\ q.back = s.back
          /\ q.todo = s.todo \ {n} /\ q.moved = s.moved \union {n} /\ q.landed = s.landed \union {m}
      BY <2>0 DEF CopyingOn
    <2>4. switch'[a] = q
      BY <2>0, <2>1, Becomes
    <2>5. /\ files'[s.from] = files[s.from]
          /\ files'[s.to][m] = files[s.from][n]
          /\ \A k \in Ids : k # m => files'[s.to][k] = files[s.to][k]
          /\ \A f \in Folders : f # s.to => files'[f] = files[f]
      BY <1>1, <1>3, <2>1, <2>2
    <2>6. Traced(q)'
      <3>1. q.todo \subseteq Present(q.from)' \ q.landed /\ q.moved \subseteq Present(q.from)'
        BY <1>1, <1>3, <2>2, <2>3, <2>5 DEF Traced, Present
      <3>2. \A k \in q.landed : \E i \in Ids : files'[q.from][i] = files'[q.to][k]
        <4> SUFFICES ASSUME NEW k \in q.landed PROVE \E i \in Ids : files'[q.from][i] = files'[q.to][k]
          OBVIOUS
        <4>1. CASE k = m
          BY <1>3, <2>3, <2>5, <4>1
        <4>2. CASE k # m
          BY <1>1, <2>3, <2>5, <4>2 DEF Traced, Copying
        <4>3. QED BY <4>1, <4>2
      <3>3. \A i \in q.moved : \E k \in q.landed : files'[q.to][k] = files'[q.from][i]
        <4> SUFFICES ASSUME NEW i \in q.moved PROVE \E k \in q.landed : files'[q.to][k] = files'[q.from][i]
          OBVIOUS
        <4>1. CASE i = n
          BY <2>3, <2>5, <4>1
        <4>2. CASE i # n
          <5>1. PICK k \in s.landed : files[s.to][k] = files[s.from][i]
            BY <1>1, <2>3, <4>2 DEF Traced
          <5>2. files[s.from][i] # 0
            BY <1>1, <2>3, <4>2 DEF Traced, Present
          <5>3. k # m /\ k \in Ids
            BY <1>1, <1>3, <2>2, <5>1, <5>2 DEF Copying
          <5>4. QED BY <2>3, <2>5, <5>1, <5>3
        <4>3. QED BY <4>1, <4>2
      <3>4. q.policy # "dest" => Present(q.from)' \subseteq q.todo \union q.moved
        BY <1>1, <2>3, <2>5 DEF Traced, Present
      <3>5. q.back => q.policy = "source" /\ Covered(q.to, q.from)'
        BY <1>1, <1>3, <2>3, <2>5 DEF Traced, Covered
      <3>6. QED BY <3>1, <3>2, <3>3, <3>4, <3>5 DEF Traced
    <2>7. q \notin Loads \union Loaded
      BY <2>3, Shapes
    <2>8. NothingLost'
      <3> SUFFICES ASSUME NEW t \in wanted' PROVE \E f \in Folders, k \in Ids : files'[f][k] = t
        BY DEF NothingLost
      <3>1. t # 0 /\ t \in wanted /\ t \notin GivenUp(s, n)
        BY <2>1
      <3>2. PICK f \in Folders, k \in Ids : files[f][k] = t
        BY <3>1 DEF NothingLost
      <3>3. CASE f # s.to \/ k # m
        BY <2>5, <3>2, <3>3
      <3>4. CASE f = s.to /\ k = m
        <4>1. m = n /\ s.policy = "source"
          BY <2>2, <3>1, <3>2, <3>4
        <4>2. CASE s.back
          BY <1>1, <2>5, <3>1, <3>2, <3>4, <4>2 DEF Traced, Covered
        <4>3. CASE ~s.back
          <5>1. t = files[s.from][n]
            BY <3>1, <3>2, <3>4, <4>1, <4>3 DEF GivenUp
          <5>2. QED BY <1>1, <2>2, <2>5, <5>1
        <4>4. QED BY <4>2, <4>3
      <3>5. QED BY <3>3, <3>4
    <2>9. QED BY <2>4, <2>6, <2>7, <2>8 DEF Backed
  <1>6. QED BY <1>2, <1>4, <1>5

(* A copy fails: what it wrote is still where it took it from.              *)
LEMMA CopyFailsBacked ==
  ASSUME Locks, NEW a \in Apps, Backed(a), CopyFails(a), NothingLost, wanted \subseteq Nat \ {0}
  PROVE  Backed(a)' /\ NothingLost'
  <1> USE DEF Locks, Types
  <1>0. PICK s : s = switch[a]
    OBVIOUS
  <1>1. s \in Copying /\ Traced(s) /\ s.from # s.to /\ s.from \in Folders /\ s.to \in Folders
    BY <1>0, Shapes DEF CopyFails, Held, Backed, Copying
  <1>2. switch'[a] = Idle
    BY Becomes DEF CopyFails, GiveUp
  <1>3. files' = [files EXCEPT ![s.to] = [n \in Ids |-> IF n \in s.landed THEN 0 ELSE files[s.to][n]]]
        /\ UNCHANGED wanted
    BY <1>0 DEF CopyFails
  <1>4. NothingLost'
    <2> SUFFICES ASSUME NEW t \in wanted PROVE \E f \in Folders, k \in Ids : files'[f][k] = t
      BY <1>3 DEF NothingLost
    <2>1. PICK f \in Folders, k \in Ids : files[f][k] = t
      BY DEF NothingLost
    <2>2. CASE f # s.to \/ k \notin s.landed
      BY <1>1, <1>3, <2>1, <2>2
    <2>3. CASE f = s.to /\ k \in s.landed
      <3>1. PICK n \in Ids : files[s.from][n] = t
        BY <1>1, <2>1, <2>3 DEF Traced
      <3>2. files'[s.from] = files[s.from]
        BY <1>1, <1>3
      <3>3. QED BY <1>1, <3>1, <3>2
    <2>4. QED BY <2>2, <2>3
  <1>5. QED BY <1>2, <1>4, Shapes DEF Backed

(* What is removed from the old folder is in the new one.                   *)
LEMMA RemoveBacked ==
  ASSUME Locks, NEW a \in Apps, Backed(a), RemoveSources(a), NothingLost, wanted \subseteq Nat \ {0}
  PROVE  Backed(a)' /\ NothingLost'
  <1> USE DEF Locks, Types
  <1>0. PICK s : s = switch[a]
    OBVIOUS
  <1>1. s \in Copying /\ Traced(s) /\ s.from # s.to /\ s.from \in Folders /\ s.to \in Folders
        /\ s.todo = {} /\ s.landed \subseteq Ids /\ (~s.back => s.from = dir[a])
    BY <1>0, Shapes DEF RemoveSources, Held, Backed, Copying
  <1>2. PICK stays \in SUBSET s.moved :
          files' = [files EXCEPT ![s.from] = [n \in Ids |-> IF n \in s.moved \ stays THEN 0 ELSE files[s.from][n]]]
    <2>1. PICK stays \in SUBSET switch[a].moved :
            files' = [files EXCEPT ![switch[a].from] =
                        [n \in Ids |-> IF n \in switch[a].moved \ stays THEN 0 ELSE @[n]]]
      BY Zenon DEF RemoveSources
    <2>2. files' = [files EXCEPT ![s.from] = [n \in Ids |-> IF n \in s.moved \ stays THEN 0 ELSE files[s.from][n]]]
      BY <1>0, <1>1, <2>1
    <2>3. QED BY <1>0, <2>1, <2>2, ZenonT(40)
  <1>3. /\ files'[s.to] = files[s.to]
        /\ \A f \in Folders : f # s.from => files'[f] = files[f]
        /\ \A n \in Ids : files'[s.from][n] \in {0, files[s.from][n]}
        /\ \A n \in Ids : n \notin s.moved => files'[s.from][n] = files[s.from][n]
    BY <1>1, <1>2
  <1>4. NothingLost'
    <2> SUFFICES ASSUME NEW t \in wanted PROVE \E f \in Folders, k \in Ids : files'[f][k] = t
      BY DEF NothingLost, RemoveSources
    <2>1. PICK f \in Folders, k \in Ids : files[f][k] = t
      BY DEF NothingLost
    <2>2. CASE f # s.from \/ k \notin s.moved
      BY <1>3, <2>1, <2>2
    <2>3. CASE f = s.from /\ k \in s.moved
      BY <1>1, <1>3, <2>1, <2>3 DEF Traced
    <2>4. QED BY <2>2, <2>3
  <1>5. CASE s.back
    <2>1. switch'[a] = Idle
      BY <1>0, <1>5, Becomes DEF RemoveSources, GiveUp
    <2>2. QED BY <1>4, <2>1, Shapes DEF Backed
  <1>6. CASE ~s.back
    <2>1. PICK q : q = Loading(s.to, s.policy, TRUE)
      OBVIOUS
    <2>2. q.pc = "loading" /\ q.to = s.to /\ q.policy = s.policy
      BY <2>1 DEF Loading
    <2>3. switch'[a] = q /\ dir'[a] = dir[a]
      BY <1>0, <1>6, <2>1, Becomes DEF RemoveSources
    <2>4. q.policy # "dest" => Covered(dir[a], q.to)'
      <3> SUFFICES ASSUME q.policy # "dest", NEW n \in Ids, files'[s.from][n] # 0
                   PROVE  \E m \in Ids : files'[s.to][m] = files'[s.from][n]
        BY <1>1, <1>6, <2>2, <2>3 DEF Covered
      <3>1. files'[s.from][n] = files[s.from][n]
        BY <1>3
      <3>2. n \in s.moved
        BY <1>1, <2>2, <3>1 DEF Traced, Present
      <3>3. QED BY <1>1, <1>3, <3>1, <3>2 DEF Traced
    <2>5. q \notin Copying
      BY <2>2, Shapes
    <2>6. QED BY <1>4, <2>3, <2>4, <2>5 DEF Backed
  <1>7. QED BY <1>5, <1>6

(* A note is written over the text its window shows, which is what its file *)
(* holds.                                                                  *)
LEMMA NoteBacked ==
  ASSUME Locks, NEW a \in Apps, NEW n \in Ids, Agrees(a), Upsert(a, n) \/ Delete(a, n),
         NothingLost, wanted \subseteq Nat \ {0}, shown = list
  PROVE  Backed(a)' /\ NothingLost' /\ wanted' \subseteq Nat \ {0}
  <1> USE DEF Locks, Types
  <1>1. switch[a] = Idle /\ dir[a] \in Folders /\ shown[a] = files[dir[a]]
    BY DEF Upsert, Delete, Agrees, Keeps
  <1>2. PICK t \in Nat : Put(a, n, t) /\ wanted' \subseteq (wanted \ {shown[a][n]}) \union ({t} \ {0})
    <2>1. CASE Upsert(a, n)
      <3>1. texts + 1 \in Nat /\ texts + 1 # 0
        OBVIOUS
      <3>2. QED BY <2>1, <3>1 DEF Upsert
    <2>2. CASE Delete(a, n)
      BY <2>2 DEF Delete
    <2>3. QED BY <2>1, <2>2
  <1>3. /\ files' = [files EXCEPT ![dir[a]] = [files[dir[a]] EXCEPT ![n] = t]]
        /\ UNCHANGED switch
    BY <1>2 DEF Put
  <1>4. /\ files'[dir[a]][n] = t
        /\ \A f \in Folders, k \in Ids : f # dir[a] \/ k # n => files'[f][k] = files[f][k]
    BY <1>1, <1>3
  <1>5. NothingLost'
    <2> SUFFICES ASSUME NEW x \in wanted' PROVE \E f \in Folders, k \in Ids : files'[f][k] = x
      BY DEF NothingLost
    <2>1. CASE x = t
      BY <1>1, <1>4, <2>1
    <2>2. CASE x # t
      <3>1. x \in wanted /\ x # files[dir[a]][n]
        BY <1>1, <1>2, <2>2
      <3>2. PICK f \in Folders, k \in Ids : files[f][k] = x
        BY <3>1 DEF NothingLost
      <3>3. QED BY <1>4, <3>1, <3>2
    <2>3. QED BY <2>1, <2>2
  <1>6. QED BY <1>1, <1>2, <1>3, <1>5, Shapes DEF Backed

LEMMA BackedSteps ==
  ASSUME Locks, NEW a \in Apps, Agrees(a), Backed(a), Mishaps = {},
         NothingLost, wanted \subseteq Nat \ {0}, shown = list,
         \/ Launch(a) \/ End(a)
         \/ \E n \in Ids : Upsert(a, n) \/ Delete(a, n)
         \/ Repick(a) \/ BeginSwitch(a) \/ Copy(a) \/ CopyFails(a) \/ RemoveSources(a)
         \/ Load(a) \/ LoadFails(a) \/ Commit(a) \/ PersistFails(a)
  PROVE  Backed(a)' /\ NothingLost' /\ wanted' \subseteq Nat \ {0}
  <1>0. Types /\ Held(a)
    BY DEF Locks
  <1>1. CASE \/ Launch(a) \/ End(a) \/ Repick(a) \/ BeginSwitch(a) \/ Load(a) \/ LoadFails(a)
             \/ Commit(a) \/ PersistFails(a)
    <2>1. UNCHANGED <<files, wanted>>
      BY <1>1 DEF Launch, End, Repick, BeginSwitch, Load, LoadFails, Commit, PersistFails, disk
    <2>2. NothingLost' /\ wanted' \subseteq Nat \ {0}
      BY <2>1 DEF NothingLost
    <2>3. CASE \/ Launch(a) \/ End(a) \/ LoadFails(a) \/ Commit(a) \/ (PersistFails(a) /\ ~switch[a].move)
               \/ Repick(a)
      <3>1. switch'[a] \in {Idle, Down}
        BY <1>0, <2>3, Becomes DEF Launch, End, LoadFails, Commit, PersistFails, GiveUp, Repick
      <3>2. QED BY <2>2, <3>1, Shapes DEF Backed
    <2>4. CASE BeginSwitch(a)
      <3>1. PICK f \in (Picked \union {a}) \ {dir[a]}, policy \in Policies, move \in BOOLEAN :
              Become(a, IF move THEN Moving(dir[a], f, policy, FALSE) ELSE Loading(f, policy, FALSE))
        BY <2>4 DEF BeginSwitch
      <3>2. CASE move
        <4>1. PICK q : q = Moving(dir[a], f, policy, FALSE)
          OBVIOUS
        <4>2. /\ q.pc = "copying" /\ q.from = dir[a] /\ ~q.back
              /\ q.todo = Present(dir[a]) /\ q.moved = {} /\ q.landed = {}
          BY <4>1 DEF Moving, CopyingOn
        <4>3. switch'[a] = q
          BY <1>0, <3>1, <3>2, <4>1, Becomes
        <4>4. Present(q.from)' = Present(dir[a])
          BY <2>1, <4>2 DEF Present
        <4>5. Traced(q)'
          BY <4>2, <4>4 DEF Traced
        <4>6. q \notin Loads \union Loaded
          BY <4>2, Shapes
        <4>7. QED BY <2>2, <4>3, <4>5, <4>6 DEF Backed
      <3>3. CASE ~move
        <4>1. PICK q : q = Loading(f, policy, FALSE)
          OBVIOUS
        <4>2. q.pc = "loading" /\ ~q.move
          BY <4>1 DEF Loading
        <4>3. switch'[a] = q
          BY <1>0, <3>1, <3>3, <4>1, Becomes
        <4>4. QED BY <2>2, <4>2, <4>3, Shapes DEF Backed
      <3>4. QED BY <3>2, <3>3
    <2>5. CASE Load(a)
      <3>1. PICK s : s = switch[a] /\ s \in Loads
        BY <1>0, <2>5, Shapes DEF Load, Held
      <3>2. PICK q : q = [pc |-> "loaded", to |-> s.to, policy |-> s.policy, move |-> s.move,
                          notes |-> files[s.to]]
        OBVIOUS
      <3>3. q.pc = "loaded" /\ q.to = s.to /\ q.policy = s.policy /\ q.move = s.move
        BY <3>2
      <3>4. switch'[a] = q /\ dir' = dir
        BY <1>0, <2>5, <3>1, <3>2, Becomes DEF Load, store
      <3>5. q.move /\ q.policy # "dest" => Covered(dir[a], q.to)'
        BY <2>1, <3>1, <3>3, <3>4 DEF Backed, Covered
      <3>6. QED BY <2>2, <3>3, <3>4, <3>5, Shapes DEF Backed
    <2>6. CASE PersistFails(a) /\ switch[a].move
      <3>1. PICK s : s = switch[a] /\ s \in Loaded /\ s.move /\ s.policy # "dest"
        BY <1>0, <2>6, Shapes DEF PersistFails, Held
      <3>2. PICK q : q = Moving(s.to, dir[a], "source", TRUE)
        OBVIOUS
      <3>3. /\ q.pc = "copying" /\ q.from = s.to /\ q.to = dir[a] /\ q.policy = "source"
            /\ q.todo = Present(s.to) /\ q.moved = {} /\ q.landed = {}
        BY <3>2 DEF Moving, CopyingOn
      <3>4. switch'[a] = q
        BY <1>0, <2>6, <3>1, <3>2, Becomes DEF PersistFails
      <3>5. Covered(q.to, q.from)'
        BY <2>1, <3>1, <3>3 DEF Backed, Covered
      <3>6. Present(q.from)' = Present(s.to)
        BY <2>1, <3>3 DEF Present
      <3>7. Traced(q)'
        BY <3>3, <3>5, <3>6 DEF Traced
      <3>8. QED BY <2>2, <3>3, <3>4, <3>7, Shapes DEF Backed
    <2>7. QED BY <1>1, <2>3, <2>4, <2>5, <2>6
  <1>2. CASE \E n \in Ids : Upsert(a, n) \/ Delete(a, n)
    BY <1>2, NoteBacked
  <1>3. CASE Copy(a)
    BY <1>3, CopyBacked DEF Copy
  <1>4. CASE CopyFails(a)
    BY <1>4, CopyFailsBacked DEF CopyFails
  <1>5. CASE RemoveSources(a)
    BY <1>5, RemoveBacked DEF RemoveSources
  <1>6. QED BY <1>1, <1>2, <1>3, <1>4, <1>5

(* Windows are opened anew with the list.                                   *)
LEMMA ShownSteps ==
  ASSUME Mishaps = {}, shown = list, NEW a \in Apps,
         \/ Launch(a) \/ End(a)
         \/ \E n \in Ids : Upsert(a, n) \/ Delete(a, n)
         \/ Repick(a) \/ BeginSwitch(a) \/ Copy(a) \/ CopyFails(a) \/ RemoveSources(a)
         \/ Load(a) \/ LoadFails(a) \/ Commit(a) \/ PersistFails(a)
  PROVE  shown' = list'
  <1>1. CASE Launch(a) \/ End(a)
    BY <1>1 DEF Launch, End
  <1>2. CASE \E n \in Ids : Upsert(a, n) \/ Delete(a, n)
    BY <1>2 DEF Upsert, Delete, Put
  <1>3. CASE CopyFails(a) \/ RemoveSources(a) \/ Commit(a)
    <2>1. \/ UNCHANGED <<list, shown>>
          \/ \E notes : Shows(a, notes)
      BY <1>3 DEF CopyFails, RemoveSources, Commit
    <2>2. \A notes : Shows(a, notes) => shown' = list'
      BY DEF Shows
    <2>3. QED BY <2>1, <2>2
  <1>4. CASE Repick(a) \/ BeginSwitch(a) \/ Copy(a) \/ Load(a) \/ LoadFails(a) \/ PersistFails(a)
    BY <1>4 DEF Repick, BeginSwitch, Copy, Load, LoadFails, PersistFails, store
  <1>5. QED BY <1>1, <1>2, <1>3, <1>4

(* "Nothing is lost": whatever a switch does or fails to do, each text       *)
(* nobody gave up is in some file (switch_dir, move_notes).  What the       *)
(* mishaps do instead is told in the README.                               *)
THEOREM TextsAreKept ==
  ASSUME Mishaps = {}
  PROVE  Spec => []NothingLost
  <1> DEFINE All == /\ \A a \in Apps : Agrees(a) /\ Backed(a)
                    /\ NothingLost /\ wanted \subseteq Nat \ {0} /\ shown = list
  <1>1. Init => All
    <2>1. Init => \A a \in Apps : Agrees(a) /\ Backed(a)
      BY Shapes DEF Init, Agrees, Keeps, Backed
    <2>2. QED BY <2>1 DEF Init, NothingLost
  <1>2. Locks /\ All /\ [Next]_vars => All'
    <2> SUFFICES ASSUME Locks, All, [Next]_vars PROVE All'
      OBVIOUS
    <2>1. CASE Next
      <3>1. PICK a \in Apps :
         \/ Launch(a) \/ End(a)
         \/ \E n \in Ids : Upsert(a, n) \/ Delete(a, n)
         \/ Repick(a) \/ BeginSwitch(a) \/ Copy(a) \/ CopyFails(a) \/ RemoveSources(a)
         \/ Load(a) \/ LoadFails(a) \/ Commit(a) \/ PersistFails(a)
        BY <2>1 DEF Next
      <3>2. Step(a)
        BY <3>1, NextIsStep
      <3>3. Apart(a) /\ Agrees(a)'
        BY <3>1, AgreesSteps
      <3>4. Backed(a)' /\ NothingLost' /\ wanted' \subseteq Nat \ {0}
        BY <3>1, BackedSteps
      <3>5. \A b \in Apps : Agrees(b)' /\ Backed(b)'
        BY <3>2, <3>3, <3>4, AgreesByOthers, BackedByOthers
      <3>6. shown' = list'
        BY <3>1, ShownSteps
      <3>7. QED BY <3>4, <3>5, <3>6
    <2>2. CASE UNCHANGED vars
      <3>1. UNCHANGED <<files, dir, list, shown, switch, wanted>>
        BY <2>2 DEF vars, disk, store
      <3>2. \A b \in Apps : Agrees(b)' /\ Backed(b)'
        BY <3>1 DEF Agrees, Keeps, Backed, Traced, Covered, Present
      <3>3. QED BY <3>1, <3>2 DEF NothingLost
    <2>3. QED BY <2>1, <2>2
  <1>3. All => NothingLost
    OBVIOUS
  <1> HIDE DEF All
  <1>4. QED BY <1>1, <1>2, <1>3, LocksAlways, PTL DEF Spec

-----------------------------------------------------------------------------
(* Types: a text is in a file, a list or a window only after it was typed.  *)

Filled ==
  /\ files \in [Folders -> Contents]
  /\ list \in [Apps -> Contents] /\ shown \in [Apps -> Contents]
  /\ texts \in 0 .. MaxTexts /\ wanted \subseteq 1 .. MaxTexts
ReadIn(a) == switch[a] \in Loaded => switch[a].notes \in Contents

LEMMA ShowsFilled ==
  ASSUME Filled, NEW a \in Apps, NEW notes \in Contents, Shows(a, notes)
  PROVE  list' \in [Apps -> Contents] /\ shown' \in [Apps -> Contents]
  BY DEF Filled, Shows

LEMMA LaunchFilled ==
  ASSUME Locks, Filled, NEW a \in Apps, Launch(a)
  PROVE  Filled'
  <1>1. PICK f \in Folders : /\ list' = [list EXCEPT ![a] = files[f]]
                             /\ shown' = [shown EXCEPT ![a] = files[f]]
    <2>1. PICK writable \in BOOLEAN :
            /\ list' = [list EXCEPT ![a] = files[Decide(a, writable).dir]]
            /\ shown' = [shown EXCEPT ![a] = files[Decide(a, writable).dir]]
      BY DEF Launch
    <2>2. Decide(a, writable).dir \in Folders
      BY DEF Decide, Locks, Types, Folders
    <2>3. QED BY <2>1, <2>2
  <1>2. UNCHANGED <<files, texts, wanted>>
    BY DEF Launch, disk
  <1>3. files[f] \in Contents
    BY <1>1 DEF Filled
  <1>4. list' \in [Apps -> Contents] /\ shown' \in [Apps -> Contents]
    BY <1>1, <1>3 DEF Filled
  <1>5. QED BY <1>2, <1>4 DEF Filled

LEMMA NoteFilled ==
  ASSUME Locks, Filled, NEW a \in Apps, NEW n \in Ids, Upsert(a, n) \/ Delete(a, n)
  PROVE  Filled'
  <1>1. PICK t \in 0 .. MaxTexts : /\ Put(a, n, t)
                                   /\ texts' \in 0 .. MaxTexts
                                   /\ wanted' \subseteq 1 .. MaxTexts
    <2>1. CASE Upsert(a, n)
      <3>1. texts + 1 \in 0 .. MaxTexts /\ texts + 1 \in 1 .. MaxTexts
        BY <2>1, FolderAssumption DEF Upsert, Filled
      <3>2. QED BY <2>1, <3>1 DEF Upsert, Filled
    <2>2. CASE Delete(a, n)
      <3>1. 0 \in 0 .. MaxTexts
        BY FolderAssumption
      <3>2. QED BY <2>2, <3>1 DEF Delete, Filled
    <2>3. QED BY <2>1, <2>2
  <1>2. dir[a] \in Folders
    BY DEF Locks, Types
  <1>3. \A c \in Contents : [c EXCEPT ![n] = t] \in Contents
    BY <1>1 DEF Contents
  <1>4. files' \in [Folders -> Contents]
    BY <1>1, <1>2, <1>3 DEF Put, Filled
  <1>5. list' \in [Apps -> Contents] /\ shown' \in [Apps -> Contents]
    BY <1>1, <1>3 DEF Put, Filled
  <1>6. QED BY <1>1, <1>4, <1>5 DEF Filled

(* A folder loses files, or takes a text that another one has.              *)
LEMMA CutFilled ==
  ASSUME Locks, Filled, NEW f \in Folders, NEW gone,
         files' = [files EXCEPT ![f] = [n \in Ids |-> IF n \in gone THEN 0 ELSE @[n]]]
  PROVE  files' \in [Folders -> Contents]
  <1>1. \A c \in Contents : [n \in Ids |-> IF n \in gone THEN 0 ELSE c[n]] \in Contents
    BY FolderAssumption DEF Contents
  <1>2. QED BY <1>1 DEF Filled

LEMMA CopyFilled ==
  ASSUME Locks, Filled, NEW a \in Apps, Copy(a)
  PROVE  Filled' /\ ReadIn(a)'
  <1>0. PICK s : s = switch[a]
    OBVIOUS
  <1>1. s \in Copying /\ s.from \in Folders /\ s.to \in Folders /\ s.todo \subseteq Ids
    BY <1>0, Shapes DEF Copy, Locks, Held, Copying
  <1>2. UNCHANGED <<list, shown, texts>> /\ wanted' \subseteq wanted
    BY <1>0 DEF Copy, store
  <1>3. files' \in [Folders -> Contents]
    <2>1. UNCHANGED files
          \/ \E n \in s.todo : \E m \in Landing(s, n) : files' = [files EXCEPT ![s.to][m] = files[s.from][n]]
      BY <1>0 DEF Copy
    <2>2. ASSUME NEW n \in s.todo, NEW m \in Landing(s, n),
                 files' = [files EXCEPT ![s.to][m] = files[s.from][n]]
          PROVE  files' \in [Folders -> Contents]
      <3>1. m \in Ids /\ n \in Ids
        BY <1>1, <2>2 DEF Landing, Fresh
      <3>2. files[s.from] \in Contents /\ files[s.to] \in Contents
        BY <1>1 DEF Filled
      <3>3. [files[s.to] EXCEPT ![m] = files[s.from][n]] \in Contents
        BY <3>1, <3>2 DEF Contents
      <3>4. files' = [files EXCEPT ![s.to] = [files[s.to] EXCEPT ![m] = files[s.from][n]]]
        BY <2>2
      <3>5. QED BY <1>1, <3>3, <3>4 DEF Filled
    <2>3. QED BY <2>1, <2>2 DEF Filled
  <1>4. ReadIn(a)'
    <2>1. PICK q : switch'[a] = q /\ q.pc = "copying"
      <3>1. \E n \in s.todo : \E moved, landed :
              Become(a, CopyingOn(s.from, s.to, s.policy, s.back, s.todo \ {n}, moved, landed))
        BY <1>0 DEF Copy
      <3>2. \A from, to, policy, back, todo, moved, landed :
              CopyingOn(from, to, policy, back, todo, moved, landed).pc = "copying"
        BY DEF CopyingOn
      <3>3. QED BY <3>1, <3>2, Becomes DEF Locks
    <2>2. QED BY <2>1, Shapes DEF ReadIn
  <1>5. QED BY <1>2, <1>3, <1>4 DEF Filled

LEMMA CutsFilled ==
  ASSUME Locks, Filled, NEW a \in Apps, CopyFails(a) \/ RemoveSources(a)
  PROVE  Filled' /\ ReadIn(a)'
  <1>0. PICK s : s = switch[a]
    OBVIOUS
  <1>1. s \in Copying /\ s.from \in Folders /\ s.to \in Folders /\ dir[a] \in Folders
    BY <1>0, Shapes DEF CopyFails, RemoveSources, Locks, Types, Held, Copying
  <1>2. files' \in [Folders -> Contents]
    <2>1. CASE CopyFails(a)
      <3>1. files' = [files EXCEPT ![s.to] = [n \in Ids |-> IF n \in s.landed THEN 0 ELSE @[n]]]
        BY <1>0, <2>1 DEF CopyFails
      <3>2. QED BY <1>1, <3>1, CutFilled
    <2>2. CASE RemoveSources(a)
      <3>1. PICK stays \in SUBSET switch[a].moved :
              files' = [files EXCEPT ![switch[a].from] =
                          [n \in Ids |-> IF n \in switch[a].moved \ stays THEN 0 ELSE @[n]]]
        BY <2>2, Zenon DEF RemoveSources
      <3>2. files' = [files EXCEPT ![s.from] = [n \in Ids |-> IF n \in s.moved \ stays THEN 0 ELSE @[n]]]
        BY <1>0, <3>1
      <3>3. QED BY <1>1, <3>2, CutFilled
    <2>3. QED BY <2>1, <2>2
  <1>3. list' \in [Apps -> Contents] /\ shown' \in [Apps -> Contents]
    <2>1. UNCHANGED <<list, shown>> \/ Shows(a, files'[dir[a]])
      BY DEF CopyFails, RemoveSources
    <2>2. files'[dir[a]] \in Contents
      BY <1>1, <1>2
    <2>3. QED BY <2>1, <2>2, ShowsFilled DEF Filled
  <1>4. ReadIn(a)'
    <2>1. \A to, policy, move : Loading(to, policy, move).pc = "loading"
      BY DEF Loading
    <2>2. switch'[a] = Idle \/ \E to, policy, move : switch'[a] = Loading(to, policy, move)
      <3>1. Types
        BY DEF Locks
      <3>2. Become(a, Idle) \/ Become(a, Loading(s.to, s.policy, TRUE))
        BY <1>0 DEF CopyFails, RemoveSources, GiveUp
      <3>3. CASE Become(a, Idle)
        BY <3>1, <3>3, Becomes
      <3>4. CASE Become(a, Loading(s.to, s.policy, TRUE))
        <4>1. switch'[a] = Loading(s.to, s.policy, TRUE)
          BY <3>1, <3>4, Becomes
        <4>2. QED BY <4>1
      <3>5. QED BY <3>2, <3>3, <3>4
    <2>3. switch'[a].pc # "loaded"
      BY <2>1, <2>2, Shapes
    <2>4. QED BY <2>3, Shapes DEF ReadIn
  <1>5. UNCHANGED <<texts, wanted>>
    BY DEF CopyFails, RemoveSources
  <1>6. QED BY <1>2, <1>3, <1>4, <1>5 DEF Filled

LEMMA FilledSteps ==
  ASSUME Locks, Filled, NEW a \in Apps, ReadIn(a),
         \/ Launch(a) \/ End(a)
         \/ \E n \in Ids : Upsert(a, n) \/ Delete(a, n)
         \/ Repick(a) \/ BeginSwitch(a) \/ Copy(a) \/ CopyFails(a) \/ RemoveSources(a)
         \/ Load(a) \/ LoadFails(a) \/ Commit(a) \/ PersistFails(a)
  PROVE  Filled' /\ ReadIn(a)'
  <1>0. Types /\ Held(a)
    BY DEF Locks
  <1>1. CASE Launch(a)
    <2>1. switch'[a] = Idle
      BY <1>0, <1>1, Becomes DEF Launch
    <2>2. QED BY <1>1, <2>1, LaunchFilled, Shapes DEF ReadIn
  <1>2. CASE End(a)
    <2>1. switch'[a] = Down
      BY <1>0, <1>2, Becomes DEF End
    <2>2. Empty \in Contents
      BY FolderAssumption DEF Empty, Contents
    <2>3. Filled'
      BY <1>2, <2>2 DEF End, Filled, disk
    <2>4. QED BY <2>1, <2>3, Shapes DEF ReadIn
  <1>3. CASE \E n \in Ids : Upsert(a, n) \/ Delete(a, n)
    <2>1. UNCHANGED switch
      BY <1>3 DEF Upsert, Delete, Put
    <2>2. QED BY <1>3, <2>1, NoteFilled DEF ReadIn, Loaded
  <1>4. CASE Repick(a) \/ BeginSwitch(a) \/ LoadFails(a) \/ PersistFails(a)
    <2>1. Filled'
      BY <1>4 DEF Repick, BeginSwitch, LoadFails, PersistFails, Filled, disk, store
    <2>2. /\ \A to, policy, move : Loading(to, policy, move).pc = "loading"
          /\ \A from, to, policy, back : Moving(from, to, policy, back).pc = "copying"
      BY DEF Loading, Moving, CopyingOn
    <2>3. \/ switch'[a] = switch[a] \/ switch'[a] = Idle
          \/ \E to, policy, move : switch'[a] = Loading(to, policy, move)
          \/ \E from, to, policy, back : switch'[a] = Moving(from, to, policy, back)
      <3>1. CASE Repick(a)
        BY <3>1 DEF Repick
      <3>2. CASE BeginSwitch(a)
        <4>1. PICK f, policy, move :
                Become(a, IF move THEN Moving(dir[a], f, policy, FALSE) ELSE Loading(f, policy, FALSE))
          BY <3>2 DEF BeginSwitch
        <4>2. switch'[a] = IF move THEN Moving(dir[a], f, policy, FALSE) ELSE Loading(f, policy, FALSE)
          BY <1>0, <4>1, Becomes
        <4>3. QED BY <4>2
      <3>3. CASE LoadFails(a)
        BY <1>0, <3>3, Becomes DEF LoadFails, GiveUp
      <3>4. CASE PersistFails(a)
        <4>1. PICK q : Become(a, q) /\ (\/ q = Idle
                                        \/ \E from, to, policy, back : q = Moving(from, to, policy, back))
          BY <3>4, Zenon DEF PersistFails, GiveUp
        <4>2. QED BY <1>0, <4>1, Becomes
      <3>5. QED BY <1>4, <3>1, <3>2, <3>3, <3>4
    <2>4. ReadIn(a)'
      BY <2>2, <2>3, Shapes DEF ReadIn, Loaded
    <2>5. QED BY <2>1, <2>4
  <1>5. CASE Copy(a)
    BY <1>5, CopyFilled
  <1>6. CASE CopyFails(a) \/ RemoveSources(a)
    BY <1>6, CutsFilled
  <1>7. CASE Load(a)
    <2>1. PICK s, q : s = switch[a] /\ q = [pc |-> "loaded", to |-> s.to, policy |-> s.policy,
                                            move |-> s.move, notes |-> files[s.to]]
      OBVIOUS
    <2>2. switch'[a] = q
      BY <1>0, <1>7, <2>1, Becomes DEF Load
    <2>3. s.to \in Folders
      BY <1>0, <1>7, <2>1, Shapes DEF Load, Held, Loads
    <2>4. q.notes \in Contents
      BY <2>1, <2>3 DEF Filled
    <2>5. QED BY <1>7, <2>2, <2>4 DEF Load, Filled, ReadIn, disk, store
  <1>8. CASE Commit(a)
    <2>1. PICK notes : notes = switch[a].notes
      OBVIOUS
    <2>2. notes \in Contents
      BY <1>0, <1>8, <2>1, Shapes DEF Commit, Held, ReadIn
    <2>3. Shows(a, notes) /\ UNCHANGED <<files, texts, wanted>> /\ Become(a, Idle)
      BY <1>8, <2>1 DEF Commit
    <2>4. switch'[a] = Idle
      BY <1>0, <2>3, Becomes
    <2>5. list' \in [Apps -> Contents] /\ shown' \in [Apps -> Contents]
      BY <2>2, <2>3, ShowsFilled
    <2>6. QED BY <2>3, <2>4, <2>5, Shapes DEF Filled, ReadIn
  <1>9. QED BY <1>1, <1>2, <1>3, <1>4, <1>5, <1>6, <1>7, <1>8

(* Every variable keeps its type: a switch that is under way leaves a       *)
(* folder, a list and a window with texts that were typed, or none.         *)
THEOREM TypeCorrect == Spec => []TypeOK
  <1> DEFINE All == Filled /\ \A a \in Apps : ReadIn(a)
  <1>1. Init => All
    <2>1. 0 \in 0 .. MaxTexts
      BY FolderAssumption
    <2>2. Init => Filled
      BY <2>1 DEF Init, Filled, Contents, Empty
    <2>3. Init => \A a \in Apps : ReadIn(a)
      BY Shapes DEF Init, ReadIn
    <2>4. QED BY <2>2, <2>3
  <1>2. Locks /\ All /\ [Next]_vars => All'
    <2> SUFFICES ASSUME Locks, All, [Next]_vars PROVE All'
      OBVIOUS
    <2>1. CASE Next
      <3>1. PICK a \in Apps :
         \/ Launch(a) \/ End(a)
         \/ \E n \in Ids : Upsert(a, n) \/ Delete(a, n)
         \/ Repick(a) \/ BeginSwitch(a) \/ Copy(a) \/ CopyFails(a) \/ RemoveSources(a)
         \/ Load(a) \/ LoadFails(a) \/ Commit(a) \/ PersistFails(a)
        BY <2>1 DEF Next
      <3>2. \A b \in Apps \ {a} : switch'[b] = switch[b]
        BY <3>1, NextIsStep DEF Step, Others
      <3>3. Filled' /\ ReadIn(a)'
        BY <3>1, FilledSteps
      <3>4. QED BY <3>2, <3>3 DEF ReadIn, Loaded
    <2>2. CASE UNCHANGED vars
      BY <2>2 DEF vars, disk, store, Filled, ReadIn, Loaded
    <2>3. QED BY <2>1, <2>2
  <1>3. Locks /\ All => TypeOK
    BY DEF Locks, Types, Filled, TypeOK
  <1> HIDE DEF All
  <1>4. QED BY <1>1, <1>2, <1>3, LocksAlways, PTL DEF Spec
=============================================================================
