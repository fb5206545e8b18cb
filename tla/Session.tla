------------------------------ MODULE Session ------------------------------
(***************************************************************************)
(* A large file edited in a window (windowed.rs): its piece table with the  *)
(* layers of replace-alls, its journal in byte coordinates, the ids that    *)
(* tell whether it is saved, and the commands of the pool that share it.    *)
(* Commands that need long release the lock between blocks, with the        *)
(* session marked busy; the others wait for it on a condition variable.     *)
(*                                                                         *)
(* A text is a sequence of two bytes, "r" and "n" (\r and \n), the only     *)
(* ones an edit treats apart; the separator is "\n".                        *)
(***************************************************************************)
EXTENDS Integers, Sequences, FiniteSets

CONSTANTS
  Threads,      \* Commands that may run at a time.
  Opened,       \* The text of the file that is opened.
  UndoLimit,    \* UNDO_LIMIT
  Typed,        \* What an edit may put in.
  MaxLen,       \* Bound on the length of a text, for edits.
  MaxCalls,     \* Bound on the commands that are called.
  Fails         \* The steps that may fail and are not undone then:
                \* "apply", "reload", "rebase".

Bytes == {"r", "n"}

ASSUME SessionAssumption ==
  /\ UndoLimit \in Nat \ {0} /\ MaxLen \in Nat /\ MaxCalls \in Nat
  /\ Opened \in Seq(Bytes) /\ Len(Opened) <= MaxLen
  /\ Typed \subseteq Seq(Bytes)
  /\ Fails \subseteq {"apply", "reload", "rebase"}

VARIABLES
  open,         \* The session is in the map.
  busy,         \* A pass runs.
  table,        \* The piece table: levels, the file first, a layer over the last.
  past, future, \* undo_stack and redo_stack.
  stateId, savedId, nextId,
  generation,
  sealed,       \* seal_group
  conv,         \* What it was opened from: "no" conversion file, one with a target
                \* ("inPlace") or without ("away").
  disk, known,  \* The file at its path, and what its fingerprint says of it.
  cmd,          \* What each thread does.
  calls,        \* Commands called so far.
  named         \* For the properties: the content each state id was taken for.

journal == <<past, future, stateId, savedId, nextId, sealed, named>>
files == <<conv, disk, known>>
content == <<table, generation, journal>>
vars == <<open, busy, content, files, cmd, calls>>

Gone == <<"gone">>      \* No file.
Ids == 0 .. MaxCalls + 1
Plain == {"apply", "undo", "redo", "save", "close"}
Passes == {"range", "enter", "paste", "replaceAll", "trackedUndo", "trackedRedo", "copy"}
Idle == [pc |-> "idle"]

-----------------------------------------------------------------------------
(* Texts and edits.                                                        *)

Top == table[Len(table)]
Text == Top.text
Front(s) == SubSeq(s, 1, Len(s) - 1)
Splice(x, start, end, t) == SubSeq(x, 1, start) \o t \o SubSeq(x, end + 1, Len(x))
Edit(start, end, t) == [start |-> start, end |-> end, text |-> t]
File(x) == [id |-> 0, base |-> x, text |-> x, pristine |-> TRUE]

(* Edits of one batch, ascending and apart: where each one's text ends up.  *)
Shift(batch) ==
  LET S[k \in 0 .. Len(batch)] ==
        IF k = 0 THEN 0
        ELSE S[k - 1] + Len(batch[k].text) - (batch[k].end - batch[k].start)
  IN S
Inverses(x, batch) ==
  [k \in DOMAIN batch |->
    LET at == batch[k].start + Shift(batch)[k - 1]
    IN [start |-> at, end |-> at + Len(batch[k].text),
        text |-> SubSeq(x, batch[k].start + 1, batch[k].end)]]

(* The last n edits of the batch applied, back to front.                   *)
Applied(x, batch, n) ==
  LET A[k \in 0 .. n] ==
        IF k = 0 THEN x
        ELSE LET e == batch[Len(batch) + 1 - k] IN Splice(A[k - 1], e.start, e.end, e.text)
  IN A[n]

(* The run of \r right before a rewritten one becomes \n as well.           *)
RunStart(x, end) ==
  CHOOSE s \in 0 .. end :
    /\ \A i \in s + 1 .. end : x[i] = "r"
    /\ s = 0 \/ x[s] # "r"
Cascade(x, at) ==
  LET s == RunStart(x, at)
  IN IF s = at THEN <<>> ELSE <<Edit(s, at, [i \in 1 .. at - s |-> "n"])>>

(* A replace of [start, end), which must not join a lone \r to a \n: the    *)
(* batch rewrites the \r before it.                                        *)
NeedsRewrite(x, start, end, t) ==
  LET after == t \o SubSeq(x, end + 1, Len(x))
  IN start > 0 /\ x[start] = "r" /\ after # <<>> /\ after[1] = "n"
Batch(x, p) ==
  IF NeedsRewrite(x, p.start, p.end, p.text)
  THEN <<Edit(p.start - 1, p.start, <<"n">>), p>> ELSE <<p>>

(* What a batch makes of x, and the inverse edits of all it did.            *)
Outcome(x, p) ==
  LET batch == Batch(x, p)
      y == Applied(x, batch, Len(batch))
      run == IF Len(batch) = 2 THEN Cascade(y, p.start - 1) ELSE <<>>
  IN [text |-> Applied(y, run, Len(run)),
      group |-> Inverses(x, batch) \o Inverses(y, run)]

(* What is left of x when a batch fails on the way, with nothing put back.  *)
Partial(x, p) ==
  {Applied(x, Batch(x, p), k) : k \in 1 .. Len(Batch(x, p))}
    \ {x, Outcome(x, p).text}

(* A group undone, the newest edit first, and the group that does it again. *)
Undone(x, group) ==
  LET U[k \in 0 .. Len(group)] ==
        IF k = 0 THEN [text |-> x, group |-> <<>>]
        ELSE LET u == U[k - 1]
                 e == group[Len(group) + 1 - k]
             IN [text |-> Splice(u.text, e.start, e.end, e.text),
                 group |-> u.group \o Inverses(u.text, <<e>>)]
  IN U[Len(group)]

(* The change list of a replace-all of "n" by nothing: where its hits were. *)
Hits(x) == {i \in DOMAIN x : x[i] = "n"}
Without(hits, x) ==
  LET W[k \in 0 .. Len(x)] ==
        IF k = 0 THEN <<>> ELSE IF k \in hits THEN W[k - 1] ELSE Append(W[k - 1], x[k])
  IN W[Len(x)]
With(hits, x) ==
  LET n == Len(x) + Cardinality(hits)
      W[k \in 0 .. n] ==
        IF k = 0 THEN <<>>
        ELSE IF k \in hits THEN Append(W[k - 1], "n")
        ELSE LET i == k - Cardinality({h \in hits : h < k})
             IN IF i \in DOMAIN x THEN Append(W[k - 1], x[i]) ELSE W[k - 1]
  IN W[n]

(* A layer over the table.  The id of a forward one is fresh, as is that of *)
(* the generation it makes; the inverse ones need none.                    *)
Stacked(id, x) == Append(table, [id |-> id, base |-> x, text |-> x, pristine |-> TRUE])

(* An edited level is one piece of its original again only if the text is   *)
(* that of the original, and need not be even then.                        *)
Edited(x) ==
  \E p \in {FALSE, x = Top.base} :
    table' = [table EXCEPT ![Len(table)] = [Top EXCEPT !.text = x, !.pristine = p]]

-----------------------------------------------------------------------------
(* What commands do to the session, each under one lock.                   *)

(* The steps are told apart by group: a replace-all has hits instead.       *)
EditStep(group, before, after) ==
  [kind |-> "edits", group |-> group, hits |-> {}, layer |-> 0, before |-> before, after |-> after]
ReplaceStep(hits, layer, before, after) ==
  [kind |-> "replace", group |-> <<>>, hits |-> hits, layer |-> layer, before |-> before, after |-> after]

(* Wrong: one step too many is kept.                                        *)
PushUndo_Late(step) ==
  LET pushed == Append(past, step)
  IN past' = IF Len(pushed) > UndoLimit + 1 THEN Tail(pushed) ELSE pushed

PushUndo(step) ==
  LET pushed == Append(past, step)
  IN past' = IF Len(pushed) > UndoLimit THEN Tail(pushed) ELSE pushed

(* Wrong: the id is the depth of the journal, not one never used before.    *)
TakeStateId_Depth(x) ==
  /\ stateId' = stateId + 1
  /\ nextId' = stateId + 2
  /\ named' = [named EXCEPT ![stateId + 1] = x]

TakeStateId(x) ==
  /\ stateId' = nextId
  /\ nextId' = nextId + 1
  /\ named' = [named EXCEPT ![nextId] = x]

(* Wrong: a save does not seal the group.                                   *)
Coalesces_Unsealed(newGroup) ==
  /\ ~newGroup
  /\ past # <<>> /\ past[Len(past)].kind = "edits"
  /\ future = <<>>

(* Whether a group joins the last one.                                     *)
Coalesces(newGroup) ==
  /\ ~newGroup /\ ~sealed
  /\ past # <<>> /\ past[Len(past)].kind = "edits"
  /\ future = <<>>

RecordGroup(group, newGroup) ==
  /\ generation' = generation + 1
  /\ IF Coalesces(newGroup)
     THEN LET last == past[Len(past)]
          IN past' = [past EXCEPT ![Len(past)] =
                        [last EXCEPT !.group = last.group \o group, !.after = nextId]]
     ELSE PushUndo(EditStep(group, stateId, nextId))
  /\ future' = <<>>
  /\ sealed' = FALSE
  /\ UNCHANGED savedId

Apply(p, newGroup) ==
  LET made == Outcome(Text, p)
  IN /\ Edited(made.text)
     /\ TakeStateId(made.text)
     /\ RecordGroup(made.group, newGroup)

(* A batch that fails half way leaves the table changed and nothing else.   *)
ApplyFails(p) ==
  /\ "apply" \in Fails
  /\ \E x \in Partial(Text, p) : Edited(x)
  /\ UNCHANGED <<generation, journal>>

InstallReplace(hits) ==
  LET x == Without(hits, Text)
  IN /\ table' = Stacked(generation + 1, x)
     /\ generation' = generation + 1
     /\ TakeStateId(x)
     /\ PushUndo(ReplaceStep(hits, generation + 1, stateId, nextId))
     /\ future' = <<>>
     /\ sealed' = FALSE
     /\ UNCHANGED savedId

(* The layer of a replace-all is taken off if it is on top and untouched,   *)
(* else the inverse layer is put over what is there.                       *)
TakeBackReplace(step) ==
  table' = IF step.layer # 0 /\ Top.id = step.layer /\ Top.pristine
           THEN Front(table) ELSE Stacked(0, With(step.hits, Text))

(* One step back.  The first hit of a replace-all is looked up after it was *)
(* taken back and before it is put on the other stack.                     *)
Undo ==
  /\ past # <<>>
  /\ LET step == past[Len(past)]
         undone == Undone(Text, step.group)
     IN /\ IF step.kind = "edits" THEN Edited(undone.text) ELSE TakeBackReplace(step)
        /\ \/ future' = Append(future, [step EXCEPT !.group = undone.group, !.layer = 0])
           \/ "reload" \in Fails /\ step.kind = "replace" /\ UNCHANGED future
        /\ stateId' = step.before
  /\ past' = Front(past)
  /\ generation' = generation + 1
  /\ UNCHANGED <<savedId, nextId, sealed, named>>

Redo ==
  /\ future # <<>>
  /\ LET step == future[Len(future)]
         undone == Undone(Text, step.group)
     IN /\ IF step.kind = "edits" THEN Edited(undone.text)
           ELSE table' = Stacked(generation + 1, Without(step.hits, Text))
        /\ \/ past' = Append(past, [step EXCEPT !.group = undone.group,
                                                !.layer = IF step.kind = "edits" THEN 0 ELSE generation + 1])
           \/ "reload" \in Fails /\ step.kind = "replace" /\ UNCHANGED past
        /\ stateId' = step.after
  /\ future' = Front(future)
  /\ generation' = generation + 1
  /\ UNCHANGED <<savedId, nextId, sealed, named>>

(* The file is replaced and the session rebased on it, or on a fresh        *)
(* conversion file if it is written in an encoding that cannot be read      *)
(* back.  With another path only that file is written until it is rebased.  *)
Save(checked, elsewhere) ==
  /\ elsewhere \/ conv # "away"
  /\ ~checked \/ elsewhere \/ (disk # Gone /\ disk = known)
  /\ \/ /\ table' = <<File(Text)>>
        /\ conv' \in IF conv = "no" THEN {"no"} ELSE {"no", "inPlace"}
        /\ disk' = Text /\ known' = Text
        /\ generation' = generation + 1
        /\ savedId' = stateId
        /\ sealed' = TRUE
        /\ UNCHANGED <<past, future, stateId, nextId, named>>
     \/ /\ "rebase" \in Fails
        /\ disk' = IF elsewhere THEN disk ELSE Text
        /\ UNCHANGED <<conv, known, content>>

-----------------------------------------------------------------------------
(* The plans of a pass: what it is going to replace and by what.            *)

Spans == {s \in (0 .. Len(Text)) \X (0 .. Len(Text)) : s[1] <= s[2]}
Fitting(plans) == {p \in plans : Len(Outcome(Text, p).text) <= MaxLen}
RangePlans ==
  Fitting({Edit(s[1], s[2], t) : s \in Spans, t \in Typed} \ {Edit(i, i, <<>>) : i \in 0 .. Len(Text)})
EnterPlans == Fitting({Edit(s[1], s[2], <<"n">>) : s \in Spans})

(* Line-wise at the start of a line, else anywhere; an empty source changes *)
(* nothing.                                                                *)
PastePlans == Fitting({Edit(s[1], s[2], t) : s \in Spans, t \in Typed \ {<<>>}})

-----------------------------------------------------------------------------
(* Commands.                                                               *)

Init ==
  /\ open = TRUE /\ busy = FALSE
  /\ table = <<File(Opened)>>
  /\ past = <<>> /\ future = <<>>
  /\ savedId = 0 /\ generation = 0 /\ sealed = FALSE
  /\ named = [i \in Ids |-> Opened]
  /\ \/ conv \in {"no", "inPlace"} /\ stateId = 0 /\ nextId = 1 /\ disk = Opened
     \/ conv = "inPlace" /\ stateId = 1 /\ nextId = 2 /\ disk \in {Gone, <<>>}
     \/ conv = "away" /\ stateId = 1 /\ nextId = 2 /\ disk = Opened
  /\ known = disk
  /\ cmd = [p \in Threads |-> Idle]
  /\ calls = 0

Become(p, what) == cmd' = [cmd EXCEPT ![p] = what]

(* The command c with the lock, the session idle.  One that fails with      *)
(* nothing changed is the last case.                                       *)
RunPlain(p, c) ==
  /\ Become(p, Idle)
  /\ UNCHANGED busy
  /\ \/ c = "apply" /\ \E e \in RangePlans, g \in BOOLEAN : Apply(e, g) /\ UNCHANGED <<open, files>>
     \/ c = "apply" /\ \E e \in RangePlans : ApplyFails(e) /\ UNCHANGED <<open, files>>
     \/ c = "undo" /\ Undo /\ UNCHANGED <<open, files>>
     \/ c = "redo" /\ Redo /\ UNCHANGED <<open, files>>
     \/ c = "save" /\ \E k, e \in BOOLEAN : Save(k, e) /\ UNCHANGED open
     \/ c = "close" /\ open' = FALSE /\ UNCHANGED <<content, files>>
     \/ c # "close" /\ UNCHANGED <<open, content, files>>

BeginPass(p, c) ==
  /\ busy' = TRUE
  /\ Become(p, [pc |-> "reading", call |-> c, gen |-> generation])
  /\ UNCHANGED <<open, content, files>>

BeginScan(p, tries) ==
  /\ Become(p, [pc |-> "scanning", tries |-> tries, gen |-> generation, blocks |-> <<>>])
  /\ UNCHANGED <<open, busy, content, files>>

(* Wrong: the mark of a pass is not looked at.                              *)
LockIdle_NotBusy(p, c) ==
  IF ~open THEN Become(p, Idle) /\ UNCHANGED <<open, busy, content, files>>
  ELSE \/ c \in Plain /\ RunPlain(p, c)
       \/ c \in Passes /\ BeginPass(p, c)
       \/ c = "find" /\ BeginScan(p, 2)
       \/ c = "search" /\ BeginScan(p, 1)

(* lock_idle: with the lock, once the session is not busy.                 *)
LockIdle(p, c) ==
  IF ~open THEN Become(p, Idle) /\ UNCHANGED <<open, busy, content, files>>
  ELSE IF busy THEN Become(p, [pc |-> "asleep", call |-> c]) /\ UNCHANGED <<open, busy, content, files>>
  ELSE \/ c \in Plain /\ RunPlain(p, c)
       \/ c \in Passes /\ BeginPass(p, c)
       \/ c = "find" /\ BeginScan(p, 2)
       \/ c = "search" /\ BeginScan(p, 1)

Call(p) ==
  /\ calls < MaxCalls
  /\ cmd[p].pc = "idle" /\ open
  /\ calls' = calls + 1
  /\ \E c \in Plain \union Passes \union {"find", "search"} : LockIdle(p, c)

Wake(p) ==
  /\ cmd[p].pc = "awake"
  /\ LockIdle(p, cmd[p].call)
  /\ UNCHANGED calls

(* Phase one: the pass reads block by block with the lock released, and     *)
(* makes its plan of what it read.                                         *)
Edits(plans) == {[kind |-> "edit", edit |-> e, newGroup |-> g] : e \in plans, g \in BOOLEAN}
Nothing == {[kind |-> "none"]}
Planned(c) ==
  CASE c = "range" -> Edits(RangePlans) \union Nothing
    [] c = "enter" -> Edits(EnterPlans)
    [] c = "paste" -> Edits(PastePlans) \union Nothing
    [] c = "replaceAll" -> IF Hits(Text) = {} THEN Nothing
                           ELSE {[kind |-> "replaceAll", hits |-> Hits(Text)]}
    [] c = "copy" -> Nothing
    [] OTHER -> {[kind |-> c]}

Read(p) ==
  /\ cmd[p].pc = "reading" /\ cmd[p].gen = generation
  /\ \E plan \in Planned(cmd[p].call) :
       Become(p, [pc |-> "planned", plan |-> plan, gen |-> cmd[p].gen])
  /\ UNCHANGED <<open, busy, content, files, calls>>

(* Phase two, under a short lock and only if the content is still the same. *)
Install(p) ==
  /\ cmd[p].pc = "planned" /\ cmd[p].gen = generation
  /\ LET plan == cmd[p].plan
     IN \/ plan.kind = "none" /\ UNCHANGED content
        \/ plan.kind = "edit" /\ (Apply(plan.edit, plan.newGroup) \/ ApplyFails(plan.edit))
        \/ plan.kind = "replaceAll" /\ InstallReplace(plan.hits)
        \/ plan.kind = "trackedUndo" /\ Undo
        \/ plan.kind = "trackedRedo" /\ Redo
  /\ Become(p, [pc |-> "installed", gen |-> generation'])
  /\ UNCHANGED <<open, busy, files, calls>>

(* Wrong: the mark is cleared and nobody is woken.                          *)
Finish_Silent(p) ==
  /\ cmd[p].pc \in {"reading", "planned", "installed"}
  /\ busy' = FALSE
  /\ Become(p, Idle)
  /\ UNCHANGED <<open, content, files, calls>>

(* However a pass ends, the guard clears the mark and wakes who waits: after *)
(* the places in the result were found, or with an error before.           *)
Finish(p) ==
  /\ cmd[p].pc \in {"reading", "planned", "installed"}
  /\ busy' = FALSE
  /\ cmd' = [q \in Threads |->
               IF q = p THEN Idle
               ELSE IF cmd[q].pc = "asleep" THEN [cmd[q] EXCEPT !.pc = "awake"] ELSE cmd[q]]
  /\ UNCHANGED <<open, content, files, calls>>

(* A scan reads a block, and gives up when the content has changed since it *)
(* began; a find begins once more then.                                    *)
Blocks == 2
(* Wrong: the generation is checked once, at the beginning.                 *)
ScanBlock_AnyText(p) ==
  /\ cmd[p].pc = "scanning" /\ Len(cmd[p].blocks) < Blocks
  /\ open
  /\ Become(p, [cmd[p] EXCEPT !.blocks = Append(@, Text)])
  /\ UNCHANGED <<open, busy, content, files, calls>>

ScanBlock(p) ==
  /\ cmd[p].pc = "scanning" /\ Len(cmd[p].blocks) < Blocks
  /\ open /\ cmd[p].gen = generation
  /\ Become(p, [cmd[p] EXCEPT !.blocks = Append(@, Text)])
  /\ UNCHANGED <<open, busy, content, files, calls>>

ScanStale(p) ==
  /\ cmd[p].pc = "scanning" /\ cmd[p].gen # generation
  /\ IF cmd[p].tries = 2 THEN Become(p, [pc |-> "awake", call |-> "search"]) ELSE Become(p, Idle)
  /\ UNCHANGED <<open, busy, content, files, calls>>

(* Done, cancelled, or the session is gone.                                *)
ScanEnds(p) ==
  /\ cmd[p].pc = "scanning"
  /\ Become(p, Idle)
  /\ UNCHANGED <<open, busy, content, files, calls>>

Next ==
  \E p \in Threads :
    \/ Call(p) \/ Wake(p)
    \/ Read(p) \/ Install(p) \/ Finish(p)
    \/ ScanBlock(p) \/ ScanStale(p) \/ ScanEnds(p)

Spec == Init /\ [][Next]_vars

-----------------------------------------------------------------------------
Reads(p) == cmd[p].pc \in {"reading", "planned", "installed"}

(* The types of what tells states apart.                                   *)
Steps == {"edits", "replace"}
TypeOK ==
  /\ open \in BOOLEAN /\ busy \in BOOLEAN /\ sealed \in BOOLEAN
  /\ stateId \in Ids /\ savedId \in Ids /\ nextId \in Ids \union {MaxCalls + 2}
  /\ generation \in Nat /\ calls \in 0 .. MaxCalls
  /\ conv \in {"no", "inPlace", "away"}
  /\ \A p \in Threads :
       cmd[p].pc \in {"idle", "asleep", "awake", "reading", "planned", "installed", "scanning"}
  /\ Len(past) <= UndoLimit

(* "An id names one content for good" (state_id): whatever was undone,      *)
(* redone, saved or dropped, the content is the one its id was taken for.   *)
IdNamesContent == named[stateId] = Text

(* A session that says it is clean holds what is on disk: the tab is closed *)
(* without a question then.                                                *)
CleanIsSaved == stateId = savedId => Text = disk

(* What a pass reads while the lock is free cannot change under it: every   *)
(* command that changes the session waits for the pass, whatever it was     *)
(* doing before.                                                           *)
PassUndisturbed ==
  \A p \in Threads : Reads(p) => open /\ busy /\ cmd[p].gen = generation

(* The blocks a scan has read are of one content, edits between them or not. *)
ScanReadsOneText ==
  \A p \in Threads : cmd[p].pc = "scanning" =>
    \A i, j \in DOMAIN cmd[p].blocks : cmd[p].blocks[i] = cmd[p].blocks[j]

(* The session is a line of contents with a mark.  Undo and redo lead to    *)
(* the very texts that were there, through layers, groups and saves; no     *)
(* edit joins a step that was saved.                                       *)
Texts == {Gone} \union UNION {[1 .. n -> Bytes] : n \in 0 .. MaxLen}
Entry(id) == [text |-> named[id], saved |-> id = savedId]
Line ==
  INSTANCE History WITH
    Limit <- UndoLimit,
    back <- [i \in DOMAIN past |-> Entry(past[i].before)],
    now <- [text |-> Text, saved |-> stateId = savedId],
    ahead <- [i \in DOMAIN future |-> Entry(future[i].after)]
HistorySpec == Line!Spec

(* A command sleeps only while a pass runs, whose end will wake it: none    *)
(* goes to sleep just after the last notify_all.                           *)
SleepersAreWoken ==
  \A p \in Threads : cmd[p].pc = "asleep" => busy /\ \E q \in Threads : Reads(q)
=============================================================================
