--------------------------- MODULE SessionProofs ---------------------------
(* Proofs about Session: how a pass and the other commands share the lock,  *)
(* for any commands at a time, any texts and any failures; and, from what   *)
(* an edit does to a text up to what a step does to the whole journal, that *)
(* undo and redo lead to the texts that were there.                        *)
EXTENDS Session, FiniteSetTheorems, SequenceTheorems, WellFoundedInduction, TLAPS

(* The mark is set by one pass at a time, which holds it until it ends.     *)
PassInv ==
  /\ DOMAIN cmd = Threads
  /\ PassUndisturbed
  /\ \A p, q \in Threads : Reads(p) /\ Reads(q) => p = q
  /\ busy => \E p \in Threads : Reads(p)
  /\ \A p \in Threads : cmd[p].pc = "asleep" => busy

(* A command that becomes something else.                                   *)
LEMMA BecomeIs ==
  ASSUME DOMAIN cmd = Threads, NEW p \in Threads, NEW what, Become(p, what)
  PROVE  /\ DOMAIN cmd' = Threads
         /\ cmd'[p] = what
         /\ \A q \in Threads : q # p => cmd'[q] = cmd[q]
  BY DEF Become

(* One that does not read, and becomes one that does not.                   *)
LEMMA Elsewhere ==
  ASSUME PassInv, NEW p \in Threads, NEW what, Become(p, what),
         ~Reads(p), what.pc \in {"idle", "awake", "scanning"},
         UNCHANGED <<open, busy, generation>>
  PROVE  PassInv'
  <1>1. /\ DOMAIN cmd' = Threads /\ cmd'[p] = what
        /\ \A q \in Threads : q # p => cmd'[q] = cmd[q]
    BY BecomeIs DEF PassInv
  <1>2. \A q \in Threads : Reads(q)' <=> Reads(q)
    BY <1>1 DEF Reads
  <1>3. \A q \in Threads : Reads(q) => q # p
    OBVIOUS
  <1>4. PassUndisturbed'
    BY <1>1, <1>2, <1>3 DEF PassInv, PassUndisturbed
  <1>5. QED BY <1>1, <1>2, <1>4 DEF PassInv

(* The lock is taken only while no pass runs, but by a pass.                *)
LEMMA LockIdleKeeps ==
  ASSUME PassInv, NEW p \in Threads, NEW c, ~Reads(p), LockIdle(p, c)
  PROVE  PassInv'
  <1>1. CASE ~open
    <2>1. Become(p, Idle) /\ UNCHANGED <<open, busy, generation>>
      BY <1>1 DEF LockIdle, content
    <2>2. QED BY <2>1, Elsewhere DEF Idle
  <1>2. CASE open /\ busy
    <2>1. Become(p, [pc |-> "asleep", call |-> c]) /\ UNCHANGED <<open, busy, generation>>
      BY <1>2 DEF LockIdle, content
    <2>2. /\ DOMAIN cmd' = Threads /\ cmd'[p].pc = "asleep"
          /\ \A q \in Threads : q # p => cmd'[q] = cmd[q]
      BY <2>1, BecomeIs DEF PassInv
    <2>3. \A q \in Threads : Reads(q)' <=> Reads(q)
      BY <2>2 DEF Reads
    <2>4. \A q \in Threads : Reads(q) => q # p
      OBVIOUS
    <2>5. PassUndisturbed'
      BY <2>1, <2>2, <2>3, <2>4 DEF PassInv, PassUndisturbed
    <2>6. QED BY <1>2, <2>1, <2>2, <2>3, <2>5 DEF PassInv
  <1>3. CASE open /\ ~busy
    <2>1. \A q \in Threads : ~Reads(q) /\ cmd[q].pc # "asleep"
      BY <1>3 DEF PassInv, PassUndisturbed
    <2>2. CASE RunPlain(p, c)
      <3>1. Become(p, Idle) /\ ~busy'
        BY <2>2, <1>3 DEF RunPlain
      <3>2. /\ DOMAIN cmd' = Threads /\ cmd'[p] = Idle
            /\ \A q \in Threads : q # p => cmd'[q] = cmd[q]
        BY <3>1, BecomeIs DEF PassInv
      <3>3. \A q \in Threads : ~Reads(q)' /\ cmd'[q].pc # "asleep"
        BY <2>1, <3>2 DEF Reads, Idle
      <3>4. QED BY <3>1, <3>2, <3>3 DEF PassInv, PassUndisturbed
    <2>3. CASE BeginPass(p, c)
      <3>1. Become(p, [pc |-> "reading", call |-> c, gen |-> generation])
            /\ busy' /\ open' /\ generation' = generation
        BY <2>3, <1>3 DEF BeginPass, content
      <3>2. /\ DOMAIN cmd' = Threads /\ cmd'[p] = [pc |-> "reading", call |-> c, gen |-> generation]
            /\ \A q \in Threads : q # p => cmd'[q] = cmd[q]
        BY <3>1, BecomeIs DEF PassInv
      <3>3. /\ Reads(p)' /\ cmd'[p].gen = generation'
            /\ \A q \in Threads : q # p => ~Reads(q)'
        BY <2>1, <3>1, <3>2 DEF Reads
      <3>4. QED BY <3>1, <3>2, <3>3 DEF PassInv, PassUndisturbed
    <2>4. CASE \E tries \in {1, 2} : BeginScan(p, tries)
      <3>1. PICK tries \in {1, 2} : BeginScan(p, tries)
        BY <2>4
      <3>2. Become(p, [pc |-> "scanning", tries |-> tries, gen |-> generation, blocks |-> <<>>])
            /\ UNCHANGED <<open, busy, generation>>
        BY <3>1 DEF BeginScan, content
      <3>3. QED BY <3>2, Elsewhere
    <2>5. QED BY <1>3, <2>2, <2>3, <2>4 DEF LockIdle
  <1>4. QED BY <1>1, <1>2, <1>3

(* The pass itself, which alone reads.                                      *)
LEMMA PassKeeps ==
  ASSUME PassInv, NEW p \in Threads, Reads(p), NEW what, Become(p, what),
         what.pc \in {"reading", "planned", "installed"}, what.gen = generation',
         UNCHANGED <<open, busy>>
  PROVE  PassInv'
  <1>1. /\ DOMAIN cmd' = Threads /\ cmd'[p] = what
        /\ \A q \in Threads : q # p => cmd'[q] = cmd[q]
    BY BecomeIs DEF PassInv
  <1>2. Reads(p)' /\ \A q \in Threads : q # p => ~Reads(q)'
    BY <1>1 DEF Reads, PassInv
  <1>3. PassUndisturbed'
    BY <1>1, <1>2 DEF PassInv, PassUndisturbed
  <1>4. \A q \in Threads : cmd'[q].pc = "asleep" => busy'
    BY <1>1, <1>2 DEF PassInv, PassUndisturbed
  <1>5. QED BY <1>1, <1>2, <1>3, <1>4 DEF PassInv

LEMMA FinishKeeps ==
  ASSUME PassInv, NEW p \in Threads, Finish(p)
  PROVE  PassInv'
  <1>1. Reads(p) /\ ~busy' /\ DOMAIN cmd' = Threads
    BY DEF Finish, Reads
  <1>2. \A q \in Threads : q # p => ~Reads(q)
    BY <1>1 DEF PassInv
  <1>3. ASSUME NEW q \in Threads
        PROVE  ~Reads(q)' /\ cmd'[q].pc # "asleep"
    <2>1. CASE q = p
      BY <2>1 DEF Finish, Reads, Idle
    <2>2. CASE q # p /\ cmd[q].pc = "asleep"
      <3>1. cmd'[q] = [cmd[q] EXCEPT !.pc = "awake"]
        BY <2>2 DEF Finish
      <3>2. cmd'[q].pc = "awake" \/ "pc" \notin DOMAIN cmd[q]
        BY <3>1
      <3>3. QED BY <2>2, <3>1, <3>2 DEF Reads
    <2>3. CASE q # p /\ cmd[q].pc # "asleep"
      <3>1. cmd'[q] = cmd[q]
        BY <2>3 DEF Finish
      <3>2. QED BY <3>1, <2>3, <1>2 DEF Reads
    <2>4. QED BY <2>1, <2>2, <2>3
  <1>4. QED BY <1>1, <1>3 DEF PassInv, PassUndisturbed

LEMMA PassInvHolds == Spec => []PassInv
  <1>1. Init => PassInv
    BY DEF Init, PassInv, PassUndisturbed, Reads, Idle
  <1>2. PassInv /\ [Next]_vars => PassInv'
    <2> SUFFICES ASSUME PassInv, [Next]_vars PROVE PassInv'
      OBVIOUS
    <2>1. ASSUME NEW p \in Threads, Call(p) PROVE PassInv'
      BY <2>1, LockIdleKeeps DEF Call, Reads
    <2>2. ASSUME NEW p \in Threads, Wake(p) PROVE PassInv'
      BY <2>2, LockIdleKeeps DEF Wake, Reads
    <2>3. ASSUME NEW p \in Threads, Read(p) PROVE PassInv'
      <3>1. PICK plan \in Planned(cmd[p].call) :
              Become(p, [pc |-> "planned", plan |-> plan, gen |-> cmd[p].gen])
        BY <2>3 DEF Read
      <3>2. Reads(p) /\ cmd[p].gen = generation' /\ UNCHANGED <<open, busy>>
        BY <2>3 DEF Read, Reads, content
      <3>3. QED BY <3>1, <3>2, PassKeeps
    <2>4. ASSUME NEW p \in Threads, Install(p) PROVE PassInv'
      <3>1. Become(p, [pc |-> "installed", gen |-> generation'])
            /\ Reads(p) /\ UNCHANGED <<open, busy>>
        BY <2>4 DEF Install, Reads
      <3>2. QED BY <3>1, PassKeeps
    <2>5. ASSUME NEW p \in Threads, Finish(p) PROVE PassInv'
      BY <2>5, FinishKeeps
    <2>6. ASSUME NEW p \in Threads, ScanBlock(p) PROVE PassInv'
      <3>1. PICK what : Become(p, what) /\ what = [cmd[p] EXCEPT !.blocks = Append(@, Text)]
        BY <2>6 DEF ScanBlock
      <3>2. what.pc = cmd[p].pc
        BY <3>1
      <3>3. ~Reads(p) /\ what.pc = "scanning" /\ UNCHANGED <<open, busy, generation>>
        BY <2>6, <3>2 DEF ScanBlock, Reads, content
      <3>4. QED BY <3>1, <3>3, Elsewhere
    <2>7. ASSUME NEW p \in Threads, ScanStale(p) PROVE PassInv'
      <3>1. PICK what \in {Idle, [pc |-> "awake", call |-> "search"]} : Become(p, what)
        BY <2>7 DEF ScanStale
      <3>2. ~Reads(p) /\ UNCHANGED <<open, busy, generation>>
        BY <2>7 DEF ScanStale, Reads, content
      <3>3. QED BY <3>1, <3>2, Elsewhere DEF Idle
    <2>8. ASSUME NEW p \in Threads, ScanEnds(p) PROVE PassInv'
      BY <2>8, Elsewhere DEF ScanEnds, Reads, Idle, content
    <2>9. CASE UNCHANGED vars
      BY <2>9 DEF vars, content, PassInv, PassUndisturbed, Reads
    <2>10. QED BY <2>1, <2>2, <2>3, <2>4, <2>5, <2>6, <2>7, <2>8, <2>9 DEF Next
  <1>3. QED BY <1>1, <1>2, PTL DEF Spec

(* What a pass reads while the lock is free does not change under it, and   *)
(* the session is not closed, with any number of commands about.            *)
THEOREM PassesUndisturbed == Spec => []PassUndisturbed
  <1>1. PassInv => PassUndisturbed
    BY DEF PassInv
  <1>2. Spec => []PassInv
    BY PassInvHolds
  <1>3. QED BY <1>1, <1>2, PTL

(* No command sleeps with nobody left to wake it.                           *)
THEOREM NoLostWakeup == Spec => []SleepersAreWoken
  <1>1. PassInv => SleepersAreWoken
    BY DEF PassInv, SleepersAreWoken
  <1>2. Spec => []PassInv
    BY PassInvHolds
  <1>3. QED BY <1>1, <1>2, PTL

-----------------------------------------------------------------------------
(* The blocks of a scan are of the content its generation stands for.       *)
OfOneText(p) ==
  /\ {"gen", "blocks"} \subseteq DOMAIN cmd[p]
  /\ cmd[p].gen \in Nat /\ cmd[p].gen <= generation
  /\ \E x : cmd[p].blocks \in Seq({x}) /\ (cmd[p].gen = generation => x = Text)

ScanInv ==
  /\ DOMAIN cmd = Threads /\ generation \in Nat
  /\ \A p \in Threads : cmd[p].pc = "scanning" => OfOneText(p)

(* The content changes with the generation, where no batch fails half way.  *)
Counted ==
  \/ generation' = generation + 1
  \/ generation' = generation /\ table' = table

LEMMA ContentIsCounted ==
  ASSUME "apply" \notin Fails, Next
  PROVE  Counted
  <1>1. ASSUME NEW e, NEW g, Apply(e, g) PROVE Counted
    BY <1>1 DEF Apply, RecordGroup, Counted
  <1>2. ASSUME NEW e PROVE ~ApplyFails(e)
    BY DEF ApplyFails
  <1>3. Undo => Counted
    BY DEF Undo, Counted
  <1>4. Redo => Counted
    BY DEF Redo, Counted
  <1>5. ASSUME NEW k, NEW e, Save(k, e) PROVE Counted
    BY <1>5 DEF Save, Counted, content
  <1>6. ASSUME NEW h, InstallReplace(h) PROVE Counted
    BY <1>6 DEF InstallReplace, Counted
  <1>7. ASSUME NEW p, NEW c, LockIdle(p, c) PROVE Counted
    <2>1. UNCHANGED content => Counted
      BY DEF content, Counted
    <2>2. RunPlain(p, c) => Counted
      BY <1>1, <1>2, <1>3, <1>4, <1>5, <2>1 DEF RunPlain
    <2>3. BeginPass(p, c) => Counted
      BY <2>1 DEF BeginPass
    <2>4. ASSUME NEW n, BeginScan(p, n) PROVE Counted
      BY <2>1, <2>4 DEF BeginScan
    <2>5. QED BY <1>7, <2>1, <2>2, <2>3, <2>4 DEF LockIdle
  <1>8. UNCHANGED content => Counted
    BY DEF content, Counted
  <1>9. ASSUME NEW p, Install(p) PROVE Counted
    BY <1>9, <1>1, <1>2, <1>3, <1>4, <1>6, <1>8 DEF Install
  <1>10. PICK p \in Threads :
           \/ Call(p) \/ Wake(p) \/ Read(p) \/ Install(p) \/ Finish(p)
           \/ ScanBlock(p) \/ ScanStale(p) \/ ScanEnds(p)
    BY DEF Next
  <1>11. CASE Call(p) \/ Wake(p)
    BY <1>11, <1>7 DEF Call, Wake
  <1>12. CASE Read(p) \/ Finish(p) \/ ScanBlock(p) \/ ScanStale(p) \/ ScanEnds(p)
    BY <1>12, <1>8 DEF Read, Finish, ScanBlock, ScanStale, ScanEnds
  <1>13. QED BY <1>9, <1>10, <1>11, <1>12

(* A scan that is let alone stays true when the content is counted.         *)
LEMMA ScanLetAlone ==
  ASSUME ScanInv, Counted, NEW p \in Threads, cmd'[p] = cmd[p], cmd[p].pc = "scanning"
  PROVE  OfOneText(p)'
  <1>1. /\ cmd[p].gen \in Nat /\ cmd[p].gen <= generation /\ generation \in Nat
        /\ {"gen", "blocks"} \subseteq DOMAIN cmd'[p]
    BY DEF ScanInv, OfOneText
  <1>2. PICK x : cmd[p].blocks \in Seq({x}) /\ (cmd[p].gen = generation => x = Text)
    BY DEF ScanInv, OfOneText
  <1>3. CASE generation' = generation + 1
    <2>1. cmd[p].gen # generation'
      BY <1>1, <1>3
    <2>2. cmd[p].gen <= generation'
      BY <1>1, <1>3
    <2>3. QED BY <1>1, <1>2, <2>1, <2>2 DEF OfOneText
  <1>4. CASE generation' = generation /\ table' = table
    <2>1. Text' = Text
      BY <1>4 DEF Text, Top
    <2>2. QED BY <1>1, <1>2, <1>4, <2>1 DEF OfOneText
  <1>5. QED BY <1>3, <1>4 DEF Counted

LEMMA ScanElsewhere ==
  ASSUME ScanInv, Counted, DOMAIN cmd' = Threads,
         \A q \in Threads : cmd'[q] = cmd[q] \/ cmd'[q].pc # "scanning"
  PROVE  ScanInv'
  <1>1. generation' \in Nat
    BY DEF ScanInv, Counted
  <1>2. ASSUME NEW p \in Threads, cmd'[p].pc = "scanning"
        PROVE  OfOneText(p)'
    <2>1. cmd'[p] = cmd[p] /\ cmd[p].pc = "scanning"
      BY <1>2
    <2>2. QED BY <2>1, ScanLetAlone
  <1>3. QED BY <1>1, <1>2 DEF ScanInv

LEMMA ScanBegins ==
  ASSUME ScanInv, NEW p \in Threads, NEW n, BeginScan(p, n)
  PROVE  ScanInv'
  <1>1. /\ DOMAIN cmd' = Threads
        /\ cmd'[p] = [pc |-> "scanning", tries |-> n, gen |-> generation, blocks |-> <<>>]
        /\ \A q \in Threads : q # p => cmd'[q] = cmd[q]
        /\ generation' = generation /\ table' = table
    BY BecomeIs DEF BeginScan, ScanInv, content
  <1>2. Text' = Text
    BY <1>1 DEF Text, Top
  <1>3. <<>> \in Seq({Text})
    OBVIOUS
  <1>4. ASSUME NEW q \in Threads, cmd'[q].pc = "scanning"
        PROVE  OfOneText(q)'
    <2>1. CASE q = p
      <3>1. /\ cmd'[q].gen = generation /\ cmd'[q].blocks = <<>>
            /\ {"gen", "blocks"} \subseteq DOMAIN cmd'[q]
        BY <1>1, <2>1
      <3>2. QED BY <1>1, <1>2, <1>3, <3>1 DEF ScanInv, OfOneText
    <2>2. CASE q # p
      <3>1. cmd'[q] = cmd[q] /\ Counted
        BY <1>1, <2>2 DEF Counted
      <3>2. QED BY <3>1, <1>4, ScanLetAlone
    <2>3. QED BY <2>1, <2>2
  <1>5. QED BY <1>1, <1>4 DEF ScanInv

LEMMA ScanGoesOn ==
  ASSUME ScanInv, NEW p \in Threads, ScanBlock(p)
  PROVE  ScanInv'
  <1>1. /\ DOMAIN cmd' = Threads
        /\ cmd'[p] = [cmd[p] EXCEPT !.blocks = Append(@, Text)]
        /\ \A q \in Threads : q # p => cmd'[q] = cmd[q]
        /\ generation' = generation /\ table' = table
    BY BecomeIs DEF ScanBlock, ScanInv, content
  <1>2. Text' = Text
    BY <1>1 DEF Text, Top
  <1>3. cmd[p].pc = "scanning" /\ cmd[p].gen = generation
    BY DEF ScanBlock
  <1>4. cmd[p].blocks \in Seq({Text})
    BY <1>3 DEF ScanInv, OfOneText
  <1>5. Append(cmd[p].blocks, Text) \in Seq({Text})
    BY <1>4
  <1>6. ASSUME NEW q \in Threads, cmd'[q].pc = "scanning"
        PROVE  OfOneText(q)'
    <2>1. CASE q = p
      <3>1. {"gen", "blocks"} \subseteq DOMAIN cmd[p]
        BY <1>3 DEF ScanInv, OfOneText
      <3>2. /\ cmd'[q].gen = cmd[p].gen /\ cmd'[q].blocks \in Seq({Text})
            /\ {"gen", "blocks"} \subseteq DOMAIN cmd'[q]
        BY <1>1, <1>5, <2>1, <3>1
      <3>3. QED BY <1>1, <1>2, <1>3, <3>2 DEF ScanInv, OfOneText
    <2>2. CASE q # p
      <3>1. cmd'[q] = cmd[q] /\ Counted
        BY <1>1, <2>2 DEF Counted
      <3>2. QED BY <3>1, <1>6, ScanLetAlone
    <2>3. QED BY <2>1, <2>2
  <1>7. QED BY <1>1, <1>6 DEF ScanInv

LEMMA ScanLocks ==
  ASSUME ScanInv, Counted, NEW p \in Threads, NEW c, LockIdle(p, c)
  PROVE  ScanInv'
  <1>1. ASSUME NEW what, Become(p, what), what.pc # "scanning" PROVE ScanInv'
    <2>1. /\ DOMAIN cmd' = Threads /\ cmd'[p] = what
          /\ \A q \in Threads : q # p => cmd'[q] = cmd[q]
      BY <1>1, BecomeIs DEF ScanInv
    <2>2. QED BY <1>1, <2>1, ScanElsewhere
  <1>2. CASE RunPlain(p, c) \/ BeginPass(p, c) \/ Become(p, Idle) \/ Become(p, [pc |-> "asleep", call |-> c])
    BY <1>1, <1>2 DEF RunPlain, BeginPass, Idle
  <1>3. CASE \E n \in {1, 2} : BeginScan(p, n)
    BY <1>3, ScanBegins
  <1>4. QED BY <1>2, <1>3 DEF LockIdle

(* The blocks that a find or a search goes through are of one content, with *)
(* any edits between them, where no batch fails half way.                  *)
THEOREM ScansOfOneText ==
  ASSUME "apply" \notin Fails
  PROVE  Spec => []ScanReadsOneText
  <1>1. Init => ScanInv
    BY DEF Init, ScanInv, Idle
  <1>2. ScanInv /\ [Next]_vars => ScanInv'
    <2> SUFFICES ASSUME ScanInv, [Next]_vars PROVE ScanInv'
      OBVIOUS
    <2>1. Counted
      <3>1. CASE Next
        BY <3>1, ContentIsCounted
      <3>2. CASE UNCHANGED vars
        BY <3>2 DEF vars, content, Counted
      <3>3. QED BY <3>1, <3>2
    <2>2. ASSUME NEW p \in Threads, NEW what, Become(p, what), what.pc # "scanning" PROVE ScanInv'
      <3>1. /\ DOMAIN cmd' = Threads /\ cmd'[p] = what
            /\ \A q \in Threads : q # p => cmd'[q] = cmd[q]
        BY <2>2, BecomeIs DEF ScanInv
      <3>2. QED BY <2>1, <2>2, <3>1, ScanElsewhere
    <2>3. ASSUME NEW p \in Threads, Call(p) \/ Wake(p) PROVE ScanInv'
      BY <2>1, <2>3, ScanLocks DEF Call, Wake
    <2>4. ASSUME NEW p \in Threads, Read(p) \/ Install(p) PROVE ScanInv'
      BY <2>2, <2>4 DEF Read, Install
    <2>5. ASSUME NEW p \in Threads, Finish(p) PROVE ScanInv'
      <3>1. DOMAIN cmd' = Threads
        BY <2>5 DEF Finish
      <3>2. ASSUME NEW q \in Threads
            PROVE  cmd'[q] = cmd[q] \/ cmd'[q].pc # "scanning"
        <4>1. CASE q = p
          BY <4>1, <2>5 DEF Finish, Idle
        <4>2. CASE q # p /\ cmd[q].pc = "asleep"
          BY <4>2, <2>5 DEF Finish
        <4>3. CASE q # p /\ cmd[q].pc # "asleep"
          BY <4>3, <2>5 DEF Finish
        <4>4. QED BY <4>1, <4>2, <4>3
      <3>3. QED BY <2>1, <3>1, <3>2, ScanElsewhere
    <2>6. ASSUME NEW p \in Threads, ScanBlock(p) PROVE ScanInv'
      BY <2>6, ScanGoesOn
    <2>7. ASSUME NEW p \in Threads, ScanStale(p) \/ ScanEnds(p) PROVE ScanInv'
      BY <2>2, <2>7 DEF ScanStale, ScanEnds, Idle
    <2>8. CASE UNCHANGED vars
      <3>1. DOMAIN cmd' = Threads /\ \A q \in Threads : cmd'[q] = cmd[q]
        BY <2>8 DEF vars, ScanInv
      <3>2. QED BY <2>1, <3>1, ScanElsewhere
    <2>9. QED BY <2>3, <2>4, <2>5, <2>6, <2>7, <2>8 DEF Next
  <1>3. ScanInv => ScanReadsOneText
    <2> SUFFICES ASSUME ScanInv, NEW p \in Threads, cmd[p].pc = "scanning",
                        NEW i \in DOMAIN cmd[p].blocks, NEW j \in DOMAIN cmd[p].blocks
                 PROVE  cmd[p].blocks[i] = cmd[p].blocks[j]
      BY DEF ScanReadsOneText
    <2>1. PICK x : cmd[p].blocks \in Seq({x})
      BY DEF ScanInv, OfOneText
    <2>2. QED BY <2>1
  <1>4. QED BY <1>1, <1>2, <1>3, PTL DEF Spec

-----------------------------------------------------------------------------
(* The ids of a session.  A command takes at most one id, so that those     *)
(* taken and the commands that may still take one are no more than those    *)
(* that were called, and the two that an opened file begins with.          *)
Ranged(x, n) ==
  /\ {"before", "after"} \subseteq DOMAIN x
  /\ x.before \in 0 .. n - 1
  /\ x.after \in 0 .. n - 1
Ranges(s, n) == \E S : s \in Seq(S) /\ \A x \in S : Ranged(x, n)

Journaled ==
  /\ nextId \in Nat
  /\ stateId \in 0 .. nextId - 1 /\ savedId \in 0 .. nextId - 1
  /\ generation \in Nat /\ sealed \in BOOLEAN
  /\ Ranges(past, nextId) /\ Ranges(future, nextId)
  /\ Len(past) + Len(future) <= UndoLimit

Pcs == {"idle", "asleep", "awake", "reading", "planned", "installed", "scanning"}
Pending == {p \in Threads : cmd[p].pc \notin {"idle", "installed"}}

Threaded ==
  /\ DOMAIN cmd = Threads
  /\ \A p \in Threads : "pc" \in DOMAIN cmd[p] /\ cmd[p].pc \in Pcs
  /\ open \in BOOLEAN /\ busy \in BOOLEAN
  /\ conv \in {"no", "inPlace", "away"}
  /\ calls \in 0 .. MaxCalls
  /\ IsFiniteSet(Pending)

IdInv ==
  /\ Journaled /\ Threaded
  /\ nextId + Cardinality(Pending) <= calls + 2

(* The two stacks.                                                         *)
LEMMA RangesLength ==
  ASSUME NEW s, NEW n, Ranges(s, n)
  PROVE  Len(s) \in Nat /\ (s # <<>> => Len(s) > 0)
  BY DEF Ranges

LEMMA RangesAreKept ==
  ASSUME NEW n \in Nat, NEW m \in Nat, n <= m, NEW s, Ranges(s, n)
  PROVE  Ranges(s, m)
  <1>1. PICK S : s \in Seq(S) /\ \A x \in S : Ranged(x, n)
    BY DEF Ranges
  <1>2. \A x \in S : Ranged(x, m)
    BY <1>1 DEF Ranged
  <1>3. QED BY <1>1, <1>2 DEF Ranges

LEMMA EmptyRanges ==
  ASSUME NEW n
  PROVE  Ranges(<<>>, n) /\ Len(<<>>) = 0
  <1>1. PICK S : S = {}
    OBVIOUS
  <1>2. <<>> \in Seq(S) /\ Len(<<>>) = 0
    OBVIOUS
  <1>3. \A x \in S : Ranged(x, n)
    BY <1>1
  <1>4. QED BY <1>2, <1>3 DEF Ranges

LEMMA AppendRanges ==
  ASSUME NEW s, NEW n, Ranges(s, n), NEW e, Ranged(e, n)
  PROVE  /\ Ranges(Append(s, e), n) /\ Len(Append(s, e)) = Len(s) + 1
         /\ Ranges(Tail(Append(s, e)), n) /\ Len(Tail(Append(s, e))) = Len(s)
  <1>1. PICK S : s \in Seq(S) /\ \A x \in S : Ranged(x, n)
    BY DEF Ranges
  <1>2. /\ Append(s, e) \in Seq(S \union {e}) /\ Len(Append(s, e)) = Len(s) + 1
        /\ Tail(Append(s, e)) \in Seq(S \union {e}) /\ Len(Tail(Append(s, e))) = Len(s)
    BY <1>1
  <1>3. \A x \in S \union {e} : Ranged(x, n)
    BY <1>1
  <1>4. QED BY <1>2, <1>3 DEF Ranges

LEMMA FrontRanges ==
  ASSUME NEW s, NEW n, Ranges(s, n), s # <<>>
  PROVE  Ranges(Front(s), n) /\ Len(Front(s)) = Len(s) - 1 /\ Ranged(s[Len(s)], n)
  <1>1. PICK S : s \in Seq(S) /\ \A x \in S : Ranged(x, n)
    BY DEF Ranges
  <1>2. Len(s) \in Nat /\ Len(s) > 0 /\ s[Len(s)] \in S
    BY <1>1
  <1>3. PICK k : k = Len(s) - 1
    OBVIOUS
  <1>4. k \in Nat /\ k <= Len(s)
    BY <1>2, <1>3
  <1>5. \A i \in 1 .. k : s[i] \in S
    BY <1>1, <1>4
  <1>6. /\ SubSeq(s, 1, k) = [i \in 1 .. k |-> s[i]]
        /\ Len(SubSeq(s, 1, k)) = k
    BY <1>1, <1>4
  <1>7. SubSeq(s, 1, k) \in Seq(S)
    BY <1>4, <1>5, <1>6
  <1>8. QED BY <1>1, <1>2, <1>3, <1>6, <1>7 DEF Ranges, Front

LEMMA LastRanges ==
  ASSUME NEW s, NEW n, Ranges(s, n), s # <<>>, NEW e, Ranged(e, n)
  PROVE  Ranges([s EXCEPT ![Len(s)] = e], n) /\ Len([s EXCEPT ![Len(s)] = e]) = Len(s)
  <1>1. PICK S : s \in Seq(S) /\ \A x \in S : Ranged(x, n)
    BY DEF Ranges
  <1>2. /\ [s EXCEPT ![Len(s)] = e] \in Seq(S \union {e})
        /\ Len([s EXCEPT ![Len(s)] = e]) = Len(s)
    BY <1>1
  <1>3. \A x \in S \union {e} : Ranged(x, n)
    BY <1>1
  <1>4. QED BY <1>2, <1>3 DEF Ranges

(* A change takes an id and is pushed as a step of its own, ...             *)
LEMMA Pushed ==
  ASSUME Journaled, NEW e, PushUndo(e), nextId' = nextId + 1, future' = <<>>,
         Ranged(e, nextId + 1)
  PROVE  Ranges(past, nextId)' /\ Ranges(future, nextId)' /\ Len(past') + Len(future') <= UndoLimit
  <1>1. /\ nextId \in Nat /\ UndoLimit \in Nat /\ UndoLimit > 0
        /\ Len(past) \in Nat /\ Len(future) \in Nat /\ Len(past) <= UndoLimit
    BY RangesLength, SessionAssumption DEF Journaled
  <1>2. Ranges(past, nextId + 1)
    BY <1>1, RangesAreKept DEF Journaled
  <1>3. /\ Ranges(Append(past, e), nextId + 1) /\ Len(Append(past, e)) = Len(past) + 1
        /\ Ranges(Tail(Append(past, e)), nextId + 1) /\ Len(Tail(Append(past, e))) = Len(past)
    BY <1>2, AppendRanges
  <1>4. past' = IF Len(Append(past, e)) > UndoLimit THEN Tail(Append(past, e)) ELSE Append(past, e)
    BY DEF PushUndo
  <1>5. Ranges(past', nextId + 1) /\ Len(past') <= UndoLimit /\ Len(past') \in Nat
    BY <1>1, <1>3, <1>4
  <1>6. Ranges(future', nextId + 1) /\ Len(future') = 0
    BY EmptyRanges
  <1>7. QED BY <1>1, <1>5, <1>6

(* ... or joins the last one.                                              *)
LEMMA Joined ==
  ASSUME Journaled, NEW g, Coalesces(g), NEW group, nextId' = nextId + 1, future' = <<>>,
         NEW last, last = past[Len(past)],
         past' = [past EXCEPT ![Len(past)] = [last EXCEPT !.group = last.group \o group, !.after = nextId]]
  PROVE  Ranges(past, nextId)' /\ Ranges(future, nextId)' /\ Len(past') + Len(future') <= UndoLimit
  <1>1. nextId \in Nat /\ past # <<>> /\ Len(past) \in Nat /\ Len(future) \in Nat /\ Len(past) <= UndoLimit
    <2>1. /\ nextId \in Nat /\ past # <<>> /\ Ranges(past, nextId) /\ Ranges(future, nextId)
          /\ Len(past) + Len(future) <= UndoLimit
      BY DEF Journaled, Coalesces
    <2>2. Len(past) \in Nat /\ Len(future) \in Nat
      BY <2>1, RangesLength
    <2>3. QED BY <2>1, <2>2, SessionAssumption
  <1>2. Ranges(past, nextId + 1) /\ nextId + 1 \in Nat
    <2>1. nextId + 1 \in Nat /\ nextId <= nextId + 1
      BY <1>1
    <2>2. Ranges(past, nextId)
      BY DEF Journaled
    <2>3. QED BY <1>1, <2>1, <2>2, RangesAreKept
  <1>3. Ranged(last, nextId)
    <2>1. Ranges(past, nextId)
      BY DEF Journaled
    <2>2. QED BY <1>1, <2>1, FrontRanges
  <1>4. PICK z : z = [last EXCEPT !.group = last.group \o group, !.after = nextId]
    OBVIOUS
  <1>5. z.before = last.before /\ z.after = nextId /\ DOMAIN z = DOMAIN last
    BY <1>3, <1>4 DEF Ranged
  <1>6. Ranged(z, nextId + 1)
    BY <1>1, <1>3, <1>5 DEF Ranged
  <1>7. past' = [past EXCEPT ![Len(past)] = z]
    BY <1>4
  <1>8. Ranges(past', nextId + 1) /\ Len(past') = Len(past)
    <2>1. PICK s : s = past
      OBVIOUS
    <2>2. PICK m : m = nextId + 1
      OBVIOUS
    <2>3. Ranges([s EXCEPT ![Len(s)] = z], m) /\ Len([s EXCEPT ![Len(s)] = z]) = Len(s)
      BY <1>1, <1>2, <1>6, <2>1, <2>2, LastRanges
    <2>4. past' = [s EXCEPT ![Len(s)] = z]
      BY <1>7, <2>1
    <2>5. QED BY <2>1, <2>2, <2>3, <2>4
  <1>9. Ranges(future', nextId + 1) /\ Len(future') = 0
    BY EmptyRanges
  <1>10. QED BY <1>1, <1>8, <1>9

(* A step that goes from the one stack to the other.                        *)
LEMMA Moved ==
  ASSUME Journaled, NEW s, NEW r, Ranges(s, nextId), Ranges(r, nextId), s # <<>>,
         NEW y, {"before", "after"} \subseteq DOMAIN y,
         y.before = s[Len(s)].before, y.after = s[Len(s)].after,
         NEW q, q = Append(r, y) \/ q = r
  PROVE  /\ Ranges(Front(s), nextId) /\ Ranges(q, nextId)
         /\ Len(Front(s)) + Len(q) <= Len(s) + Len(r)
         /\ s[Len(s)].before \in 0 .. nextId - 1 /\ s[Len(s)].after \in 0 .. nextId - 1
  <1>1. /\ Ranges(Front(s), nextId) /\ Len(Front(s)) = Len(s) - 1 /\ Ranged(s[Len(s)], nextId)
        /\ Len(s) \in Nat /\ Len(r) \in Nat
    BY FrontRanges, RangesLength
  <1>2. Ranged(y, nextId)
    BY <1>1 DEF Ranged
  <1>3. Ranges(Append(r, y), nextId) /\ Len(Append(r, y)) = Len(r) + 1
    BY <1>2, AppendRanges
  <1>4. Ranges(q, nextId) /\ Len(q) \in Nat /\ Len(q) <= Len(r) + 1
    <2>1. CASE q = Append(r, y)
      BY <2>1, <1>1, <1>3
    <2>2. CASE q = r
      BY <2>2, <1>1
    <2>3. QED BY <2>1, <2>2
  <1>5. Len(Front(s)) + Len(q) <= Len(s) + Len(r)
    BY <1>1, <1>4
  <1>6. QED BY <1>1, <1>4, <1>5 DEF Ranged

(* What the operations do to the journal.                                  *)
LEMMA RecordGroupTakes ==
  ASSUME Journaled, NEW x, NEW group, NEW g, TakeStateId(x), RecordGroup(group, g)
  PROVE  Journaled' /\ nextId' = nextId + 1
  <1>1. /\ nextId \in Nat /\ stateId \in 0 .. nextId - 1 /\ savedId \in 0 .. nextId - 1
        /\ generation \in Nat
    BY DEF Journaled
  <1>2. nextId' = nextId + 1 /\ stateId' = nextId /\ savedId' = savedId
    BY DEF TakeStateId, RecordGroup
  <1>3. future' = <<>> /\ sealed' = FALSE /\ generation' = generation + 1
    BY DEF RecordGroup
  <1>4. Ranges(past, nextId)' /\ Ranges(future, nextId)' /\ Len(past') + Len(future') <= UndoLimit
    <2>1. CASE Coalesces(g)
      <3>1. PICK last : last = past[Len(past)]
        OBVIOUS
      <3>2. past' = [past EXCEPT ![Len(past)] =
                       [last EXCEPT !.group = last.group \o group, !.after = nextId]]
        BY <2>1, <3>1 DEF RecordGroup
      <3>3. QED BY <1>2, <1>3, <2>1, <3>1, <3>2, Joined
    <2>2. CASE ~Coalesces(g)
      <3>1. PICK e : e = EditStep(group, stateId, nextId)
        OBVIOUS
      <3>2. PushUndo(e)
        BY <2>2, <3>1 DEF RecordGroup, PushUndo
      <3>3. Ranged(e, nextId + 1)
        BY <1>1, <3>1 DEF EditStep, Ranged
      <3>4. QED BY <1>2, <1>3, <3>2, <3>3, Pushed
    <2>3. QED BY <2>1, <2>2
  <1>5. nextId' \in Nat /\ stateId' \in 0 .. nextId' - 1 /\ savedId' \in 0 .. nextId' - 1
        /\ generation' \in Nat
    BY <1>1, <1>2, <1>3
  <1>6. sealed' \in BOOLEAN
    BY <1>3
  <1>7. QED BY <1>2, <1>4, <1>5, <1>6 DEF Journaled

LEMMA ApplyTakes ==
  ASSUME Journaled, NEW p, NEW g, Apply(p, g)
  PROVE  Journaled' /\ nextId' = nextId + 1
  <1>1. PICK x, group : TakeStateId(x) /\ RecordGroup(group, g)
    BY DEF Apply
  <1>2. QED BY <1>1, RecordGroupTakes

LEMMA InstallReplaceTakes ==
  ASSUME Journaled, NEW hits, InstallReplace(hits)
  PROVE  Journaled' /\ nextId' = nextId + 1
  <1>1. /\ nextId \in Nat /\ stateId \in 0 .. nextId - 1 /\ savedId \in 0 .. nextId - 1
        /\ generation \in Nat
    BY DEF Journaled
  <1>2. nextId' = nextId + 1 /\ stateId' = nextId /\ savedId' = savedId
    BY DEF TakeStateId, InstallReplace
  <1>3. future' = <<>> /\ sealed' = FALSE /\ generation' = generation + 1
    BY DEF InstallReplace
  <1>4. PICK e : e = ReplaceStep(hits, generation + 1, stateId, nextId)
    OBVIOUS
  <1>5. PushUndo(e)
    BY <1>4 DEF InstallReplace, PushUndo
  <1>6. Ranged(e, nextId + 1)
    BY <1>1, <1>4 DEF ReplaceStep, Ranged
  <1>7. Ranges(past, nextId)' /\ Ranges(future, nextId)' /\ Len(past') + Len(future') <= UndoLimit
    BY <1>2, <1>3, <1>5, <1>6, Pushed
  <1>8. nextId' \in Nat /\ stateId' \in 0 .. nextId' - 1 /\ savedId' \in 0 .. nextId' - 1
        /\ generation' \in Nat
    BY <1>1, <1>2, <1>3
  <1>9. sealed' \in BOOLEAN
    BY <1>3
  <1>10. QED BY <1>2, <1>7, <1>8, <1>9 DEF Journaled

LEMMA UndoTakes ==
  ASSUME Journaled, Undo
  PROVE  Journaled' /\ nextId' = nextId
  <1>1. /\ nextId' = nextId /\ savedId' = savedId /\ sealed' = sealed /\ generation' = generation + 1
        /\ past # <<>> /\ past' = Front(past)
    BY DEF Undo
  <1>2. PICK step : step = past[Len(past)]
    OBVIOUS
  <1>3. PICK undone : undone = Undone(Text, step.group)
    OBVIOUS
  <1>4. PICK y : y = [step EXCEPT !.group = undone.group, !.layer = 0]
    OBVIOUS
  <1>5. (future' = Append(future, y) \/ future' = future) /\ stateId' = step.before
    BY <1>2, <1>3, <1>4 DEF Undo
  <1>6. Ranges(past, nextId) /\ Ranges(future, nextId) /\ Ranged(step, nextId)
    BY <1>1, <1>2, FrontRanges DEF Journaled
  <1>7. {"before", "after"} \subseteq DOMAIN y /\ y.before = step.before /\ y.after = step.after
    BY <1>4, <1>6 DEF Ranged
  <1>8. /\ Ranges(Front(past), nextId) /\ Ranges(future', nextId)
        /\ Len(Front(past)) + Len(future') <= Len(past) + Len(future)
        /\ step.before \in 0 .. nextId - 1
    BY <1>1, <1>2, <1>5, <1>6, <1>7, Moved
  <1>9. Len(past) \in Nat /\ Len(future) \in Nat /\ Len(Front(past)) \in Nat /\ Len(future') \in Nat
    BY <1>6, <1>8, RangesLength
  <1>10. QED BY <1>1, <1>5, <1>8, <1>9, SessionAssumption DEF Journaled

LEMMA RedoTakes ==
  ASSUME Journaled, Redo
  PROVE  Journaled' /\ nextId' = nextId
  <1>1. /\ nextId' = nextId /\ savedId' = savedId /\ sealed' = sealed /\ generation' = generation + 1
        /\ future # <<>> /\ future' = Front(future)
    BY DEF Redo
  <1>2. PICK step : step = future[Len(future)]
    OBVIOUS
  <1>3. PICK undone : undone = Undone(Text, step.group)
    OBVIOUS
  <1>4. PICK y : y = [step EXCEPT !.group = undone.group,
                                  !.layer = IF step.kind = "edits" THEN 0 ELSE generation + 1]
    OBVIOUS
  <1>5. (past' = Append(past, y) \/ past' = past) /\ stateId' = step.after
    BY <1>2, <1>3, <1>4 DEF Redo
  <1>6. Ranges(past, nextId) /\ Ranges(future, nextId) /\ Ranged(step, nextId)
    BY <1>1, <1>2, FrontRanges DEF Journaled
  <1>7. {"before", "after"} \subseteq DOMAIN y /\ y.before = step.before /\ y.after = step.after
    BY <1>4, <1>6 DEF Ranged
  <1>8. /\ Ranges(Front(future), nextId) /\ Ranges(past', nextId)
        /\ Len(Front(future)) + Len(past') <= Len(future) + Len(past)
        /\ step.after \in 0 .. nextId - 1
    BY <1>1, <1>2, <1>5, <1>6, <1>7, Moved
  <1>9. Len(past) \in Nat /\ Len(future) \in Nat /\ Len(Front(future)) \in Nat /\ Len(past') \in Nat
    BY <1>6, <1>8, RangesLength
  <1>10. QED BY <1>1, <1>5, <1>8, <1>9, SessionAssumption DEF Journaled

LEMMA SaveTakes ==
  ASSUME Journaled, NEW k, NEW e, Save(k, e)
  PROVE  Journaled' /\ nextId' = nextId
  <1>1. CASE UNCHANGED content
    BY <1>1 DEF content, journal, Journaled
  <1>2. CASE ~UNCHANGED content
    <2>1. /\ generation' = generation + 1 /\ savedId' = stateId /\ sealed' = TRUE
          /\ UNCHANGED <<past, future, stateId, nextId>>
      BY <1>2 DEF Save
    <2>2. QED BY <2>1 DEF Journaled
  <1>3. QED BY <1>1, <1>2

(* The threads: one that ends gives back what it may still have taken.      *)
LEMMA OneSettles ==
  ASSUME IdInv, Journaled', NEW p \in Threads, NEW what, Become(p, what),
         "pc" \in DOMAIN what, what.pc \in {"idle", "installed"},
         open' \in BOOLEAN, busy' \in BOOLEAN, conv' \in {"no", "inPlace", "away"},
         calls' \in 0 .. MaxCalls,
         \/ nextId' = nextId /\ calls' = calls
         \/ nextId' \in {nextId, nextId + 1} /\ calls' = calls /\ p \in Pending
         \/ nextId' \in {nextId, nextId + 1} /\ calls' = calls + 1
  PROVE  IdInv'
  <1>1. /\ DOMAIN cmd' = Threads /\ cmd'[p] = what
        /\ \A q \in Threads : q # p => cmd'[q] = cmd[q]
    BY BecomeIs DEF IdInv, Threaded
  <1>2. Pending' = Pending \ {p}
    BY <1>1 DEF Pending
  <1>3. IsFiniteSet(Pending) /\ Cardinality(Pending) \in Nat
    BY FS_CardinalityType DEF IdInv, Threaded
  <1>4. /\ IsFiniteSet(Pending \ {p})
        /\ Cardinality(Pending \ {p}) = IF p \in Pending THEN Cardinality(Pending) - 1 ELSE Cardinality(Pending)
    BY <1>3, FS_RemoveElement
  <1>5. \A q \in Threads : "pc" \in DOMAIN cmd'[q] /\ cmd'[q].pc \in Pcs
    BY <1>1 DEF IdInv, Threaded, Pcs
  <1>6. Threaded'
    BY <1>1, <1>2, <1>4, <1>5 DEF Threaded
  <1>7. nextId \in Nat /\ calls \in Nat /\ nextId + Cardinality(Pending) <= calls + 2
    BY SessionAssumption DEF IdInv, Journaled, Threaded
  <1>8. nextId' + Cardinality(Pending') <= calls' + 2
    BY <1>2, <1>3, <1>4, <1>7
  <1>9. QED BY <1>6, <1>8 DEF IdInv

LEMMA OneGoesOn ==
  ASSUME IdInv, NEW p \in Threads, NEW what, Become(p, what),
         "pc" \in DOMAIN what, what.pc \in Pcs,
         UNCHANGED <<open, content, files>>, busy' \in BOOLEAN, calls' \in 0 .. MaxCalls,
         \/ calls' = calls /\ p \in Pending
         \/ calls' = calls + 1
  PROVE  IdInv'
  <1>1. /\ DOMAIN cmd' = Threads /\ cmd'[p] = what
        /\ \A q \in Threads : q # p => cmd'[q] = cmd[q]
    BY BecomeIs DEF IdInv, Threaded
  <1>2. Pending' \subseteq Pending \union {p}
    BY <1>1 DEF Pending
  <1>3. IsFiniteSet(Pending) /\ Cardinality(Pending) \in Nat
    BY FS_CardinalityType DEF IdInv, Threaded
  <1>4. /\ IsFiniteSet(Pending \union {p})
        /\ Cardinality(Pending \union {p}) = IF p \in Pending THEN Cardinality(Pending) ELSE Cardinality(Pending) + 1
    BY <1>3, FS_AddElement
  <1>5. /\ IsFiniteSet(Pending') /\ Cardinality(Pending') \in Nat
        /\ Cardinality(Pending') <= Cardinality(Pending \union {p})
    BY <1>2, <1>4, FS_Subset, FS_CardinalityType
  <1>6. \A q \in Threads : "pc" \in DOMAIN cmd'[q] /\ cmd'[q].pc \in Pcs
    BY <1>1 DEF IdInv, Threaded
  <1>7. Threaded'
    BY <1>1, <1>5, <1>6 DEF IdInv, Threaded, files
  <1>8. Journaled' /\ nextId' = nextId
    BY DEF IdInv, Journaled, content, journal
  <1>9. nextId \in Nat /\ calls \in Nat /\ nextId + Cardinality(Pending) <= calls + 2
    BY SessionAssumption DEF IdInv, Journaled, Threaded
  <1>10. nextId' + Cardinality(Pending') <= calls' + 2
    BY <1>3, <1>4, <1>5, <1>8, <1>9
  <1>11. QED BY <1>7, <1>8, <1>10 DEF IdInv

(* A command with the lock, called just now or woken.                       *)
LEMMA LockIdleTakes ==
  ASSUME IdInv, NEW p \in Threads, NEW c, LockIdle(p, c), calls' \in 0 .. MaxCalls,
         (calls' = calls /\ p \in Pending) \/ calls' = calls + 1
  PROVE  IdInv'
  <1>1. ASSUME NEW what, Become(p, what), "pc" \in DOMAIN what, what.pc \in Pcs,
               UNCHANGED <<open, content, files>>, busy' \in BOOLEAN
        PROVE  IdInv'
    BY <1>1, OneGoesOn
  <1>2. busy \in BOOLEAN /\ open \in BOOLEAN /\ conv \in {"no", "inPlace", "away"} /\ Journaled
    BY DEF IdInv, Threaded
  <1>3. CASE ~open \/ busy
    <2>1. PICK what \in {Idle, [pc |-> "asleep", call |-> c]} :
            Become(p, what) /\ UNCHANGED <<open, busy, content, files>>
      BY <1>3 DEF LockIdle
    <2>2. "pc" \in DOMAIN what /\ what.pc \in Pcs
      BY DEF Idle, Pcs
    <2>3. busy' \in BOOLEAN
      BY <2>1, <1>2
    <2>4. QED BY <1>1, <2>1, <2>2, <2>3
  <1>4. CASE BeginPass(p, c)
    <2>1. PICK what : what = [pc |-> "reading", call |-> c, gen |-> generation]
      OBVIOUS
    <2>2. Become(p, what) /\ UNCHANGED <<open, content, files>> /\ busy' \in BOOLEAN
      BY <1>4, <2>1 DEF BeginPass
    <2>3. "pc" \in DOMAIN what /\ what.pc \in Pcs
      BY <2>1 DEF Pcs
    <2>4. QED BY <1>1, <2>2, <2>3
  <1>5. CASE \E n \in {1, 2} : BeginScan(p, n)
    <2>1. PICK n \in {1, 2} : BeginScan(p, n)
      BY <1>5
    <2>2. PICK what : what = [pc |-> "scanning", tries |-> n, gen |-> generation, blocks |-> <<>>]
      OBVIOUS
    <2>3. Become(p, what) /\ UNCHANGED <<open, content, files>> /\ busy' = busy
      BY <2>1, <2>2 DEF BeginScan
    <2>4. "pc" \in DOMAIN what /\ what.pc \in Pcs
      BY <2>2 DEF Pcs
    <2>5. busy' \in BOOLEAN
      BY <1>2, <2>3
    <2>6. QED BY <1>1, <2>3, <2>4, <2>5
  <1>6. CASE RunPlain(p, c)
    <2>1. Become(p, Idle) /\ busy' = busy
      BY <1>6 DEF RunPlain
    <2>2. busy' \in BOOLEAN
      BY <1>2, <2>1
    <2>3. /\ Journaled' /\ nextId' \in {nextId, nextId + 1}
          /\ open' \in BOOLEAN /\ conv' \in {"no", "inPlace", "away"}
      <3>1. CASE \E e, g : Apply(e, g) /\ UNCHANGED <<open, files>>
        BY <3>1, <1>2, ApplyTakes DEF files
      <3>2. CASE \E e : ApplyFails(e) /\ UNCHANGED <<open, files>>
        <4>1. UNCHANGED <<generation, journal, open, files>>
          BY <3>2 DEF ApplyFails
        <4>2. QED BY <4>1, <1>2 DEF Journaled, journal, files
      <3>3. CASE Undo /\ UNCHANGED <<open, files>>
        BY <3>3, <1>2, UndoTakes DEF files
      <3>4. CASE Redo /\ UNCHANGED <<open, files>>
        BY <3>4, <1>2, RedoTakes DEF files
      <3>5. CASE \E k, e : Save(k, e) /\ UNCHANGED open
        <4>1. PICK k, e : Save(k, e) /\ UNCHANGED open
          BY <3>5
        <4>2. conv' \in {"no", "inPlace", "away"}
          BY <4>1, <1>2 DEF Save
        <4>3. QED BY <4>1, <4>2, <1>2, SaveTakes
      <3>6. CASE (open' = FALSE \/ open' = open) /\ UNCHANGED <<content, files>>
        <4>1. open' \in BOOLEAN
          BY <3>6, <1>2
        <4>2. QED BY <3>6, <4>1, <1>2 DEF Journaled, content, journal, files
      <3>7. QED BY <1>6, <3>1, <3>2, <3>3, <3>4, <3>5, <3>6 DEF RunPlain
    <2>4. "pc" \in DOMAIN Idle /\ Idle.pc \in {"idle", "installed"}
      BY DEF Idle
    <2>5. QED BY <2>1, <2>2, <2>3, <2>4, OneSettles
  <1>7. QED BY <1>3, <1>4, <1>5, <1>6 DEF LockIdle

LEMMA InstallTakes ==
  ASSUME IdInv, NEW p \in Threads, Install(p)
  PROVE  IdInv'
  <1>1. /\ Journaled /\ open \in BOOLEAN /\ busy \in BOOLEAN /\ conv \in {"no", "inPlace", "away"}
        /\ calls \in 0 .. MaxCalls
    BY DEF IdInv, Threaded
  <1>2. p \in Pending /\ UNCHANGED <<open, busy, files, calls>>
    BY DEF Install, Pending
  <1>3. PICK what : what = [pc |-> "installed", gen |-> generation']
    OBVIOUS
  <1>4. Become(p, what) /\ "pc" \in DOMAIN what /\ what.pc \in {"idle", "installed"}
    BY <1>3 DEF Install
  <1>5. Journaled' /\ nextId' \in {nextId, nextId + 1}
    <2>1. CASE UNCHANGED content
      BY <2>1, <1>1 DEF Journaled, content, journal
    <2>2. CASE \E e, g : Apply(e, g)
      BY <2>2, <1>1, ApplyTakes
    <2>3. CASE \E e : ApplyFails(e)
      <3>1. UNCHANGED <<generation, journal>>
        BY <2>3 DEF ApplyFails
      <3>2. QED BY <3>1, <1>1 DEF Journaled, journal
    <2>4. CASE \E h : InstallReplace(h)
      BY <2>4, <1>1, InstallReplaceTakes
    <2>5. CASE Undo \/ Redo
      BY <2>5, <1>1, UndoTakes, RedoTakes
    <2>6. QED BY <2>1, <2>2, <2>3, <2>4, <2>5 DEF Install
  <1>6. QED BY <1>1, <1>2, <1>4, <1>5, OneSettles DEF files

LEMMA FinishTakes ==
  ASSUME IdInv, NEW p \in Threads, Finish(p)
  PROVE  IdInv'
  <1>1. DOMAIN cmd' = Threads /\ UNCHANGED <<open, content, files, calls>> /\ busy' \in BOOLEAN
    BY DEF Finish
  <1>2. ASSUME NEW q \in Threads
        PROVE  "pc" \in DOMAIN cmd'[q] /\ cmd'[q].pc \in Pcs /\ (q \in Pending' => q \in Pending)
    <2>1. "pc" \in DOMAIN cmd[q] /\ cmd[q].pc \in Pcs
      BY DEF IdInv, Threaded
    <2>2. CASE q = p
      <3>1. cmd'[q] = Idle
        BY <2>2 DEF Finish
      <3>2. QED BY <3>1 DEF Idle, Pcs, Pending
    <2>3. CASE q # p /\ cmd[q].pc = "asleep"
      <3>1. cmd'[q] = [cmd[q] EXCEPT !.pc = "awake"]
        BY <2>3 DEF Finish
      <3>2. cmd'[q].pc = "awake" /\ "pc" \in DOMAIN cmd'[q]
        BY <3>1, <2>1
      <3>3. QED BY <2>3, <3>2 DEF Pending, Pcs
    <2>4. CASE q # p /\ cmd[q].pc # "asleep"
      <3>1. cmd'[q] = cmd[q]
        BY <2>4 DEF Finish
      <3>2. QED BY <3>1, <2>1 DEF Pending
    <2>5. QED BY <2>2, <2>3, <2>4
  <1>3. Pending' \subseteq Pending
    BY <1>2 DEF Pending
  <1>4. IsFiniteSet(Pending) /\ Cardinality(Pending) \in Nat
    BY FS_CardinalityType DEF IdInv, Threaded
  <1>5. /\ IsFiniteSet(Pending') /\ Cardinality(Pending') \in Nat
        /\ Cardinality(Pending') <= Cardinality(Pending)
    BY <1>3, <1>4, FS_Subset, FS_CardinalityType
  <1>6. Threaded'
    BY <1>1, <1>2, <1>5 DEF IdInv, Threaded, files
  <1>7. Journaled' /\ nextId' = nextId
    BY <1>1 DEF IdInv, Journaled, content, journal
  <1>8. nextId \in Nat /\ calls \in Nat /\ calls' = calls /\ nextId + Cardinality(Pending) <= calls + 2
    BY <1>1, SessionAssumption DEF IdInv, Journaled, Threaded
  <1>9. nextId' + Cardinality(Pending') <= calls' + 2
    BY <1>4, <1>5, <1>7, <1>8
  <1>10. QED BY <1>6, <1>7, <1>9 DEF IdInv

LEMMA IdInvStarts ==
  ASSUME Init
  PROVE  IdInv
  <1>1. /\ nextId \in Nat /\ stateId \in 0 .. nextId - 1 /\ savedId \in 0 .. nextId - 1
        /\ generation \in Nat /\ nextId <= 2
    BY DEF Init
  <1>2. sealed \in BOOLEAN /\ open \in BOOLEAN /\ busy \in BOOLEAN
    BY DEF Init
  <1>3. Ranges(past, nextId) /\ Ranges(future, nextId) /\ Len(past) + Len(future) <= UndoLimit
    BY EmptyRanges, SessionAssumption DEF Init
  <1>4. Journaled
    BY <1>1, <1>2, <1>3 DEF Journaled
  <1>5. DOMAIN cmd = Threads /\ \A p \in Threads : "pc" \in DOMAIN cmd[p] /\ cmd[p].pc = "idle"
    BY DEF Init, Idle
  <1>6. Pending = {}
    BY <1>5 DEF Pending
  <1>7. IsFiniteSet(Pending) /\ Cardinality(Pending) = 0
    BY <1>6, FS_EmptySet
  <1>8. conv \in {"no", "inPlace", "away"} /\ calls = 0 /\ calls \in 0 .. MaxCalls
    BY SessionAssumption DEF Init
  <1>9. Threaded
    BY <1>2, <1>5, <1>7, <1>8 DEF Threaded, Pcs
  <1>10. QED BY <1>1, <1>4, <1>7, <1>8, <1>9 DEF IdInv

LEMMA IdInvHolds == Spec => []IdInv
  <1>1. Init => IdInv
    BY IdInvStarts
  <1>2. IdInv /\ [Next]_vars => IdInv'
    <2> SUFFICES ASSUME IdInv, [Next]_vars PROVE IdInv'
      OBVIOUS
    <2>1. ASSUME NEW p \in Threads, Call(p) PROVE IdInv'
      <3>1. calls' \in 0 .. MaxCalls /\ calls' = calls + 1
        BY <2>1, SessionAssumption DEF Call, IdInv, Threaded
      <3>2. PICK c : LockIdle(p, c)
        BY <2>1 DEF Call
      <3>3. QED BY <3>1, <3>2, LockIdleTakes
    <2>2. ASSUME NEW p \in Threads, Wake(p) PROVE IdInv'
      <3>1. p \in Pending /\ calls' = calls /\ calls' \in 0 .. MaxCalls
        BY <2>2 DEF Wake, Pending, IdInv, Threaded
      <3>2. LockIdle(p, cmd[p].call)
        BY <2>2 DEF Wake
      <3>3. QED BY <3>1, <3>2, LockIdleTakes
    <2>3. ASSUME NEW p \in Threads, Read(p) PROVE IdInv'
      <3>1. PICK plan : Become(p, [pc |-> "planned", plan |-> plan, gen |-> cmd[p].gen])
        BY <2>3 DEF Read
      <3>2. PICK what : what = [pc |-> "planned", plan |-> plan, gen |-> cmd[p].gen]
        OBVIOUS
      <3>3. Become(p, what) /\ "pc" \in DOMAIN what /\ what.pc \in Pcs
        BY <3>1, <3>2 DEF Pcs
      <3>4. /\ p \in Pending /\ calls' = calls /\ UNCHANGED <<open, content, files>>
            /\ busy' = busy
        BY <2>3 DEF Read, Pending
      <3>5. busy' \in BOOLEAN /\ calls' \in 0 .. MaxCalls
        BY <3>4 DEF IdInv, Threaded
      <3>6. QED BY <3>3, <3>4, <3>5, OneGoesOn
    <2>4. ASSUME NEW p \in Threads, Install(p) PROVE IdInv'
      BY <2>4, InstallTakes
    <2>5. ASSUME NEW p \in Threads, Finish(p) PROVE IdInv'
      BY <2>5, FinishTakes
    <2>6. ASSUME NEW p \in Threads, ScanBlock(p) \/ ScanStale(p) \/ ScanEnds(p) PROVE IdInv'
      <3>1. PICK what : /\ Become(p, what)
                        /\ what \in {[cmd[p] EXCEPT !.blocks = Append(@, Text)],
                                     Idle, [pc |-> "awake", call |-> "search"]}
        BY <2>6 DEF ScanBlock, ScanStale, ScanEnds
      <3>2. "pc" \in DOMAIN cmd[p] /\ cmd[p].pc \in Pcs
        BY DEF IdInv, Threaded
      <3>3. "pc" \in DOMAIN what /\ what.pc \in Pcs
        BY <3>1, <3>2 DEF Idle, Pcs
      <3>4. /\ p \in Pending /\ calls' = calls /\ UNCHANGED <<open, content, files>>
            /\ busy' = busy
        BY <2>6 DEF ScanBlock, ScanStale, ScanEnds, Pending
      <3>5. busy' \in BOOLEAN /\ calls' \in 0 .. MaxCalls
        BY <3>4 DEF IdInv, Threaded
      <3>6. QED BY <3>1, <3>3, <3>4, <3>5, OneGoesOn
    <2>7. CASE UNCHANGED vars
      BY <2>7 DEF vars, content, journal, files, IdInv, Journaled, Threaded, Pending
    <2>8. QED BY <2>1, <2>2, <2>3, <2>4, <2>5, <2>6, <2>7 DEF Next
  <1>3. QED BY <1>1, <1>2, PTL DEF Spec

LEMMA IdInvTypes ==
  ASSUME IdInv
  PROVE  TypeOK /\ nextId \in Nat /\ nextId <= MaxCalls + 2
  <1>1. Cardinality(Pending) \in Nat
    BY FS_CardinalityType DEF IdInv, Threaded
  <1>2. nextId \in Nat /\ calls \in 0 .. MaxCalls /\ MaxCalls \in Nat /\ nextId <= calls + 2
    BY <1>1, SessionAssumption DEF IdInv, Journaled, Threaded
  <1>3. stateId \in Ids /\ savedId \in Ids /\ nextId \in Ids \union {MaxCalls + 2}
    BY <1>2 DEF IdInv, Journaled, Ids
  <1>4. Len(past) <= UndoLimit
    <2>1. Len(past) \in Nat /\ Len(future) \in Nat /\ Len(past) + Len(future) <= UndoLimit
      BY RangesLength DEF IdInv, Journaled
    <2>2. QED BY <2>1, SessionAssumption
  <1>5. TypeOK
    BY <1>3, <1>4 DEF TypeOK, IdInv, Journaled, Threaded, Pcs
  <1>6. nextId <= MaxCalls + 2
    BY <1>2
  <1>7. QED BY <1>2, <1>5, <1>6

(* The types of a session: its ids never leave the range that the commands  *)
(* called so far can have taken, and the undo stack, which redo fills       *)
(* without looking at the limit, never outgrows it.                        *)
THEOREM TypeCorrect == Spec => []TypeOK
  <1>1. IdInv => TypeOK
    BY IdInvTypes
  <1>2. Spec => []IdInv
    BY IdInvHolds
  <1>3. QED BY <1>1, <1>2, PTL

-----------------------------------------------------------------------------
(* What an edit does to a text.                                            *)
IsText(x) == x \in Seq(Bytes)

(* The n bytes of y after its j-th are those of x after its i-th.           *)
Same(y, j, x, i, n) == \A k \in 1 .. n : y[j + k] = x[i + k]

(* An edit, and one of a part of x.                                         *)
Change == [start : Nat, end : Nat, text : Seq(Bytes)]
Fits(e, x) ==
  /\ e \in Change
  /\ e.start <= e.end /\ e.end <= Len(x)
Done(x, e) == Splice(x, e.start, e.end, e.text)
Reversal(x, e) == Edit(e.start, e.start + Len(e.text), SubSeq(x, e.start + 1, e.end))

LEMMA TextIs ==
  ASSUME NEW x, IsText(x)
  PROVE  Len(x) \in Nat /\ DOMAIN x = 1 .. Len(x) /\ \A i \in 1 .. Len(x) : x[i] \in Bytes
  BY DEF IsText

LEMMA FitsIs ==
  ASSUME NEW x, IsText(x), NEW e, Fits(e, x)
  PROVE  /\ e.start \in Nat /\ e.end \in Nat /\ IsText(e.text) /\ Len(e.text) \in Nat
         /\ Len(x) \in Nat /\ e.start <= e.end /\ e.end <= Len(x)
  BY DEF IsText, Fits, Change

LEMMA SameOver ==
  ASSUME NEW x, NEW y, NEW z, NEW i, NEW j, NEW k, NEW n,
         Same(z, k, y, j, n), Same(y, j, x, i, n)
  PROVE  Same(z, k, x, i, n)
  BY DEF Same

LEMMA SameTurned ==
  ASSUME NEW x, NEW y, NEW i, NEW j, NEW n, Same(y, j, x, i, n)
  PROVE  Same(x, i, y, j, n)
  BY DEF Same

LEMMA SameWithin ==
  ASSUME NEW x, NEW y, NEW i \in Nat, NEW j \in Nat, NEW n \in Nat, Same(y, j, x, i, n),
         NEW a \in Nat, NEW m \in Nat, a + m <= n
  PROVE  Same(y, j + a, x, i + a, m)
  <1>1. ASSUME NEW k \in 1 .. m PROVE y[(j + a) + k] = x[(i + a) + k]
    <2>1. a + k \in 1 .. n
      OBVIOUS
    <2>2. y[j + (a + k)] = x[i + (a + k)]
      BY <2>1 DEF Same
    <2>3. j + (a + k) = (j + a) + k /\ i + (a + k) = (i + a) + k
      OBVIOUS
    <2>4. QED BY <2>2, <2>3
  <1>2. QED BY <1>1 DEF Same

LEMMA SameThere ==
  ASSUME NEW x, NEW y, NEW n \in Nat, Same(y, 0, x, 0, n),
         NEW a \in Nat, NEW m \in Nat, a + m <= n
  PROVE  Same(y, a, x, a, m)
  <1>1. 0 \in Nat /\ 0 + a = a
    OBVIOUS
  <1>2. Same(y, 0 + a, x, 0 + a, m)
    BY <1>1, SameWithin
  <1>3. QED BY <1>1, <1>2

LEMMA SameJoined ==
  ASSUME NEW x, NEW y, NEW i \in Nat, NEW j \in Nat, NEW n \in Nat, NEW m \in Nat,
         Same(y, j, x, i, n), Same(y, j + n, x, i + n, m)
  PROVE  Same(y, j, x, i, n + m)
  <1>1. ASSUME NEW k \in 1 .. n + m PROVE y[j + k] = x[i + k]
    <2>1. CASE k <= n
      BY <2>1 DEF Same
    <2>2. CASE k > n
      <3>1. PICK l : l = k - n
        OBVIOUS
      <3>2. l \in 1 .. m /\ (j + n) + l = j + k /\ (i + n) + l = i + k
        BY <2>2, <3>1
      <3>3. QED BY <3>2 DEF Same
    <2>3. QED BY <2>1, <2>2
  <1>2. QED BY <1>1 DEF Same

LEMMA SameText ==
  ASSUME NEW x, IsText(x), NEW y, IsText(y), Len(x) = Len(y), Same(x, 0, y, 0, Len(x))
  PROVE  x = y
  <1>1. \A i \in 1 .. Len(x) : x[i] = y[i]
    BY TextIs DEF Same
  <1>2. QED BY <1>1, SeqEqual DEF IsText

LEMMA PartIs ==
  ASSUME NEW x, IsText(x), NEW m \in Nat, NEW n \in Nat, m <= n, n <= Len(x)
  PROVE  /\ IsText(SubSeq(x, m + 1, n)) /\ Len(SubSeq(x, m + 1, n)) = n - m
         /\ Same(SubSeq(x, m + 1, n), 0, x, m, n - m)
  <1>1. \A i \in m + 1 .. n : x[i] \in Bytes
    BY TextIs
  <1>2. /\ SubSeq(x, m + 1, n) \in Seq(Bytes)
        /\ Len(SubSeq(x, m + 1, n)) = IF m + 1 <= n THEN n - (m + 1) + 1 ELSE 0
        /\ \A i \in 1 .. n - (m + 1) + 1 : SubSeq(x, m + 1, n)[i] = x[(m + 1) + i - 1]
    <2>1. m + 1 \in Int /\ n \in Int
      OBVIOUS
    <2>2. QED BY <1>1, <2>1, SubSeqProperties
  <1>3. n - (m + 1) + 1 = n - m /\ \A i \in Int : (m + 1) + i - 1 = m + i /\ 0 + i = i
    OBVIOUS
  <1>4. Len(SubSeq(x, m + 1, n)) = n - m
    BY <1>2
  <1>5. ASSUME NEW i \in 1 .. n - m PROVE SubSeq(x, m + 1, n)[0 + i] = x[m + i]
    <2>1. i \in 1 .. n - (m + 1) + 1 /\ (m + 1) + i - 1 = m + i /\ 0 + i = i
      BY <1>3
    <2>2. SubSeq(x, m + 1, n)[i] = x[(m + 1) + i - 1]
      BY <2>1, <1>2
    <2>3. QED BY <2>1, <2>2
  <1>6. QED BY <1>2, <1>4, <1>5 DEF IsText, Same

LEMMA FirstIs ==
  ASSUME NEW x, IsText(x), NEW n \in Nat, n <= Len(x)
  PROVE  /\ IsText(SubSeq(x, 1, n)) /\ Len(SubSeq(x, 1, n)) = n
         /\ Same(SubSeq(x, 1, n), 0, x, 0, n)
  <1>1. 0 \in Nat /\ 0 <= n /\ 0 + 1 = 1 /\ n - 0 = n
    OBVIOUS
  <1>2. /\ IsText(SubSeq(x, 0 + 1, n)) /\ Len(SubSeq(x, 0 + 1, n)) = n - 0
        /\ Same(SubSeq(x, 0 + 1, n), 0, x, 0, n - 0)
    BY <1>1, PartIs
  <1>3. QED BY <1>1, <1>2

LEMMA GlueIs ==
  ASSUME NEW x, IsText(x), NEW y, IsText(y)
  PROVE  /\ IsText(x \o y) /\ Len(x \o y) = Len(x) + Len(y)
         /\ Same(x \o y, 0, x, 0, Len(x)) /\ Same(x \o y, Len(x), y, 0, Len(y))
  BY DEF IsText, Same

LEMMA DoneIs ==
  ASSUME NEW x, IsText(x), NEW e, Fits(e, x)
  PROVE  /\ IsText(Done(x, e))
         /\ Len(Done(x, e)) = Len(x) + Len(e.text) - (e.end - e.start)
         /\ Same(Done(x, e), 0, x, 0, e.start)
         /\ Same(Done(x, e), e.start, e.text, 0, Len(e.text))
         /\ Same(Done(x, e), e.start + Len(e.text), x, e.end, Len(x) - e.end)
  <1>1. PICK s, t, u, l : s = e.start /\ t = e.end /\ u = e.text /\ l = Len(x)
    OBVIOUS
  <1>2. s \in Nat /\ t \in Nat /\ IsText(u) /\ s <= t /\ t <= l /\ l \in Nat /\ Len(u) \in Nat
    BY <1>1, FitsIs
  <1>3. PICK a : a = SubSeq(x, 1, s)
    OBVIOUS
  <1>4. PICK c : c = SubSeq(x, t + 1, l)
    OBVIOUS
  <1>5. IsText(a) /\ Len(a) = s /\ Same(a, 0, x, 0, s)
    BY <1>1, <1>2, <1>3, FirstIs
  <1>6. IsText(c) /\ Len(c) = l - t /\ Same(c, 0, x, t, l - t)
    <2>1. t \in Nat /\ l \in Nat /\ t <= l /\ l <= Len(x)
      BY <1>1, <1>2
    <2>2. /\ IsText(SubSeq(x, t + 1, l)) /\ Len(SubSeq(x, t + 1, l)) = l - t
          /\ Same(SubSeq(x, t + 1, l), 0, x, t, l - t)
      BY <2>1, PartIs
    <2>3. QED BY <1>4, <2>2
  <1>7. PICK d : d = a \o u
    OBVIOUS
  <1>8. /\ IsText(d) /\ Len(d) = s + Len(u)
        /\ Same(d, 0, a, 0, s) /\ Same(d, s, u, 0, Len(u))
    BY <1>2, <1>5, <1>7, GlueIs
  <1>9. PICK f : f = d \o c
    OBVIOUS
  <1>10. /\ IsText(f) /\ Len(f) = Len(d) + Len(c)
         /\ Same(f, 0, d, 0, Len(d)) /\ Same(f, Len(d), c, 0, Len(c))
    BY <1>6, <1>8, <1>9, GlueIs
  <1>11. Done(x, e) = f
    BY <1>1, <1>3, <1>4, <1>7, <1>9 DEF Done, Splice
  <1>12. Len(f) = l + Len(u) - (t - s)
    BY <1>2, <1>6, <1>8, <1>10
  <1>13. Same(f, 0, x, 0, s)
    <2>1. Len(d) \in Nat /\ 0 + s <= Len(d)
      BY <1>2, <1>8
    <2>2. Same(f, 0, d, 0, s)
      BY <2>1, <1>2, <1>10, SameThere
    <2>3. QED BY <1>5, <1>8, <2>2, SameOver
  <1>14. Same(f, s, u, 0, Len(u))
    <2>1. Len(d) \in Nat /\ s + Len(u) <= Len(d)
      BY <1>2, <1>8
    <2>2. Same(f, s, d, s, Len(u))
      BY <2>1, <1>2, <1>10, SameThere
    <2>3. QED BY <1>8, <2>2, SameOver
  <1>15. Same(f, s + Len(u), x, t, l - t)
    BY <1>6, <1>8, <1>10, SameOver
  <1>16. QED BY <1>1, <1>10, <1>11, <1>12, <1>13, <1>14, <1>15

(* Done and taken back, an edit leaves the text as it was.                  *)
LEMMA InverseFits ==
  ASSUME NEW x, IsText(x), NEW e, Fits(e, x)
  PROVE  /\ Fits(Reversal(x, e), Done(x, e))
         /\ Reversal(x, e).start = e.start /\ Reversal(x, e).end = e.start + Len(e.text)
         /\ Reversal(x, e).text = SubSeq(x, e.start + 1, e.end)
  <1>1. /\ e.start \in Nat /\ e.end \in Nat /\ IsText(e.text) /\ Len(e.text) \in Nat
        /\ Len(x) \in Nat /\ e.start <= e.end /\ e.end <= Len(x)
    BY FitsIs
  <1>2. IsText(SubSeq(x, e.start + 1, e.end))
    BY <1>1, PartIs
  <1>3. Len(Done(x, e)) = Len(x) + Len(e.text) - (e.end - e.start)
    BY DoneIs
  <1>4. e.start + Len(e.text) \in Nat /\ e.start <= e.start + Len(e.text)
        /\ e.start + Len(e.text) <= Len(Done(x, e))
    BY <1>1, <1>3
  <1>5. QED BY <1>1, <1>2, <1>4 DEF Reversal, Edit, Fits, Change, IsText

LEMMA TakenBack ==
  ASSUME NEW x, IsText(x), NEW e, Fits(e, x)
  PROVE  Done(Done(x, e), Reversal(x, e)) = x
  <1>1. PICK s, t, u, l : s = e.start /\ t = e.end /\ u = Len(e.text) /\ l = Len(x)
    OBVIOUS
  <1>2. s \in Nat /\ t \in Nat /\ u \in Nat /\ l \in Nat /\ s <= t /\ t <= l
    BY <1>1, FitsIs
  <1>3. PICK y : y = Done(x, e)
    OBVIOUS
  <1>4. PICK f : f = Reversal(x, e)
    OBVIOUS
  <1>5. PICK z : z = Done(y, f)
    OBVIOUS
  <1>6. /\ IsText(y) /\ Len(y) = l + u - (t - s)
        /\ Same(y, 0, x, 0, s) /\ Same(y, s + u, x, t, l - t)
    BY <1>1, <1>3, DoneIs
  <1>7. Fits(f, y) /\ f.start = s /\ f.end = s + u /\ f.text = SubSeq(x, s + 1, t)
    BY <1>1, <1>3, <1>4, InverseFits
  <1>8. Len(f.text) = t - s /\ Same(f.text, 0, x, s, t - s)
    BY <1>1, <1>2, <1>7, PartIs
  <1>9. /\ IsText(z) /\ Len(z) = Len(y) + (t - s) - ((s + u) - s)
        /\ Same(z, 0, y, 0, s) /\ Same(z, s, f.text, 0, t - s)
        /\ Same(z, s + (t - s), y, s + u, Len(y) - (s + u))
    BY <1>5, <1>6, <1>7, <1>8, DoneIs
  <1>10. s + (t - s) = t /\ Len(y) - (s + u) = l - t /\ Len(z) = l
    BY <1>2, <1>6, <1>9
  <1>11. Same(z, 0, x, 0, s) /\ Same(z, s, x, s, t - s) /\ Same(z, t, x, t, l - t)
    BY <1>6, <1>8, <1>9, <1>10, SameOver
  <1>12. Same(z, 0, x, 0, s + (t - s))
    <2>1. t - s \in Nat /\ 0 + s = s
      BY <1>2
    <2>2. QED BY <1>2, <1>11, <2>1, SameJoined
  <1>13. Same(z, 0, x, 0, t + (l - t))
    <2>1. l - t \in Nat /\ 0 + t = t
      BY <1>2
    <2>2. QED BY <1>2, <1>10, <1>11, <1>12, <2>1, SameJoined
  <1>14. t + (l - t) = l
    BY <1>2
  <1>15. z = x
    BY <1>1, <1>9, <1>10, <1>13, <1>14, SameText
  <1>16. QED BY <1>3, <1>4, <1>5, <1>15

-----------------------------------------------------------------------------
(* Induction up to a number, over a set: the theorems of the library take   *)
(* an operator.                                                            *)
LEMMA LessIsWellFounded ==
  IsWellFoundedOn({r \in Nat \X Nat : r[1] < r[2]}, Nat)
  BY NatLessThanWellFounded DEF OpToRel

LEMMA Climb ==
  ASSUME NEW n \in Nat, NEW S, 0 \in S, \A k \in 1 .. n : k - 1 \in S => k \in S
  PROVE  0 .. n \subseteq S
  <1>1. SUFFICES ASSUME NEW j \in 0 .. n, j \notin S PROVE FALSE
    OBVIOUS
  <1>2. PICK T : T = {k \in 0 .. n : k \notin S}
    OBVIOUS
  <1>3. PICK R : R = {r \in Nat \X Nat : r[1] < r[2]}
    OBVIOUS
  <1>4. PICK i \in T : \A y \in T : ~(<<y, i>> \in R)
    <2>1. T \subseteq Nat /\ T # {}
      BY <1>1, <1>2
    <2>2. QED BY <2>1, <1>3, LessIsWellFounded, WFMin
  <1>5. i # 0 /\ i - 1 \in 0 .. n /\ i \in 1 .. n /\ i \notin S
    BY <1>4, <1>2
  <1>6. <<i - 1, i>> \in R
    BY <1>5, <1>3
  <1>7. i - 1 \in S
    BY <1>2, <1>4, <1>5, <1>6
  <1>8. QED BY <1>5, <1>7

(* The texts that a group, its last edit first, leads through.              *)
Chain(c, group, x, y) ==
  LET n == Len(group)
  IN /\ n \in Nat /\ DOMAIN group = 1 .. n /\ IsText(x)
     /\ c[0] = x /\ c[n] = y
     /\ \A k \in 1 .. n : Fits(group[n + 1 - k], c[k - 1]) /\ c[k] = Done(c[k - 1], group[n + 1 - k])
Leads(x, group, y) == group \in Seq(Change) /\ \E c : Chain(c, group, x, y)

LEMMA ChainTexts ==
  ASSUME NEW c, NEW group, NEW x, NEW y, Chain(c, group, x, y)
  PROVE  \A k \in 0 .. Len(group) : IsText(c[k])
  <1>1. PICK n : n = Len(group)
    OBVIOUS
  <1>2. PICK S : S = {k \in 0 .. n : IsText(c[k])}
    OBVIOUS
  <1>3. n \in Nat /\ 0 \in S
    BY <1>1, <1>2 DEF Chain
  <1>4. ASSUME NEW k \in 1 .. n, k - 1 \in S PROVE k \in S
    <2>1. Fits(group[n + 1 - k], c[k - 1]) /\ c[k] = Done(c[k - 1], group[n + 1 - k])
      BY <1>1 DEF Chain
    <2>2. IsText(c[k - 1])
      BY <1>2, <1>4
    <2>3. IsText(c[k])
      BY <2>1, <2>2, DoneIs
    <2>4. QED BY <2>3, <1>2, <1>3
  <1>5. QED BY <1>1, <1>2, <1>3, <1>4, Climb

LEMMA LeadsTexts ==
  ASSUME NEW x, NEW group, NEW y, Leads(x, group, y)
  PROVE  IsText(x) /\ IsText(y)
  <1>1. PICK c : Chain(c, group, x, y)
    BY DEF Leads
  <1>2. Len(group) \in Nat /\ c[0] = x /\ c[Len(group)] = y
    BY <1>1 DEF Chain
  <1>3. QED BY <1>1, <1>2, ChainTexts

LEMMA LeadsOne ==
  ASSUME NEW x, IsText(x), NEW e, Fits(e, x)
  PROVE  Leads(x, <<e>>, Done(x, e))
  <1>1. PICK c : c = [k \in 0 .. 1 |-> IF k = 0 THEN x ELSE Done(x, e)]
    OBVIOUS
  <1>2. c[0] = x /\ c[1] = Done(x, e)
    BY <1>1
  <1>3. PICK g : g = <<e>>
    OBVIOUS
  <1>4. Len(g) = 1 /\ DOMAIN g = 1 .. 1 /\ g[1] = e
    BY <1>3
  <1>5. ASSUME NEW k \in 1 .. 1
        PROVE  Fits(g[1 + 1 - k], c[k - 1]) /\ c[k] = Done(c[k - 1], g[1 + 1 - k])
    <2>1. k = 1 /\ 1 + 1 - k = 1 /\ k - 1 = 0
      OBVIOUS
    <2>2. QED BY <2>1, <1>2, <1>4
  <1>6. Chain(c, g, x, Done(x, e))
    BY <1>2, <1>4, <1>5 DEF Chain
  <1>7. g \in Seq(Change)
    BY <1>3 DEF Fits, Change
  <1>8. QED BY <1>3, <1>6, <1>7 DEF Leads

LEMMA LeadsOn ==
  ASSUME NEW x, NEW h, NEW y, Leads(x, h, y), NEW g, NEW z, Leads(y, g, z)
  PROVE  Leads(x, g \o h, z)
  <1>1. PICK c : Chain(c, h, x, y)
    BY DEF Leads
  <1>2. PICK d : Chain(d, g, y, z)
    BY DEF Leads
  <1>3. PICK m, n : m = Len(h) /\ n = Len(g)
    OBVIOUS
  <1>4. g \in Seq(Change) /\ h \in Seq(Change)
    BY DEF Leads
  <1>5. PICK f : f = g \o h
    OBVIOUS
  <1>6. /\ f \in Seq(Change) /\ Len(f) = n + m /\ m \in Nat /\ n \in Nat
        /\ \A i \in 1 .. n : f[i] = g[i]
        /\ \A i \in 1 .. m : f[n + i] = h[i]
    BY <1>3, <1>4, <1>5
  <1>7. PICK b : b = [k \in 0 .. n + m |-> IF k <= m THEN c[k] ELSE d[k - m]]
    OBVIOUS
  <1>8. c[0] = x /\ c[m] = y /\ d[0] = y /\ d[n] = z /\ IsText(x)
    BY <1>1, <1>2, <1>3 DEF Chain
  <1>9. b[0] = x /\ b[n + m] = z
    <2>1. b[0] = x
      BY <1>6, <1>7, <1>8
    <2>2. CASE n = 0
      <3>1. n + m = m
        BY <2>2, <1>6
      <3>2. b[n + m] = c[m] /\ z = y
        BY <2>2, <3>1, <1>6, <1>7, <1>8
      <3>3. QED BY <2>1, <3>2, <1>8
    <2>3. CASE n # 0
      <3>1. PICK i : i = n + m
        OBVIOUS
      <3>2. i \in 0 .. n + m /\ ~(i <= m) /\ i - m = n
        BY <2>3, <3>1, <1>6
      <3>3. b[i] = d[i - m]
        BY <3>2, <1>7
      <3>4. QED BY <2>1, <3>1, <3>2, <3>3, <1>8
    <2>4. QED BY <2>2, <2>3
  <1>10. ASSUME NEW k \in 1 .. n + m
         PROVE  Fits(f[n + m + 1 - k], b[k - 1]) /\ b[k] = Done(b[k - 1], f[n + m + 1 - k])
    <2>1. CASE k <= m
      <3>1. b[k] = c[k] /\ b[k - 1] = c[k - 1]
        BY <2>1, <1>6, <1>7
      <3>2. k \in 1 .. m /\ m + 1 - k \in 1 .. m /\ n + (m + 1 - k) = n + m + 1 - k
        BY <2>1, <1>6
      <3>3. f[n + m + 1 - k] = h[m + 1 - k]
        BY <3>2, <1>6
      <3>4. Fits(h[m + 1 - k], c[k - 1]) /\ c[k] = Done(c[k - 1], h[m + 1 - k])
        BY <3>2, <1>1, <1>3 DEF Chain
      <3>5. QED BY <3>1, <3>3, <3>4
    <2>2. CASE k > m
      <3>1. PICK j : j = k - m
        OBVIOUS
      <3>2. j \in 1 .. n /\ n + 1 - j \in 1 .. n /\ n + m + 1 - k = n + 1 - j
        BY <2>2, <3>1, <1>6
      <3>3. f[n + m + 1 - k] = g[n + 1 - j]
        BY <3>2, <1>6
      <3>4. b[k] = d[j] /\ b[k - 1] = d[j - 1]
        <4>1. b[k] = d[j]
          BY <2>2, <3>1, <1>6, <1>7
        <4>2. CASE k - 1 = m
          BY <4>1, <4>2, <3>1, <3>2, <1>6, <1>7, <1>8
        <4>3. CASE k - 1 > m
          <5>1. k - 1 - m = j - 1 /\ k - 1 \in 0 .. n + m /\ ~(k - 1 <= m)
            BY <4>3, <3>1, <1>6
          <5>2. b[k - 1] = d[k - 1 - m]
            BY <5>1, <1>7
          <5>3. QED BY <4>1, <5>1, <5>2
        <4>4. QED BY <2>2, <4>2, <4>3, <1>6
      <3>5. Fits(g[n + 1 - j], d[j - 1]) /\ d[j] = Done(d[j - 1], g[n + 1 - j])
        BY <3>2, <1>2, <1>3 DEF Chain
      <3>6. QED BY <3>3, <3>4, <3>5
    <2>3. QED BY <2>1, <2>2, <1>6
  <1>11. n + m \in Nat /\ DOMAIN f = 1 .. n + m
    BY <1>6
  <1>12. Chain(b, f, x, z)
    BY <1>6, <1>8, <1>9, <1>10, <1>11 DEF Chain
  <1>13. QED BY <1>5, <1>6, <1>12 DEF Leads

(* The inverse edits of a batch of one.                                     *)
LEMMA ShiftStarts ==
  ASSUME NEW e
  PROVE  Shift(<<e>>)[0] = 0
  <1>1. PICK b : b = <<e>>
    OBVIOUS
  <1>2. PICK w : w = [k \in 0 .. Len(b) |-> IF k = 0 THEN 0
                                            ELSE 0 + Len(b[k].text) - (b[k].end - b[k].start)]
    OBVIOUS
  <1>3. Len(b) = 1
    BY <1>1
  <1>4. w = [k \in 0 .. Len(b) |-> IF k = 0 THEN 0
                                   ELSE w[k - 1] + Len(b[k].text) - (b[k].end - b[k].start)]
    <2>1. w[0] = 0
      BY <1>2, <1>3
    <2>2. ASSUME NEW k \in 0 .. Len(b), k # 0
          PROVE  w[k - 1] = 0
      <3>1. k - 1 = 0
        BY <2>2, <1>3
      <3>2. QED BY <3>1, <2>1
    <2>3. QED BY <1>2, <2>2
  <1>5. Shift(b) = [k \in 0 .. Len(b) |-> IF k = 0 THEN 0
                      ELSE Shift(b)[k - 1] + Len(b[k].text) - (b[k].end - b[k].start)]
    <2>1. Shift(b) = CHOOSE s : s = [k \in 0 .. Len(b) |->
                       IF k = 0 THEN 0 ELSE s[k - 1] + Len(b[k].text) - (b[k].end - b[k].start)]
      BY DEF Shift
    <2>2. QED BY <1>4, <2>1
  <1>6. QED BY <1>1, <1>3, <1>5

LEMMA InversesOfOne ==
  ASSUME NEW x, IsText(x), NEW e, Fits(e, x)
  PROVE  Inverses(x, <<e>>) = <<Reversal(x, e)>>
  <1>1. PICK b : b = <<e>>
    OBVIOUS
  <1>2. DOMAIN b = {1} /\ b[1] = e /\ Len(b) = 1
    BY <1>1
  <1>3. Shift(b)[0] = 0 /\ e.start \in Nat
    BY <1>1, ShiftStarts, FitsIs
  <1>4. Inverses(x, b) = [k \in DOMAIN b |->
          [start |-> b[k].start + Shift(b)[k - 1], end |-> b[k].start + Shift(b)[k - 1] + Len(b[k].text),
           text |-> SubSeq(x, b[k].start + 1, b[k].end)]]
    BY DEF Inverses
  <1>5. Inverses(x, b)[1] = Reversal(x, e)
    <2>1. 1 - 1 = 0 /\ e.start + 0 = e.start
      BY <1>3
    <2>2. Inverses(x, b)[1] = [start |-> b[1].start + Shift(b)[1 - 1],
                               end |-> b[1].start + Shift(b)[1 - 1] + Len(b[1].text),
                               text |-> SubSeq(x, b[1].start + 1, b[1].end)]
      BY <1>2, <1>4
    <2>3. b[1].start + Shift(b)[1 - 1] = e.start
      BY <2>1, <1>2, <1>3
    <2>4. QED BY <1>2, <2>2, <2>3 DEF Reversal, Edit
  <1>6. DOMAIN Inverses(x, b) = {1}
    BY <1>2, <1>4
  <1>7. Inverses(x, b) = [k \in {1} |-> Reversal(x, e)]
    BY <1>4, <1>5, <1>6
  <1>8. <<Reversal(x, e)>> = [k \in {1} |-> Reversal(x, e)]
    OBVIOUS
  <1>9. QED BY <1>1, <1>7, <1>8

(* A group undone leads where its edits do, and the group it leaves leads   *)
(* back.                                                                   *)
LEMMA Undoes ==
  ASSUME NEW x, NEW group, NEW y, Leads(x, group, y)
  PROVE  Undone(x, group).text = y /\ Leads(y, Undone(x, group).group, x)
  <1>1. PICK c : Chain(c, group, x, y)
    BY DEF Leads
  <1>2. PICK n : n = Len(group)
    OBVIOUS
  <1>3. /\ n \in Nat /\ c[0] = x /\ c[n] = y
        /\ \A k \in 1 .. n : Fits(group[n + 1 - k], c[k - 1]) /\ c[k] = Done(c[k - 1], group[n + 1 - k])
    BY <1>1, <1>2 DEF Chain
  <1>4. \A k \in 0 .. n : IsText(c[k])
    BY <1>1, <1>2, ChainTexts
  <1>5. PICK h : h = [j \in 1 .. n |-> Reversal(c[j - 1], group[n + 1 - j])]
    OBVIOUS
  <1>6. PICK w : w = [k \in 0 .. n |-> [text |-> c[k], group |-> [j \in 1 .. k |-> h[j]]]]
    OBVIOUS
  <1>7. w[0] = [text |-> x, group |-> <<>>]
    <2>1. [j \in 1 .. 0 |-> h[j]] = <<>>
      OBVIOUS
    <2>2. w[0] = [text |-> c[0], group |-> [j \in 1 .. 0 |-> h[j]]]
      BY <1>3, <1>6
    <2>3. QED BY <2>1, <2>2, <1>3
  <1>8. ASSUME NEW k \in 1 .. n
        PROVE  LET v == w[k - 1]
                   e == group[n + 1 - k]
               IN w[k] = [text |-> Splice(v.text, e.start, e.end, e.text),
                          group |-> v.group \o Inverses(v.text, <<e>>)]
    <2>1. PICK v, e : v = w[k - 1] /\ e = group[n + 1 - k]
      OBVIOUS
    <2>2. v.text = c[k - 1] /\ v.group = [j \in 1 .. k - 1 |-> h[j]]
      BY <2>1, <1>3, <1>6
    <2>3. w[k].text = c[k] /\ w[k].group = [j \in 1 .. k |-> h[j]]
      BY <1>3, <1>6
    <2>4. Fits(e, c[k - 1]) /\ IsText(c[k - 1]) /\ c[k] = Done(c[k - 1], e)
      BY <2>1, <1>3, <1>4
    <2>5. Inverses(v.text, <<e>>) = <<h[k]>>
      BY <2>1, <2>2, <2>4, <1>5, InversesOfOne
    <2>6. v.group \o <<h[k]>> = [j \in 1 .. k |-> h[j]]
      <3>1. PICK B : B = {h[j] : j \in 1 .. n}
        OBVIOUS
      <3>2. \A j \in 1 .. n : h[j] \in B
        BY <3>1
      <3>3. PICK a : a = [j \in 1 .. k - 1 |-> h[j]]
        OBVIOUS
      <3>4. k - 1 \in Nat /\ \A j \in 1 .. k - 1 : j \in 1 .. n
        BY <1>3
      <3>5. a \in Seq(B) /\ Len(a) = k - 1
        BY <3>2, <3>3, <3>4
      <3>6. /\ DOMAIN (a \o <<h[k]>>) = 1 .. k
            /\ \A j \in 1 .. k : (a \o <<h[k]>>)[j] = h[j]
        <4>1. PICK b : b = <<h[k]>>
          OBVIOUS
        <4>2. b \in Seq(B) /\ Len(b) = 1 /\ b[1] = h[k]
          BY <3>2, <4>1
        <4>3. /\ a \o b \in Seq(B) /\ Len(a \o b) = Len(a) + Len(b)
              /\ \A i \in 1 .. Len(a) + Len(b) :
                   (a \o b)[i] = IF i <= Len(a) THEN a[i] ELSE b[i - Len(a)]
          BY <3>5, <4>2, ConcatProperties
        <4>4. Len(a \o b) = k /\ DOMAIN (a \o b) = 1 .. k
          BY <3>4, <3>5, <4>2, <4>3
        <4>5. ASSUME NEW j \in 1 .. k PROVE (a \o b)[j] = h[j]
          <5>1. CASE j <= k - 1
            BY <5>1, <3>3, <3>4, <3>5, <4>2, <4>3
          <5>2. CASE j = k
            <6>1. j - Len(a) = 1 /\ ~(j <= Len(a)) /\ j \in 1 .. Len(a) + Len(b)
              BY <5>2, <3>4, <3>5, <4>2
            <6>2. QED BY <5>2, <6>1, <4>2, <4>3
          <5>3. j <= k - 1 \/ j = k
            BY <1>3
          <5>4. QED BY <5>1, <5>2, <5>3
        <4>6. QED BY <4>1, <4>4, <4>5
      <3>7. a \o <<h[k]>> = [j \in 1 .. k |-> h[j]]
        <4>1. a \o <<h[k]>> = [j \in 1 .. k |-> (a \o <<h[k]>>)[j]]
          BY <3>6
        <4>2. QED BY <3>6, <4>1
      <3>8. QED BY <2>2, <3>3, <3>7
    <2>7. w[k] = [text |-> c[k], group |-> [j \in 1 .. k |-> h[j]]]
      BY <1>6
    <2>8. w[k] = [text |-> Splice(v.text, e.start, e.end, e.text),
                  group |-> v.group \o Inverses(v.text, <<e>>)]
      BY <2>2, <2>4, <2>5, <2>6, <2>7 DEF Done
    <2>9. QED BY <2>1, <2>8
  <1>9. PICK U : /\ U = CHOOSE u : u = [k \in 0 .. Len(group) |-> IF k = 0 THEN [text |-> x, group |-> <<>>]
                          ELSE LET v == u[k - 1]
                                   e == group[Len(group) + 1 - k]
                               IN [text |-> Splice(v.text, e.start, e.end, e.text),
                                   group |-> v.group \o Inverses(v.text, <<e>>)]]
                 /\ Undone(x, group) = U[Len(group)]
    BY DEF Undone
  <1>10. w = [k \in 0 .. Len(group) |-> IF k = 0 THEN [text |-> x, group |-> <<>>]
                          ELSE LET v == w[k - 1]
                                   e == group[Len(group) + 1 - k]
                               IN [text |-> Splice(v.text, e.start, e.end, e.text),
                                   group |-> v.group \o Inverses(v.text, <<e>>)]]
    <2>1. \A k \in 0 .. n : k = 0 \/ k \in 1 .. n
      BY <1>3
    <2>2. w = [k \in 0 .. n |-> w[k]]
      BY <1>6
    <2>3. QED BY <1>2, <1>7, <1>8, <2>1, <2>2
  <1>11. U = [k \in 0 .. Len(group) |-> IF k = 0 THEN [text |-> x, group |-> <<>>]
                          ELSE LET v == U[k - 1]
                                   e == group[Len(group) + 1 - k]
                               IN [text |-> Splice(v.text, e.start, e.end, e.text),
                                   group |-> v.group \o Inverses(v.text, <<e>>)]]
    BY <1>9, <1>10
  <1>12. PICK S : S = {k \in 0 .. n : U[k] = w[k]}
    OBVIOUS
  <1>13. 0 \in S
    BY <1>2, <1>3, <1>7, <1>11, <1>12
  <1>14. ASSUME NEW k \in 1 .. n, k - 1 \in S PROVE k \in S
    <2>1. U[k - 1] = w[k - 1] /\ k \in 0 .. n /\ k # 0
      BY <1>12, <1>14, <1>3
    <2>2. U[k] = LET v == U[k - 1]
                     e == group[n + 1 - k]
                 IN [text |-> Splice(v.text, e.start, e.end, e.text),
                     group |-> v.group \o Inverses(v.text, <<e>>)]
      BY <2>1, <1>2, <1>11
    <2>3. U[k] = w[k]
      BY <2>1, <2>2, <1>8
    <2>4. QED BY <2>1, <2>3, <1>12
  <1>15. n \in S
    BY <1>3, <1>13, <1>14, Climb
  <1>16. Undone(x, group) = [text |-> y, group |-> h]
    <2>1. Undone(x, group) = w[n] /\ n \in 0 .. n
      BY <1>2, <1>3, <1>9, <1>12, <1>15
    <2>2. h = [j \in 1 .. n |-> h[j]]
      BY <1>5
    <2>3. w[n] = [text |-> c[n], group |-> [j \in 1 .. n |-> h[j]]]
      BY <2>1, <1>6
    <2>4. QED BY <2>1, <2>2, <2>3, <1>3
  <1>17. Leads(y, h, x)
    <2>1. PICK d : d = [k \in 0 .. n |-> c[n - k]]
      OBVIOUS
    <2>2. d[0] = y /\ d[n] = x
      BY <2>1, <1>3
    <2>3. \A j \in 1 .. n : Fits(h[j], c[j]) /\ Done(c[j], h[j]) = c[j - 1]
      <3> SUFFICES ASSUME NEW j \in 1 .. n
                   PROVE  Fits(h[j], c[j]) /\ Done(c[j], h[j]) = c[j - 1]
        OBVIOUS
      <3>1. PICK e : e = group[n + 1 - j]
        OBVIOUS
      <3>2. /\ Fits(e, c[j - 1]) /\ IsText(c[j - 1]) /\ c[j] = Done(c[j - 1], e)
            /\ h[j] = Reversal(c[j - 1], e)
        BY <3>1, <1>3, <1>4, <1>5
      <3>3. QED BY <3>2, InverseFits, TakenBack
    <2>4. h \in Seq(Change) /\ Len(h) = n /\ DOMAIN h = 1 .. n
      <3>1. \A j \in 1 .. n : h[j] \in Change
        BY <2>3 DEF Fits
      <3>2. QED BY <3>1, <1>3, <1>5
    <2>5. ASSUME NEW k \in 1 .. n
          PROVE  Fits(h[n + 1 - k], d[k - 1]) /\ d[k] = Done(d[k - 1], h[n + 1 - k])
      <3>1. PICK j : j = n + 1 - k
        OBVIOUS
      <3>2. j \in 1 .. n /\ n - (k - 1) = j /\ n - k = j - 1 /\ k - 1 \in 0 .. n /\ k \in 0 .. n
        BY <3>1, <1>3
      <3>3. d[k - 1] = c[j] /\ d[k] = c[j - 1]
        BY <2>1, <3>2
      <3>4. QED BY <3>1, <3>2, <3>3, <2>3
    <2>6. IsText(y)
      BY LeadsTexts
    <2>7. Chain(d, h, y, x)
      BY <2>2, <2>4, <2>5, <2>6, <1>3 DEF Chain
    <2>8. QED BY <2>4, <2>7 DEF Leads
  <1>18. QED BY <1>16, <1>17

-----------------------------------------------------------------------------
(* What a batch does to a text, and the group it leaves.                    *)
LEMMA ShiftOfTwo ==
  ASSUME NEW r, NEW p, Len(r.text) = r.end - r.start, r.end - r.start \in Int
  PROVE  Shift(<<r, p>>)[0] = 0 /\ Shift(<<r, p>>)[1] = 0
  <1>1. PICK b : b = <<r, p>>
    OBVIOUS
  <1>2. Len(b) = 2 /\ b[1] = r /\ b[2] = p /\ 0 .. Len(b) = {0, 1, 2}
    BY <1>1
  <1>3. PICK w : w = [k \in 0 .. Len(b) |-> IF k = 0 THEN 0 ELSE IF k = 1 THEN 0 + Len(b[1].text) - (b[1].end - b[1].start)
                        ELSE 0 + Len(b[1].text) - (b[1].end - b[1].start) + Len(b[2].text) - (b[2].end - b[2].start)]
    OBVIOUS
  <1>4. w[0] = 0 /\ w[1] = 0 + Len(b[1].text) - (b[1].end - b[1].start)
    BY <1>2, <1>3
  <1>5. \A k \in 0 .. Len(b) :
          (IF k = 0 THEN 0 ELSE IF k = 1 THEN 0 + Len(b[1].text) - (b[1].end - b[1].start)
                        ELSE 0 + Len(b[1].text) - (b[1].end - b[1].start) + Len(b[2].text) - (b[2].end - b[2].start))
          = (IF k = 0 THEN 0 ELSE w[k - 1] + Len(b[k].text) - (b[k].end - b[k].start))
    <2>1. 1 - 1 = 0 /\ 2 - 1 = 1
      OBVIOUS
    <2>2. QED BY <2>1, <1>2, <1>4
  <1>6. w = [k \in 0 .. Len(b) |-> IF k = 0 THEN 0
                                   ELSE w[k - 1] + Len(b[k].text) - (b[k].end - b[k].start)]
    BY <1>3, <1>5
  <1>7. Shift(b) = [k \in 0 .. Len(b) |-> IF k = 0 THEN 0
                      ELSE Shift(b)[k - 1] + Len(b[k].text) - (b[k].end - b[k].start)]
    <2>1. Shift(b) = CHOOSE s : s = [k \in 0 .. Len(b) |->
                       IF k = 0 THEN 0 ELSE s[k - 1] + Len(b[k].text) - (b[k].end - b[k].start)]
      BY DEF Shift
    <2>2. QED BY <1>6, <2>1
  <1>8. Shift(b)[0] = 0
    BY <1>2, <1>7
  <1>9. Shift(b)[1] = Shift(b)[0] + Len(b[1].text) - (b[1].end - b[1].start)
    <2>1. PICK i : i = 1
      OBVIOUS
    <2>2. i \in 0 .. Len(b) /\ i # 0 /\ i - 1 = 0
      BY <2>1, <1>2
    <2>3. Shift(b)[i] = Shift(b)[i - 1] + Len(b[i].text) - (b[i].end - b[i].start)
      BY <2>2, <1>7
    <2>4. QED BY <2>1, <2>2, <2>3
  <1>10. QED BY <1>1, <1>2, <1>8, <1>9

LEMMA InversesOfTwo ==
  ASSUME NEW x, IsText(x), NEW r, Fits(r, x), NEW p, Fits(p, x), Len(r.text) = r.end - r.start
  PROVE  Inverses(x, <<r, p>>) = <<Reversal(x, r), Reversal(x, p)>>
  <1>1. PICK b : b = <<r, p>>
    OBVIOUS
  <1>2. DOMAIN b = {1, 2} /\ b[1] = r /\ b[2] = p
    BY <1>1
  <1>3. r.start \in Nat /\ p.start \in Nat /\ r.end - r.start \in Int
    BY FitsIs
  <1>4. Shift(b)[0] = 0 /\ Shift(b)[1] = 0
    BY <1>1, <1>3, ShiftOfTwo
  <1>5. Inverses(x, b) = [k \in DOMAIN b |->
          [start |-> b[k].start + Shift(b)[k - 1], end |-> b[k].start + Shift(b)[k - 1] + Len(b[k].text),
           text |-> SubSeq(x, b[k].start + 1, b[k].end)]]
    BY DEF Inverses
  <1>6. ASSUME NEW k \in {1, 2} PROVE Inverses(x, b)[k] = Reversal(x, b[k])
    <2>1. Shift(b)[k - 1] = 0 /\ b[k].start + 0 = b[k].start
      BY <1>2, <1>3, <1>4
    <2>2. Inverses(x, b)[k] = [start |-> b[k].start + Shift(b)[k - 1],
                               end |-> b[k].start + Shift(b)[k - 1] + Len(b[k].text),
                               text |-> SubSeq(x, b[k].start + 1, b[k].end)]
      BY <1>2, <1>5
    <2>3. QED BY <2>1, <2>2 DEF Reversal, Edit
  <1>7. Inverses(x, b) = [k \in {1, 2} |-> Reversal(x, b[k])]
    BY <1>2, <1>5, <1>6
  <1>8. PICK g, h : g = Reversal(x, r) /\ h = Reversal(x, p)
    OBVIOUS
  <1>9. <<g, h>> = [k \in {1, 2} |-> IF k = 1 THEN g ELSE h]
    OBVIOUS
  <1>10. \A k \in {1, 2} : Reversal(x, b[k]) = IF k = 1 THEN g ELSE h
    BY <1>2, <1>8
  <1>11. QED BY <1>1, <1>7, <1>8, <1>9, <1>10

LEMMA InversesOfNone ==
  ASSUME NEW x
  PROVE  Inverses(x, <<>>) = <<>>
  <1>1. PICK b : b = <<>>
    OBVIOUS
  <1>2. DOMAIN b = {} /\ b = [k \in {} |-> 0]
    BY <1>1
  <1>3. DOMAIN Inverses(x, b) = {}
    BY <1>2 DEF Inverses
  <1>4. Inverses(x, b) = [k \in {} |-> Inverses(x, b)[k]]
    BY <1>2 DEF Inverses
  <1>5. QED BY <1>1, <1>2, <1>4

LEMMA AppliedIs ==
  ASSUME NEW x, NEW b, Len(b) \in Nat, NEW n \in 0 .. 2
  PROVE  Applied(x, b, n) = IF n = 0 THEN x ELSE IF n = 1 THEN Done(x, b[Len(b)])
                            ELSE Done(Done(x, b[Len(b)]), b[Len(b) - 1])
  <1>1. PICK w : w = [k \in 0 .. n |-> IF k = 0 THEN x ELSE IF k = 1 THEN Done(x, b[Len(b)])
                                       ELSE Done(Done(x, b[Len(b)]), b[Len(b) - 1])]
    OBVIOUS
  <1>2. PICK A : /\ A = CHOOSE a : a = [k \in 0 .. n |-> IF k = 0 THEN x
                          ELSE LET e == b[Len(b) + 1 - k] IN Splice(a[k - 1], e.start, e.end, e.text)]
                 /\ Applied(x, b, n) = A[n]
    BY DEF Applied
  <1>3. Len(b) + 1 - 1 = Len(b) /\ Len(b) + 1 - 2 = Len(b) - 1 /\ 1 - 1 = 0 /\ 2 - 1 = 1
    OBVIOUS
  <1>4. \A k \in 0 .. n : k = 0 \/ k = 1 \/ k = 2
    OBVIOUS
  <1>5. ASSUME NEW k \in 0 .. n
        PROVE  w[k] = IF k = 0 THEN x
                      ELSE LET e == b[Len(b) + 1 - k] IN Splice(w[k - 1], e.start, e.end, e.text)
    <2>1. CASE k = 0
      BY <2>1, <1>1
    <2>2. CASE k = 1
      <3>1. w[k] = Done(x, b[Len(b)]) /\ w[k - 1] = x
        BY <2>2, <1>1
      <3>2. QED BY <2>2, <3>1, <1>3 DEF Done
    <2>3. CASE k = 2
      <3>1. w[k] = Done(Done(x, b[Len(b)]), b[Len(b) - 1]) /\ w[k - 1] = Done(x, b[Len(b)])
        BY <2>3, <1>1
      <3>2. QED BY <2>3, <3>1, <1>3 DEF Done
    <2>4. QED BY <1>4, <2>1, <2>2, <2>3
  <1>6. w = [k \in 0 .. n |-> IF k = 0 THEN x
               ELSE LET e == b[Len(b) + 1 - k] IN Splice(w[k - 1], e.start, e.end, e.text)]
    <2>1. w = [k \in 0 .. n |-> w[k]]
      BY <1>1
    <2>2. QED BY <2>1, <1>5
  <1>7. A = [k \in 0 .. n |-> IF k = 0 THEN x
               ELSE LET e == b[Len(b) + 1 - k] IN Splice(A[k - 1], e.start, e.end, e.text)]
    BY <1>2, <1>6
  <1>8. A[0] = x
    BY <1>7
  <1>9. CASE n = 0
    BY <1>2, <1>8, <1>9
  <1>10. CASE n >= 1
    <2>1. A[1] = LET e == b[Len(b) + 1 - 1] IN Splice(A[1 - 1], e.start, e.end, e.text)
      BY <1>7, <1>10
    <2>2. A[1] = Done(x, b[Len(b)])
      BY <2>1, <1>3, <1>8 DEF Done
    <2>3. CASE n = 1
      BY <2>2, <2>3, <1>2
    <2>4. CASE n = 2
      <3>1. A[2] = LET e == b[Len(b) + 1 - 2] IN Splice(A[2 - 1], e.start, e.end, e.text)
        BY <1>7, <2>4
      <3>2. A[2] = Done(Done(x, b[Len(b)]), b[Len(b) - 1])
        BY <3>1, <2>2, <1>3 DEF Done
      <3>3. QED BY <3>2, <2>4, <1>2
    <2>5. QED BY <2>3, <2>4, <1>10, <1>4
  <1>11. QED BY <1>9, <1>10

(* The text before it does not matter where the edit is.                    *)
LEMMA Commute ==
  ASSUME NEW x, IsText(x), NEW p, Fits(p, x), NEW r, Fits(r, x),
         r.end = p.start, r.start = p.start - 1, Len(r.text) = 1
  PROVE  /\ Fits(r, Done(x, p)) /\ Fits(p, Done(x, r))
         /\ Done(Done(x, p), r) = Done(Done(x, r), p)
         /\ Reversal(Done(x, r), p) = Reversal(x, p)
  <1>1. PICK s, t, u, l : s = p.start /\ t = p.end /\ u = Len(p.text) /\ l = Len(x)
    OBVIOUS
  <1>2. /\ s \in Nat /\ t \in Nat /\ u \in Nat /\ l \in Nat /\ s <= t /\ t <= l
        /\ s - 1 \in Nat /\ IsText(p.text) /\ IsText(r.text)
        /\ r.start = s - 1 /\ r.end = s /\ Len(r.text) = 1
    BY <1>1, FitsIs
  <1>3. PICK a : a = Done(x, p)
    OBVIOUS
  <1>4. PICK b : b = Done(x, r)
    OBVIOUS
  <1>5. /\ IsText(a) /\ Len(a) = l + u - (t - s)
        /\ Same(a, 0, x, 0, s) /\ Same(a, s, p.text, 0, u) /\ Same(a, s + u, x, t, l - t)
    BY <1>1, <1>3, DoneIs
  <1>6. /\ IsText(b) /\ Len(b) = l
        /\ Same(b, 0, x, 0, s - 1) /\ Same(b, s - 1, r.text, 0, 1) /\ Same(b, s, x, s, l - s)
    <2>1. /\ IsText(b) /\ Len(b) = l + 1 - (s - (s - 1))
          /\ Same(b, 0, x, 0, s - 1) /\ Same(b, s - 1, r.text, 0, 1)
          /\ Same(b, (s - 1) + 1, x, s, l - s)
      BY <1>1, <1>2, <1>4, DoneIs
    <2>2. (s - 1) + 1 = s /\ l + 1 - (s - (s - 1)) = l
      BY <1>2
    <2>3. QED BY <2>1, <2>2
  <1>7. Fits(r, a) /\ Fits(p, b)
    BY <1>1, <1>2, <1>5, <1>6 DEF Fits
  <1>8. PICK y : y = Done(a, r)
    OBVIOUS
  <1>9. PICK z : z = Done(b, p)
    OBVIOUS
  <1>10. PICK m : m = l + u - (t - s)
    OBVIOUS
  <1>11. /\ IsText(y) /\ Len(y) = m
         /\ Same(y, 0, a, 0, s - 1) /\ Same(y, s - 1, r.text, 0, 1) /\ Same(y, s, a, s, m - s)
    <2>1. /\ IsText(y) /\ Len(y) = m + 1 - (s - (s - 1))
          /\ Same(y, 0, a, 0, s - 1) /\ Same(y, s - 1, r.text, 0, 1)
          /\ Same(y, (s - 1) + 1, a, s, m - s)
      BY <1>2, <1>5, <1>7, <1>8, <1>10, DoneIs
    <2>2. (s - 1) + 1 = s /\ m + 1 - (s - (s - 1)) = m
      BY <1>2, <1>10
    <2>3. QED BY <2>1, <2>2
  <1>12. /\ IsText(z) /\ Len(z) = m
         /\ Same(z, 0, b, 0, s) /\ Same(z, s, p.text, 0, u) /\ Same(z, s + u, b, t, l - t)
    BY <1>1, <1>6, <1>7, <1>9, <1>10, DoneIs
  <1>13. Same(y, 0, z, 0, s - 1)
    <2>1. 0 + (s - 1) <= s /\ 0 \in Nat
      BY <1>2
    <2>2. Same(a, 0, x, 0, s - 1) /\ Same(z, 0, b, 0, s - 1)
      BY <2>1, <1>2, <1>5, <1>12, SameThere
    <2>3. Same(x, 0, b, 0, s - 1) /\ Same(b, 0, z, 0, s - 1)
      BY <2>2, <1>6, SameTurned
    <2>4. Same(y, 0, x, 0, s - 1)
      BY <2>2, <1>11, SameOver
    <2>5. Same(y, 0, b, 0, s - 1)
      BY <2>3, <2>4, SameOver
    <2>6. QED BY <2>3, <2>5, SameOver
  <1>14. Same(y, s - 1, z, s - 1, 1)
    <2>1. (s - 1) + 1 <= s /\ 1 \in Nat
      BY <1>2
    <2>2. Same(z, s - 1, b, s - 1, 1)
      BY <2>1, <1>2, <1>12, SameThere
    <2>3. Same(z, s - 1, r.text, 0, 1)
      BY <2>2, <1>6, SameOver
    <2>4. Same(r.text, 0, z, s - 1, 1)
      BY <2>3, SameTurned
    <2>5. QED BY <2>4, <1>11, SameOver
  <1>15. Same(y, s, z, s, u)
    <2>1. u <= m - s /\ m - s \in Nat /\ 0 + u <= m - s /\ s + 0 = s /\ 0 \in Nat
      BY <1>2, <1>10
    <2>2. Same(y, s + 0, a, s + 0, u)
      BY <2>1, <1>2, <1>11, SameWithin
    <2>3. Same(y, s, p.text, 0, u)
      BY <2>1, <2>2, <1>5, SameOver
    <2>4. Same(p.text, 0, z, s, u)
      BY <1>12, SameTurned
    <2>5. QED BY <2>3, <2>4, SameOver
  <1>16. Same(y, s + u, z, s + u, l - t)
    <2>1. m - s \in Nat /\ l - t \in Nat /\ u + (l - t) <= m - s
      BY <1>2, <1>10
    <2>2. Same(y, s + u, a, s + u, l - t)
      BY <2>1, <1>2, <1>11, SameWithin
    <2>3. Same(y, s + u, x, t, l - t)
      BY <2>2, <1>5, SameOver
    <2>4. PICK d : d = t - s
      OBVIOUS
    <2>5. d \in Nat /\ l - s \in Nat /\ d + (l - t) <= l - s /\ s + d = t
      BY <2>4, <1>2
    <2>6. Same(b, s + d, x, s + d, l - t)
      BY <2>1, <2>5, <1>2, <1>6, SameWithin
    <2>7. Same(z, s + u, x, t, l - t)
      BY <2>5, <2>6, <1>12, SameOver
    <2>8. Same(x, t, z, s + u, l - t)
      BY <2>7, SameTurned
    <2>9. QED BY <2>3, <2>8, SameOver
  <1>17. y = z
    <2>1. /\ 0 + (s - 1) = s - 1 /\ (s - 1) + 1 = s /\ 0 + s = s /\ 0 + (s + u) = s + u
          /\ (s + u) + (l - t) = m /\ l - t \in Nat /\ s + u \in Nat /\ 1 \in Nat /\ 0 \in Nat
      BY <1>2, <1>10
    <2>2. Same(y, 0, z, 0, s)
      <3>1. Same(y, 0, z, 0, (s - 1) + 1)
        BY <2>1, <1>2, <1>13, <1>14, SameJoined
      <3>2. QED BY <3>1, <2>1
    <2>3. Same(y, 0, z, 0, s + u)
      BY <2>1, <2>2, <1>2, <1>15, SameJoined
    <2>4. Same(y, 0, z, 0, (s + u) + (l - t))
      BY <2>1, <2>3, <1>16, SameJoined
    <2>5. QED BY <2>1, <2>4, <1>11, <1>12, SameText
  <1>18. SubSeq(b, s + 1, t) = SubSeq(x, s + 1, t)
    <2>1. PICK f : f = SubSeq(b, s + 1, t)
      OBVIOUS
    <2>2. PICK g : g = SubSeq(x, s + 1, t)
      OBVIOUS
    <2>3. /\ IsText(f) /\ Len(f) = t - s /\ Same(f, 0, b, s, t - s)
          /\ IsText(g) /\ Len(g) = t - s /\ Same(g, 0, x, s, t - s)
      <3>1. s \in Nat /\ t \in Nat /\ s <= t /\ t <= Len(b) /\ t <= Len(x)
        BY <1>1, <1>2, <1>6
      <3>2. IsText(b) /\ IsText(x)
        BY <1>6
      <3>3. /\ IsText(SubSeq(b, s + 1, t)) /\ Len(SubSeq(b, s + 1, t)) = t - s
            /\ Same(SubSeq(b, s + 1, t), 0, b, s, t - s)
        BY <3>1, <3>2, PartIs
      <3>4. /\ IsText(SubSeq(x, s + 1, t)) /\ Len(SubSeq(x, s + 1, t)) = t - s
            /\ Same(SubSeq(x, s + 1, t), 0, x, s, t - s)
        BY <3>1, <3>2, PartIs
      <3>5. QED BY <2>1, <2>2, <3>3, <3>4
    <2>4. t - s \in Nat /\ l - s \in Nat /\ 0 + (t - s) <= l - s /\ s + 0 = s /\ 0 \in Nat
      BY <1>2
    <2>5. Same(b, s + 0, x, s + 0, t - s)
      BY <2>4, <1>2, <1>6, SameWithin
    <2>6. Same(f, 0, x, s, t - s) /\ Same(x, s, g, 0, t - s)
      BY <2>3, <2>4, <2>5, SameOver, SameTurned
    <2>7. Same(f, 0, g, 0, t - s)
      BY <2>6, SameOver
    <2>8. QED BY <2>1, <2>2, <2>3, <2>7, SameText
  <1>19. QED BY <1>1, <1>3, <1>4, <1>7, <1>8, <1>9, <1>17, <1>18 DEF Reversal

LEMMA RunStartIs ==
  ASSUME NEW x, NEW n \in Nat
  PROVE  RunStart(x, n) \in 0 .. n
  <1>1. PICK T : T = {s \in 0 .. n : \A i \in s + 1 .. n : x[i] = "r"}
    OBVIOUS
  <1>2. PICK R : R = {r \in Nat \X Nat : r[1] < r[2]}
    OBVIOUS
  <1>3. n \in T /\ T \subseteq Nat
    BY <1>1
  <1>4. PICK s \in T : \A y \in T : ~(<<y, s>> \in R)
    BY <1>2, <1>3, LessIsWellFounded, WFMin
  <1>5. s \in 0 .. n /\ \A i \in s + 1 .. n : x[i] = "r"
    BY <1>1, <1>4
  <1>6. s = 0 \/ x[s] # "r"
    <2>1. SUFFICES ASSUME s # 0, x[s] = "r" PROVE FALSE
      OBVIOUS
    <2>2. s - 1 \in 0 .. n /\ \A i \in (s - 1) + 1 .. n : x[i] = "r"
      BY <1>5, <2>1
    <2>3. s - 1 \in T /\ <<s - 1, s>> \in R
      BY <2>2, <1>1, <1>2, <1>5
    <2>4. QED BY <2>3, <1>4
  <1>7. QED BY <1>5, <1>6 DEF RunStart

(* The run rewritten before the edit, if there is one.                      *)
LEMMA CascadeFits ==
  ASSUME NEW x, IsText(x), NEW n \in Nat, n <= Len(x)
  PROVE  \/ Cascade(x, n) = <<>>
         \/ \E e : Cascade(x, n) = <<e>> /\ Fits(e, x)
  <1>1. PICK s : s = RunStart(x, n)
    OBVIOUS
  <1>2. s \in 0 .. n
    BY <1>1, RunStartIs
  <1>3. CASE s = n
    BY <1>1, <1>3 DEF Cascade
  <1>4. CASE s # n
    <2>1. PICK t : t = [i \in 1 .. n - s |-> "n"]
      OBVIOUS
    <2>2. n - s \in Nat /\ "n" \in Bytes
      BY <1>2 DEF Bytes
    <2>3. t \in Seq(Bytes)
      BY <2>1, <2>2
    <2>4. PICK e : e = Edit(s, n, t)
      OBVIOUS
    <2>5. Fits(e, x)
      BY <2>3, <2>4, <1>2 DEF Fits, Change, Edit
    <2>6. Cascade(x, n) = <<e>>
      BY <2>1, <2>4, <1>1, <1>4 DEF Cascade
    <2>7. QED BY <2>5, <2>6
  <1>5. QED BY <1>3, <1>4

LEMMA GroupsGlue ==
  ASSUME NEW e, NEW f
  PROVE  <<e>> \o <<f>> = <<e, f>>
  <1>1. PICK S, a, b : S = {e, f} /\ a = <<e>> /\ b = <<f>>
    OBVIOUS
  <1>2. PICK c, d : c = a \o b /\ d = <<e, f>>
    OBVIOUS
  <1>3. a \in Seq(S) /\ Len(a) = 1 /\ a[1] = e /\ b \in Seq(S) /\ Len(b) = 1 /\ b[1] = f
    BY <1>1
  <1>4. c \in Seq(S) /\ Len(c) = 2 /\ c[1] = e /\ c[2] = f
    <2>1. /\ c \in Seq(S) /\ Len(c) = Len(a) + Len(b)
          /\ \A i \in 1 .. Len(a) + Len(b) : c[i] = IF i <= Len(a) THEN a[i] ELSE b[i - Len(a)]
      BY <1>2, <1>3, ConcatProperties
    <2>2. Len(c) = 2 /\ c[1] = a[1] /\ c[2] = b[2 - 1] /\ 2 - 1 = 1
      BY <2>1, <1>3
    <2>3. QED BY <2>1, <2>2, <1>3
  <1>5. d \in Seq(S) /\ Len(d) = 2 /\ d[1] = e /\ d[2] = f
    BY <1>1, <1>2
  <1>6. \A i \in 1 .. Len(c) : c[i] = d[i]
    BY <1>4, <1>5
  <1>7. c = d
    BY <1>4, <1>5, <1>6, SeqEqual
  <1>8. QED BY <1>1, <1>2, <1>7

(* What a replace leaves behind: its group leads back to the text before.   *)
LEMMA OutcomeLeads ==
  ASSUME NEW x, IsText(x), NEW p, Fits(p, x)
  PROVE  Leads(Outcome(x, p).text, Outcome(x, p).group, x)
  <1>1. PICK batch : batch = Batch(x, p)
    OBVIOUS
  <1>2. PICK y : y = Applied(x, batch, Len(batch))
    OBVIOUS
  <1>3. PICK run : run = IF Len(batch) = 2 THEN Cascade(y, p.start - 1) ELSE <<>>
    OBVIOUS
  <1>4. PICK z, h : z = Applied(y, run, Len(run)) /\ h = Inverses(y, run)
    OBVIOUS
  <1>5. PICK g : g = Inverses(x, batch)
    OBVIOUS
  <1>6. Outcome(x, p) = [text |-> z, group |-> g \o h]
    BY <1>1, <1>2, <1>3, <1>4, <1>5 DEF Outcome
  <1>7. Leads(y, g, x) /\ (Len(batch) = 2 => p.start - 1 \in Nat /\ p.start - 1 <= Len(y))
    <2>1. CASE ~NeedsRewrite(x, p.start, p.end, p.text)
      <3>1. batch = <<p>>
        BY <1>1, <2>1 DEF Batch
      <3>2. Len(batch) = 1 /\ batch[1] = p
        BY <3>1
      <3>3. y = Done(x, p)
        BY <3>2, <1>2, AppliedIs
      <3>4. g = <<Reversal(x, p)>>
        BY <3>1, <1>5, InversesOfOne
      <3>5. Fits(Reversal(x, p), y) /\ IsText(y) /\ Done(y, Reversal(x, p)) = x
        BY <3>3, DoneIs, InverseFits, TakenBack
      <3>6. Leads(y, g, x)
        BY <3>4, <3>5, LeadsOne
      <3>7. QED BY <3>2, <3>6
    <2>2. CASE NeedsRewrite(x, p.start, p.end, p.text)
      <3>1. PICK r : r = Edit(p.start - 1, p.start, <<"n">>)
        OBVIOUS
      <3>2. batch = <<r, p>>
        BY <1>1, <2>2, <3>1 DEF Batch
      <3>3. Len(batch) = 2 /\ batch[2] = p /\ batch[1] = r
        BY <3>2
      <3>4. p.start \in Nat /\ p.end \in Nat /\ Len(x) \in Nat /\ p.start <= p.end /\ p.end <= Len(x)
            /\ p.start > 0
        BY <2>2, FitsIs DEF NeedsRewrite
      <3>5. Fits(r, x) /\ r.end = p.start /\ r.start = p.start - 1 /\ Len(r.text) = 1
        <4>1. <<"n">> \in Seq(Bytes) /\ Len(<<"n">>) = 1
          BY DEF Bytes
        <4>2. QED BY <3>1, <3>4, <4>1 DEF Fits, Change, Edit
      <3>6. PICK a : a = Done(x, p)
        OBVIOUS
      <3>7. PICK b : b = Done(x, r)
        OBVIOUS
      <3>8. /\ Fits(r, a) /\ Fits(p, b) /\ Done(a, r) = Done(b, p)
            /\ Reversal(b, p) = Reversal(x, p)
        BY <3>5, <3>6, <3>7, Commute
      <3>9. y = Done(a, r)
        <4>1. 2 \in 0 .. 2 /\ 2 - 1 = 1
          OBVIOUS
        <4>2. y = Applied(x, batch, 2) /\ Len(batch) \in Nat
          BY <3>3, <1>2
        <4>3. y = Done(Done(x, batch[Len(batch)]), batch[Len(batch) - 1])
          BY <4>1, <4>2, AppliedIs
        <4>4. QED BY <4>1, <4>3, <3>3, <3>6
      <3>10. IsText(a) /\ IsText(b)
        BY <3>5, <3>6, <3>7, DoneIs
      <3>11. Len(r.text) = r.end - r.start
        BY <3>4, <3>5
      <3>12. g = <<Reversal(x, r), Reversal(x, p)>>
        BY <3>2, <3>5, <3>11, <1>5, InversesOfTwo
      <3>13. PICK e, f : e = Reversal(x, r) /\ f = Reversal(x, p)
        OBVIOUS
      <3>14. Leads(b, <<e>>, x)
        BY <3>5, <3>7, <3>10, <3>13, InverseFits, TakenBack, LeadsOne
      <3>15. Leads(y, <<f>>, b)
        <4>1. y = Done(b, p) /\ f = Reversal(b, p)
          BY <3>8, <3>9, <3>13
        <4>2. Fits(f, y) /\ Done(y, f) = b /\ IsText(y)
          BY <4>1, <3>8, <3>10, DoneIs, InverseFits, TakenBack
        <4>3. QED BY <4>2, LeadsOne
      <3>16. g = <<e>> \o <<f>>
        BY <3>12, <3>13, GroupsGlue
      <3>17. Leads(y, g, x)
        BY <3>14, <3>15, <3>16, LeadsOn
      <3>18. Len(y) = Len(a) /\ Len(a) \in Nat /\ p.start <= Len(a)
        <4>1. /\ Len(a) = Len(x) + Len(p.text) - (p.end - p.start) /\ Len(p.text) \in Nat
              /\ Len(y) = Len(a) + Len(r.text) - (r.end - r.start) /\ Len(a) \in Nat
          BY <3>6, <3>8, <3>9, <3>10, DoneIs, FitsIs, TextIs
        <4>2. QED BY <4>1, <3>4, <3>5
      <3>19. p.start - 1 \in Nat /\ p.start - 1 <= Len(y)
        BY <3>4, <3>18
      <3>20. QED BY <3>17, <3>19
    <2>3. QED BY <2>1, <2>2
  <1>8. IsText(y)
    BY <1>7, LeadsTexts
  <1>9. run = <<>> \/ \E e : run = <<e>> /\ Fits(e, y)
    BY <1>3, <1>7, <1>8, CascadeFits
  <1>10. CASE run = <<>>
    <2>1. Len(run) = 0 /\ h = <<>>
      BY <1>10, <1>4, InversesOfNone
    <2>2. z = y
      BY <2>1, <1>4, AppliedIs
    <2>3. g \in Seq(Change)
      BY <1>7 DEF Leads
    <2>4. g \o h = g
      BY <2>1, <2>3, ConcatEmptySeq
    <2>5. QED BY <2>2, <2>4, <1>6, <1>7
  <1>11. CASE \E e : run = <<e>> /\ Fits(e, y)
    <2>1. PICK e : run = <<e>> /\ Fits(e, y)
      BY <1>11
    <2>2. Len(run) = 1 /\ run[1] = e
      BY <2>1
    <2>3. z = Done(y, e)
      BY <2>2, <1>4, AppliedIs
    <2>4. h = <<Reversal(y, e)>>
      BY <2>1, <1>4, <1>8, InversesOfOne
    <2>5. Fits(Reversal(y, e), z) /\ IsText(z) /\ Done(z, Reversal(y, e)) = y
      BY <2>1, <2>3, <1>8, DoneIs, InverseFits, TakenBack
    <2>6. Leads(z, h, y)
      BY <2>4, <2>5, LeadsOne
    <2>7. QED BY <2>6, <1>6, <1>7, LeadsOn
  <1>12. QED BY <1>9, <1>10, <1>11

-----------------------------------------------------------------------------
(* The hits of a replace-all, taken out and put back.                       *)
Under(hits, k) == {h \in hits : h < k}

LEMMA HitsCount ==
  ASSUME NEW n \in Nat, NEW hits \in SUBSET (1 .. n)
  PROVE  /\ IsFiniteSet(hits) /\ Cardinality(hits) \in Nat /\ Cardinality(hits) <= n
         /\ Cardinality(Under(hits, 1)) = 0
         /\ Cardinality(Under(hits, n + 1)) = Cardinality(hits)
         /\ \A k \in 1 .. n :
              /\ Cardinality(Under(hits, k)) \in 0 .. k - 1
              /\ Cardinality(Under(hits, k + 1)) =
                   IF k \in hits THEN Cardinality(Under(hits, k)) + 1 ELSE Cardinality(Under(hits, k))
  <1>1. ASSUME NEW m \in Nat
        PROVE  IsFiniteSet(1 .. m) /\ Cardinality(1 .. m) = m
    <2>1. 1 \in Int /\ m \in Int
      OBVIOUS
    <2>2. IsFiniteSet(1 .. m) /\ Cardinality(1 .. m) = IF 1 > m THEN 0 ELSE m - 1 + 1
      BY <2>1, FS_Interval
    <2>3. QED BY <2>2
  <1>2. IsFiniteSet(hits) /\ Cardinality(hits) \in Nat /\ Cardinality(hits) <= n
    <2>1. IsFiniteSet(1 .. n) /\ Cardinality(1 .. n) = n /\ hits \subseteq 1 .. n
      BY <1>1
    <2>2. IsFiniteSet(hits) /\ Cardinality(hits) <= Cardinality(1 .. n)
      BY <2>1, FS_Subset
    <2>3. Cardinality(hits) \in Nat
      BY <2>2, FS_CardinalityType
    <2>4. QED BY <2>1, <2>2, <2>3
  <1>7. \A h \in hits : h \in Nat /\ h >= 1 /\ h <= n
    OBVIOUS
  <1>3. Cardinality(Under(hits, 1)) = 0
    <2>0. \A h \in hits : ~(h < 1)
      BY <1>7
    <2>1. Under(hits, 1) = {}
      BY <2>0 DEF Under
    <2>2. QED BY <2>1, FS_EmptySet
  <1>4. Cardinality(Under(hits, n + 1)) = Cardinality(hits)
    <2>0. \A h \in hits : h < n + 1
      BY <1>7
    <2>1. Under(hits, n + 1) = hits
      BY <2>0 DEF Under
    <2>2. QED BY <2>1
  <1>5. ASSUME NEW k \in 1 .. n
        PROVE  /\ Cardinality(Under(hits, k)) \in 0 .. k - 1
               /\ Cardinality(Under(hits, k + 1)) =
                    IF k \in hits THEN Cardinality(Under(hits, k)) + 1 ELSE Cardinality(Under(hits, k))
    <2>1. PICK u : u = Under(hits, k)
      OBVIOUS
    <2>0. k \in Nat /\ k >= 1 /\ \A h \in u : h \in hits /\ h < k
      BY <2>1 DEF Under
    <2>2. u \subseteq 1 .. k - 1 /\ k - 1 \in Nat
      <3>1. \A h \in u : h \in Nat /\ h >= 1 /\ h < k
        BY <2>0, <1>7
      <3>2. \A h \in u : h \in 1 .. k - 1
        BY <2>0, <3>1
      <3>3. k - 1 \in Nat
        BY <2>0
      <3>4. QED BY <3>2, <3>3
    <2>3. /\ IsFiniteSet(1 .. k - 1) /\ Cardinality(1 .. k - 1) = k - 1
          /\ IsFiniteSet(u) /\ Cardinality(u) <= Cardinality(1 .. k - 1)
      BY <2>2, <1>1, FS_Subset
    <2>4. Cardinality(u) \in Nat
      BY <2>3, FS_CardinalityType
    <2>5. Cardinality(u) \in 0 .. k - 1
      BY <2>2, <2>3, <2>4
    <2>6. k \notin u
      BY <2>2
    <2>7. CASE k \in hits
      <3>0. \A h \in hits : h < k + 1 <=> h < k \/ h = k
        BY <2>0, <1>7
      <3>1. Under(hits, k + 1) = u \union {k}
        BY <2>1, <2>7, <3>0 DEF Under
      <3>2. Cardinality(u \union {k}) = Cardinality(u) + 1
        BY <2>3, <2>6, FS_AddElement
      <3>3. QED BY <2>1, <2>5, <2>7, <3>1, <3>2
    <2>8. CASE k \notin hits
      <3>0. \A h \in hits : h < k + 1 <=> h < k
        BY <2>0, <2>8, <1>7
      <3>1. Under(hits, k + 1) = u
        BY <2>1, <3>0 DEF Under
      <3>2. QED BY <2>1, <2>5, <2>8, <3>1
    <2>9. QED BY <2>7, <2>8
  <1>6. QED BY <1>2, <1>3, <1>4, <1>5

LEMMA WithoutUnfolds ==
  ASSUME NEW x, Len(x) \in Nat, NEW hits
  PROVE  \E W : /\ Without(hits, x) = W[Len(x)] /\ W[0] = <<>>
                /\ \A k \in 1 .. Len(x) : W[k] = IF k \in hits THEN W[k - 1] ELSE Append(W[k - 1], x[k])
  <1>1. PICK n : n = Len(x)
    OBVIOUS
  <1>2. PICK S : S = {m \in 0 .. n : \E f : f = [k \in 0 .. m |-> IF k = 0 THEN <<>>
                        ELSE IF k \in hits THEN f[k - 1] ELSE Append(f[k - 1], x[k])]}
    OBVIOUS
  <1>3. 0 \in S
    <2>1. PICK f : f = [k \in 0 .. 0 |-> <<>>]
      OBVIOUS
    <2>2. f = [k \in 0 .. 0 |-> IF k = 0 THEN <<>>
                 ELSE IF k \in hits THEN f[k - 1] ELSE Append(f[k - 1], x[k])]
      BY <2>1
    <2>3. QED BY <2>2, <1>1, <1>2
  <1>4. ASSUME NEW m \in 1 .. n, m - 1 \in S PROVE m \in S
    <2>1. PICK f : f = [k \in 0 .. m - 1 |-> IF k = 0 THEN <<>>
                          ELSE IF k \in hits THEN f[k - 1] ELSE Append(f[k - 1], x[k])]
      BY <1>2, <1>4
    <2>2. PICK g : g = [k \in 0 .. m |-> IF k \in 0 .. m - 1 THEN f[k]
                          ELSE IF m \in hits THEN f[m - 1] ELSE Append(f[m - 1], x[m])]
      OBVIOUS
    <2>3. m \in Nat /\ m >= 1 /\ n \in Nat
      BY <1>1
    <2>4. \A k \in 0 .. m - 1 : g[k] = f[k]
      BY <2>2, <2>3
    <2>5. ASSUME NEW k \in 0 .. m
          PROVE  g[k] = IF k = 0 THEN <<>>
                        ELSE IF k \in hits THEN g[k - 1] ELSE Append(g[k - 1], x[k])
      <3>1. CASE k = 0
        BY <3>1, <2>1, <2>3, <2>4
      <3>2. CASE k # 0 /\ k <= m - 1
        <4>1. k \in 0 .. m - 1 /\ k - 1 \in 0 .. m - 1
          BY <3>2, <2>3
        <4>2. f[k] = IF k \in hits THEN f[k - 1] ELSE Append(f[k - 1], x[k])
          BY <4>1, <3>2, <2>1
        <4>3. QED BY <4>1, <4>2, <3>2, <2>4
      <3>3. CASE k = m
        <4>1. k \notin 0 .. m - 1 /\ k # 0 /\ k - 1 \in 0 .. m - 1
          BY <3>3, <2>3
        <4>2. g[k] = IF m \in hits THEN f[m - 1] ELSE Append(f[m - 1], x[m])
          BY <4>1, <2>2
        <4>3. QED BY <4>1, <4>2, <3>3, <2>4
      <3>4. QED BY <3>1, <3>2, <3>3, <2>3
    <2>6. g = [k \in 0 .. m |-> IF k = 0 THEN <<>>
                 ELSE IF k \in hits THEN g[k - 1] ELSE Append(g[k - 1], x[k])]
      <3>1. g = [k \in 0 .. m |-> g[k]]
        BY <2>2
      <3>2. QED BY <3>1, <2>5
    <2>7. m \in 0 .. n
      BY <2>3
    <2>8. QED BY <2>6, <2>7, <1>2
  <1>5. n \in S
    <2>1. n \in Nat /\ n \in 0 .. n
      BY <1>1
    <2>2. 0 .. n \subseteq S
      BY <2>1, <1>3, <1>4, Climb
    <2>3. QED BY <2>1, <2>2
  <1>6. PICK f : f = [k \in 0 .. Len(x) |-> IF k = 0 THEN <<>>
                        ELSE IF k \in hits THEN f[k - 1] ELSE Append(f[k - 1], x[k])]
    BY <1>1, <1>2, <1>5
  <1>7. PICK W : /\ W = CHOOSE h : h = [k \in 0 .. Len(x) |-> IF k = 0 THEN <<>>
                          ELSE IF k \in hits THEN h[k - 1] ELSE Append(h[k - 1], x[k])]
                 /\ Without(hits, x) = W[Len(x)]
    BY DEF Without
  <1>8. W = [k \in 0 .. Len(x) |-> IF k = 0 THEN <<>>
               ELSE IF k \in hits THEN W[k - 1] ELSE Append(W[k - 1], x[k])]
    BY <1>6, <1>7
  <1>9. W[0] = <<>>
    BY <1>8
  <1>10. ASSUME NEW k \in 1 .. Len(x)
         PROVE  W[k] = IF k \in hits THEN W[k - 1] ELSE Append(W[k - 1], x[k])
    <2>1. k \in 0 .. Len(x) /\ k # 0
      OBVIOUS
    <2>2. QED BY <2>1, <1>8
  <1>11. Without(hits, x) = W[Len(x)]
    BY <1>7
  <1>12. QED BY <1>9, <1>10, <1>11

LEMMA WithoutIs ==
  ASSUME NEW x, IsText(x), NEW hits \in SUBSET (1 .. Len(x))
  PROVE  /\ IsText(Without(hits, x))
         /\ Len(Without(hits, x)) = Len(x) - Cardinality(hits)
         /\ \A k \in 1 .. Len(x) : k \notin hits =>
              /\ k - Cardinality(Under(hits, k)) \in 1 .. Len(Without(hits, x))
              /\ Without(hits, x)[k - Cardinality(Under(hits, k))] = x[k]
  <1>1. PICK n : n = Len(x)
    OBVIOUS
  <1>2. n \in Nat /\ \A i \in 1 .. n : x[i] \in Bytes
    BY <1>1, TextIs
  <1>3. PICK W : /\ Without(hits, x) = W[n] /\ W[0] = <<>>
                 /\ \A k \in 1 .. n : W[k] = IF k \in hits THEN W[k - 1] ELSE Append(W[k - 1], x[k])
    <2>1. Len(x) \in Nat
      BY TextIs
    <2>2. PICK W : /\ Without(hits, x) = W[Len(x)] /\ W[0] = <<>>
                   /\ \A k \in 1 .. Len(x) :
                        W[k] = IF k \in hits THEN W[k - 1] ELSE Append(W[k - 1], x[k])
      BY <2>1, WithoutUnfolds
    <2>3. \A k \in 1 .. n : W[k] = IF k \in hits THEN W[k - 1] ELSE Append(W[k - 1], x[k])
      BY <1>1, <2>2
    <2>4. Without(hits, x) = W[n] /\ W[0] = <<>>
      BY <1>1, <2>2
    <2>5. QED BY <2>3, <2>4
  <1>4. PICK c : c = [k \in 1 .. n + 1 |-> Cardinality(Under(hits, k))]
    OBVIOUS
  <1>5. \A k \in 1 .. n + 1 : c[k] = Cardinality(Under(hits, k))
    BY <1>4
  <1>6. /\ c[1] = 0 /\ c[n + 1] = Cardinality(hits)
        /\ \A k \in 1 .. n : c[k] \in 0 .. k - 1 /\ c[k + 1] = IF k \in hits THEN c[k] + 1 ELSE c[k]
    <2>1. 1 \in 1 .. n + 1 /\ n + 1 \in 1 .. n + 1 /\ \A k \in 1 .. n : k \in 1 .. n + 1 /\ k + 1 \in 1 .. n + 1
      BY <1>2
    <2>2. /\ Cardinality(Under(hits, 1)) = 0
          /\ Cardinality(Under(hits, n + 1)) = Cardinality(hits)
          /\ \A k \in 1 .. n :
               /\ Cardinality(Under(hits, k)) \in 0 .. k - 1
               /\ Cardinality(Under(hits, k + 1)) =
                    IF k \in hits THEN Cardinality(Under(hits, k)) + 1 ELSE Cardinality(Under(hits, k))
      BY <1>1, <1>2, HitsCount
    <2>3. c[1] = 0 /\ c[n + 1] = Cardinality(hits)
      BY <1>5, <2>1, <2>2
    <2>4. ASSUME NEW k \in 1 .. n
          PROVE  c[k] \in 0 .. k - 1 /\ c[k + 1] = IF k \in hits THEN c[k] + 1 ELSE c[k]
      BY <1>5, <2>1, <2>2
    <2>5. QED BY <2>3, <2>4
  <1>7. PICK S : S = {k \in 0 .. n : /\ IsText(W[k]) /\ Len(W[k]) = k - c[k + 1]
                                     /\ \A j \in 1 .. k : j \notin hits =>
                                          j - c[j] \in 1 .. Len(W[k]) /\ W[k][j - c[j]] = x[j]}
    OBVIOUS
  <1>8. 0 \in S
    <2>1. IsText(<<>>) /\ Len(<<>>) = 0
      BY DEF IsText
    <2>2. 0 + 1 = 1 /\ 0 \in 0 .. n /\ 1 .. 0 = {}
      BY <1>2
    <2>3. IsText(W[0]) /\ Len(W[0]) = 0 - c[0 + 1]
      BY <2>1, <2>2, <1>3, <1>6
    <2>4. QED BY <2>2, <2>3, <1>7
  <1>9. ASSUME NEW k \in 1 .. n, k - 1 \in S PROVE k \in S
    <2>1. PICK w : w = W[k - 1]
      OBVIOUS
    <2>2. k \in Nat /\ k >= 1 /\ k <= n /\ (k - 1) + 1 = k /\ k \in 0 .. n
      BY <1>2
    <2>3. /\ IsText(w) /\ Len(w) = (k - 1) - c[k] /\ Len(w) \in Nat
          /\ \A j \in 1 .. k - 1 : j \notin hits =>
               j - c[j] \in 1 .. Len(w) /\ w[j - c[j]] = x[j]
      <3>1. /\ IsText(w) /\ Len(w) = (k - 1) - c[(k - 1) + 1]
            /\ \A j \in 1 .. k - 1 : j \notin hits =>
                 j - c[j] \in 1 .. Len(w) /\ w[j - c[j]] = x[j]
        BY <1>7, <1>9, <2>1
      <3>2. QED BY <3>1, <2>2, TextIs
    <2>4. c[k] \in Nat /\ c[k] <= k - 1 /\ c[k + 1] = IF k \in hits THEN c[k] + 1 ELSE c[k]
      BY <1>6, <2>2
    <2>5. CASE k \in hits
      <3>1. W[k] = w
        BY <1>3, <2>1, <2>5
      <3>2. Len(w) = k - c[k + 1]
        BY <2>2, <2>3, <2>4, <2>5
      <3>3. ASSUME NEW j \in 1 .. k, j \notin hits
            PROVE  j - c[j] \in 1 .. Len(w) /\ w[j - c[j]] = x[j]
        <4>1. j \in 1 .. k - 1
          BY <3>3, <2>2, <2>5
        <4>2. QED BY <4>1, <3>3, <2>3
      <3>4. QED BY <3>1, <3>2, <3>3, <2>2, <2>3, <1>7
    <2>6. CASE k \notin hits
      <3>1. W[k] = Append(w, x[k])
        BY <1>3, <2>1, <2>6
      <3>2. PICK v : v = Append(w, x[k])
        OBVIOUS
      <3>3. /\ IsText(v) /\ Len(v) = Len(w) + 1 /\ v[Len(w) + 1] = x[k]
            /\ \A i \in 1 .. Len(w) : v[i] = w[i]
        <4>1. x[k] \in Bytes
          BY <1>2
        <4>2. QED BY <4>1, <3>2, <2>3 DEF IsText
      <3>4. Len(v) = k - c[k + 1]
        BY <2>2, <2>3, <2>4, <2>6, <3>3
      <3>5. ASSUME NEW j \in 1 .. k, j \notin hits
            PROVE  j - c[j] \in 1 .. Len(v) /\ v[j - c[j]] = x[j]
        <4>1. CASE j = k
          <5>1. j - c[j] = Len(w) + 1
            BY <4>1, <2>2, <2>3, <2>4
          <5>2. Len(w) + 1 \in 1 .. Len(v)
            BY <2>3, <3>3
          <5>3. QED BY <4>1, <5>1, <5>2, <3>3
        <4>2. CASE j # k
          <5>1. j \in 1 .. k - 1
            BY <4>2, <2>2
          <5>2. j - c[j] \in 1 .. Len(w) /\ w[j - c[j]] = x[j]
            BY <5>1, <3>5, <2>3
          <5>3. \A i \in 1 .. Len(w) : i \in 1 .. Len(v)
            BY <2>3, <3>3
          <5>4. QED BY <5>2, <5>3, <3>3
        <4>3. QED BY <4>1, <4>2
      <3>6. QED BY <3>1, <3>2, <3>3, <3>4, <3>5, <2>2, <1>7
    <2>7. QED BY <2>5, <2>6
  <1>10. n \in S
    <2>1. n \in 0 .. n
      BY <1>2
    <2>2. 0 .. n \subseteq S
      BY <1>2, <1>8, <1>9, Climb
    <2>3. QED BY <2>1, <2>2
  <1>11. /\ IsText(W[n]) /\ Len(W[n]) = n - c[n + 1]
         /\ \A j \in 1 .. n : j \notin hits =>
              j - c[j] \in 1 .. Len(W[n]) /\ W[n][j - c[j]] = x[j]
    BY <1>7, <1>10
  <1>12. \A j \in 1 .. n : c[j] = Cardinality(Under(hits, j))
    BY <1>2, <1>5
  <1>13. QED BY <1>1, <1>3, <1>6, <1>11, <1>12

LEMMA Grown ==
  ASSUME NEW x, IsText(x), NEW k \in 1 .. Len(x)
  PROVE  SubSeq(x, 1, k) = Append(SubSeq(x, 1, k - 1), x[k])
  <1>1. Len(x) \in Nat /\ k \in Nat /\ k <= Len(x) /\ k - 1 \in Nat /\ k - 1 <= Len(x) /\ x[k] \in Bytes
    BY TextIs
  <1>2. PICK a : a = SubSeq(x, 1, k)
    OBVIOUS
  <1>3. PICK b : b = SubSeq(x, 1, k - 1)
    OBVIOUS
  <1>4. IsText(a) /\ Len(a) = k /\ Same(a, 0, x, 0, k)
    BY <1>1, <1>2, FirstIs
  <1>5. IsText(b) /\ Len(b) = k - 1 /\ Same(b, 0, x, 0, k - 1)
    BY <1>1, <1>3, FirstIs
  <1>6. PICK v : v = Append(b, x[k])
    OBVIOUS
  <1>7. IsText(v) /\ Len(v) = k /\ v[k] = x[k] /\ \A i \in 1 .. k - 1 : v[i] = b[i]
    BY <1>1, <1>5, <1>6 DEF IsText
  <1>8. \A i \in 1 .. k : a[i] = x[i]
    BY <1>4 DEF Same
  <1>9. \A i \in 1 .. k - 1 : b[i] = x[i]
    BY <1>5 DEF Same
  <1>10. \A i \in 1 .. k : a[i] = v[i]
    <2>1. \A i \in 1 .. k : i = k \/ i \in 1 .. k - 1
      BY <1>1
    <2>2. QED BY <2>1, <1>7, <1>8, <1>9
  <1>11. a = v
    BY <1>4, <1>7, <1>10, SeqEqual DEF IsText
  <1>12. QED BY <1>2, <1>3, <1>6, <1>11

(* What a replace-all took out is put back where it was.                    *)
LEMMA HitsPutBack ==
  ASSUME NEW x, IsText(x)
  PROVE  /\ IsText(Without(Hits(x), x)) /\ Len(Without(Hits(x), x)) <= Len(x)
         /\ With(Hits(x), Without(Hits(x), x)) = x
  <1>1. PICK n, hits : n = Len(x) /\ hits = Hits(x)
    OBVIOUS
  <1>2. n \in Nat /\ DOMAIN x = 1 .. n
    BY <1>1, TextIs
  <1>3. hits \in SUBSET (1 .. n) /\ \A k \in hits : x[k] = "n"
    BY <1>1, <1>2 DEF Hits
  <1>4. PICK y : y = Without(hits, x)
    OBVIOUS
  <1>5. /\ IsText(y) /\ Len(y) = n - Cardinality(hits)
        /\ \A k \in 1 .. n : k \notin hits =>
             /\ k - Cardinality(Under(hits, k)) \in 1 .. Len(y)
             /\ y[k - Cardinality(Under(hits, k))] = x[k]
    BY <1>1, <1>3, <1>4, WithoutIs
  <1>6. Cardinality(hits) \in Nat /\ Cardinality(hits) <= n
    BY <1>2, <1>3, HitsCount
  <1>7. Len(y) + Cardinality(hits) = n /\ Len(y) <= n /\ DOMAIN y = 1 .. Len(y)
    BY <1>2, <1>5, <1>6, TextIs
  <1>8. PICK f : f = [k \in 0 .. n |-> SubSeq(x, 1, k)]
    OBVIOUS
  <1>9. /\ \A k \in 0 .. n : f[k] = SubSeq(x, 1, k)
        /\ f[0] = <<>>
    <2>1. 0 \in 0 .. n /\ 0 \in Nat /\ 0 <= Len(x)
      BY <1>1, <1>2
    <2>2. Len(SubSeq(x, 1, 0)) = 0 /\ IsText(SubSeq(x, 1, 0))
      BY <2>1, FirstIs
    <2>3. SubSeq(x, 1, 0) = <<>>
      BY <2>2, EmptySeq DEF IsText
    <2>4. QED BY <1>8, <2>1, <2>3
  <1>10. ASSUME NEW k \in 1 .. n
         PROVE  k - 1 \in 0 .. n /\ k \in 0 .. n /\ f[k] = Append(f[k - 1], x[k])
    <2>1. k - 1 \in 0 .. n /\ k \in 0 .. n /\ k \in 1 .. Len(x)
      BY <1>1, <1>2
    <2>2. QED BY <2>1, <1>9, Grown
  <1>12. ASSUME NEW k \in 1 .. n, k \notin hits
         PROVE  k - Cardinality({h \in hits : h < k}) \in DOMAIN y
                /\ y[k - Cardinality({h \in hits : h < k})] = x[k]
    BY <1>5, <1>7, <1>12 DEF Under
  <1>13. ASSUME NEW k \in 0 .. n
         PROVE  f[k] = IF k = 0 THEN <<>>
                       ELSE IF k \in hits THEN Append(f[k - 1], "n")
                       ELSE LET i == k - Cardinality({h \in hits : h < k})
                            IN IF i \in DOMAIN y THEN Append(f[k - 1], y[i]) ELSE f[k - 1]
    <2>1. CASE k = 0
      BY <2>1, <1>9
    <2>2. CASE k # 0 /\ k \in hits
      <3>1. f[k] = Append(f[k - 1], "n")
        BY <2>2, <1>3, <1>10
      <3>2. QED BY <2>2, <3>1
    <2>3. CASE k # 0 /\ k \notin hits
      <3>1. k \in 1 .. n
        BY <2>3, <1>2
      <3>2. PICK i : i = k - Cardinality({h \in hits : h < k})
        OBVIOUS
      <3>3. i \in DOMAIN y /\ y[i] = x[k]
        BY <3>1, <3>2, <2>3, <1>12
      <3>4. f[k] = Append(f[k - 1], y[i])
        BY <3>1, <3>3, <1>10
      <3>5. QED BY <2>3, <3>2, <3>3, <3>4
    <2>4. QED BY <2>1, <2>2, <2>3
  <1>14. f = [k \in 0 .. n |-> IF k = 0 THEN <<>>
                ELSE IF k \in hits THEN Append(f[k - 1], "n")
                ELSE LET i == k - Cardinality({h \in hits : h < k})
                     IN IF i \in DOMAIN y THEN Append(f[k - 1], y[i]) ELSE f[k - 1]]
    <2>1. f = [k \in 0 .. n |-> f[k]]
      BY <1>8
    <2>2. QED BY <2>1, <1>13
  <1>15. PICK W : /\ W = CHOOSE g : g = [k \in 0 .. n |-> IF k = 0 THEN <<>>
                           ELSE IF k \in hits THEN Append(g[k - 1], "n")
                           ELSE LET i == k - Cardinality({h \in hits : h < k})
                                IN IF i \in DOMAIN y THEN Append(g[k - 1], y[i]) ELSE g[k - 1]]
                  /\ With(hits, y) = W[n]
    BY <1>7 DEF With
  <1>16. W = [k \in 0 .. n |-> IF k = 0 THEN <<>>
                ELSE IF k \in hits THEN Append(W[k - 1], "n")
                ELSE LET i == k - Cardinality({h \in hits : h < k})
                     IN IF i \in DOMAIN y THEN Append(W[k - 1], y[i]) ELSE W[k - 1]]
    BY <1>14, <1>15
  <1>17. PICK S : S = {k \in 0 .. n : W[k] = f[k]}
    OBVIOUS
  <1>18. 0 \in S
    <2>1. 0 \in 0 .. n
      BY <1>2
    <2>2. W[0] = <<>>
      BY <2>1, <1>16
    <2>3. QED BY <2>1, <2>2, <1>9, <1>17
  <1>19. ASSUME NEW k \in 1 .. n, k - 1 \in S PROVE k \in S
    <2>1. k \in 0 .. n /\ k # 0 /\ W[k - 1] = f[k - 1]
      BY <1>2, <1>17, <1>19
    <2>2. CASE k \in hits
      <3>1. W[k] = Append(W[k - 1], "n")
        BY <2>1, <2>2, <1>16
      <3>2. f[k] = Append(f[k - 1], "n")
        BY <2>2, <1>3, <1>10
      <3>3. QED BY <2>1, <3>1, <3>2, <1>17
    <2>3. CASE k \notin hits
      <3>1. PICK i : i = k - Cardinality({h \in hits : h < k})
        OBVIOUS
      <3>2. i \in DOMAIN y /\ y[i] = x[k]
        BY <3>1, <2>3, <1>12
      <3>3. W[k] = IF i \in DOMAIN y THEN Append(W[k - 1], y[i]) ELSE W[k - 1]
        BY <2>1, <2>3, <3>1, <1>16
      <3>4. W[k] = f[k]
        BY <3>2, <3>3, <2>1, <1>10
      <3>5. QED BY <2>1, <3>4, <1>17
    <2>4. QED BY <2>2, <2>3
  <1>20. n \in S
    <2>1. n \in 0 .. n
      BY <1>2
    <2>2. 0 .. n \subseteq S
      BY <1>2, <1>18, <1>19, Climb
    <2>3. QED BY <2>1, <2>2
  <1>21. W[n] = SubSeq(x, 1, n)
    BY <1>9, <1>17, <1>20
  <1>22. SubSeq(x, 1, n) = x
    <2>1. n \in Nat /\ n <= Len(x)
      BY <1>1, <1>2
    <2>2. /\ IsText(SubSeq(x, 1, n)) /\ Len(SubSeq(x, 1, n)) = n
          /\ Same(SubSeq(x, 1, n), 0, x, 0, n)
      BY <2>1, FirstIs
    <2>3. QED BY <2>2, <1>1, SameText
  <1>23. QED BY <1>1, <1>4, <1>5, <1>7, <1>15, <1>21, <1>22

-----------------------------------------------------------------------------
(* The line of contents: the steps of the two stacks, oldest first and      *)
(* nearest last, each from one id to a later one.                          *)
Moves == [kind : Steps, group : Seq(Change), hits : SUBSET Nat, layer : Nat, before : Nat, after : Nat]
Levels == [id : Nat, base : Seq(Bytes), text : Seq(Bytes), pristine : BOOLEAN]

Named(f) ==
  /\ DOMAIN f = Ids
  /\ \A i \in Ids : IsText(f[i]) /\ Len(f[i]) <= MaxLen
Tabled(t, g) == t \in Seq(Levels) /\ Len(t) > 0 /\ \A k \in 1 .. Len(t) : t[k].id <= g

Replaces(f, e) ==
  /\ e.kind = "replace" /\ e.group = <<>>
  /\ e.hits = Hits(f[e.before]) /\ f[e.after] = Without(e.hits, f[e.before])
(* The level under that of a replace-all is the content before it.          *)
Layered(t, f, e) ==
  e.layer # 0 => \A k \in 1 .. Len(t) : t[k].id = e.layer => k > 1 /\ t[k - 1].text = f[e.before]
(* Undone or redone, a step leads to the content that its id names.         *)
Backs(f, t, g, n) ==
  {e \in Moves : /\ e.before < e.after /\ e.after < n
                 /\ e.layer <= g /\ Layered(t, f, e)
                 /\ \/ e.kind = "edits" /\ Leads(f[e.after], e.group, f[e.before])
                    \/ Replaces(f, e)}
Forths(f, n) ==
  {e \in Moves : /\ e.before < e.after /\ e.after < n
                 /\ \/ e.kind = "edits" /\ Leads(f[e.before], e.group, f[e.after])
                    \/ Replaces(f, e)}

(* Each step ends where the next one begins, the last one at the present.   *)
LinkedBack(s, cur) ==
  /\ \A i \in 1 .. Len(s) : s[i].after = IF i = Len(s) THEN cur ELSE s[i + 1].before
  /\ \A i \in 1 .. Len(s) : s[i].before < cur
  /\ \A i, j \in 1 .. Len(s) : i < j => s[i].before < s[j].before
LinkedForth(s, cur) ==
  /\ \A i \in 1 .. Len(s) : s[i].before = IF i = Len(s) THEN cur ELSE s[i + 1].after
  /\ \A i \in 1 .. Len(s) : cur < s[i].after
  /\ \A i, j \in 1 .. Len(s) : i < j => s[j].after < s[i].after

LEMMA BackGrows ==
  ASSUME NEW S \in SUBSET Moves, NEW s \in Seq(S), NEW c \in Nat, LinkedBack(s, c),
         NEW e \in S, NEW d \in Nat, e.before = c, e.after = d, c < d
  PROVE  Append(s, e) \in Seq(S) /\ LinkedBack(Append(s, e), d)
  <1>1. PICK z, n : z = Append(s, e) /\ n = Len(s)
    OBVIOUS
  <1>2. /\ z \in Seq(S) /\ n \in Nat /\ Len(z) = n + 1 /\ z[n + 1] = e
        /\ \A i \in 1 .. n : z[i] = s[i]
    BY <1>1
  <1>3. \A i \in 1 .. n : s[i].before \in Nat /\ s[i].before < c
    <2>1. \A i \in 1 .. n : s[i] \in Moves
      BY <1>1
    <2>2. \A i \in 1 .. n : s[i].before \in Nat
      BY <2>1 DEF Moves
    <2>3. \A i \in 1 .. n : s[i].before < c
      BY <1>1 DEF LinkedBack
    <2>4. QED BY <2>2, <2>3
  <1>4. ASSUME NEW i \in 1 .. n + 1
        PROVE  /\ z[i].after = IF i = n + 1 THEN d ELSE z[i + 1].before
               /\ z[i].before < d
    <2>1. CASE i = n + 1
      BY <2>1, <1>2
    <2>2. CASE i = n
      BY <2>2, <1>1, <1>2, <1>3 DEF LinkedBack
    <2>3. CASE i < n
      <3>1. i \in 1 .. n /\ i + 1 \in 1 .. n /\ i # n /\ i # n + 1
        BY <2>3, <1>2
      <3>2. s[i].after = s[i + 1].before
        BY <3>1, <1>1 DEF LinkedBack
      <3>3. QED BY <3>1, <3>2, <1>2, <1>3
    <2>4. QED BY <2>1, <2>2, <2>3, <1>2
  <1>5. ASSUME NEW i \in 1 .. n + 1, NEW j \in 1 .. n + 1, i < j
        PROVE  z[i].before < z[j].before
    <2>1. i \in 1 .. n
      BY <1>2, <1>5
    <2>2. CASE j = n + 1
      BY <2>1, <2>2, <1>2, <1>3
    <2>3. CASE j # n + 1
      <3>1. j \in 1 .. n
        BY <2>3, <1>2
      <3>2. s[i].before < s[j].before
        BY <2>1, <3>1, <1>1, <1>5 DEF LinkedBack
      <3>3. QED BY <2>1, <3>1, <3>2, <1>2
    <2>4. QED BY <2>2, <2>3
  <1>6. LinkedBack(z, d)
    BY <1>2, <1>4, <1>5 DEF LinkedBack
  <1>7. QED BY <1>1, <1>2, <1>6

LEMMA BackForgets ==
  ASSUME NEW S \in SUBSET Moves, NEW s \in Seq(S), NEW c, LinkedBack(s, c), Len(s) > 0
  PROVE  /\ Tail(s) \in Seq(S) /\ LinkedBack(Tail(s), c)
         /\ Len(Tail(s)) = Len(s) - 1 /\ \A i \in 1 .. Len(s) - 1 : Tail(s)[i] = s[i + 1]
  <1>1. PICK z, n : z = Tail(s) /\ n = Len(s)
    OBVIOUS
  <1>2. /\ z \in Seq(S) /\ n \in Nat /\ Len(z) = n - 1
        /\ \A i \in 1 .. n - 1 : z[i] = s[i + 1]
    BY <1>1
  <1>3. ASSUME NEW i \in 1 .. n - 1
        PROVE  /\ z[i].after = IF i = n - 1 THEN c ELSE z[i + 1].before
               /\ z[i].before < c
    <2>1. i + 1 \in 1 .. n /\ (i = n - 1 <=> i + 1 = n)
      BY <1>2
    <2>2. /\ s[i + 1].after = IF i + 1 = n THEN c ELSE s[(i + 1) + 1].before
          /\ s[i + 1].before < c
      BY <2>1, <1>1 DEF LinkedBack
    <2>3. CASE i = n - 1
      BY <2>1, <2>2, <2>3, <1>2
    <2>4. CASE i # n - 1
      <3>1. i + 1 \in 1 .. n - 1
        BY <2>4, <1>2
      <3>2. z[i + 1] = s[(i + 1) + 1]
        BY <3>1, <1>2
      <3>3. QED BY <2>1, <2>2, <2>4, <3>2, <1>2
    <2>5. QED BY <2>3, <2>4
  <1>4. ASSUME NEW i \in 1 .. n - 1, NEW j \in 1 .. n - 1, i < j
        PROVE  z[i].before < z[j].before
    <2>1. i + 1 \in 1 .. n /\ j + 1 \in 1 .. n /\ i + 1 < j + 1
      BY <1>2, <1>4
    <2>2. s[i + 1].before < s[j + 1].before
      BY <2>1, <1>1 DEF LinkedBack
    <2>3. QED BY <2>2, <1>2
  <1>5. LinkedBack(z, c)
    BY <1>2, <1>3, <1>4 DEF LinkedBack
  <1>6. QED BY <1>1, <1>2, <1>5

LEMMA FrontIs ==
  ASSUME NEW S, NEW s \in Seq(S), s # <<>>
  PROVE  /\ Front(s) \in Seq(S) /\ Len(s) \in Nat /\ Len(s) > 0 /\ s[Len(s)] \in S
         /\ Len(Front(s)) = Len(s) - 1
         /\ \A i \in 1 .. Len(s) - 1 : Front(s)[i] = s[i]
  <1>1. PICK n : n = Len(s)
    OBVIOUS
  <1>2. n \in Nat /\ n > 0 /\ s[n] \in S /\ \A i \in 1 .. n : s[i] \in S
    BY <1>1
  <1>3. PICK k : k = n - 1
    OBVIOUS
  <1>4. k \in Nat /\ k <= n
    BY <1>2, <1>3
  <1>5. /\ SubSeq(s, 1, k) = [i \in 1 .. k |-> s[i]]
        /\ Len(SubSeq(s, 1, k)) = k
    BY <1>1, <1>4
  <1>6. SubSeq(s, 1, k) \in Seq(S)
    <2>1. \A i \in 1 .. k : s[i] \in S
      BY <1>2, <1>4
    <2>2. QED BY <2>1, <1>4, <1>5
  <1>7. QED BY <1>1, <1>2, <1>3, <1>5, <1>6 DEF Front

LEMMA BackShrinks ==
  ASSUME NEW S \in SUBSET Moves, NEW s \in Seq(S), NEW c, LinkedBack(s, c), s # <<>>
  PROVE  /\ Front(s) \in Seq(S) /\ LinkedBack(Front(s), s[Len(s)].before)
         /\ s[Len(s)] \in S /\ s[Len(s)].after = c
  <1>1. PICK z, n : z = Front(s) /\ n = Len(s)
    OBVIOUS
  <1>2. /\ z \in Seq(S) /\ n \in Nat /\ n > 0 /\ s[n] \in S /\ Len(z) = n - 1
        /\ \A i \in 1 .. n - 1 : z[i] = s[i]
    BY <1>1, FrontIs
  <1>3. n \in 1 .. n
    BY <1>2
  <1>4. s[n].after = c
    BY <1>1, <1>3 DEF LinkedBack
  <1>5. ASSUME NEW i \in 1 .. n - 1
        PROVE  /\ z[i].after = IF i = n - 1 THEN s[n].before ELSE z[i + 1].before
               /\ z[i].before < s[n].before
    <2>1. i \in 1 .. n /\ i < n /\ i # n
      BY <1>2
    <2>2. s[i].after = s[i + 1].before /\ s[i].before < s[n].before
      BY <2>1, <1>1, <1>3 DEF LinkedBack
    <2>3. CASE i = n - 1
      <3>1. i + 1 = n
        BY <2>3, <1>2
      <3>2. QED BY <2>2, <2>3, <3>1, <1>2
    <2>4. CASE i # n - 1
      <3>1. i + 1 \in 1 .. n - 1
        BY <2>4, <1>2
      <3>2. QED BY <2>2, <2>4, <3>1, <1>2
    <2>5. QED BY <2>3, <2>4
  <1>6. ASSUME NEW i \in 1 .. n - 1, NEW j \in 1 .. n - 1, i < j
        PROVE  z[i].before < z[j].before
    <2>1. i \in 1 .. n /\ j \in 1 .. n
      BY <1>2
    <2>2. s[i].before < s[j].before
      BY <2>1, <1>1, <1>6 DEF LinkedBack
    <2>3. QED BY <2>2, <1>2
  <1>7. LinkedBack(z, s[n].before)
    BY <1>2, <1>5, <1>6 DEF LinkedBack
  <1>8. QED BY <1>1, <1>2, <1>4, <1>7

(* The last step ends later.                                               *)
LEMMA BackJoins ==
  ASSUME NEW S \in SUBSET Moves, NEW s \in Seq(S), NEW c \in Nat, LinkedBack(s, c), s # <<>>,
         NEW e, e.before = s[Len(s)].before, NEW d \in Nat, e.after = d, c < d,
         NEW T \in SUBSET Moves, S \subseteq T, e \in T
  PROVE  [s EXCEPT ![Len(s)] = e] \in Seq(T) /\ LinkedBack([s EXCEPT ![Len(s)] = e], d)
  <1>1. PICK z, n : z = [s EXCEPT ![Len(s)] = e] /\ n = Len(s)
    OBVIOUS
  <1>2. n \in Nat /\ n > 0 /\ n \in 1 .. n
    BY <1>1
  <1>3. s \in Seq(T)
    OBVIOUS
  <1>4. /\ z \in Seq(T) /\ Len(z) = n /\ z[n] = e
        /\ \A i \in 1 .. n : i # n => z[i] = s[i]
    BY <1>1, <1>2, <1>3
  <1>5. \A i \in 1 .. n : s[i].before \in Nat /\ s[i].before < c /\ z[i].before = s[i].before
    <2>1. \A i \in 1 .. n : s[i] \in Moves
      BY <1>1
    <2>2. \A i \in 1 .. n : s[i].before \in Nat
      BY <2>1 DEF Moves
    <2>3. \A i \in 1 .. n : s[i].before < c
      BY <1>1 DEF LinkedBack
    <2>4. \A i \in 1 .. n : z[i].before = s[i].before
      BY <1>1, <1>4
    <2>5. QED BY <2>2, <2>3, <2>4
  <1>6. ASSUME NEW i \in 1 .. n
        PROVE  /\ z[i].after = IF i = n THEN d ELSE z[i + 1].before
               /\ z[i].before < d
    <2>1. z[i].before < d
      BY <1>5
    <2>2. CASE i = n
      BY <2>1, <2>2, <1>4
    <2>3. CASE i # n
      <3>1. i + 1 \in 1 .. n
        BY <2>3, <1>2
      <3>2. s[i].after = s[i + 1].before
        BY <2>3, <1>1 DEF LinkedBack
      <3>3. z[i + 1].before = s[i + 1].before
        BY <3>1, <1>5
      <3>4. QED BY <2>1, <2>3, <3>2, <3>3, <1>4
    <2>4. QED BY <2>2, <2>3
  <1>7. ASSUME NEW i \in 1 .. n, NEW j \in 1 .. n, i < j
        PROVE  z[i].before < z[j].before
    BY <1>1, <1>5, <1>7 DEF LinkedBack
  <1>8. LinkedBack(z, d)
    BY <1>4, <1>6, <1>7 DEF LinkedBack
  <1>9. QED BY <1>1, <1>4, <1>8

LEMMA ForthGrows ==
  ASSUME NEW S \in SUBSET Moves, NEW s \in Seq(S), NEW c \in Nat, LinkedForth(s, c),
         NEW e \in S, NEW d \in Nat, e.after = c, e.before = d, d < c
  PROVE  Append(s, e) \in Seq(S) /\ LinkedForth(Append(s, e), d)
  <1>1. PICK z, n : z = Append(s, e) /\ n = Len(s)
    OBVIOUS
  <1>2. /\ z \in Seq(S) /\ n \in Nat /\ Len(z) = n + 1 /\ z[n + 1] = e
        /\ \A i \in 1 .. n : z[i] = s[i]
    BY <1>1
  <1>3. \A i \in 1 .. n : s[i].after \in Nat /\ c < s[i].after
    <2>1. \A i \in 1 .. n : s[i] \in Moves
      BY <1>1
    <2>2. \A i \in 1 .. n : s[i].after \in Nat
      BY <2>1 DEF Moves
    <2>3. \A i \in 1 .. n : c < s[i].after
      BY <1>1 DEF LinkedForth
    <2>4. QED BY <2>2, <2>3
  <1>4. ASSUME NEW i \in 1 .. n + 1
        PROVE  /\ z[i].before = IF i = n + 1 THEN d ELSE z[i + 1].after
               /\ d < z[i].after
    <2>1. CASE i = n + 1
      BY <2>1, <1>2
    <2>2. CASE i = n
      BY <2>2, <1>1, <1>2, <1>3 DEF LinkedForth
    <2>3. CASE i < n
      <3>1. i \in 1 .. n /\ i + 1 \in 1 .. n /\ i # n /\ i # n + 1
        BY <2>3, <1>2
      <3>2. s[i].before = s[i + 1].after
        BY <3>1, <1>1 DEF LinkedForth
      <3>3. QED BY <3>1, <3>2, <1>2, <1>3
    <2>4. QED BY <2>1, <2>2, <2>3, <1>2
  <1>5. ASSUME NEW i \in 1 .. n + 1, NEW j \in 1 .. n + 1, i < j
        PROVE  z[j].after < z[i].after
    <2>1. i \in 1 .. n
      BY <1>2, <1>5
    <2>2. CASE j = n + 1
      BY <2>1, <2>2, <1>2, <1>3
    <2>3. CASE j # n + 1
      <3>1. j \in 1 .. n
        BY <2>3, <1>2
      <3>2. s[j].after < s[i].after
        BY <2>1, <3>1, <1>1, <1>5 DEF LinkedForth
      <3>3. QED BY <2>1, <3>1, <3>2, <1>2
    <2>4. QED BY <2>2, <2>3
  <1>6. LinkedForth(z, d)
    BY <1>2, <1>4, <1>5 DEF LinkedForth
  <1>7. QED BY <1>1, <1>2, <1>6

LEMMA ForthShrinks ==
  ASSUME NEW S \in SUBSET Moves, NEW s \in Seq(S), NEW c, LinkedForth(s, c), s # <<>>
  PROVE  /\ Front(s) \in Seq(S) /\ LinkedForth(Front(s), s[Len(s)].after)
         /\ s[Len(s)] \in S /\ s[Len(s)].before = c
  <1>1. PICK z, n : z = Front(s) /\ n = Len(s)
    OBVIOUS
  <1>2. /\ z \in Seq(S) /\ n \in Nat /\ n > 0 /\ s[n] \in S /\ Len(z) = n - 1
        /\ \A i \in 1 .. n - 1 : z[i] = s[i]
    BY <1>1, FrontIs
  <1>3. n \in 1 .. n
    BY <1>2
  <1>4. s[n].before = c
    BY <1>1, <1>3 DEF LinkedForth
  <1>5. ASSUME NEW i \in 1 .. n - 1
        PROVE  /\ z[i].before = IF i = n - 1 THEN s[n].after ELSE z[i + 1].after
               /\ s[n].after < z[i].after
    <2>1. i \in 1 .. n /\ i < n /\ i # n
      BY <1>2
    <2>2. s[i].before = s[i + 1].after /\ s[n].after < s[i].after
      BY <2>1, <1>1, <1>3 DEF LinkedForth
    <2>3. CASE i = n - 1
      <3>1. i + 1 = n
        BY <2>3, <1>2
      <3>2. QED BY <2>2, <2>3, <3>1, <1>2
    <2>4. CASE i # n - 1
      <3>1. i + 1 \in 1 .. n - 1
        BY <2>4, <1>2
      <3>2. QED BY <2>2, <2>4, <3>1, <1>2
    <2>5. QED BY <2>3, <2>4
  <1>6. ASSUME NEW i \in 1 .. n - 1, NEW j \in 1 .. n - 1, i < j
        PROVE  z[j].after < z[i].after
    <2>1. i \in 1 .. n /\ j \in 1 .. n
      BY <1>2
    <2>2. s[j].after < s[i].after
      BY <2>1, <1>1, <1>6 DEF LinkedForth
    <2>3. QED BY <2>2, <1>2
  <1>7. LinkedForth(z, s[n].after)
    BY <1>2, <1>5, <1>6 DEF LinkedForth
  <1>8. QED BY <1>1, <1>2, <1>4, <1>7

-----------------------------------------------------------------------------
(* The levels of the table.  What lies under one stays as long as it does.  *)
TopOf(t) == t[Len(t)]
EditedTop(t, x, p) == [t EXCEPT ![Len(t)] = [t[Len(t)] EXCEPT !.text = x, !.pristine = p]]
Covered(t, id, x) == Append(t, [id |-> id, base |-> x, text |-> x, pristine |-> TRUE])
Untouched(t, u, g) ==
  \A k \in 1 .. Len(u) :
    \/ u[k].id = 0 \/ u[k].id > g
    \/ k <= Len(t) /\ u[k].id = t[k].id /\ (k > 1 => u[k - 1].text = t[k - 1].text)

LEMMA LastIs ==
  ASSUME NEW S, NEW s \in Seq(S), s # <<>>, NEW e \in S
  PROVE  /\ [s EXCEPT ![Len(s)] = e] \in Seq(S)
         /\ Len([s EXCEPT ![Len(s)] = e]) = Len(s)
         /\ [s EXCEPT ![Len(s)] = e][Len(s)] = e
         /\ \A k \in 1 .. Len(s) : k # Len(s) => [s EXCEPT ![Len(s)] = e][k] = s[k]
  OBVIOUS

LEMMA TableEdited ==
  ASSUME NEW t, NEW g \in Nat, Tabled(t, g), NEW x, IsText(x), NEW p \in BOOLEAN
  PROVE  /\ Tabled(EditedTop(t, x, p), g + 1) /\ Untouched(t, EditedTop(t, x, p), g)
         /\ TopOf(EditedTop(t, x, p)).text = x
  <1>0. PICK u : u = EditedTop(t, x, p)
    OBVIOUS
  <1>1. PICK n : n = Len(t)
    OBVIOUS
  <1>2. n \in Nat /\ n > 0 /\ t[n] \in Levels /\ \A k \in 1 .. n : t[k] \in Levels /\ t[k].id <= g
    BY <1>1 DEF Tabled
  <1>3. PICK l : l = [t[n] EXCEPT !.text = x, !.pristine = p]
    OBVIOUS
  <1>4. l \in Levels /\ l.id = t[n].id /\ l.text = x
    BY <1>2, <1>3 DEF Levels, IsText
  <1>5. /\ u \in Seq(Levels) /\ Len(u) = n /\ u[n] = l
        /\ \A k \in 1 .. n : k # n => u[k] = t[k]
    <2>1. t \in Seq(Levels) /\ t # <<>>
      BY <1>1, <1>2 DEF Tabled
    <2>2. u = [t EXCEPT ![Len(t)] = l]
      BY <1>0, <1>1, <1>3 DEF EditedTop
    <2>3. /\ [t EXCEPT ![Len(t)] = l] \in Seq(Levels)
          /\ Len([t EXCEPT ![Len(t)] = l]) = Len(t)
          /\ [t EXCEPT ![Len(t)] = l][Len(t)] = l
          /\ \A k \in 1 .. Len(t) : k # Len(t) => [t EXCEPT ![Len(t)] = l][k] = t[k]
      BY <2>1, <1>4, LastIs
    <2>4. PICK v : v = [t EXCEPT ![Len(t)] = l]
      OBVIOUS
    <2>5. /\ v \in Seq(Levels) /\ Len(v) = Len(t) /\ v[Len(t)] = l
          /\ \A k \in 1 .. Len(t) : k # Len(t) => v[k] = t[k]
      BY <2>3, <2>4
    <2>6. u = v
      BY <2>2, <2>4
    <2>7. QED BY <2>5, <2>6, <1>1
  <1>6. ASSUME NEW k \in 1 .. n
        PROVE  /\ u[k].id <= g + 1
               /\ u[k].id = t[k].id /\ (k > 1 => u[k - 1].text = t[k - 1].text)
    <2>1. u[k].id = t[k].id
      BY <1>4, <1>5
    <2>2. t[k].id \in Nat /\ t[k].id <= g
      BY <1>2 DEF Levels
    <2>3. ASSUME k > 1 PROVE u[k - 1].text = t[k - 1].text
      <3>1. k - 1 \in 1 .. n /\ k - 1 # n
        BY <1>2, <2>3
      <3>2. QED BY <3>1, <1>5
    <2>4. QED BY <2>1, <2>2, <2>3
  <1>7. Tabled(u, g + 1)
    BY <1>2, <1>5, <1>6 DEF Tabled
  <1>8. Untouched(t, u, g)
    BY <1>1, <1>2, <1>5, <1>6 DEF Untouched
  <1>9. TopOf(u).text = x
    BY <1>4, <1>5 DEF TopOf
  <1>10. QED BY <1>0, <1>7, <1>8, <1>9

LEMMA TableStacked ==
  ASSUME NEW t, NEW g \in Nat, Tabled(t, g), NEW x, IsText(x), NEW id \in {0, g + 1}
  PROVE  LET u == Covered(t, id, x)
         IN /\ Tabled(u, g + 1) /\ Untouched(t, u, g) /\ TopOf(u).text = x
            /\ \A k \in 1 .. Len(u) : u[k].id = g + 1 => k > 1 /\ u[k - 1].text = TopOf(t).text
  <1>0. PICK u : u = Covered(t, id, x)
    OBVIOUS
  <1>1. PICK n, l : n = Len(t) /\ l = [id |-> id, base |-> x, text |-> x, pristine |-> TRUE]
    OBVIOUS
  <1>2. n \in Nat /\ n > 0 /\ t[n] \in Levels /\ \A k \in 1 .. n : t[k] \in Levels /\ t[k].id <= g
    BY <1>1 DEF Tabled
  <1>3. l \in Levels /\ l.id = id /\ l.text = x /\ id \in Nat /\ id <= g + 1
    BY <1>1 DEF Levels, IsText
  <1>4. /\ u \in Seq(Levels) /\ Len(u) = n + 1 /\ u[n + 1] = l
        /\ \A k \in 1 .. n : u[k] = t[k]
    BY <1>0, <1>1, <1>3 DEF Covered, Tabled
  <1>5. \A k \in 1 .. n : t[k].id \in Nat /\ t[k].id <= g
    BY <1>2 DEF Levels
  <1>6. ASSUME NEW k \in 1 .. n + 1 PROVE u[k].id <= g + 1
    BY <1>2, <1>3, <1>4, <1>5
  <1>7. Tabled(u, g + 1)
    BY <1>2, <1>4, <1>6 DEF Tabled
  <1>8. ASSUME NEW k \in 1 .. n + 1
        PROVE  \/ u[k].id = 0 \/ u[k].id > g
               \/ k <= n /\ u[k].id = t[k].id /\ (k > 1 => u[k - 1].text = t[k - 1].text)
    <2>1. CASE k = n + 1
      BY <2>1, <1>3, <1>4
    <2>2. CASE k # n + 1
      <3>1. k \in 1 .. n /\ u[k] = t[k] /\ k <= n
        BY <2>2, <1>2, <1>4
      <3>2. ASSUME k > 1 PROVE u[k - 1] = t[k - 1]
        <4>1. k - 1 \in 1 .. n
          BY <3>1, <3>2, <1>2
        <4>2. QED BY <4>1, <1>4
      <3>3. QED BY <3>1, <3>2
    <2>3. QED BY <2>1, <2>2
  <1>9. Untouched(t, u, g)
    BY <1>1, <1>4, <1>8 DEF Untouched
  <1>10. ASSUME NEW k \in 1 .. n + 1, u[k].id = g + 1
         PROVE  k > 1 /\ u[k - 1].text = t[n].text
    <2>1. k = n + 1
      BY <1>2, <1>4, <1>5, <1>10
    <2>2. k - 1 = n /\ k > 1 /\ n \in 1 .. n
      BY <2>1, <1>2
    <2>3. QED BY <2>2, <1>4
  <1>11. TopOf(u).text = x /\ TopOf(t) = t[n]
    BY <1>1, <1>3, <1>4 DEF TopOf
  <1>12. QED BY <1>0, <1>4, <1>7, <1>9, <1>10, <1>11

LEMMA TableFront ==
  ASSUME NEW t, NEW g \in Nat, Tabled(t, g), Len(t) > 1
  PROVE  /\ Tabled(Front(t), g + 1) /\ Untouched(t, Front(t), g)
         /\ TopOf(Front(t)) = t[Len(t) - 1]
  <1>1. PICK n, u : n = Len(t) /\ u = Front(t)
    OBVIOUS
  <1>2. t \in Seq(Levels) /\ t # <<>> /\ n \in Nat /\ n > 1 /\ \A k \in 1 .. n : t[k] \in Levels /\ t[k].id <= g
    BY <1>1 DEF Tabled
  <1>3. /\ u \in Seq(Levels) /\ Len(u) = n - 1
        /\ \A k \in 1 .. n - 1 : u[k] = t[k]
    BY <1>1, <1>2, FrontIs
  <1>4. ASSUME NEW k \in 1 .. n - 1
        PROVE  u[k].id <= g + 1 /\ u[k].id = t[k].id /\ k <= n /\ (k > 1 => u[k - 1].text = t[k - 1].text)
    <2>1. k \in 1 .. n /\ t[k].id \in Nat /\ t[k].id <= g
      BY <1>2 DEF Levels
    <2>2. ASSUME k > 1 PROVE u[k - 1] = t[k - 1]
      <3>1. k - 1 \in 1 .. n - 1
        BY <1>2, <2>2
      <3>2. QED BY <3>1, <1>3
    <2>3. QED BY <2>1, <2>2, <1>2, <1>3
  <1>5. Tabled(u, g + 1)
    BY <1>2, <1>3, <1>4 DEF Tabled
  <1>6. Untouched(t, u, g)
    BY <1>1, <1>3, <1>4 DEF Untouched
  <1>7. n - 1 \in 1 .. n - 1 /\ TopOf(u) = u[n - 1]
    BY <1>2, <1>3 DEF TopOf
  <1>8. QED BY <1>1, <1>3, <1>5, <1>6, <1>7

(* The ids of old are not named anew, and so the steps stay right.          *)
Renamed(f, h, n) == \A i \in 0 .. n - 1 : h[i] = f[i]

LEMMA StepsAreKept ==
  ASSUME NEW f, NEW h, NEW n \in Nat, NEW m \in Nat, n <= m, Renamed(f, h, n),
         NEW t, NEW u, NEW g \in Nat, Untouched(t, u, g)
  PROVE  Backs(f, t, g, n) \subseteq Backs(h, u, g + 1, m) /\ Forths(f, n) \subseteq Forths(h, m)
  <1>1. ASSUME NEW e \in Moves, e.before < e.after, e.after < n
        PROVE  /\ e.after < m /\ h[e.before] = f[e.before] /\ h[e.after] = f[e.after]
    <2>1. e.before \in 0 .. n - 1 /\ e.after \in 0 .. n - 1 /\ e.after < m
      BY <1>1 DEF Moves
    <2>2. QED BY <2>1 DEF Renamed
  <1>2. ASSUME NEW e \in Backs(f, t, g, n) PROVE e \in Backs(h, u, g + 1, m)
    <2>1. /\ e \in Moves /\ e.before < e.after /\ e.after < n /\ e.layer <= g /\ Layered(t, f, e)
          /\ \/ e.kind = "edits" /\ Leads(f[e.after], e.group, f[e.before])
             \/ Replaces(f, e)
      BY <1>2 DEF Backs
    <2>2. /\ e.after < m /\ h[e.before] = f[e.before] /\ h[e.after] = f[e.after]
      BY <1>1, <2>1
    <2>3. e.layer \in Nat /\ e.layer <= g + 1
      BY <2>1 DEF Moves
    <2>4. Layered(u, h, e)
      <3>1. SUFFICES ASSUME e.layer # 0, NEW k \in 1 .. Len(u), u[k].id = e.layer
                     PROVE  k > 1 /\ u[k - 1].text = h[e.before]
        BY DEF Layered
      <3>2. u[k].id # 0 /\ ~(u[k].id > g)
        BY <3>1, <2>1, <2>3
      <3>3. k <= Len(t) /\ t[k].id = e.layer /\ (k > 1 => u[k - 1].text = t[k - 1].text)
        BY <3>1, <3>2 DEF Untouched
      <3>4. k > 1 /\ t[k - 1].text = f[e.before]
        BY <3>1, <3>3, <2>1 DEF Layered
      <3>5. QED BY <3>3, <3>4, <2>2
    <2>5. \/ e.kind = "edits" /\ Leads(h[e.after], e.group, h[e.before])
          \/ Replaces(h, e)
      BY <2>1, <2>2 DEF Replaces
    <2>6. QED BY <2>1, <2>2, <2>3, <2>4, <2>5 DEF Backs
  <1>3. ASSUME NEW e \in Forths(f, n) PROVE e \in Forths(h, m)
    <2>1. /\ e \in Moves /\ e.before < e.after /\ e.after < n
          /\ \/ e.kind = "edits" /\ Leads(f[e.before], e.group, f[e.after])
             \/ Replaces(f, e)
      BY <1>3 DEF Forths
    <2>2. /\ e.after < m /\ h[e.before] = f[e.before] /\ h[e.after] = f[e.after]
      BY <1>1, <2>1
    <2>3. \/ e.kind = "edits" /\ Leads(h[e.before], e.group, h[e.after])
          \/ Replaces(h, e)
      BY <2>1, <2>2 DEF Replaces
    <2>4. QED BY <2>1, <2>2, <2>3 DEF Forths
  <1>4. QED BY <1>2, <1>3

LEMMA NamedOn ==
  ASSUME NEW f, Named(f), NEW n \in Ids, NEW x, IsText(x), Len(x) <= MaxLen
  PROVE  \E h : h = [f EXCEPT ![n] = x] /\ Named(h) /\ h[n] = x /\ Renamed(f, h, n)
  <1>0. PICK h : h = [f EXCEPT ![n] = x]
    OBVIOUS
  <1>1. DOMAIN h = Ids /\ h[n] = x /\ \A i \in Ids : i # n => h[i] = f[i]
    BY <1>0 DEF Named
  <1>2. Named(h)
    BY <1>1 DEF Named
  <1>3. n \in Nat /\ \A i \in 0 .. n - 1 : i \in Ids /\ i # n
    BY SessionAssumption DEF Ids
  <1>4. Renamed(f, h, n)
    BY <1>1, <1>3 DEF Renamed
  <1>5. QED BY <1>0, <1>1, <1>2, <1>4

-----------------------------------------------------------------------------
(* The line as a whole, and what a change, undo, redo and a save make of it *)
Lined(t, f, g, n, st, p, r) ==
  /\ Named(f) /\ Tabled(t, g) /\ TopOf(t).text = f[st]
  /\ p \in Seq(Backs(f, t, g, n)) /\ LinkedBack(p, st)
  /\ r \in Seq(Forths(f, n)) /\ LinkedForth(r, st)

LEMMA AreMoves ==
  ASSUME NEW f, NEW t, NEW g, NEW n
  PROVE  Backs(f, t, g, n) \in SUBSET Moves /\ Forths(f, n) \in SUBSET Moves
  BY DEF Backs, Forths

LEMMA NoSteps ==
  ASSUME NEW S, NEW c
  PROVE  <<>> \in Seq(S) /\ LinkedBack(<<>>, c) /\ LinkedForth(<<>>, c)
  <1>1. PICK s : s = <<>>
    OBVIOUS
  <1>2. s \in Seq(S) /\ Len(s) = 0
    BY <1>1
  <1>3. LinkedBack(s, c) /\ LinkedForth(s, c)
    BY <1>2 DEF LinkedBack, LinkedForth
  <1>4. QED BY <1>1, <1>2, <1>3

LEMMA LineChanges ==
  ASSUME NEW t, NEW f, NEW g \in Nat, NEW n \in Nat, NEW st \in 0 .. n - 1, NEW p, NEW r,
         Lined(t, f, g, n, st, p, r),
         NEW h, Named(h), Renamed(f, h, n),
         NEW u, Tabled(u, g + 1), Untouched(t, u, g), TopOf(u).text = h[n],
         NEW e \in Backs(h, u, g + 1, n + 1), e.after = n,
         NEW q, \/ e.before = st /\ q \in {Append(p, e), Tail(Append(p, e))}
                \/ p # <<>> /\ e.before = p[Len(p)].before /\ q = [p EXCEPT ![Len(p)] = e]
  PROVE  Lined(u, h, g + 1, n + 1, n, q, <<>>)
  <1>1. n \in Nat /\ n + 1 \in Nat /\ n <= n + 1 /\ st \in Nat /\ st < n
    OBVIOUS
  <1>2. Named(f) /\ p \in Seq(Backs(f, t, g, n)) /\ LinkedBack(p, st)
    BY DEF Lined
  <1>3. PICK A, B : A = Backs(f, t, g, n) /\ B = Backs(h, u, g + 1, n + 1)
    OBVIOUS
  <1>4. A \subseteq B
    BY <1>1, <1>3, StepsAreKept
  <1>5. A \in SUBSET Moves /\ B \in SUBSET Moves
    BY <1>3, AreMoves
  <1>6. p \in Seq(A) /\ p \in Seq(B) /\ e \in B
    BY <1>2, <1>3, <1>4, SeqMonotonic
  <1>7. q \in Seq(B) /\ LinkedBack(q, n)
    <2>1. CASE e.before = st /\ q \in {Append(p, e), Tail(Append(p, e))}
      <3>1. Append(p, e) \in Seq(B) /\ LinkedBack(Append(p, e), n)
        BY <1>1, <1>2, <1>5, <1>6, <2>1, BackGrows
      <3>2. Len(Append(p, e)) > 0
        BY <1>6
      <3>3. Tail(Append(p, e)) \in Seq(B) /\ LinkedBack(Tail(Append(p, e)), n)
        BY <3>1, <3>2, <1>5, BackForgets
      <3>4. QED BY <2>1, <3>1, <3>3
    <2>2. CASE p # <<>> /\ e.before = p[Len(p)].before /\ q = [p EXCEPT ![Len(p)] = e]
      <3>1. [p EXCEPT ![Len(p)] = e] \in Seq(B) /\ LinkedBack([p EXCEPT ![Len(p)] = e], n)
        BY <1>1, <1>2, <1>4, <1>5, <1>6, <2>2, BackJoins
      <3>2. QED BY <2>2, <3>1
    <2>3. QED BY <2>1, <2>2
  <1>8. <<>> \in Seq(Forths(h, n + 1)) /\ LinkedForth(<<>>, n)
    BY NoSteps
  <1>9. QED BY <1>3, <1>7, <1>8 DEF Lined

LEMMA LineGoesBack ==
  ASSUME NEW t, NEW f, NEW g \in Nat, NEW n \in Nat, NEW st \in Nat, NEW p, NEW r,
         Lined(t, f, g, n, st, p, r), p # <<>>,
         NEW s, s = p[Len(p)],
         NEW u, Tabled(u, g + 1), Untouched(t, u, g), TopOf(u).text = f[s.before],
         NEW y \in Forths(f, n), y.before = s.before, y.after = s.after
  PROVE  Lined(u, f, g + 1, n, s.before, Front(p), Append(r, y))
  <1>1. /\ Named(f) /\ p \in Seq(Backs(f, t, g, n)) /\ LinkedBack(p, st)
        /\ r \in Seq(Forths(f, n)) /\ LinkedForth(r, st)
    BY DEF Lined
  <1>2. PICK A, B, C : A = Backs(f, t, g, n) /\ B = Backs(f, u, g + 1, n) /\ C = Forths(f, n)
    OBVIOUS
  <1>3. A \subseteq B
    <2>1. n <= n /\ Renamed(f, f, n)
      BY DEF Renamed
    <2>2. QED BY <2>1, <1>2, StepsAreKept
  <1>4. A \in SUBSET Moves /\ B \in SUBSET Moves /\ C \in SUBSET Moves
    BY <1>2, AreMoves
  <1>5. /\ Front(p) \in Seq(A) /\ LinkedBack(Front(p), s.before)
        /\ s \in A /\ s.after = st
    BY <1>1, <1>2, <1>4, BackShrinks
  <1>6. s.before \in Nat /\ s.before < st
    BY <1>2, <1>5 DEF Backs, Moves
  <1>7. Front(p) \in Seq(B)
    BY <1>3, <1>5, SeqMonotonic
  <1>8. Append(r, y) \in Seq(C) /\ LinkedForth(Append(r, y), s.before)
    BY <1>1, <1>2, <1>4, <1>5, <1>6, ForthGrows
  <1>9. QED BY <1>1, <1>2, <1>5, <1>7, <1>8 DEF Lined

LEMMA LineGoesForth ==
  ASSUME NEW t, NEW f, NEW g \in Nat, NEW n \in Nat, NEW st \in Nat, NEW p, NEW r,
         Lined(t, f, g, n, st, p, r), r # <<>>,
         NEW s, s = r[Len(r)],
         NEW u, Tabled(u, g + 1), Untouched(t, u, g), TopOf(u).text = f[s.after],
         NEW y \in Backs(f, u, g + 1, n), y.before = s.before, y.after = s.after
  PROVE  Lined(u, f, g + 1, n, s.after, Append(p, y), Front(r))
  <1>1. /\ Named(f) /\ p \in Seq(Backs(f, t, g, n)) /\ LinkedBack(p, st)
        /\ r \in Seq(Forths(f, n)) /\ LinkedForth(r, st)
    BY DEF Lined
  <1>2. PICK A, B, C : A = Backs(f, t, g, n) /\ B = Backs(f, u, g + 1, n) /\ C = Forths(f, n)
    OBVIOUS
  <1>3. A \subseteq B
    <2>1. n <= n /\ Renamed(f, f, n)
      BY DEF Renamed
    <2>2. QED BY <2>1, <1>2, StepsAreKept
  <1>4. A \in SUBSET Moves /\ B \in SUBSET Moves /\ C \in SUBSET Moves
    BY <1>2, AreMoves
  <1>5. /\ Front(r) \in Seq(C) /\ LinkedForth(Front(r), s.after)
        /\ s \in C /\ s.before = st
    BY <1>1, <1>2, <1>4, ForthShrinks
  <1>6. s.after \in Nat /\ st < s.after
    BY <1>2, <1>5 DEF Forths, Moves
  <1>7. p \in Seq(B)
    BY <1>1, <1>2, <1>3, SeqMonotonic
  <1>8. Append(p, y) \in Seq(B) /\ LinkedBack(Append(p, y), s.after)
    BY <1>1, <1>2, <1>4, <1>5, <1>6, <1>7, BackGrows
  <1>9. QED BY <1>1, <1>2, <1>5, <1>8 DEF Lined

LEMMA LineStays ==
  ASSUME NEW t, NEW f, NEW g \in Nat, NEW n \in Nat, NEW st, NEW p, NEW r,
         Lined(t, f, g, n, st, p, r),
         NEW u, Tabled(u, g + 1), Untouched(t, u, g), TopOf(u).text = TopOf(t).text
  PROVE  Lined(u, f, g + 1, n, st, p, r)
  <1>1. n <= n /\ Renamed(f, f, n)
    BY DEF Renamed
  <1>2. Backs(f, t, g, n) \subseteq Backs(f, u, g + 1, n)
    BY <1>1, StepsAreKept
  <1>3. p \in Seq(Backs(f, t, g, n))
    BY DEF Lined
  <1>4. p \in Seq(Backs(f, u, g + 1, n))
    BY <1>2, <1>3, SeqMonotonic
  <1>5. QED BY <1>4 DEF Lined

-----------------------------------------------------------------------------
(* "An id names one content for good": the content is that of its id, and   *)
(* every step leads from the content of one id to that of another.         *)
LineInv == Lined(table, named, generation, nextId, stateId, past, future)

LEMMA TextIsNamed ==
  ASSUME Journaled, LineInv, nextId <= MaxCalls + 2
  PROVE  /\ Text = TopOf(table).text /\ Text = named[stateId] /\ IsText(Text) /\ Len(Text) <= MaxLen
         /\ \A i \in 0 .. nextId - 1 : i \in Ids /\ IsText(named[i]) /\ Len(named[i]) <= MaxLen
  <1>1. Text = TopOf(table).text /\ Text = named[stateId] /\ Named(named)
    BY DEF Text, Top, TopOf, LineInv, Lined
  <1>2. \A i \in 0 .. nextId - 1 : i \in Ids
    BY SessionAssumption DEF Journaled, Ids
  <1>3. \A i \in 0 .. nextId - 1 : IsText(named[i]) /\ Len(named[i]) <= MaxLen
    BY <1>1, <1>2 DEF Named
  <1>4. stateId \in 0 .. nextId - 1
    BY DEF Journaled
  <1>5. QED BY <1>1, <1>2, <1>3, <1>4

LEMMA UndoneNone ==
  ASSUME NEW x
  PROVE  Undone(x, <<>>).group = <<>>
  <1>1. PICK g : g = <<>>
    OBVIOUS
  <1>2. Len(g) = 0 /\ 0 .. Len(g) = {0}
    BY <1>1
  <1>3. PICK w : w = [k \in 0 .. Len(g) |-> [text |-> x, group |-> <<>>]]
    OBVIOUS
  <1>4. w = [k \in 0 .. Len(g) |->
               IF k = 0 THEN [text |-> x, group |-> <<>>]
               ELSE LET u == w[k - 1]
                        e == g[Len(g) + 1 - k]
                    IN [text |-> Splice(u.text, e.start, e.end, e.text),
                        group |-> u.group \o Inverses(u.text, <<e>>)]]
    BY <1>2, <1>3
  <1>5. PICK U : /\ U = CHOOSE f : f = [k \in 0 .. Len(g) |->
                          IF k = 0 THEN [text |-> x, group |-> <<>>]
                          ELSE LET u == f[k - 1]
                                   e == g[Len(g) + 1 - k]
                               IN [text |-> Splice(u.text, e.start, e.end, e.text),
                                   group |-> u.group \o Inverses(u.text, <<e>>)]]
                 /\ Undone(x, g) = U[Len(g)]
    BY DEF Undone
  <1>6. U = [k \in 0 .. Len(g) |->
               IF k = 0 THEN [text |-> x, group |-> <<>>]
               ELSE LET u == U[k - 1]
                        e == g[Len(g) + 1 - k]
                    IN [text |-> Splice(u.text, e.start, e.end, e.text),
                        group |-> u.group \o Inverses(u.text, <<e>>)]]
    BY <1>4, <1>5
  <1>7. U[0] = [text |-> x, group |-> <<>>]
    BY <1>2, <1>6
  <1>8. QED BY <1>1, <1>2, <1>5, <1>7

LEMMA EditedIs ==
  ASSUME Journaled, LineInv, NEW x, IsText(x), Edited(x)
  PROVE  Tabled(table', generation + 1) /\ Untouched(table, table', generation) /\ TopOf(table').text = x
  <1>1. PICK p \in BOOLEAN : table' = [table EXCEPT ![Len(table)] = [Top EXCEPT !.text = x, !.pristine = p]]
    BY DEF Edited
  <1>2. PICK t : t = table
    OBVIOUS
  <1>3. generation \in Nat /\ Tabled(t, generation)
    BY <1>2 DEF Journaled, LineInv, Lined
  <1>4. PICK u : /\ u = EditedTop(t, x, p)
                 /\ Tabled(u, generation + 1) /\ Untouched(t, u, generation) /\ TopOf(u).text = x
    BY <1>3, TableEdited
  <1>5. table' = u
    BY <1>1, <1>2, <1>4 DEF Top, EditedTop
  <1>6. QED BY <1>2, <1>4, <1>5

LEMMA StackedIs ==
  ASSUME Journaled, LineInv, NEW x, IsText(x), NEW id, id = 0 \/ id = generation + 1, table' = Stacked(id, x)
  PROVE  /\ Tabled(table', generation + 1) /\ Untouched(table, table', generation) /\ TopOf(table').text = x
         /\ \A k \in 1 .. Len(table') :
              table'[k].id = generation + 1 => k > 1 /\ table'[k - 1].text = TopOf(table).text
  <1>1. PICK t, g : t = table /\ g = generation
    OBVIOUS
  <1>2. g \in Nat /\ Tabled(t, g) /\ id \in {0, g + 1}
    BY <1>1 DEF Journaled, LineInv, Lined
  <1>3. table' = Covered(t, id, x)
    BY <1>1 DEF Stacked, Covered
  <1>4. /\ Tabled(Covered(t, id, x), g + 1) /\ Untouched(t, Covered(t, id, x), g)
        /\ TopOf(Covered(t, id, x)).text = x
        /\ \A k \in 1 .. Len(Covered(t, id, x)) :
             Covered(t, id, x)[k].id = g + 1 => k > 1 /\ Covered(t, id, x)[k - 1].text = TopOf(t).text
    BY <1>2, TableStacked
  <1>5. QED BY <1>1, <1>3, <1>4

LEMMA TakenId ==
  ASSUME LineInv, nextId \in Ids, NEW x, IsText(x), Len(x) <= MaxLen, TakeStateId(x)
  PROVE  /\ stateId' = nextId /\ nextId' = nextId + 1
         /\ Named(named') /\ named'[nextId] = x /\ Renamed(named, named', nextId)
  <1>1. PICK f, n : f = named /\ n = nextId
    OBVIOUS
  <1>2. Named(f) /\ n \in Ids
    BY <1>1 DEF LineInv, Lined
  <1>3. PICK h : h = [f EXCEPT ![n] = x] /\ Named(h) /\ h[n] = x /\ Renamed(f, h, n)
    BY <1>2, NamedOn
  <1>4. named' = h
    BY <1>1, <1>3 DEF TakeStateId
  <1>5. QED BY <1>1, <1>3, <1>4 DEF TakeStateId

(* What is pushed.                                                         *)
LEMMA PushedIs ==
  ASSUME NEW e, PushUndo(e)
  PROVE  past' \in {Append(past, e), Tail(Append(past, e))}
  BY DEF PushUndo

LEMMA ApplyLines ==
  ASSUME Journaled, LineInv, nextId \in Ids,
         NEW p, Fits(p, Text), Len(Outcome(Text, p).text) <= MaxLen, NEW g, Apply(p, g)
  PROVE  LineInv'
  <1>1. PICK x, group : x = Outcome(Text, p).text /\ group = Outcome(Text, p).group
    OBVIOUS
  <1>2. Edited(x) /\ TakeStateId(x) /\ RecordGroup(group, g)
    BY <1>1 DEF Apply
  <1>3. /\ generation \in Nat /\ nextId \in Nat /\ stateId \in 0 .. nextId - 1
        /\ nextId <= MaxCalls + 2 /\ stateId \in Nat
    BY SessionAssumption DEF Journaled, Ids
  <1>4. Text = TopOf(table).text /\ Text = named[stateId] /\ IsText(Text)
    BY <1>3, TextIsNamed
  <1>5. Leads(x, group, Text)
    BY <1>1, <1>4, OutcomeLeads
  <1>6. IsText(x) /\ group \in Seq(Change) /\ Len(x) <= MaxLen
    BY <1>1, <1>5, LeadsTexts DEF Leads
  <1>7. Tabled(table', generation + 1) /\ Untouched(table, table', generation) /\ TopOf(table').text = x
    BY <1>2, <1>6, EditedIs
  <1>8. /\ stateId' = nextId /\ nextId' = nextId + 1
        /\ Named(named') /\ named'[nextId] = x /\ Renamed(named, named', nextId)
    BY <1>2, <1>6, TakenId
  <1>9. generation' = generation + 1 /\ future' = <<>>
    BY <1>2 DEF RecordGroup
  <1>10. Lined(table, named, generation, nextId, stateId, past, future)
    BY DEF LineInv
  <1>11. PICK B : B = Backs(named', table', generation + 1, nextId + 1)
    OBVIOUS
  <1>12. named'[stateId] = Text
    BY <1>3, <1>4, <1>8 DEF Renamed
  <1>13. CASE Coalesces(g)
    <2>1. past # <<>> /\ past[Len(past)].kind = "edits"
      BY <1>13 DEF Coalesces
    <2>2. PICK last : last = past[Len(past)]
      OBVIOUS
    <2>3. PICK e : e = [last EXCEPT !.group = last.group \o group, !.after = nextId]
      OBVIOUS
    <2>4. past' = [past EXCEPT ![Len(past)] = e]
      BY <1>2, <1>13, <2>2, <2>3 DEF RecordGroup
    <2>5. last \in Backs(named, table, generation, nextId) /\ last.after = stateId
      <3>1. past \in Seq(Backs(named, table, generation, nextId)) /\ LinkedBack(past, stateId)
        BY <1>10 DEF Lined
      <3>2. Backs(named, table, generation, nextId) \in SUBSET Moves
        BY AreMoves
      <3>3. QED BY <3>1, <3>2, <2>1, <2>2, BackShrinks
    <2>6. last \in B
      <3>1. nextId + 1 \in Nat /\ nextId <= nextId + 1
        BY <1>3
      <3>2. QED BY <3>1, <2>5, <1>3, <1>7, <1>8, <1>11, StepsAreKept
    <2>7. /\ last \in Moves /\ last.before < last.after /\ last.layer <= generation + 1
          /\ Layered(table', named', last)
          /\ Leads(named'[last.after], last.group, named'[last.before])
      BY <2>1, <2>2, <2>6, <1>11 DEF Backs, Replaces
    <2>8. Leads(x, last.group \o group, named'[last.before])
      <3>1. Leads(Text, last.group, named'[last.before])
        BY <2>5, <2>7, <1>12
      <3>2. QED BY <3>1, <1>5, LeadsOn
    <2>9. last.group \o group \in Seq(Change)
      BY <2>8 DEF Leads
    <2>10. /\ e \in Moves /\ e.kind = "edits" /\ e.group = last.group \o group
           /\ e.layer = last.layer /\ e.before = last.before /\ e.after = nextId
      <3>1. PICK gg : gg = last.group \o group
        OBVIOUS
      <3>2. gg \in Seq(Change) /\ e = [last EXCEPT !.group = gg, !.after = nextId]
        BY <3>1, <2>3, <2>9
      <3>3. /\ e \in Moves /\ e.kind = last.kind /\ e.group = gg
            /\ e.layer = last.layer /\ e.before = last.before /\ e.after = nextId
        BY <3>2, <2>7, <1>3 DEF Moves
      <3>4. QED BY <3>1, <3>3, <2>1, <2>2
    <2>11. e.before < e.after /\ e.after < nextId + 1
      BY <1>3, <2>5, <2>7, <2>10 DEF Moves
    <2>12. Layered(table', named', e)
      BY <2>7, <2>10 DEF Layered
    <2>13. e \in B
      BY <1>8, <1>11, <2>7, <2>8, <2>10, <2>11, <2>12 DEF Backs
    <2>14. Lined(table', named', generation + 1, nextId + 1, nextId, past', <<>>)
      BY <1>3, <1>7, <1>8, <1>10, <1>11, <2>1, <2>2, <2>4, <2>10, <2>13, LineChanges
    <2>15. QED BY <1>8, <1>9, <2>14 DEF LineInv
  <1>14. CASE ~Coalesces(g)
    <2>1. PICK e : e = EditStep(group, stateId, nextId)
      OBVIOUS
    <2>2. past' \in {Append(past, e), Tail(Append(past, e))}
      <3>1. PushUndo(e)
        BY <1>2, <1>14, <2>1 DEF RecordGroup
      <3>2. QED BY <3>1, PushedIs
    <2>3. /\ e \in Moves /\ e.kind = "edits" /\ e.group = group
          /\ e.layer = 0 /\ e.before = stateId /\ e.after = nextId
      BY <1>3, <1>6, <2>1 DEF EditStep, Moves, Steps
    <2>4. e.before < e.after /\ e.after < nextId + 1 /\ e.layer <= generation + 1
      BY <1>3, <2>3
    <2>5. Layered(table', named', e)
      BY <2>3 DEF Layered
    <2>6. e \in B
      BY <1>5, <1>8, <1>11, <1>12, <2>3, <2>4, <2>5 DEF Backs
    <2>7. Lined(table', named', generation + 1, nextId + 1, nextId, past', <<>>)
      BY <1>3, <1>7, <1>8, <1>10, <1>11, <2>2, <2>3, <2>6, LineChanges
    <2>8. QED BY <1>8, <1>9, <2>7 DEF LineInv
  <1>15. QED BY <1>13, <1>14

LEMMA ReplaceLines ==
  ASSUME Journaled, LineInv, nextId \in Ids, NEW hits, hits = Hits(Text), InstallReplace(hits)
  PROVE  LineInv'
  <1>1. PICK x : x = Without(hits, Text)
    OBVIOUS
  <1>2. /\ generation \in Nat /\ nextId \in Nat /\ stateId \in 0 .. nextId - 1
        /\ nextId <= MaxCalls + 2 /\ stateId \in Nat
    BY SessionAssumption DEF Journaled, Ids
  <1>3. Text = TopOf(table).text /\ Text = named[stateId] /\ IsText(Text) /\ Len(Text) <= MaxLen
        /\ Len(Text) \in Nat
    BY <1>2, TextIsNamed, TextIs
  <1>4. IsText(x) /\ Len(x) <= MaxLen
    <2>1. IsText(x) /\ Len(x) <= Len(Text)
      BY <1>1, <1>3, HitsPutBack
    <2>2. Len(x) \in Nat /\ MaxLen \in Nat
      BY <2>1, TextIs, SessionAssumption
    <2>3. QED BY <2>1, <2>2, <1>3
  <1>5. PICK id : id = generation + 1
    OBVIOUS
  <1>6. table' = Stacked(id, x) /\ TakeStateId(x) /\ generation' = generation + 1 /\ future' = <<>>
    BY <1>1, <1>5 DEF InstallReplace
  <1>7. /\ Tabled(table', generation + 1) /\ Untouched(table, table', generation) /\ TopOf(table').text = x
        /\ \A k \in 1 .. Len(table') :
             table'[k].id = generation + 1 => k > 1 /\ table'[k - 1].text = TopOf(table).text
    BY <1>4, <1>5, <1>6, StackedIs
  <1>8. /\ stateId' = nextId /\ nextId' = nextId + 1
        /\ Named(named') /\ named'[nextId] = x /\ Renamed(named, named', nextId)
    BY <1>4, <1>6, TakenId
  <1>9. PICK e : e = ReplaceStep(hits, generation + 1, stateId, nextId)
    OBVIOUS
  <1>10. past' \in {Append(past, e), Tail(Append(past, e))}
    <2>1. PushUndo(e)
      BY <1>9 DEF InstallReplace
    <2>2. QED BY <2>1, PushedIs
  <1>11. hits \in SUBSET Nat
    BY <1>3, TextIs DEF Hits
  <1>12. /\ e \in Moves /\ e.kind = "replace" /\ e.group = <<>> /\ e.hits = hits
         /\ e.layer = generation + 1 /\ e.before = stateId /\ e.after = nextId
    <2>1. <<>> \in Seq(Change)
      OBVIOUS
    <2>2. /\ e.kind = "replace" /\ e.group = <<>> /\ e.hits = hits
          /\ e.layer = generation + 1 /\ e.before = stateId /\ e.after = nextId
      BY <1>9 DEF ReplaceStep
    <2>3. e \in Moves
      BY <1>2, <1>9, <1>11, <2>1 DEF ReplaceStep, Moves, Steps
    <2>4. QED BY <2>2, <2>3
  <1>13. e.before < e.after /\ e.after < nextId + 1 /\ e.layer <= generation + 1
    BY <1>2, <1>12
  <1>14. named'[stateId] = Text
    BY <1>2, <1>3, <1>8 DEF Renamed
  <1>15. Layered(table', named', e)
    BY <1>3, <1>7, <1>12, <1>14 DEF Layered
  <1>16. Replaces(named', e)
    BY <1>1, <1>8, <1>12, <1>14 DEF Replaces
  <1>17. e \in Backs(named', table', generation + 1, nextId + 1)
    BY <1>12, <1>13, <1>15, <1>16 DEF Backs
  <1>18. Lined(table, named, generation, nextId, stateId, past, future)
    BY DEF LineInv
  <1>19. Lined(table', named', generation + 1, nextId + 1, nextId, past', <<>>)
    BY <1>2, <1>7, <1>8, <1>10, <1>12, <1>17, <1>18, LineChanges
  <1>20. QED BY <1>6, <1>8, <1>19 DEF LineInv

(* Undo leads to the text that the id names, be it through the group, by    *)
(* taking off the layer of a replace-all, or by putting one over it.        *)
LEMMA UndoLines ==
  ASSUME Journaled, LineInv, nextId <= MaxCalls + 2, "reload" \notin Fails, Undo
  PROVE  LineInv' /\ Len(past) > 0 /\ stateId' = past[Len(past)].before
         /\ past' = Front(past) /\ named' = named
         /\ \E y : future' = Append(future, y) /\ y.before = past[Len(past)].before /\ y.after = stateId
  <1>1. /\ nextId' = nextId /\ generation' = generation + 1 /\ named' = named
        /\ past # <<>> /\ past' = Front(past)
    BY DEF Undo
  <1>2. /\ generation \in Nat /\ nextId \in Nat /\ stateId \in 0 .. nextId - 1 /\ stateId \in Nat
    BY DEF Journaled
  <1>3. Text = TopOf(table).text /\ Text = named[stateId] /\ IsText(Text)
    BY TextIsNamed
  <1>4. Lined(table, named, generation, nextId, stateId, past, future)
    BY DEF LineInv
  <1>5. PICK s : s = past[Len(past)]
    OBVIOUS
  <1>6. s \in Backs(named, table, generation, nextId) /\ s.after = stateId /\ Len(past) > 0
    <2>1. past \in Seq(Backs(named, table, generation, nextId)) /\ LinkedBack(past, stateId)
      BY <1>4 DEF Lined
    <2>2. Backs(named, table, generation, nextId) \in SUBSET Moves
      BY AreMoves
    <2>3. s \in Backs(named, table, generation, nextId) /\ s.after = stateId
      BY <2>1, <2>2, <1>1, <1>5, BackShrinks
    <2>4. Len(past) > 0
      BY <2>1, <1>1
    <2>5. QED BY <2>3, <2>4
  <1>7. /\ s \in Moves /\ s.before < s.after /\ s.after < nextId /\ Layered(table, named, s)
        /\ \/ s.kind = "edits" /\ Leads(named[s.after], s.group, named[s.before])
           \/ Replaces(named, s)
    BY <1>6 DEF Backs
  <1>8. s.before \in 0 .. nextId - 1 /\ IsText(named[s.before])
    <2>1. s.before \in 0 .. nextId - 1
      BY <1>2, <1>7 DEF Moves
    <2>2. QED BY <2>1, TextIsNamed
  <1>9. PICK undone : undone = Undone(Text, s.group)
    OBVIOUS
  <1>10. PICK y : y = [s EXCEPT !.group = undone.group, !.layer = 0]
    OBVIOUS
  <1>11. /\ IF s.kind = "edits" THEN Edited(undone.text) ELSE TakeBackReplace(s)
         /\ future' = Append(future, y) /\ stateId' = s.before
    BY <1>5, <1>9, <1>10 DEF Undo
  <1>12. /\ undone.group \in Seq(Change)
         /\ Tabled(table', generation + 1) /\ Untouched(table, table', generation)
         /\ TopOf(table').text = named[s.before]
         /\ s.kind = "edits" => Leads(named[s.before], undone.group, named[s.after])
         /\ s.kind # "edits" => undone.group = <<>>
    <2>1. CASE s.kind = "edits"
      <3>1. Leads(Text, s.group, named[s.before])
        BY <2>1, <1>3, <1>6, <1>7 DEF Replaces
      <3>2. undone.text = named[s.before] /\ Leads(named[s.before], undone.group, Text)
        BY <3>1, <1>9, Undoes
      <3>3. undone.group \in Seq(Change) /\ Edited(named[s.before])
        BY <3>2, <1>11, <2>1 DEF Leads
      <3>4. /\ Tabled(table', generation + 1) /\ Untouched(table, table', generation)
            /\ TopOf(table').text = named[s.before]
        BY <3>3, <1>8, EditedIs
      <3>5. QED BY <2>1, <3>2, <3>3, <3>4, <1>3, <1>6
    <2>2. CASE s.kind # "edits"
      <3>1. Replaces(named, s)
        BY <2>2, <1>7
      <3>2. undone.group = <<>>
        BY <3>1, <1>9, UndoneNone DEF Replaces
      <3>3. <<>> \in Seq(Change)
        OBVIOUS
      <3>4. TakeBackReplace(s)
        BY <2>2, <1>11
      <3>5. CASE s.layer # 0 /\ Top.id = s.layer /\ Top.pristine
        <4>1. PICK t, g : t = table /\ g = generation
          OBVIOUS
        <4>2. table' = Front(t)
          BY <3>4, <3>5, <4>1 DEF TakeBackReplace
        <4>3. Tabled(t, g) /\ g \in Nat
          BY <4>1, <1>2, <1>4 DEF Lined
        <4>4. Len(t) \in Nat /\ Len(t) \in 1 .. Len(t)
          BY <4>3 DEF Tabled
        <4>5. t[Len(t)].id = s.layer /\ s.layer # 0
          BY <3>5, <4>1 DEF Top
        <4>6. Len(t) > 1 /\ t[Len(t) - 1].text = named[s.before]
          BY <4>1, <4>4, <4>5, <1>7 DEF Layered
        <4>7. /\ Tabled(Front(t), g + 1) /\ Untouched(t, Front(t), g)
              /\ TopOf(Front(t)) = t[Len(t) - 1]
          BY <4>3, <4>6, TableFront
        <4>8. QED BY <2>2, <3>2, <3>3, <4>1, <4>2, <4>6, <4>7
      <3>6. CASE ~(s.layer # 0 /\ Top.id = s.layer /\ Top.pristine)
        <4>1. table' = Stacked(0, With(s.hits, Text))
          BY <3>4, <3>6 DEF TakeBackReplace
        <4>2. PICK x : x = named[s.before]
          OBVIOUS
        <4>3. IsText(x) /\ s.hits = Hits(x) /\ Text = Without(Hits(x), x)
          BY <4>2, <3>1, <1>3, <1>6, <1>8 DEF Replaces
        <4>4. With(s.hits, Text) = x
          BY <4>3, HitsPutBack
        <4>5. PICK id : id = 0
          OBVIOUS
        <4>6. table' = Stacked(id, x)
          BY <4>1, <4>4, <4>5
        <4>7. /\ Tabled(table', generation + 1) /\ Untouched(table, table', generation)
              /\ TopOf(table').text = x
          BY <4>3, <4>5, <4>6, StackedIs
        <4>8. QED BY <2>2, <3>2, <3>3, <4>2, <4>7
      <3>7. QED BY <3>5, <3>6
    <2>3. QED BY <2>1, <2>2
  <1>13. /\ y \in Moves /\ y.kind = s.kind /\ y.group = undone.group /\ y.hits = s.hits
         /\ y.before = s.before /\ y.after = s.after
    BY <1>7, <1>10, <1>12 DEF Moves
  <1>14. y \in Forths(named, nextId)
    <2>1. CASE s.kind = "edits"
      BY <2>1, <1>7, <1>12, <1>13 DEF Forths
    <2>2. CASE s.kind # "edits"
      <3>1. Replaces(named, y)
        BY <2>2, <1>7, <1>12, <1>13 DEF Replaces
      <3>2. QED BY <3>1, <1>7, <1>13 DEF Forths
    <2>3. QED BY <2>1, <2>2
  <1>15. Lined(table', named, generation + 1, nextId, s.before, Front(past), Append(future, y))
    BY <1>1, <1>2, <1>4, <1>5, <1>12, <1>13, <1>14, LineGoesBack
  <1>16. LineInv'
    BY <1>1, <1>11, <1>15 DEF LineInv
  <1>17. QED BY <1>1, <1>5, <1>6, <1>11, <1>13, <1>16

LEMMA RedoLines ==
  ASSUME Journaled, LineInv, nextId <= MaxCalls + 2, "reload" \notin Fails, Redo
  PROVE  LineInv' /\ Len(future) > 0 /\ stateId' = future[Len(future)].after
         /\ future' = Front(future) /\ named' = named
         /\ \E y : past' = Append(past, y) /\ y.after = future[Len(future)].after /\ y.before = stateId
  <1>1. /\ nextId' = nextId /\ generation' = generation + 1 /\ named' = named
        /\ future # <<>> /\ future' = Front(future)
    BY DEF Redo
  <1>2. /\ generation \in Nat /\ nextId \in Nat /\ stateId \in 0 .. nextId - 1 /\ stateId \in Nat
    BY DEF Journaled
  <1>3. Text = TopOf(table).text /\ Text = named[stateId] /\ IsText(Text)
    BY TextIsNamed
  <1>4. Lined(table, named, generation, nextId, stateId, past, future)
    BY DEF LineInv
  <1>5. PICK s : s = future[Len(future)]
    OBVIOUS
  <1>6. s \in Forths(named, nextId) /\ s.before = stateId /\ Len(future) > 0
    <2>1. future \in Seq(Forths(named, nextId)) /\ LinkedForth(future, stateId)
      BY <1>4 DEF Lined
    <2>2. Forths(named, nextId) \in SUBSET Moves
      BY AreMoves
    <2>3. s \in Forths(named, nextId) /\ s.before = stateId
      BY <2>1, <2>2, <1>1, <1>5, ForthShrinks
    <2>4. Len(future) > 0
      BY <2>1, <1>1
    <2>5. QED BY <2>3, <2>4
  <1>7. /\ s \in Moves /\ s.before < s.after /\ s.after < nextId
        /\ \/ s.kind = "edits" /\ Leads(named[s.before], s.group, named[s.after])
           \/ Replaces(named, s)
    BY <1>6 DEF Forths
  <1>8. s.after \in 0 .. nextId - 1 /\ IsText(named[s.after])
    <2>1. s.after \in 0 .. nextId - 1
      BY <1>2, <1>7 DEF Moves
    <2>2. QED BY <2>1, TextIsNamed
  <1>9. PICK undone : undone = Undone(Text, s.group)
    OBVIOUS
  <1>10. PICK layer : layer = IF s.kind = "edits" THEN 0 ELSE generation + 1
    OBVIOUS
  <1>11. PICK y : y = [s EXCEPT !.group = undone.group, !.layer = layer]
    OBVIOUS
  <1>12. /\ IF s.kind = "edits" THEN Edited(undone.text)
            ELSE table' = Stacked(generation + 1, Without(s.hits, Text))
         /\ past' = Append(past, y) /\ stateId' = s.after
    BY <1>5, <1>9, <1>10, <1>11 DEF Redo
  <1>13. /\ undone.group \in Seq(Change)
         /\ Tabled(table', generation + 1) /\ Untouched(table, table', generation)
         /\ TopOf(table').text = named[s.after]
         /\ s.kind = "edits" => Leads(named[s.after], undone.group, named[s.before])
         /\ s.kind # "edits" =>
              /\ undone.group = <<>>
              /\ \A k \in 1 .. Len(table') :
                   table'[k].id = generation + 1 => k > 1 /\ table'[k - 1].text = named[s.before]
    <2>1. CASE s.kind = "edits"
      <3>1. Leads(Text, s.group, named[s.after])
        BY <2>1, <1>3, <1>6, <1>7 DEF Replaces
      <3>2. undone.text = named[s.after] /\ Leads(named[s.after], undone.group, Text)
        BY <3>1, <1>9, Undoes
      <3>3. undone.group \in Seq(Change) /\ Edited(named[s.after])
        BY <3>2, <1>12, <2>1 DEF Leads
      <3>4. /\ Tabled(table', generation + 1) /\ Untouched(table, table', generation)
            /\ TopOf(table').text = named[s.after]
        BY <3>3, <1>8, EditedIs
      <3>5. QED BY <2>1, <3>2, <3>3, <3>4, <1>3, <1>6
    <2>2. CASE s.kind # "edits"
      <3>1. Replaces(named, s)
        BY <2>2, <1>7
      <3>2. undone.group = <<>>
        BY <3>1, <1>9, UndoneNone DEF Replaces
      <3>3. <<>> \in Seq(Change)
        OBVIOUS
      <3>4. PICK x : x = named[s.after]
        OBVIOUS
      <3>5. PICK id : id = generation + 1
        OBVIOUS
      <3>6. IsText(x) /\ Without(s.hits, Text) = x
        BY <3>1, <3>4, <1>3, <1>6, <1>8 DEF Replaces
      <3>7. table' = Stacked(id, x)
        BY <2>2, <3>5, <3>6, <1>12
      <3>8. /\ Tabled(table', generation + 1) /\ Untouched(table, table', generation)
            /\ TopOf(table').text = x
            /\ \A k \in 1 .. Len(table') :
                 table'[k].id = generation + 1 => k > 1 /\ table'[k - 1].text = TopOf(table).text
        BY <3>5, <3>6, <3>7, StackedIs
      <3>9. TopOf(table).text = named[s.before]
        BY <1>3, <1>6
      <3>10. QED BY <2>2, <3>2, <3>3, <3>4, <3>8, <3>9
    <2>3. QED BY <2>1, <2>2
  <1>14. /\ y \in Moves /\ y.kind = s.kind /\ y.group = undone.group /\ y.hits = s.hits
         /\ y.layer = layer /\ y.before = s.before /\ y.after = s.after
    <2>1. layer \in Nat
      BY <1>2, <1>10
    <2>2. QED BY <2>1, <1>7, <1>11, <1>13 DEF Moves
  <1>15. y \in Backs(named, table', generation + 1, nextId)
    <2>1. layer <= generation + 1
      BY <1>2, <1>10
    <2>2. CASE s.kind = "edits"
      <3>1. Layered(table', named, y)
        BY <2>2, <1>10, <1>14 DEF Layered
      <3>2. QED BY <2>1, <2>2, <3>1, <1>7, <1>13, <1>14 DEF Backs
    <2>3. CASE s.kind # "edits"
      <3>1. Replaces(named, y)
        BY <2>3, <1>7, <1>13, <1>14 DEF Replaces
      <3>2. Layered(table', named, y)
        BY <2>3, <1>10, <1>13, <1>14 DEF Layered
      <3>3. QED BY <2>1, <3>1, <3>2, <1>7, <1>14 DEF Backs
    <2>4. QED BY <2>2, <2>3
  <1>16. Lined(table', named, generation + 1, nextId, s.after, Append(past, y), Front(future))
    BY <1>1, <1>2, <1>4, <1>5, <1>13, <1>14, <1>15, LineGoesForth
  <1>17. LineInv'
    BY <1>1, <1>12, <1>16 DEF LineInv
  <1>18. QED BY <1>1, <1>5, <1>6, <1>12, <1>14, <1>17

LEMMA SaveLines ==
  ASSUME Journaled, LineInv, nextId <= MaxCalls + 2, NEW k, NEW e, Save(k, e)
  PROVE  LineInv'
  <1>1. CASE UNCHANGED content
    BY <1>1 DEF content, journal, LineInv
  <1>2. CASE ~UNCHANGED content
    <2>1. /\ table' = <<File(Text)>> /\ generation' = generation + 1
          /\ UNCHANGED <<past, future, stateId, nextId, named>>
      BY <1>2 DEF Save
    <2>2. Text = TopOf(table).text /\ IsText(Text)
      BY TextIsNamed
    <2>3. PICK l, u, g : l = File(Text) /\ u = <<l>> /\ g = generation
      OBVIOUS
    <2>4. l \in Levels /\ l.id = 0 /\ l.text = Text
      BY <2>2, <2>3 DEF File, Levels, IsText
    <2>5. u \in Seq(Levels) /\ Len(u) = 1 /\ u[1] = l /\ g \in Nat
      BY <2>3, <2>4 DEF Journaled
    <2>6. Tabled(u, g + 1) /\ Untouched(table, u, g) /\ TopOf(u).text = TopOf(table).text
      BY <2>2, <2>4, <2>5 DEF Tabled, Untouched, TopOf
    <2>7. Lined(table, named, g, nextId, stateId, past, future) /\ nextId \in Nat
      BY <2>3 DEF LineInv, Journaled
    <2>8. Lined(u, named, g + 1, nextId, stateId, past, future)
      BY <2>5, <2>6, <2>7, LineStays
    <2>9. QED BY <2>1, <2>3, <2>8 DEF LineInv
  <1>3. QED BY <1>1, <1>2

-----------------------------------------------------------------------------
(* What a pass has planned fits the content still when it is installed.     *)
PlanFits(plan, x) ==
  /\ plan.kind = "edit" => Fits(plan.edit, x) /\ Len(Outcome(x, plan.edit).text) <= MaxLen
  /\ plan.kind = "replaceAll" => plan.hits = Hits(x)
PlanInv ==
  \A p \in Threads :
    /\ cmd[p].pc = "reading" => cmd[p].call \in Passes
    /\ cmd[p].pc = "planned" => PlanFits(cmd[p].plan, Text)

LEMMA SpanFits ==
  ASSUME IsText(Text), NEW s \in Spans, NEW t, IsText(t)
  PROVE  Fits(Edit(s[1], s[2], t), Text)
  <1>1. Len(Text) \in Nat
    BY TextIs
  <1>2. s[1] \in Nat /\ s[2] \in Nat /\ s[1] <= s[2] /\ s[2] <= Len(Text)
    BY <1>1 DEF Spans
  <1>3. QED BY <1>2 DEF Edit, Fits, Change, IsText

LEMMA PlansFit ==
  ASSUME IsText(Text), NEW e, e \in RangePlans \/ e \in EnterPlans \/ e \in PastePlans
  PROVE  Fits(e, Text) /\ Len(Outcome(Text, e).text) <= MaxLen
  <1>1. \A t \in Typed : IsText(t)
    BY SessionAssumption DEF IsText
  <1>2. IsText(<<"n">>)
    BY DEF IsText, Bytes
  <1>3. ASSUME NEW s \in Spans, NEW t, t \in Typed \/ t = <<"n">>
        PROVE  Fits(Edit(s[1], s[2], t), Text)
    BY <1>1, <1>2, <1>3, SpanFits
  <1>4. CASE e \in RangePlans
    <2>1. PICK s \in Spans, t \in Typed : e = Edit(s[1], s[2], t)
      BY <1>4 DEF RangePlans, Fitting
    <2>2. Len(Outcome(Text, e).text) <= MaxLen
      BY <1>4 DEF RangePlans, Fitting
    <2>3. QED BY <2>1, <2>2, <1>3
  <1>5. CASE e \in EnterPlans
    <2>1. PICK s \in Spans : e = Edit(s[1], s[2], <<"n">>)
      BY <1>5 DEF EnterPlans, Fitting
    <2>2. Len(Outcome(Text, e).text) <= MaxLen
      BY <1>5 DEF EnterPlans, Fitting
    <2>3. QED BY <2>1, <2>2, <1>3
  <1>6. CASE e \in PastePlans
    <2>1. PICK s \in Spans, t \in Typed : e = Edit(s[1], s[2], t)
      BY <1>6 DEF PastePlans, Fitting
    <2>2. Len(Outcome(Text, e).text) <= MaxLen
      BY <1>6 DEF PastePlans, Fitting
    <2>3. QED BY <2>1, <2>2, <1>3
  <1>7. QED BY <1>4, <1>5, <1>6

LEMMA PlannedFits ==
  ASSUME IsText(Text), NEW c \in Passes, NEW plan \in Planned(c)
  PROVE  PlanFits(plan, Text)
  <1>1. ASSUME NEW plans, plan \in Edits(plans)
        PROVE  plan.kind = "edit" /\ plan.edit \in plans
    BY <1>1 DEF Edits
  <1>2. plan \in Nothing => plan.kind = "none"
    BY DEF Nothing
  <1>3. CASE c = "range"
    BY <1>1, <1>2, <1>3, PlansFit DEF Planned, PlanFits
  <1>4. CASE c = "enter"
    BY <1>1, <1>4, PlansFit DEF Planned, PlanFits
  <1>5. CASE c = "paste"
    BY <1>1, <1>2, <1>5, PlansFit DEF Planned, PlanFits
  <1>6. CASE c = "replaceAll"
    <2>1. plan.kind = "none" \/ (plan.kind = "replaceAll" /\ plan.hits = Hits(Text))
      BY <1>2, <1>6 DEF Planned
    <2>2. QED BY <2>1 DEF PlanFits
  <1>7. CASE c = "copy"
    BY <1>2, <1>7 DEF Planned, PlanFits
  <1>8. CASE c \in {"trackedUndo", "trackedRedo"}
    <2>1. plan.kind = c
      BY <1>8 DEF Planned
    <2>2. QED BY <2>1, <1>8 DEF PlanFits
  <1>9. QED BY <1>3, <1>4, <1>5, <1>6, <1>7, <1>8 DEF Passes

LEMMA PlanLetAlone ==
  ASSUME PlanInv, PassInv, PassInv', Counted, generation \in Nat,
         NEW p \in Threads, cmd'[p] = cmd[p]
  PROVE  /\ cmd'[p].pc = "reading" => cmd'[p].call \in Passes
         /\ cmd'[p].pc = "planned" => PlanFits(cmd'[p].plan, Text')
  <1>1. CASE cmd[p].pc = "planned"
    <2>1. cmd[p].gen = generation
      BY <1>1 DEF PassInv, PassUndisturbed, Reads
    <2>2. cmd'[p].gen = generation'
      BY <1>1 DEF PassInv, PassUndisturbed, Reads
    <2>3. table' = table
      BY <2>1, <2>2 DEF Counted
    <2>4. Text' = Text
      BY <2>3 DEF Text, Top
    <2>5. QED BY <1>1, <2>4 DEF PlanInv
  <1>2. CASE cmd[p].pc # "planned"
    BY <1>2 DEF PlanInv
  <1>3. QED BY <1>1, <1>2

LEMMA PlanElsewhere ==
  ASSUME PlanInv, PassInv, PassInv', Counted, generation \in Nat,
         \A q \in Threads : cmd'[q] = cmd[q] \/ cmd'[q].pc \notin {"reading", "planned"}
  PROVE  PlanInv'
  <1>1. ASSUME NEW p \in Threads
        PROVE  /\ cmd'[p].pc = "reading" => cmd'[p].call \in Passes
               /\ cmd'[p].pc = "planned" => PlanFits(cmd'[p].plan, Text')
    BY PlanLetAlone
  <1>2. QED BY <1>1 DEF PlanInv

LEMMA PlanBecomes ==
  ASSUME PlanInv, PassInv, PassInv', Counted, generation \in Nat,
         NEW p \in Threads, NEW what, Become(p, what),
         what.pc = "reading" => what.call \in Passes,
         what.pc = "planned" => PlanFits(what.plan, Text')
  PROVE  PlanInv'
  <1>1. /\ DOMAIN cmd' = Threads /\ cmd'[p] = what
        /\ \A q \in Threads : q # p => cmd'[q] = cmd[q]
    BY BecomeIs DEF PassInv
  <1>2. ASSUME NEW q \in Threads
        PROVE  /\ cmd'[q].pc = "reading" => cmd'[q].call \in Passes
               /\ cmd'[q].pc = "planned" => PlanFits(cmd'[q].plan, Text')
    <2>1. CASE q = p
      BY <1>1, <2>1
    <2>2. CASE q # p
      BY <1>1, <2>2, PlanLetAlone
    <2>3. QED BY <2>1, <2>2
  <1>3. QED BY <1>2 DEF PlanInv

LEMMA LockIdlePlans ==
  ASSUME PlanInv, PassInv, PassInv', Counted, generation \in Nat,
         NEW p \in Threads, NEW c, LockIdle(p, c)
  PROVE  PlanInv'
  <1>1. ASSUME NEW what, Become(p, what), what.pc \notin {"reading", "planned"} PROVE PlanInv'
    BY <1>1, PlanBecomes
  <1>2. CASE RunPlain(p, c) \/ Become(p, Idle) \/ Become(p, [pc |-> "asleep", call |-> c])
    BY <1>1, <1>2 DEF RunPlain, Idle
  <1>3. CASE c \in Passes /\ BeginPass(p, c)
    <2>1. PICK what : what = [pc |-> "reading", call |-> c, gen |-> generation]
      OBVIOUS
    <2>2. Become(p, what) /\ what.pc = "reading" /\ what.call \in Passes
      BY <1>3, <2>1 DEF BeginPass
    <2>3. QED BY <2>2, PlanBecomes
  <1>4. CASE \E n \in {1, 2} : BeginScan(p, n)
    BY <1>1, <1>4 DEF BeginScan
  <1>5. QED BY <1>2, <1>3, <1>4 DEF LockIdle

LEMMA PlanInvStep ==
  ASSUME "apply" \notin Fails, PlanInv, PassInv, PassInv', Threaded, generation \in Nat,
         IsText(Text), Next
  PROVE  PlanInv'
  <1>1. Counted
    BY ContentIsCounted
  <1>2. ASSUME NEW p \in Threads, NEW what, Become(p, what), what.pc \notin {"reading", "planned"} PROVE PlanInv'
    BY <1>1, <1>2, PlanBecomes
  <1>3. ASSUME NEW p \in Threads, Call(p) \/ Wake(p) PROVE PlanInv'
    BY <1>1, <1>3, LockIdlePlans DEF Call, Wake
  <1>4. ASSUME NEW p \in Threads, Read(p) PROVE PlanInv'
    <2>1. PICK plan \in Planned(cmd[p].call) :
            Become(p, [pc |-> "planned", plan |-> plan, gen |-> cmd[p].gen])
      BY <1>4 DEF Read
    <2>2. PICK what : what = [pc |-> "planned", plan |-> plan, gen |-> cmd[p].gen]
      OBVIOUS
    <2>3. cmd[p].call \in Passes /\ table' = table
      BY <1>4 DEF Read, PlanInv, content
    <2>4. Text' = Text
      BY <2>3 DEF Text, Top
    <2>5. PlanFits(plan, Text')
      BY <2>1, <2>3, <2>4, PlannedFits
    <2>6. Become(p, what) /\ what.pc = "planned" /\ what.plan = plan
      BY <2>1, <2>2
    <2>7. QED BY <1>1, <2>5, <2>6, PlanBecomes
  <1>5. ASSUME NEW p \in Threads, Install(p) PROVE PlanInv'
    BY <1>2, <1>5 DEF Install
  <1>6. ASSUME NEW p \in Threads, Finish(p) PROVE PlanInv'
    <2>1. ASSUME NEW q \in Threads
          PROVE  cmd'[q] = cmd[q] \/ cmd'[q].pc \notin {"reading", "planned"}
      <3>1. CASE q = p
        BY <3>1, <1>6 DEF Finish, Idle
      <3>2. CASE q # p /\ cmd[q].pc = "asleep"
        <4>1. cmd'[q] = [cmd[q] EXCEPT !.pc = "awake"]
          BY <3>2, <1>6 DEF Finish
        <4>2. "pc" \in DOMAIN cmd[q]
          BY DEF Threaded
        <4>3. QED BY <4>1, <4>2
      <3>3. CASE q # p /\ cmd[q].pc # "asleep"
        BY <3>3, <1>6 DEF Finish
      <3>4. QED BY <3>1, <3>2, <3>3
    <2>2. QED BY <2>1, <1>1, PlanElsewhere
  <1>7. ASSUME NEW p \in Threads, ScanBlock(p) PROVE PlanInv'
    <2>1. PICK what : Become(p, what) /\ what = [cmd[p] EXCEPT !.blocks = Append(@, Text)]
      BY <1>7 DEF ScanBlock
    <2>2. what.pc = cmd[p].pc
      BY <2>1
    <2>3. what.pc = "scanning"
      BY <1>7, <2>2 DEF ScanBlock
    <2>4. QED BY <2>1, <2>3, <1>2
  <1>8. ASSUME NEW p \in Threads, ScanStale(p) \/ ScanEnds(p) PROVE PlanInv'
    BY <1>2, <1>8 DEF ScanStale, ScanEnds, Idle
  <1>9. QED BY <1>3, <1>4, <1>5, <1>6, <1>7, <1>8 DEF Next

-----------------------------------------------------------------------------
(* The steps of a session, where no batch fails half way.                   *)
Replacing ==
  \E e, g : Fits(e, Text) /\ Len(Outcome(Text, e).text) <= MaxLen /\ Apply(e, g) /\ disk' = disk
ReplacingAll == InstallReplace(Hits(Text)) /\ disk' = disk
Undoing == Undo /\ disk' = disk
Redoing == Redo /\ disk' = disk
Saving == \E k, e : Save(k, e)
Steady == UNCHANGED <<content, disk>>

LEMMA LockIdleSteps ==
  ASSUME "apply" \notin Fails, IsText(Text), NEW p, NEW c, LockIdle(p, c)
  PROVE  Steady \/ Replacing \/ Undoing \/ Redoing \/ Saving
  <1>1. UNCHANGED <<content, files>> => Steady
    BY DEF Steady, files
  <1>2. CASE RunPlain(p, c)
    <2>1. CASE \E e \in RangePlans, g \in BOOLEAN : Apply(e, g) /\ UNCHANGED <<open, files>>
      <3>1. PICK e \in RangePlans, g \in BOOLEAN : Apply(e, g) /\ UNCHANGED <<open, files>>
        BY <2>1
      <3>2. Fits(e, Text) /\ Len(Outcome(Text, e).text) <= MaxLen
        BY PlansFit
      <3>3. disk' = disk
        BY <3>1 DEF files
      <3>4. QED BY <3>1, <3>2, <3>3 DEF Replacing
    <2>2. ASSUME NEW e PROVE ~ApplyFails(e)
      BY DEF ApplyFails
    <2>3. UNCHANGED <<open, files>> => disk' = disk
      BY DEF files
    <2>4. QED BY <1>1, <1>2, <2>1, <2>2, <2>3 DEF RunPlain, Undoing, Redoing, Saving
  <1>3. BeginPass(p, c) => Steady
    BY <1>1 DEF BeginPass
  <1>4. ASSUME NEW n, BeginScan(p, n) PROVE Steady
    BY <1>1, <1>4 DEF BeginScan
  <1>5. QED BY <1>1, <1>2, <1>3, <1>4 DEF LockIdle

LEMMA InstallSteps ==
  ASSUME "apply" \notin Fails, PlanInv, NEW p \in Threads, Install(p)
  PROVE  Steady \/ Replacing \/ ReplacingAll \/ Undoing \/ Redoing
  <1>1. PICK plan : plan = cmd[p].plan
    OBVIOUS
  <1>2. PlanFits(plan, Text)
    BY <1>1 DEF Install, PlanInv
  <1>3. disk' = disk
    BY DEF Install, files
  <1>4. ASSUME NEW e PROVE ~ApplyFails(e)
    BY DEF ApplyFails
  <1>5. \/ UNCHANGED content
        \/ plan.kind = "edit" /\ Apply(plan.edit, plan.newGroup)
        \/ plan.kind = "replaceAll" /\ InstallReplace(plan.hits)
        \/ Undo
        \/ Redo
    BY <1>1, <1>4 DEF Install
  <1>6. CASE plan.kind = "edit" /\ Apply(plan.edit, plan.newGroup)
    BY <1>2, <1>3, <1>6 DEF PlanFits, Replacing
  <1>7. CASE plan.kind = "replaceAll" /\ InstallReplace(plan.hits)
    BY <1>2, <1>3, <1>7 DEF PlanFits, ReplacingAll
  <1>8. QED BY <1>3, <1>5, <1>6, <1>7 DEF Steady, Undoing, Redoing

LEMMA SessionSteps ==
  ASSUME "apply" \notin Fails, PlanInv, IsText(Text), [Next]_vars
  PROVE  Steady \/ Replacing \/ ReplacingAll \/ Undoing \/ Redoing \/ Saving
  <1>1. UNCHANGED <<content, files>> => Steady
    BY DEF Steady, files
  <1>2. CASE UNCHANGED vars
    BY <1>1, <1>2 DEF vars
  <1>3. ASSUME NEW p \in Threads, Call(p) \/ Wake(p)
        PROVE  Steady \/ Replacing \/ Undoing \/ Redoing \/ Saving
    BY <1>3, LockIdleSteps DEF Call, Wake
  <1>4. ASSUME NEW p \in Threads, Install(p)
        PROVE  Steady \/ Replacing \/ ReplacingAll \/ Undoing \/ Redoing
    BY <1>4, InstallSteps
  <1>5. ASSUME NEW p \in Threads,
               Read(p) \/ Finish(p) \/ ScanBlock(p) \/ ScanStale(p) \/ ScanEnds(p)
        PROVE  Steady
    BY <1>1, <1>5 DEF Read, Finish, ScanBlock, ScanStale, ScanEnds
  <1>6. QED BY <1>2, <1>3, <1>4, <1>5 DEF Next

(* The bounds of an instance: an id is there for every content.             *)
IdsSuffice == Journaled /\ nextId <= MaxCalls + 2

LEMMA IdsAreThere ==
  ASSUME IdsSuffice, IdsSuffice'
  PROVE  /\ Replacing => nextId \in Ids /\ nextId' = nextId + 1
         /\ ReplacingAll => nextId \in Ids /\ nextId' = nextId + 1
  <1>1. nextId \in Nat /\ nextId' \in Nat /\ MaxCalls \in Nat /\ nextId' <= MaxCalls + 2 /\ Journaled
    BY SessionAssumption DEF IdsSuffice, Journaled
  <1>2. Replacing => nextId' = nextId + 1
    BY <1>1, ApplyTakes DEF Replacing
  <1>3. ReplacingAll => nextId' = nextId + 1
    BY <1>1, InstallReplaceTakes DEF ReplacingAll
  <1>4. nextId' = nextId + 1 => nextId \in Ids
    BY <1>1 DEF Ids
  <1>5. QED BY <1>2, <1>3, <1>4

LEMMA LineInvStep ==
  ASSUME "apply" \notin Fails, "reload" \notin Fails,
         LineInv, PlanInv, IdsSuffice, IdsSuffice', [Next]_vars
  PROVE  LineInv'
  <1>1. Journaled /\ nextId <= MaxCalls + 2
    BY DEF IdsSuffice
  <1>2. IsText(Text)
    BY <1>1, TextIsNamed
  <1>3. Steady \/ Replacing \/ ReplacingAll \/ Undoing \/ Redoing \/ Saving
    BY <1>2, SessionSteps
  <1>4. CASE Steady
    BY <1>4 DEF Steady, content, journal, LineInv
  <1>5. CASE Replacing
    BY <1>1, <1>5, IdsAreThere, ApplyLines DEF Replacing
  <1>6. CASE ReplacingAll
    BY <1>1, <1>6, IdsAreThere, ReplaceLines DEF ReplacingAll
  <1>7. CASE Undoing
    BY <1>1, <1>7, UndoLines DEF Undoing
  <1>8. CASE Redoing
    BY <1>1, <1>8, RedoLines DEF Redoing
  <1>9. CASE Saving
    BY <1>1, <1>9, SaveLines DEF Saving
  <1>10. QED BY <1>3, <1>4, <1>5, <1>6, <1>7, <1>8, <1>9

LEMMA LineInvStarts ==
  ASSUME Init
  PROVE  LineInv /\ PlanInv
  <1>1. PICK x, t, f : x = Opened /\ t = table /\ f = named
    OBVIOUS
  <1>2. IsText(x) /\ Len(x) <= MaxLen
    BY <1>1, SessionAssumption DEF IsText
  <1>3. PICK l : l = File(x)
    OBVIOUS
  <1>4. l \in Levels /\ l.id = 0 /\ l.text = x
    BY <1>2, <1>3 DEF File, Levels, IsText
  <1>5. t = <<l>>
    BY <1>1, <1>3 DEF Init
  <1>6. t \in Seq(Levels) /\ Len(t) = 1 /\ t[1] = l
    BY <1>4, <1>5
  <1>7. Tabled(t, 0) /\ TopOf(t).text = x
    BY <1>4, <1>6 DEF Tabled, TopOf
  <1>8. f = [i \in Ids |-> x] /\ Named(f)
    <2>1. f = [i \in Ids |-> x]
      BY <1>1 DEF Init
    <2>2. QED BY <2>1, <1>2 DEF Named
  <1>9. stateId \in Ids /\ generation = 0 /\ past = <<>> /\ future = <<>>
    BY SessionAssumption DEF Init, Ids
  <1>10. /\ <<>> \in Seq(Backs(f, t, 0, nextId)) /\ LinkedBack(<<>>, stateId)
         /\ <<>> \in Seq(Forths(f, nextId)) /\ LinkedForth(<<>>, stateId)
    BY NoSteps
  <1>11. f[stateId] = x
    BY <1>8, <1>9
  <1>12. Lined(t, f, 0, nextId, stateId, <<>>, <<>>)
    BY <1>7, <1>8, <1>10, <1>11 DEF Lined
  <1>13. LineInv
    BY <1>1, <1>9, <1>12 DEF LineInv
  <1>14. PlanInv
    BY DEF Init, PlanInv, Idle
  <1>15. QED BY <1>13, <1>14

LEMMA LineInvHolds ==
  ASSUME "apply" \notin Fails, "reload" \notin Fails
  PROVE  Spec => [](LineInv /\ PlanInv /\ IdsSuffice)
  <1>1. Init => LineInv /\ PlanInv
    BY LineInvStarts
  <1>2. IdInv => IdsSuffice /\ Threaded /\ generation \in Nat
    BY IdInvTypes DEF IdInv, IdsSuffice, Journaled
  <1>3. IdsSuffice /\ LineInv => IsText(Text)
    BY TextIsNamed DEF IdsSuffice
  <1>4. LineInv /\ PlanInv /\ IdInv /\ IdsSuffice' /\ PassInv /\ PassInv' /\ [Next]_vars => LineInv' /\ PlanInv'
    <2> SUFFICES ASSUME LineInv, PlanInv, IdInv, IdsSuffice', PassInv, PassInv', [Next]_vars
                 PROVE  LineInv' /\ PlanInv'
      OBVIOUS
    <2>1. IdsSuffice /\ Threaded /\ generation \in Nat /\ IsText(Text)
      BY <1>2, <1>3
    <2>2. LineInv'
      BY <2>1, LineInvStep
    <2>3. PlanInv'
      <3>1. CASE Next
        BY <2>1, <3>1, PlanInvStep
      <3>2. CASE UNCHANGED vars
        <4>1. table' = table /\ cmd' = cmd
          BY <3>2 DEF vars, content
        <4>2. Text' = Text
          BY <4>1 DEF Text, Top
        <4>3. QED BY <4>1, <4>2 DEF PlanInv
      <3>3. QED BY <3>1, <3>2
    <2>4. QED BY <2>2, <2>3
  <1>5. Spec => []IdInv
    BY IdInvHolds
  <1>6. Spec => []PassInv
    BY PassInvHolds
  <1>7. QED BY <1>1, <1>2, <1>4, <1>5, <1>6, PTL DEF Spec

(* An id names one content for good: whatever was undone, redone, saved or  *)
(* dropped past the limit, the text is the one that its id was taken for.   *)
THEOREM IdsNameContents ==
  ASSUME "apply" \notin Fails, "reload" \notin Fails
  PROVE  Spec => []IdNamesContent
  <1>1. LineInv /\ PlanInv /\ IdsSuffice => IdNamesContent
    BY TextIsNamed DEF IdsSuffice, IdNamesContent
  <1>2. Spec => [](LineInv /\ PlanInv /\ IdsSuffice)
    BY LineInvHolds
  <1>3. QED BY <1>1, <1>2, PTL

-----------------------------------------------------------------------------
(* The line as its ids tell it, whatever the texts: a change takes a new id, *)
(* and is a step of its own or joins the last one; undo and redo go from    *)
(* step to step; and a save marks the id of the present.                    *)
StepsOn(e) ==
  /\ e.before = stateId
  /\ past' = IF Len(Append(past, e)) > UndoLimit THEN Tail(Append(past, e)) ELSE Append(past, e)
Joins(e) ==
  /\ ~sealed /\ past # <<>> /\ future = <<>>
  /\ e.before = past[Len(past)].before
  /\ past' = [past EXCEPT ![Len(past)] = e]
Changed ==
  /\ stateId' = nextId /\ future' = <<>>
  /\ savedId' = savedId /\ disk' = disk /\ ~sealed'
  /\ Renamed(named, named', nextId)
  /\ \E e : StepsOn(e) \/ Joins(e)

Resumed == named' = named /\ savedId' = savedId /\ disk' = disk /\ sealed' = sealed
Backward ==
  /\ Resumed
  /\ past # <<>> /\ past' = Front(past) /\ stateId' = past[Len(past)].before
  /\ \E y : future' = Append(future, y) /\ y.after = stateId
Forward ==
  /\ Resumed
  /\ future # <<>> /\ future' = Front(future) /\ stateId' = future[Len(future)].after
  /\ \E y : past' = Append(past, y) /\ y.before = stateId
Marked ==
  /\ UNCHANGED <<past, future, stateId, named>>
  /\ savedId' = stateId /\ disk' = named[stateId] /\ sealed'
Kept == UNCHANGED <<past, future, stateId, named, savedId, disk, sealed>>

LEMMA TakenRenames ==
  ASSUME LineInv, nextId \in Ids, NEW x, TakeStateId(x)
  PROVE  Renamed(named, named', nextId)
  <1>1. DOMAIN named = Ids /\ named' = [named EXCEPT ![nextId] = x]
    BY DEF LineInv, Lined, Named, TakeStateId
  <1>2. nextId \in Nat /\ \A i \in 0 .. nextId - 1 : i \in Ids /\ i # nextId
    BY SessionAssumption DEF Ids
  <1>3. QED BY <1>1, <1>2 DEF Renamed

LEMMA ReplacingChanges ==
  ASSUME LineInv, IdsSuffice, IdsSuffice', Replacing
  PROVE  Changed
  <1>1. PICK p, g : Apply(p, g) /\ disk' = disk
    BY DEF Replacing
  <1>2. PICK x, group : TakeStateId(x) /\ RecordGroup(group, g)
    BY <1>1 DEF Apply
  <1>3. Renamed(named, named', nextId)
    BY <1>2, IdsAreThere, TakenRenames
  <1>4. stateId' = nextId /\ future' = <<>> /\ savedId' = savedId /\ ~sealed'
    BY <1>2 DEF TakeStateId, RecordGroup
  <1>5. CASE Coalesces(g)
    <2>1. PICK last : last = past[Len(past)]
      OBVIOUS
    <2>2. PICK e : e = [last EXCEPT !.group = last.group \o group, !.after = nextId]
      OBVIOUS
    <2>3. past' = [past EXCEPT ![Len(past)] = e]
      BY <1>2, <1>5, <2>1, <2>2 DEF RecordGroup
    <2>4. ~sealed /\ past # <<>> /\ future = <<>>
      BY <1>5 DEF Coalesces
    <2>5. last \in Moves
      <3>1. past \in Seq(Backs(named, table, generation, nextId)) /\ LinkedBack(past, stateId)
        BY DEF LineInv, Lined
      <3>2. Backs(named, table, generation, nextId) \in SUBSET Moves
        BY AreMoves
      <3>3. QED BY <3>1, <3>2, <2>1, <2>4, BackShrinks
    <2>6. e.before = last.before
      BY <2>2, <2>5 DEF Moves
    <2>7. Joins(e)
      BY <2>1, <2>3, <2>4, <2>6 DEF Joins
    <2>8. QED BY <1>1, <1>3, <1>4, <2>7 DEF Changed
  <1>6. CASE ~Coalesces(g)
    <2>1. PICK e : e = EditStep(group, stateId, nextId)
      OBVIOUS
    <2>2. PushUndo(e)
      BY <1>2, <1>6, <2>1 DEF RecordGroup
    <2>3. StepsOn(e)
      BY <2>1, <2>2 DEF EditStep, PushUndo, StepsOn
    <2>4. QED BY <1>1, <1>3, <1>4, <2>3 DEF Changed
  <1>7. QED BY <1>5, <1>6

LEMMA ReplacingAllChanges ==
  ASSUME LineInv, IdsSuffice, IdsSuffice', ReplacingAll
  PROVE  Changed
  <1>1. PICK hits : InstallReplace(hits) /\ disk' = disk
    BY DEF ReplacingAll
  <1>2. PICK x : TakeStateId(x)
    BY <1>1 DEF InstallReplace
  <1>3. Renamed(named, named', nextId)
    BY <1>2, IdsAreThere, TakenRenames
  <1>4. stateId' = nextId /\ future' = <<>> /\ savedId' = savedId /\ ~sealed'
    BY <1>1, <1>2 DEF TakeStateId, InstallReplace
  <1>5. PICK e : e = ReplaceStep(hits, generation + 1, stateId, nextId)
    OBVIOUS
  <1>6. PushUndo(e)
    BY <1>1, <1>5 DEF InstallReplace
  <1>7. StepsOn(e)
    BY <1>5, <1>6 DEF ReplaceStep, PushUndo, StepsOn
  <1>8. QED BY <1>1, <1>3, <1>4, <1>7 DEF Changed

(* Where nothing fails half way, the line makes no other step.              *)
LEMMA LineSteps ==
  ASSUME Fails = {}, LineInv, PlanInv, IdsSuffice, IdsSuffice', [Next]_vars
  PROVE  Kept \/ Changed \/ Backward \/ Forward \/ Marked
  <1>1. Journaled /\ nextId <= MaxCalls + 2
    BY DEF IdsSuffice
  <1>2. IsText(Text) /\ Text = named[stateId]
    BY <1>1, TextIsNamed
  <1>3. Steady \/ Replacing \/ ReplacingAll \/ Undoing \/ Redoing \/ Saving
    BY <1>2, SessionSteps
  <1>4. Steady => Kept
    BY DEF Steady, content, journal, Kept
  <1>5. ASSUME Undoing PROVE Backward
    <2>1. savedId' = savedId /\ disk' = disk /\ sealed' = sealed /\ past # <<>>
      BY <1>5 DEF Undoing, Undo
    <2>2. QED BY <1>1, <1>5, <2>1, UndoLines DEF Undoing, Backward, Resumed
  <1>6. ASSUME Redoing PROVE Forward
    <2>1. savedId' = savedId /\ disk' = disk /\ sealed' = sealed /\ future # <<>>
      BY <1>6 DEF Redoing, Redo
    <2>2. QED BY <1>1, <1>6, <2>1, RedoLines DEF Redoing, Forward, Resumed
  <1>7. Saving => Marked
    BY <1>2 DEF Saving, Save, Marked
  <1>8. QED BY <1>3, <1>4, <1>5, <1>6, <1>7, ReplacingChanges, ReplacingAllChanges

(* The newest content of the line, from which alone a change may join the   *)
(* last step.                                                              *)
Tip(st, r) == IF r = <<>> THEN st ELSE r[1].after

(* What the mark says is so, or the mark is nowhere: what was opened is not *)
(* what is on disk.  And a change joins no step that was saved.             *)
SavedInv ==
  /\ \/ named[savedId] = disk
     \/ savedId = 0 /\ stateId # 0 /\ \A i \in 1 .. Len(past) : past[i].before # 0
  /\ \/ sealed
     \/ past = <<>> /\ future = <<>>
     \/ Tip(stateId, future) # savedId

LEMMA PastFacts ==
  ASSUME LineInv
  PROVE  /\ past \in Seq(Moves) /\ future \in Seq(Moves)
         /\ LinkedBack(past, stateId) /\ LinkedForth(future, stateId)
  <1>1. /\ past \in Seq(Backs(named, table, generation, nextId)) /\ LinkedBack(past, stateId)
        /\ future \in Seq(Forths(named, nextId)) /\ LinkedForth(future, stateId)
    BY DEF LineInv, Lined
  <1>2. /\ Backs(named, table, generation, nextId) \subseteq Moves
        /\ Forths(named, nextId) \subseteq Moves
    BY AreMoves
  <1>3. QED BY <1>1, <1>2, SeqMonotonic

LEMMA TipIs ==
  ASSUME NEW S, NEW r \in Seq(S)
  PROVE  /\ \A st, y : y.after = st => Tip(y.before, Append(r, y)) = Tip(st, r)
         /\ r # <<>> => \A st : Tip(r[Len(r)].after, Front(r)) = Tip(st, r)
  <1>1. ASSUME NEW st, NEW y, y.after = st
        PROVE  Tip(y.before, Append(r, y)) = Tip(st, r)
    <2>1. PICK z, n : z = Append(r, y) /\ n = Len(r)
      OBVIOUS
    <2>2. n \in Nat /\ z \in Seq(S \union {y}) /\ Len(z) = n + 1 /\ z[n + 1] = y /\ \A i \in 1 .. n : z[i] = r[i]
      BY <2>1
    <2>3. z # <<>>
      BY <2>2
    <2>4. CASE r = <<>>
      <3>1. n = 0
        BY <2>1, <2>4
      <3>2. z[1] = y
        BY <3>1, <2>2
      <3>3. QED BY <2>1, <2>3, <2>4, <3>2, <1>1 DEF Tip
    <2>5. CASE r # <<>>
      <3>1. 1 \in 1 .. n
        BY <2>1, <2>2, <2>5
      <3>2. z[1] = r[1]
        BY <3>1, <2>2
      <3>3. QED BY <2>1, <2>3, <2>5, <3>2 DEF Tip
    <2>6. QED BY <2>4, <2>5
  <1>2. ASSUME r # <<>>, NEW st
        PROVE  Tip(r[Len(r)].after, Front(r)) = Tip(st, r)
    <2>1. PICK z, n : z = Front(r) /\ n = Len(r)
      OBVIOUS
    <2>2. n \in Nat /\ n > 0 /\ z \in Seq(S) /\ Len(z) = n - 1 /\ \A i \in 1 .. n - 1 : z[i] = r[i]
      BY <2>1, <1>2, FrontIs
    <2>3. CASE n = 1
      <3>1. z = <<>>
        BY <2>2, <2>3
      <3>2. QED BY <2>1, <2>3, <3>1, <1>2 DEF Tip
    <2>4. CASE n # 1
      <3>1. 1 \in 1 .. n - 1 /\ z # <<>>
        BY <2>2, <2>4
      <3>2. z[1] = r[1]
        BY <3>1, <2>2
      <3>3. QED BY <2>1, <3>1, <3>2, <1>2 DEF Tip
    <2>5. QED BY <2>3, <2>4
  <1>3. QED BY <1>1, <1>2

(* None of the steps back is from what was opened.                          *)
NoneFromZero(s) == \A i \in 1 .. Len(s) : s[i].before # 0

LEMMA ZeroIsGone ==
  ASSUME NEW s \in Seq(Moves), NoneFromZero(s)
  PROVE  /\ \A e : e.before # 0 => NoneFromZero(Append(s, e)) /\ NoneFromZero(Tail(Append(s, e)))
         /\ s # <<>> => /\ s[Len(s)].before # 0 /\ NoneFromZero(Front(s))
                        /\ \A e : e.before # 0 => NoneFromZero([s EXCEPT ![Len(s)] = e])
  <1>1. ASSUME NEW e, e.before # 0
        PROVE  NoneFromZero(Append(s, e)) /\ NoneFromZero(Tail(Append(s, e)))
    <2>1. PICK z, n : z = Append(s, e) /\ n = Len(s)
      OBVIOUS
    <2>2. /\ n \in Nat /\ z \in Seq(Moves \union {e}) /\ Len(z) = n + 1 /\ z[n + 1] = e
          /\ \A i \in 1 .. n : z[i] = s[i]
      BY <2>1
    <2>3. \A i \in 1 .. n + 1 : z[i].before # 0
      <3>1. \A i \in 1 .. n : s[i].before # 0
        BY <2>1 DEF NoneFromZero
      <3>2. QED BY <3>1, <2>2, <1>1
    <2>4. Len(Tail(z)) = n /\ \A i \in 1 .. n : Tail(z)[i] = z[i + 1]
      BY <2>2
    <2>5. \A i \in 1 .. n : Tail(z)[i].before # 0
      BY <2>2, <2>3, <2>4
    <2>6. QED BY <2>1, <2>2, <2>3, <2>4, <2>5 DEF NoneFromZero
  <1>2. ASSUME s # <<>>
        PROVE  s[Len(s)].before # 0 /\ NoneFromZero(Front(s))
    <2>1. PICK z, n : z = Front(s) /\ n = Len(s)
      OBVIOUS
    <2>2. n \in Nat /\ n > 0 /\ Len(z) = n - 1 /\ \A i \in 1 .. n - 1 : z[i] = s[i]
      BY <2>1, <1>2, FrontIs
    <2>3. \A i \in 1 .. n : s[i].before # 0
      BY <2>1 DEF NoneFromZero
    <2>4. \A i \in 1 .. n - 1 : z[i].before # 0
      BY <2>2, <2>3
    <2>5. QED BY <2>1, <2>2, <2>3, <2>4 DEF NoneFromZero
  <1>3. ASSUME s # <<>>, NEW e, e.before # 0
        PROVE  NoneFromZero([s EXCEPT ![Len(s)] = e])
    <2>1. PICK z, n : z = [s EXCEPT ![Len(s)] = e] /\ n = Len(s)
      OBVIOUS
    <2>2. /\ n \in Nat /\ Len(z) = n /\ z[n] = e
          /\ \A i \in 1 .. n : i # n => z[i] = s[i]
      BY <2>1, <1>3
    <2>3. \A i \in 1 .. n : s[i].before # 0
      BY <2>1 DEF NoneFromZero
    <2>4. QED BY <2>1, <2>2, <2>3, <1>3 DEF NoneFromZero
  <1>4. QED BY <1>1, <1>2, <1>3

LEMMA ChangeSaves ==
  ASSUME LineInv, IdsSuffice, SavedInv, Changed
  PROVE  SavedInv'
  <1>1. /\ nextId \in Nat /\ savedId \in 0 .. nextId - 1 /\ stateId \in 0 .. nextId - 1
    BY DEF IdsSuffice, Journaled
  <1>2. /\ stateId' = nextId /\ future' = <<>> /\ savedId' = savedId /\ disk' = disk
        /\ named'[savedId] = named[savedId]
    BY <1>1 DEF Changed, Renamed
  <1>3. Tip(stateId', future') # savedId'
    BY <1>1, <1>2 DEF Tip
  <1>4. ASSUME stateId # 0, NoneFromZero(past)
        PROVE  stateId' # 0 /\ NoneFromZero(past')
    <2>1. past \in Seq(Moves)
      BY PastFacts
    <2>2. PICK e : StepsOn(e) \/ Joins(e)
      BY DEF Changed
    <2>3. CASE StepsOn(e)
      <3>1. e.before # 0 /\ past' \in {Append(past, e), Tail(Append(past, e))}
        BY <2>3, <1>4 DEF StepsOn
      <3>2. NoneFromZero(past')
        BY <1>4, <2>1, <3>1, ZeroIsGone
      <3>3. QED BY <1>1, <1>2, <1>4, <3>2
    <2>4. CASE Joins(e)
      <3>1. past # <<>> /\ past' = [past EXCEPT ![Len(past)] = e] /\ e.before = past[Len(past)].before
        BY <2>4 DEF Joins
      <3>2. e.before # 0
        BY <1>4, <2>1, <3>1, ZeroIsGone
      <3>3. NoneFromZero(past')
        BY <1>4, <2>1, <3>1, <3>2, ZeroIsGone
      <3>4. QED BY <1>1, <1>2, <3>3
    <2>5. QED BY <2>2, <2>3, <2>4
  <1>5. QED BY <1>2, <1>3, <1>4 DEF SavedInv, NoneFromZero

LEMMA BackSaves ==
  ASSUME LineInv, IdsSuffice, SavedInv, Backward
  PROVE  SavedInv'
  <1>1. /\ past \in Seq(Moves) /\ future \in Seq(Moves) /\ past # <<>>
        /\ past' = Front(past) /\ stateId' = past[Len(past)].before
        /\ named' = named /\ savedId' = savedId /\ disk' = disk /\ sealed' = sealed
    BY PastFacts DEF Backward, Resumed
  <1>2. ASSUME NoneFromZero(past)
        PROVE  stateId' # 0 /\ NoneFromZero(past')
    BY <1>1, <1>2, ZeroIsGone
  <1>3. Tip(stateId', future') = Tip(stateId, future)
    <2>1. PICK y : future' = Append(future, y) /\ y.after = stateId
      BY DEF Backward
    <2>2. Tip(y.before, Append(future, y)) = Tip(stateId, future)
      BY <1>1, <2>1, TipIs
    <2>3. future' # <<>>
      BY <1>1, <2>1
    <2>4. QED BY <2>1, <2>2, <2>3 DEF Tip
  <1>4. QED BY <1>1, <1>2, <1>3 DEF SavedInv, NoneFromZero

LEMMA ForthSaves ==
  ASSUME LineInv, IdsSuffice, SavedInv, Forward
  PROVE  SavedInv'
  <1>1. /\ past \in Seq(Moves) /\ future \in Seq(Moves) /\ future # <<>>
        /\ future' = Front(future) /\ stateId' = future[Len(future)].after
        /\ named' = named /\ savedId' = savedId /\ disk' = disk /\ sealed' = sealed
    BY PastFacts DEF Forward, Resumed
  <1>2. stateId \in Nat /\ stateId' \in Nat /\ stateId < stateId'
    <2>1. stateId \in Nat
      BY DEF IdsSuffice, Journaled
    <2>2. Len(future) \in 1 .. Len(future) /\ future[Len(future)] \in Moves
      BY <1>1
    <2>3. stateId < future[Len(future)].after
      BY <2>2, PastFacts DEF LinkedForth
    <2>4. QED BY <1>1, <2>1, <2>2, <2>3 DEF Moves
  <1>3. ASSUME stateId # 0, NoneFromZero(past)
        PROVE  stateId' # 0 /\ NoneFromZero(past')
    <2>1. PICK y : past' = Append(past, y) /\ y.before = stateId
      BY DEF Forward
    <2>2. QED BY <1>1, <1>2, <1>3, <2>1, ZeroIsGone
  <1>4. Tip(stateId', future') = Tip(stateId, future)
    BY <1>1, TipIs
  <1>5. QED BY <1>1, <1>3, <1>4 DEF SavedInv, NoneFromZero

LEMMA SavedInvStep ==
  ASSUME Fails = {}, LineInv, PlanInv, IdsSuffice, IdsSuffice', SavedInv, [Next]_vars
  PROVE  SavedInv'
  <1>1. Kept \/ Changed \/ Backward \/ Forward \/ Marked
    BY LineSteps
  <1>2. Kept => SavedInv'
    BY DEF Kept, SavedInv
  <1>3. Marked => SavedInv'
    BY DEF Marked, SavedInv
  <1>4. QED BY <1>1, <1>2, <1>3, ChangeSaves, BackSaves, ForthSaves

LEMMA SavedInvHolds ==
  ASSUME Fails = {}
  PROVE  Spec => [](LineInv /\ PlanInv /\ IdsSuffice /\ SavedInv)
  <1>1. Init => SavedInv
    <2> SUFFICES ASSUME Init PROVE SavedInv
      OBVIOUS
    <2>1. past = <<>> /\ future = <<>> /\ savedId = 0 /\ Len(past) = 0
      BY DEF Init
    <2>2. (stateId = 0 /\ disk = Opened) \/ stateId = 1
      BY DEF Init
    <2>3. named[0] = Opened
      <3>1. 0 \in Ids
        BY SessionAssumption DEF Ids
      <3>2. QED BY <3>1 DEF Init
    <2>4. QED BY <2>1, <2>2, <2>3 DEF SavedInv
  <1>2. LineInv /\ PlanInv /\ IdsSuffice /\ IdsSuffice' /\ SavedInv /\ [Next]_vars => SavedInv'
    BY SavedInvStep
  <1>3. Spec => [](LineInv /\ PlanInv /\ IdsSuffice)
    BY LineInvHolds
  <1>4. QED BY <1>1, <1>2, <1>3, PTL DEF Spec

(* A session that says it is clean holds what is on disk, whatever commands *)
(* there were and however they met: the tab may be closed without a word.   *)
THEOREM CleanSessionIsSaved ==
  ASSUME Fails = {}
  PROVE  Spec => []CleanIsSaved
  <1>1. LineInv /\ PlanInv /\ IdsSuffice /\ SavedInv => CleanIsSaved
    BY TextIsNamed DEF IdsSuffice, SavedInv, CleanIsSaved
  <1>2. Spec => [](LineInv /\ PlanInv /\ IdsSuffice /\ SavedInv)
    BY SavedInvHolds
  <1>3. QED BY <1>1, <1>2, PTL

-----------------------------------------------------------------------------
(* The line of contents that History speaks of: the steps of a stack, each  *)
(* as the content of the id under the key.                                  *)
EntryOf(f, id, sv) == [text |-> f[id], saved |-> id = sv]
EntriesOf(s, key, f, sv) == [i \in DOMAIN s |-> EntryOf(f, s[i][key], sv)]

LEMMA EntriesAre ==
  ASSUME NEW S, NEW s \in Seq(S), NEW key, NEW f, NEW sv
  PROVE  \E V, w : /\ w = EntriesOf(s, key, f, sv) /\ w \in Seq(V) /\ Len(w) = Len(s)
                   /\ \A i \in 1 .. Len(s) : w[i] = EntryOf(f, s[i][key], sv)
  <1>1. PICK n, w : n = Len(s) /\ w = EntriesOf(s, key, f, sv)
    OBVIOUS
  <1>2. n \in Nat /\ DOMAIN s = 1 .. n
    BY <1>1
  <1>3. PICK V : V = {EntryOf(f, s[i][key], sv) : i \in 1 .. n}
    OBVIOUS
  <1>4. w = [i \in 1 .. n |-> EntryOf(f, s[i][key], sv)]
    BY <1>1, <1>2 DEF EntriesOf
  <1>5. \A i \in 1 .. n : w[i] = EntryOf(f, s[i][key], sv) /\ w[i] \in V
    BY <1>3, <1>4
  <1>6. w \in Seq(V) /\ Len(w) = n
    BY <1>2, <1>4, <1>5
  <1>7. QED BY <1>1, <1>5, <1>6

(* Two stacks that are alike under the key, where their ids mean the same.  *)
LEMMA EntriesAlike ==
  ASSUME NEW S, NEW s \in Seq(S), NEW T, NEW z \in Seq(T), Len(z) = Len(s), NEW key, NEW f, NEW h, NEW sv,
         \A i \in 1 .. Len(s) : EntryOf(h, z[i][key], sv) = EntryOf(f, s[i][key], sv)
  PROVE  EntriesOf(z, key, h, sv) = EntriesOf(s, key, f, sv)
  <1>1. DOMAIN s = 1 .. Len(s) /\ DOMAIN z = 1 .. Len(s)
    OBVIOUS
  <1>2. QED BY <1>1 DEF EntriesOf

LEMMA EntriesGrow ==
  ASSUME NEW S, NEW s \in Seq(S), NEW e, NEW key, NEW f, NEW sv
  PROVE  EntriesOf(Append(s, e), key, f, sv) = Append(EntriesOf(s, key, f, sv), EntryOf(f, e[key], sv))
  <1>1. PICK n, z, v : n = Len(s) /\ z = Append(s, e) /\ v = EntryOf(f, e[key], sv)
    OBVIOUS
  <1>2. /\ n \in Nat /\ z \in Seq(S \union {e}) /\ Len(z) = n + 1 /\ z[n + 1] = e
        /\ \A i \in 1 .. n : z[i] = s[i]
    BY <1>1
  <1>3. PICK V, w : /\ w = EntriesOf(s, key, f, sv) /\ w \in Seq(V) /\ Len(w) = Len(s)
                    /\ \A i \in 1 .. Len(s) : w[i] = EntryOf(f, s[i][key], sv)
    BY EntriesAre
  <1>4. PICK W, y : /\ y = EntriesOf(z, key, f, sv) /\ y \in Seq(W) /\ Len(y) = Len(z)
                    /\ \A i \in 1 .. Len(z) : y[i] = EntryOf(f, z[i][key], sv)
    BY <1>2, EntriesAre
  <1>5. PICK x : x = Append(w, v)
    OBVIOUS
  <1>6. /\ x \in Seq(V \union {v}) /\ Len(x) = n + 1 /\ x[n + 1] = v
        /\ \A i \in 1 .. n : x[i] = w[i]
    BY <1>1, <1>3, <1>5
  <1>7. ASSUME NEW i \in 1 .. n + 1 PROVE y[i] = x[i]
    <2>1. y[i] = EntryOf(f, z[i][key], sv)
      BY <1>2, <1>4
    <2>2. CASE i = n + 1
      BY <2>1, <2>2, <1>1, <1>2, <1>6
    <2>3. CASE i # n + 1
      <3>1. i \in 1 .. n
        BY <2>3, <1>2
      <3>2. QED BY <2>1, <3>1, <1>1, <1>2, <1>3, <1>6
    <2>4. QED BY <2>2, <2>3
  <1>8. y = x
    <2>1. y = [i \in 1 .. n + 1 |-> y[i]]
      BY <1>2, <1>4
    <2>2. x = [i \in 1 .. n + 1 |-> x[i]]
      BY <1>6
    <2>3. QED BY <2>1, <2>2, <1>7
  <1>9. QED BY <1>1, <1>3, <1>4, <1>5, <1>8

LEMMA EntriesForget ==
  ASSUME NEW S, NEW s \in Seq(S), s # <<>>, NEW key, NEW f, NEW sv
  PROVE  EntriesOf(Tail(s), key, f, sv) = Tail(EntriesOf(s, key, f, sv))
  <1>1. PICK n, z : n = Len(s) /\ z = Tail(s)
    OBVIOUS
  <1>2. /\ n \in Nat /\ n > 0 /\ z \in Seq(S) /\ Len(z) = n - 1
        /\ \A i \in 1 .. n - 1 : z[i] = s[i + 1]
    BY <1>1
  <1>3. PICK V, w : /\ w = EntriesOf(s, key, f, sv) /\ w \in Seq(V) /\ Len(w) = Len(s)
                    /\ \A i \in 1 .. Len(s) : w[i] = EntryOf(f, s[i][key], sv)
    BY EntriesAre
  <1>4. PICK W, y : /\ y = EntriesOf(z, key, f, sv) /\ y \in Seq(W) /\ Len(y) = Len(z)
                    /\ \A i \in 1 .. Len(z) : y[i] = EntryOf(f, z[i][key], sv)
    BY <1>2, EntriesAre
  <1>5. PICK x : x = Tail(w)
    OBVIOUS
  <1>6. x \in Seq(V) /\ Len(x) = n - 1 /\ \A i \in 1 .. n - 1 : x[i] = w[i + 1]
    <2>1. w # <<>> /\ Len(w) = n
      BY <1>1, <1>2, <1>3
    <2>2. QED BY <2>1, <1>2, <1>3, <1>5
  <1>7. ASSUME NEW i \in 1 .. n - 1 PROVE y[i] = x[i]
    <2>1. i + 1 \in 1 .. n
      BY <1>2
    <2>2. y[i] = EntryOf(f, z[i][key], sv) /\ z[i] = s[i + 1]
      BY <1>2, <1>4
    <2>3. x[i] = w[i + 1] /\ w[i + 1] = EntryOf(f, s[i + 1][key], sv)
      BY <2>1, <1>1, <1>3, <1>6
    <2>4. QED BY <2>2, <2>3
  <1>8. y = x
    <2>1. y = [i \in 1 .. n - 1 |-> y[i]]
      BY <1>2, <1>4
    <2>2. x = [i \in 1 .. n - 1 |-> x[i]]
      BY <1>6
    <2>3. QED BY <2>1, <2>2, <1>7
  <1>9. QED BY <1>1, <1>3, <1>4, <1>5, <1>8

LEMMA EntriesShrink ==
  ASSUME NEW S, NEW s \in Seq(S), s # <<>>, NEW key, NEW f, NEW sv
  PROVE  LET w == EntriesOf(s, key, f, sv)
         IN /\ w # <<>> /\ w[Len(w)] = EntryOf(f, s[Len(s)][key], sv)
            /\ EntriesOf(Front(s), key, f, sv) = Front(w)
  <1>1. PICK n, z : n = Len(s) /\ z = Front(s)
    OBVIOUS
  <1>2. /\ n \in Nat /\ n > 0 /\ z \in Seq(S) /\ Len(z) = n - 1
        /\ \A i \in 1 .. n - 1 : z[i] = s[i]
    BY <1>1, FrontIs
  <1>3. PICK V, w : /\ w = EntriesOf(s, key, f, sv) /\ w \in Seq(V) /\ Len(w) = Len(s)
                    /\ \A i \in 1 .. Len(s) : w[i] = EntryOf(f, s[i][key], sv)
    BY EntriesAre
  <1>4. PICK W, y : /\ y = EntriesOf(z, key, f, sv) /\ y \in Seq(W) /\ Len(y) = Len(z)
                    /\ \A i \in 1 .. Len(z) : y[i] = EntryOf(f, z[i][key], sv)
    BY <1>2, EntriesAre
  <1>5. w # <<>> /\ Len(w) = n /\ n \in 1 .. n
    BY <1>1, <1>2, <1>3
  <1>6. PICK x : x = Front(w)
    OBVIOUS
  <1>7. x \in Seq(V) /\ Len(x) = n - 1 /\ \A i \in 1 .. n - 1 : x[i] = w[i]
    BY <1>3, <1>5, <1>6, FrontIs
  <1>8. ASSUME NEW i \in 1 .. n - 1 PROVE y[i] = x[i]
    <2>1. i \in 1 .. n
      BY <1>2
    <2>2. y[i] = EntryOf(f, z[i][key], sv) /\ z[i] = s[i]
      BY <1>2, <1>4
    <2>3. x[i] = w[i] /\ w[i] = EntryOf(f, s[i][key], sv)
      BY <2>1, <1>1, <1>3, <1>7
    <2>4. QED BY <2>2, <2>3
  <1>9. y = x
    <2>1. y = [i \in 1 .. n - 1 |-> y[i]]
      BY <1>2, <1>4
    <2>2. x = [i \in 1 .. n - 1 |-> x[i]]
      BY <1>7
    <2>3. QED BY <2>1, <2>2, <1>8
  <1>10. w[n] = EntryOf(f, s[n][key], sv)
    BY <1>1, <1>3, <1>5
  <1>11. QED BY <1>1, <1>3, <1>4, <1>5, <1>6, <1>9, <1>10

Present == Text = named[stateId] /\ Text \in Texts

LEMMA TextsAre ==
  ASSUME NEW x, IsText(x), Len(x) <= MaxLen
  PROVE  x \in Texts
  <1>1. x \in [1 .. Len(x) -> Bytes] /\ Len(x) \in Nat /\ MaxLen \in Nat
    BY LenProperties, SessionAssumption DEF IsText
  <1>2. PICK n : n = Len(x)
    OBVIOUS
  <1>3. n \in 0 .. MaxLen /\ x \in [1 .. n -> Bytes]
    BY <1>1, <1>2
  <1>4. QED BY <1>3 DEF Texts

LEMMA UnsavedIs ==
  ASSUME NEW f, NEW id, NEW sv, id # sv
  PROVE  EntryOf(f, id, sv) = [text |-> f[id], saved |-> FALSE]
  <1>1. (id = sv) = FALSE
    OBVIOUS
  <1>2. QED BY <1>1 DEF EntryOf

LEMMA MarkIs ==
  ASSUME NEW x, NEW b, NEW y
  PROVE  [[text |-> x, saved |-> b] EXCEPT !.saved = y] = [text |-> x, saved |-> y]
  OBVIOUS

LEMMA SavedEntry ==
  ASSUME NEW f, NEW id, NEW sv
  PROVE  EntryOf(f, id, id) = [EntryOf(f, id, sv) EXCEPT !.saved = TRUE]
  <1>1. (id = id) = TRUE
    OBVIOUS
  <1>2. EntryOf(f, id, id) = [text |-> f[id], saved |-> TRUE]
    BY <1>1 DEF EntryOf
  <1>3. PICK b, x : b = (id = sv) /\ x = f[id]
    OBVIOUS
  <1>4. EntryOf(f, id, sv) = [text |-> x, saved |-> b]
    BY <1>3, Zenon DEF EntryOf
  <1>5. [[text |-> x, saved |-> b] EXCEPT !.saved = TRUE] = [text |-> x, saved |-> TRUE]
    BY MarkIs, Zenon
  <1>6. QED BY <1>2, <1>3, <1>4, <1>5

LEMMA UnmarkedEntry ==
  ASSUME NEW f, NEW id, NEW st, NEW sv, id # st
  PROVE  EntryOf(f, id, st) = [EntryOf(f, id, sv) EXCEPT !.saved = FALSE]
  <1>1. EntryOf(f, id, st) = [text |-> f[id], saved |-> FALSE]
    BY UnsavedIs
  <1>2. PICK b, x : b = (id = sv) /\ x = f[id]
    OBVIOUS
  <1>3. EntryOf(f, id, sv) = [text |-> x, saved |-> b]
    BY <1>2, Zenon DEF EntryOf
  <1>4. [[text |-> x, saved |-> b] EXCEPT !.saved = FALSE] = [text |-> x, saved |-> FALSE]
    BY MarkIs, Zenon
  <1>5. QED BY <1>1, <1>2, <1>3, <1>4

LEMMA EntriesUnmarked ==
  ASSUME NEW S, NEW s \in Seq(S), NEW key, NEW f, NEW sv, NEW st,
         \A i \in 1 .. Len(s) : s[i][key] # st
  PROVE  EntriesOf(s, key, f, st) = Line!Unmarked(EntriesOf(s, key, f, sv))
  <1>1. DOMAIN s = 1 .. Len(s)
    OBVIOUS
  <1>2. PICK w : w = EntriesOf(s, key, f, sv)
    OBVIOUS
  <1>3. DOMAIN w = DOMAIN s /\ \A i \in DOMAIN s : w[i] = EntryOf(f, s[i][key], sv)
    BY <1>2 DEF EntriesOf
  <1>4. ASSUME NEW i \in DOMAIN s
        PROVE  EntryOf(f, s[i][key], st) = [w[i] EXCEPT !.saved = FALSE]
    <2>1. PICK id : id = s[i][key]
      OBVIOUS
    <2>2. id # st /\ w[i] = EntryOf(f, id, sv)
      BY <2>1, <1>1, <1>3
    <2>3. EntryOf(f, id, st) = [EntryOf(f, id, sv) EXCEPT !.saved = FALSE]
      BY <2>2, UnmarkedEntry
    <2>4. QED BY <2>1, <2>2, <2>3
  <1>5. EntriesOf(s, key, f, st) = [i \in DOMAIN w |-> [w[i] EXCEPT !.saved = FALSE]]
    BY <1>3, <1>4 DEF EntriesOf
  <1>6. QED BY <1>2, <1>5 DEF Line!Unmarked

(* The state of the line, before and after a step.                          *)
LEMMA LineIs ==
  ASSUME Present
  PROVE  /\ [i \in DOMAIN past |-> Entry(past[i].before)] = EntriesOf(past, "before", named, savedId)
         /\ [i \in DOMAIN future |-> Entry(future[i].after)] = EntriesOf(future, "after", named, savedId)
         /\ [text |-> Text, saved |-> stateId = savedId] = EntryOf(named, stateId, savedId)
  BY DEF Present, Entry, EntriesOf, EntryOf

LEMMA LineIsThen ==
  ASSUME Present'
  PROVE  /\ [i \in DOMAIN past |-> Entry(past[i].before)]' = EntriesOf(past', "before", named', savedId')
         /\ [i \in DOMAIN future |-> Entry(future[i].after)]' = EntriesOf(future', "after", named', savedId')
         /\ [text |-> Text, saved |-> stateId = savedId]' = EntryOf(named', stateId', savedId')
  BY DEF Present, Entry, EntriesOf, EntryOf

LEMMA NoEntries ==
  ASSUME NEW key, NEW f, NEW sv
  PROVE  EntriesOf(<<>>, key, f, sv) = <<>>
  BY DEF EntriesOf

(* Every step of the session is one of the line.                            *)
LEMMA ChangeInLine ==
  ASSUME LineInv, IdsSuffice, SavedInv, Present, Present', Changed
  PROVE  Line!Change \/ Line!Join
  <1>1. PICK b, a, m : /\ b = EntriesOf(past, "before", named, savedId)
                       /\ a = EntriesOf(future, "after", named, savedId)
                       /\ m = EntryOf(named, stateId, savedId)
    OBVIOUS
  <1>2. /\ [i \in DOMAIN past |-> Entry(past[i].before)] = b
        /\ [i \in DOMAIN future |-> Entry(future[i].after)] = a
        /\ [text |-> Text, saved |-> stateId = savedId] = m
    BY <1>1, LineIs
  <1>3. PICK c, d, w : /\ c = EntriesOf(past', "before", named', savedId)
                       /\ d = EntriesOf(future', "after", named', savedId)
                       /\ w = EntryOf(named', nextId, savedId)
    OBVIOUS
  <1>4. /\ stateId' = nextId /\ future' = <<>> /\ savedId' = savedId /\ disk' = disk
        /\ Renamed(named, named', nextId)
    BY DEF Changed
  <1>5. /\ [i \in DOMAIN past |-> Entry(past[i].before)]' = c
        /\ [i \in DOMAIN future |-> Entry(future[i].after)]' = d
        /\ [text |-> Text, saved |-> stateId = savedId]' = w
    BY <1>3, <1>4, LineIsThen
  <1>6. d = <<>>
    BY <1>3, <1>4, NoEntries
  <1>7. nextId \in Nat /\ savedId \in 0 .. nextId - 1 /\ stateId \in 0 .. nextId - 1 /\ nextId # savedId
    BY DEF IdsSuffice, Journaled
  <1>8. PICK t : t = Text'
    OBVIOUS
  <1>9. t \in Texts /\ w = [text |-> t, saved |-> FALSE]
    <2>1. t \in Texts /\ t = named'[nextId]
      BY <1>4, <1>8 DEF Present
    <2>2. w = [text |-> named'[nextId], saved |-> FALSE]
      BY <1>3, <1>7, UnsavedIs
    <2>3. QED BY <2>1, <2>2
  <1>10. past \in Seq(Moves) /\ LinkedBack(past, stateId)
    BY PastFacts
  <1>11. \A i \in 1 .. Len(past) : past[i].before \in 0 .. nextId - 1
    <2>1. ASSUME NEW i \in 1 .. Len(past) PROVE past[i].before \in 0 .. nextId - 1
      <3>1. past[i] \in Moves /\ past[i].before < stateId
        BY <1>10 DEF LinkedBack
      <3>2. QED BY <3>1, <1>7 DEF Moves
    <2>2. QED BY <2>1
  <1>12. \A id \in 0 .. nextId - 1 : EntryOf(named', id, savedId) = EntryOf(named, id, savedId)
    BY <1>4 DEF EntryOf, Renamed
  <1>13. EntriesOf(past, "before", named', savedId) = b
    <2>1. ASSUME NEW i \in 1 .. Len(past)
          PROVE  EntryOf(named', past[i]["before"], savedId) = EntryOf(named, past[i]["before"], savedId)
      BY <1>11, <1>12
    <2>2. QED BY <1>1, <1>10, <2>1, EntriesAlike
  <1>14. EntryOf(named', stateId, savedId) = m
    BY <1>1, <1>7, <1>12
  <1>15. PICK e : StepsOn(e) \/ Joins(e)
    BY DEF Changed
  <1>16. CASE StepsOn(e)
    <2>1. PICK q : q = Append(past, e)
      OBVIOUS
    <2>2. q \in Seq(Moves \union {e}) /\ q # <<>>
      BY <1>10, <2>1
    <2>3. e["before"] = stateId /\ past' = IF Len(q) > UndoLimit THEN Tail(q) ELSE q
      BY <1>16, <2>1 DEF StepsOn
    <2>4. PICK z : z = Append(b, m)
      OBVIOUS
    <2>5. EntriesOf(q, "before", named', savedId) = z
      BY <1>10, <1>13, <1>14, <2>1, <2>3, <2>4, EntriesGrow
    <2>6. Len(z) = Len(q)
      BY <2>2, <2>5, EntriesAre
    <2>7. EntriesOf(Tail(q), "before", named', savedId) = Tail(z)
      BY <2>2, <2>5, EntriesForget
    <2>8. c = Line!Newest(z)
      BY <1>3, <2>3, <2>5, <2>6, <2>7 DEF Line!Newest
    <2>9. QED BY <1>2, <1>4, <1>5, <1>6, <1>9, <2>4, <2>8 DEF Line!Change
  <1>17. CASE Joins(e)
    <2>1. /\ ~sealed /\ past # <<>> /\ future = <<>>
          /\ e.before = past[Len(past)].before
          /\ past' = [past EXCEPT ![Len(past)] = e]
      BY <1>17 DEF Joins
    <2>2. stateId # savedId
      BY <2>1 DEF SavedInv, Tip
    <2>3. m = [text |-> named[stateId], saved |-> FALSE]
      BY <1>1, <2>2, UnsavedIs
    <2>4. ~m.saved /\ w = [m EXCEPT !.text = t]
      <3>1. PICK x, v : x = named[stateId] /\ v = FALSE
        OBVIOUS
      <3>2. m = [text |-> x, saved |-> v] /\ w = [text |-> t, saved |-> v]
        BY <1>9, <2>3, <3>1
      <3>3. m.saved = v /\ w = [m EXCEPT !.text = t]
        BY <3>2
      <3>4. QED BY <3>1, <3>3
    <2>5. a = <<>>
      BY <1>1, <2>1, NoEntries
    <2>6. b # <<>>
      BY <1>1, <1>10, <2>1, EntriesShrink
    <2>7. c = b
      <3>1. PICK q, n : q = [past EXCEPT ![Len(past)] = e] /\ n = Len(past)
        OBVIOUS
      <3>2. /\ n \in Nat /\ q \in Seq(Moves \union {e}) /\ Len(q) = n
            /\ \A i \in 1 .. n : q[i] = IF i = n THEN e ELSE past[i]
        BY <1>10, <2>1, <3>1
      <3>3. ASSUME NEW i \in 1 .. Len(past)
            PROVE  EntryOf(named', q[i]["before"], savedId) = EntryOf(named', past[i]["before"], savedId)
        <4>1. q[i]["before"] = past[i]["before"]
          BY <2>1, <3>1, <3>2
        <4>2. QED BY <4>1
      <3>4. EntriesOf(q, "before", named', savedId) = EntriesOf(past, "before", named', savedId)
        <4>1. PICK T, h : T = Moves \union {e} /\ h = named'
          OBVIOUS
        <4>2. q \in Seq(T) /\ Len(q) = Len(past) /\ past \in Seq(Moves)
          BY <1>10, <3>1, <3>2, <4>1
        <4>3. \A i \in 1 .. Len(past) :
                EntryOf(h, q[i]["before"], savedId) = EntryOf(h, past[i]["before"], savedId)
          BY <3>3, <4>1
        <4>4. EntriesOf(q, "before", h, savedId) = EntriesOf(past, "before", h, savedId)
          BY <4>2, <4>3, EntriesAlike
        <4>5. QED BY <4>1, <4>4
      <3>5. QED BY <1>3, <1>13, <2>1, <3>1, <3>4
    <2>8. QED BY <1>2, <1>4, <1>5, <1>6, <1>9, <2>4, <2>5, <2>6, <2>7 DEF Line!Join
  <1>18. QED BY <1>15, <1>16, <1>17

LEMMA BackInLine ==
  ASSUME LineInv, Present, Present', Backward
  PROVE  Line!Undo
  <1>1. PICK b, a, m : /\ b = EntriesOf(past, "before", named, savedId)
                       /\ a = EntriesOf(future, "after", named, savedId)
                       /\ m = EntryOf(named, stateId, savedId)
    OBVIOUS
  <1>2. /\ [i \in DOMAIN past |-> Entry(past[i].before)] = b
        /\ [i \in DOMAIN future |-> Entry(future[i].after)] = a
        /\ [text |-> Text, saved |-> stateId = savedId] = m
    BY <1>1, LineIs
  <1>3. PICK c, d, w : /\ c = EntriesOf(past', "before", named, savedId)
                       /\ d = EntriesOf(future', "after", named, savedId)
                       /\ w = EntryOf(named, stateId', savedId)
    OBVIOUS
  <1>4. /\ named' = named /\ savedId' = savedId /\ disk' = disk
        /\ past # <<>> /\ past' = Front(past) /\ stateId' = past[Len(past)].before
    BY DEF Backward, Resumed
  <1>5. /\ [i \in DOMAIN past |-> Entry(past[i].before)]' = c
        /\ [i \in DOMAIN future |-> Entry(future[i].after)]' = d
        /\ [text |-> Text, saved |-> stateId = savedId]' = w
    BY <1>3, <1>4, LineIsThen
  <1>6. past \in Seq(Moves) /\ future \in Seq(Moves)
    BY PastFacts
  <1>7. b # <<>> /\ b[Len(b)] = EntryOf(named, past[Len(past)]["before"], savedId) /\ c = Front(b)
    BY <1>1, <1>3, <1>4, <1>6, EntriesShrink
  <1>8. w = b[Len(b)]
    BY <1>3, <1>4, <1>7
  <1>9. c = Line!Front(b)
    BY <1>7 DEF Front, Line!Front
  <1>10. PICK y : future' = Append(future, y) /\ y["after"] = stateId
    BY DEF Backward
  <1>11. d = Append(a, m)
    BY <1>1, <1>3, <1>6, <1>10, EntriesGrow
  <1>12. QED BY <1>2, <1>4, <1>5, <1>7, <1>8, <1>9, <1>11 DEF Line!Undo

LEMMA ForthInLine ==
  ASSUME LineInv, Present, Present', Forward
  PROVE  Line!Redo
  <1>1. PICK b, a, m : /\ b = EntriesOf(past, "before", named, savedId)
                       /\ a = EntriesOf(future, "after", named, savedId)
                       /\ m = EntryOf(named, stateId, savedId)
    OBVIOUS
  <1>2. /\ [i \in DOMAIN past |-> Entry(past[i].before)] = b
        /\ [i \in DOMAIN future |-> Entry(future[i].after)] = a
        /\ [text |-> Text, saved |-> stateId = savedId] = m
    BY <1>1, LineIs
  <1>3. PICK c, d, w : /\ c = EntriesOf(past', "before", named, savedId)
                       /\ d = EntriesOf(future', "after", named, savedId)
                       /\ w = EntryOf(named, stateId', savedId)
    OBVIOUS
  <1>4. /\ named' = named /\ savedId' = savedId /\ disk' = disk
        /\ future # <<>> /\ future' = Front(future) /\ stateId' = future[Len(future)].after
    BY DEF Forward, Resumed
  <1>5. /\ [i \in DOMAIN past |-> Entry(past[i].before)]' = c
        /\ [i \in DOMAIN future |-> Entry(future[i].after)]' = d
        /\ [text |-> Text, saved |-> stateId = savedId]' = w
    BY <1>3, <1>4, LineIsThen
  <1>6. past \in Seq(Moves) /\ future \in Seq(Moves)
    BY PastFacts
  <1>7. a # <<>> /\ a[Len(a)] = EntryOf(named, future[Len(future)]["after"], savedId) /\ d = Front(a)
    BY <1>1, <1>3, <1>4, <1>6, EntriesShrink
  <1>8. w = a[Len(a)]
    BY <1>3, <1>4, <1>7
  <1>9. d = Line!Front(a)
    BY <1>7 DEF Front, Line!Front
  <1>10. PICK y : past' = Append(past, y) /\ y["before"] = stateId
    BY DEF Forward
  <1>11. c = Append(b, m)
    BY <1>1, <1>3, <1>6, <1>10, EntriesGrow
  <1>12. QED BY <1>2, <1>4, <1>5, <1>7, <1>8, <1>9, <1>11 DEF Line!Redo

LEMMA MarkInLine ==
  ASSUME LineInv, IdsSuffice, Present, Present', Marked
  PROVE  Line!Save
  <1>1. PICK b, a, m : /\ b = EntriesOf(past, "before", named, savedId)
                       /\ a = EntriesOf(future, "after", named, savedId)
                       /\ m = EntryOf(named, stateId, savedId)
    OBVIOUS
  <1>2. /\ [i \in DOMAIN past |-> Entry(past[i].before)] = b
        /\ [i \in DOMAIN future |-> Entry(future[i].after)] = a
        /\ [text |-> Text, saved |-> stateId = savedId] = m
    BY <1>1, LineIs
  <1>3. PICK c, d, w : /\ c = EntriesOf(past, "before", named, stateId)
                       /\ d = EntriesOf(future, "after", named, stateId)
                       /\ w = EntryOf(named, stateId, stateId)
    OBVIOUS
  <1>4. /\ UNCHANGED <<past, future, stateId, named>>
        /\ savedId' = stateId /\ disk' = named[stateId]
    BY DEF Marked
  <1>5. /\ [i \in DOMAIN past |-> Entry(past[i].before)]' = c
        /\ [i \in DOMAIN future |-> Entry(future[i].after)]' = d
        /\ [text |-> Text, saved |-> stateId = savedId]' = w
    BY <1>3, <1>4, LineIsThen
  <1>6. /\ past \in Seq(Moves) /\ future \in Seq(Moves)
        /\ LinkedBack(past, stateId) /\ LinkedForth(future, stateId) /\ stateId \in Nat
    BY PastFacts DEF IdsSuffice, Journaled
  <1>7. c = Line!Unmarked(b)
    <2>1. ASSUME NEW i \in 1 .. Len(past) PROVE past[i]["before"] # stateId
      <3>1. past[i] \in Moves /\ past[i].before < stateId
        BY <1>6 DEF LinkedBack
      <3>2. past[i].before \in Nat
        BY <3>1 DEF Moves
      <3>3. stateId \in Nat
        BY <1>6
      <3>4. QED BY <3>1, <3>2, <3>3
    <2>2. QED BY <1>1, <1>3, <1>6, <2>1, EntriesUnmarked
  <1>8. d = Line!Unmarked(a)
    <2>1. ASSUME NEW i \in 1 .. Len(future) PROVE future[i]["after"] # stateId
      <3>1. future[i] \in Moves /\ stateId < future[i].after
        BY <1>6 DEF LinkedForth
      <3>2. future[i].after \in Nat
        BY <3>1 DEF Moves
      <3>3. stateId \in Nat
        BY <1>6
      <3>4. QED BY <3>1, <3>2, <3>3
    <2>2. QED BY <1>1, <1>3, <1>6, <2>1, EntriesUnmarked
  <1>9. w = [m EXCEPT !.saved = TRUE]
    BY <1>1, <1>3, SavedEntry
  <1>10. disk' = m.text
    BY <1>1, <1>4 DEF EntryOf
  <1>11. QED BY <1>2, <1>5, <1>7, <1>8, <1>9, <1>10 DEF Line!Save

LEMMA KeptInLine ==
  ASSUME Present, Present', Kept
  PROVE  UNCHANGED Line!vars
  <1>1. UNCHANGED <<past, future, stateId, named, savedId, disk>>
    BY DEF Kept
  <1>2. [i \in DOMAIN past |-> Entry(past[i].before)]' = [i \in DOMAIN past |-> Entry(past[i].before)]
    BY <1>1, LineIs, LineIsThen
  <1>3. [i \in DOMAIN future |-> Entry(future[i].after)]' = [i \in DOMAIN future |-> Entry(future[i].after)]
    BY <1>1, LineIs, LineIsThen
  <1>4. [text |-> Text, saved |-> stateId = savedId]' = [text |-> Text, saved |-> stateId = savedId]
    BY <1>1, LineIs, LineIsThen
  <1>5. QED BY <1>1, <1>2, <1>3, <1>4 DEF Line!vars

LEMMA LineStarts ==
  ASSUME Init, Present
  PROVE  Line!Init
  <1>1. PICK b, a, m : /\ b = EntriesOf(past, "before", named, savedId)
                       /\ a = EntriesOf(future, "after", named, savedId)
                       /\ m = EntryOf(named, stateId, savedId)
    OBVIOUS
  <1>2. /\ [i \in DOMAIN past |-> Entry(past[i].before)] = b
        /\ [i \in DOMAIN future |-> Entry(future[i].after)] = a
        /\ [text |-> Text, saved |-> stateId = savedId] = m
    BY <1>1, LineIs
  <1>3. past = <<>> /\ future = <<>> /\ savedId = 0
    BY DEF Init
  <1>4. b = <<>> /\ a = <<>>
    BY <1>1, <1>3, NoEntries
  <1>5. Text = Opened /\ Text \in Texts
    BY DEF Init, Text, Top, File, Present
  <1>6. disk \in Texts
    <2>1. Gone \in Texts
      BY DEF Texts
    <2>2. <<>> \in Texts
      <3>1. PICK x : x = <<>>
        OBVIOUS
      <3>2. IsText(x) /\ Len(x) <= MaxLen
        BY <3>1, SessionAssumption DEF IsText
      <3>3. QED BY <3>1, <3>2, TextsAre
    <2>3. QED BY <1>5, <2>1, <2>2 DEF Init
  <1>7. m \in [text : Texts, saved : BOOLEAN]
    <2>1. PICK v : v = (stateId = savedId)
      OBVIOUS
    <2>2. v \in BOOLEAN
      BY <2>1, Zenon
    <2>3. m = [text |-> Text, saved |-> v]
      BY <1>2, <2>1, Zenon
    <2>4. QED BY <1>5, <2>2, <2>3
  <1>8. m.saved => m.text = disk
    <2>1. CASE stateId = savedId
      <3>1. disk = Text
        BY <1>3, <1>5, <2>1 DEF Init
      <3>2. QED BY <1>1, <3>1 DEF EntryOf, Present
    <2>2. CASE stateId # savedId
      <3>1. m = [text |-> named[stateId], saved |-> FALSE]
        BY <1>1, <2>2, UnsavedIs
      <3>2. PICK v : v = FALSE
        OBVIOUS
      <3>3. m.saved = v
        BY <3>1, <3>2
      <3>4. QED BY <3>2, <3>3
    <2>3. QED BY <2>1, <2>2
  <1>9. QED BY <1>2, <1>4, <1>6, <1>7, <1>8 DEF Line!Init, Line!Entries

(* A session is a line of contents with a mark, whatever commands there     *)
(* were: undo and redo lead to the very texts that were there, a save marks *)
(* one of them, and no change joins a step that was saved.                 *)
THEOREM SessionIsALine ==
  ASSUME Fails = {}
  PROVE  Spec => HistorySpec
  <1>1. LineInv /\ PlanInv /\ IdsSuffice /\ SavedInv => Present
    BY TextIsNamed, TextsAre DEF IdsSuffice, Present
  <1>2. Spec => [](LineInv /\ PlanInv /\ IdsSuffice /\ SavedInv)
    BY SavedInvHolds
  <1>3. Init /\ Present => Line!Init
    BY LineStarts
  <1>4. ASSUME LineInv, PlanInv, IdsSuffice, IdsSuffice', SavedInv, Present, Present', [Next]_vars
        PROVE  [Line!Next]_(Line!vars)
    <2>1. Kept \/ Changed \/ Backward \/ Forward \/ Marked
      BY <1>4, LineSteps
    <2>2. Kept => UNCHANGED Line!vars
      BY <1>4, KeptInLine
    <2>3. Changed => Line!Change \/ Line!Join
      BY <1>4, ChangeInLine
    <2>4. Backward => Line!Undo
      BY <1>4, BackInLine
    <2>5. Forward => Line!Redo
      BY <1>4, ForthInLine
    <2>6. Marked => Line!Save
      BY <1>4, MarkInLine
    <2>7. QED BY <2>1, <2>2, <2>3, <2>4, <2>5, <2>6 DEF Line!Next
  <1>5. QED BY <1>1, <1>2, <1>3, <1>4, PTL DEF Spec, HistorySpec, Line!Spec
=============================================================================
