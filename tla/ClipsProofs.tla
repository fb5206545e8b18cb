---------------------------- MODULE ClipsProofs ----------------------------
(* Proofs about Clips, for any copies, pastes, pages, attempts and other    *)
(* apps: a text that is pasted is never a clip's, and the clips' files are  *)
(* those of the clip in use and of the copies under way.                    *)
EXTENDS Clips, TLAPS

Handed == {"publishing", "queued", "published"}
WithFile == Handed \union {"written"}

(* The core: who holds the lock has the clipboard, and without it the       *)
(* clipboard shows the clip the core and the gate know of, or none of ours. *)
CopyInv ==
  /\ DOMAIN cpc = Copies
  /\ ours = active
  /\ active # None => active \in Copies /\ active \in files /\ cpc[active] = "offered"
  /\ files \subseteq Copies
  /\ NoStrayFile
  /\ \A c \in Copies : cpc[c] \in Handed => c \in publishing
  /\ \A c \in Copies : cpc[c] \in WithFile => c \in files
  /\ \A c \in Copies : cpc[c] = "published" => lock = c
  /\ lock # None => lock \in Copies /\ cpc[lock] = "published" /\ board.shows \in {lock, None}
  /\ lock = None => board.shows \in {active, None}

Stay == <<board, files, lock, active, ours, publishing, cpc>>

LEMMA CopyStay == ASSUME CopyInv, UNCHANGED Stay PROVE CopyInv'
  BY DEF CopyInv, Stay, NoStrayFile

(* validate_locked, whoever calls it.                                       *)
LEMMA ValidateKeeps ==
  ASSUME CopyInv, ClipAssumption, ValidateLocked, UNCHANGED <<board, lock, publishing, cpc>>
  PROVE  CopyInv'
  <1>1. CASE Valid
    BY <1>1 DEF CopyInv, ValidateLocked, NoStrayFile
  <1>2. CASE ~Valid
    <2>1. lock = None /\ active' = None /\ ours' = None /\ files' = files \ {active}
      BY <1>2 DEF ValidateLocked, Free
    <2>2. board.shows = None
      BY <1>2, <2>1 DEF CopyInv, Valid
    <2>3. \A c \in Copies : cpc[c] \in WithFile => c # active
      BY DEF CopyInv, WithFile, Handed, ClipAssumption
    <2>4. QED BY <2>1, <2>2, <2>3 DEF CopyInv, NoStrayFile, WithFile, Handed
  <1>3. QED BY <1>1, <1>2

(* A copy goes on, to what it has nothing to do with the lock.              *)
LEMMA GoesOn ==
  ASSUME CopyInv, ClipAssumption, NEW c \in Copies, NEW where, Goes(c, where),
         cpc[c] # "offered", cpc[c] # "published", where # "published", where # "offered",
         UNCHANGED <<lock, active, ours>>,
         lock = None => board'.shows \in {board.shows, None}, lock # None => board' = board,
         publishing \subseteq publishing', where \in Handed => c \in publishing',
         files' = IF where \in WithFile THEN files \union {c} ELSE files \ {c}
  PROVE  CopyInv'
  <1>1. /\ DOMAIN cpc' = Copies /\ cpc'[c] = where
        /\ \A d \in Copies : d # c => cpc'[d] = cpc[d]
    BY DEF Goes, CopyInv
  <1>2. c # active /\ c # lock
    BY DEF CopyInv, ClipAssumption
  <1>3. active' # None => active' \in Copies /\ active' \in files' /\ cpc'[active'] = "offered"
    BY <1>1, <1>2 DEF CopyInv
  <1>4. files' \subseteq Copies /\ NoStrayFile'
    BY <1>1 DEF CopyInv, NoStrayFile, WithFile, Handed
  <1>5. \A d \in Copies : /\ cpc'[d] \in Handed => d \in publishing'
                          /\ cpc'[d] \in WithFile => d \in files'
                          /\ cpc'[d] = "published" => lock' = d
    BY <1>1 DEF CopyInv
  <1>6. lock' # None => lock' \in Copies /\ cpc'[lock'] = "published" /\ board'.shows \in {lock', None}
    BY <1>1, <1>2 DEF CopyInv
  <1>7. lock' = None => board'.shows \in {active', None}
    BY DEF CopyInv
  <1>8. QED BY <1>1, <1>3, <1>4, <1>5, <1>6, <1>7 DEF CopyInv

LEMMA OfferKeeps ==
  ASSUME CopyInv, ClipAssumption, NEW c \in Copies, Offer(c)
  PROVE  CopyInv'
  <1>1. lock = None /\ cpc[c] \in {"queued", "publishing"} /\ c \in publishing /\ publishing' = publishing
        /\ UNCHANGED <<active, ours>>
    BY DEF Offer, Free, CopyInv, Handed
  <1>2. CASE Goes(c, "published") /\ lock' = c /\ board' = [count |-> board.count + 1, shows |-> c]
             /\ UNCHANGED files
    <2>1. /\ DOMAIN cpc' = Copies /\ cpc'[c] = "published"
          /\ \A d \in Copies : d # c => cpc'[d] = cpc[d]
      BY <1>2 DEF Goes, CopyInv
    <2>2. c # active /\ board'.shows = c
      BY <1>1, <1>2 DEF CopyInv, ClipAssumption
    <2>3. active' # None => active' \in Copies /\ active' \in files' /\ cpc'[active'] = "offered"
      BY <1>1, <1>2, <2>1, <2>2 DEF CopyInv
    <2>4. files' \subseteq Copies /\ NoStrayFile'
      BY <1>1, <1>2, <2>1 DEF CopyInv, NoStrayFile
    <2>5. \A d \in Copies : cpc'[d] = "published" => d = c
      BY <1>1, <2>1 DEF CopyInv, ClipAssumption
    <2>6. \A d \in Copies : /\ cpc'[d] \in Handed => d \in publishing'
                            /\ cpc'[d] \in WithFile => d \in files'
      BY <1>1, <1>2, <2>1 DEF CopyInv, WithFile, Handed
    <2>7. lock' # None
      BY <1>2 DEF ClipAssumption
    <2>8. QED BY <1>1, <1>2, <2>1, <2>2, <2>3, <2>4, <2>5, <2>6, <2>7 DEF CopyInv
  <1>3. CASE Goes(c, "superseded") /\ files' = files \ {c} /\ UNCHANGED <<board, lock>>
    BY <1>1, <1>3, GoesOn DEF WithFile, Handed
  <1>4. CASE /\ Goes(c, "failed") /\ files' = files \ {c} /\ UNCHANGED lock
             /\ board' \in {board, [count |-> board.count + 1, shows |-> None]}
    <2>1. board'.shows \in {board.shows, None}
      BY <1>4
    <2>2. QED BY <1>1, <1>4, <2>1, GoesOn DEF WithFile, Handed
  <1>5. QED BY <1>2, <1>3, <1>4 DEF Offer

LEMMA InstallKeeps ==
  ASSUME CopyInv, ClipAssumption, NEW c \in Copies, Install(c)
  PROVE  CopyInv'
  <1>1. /\ cpc[c] = "published" /\ active' = c /\ ours' = c /\ lock' = None
        /\ files' = files \ {active} /\ UNCHANGED <<board, publishing>> /\ Goes(c, "offered")
    BY DEF Install, clipboard
  <1>2. /\ DOMAIN cpc' = Copies /\ cpc'[c] = "offered"
        /\ \A d \in Copies : d # c => cpc'[d] = cpc[d]
    BY <1>1 DEF Goes, CopyInv
  <1>3. lock = c /\ c # active /\ c \in files /\ board.shows \in {c, None}
    BY <1>1 DEF CopyInv, WithFile, Handed, ClipAssumption
  <1>4. \A d \in Copies : cpc'[d] # "published"
    BY <1>2, <1>3 DEF CopyInv
  <1>5. files' \subseteq Copies /\ NoStrayFile'
    BY <1>1, <1>2 DEF CopyInv, NoStrayFile
  <1>6. \A d \in Copies : d # c /\ cpc[d] \in WithFile => d # active
    BY DEF CopyInv, WithFile, Handed
  <1>7. \A d \in Copies : /\ cpc'[d] \in Handed => d \in publishing'
                          /\ cpc'[d] \in WithFile => d \in files'
    BY <1>1, <1>2, <1>6 DEF CopyInv, WithFile, Handed
  <1>8. QED BY <1>1, <1>2, <1>3, <1>4, <1>5, <1>7 DEF CopyInv

(* What a copy does.                                                       *)
LEMMA CopySteps ==
  ASSUME CopyInv, ClipAssumption, NEW c \in Copies,
         Reserve(c) \/ Drop(c) \/ CopyStep(c) \/ ExpireGates(c) \/ RevokeDue(c) \/ ReservationLapses(c)
  PROVE  CopyInv'
  <1> USE DEF clipboard, core, WithFile, Handed
  <1>1. CASE Reserve(c)
    <2>1. cpc[c] = "none" /\ Goes(c, "reserved")
          /\ UNCHANGED <<board, files, lock, active, ours, publishing>>
      BY <1>1 DEF Reserve
    <2>2. c \notin files
      BY <2>1 DEF CopyInv, NoStrayFile
    <2>3. QED BY <2>1, <2>2, GoesOn
  <1>2. CASE Begin(c) \/ Drop(c)
    <2>1. cpc[c] = "reserved" /\ (Goes(c, "begun") \/ Goes(c, "dropped"))
          /\ UNCHANGED <<board, files, lock, active, ours, publishing>>
      BY <1>2 DEF Begin, Drop
    <2>2. c \notin files
      BY <2>1 DEF CopyInv, NoStrayFile
    <2>3. QED BY <2>1, <2>2, GoesOn
  <1>3. CASE Write(c)
    BY <1>3, GoesOn DEF Write
  <1>4. CASE WriteFails(c)
    <2>1. cpc[c] = "begun" /\ Goes(c, "failed")
          /\ UNCHANGED <<board, files, lock, active, ours, publishing>>
      BY <1>4 DEF WriteFails
    <2>2. c \notin files
      BY <2>1 DEF CopyInv, NoStrayFile
    <2>3. QED BY <2>1, <2>2, GoesOn
  <1>5. CASE BeginPublish(c)
    <2>1. cpc[c] = "written" /\ Goes(c, "publishing") /\ publishing' = publishing \union {c}
          /\ UNCHANGED <<board, files, lock, active, ours>>
      BY <1>5 DEF BeginPublish
    <2>2. c \in files
      BY <2>1 DEF CopyInv
    <2>3. QED BY <2>1, <2>2, GoesOn
  <1>6. CASE Queue(c)
    <2>1. cpc[c] = "publishing" /\ UNCHANGED <<board, lock, active, ours, publishing>>
          /\ \/ Goes(c, "queued") /\ UNCHANGED files
             \/ Goes(c, "failed") /\ files' = files \ {c}
      BY <1>6 DEF Queue
    <2>2. c \in files /\ c \in publishing
      BY <2>1 DEF CopyInv
    <2>3. QED BY <2>1, <2>2, GoesOn
  <1>7. CASE StopWaiting(c)
    BY <1>7, GoesOn DEF StopWaiting
  <1>8. CASE Publishing(c)
    <2>1. publishing' = publishing \ {c} /\ cpc[c] \notin Handed
          /\ UNCHANGED <<board, files, lock, active, ours, cpc>>
      BY <1>8 DEF Publishing, Ended, copies
    <2>2. QED BY <2>1 DEF CopyInv, NoStrayFile
  <1>9. CASE Release(c) \/ ExpireGates(c) \/ RevokeDue(c) \/ ReservationLapses(c)
    BY <1>9, CopyStay DEF Release, ExpireGates, RevokeDue, ReservationLapses, Stay, copies
  <1>10. QED
    BY <1>1, <1>2, <1>3, <1>4, <1>5, <1>6, <1>7, <1>8, <1>9, OfferKeeps, InstallKeeps DEF CopyStep

(* What a paste does: no more than to look whether the clip is still ours.  *)
LEMMA PasteSteps ==
  ASSUME CopyInv, ClipAssumption, NEW p \in Pastes,
         Press(p) \/ PasteStep(p) \/ Read(p) \/ GiveUpReading(p) \/ GateLapses(p) \/ Renew(p)
  PROVE  CopyInv'
  <1> USE DEF clipboard, core, copies
  <1>1. CASE Status(p) \/ Pin(p)
    BY <1>1, ValidateKeeps DEF Status, Pin
  <1>2. CASE Press(p) \/ ReleasedThrough(p) \/ Unanswered(p) \/ Open(p) \/ Read(p)
             \/ GiveUpReading(p) \/ EndRead(p) \/ HearRevoked(p) \/ GateLapses(p) \/ Renew(p)
    BY <1>2, CopyStay DEF Stay, Press, ReleasedThrough, Unanswered, Open, Read,
       GiveUpReading, EndRead, HearRevoked, GateLapses, Renew
  <1>3. CASE Check(p)
    BY <1>3, CopyStay DEF Stay, Check
  <1>4. QED BY <1>1, <1>2, <1>3 DEF PasteStep

LEMMA ResetKeeps ==
  ASSUME CopyInv, NEW w \in Wins, WindowReset(w)
  PROVE  CopyInv'
  <1>1. PICK queued \in SUBSET Copies :
          /\ cpc' = [c \in Copies |-> IF c \in queued THEN "dropped" ELSE cpc[c]]
          /\ \A c \in queued : cpc[c] = "reserved"
    BY DEF WindowReset
  <1>2. UNCHANGED <<board, files, lock, active, ours, publishing>>
    BY DEF WindowReset, core, clipboard
  <1>3. QED BY <1>1, <1>2 DEF CopyInv, NoStrayFile, WithFile, Handed

LEMMA CopySafe == ClipAssumption /\ CopyInv /\ [Next]_vars => CopyInv'
  <1> SUFFICES ASSUME ClipAssumption, CopyInv, [Next]_vars PROVE CopyInv'
    OBVIOUS
  <1>1. CASE ValidateOnFocus
    BY <1>1, ValidateKeeps DEF ValidateOnFocus, clipboard, copies
  <1>2. CASE Foreign
    <2>1. board'.shows = None /\ UNCHANGED <<files, lock, active, ours, publishing, cpc>>
      BY <1>2 DEF Foreign, core, copies
    <2>2. QED BY <2>1 DEF CopyInv, NoStrayFile
  <1>3. CASE UNCHANGED vars
    BY <1>3, CopyStay DEF vars, Stay, core, clipboard, copies
  <1>4. QED
    BY <1>1, <1>2, <1>3, CopySteps, PasteSteps, ResetKeeps DEF Next

-----------------------------------------------------------------------------
(* Reading.  While a gate is open nothing is handed over, so the clipboard  *)
(* shows the clip the gate knows of or none; one that found none of ours    *)
(* finds none as long as its gate is there.                                *)
Behind == {"checking", "reading", "read"}

ReadInv ==
  /\ DOMAIN ppc = Pastes /\ DOMAIN got = Pastes
  /\ gates \subseteq Pastes
  /\ gates # {} => publishing = {}
  /\ \A p \in Pastes : ppc[p] \in Behind /\ via[p] = "core" => p \in gates \ lapsed
  /\ \A p \in lapsed : via[p] = "web"
  /\ \A p \in gates : ppc[p] = "reading" => board.shows = None
  /\ \A p \in gates : ppc[p] = "read" => got[p] = None
  /\ TextIsForeign

LEMMA ReadStay ==
  ASSUME ReadInv, UNCHANGED <<ppc, got, via, gates, lapsed>>,
         gates # {} => publishing' = {},
         gates # {} => board'.shows \in {board.shows, None}
  PROVE  ReadInv'
  BY DEF ReadInv, TextIsForeign

(* One paste turns to what reads nothing yet or any more.                   *)
LEMMA TurnKeeps ==
  ASSUME ReadInv, NEW p \in Pastes, NEW where, Turns(p, where), where \notin Behind \union {"text"},
         UNCHANGED <<board, publishing, got, via>>,
         gates' = gates \/ gates' = gates \ {p}, lapsed' = lapsed \/ lapsed' = lapsed \ {p}
  PROVE  ReadInv'
  <1>1. /\ DOMAIN ppc' = Pastes /\ ppc'[p] = where
        /\ \A q \in Pastes : q # p => ppc'[q] = ppc[q]
    BY DEF Turns, ReadInv
  <1>2. gates' \subseteq gates /\ lapsed' \subseteq lapsed
    OBVIOUS
  <1>3. \A q \in Pastes : q # p => (q \in gates' <=> q \in gates) /\ (q \in lapsed' <=> q \in lapsed)
    OBVIOUS
  <1>4. \A q \in Pastes : ppc'[q] \in Behind /\ via'[q] = "core" => q \in gates' \ lapsed'
    BY <1>1, <1>3 DEF ReadInv
  <1>5. \A q \in gates' : /\ ppc'[q] = "reading" => board'.shows = None
                          /\ ppc'[q] = "read" => got'[q] = None
    BY <1>1, <1>2 DEF ReadInv, Behind
  <1>6. TextIsForeign'
    BY <1>1 DEF ReadInv, TextIsForeign
  <1>7. gates' # {} => publishing' = {}
    BY <1>2 DEF ReadInv
  <1>8. QED BY <1>1, <1>2, <1>4, <1>5, <1>6, <1>7 DEF ReadInv

LEMMA OpenKeeps ==
  ASSUME ReadInv, NEW p \in Pastes, Open(p)
  PROVE  ReadInv'
  <1>1. /\ ppc[p] = "opening" /\ publishing = {} /\ Turns(p, "checking")
        /\ gates' = (gates \ lapsed) \union {p} /\ lapsed' = {}
        /\ UNCHANGED <<board, publishing, got, via>>
    BY DEF Open, clipboard
  <1>2. /\ DOMAIN ppc' = Pastes /\ ppc'[p] = "checking"
        /\ \A q \in Pastes : q # p => ppc'[q] = ppc[q]
    BY <1>1 DEF Turns, ReadInv
  <1>3. \A q \in Pastes : ppc'[q] \in Behind /\ via'[q] = "core" => q \in gates' \ lapsed'
    BY <1>1, <1>2 DEF ReadInv
  <1>4. \A q \in gates' : /\ ppc'[q] = "reading" => board'.shows = None
                          /\ ppc'[q] = "read" => got'[q] = None
    BY <1>1, <1>2 DEF ReadInv
  <1>5. TextIsForeign'
    BY <1>1, <1>2 DEF ReadInv, TextIsForeign
  <1>6. QED BY <1>1, <1>2, <1>3, <1>4, <1>5 DEF ReadInv

(* Behind a gate the clipboard shows what the gate knows of, or none.       *)
LEMMA KnownBehindGate ==
  ASSUME ClipAssumption, CopyInv, ReadInv, gates # {}
  PROVE  board.shows \in {ours, None}
  <1>1. publishing = {}
    BY DEF ReadInv
  <1>2. lock = None
    BY <1>1 DEF CopyInv, Handed
  <1>3. QED BY <1>2 DEF CopyInv

LEMMA CheckKeeps ==
  ASSUME ClipAssumption, CopyInv, ReadInv, NEW p \in Pastes, Check(p)
  PROVE  ReadInv'
  <1>1. ppc[p] = "checking" /\ UNCHANGED <<board, publishing, got, via>>
    BY DEF Check, clipboard
  <1>2. CASE ours = None \/ board.shows # ours
    <2>1. Turns(p, "reading") /\ UNCHANGED <<gates, lapsed>>
      BY <1>2 DEF Check, gating
    <2>2. /\ DOMAIN ppc' = Pastes /\ ppc'[p] = "reading"
          /\ \A q \in Pastes : q # p => ppc'[q] = ppc[q]
      BY <2>1 DEF Turns, ReadInv
    <2>3. gates # {} => board.shows = None
      BY <1>2, KnownBehindGate
    <2>4. \A q \in Pastes : ppc'[q] \in Behind /\ via'[q] = "core" => q \in gates' \ lapsed'
      BY <1>1, <2>1, <2>2 DEF ReadInv, Behind
    <2>5. TextIsForeign'
      BY <1>1, <2>2 DEF ReadInv, TextIsForeign
    <2>6. QED BY <1>1, <2>1, <2>2, <2>3, <2>4, <2>5 DEF ReadInv
  <1>3. CASE ~(ours = None \/ board.shows # ours)
    <2>1. PICK where : Turns(p, where) /\ where \notin Behind \union {"text"}
      <3>1. CASE via[p] = "web"
        <4>1. Turns(p, "repinning")
          BY <1>3, <3>1 DEF Check
        <4>2. QED BY <4>1 DEF Behind
      <3>2. CASE via[p] # "web"
        <4>1. NoClip(p)
          BY <1>3, <3>2 DEF Check
        <4>2. \/ Turns(p, "opening") \/ Turns(p, "nothing") \/ Turns(p, "asking")
          BY <4>1 DEF NoClip
        <4>3. QED BY <4>2 DEF Behind
      <3>3. QED BY <3>1, <3>2
    <2>2. gates' = gates \ {p} /\ lapsed' = lapsed \ {p}
      BY <1>3 DEF Check, CloseGate
    <2>3. QED BY <1>1, <2>1, <2>2, TurnKeeps
  <1>4. QED BY <1>2, <1>3

LEMMA ReadKeeps ==
  ASSUME ReadInv, NEW p \in Pastes, Read(p)
  PROVE  ReadInv'
  <1>1. /\ ppc[p] = "reading" /\ Turns(p, "read") /\ got' = [got EXCEPT ![p] = board.shows]
        /\ UNCHANGED <<board, publishing, via, gates, lapsed>>
    BY DEF Read, clipboard, gating
  <1>2. /\ DOMAIN ppc' = Pastes /\ ppc'[p] = "read"
        /\ \A q \in Pastes : q # p => ppc'[q] = ppc[q] /\ got'[q] = got[q]
        /\ DOMAIN got' = Pastes /\ got'[p] = board.shows
    BY <1>1 DEF Turns, ReadInv
  <1>3. \A q \in Pastes : ppc'[q] \in Behind /\ via'[q] = "core" => q \in gates' \ lapsed'
    BY <1>1, <1>2 DEF ReadInv, Behind
  <1>4. \A q \in gates' : /\ ppc'[q] = "reading" => board'.shows = None
                          /\ ppc'[q] = "read" => got'[q] = None
    BY <1>1, <1>2 DEF ReadInv
  <1>5. TextIsForeign'
    BY <1>1, <1>2 DEF ReadInv, TextIsForeign
  <1>6. QED BY <1>1, <1>2, <1>3, <1>4, <1>5 DEF ReadInv

LEMMA EndReadKeeps ==
  ASSUME ReadInv, NEW p \in Pastes, EndRead(p)
  PROVE  ReadInv'
  <1>1. /\ ppc[p] = "read" /\ UNCHANGED <<board, publishing, got, via>>
        /\ gates' = gates \ {p} /\ lapsed' = lapsed \ {p}
    BY DEF EndRead, CloseGate, clipboard
  <1>2. CASE via[p] = "core" \/ p \in gates \ lapsed
    <2>1. Turns(p, "text")
      BY <1>2 DEF EndRead
    <2>2. /\ DOMAIN ppc' = Pastes /\ ppc'[p] = "text"
          /\ \A q \in Pastes : q # p => ppc'[q] = ppc[q]
      BY <2>1 DEF Turns, ReadInv
    <2>3. got[p] = None
      BY <1>1, <1>2 DEF ReadInv, Behind
    <2>4. TextIsForeign'
      BY <1>1, <2>2, <2>3 DEF ReadInv, TextIsForeign
    <2>5. \A q \in Pastes : ppc'[q] \in Behind /\ via'[q] = "core" => q \in gates' \ lapsed'
      BY <1>1, <2>2 DEF ReadInv, Behind
    <2>6. QED BY <1>1, <2>2, <2>4, <2>5 DEF ReadInv
  <1>3. CASE ~(via[p] = "core" \/ p \in gates \ lapsed)
    <2>1. Turns(p, "nothing")
      BY <1>3 DEF EndRead
    <2>2. QED BY <1>1, <2>1, TurnKeeps DEF Behind
  <1>4. QED BY <1>2, <1>3

LEMMA ReadsOfPastes ==
  ASSUME ClipAssumption, CopyInv, ReadInv, NEW p \in Pastes,
         Press(p) \/ PasteStep(p) \/ Read(p) \/ GiveUpReading(p) \/ GateLapses(p) \/ Renew(p)
  PROVE  ReadInv'
  <1> USE DEF clipboard, gating
  <1>1. CASE Press(p) \/ ReleasedThrough(p)
    BY <1>1, TurnKeeps DEF Press, ReleasedThrough, Behind
  <1>2. CASE Status(p)
    <2>1. CASE Valid
      BY <1>2, <2>1, TurnKeeps DEF Status, Behind
    <2>2. CASE ~Valid
      BY <1>2, <2>2, TurnKeeps DEF Status, Behind
    <2>3. QED BY <2>1, <2>2
  <1>3. CASE Pin(p) \/ Unanswered(p)
    <2>1. \E where \in {"clip", "opening", "nothing", "asking"} : Turns(p, where)
      BY <1>3 DEF Pin, Unanswered, NoClip
    <2>2. UNCHANGED <<board, publishing, got, via, gates, lapsed>>
      BY <1>3 DEF Pin, Unanswered
    <2>3. QED BY <2>1, <2>2, TurnKeeps DEF Behind
  <1>4. CASE GiveUpReading(p) \/ HearRevoked(p)
    BY <1>4, TurnKeeps DEF GiveUpReading, HearRevoked, CloseGate, Behind
  <1>5. CASE GateLapses(p)
    <2>1. lapsed' = lapsed \union {p} /\ via[p] = "web"
          /\ UNCHANGED <<board, publishing, ppc, got, via, gates>>
      BY <1>5 DEF GateLapses, pastes
    <2>2. QED BY <2>1 DEF ReadInv, TextIsForeign
  <1>6. CASE Renew(p)
    <2>1. lapsed' = lapsed \ {p} /\ UNCHANGED <<board, publishing, ppc, got, via, gates>>
      BY <1>6 DEF Renew, pastes
    <2>2. QED BY <2>1 DEF ReadInv, TextIsForeign
  <1>7. QED
    BY <1>1, <1>2, <1>3, <1>4, <1>5, <1>6, OpenKeeps, CheckKeeps, ReadKeeps, EndReadKeeps
    DEF PasteStep

LEMMA ReadsOfCopies ==
  ASSUME ClipAssumption, CopyInv, ReadInv, NEW c \in Copies,
         Reserve(c) \/ Drop(c) \/ CopyStep(c) \/ ExpireGates(c) \/ RevokeDue(c) \/ ReservationLapses(c)
  PROVE  ReadInv'
  <1> USE DEF clipboard, gating, pastes
  <1>1. CASE BeginPublish(c)
    <2>1. gates \subseteq lapsed /\ gates' = {} /\ lapsed' = {} /\ UNCHANGED <<board, ppc, got, via>>
      BY <1>1 DEF BeginPublish
    <2>2. QED BY <2>1 DEF ReadInv, TextIsForeign
  <1>2. CASE ExpireGates(c)
    <2>1. gates' = gates \ lapsed /\ lapsed' = {} /\ UNCHANGED <<board, publishing, ppc, got, via>>
      BY <1>2 DEF ExpireGates
    <2>2. QED BY <2>1 DEF ReadInv, TextIsForeign
  <1>3. CASE Offer(c)
    <2>1. cpc[c] \in Handed /\ UNCHANGED <<gates, lapsed, publishing, ppc, got, via>>
      BY <1>3 DEF Offer, Handed
    <2>2. gates = {}
      BY <2>1 DEF ReadInv, CopyInv
    <2>3. QED BY <2>1, <2>2, ReadStay
  <1>4. CASE Publishing(c)
    BY <1>4, ReadStay DEF Publishing, ReadInv
  <1>5. CASE \/ Reserve(c) \/ Drop(c) \/ Begin(c) \/ Write(c) \/ WriteFails(c) \/ Queue(c) \/ Install(c)
             \/ StopWaiting(c) \/ Release(c) \/ RevokeDue(c) \/ ReservationLapses(c)
    <2>1. UNCHANGED <<board, publishing, ppc, got, via, gates, lapsed>>
      BY <1>5 DEF Reserve, Drop, Begin, Write, WriteFails, Queue, Install, StopWaiting, Release,
         RevokeDue, ReservationLapses
    <2>2. QED BY <2>1, ReadStay DEF ReadInv
  <1>6. QED BY <1>1, <1>2, <1>3, <1>4, <1>5 DEF CopyStep

LEMMA ReadsOfReset ==
  ASSUME ReadInv, NEW w \in Wins, WindowReset(w)
  PROVE  ReadInv'
  <1>1. PICK gone \in SUBSET Pastes :
          /\ ppc' = [p \in Pastes |-> IF p \in gone THEN "nothing" ELSE ppc[p]]
          /\ gates' = gates \ gone /\ lapsed' = lapsed \ gone
    BY DEF WindowReset
  <1>2. UNCHANGED <<board, publishing, got, via>>
    BY DEF WindowReset, clipboard
  <1>3. QED BY <1>1, <1>2 DEF ReadInv, TextIsForeign, Behind

LEMMA ReadSafe == ClipAssumption /\ CopyInv /\ ReadInv /\ [Next]_vars => ReadInv'
  <1> SUFFICES ASSUME ClipAssumption, CopyInv, ReadInv, [Next]_vars PROVE ReadInv'
    OBVIOUS
  <1>1. CASE ValidateOnFocus
    BY <1>1, ReadStay DEF ValidateOnFocus, clipboard, gating, pastes, ReadInv
  <1>2. CASE Foreign
    BY <1>2, ReadStay DEF Foreign, gating, pastes, ReadInv
  <1>3. CASE UNCHANGED vars
    BY <1>3, ReadStay DEF vars, clipboard, gating, pastes, ReadInv
  <1>4. QED
    BY <1>1, <1>2, <1>3, ReadsOfCopies, ReadsOfPastes, ReadsOfReset DEF Next

LEMMA AlwaysSafe == Spec => [](CopyInv /\ ReadInv)
  <1>1. Init => CopyInv /\ ReadInv
    BY DEF Init, CopyInv, ReadInv, NoStrayFile, TextIsForeign, Handed, WithFile, Behind
  <1>2. CopyInv /\ ReadInv /\ [Next]_vars => (CopyInv /\ ReadInv)'
    BY CopySafe, ReadSafe, ClipAssumption
  <1>3. QED BY <1>1, <1>2, PTL DEF Spec

(* "What is read is never ours" (clipboard_store.rs): the text of a paste   *)
(* that counts as another app's is never that of a clip.                    *)
THEOREM NeverOurOwnText == Spec => []TextIsForeign
  <1>1. ReadInv => TextIsForeign
    BY DEF ReadInv
  <1>2. QED BY <1>1, AlwaysSafe, PTL

(* A clip that the clipboard shows can be supplied: its file is there.      *)
THEOREM OfferCanBeKept == Spec => []OfferHasFile
  <1>1. CopyInv => OfferHasFile
    BY DEF CopyInv, OfferHasFile, WithFile, Handed
  <1>2. QED BY <1>1, AlwaysSafe, PTL

(* No copy leaves its file behind, however it ends.                         *)
THEOREM NoClipLeftBehind == Spec => []NoStrayFile
  <1>1. CopyInv => NoStrayFile
    BY DEF CopyInv
  <1>2. QED BY <1>1, AlwaysSafe, PTL

-----------------------------------------------------------------------------
(* Types.  A paste that is not over has an attempt left.                    *)
HasAttempt == \A p \in Pastes : ppc[p] # "nothing" => lost[p] < Attempts

KindInv == TypeOK /\ HasAttempt

LEMMA KindsOfCopies ==
  ASSUME ClipAssumption, KindInv, NEW c \in Copies,
         Reserve(c) \/ Drop(c) \/ CopyStep(c) \/ ExpireGates(c) \/ RevokeDue(c) \/ ReservationLapses(c)
  PROVE  KindInv'
  <1> USE DEF KindInv, TypeOK, HasAttempt, core, clipboard, leases, gating, copies, pastes, Goes, Ended
  <1>1. CASE Reserve(c)
    BY <1>1 DEF Reserve
  <1>2. CASE Drop(c) \/ WriteFails(c)
    BY <1>2 DEF Drop, WriteFails
  <1>3. CASE Begin(c)
    BY <1>3 DEF Begin
  <1>4. CASE Write(c)
    BY <1>4 DEF Write
  <1>5. CASE BeginPublish(c)
    BY <1>5 DEF BeginPublish
  <1>6. CASE Queue(c) \/ StopWaiting(c)
    BY <1>6 DEF Queue, StopWaiting
  <1>7. CASE Offer(c)
    BY <1>7 DEF Offer
  <1>8. CASE Install(c)
    BY <1>8 DEF Install
  <1>9. CASE Publishing(c) \/ Release(c) \/ ReservationLapses(c)
    BY <1>9 DEF Publishing, Release, ReservationLapses
  <1>10. CASE ExpireGates(c) \/ RevokeDue(c)
    BY <1>10 DEF ExpireGates, RevokeDue
  <1>11. QED
    BY <1>1, <1>2, <1>3, <1>4, <1>5, <1>6, <1>7, <1>8, <1>9, <1>10 DEF CopyStep

LEMMA ValidateKinds ==
  ASSUME ClipAssumption, TypeOK, ValidateLocked
  PROVE  files' \subseteq Copies /\ {active', ours'} \subseteq Copies \union {None}
  BY DEF ValidateLocked, TypeOK

LEMMA NoClipKinds ==
  ASSUME ClipAssumption, KindInv, NEW p \in Pastes, NoClip(p), ppc[p] # "nothing"
  PROVE  /\ HasAttempt' /\ lost' \in [Pastes -> 0 .. Attempts]
         /\ ppc' \in [Pastes -> Settled \union Pinning \union {"none", "waiting", "asking", "opening",
                                                       "checking", "reading", "read"}]
  <1> USE DEF KindInv, TypeOK, HasAttempt, Turns, Settled, Pinning
  <1>1. CASE ppc[p] = "pinning"
    BY <1>1 DEF NoClip
  <1>2. CASE ppc[p] # "pinning"
    BY <1>2 DEF NoClip, ClipAssumption
  <1>3. QED BY <1>1, <1>2

LEMMA KindsOfPastes ==
  ASSUME ClipAssumption, KindInv, NEW p \in Pastes,
         Press(p) \/ PasteStep(p) \/ Read(p) \/ GiveUpReading(p) \/ GateLapses(p) \/ Renew(p)
  PROVE  KindInv'
  <1> USE DEF KindInv, TypeOK, HasAttempt, core, clipboard, leases, gating, copies, pastes, Turns, Settled,
              Pinning, CloseGate
  <1>1. CASE Press(p) \/ ReleasedThrough(p)
    BY <1>1 DEF Press, ReleasedThrough
  <1>2. CASE Status(p)
    BY <1>2, ValidateKinds DEF Status, Valid
  <1>3. CASE Pin(p)
    <2>1. files' \subseteq Copies /\ {active', ours'} \subseteq Copies \union {None}
      BY <1>3, ValidateKinds DEF Pin
    <2>2. HasAttempt' /\ lost' \in [Pastes -> 0 .. Attempts]
          /\ ppc' \in [Pastes -> Settled \union Pinning \union {"none", "waiting", "asking", "opening",
                                                       "checking", "reading", "read"}]
      <3>1. CASE NoClip(p)
        BY <1>3, <3>1, NoClipKinds DEF Pin
      <3>2. CASE Turns(p, "clip") /\ UNCHANGED lost
        BY <1>3, <3>2 DEF Pin
      <3>3. QED BY <1>3, <3>1, <3>2 DEF Pin
    <2>3. QED BY <1>3, <2>1, <2>2 DEF Pin
  <1>4. CASE Unanswered(p)
    <2>1. CASE NoClip(p) /\ ppc[p] \in Pinning
      BY <1>4, <2>1, NoClipKinds DEF Unanswered
    <2>2. CASE ppc[p] = "asking" /\ Turns(p, "opening") /\ UNCHANGED lost
      BY <1>4, <2>2 DEF Unanswered
    <2>3. QED BY <1>4, <2>1, <2>2 DEF Unanswered
  <1>5. CASE Open(p)
    BY <1>5 DEF Open
  <1>6. CASE Check(p)
    <2>1. CASE NoClip(p)
      BY <1>6, <2>1, NoClipKinds DEF Check
    <2>2. CASE UNCHANGED lost
      BY <1>6, <2>2 DEF Check, NoClip
    <2>3. QED BY <1>6, <2>1, <2>2 DEF Check
  <1>7. CASE Read(p)
    BY <1>7 DEF Read
  <1>8. CASE GiveUpReading(p) \/ EndRead(p) \/ HearRevoked(p)
    BY <1>8 DEF GiveUpReading, EndRead, HearRevoked
  <1>9. CASE GateLapses(p) \/ Renew(p)
    BY <1>9 DEF GateLapses, Renew
  <1>10. QED
    BY <1>1, <1>2, <1>3, <1>4, <1>5, <1>6, <1>7, <1>8, <1>9 DEF PasteStep

LEMMA KindsOfReset ==
  ASSUME ClipAssumption, KindInv, NEW w \in Wins, WindowReset(w)
  PROVE  KindInv'
  BY DEF WindowReset, KindInv, TypeOK, HasAttempt, core, clipboard, Ended, Settled

LEMMA KindsStay == ClipAssumption /\ KindInv /\ [Next]_vars => KindInv'
  <1> SUFFICES ASSUME ClipAssumption, KindInv, [Next]_vars PROVE KindInv'
    OBVIOUS
  <1> USE DEF core, clipboard, leases, gating, copies, pastes
  <1>1. CASE ValidateOnFocus
    BY <1>1, ValidateKinds DEF ValidateOnFocus, KindInv, TypeOK, HasAttempt
  <1>2. CASE Foreign
    BY <1>2 DEF Foreign, KindInv, TypeOK, HasAttempt
  <1>3. CASE UNCHANGED vars
    BY <1>3 DEF vars, KindInv, TypeOK, HasAttempt
  <1>4. QED
    BY <1>1, <1>2, <1>3, KindsOfCopies, KindsOfPastes, KindsOfReset DEF Next

LEMMA AlwaysKinds == Spec => []KindInv
  <1>1. Init => KindInv
    BY ClipAssumption DEF Init, KindInv, TypeOK, HasAttempt
  <1>2. QED BY <1>1, KindsStay, ClipAssumption, PTL DEF Spec

(* The variables keep their types; a paste that has used up its attempts    *)
(* does not start over.                                                    *)
THEOREM TypeCorrect == Spec => []TypeOK
  <1>1. KindInv => TypeOK
    BY DEF KindInv
  <1>2. QED BY <1>1, AlwaysKinds, PTL

-----------------------------------------------------------------------------
(* Ages.  The clip in use is the latest of those that were offered, and     *)
(* stays the latest while a copy has the lock: nothing begins meanwhile. A  *)
(* reservation is there until its copy is over, unless its page goes silent *)
(* (leaked), so a paste that no longer waits has no copy pressed before it  *)
(* that could still be offered.                                            *)
Asked == {"asking", "opening", "clip"} \union Pinning \union Behind
Over(c) == cpc[c] \in Ended \union {"none"}

CopyAges ==
  /\ \A c \in Copies : seq[c] <= copySeq /\ res[c] <= numbers
  /\ lock # None => seq[lock] = copySeq
  /\ active # None => \A c \in Copies : cpc[c] = "offered" => seq[c] <= seq[active]
  /\ \A c \in Copies \ leaked : Over(c) \/ c \in live

Awaited(p) ==
  /\ mark[p] <= numbers
  /\ ppc[p] = "clip" => found[p] \in Copies /\ cpc[found[p]] = "offered"
  /\ ppc[p] \in Asked =>
       \A c \in Copies \ leaked : cpc[c] # "none" /\ res[c] <= mark[p] => cpc[c] \in Ended

AgeInv == KindInv /\ CopyInv /\ CopyAges /\ PasteIsNotOlder /\ \A p \in Pastes : Awaited(p)

Ages == CopyAges /\ PasteIsNotOlder /\ \A p \in Pastes : Awaited(p)

(* A copy goes on, but not to its offer.                                    *)
LEMMA AgesGoOn ==
  ASSUME AgeInv, NEW c \in Copies, NEW where, Goes(c, where), ~Over(c), where \notin {"none", "offered"},
         UNCHANGED <<copySeq, seq, res, numbers, live, leaked, active, mark, ppc, found>>,
         lock' = lock \/ (lock' = c /\ seq[c] = copySeq)
  PROVE  Ages'
  <1>1. /\ cpc' \in [Copies -> {cpc[d] : d \in Copies} \union {where}] /\ cpc'[c] = where
        /\ \A d \in Copies : d # c => cpc'[d] = cpc[d]
    BY DEF Goes, AgeInv, KindInv, TypeOK
  <1>2. CopyAges'
    BY <1>1 DEF AgeInv, CopyAges, Over, Ended
  <1>3. \A p \in Pastes : Awaited(p)'
    BY <1>1 DEF AgeInv, Awaited, Over, Ended
  <1>4. PasteIsNotOlder'
    BY <1>1 DEF AgeInv, PasteIsNotOlder, Over, Ended
  <1>5. QED BY <1>2, <1>3, <1>4 DEF Ages

LEMMA AgesBegin ==
  ASSUME AgeInv, NEW c \in Copies, Begin(c)
  PROVE  Ages'
  <1> USE DEF AgeInv, KindInv, TypeOK
  <1>1. /\ cpc[c] = "reserved" /\ lock = None /\ copySeq' = copySeq + 1 /\ seq' = [seq EXCEPT ![c] = copySeq + 1]
        /\ UNCHANGED <<lock, active, res, numbers, live, leaked, mark, ppc, found>>
        /\ cpc' = [cpc EXCEPT ![c] = "begun"]
    BY DEF Begin, Free, Goes, leases, pastes
  <1>2. CopyAges'
    BY <1>1 DEF CopyAges, CopyInv, Over, Ended
  <1>3. \A p \in Pastes : Awaited(p)'
    BY <1>1 DEF Awaited, Ended
  <1>4. PasteIsNotOlder'
    BY <1>1 DEF PasteIsNotOlder, Awaited
  <1>5. QED BY <1>2, <1>3, <1>4 DEF Ages

(* The clip that is put in use is the latest, and was waited for by every    *)
(* paste that was pressed after it.                                        *)
LEMMA AgesInstall ==
  ASSUME ClipAssumption, AgeInv, NEW c \in Copies, Install(c)
  PROVE  Ages'
  <1> USE DEF AgeInv, KindInv, TypeOK
  <1>1. /\ cpc[c] = "published" /\ lock' = None /\ active' = c /\ cpc' = [cpc EXCEPT ![c] = "offered"]
        /\ UNCHANGED <<copySeq, seq, res, numbers, live, leaked, mark, ppc, found>>
    BY DEF Install, Goes, leases, pastes
  <1>2. lock = c /\ c # None
    BY <1>1 DEF CopyInv, ClipAssumption
  <1>3. CopyAges'
    BY <1>1, <1>2 DEF CopyAges, Over, Ended
  <1>4. \A p \in Pastes : Awaited(p)'
    BY <1>1 DEF Awaited, Ended
  <1>5. \A p \in Pastes : ppc[p] = "clip" /\ c \notin leaked => ~(res[c] <= mark[p])
    BY <1>1 DEF Awaited, Asked, Ended
  <1>6. PasteIsNotOlder'
    BY <1>1, <1>5 DEF PasteIsNotOlder
  <1>7. QED BY <1>3, <1>4, <1>6 DEF Ages

LEMMA AgesStay ==
  ASSUME AgeInv, UNCHANGED <<copySeq, seq, res, numbers, cpc, lock, mark, ppc, found>>,
         active' \in {active, None},
         leaked \subseteq leaked', live \ live' \subseteq leaked' \union {c \in Copies : Over(c)}
  PROVE  Ages'
  <1>1. CopyAges'
    BY DEF AgeInv, CopyAges, Over
  <1>2. \A p \in Pastes : Awaited(p)'
    BY DEF AgeInv, Awaited
  <1>3. PasteIsNotOlder'
    BY DEF AgeInv, PasteIsNotOlder
  <1>4. QED BY <1>1, <1>2, <1>3 DEF Ages

LEMMA AgesOfCopies ==
  ASSUME ClipAssumption, AgeInv, NEW c \in Copies,
         Reserve(c) \/ Drop(c) \/ CopyStep(c) \/ ExpireGates(c) \/ RevokeDue(c) \/ ReservationLapses(c)
  PROVE  Ages'
  <1> USE DEF core, clipboard, leases, copies, pastes
  <1>1. CASE Reserve(c)
    <2> USE DEF AgeInv, KindInv, TypeOK
    <2>1. /\ cpc[c] = "none" /\ cpc' = [cpc EXCEPT ![c] = "reserved"]
          /\ numbers' = numbers + 1 /\ res' = [res EXCEPT ![c] = numbers + 1] /\ live' = live \union {c}
          /\ UNCHANGED <<copySeq, seq, lock, active, leaked, mark, ppc, found>>
      BY <1>1 DEF Reserve, Goes
    <2>2. CopyAges'
      BY <2>1 DEF CopyAges, Over, Ended
    <2>3. \A p \in Pastes : Awaited(p)'
      BY <2>1 DEF Awaited
    <2>4. PasteIsNotOlder'
      BY <2>1 DEF PasteIsNotOlder
    <2>5. QED BY <2>2, <2>3, <2>4 DEF Ages
  <1>2. CASE Drop(c) \/ Write(c) \/ WriteFails(c) \/ BeginPublish(c) \/ StopWaiting(c)
    BY <1>2, AgesGoOn DEF Drop, Write, WriteFails, BeginPublish, StopWaiting, Over, Ended
  <1>3. CASE Queue(c)
    BY <1>3, AgesGoOn DEF Queue, Over, Ended
  <1>4. CASE Offer(c)
    <2>1. /\ ~Over(c) /\ \E where \in {"superseded", "published", "failed"} : Goes(c, where)
          /\ UNCHANGED <<copySeq, seq, res, numbers, live, leaked, active, mark, ppc, found>>
          /\ lock' = lock \/ (lock' = c /\ seq[c] = copySeq)
      BY <1>4 DEF Offer, Over, Ended, Stale
    <2>2. QED BY <2>1, AgesGoOn
  <1>5. CASE Publishing(c) \/ ExpireGates(c) \/ RevokeDue(c)
    BY <1>5, AgesStay DEF Publishing, ExpireGates, RevokeDue
  <1>6. CASE Release(c) \/ ReservationLapses(c)
    BY <1>6, AgesStay DEF Release, ReservationLapses, Over
  <1>7. QED
    BY <1>1, <1>2, <1>3, <1>4, <1>5, <1>6, AgesBegin, AgesInstall DEF CopyStep

(* A paste turns, but does not get its clip.                                *)
LEMMA AgesTurn ==
  ASSUME AgeInv, NEW p \in Pastes, NEW where, Turns(p, where), ppc[p] \in Asked \/ where \notin Asked,
         where # "clip", ppc[p] # "clip",
         UNCHANGED <<copySeq, seq, res, numbers, live, leaked, cpc, lock, mark>>,
         active' \in {active, None},
         \A q \in Pastes : q # p => found'[q] = found[q]
  PROVE  Ages'
  <1>1. ppc'[p] = where /\ \A q \in Pastes : q # p => ppc'[q] = ppc[q]
    BY DEF Turns, AgeInv, KindInv, TypeOK
  <1>2. CopyAges'
    BY DEF AgeInv, CopyAges, Over
  <1>3. \A q \in Pastes : Awaited(q)'
    BY <1>1 DEF AgeInv, Awaited
  <1>4. PasteIsNotOlder'
    BY <1>1 DEF AgeInv, PasteIsNotOlder
  <1>5. QED BY <1>2, <1>3, <1>4 DEF Ages

LEMMA AgesPin ==
  ASSUME ClipAssumption, AgeInv, NEW p \in Pastes, Pin(p), Turns(p, "clip")
  PROVE  Ages'
  <1> USE DEF AgeInv, KindInv, TypeOK
  <1>1. /\ ppc[p] \in Pinning /\ ppc' = [ppc EXCEPT ![p] = "clip"]
        /\ UNCHANGED <<copySeq, seq, res, numbers, live, leaked, cpc, lock, mark, found>>
        /\ active' \in {active, None}
    BY DEF Pin, Turns, ValidateLocked, leases, copies
  <1>2. active # None /\ found[p] = active
    <2>1. \A where : Turns(p, where) => where = "clip"
      BY <1>1 DEF Turns
    <2>2. ~NoClip(p)
      BY <2>1 DEF NoClip
    <2>3. QED BY <2>2 DEF Pin, Valid
  <1>3. CopyAges'
    BY <1>1 DEF CopyAges, Over
  <1>4. \A q \in Pastes : Awaited(q)'
    BY <1>1, <1>2 DEF Awaited, Asked, CopyInv
  <1>5. PasteIsNotOlder'
    BY <1>1, <1>2 DEF PasteIsNotOlder, CopyAges
  <1>6. QED BY <1>3, <1>4, <1>5 DEF Ages

LEMMA AgesOfPastes ==
  ASSUME ClipAssumption, AgeInv, NEW p \in Pastes,
         Press(p) \/ PasteStep(p) \/ Read(p) \/ GiveUpReading(p) \/ GateLapses(p) \/ Renew(p)
  PROVE  Ages'
  <1> USE DEF core, leases, copies
  <1>1. CASE Press(p)
    <2> USE DEF AgeInv, KindInv, TypeOK
    <2>1. /\ ppc[p] = "none" /\ ppc' = [ppc EXCEPT ![p] = "waiting"] /\ mark' = [mark EXCEPT ![p] = numbers]
          /\ UNCHANGED <<copySeq, seq, res, numbers, live, leaked, cpc, lock, active, found>>
      BY <1>1 DEF Press, Turns
    <2>2. CopyAges'
      BY <2>1 DEF CopyAges, Over
    <2>3. \A q \in Pastes : Awaited(q)'
      BY <2>1 DEF Awaited, Asked, Pinning, Behind
    <2>4. PasteIsNotOlder'
      BY <2>1 DEF PasteIsNotOlder
    <2>5. QED BY <2>2, <2>3, <2>4 DEF Ages
  <1>2. CASE ReleasedThrough(p)
    <2> USE DEF AgeInv, KindInv, TypeOK
    <2>1. /\ ppc[p] = "waiting" /\ ppc' = [ppc EXCEPT ![p] = "asking"] /\ \A c \in live : res[c] > mark[p]
          /\ UNCHANGED <<copySeq, seq, res, numbers, live, leaked, cpc, lock, active, found, mark>>
      BY <1>2 DEF ReleasedThrough, Turns
    <2>2. CopyAges'
      BY <2>1 DEF CopyAges, Over
    <2>3. \A c \in Copies \ leaked : cpc[c] # "none" /\ res[c] <= mark[p] => cpc[c] \in Ended
      BY <2>1 DEF CopyAges, Over
    <2>4. \A q \in Pastes : Awaited(q)'
      BY <2>1, <2>3 DEF Awaited
    <2>5. PasteIsNotOlder'
      BY <2>1 DEF PasteIsNotOlder
    <2>6. QED BY <2>2, <2>4, <2>5 DEF Ages
  <1>3. CASE Status(p)
    <2>1. PICK where \in {"pinning", "opening"} : Turns(p, where)
      BY <1>3 DEF Status
    <2>2. ppc[p] = "asking" /\ active' \in {active, None}
      BY <1>3 DEF Status, ValidateLocked
    <2>3. \A q \in Pastes : q # p => found'[q] = found[q]
      BY <1>3 DEF Status, AgeInv, KindInv, TypeOK
    <2>4. UNCHANGED <<copySeq, seq, res, numbers, live, leaked, cpc, lock, mark>>
      BY <1>3 DEF Status
    <2>5. QED BY <2>1, <2>2, <2>3, <2>4, AgesTurn DEF Asked, Pinning
  <1>4. CASE Pin(p) \/ Unanswered(p)
    <2>1. CASE Pin(p) /\ Turns(p, "clip")
      BY <2>1, AgesPin
    <2>2. CASE \E where \in {"opening", "nothing", "asking"} : Turns(p, where)
      <3>1. PICK where \in {"opening", "nothing", "asking"} : Turns(p, where)
        BY <2>2
      <3>2. ppc[p] \in Asked /\ ppc[p] # "clip" /\ active' \in {active, None}
        BY <1>4 DEF Pin, Unanswered, Asked, Pinning, ValidateLocked
      <3>3. UNCHANGED <<copySeq, seq, res, numbers, live, leaked, cpc, lock, mark, found>>
        BY <1>4 DEF Pin, Unanswered
      <3>4. QED BY <3>1, <3>2, <3>3, AgesTurn
    <2>3. QED BY <1>4, <2>1, <2>2 DEF Pin, Unanswered, NoClip
  <1>5. CASE Open(p) \/ Read(p) \/ GiveUpReading(p) \/ EndRead(p) \/ HearRevoked(p)
    <2>1. \E where \in {"checking", "read", "nothing", "text"} : Turns(p, where)
      BY <1>5 DEF Open, Read, GiveUpReading, EndRead, HearRevoked
    <2>2. ppc[p] \in Asked /\ ppc[p] # "clip"
      BY <1>5 DEF Open, Read, GiveUpReading, EndRead, HearRevoked, Asked, Behind
    <2>3. UNCHANGED <<copySeq, seq, res, numbers, live, leaked, cpc, lock, mark, found, active>>
      BY <1>5 DEF Open, Read, GiveUpReading, EndRead, HearRevoked
    <2>4. QED BY <2>1, <2>2, <2>3, AgesTurn
  <1>6. CASE Check(p)
    <2>1. \E where \in {"reading", "repinning", "opening", "nothing", "asking"} : Turns(p, where)
      BY <1>6 DEF Check, NoClip
    <2>2. ppc[p] = "checking" /\ \A q \in Pastes : q # p => found'[q] = found[q]
      BY <1>6 DEF Check, AgeInv, KindInv, TypeOK
    <2>3. UNCHANGED <<copySeq, seq, res, numbers, live, leaked, cpc, lock, mark, active>>
      BY <1>6 DEF Check
    <2>4. QED BY <2>1, <2>2, <2>3, AgesTurn DEF Asked, Pinning, Behind
  <1>7. CASE GateLapses(p) \/ Renew(p)
    BY <1>7, AgesStay DEF GateLapses, Renew, pastes
  <1>8. QED
    BY <1>1, <1>2, <1>3, <1>4, <1>5, <1>6, <1>7 DEF PasteStep

LEMMA AgesOfReset ==
  ASSUME AgeInv, NEW w \in Wins, WindowReset(w)
  PROVE  Ages'
  <1> USE DEF AgeInv, KindInv, TypeOK
  <1> DEFINE mine == {c \in live : cwin[c] = w}
             queued == {c \in Copies : cwin[c] = w /\ cpc[c] = "reserved"}
             gone == {p \in Pastes : pwin[p] = w /\ ppc[p] \notin Settled \union {"none"}}
  <1>1. /\ cpc' = [c \in Copies |-> IF c \in queued THEN "dropped" ELSE cpc[c]]
        /\ \A c \in queued : cpc[c] = "reserved"
        /\ ppc' = [p \in Pastes |-> IF p \in gone THEN "nothing" ELSE ppc[p]]
        /\ live' = live \ mine /\ leaked' = leaked \union mine
    BY DEF WindowReset
  <1> HIDE DEF mine, queued, gone
  <1>2. UNCHANGED <<copySeq, seq, res, numbers, lock, active, mark, found>>
    BY DEF WindowReset, core
  <1>3. CopyAges'
    BY <1>1, <1>2 DEF CopyAges, Over, Ended
  <1>4. \A q \in Pastes : Awaited(q)'
    BY <1>1, <1>2 DEF Awaited, Asked, Pinning, Behind, Ended
  <1>5. PasteIsNotOlder'
    BY <1>1, <1>2 DEF PasteIsNotOlder
  <1>6. QED BY <1>3, <1>4, <1>5 DEF Ages

LEMMA AgesSafe == ClipAssumption /\ AgeInv /\ [Next]_vars => AgeInv'
  <1> SUFFICES ASSUME ClipAssumption, AgeInv, [Next]_vars PROVE AgeInv'
    OBVIOUS
  <1> USE DEF core, clipboard, leases, copies, pastes
  <1>1. KindInv' /\ CopyInv'
    BY KindsStay, CopySafe DEF AgeInv
  <1>2. Ages'
    <2>1. CASE ValidateOnFocus
      BY <2>1, AgesStay DEF ValidateOnFocus, ValidateLocked
    <2>2. CASE Foreign \/ UNCHANGED vars
      BY <2>2, AgesStay DEF Foreign, vars
    <2>3. QED
      BY <2>1, <2>2, AgesOfCopies, AgesOfPastes, AgesOfReset DEF Next
  <1>3. QED BY <1>1, <1>2 DEF AgeInv, Ages

(* The user gets what was copied last before the paste was pressed, in       *)
(* whatever window, or something newer (released_through of                 *)
(* clipboard_store.rs); the copies of a page that went silent are not       *)
(* waited for.                                                             *)
THEOREM NoOlderClip == Spec => []PasteIsNotOlder
  <1>1. Init => AgeInv
    <2>1. Init => KindInv /\ CopyInv
      BY ClipAssumption
      DEF Init, KindInv, TypeOK, HasAttempt, CopyInv, NoStrayFile, Handed, WithFile
    <2>2. Init => CopyAges /\ PasteIsNotOlder /\ \A p \in Pastes : Awaited(p)
      BY ClipAssumption DEF Init, CopyAges, PasteIsNotOlder, Awaited, Over, Asked, Pinning, Behind
    <2>3. QED BY <2>1, <2>2 DEF AgeInv
  <1>2. AgeInv => PasteIsNotOlder
    BY DEF AgeInv
  <1>3. QED BY <1>1, <1>2, AgesSafe, ClipAssumption, PTL DEF Spec
=============================================================================
