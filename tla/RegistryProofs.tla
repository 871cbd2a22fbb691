---------------------------- MODULE RegistryProofs ----------------------------
(***************************************************************************)
(* What the control plane knows of components, services and health, each   *)
(* proved for itself, for any number of commands, slots, services and      *)
(* heartbeats.  A section below per component; the invariants are CompInv, *)
(* SvcInv and MonInv.                                                      *)
(***************************************************************************)
EXTENDS Components, Services, Monitoring, FiniteSetTheorems, TLAPS
------------------------------------------------------------------------------
(* The component registry.  SlotsAreBacked and WishesStand are not         *)
(* inductive: CompInv adds what the run and the row in a command's hand    *)
(* are between the transactions that record, look at and save them.        *)

\* A run that its command may carry out itself: it never had to be approved.
Direct(i) ==
  /\ i \in 1..Len(runs)
  /\ runs[i].status \in {"state_recorded", "ok", "warn"}
  /\ asked[i] = "none" /\ ~NeedsApproval(runs[i].slot, runs[i].action)

\* The run in a command's hand, by the command's step; the row it is about to save
\* is made from the slot as it is, unless somebody wrote the slot since.
HandConsistent(h) ==
  LET i == hand[h].run IN
  /\ HandAt(h, "ask") => /\ i \in 1..Len(runs) /\ runs[i].status = "pending_approval"
                         /\ asked[i] = "none"
  /\ HandAt(h, "look") \/ HandAt(h, "set") => Direct(i)
  /\ HandAt(h, "look") /\ runs[i].action = "verify" => runs[i].status \in {"ok", "warn"}
  /\ HandAt(h, "set") =>
       /\ hand[h].row.run = i
       /\ runs[i].slot \notin raced =>
            hand[h].row.wish = WishAfter(runs[i], slots[runs[i].slot].wish)

\* No two commands have the same run in hand.
OwnRun(g, h) == ~HandAt(g, "idle") /\ ~HandAt(h, "idle") /\ hand[g].run = hand[h].run => g = h

SlotBacked(s) ==
  LET i == slots[s].run IN
  /\ i \in 0..Len(runs)
  /\ i > 0 => /\ runs[i].slot = s /\ runs[i].status \in {"state_recorded", "ok", "warn"}
              /\ asked[i] # "none" \/ NeedsApproval(s, runs[i].action) => i \in allowed

\* Only a run that is recorded is asked about, and only one that is asked about is decided.
AskedAbout(i) ==
  /\ asked[i] # "none" => i <= Len(runs)
  /\ i \in loaded \cup allowed => asked[i] # "none"
  /\ asked[i] = "approved" => i \in allowed

WishStands(s) == s \notin raced => slots[s].wish = ideal[s]

CompInv ==
  /\ CompTypeOK
  /\ \A s \in Slot : SlotBacked(s) /\ WishStands(s)
  /\ \A h \in Hand : HandConsistent(h)
  /\ \A g, h \in Hand : OwnRun(g, h)
  /\ \A i \in 1..RunCap : AskedAbout(i)

LEMMA NothingTyped == NoWish \in Wish /\ NoSlotRow \in SlotRow /\ Free \in HandState
<1>1. NoWish \in Wish
  BY DEF NoWish, Wish
<1>2. NoSlotRow \in SlotRow
  BY <1>1, ComponentParameters DEF NoSlotRow, SlotRow
<1>3. Free \in HandState
  BY <1>2, ComponentParameters DEF Free, HandState
<1> QED BY <1>1, <1>2, <1>3

LEMMA CompInitHolds == CompInit => CompInv
<1> SUFFICES ASSUME CompInit PROVE CompInv
  OBVIOUS
<1> USE DEF CompInit
<1>1. CompTypeOK
  BY NothingTyped, ComponentParameters DEF CompTypeOK
<1>2. Free.pc = "idle" /\ NoSlotRow.run = 0 /\ NoSlotRow.wish = NoWish
  BY DEF Free, NoSlotRow
<1> HIDE DEF Free, NoSlotRow, NoWish
<1>3. \A s \in Slot : SlotBacked(s) /\ WishStands(s)
  <2>1. ASSUME NEW s \in Slot PROVE SlotBacked(s) /\ WishStands(s)
    <3>1. slots[s] = NoSlotRow /\ ideal[s] = NoWish /\ Len(runs) = 0
      OBVIOUS
    <3> QED BY <1>2, <3>1 DEF SlotBacked, WishStands
  <2> QED BY <2>1
<1>4. \A g, h \in Hand : HandConsistent(h) /\ OwnRun(g, h)
  BY <1>2 DEF HandConsistent, OwnRun, HandAt
<1>5. \A i \in 1..RunCap : AskedAbout(i)
  BY DEF AskedAbout
<1> QED BY <1>1, <1>3, <1>4, <1>5 DEF CompInv

LEMMA LookedHand ==
  ASSUME NEW s \in HandState, NEW row \in SlotRow
  PROVE  LET m == [s EXCEPT !.pc = "set", !.row = row]
         IN m \in HandState /\ m.pc = "set" /\ m.run = s.run /\ m.row = row
BY DEF HandState

\* What the desired state becomes; the history records the same.
LEMMA WishTyped ==
  ASSUME NEW run \in Run, NEW old \in Wish
  PROVE  WishAfter(run, old) \in Wish /\ Intended(run, old) = WishAfter(run, old)
<1>1. CASE run.action = "apply"
  BY <1>1 DEF WishAfter, Intended, Run, Wish
<1>2. CASE run.action = "uninstall"
  BY <1>2 DEF WishAfter, Intended, Run, Wish
<1>3. CASE run.action \notin {"apply", "uninstall"}
  <2>1. [old EXCEPT !.desired = IF @ = "none" THEN "enabled" ELSE @]
          = IF old.desired = "none" THEN [old EXCEPT !.desired = "enabled"] ELSE old
    BY DEF Wish
  <2>2. [old EXCEPT !.desired = "enabled"] \in Wish
    BY DEF Wish
  <2> QED BY <1>3, <2>1, <2>2 DEF WishAfter, Intended
<1> QED BY <1>1, <1>2, <1>3

\* A run of apply leads to the same wish whatever there was.
LEMMA ApplyForgets ==
  ASSUME NEW run, run.action = "apply", NEW old, NEW new
  PROVE  WishAfter(run, old) = WishAfter(run, new)
BY DEF WishAfter

\* What the steps below read of the invariant.
LEMMA CompFacts ==
  ASSUME CompInv
  PROVE  /\ runs \in Seq(Run) /\ Len(runs) \in 0..RunCap /\ Len(runs) \in Nat /\ RunCap \in Nat
         /\ slots \in [Slot -> SlotRow] /\ ideal \in [Slot -> Wish] /\ raced \subseteq Slot
         /\ asked \in [1..RunCap -> {"none", "pending", "approved", "rejected"}]
         /\ loaded \subseteq 1..RunCap /\ allowed \subseteq 1..RunCap
         /\ hand \in [Hand -> HandState]
         /\ \A i \in 1..Len(runs) : runs[i] \in Run /\ runs[i].slot \in Slot /\ i \in 1..RunCap
         /\ \A h \in Hand : ~HandAt(h, "idle") => hand[h].run \in 1..Len(runs)
<1>1. /\ runs \in Seq(Run) /\ Len(runs) <= RunCap /\ RunCap \in Nat
      /\ slots \in [Slot -> SlotRow] /\ ideal \in [Slot -> Wish] /\ raced \subseteq Slot
      /\ asked \in [1..RunCap -> {"none", "pending", "approved", "rejected"}]
      /\ loaded \subseteq 1..RunCap /\ allowed \subseteq 1..RunCap
      /\ hand \in [Hand -> HandState]
  BY ComponentParameters DEF CompInv, CompTypeOK
<1>2. Len(runs) \in Nat /\ Len(runs) \in 0..RunCap
  BY <1>1
<1>3. ASSUME NEW i \in 1..Len(runs)
      PROVE  runs[i] \in Run /\ runs[i].slot \in Slot /\ i \in 1..RunCap
  <2>1. runs[i] \in Run /\ i \in 1..RunCap
    BY <1>1, <1>2
  <2> QED BY <2>1 DEF Run
<1>4. ASSUME NEW h \in Hand, ~HandAt(h, "idle") PROVE hand[h].run \in 1..Len(runs)
  <2>1. HandAt(h, "ask") \/ HandAt(h, "look") \/ HandAt(h, "set")
    BY <1>1, <1>4 DEF HandState, HandAt
  <2>2. HandConsistent(h)
    BY DEF CompInv
  <2> QED BY <2>1, <2>2 DEF HandConsistent, Direct
<1> QED BY <1>1, <1>2, <1>3, <1>4

\* A command that does not move, while others leave its run alone.
LEMMA HandStays ==
  ASSUME CompInv, NEW g \in Hand, hand'[g] = hand[g], Len(runs) <= Len(runs'), Len(runs') \in Nat,
         ~HandAt(g, "idle") => LET i == hand[g].run IN
           i \in 1..Len(runs) => runs'[i] = runs[i] /\ asked'[i] = asked[i],
         HandAt(g, "set") => LET s == RunInHand(g).slot IN
           s \notin raced' => /\ s \notin raced
                              /\ WishAfter(RunInHand(g), slots'[s].wish)
                                   = WishAfter(RunInHand(g), slots[s].wish)
  PROVE  HandConsistent(g)'
<1> DEFINE i == hand[g].run
<1>1. HandConsistent(g) /\ Len(runs) \in Nat
  BY CompFacts DEF CompInv
<1>2. CASE HandAt(g, "idle")
  BY <1>2 DEF HandConsistent, HandAt
<1>3. CASE HandAt(g, "ask") \/ HandAt(g, "look") \/ HandAt(g, "set")
  <2>1. i \in 1..Len(runs) /\ ~HandAt(g, "idle")
    BY <1>1, <1>3 DEF HandConsistent, Direct, HandAt
  <2>2. i \in 1..Len(runs') /\ runs'[i] = runs[i] /\ asked'[i] = asked[i]
    BY <1>1, <2>1
  <2>3. HandAt(g, "ask")' => /\ i \in 1..Len(runs') /\ runs'[i].status = "pending_approval"
                             /\ asked'[i] = "none"
    BY <1>1, <2>2 DEF HandConsistent, HandAt
  <2>4. HandAt(g, "look")' \/ HandAt(g, "set")' => Direct(i)'
    BY <1>1, <2>2 DEF HandConsistent, HandAt, Direct, NeedsApproval
  <2>5. HandAt(g, "look")' /\ runs'[i].action = "verify" => runs'[i].status \in {"ok", "warn"}
    BY <1>1, <2>2 DEF HandConsistent, HandAt
  <2>6. HandAt(g, "set")' =>
          /\ hand'[g].row.run = i
          /\ runs'[i].slot \notin raced' =>
               hand'[g].row.wish = WishAfter(runs'[i], slots'[runs'[i].slot].wish)
    BY <1>1, <2>2 DEF HandConsistent, HandAt, RunInHand
  <2> QED BY <2>3, <2>4, <2>5, <2>6 DEF HandConsistent
<1>4. HandAt(g, "idle") \/ HandAt(g, "ask") \/ HandAt(g, "look") \/ HandAt(g, "set")
  BY CompFacts DEF HandState, HandAt
<1> QED BY <1>2, <1>3, <1>4

\* A slot that is not written, while its run is neither asked for nor taken back.
LEMMA SlotStays ==
  ASSUME CompInv, NEW s \in Slot, slots'[s] = slots[s], Len(runs) <= Len(runs'), Len(runs') \in Nat,
         LET i == slots[s].run IN
           i \in 1..Len(runs) => /\ runs'[i].slot = runs[i].slot /\ runs'[i].action = runs[i].action
                                 /\ runs'[i].status \in {runs[i].status, "state_recorded"}
                                 /\ asked'[i] # "none" => asked[i] # "none",
         allowed \subseteq allowed'
  PROVE  SlotBacked(s)'
<1> DEFINE i == slots[s].run
<1>1. SlotBacked(s) /\ Len(runs) \in Nat
  BY CompFacts DEF CompInv
<1>2. CASE i = 0
  BY <1>2 DEF SlotBacked
<1>3. CASE i # 0
  <2>1. i \in 1..Len(runs) /\ i \in 1..Len(runs')
    BY <1>1, <1>3 DEF SlotBacked
  <2> QED BY <1>1, <2>1 DEF SlotBacked, NeedsApproval
<1> QED BY <1>2, <1>3

\* One command moves: with a run of its own, or with none.
LEMMA OwnRunsStay ==
  ASSUME CompInv, NEW h \in Hand, NEW c \in HandState, hand' = [hand EXCEPT ![h] = c],
         c.pc = "idle" \/ \A g \in Hand \ {h} : ~HandAt(g, "idle") => hand[g].run # c.run
  PROVE  /\ hand' \in [Hand -> HandState] /\ hand'[h] = c
         /\ \A g \in Hand \ {h} : hand'[g] = hand[g]
         /\ \A f, g \in Hand : OwnRun(f, g)'
<1>1. /\ hand' \in [Hand -> HandState] /\ hand'[h] = c
      /\ \A g \in Hand \ {h} : hand'[g] = hand[g]
  BY CompFacts
<1>2. ASSUME NEW f \in Hand, NEW g \in Hand PROVE OwnRun(f, g)'
  <2>1. CASE f # h /\ g # h
    BY <1>1, <2>1 DEF CompInv, OwnRun, HandAt
  <2>2. CASE f = h \/ g = h
    BY <1>1, <2>2 DEF OwnRun, HandAt
  <2> QED BY <2>1, <2>2
<1> QED BY <1>1, <1>2

\* A command records a run: nobody has asked about it, and no other command has it.
LEMMA RecordRunKeeps ==
  ASSUME CompInv, NEW h \in Hand, NEW s \in Slot,
         NEW action \in {"plan", "apply", "verify", "uninstall"},
         NEW config \in Config \cup {NoConfig}, NEW status \in RunStatus,
         NEW pc \in {"idle", "ask", "look"}, Record(h, s, action, config, status, pc),
         pc = "ask" => status = "pending_approval",
         pc = "look" => status \in {"state_recorded", "ok", "warn"} /\ ~NeedsApproval(s, action),
         pc = "look" /\ action = "verify" => status \in {"ok", "warn"}
  PROVE  CompInv'
<1> DEFINE run == [slot |-> s, action |-> action, config |-> config, status |-> status]
           n   == Len(runs) + 1
           c   == [Free EXCEPT !.pc = pc, !.run = n]
<1>1. /\ runs' = Append(runs, run) /\ hand' = [hand EXCEPT ![h] = c] /\ Len(runs) < RunCap
      /\ UNCHANGED <<slots, asked, loaded, allowed, onManaged, ideal, raced>>
  BY DEF Record, Take
<1>2. run \in Run /\ run.slot = s /\ run.action = action /\ run.status = status
  BY DEF Run
<1>3. n \in 1..RunCap /\ n \in 0..RunCap
  BY <1>1, CompFacts
<1>4. c \in HandState /\ c.pc = pc /\ c.run = n
  <2> HIDE DEF n
  <2> QED BY <1>3, NothingTyped DEF HandState
<1> HIDE DEF run, c
<1>5. /\ runs' \in Seq(Run) /\ Len(runs') = n /\ runs'[n] = run
      /\ \A i \in 1..Len(runs) : runs'[i] = runs[i]
  BY <1>1, <1>2, CompFacts
<1>7. \A g \in Hand : ~HandAt(g, "idle") => hand[g].run # n
  BY CompFacts
<1>8. /\ hand' \in [Hand -> HandState] /\ hand'[h] = c
      /\ \A g \in Hand \ {h} : hand'[g] = hand[g]
      /\ \A f, g \in Hand : OwnRun(f, g)'
  BY <1>1, <1>4, <1>7, OwnRunsStay
<1>9. Len(runs) <= Len(runs') /\ Len(runs') \in Nat /\ n \notin 1..Len(runs)
  BY <1>5, CompFacts
<1>10. asked[n] = "none"
  <2>1. AskedAbout(n)
    BY <1>3 DEF CompInv
  <2> QED BY <2>1, <1>9, CompFacts DEF AskedAbout
<1>11. CompTypeOK'
  BY <1>1, <1>3, <1>5, <1>8, ComponentParameters DEF CompInv, CompTypeOK
<1>12. ASSUME NEW u \in Slot PROVE SlotBacked(u)' /\ WishStands(u)'
  <2>1. SlotBacked(u)'
    BY <1>1, <1>5, <1>9, SlotStays
  <2>2. WishStands(u)'
    BY <1>1 DEF CompInv, WishStands
  <2> QED BY <2>1, <2>2
<1>13. ASSUME NEW g \in Hand PROVE HandConsistent(g)'
  <2>1. CASE g = h
    <3>1. n \in 1..Len(runs')
      BY <1>3, <1>5
    <3> HIDE DEF n
    <3> QED BY <1>1, <1>2, <1>4, <1>5, <1>8, <1>10, <2>1, <3>1
            DEF HandConsistent, HandAt, Direct, NeedsApproval
  <2>2. CASE g # h
    BY <1>1, <1>5, <1>8, <1>9, <2>2, HandStays
  <2> QED BY <2>1, <2>2
<1>14. \A i \in 1..RunCap : AskedAbout(i)'
  BY <1>1, <1>9, CompFacts DEF CompInv, AskedAbout
<1> QED BY <1>8, <1>11, <1>12, <1>13, <1>14 DEF CompInv

\* A slot is written with the wish its run leads to: it stands, and whoever holds an older
\* copy of the slot has raced, or will overwrite it whole.
LEMMA WishesAfterWrite ==
  ASSUME CompInv, NEW i \in 1..Len(runs), NEW writer, NEW row \in SlotRow,
         slots' = [slots EXCEPT ![runs[i].slot] = row], Remember(i, writer),
         runs[i].slot \notin raced => row.wish = WishAfter(runs[i], slots[runs[i].slot].wish)
  PROVE  /\ slots' \in [Slot -> SlotRow] /\ slots'[runs[i].slot] = row
         /\ \A u \in Slot \ {runs[i].slot} : slots'[u] = slots[u]
         /\ ideal' \in [Slot -> Wish] /\ raced' \subseteq Slot
         /\ \A u \in Slot : WishStands(u)'
         /\ \A g \in Hand \ writer :
              HandAt(g, "set") => LET u == RunInHand(g).slot IN
                u \notin raced' => /\ u \notin raced
                                   /\ WishAfter(RunInHand(g), slots'[u].wish)
                                        = WishAfter(RunInHand(g), slots[u].wish)
<1> DEFINE s    == runs[i].slot
           wish == Intended(runs[i], ideal[s])
           some == \E g \in Hand \ writer : /\ HandAt(g, "set") /\ RunInHand(g).slot = s
                                            /\ RunInHand(g).action # "apply"
<1>1. s \in Slot /\ runs[i] \in Run /\ ideal[s] \in Wish /\ slots[s].wish \in Wish
  BY CompFacts DEF SlotRow
<1>2. wish = WishAfter(runs[i], ideal[s]) /\ wish \in Wish
  BY <1>1, WishTyped
<1>3. ideal' = [ideal EXCEPT ![s] = wish] /\ raced' = IF some THEN raced \cup {s} ELSE raced
  BY DEF Remember
<1> HIDE DEF wish
<1>4. /\ slots' \in [Slot -> SlotRow] /\ slots'[s] = row
      /\ \A u \in Slot \ {s} : slots'[u] = slots[u]
  BY <1>1, CompFacts
<1>5. /\ ideal' \in [Slot -> Wish] /\ ideal'[s] = wish
      /\ \A u \in Slot \ {s} : ideal'[u] = ideal[u]
  BY <1>1, <1>2, <1>3, CompFacts
<1>6. ASSUME NEW g \in Hand \ writer, HandAt(g, "set")
      PROVE  LET u == RunInHand(g).slot IN
               u \notin raced' => /\ u \notin raced
                                  /\ WishAfter(RunInHand(g), slots'[u].wish)
                                       = WishAfter(RunInHand(g), slots[u].wish)
  <2> DEFINE u == RunInHand(g).slot
  <2> SUFFICES ASSUME u \notin raced'
               PROVE  /\ u \notin raced
                      /\ WishAfter(RunInHand(g), slots'[u].wish)
                           = WishAfter(RunInHand(g), slots[u].wish)
    OBVIOUS
  <2>1. u \notin raced
    BY <1>3
  <2>2. CASE u = s
    <3>1. ~some
      BY <1>3, <2>2
    <3>2. RunInHand(g).action = "apply"
      BY <1>6, <2>2, <3>1
    <3> QED BY <2>1, <3>2, ApplyForgets
  <2>3. CASE u # s
    <3>1. u \in Slot
      BY <1>6, CompFacts DEF HandAt, RunInHand
    <3> QED BY <1>4, <2>1, <2>3, <3>1
  <2> QED BY <2>2, <2>3
<1> HIDE DEF some
<1>7. raced' \subseteq Slot /\ raced \subseteq raced'
  BY <1>1, <1>3, CompFacts
<1>8. ASSUME NEW u \in Slot PROVE WishStands(u)'
  <2>1. WishStands(u)
    BY DEF CompInv
  <2>2. CASE u = s
    BY <1>2, <1>4, <1>5, <1>7, <2>1, <2>2 DEF WishStands
  <2>3. CASE u # s
    BY <1>4, <1>5, <1>7, <2>1, <2>3 DEF WishStands
  <2> QED BY <2>2, <2>3
<1> QED BY <1>4, <1>5, <1>6, <1>7, <1>8

\* create_approval_request: no slot has this run yet, and it is still waiting.
LEMMA AskKeeps ==
  ASSUME CompInv, NEW h \in Hand, AskApproval(h)
  PROVE  CompInv'
<1> DEFINE i == hand[h].run
<1>1. /\ asked' = [asked EXCEPT ![i] = "pending"] /\ hand' = [hand EXCEPT ![h] = Free]
      /\ HandAt(h, "ask") /\ UNCHANGED <<runs, slots, loaded, allowed, onManaged, ideal, raced>>
  BY DEF AskApproval, Take
<1>2. i \in 1..Len(runs) /\ i \in 1..RunCap /\ runs[i].status = "pending_approval" /\ ~HandAt(h, "idle")
  BY <1>1, CompFacts DEF CompInv, HandConsistent, HandAt
<1>3. /\ asked' \in [1..RunCap -> {"none", "pending", "approved", "rejected"}]
      /\ \A j \in 1..RunCap \ {i} : asked'[j] = asked[j]
  BY <1>1, CompFacts
<1>4. Free \in HandState /\ Free.pc = "idle"
  BY NothingTyped DEF Free
<1>5. /\ hand' \in [Hand -> HandState] /\ hand'[h] = Free
      /\ \A g \in Hand \ {h} : hand'[g] = hand[g]
      /\ \A f, g \in Hand : OwnRun(f, g)'
  BY <1>1, <1>4, OwnRunsStay
<1>6. CompTypeOK'
  BY <1>1, <1>3, <1>5 DEF CompInv, CompTypeOK
<1>7. ASSUME NEW u \in Slot PROVE SlotBacked(u)' /\ WishStands(u)'
  <2>1. SlotBacked(u) /\ WishStands(u)
    BY DEF CompInv
  <2>2. slots[u].run # i
    BY <1>2, <2>1, CompFacts DEF SlotBacked
  <2>3. SlotBacked(u)'
    BY <1>1, <1>3, <2>2, CompFacts, SlotStays
  <2> QED BY <1>1, <2>1, <2>3 DEF WishStands
<1>8. ASSUME NEW g \in Hand PROVE HandConsistent(g)'
  <2>1. CASE g = h
    BY <1>4, <1>5, <2>1 DEF HandConsistent, HandAt
  <2>2. CASE g # h
    <3>1. ~HandAt(g, "idle") => hand[g].run # i
      BY <1>2, <2>2 DEF CompInv, OwnRun
    <3> QED BY <1>1, <1>3, <1>5, <2>2, <3>1, CompFacts, HandStays
  <2> QED BY <2>1, <2>2
<1>9. \A j \in 1..RunCap : AskedAbout(j)'
  BY <1>1, <1>2, <1>3, CompFacts DEF CompInv, AskedAbout
<1> QED BY <1>5, <1>6, <1>7, <1>8, <1>9 DEF CompInv

\* A command looks at the slot, rests or dies: only its own state changes.
LEMMA HandMoves ==
  ASSUME CompInv, NEW h \in Hand, NEW c \in HandState, hand' = [hand EXCEPT ![h] = c],
         c.pc = "idle" \/ (~HandAt(h, "idle") /\ c.run = hand[h].run),
         UNCHANGED <<runs, slots, asked, loaded, allowed, onManaged, ideal, raced>>, HandConsistent(h)'
  PROVE  CompInv'
<1>1. c.pc = "idle" \/ \A g \in Hand \ {h} : ~HandAt(g, "idle") => hand[g].run # c.run
  BY DEF CompInv, OwnRun
<1>2. /\ hand' \in [Hand -> HandState] /\ hand'[h] = c
      /\ \A g \in Hand \ {h} : hand'[g] = hand[g]
      /\ \A f, g \in Hand : OwnRun(f, g)'
  BY <1>1, OwnRunsStay
<1>3. CompTypeOK'
  BY <1>2 DEF CompInv, CompTypeOK
<1>4. \A u \in Slot : SlotBacked(u)' /\ WishStands(u)'
  BY DEF CompInv, SlotBacked, WishStands, NeedsApproval
<1>5. ASSUME NEW g \in Hand PROVE HandConsistent(g)'
  BY <1>2, CompFacts, HandStays
<1>6. \A i \in 1..RunCap : AskedAbout(i)'
  BY DEF CompInv, AskedAbout
<1> QED BY <1>2, <1>3, <1>4, <1>5, <1>6 DEF CompInv

LEMMA HandRests ==
  ASSUME CompInv, NEW h \in Hand, hand' = [hand EXCEPT ![h] = Free],
         UNCHANGED <<runs, slots, asked, loaded, allowed, onManaged, ideal, raced>>
  PROVE  CompInv'
<1>1. Free \in HandState /\ Free.pc = "idle"
  BY NothingTyped DEF Free
<1>2. HandConsistent(h)'
  BY <1>1, CompFacts DEF HandConsistent, HandAt
<1> QED BY <1>1, <1>2, HandMoves

LEMMA LookKeeps ==
  ASSUME CompInv, NEW h \in Hand, LookAtSlot(h)
  PROVE  CompInv'
<1> DEFINE i == hand[h].run
           s == runs[i].slot
<1>1. PICK current \in Currents(runs[i]) :
        hand' = [hand EXCEPT ![h] = [hand[h] EXCEPT !.pc = "set",
                                                    !.row = Written(i, slots[s], current)]]
  BY DEF LookAtSlot, Take, RunInHand
<1> DEFINE row == Written(i, slots[s], current)
           c   == [hand[h] EXCEPT !.pc = "set", !.row = row]
<1>2. HandAt(h, "look") /\ UNCHANGED <<runs, slots, asked, loaded, allowed, onManaged, ideal, raced>>
  BY DEF LookAtSlot
<1>3. ~HandAt(h, "idle") /\ HandConsistent(h) /\ hand[h] \in HandState
  BY <1>2, CompFacts DEF CompInv, HandAt
<1>4. i \in 1..Len(runs) /\ runs[i] \in Run /\ s \in Slot /\ i \in 0..RunCap /\ Direct(i)
  <2>1. i \in 1..Len(runs) /\ Direct(i)
    BY <1>2, <1>3 DEF HandConsistent, Direct
  <2> QED BY <2>1, CompFacts
<1>5. slots[s].wish \in Wish
  BY <1>4, CompFacts DEF SlotRow
<1>6. current \in {"planned", "ok", "warn", "critical"}
  BY <1>2, <1>3 DEF Currents, HandConsistent
<1>7. row \in SlotRow /\ row.run = i /\ row.wish = WishAfter(runs[i], slots[s].wish)
  BY <1>4, <1>5, <1>6, WishTyped DEF Written, SlotRow
<1> HIDE DEF row
<1>8. c \in HandState /\ c.pc = "set" /\ c.run = i /\ c.row = row
  BY <1>3, <1>7, LookedHand
<1>9. hand' = [hand EXCEPT ![h] = c]
  BY <1>1 DEF row
<1> HIDE DEF c
<1>10. hand'[h] = c
  BY <1>9, CompFacts
<1>11. HandConsistent(h)'
  BY <1>2, <1>4, <1>7, <1>8, <1>10 DEF HandConsistent, HandAt, Direct, NeedsApproval
<1> QED BY <1>2, <1>3, <1>8, <1>9, <1>11, HandMoves

\* set_node_component: the slot gets a run that was carried out.
LEMMA SetKeeps ==
  ASSUME CompInv, NEW h \in Hand, SetSlot(h)
  PROVE  CompInv'
<1> DEFINE i   == hand[h].run
           s   == runs[i].slot
           row == hand[h].row
<1>1. /\ HandAt(h, "set") /\ slots' = [slots EXCEPT ![s] = row] /\ Remember(i, {h})
      /\ hand' = [hand EXCEPT ![h] = Free] /\ UNCHANGED <<runs, asked, loaded, allowed, onManaged>>
  BY DEF SetSlot, Take, RunInHand
<1>2. ~HandAt(h, "idle") /\ HandConsistent(h) /\ hand[h] \in HandState
  BY <1>1, CompFacts DEF CompInv, HandAt
<1>3. /\ i \in 1..Len(runs) /\ s \in Slot /\ Direct(i) /\ row \in SlotRow /\ row.run = i
      /\ s \notin raced => row.wish = WishAfter(runs[i], slots[s].wish)
  <2>1. i \in 1..Len(runs) /\ Direct(i) /\ row.run = i
    BY <1>1, <1>2 DEF HandConsistent, Direct
  <2>2. s \notin raced => row.wish = WishAfter(runs[i], slots[s].wish)
    BY <1>1, <1>2 DEF HandConsistent
  <2>3. row \in SlotRow
    BY <1>2 DEF HandState
  <2> QED BY <2>1, <2>2, <2>3, CompFacts
<1>4. /\ slots' \in [Slot -> SlotRow] /\ slots'[s] = row
      /\ \A u \in Slot \ {s} : slots'[u] = slots[u]
      /\ ideal' \in [Slot -> Wish] /\ raced' \subseteq Slot
      /\ \A u \in Slot : WishStands(u)'
      /\ \A g \in Hand \ {h} :
           HandAt(g, "set") => LET u == RunInHand(g).slot IN
             u \notin raced' => /\ u \notin raced
                                /\ WishAfter(RunInHand(g), slots'[u].wish)
                                     = WishAfter(RunInHand(g), slots[u].wish)
  BY <1>1, <1>3, WishesAfterWrite
<1>5. Free \in HandState /\ Free.pc = "idle"
  BY NothingTyped DEF Free
<1>6. /\ hand' \in [Hand -> HandState] /\ hand'[h] = Free
      /\ \A g \in Hand \ {h} : hand'[g] = hand[g]
      /\ \A f, g \in Hand : OwnRun(f, g)'
  BY <1>1, <1>5, OwnRunsStay
<1>7. CompTypeOK'
  BY <1>1, <1>4, <1>6 DEF CompInv, CompTypeOK
<1>8. ASSUME NEW u \in Slot PROVE SlotBacked(u)'
  <2>1. CASE u = s
    <3>1. slots'[u].run = i /\ UNCHANGED <<runs, asked, allowed>>
      BY <1>1, <1>3, <1>4, <2>1
    <3>2. /\ i \in 0..Len(runs) /\ runs[i].slot = u /\ asked[i] = "none"
          /\ runs[i].status \in {"state_recorded", "ok", "warn"}
          /\ ~NeedsApproval(u, runs[i].action)
      BY <1>3, <2>1, CompFacts DEF Direct
    <3> HIDE DEF i, s, row
    <3> QED BY <3>1, <3>2 DEF SlotBacked, NeedsApproval
  <2>2. CASE u # s
    <3>1. slots'[u] = slots[u] /\ UNCHANGED <<runs, asked, allowed>>
      BY <1>1, <1>4, <2>2
    <3> QED BY <3>1, CompFacts, SlotStays
  <2> QED BY <2>1, <2>2
<1>9. ASSUME NEW g \in Hand PROVE HandConsistent(g)'
  <2>1. CASE g = h
    BY <1>5, <1>6, <2>1 DEF HandConsistent, HandAt
  <2>2. CASE g # h
    BY <1>1, <1>4, <1>6, <2>2, CompFacts, HandStays
  <2> QED BY <2>1, <2>2
<1>10. \A j \in 1..RunCap : AskedAbout(j)'
  BY <1>1 DEF CompInv, AskedAbout
<1> QED BY <1>4, <1>6, <1>7, <1>8, <1>9, <1>10 DEF CompInv

\* A decider loads the request of a run: nothing else moves.
LEMMA LoadDecisionKeeps ==
  ASSUME CompInv, NEW i \in 1..Len(runs), LoadDecision(i)
  PROVE  CompInv'
<1>1. /\ asked[i] = "pending" /\ loaded' = loaded \cup {i} /\ i \in 1..RunCap
      /\ UNCHANGED <<runs, slots, asked, allowed, onManaged, hand, ideal, raced>>
  BY CompFacts DEF LoadDecision
<1>2. CompTypeOK'
  BY <1>1 DEF CompInv, CompTypeOK
<1>3. \A u \in Slot : SlotBacked(u)' /\ WishStands(u)'
  BY <1>1 DEF CompInv, SlotBacked, WishStands, NeedsApproval
<1>4. \A g \in Hand : HandConsistent(g)'
  BY <1>1 DEF CompInv, HandConsistent, HandAt, Direct, NeedsApproval
<1>5. \A f, g \in Hand : OwnRun(f, g)'
  BY <1>1 DEF CompInv, OwnRun, HandAt
<1>6. \A j \in 1..RunCap : AskedAbout(j)'
  BY <1>1 DEF CompInv, AskedAbout
<1> QED BY <1>2, <1>3, <1>4, <1>5, <1>6 DEF CompInv

\* A decider saves its verdict, maybe over another one: no command has the run in hand, and
\* what was approved once stays so.
LEMMA SaveDecisionKeeps ==
  ASSUME CompInv, NEW i \in 1..Len(runs), SaveDecision(i)
  PROVE  CompInv'
<1>1. PICK v \in {"approved", "rejected"} :
        /\ asked' = [asked EXCEPT ![i] = v]
        /\ allowed' = IF v = "approved" THEN allowed \cup {i} ELSE allowed
  BY DEF SaveDecision
<1>2. i \in loaded /\ UNCHANGED <<runs, slots, loaded, onManaged, hand, ideal, raced>>
  BY DEF SaveDecision
<1>3. asked[i] # "none" /\ i \in 1..RunCap
  BY <1>2, CompFacts DEF CompInv, AskedAbout
<1>4. /\ asked' \in [1..RunCap -> {"none", "pending", "approved", "rejected"}] /\ asked'[i] = v
      /\ \A j \in 1..RunCap \ {i} : asked'[j] = asked[j]
      /\ allowed \subseteq allowed' /\ allowed' \subseteq 1..RunCap
      /\ allowed' \subseteq allowed \cup {i} /\ (v = "approved" => i \in allowed')
  BY <1>1, <1>3, CompFacts
<1>5. CompTypeOK'
  BY <1>2, <1>4 DEF CompInv, CompTypeOK
<1>6. ASSUME NEW u \in Slot PROVE SlotBacked(u)' /\ WishStands(u)'
  <2>1. \A j \in 1..Len(runs) : asked'[j] # "none" => asked[j] # "none"
    BY <1>3, <1>4, CompFacts
  <2>2. SlotBacked(u)'
    BY <1>2, <1>4, <2>1, CompFacts, SlotStays
  <2> QED BY <1>2, <2>2 DEF CompInv, WishStands
<1>7. ASSUME NEW g \in Hand PROVE HandConsistent(g)'
  <2>1. HandConsistent(g)
    BY DEF CompInv
  <2>2. ~HandAt(g, "idle") => hand[g].run # i
    BY <1>3, <2>1, CompFacts DEF HandConsistent, HandAt, HandState, Direct
  <2> QED BY <1>2, <1>4, <2>2, CompFacts, HandStays
<1>8. \A f, g \in Hand : OwnRun(f, g)'
  BY <1>2 DEF CompInv, OwnRun, HandAt
<1>9. ASSUME NEW j \in 1..RunCap PROVE AskedAbout(j)'
  <2>1. AskedAbout(j)
    BY DEF CompInv
  <2>2. CASE j = i
    BY <1>2, <1>4, <2>2 DEF AskedAbout
  <2>3. CASE j # i
    BY <1>2, <1>4, <2>1, <2>3 DEF AskedAbout
  <2> QED BY <2>2, <2>3
<1> QED BY <1>5, <1>6, <1>7, <1>8, <1>9 DEF CompInv

\* dispatch_approved_component_action: the run it carries out is approved and in no hand.
LEMMA DispatchRunKeeps ==
  ASSUME CompInv, NEW i \in 1..Len(runs), DispatchRun(i)
  PROVE  CompInv'
<1> DEFINE s   == runs[i].slot
           row == Written(i, slots[s], "planned")
           run == [runs[i] EXCEPT !.status = "state_recorded"]
           nobody == {}
<1>1. /\ asked[i] = "approved" /\ slots' = [slots EXCEPT ![s] = row]
      /\ runs' = [runs EXCEPT ![i] = run] /\ Remember(i, nobody)
      /\ UNCHANGED <<asked, loaded, allowed, onManaged, hand>>
  BY CompFacts DEF DispatchRun
<1> HIDE DEF nobody
<1>2. runs[i] \in Run /\ s \in Slot /\ i \in 1..RunCap /\ i \in 0..RunCap /\ slots[s].wish \in Wish
  BY CompFacts DEF SlotRow
<1>3. row \in SlotRow /\ row.run = i /\ row.wish = WishAfter(runs[i], slots[s].wish)
  BY <1>2, WishTyped DEF Written, SlotRow
<1> HIDE DEF row
<1>4. /\ run \in Run /\ run.slot = s /\ run.action = runs[i].action /\ run.status = "state_recorded"
  BY <1>2 DEF Run, RunStatus
<1> HIDE DEF run
<1>5. /\ runs' \in Seq(Run) /\ Len(runs') = Len(runs) /\ runs'[i] = run
      /\ \A j \in 1..Len(runs) \ {i} : runs'[j] = runs[j]
  BY <1>1, <1>4, CompFacts
<1>6. /\ slots' \in [Slot -> SlotRow] /\ slots'[s] = row
      /\ \A u \in Slot \ {s} : slots'[u] = slots[u]
      /\ ideal' \in [Slot -> Wish] /\ raced' \subseteq Slot
      /\ \A u \in Slot : WishStands(u)'
      /\ \A g \in Hand \ nobody :
           HandAt(g, "set") => LET u == RunInHand(g).slot IN
             u \notin raced' => /\ u \notin raced
                                /\ WishAfter(RunInHand(g), slots'[u].wish)
                                     = WishAfter(RunInHand(g), slots[u].wish)
  <2>1. /\ row \in SlotRow /\ slots' = [slots EXCEPT ![s] = row] /\ Remember(i, nobody)
        /\ s \notin raced => row.wish = WishAfter(runs[i], slots[s].wish)
    BY <1>1, <1>3
  <2> QED BY <2>1, WishesAfterWrite
<1>7. CompTypeOK'
  BY <1>1, <1>5, <1>6 DEF CompInv, CompTypeOK
<1>8. ASSUME NEW u \in Slot PROVE SlotBacked(u)'
  <2>1. CASE u = s
    <3>1. i \in allowed
      BY <1>1, <1>2 DEF CompInv, AskedAbout
    <3> QED BY <1>1, <1>3, <1>4, <1>5, <1>6, <2>1, <3>1, CompFacts DEF SlotBacked
  <2>2. CASE u # s
    <3>1. slots'[u] = slots[u]
      BY <1>6, <2>2
    <3>2. \A j \in 1..Len(runs) : /\ runs'[j].slot = runs[j].slot /\ runs'[j].action = runs[j].action
                                  /\ runs'[j].status \in {runs[j].status, "state_recorded"}
                                  /\ asked'[j] = asked[j]
      BY <1>1, <1>4, <1>5
    <3>3. Len(runs) <= Len(runs') /\ Len(runs') \in Nat
      BY <1>5, CompFacts
    <3> QED BY <1>1, <3>1, <3>2, <3>3, SlotStays
  <2> QED BY <2>1, <2>2
<1>9. ASSUME NEW g \in Hand PROVE HandConsistent(g)'
  <2>1. HandConsistent(g)
    BY DEF CompInv
  <2>2. ~HandAt(g, "idle") => hand[g].run # i
    BY <1>1, <2>1, CompFacts DEF HandConsistent, HandAt, HandState, Direct
  <2>3. g \in Hand \ nobody
    BY DEF nobody
  <2> QED BY <1>1, <1>5, <1>6, <2>2, <2>3, CompFacts, HandStays
<1>10. \A f, g \in Hand : OwnRun(f, g)'
  BY <1>1 DEF CompInv, OwnRun, HandAt
<1>11. \A j \in 1..RunCap : AskedAbout(j)'
  BY <1>1, <1>5 DEF CompInv, AskedAbout
<1> QED BY <1>6, <1>7, <1>8, <1>9, <1>10, <1>11 DEF CompInv

\* A node is revoked, or nothing happens.
LEMMA NodesKeep ==
  ASSUME CompInv, onManaged' \subseteq Slot, UNCHANGED <<runs, slots, asked, loaded, allowed, hand, ideal, raced>>
  PROVE  CompInv'
<1>1. CompTypeOK'
  BY DEF CompInv, CompTypeOK
<1>2. \A u \in Slot : SlotBacked(u)' /\ WishStands(u)'
  BY DEF CompInv, SlotBacked, WishStands, NeedsApproval
<1>3. \A g \in Hand : HandConsistent(g)'
  BY DEF CompInv, HandConsistent, HandAt, Direct, NeedsApproval
<1>4. \A f, g \in Hand : OwnRun(f, g)'
  BY DEF CompInv, OwnRun, HandAt
<1>5. \A i \in 1..RunCap : AskedAbout(i)'
  BY DEF CompInv, AskedAbout
<1> QED BY <1>1, <1>2, <1>3, <1>4, <1>5 DEF CompInv

\* The commands that record a run.
LEMMA RecordingsKeep ==
  ASSUME CompInv, NEW h \in Hand, NEW s \in Slot,
         \/ PlanComponent(h, s) \/ VerifyComponent(h, s)
         \/ \E change \in ({"apply"} \X Config) \cup {<<"uninstall", NoConfig>>} :
              ChangeComponent(h, s, change[1], change[2]) \/ RequestChange(h, s, change[1], change[2])
  PROVE  CompInv'
<1> USE DEF RunStatus
<1>1. CASE PlanComponent(h, s)
  BY <1>1, RecordRunKeeps DEF PlanComponent
<1>2. CASE VerifyComponent(h, s)
  <2>1. ~NeedsApproval(s, "verify")
    BY DEF NeedsApproval
  <2>2. CASE s \in Monitored
    <3>1. PICK status \in {"ok", "warn"} : Record(h, s, "verify", NoConfig, status, "look")
      BY <1>2, <2>2 DEF VerifyComponent
    <3> QED BY <2>1, <3>1, RecordRunKeeps
  <2>3. CASE s \notin Monitored
    <3>1. Record(h, s, "verify", NoConfig, "checked", "idle")
      BY <1>2, <2>3 DEF VerifyComponent
    <3> QED BY <3>1, RecordRunKeeps
  <2> QED BY <2>2, <2>3
<1>3. ASSUME NEW change \in ({"apply"} \X Config) \cup {<<"uninstall", NoConfig>>},
             ChangeComponent(h, s, change[1], change[2]) \/ RequestChange(h, s, change[1], change[2])
      PROVE  CompInv'
  <2>1. change[1] \in {"apply", "uninstall"} /\ change[2] \in Config \cup {NoConfig}
    OBVIOUS
  <2>2. CASE ChangeComponent(h, s, change[1], change[2])
    <3>1. /\ Record(h, s, change[1], change[2], "state_recorded", "look")
          /\ ~NeedsApproval(s, change[1])
      BY <2>2 DEF ChangeComponent
    <3> QED BY <2>1, <3>1, RecordRunKeeps
  <2>3. CASE RequestChange(h, s, change[1], change[2])
    <3>1. Record(h, s, change[1], change[2], "pending_approval", "ask")
      BY <2>3 DEF RequestChange
    <3> QED BY <2>1, <3>1, RecordRunKeeps
  <2> QED BY <1>3, <2>2, <2>3
<1> QED BY <1>1, <1>2, <1>3

LEMMA CompStepKeeps == CompInv /\ [CompNext]_compVars => CompInv'
<1> SUFFICES ASSUME CompInv, [CompNext]_compVars PROVE CompInv'
  OBVIOUS
<1>1. ASSUME NEW h \in Hand, HandStep(h) PROVE CompInv'
  <2>1. CASE AskApproval(h)
    BY <2>1, AskKeeps
  <2>2. CASE LookAtSlot(h)
    BY <2>2, LookKeeps
  <2>3. CASE SetSlot(h)
    BY <2>3, SetKeeps
  <2>4. CASE HandDies(h)
    BY <2>4, HandRests DEF HandDies, Take
  <2>5. CASE \E s \in Slot : PlanComponent(h, s) \/ VerifyComponent(h, s)
    BY <2>5, RecordingsKeep
  <2>6. CASE \E s \in Slot, change \in ({"apply"} \X Config) \cup {<<"uninstall", NoConfig>>} :
               ChangeComponent(h, s, change[1], change[2]) \/ RequestChange(h, s, change[1], change[2])
    BY <2>6, RecordingsKeep
  <2> QED BY <1>1, <2>1, <2>2, <2>3, <2>4, <2>5, <2>6 DEF HandStep
<1>2. ASSUME NEW i \in 1..Len(runs), LoadDecision(i) \/ SaveDecision(i) \/ DispatchRun(i)
      PROVE  CompInv'
  BY <1>2, LoadDecisionKeeps, SaveDecisionKeeps, DispatchRunKeeps
<1>3. ASSUME NEW s \in Slot, RevokeNodeOf(s) PROVE CompInv'
  BY <1>3, NodesKeep DEF RevokeNodeOf, CompInv, CompTypeOK
<1>4. CASE UNCHANGED compVars
  BY <1>4, NodesKeep DEF compVars, CompInv, CompTypeOK
<1> QED BY <1>1, <1>2, <1>3, <1>4 DEF CompNext

\* What a command knows of its run and its slot between its transactions, for any number of
\* commands and runs (record_component_run, set_node_component, the approval in between).
THEOREM CompInvariance == CompSpec => []CompInv
BY CompInitHolds, CompStepKeeps, PTL DEF CompSpec

\* Runs, slots, approvals and commands keep their types.
THEOREM CompTypeCorrect == CompSpec => []CompTypeOK
BY CompInvariance, PTL DEF CompInv

\* last_run_id names a run that was carried out, and was approved if it had to be, however
\* many deciders overwrite each other's verdicts (set_node_component,
\* resolve_approval_request, dispatch_approved_component_action).
THEOREM SlotsHaveTheirRuns == CompSpec => []SlotsAreBacked
<1>1. CompInv => SlotsAreBacked
  BY DEF CompInv, SlotBacked, SlotsAreBacked
<1> QED BY <1>1, CompInvariance, PTL

\* Desired state and configuration of a slot nobody raced for are what the changes made
\* of them one after the other (component apply, verify, uninstall).
THEOREM WishesAreKept == CompSpec => []WishesStand
<1>1. CompInv => WishesStand
  BY DEF CompInv, WishStands, WishesStand
<1> QED BY <1>1, CompInvariance, PTL
------------------------------------------------------------------------------
(* The services table.  SvcInv adds that a plan in a discovery's hand has  *)
(* all the operator registered, unless it was made before.                 *)

\* A row that has all that the operator registered.
Keeps(kept, row) ==
  /\ row.source = "manual" /\ kept.ports \subseteq row.ports
  /\ (kept.domains => row.domains) /\ (kept.monitored => row.monitored)
  /\ (kept.url # "" => row.url = kept.url) /\ (kept.deploy # "" => row.deploy = kept.deploy)
  /\ (kept.paths => row.paths)

RowKeeps(s) ==
  curated[s] # NoServiceRow =>
    rows[s] # NoServiceRow /\ Keeps(curated[s], rows[s]) /\ rows[s].class = "main"

\* A plan made after the operator registered the service has all of it, too.
PlanKeeps(d, s) ==
  curated[s] # NoServiceRow /\ discovery[d][s] # Nothing /\ <<d, s>> \notin unseen
    => Keeps(curated[s], discovery[d][s])

SvcInv ==
  /\ SvcTypeOK
  /\ \A s \in Svc : RowKeeps(s)
  /\ \A d \in Discoverer, s \in Svc : PlanKeeps(d, s)

LEMMA NoRowsAreNotRows == NoServiceRow \notin Row /\ Nothing \notin Row
BY DEF NoServiceRow, Nothing, Row, Origin

LEMMA SvcInitHolds == SvcInit => SvcInv
BY DEF SvcInit, SvcInv, SvcTypeOK, RowKeeps, PlanKeeps

\* Rows by field: a saved row, what is found, what is planned over a row.
LEMMA SavedRow ==
  ASSUME NEW s \in Svc, NEW row \in Row
  PROVE  /\ Saved(s, row) \in Row
         /\ Saved(s, row).source = row.source /\ Saved(s, row).ports = row.ports
         /\ Saved(s, row).domains = row.domains /\ Saved(s, row).monitored = row.monitored
         /\ Saved(s, row).url = row.url /\ Saved(s, row).deploy = row.deploy
         /\ Saved(s, row).paths = row.paths
         /\ row.source = "manual" => Saved(s, row).class = "main"
<1> DEFINE class  == ClassOf(s, row)
           marked == IF row.marked = "" THEN class ELSE row.marked
<1>1. class \in Class /\ (row.source = "manual" => class = "main")
  BY DEF ClassOf, Class
<1>2. marked \in Class \cup {""}
  BY <1>1 DEF Row
<1>3. Saved(s, row) = [row EXCEPT !.class = class, !.marked = marked]
  BY DEF Saved
<1> HIDE DEF class, marked
<1>4. [row EXCEPT !.class = class, !.marked = marked] \in Row
  BY <1>1, <1>2, Zenon DEF Row
<1> QED BY <1>1, <1>3, <1>4 DEF Row

LEMMA FoundRow ==
  ASSUME NEW f \in Finding
  PROVE  Found(f) \in Row /\ Found(f).source = "discovery"
<1> DEFINE ports == {"published" : p \in f.by \cap {"docker"}} \cup {"socket" : p \in f.by \cap {"ss"}}
           proxied == ports # {} /\ f.proxy # "none"
           composed == "compose" \in f.by
           url == IF composed \/ (proxied /\ f.proxy = "nginx") THEN "discovery" ELSE ""
           deploy == IF composed THEN "discovery" ELSE ""
           new == [source |-> "discovery", ports |-> ports, domains |-> proxied, url |-> url,
                   deploy |-> deploy, paths |-> composed, monitored |-> FALSE, marked |-> "",
                   class |-> "pending"]
<1>1. ports \subseteq Exposed /\ url \in Origin \cup {""} /\ deploy \in Origin \cup {""}
  BY DEF Exposed, Origin
<1>2. Found(f) = new
  BY DEF Found
<1> HIDE DEF url, deploy, ports
<1>3. proxied \in BOOLEAN /\ composed \in BOOLEAN
  BY SMT
<1>4. "pending" \in Class /\ ports \in SUBSET Exposed /\ "discovery" \in Origin
  BY <1>1 DEF Class, Origin
<1> HIDE DEF proxied, composed
<1>5. new \in Row /\ new.source = "discovery"
  BY <1>1, <1>3, <1>4 DEF Row
<1> HIDE DEF new
<1> QED BY <1>2, <1>5

LEMMA PlannedRow ==
  ASSUME NEW f \in Finding, NEW row \in Row
  PROVE  /\ Planned(row, f) \in Row
         /\ \A kept \in Row : Keeps(kept, row) => Keeps(kept, Planned(row, f))
<1> DEFINE ports   == row.ports \cup Found(f).ports
           domains == row.domains \/ Found(f).domains
           url     == IF row.url # "" THEN row.url ELSE Found(f).url
           deploy  == IF row.deploy # "" THEN row.deploy ELSE Found(f).deploy
           paths   == row.paths \/ Found(f).paths
           new     == [row EXCEPT !.ports = ports, !.domains = domains, !.url = url,
                                  !.deploy = deploy, !.paths = paths]
<1>1. Found(f) \in Row
  BY FoundRow
<1>2. /\ ports \in SUBSET Exposed /\ row.ports \subseteq ports
      /\ url \in Origin \cup {""} /\ (row.url # "" => url = row.url)
      /\ deploy \in Origin \cup {""} /\ (row.deploy # "" => deploy = row.deploy)
  BY <1>1 DEF Row
<1>3. /\ domains \in BOOLEAN /\ paths \in BOOLEAN
      /\ (row.domains => domains) /\ (row.paths => paths)
  BY Zenon
<1>4. Planned(row, f) = new
  BY DEF Planned
<1> HIDE DEF ports, domains, url, deploy, paths
<1>5. new \in Row
  BY <1>2, <1>3, Zenon DEF Row
<1>6. /\ new.source = row.source /\ new.ports = ports /\ new.domains = domains
      /\ new.monitored = row.monitored /\ new.url = url /\ new.deploy = deploy
      /\ new.paths = paths
  BY DEF Row
<1> HIDE DEF new
<1>7. ASSUME NEW kept \in Row, Keeps(kept, row) PROVE Keeps(kept, new)
  BY <1>2, <1>3, <1>6, <1>7 DEF Keeps
<1> QED BY <1>4, <1>5, <1>7

\* A row saved over what was curated: the curated one, or one that keeps it.
LEMMA RowReplaced ==
  ASSUME SvcInv, NEW s \in Svc, NEW row \in Row,
         rows' = [rows EXCEPT ![s] = row],
         curated' \in [Svc -> Row \cup {NoServiceRow}],
         \A u \in Svc \ {s} : curated'[u] = curated[u],
         curated'[s] # NoServiceRow => Keeps(curated'[s], row) /\ row.class = "main",
         unseen' \subseteq Discoverer \X Svc,
         discovery' \in [Discoverer -> [Svc -> Row \cup {Nothing}]],
         \A d \in Discoverer, u \in Svc : PlanKeeps(d, u)'
  PROVE  SvcInv'
<1>1. rows \in [Svc -> Row \cup {NoServiceRow}]
  BY DEF SvcInv, SvcTypeOK
<1>2. /\ rows' \in [Svc -> Row \cup {NoServiceRow}] /\ rows'[s] = row
      /\ \A u \in Svc \ {s} : rows'[u] = rows[u]
  BY <1>1
<1>3. SvcTypeOK'
  BY <1>2 DEF SvcTypeOK
<1>4. ASSUME NEW u \in Svc PROVE RowKeeps(u)'
  <2>1. CASE u = s
    BY <1>2, <2>1, NoRowsAreNotRows DEF RowKeeps
  <2>2. CASE u # s
    <3>1. RowKeeps(u) /\ rows'[u] = rows[u] /\ curated'[u] = curated[u]
      BY <1>2, <2>2 DEF SvcInv
    <3> QED BY <3>1 DEF RowKeeps
  <2> QED BY <2>1, <2>2
<1> QED BY <1>3, <1>4 DEF SvcInv

\* What may be said of a service makes a row.
Said == [ports : SUBSET {"declared"}, domains : BOOLEAN, url : BOOLEAN, deploy : BOOLEAN,
         paths : BOOLEAN, monitored : BOOLEAN]

LEMMA SaidMakesARow ==
  ASSUME NEW g \in Said, NEW from \in Origin, NEW marked \in Class \cup {""}
  PROVE  Whole(from, g, marked) \in Row /\ Whole(from, g, marked).source = from
<1> DEFINE ports     == g.ports
           domains   == g.domains
           url       == IF g.url THEN from ELSE ""
           deploy    == IF g.deploy THEN from ELSE ""
           paths     == g.paths
           monitored == g.monitored
           whole     == [source |-> from, ports |-> ports, domains |-> domains, url |-> url,
                         deploy |-> deploy, paths |-> paths, monitored |-> monitored,
                         marked |-> marked, class |-> "pending"]
<1>1. url \in Origin \cup {""} /\ deploy \in Origin \cup {""}
  OBVIOUS
<1>2. ports \in SUBSET Exposed /\ "pending" \in Class
  BY DEF Said, Exposed, Class
<1>3. domains \in BOOLEAN /\ paths \in BOOLEAN /\ monitored \in BOOLEAN
  BY Zenon DEF Said
<1>4. Whole(from, g, marked) = whole
  BY DEF Whole
<1> HIDE DEF ports, domains, url, deploy, paths, monitored
<1>5. whole \in Row
  BY <1>1, <1>2, <1>3, Zenon DEF Row
<1>6. whole.source = from
  OBVIOUS
<1> HIDE DEF whole
<1> QED BY <1>4, <1>5, <1>6

\* service add: the plans in hand are now unseen.
LEMMA AddKeeps ==
  ASSUME SvcInv, NEW s \in Svc, NEW g \in Given, AddService(s, g)
  PROVE  SvcInv'
<1> DEFINE whole == Whole("manual", g, "")
           row   == Saved(s, whole)
           late  == {e \in Discoverer : discovery[e][s] # Nothing}
<1>1. /\ rows' = [rows EXCEPT ![s] = row] /\ curated' = [curated EXCEPT ![s] = row]
      /\ unseen' = unseen \cup {<<d, s>> : d \in late} /\ UNCHANGED discovery
  BY DEF AddService
<1>2. whole \in Row /\ whole.source = "manual"
  BY SaidMakesARow, ServicesParameters DEF Said, Origin, Class
<1> HIDE DEF whole
<1>3. row \in Row /\ row.source = "manual" /\ row.class = "main"
  BY <1>2, SavedRow
<1> HIDE DEF row
<1>4. Keeps(row, row)
  BY <1>3 DEF Keeps
<1>5. /\ curated \in [Svc -> Row \cup {NoServiceRow}] /\ unseen \subseteq Discoverer \X Svc
      /\ discovery \in [Discoverer -> [Svc -> Row \cup {Nothing}]]
  BY DEF SvcInv, SvcTypeOK
<1>6. /\ curated' \in [Svc -> Row \cup {NoServiceRow}] /\ curated'[s] = row
      /\ \A u \in Svc \ {s} : curated'[u] = curated[u]
  BY <1>1, <1>3, <1>5
<1>7. unseen' \subseteq Discoverer \X Svc /\ unseen \subseteq unseen'
  <2>1. \A d \in late : <<d, s>> \in Discoverer \X Svc
    OBVIOUS
  <2> HIDE DEF late
  <2>2. ASSUME NEW p \in unseen' PROVE p \in Discoverer \X Svc
    <3>1. p \in unseen \/ \E d \in late : p = <<d, s>>
      BY <1>1
    <3> QED BY <1>5, <2>1, <3>1
  <2> QED BY <1>1, <2>2
<1>8. ASSUME NEW d \in Discoverer, NEW u \in Svc PROVE PlanKeeps(d, u)'
  <2>1. CASE u = s
    BY <1>1, <2>1 DEF PlanKeeps
  <2>2. CASE u # s
    <3>1. PlanKeeps(d, u)
      BY DEF SvcInv
    <3>2. curated'[u] = curated[u] /\ discovery'[d][u] = discovery[d][u]
      BY <1>1, <1>6, <2>2
    <3> QED BY <1>7, <3>1, <3>2 DEF PlanKeeps
  <2> QED BY <2>1, <2>2
<1>9. discovery' \in [Discoverer -> [Svc -> Row \cup {Nothing}]]
  BY <1>1, <1>5
<1>10. curated'[s] # NoServiceRow => Keeps(curated'[s], row) /\ row.class = "main"
  BY <1>3, <1>4, <1>6
<1> QED BY <1>1, <1>3, <1>6, <1>7, <1>8, <1>9, <1>10, RowReplaced

\* coolify-sync and import: nothing is curated any more.
LEMMA ReplacedByOthers ==
  ASSUME SvcInv, NEW s \in Svc, NEW row \in Row,
         rows' = [rows EXCEPT ![s] = row], curated' = [curated EXCEPT ![s] = NoServiceRow],
         UNCHANGED <<discovery, unseen>>
  PROVE  SvcInv'
<1>1. /\ curated \in [Svc -> Row \cup {NoServiceRow}] /\ unseen \subseteq Discoverer \X Svc
      /\ discovery \in [Discoverer -> [Svc -> Row \cup {Nothing}]]
  BY DEF SvcInv, SvcTypeOK
<1>2. /\ curated' \in [Svc -> Row \cup {NoServiceRow}] /\ curated'[s] = NoServiceRow
      /\ \A u \in Svc \ {s} : curated'[u] = curated[u]
  BY <1>1
<1>3. ASSUME NEW d \in Discoverer, NEW u \in Svc PROVE PlanKeeps(d, u)'
  <2>1. PlanKeeps(d, u)
    BY DEF SvcInv
  <2> QED BY <1>2, <2>1 DEF PlanKeeps
<1> QED BY <1>1, <1>2, <1>3, RowReplaced

LEMMA SyncKeeps ==
  ASSUME SvcInv, NEW s \in Svc, NEW g \in Given, SyncCoolify(s, g)
  PROVE  SvcInv'
<1> DEFINE up    == g.domains /\ g.monitored
           app   == [g EXCEPT !.url = g.domains, !.paths = FALSE, !.monitored = up]
           whole == Whole("coolify", app, "")
<1>1. g \in Said
  BY ServicesParameters DEF Said
<1>2. g.domains \in BOOLEAN /\ up \in BOOLEAN
  BY <1>1, Zenon DEF Said
<1>3. /\ rows' = [rows EXCEPT ![s] = Saved(s, whole)]
      /\ curated' = [curated EXCEPT ![s] = NoServiceRow] /\ UNCHANGED <<discovery, unseen>>
  BY <1>1 DEF SyncCoolify, Said
<1> HIDE DEF up
<1>4. app \in Said
  BY <1>1, <1>2, Zenon DEF Said
<1> HIDE DEF app
<1>5. whole \in Row
  BY <1>4, SaidMakesARow DEF Origin
<1> HIDE DEF whole
<1>6. Saved(s, whole) \in Row
  BY <1>5, SavedRow
<1> QED BY <1>3, <1>6, ReplacedByOthers

LEMMA ImportKeeps ==
  ASSUME SvcInv, NEW s \in Svc, NEW g \in Given, NEW marked \in Class \cup {""},
         ImportService(s, g, marked)
  PROVE  SvcInv'
<1> DEFINE whole == Whole("import", g, marked)
<1>1. /\ rows' = [rows EXCEPT ![s] = Saved(s, whole)]
      /\ curated' = [curated EXCEPT ![s] = NoServiceRow] /\ UNCHANGED <<discovery, unseen>>
  BY DEF ImportService
<1>2. whole \in Row
  BY SaidMakesARow, ServicesParameters DEF Said, Origin
<1> HIDE DEF whole
<1>3. Saved(s, whole) \in Row
  BY <1>2, SavedRow
<1> QED BY <1>1, <1>3, ReplacedByOthers

\* A plan made from the row there is keeps what the row keeps.
LEMMA PlanStepKeeps ==
  ASSUME SvcInv, NEW d \in Discoverer, NEW s \in Svc, NEW f \in Finding, PlanDiscovered(d, s, f)
  PROVE  SvcInv'
<1> DEFINE plan == IF rows[s] = NoServiceRow THEN Found(f) ELSE Planned(rows[s], f)
<1>1. discovery' = [discovery EXCEPT ![d][s] = plan] /\ UNCHANGED <<rows, curated, unseen>>
  BY DEF PlanDiscovered
<1>2. /\ rows \in [Svc -> Row \cup {NoServiceRow}] /\ curated \in [Svc -> Row \cup {NoServiceRow}]
      /\ discovery \in [Discoverer -> [Svc -> Row \cup {Nothing}]] /\ RowKeeps(s)
  BY DEF SvcInv, SvcTypeOK
<1>3. plan \in Row /\ (curated[s] # NoServiceRow => Keeps(curated[s], plan))
  <2>1. CASE rows[s] = NoServiceRow
    BY <1>2, <2>1, FoundRow DEF RowKeeps
  <2>2. CASE rows[s] # NoServiceRow
    <3>1. rows[s] \in Row /\ plan = Planned(rows[s], f)
      BY <1>2, <2>2
    <3>2. curated[s] # NoServiceRow => curated[s] \in Row /\ Keeps(curated[s], rows[s])
      BY <1>2 DEF RowKeeps
    <3> HIDE DEF plan
    <3> QED BY <3>1, <3>2, PlannedRow
  <2> QED BY <2>1, <2>2
<1> HIDE DEF plan
<1>4. /\ discovery' \in [Discoverer -> [Svc -> Row \cup {Nothing}]] /\ discovery'[d][s] = plan
      /\ \A e \in Discoverer, u \in Svc :
           e # d \/ u # s => discovery'[e][u] = discovery[e][u]
  BY <1>1, <1>2, <1>3
<1>5. SvcTypeOK'
  BY <1>1, <1>4 DEF SvcInv, SvcTypeOK
<1>6. \A u \in Svc : RowKeeps(u)'
  BY <1>1 DEF SvcInv, RowKeeps
<1>7. ASSUME NEW e \in Discoverer, NEW u \in Svc PROVE PlanKeeps(e, u)'
  <2>1. PlanKeeps(e, u)
    BY DEF SvcInv
  <2>2. CASE e = d /\ u = s
    BY <1>1, <1>3, <1>4, <2>2 DEF PlanKeeps
  <2>3. CASE e # d \/ u # s
    BY <1>1, <1>4, <2>1, <2>3 DEF PlanKeeps
  <2> QED BY <2>2, <2>3
<1> QED BY <1>5, <1>6, <1>7 DEF SvcInv

\* A plan is saved: one that had not seen the operator's row ends the promise.
LEMMA SaveDiscoveredKeeps ==
  ASSUME SvcInv, NEW d \in Discoverer, NEW s \in Svc, SaveDiscovered(d, s)
  PROVE  SvcInv'
<1> DEFINE plan == discovery[d][s]
           row  == Saved(s, plan)
<1>1. /\ plan # Nothing /\ rows' = [rows EXCEPT ![s] = row]
      /\ discovery' = [discovery EXCEPT ![d][s] = Nothing] /\ unseen' = unseen \ {<<d, s>>}
  BY DEF SaveDiscovered
<1>2. /\ curated \in [Svc -> Row \cup {NoServiceRow}] /\ unseen \subseteq Discoverer \X Svc
      /\ discovery \in [Discoverer -> [Svc -> Row \cup {Nothing}]] /\ PlanKeeps(d, s)
  BY DEF SvcInv, SvcTypeOK
<1>3. plan \in Row
  BY <1>1, <1>2
<1>4. /\ curated' \in [Svc -> Row \cup {NoServiceRow}]
      /\ \A u \in Svc \ {s} : curated'[u] = curated[u]
      /\ curated'[s] # NoServiceRow => curated'[s] = curated[s] /\ <<d, s>> \notin unseen
  <2>1. CASE <<d, s>> \in unseen
    <3>1. curated' = [curated EXCEPT ![s] = NoServiceRow]
      BY <2>1 DEF SaveDiscovered
    <3> QED BY <1>2, <3>1
  <2>2. CASE <<d, s>> \notin unseen
    BY <1>2, <2>2 DEF SaveDiscovered
  <2> QED BY <2>1, <2>2
<1>5. curated'[s] # NoServiceRow => Keeps(curated'[s], plan)
  BY <1>1, <1>2, <1>4 DEF PlanKeeps
<1> HIDE DEF plan
<1>6. row \in Row /\ (curated'[s] # NoServiceRow => Keeps(curated'[s], row) /\ row.class = "main")
  <2>1. /\ row \in Row /\ row.source = plan.source /\ row.ports = plan.ports
        /\ row.domains = plan.domains /\ row.monitored = plan.monitored
        /\ row.url = plan.url /\ row.deploy = plan.deploy /\ row.paths = plan.paths
        /\ plan.source = "manual" => row.class = "main"
    BY <1>3, SavedRow
  <2> HIDE DEF row
  <2> QED BY <1>5, <2>1 DEF Keeps
<1> HIDE DEF row
<1>7. /\ discovery' \in [Discoverer -> [Svc -> Row \cup {Nothing}]] /\ discovery'[d][s] = Nothing
      /\ \A e \in Discoverer, u \in Svc :
           e # d \/ u # s => discovery'[e][u] = discovery[e][u]
  BY <1>1, <1>2
<1>8. /\ unseen' \subseteq Discoverer \X Svc
      /\ \A e \in Discoverer, u \in Svc :
           e # d \/ u # s => (<<e, u>> \in unseen' <=> <<e, u>> \in unseen)
  BY <1>1, <1>2
<1>9. ASSUME NEW e \in Discoverer, NEW u \in Svc PROVE PlanKeeps(e, u)'
  <2>1. PlanKeeps(e, u)
    BY DEF SvcInv
  <2>2. CASE e = d /\ u = s
    BY <1>7, <2>2 DEF PlanKeeps
  <2>3. CASE e # d \/ u # s
    <3>1. curated'[u] # NoServiceRow => curated'[u] = curated[u]
      BY <1>4
    <3> QED BY <1>7, <1>8, <2>1, <2>3, <3>1 DEF PlanKeeps
  <2> QED BY <2>2, <2>3
<1> QED BY <1>1, <1>4, <1>6, <1>7, <1>8, <1>9, RowReplaced

LEMMA DiscoveryDiesKeeps ==
  ASSUME SvcInv, NEW d \in Discoverer, DiscoveryDies(d)
  PROVE  SvcInv'
<1>1. /\ discovery' = [discovery EXCEPT ![d] = [s \in Svc |-> Nothing]]
      /\ unseen' = {p \in unseen : p[1] # d} /\ UNCHANGED <<rows, curated>>
  BY DEF DiscoveryDies
<1>2. discovery \in [Discoverer -> [Svc -> Row \cup {Nothing}]] /\ unseen \subseteq Discoverer \X Svc
  BY DEF SvcInv, SvcTypeOK
<1>3. /\ discovery' \in [Discoverer -> [Svc -> Row \cup {Nothing}]]
      /\ \A u \in Svc : discovery'[d][u] = Nothing
      /\ \A e \in Discoverer \ {d} : discovery'[e] = discovery[e]
  BY <1>1, <1>2
<1>4. /\ unseen' \subseteq Discoverer \X Svc
      /\ \A e \in Discoverer \ {d}, u \in Svc : <<e, u>> \in unseen => <<e, u>> \in unseen'
  BY <1>1, <1>2
<1>5. SvcTypeOK'
  BY <1>1, <1>3, <1>4 DEF SvcInv, SvcTypeOK
<1>6. \A u \in Svc : RowKeeps(u)'
  BY <1>1 DEF SvcInv, RowKeeps
<1>7. ASSUME NEW e \in Discoverer, NEW u \in Svc PROVE PlanKeeps(e, u)'
  <2>1. PlanKeeps(e, u)
    BY DEF SvcInv
  <2> QED BY <1>1, <1>3, <1>4, <2>1 DEF PlanKeeps
<1> QED BY <1>5, <1>6, <1>7 DEF SvcInv

LEMMA SvcStepKeeps == SvcInv /\ [SvcNext]_svcVars => SvcInv'
<1> SUFFICES ASSUME SvcInv, [SvcNext]_svcVars PROVE SvcInv'
  OBVIOUS
<1>1. ASSUME NEW s \in Svc, NEW g \in Given, SyncCoolify(s, g) PROVE SvcInv'
  BY <1>1, SyncKeeps
<1>2. ASSUME NEW s \in Svc, NEW g \in Given, AddService(s, g) PROVE SvcInv'
  BY <1>2, AddKeeps
<1>3. ASSUME NEW s \in Svc, NEW g \in Given, NEW marked \in Class \cup {""},
             ImportService(s, g, marked)
      PROVE  SvcInv'
  BY <1>3, ImportKeeps
<1>4. ASSUME NEW s \in Svc, NEW d \in Discoverer, SaveDiscovered(d, s) PROVE SvcInv'
  BY <1>4, SaveDiscoveredKeeps
<1>5. ASSUME NEW d \in Discoverer, DiscoveryDies(d) PROVE SvcInv'
  BY <1>5, DiscoveryDiesKeeps
<1>6. ASSUME NEW s \in Svc, NEW d \in Discoverer, NEW f \in Finding, PlanDiscovered(d, s, f)
      PROVE  SvcInv'
  BY <1>6, PlanStepKeeps
<1>7. CASE UNCHANGED svcVars
  BY <1>7 DEF svcVars, SvcInv, SvcTypeOK, RowKeeps, PlanKeeps
<1> QED BY <1>1, <1>2, <1>3, <1>4, <1>5, <1>6, <1>7 DEF SvcNext

\* What an operator registered survives every discovery that saw it, however many run.
THEOREM SvcInvariance == SvcSpec => []SvcInv
BY SvcInitHolds, SvcStepKeeps, PTL DEF SvcSpec

\* Rows, plans and what was curated keep their types.
THEOREM SvcTypeCorrect == SvcSpec => []SvcTypeOK
BY SvcInvariance, PTL DEF SvcInv

\* Discovery adds to a curated row and takes nothing away (plan_discovered_services and
\* save_service_record).
THEOREM CuratedRowsStay == SvcSpec => []CuratedStays
<1>1. SvcInv => CuratedStays
  BY DEF SvcInv, RowKeeps, Keeps, CuratedStays
<1> QED BY <1>1, SvcInvariance, PTL
------------------------------------------------------------------------------
(* Monitoring.  MonInv says of each verdict, saved or under way, that the  *)
(* log has the event it was given for; the log only grows.                 *)

\* The verdict "ok" has the event it was given for.
Founded(judged) ==
  /\ judged.of <= Len(beats) /\ judged.known <= Len(beats)
  /\ judged.health = "ok" =>
       /\ judged.of > 0 /\ judged.of >= judged.known
       /\ beats[judged.of].ok /\ beats[judged.of].compatible
       /\ judged.now <= beats[judged.of].at + FreshFor

\* The outcome of a heartbeat is bad if its worker is incompatible.
OutcomeFits(b) == b.ok => b.compatible

WatchConsistent(w) ==
  /\ Founded(watch[w].judged)
  /\ watch[w].pc = "event" /\ watch[w].compatible => beats # <<>>

MonInv ==
  /\ MonTypeOK
  /\ IsFiniteSet(arriving) /\ Len(beats) + Cardinality(arriving) <= ReportCap
  /\ \A b \in arriving : OutcomeFits(b)
  /\ \A i \in 1..Len(beats) : OutcomeFits(beats[i])
  /\ Founded(snapshot)
  /\ \A w \in Watcher : WatchConsistent(w)

LEMMA NothingYetTyped ==
  /\ 0 \in Time /\ 0 \in 0..ReportCap /\ Time \subseteq Nat
  /\ NoSnapshot \in Snapshot /\ NotWatching \in WatchState
<1>1. 0 \in Time /\ 0 \in 0..ReportCap /\ Time \subseteq Nat
  BY MonitoringParameters DEF Time
<1>2. NoSnapshot \in Snapshot
  BY <1>1 DEF NoSnapshot, Snapshot
<1>3. NotWatching \in WatchState
  BY <1>2 DEF NotWatching, WatchState
<1> QED BY <1>1, <1>2, <1>3

LEMMA NothingYetFounded ==
  ASSUME beats \in Seq(Beat)
  PROVE  Founded(NoSnapshot) /\ Founded(NotWatching.judged)
BY DEF Founded, NoSnapshot, NotWatching

LEMMA MonInitHolds == MonInit => MonInv
<1> SUFFICES ASSUME MonInit PROVE MonInv
  OBVIOUS
<1> USE DEF MonInit
<1>1. MonTypeOK
  BY NothingYetTyped, MonitoringParameters DEF MonTypeOK
<1>2. IsFiniteSet(arriving) /\ Cardinality(arriving) = 0
  BY FS_EmptySet
<1>3. Founded(snapshot) /\ \A w \in Watcher : WatchConsistent(w)
  BY <1>1, NothingYetFounded DEF WatchConsistent, MonTypeOK, NotWatching
<1> QED BY <1>1, <1>2, <1>3, MonitoringParameters DEF MonInv

\* Verdicts stay founded while the log grows.
LEMMA FoundedStays ==
  ASSUME beats \in Seq(Beat), NEW b \in Beat, beats' = Append(beats, b),
         NEW judged \in Snapshot, Founded(judged)
  PROVE  Founded(judged)'
BY DEF Founded, Snapshot

LEMMA OneMore ==
  ASSUME NEW S, NEW e, IsFiniteSet(S)
  PROVE  Cardinality(S \cup {e}) <= Cardinality(S) + 1
<1>1. Cardinality(S) \in Nat
  BY FS_CardinalityType
<1>2. Cardinality(S \cup {e}) = IF e \in S THEN Cardinality(S) ELSE Cardinality(S) + 1
  BY FS_AddElement, Zenon
<1> QED BY <1>1, <1>2

\* A heartbeat is stamped, or one that was stamped comes into the log.
LEMMA StampKeeps ==
  ASSUME MonInv, NEW fine \in BOOLEAN, NEW compatible \in BOOLEAN, Stamp(fine, compatible)
  PROVE  MonInv'
<1> DEFINE b == [at |-> clock, ok |-> Judged(fine, compatible), compatible |-> compatible]
<1>1. /\ arriving' = arriving \cup {b} /\ UNCHANGED <<clock, beats, snapshot, watch>>
      /\ Len(beats) + Cardinality(arriving) < ReportCap
  BY DEF Stamp
<1>2. b \in Beat /\ OutcomeFits(b)
  BY DEF MonInv, MonTypeOK, Beat, OutcomeFits, Judged
<1> HIDE DEF b
<1>3. IsFiniteSet(arriving') /\ Cardinality(arriving') <= Cardinality(arriving) + 1
  <2>1. IsFiniteSet(arriving) /\ Cardinality(arriving) \in Nat
    BY FS_CardinalityType DEF MonInv
  <2>2. IsFiniteSet(arriving \cup {b})
    BY <2>1, FS_AddElement
  <2>3. Cardinality(arriving \cup {b}) <= Cardinality(arriving) + 1
    BY <2>1, OneMore
  <2> QED BY <1>1, <2>2, <2>3
<1>4. Len(beats)' + Cardinality(arriving') <= ReportCap
  BY <1>1, <1>3, FS_CardinalityType, MonitoringParameters DEF MonInv, MonTypeOK
<1>5. MonTypeOK'
  BY <1>1, <1>2 DEF MonInv, MonTypeOK
<1>6. Founded(snapshot)' /\ \A w \in Watcher : WatchConsistent(w)'
  BY <1>1 DEF MonInv, WatchConsistent, Founded
<1>8. \A i \in 1..Len(beats') : OutcomeFits(beats'[i])
  BY <1>1 DEF MonInv
<1>7. \A c \in arriving' : OutcomeFits(c)
  BY <1>1, <1>2 DEF MonInv
<1> QED BY <1>3, <1>4, <1>5, <1>6, <1>7, <1>8 DEF MonInv, OutcomeFits

LEMMA InsertKeeps ==
  ASSUME MonInv, NEW b \in arriving, Insert(b)
  PROVE  MonInv'
<1>1. /\ arriving' = arriving \ {b} /\ beats' = Append(beats, b)
      /\ UNCHANGED <<clock, snapshot, watch>>
  BY DEF Insert
<1>2. beats \in Seq(Beat) /\ b \in Beat /\ OutcomeFits(b)
  BY DEF MonInv, MonTypeOK
<1>3. /\ beats' \in Seq(Beat) /\ Len(beats') = Len(beats) + 1
      /\ \A i \in 1..Len(beats) : beats'[i] = beats[i]
      /\ beats'[Len(beats) + 1] = b
  BY <1>1, <1>2
<1>4. IsFiniteSet(arriving') /\ Cardinality(arriving') = Cardinality(arriving) - 1
  BY <1>1, FS_RemoveElement DEF MonInv
<1>5. Len(beats') + Cardinality(arriving') <= ReportCap /\ Len(beats') <= ReportCap
  BY <1>2, <1>3, <1>4, FS_CardinalityType, MonitoringParameters DEF MonInv
<1>6. MonTypeOK'
  BY <1>1, <1>3, <1>5 DEF MonInv, MonTypeOK
<1>7. Founded(snapshot)'
  BY <1>1, <1>2, FoundedStays DEF MonInv, MonTypeOK
<1>8. ASSUME NEW w \in Watcher PROVE WatchConsistent(w)'
  <2>1. watch[w].judged \in Snapshot /\ WatchConsistent(w)
    BY DEF MonInv, MonTypeOK, WatchState
  <2>2. Founded(watch[w].judged)'
    BY <1>1, <1>2, <2>1, FoundedStays DEF WatchConsistent
  <2>3. beats' # <<>>
    BY <1>2, <1>3
  <2> QED BY <2>2, <2>3 DEF WatchConsistent
<1>9. ASSUME NEW i \in 1..Len(beats') PROVE OutcomeFits(beats[i])'
  <2>1. CASE i \in 1..Len(beats)
    BY <1>3, <2>1 DEF MonInv, OutcomeFits
  <2>2. CASE i = Len(beats) + 1
    BY <1>2, <1>3, <2>2 DEF OutcomeFits
  <2> QED BY <1>2, <1>3, <2>1, <2>2
<1>10. \A c \in arriving' : OutcomeFits(c)'
  BY <1>1 DEF MonInv, OutcomeFits
<1> QED BY <1>4, <1>5, <1>6, <1>7, <1>8, <1>9, <1>10 DEF MonInv

\* One command moves on, and what it has judged is founded.
LEMMA WatcherMoves ==
  ASSUME MonInv, NEW w \in Watcher, NEW c \in WatchState, watch' = [watch EXCEPT ![w] = c],
         UNCHANGED <<clock, arriving, beats, snapshot>>,
         Founded(c.judged), c.pc = "event" /\ c.compatible => beats # <<>>
  PROVE  MonInv'
<1>1. /\ watch' \in [Watcher -> WatchState] /\ watch'[w] = c
      /\ \A v \in Watcher \ {w} : watch'[v] = watch[v]
  BY DEF MonInv, MonTypeOK
<1>2. MonTypeOK'
  BY <1>1 DEF MonInv, MonTypeOK
<1>3. \A v \in Watcher : WatchConsistent(v)'
  BY <1>1 DEF MonInv, WatchConsistent, Founded
<1> QED BY <1>2, <1>3 DEF MonInv, Founded, OutcomeFits

\* A command that has begun, by field.
LEMMA BegunWatch ==
  ASSUME NEW now \in Time, NEW known \in 0..ReportCap
  PROVE  LET m == [NotWatching EXCEPT !.pc = "summary", !.judged.now = now, !.judged.known = known]
         IN /\ m \in WatchState /\ m.pc = "summary" /\ m.judged.health = "none"
            /\ m.judged.of = 0 /\ m.judged.known = known
<1>1. /\ NotWatching \in WatchState
      /\ NotWatching.judged.health = "none" /\ NotWatching.judged.of = 0
  BY NothingYetTyped DEF NotWatching, NoSnapshot
<1> QED BY <1>1 DEF WatchState, Snapshot

LEMMA MonBeginKeeps ==
  ASSUME MonInv, NEW w \in Watcher, MonitorBegins(w)
  PROVE  MonInv'
<1> DEFINE c == [NotWatching EXCEPT !.pc = "summary", !.judged.now = clock, !.judged.known = Len(beats)]
<1>1. beats \in Seq(Beat) /\ clock \in Time /\ Len(beats) \in 0..ReportCap
  BY MonitoringParameters DEF MonInv, MonTypeOK
<1>2. /\ c \in WatchState /\ c.pc = "summary" /\ c.judged.health = "none"
      /\ c.judged.of = 0 /\ c.judged.known = Len(beats)
  BY <1>1, BegunWatch
<1>3. watch' = [watch EXCEPT ![w] = c] /\ UNCHANGED <<clock, arriving, beats, snapshot>>
  BY DEF MonitorBegins
<1> HIDE DEF c
<1>4. Founded(c.judged)
  BY <1>1, <1>2 DEF Founded
<1> QED BY <1>2, <1>3, <1>4, WatcherMoves

LEMMA NewestIsLogged ==
  ASSUME beats \in Seq(Beat), beats # <<>>
  PROVE  Len(beats) \in 1..Len(beats) /\ NewestById = beats[Len(beats)] /\ NewestById \in Beat
<1>1. Len(beats) \in 1..Len(beats)
  OBVIOUS
<1> QED BY <1>1 DEF NewestById, Last

LEMMA ReadSummaryKeeps ==
  ASSUME MonInv, NEW w \in Watcher, ReadSummary(w)
  PROVE  MonInv'
<1> DEFINE known == beats # <<>> /\ NewestById.compatible
           c == [watch[w] EXCEPT !.pc = "event", !.compatible = known]
<1>1. watch[w] \in WatchState /\ beats \in Seq(Beat) /\ watch \in [Watcher -> WatchState]
  BY DEF MonInv, MonTypeOK
<1>2. watch' = [watch EXCEPT ![w] = c] /\ UNCHANGED <<clock, arriving, beats, snapshot>>
  BY <1>1 DEF ReadSummary
<1>3. known \in BOOLEAN /\ (known => beats # <<>>)
  <2>1. beats # <<>> => NewestById.compatible \in BOOLEAN
    BY <1>1, NewestIsLogged DEF Beat
  <2> QED BY <2>1
<1> HIDE DEF known
<1>4. c \in WatchState /\ c.judged = watch[w].judged /\ c.compatible = known
  BY <1>1, <1>3 DEF WatchState
<1>5. Founded(c.judged)
  BY <1>4 DEF MonInv, WatchConsistent
<1> HIDE DEF c
<1> QED BY <1>2, <1>3, <1>4, <1>5, WatcherMoves

\* What _monitor_health_summary makes of a heartbeat; "ok" has three conditions.
LEMMA HealthOfABeat ==
  ASSUME NEW b \in Beat, NEW compatible \in BOOLEAN, NEW now \in Time
  PROVE  /\ HealthOf(b, compatible, now) \in Health
         /\ HealthOf(b, compatible, now) = "ok" => compatible /\ b.ok /\ now <= b.at + FreshFor
<1>1. now \in Nat /\ b.at \in Nat /\ b.ok \in BOOLEAN
  BY NothingYetTyped DEF Beat
<1>2. Age(b, now) <= FreshFor => now <= b.at + FreshFor
  BY <1>1, MonitoringParameters DEF Age
<1>3. Age(b, now) \in Nat
  BY <1>1 DEF Age
<1>4. CASE ~compatible
  BY <1>4 DEF HealthOf, Health
<1>5. CASE compatible /\ ~b.ok
  BY <1>5 DEF HealthOf, Health
<1>6. CASE compatible /\ b.ok
  <2>1. HealthOf(b, compatible, now) = IF Age(b, now) > StaleFor THEN "critical"
                                       ELSE IF Age(b, now) > FreshFor THEN "warn" ELSE "ok"
    BY <1>6 DEF HealthOf
  <2> DEFINE health == HealthOf(b, compatible, now)
  <2>2. health \in Health
    BY <2>1 DEF Health
  <2>3. health = "ok" => now <= b.at + FreshFor
    <3> HIDE DEF health
    <3> SUFFICES ASSUME health = "ok" PROVE Age(b, now) <= FreshFor
      BY <1>2
    <3>1. ~(Age(b, now) > FreshFor)
      BY <2>1 DEF health
    <3> QED BY <1>3, <3>1, MonitoringParameters
  <2> QED BY <1>6, <2>2, <2>3, Zenon
<1> QED BY <1>1, <1>4, <1>5, <1>6

LEMMA ReadEventKeeps ==
  ASSUME MonInv, NEW w \in Watcher, ReadEvent(w)
  PROVE  MonInv'
<1> DEFINE old    == watch[w]
           health == IF beats = <<>> THEN "critical"
                     ELSE HealthOf(NewestById, old.compatible, old.judged.now)
           c == [old EXCEPT !.pc = "save", !.judged.of = Len(beats), !.judged.health = health]
<1>1. /\ old \in WatchState /\ beats \in Seq(Beat) /\ Len(beats) \in 0..ReportCap
      /\ watch \in [Watcher -> WatchState] /\ WatchConsistent(w) /\ old.pc = "event"
  BY MonitoringParameters DEF MonInv, MonTypeOK, ReadEvent
<1>2. watch' = [watch EXCEPT ![w] = c] /\ UNCHANGED <<clock, arriving, beats, snapshot>>
  BY <1>1 DEF ReadEvent
<1>3. old.compatible \in BOOLEAN /\ old.judged.now \in Time /\ old.judged.known \in 0..ReportCap
  BY <1>1 DEF WatchState, Snapshot
<1> HIDE DEF old
<1>4. /\ health \in Health
      /\ health = "ok" =>
           /\ Len(beats) > 0 /\ beats[Len(beats)].ok /\ beats[Len(beats)].compatible
           /\ old.judged.now <= beats[Len(beats)].at + FreshFor
  <2>1. CASE beats = <<>>
    BY <2>1 DEF Health
  <2>2. CASE beats # <<>>
    <3>1. Len(beats) \in 1..Len(beats) /\ NewestById = beats[Len(beats)] /\ NewestById \in Beat
      BY <1>1, <2>2, NewestIsLogged
    <3>2. OutcomeFits(NewestById)
      BY <3>1 DEF MonInv
    <3>3. health = HealthOf(NewestById, old.compatible, old.judged.now)
      BY <2>2
    <3>4. /\ health \in Health
          /\ health = "ok" => NewestById.ok /\ old.judged.now <= NewestById.at + FreshFor
      BY <1>3, <3>1, <3>3, HealthOfABeat
    <3> HIDE DEF health
    <3> QED BY <1>1, <3>1, <3>2, <3>4 DEF OutcomeFits
  <2> QED BY <2>1, <2>2
<1> HIDE DEF health
<1>5. /\ c \in WatchState /\ c.pc = "save" /\ c.judged.health = health
      /\ c.judged.of = Len(beats) /\ c.judged.known = old.judged.known
      /\ c.judged.now = old.judged.now
  <2>1. old \in WatchState
    BY <1>1
  <2> QED BY <1>1, <1>4, <2>1 DEF WatchState, Snapshot
<1> HIDE DEF c
<1>6. old.judged.known <= Len(beats)
  BY <1>1 DEF WatchConsistent, Founded, old
<1>7. Founded(c.judged)
  BY <1>1, <1>3, <1>4, <1>5, <1>6 DEF Founded
<1> QED BY <1>2, <1>5, <1>7, WatcherMoves

\* The other steps: a snapshot is saved, a command dies, time passes.
LEMMA SaveSnapshotKeeps ==
  ASSUME MonInv, NEW w \in Watcher, SaveSnapshot(w)
  PROVE  MonInv'
<1>1. /\ snapshot' = watch[w].judged /\ watch' = [watch EXCEPT ![w] = NotWatching]
      /\ UNCHANGED <<clock, arriving, beats>>
  BY DEF SaveSnapshot
<1>2. /\ beats \in Seq(Beat) /\ watch \in [Watcher -> WatchState]
      /\ watch[w].judged \in Snapshot /\ Founded(watch[w].judged)
  BY DEF MonInv, MonTypeOK, WatchConsistent, WatchState
<1>3. /\ watch' \in [Watcher -> WatchState] /\ watch'[w] = NotWatching
      /\ \A v \in Watcher \ {w} : watch'[v] = watch[v]
  BY <1>1, <1>2, NothingYetTyped
<1>4. MonTypeOK'
  BY <1>1, <1>2, <1>3 DEF MonInv, MonTypeOK
<1>5. Founded(snapshot)'
  BY <1>1, <1>2 DEF Founded
<1>6. ASSUME NEW v \in Watcher PROVE WatchConsistent(v)'
  <2>1. CASE v = w
    BY <1>1, <1>2, <1>3, <2>1, NothingYetFounded DEF WatchConsistent, Founded, NotWatching
  <2>2. CASE v # w
    BY <1>1, <1>3, <2>2 DEF MonInv, WatchConsistent, Founded
  <2> QED BY <2>1, <2>2
<1> QED BY <1>1, <1>4, <1>5, <1>6 DEF MonInv, OutcomeFits

LEMMA MonitorDiesKeeps ==
  ASSUME MonInv, NEW w \in Watcher, MonitorDies(w)
  PROVE  MonInv'
<1>1. NotWatching \in WatchState /\ NotWatching.pc = "idle" /\ Founded(NotWatching.judged)
  <2>1. beats \in Seq(Beat)
    BY DEF MonInv, MonTypeOK
  <2>2. NotWatching.pc = "idle"
    BY DEF NotWatching
  <2>3. NotWatching \in WatchState
    BY NothingYetTyped
  <2>4. Founded(NotWatching.judged)
    BY <2>1, NothingYetFounded
  <2> QED BY <2>2, <2>3, <2>4
<1>2. watch' = [watch EXCEPT ![w] = NotWatching] /\ UNCHANGED <<clock, arriving, beats, snapshot>>
  BY DEF MonitorDies
<1> QED BY <1>1, <1>2, WatcherMoves

LEMMA ClockKeeps ==
  ASSUME MonInv, clock' \in Time, UNCHANGED <<arriving, beats, snapshot, watch>>
  PROVE  MonInv'
<1>1. MonTypeOK'
  BY DEF MonInv, MonTypeOK
<1>2. Founded(snapshot)' /\ \A w \in Watcher : WatchConsistent(w)'
  BY DEF MonInv, WatchConsistent, Founded
<1> QED BY <1>1, <1>2 DEF MonInv, OutcomeFits

LEMMA MonStepKeeps == MonInv /\ [MonNext]_monVars => MonInv'
<1> SUFFICES ASSUME MonInv, [MonNext]_monVars PROVE MonInv'
  OBVIOUS
<1>1. ASSUME NEW fine \in BOOLEAN, NEW compatible \in BOOLEAN, Stamp(fine, compatible) PROVE MonInv'
  BY <1>1, StampKeeps
<1>2. ASSUME NEW b \in arriving, Insert(b) PROVE MonInv'
  BY <1>2, InsertKeeps
<1>3. CASE TimePasses
  BY <1>3, ClockKeeps, MonitoringParameters DEF TimePasses, Time, MonInv, MonTypeOK
<1>4. ASSUME NEW w \in Watcher,
             \/ MonitorBegins(w) \/ ReadSummary(w) \/ ReadEvent(w)
             \/ SaveSnapshot(w) \/ MonitorDies(w)
      PROVE  MonInv'
  BY <1>4, MonBeginKeeps, ReadSummaryKeeps, ReadEventKeeps, SaveSnapshotKeeps, MonitorDiesKeeps
<1>5. CASE UNCHANGED monVars
  BY <1>5, ClockKeeps DEF monVars, MonInv, MonTypeOK
<1> QED BY <1>1, <1>2, <1>3, <1>4, <1>5 DEF MonNext

\* Each verdict of a monitor command has the heartbeat it was given for, however many
\* handlers and commands overlap (monitor_run_once and its two reads of the log).
THEOREM MonInvariance == MonSpec => []MonInv
BY MonInitHolds, MonStepKeeps, PTL DEF MonSpec

\* Clock, events, snapshots and commands keep their types.
THEOREM MonTypeCorrect == MonSpec => []MonTypeOK
BY MonInvariance, PTL DEF MonInv

\* A snapshot says ok only of a node with a good, compatible and fresh heartbeat
\* (_monitor_health_summary).
THEOREM HealthyWasTrue == MonSpec => []HealthyIsTrue
<1>1. MonInv => HealthyIsTrue
  BY DEF MonInv, Founded, HealthyIsTrue
<1> QED BY <1>1, MonInvariance, PTL
------------------------------------------------------------------------------
(* LivenessIsUniform is not what the code ensures (SilentWarn.cfg).  When     *)
(* heartbeats are inserted as they were stamped, both views judge the same    *)
(* event and differ in one case alone.                                        *)

\* No heartbeat is overtaken by a later one between its stamp and its insert.
InsertedInOrder == \A i, j \in DOMAIN beats : i < j => beats[i].at <= beats[j].at

\* The node reported a problem and has been silent for longer than StaleFor.
SilentAfterProblem == beats # <<>> /\ ~NewestById.ok /\ Age(NewestById, clock) > StaleFor

\* The event the command line takes and the one the console takes are the same.
LEMMA NewestAgree ==
  ASSUME MonTypeOK, InsertedInOrder, beats # <<>>
  PROVE  NewestByTime = NewestById
<1>1. /\ beats \in Seq(Beat) /\ Len(beats) \in DOMAIN beats
      /\ \A i \in DOMAIN beats : i \in Nat /\ i <= Len(beats) /\ beats[i].at \in Int
  <2>1. beats \in Seq(Beat) /\ DOMAIN beats = 1..Len(beats) /\ Len(beats) \in Nat
    BY DEF MonTypeOK
  <2>2. Len(beats) > 0
    BY <2>1
  <2>3. \A i \in DOMAIN beats : beats[i] \in Beat
    BY <2>1
  <2>4. \A b \in Beat : b.at \in Int
    BY MonitoringParameters DEF Beat, Time
  <2> QED BY <2>1, <2>2, <2>3, <2>4
<1> DEFINE Is(i) == \A j \in DOMAIN beats :
                      beats[j].at < beats[i].at \/ (beats[j].at = beats[i].at /\ j <= i)
<1>2. Is(Len(beats))
  BY <1>1 DEF InsertedInOrder
<1>3. ASSUME NEW i \in DOMAIN beats, Is(i) PROVE i = Len(beats)
  BY <1>1, <1>3 DEF InsertedInOrder
<1>4. (CHOOSE i \in DOMAIN beats : Is(i)) = Len(beats)
  <2> HIDE DEF Is
  <2> QED BY <1>1, <1>2, <1>3
<1> QED BY <1>4 DEF NewestByTime, NewestById, Last

\* Liveness is one thing for the command line and the console ("统一分为 online / stale /
\* offline", docs/architecture.md:177) but for a node that fell silent after it reported
\* a problem, if no heartbeat overtakes another: of such a node _node_liveness never says
\* offline, and that is the whole difference.
THEOREM ViewsDifferOnSilentProblems ==
  MonSpec /\ []InsertedInOrder => [](LivenessIsUniform <=> ~SilentAfterProblem)
<1>1. ASSUME MonTypeOK, InsertedInOrder
      PROVE  LivenessIsUniform <=> ~SilentAfterProblem
  <2>1. CASE beats = <<>>
    BY <2>1 DEF LivenessIsUniform, CliLiveness, ConsoleLiveness, SilentAfterProblem
  <2>2. CASE beats # <<>>
    <3>1. NewestByTime = NewestById
      BY <1>1, <2>2, NewestAgree
    <3>2. NewestById \in Beat /\ clock \in Time
      BY <1>1, <2>2 DEF MonTypeOK, NewestById, Last
    <3>3. /\ Age(NewestById, clock) \in Int /\ FreshFor \in Int /\ StaleFor \in Int
          /\ FreshFor < StaleFor /\ NewestById.ok \in BOOLEAN
      BY <3>2, MonitoringParameters DEF Age, Beat, Time
    <3> QED BY <2>2, <3>1, <3>3
            DEF LivenessIsUniform, CliLiveness, ConsoleLiveness, SilentAfterProblem
  <2> QED BY <2>1, <2>2
<1> QED BY <1>1, MonTypeCorrect, PTL
==============================================================================
