---------------------------- MODULE GatewayProofs ----------------------------
(***************************************************************************)
(* The gateway, for any number of requests, processes, cards and presses.  *)
(* GwInv ties the three properties together: what a poller holds between   *)
(* its calls refers to requests that exist, cards that were shown and      *)
(* updates all of whose predecessors were handed to the API.               *)
(***************************************************************************)
EXTENDS Gateway, TLAPS

Shown(a) == \E c \in 1..Len(chat) : chat[c].on = a

\* What a poller in state s relies on.
Relies(s) ==
  /\ \A a \in s.todo : request[a] # "absent"
  /\ s.pc = "mark" => s.on \in Request /\ Shown(s.on)
  /\ s.pc \in {"callback", "clear"} =>
       /\ s.last <= Len(updates) /\ s.next \in 1..s.last + 1 /\ s.goal <= s.last + 1
       /\ \A u \in 1..s.next - 1 : u \in tried
  /\ s.pc = "clear" => /\ s.next <= s.last /\ s.next \in tried
                       /\ request[chat[updates[s.next].card].on] \in Decision

\* Cards are shown for requests, and lose their buttons to a decision only.
CardsConsistent ==
  \A c \in 1..Len(chat) : /\ request[chat[c].on] # "absent"
                          /\ ~chat[c].buttons => request[chat[c].on] \in Decision

RowsConsistent == \A a \in Request : outbox[a] # "absent" => request[a] # "absent"

PressesConsistent == \A u \in 1..Len(updates) : updates[u].card \in 1..Len(chat)

GwInv ==
  /\ GwTypeOK
  /\ DeliveredWasShown /\ ForgottenWasTried
  /\ CardsConsistent /\ RowsConsistent /\ PressesConsistent
  /\ \A p \in Poller : Relies(poller[p])

\* What no step of the gateway or its surroundings takes back.
Grows ==
  /\ Len(chat) <= Len(chat') /\ \A c \in 1..Len(chat) : chat'[c].on = chat[c].on
  /\ Len(updates) <= Len(updates') /\ \A u \in 1..Len(updates) : updates'[u] = updates[u]
  /\ tried \subseteq tried'
  /\ \A a \in Request : /\ request[a] # "absent" => request'[a] # "absent"
                        /\ request[a] \in Decision => request'[a] \in Decision
------------------------------------------------------------------------------
LEMMA GwInitHolds == GwInit => GwInv
<1> SUFFICES ASSUME GwInit PROVE GwInv
  OBVIOUS
<1> USE DEF GwInit
<1>1. Fresh \in PollerState
  BY DEF Fresh, PollerState
<1>2. GwTypeOK
  BY <1>1, GatewayParameters DEF GwTypeOK
<1>3. ASSUME NEW p \in Poller PROVE Relies(poller[p])
  BY DEF Relies, Fresh
<1>4. DeliveredWasShown /\ ForgottenWasTried /\ CardsConsistent /\ RowsConsistent
      /\ PressesConsistent
  BY DEF DeliveredWasShown, ForgottenWasTried, CardsConsistent, RowsConsistent,
     PressesConsistent
<1> QED BY <1>2, <1>3, <1>4 DEF GwInv

LEMMA CardsAreCards ==
  ASSUME GwTypeOK, NEW c \in 1..Len(chat)
  PROVE  chat[c].on \in Request /\ chat[c].buttons \in BOOLEAN
<1>1. chat[c] \in Card
  BY DEF GwTypeOK
<1> QED BY <1>1 DEF Card

LEMMA ShownStays ==
  ASSUME GwTypeOK, GwTypeOK', Grows, NEW a \in Request, Shown(a)
  PROVE  Shown(a)'
<1>1. PICK c \in 1..Len(chat) : chat[c].on = a
  BY DEF Shown
<1>2. Len(chat) \in Nat /\ Len(chat') \in Nat
  BY DEF GwTypeOK
<1>3. c \in 1..Len(chat') /\ chat'[c].on = a
  BY <1>1, <1>2 DEF Grows
<1> QED BY <1>3 DEF Shown

LEMMA ReliesStays ==
  ASSUME GwInv, GwTypeOK', Grows, NEW s \in PollerState, Relies(s)
  PROVE  Relies(s)'
<1>1. GwTypeOK /\ Len(updates) \in Nat /\ Len(updates') \in Nat /\ s.last \in Nat /\ s.next \in Nat
      /\ s.todo \subseteq Request /\ Len(chat) \in Nat
  BY SMTT(30) DEF GwInv, GwTypeOK, PollerState
<1>2. \A a \in s.todo : request'[a] # "absent"
  BY <1>1 DEF Relies, Grows
<1>3. s.pc = "mark" => s.on \in Request /\ Shown(s.on)'
  BY <1>1, ShownStays DEF Relies
<1>4. s.pc \in {"callback", "clear"} =>
       /\ s.last <= Len(updates') /\ s.next \in 1..s.last + 1 /\ s.goal <= s.last + 1
       /\ \A u \in 1..s.next - 1 : u \in tried'
  BY <1>1 DEF Relies, Grows
<1>5. ASSUME s.pc = "clear"
      PROVE  /\ s.next <= s.last /\ s.next \in tried'
             /\ request'[chat'[updates'[s.next].card].on] \in Decision
  <2>1. s.next \in 1..Len(updates) /\ updates'[s.next] = updates[s.next]
    BY <1>1, <1>5 DEF Relies, Grows
  <2>2. PICK c \in 1..Len(chat) : c = updates[s.next].card
    BY <2>1 DEF GwInv, PressesConsistent
  <2>3. chat[c].on \in Request
    BY <1>1, CardsAreCards
  <2>4. request'[chat[c].on] \in Decision
    BY <1>5, <2>2, <2>3 DEF Relies, Grows
  <2> QED BY <1>5, <2>1, <2>2, <2>4 DEF Relies, Grows
<1> QED BY <1>2, <1>3, <1>4, <1>5 DEF Relies

\* A step of one poller that keeps the shared state in order.
LEMMA PollerMoves ==
  ASSUME GwInv, NEW p \in Poller, NEW s \in PollerState,
         poller' = [poller EXCEPT ![p] = s], Relies(s)',
         GwTypeOK', Grows, DeliveredWasShown', ForgottenWasTried',
         CardsConsistent', RowsConsistent', PressesConsistent'
  PROVE  GwInv'
<1>1. ASSUME NEW q \in Poller PROVE Relies(poller[q])'
  <2>1. poller \in [Poller -> PollerState]
    BY DEF GwInv, GwTypeOK
  <2>2. CASE q = p
    BY <2>1, <2>2
  <2>3. CASE q # p
    <3>1. PICK t \in PollerState : t = poller[q]
      BY <2>1
    <3>2. poller'[q] = t
      BY <2>1, <2>3, <3>1
    <3>3. Relies(t)
      BY <3>1 DEF GwInv
    <3>4. Relies(t)'
      BY <3>3, ReliesStays
    <3> QED BY <3>2, <3>4
  <2> QED BY <2>2, <2>3
<1> QED BY <1>1 DEF GwInv

\* A step of one poller that only reads, or moves.
LEMMA PollerReads ==
  ASSUME GwInv, NEW p \in Poller, NEW s \in PollerState,
         poller' = [poller EXCEPT ![p] = s], Relies(s),
         UNCHANGED <<request, outbox, chat, updates, confirmed, offset, tried, deaths>>
  PROVE  GwInv'
<1>1. GwTypeOK'
  BY DEF GwInv, GwTypeOK
<1>2. Grows
  BY DEF GwInv, GwTypeOK, Grows
<1>3. DeliveredWasShown' /\ ForgottenWasTried' /\ CardsConsistent' /\ RowsConsistent'
      /\ PressesConsistent' /\ Relies(s)'
  BY DEF GwInv, DeliveredWasShown, ForgottenWasTried, CardsConsistent, RowsConsistent,
     PressesConsistent, Relies, Shown
<1> QED BY <1>1, <1>2, <1>3, PollerMoves

LEMMA FreshRelies == Fresh \in PollerState /\ Relies(Fresh)
BY DEF Fresh, PollerState, Relies
------------------------------------------------------------------------------
\* A step outside the pollers.
LEMMA OutsideMoves ==
  ASSUME GwInv, UNCHANGED poller,
         GwTypeOK', Grows, DeliveredWasShown', ForgottenWasTried',
         CardsConsistent', RowsConsistent', PressesConsistent'
  PROVE  GwInv'
<1>1. ASSUME NEW q \in Poller PROVE Relies(poller[q])'
  <2>1. PICK t \in PollerState : t = poller[q]
    BY DEF GwInv, GwTypeOK
  <2>2. Relies(t) /\ poller'[q] = t
    BY <2>1 DEF GwInv
  <2>3. Relies(t)'
    BY <2>2, ReliesStays
  <2> QED BY <2>2, <2>3
<1> QED BY <1>1 DEF GwInv

LEMMA RequestsKeep ==
  ASSUME GwInv, NEW a \in Request, CreateRequest(a) \/ EnqueueCard(a) \/ DecideElsewhere(a)
  PROVE  GwInv'
<1>1. /\ request \in [Request -> {"absent", "pending"} \cup Decision]
      /\ outbox \in [Request -> {"absent", "pending", "delivered"}]
      /\ chat \in Seq(Card) /\ updates \in Seq(Update)
  BY DEF GwInv, GwTypeOK
<1>2. UNCHANGED <<chat, updates, confirmed, offset, poller, tried, deaths>>
  BY DEF CreateRequest, EnqueueCard, DecideElsewhere
<1>3. /\ request' \in [Request -> {"absent", "pending"} \cup Decision]
      /\ outbox' \in [Request -> {"absent", "pending", "delivered"}]
      /\ \A b \in Request : /\ request[b] # "absent" => request'[b] # "absent"
                            /\ request[b] \in Decision => request'[b] \in Decision
                            /\ outbox'[b] = "delivered" => outbox[b] = "delivered"
                            /\ outbox'[b] # "absent" => request'[b] # "absent"
  BY <1>1 DEF CreateRequest, EnqueueCard, DecideElsewhere, Decision, GwInv, RowsConsistent
<1>4. GwTypeOK'
  BY <1>2, <1>3 DEF GwInv, GwTypeOK
<1>5. Grows
  BY <1>1, <1>2, <1>3 DEF Grows
<1>6. DeliveredWasShown' /\ ForgottenWasTried' /\ RowsConsistent' /\ PressesConsistent'
  BY <1>2, <1>3 DEF GwInv, DeliveredWasShown, ForgottenWasTried, RowsConsistent,
     PressesConsistent
<1>7. CardsConsistent'
  <2>1. \A c \in 1..Len(chat) : chat[c].on \in Request
    BY CardsAreCards DEF GwInv
  <2> QED BY <1>2, <1>3, <2>1 DEF GwInv, CardsConsistent
<1> QED BY <1>2, <1>4, <1>5, <1>6, <1>7, OutsideMoves

LEMMA PressKeeps ==
  ASSUME GwInv, NEW c \in 1..Len(chat), NEW v \in Decision, Press(c, v)
  PROVE  GwInv'
<1> DEFINE u == [card |-> c, decision |-> v]
<1>1. /\ chat \in Seq(Card) /\ updates \in Seq(Update) /\ Len(chat) <= CardCap
      /\ confirmed \in 0..Len(updates) /\ offset \in 0..Len(updates) + 1
      /\ tried \subseteq 1..Len(updates) /\ Len(updates) \in Nat /\ Len(chat) \in Nat
  BY DEF GwInv, GwTypeOK
<1>2. u \in Update
  BY <1>1, GatewayParameters DEF Update
<1>3. /\ updates' = Append(updates, u) /\ Len(updates) < PressCap
      /\ UNCHANGED <<request, outbox, chat, confirmed, offset, poller, tried, deaths>>
  BY DEF Press
<1>4. u.card = c
  OBVIOUS
<1> HIDE DEF u
<1>5. /\ updates' \in Seq(Update) /\ Len(updates') = Len(updates) + 1
      /\ \A i \in 1..Len(updates) : updates'[i] = updates[i]
      /\ updates'[Len(updates) + 1] = u
  BY <1>1, <1>2, <1>3
<1>6. GwTypeOK'
  BY <1>1, <1>3, <1>5, GatewayParameters DEF GwInv, GwTypeOK
<1>7. Grows
  BY <1>1, <1>3, <1>5 DEF Grows
<1>8. DeliveredWasShown' /\ CardsConsistent' /\ RowsConsistent'
  BY <1>3 DEF GwInv, DeliveredWasShown, CardsConsistent, RowsConsistent
<1>9. PressesConsistent'
  BY <1>1, <1>3, <1>4, <1>5 DEF GwInv, PressesConsistent
<1>10. ForgottenWasTried'
  <2> SUFFICES ASSUME NEW i \in 1..Len(updates'), i <= confirmed \/ i < offset PROVE i \in tried
    BY <1>3 DEF ForgottenWasTried
  <2>1. i \in 1..Len(updates)
    BY <1>1, <1>5
  <2> QED BY <2>1 DEF GwInv, ForgottenWasTried
<1> QED BY <1>3, <1>6, <1>7, <1>8, <1>9, <1>10, OutsideMoves
------------------------------------------------------------------------------
(* Sending *)

\* The chat grows by one card, of a request that is there.
LEMMA CardSent ==
  ASSUME GwInv, NEW a \in Request, request[a] # "absent", Len(chat) < CardCap,
         chat' = Append(chat, [on |-> a, buttons |-> TRUE]),
         UNCHANGED <<request, outbox, updates, confirmed, offset, tried, deaths>>,
         poller' \in [Poller -> PollerState]
  PROVE  /\ GwTypeOK' /\ Grows /\ Shown(a)' /\ DeliveredWasShown' /\ ForgottenWasTried'
         /\ CardsConsistent' /\ RowsConsistent' /\ PressesConsistent'
<1> DEFINE card == [on |-> a, buttons |-> TRUE]
<1>1. card \in Card /\ card.on = a /\ card.buttons
  BY DEF Card
<1>2. chat \in Seq(Card) /\ Len(chat) \in Nat /\ Len(updates) \in Nat /\ updates \in Seq(Update)
  BY DEF GwInv, GwTypeOK
<1>3. chat' = Append(chat, card)
  OBVIOUS
<1> HIDE DEF card
<1>4. /\ chat' \in Seq(Card) /\ Len(chat') = Len(chat) + 1
      /\ \A c \in 1..Len(chat) : chat'[c] = chat[c]
      /\ chat'[Len(chat) + 1] = card
  BY <1>1, <1>2, <1>3
<1>5. GwTypeOK'
  BY <1>2, <1>4, GatewayParameters DEF GwInv, GwTypeOK
<1>6. Grows
  BY <1>2, <1>4 DEF Grows
<1>7. Shown(a)'
  <2>1. Len(chat) + 1 \in 1..Len(chat')
    BY <1>2, <1>4
  <2> QED BY <1>1, <1>4, <2>1 DEF Shown
<1>8. DeliveredWasShown'
  <2> SUFFICES ASSUME NEW b \in Request, outbox[b] = "delivered" PROVE Shown(b)'
    BY DEF DeliveredWasShown, Shown
  <2>1. Shown(b)
    BY DEF GwInv, DeliveredWasShown, Shown
  <2> QED BY <1>5, <1>6, <2>1, ShownStays DEF GwInv
<1>9. CardsConsistent'
  <2> SUFFICES ASSUME NEW c \in 1..Len(chat')
               PROVE  /\ request[chat'[c].on] # "absent"
                      /\ ~chat'[c].buttons => request[chat'[c].on] \in Decision
    BY DEF CardsConsistent
  <2>1. CASE c \in 1..Len(chat)
    BY <1>4, <2>1 DEF GwInv, CardsConsistent
  <2>2. CASE c = Len(chat) + 1
    BY <1>1, <1>4, <2>2
  <2> QED BY <1>2, <1>4, <2>1, <2>2
<1>10. ForgottenWasTried' /\ RowsConsistent'
  BY DEF GwInv, ForgottenWasTried, RowsConsistent
<1>11. PressesConsistent'
  BY <1>2, <1>4 DEF GwInv, PressesConsistent
<1> QED BY <1>5, <1>6, <1>7, <1>8, <1>9, <1>10, <1>11

LEMMA SendKeeps ==
  ASSUME GwInv, NEW p \in Poller, NEW a \in Request, SendCard(p, a) \/ SendFails(p, a)
  PROVE  GwInv'
<1>1. poller[p] \in PollerState /\ Relies(poller[p]) /\ poller \in [Poller -> PollerState]
  BY DEF GwInv, GwTypeOK
<1>2. a \in poller[p].todo /\ request[a] # "absent" /\ poller[p].pc = "send"
  BY <1>1 DEF SendCard, SendFails, At, Relies
<1>3. CASE SendCard(p, a)
  <2>1. PICK s \in PollerState : s = [poller[p] EXCEPT !.pc = "mark", !.on = a, !.todo = @ \ {a}]
    BY <1>1 DEF PollerState
  <2>2. s.pc = "mark" /\ s.on = a /\ s.todo \subseteq poller[p].todo
    BY <1>1, <2>1 DEF PollerState
  <2>3. /\ poller' = [poller EXCEPT ![p] = s] /\ Len(chat) < CardCap
        /\ chat' = Append(chat, [on |-> a, buttons |-> TRUE])
        /\ UNCHANGED <<request, outbox, updates, confirmed, offset, tried, deaths>>
    BY <1>3, <2>1 DEF SendCard, MoveTo
  <2>4. poller' \in [Poller -> PollerState]
    BY <1>1, <2>3
  <2>5. /\ GwTypeOK' /\ Grows /\ Shown(a)' /\ DeliveredWasShown' /\ ForgottenWasTried'
        /\ CardsConsistent' /\ RowsConsistent' /\ PressesConsistent'
    BY <1>2, <2>3, <2>4, CardSent
  <2>6. Relies(s)'
    BY <1>1, <2>2, <2>3, <2>5 DEF Relies
  <2> QED BY <2>3, <2>5, <2>6, PollerMoves
<1>4. CASE SendFails(p, a)
  <2>1. PICK s \in PollerState : s = [poller[p] EXCEPT !.todo = @ \ {a}]
    BY <1>1 DEF PollerState
  <2>2. s.pc = "send" /\ s.todo \subseteq poller[p].todo
    BY <1>1, <1>2, <2>1 DEF PollerState
  <2>3. Relies(s)
    BY <1>1, <2>2 DEF Relies
  <2>4. /\ poller' = [poller EXCEPT ![p] = s]
        /\ UNCHANGED <<request, outbox, updates, confirmed, offset, tried, deaths>>
    BY <1>4, <2>1 DEF SendFails, MoveTo
  <2>5. poller' \in [Poller -> PollerState]
    BY <1>1, <2>4
  <2>6. CASE UNCHANGED chat
    BY <2>3, <2>4, <2>6, PollerReads
  <2>7. CASE Len(chat) < CardCap /\ chat' = Append(chat, [on |-> a, buttons |-> TRUE])
    <3>1. /\ GwTypeOK' /\ Grows /\ DeliveredWasShown' /\ ForgottenWasTried'
          /\ CardsConsistent' /\ RowsConsistent' /\ PressesConsistent'
      BY <1>2, <2>4, <2>5, <2>7, CardSent
    <3>2. Relies(s)'
      BY <1>1, <2>2, <2>4 DEF Relies
    <3> QED BY <2>4, <3>1, <3>2, PollerMoves
  <2> QED BY <1>4, <2>6, <2>7 DEF SendFails
<1> QED BY <1>3, <1>4

\* mark_delivered comes after the card was shown.
LEMMA MarkKeeps ==
  ASSUME GwInv, NEW p \in Poller, Mark(p) \/ MarkFails(p)
  PROVE  GwInv'
<1>1. poller[p] \in PollerState /\ Relies(poller[p]) /\ poller \in [Poller -> PollerState]
  BY DEF GwInv, GwTypeOK
<1>2. PICK a \in Request : a = poller[p].on /\ Shown(a)
  BY <1>1 DEF Relies, Mark, MarkFails, At
<1>3. PICK s \in PollerState : s = [poller[p] EXCEPT !.pc = "send", !.on = NoRequest]
  BY <1>1 DEF PollerState
<1>4. s.pc = "send" /\ s.todo = poller[p].todo
  BY <1>1, <1>3 DEF PollerState
<1>5. Relies(s)
  BY <1>1, <1>4 DEF Relies
<1>6. /\ poller' = [poller EXCEPT ![p] = s]
      /\ UNCHANGED <<request, chat, updates, confirmed, offset, tried, deaths>>
      /\ outbox' \in {outbox, [outbox EXCEPT ![a] = "delivered"]}
  BY <1>2, <1>3 DEF Mark, MarkFails, MoveTo
<1>7. CASE outbox' = outbox
  BY <1>5, <1>6, <1>7, PollerReads
<1>8. CASE outbox' = [outbox EXCEPT ![a] = "delivered"]
  <2>1. outbox \in [Request -> {"absent", "pending", "delivered"}]
    BY DEF GwInv, GwTypeOK
  <2>2. \A b \in Request : outbox'[b] = IF b = a THEN "delivered" ELSE outbox[b]
    BY <1>8, <2>1
  <2>3. poller' \in [Poller -> PollerState]
    BY <1>1, <1>6
  <2>4. GwTypeOK'
    BY <1>6, <1>8, <2>1, <2>3 DEF GwInv, GwTypeOK
  <2>5. Grows
    BY <1>6 DEF GwInv, GwTypeOK, Grows
  <2>6. DeliveredWasShown'
    BY <1>2, <1>6, <2>2 DEF GwInv, DeliveredWasShown, Shown
  <2>7. request[a] # "absent"
    BY <1>2 DEF GwInv, CardsConsistent, Shown
  <2>8. RowsConsistent'
    BY <1>6, <2>2, <2>7 DEF GwInv, RowsConsistent
  <2>9. ForgottenWasTried' /\ CardsConsistent' /\ PressesConsistent' /\ Relies(s)'
    BY <1>5, <1>6 DEF GwInv, ForgottenWasTried, CardsConsistent, PressesConsistent, Relies, Shown
  <2> QED BY <1>6, <2>4, <2>5, <2>6, <2>8, <2>9, PollerMoves
<1> QED BY <1>6, <1>7, <1>8

LEMMA ListKeeps ==
  ASSUME GwInv, NEW p \in Poller, List(p) \/ AllSent(p)
  PROVE  GwInv'
<1>1. poller[p] \in PollerState /\ Relies(poller[p])
  BY DEF GwInv, GwTypeOK
<1>2. UNCHANGED <<request, outbox, chat, updates, confirmed, offset, tried, deaths>>
  BY DEF List, AllSent
<1>3. CASE List(p)
  <2>1. PICK s \in PollerState :
          s = [poller[p] EXCEPT !.pc = "send", !.todo = {a \in Request : outbox[a] = "pending"}]
    BY <1>1 DEF PollerState
  <2>2. s.pc = "send" /\ s.todo = {a \in Request : outbox[a] = "pending"}
    BY <1>1, <2>1 DEF PollerState
  <2>3. Relies(s)
    BY <2>2 DEF Relies, GwInv, RowsConsistent
  <2>4. poller' = [poller EXCEPT ![p] = s]
    BY <1>3, <2>1 DEF List, MoveTo
  <2> QED BY <1>2, <2>3, <2>4, PollerReads
<1>4. CASE AllSent(p)
  <2>1. PICK s \in PollerState : /\ poller' = [poller EXCEPT ![p] = s]
                                 /\ s = Fresh \/ s = [Fresh EXCEPT !.pc = "fetch"]
    BY <1>4, FreshRelies DEF AllSent, MoveTo, PollerState
  <2>2. Relies(s)
    BY <2>1 DEF Relies, Fresh
  <2> QED BY <1>2, <2>1, <2>2, PollerReads
<1> QED BY <1>3, <1>4
------------------------------------------------------------------------------
(* Callbacks *)

\* What is confirmed to Telegram by reading the offset file was handed to the API.
LEMMA FetchKeeps ==
  ASSUME GwInv, NEW p \in Poller, Fetch(p)
  PROVE  GwInv'
<1> DEFINE read == Larger(confirmed, IF offset = 0 THEN 0 ELSE offset - 1)
           last == Len(updates)
<1>1. /\ poller[p] \in PollerState /\ Relies(poller[p]) /\ poller \in [Poller -> PollerState]
      /\ Len(updates) \in Nat /\ confirmed \in 0..Len(updates) /\ offset \in 0..Len(updates) + 1
  BY DEF GwInv, GwTypeOK
<1>2. PICK r \in 0..last : r = read
  BY <1>1 DEF Larger
<1>3. \A u \in 1..r : u \in tried
  <2> SUFFICES ASSUME NEW u \in 1..r PROVE u \in tried
    OBVIOUS
  <2>1. u \in 1..Len(updates) /\ (u <= confirmed \/ u < offset)
    BY <1>1, <1>2 DEF Larger
  <2> QED BY <2>1 DEF GwInv, ForgottenWasTried
<1>4. PICK g \in Nat : g = (IF r < last THEN last + 1 ELSE offset) /\ g <= last + 1
  BY <1>1, <1>2
<1>5. PICK s \in PollerState : s = [poller[p] EXCEPT !.pc = "callback", !.next = r + 1,
                                                     !.last = last, !.goal = g]
  <2>1. PICK n \in Nat, l \in Nat : n = r + 1 /\ l = last
    <3>1. r + 1 \in Nat /\ last \in Nat
      BY <1>1
    <3> QED BY <3>1
  <2>2. PICK s \in PollerState : s = [poller[p] EXCEPT !.pc = "callback", !.next = n,
                                                       !.last = l, !.goal = g]
    BY <1>1 DEF PollerState
  <2> QED BY <2>1, <2>2
<1>6. s.pc = "callback" /\ s.next = r + 1 /\ s.last = last /\ s.goal = g /\ s.todo = poller[p].todo
  BY <1>1, <1>5 DEF PollerState
<1>7. /\ poller' = [poller EXCEPT ![p] = s] /\ confirmed' = r
      /\ UNCHANGED <<request, outbox, chat, updates, offset, tried, deaths>>
  BY <1>2, <1>4, <1>5 DEF Fetch, MoveTo
<1> HIDE DEF read
<1>8. Relies(s)'
  BY <1>1, <1>2, <1>3, <1>4, <1>6, <1>7 DEF Relies
<1>9. GwTypeOK'
  <2>1. poller' \in [Poller -> PollerState]
    BY <1>1, <1>7
  <2> QED BY <1>2, <1>7, <2>1 DEF GwInv, GwTypeOK
<1>10. ForgottenWasTried'
  BY <1>1, <1>2, <1>3, <1>7 DEF GwInv, ForgottenWasTried
<1>11. Grows
  BY <1>7 DEF GwInv, GwTypeOK, Grows
<1>12. DeliveredWasShown' /\ CardsConsistent' /\ RowsConsistent' /\ PressesConsistent'
  BY <1>7 DEF GwInv, DeliveredWasShown, CardsConsistent, RowsConsistent, PressesConsistent
<1> QED BY <1>7, <1>8, <1>9, <1>10, <1>11, <1>12, PollerMoves

\* The update in hand, and the request it decides.
LEMMA InHand ==
  ASSUME GwInv, NEW p \in Poller,
         poller[p].pc \in {"callback", "clear"}, poller[p].next <= poller[p].last
  PROVE  /\ poller[p].next \in 1..Len(updates)
         /\ Pressed(p).card \in 1..Len(chat) /\ Pressed(p).decision \in Decision
         /\ Asked(p) \in Request /\ request[Asked(p)] # "absent"
<1>1. poller[p] \in PollerState /\ Relies(poller[p]) /\ Len(updates) \in Nat /\ updates \in Seq(Update)
  BY DEF GwInv, GwTypeOK
<1>2. poller[p].next \in 1..Len(updates)
  BY <1>1 DEF Relies, PollerState
<1>3. updates[poller[p].next] \in Update
  BY <1>1, <1>2
<1>4. Pressed(p).card \in 1..Len(chat) /\ Pressed(p).decision \in Decision
  BY <1>2, <1>3 DEF Pressed, Update, GwInv, PressesConsistent
<1>5. Asked(p) \in Request /\ request[Asked(p)] # "absent"
  BY <1>4, CardsAreCards DEF Asked, GwInv, CardsConsistent
<1> QED BY <1>2, <1>4, <1>5

\* The next update comes when this one was handed to the API.
LEMMA NextRelies ==
  ASSUME GwInv, NEW p \in Poller,
         poller[p].pc \in {"callback", "clear"}, poller[p].next <= poller[p].last
  PROVE  \E s \in PollerState :
           /\ s = NextUpdate(p) /\ s.pc = "callback" /\ s.next = poller[p].next + 1
           /\ s.last = poller[p].last /\ s.goal = poller[p].goal /\ s.todo = poller[p].todo
<1>1. poller[p] \in PollerState /\ poller[p].next \in Nat
  BY DEF GwInv, GwTypeOK, PollerState
<1>2. PICK n \in Nat : n = poller[p].next + 1
  BY <1>1
<1>3. PICK s \in PollerState : s = [poller[p] EXCEPT !.pc = "callback", !.next = n]
  BY <1>1 DEF PollerState
<1>4. s = NextUpdate(p)
  BY <1>2, <1>3 DEF NextUpdate
<1>5. s.pc = "callback" /\ s.next = n /\ s.last = poller[p].last
      /\ s.goal = poller[p].goal /\ s.todo = poller[p].todo
  BY <1>1, <1>3 DEF PollerState
<1> QED BY <1>2, <1>4, <1>5

LEMMA CallbackKeeps ==
  ASSUME GwInv, NEW p \in Poller, CallbackDecides(p) \/ CallbackFails(p)
  PROVE  GwInv'
<1>1. /\ poller[p] \in PollerState /\ Relies(poller[p]) /\ poller \in [Poller -> PollerState]
      /\ poller[p].pc = "callback" /\ poller[p].next <= poller[p].last
      /\ request \in [Request -> {"absent", "pending"} \cup Decision]
      /\ Len(updates) \in Nat /\ tried \subseteq 1..Len(updates)
  BY DEF GwInv, GwTypeOK, CallbackDecides, CallbackFails, Handling, At
<1>2. PICK n \in 1..Len(updates) : n = poller[p].next
  BY <1>1, InHand
<1>3. PICK a \in Request : a = Asked(p) /\ request[a] # "absent"
  BY <1>1, InHand
<1>4. PICK t \in PollerState :
         /\ t = NextUpdate(p) /\ t.pc = "callback" /\ t.next = n + 1
         /\ t.last = poller[p].last /\ t.goal = poller[p].goal /\ t.todo = poller[p].todo
  BY <1>1, <1>2, NextRelies
<1>5. PICK w \in PollerState : w = [poller[p] EXCEPT !.pc = "clear"]
  BY <1>1 DEF PollerState
<1>6. w.pc = "clear" /\ w.next = n /\ w.last = poller[p].last /\ w.goal = poller[p].goal
      /\ w.todo = poller[p].todo
  BY <1>1, <1>2, <1>5 DEF PollerState
<1>7. /\ tried' = tried \cup {n}
      /\ UNCHANGED <<outbox, chat, updates, confirmed, offset, deaths>>
      /\ \/ request' = request /\ poller' = [poller EXCEPT ![p] = t]
         \/ /\ \E v \in Decision : request' = [request EXCEPT ![a] = v]
            /\ \/ poller' = [poller EXCEPT ![p] = t]
               \/ poller' = [poller EXCEPT ![p] = w]
  BY <1>1, <1>2, <1>3, <1>4, <1>5, InHand DEF CallbackDecides, CallbackFails, MoveTo
<1>8. /\ request' \in [Request -> {"absent", "pending"} \cup Decision]
      /\ \A b \in Request : /\ request[b] # "absent" => request'[b] # "absent"
                            /\ request[b] \in Decision => request'[b] \in Decision
      /\ request' # request => request'[a] \in Decision
  BY <1>1, <1>7 DEF Decision
<1>9. Grows
  BY <1>7, <1>8 DEF GwInv, GwTypeOK, Grows
<1>10. GwTypeOK'
  <2>1. poller' \in [Poller -> PollerState]
    BY <1>1, <1>7
  <2> QED BY <1>7, <1>8, <2>1 DEF GwInv, GwTypeOK
<1>11. DeliveredWasShown' /\ ForgottenWasTried' /\ RowsConsistent' /\ PressesConsistent'
  BY <1>7, <1>8 DEF GwInv, DeliveredWasShown, ForgottenWasTried, RowsConsistent,
     PressesConsistent
<1>12. CardsConsistent'
  BY <1>7, <1>8, CardsAreCards DEF GwInv, CardsConsistent
<1>13. /\ \A b \in poller[p].todo : request'[b] # "absent"
       /\ \A u \in 1..n : u \in tried'
       /\ n <= poller[p].last /\ poller[p].last <= Len(updates)
       /\ poller[p].goal <= poller[p].last + 1 /\ poller[p].last \in Nat
  <2>1. poller[p].todo \subseteq Request /\ poller[p].last \in Nat
    BY <1>1 DEF PollerState
  <2>2. \A u \in 1..n : u = n \/ u \in 1..n - 1
    OBVIOUS
  <2> QED BY <1>1, <1>2, <1>7, <1>8, <2>1, <2>2 DEF Relies
<1>14. CASE poller' = [poller EXCEPT ![p] = t]
  <2>1. Relies(t)'
    BY <1>4, <1>7, <1>13 DEF Relies
  <2> QED BY <1>9, <1>10, <1>11, <1>12, <1>14, <2>1, PollerMoves
<1>15. CASE poller' = [poller EXCEPT ![p] = w] /\ \E v \in Decision : request' = [request EXCEPT ![a] = v]
  <2>1. request'[chat'[updates'[n].card].on] \in Decision
    BY <1>1, <1>2, <1>3, <1>7, <1>15 DEF Asked, Pressed
  <2>2. Relies(w)'
    BY <1>6, <1>7, <1>13, <2>1 DEF Relies
  <2> QED BY <1>9, <1>10, <1>11, <1>12, <1>15, <2>2, PollerMoves
<1> QED BY <1>7, <1>14, <1>15

\* The buttons of a card go when its request was decided.
LEMMA ClearKeeps ==
  ASSUME GwInv, NEW p \in Poller, Clear(p)
  PROVE  GwInv'
<1>1. /\ poller[p] \in PollerState /\ Relies(poller[p]) /\ poller \in [Poller -> PollerState]
      /\ poller[p].pc = "clear" /\ poller[p].next <= poller[p].last
      /\ chat \in Seq(Card) /\ Len(chat) \in Nat
  BY DEF GwInv, GwTypeOK, Relies, Clear, At
<1>2. PICK t \in PollerState :
         /\ t = NextUpdate(p) /\ t.pc = "callback" /\ t.next = poller[p].next + 1
         /\ t.last = poller[p].last /\ t.goal = poller[p].goal /\ t.todo = poller[p].todo
  BY <1>1, NextRelies
<1>3. PICK c \in 1..Len(chat) : c = Pressed(p).card
  BY <1>1, InHand
<1>4. /\ poller' = [poller EXCEPT ![p] = t]
      /\ chat' \in {chat, [chat EXCEPT ![c].buttons = FALSE]}
      /\ UNCHANGED <<request, outbox, updates, confirmed, offset, tried, deaths>>
  BY <1>2, <1>3 DEF Clear, MoveTo
<1>5. Relies(t)
  <2>1. poller[p].last \in Nat /\ poller[p].next \in Nat
    BY <1>1 DEF PollerState
  <2>2. \A u \in 1..t.next - 1 : u \in tried
    BY <1>1, <1>2, <2>1 DEF Relies
  <2> QED BY <1>1, <1>2, <2>1, <2>2 DEF Relies
<1>6. CASE chat' = chat
  BY <1>4, <1>5, <1>6, PollerReads
<1>7. CASE chat' = [chat EXCEPT ![c].buttons = FALSE]
  <2>1. /\ chat' \in Seq(Card) /\ Len(chat') = Len(chat)
        /\ \A d \in 1..Len(chat) : /\ chat'[d].on = chat[d].on
                                   /\ d # c => chat'[d] = chat[d]
    <3> DEFINE cleared == [chat[c] EXCEPT !.buttons = FALSE]
    <3>1. chat[c] \in Card
      BY <1>1
    <3>2. cleared \in Card /\ cleared.on = chat[c].on
      BY <3>1 DEF Card
    <3>3. chat' = [chat EXCEPT ![c] = cleared]
      BY <1>7
    <3> HIDE DEF cleared
    <3> QED BY <1>1, <3>2, <3>3
  <2>2. poller' \in [Poller -> PollerState]
    BY <1>1, <1>4
  <2>3. GwTypeOK'
    BY <1>4, <2>1, <2>2 DEF GwInv, GwTypeOK
  <2>4. Grows
    BY <1>1, <1>4, <2>1 DEF GwInv, GwTypeOK, Grows
  <2>5. \A a \in Request : Shown(a) => Shown(a)'
    BY <2>1 DEF Shown
  <2>6. DeliveredWasShown'
    BY <1>4, <2>5 DEF GwInv, DeliveredWasShown, Shown
  <2>7. request[chat[c].on] \in Decision
    BY <1>1, <1>3 DEF Relies, Pressed
  <2>8. CardsConsistent'
    BY <1>4, <2>1, <2>7 DEF GwInv, CardsConsistent
  <2>9. ForgottenWasTried' /\ RowsConsistent' /\ PressesConsistent'
    BY <1>4, <2>1 DEF GwInv, ForgottenWasTried, RowsConsistent, PressesConsistent
  <2>10. Relies(t)'
    BY <1>2, <1>4, <1>5 DEF Relies
  <2> QED BY <1>4, <2>3, <2>4, <2>6, <2>8, <2>9, <2>10, PollerMoves
<1> QED BY <1>4, <1>6, <1>7

\* The offset that is stored covers only updates that were handed to the API.
LEMMA OffsetKeeps ==
  ASSUME GwInv, NEW p \in Poller, WriteOffset(p) \/ Die(p)
  PROVE  GwInv'
<1>1. /\ poller[p] \in PollerState /\ Relies(poller[p]) /\ poller \in [Poller -> PollerState]
      /\ Len(updates) \in Nat /\ offset \in 0..Len(updates) + 1 /\ deaths \in 0..DeathCap
  BY DEF GwInv, GwTypeOK
<1>2. poller[p].goal \in Nat /\ poller[p].last \in Nat /\ poller[p].next \in Nat
  BY <1>1 DEF PollerState
<1>3. /\ poller' = [poller EXCEPT ![p] = Fresh]
      /\ \/ offset' \in {0, offset}
         \/ Handled(p) /\ offset' = poller[p].goal
      /\ deaths' \in 0..DeathCap
      /\ UNCHANGED <<request, outbox, chat, updates, confirmed, tried>>
  BY <1>1, GatewayParameters DEF WriteOffset, Die, MoveTo
<1>4. ASSUME Handled(p)
      PROVE  /\ poller[p].goal \in 0..Len(updates) + 1
             /\ \A u \in 1..Len(updates) : u < poller[p].goal => u \in tried
  <2>1. /\ poller[p].last <= Len(updates) /\ poller[p].goal <= poller[p].last + 1
        /\ poller[p].next > poller[p].last
        /\ \A u \in 1..poller[p].next - 1 : u \in tried
    BY <1>1, <1>4 DEF Handled, At, Relies
  <2> QED BY <1>1, <1>2, <2>1
<1>5. offset' \in 0..Len(updates) + 1
  BY <1>1, <1>3, <1>4
<1>6. poller' \in [Poller -> PollerState]
  BY <1>1, <1>3, FreshRelies
<1>7. GwTypeOK'
  BY <1>3, <1>5, <1>6 DEF GwInv, GwTypeOK
<1>8. ForgottenWasTried'
  <2> SUFFICES ASSUME NEW u \in 1..Len(updates), u <= confirmed \/ u < offset' PROVE u \in tried
    BY <1>3 DEF ForgottenWasTried
  <2>1. CASE u <= confirmed \/ u < offset
    BY <2>1 DEF GwInv, ForgottenWasTried
  <2>2. CASE Handled(p) /\ offset' = poller[p].goal /\ u < offset'
    BY <1>4, <2>2
  <2> QED BY <1>3, <2>1, <2>2
<1>9. Grows
  BY <1>3 DEF GwInv, GwTypeOK, Grows
<1>10. DeliveredWasShown' /\ CardsConsistent' /\ RowsConsistent' /\ PressesConsistent'
  BY <1>3 DEF GwInv, DeliveredWasShown, CardsConsistent, RowsConsistent, PressesConsistent
<1>11. Relies(Fresh)'
  BY DEF Relies, Fresh
<1> QED BY <1>3, <1>7, <1>8, <1>9, <1>10, <1>11, FreshRelies, PollerMoves

LEMMA GwStutterKeeps == GwInv /\ UNCHANGED gwVars => GwInv'
<1> SUFFICES ASSUME GwInv, UNCHANGED gwVars PROVE GwInv'
  OBVIOUS
<1>1. UNCHANGED <<request, outbox, chat, updates, confirmed, offset, poller, tried, deaths>>
  BY DEF gwVars
<1>2. GwTypeOK' /\ Grows
  BY <1>1 DEF GwInv, GwTypeOK, Grows
<1>3. DeliveredWasShown' /\ ForgottenWasTried' /\ CardsConsistent' /\ RowsConsistent'
      /\ PressesConsistent'
  BY <1>1 DEF GwInv, DeliveredWasShown, ForgottenWasTried, CardsConsistent, RowsConsistent,
     PressesConsistent
<1> QED BY <1>1, <1>2, <1>3, OutsideMoves

LEMMA GwStepKeeps == GwInv /\ [GwNext]_gwVars => GwInv'
<1> SUFFICES ASSUME GwInv, [GwNext]_gwVars PROVE GwInv'
  OBVIOUS
<1>1. CASE UNCHANGED gwVars
  BY <1>1, GwStutterKeeps
<1>2. CASE \E a \in Request : CreateRequest(a) \/ EnqueueCard(a) \/ DecideElsewhere(a)
  BY <1>2, RequestsKeep
<1>3. CASE \E c \in 1..Len(chat), v \in Decision : Press(c, v)
  BY <1>3, PressKeeps
<1>4. CASE \E p \in Poller : PollerStep(p) \/ Die(p)
  <2>1. PICK p \in Poller : PollerStep(p) \/ Die(p)
    BY <1>4
  <2>2. CASE List(p) \/ AllSent(p)
    BY <2>2, ListKeeps
  <2>3. CASE Mark(p) \/ MarkFails(p)
    BY <2>3, MarkKeeps
  <2>4. CASE \E a \in Request : SendCard(p, a) \/ SendFails(p, a)
    BY <2>4, SendKeeps
  <2>5. CASE Fetch(p)
    BY <2>5, FetchKeeps
  <2>6. CASE CallbackDecides(p) \/ CallbackFails(p)
    BY <2>6, CallbackKeeps
  <2>7. CASE Clear(p)
    BY <2>7, ClearKeeps
  <2>8. CASE WriteOffset(p) \/ Die(p)
    BY <2>8, OffsetKeeps
  <2> QED BY <2>1, <2>2, <2>3, <2>4, <2>5, <2>6, <2>7, <2>8 DEF PollerStep
<1> QED BY <1>1, <1>2, <1>3, <1>4 DEF GwNext
------------------------------------------------------------------------------
(* Theorems *)

\* The inductive invariant of the gateway holds: outbox, chat, update queue and offset fit
\* what each gateway process relies on between two calls.
THEOREM GwInvariance == GwSpec => []GwInv
BY GwInitHolds, GwStepKeeps, PTL DEF GwSpec

\* Requests, outbox, chat, updates and pollers keep their types.
THEOREM GwTypeCorrect == GwSpec => []GwTypeOK
<1>1. GwInv => GwTypeOK
  BY DEF GwInv
<1> QED BY <1>1, GwInvariance, PTL

\* However many gateway processes overlap, fail and die, a notification is marked
\* delivered only after a card for it was shown.
THEOREM DeliveredNotificationsWereShown == GwSpec => []DeliveredWasShown
<1>1. GwInv => DeliveredWasShown
  BY DEF GwInv
<1> QED BY <1>1, GwInvariance, PTL

\* As long as a request with a card is undecided, its card can be pressed.
THEOREM ShownRequestsAreDecidable == GwSpec => []StillDecidable
<1>1. GwInv => StillDecidable
  <2> SUFFICES ASSUME GwInv, NEW a \in Request, request[a] = "pending",
                      NEW c \in 1..Len(chat), chat[c].on = a
               PROVE  chat[c].buttons
    BY DEF StillDecidable
  <2>1. chat[c].buttons \in BOOLEAN
    BY CardsAreCards DEF GwInv
  <2> QED BY <2>1 DEF GwInv, CardsConsistent, Decision
<1> QED BY <1>1, GwInvariance, PTL

\* No press is forgotten by Telegram before it was handed to the API, whichever
\* process writes the offset file last.
THEOREM ForgottenPressesWereTried == GwSpec => []ForgottenWasTried
<1>1. GwInv => ForgottenWasTried
  BY DEF GwInv
<1> QED BY <1>1, GwInvariance, PTL
==============================================================================
