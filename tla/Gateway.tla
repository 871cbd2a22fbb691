------------------------------- MODULE Gateway -------------------------------
(***************************************************************************)
(* The approval gateway: approval requests leave through the notifications *)
(* table (outbox), appear in the Telegram chat as cards with two buttons,  *)
(* and button presses come back as updates.  A poller is one process of    *)
(* hmn approval-gateway run (systemd restarts it) or poll-once; a sender   *)
(* is the older hmn telegram-gateway, which only delivers cards.           *)
(*                                                                         *)
(* Every call of a poller to the API or to Telegram can fail before it     *)
(* takes effect or after it; the process can die between any two calls.    *)
(* What a decision sets off is module Approvals; here a callback decides   *)
(* its request in one step.                                                *)
(***************************************************************************)
EXTENDS Naturals, Sequences

CONSTANTS
  Request,    \* approval ids
  Poller,     \* gateway processes
  Sender,     \* the pollers that are telegram-gateway processes
  NoRequest,  \* no notification in hand
  CardCap,    \* bound: cards in the chat
  PressCap,   \* bound: button presses
  DeathCap    \* bound: deaths of gateway processes

ASSUME GatewayParameters ==
  /\ Sender \subseteq Poller /\ NoRequest \notin Request
  /\ CardCap \in Nat /\ PressCap \in Nat /\ DeathCap \in Nat

VARIABLES
  request,    \* status of each approval request
  outbox,     \* status of its row in notifications
  chat,       \* the cards shown, oldest first
  updates,    \* the callback updates of Telegram, in the order of their update_id
  confirmed,  \* updates with an id up to this one are no longer returned
  offset,     \* content of the offset file; 0 stands for no file
  poller,     \* the state of each gateway process
  tried,      \* history: updates whose callback was handed to the API
  deaths      \* number of deaths so far

gwVars == <<request, outbox, chat, updates, confirmed, offset, poller, tried, deaths>>

Decision == {"approved", "rejected"}
Card == [on : Request, buttons : BOOLEAN]
Update == [card : 1..CardCap, decision : Decision]
PollerState == [pc   : {"list", "send", "mark", "fetch", "callback", "clear"},
                todo : SUBSET Request,  \* notifications still to be sent
                on   : Request \cup {NoRequest},  \* the one whose card was just sent
                next : Nat,             \* id of the update in hand
                last : Nat,             \* id of the last update of this fetch
                goal : Nat]             \* next_offset
Fresh == [pc |-> "list", todo |-> {}, on |-> NoRequest, next |-> 0, last |-> 0, goal |-> 0]

GwTypeOK ==
  /\ request \in [Request -> {"absent", "pending"} \cup Decision]
  /\ outbox \in [Request -> {"absent", "pending", "delivered"}]
  /\ chat \in Seq(Card) /\ Len(chat) <= CardCap
  /\ updates \in Seq(Update) /\ Len(updates) <= PressCap
  /\ confirmed \in 0..Len(updates) /\ offset \in 0..Len(updates) + 1
  /\ poller \in [Poller -> PollerState]
  /\ tried \subseteq 1..Len(updates) /\ deaths \in 0..DeathCap

GwInit ==
  /\ request = [a \in Request |-> "absent"] /\ outbox = [a \in Request |-> "absent"]
  /\ chat = <<>> /\ updates = <<>> /\ confirmed = 0 /\ offset = 0
  /\ poller = [p \in Poller |-> Fresh] /\ tried = {} /\ deaths = 0
------------------------------------------------------------------------------
At(p, pc) == poller[p].pc = pc
MoveTo(p, state) == poller' = [poller EXCEPT ![p] = state]
Larger(i, j) == IF i > j THEN i ELSE j

\* create_approval_request, and in a later transaction enqueue_notification: a
\* command that dies in between leaves a request without a card.
CreateRequest(a) ==
  /\ request[a] = "absent"
  /\ request' = [request EXCEPT ![a] = "pending"]
  /\ UNCHANGED <<outbox, chat, updates, confirmed, offset, poller, tried, deaths>>

EnqueueCard(a) ==
  /\ request[a] # "absent" /\ outbox[a] = "absent"
  /\ outbox' = [outbox EXCEPT ![a] = "pending"]
  /\ UNCHANGED <<request, chat, updates, confirmed, offset, poller, tried, deaths>>

\* hmn approval approve and reject, the API and the console.
DecideElsewhere(a) ==
  /\ request[a] = "pending"
  /\ \E v \in Decision : request' = [request EXCEPT ![a] = v]
  /\ UNCHANGED <<outbox, chat, updates, confirmed, offset, poller, tried, deaths>>

\* The operator presses a button.
Press(c, v) ==
  /\ chat[c].buttons /\ Len(updates) < PressCap
  /\ updates' = Append(updates, [card |-> c, decision |-> v])
  /\ UNCHANGED <<request, outbox, chat, confirmed, offset, poller, tried, deaths>>
------------------------------------------------------------------------------
(* poll_once *)

\* list_notifications.
List(p) ==
  /\ At(p, "list")
  /\ MoveTo(p, [poller[p] EXCEPT !.pc = "send",
                                 !.todo = {a \in Request : outbox[a] = "pending"}])
  /\ UNCHANGED <<request, outbox, chat, updates, confirmed, offset, tried, deaths>>

\* send_card returns: the card is in the chat.
SendCard(p, a) ==
  /\ At(p, "send") /\ a \in poller[p].todo /\ Len(chat) < CardCap
  /\ chat' = Append(chat, [on |-> a, buttons |-> TRUE])
  /\ MoveTo(p, [poller[p] EXCEPT !.pc = "mark", !.on = a, !.todo = @ \ {a}])
  /\ UNCHANGED <<request, outbox, updates, confirmed, offset, tried, deaths>>

\* Slip: the notification is marked delivered whether or not its card was sent.
SendFailsMarked(p, a) ==
  /\ At(p, "send") /\ a \in poller[p].todo
  /\ outbox' = [outbox EXCEPT ![a] = "delivered"]
  /\ MoveTo(p, [poller[p] EXCEPT !.todo = @ \ {a}])
  /\ UNCHANGED <<request, chat, updates, confirmed, offset, tried, deaths>>

\* Slip: a notification whose card could not be sent is given up.
SendFailsGivenUp(p, a) ==
  /\ At(p, "send") /\ a \in poller[p].todo
  /\ outbox' = [outbox EXCEPT ![a] = "failed"]
  /\ MoveTo(p, [poller[p] EXCEPT !.todo = @ \ {a}])
  /\ UNCHANGED <<request, chat, updates, confirmed, offset, tried, deaths>>

\* send_card raises, although the card may have arrived; the loop goes on.
SendFails(p, a) ==
  /\ At(p, "send") /\ a \in poller[p].todo
  /\ \/ UNCHANGED chat
     \/ Len(chat) < CardCap /\ chat' = Append(chat, [on |-> a, buttons |-> TRUE])
  /\ MoveTo(p, [poller[p] EXCEPT !.todo = @ \ {a}])
  /\ UNCHANGED <<request, outbox, updates, confirmed, offset, tried, deaths>>

\* mark_delivered, whose answer may be lost ...
Mark(p) ==
  /\ At(p, "mark")
  /\ outbox' = [outbox EXCEPT ![poller[p].on] = "delivered"]
  /\ MoveTo(p, [poller[p] EXCEPT !.pc = "send", !.on = NoRequest])
  /\ UNCHANGED <<request, chat, updates, confirmed, offset, tried, deaths>>

\* ... or the request: the card is sent again next time.
MarkFails(p) ==
  /\ At(p, "mark")
  /\ MoveTo(p, [poller[p] EXCEPT !.pc = "send", !.on = NoRequest])
  /\ UNCHANGED <<request, outbox, chat, updates, confirmed, offset, tried, deaths>>

\* The loop is through; telegram-gateway sleeps and lists again.
AllSent(p) ==
  /\ At(p, "send") /\ poller[p].todo = {}
  /\ MoveTo(p, IF p \in Sender THEN Fresh ELSE [Fresh EXCEPT !.pc = "fetch"])
  /\ UNCHANGED <<request, outbox, chat, updates, confirmed, offset, tried, deaths>>
------------------------------------------------------------------------------
(* process_telegram_callbacks *)

\* Slip: next_offset is stored as soon as the updates have been fetched.
FetchAhead(p) ==
  LET read == Larger(confirmed, IF offset = 0 THEN 0 ELSE offset - 1)
      last == Len(updates) IN
  /\ At(p, "fetch")
  /\ confirmed' = read
  /\ offset' = IF read < last THEN last + 1 ELSE offset
  /\ MoveTo(p, [poller[p] EXCEPT !.pc = "callback", !.next = read + 1, !.last = last,
                                 !.goal = IF read < last THEN last + 1 ELSE offset])
  /\ UNCHANGED <<request, outbox, chat, updates, tried, deaths>>

\* The offset file is read and sent with getUpdates, which confirms the updates
\* before it and returns those not confirmed.
Fetch(p) ==
  LET read == Larger(confirmed, IF offset = 0 THEN 0 ELSE offset - 1)
      last == Len(updates) IN
  /\ At(p, "fetch")
  /\ confirmed' = read
  /\ MoveTo(p, [poller[p] EXCEPT !.pc = "callback", !.next = read + 1, !.last = last,
                                 !.goal = IF read < last THEN last + 1 ELSE offset])
  /\ UNCHANGED <<request, outbox, chat, updates, offset, tried, deaths>>

Pressed(p) == updates[poller[p].next]
Asked(p) == chat[Pressed(p).card].on
Handling(p) == At(p, "callback") /\ poller[p].next <= poller[p].last
NextUpdate(p) == [poller[p] EXCEPT !.pc = "callback", !.next = @ + 1]

\* _gateway_callback decides a pending request.  The answer may be lost, or be
\* an error because the dispatch of the approved action failed.
CallbackDecides(p) ==
  /\ Handling(p) /\ request[Asked(p)] = "pending"
  /\ request' = [request EXCEPT ![Asked(p)] = Pressed(p).decision]
  /\ tried' = tried \cup {poller[p].next}
  /\ \E answered \in BOOLEAN :
       MoveTo(p, IF answered THEN [poller[p] EXCEPT !.pc = "clear"] ELSE NextUpdate(p))
  /\ UNCHANGED <<outbox, chat, updates, confirmed, offset, deaths>>

\* Slip: the keyboard is cleared after a failed callback too.
CallbackFailsCleared(p) ==
  /\ Handling(p)
  /\ tried' = tried \cup {poller[p].next}
  /\ MoveTo(p, [poller[p] EXCEPT !.pc = "clear"])
  /\ UNCHANGED <<request, outbox, chat, updates, confirmed, offset, deaths>>

\* The request is lost, or refused because the approval is already decided: the
\* exception is swallowed and the loop goes on with the next update.
CallbackFails(p) ==
  /\ Handling(p)
  /\ tried' = tried \cup {poller[p].next}
  /\ MoveTo(p, NextUpdate(p))
  /\ UNCHANGED <<request, outbox, chat, updates, confirmed, offset, deaths>>

\* answer_callback_query and clear_inline_keyboard; either may raise.
Clear(p) ==
  /\ At(p, "clear")
  /\ \E cleared \in BOOLEAN :
       chat' = IF cleared THEN [chat EXCEPT ![Pressed(p).card].buttons = FALSE] ELSE chat
  /\ MoveTo(p, NextUpdate(p))
  /\ UNCHANGED <<request, outbox, updates, confirmed, offset, tried, deaths>>

Handled(p) == At(p, "callback") /\ poller[p].next > poller[p].last

\* _write_approval_gateway_offset; no file is written for None.
WriteOffset(p) ==
  /\ Handled(p)
  /\ offset' = IF poller[p].goal = 0 THEN offset ELSE poller[p].goal
  /\ MoveTo(p, Fresh)
  /\ UNCHANGED <<request, outbox, chat, updates, confirmed, tried, deaths>>

\* The process dies, or list_notifications or getUpdates raises.  Death between
\* the truncation and the writing of the offset file leaves it empty.
Die(p) ==
  /\ deaths < DeathCap /\ deaths' = deaths + 1
  /\ \/ UNCHANGED offset
     \/ Handled(p) /\ poller[p].goal > 0 /\ offset' = 0
  /\ MoveTo(p, Fresh)
  /\ UNCHANGED <<request, outbox, chat, updates, confirmed, tried>>

PollerStep(p) ==
  \/ List(p) \/ Mark(p) \/ MarkFails(p) \/ AllSent(p) \/ Fetch(p)
  \/ \E a \in Request : SendCard(p, a) \/ SendFails(p, a)
  \/ CallbackDecides(p) \/ CallbackFails(p) \/ Clear(p) \/ WriteOffset(p)

GwNext ==
  \/ \E a \in Request : CreateRequest(a) \/ EnqueueCard(a) \/ DecideElsewhere(a)
  \/ \E c \in 1..Len(chat), v \in Decision : Press(c, v)
  \/ \E p \in Poller : PollerStep(p) \/ Die(p)

\* systemd restarts a gateway, which never stops polling; every call returns or
\* raises; sending and marking do not fail for ever.
GwFairness ==
  \A p \in Poller :
    /\ WF_gwVars(PollerStep(p)) /\ SF_gwVars(Mark(p))
    /\ \A a \in Request : SF_gwVars(SendCard(p, a))

GwSpec == GwInit /\ [][GwNext]_gwVars
GwFairSpec == GwSpec /\ GwFairness
------------------------------------------------------------------------------
(* Properties *)

\* However sends and marks fail, race or are cut short, a notification is marked
\* delivered only when a card for it was shown: send_card comes before
\* mark_delivered, so a request is announced at least once, perhaps twice.
DeliveredWasShown ==
  \A a \in Request : outbox[a] = "delivered" => \E c \in 1..Len(chat) : chat[c].on = a

\* The offset moves past callbacks that failed, but their cards keep their
\* buttons (only a successful callback clears them): while a shown request is
\* undecided the operator can still press.
StillDecidable ==
  \A a \in Request :
    request[a] = "pending" /\ (\E c \in 1..Len(chat) : chat[c].on = a) =>
      \E c \in 1..Len(chat) : chat[c].on = a /\ chat[c].buttons

\* No press is skipped: the offset is stored after the whole batch was handled,
\* so an update Telegram forgets, or will forget at the next fetch, has reached
\* handle_callback, with pollers overlapping and dying anywhere.
ForgottenWasTried ==
  \A u \in 1..Len(updates) : u <= confirmed \/ u < offset => u \in tried

\* A card in the outbox is delivered in the end (or the chat has reached CardCap
\* because sends kept succeeding without being marked).
OutboxDrains ==
  \A a \in Request :
    outbox[a] = "pending" ~> (outbox[a] = "delivered" \/ Len(chat) = CardCap)

\* Every press is handed to the API in the end, also when the gateway dies with
\* the update in hand.
PressesTried ==
  \A u \in 1..PressCap : Len(updates) >= u ~> u \in tried
==============================================================================
