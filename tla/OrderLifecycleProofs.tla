------------------------ MODULE OrderLifecycleProofs ------------------------
(***************************************************************************)
(* Proofs about OrderLifecycle, for any sets of orders and handlers, any   *)
(* operations and any bounds.                                              *)
(***************************************************************************)
EXTENDS OrderProperties, SequenceTheorems, FiniteSetTheorems, TLAPS

-----------------------------------------------------------------------------
(* Order values.                                                           *)

LEMMA RowFields ==
  ASSUME NEW row \in OrderRow
  PROVE  /\ row.status \in Statuses \cup {"none", "deleted"}
         /\ row.pending \in PendingReturn
         /\ row.history \in Seq(HistoryEntry)
BY DEF OrderRow

(* Appending an entry that starts at the status of a legal row gives a     *)
(* legal row again: what saveTransition does to the database.              *)
LEMMA AppendLegal ==
  ASSUME NEW row \in OrderRow, NEW e \in HistoryEntry, NEW p \in PendingReturn,
         row.status \in Statuses, LegalStory(row),
         e.from = row.status, CanTransition(e.from, e.to),
         NEW new, new = [row EXCEPT !.status = e.to, !.pending = p, !.history = Append(@, e)]
  PROVE  new \in OrderRow /\ LegalStory(new)
<1> DEFINE H == row.history
           K == Append(H, e)
<1>1. H \in Seq(HistoryEntry) /\ Len(H) \in Nat /\ H # <<>>
  BY DEF OrderRow, LegalStory
<1>2. K \in Seq(HistoryEntry) /\ Len(K) = Len(H) + 1 /\ K[Len(H) + 1] = e
  BY <1>1
<1>3. \A i \in 1..Len(H) : K[i] = H[i]
  BY <1>1
<1>4. Len(H) >= 1
  BY <1>1
<1>5. new.history = K /\ new.status = e.to /\ e.to \in Statuses
  BY DEF OrderRow, HistoryEntry
<1>6. new \in OrderRow
  BY <1>2, <1>5 DEF OrderRow
<1>7. ASSUME NEW i \in 2..Len(K)
      PROVE  K[i].from = K[i - 1].to /\ CanTransition(K[i].from, K[i].to)
  <2>1. CASE i \in 2..Len(H)
    <3>1. K[i] = H[i] /\ K[i - 1] = H[i - 1]
      BY <1>1, <1>3, <2>1
    <3> QED  BY <2>1, <3>1 DEF LegalStory
  <2>2. CASE i = Len(H) + 1
    <3>1. K[i - 1] = H[Len(H)]
      BY <1>1, <1>3, <1>4, <2>2
    <3> QED  BY <1>2, <2>2, <3>1 DEF LegalStory, LastEntry
  <2> QED  BY <1>1, <1>2, <2>1, <2>2
<1>8. K # <<>> /\ K[1] = H[1] /\ K[Len(K)] = e
  BY <1>1, <1>2, <1>3, <1>4
<1> QED  BY <1>5, <1>6, <1>7, <1>8 DEF LegalStory, LastEntry

(* A new order tells a legal story of one entry.                           *)
LEMMA NewOrderLegal ==
  ASSUME NEW status \in {"DRAFT", "CREATED"}, NEW cash \in BOOLEAN, NEW op \in Operations
  PROVE  /\ NewOrder(status, cash, op) \in OrderRow
         /\ NewOrder(status, cash, op).status = status
         /\ OrderLegal(NewOrder(status, cash, op))
<1> DEFINE e == [from |-> "none", to |-> status, by |-> op]
           row == NewOrder(status, cash, op)
<1>1. e \in HistoryEntry /\ NoPendingReturn \in PendingReturn
  BY DEF HistoryEntry, Statuses, PendingReturn, NoPendingReturn
<1>2. EmptyRow(status) \in OrderRow /\ <<e>> \in Seq(HistoryEntry)
  BY <1>1 DEF EmptyRow, OrderRow, Statuses
<1>4. row.status = status /\ row.history = <<e>> /\ row.pending = NoPendingReturn
  BY DEF NewOrder, EmptyRow
<1>5. row = [EmptyRow(status) EXCEPT !.cash = cash, !.history = <<e>>]
  BY DEF NewOrder
<1> HIDE DEF row, e
<1>6. row \in OrderRow
  BY <1>2, <1>5 DEF OrderRow
<1>3. LegalStory(row)
  BY <1>4 DEF LegalStory, LastEntry, e
<1> QED  BY <1>3, <1>4, <1>6 DEF OrderLegal, NoPendingReturn, RestorableStatuses, row

(* transitionOrder appends the entry that leads to the new status.         *)
LEMMA TransitionOrderCarries ==
  ASSUME NEW row \in OrderRow, row.status \in Statuses,
         NEW to, CanTransition(row.status, to), NEW op \in Operations,
         NEW new, new = TransitionOrder(row, to, op)
  PROVE  /\ new \in OrderRow
         /\ new.status = to /\ to \in Statuses
         /\ new.pending = row.pending
         /\ new.history # <<>>
         /\ LastEntry(new).from = row.status /\ LastEntry(new).to = to
<1> DEFINE e == [from |-> row.status, to |-> to, by |-> op]
<1>1. to \in Statuses
  BY DEF CanTransition, ORDER_TRANSITIONS, Statuses
<1>2. e \in HistoryEntry
  BY <1>1 DEF HistoryEntry
<1>3. row.history \in Seq(HistoryEntry)
  BY DEF OrderRow
<1>4. new.history = Append(row.history, e) /\ new.status = to /\ new.pending = row.pending
  BY DEF TransitionOrder, OrderRow
<1>5. new \in OrderRow
  <2>1. Append(row.history, e) \in Seq(HistoryEntry)
    BY <1>2, <1>3
  <2>2. new = [row EXCEPT !.status = to, !.history = Append(row.history, e)]
    BY DEF TransitionOrder, OrderRow
  <2> HIDE DEF e
  <2> QED  BY <1>1, <2>1, <2>2 DEF OrderRow
<1>6. new.history # <<>> /\ new.history[Len(new.history)] = e
  BY <1>2, <1>3, <1>4
<1> QED  BY <1>1, <1>4, <1>5, <1>6 DEF LastEntry

-----------------------------------------------------------------------------
(* Calls.                                                                  *)

LEMMA CallFields ==
  ASSUME NEW c \in Call
  PROVE  /\ c.op \in Operations /\ c.pc \in Points /\ c.order \in Orders
         /\ c.row \in OrderRow /\ c.expected \in Statuses \cup {"none"}
         /\ c.policy \in RefundPolicies /\ c.refund \in Refund /\ c.chat \in FoundChat
BY DEF Call

LEMMA IdleCallLegal ==
  CallLegal(IdleCall)
BY DEF CallLegal, IdleCall, NoOrder, EmptyRow, NoPendingReturn, RestorableStatuses

(* A call that writes no transition.                                       *)
LEMMA NewCallLegal ==
  ASSUME NEW op \in Operations, NEW o \in Orders, NEW row \in OrderRow,
         NEW pc \in Points \ {"saveTransition", "publishStatusChanged"},
         row.pending.from \in RestorableStatuses,
         pc = "saveOrder" => row.status \in Statuses /\ LegalStory(row),
         NEW c, c = NewCall(op, pc, o, row)
  PROVE  /\ c \in Call /\ CallLegal(c)
         /\ c.expected = "none" /\ c.op = op /\ c.row = row
<1>1. NoRefund \in Refund /\ NoChat \in FoundChat
  BY DEF NoRefund, Refund, NoChat, FoundChat
<1>2. c \in Call
  BY <1>1 DEF NewCall, Call, RefundPolicies
<1>3. c.expected = "none" /\ c.row = row /\ c.pc = pc /\ c.op = op
  BY DEF NewCall
<1> QED  BY <1>2, <1>3 DEF CallLegal

(* A call on its way to saveTransition.                                    *)
LEMMA TransitioningLegal ==
  ASSUME NEW op \in Operations, NEW o \in Orders, NEW row \in OrderRow,
         NEW pc \in Points \ {"saveOrder"}, NEW to,
         row.status \in Statuses, CanTransition(row.status, to),
         row.pending.from \in RestorableStatuses,
         NEW c, c = Transitioning(op, pc, o, row, to)
  PROVE  c \in Call /\ CallLegal(c)
<1> DEFINE new == TransitionOrder(row, to, op)
<1>1. /\ new \in OrderRow /\ new.status = to /\ to \in Statuses /\ new.pending = row.pending
      /\ new.history # <<>>
      /\ LastEntry(new).from = row.status /\ LastEntry(new).to = to
  BY TransitionOrderCarries
<1>2. NoRefund \in Refund /\ NoChat \in FoundChat
  BY DEF NoRefund, Refund, NoChat, FoundChat
<1>3. c = [NewCall(op, pc, o, new) EXCEPT !.expected = row.status]
  BY DEF Transitioning
<1> HIDE DEF new
<1>4. NewCall(op, pc, o, new) \in Call
  BY <1>1, <1>2 DEF NewCall, Call, RefundPolicies
<1>5. c \in Call
  BY <1>3, <1>4 DEF Call
<1>6. c.expected = row.status /\ c.row = new /\ c.pc = pc
  BY <1>3 DEF NewCall
<1>7. CarriesTransition(c)
  BY <1>1, <1>6 DEF CarriesTransition
<1>8. row.status # "none"
  BY DEF Statuses
<1> QED  BY <1>1, <1>5, <1>6, <1>7, <1>8 DEF CallLegal

(* A call keeps being legal when it learns a policy, a refund or a chat,   *)
(* and when it moves on to a point that asks for nothing new.              *)
LEMMA CallEdits ==
  ASSUME NEW c \in Call, CallLegal(c)
  PROVE  /\ \A p \in RefundPolicies :
              [c EXCEPT !.policy = p] \in Call /\ CallLegal([c EXCEPT !.policy = p])
         /\ \A r \in Refund :
              [c EXCEPT !.refund = r] \in Call /\ CallLegal([c EXCEPT !.refund = r])
         /\ \A f \in FoundChat :
              [c EXCEPT !.chat = f] \in Call /\ CallLegal([c EXCEPT !.chat = f])
         /\ \A pc \in Points \ {"saveOrder"} :
              (pc \in {"saveTransition", "publishStatusChanged"} => c.expected # "none")
              => [c EXCEPT !.pc = pc] \in Call /\ CallLegal([c EXCEPT !.pc = pc])
<1>1. ASSUME NEW d \in Call, d.row = c.row, d.expected = c.expected,
             d.pc \in {"saveTransition", "publishStatusChanged"} => c.expected # "none",
             d.pc = "saveOrder" => c.pc = "saveOrder"
      PROVE  CallLegal(d)
  BY <1>1 DEF CallLegal, CarriesTransition
<1>2. ASSUME NEW p \in RefundPolicies
      PROVE  [c EXCEPT !.policy = p] \in Call /\ CallLegal([c EXCEPT !.policy = p])
  <2>1. [c EXCEPT !.policy = p] \in Call
    BY DEF Call
  <2> QED  BY <1>1, <2>1 DEF Call, CallLegal
<1>3. ASSUME NEW r \in Refund
      PROVE  [c EXCEPT !.refund = r] \in Call /\ CallLegal([c EXCEPT !.refund = r])
  <2>1. [c EXCEPT !.refund = r] \in Call
    BY DEF Call
  <2> QED  BY <1>1, <2>1 DEF Call, CallLegal
<1>4. ASSUME NEW f \in FoundChat
      PROVE  [c EXCEPT !.chat = f] \in Call /\ CallLegal([c EXCEPT !.chat = f])
  <2>1. [c EXCEPT !.chat = f] \in Call
    BY DEF Call
  <2> QED  BY <1>1, <2>1 DEF Call, CallLegal
<1>5. ASSUME NEW pc \in Points \ {"saveOrder"},
             pc \in {"saveTransition", "publishStatusChanged"} => c.expected # "none"
      PROVE  [c EXCEPT !.pc = pc] \in Call /\ CallLegal([c EXCEPT !.pc = pc])
  <2>1. [c EXCEPT !.pc = pc] \in Call
    BY DEF Call
  <2>2. [c EXCEPT !.pc = pc].pc = pc
    BY DEF Call
  <2> QED  BY <1>1, <1>5, <2>1, <2>2 DEF Call
<1> QED  BY <1>2, <1>3, <1>4, <1>5

\* No conversation disappears in this step.
ChatsKept == \A o \in Orders : DOMAIN chats[o] \subseteq DOMAIN chats'[o]

LEMMA SameChats ==
  ASSUME UNCHANGED chats
  PROVE  ChatsKept
BY DEF ChatsKept

(* What the three ways of writing `calls` preserve.                        *)
LEMMA SetCall ==
  ASSUME CallsOK, ChatsKept, NEW h \in Handlers, NEW c \in Call \cup {IdleCall},
         CallLegal(c), ChatInHand(c), calls' = [calls EXCEPT ![h] = c]
  PROVE  CallsOK'
<1>1. calls' \in [Handlers -> Call \cup {IdleCall}]
  BY DEF CallsOK
<1>2. ASSUME NEW k \in Handlers
      PROVE  /\ CallLegal(calls'[k])
             /\ calls'[k].pc \in ChatPoints =>
                  calls'[k].chat.at \in DOMAIN chats'[calls'[k].order]
  <2> DEFINE d == IF k = h THEN c ELSE calls[k]
  <2>1. calls'[k] = d
    BY DEF CallsOK
  <2>2. d \in Call \cup {IdleCall} /\ CallLegal(d) /\ ChatInHand(d)
    BY DEF CallsOK
  <2> HIDE DEF d
  <2>3. d.pc \in ChatPoints => d.order \in Orders
    BY <2>2 DEF Call, IdleCall, ChatPoints
  <2>4. d.pc \in ChatPoints => d.chat.at \in DOMAIN chats'[d.order]
    BY <2>2, <2>3 DEF ChatInHand, ChatsKept
  <2> QED  BY <2>1, <2>2, <2>4
<1>3. \A k \in Handlers : CallLegal(calls'[k])
  BY <1>2
<1>4. \A k \in Handlers : calls'[k].pc \in ChatPoints =>
                            calls'[k].chat.at \in DOMAIN chats'[calls'[k].order]
  BY <1>2
<1> QED  BY <1>1, <1>3, <1>4 DEF CallsOK, CallLegal, CarriesTransition, ChatInHand

LEMMA BeginOK ==
  ASSUME CallsOK, ChatsKept, NEW h \in Handlers, NEW c \in Call, CallLegal(c),
         c.pc \notin ChatPoints, Begin(h, c)
  PROVE  CallsOK'
BY SetCall DEF Begin, ChatInHand

LEMMA FinishOK ==
  ASSUME CallsOK, ChatsKept, NEW h \in Handlers, Finish(h)
  PROVE  CallsOK'
<1>1. ChatInHand(IdleCall)
  BY DEF ChatInHand, IdleCall, ChatPoints
<1> QED  BY <1>1, SetCall, IdleCallLegal DEF Finish

LEMMA ContinueOK ==
  ASSUME CallsOK, ChatsKept, NEW h \in Handlers, NEW c \in Call, CallLegal(c),
         NEW pc \in Points \cup {"idle"}, pc # "saveOrder",
         pc \in {"saveTransition", "publishStatusChanged"} => c.expected # "none",
         pc \in ChatPoints => c.chat.at \in DOMAIN chats[c.order],
         Continue(h, c, pc)
  PROVE  CallsOK'
<1>1. CASE pc = "idle"
  BY <1>1, FinishOK DEF Continue, Finish
<1>2. CASE pc # "idle"
  <2>1. [c EXCEPT !.pc = pc] \in Call /\ CallLegal([c EXCEPT !.pc = pc])
    BY <1>2, CallEdits
  <2>2. ChatInHand([c EXCEPT !.pc = pc])
    BY DEF ChatInHand, Call
  <2> QED  BY <1>2, <2>1, <2>2, SetCall DEF Continue
<1> QED  BY <1>1, <1>2

(* A call that stands at a point is in progress, and fit for that point.   *)
LEMMA AtPoint ==
  ASSUME CallsOK, NEW h \in Handlers, calls[h].pc \in Points
  PROVE  calls[h] \in Call /\ CallLegal(calls[h]) /\ ChatInHand(calls[h])
BY DEF CallsOK, IdleCall, Points

(* Where finalize and its callers go on.                                   *)
LEMMA NextPoints ==
  ASSUME NEW c
  PROVE  /\ AfterFinalize(c) \in {"confirmIfPaid", "findChatForCard", "publishReturnConfirmed",
                                  "findChatToResolve", "idle"}
         /\ AfterClose(c) \in {"publishCancelled", AfterFinalize(c)}
         /\ AfterStatusChanged(c) \in {"publishConfirmed", "publishReady", "findChatToClose",
                                       AfterClose(c)}
BY DEF AfterFinalize, AfterClose, AfterStatusChanged

\* The points that ask nothing of the call that reaches them.
LaterPoints ==
  {"confirmIfPaid", "findChatForCard", "publishReturnConfirmed", "findChatToResolve", "idle",
   "publishCancelled", "publishConfirmed", "publishReady", "findChatToClose", "findChat",
   "createChat", "findChatToReopen", "publishReturnRequested", "publishCartItems",
   "publishCreated"}

LEMMA LaterPointsFacts ==
  /\ \A c : {AfterFinalize(c), AfterClose(c), AfterStatusChanged(c)} \subseteq LaterPoints
  /\ LaterPoints \subseteq Points \cup {"idle"}
  /\ LaterPoints \cap (ChatPoints \cup {"saveOrder", "saveTransition", "publishStatusChanged"}) = {}
<1>1. ASSUME NEW c
      PROVE  {AfterFinalize(c), AfterClose(c), AfterStatusChanged(c)} \subseteq LaterPoints
  BY NextPoints DEF LaterPoints
<1>2. LaterPoints \subseteq Points \cup {"idle"}
  BY DEF LaterPoints, Points
<1>3. LaterPoints \cap (ChatPoints \cup {"saveOrder", "saveTransition", "publishStatusChanged"}) = {}
  BY DEF LaterPoints, ChatPoints
<1> QED  BY <1>1, <1>2, <1>3

LEMMA ContinueLater ==
  ASSUME CallsOK, ChatsKept, NEW h \in Handlers, NEW c \in Call, CallLegal(c),
         NEW pc \in LaterPoints, Continue(h, c, pc)
  PROVE  CallsOK'
<1>1. pc \in Points \cup {"idle"} /\ pc \notin ChatPoints
      /\ pc \notin {"saveOrder", "saveTransition", "publishStatusChanged"}
  BY LaterPointsFacts
<1> QED  BY <1>1, ContinueOK

-----------------------------------------------------------------------------
(* The other variables.                                                    *)

LEMMA SetRow ==
  ASSUME RowsOK, NEW o \in Orders, NEW row \in OrderRow, OrderLegal(row),
         orders' = [orders EXCEPT ![o] = row]
  PROVE  RowsOK'
BY DEF RowsOK

LEMMA RowAt ==
  ASSUME RowsOK, NEW o \in Orders
  PROVE  /\ orders[o] \in OrderRow /\ orders[o].pending.from \in RestorableStatuses
         /\ orders[o].status \in Statuses => LegalStory(orders[o])
BY DEF RowsOK, OrderLegal

LEMMA PublishOK ==
  ASSUME OutboxOK, NEW o \in Orders, NEW event \in Event, Publish(o, event)
  PROVE  OutboxOK'
<1>1. Append(outbox[o], event) \in Seq(Event)
  BY DEF OutboxOK
<1> QED  BY <1>1 DEF OutboxOK, Publish

LEMMA AppendChat ==
  ASSUME ChatsOK, NEW o \in Orders, NEW chat \in Conversation,
         chats' = [chats EXCEPT ![o] = Append(@, chat)]
  PROVE  ChatsOK' /\ ChatsKept
<1>1. chats[o] \in Seq(Conversation) /\ Append(chats[o], chat) \in Seq(Conversation)
  BY DEF ChatsOK
<1>2. DOMAIN chats[o] \subseteq DOMAIN Append(chats[o], chat)
  BY <1>1
<1> QED  BY <1>1, <1>2 DEF ChatsOK, ChatsKept

(* Updating one element of a sequence, or none when the index is outside.  *)
LEMMA UpdateSeq ==
  ASSUME NEW S, NEW seq \in Seq(S), NEW i, NEW e, i \in DOMAIN seq => e \in S
  PROVE  [seq EXCEPT ![i] = e] \in Seq(S)
<1>1. CASE i \in DOMAIN seq
  BY <1>1, ExceptSeq
<1>2. CASE i \notin DOMAIN seq
  <2>1. [seq EXCEPT ![i] = e] = [j \in DOMAIN seq |-> seq[j]]
    BY <1>2
  <2>2. seq = [j \in DOMAIN seq |-> seq[j]]
    OBVIOUS
  <2> QED  BY <2>1, <2>2
<1> QED  BY <1>1, <1>2

LEMMA SetChatStatus ==
  ASSUME ChatsOK, NEW o \in Orders, NEW i, NEW status \in {"active", "closed"},
         chats' = [chats EXCEPT ![o][i].status = status]
  PROVE  ChatsOK' /\ ChatsKept
<1> DEFINE chat == [chats[o][i] EXCEPT !.status = status]
<1>1. chats[o] \in Seq(Conversation)
  BY DEF ChatsOK
<1>2. i \in DOMAIN chats[o] => chat \in Conversation
  <2>1. i \in DOMAIN chats[o] => chats[o][i] \in Conversation
    BY <1>1, LenProperties, ElementOfSeq
  <2> QED  BY <2>1 DEF Conversation
<1>3. chats' = [chats EXCEPT ![o] = [chats[o] EXCEPT ![i] = chat]]
  BY DEF ChatsOK
<1> HIDE DEF chat
<1>4. [chats[o] EXCEPT ![i] = chat] \in Seq(Conversation)
  BY <1>1, <1>2, UpdateSeq
<1> QED  BY <1>3, <1>4 DEF ChatsOK, ChatsKept

LEMMA SetCards ==
  ASSUME ChatsOK, NEW o \in Orders, NEW i, NEW cards,
         i \in DOMAIN chats[o] => cards \in Seq(CardKinds),
         chats' = [chats EXCEPT ![o][i].cards = cards]
  PROVE  ChatsOK' /\ ChatsKept
<1> DEFINE chat == [chats[o][i] EXCEPT !.cards = cards]
<1>1. chats[o] \in Seq(Conversation)
  BY DEF ChatsOK
<1>2. i \in DOMAIN chats[o] => chat \in Conversation
  <2>1. i \in DOMAIN chats[o] => chats[o][i] \in Conversation
    BY <1>1, LenProperties, ElementOfSeq
  <2> QED  BY <2>1 DEF Conversation
<1>3. chats' = [chats EXCEPT ![o] = [chats[o] EXCEPT ![i] = chat]]
  BY DEF ChatsOK
<1> HIDE DEF chat
<1>4. [chats[o] EXCEPT ![i] = chat] \in Seq(Conversation)
  BY <1>1, <1>2, UpdateSeq
<1> QED  BY <1>3, <1>4 DEF ChatsOK, ChatsKept

-----------------------------------------------------------------------------
(* The steps of finalize.                                                  *)

LEMMA SaveTransitionOK ==
  ASSUME InductiveInvariant, NEW h \in Handlers, SaveTransition(h)
  PROVE  InductiveInvariant'
<1> DEFINE c == calls[h]
           o == c.order
           e == LastEntry(c.row)
           row == [orders[o] EXCEPT !.status = e.to, !.pending = c.row.pending,
                                    !.history = Append(@, e)]
<1> USE DEF InductiveInvariant
<1>1. c \in Call /\ CallLegal(c) /\ c.expected # "none"
  <2>1. c.pc = "saveTransition"
    BY DEF SaveTransition, At
  <2>2. c \in Call /\ CallLegal(c)
    BY <2>1, AtPoint DEF Points
  <2> QED  BY <2>1, <2>2 DEF CallLegal
<1>2. CarriesTransition(c) /\ c.row.pending.from \in RestorableStatuses
  BY <1>1 DEF CallLegal
<1>3. /\ o \in Orders /\ c.row \in OrderRow /\ c.expected \in Statuses
      /\ c.row.pending \in PendingReturn
  BY <1>1, CallFields, RowFields
<1>4. e \in HistoryEntry /\ e.from = c.expected /\ e.to = c.row.status
      /\ CanTransition(e.from, e.to)
  <2>1. c.row.history \in Seq(HistoryEntry) /\ c.row.history # <<>>
    BY <1>2, <1>3, RowFields DEF CarriesTransition
  <2>2. e \in HistoryEntry
    BY <2>1 DEF LastEntry
  <2> QED  BY <1>2, <2>2 DEF CarriesTransition
<1>5. orders[o] \in OrderRow /\ orders[o].status = c.expected /\ LegalStory(orders[o])
  BY <1>3, RowAt DEF SaveTransition
<1>6. row \in OrderRow /\ LegalStory(row)
  BY <1>3, <1>4, <1>5, AppendLegal
<1>7. OrderLegal(row)
  <2>1. row.pending = c.row.pending
    BY <1>5 DEF OrderRow
  <2> QED  BY <1>2, <1>6, <2>1 DEF OrderLegal
<1>8. orders' = [orders EXCEPT ![o] = row]
  BY <1>3, <1>4 DEF SaveTransition, RowsOK
<1>9. RowsOK'
  BY <1>3, <1>6, <1>7, <1>8, SetRow
<1>10. CallsOK'
  <2>1. Continue(h, c, "publishStatusChanged") /\ ChatsKept
    BY SameChats DEF SaveTransition
  <2> QED  BY <1>1, <2>1, ContinueOK DEF Points, ChatPoints
<1> QED  BY <1>9, <1>10 DEF SaveTransition, ChatsOK, OutboxOK, CountersOK

LEMMA TransitionConflictOK ==
  ASSUME InductiveInvariant, NEW h \in Handlers, TransitionConflict(h)
  PROVE  InductiveInvariant'
BY FinishOK, SameChats DEF TransitionConflict, InductiveInvariant, RowsOK, ChatsOK, OutboxOK, CountersOK

(* A step that publishes one event and goes on.                            *)
LEMMA PublishStepOK ==
  ASSUME InductiveInvariant, NEW h \in Handlers, calls[h].pc \in Points,
         NEW event \in Event, Publish(calls[h].order, event),
         NEW pc \in LaterPoints, Continue(h, calls[h], pc),
         UNCHANGED <<orders, chats, answers, aborts, removed>>
  PROVE  InductiveInvariant'
<1> USE DEF InductiveInvariant
<1>1. calls[h] \in Call /\ CallLegal(calls[h]) /\ calls[h].order \in Orders
  BY AtPoint, CallFields
<1>2. CallsOK' /\ OutboxOK'
  BY <1>1, ContinueLater, PublishOK, SameChats
<1> QED  BY <1>2 DEF RowsOK, ChatsOK, CountersOK

LEMMA PublishStatusChangedOK ==
  ASSUME InductiveInvariant, NEW h \in Handlers, PublishStatusChanged(h)
  PROVE  InductiveInvariant'
<1> DEFINE c == calls[h]
           event == [key |-> "order.order.status_changed", status |-> c.row.status]
<1>1. c.pc = "publishStatusChanged"
  BY DEF PublishStatusChanged, At
<1>2. CallLegal(c) /\ c.pc \in Points
  BY <1>1, AtPoint DEF InductiveInvariant, Points
<1>3. event \in Event
  BY <1>1, <1>2 DEF CallLegal, CarriesTransition, Event
<1>4. AfterStatusChanged(c) \in LaterPoints
  BY LaterPointsFacts
<1> QED  BY <1>2, <1>3, <1>4, PublishStepOK DEF PublishStatusChanged

LEMMA PublishConfirmedOK ==
  ASSUME InductiveInvariant, NEW h \in Handlers, PublishConfirmed(h)
  PROVE  InductiveInvariant'
<1>1. [key |-> "order.order.confirmed"] \in Event
  BY DEF Event
<1>2. calls[h].pc \in Points /\ "findChat" \in LaterPoints
  BY DEF PublishConfirmed, At, Points, LaterPoints
<1> QED  BY <1>1, <1>2, PublishStepOK DEF PublishConfirmed

LEMMA PublishReadyOK ==
  ASSUME InductiveInvariant, NEW h \in Handlers, PublishReady(h)
  PROVE  InductiveInvariant'
<1>1. [key |-> "order.order.ready_for_pickup"] \in Event
  BY DEF Event
<1>2. calls[h].pc \in Points /\ AfterFinalize(calls[h]) \in LaterPoints
  BY LaterPointsFacts DEF PublishReady, At, Points
<1> QED  BY <1>1, <1>2, PublishStepOK DEF PublishReady

LEMMA PublishCancelledOK ==
  ASSUME InductiveInvariant, NEW h \in Handlers, PublishCancelled(h)
  PROVE  InductiveInvariant'
<1> DEFINE c == calls[h]
           event == [key |-> "order.order.cancelled", wasSold |-> c.expected \in CONFIRMED_OR_LATER,
                     refundPolicy |-> c.policy]
<1>1. c.pc \in Points /\ AfterFinalize(c) \in LaterPoints
  BY LaterPointsFacts DEF PublishCancelled, At, Points
<1>2. c.policy \in RefundPolicies
  BY <1>1, AtPoint, CallFields DEF InductiveInvariant
<1>3. event \in Event
  BY <1>2 DEF Event
<1> QED  BY <1>1, <1>3, PublishStepOK DEF PublishCancelled

-----------------------------------------------------------------------------
(* The steps on the conversation.                                          *)

(* A step that only moves the call, or ends it.                            *)
LEMMA MoveOK ==
  ASSUME InductiveInvariant, CallsOK', UNCHANGED <<orders, chats, outbox, answers, aborts, removed>>
  PROVE  InductiveInvariant'
BY DEF InductiveInvariant, RowsOK, ChatsOK, OutboxOK, CountersOK

(* A step that takes hold of a conversation it found.                      *)
LEMMA LookUpOK ==
  ASSUME InductiveInvariant, UNCHANGED chats, NEW h \in Handlers, calls[h].pc \in Points,
         NEW chat \in FoundChat, chat.at \in DOMAIN chats[calls[h].order],
         NEW pc \in ChatPoints, Continue(h, [calls[h] EXCEPT !.chat = chat], pc)
  PROVE  CallsOK'
<1>1. CallsOK /\ ChatsKept
  BY SameChats DEF InductiveInvariant
<1>2. calls[h] \in Call /\ CallLegal(calls[h])
  BY <1>1, AtPoint
<1> DEFINE d == [calls[h] EXCEPT !.chat = chat]
<1>3. d \in Call /\ CallLegal(d) /\ d.chat.at \in DOMAIN chats[d.order]
  BY <1>2, CallEdits DEF Call
<1>4. pc \in Points /\ pc \notin {"saveOrder", "saveTransition", "publishStatusChanged"}
  BY DEF ChatPoints, Points
<1> HIDE DEF d
<1> QED  BY <1>1, <1>3, <1>4, ContinueOK DEF d

LEMMA ChatFound ==
  ASSUME ChatsOK, NEW o \in Orders, NEW i \in DOMAIN chats[o]
  PROVE  [at |-> i, status |-> chats[o][i].status, card |-> 0] \in FoundChat
<1>1. chats[o] \in Seq(Conversation)
  BY DEF ChatsOK
<1>2. i \in Nat /\ chats[o][i] \in Conversation
  BY <1>1, LenProperties, ElementOfSeq
<1> QED  BY <1>2 DEF Conversation, FoundChat

LEMMA FindConversationOK ==
  ASSUME InductiveInvariant, NEW h \in Handlers, FindConversation(h)
  PROVE  InductiveInvariant'
<1>1. calls[h].pc \in Points /\ AfterFinalize(calls[h]) \in LaterPoints /\ "createChat" \in LaterPoints
  BY LaterPointsFacts DEF FindConversation, At, Points, LaterPoints
<1>2. CallsOK'
  BY <1>1, AtPoint, ContinueLater, SameChats DEF InductiveInvariant, FindConversation
<1> QED  BY <1>2, MoveOK DEF FindConversation

LEMMA CreateConversationOK ==
  ASSUME InductiveInvariant, NEW h \in Handlers, CreateConversation(h)
  PROVE  InductiveInvariant'
<1> USE DEF InductiveInvariant
<1>1. calls[h].pc \in Points /\ AfterFinalize(calls[h]) \in LaterPoints
  BY LaterPointsFacts DEF CreateConversation, At, Points
<1>2. calls[h] \in Call /\ CallLegal(calls[h]) /\ calls[h].order \in Orders
  BY <1>1, AtPoint, CallFields
<1>3. [status |-> "active", cards |-> <<>>] \in Conversation
  BY DEF Conversation
<1>4. ChatsOK' /\ ChatsKept
  BY <1>2, <1>3, AppendChat DEF CreateConversation
<1>5. CallsOK'
  BY <1>1, <1>2, <1>4, ContinueLater DEF CreateConversation
<1> QED  BY <1>4, <1>5 DEF CreateConversation, RowsOK, OutboxOK, CountersOK

LEMMA FindConversationToCloseOK ==
  ASSUME InductiveInvariant, NEW h \in Handlers, FindConversationToClose(h)
  PROVE  InductiveInvariant'
<1> DEFINE c == calls[h]
           chat(i) == [at |-> i, status |-> chats[c.order][i].status, card |-> 0]
<1>1. c.pc \in Points /\ AfterClose(c) \in LaterPoints /\ "closeChat" \in ChatPoints
  BY LaterPointsFacts DEF FindConversationToClose, At, Points, ChatPoints
<1>2. CallsOK /\ ChatsOK /\ c \in Call /\ CallLegal(c) /\ c.order \in Orders
  BY <1>1, AtPoint, CallFields DEF InductiveInvariant
<1>3. CASE Continue(h, c, AfterClose(c))
  <2>1. CallsOK'
    BY <1>1, <1>2, <1>3, ContinueLater, SameChats DEF FindConversationToClose
  <2> QED  BY <2>1, MoveOK DEF FindConversationToClose
<1>4. ASSUME NEW i \in DOMAIN chats[c.order],
             Continue(h, [c EXCEPT !.chat = chat(i)], "closeChat")
      PROVE  InductiveInvariant'
  <2>1. CallsOK'
    BY <1>1, <1>2, <1>4, ChatFound, LookUpOK DEF FindConversationToClose
  <2> QED  BY <2>1, MoveOK DEF FindConversationToClose
<1> QED  BY <1>3, <1>4 DEF FindConversationToClose

LEMMA CloseConversationOK ==
  ASSUME InductiveInvariant, NEW h \in Handlers, CloseConversation(h)
  PROVE  InductiveInvariant'
<1> USE DEF InductiveInvariant
<1>1. calls[h].pc \in Points /\ AfterClose(calls[h]) \in LaterPoints
  BY LaterPointsFacts DEF CloseConversation, At, Points
<1>2. calls[h] \in Call /\ CallLegal(calls[h]) /\ calls[h].order \in Orders
  BY <1>1, AtPoint, CallFields
<1>3. ChatsOK' /\ ChatsKept
  BY <1>2, SetChatStatus DEF CloseConversation
<1>4. CallsOK'
  BY <1>1, <1>2, <1>3, ContinueLater DEF CloseConversation
<1> QED  BY <1>3, <1>4 DEF CloseConversation, RowsOK, OutboxOK, CountersOK

LEMMA FindConversationToReopenOK ==
  ASSUME InductiveInvariant, NEW h \in Handlers, FindConversationToReopen(h)
  PROVE  InductiveInvariant'
<1> DEFINE c == calls[h]
           chat(i) == [at |-> i, status |-> chats[c.order][i].status, card |-> 0]
<1>1. c.pc \in Points /\ "publishReturnRequested" \in LaterPoints /\ "reopenChat" \in ChatPoints
  BY DEF FindConversationToReopen, At, Points, LaterPoints, ChatPoints
<1>2. CallsOK /\ ChatsOK /\ c \in Call /\ CallLegal(c) /\ c.order \in Orders
  BY <1>1, AtPoint, CallFields DEF InductiveInvariant
<1>3. CASE Continue(h, c, "publishReturnRequested")
  <2>1. CallsOK'
    BY <1>1, <1>2, <1>3, ContinueLater, SameChats DEF FindConversationToReopen
  <2> QED  BY <2>1, MoveOK DEF FindConversationToReopen
<1>4. ASSUME NEW i \in DOMAIN chats[c.order],
             Continue(h, [c EXCEPT !.chat = chat(i)], "reopenChat")
      PROVE  InductiveInvariant'
  <2>1. CallsOK'
    BY <1>1, <1>2, <1>4, ChatFound, LookUpOK DEF FindConversationToReopen
  <2> QED  BY <2>1, MoveOK DEF FindConversationToReopen
<1> QED  BY <1>3, <1>4 DEF FindConversationToReopen

LEMMA ReopenConversationOK ==
  ASSUME InductiveInvariant, NEW h \in Handlers, ReopenConversation(h)
  PROVE  InductiveInvariant'
<1> USE DEF InductiveInvariant
<1>1. calls[h].pc \in Points /\ "publishReturnRequested" \in LaterPoints
  BY DEF ReopenConversation, At, Points, LaterPoints
<1>2. calls[h] \in Call /\ CallLegal(calls[h]) /\ calls[h].order \in Orders
  BY <1>1, AtPoint, CallFields
<1>3. ChatsOK' /\ ChatsKept
  BY <1>2, SetChatStatus DEF ReopenConversation
<1>4. CallsOK'
  BY <1>1, <1>2, <1>3, ContinueLater DEF ReopenConversation
<1> QED  BY <1>3, <1>4 DEF ReopenConversation, RowsOK, OutboxOK, CountersOK

LEMMA FindConversationForCardOK ==
  ASSUME InductiveInvariant, NEW h \in Handlers, FindConversationForCard(h)
  PROVE  InductiveInvariant'
<1> DEFINE c == calls[h]
           next == IF At(h, "findChatForCard") THEN "saveCard" ELSE "readCards"
           chat(i) == [at |-> i, status |-> chats[c.order][i].status, card |-> 0]
<1>1. c.pc \in Points /\ next \in ChatPoints
  BY DEF FindConversationForCard, At, Points, ChatPoints
<1>2. CallsOK /\ ChatsOK /\ c \in Call /\ CallLegal(c) /\ c.order \in Orders
  BY <1>1, AtPoint, CallFields DEF InductiveInvariant
<1>3. CASE Finish(h)
  <2>1. CallsOK'
    BY <1>2, <1>3, FinishOK, SameChats DEF FindConversationForCard
  <2> QED  BY <2>1, MoveOK DEF FindConversationForCard
<1>4. ASSUME NEW i \in DOMAIN chats[c.order], Continue(h, [c EXCEPT !.chat = chat(i)], next)
      PROVE  InductiveInvariant'
  <2>1. CallsOK'
    BY <1>1, <1>2, <1>4, ChatFound, LookUpOK DEF FindConversationForCard
  <2> QED  BY <2>1, MoveOK DEF FindConversationForCard
<1> QED  BY <1>3, <1>4 DEF FindConversationForCard

LEMMA ReadCardsOK ==
  ASSUME InductiveInvariant, NEW h \in Handlers, ReadCards(h)
  PROVE  InductiveInvariant'
<1> DEFINE c == calls[h]
           last == Len(chats[c.order][c.chat.at].cards)
           chat == [c.chat EXCEPT !.card = last]
<1>1. c.pc \in Points /\ "saveCard" \in ChatPoints
  BY DEF ReadCards, At, Points, ChatPoints
<1>2. CallsOK /\ ChatsOK /\ c \in Call /\ CallLegal(c) /\ c.order \in Orders /\ c.chat \in FoundChat
      /\ ChatInHand(c)
  BY <1>1, AtPoint, CallFields DEF InductiveInvariant
<1>3. c.chat.at \in DOMAIN chats[c.order]
  BY <1>2 DEF ReadCards, At, ChatInHand, ChatPoints
<1>4. last \in Nat
  <2>1. chats[c.order][c.chat.at] \in Conversation
    BY <1>2, <1>3, LenProperties, ElementOfSeq DEF ChatsOK
  <2> QED  BY <2>1 DEF Conversation
<1>5. CASE last = 0
  <2>1. CallsOK'
    BY <1>2, <1>5, FinishOK, SameChats DEF ReadCards
  <2> QED  BY <2>1, MoveOK DEF ReadCards
<1>6. CASE last # 0
  <2>1. Continue(h, [c EXCEPT !.chat = chat], "saveCard")
    BY <1>2, <1>6 DEF ReadCards, Call
  <2>2. chat \in FoundChat /\ chat.at = c.chat.at
    BY <1>2, <1>4 DEF FoundChat
  <2>3. CallsOK'
    BY <1>1, <1>3, <2>1, <2>2, LookUpOK DEF ReadCards
  <2> QED  BY <2>3, MoveOK DEF ReadCards
<1> QED  BY <1>5, <1>6

LEMMA SaveCardOK ==
  ASSUME InductiveInvariant, NEW h \in Handlers, SaveCard(h)
  PROVE  InductiveInvariant'
<1> DEFINE c == calls[h]
           decision == IF c.op = "approveReturn" THEN "approved" ELSE "rejected"
           old == chats[c.order][c.chat.at].cards
           new == IF c.op = "applyReturnPriced" THEN Append(old, "requested")
                                                ELSE [old EXCEPT ![c.chat.card] = decision]
<1>1. c.pc \in Points /\ c.pc = "saveCard" /\ "touchChat" \in ChatPoints
  BY DEF SaveCard, At, Points, ChatPoints
<1>2. CallsOK /\ ChatsOK /\ c \in Call /\ CallLegal(c) /\ c.order \in Orders /\ ChatInHand(c)
  BY <1>1, AtPoint, CallFields DEF InductiveInvariant
<1>3. c.chat.at \in DOMAIN chats[c.order]
  BY <1>1, <1>2 DEF ChatInHand, ChatPoints
<1>4. old \in Seq(CardKinds)
  <2>1. chats[c.order][c.chat.at] \in Conversation
    BY <1>2, <1>3, LenProperties, ElementOfSeq DEF ChatsOK
  <2> QED  BY <2>1 DEF Conversation
<1> HIDE DEF old
<1>5. new \in Seq(CardKinds)
  <2>1. "requested" \in CardKinds /\ decision \in CardKinds
    BY DEF CardKinds
  <2>2. Append(old, "requested") \in Seq(CardKinds)
    BY <1>4, <2>1
  <2>3. [old EXCEPT ![c.chat.card] = decision] \in Seq(CardKinds)
    BY <1>4, <2>1, UpdateSeq
  <2> QED  BY <2>2, <2>3
<1>6. chats' = [chats EXCEPT ![c.order][c.chat.at].cards = new]
  BY <1>2 DEF SaveCard, old, ChatsOK
<1> HIDE DEF new
<1>7. ChatsOK' /\ ChatsKept
  BY <1>2, <1>5, <1>6, SetCards
<1>8. CallsOK'
  <2>1. Continue(h, c, "touchChat")
    BY DEF SaveCard
  <2>2. "touchChat" \in Points
    BY DEF Points
  <2> QED  BY <1>2, <1>3, <1>7, <2>1, <2>2, ContinueOK
<1> QED  BY <1>7, <1>8 DEF SaveCard, InductiveInvariant, RowsOK, OutboxOK, CountersOK

LEMMA TouchConversationOK ==
  ASSUME InductiveInvariant, NEW h \in Handlers, TouchConversation(h)
  PROVE  InductiveInvariant'
<1> USE DEF InductiveInvariant
<1>1. calls[h].pc \in Points
  BY DEF TouchConversation, At, Points
<1>2. calls[h].order \in Orders /\ calls[h].chat.status \in {"active", "closed"}
  BY <1>1, AtPoint, CallFields DEF FoundChat
<1>3. ChatsOK' /\ ChatsKept
  BY <1>2, SetChatStatus DEF TouchConversation
<1>4. CallsOK'
  BY <1>3, FinishOK DEF TouchConversation
<1> QED  BY <1>3, <1>4 DEF TouchConversation, RowsOK, OutboxOK, CountersOK

-----------------------------------------------------------------------------
(* The other steps of a call.                                              *)

LEMMA PublishCartCreatedOK ==
  ASSUME InductiveInvariant, NEW h \in Handlers, PublishCartCreated(h)
  PROVE  InductiveInvariant'
<1>1. [key |-> "order.cart.created"] \in Event
  BY DEF Event
<1>2. calls[h].pc \in Points /\ "publishCartItems" \in LaterPoints /\ "idle" \in LaterPoints
  BY DEF PublishCartCreated, At, Points, LaterPoints
<1> QED  BY <1>1, <1>2, PublishStepOK DEF PublishCartCreated

LEMMA PublishCartItemsOK ==
  ASSUME InductiveInvariant, NEW h \in Handlers, PublishCartItems(h)
  PROVE  InductiveInvariant'
<1>1. [key |-> "order.cart.item_changed"] \in Event
  BY DEF Event
<1>2. calls[h].pc \in Points /\ "publishCreated" \in LaterPoints
  BY DEF PublishCartItems, At, Points, LaterPoints
<1> QED  BY <1>1, <1>2, PublishStepOK DEF PublishCartItems

LEMMA PublishCreatedOK ==
  ASSUME InductiveInvariant, NEW h \in Handlers, PublishCreated(h)
  PROVE  InductiveInvariant'
<1> USE DEF InductiveInvariant
<1> DEFINE c == calls[h]
           next == IF c.expected = "none" THEN "idle" ELSE "saveTransition"
<1>1. [key |-> "order.order.created"] \in Event
  BY DEF Event
<1>2. c.pc \in Points /\ ChatsKept
  BY SameChats DEF PublishCreated, At, Points
<1>3. c \in Call /\ CallLegal(c) /\ c.order \in Orders
  BY <1>2, AtPoint, CallFields
<1>4. next \in Points \cup {"idle"} /\ next \notin ChatPoints
      /\ next \notin {"saveOrder", "publishStatusChanged"}
  BY DEF Points, ChatPoints
<1>5. CallsOK'
  BY <1>2, <1>3, <1>4, ContinueOK DEF PublishCreated
<1>6. OutboxOK'
  BY <1>1, <1>3, PublishOK DEF PublishCreated
<1> QED  BY <1>5, <1>6 DEF PublishCreated, RowsOK, ChatsOK, CountersOK

LEMMA PublishReturnRequestedOK ==
  ASSUME InductiveInvariant, NEW h \in Handlers, PublishReturnRequested(h)
  PROVE  InductiveInvariant'
<1> USE DEF InductiveInvariant
<1>1. [key |-> "order.return.requested"] \in Event
  BY DEF Event
<1>2. calls[h].pc \in Points /\ ChatsKept
  BY SameChats DEF PublishReturnRequested, At, Points
<1>3. CallsOK' /\ OutboxOK'
  BY <1>1, <1>2, AtPoint, CallFields, FinishOK, PublishOK DEF PublishReturnRequested
<1> QED  BY <1>3 DEF PublishReturnRequested, RowsOK, ChatsOK, CountersOK

LEMMA PublishReturnConfirmedOK ==
  ASSUME InductiveInvariant, NEW h \in Handlers, PublishReturnConfirmed(h)
  PROVE  InductiveInvariant'
<1> DEFINE c == calls[h]
           event == [key |-> "order.return.confirmed", full |-> c.refund.full,
                     refundAmount |-> c.refund.amount]
<1>1. c.pc \in Points /\ "findChatToResolve" \in LaterPoints /\ "idle" \in LaterPoints
  BY DEF PublishReturnConfirmed, At, Points, LaterPoints
<1>2. c.refund \in Refund
  BY <1>1, AtPoint, CallFields DEF InductiveInvariant
<1>3. event \in Event
  BY <1>2 DEF Event, Refund
<1> QED  BY <1>1, <1>3, PublishStepOK DEF PublishReturnConfirmed

LEMMA MarkStockReservedOK ==
  ASSUME InductiveInvariant, NEW h \in Handlers, MarkStockReserved(h)
  PROVE  InductiveInvariant'
<1> USE DEF InductiveInvariant
<1> DEFINE c == calls[h]
           o == c.order
           row == [orders[o] EXCEPT !.stockReserved = Stored(o) \/ @]
<1>1. c.pc \in Points /\ ChatsKept /\ "confirmIfPaid" \in LaterPoints
  BY SameChats DEF MarkStockReserved, At, Points, LaterPoints
<1>2. c \in Call /\ CallLegal(c) /\ o \in Orders
  BY <1>1, AtPoint, CallFields
<1>3. orders[o] \in OrderRow /\ OrderLegal(orders[o])
  BY <1>2 DEF RowsOK
<1>4. row \in OrderRow
  <2>1. (Stored(o) \/ orders[o].stockReserved) \in BOOLEAN
    OBVIOUS
  <2>2. row = [orders[o] EXCEPT !.stockReserved = (Stored(o) \/ orders[o].stockReserved)]
    BY <1>3 DEF OrderRow
  <2> QED  BY <1>3, <2>1, <2>2 DEF OrderRow
<1>5. row.status = orders[o].status /\ row.pending = orders[o].pending
      /\ row.history = orders[o].history
  BY <1>3 DEF OrderRow
<1>6. orders' = [orders EXCEPT ![o] = row]
  BY <1>2 DEF MarkStockReserved, RowsOK
<1> HIDE DEF row
<1>7. OrderLegal(row)
  BY <1>3, <1>5 DEF OrderLegal, LegalStory, LastEntry
<1>8. RowsOK'
  BY <1>2, <1>4, <1>6, <1>7, SetRow
<1>9. CallsOK'
  BY <1>1, <1>2, ContinueLater DEF MarkStockReserved
<1> QED  BY <1>8, <1>9 DEF MarkStockReserved, ChatsOK, OutboxOK, CountersOK

LEMMA ConfirmIfPaidAndReservedOK ==
  ASSUME InductiveInvariant, NEW h \in Handlers, ConfirmIfPaidAndReserved(h)
  PROVE  InductiveInvariant'
<1> USE DEF InductiveInvariant
<1> DEFINE o == calls[h].order
           row == orders[o]
           d == Transitioning("confirmIfPaidAndReserved", "saveTransition", o, row, "CONFIRMED")
<1>1. calls[h].pc \in Points /\ ChatsKept
  BY SameChats DEF ConfirmIfPaidAndReserved, At, Points
<1>2. o \in Orders
  BY <1>1, AtPoint, CallFields
<1>3. row \in OrderRow /\ row.pending.from \in RestorableStatuses
  BY <1>2, RowAt
<1>4. CASE row.status = "PAYMENT_APPROVED" /\ calls' = [calls EXCEPT ![h] = d]
  <2>1. row.status \in Statuses /\ CanTransition(row.status, "CONFIRMED")
    BY <1>4 DEF Statuses, CanTransition, ORDER_TRANSITIONS
  <2>2. "confirmIfPaidAndReserved" \in Operations /\ "saveTransition" \in Points \ {"saveOrder"}
    BY DEF Operations, Points
  <2>3. d \in Call /\ CallLegal(d)
    BY <1>2, <1>3, <2>1, <2>2, TransitioningLegal
  <2>4. d.pc = "saveTransition"
    BY DEF Transitioning, NewCall
  <2> HIDE DEF d
  <2>5. ChatInHand(d)
    BY <2>4 DEF ChatInHand, ChatPoints
  <2>6. CallsOK'
    BY <1>1, <1>4, <2>3, <2>5, SetCall
  <2> QED  BY <2>6, MoveOK DEF ConfirmIfPaidAndReserved
<1>5. CASE calls' = [calls EXCEPT ![h] = IdleCall]
  <2>1. CallsOK'
    BY <1>1, <1>5, FinishOK DEF Finish
  <2> QED  BY <2>1, MoveOK DEF ConfirmIfPaidAndReserved
<1> QED  BY <1>4, <1>5 DEF ConfirmIfPaidAndReserved

LEMMA SaveOrderOK ==
  ASSUME InductiveInvariant, NEW h \in Handlers, SaveOrder(h)
  PROVE  InductiveInvariant'
<1> USE DEF InductiveInvariant
<1> DEFINE c == calls[h]
<1>1. c.pc \in Points /\ c.pc = "saveOrder" /\ ChatsKept
  BY SameChats DEF SaveOrder, At, Points
<1>2. c \in Call /\ CallLegal(c) /\ c.order \in Orders /\ c.row \in OrderRow
  BY <1>1, AtPoint, CallFields
<1>3. OrderLegal(c.row)
  BY <1>1, <1>2 DEF CallLegal, OrderLegal
<1>4. CASE orders' = [orders EXCEPT ![c.order] = c.row]
           /\ \E pc \in {"idle", "findChatToReopen", "publishReturnRequested"} : Continue(h, c, pc)
  <2>1. RowsOK'
    BY <1>2, <1>3, <1>4, SetRow
  <2>2. {"idle", "findChatToReopen", "publishReturnRequested"} \subseteq LaterPoints
    BY DEF LaterPoints
  <2>3. CallsOK'
    BY <1>1, <1>2, <1>4, <2>2, ContinueLater
  <2> QED  BY <2>1, <2>3 DEF SaveOrder, ChatsOK, OutboxOK, CountersOK
<1>5. CASE Finish(h) /\ UNCHANGED orders
  <2>1. CallsOK'
    BY <1>1, <1>5, FinishOK
  <2> QED  BY <1>5, <2>1, MoveOK DEF SaveOrder
<1> QED  BY <1>4, <1>5 DEF SaveOrder

(* What a history pays can be counted.                                     *)
LEMMA PayingFinite ==
  ASSUME NEW history \in Seq(HistoryEntry)
  PROVE  IsFiniteSet(PayingIn(history)) /\ Cardinality(PayingIn(history)) \in Nat
<1>1. DOMAIN history = 1..Len(history) /\ Len(history) \in Nat
  BY LenProperties
<1>2. IsFiniteSet(1..Len(history))
  BY <1>1, FS_Interval
<1>3. IsFiniteSet(PayingIn(history))
  BY <1>1, <1>2, FS_Subset DEF PayingIn
<1> QED  BY <1>3, FS_CardinalityType

(* A deletion adds one row, and the returns that it recorded.              *)
LEMMA RemoveOK ==
  ASSUME RowsOK, CountersOK, NEW o \in Orders, Remove(o)
  PROVE  removed' \in [Orders -> Removed]
<1>1. removed[o] \in Removed /\ removed \in [Orders -> Removed]
  BY DEF CountersOK
<1>2. orders[o].history \in Seq(HistoryEntry)
  BY DEF RowsOK, OrderRow
<1>3. PICK n : n = Cardinality(PayingIn(orders[o].history))
  OBVIOUS
<1>4. n \in Nat
  BY <1>2, <1>3, PayingFinite
<1>5. removed[o].rows \in Nat /\ removed[o].returns \in Nat
  BY <1>1 DEF Removed
<1>6. PICK new : new = [rows |-> removed[o].rows + 1, returns |-> removed[o].returns + n]
  OBVIOUS
<1>7. new \in Removed
  BY <1>4, <1>5, <1>6 DEF Removed
<1>8. removed' = [removed EXCEPT ![o] = new]
  BY <1>1, <1>3, <1>6 DEF Remove, Removed
<1> QED  BY <1>1, <1>7, <1>8

LEMMA DeleteRowOK ==
  ASSUME InductiveInvariant, NEW h \in Handlers, DeleteRow(h)
  PROVE  InductiveInvariant'
<1> USE DEF InductiveInvariant
<1>1. calls[h].pc \in Points /\ ChatsKept
  BY SameChats DEF DeleteRow, At, Points
<1>2. calls[h].order \in Orders
  BY <1>1, AtPoint, CallFields
<1>3. DeletedOrder \in OrderRow /\ OrderLegal(DeletedOrder)
  <2>1. NoPendingReturn \in PendingReturn
    BY DEF NoPendingReturn, PendingReturn
  <2>2. DeletedOrder \in OrderRow
    BY <2>1 DEF DeletedOrder, EmptyRow, OrderRow
  <2> QED  BY <2>2 DEF DeletedOrder, EmptyRow, OrderLegal, NoPendingReturn, RestorableStatuses, Statuses
<1>4. RowsOK'
  BY <1>2, <1>3, SetRow DEF DeleteRow
<1>5. CallsOK'
  BY <1>1, FinishOK DEF DeleteRow
<1>6. removed' \in [Orders -> Removed]
  BY <1>2, RemoveOK DEF DeleteRow, CountersOK
<1>7. UNCHANGED <<chats, outbox, answers, aborts>>
  BY DEF DeleteRow
<1> QED  BY <1>4, <1>5, <1>6, <1>7 DEF ChatsOK, OutboxOK, CountersOK

-----------------------------------------------------------------------------
(* The operations that start.                                              *)

LEMMA TransitOK ==
  ASSUME InductiveInvariant, NEW h \in Handlers, NEW o \in Orders, NEW op \in Operations,
         NEW to, NEW policy \in RefundPolicies, Transit(h, o, op, to, policy)
  PROVE  InductiveInvariant'
<1> DEFINE c == Transitioning(op, "saveTransition", o, orders[o], to)
           d == [c EXCEPT !.policy = policy]
<1>1. CallsOK /\ ChatsKept
  BY SameChats DEF InductiveInvariant, Transit
<1>2. orders[o] \in OrderRow /\ orders[o].pending.from \in RestorableStatuses
  BY RowAt DEF InductiveInvariant
<1>3. orders[o].status \in Statuses /\ CanTransition(orders[o].status, to)
  BY DEF Transit, Enabled, Stored
<1>4. "saveTransition" \in Points \ {"saveOrder"}
  BY DEF Points
<1>5. c \in Call /\ CallLegal(c) /\ c.pc = "saveTransition"
  <2>1. c \in Call /\ CallLegal(c)
    BY <1>2, <1>3, <1>4, TransitioningLegal
  <2> QED  BY <2>1 DEF Transitioning, NewCall
<1> HIDE DEF c
<1>6. d \in Call /\ CallLegal(d) /\ d.pc \notin ChatPoints
  BY <1>5, CallEdits DEF Call, ChatPoints
<1>7. Begin(h, d)
  BY DEF Transit, c
<1> HIDE DEF d
<1>8. CallsOK'
  BY <1>1, <1>6, <1>7, BeginOK
<1> QED  BY <1>8, MoveOK DEF Transit

(* The operations that read an order and go straight to finalize.          *)
LEMMA TransitionsOK ==
  ASSUME InductiveInvariant, NEW h \in Handlers, NEW o \in Orders,
         \/ UpdateOrderStatus(h, o) \/ CancelOrder(h, o)
         \/ ApplyPaymentApproved(h, o) \/ ApplyPaymentFailed(h, o)
         \/ HandleStockReservationRejected(h, o)
         \/ MarkDelivered(h, o) \/ MarkFailed(h, o) \/ HandleQrExpired(h, o)
  PROVE  InductiveInvariant'
<1>1. {"updateOrderStatus", "cancelOrder", "applyPaymentApproved", "applyPaymentFailed",
       "handleStockReservationRejected", "markDelivered", "markFailed", "handleQrExpired"}
         \subseteq Operations
  BY DEF Operations
<1>2. {"FULL", "HALF_PRODUCTS_ONLY", "NO_REFUND"} \subseteq RefundPolicies
  BY DEF RefundPolicies
<1> QED
  BY <1>1, <1>2, TransitOK
  DEF UpdateOrderStatus, CancelOrder, ApplyPaymentApproved, ApplyPaymentFailed,
      HandleStockReservationRejected, MarkDelivered, MarkFailed, HandleQrExpired

(* An operation that starts with a new row and a call on it.               *)
LEMMA CreateOK ==
  ASSUME InductiveInvariant, NEW h \in Handlers, NEW o \in Orders,
         NEW row \in OrderRow, OrderLegal(row), orders' = [orders EXCEPT ![o] = row],
         NEW c \in Call, CallLegal(c), c.pc \notin ChatPoints, Begin(h, c),
         UNCHANGED <<chats, outbox, answers, aborts, removed>>
  PROVE  InductiveInvariant'
<1> USE DEF InductiveInvariant
<1>1. RowsOK'
  BY SetRow
<1>2. CallsOK'
  BY BeginOK, SameChats
<1> QED  BY <1>1, <1>2 DEF ChatsOK, OutboxOK, CountersOK

LEMMA CreateOrderOK ==
  ASSUME InductiveInvariant, NEW h \in Handlers, NEW o \in Orders, NEW cash \in BOOLEAN,
         CreateOrder(h, o, cash)
  PROVE  InductiveInvariant'
<1> DEFINE created == NewOrder("CREATED", cash, "createOrder")
           plain == NewCall("createOrder", "publishCartCreated", o, created)
           paying == Transitioning("createOrder", "publishCartCreated", o, created, "PENDING_PAYMENT")
<1>1. "createOrder" \in Operations
      /\ "publishCartCreated" \in Points \ {"saveOrder", "saveTransition", "publishStatusChanged"}
  BY DEF Operations, Points
<1>2. created \in OrderRow /\ created.status = "CREATED" /\ OrderLegal(created)
  BY <1>1, NewOrderLegal
<1>3. plain.pc \notin ChatPoints /\ paying.pc \notin ChatPoints
  BY DEF NewCall, Transitioning, ChatPoints
<1>4. orders' = [orders EXCEPT ![o] = created] /\ Begin(h, IF cash THEN plain ELSE paying)
  BY DEF CreateOrder
<1> HIDE DEF created
<1>5. created.pending.from \in RestorableStatuses
  BY <1>2 DEF OrderLegal
<1>6. plain \in Call /\ CallLegal(plain)
  BY <1>1, <1>2, <1>5, NewCallLegal
<1>7. created.status \in Statuses /\ CanTransition(created.status, "PENDING_PAYMENT")
  BY <1>2 DEF CanTransition, Statuses, ORDER_TRANSITIONS
<1>8. paying \in Call /\ CallLegal(paying)
  BY <1>1, <1>2, <1>5, <1>7, TransitioningLegal
<1> HIDE DEF plain, paying
<1> QED  BY <1>2, <1>3, <1>4, <1>6, <1>8, CreateOK DEF CreateOrder

LEMMA CreateDraftOK ==
  ASSUME InductiveInvariant, NEW h \in Handlers, NEW o \in Orders, NEW cash \in BOOLEAN,
         CreateDraft(h, o, cash)
  PROVE  InductiveInvariant'
<1> DEFINE draft == NewOrder("DRAFT", cash, "createDraft")
           c == NewCall("createDraft", "publishCartCreated", o, draft)
<1>1. "createDraft" \in Operations
      /\ "publishCartCreated" \in Points \ {"saveOrder", "saveTransition", "publishStatusChanged"}
  BY DEF Operations, Points
<1>2. draft \in OrderRow /\ OrderLegal(draft)
  BY <1>1, NewOrderLegal
<1>3. c.pc \notin ChatPoints
  BY DEF NewCall, ChatPoints
<1>4. orders' = [orders EXCEPT ![o] = draft] /\ Begin(h, c)
  BY DEF CreateDraft
<1> HIDE DEF draft
<1>5. c \in Call /\ CallLegal(c)
  BY <1>1, <1>2, NewCallLegal DEF OrderLegal
<1> HIDE DEF c
<1> QED  BY <1>2, <1>3, <1>4, <1>5, CreateOK DEF CreateDraft

(* An operation that starts a call and writes nothing yet.                 *)
LEMMA StartOK ==
  ASSUME InductiveInvariant, NEW h \in Handlers, NEW c \in Call, CallLegal(c),
         c.pc \notin ChatPoints, Begin(h, c),
         UNCHANGED <<orders, chats, outbox, aborts, removed>>, answers' \in [Orders -> Nat]
  PROVE  InductiveInvariant'
<1>1. CallsOK'
  BY BeginOK, SameChats DEF InductiveInvariant
<1> QED  BY <1>1 DEF InductiveInvariant, RowsOK, ChatsOK, OutboxOK, CountersOK

LEMMA CheckoutOK ==
  ASSUME InductiveInvariant, NEW h \in Handlers, NEW o \in Orders, Checkout(h, o)
  PROVE  InductiveInvariant'
<1> DEFINE target == IF orders[o].cash THEN "CREATED" ELSE "PENDING_PAYMENT"
           c == Transitioning("checkout", "publishCreated", o, orders[o], target)
<1>1. "checkout" \in Operations /\ "publishCreated" \in Points \ {"saveOrder"}
  BY DEF Operations, Points
<1>2. orders[o] \in OrderRow /\ orders[o].pending.from \in RestorableStatuses
  BY RowAt DEF InductiveInvariant
<1>3. orders[o].status \in Statuses /\ CanTransition(orders[o].status, target)
  BY DEF Checkout, Statuses, CanTransition, ORDER_TRANSITIONS
<1>4. c \in Call /\ CallLegal(c)
  BY <1>1, <1>2, <1>3, TransitioningLegal
<1>5. c.pc \notin ChatPoints
  BY DEF Transitioning, NewCall, ChatPoints
<1>6. Begin(h, c)
  BY DEF Checkout
<1> HIDE DEF c
<1> QED  BY <1>4, <1>5, <1>6, StartOK DEF Checkout, InductiveInvariant, CountersOK

LEMMA HandleStockReservationConfirmedOK ==
  ASSUME InductiveInvariant, NEW h \in Handlers, NEW o \in Orders,
         HandleStockReservationConfirmed(h, o)
  PROVE  InductiveInvariant'
<1> DEFINE op == "handleStockReservationConfirmed"
           c == NewCall(op, "markReserved", o, orders[o])
<1>1. op \in Operations /\ "FULL" \in RefundPolicies
      /\ "markReserved" \in Points \ {"saveOrder", "saveTransition", "publishStatusChanged"}
  BY DEF Operations, Points, RefundPolicies
<1>2. CASE Transit(h, o, op, "CONFIRMED", "FULL")
  BY <1>1, <1>2, TransitOK
<1>3. CASE Begin(h, c) /\ UNCHANGED <<orders, chats, outbox, answers, aborts, removed>>
  <2>1. c \in Call /\ CallLegal(c)
    BY <1>1, RowAt, NewCallLegal DEF InductiveInvariant
  <2>2. c.pc \notin ChatPoints
    BY DEF NewCall, ChatPoints
  <2> HIDE DEF c
  <2> QED  BY <1>3, <2>1, <2>2, StartOK DEF InductiveInvariant, CountersOK
<1> QED  BY <1>2, <1>3 DEF HandleStockReservationConfirmed

LEMMA RateOrderOK ==
  ASSUME InductiveInvariant, NEW h \in Handlers, NEW o \in Orders, RateOrder(h, o)
  PROVE  InductiveInvariant'
<1> DEFINE row == [orders[o] EXCEPT !.rated = TRUE]
           c == NewCall("rateOrder", "saveOrder", o, row)
<1>1. "rateOrder" \in Operations
      /\ "saveOrder" \in Points \ {"saveTransition", "publishStatusChanged"}
  BY DEF Operations, Points
<1>2. orders[o] \in OrderRow /\ orders[o].pending.from \in RestorableStatuses
      /\ LegalStory(orders[o]) /\ orders[o].status \in Statuses
  BY RowAt DEF InductiveInvariant, RateOrder, Enabled, Stored
<1>3. row \in OrderRow /\ row.status = orders[o].status /\ row.pending = orders[o].pending
      /\ row.history = orders[o].history
  BY <1>2 DEF OrderRow
<1>4. Begin(h, c) /\ c.pc \notin ChatPoints
  BY DEF RateOrder, NewCall, ChatPoints
<1> HIDE DEF row
<1>5. LegalStory(row)
  BY <1>2, <1>3 DEF LegalStory, LastEntry
<1>6. c \in Call /\ CallLegal(c)
  BY <1>1, <1>2, <1>3, <1>5, NewCallLegal
<1> HIDE DEF c
<1> QED  BY <1>4, <1>6, StartOK DEF RateOrder, InductiveInvariant, CountersOK

LEMMA DeleteOrderOK ==
  ASSUME InductiveInvariant, NEW h \in Handlers, NEW o \in Orders, DeleteOrder(h, o)
  PROVE  InductiveInvariant'
<1> DEFINE c == NewCall("deleteOrder", "deleteRow", o, orders[o])
<1>1. "deleteOrder" \in Operations
      /\ "deleteRow" \in Points \ {"saveOrder", "saveTransition", "publishStatusChanged"}
  BY DEF Operations, Points
<1>2. c \in Call /\ CallLegal(c)
  BY <1>1, RowAt, NewCallLegal DEF InductiveInvariant
<1>3. Begin(h, c) /\ c.pc \notin ChatPoints
  BY DEF DeleteOrder, NewCall, ChatPoints
<1> HIDE DEF c
<1> QED  BY <1>2, <1>3, StartOK DEF DeleteOrder, InductiveInvariant, CountersOK

LEMMA RequestReturnOK ==
  ASSUME InductiveInvariant, NEW h \in Handlers, NEW o \in Orders, RequestReturn(h, o)
  PROVE  InductiveInvariant'
<1> DEFINE c == NewCall("requestReturn", "saveOrder", o, orders[o])
<1>1. "requestReturn" \in Operations
      /\ "saveOrder" \in Points \ {"saveTransition", "publishStatusChanged"}
  BY DEF Operations, Points
<1>2. orders[o] \in OrderRow /\ orders[o].pending.from \in RestorableStatuses
      /\ LegalStory(orders[o]) /\ orders[o].status \in Statuses
  BY RowAt DEF InductiveInvariant, RequestReturn, Enabled, Stored
<1>3. c \in Call /\ CallLegal(c)
  BY <1>1, <1>2, NewCallLegal
<1>4. Begin(h, c) /\ c.pc \notin ChatPoints
  BY DEF RequestReturn, NewCall, ChatPoints
<1> HIDE DEF c
<1> QED  BY <1>3, <1>4, StartOK DEF RequestReturn, InductiveInvariant, CountersOK

-----------------------------------------------------------------------------
(* Returns.                                                                *)

LEMMA AnsweredOK ==
  ASSUME CountersOK, NEW o \in Orders, Answered(o)
  PROVE  answers' \in [Orders -> Nat]
BY DEF CountersOK, Answered

LEMMA HoldPricedReturnOK ==
  ASSUME InductiveInvariant, NEW h \in Handlers, NEW o \in Orders,
         NEW amount \in RefundAmounts, NEW full \in BOOLEAN, HoldPricedReturn(h, o, amount, full)
  PROVE  InductiveInvariant'
<1> DEFINE p == [amount |-> amount, full |-> full, from |-> orders[o].status]
           held == [orders[o] EXCEPT !.pending = p]
           c == Transitioning("applyReturnPriced", "saveTransition", o, held,
                              "RETURN_PENDING_APPROVAL")
<1>1. "applyReturnPriced" \in Operations /\ "saveTransition" \in Points \ {"saveOrder"}
  BY DEF Operations, Points
<1>2. orders[o] \in OrderRow /\ orders[o].status \in {"DELIVERED", "PARTIALLY_RETURNED"}
  BY RowAt DEF InductiveInvariant, HoldPricedReturn
<1>3. p \in PendingReturn /\ p.from \in RestorableStatuses
  BY <1>2, ConstantsAssumed
  DEF PendingReturn, RestorableStatuses, Statuses, ConstantsAssumption
<1>4. Begin(h, c) /\ c.pc \notin ChatPoints
  BY DEF HoldPricedReturn, Transitioning, NewCall, ChatPoints
<1> HIDE DEF p
<1>5. held \in OrderRow /\ held.status = orders[o].status /\ held.pending = p
  BY <1>2, <1>3 DEF OrderRow
<1> HIDE DEF held
<1>6. held.status \in Statuses /\ CanTransition(held.status, "RETURN_PENDING_APPROVAL")
  BY <1>2, <1>5 DEF Statuses, CanTransition, ORDER_TRANSITIONS
<1>7. c \in Call /\ CallLegal(c)
  BY <1>1, <1>3, <1>5, <1>6, TransitioningLegal
<1> HIDE DEF c
<1> QED  BY <1>4, <1>7, AnsweredOK, StartOK DEF HoldPricedReturn, InductiveInvariant

LEMMA ApplyPricedReturnOK ==
  ASSUME InductiveInvariant, NEW h \in Handlers, NEW o \in Orders,
         NEW amount \in RefundAmounts, NEW full \in BOOLEAN, ApplyPricedReturn(h, o, amount, full)
  PROVE  InductiveInvariant'
<1> DEFINE target == IF full THEN "RETURNED" ELSE "PARTIALLY_RETURNED"
           r == [amount |-> amount, full |-> full]
           c == Transitioning("applyReturnPriced", "saveTransition", o, orders[o], target)
           d == [c EXCEPT !.refund = r]
<1>1. "applyReturnPriced" \in Operations /\ "saveTransition" \in Points \ {"saveOrder"}
  BY DEF Operations, Points
<1>2. orders[o] \in OrderRow /\ orders[o].pending.from \in RestorableStatuses
  BY RowAt DEF InductiveInvariant
<1>3. orders[o].status \in Statuses /\ CanTransition(orders[o].status, target)
  BY DEF ApplyPricedReturn, Enabled, Stored
<1>4. r \in Refund
  BY ConstantsAssumed DEF Refund, ConstantsAssumption
<1>5. c \in Call /\ CallLegal(c)
  BY <1>1, <1>2, <1>3, TransitioningLegal
<1>6. Begin(h, d) /\ c.pc = "saveTransition"
  BY DEF ApplyPricedReturn, Transitioning, NewCall
<1> HIDE DEF c, r
<1>7. d \in Call /\ CallLegal(d) /\ d.pc \notin ChatPoints
  BY <1>4, <1>5, <1>6, CallEdits DEF Call, ChatPoints
<1> HIDE DEF d
<1> QED  BY <1>6, <1>7, AnsweredOK, StartOK DEF ApplyPricedReturn, InductiveInvariant

LEMMA IgnorePricedReturnOK ==
  ASSUME InductiveInvariant, NEW o \in Orders, NEW amount, NEW full,
         IgnorePricedReturn(o, amount, full)
  PROVE  InductiveInvariant'
<1>1. answers' \in [Orders -> Nat]
  BY AnsweredOK DEF IgnorePricedReturn, InductiveInvariant
<1>2. CallsOK'
  BY DEF IgnorePricedReturn, InductiveInvariant, CallsOK, CallLegal, CarriesTransition, ChatInHand
<1> QED
  BY <1>1, <1>2 DEF IgnorePricedReturn, InductiveInvariant, RowsOK, ChatsOK, OutboxOK, CountersOK

(* The order that approveReturn and rejectReturn transition.               *)
LEMMA ClearedRow ==
  ASSUME NEW row \in OrderRow, NEW cleared, cleared = [row EXCEPT !.pending = NoPendingReturn]
  PROVE  cleared \in OrderRow /\ cleared.status = row.status
         /\ cleared.pending.from \in RestorableStatuses
<1>1. NoPendingReturn \in PendingReturn /\ NoPendingReturn.from \in RestorableStatuses
  BY DEF NoPendingReturn, PendingReturn, RestorableStatuses
<1> QED  BY <1>1 DEF OrderRow

LEMMA ApproveReturnOK ==
  ASSUME InductiveInvariant, NEW h \in Handlers, NEW o \in Orders, ApproveReturn(h, o)
  PROVE  InductiveInvariant'
<1> DEFINE pending == orders[o].pending
           cleared == [orders[o] EXCEPT !.pending = NoPendingReturn]
           target == IF pending.full THEN "RETURNED" ELSE "PARTIALLY_RETURNED"
           r == [amount |-> pending.amount, full |-> pending.full]
           c == Transitioning("approveReturn", "saveTransition", o, cleared, target)
           d == [c EXCEPT !.refund = r]
<1>1. "approveReturn" \in Operations /\ "saveTransition" \in Points \ {"saveOrder"}
  BY DEF Operations, Points
<1>2. orders[o] \in OrderRow
  BY RowAt DEF InductiveInvariant
<1>3. cleared \in OrderRow /\ cleared.status = orders[o].status
      /\ cleared.pending.from \in RestorableStatuses
  BY <1>2, ClearedRow
<1>4. r \in Refund
  BY <1>2, RowFields DEF PendingReturn, Refund
<1>5. Begin(h, d) /\ c.pc = "saveTransition"
  BY DEF ApproveReturn, Transitioning, NewCall
<1> HIDE DEF cleared, r
<1>6. cleared.status \in Statuses /\ CanTransition(cleared.status, target)
  BY <1>3 DEF ApproveReturn, Statuses, CanTransition, ORDER_TRANSITIONS
<1> HIDE DEF target
<1>7. c \in Call /\ CallLegal(c)
  BY <1>1, <1>3, <1>6, TransitioningLegal
<1> HIDE DEF c
<1>8. d \in Call /\ CallLegal(d) /\ d.pc \notin ChatPoints
  BY <1>4, <1>5, <1>7, CallEdits DEF Call, ChatPoints
<1> HIDE DEF d
<1> QED  BY <1>5, <1>8, StartOK DEF ApproveReturn, InductiveInvariant, CountersOK

LEMMA RejectReturnOK ==
  ASSUME InductiveInvariant, NEW h \in Handlers, NEW o \in Orders, RejectReturn(h, o)
  PROVE  InductiveInvariant'
<1> DEFINE from == orders[o].pending.from
           cleared == [orders[o] EXCEPT !.pending = NoPendingReturn]
           target == IF from = "none" THEN "DELIVERED" ELSE from
           c == Transitioning("rejectReturn", "saveTransition", o, cleared, target)
<1>1. "rejectReturn" \in Operations /\ "saveTransition" \in Points \ {"saveOrder"}
  BY DEF Operations, Points
<1>2. orders[o] \in OrderRow /\ from \in RestorableStatuses
  BY RowAt DEF InductiveInvariant
<1>3. cleared \in OrderRow /\ cleared.status = orders[o].status
      /\ cleared.pending.from \in RestorableStatuses
  BY <1>2, ClearedRow
<1>4. Begin(h, c) /\ c.pc \notin ChatPoints
  BY DEF RejectReturn, Transitioning, NewCall, ChatPoints
<1> HIDE DEF cleared
<1>5. target \in {"DELIVERED", "PARTIALLY_RETURNED"}
  BY <1>2 DEF RestorableStatuses
<1>6. cleared.status \in Statuses /\ CanTransition(cleared.status, target)
  BY <1>3, <1>5 DEF RejectReturn, Statuses, CanTransition, ORDER_TRANSITIONS
<1> HIDE DEF target
<1>7. c \in Call /\ CallLegal(c)
  BY <1>1, <1>3, <1>6, TransitioningLegal
<1> HIDE DEF c
<1> QED  BY <1>4, <1>7, StartOK DEF RejectReturn, InductiveInvariant, CountersOK

-----------------------------------------------------------------------------
(* Faults, and the whole.                                                  *)

LEMMA AbortOK ==
  ASSUME InductiveInvariant, NEW h \in Handlers, Abort(h)
  PROVE  InductiveInvariant'
<1>1. CallsOK'
  BY FinishOK, SameChats DEF InductiveInvariant, Abort
<1> QED  BY <1>1 DEF Abort, InductiveInvariant, RowsOK, ChatsOK, OutboxOK, CountersOK

LEMMA ConversationFailureOK ==
  ASSUME InductiveInvariant, NEW h \in Handlers, ConversationFailure(h)
  PROVE  InductiveInvariant'
<1>1. calls[h].pc \in Points /\ AfterFinalize(calls[h]) \in LaterPoints
  BY LaterPointsFacts DEF ConversationFailure, At, Points
<1>2. CallsOK'
  BY <1>1, AtPoint, ContinueLater, SameChats DEF InductiveInvariant, ConversationFailure
<1> QED  BY <1>2 DEF ConversationFailure, InductiveInvariant, RowsOK, ChatsOK, OutboxOK, CountersOK

LEMMA InitOK ==
  Init => InductiveInvariant
<1> SUFFICES ASSUME Init PROVE InductiveInvariant
  OBVIOUS
<1>1. PICK start \in [Orders -> StartStates] :
        /\ orders = [o \in Orders |-> start[o].row]
        /\ chats = [o \in Orders |-> start[o].chats]
        /\ outbox = [o \in Orders |-> start[o].outbox]
  BY DEF Init
<1>2. \A o \in Orders :
        /\ start[o].row \in OrderRow /\ OrderLegal(start[o].row)
        /\ start[o].chats \in Seq(Conversation) /\ start[o].outbox \in Seq(Event)
  BY <1>1, StartAssumed DEF StartAssumption, OrderLegal
<1>3. RowsOK /\ ChatsOK /\ OutboxOK
  BY <1>1, <1>2 DEF RowsOK, ChatsOK, OutboxOK
<1>4. CallsOK
  <2>1. ChatInHand(IdleCall)
    BY DEF ChatInHand, IdleCall, ChatPoints
  <2> QED  BY <2>1, IdleCallLegal DEF Init, CallsOK
<1>5. CountersOK
  BY DEF Init, CountersOK, Removed
<1> QED  BY <1>3, <1>4, <1>5 DEF InductiveInvariant

LEMMA StepOK ==
  ASSUME InductiveInvariant, NEW h \in Handlers, Step(h)
  PROVE  InductiveInvariant'
BY PublishCartCreatedOK, PublishCartItemsOK, PublishCreatedOK, SaveTransitionOK,
   TransitionConflictOK, PublishStatusChangedOK, PublishConfirmedOK, FindConversationOK,
   CreateConversationOK, PublishReadyOK, FindConversationToCloseOK, CloseConversationOK,
   PublishCancelledOK, MarkStockReservedOK, ConfirmIfPaidAndReservedOK, SaveOrderOK, DeleteRowOK,
   FindConversationToReopenOK, ReopenConversationOK, PublishReturnRequestedOK,
   PublishReturnConfirmedOK, FindConversationForCardOK, ReadCardsOK, SaveCardOK,
   TouchConversationOK
DEF Step

LEMMA NextOK ==
  InductiveInvariant /\ [Next]_vars => InductiveInvariant'
<1> SUFFICES ASSUME InductiveInvariant, [Next]_vars PROVE InductiveInvariant'
  OBVIOUS
<1>1. ASSUME NEW h \in Handlers, NEW o \in Orders, HttpRequest(h, o)
      PROVE  InductiveInvariant'
  BY <1>1, CreateOrderOK, CreateDraftOK, CheckoutOK, TransitionsOK, RateOrderOK, DeleteOrderOK,
     RequestReturnOK, ApproveReturnOK, RejectReturnOK
  DEF HttpRequest
<1>2. ASSUME NEW h \in Handlers, NEW o \in Orders, BusMessage(h, o)
      PROVE  InductiveInvariant'
  BY <1>2, TransitionsOK, HandleStockReservationConfirmedOK, HoldPricedReturnOK,
     ApplyPricedReturnOK
  DEF BusMessage
<1>3. CASE UNCHANGED vars
  <2>1. CallsOK'
    BY <1>3 DEF vars, InductiveInvariant, CallsOK, CallLegal, CarriesTransition, ChatInHand
  <2> QED
    BY <1>3, <2>1 DEF vars, InductiveInvariant, RowsOK, ChatsOK, OutboxOK, CountersOK
<1> QED
  BY <1>1, <1>2, <1>3, StepOK, AbortOK, ConversationFailureOK, IgnorePricedReturnOK DEF Next

LEMMA InvariantHolds ==
  Spec => []InductiveInvariant
BY InitOK, NextOK, PTL DEF Spec

-----------------------------------------------------------------------------
(* The results.                                                            *)

(* Every variable keeps its type, whatever operations run concurrently and *)
(* whatever rows the behaviour starts from: in particular no event is      *)
(* published and no row written with a value that the schema excludes.     *)
THEOREM TypeCorrect ==
  Spec => []TypeOK
<1>1. InductiveInvariant => TypeOK
  BY DEF InductiveInvariant, RowsOK, ChatsOK, OutboxOK, CallsOK, CountersOK, TypeOK
<1> QED  BY <1>1, InvariantHolds, PTL

(* The audit trail of every stored order tells one legal story that ends   *)
(* in its status: the compare-and-set of saveTransition suffices against   *)
(* any number of concurrent calls, crashes and repeated messages.          *)
THEOREM HistoryIsConsistent ==
  Spec => []HistoryConsistent
<1>1. InductiveInvariant => HistoryConsistent
  BY DEF InductiveInvariant, RowsOK, OrderLegal, HistoryConsistent, Stored
<1> QED  BY <1>1, InvariantHolds, PTL

-----------------------------------------------------------------------------
(* No recorded transition is undone.                                       *)

(* The only steps that touch the orders table.                             *)
LEMMA OrdersChange ==
  ASSUME Next
  PROVE  \/ UNCHANGED orders
         \/ \E h \in Handlers : \/ SaveTransition(h) \/ MarkStockReserved(h)
                                \/ SaveOrder(h) \/ DeleteRow(h)
         \/ \E h \in Handlers, o \in Orders, cash \in BOOLEAN :
              CreateOrder(h, o, cash) \/ CreateDraft(h, o, cash)
<1> DEFINE Goal == \/ UNCHANGED orders
                   \/ \E h \in Handlers : \/ SaveTransition(h) \/ MarkStockReserved(h)
                                          \/ SaveOrder(h) \/ DeleteRow(h)
                   \/ \E h \in Handlers, o \in Orders, cash \in BOOLEAN :
                        CreateOrder(h, o, cash) \/ CreateDraft(h, o, cash)
<1>1. ASSUME NEW h \in Handlers, NEW o \in Orders, HttpRequest(h, o)
      PROVE  Goal
  BY <1>1 DEF HttpRequest, Checkout, UpdateOrderStatus, CancelOrder, Transit, RateOrder,
              DeleteOrder, RequestReturn, ApproveReturn, RejectReturn
<1>2. ASSUME NEW h \in Handlers, NEW o \in Orders, BusMessage(h, o)
      PROVE  UNCHANGED orders
  BY <1>2 DEF BusMessage, ApplyPaymentApproved, ApplyPaymentFailed,
              HandleStockReservationRejected, HandleStockReservationConfirmed, MarkDelivered,
              MarkFailed, HandleQrExpired, Transit, HoldPricedReturn, ApplyPricedReturn
<1>3. ASSUME NEW h \in Handlers, Step(h)
      PROVE  Goal
  BY <1>3 DEF Step, PublishCartCreated, PublishCartItems, PublishCreated, TransitionConflict,
              PublishStatusChanged, PublishConfirmed, FindConversation, CreateConversation,
              PublishReady, FindConversationToClose, CloseConversation, PublishCancelled,
              ConfirmIfPaidAndReserved, FindConversationToReopen, ReopenConversation,
              PublishReturnRequested, PublishReturnConfirmed, FindConversationForCard, ReadCards,
              SaveCard, TouchConversation
<1>4. ASSUME NEW h \in Handlers, Abort(h) \/ ConversationFailure(h)
      PROVE  UNCHANGED orders
  BY <1>4 DEF Abort, ConversationFailure
<1>5. ASSUME NEW o \in Orders, NEW amount, NEW full, IgnorePricedReturn(o, amount, full)
      PROVE  UNCHANGED orders
  BY <1>5 DEF IgnorePricedReturn
<1> QED  BY <1>1, <1>2, <1>3, <1>4, <1>5 DEF Next

\* The history of this order only grows, as long as its row is there.
HistoryKept(o) ==
  Stored(o) /\ Stored(o)' =>
    /\ Len(orders[o].history) <= Len(orders'[o].history)
    /\ \A i \in DOMAIN orders[o].history : orders'[o].history[i] = orders[o].history[i]

LEMMA SameHistoryKept ==
  ASSUME RowsOK, NEW o \in Orders, Stored(o) => orders'[o].history = orders[o].history
  PROVE  HistoryKept(o)
<1>1. orders[o].history \in Seq(HistoryEntry)
  BY DEF RowsOK, OrderRow
<1>2. Len(orders[o].history) \in Nat
  BY <1>1
<1> QED  BY <1>2 DEF HistoryKept

LEMMA StepsKeepHistory ==
  ASSUME InductiveInvariant, [Next]_vars, NEW o \in Orders
  PROVE  HistoryKept(o)
<1>1. RowsOK /\ orders \in [Orders -> OrderRow]
  BY DEF InductiveInvariant, RowsOK
<1>2. CASE UNCHANGED orders
  BY <1>1, <1>2, SameHistoryKept
<1>3. ASSUME NEW h \in Handlers, SaveTransition(h)
      PROVE  HistoryKept(o)
  <2> DEFINE p == calls[h].order
             e == LastEntry(calls[h].row)
  <2>1. CASE o # p
    <3>1. orders'[o] = orders[o]
      BY <1>1, <1>3, <2>1 DEF SaveTransition
    <3> QED  BY <1>1, <3>1, SameHistoryKept
  <2>2. CASE o = p
    <3>1. orders'[o].history = Append(orders[o].history, e)
      BY <1>1, <1>3, <2>2 DEF SaveTransition, OrderRow
    <3>2. orders[o].history \in Seq(HistoryEntry)
      BY <1>1 DEF OrderRow
    <3> HIDE DEF e
    <3>3. /\ Len(orders'[o].history) = Len(orders[o].history) + 1
          /\ Len(orders[o].history) \in Nat
          /\ \A i \in DOMAIN orders[o].history : orders'[o].history[i] = orders[o].history[i]
      BY <3>1, <3>2, LenProperties
    <3> QED  BY <3>3 DEF HistoryKept
  <2> QED  BY <2>1, <2>2
<1>4. ASSUME NEW h \in Handlers, MarkStockReserved(h)
      PROVE  HistoryKept(o)
  <2>1. orders'[o].history = orders[o].history
    BY <1>1, <1>4 DEF MarkStockReserved, OrderRow
  <2> QED  BY <1>1, <2>1, SameHistoryKept
<1>5. ASSUME NEW h \in Handlers, SaveOrder(h)
      PROVE  HistoryKept(o)
  <2>1. ~Stored(o) \/ orders'[o].history = orders[o].history
    BY <1>1, <1>5 DEF SaveOrder, Stored, DeletedOrder, EmptyRow, Statuses
  <2> QED  BY <1>1, <2>1, SameHistoryKept
<1>6. ASSUME NEW h \in Handlers, DeleteRow(h)
      PROVE  HistoryKept(o)
  <2>1. CASE o = calls[h].order
    <3>1. ~Stored(o)'
      BY <1>1, <1>6, <2>1 DEF DeleteRow, Stored, DeletedOrder, EmptyRow, Statuses
    <3> QED  BY <3>1 DEF HistoryKept
  <2>2. CASE o # calls[h].order
    <3>1. orders'[o] = orders[o]
      BY <1>1, <1>6, <2>2 DEF DeleteRow
    <3> QED  BY <1>1, <3>1, SameHistoryKept
  <2> QED  BY <2>1, <2>2
<1>7. ASSUME NEW h \in Handlers, NEW q \in Orders, NEW cash \in BOOLEAN,
             CreateOrder(h, q, cash) \/ CreateDraft(h, q, cash)
      PROVE  HistoryKept(o)
  <2>1. ~Stored(o) \/ orders'[o] = orders[o]
    BY <1>1, <1>7 DEF CreateOrder, CreateDraft, Stored, NoOrder, EmptyRow, Statuses
  <2> QED  BY <1>1, <2>1, SameHistoryKept
<1>8. CASE UNCHANGED vars
  BY <1>2, <1>8 DEF vars
<1> QED  BY <1>2, <1>3, <1>4, <1>5, <1>6, <1>7, <1>8, OrdersChange

(* No step takes back a recorded transition while the row exists: not the  *)
(* compare-and-set, and not the whole-entity save of rateOrder and         *)
(* requestReturn, however stale its snapshot.                              *)
THEOREM NothingIsUndone ==
  Spec => TransitionsNeverUndone
<1>1. InductiveInvariant /\ [Next]_vars => [\A o \in Orders : HistoryKept(o)]_vars
  BY StepsKeepHistory
<1>2. InductiveInvariant /\ [Next]_vars =>
        [\A o \in Orders : Stored(o) /\ Stored(o)' =>
           /\ Len(orders[o].history) <= Len(orders'[o].history)
           /\ \A i \in DOMAIN orders[o].history :
                orders'[o].history[i] = orders[o].history[i]]_vars
  BY <1>1 DEF HistoryKept
<1> QED  BY <1>2, InvariantHolds, PTL DEF Spec, TransitionsNeverUndone

=============================================================================
