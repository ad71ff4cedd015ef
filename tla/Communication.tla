--------------------------- MODULE Communication ---------------------------
(***************************************************************************)
(* CommunicationService over TypeOrmCommunicationRepository: the messages, *)
(* participants, unread counters and status of one conversation, from the  *)
(* confirmation of its order on.                                           *)
(*                                                                         *)
(* An operation checks access on a conversation that it reads first, and   *)
(* then performs its repository calls one by one.  Every update of the     *)
(* conversation is a findOne followed by a save of the whole entity with   *)
(* its participants, without a transaction or a version: any other call    *)
(* may run in between, and what it wrote is overwritten.                   *)
(***************************************************************************)
EXTENDS Naturals, Sequences, FiniteSets

CONSTANTS
  Customer, Vendor,   \* the two participants that a conversation starts with
  Staff,              \* the active staff of the store
  System,             \* SYSTEM_SENDER_ID
  Handlers,           \* calls that may be in progress at the same time
  Ops,                \* the operations that this instance exercises
  MaxCalls,           \* bound: calls started
  MaxFaults           \* bound: calls lost to a crash or to a failed await

Users == {Customer} \cup Staff     \* those whom assertParticipant lets through

CommunicationAssumption ==
  /\ Vendor \in Staff
  /\ Customer \notin Staff
  /\ System \notin Users
  /\ {MaxCalls, MaxFaults} \subseteq Nat

ASSUME CommunicationAssumed == CommunicationAssumption

VARIABLES
  conversation,   \* the row of conversations and its rows of participants
  messages,       \* Seq(Message), the messages table
  sentEvents,     \* Seq(Nat), order.chat.message.sent in the outbox, by message
  calls,          \* [Handlers -> Call], the operations in progress
  started,        \* Nat, calls started so far
  faults,         \* Nat, calls lost so far
  overlapped,     \* history: two calls have been in progress at once
  cutShort        \* history: a call has failed before its last step

vars == <<conversation, messages, sentEvents, calls, started, faults, overlapped, cutShort>>

-----------------------------------------------------------------------------
(* Types.                                                                  *)

ConversationStatus == {"active", "archived", "closed"}
RefundMessageKind == {"requested", "approved", "rejected"}
Message == [sender : Users \cup {System}, kind : RefundMessageKind \cup {"text"},
            readers : SUBSET Users]

\* `joined` stands for joinedAt: how many messages there were.  leftAt, typing,
\* the preview and the timestamps are left out.
Conversation == [status : ConversationStatus, members : SUBSET Users,
                 joined : [Users -> Nat], unread : [Users -> Nat]]

Created == [status |-> "active", members |-> {Customer, Vendor},
            joined |-> [u \in Users |-> 0], unread |-> [u \in Users |-> 0]]

\* The repository calls.  "load" is the findOne of an update; the steps of
\* Edits compute the new entity and save it.
Edits == {"count", "touch", "reset", "setStatus", "join", "rewrite"}
Steps == Edits \cup {"saveMessage", "load", "publish", "findMessages", "saveReceipts",
                     "saveCard"}

\* `seen` is the status that the first read saw, `entity` the conversation that
\* the last findOne returned, `found` the messages that were read, `target` the
\* message that the call is about (0: none), `to` the status or kind to set.
Found == [at : Nat, row : Message]
Call == [op : Ops, user : Users \cup {System}, todo : Seq(Steps) \ {<<>>}, seen : ConversationStatus,
         entity : Conversation, found : SUBSET Found, target : Nat,
         to : ConversationStatus \cup RefundMessageKind]

Idle == [op |-> "none"]

TypeOK ==
  /\ conversation \in Conversation
  /\ messages \in Seq(Message)
  /\ sentEvents \in Seq(1..Len(messages))
  /\ calls \in [Handlers -> Call \cup {Idle}]
  /\ \A h \in Handlers : calls[h] # Idle => calls[h].target <= Len(messages)
  /\ started \in 0..MaxCalls /\ faults \in 0..MaxFaults
  /\ {overlapped, cutShort} \subseteq BOOLEAN

Init ==
  /\ conversation = Created
  /\ messages = <<>>
  /\ sentEvents = <<>>
  /\ calls = [h \in Handlers |-> Idle]
  /\ started = 0 /\ faults = 0
  /\ overlapped = FALSE /\ cutShort = FALSE

-----------------------------------------------------------------------------
(* Calls.                                                                  *)

Quiet == \A h \in Handlers : calls[h] = Idle

Start(h, op, user, target, to, todo) ==
  /\ op \in Ops
  /\ calls[h] = Idle
  /\ started < MaxCalls
  /\ started' = started + 1
  /\ overlapped' = (overlapped \/ ~Quiet)
  /\ calls' = [calls EXCEPT ![h] =
       [op |-> op, user |-> user, todo |-> todo, seen |-> conversation.status,
        entity |-> conversation, found |-> {}, target |-> target, to |-> to]]
  /\ UNCHANGED <<conversation, messages, sentEvents, faults, cutShort>>

Doing(h, step) == calls[h] # Idle /\ Head(calls[h].todo) = step

\* The call goes on with what is left to do, or returns.
Proceed(h, c) ==
  calls' = [calls EXCEPT ![h] = IF Len(c.todo) = 1 THEN Idle ELSE [c EXCEPT !.todo = Tail(@)]]

Return(h) == calls' = [calls EXCEPT ![h] = Idle]

-----------------------------------------------------------------------------
(* The operations.  A user reaches a conversation by its id, a closed one  *)
(* is not found; the lifecycle of the order reaches it by the order.       *)

\* Mutant: findConversationById without status: Not('closed').
FoundByAnyId == TRUE

\* findConversationById
FoundById == conversation.status # "closed"

\* Mutant: the recipient is told before the message is stored.
SendMessageAnnounced(h, user) ==
  /\ FoundById
  /\ Start(h, "sendMessage", user, 0, "active",
           <<"publish", "saveMessage", "load", "count", "load", "touch">>)

SendMessage(h, user) ==
  /\ FoundById
  /\ Start(h, "sendMessage", user, 0, "active",
           <<"saveMessage", "load", "count", "load", "touch", "publish">>)

MarkMessageAsRead(h, user) ==
  /\ FoundById
  /\ \E i \in DOMAIN messages :
       Start(h, "markMessageAsRead", user, i, "active", <<"findMessages", "saveReceipts">>)

MarkConversationRead(h, user) ==
  /\ FoundById
  /\ Start(h, "markConversationRead", user, 0, "active",
           <<"load", "reset", "findMessages", "saveReceipts">>)

\* PATCH /conversations/:id/archive and unarchive.
SetConversationStatus(h, user) ==
  /\ FoundById
  /\ \E to \in {"active", "archived"} :
       Start(h, "setConversationStatus", user, 0, to, <<"load", "setStatus">>)

\* The flag itself is left out: what remains is the entity that is saved again.
SetTyping(h, user) ==
  /\ FoundById
  /\ Start(h, "setTyping", user, 0, "active", <<"load", "rewrite">>)

JoinConversation(h, user) ==
  /\ FoundById
  /\ Start(h, "joinConversation", user, 0, "active", <<"load", "join">>)

\* leftAt is left out too.  Nothing is checked before.
LeaveConversation(h, user) ==
  Start(h, "leaveConversation", user, 0, "active", <<"load", "rewrite">>)

CloseConversationForOrder(h) ==
  /\ conversation.status # "closed"
  /\ Start(h, "closeConversationForOrder", System, 0, "closed", <<"load", "setStatus">>)

ReopenConversationForOrder(h) ==
  /\ conversation.status = "closed"
  /\ Start(h, "reopenConversationForOrder", System, 0, "active", <<"load", "setStatus">>)

PostRefundMessage(h) ==
  Start(h, "postRefundMessage", System, 0, "requested",
        <<"saveMessage", "load", "count", "load", "touch">>)

ResolveRefundMessage(h) ==
  \E kind \in {"approved", "rejected"} :
    Start(h, "resolveRefundMessage", System, 0, kind,
          <<"findMessages", "saveCard", "load", "touch">>)

-----------------------------------------------------------------------------
(* The repository calls.                                                   *)

\* saveMessage of a new message.
SaveMessage(h) ==
  LET c == calls[h]
      kind == IF c.user = System THEN "requested" ELSE "text"
  IN
  /\ Doing(h, "saveMessage")
  /\ messages' = Append(messages, [sender |-> c.user, kind |-> kind, readers |-> {}])
  /\ Proceed(h, [c EXCEPT !.target = Len(messages) + 1])
  /\ UNCHANGED <<conversation, sentEvents, started, faults, overlapped, cutShort>>

\* findOne, by the id of the conversation: closed or not.
Load(h) ==
  /\ Doing(h, "load")
  /\ Proceed(h, [calls[h] EXCEPT !.entity = conversation])
  /\ UNCHANGED <<conversation, messages, sentEvents, started, faults, overlapped, cutShort>>

\* Mutant: the counter of the sender is incremented too.
CountsForAll(c) == c.entity.members

\* incrementUnreadCounts leaves the sender out.
CountsFor(c) == c.entity.members \ {c.user}

\* What the update makes of the entity that it loaded.
Edited(c) ==
  CASE Head(c.todo) = "count" ->
         [c.entity EXCEPT !.unread = [u \in Users |-> IF u \in CountsFor(c) THEN @[u] + 1 ELSE @[u]]]
    [] Head(c.todo) = "reset" ->
         [c.entity EXCEPT !.unread[c.user] = 0]
    [] Head(c.todo) = "touch" -> [c.entity EXCEPT !.status = c.seen]
    [] Head(c.todo) = "setStatus" -> [c.entity EXCEPT !.status = c.to]
    [] Head(c.todo) = "join" /\ c.user \notin c.entity.members ->
         [c.entity EXCEPT !.members = @ \cup {c.user}, !.joined[c.user] = Len(messages)]
    [] OTHER -> c.entity

\* Mutant: the participants that the entity does not know are deleted.
SaveEntityOrphans(h) ==
  /\ \E step \in Edits : Doing(h, step)
  /\ conversation' = Edited(calls[h])
  /\ Proceed(h, calls[h])
  /\ UNCHANGED <<messages, sentEvents, started, faults, overlapped, cutShort>>

\* conversations.save(entity): every column that differs from the row is written,
\* those of the participants included.
SaveEntity(h) ==
  /\ \E step \in Edits : Doing(h, step)
  /\ conversation.members \subseteq calls[h].entity.members
  /\ conversation' = Edited(calls[h])
  /\ Proceed(h, calls[h])
  /\ UNCHANGED <<messages, sentEvents, started, faults, overlapped, cutShort>>

\* A participant that joined since the findOne would be orphaned, and
\* conversation_id is NOT NULL: the save fails, and the operation with it.
SaveEntityRefused(h) ==
  /\ \E step \in Edits : Doing(h, step)
  /\ ~(conversation.members \subseteq calls[h].entity.members)
  /\ Return(h)
  /\ cutShort' = TRUE
  /\ UNCHANGED <<conversation, messages, sentEvents, started, faults, overlapped>>

\* Mutant: the user's own messages are marked, those of others are not.
SelectedOwn(c) ==
  CASE c.op = "markMessageAsRead" -> {c.target}
    [] c.op = "markConversationRead" ->
         {i \in DOMAIN messages : messages[i].sender = c.user /\ c.user \notin messages[i].readers}
    [] OTHER -> {}

\* The message to mark, those of others that the user has not read, the last card.
Selected(c) ==
  CASE c.op = "markMessageAsRead" -> {c.target}
    [] c.op = "markConversationRead" ->
         {i \in DOMAIN messages : messages[i].sender # c.user /\ c.user \notin messages[i].readers}
    [] OTHER ->
         LET cards == {i \in DOMAIN messages : messages[i].kind # "text"}
         IN  {i \in cards : \A j \in cards : j <= i}

\* Nothing to mark, or no card to resolve: the operation returns.
FindMessages(h) ==
  LET c == calls[h] IN
  /\ Doing(h, "findMessages")
  /\ IF Selected(c) = {} THEN Return(h)
     ELSE Proceed(h, [c EXCEPT !.found = {[at |-> i, row |-> messages[i]] : i \in Selected(c)}])
  /\ UNCHANGED <<conversation, messages, sentEvents, started, faults, overlapped, cutShort>>

\* The messages that were read, changed and saved as a whole.
SaveMessages(h) ==
  LET c == calls[h]
      new(m) == IF Doing(h, "saveCard") THEN [m EXCEPT !.kind = c.to]
                                        ELSE [m EXCEPT !.readers = @ \cup {c.user}]
  IN
  /\ Doing(h, "saveReceipts") \/ Doing(h, "saveCard")
  /\ messages' = [i \in DOMAIN messages |->
                    IF \E f \in c.found : f.at = i
                    THEN new((CHOOSE f \in c.found : f.at = i).row) ELSE messages[i]]
  /\ Proceed(h, c)
  /\ UNCHANGED <<conversation, sentEvents, started, faults, overlapped, cutShort>>

\* Mutant: the recipient is told only if the conversation is still found.
PublishSentIfFound(h) ==
  /\ Doing(h, "publish")
  /\ sentEvents' = IF FoundById THEN Append(sentEvents, calls[h].target) ELSE sentEvents
  /\ Proceed(h, calls[h])
  /\ UNCHANGED <<conversation, messages, started, faults, overlapped, cutShort>>

\* order.chat.message.sent, the last step of sendMessage.
PublishSent(h) ==
  /\ Doing(h, "publish")
  /\ sentEvents' = Append(sentEvents, calls[h].target)
  /\ Proceed(h, calls[h])
  /\ UNCHANGED <<conversation, messages, started, faults, overlapped, cutShort>>

\* The process dies, or an awaited call rejects: the rest of the call is lost.
Abort(h) ==
  /\ calls[h] # Idle
  /\ faults < MaxFaults
  /\ faults' = faults + 1
  /\ Return(h)
  /\ cutShort' = TRUE
  /\ UNCHANGED <<conversation, messages, sentEvents, started, overlapped>>

-----------------------------------------------------------------------------
(* The specification.                                                      *)

UserRequest(h, user) ==
  \/ SendMessage(h, user) \/ MarkMessageAsRead(h, user) \/ MarkConversationRead(h, user)
  \/ SetConversationStatus(h, user) \/ SetTyping(h, user)
  \/ JoinConversation(h, user) \/ LeaveConversation(h, user)

OrderEvent(h) ==
  \/ CloseConversationForOrder(h) \/ ReopenConversationForOrder(h)
  \/ PostRefundMessage(h) \/ ResolveRefundMessage(h)

Step(h) ==
  \/ SaveMessage(h) \/ Load(h) \/ SaveEntity(h) \/ SaveEntityRefused(h)
  \/ FindMessages(h) \/ SaveMessages(h) \/ PublishSent(h)

Next ==
  \E h \in Handlers :
    \/ \E user \in Users : UserRequest(h, user)
    \/ OrderEvent(h) \/ Step(h) \/ Abort(h)

Spec == Init /\ [][Next]_vars

-----------------------------------------------------------------------------
(* What the conversation promises.                                         *)

(* A conversation that was closed with its order comes back only by a      *)
(* reopening, or by a call that has read it while it was open: no request  *)
(* that starts afterwards, and no card of a refund, opens it again.        *)
ClosedStaysClosed ==
  [][conversation.status = "closed" /\ conversation'.status # "closed" =>
       \E h \in Handlers : /\ calls[h] # Idle /\ calls'[h] # calls[h]
                          /\ \/ calls[h].op = "reopenConversationForOrder"
                             \/ calls[h].seen # "closed"
                             \/ calls[h].entity.status # "closed"]_vars

(* The badge of a participant never shows more than there is to read: no   *)
(* message is counted twice, nor for its own sender, whatever stale        *)
(* entities are saved over each other.                                     *)
NeverOvercounts ==
  \A u \in conversation.members :
    conversation.unread[u] <= Cardinality({i \in DOMAIN messages : messages[i].sender # u})

(* As long as the calls on a conversation follow one another and none      *)
(* fails, the badge of a participant counts every message of the others    *)
(* that came since the participant joined and is not marked as read.       *)
UnreadIsShown ==
  Quiet /\ ~overlapped /\ ~cutShort =>
    \A u \in conversation.members :
      conversation.unread[u] >=
        Cardinality({i \in DOMAIN messages : /\ i > conversation.joined[u]
                                            /\ messages[i].sender # u
                                            /\ u \notin messages[i].readers})

(* Once its calls are over, and none was cut short, notifications-service  *)
(* has been told exactly once of each message that a user sent, also when  *)
(* the conversation was closed in between.                                 *)
StoredIsAnnounced ==
  Quiet /\ ~cutShort =>
    \A i \in DOMAIN messages :
      Cardinality({k \in DOMAIN sentEvents : sentEvents[k] = i})
        = IF messages[i].sender = System THEN 0 ELSE 1

(* Nobody who takes part in a conversation drops out of it: the save of an *)
(* entity that was read before somebody joined fails, and removes nobody.  *)
MembersNeverLost == [][conversation.members \subseteq conversation'.members]_vars

-----------------------------------------------------------------------------
(* The inductive invariant: what a call carries is fit for each step that  *)
(* it still has to do.                                                     *)

Fit(c, step) ==
  /\ step \in {"join", "saveReceipts"} => c.user \in Users
  /\ step = "saveCard" => c.to \in RefundMessageKind
  /\ step = "findMessages" /\ c.op = "markMessageAsRead" => c.target # 0
  /\ step = "setStatus" =>
       /\ c.to \in ConversationStatus
       /\ c.seen = "closed" /\ c.to # "closed" => c.op = "reopenConversationForOrder"

\* A message is stored before it is announced, and only once.
TodoOK(c) ==
  \A k \in DOMAIN c.todo :
    /\ Fit(c, c.todo[k])
    /\ c.todo[k] = "saveMessage" => k = 1
    /\ c.todo[k] = "publish" => c.target # 0 \/ c.todo[1] = "saveMessage"

InductiveInvariant ==
  TypeOK /\ \A h \in Handlers : calls[h] # Idle => TodoOK(calls[h])

=============================================================================
