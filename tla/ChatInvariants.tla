--------------------------- MODULE ChatInvariants ---------------------------
(***************************************************************************)
(* The inductive invariants behind the promises of Communication: which    *)
(* message a call is about, what the counters may show while entities that *)
(* were read earlier are saved over each other, which messages are still   *)
(* to be announced, and what holds as long as no two calls overlap.        *)
(***************************************************************************)
EXTENDS Communication

-----------------------------------------------------------------------------
(* Where a call stands in its operation.                                   *)

\* The repository calls of each operation, in their order.
Script ==
  [op \in {"sendMessage", "markMessageAsRead", "markConversationRead", "setConversationStatus",
           "setTyping", "joinConversation", "leaveConversation", "closeConversationForOrder",
           "reopenConversationForOrder", "postRefundMessage", "resolveRefundMessage"} |->
     CASE op = "sendMessage"          -> <<"saveMessage", "load", "count", "load", "touch", "publish">>
       [] op = "postRefundMessage"    -> <<"saveMessage", "load", "count", "load", "touch">>
       [] op = "markMessageAsRead"    -> <<"findMessages", "saveReceipts">>
       [] op = "markConversationRead" -> <<"load", "reset", "findMessages", "saveReceipts">>
       [] op = "resolveRefundMessage" -> <<"findMessages", "saveCard", "load", "touch">>
       [] op = "joinConversation"     -> <<"load", "join">>
       [] op \in {"setTyping", "leaveConversation"} -> <<"load", "rewrite">>
       [] OTHER                       -> <<"load", "setStatus">>]

\* The place in its script of the step that a call does next.
Place(c) == 1 + Len(Script[c.op]) - Len(c.todo)

OnScript(c) ==
  /\ c.op \in DOMAIN Script
  /\ Place(c) \in 1..Len(Script[c.op])
  /\ \A k \in DOMAIN c.todo : c.todo[k] = Script[c.op][Place(c) + k - 1]

-----------------------------------------------------------------------------
(* Messages.                                                               *)

WritingOps == {"sendMessage", "postRefundMessage"}

\* A call that has stored a message of its own; that has still to count it, or
\* to announce it.
Wrote(c) == c.op \in WritingOps /\ Place(c) >= 2
Counting(c) == c.op \in WritingOps /\ Place(c) \in 2..3
Announcing(c) == c.op = "sendMessage" /\ Place(c) >= 2

\* The sender of a message stays, whatever copy of it a call may save.
KnowsMessages(c) ==
  /\ c.op \in {"sendMessage", "markConversationRead"} => c.user \in Users
  /\ c.op = "postRefundMessage" => c.user = System
  /\ Wrote(c) => c.target \in DOMAIN messages /\ messages[c.target].sender = c.user
  /\ \A f \in c.found : f.at \in DOMAIN messages /\ f.row.sender = messages[f.at].sender

OneWriter ==
  \A g, h \in Handlers :
    /\ calls[g] # Idle /\ Wrote(calls[g]) /\ calls[h] # Idle /\ Wrote(calls[h])
    /\ calls[g].target = calls[h].target
    => g = h

MessagesInvariant ==
  /\ \A h \in Handlers : calls[h] # Idle => OnScript(calls[h]) /\ KnowsMessages(calls[h])
  /\ OneWriter

-----------------------------------------------------------------------------
(* Counters: an entity, however old, counts no message that is still to be *)
(* counted.                                                                *)

FromOthers(u) == {i \in DOMAIN messages : messages[i].sender # u}
Counters == {h \in Handlers : calls[h] # Idle /\ Counting(calls[h])}
Uncounted == {calls[h].target : h \in Counters}

CountsNoMore(entity) ==
  \A u \in Users : entity.unread[u] <= Cardinality(FromOthers(u) \ Uncounted)

CountsInvariant ==
  /\ CountsNoMore(conversation)
  /\ \A h \in Handlers : calls[h] # Idle => CountsNoMore(calls[h].entity)

-----------------------------------------------------------------------------
(* Announcements.                                                          *)

Announcements(i) == {k \in DOMAIN sentEvents : sentEvents[k] = i}
Announcers(i) == {h \in Handlers : /\ calls[h] # Idle /\ Announcing(calls[h])
                                  /\ calls[h].target = i}

\* Announced once, or about to be, or neither: a message of the system, or one
\* whose call was cut short.
ToldOnce(i) ==
  /\ \A k, l \in Announcements(i) : k = l
  /\ Announcements(i) # {} => Announcers(i) = {} /\ messages[i].sender # System
  /\ messages[i].sender # System /\ ~cutShort => Announcements(i) # {} \/ Announcers(i) # {}

ToldInvariant == \A i \in DOMAIN messages : ToldOnce(i)

-----------------------------------------------------------------------------
(* One call after another.                                                 *)

\* A participant's counter was reset, and the receipts are still to be saved.
Resetting(c) == c.op = "markConversationRead" /\ Place(c) >= 3

Row(i) == [at |-> i, row |-> messages[i]]
UnreadBy(u) == {i \in FromOthers(u) : u \notin messages[i].readers}

\* What the only call in progress has read is what is stored.
UpToDate(c) ==
  /\ c.todo[1] \in Edits => c.entity = conversation
  /\ c.todo[1] \in {"saveReceipts", "saveCard"} => \A f \in c.found : f = Row(f.at)
  /\ Resetting(c) /\ c.todo[1] = "saveReceipts" =>
       \A i \in UnreadBy(c.user) : Row(i) \in c.found

\* What the badge of a participant should count.
Due(u) == {i \in UnreadBy(u) : i > conversation.joined[u]}

Exempt(u) == \E h \in Handlers : calls[h] # Idle /\ Resetting(calls[h]) /\ calls[h].user = u

Shown(u) == conversation.unread[u] >= Cardinality(Due(u) \ Uncounted)

SequentialInvariant ==
  ~overlapped =>
    /\ \A g, h \in Handlers : calls[g] # Idle /\ calls[h] # Idle => g = h
    /\ \A h \in Handlers : calls[h] # Idle => UpToDate(calls[h])
    /\ ~cutShort => \A u \in conversation.members : Exempt(u) \/ Shown(u)

=============================================================================
