------------------------ MODULE CommunicationProofs ------------------------
(***************************************************************************)
(* Proofs about Communication, for any customer, staff and handlers, any   *)
(* operations and any bounds.                                              *)
(***************************************************************************)
EXTENDS ChatInvariants, FiniteSetTheorems, SequenceTheorems, TLAPS

-----------------------------------------------------------------------------
(* What remains of a call.                                                 *)

\* A call that moves on carries the same data and has one step less to do.
LEMMA TailFit ==
  ASSUME NEW c \in Call, TodoOK(c), Len(c.todo) # 1, c.todo[1] = "saveMessage" => c.target # 0,
         NEW d, d = [c EXCEPT !.todo = Tail(@)]
  PROVE  d \in Call /\ TodoOK(d) /\ d.target = c.target
<1> DEFINE T == Tail(c.todo)
<1>1. c.todo \in Seq(Steps) /\ c.todo # <<>>
  BY DEF Call
<1>2. Len(c.todo) \in Nat /\ Len(c.todo) # 0
  BY <1>1, EmptySeq, LenProperties
<1>3. T \in Seq(Steps) /\ Len(T) = Len(c.todo) - 1 /\ \A k \in 1..Len(T) : T[k] = c.todo[k + 1]
  BY <1>1, HeadTailProperties
<1>4. Len(T) # 0
  BY <1>2, <1>3
<1>5. T # <<>>
  BY <1>4, EmptySeq
<1> HIDE DEF T
<1>6. d \in Call /\ d.todo = T /\ d.target = c.target
  BY <1>3, <1>5 DEF Call, T
<1>7. d.user = c.user /\ d.to = c.to /\ d.seen = c.seen /\ d.op = c.op /\ d.target = c.target
  BY DEF Call
<1>8. ASSUME NEW k \in DOMAIN T
      PROVE  /\ Fit(d, T[k])
             /\ T[k] = "saveMessage" => k = 1
             /\ T[k] = "publish" => d.target # 0 \/ T[1] = "saveMessage"
  <2>1. k \in Nat /\ k \in 1..Len(T) /\ k + 1 \in DOMAIN c.todo /\ T[k] = c.todo[k + 1]
    BY <1>1, <1>2, <1>3, LenProperties
  <2>2. Fit(c, T[k])
    BY <2>1 DEF TodoOK
  <2>3. Fit(d, T[k])
    BY <2>2, <1>7 DEF Fit
  <2>4. T[k] # "saveMessage"
    BY <2>1 DEF TodoOK
  <2>5. T[k] = "publish" => c.target # 0 \/ c.todo[1] = "saveMessage"
    BY <2>1 DEF TodoOK
  <2> QED  BY <2>3, <2>4, <2>5, <1>6
<1> QED  BY <1>6, <1>8 DEF TodoOK

\* A conversation that is created is well formed.
LEMMA CreatedWellFormed == Created \in Conversation
BY CommunicationAssumed DEF Created, Conversation, ConversationStatus, Users,
   CommunicationAssumption

LEMMA InitInvariant == Init => InductiveInvariant
<1> SUFFICES ASSUME Init PROVE InductiveInvariant
  OBVIOUS
<1>1. conversation \in Conversation
  BY CreatedWellFormed DEF Init
<1>2. messages \in Seq(Message) /\ sentEvents \in Seq(1..Len(messages))
  BY DEF Init
<1>3. calls \in [Handlers -> Call \cup {Idle}] /\ \A h \in Handlers : calls[h] = Idle
  BY DEF Init
<1>4. MaxCalls \in Nat /\ MaxFaults \in Nat
  BY CommunicationAssumed DEF CommunicationAssumption
<1>5. started \in 0..MaxCalls /\ faults \in 0..MaxFaults
  BY <1>4 DEF Init
<1>6. {overlapped, cutShort} \subseteq BOOLEAN
  BY DEF Init
<1> QED  BY <1>1, <1>2, <1>3, <1>5, <1>6 DEF InductiveInvariant, TypeOK

-----------------------------------------------------------------------------
(* A call begins.                                                          *)

\* Starting a call whose steps are fit preserves the invariant.
LEMMA StartInvariant ==
  ASSUME InductiveInvariant, NEW h \in Handlers, NEW op, NEW user \in Users \cup {System},
         NEW target \in 0..Len(messages), NEW to \in ConversationStatus \cup RefundMessageKind,
         NEW todo \in Seq(Steps) \ {<<>>}, Start(h, op, user, target, to, todo),
         \A k \in DOMAIN todo :
           /\ todo[k] \in {"join", "saveReceipts"} => user \in Users
           /\ todo[k] = "saveCard" => to \in RefundMessageKind
           /\ todo[k] = "findMessages" /\ op = "markMessageAsRead" => target # 0
           /\ todo[k] = "setStatus" =>
                /\ to \in ConversationStatus
                /\ conversation.status = "closed" /\ to # "closed"
                     => op = "reopenConversationForOrder"
           /\ todo[k] = "saveMessage" => k = 1
           /\ todo[k] = "publish" => todo[1] = "saveMessage"
  PROVE  InductiveInvariant'
<1> DEFINE new == [op |-> op, user |-> user, todo |-> todo, seen |-> conversation.status,
                   entity |-> conversation, found |-> {}, target |-> target, to |-> to]
<1> USE DEF InductiveInvariant
<1>1. calls' = [calls EXCEPT ![h] = new] /\ op \in Ops /\ started' = started + 1
      /\ started < MaxCalls /\ overlapped' = (overlapped \/ ~Quiet)
      /\ UNCHANGED <<conversation, messages, sentEvents, faults, cutShort>>
  BY DEF Start
<1>2. conversation.status \in ConversationStatus /\ target \in Nat
  BY LenProperties DEF TypeOK, Conversation
<1>3. new \in Call
  BY <1>1, <1>2 DEF TypeOK, Call
<1>4. TodoOK(new)
  BY DEF TodoOK, Fit
<1>5. new.target = target /\ target <= Len(messages)
  BY LenProperties DEF TypeOK
<1> HIDE DEF new
<1>6. calls' \in [Handlers -> Call \cup {Idle}]
  BY <1>1, <1>3 DEF TypeOK
<1>7. \A g \in Handlers : calls'[g] # Idle => calls'[g].target <= Len(messages) /\ TodoOK(calls'[g])
  BY <1>1, <1>4, <1>5 DEF TypeOK
<1>8. started' \in 0..MaxCalls
  BY <1>1, CommunicationAssumed DEF TypeOK, CommunicationAssumption
<1>9. overlapped' \in BOOLEAN
  BY <1>1 DEF TypeOK
<1>10. TypeOK'
  BY <1>1, <1>6, <1>7, <1>8, <1>9 DEF TypeOK
<1>11. \A g \in Handlers : (calls[g] # Idle => TodoOK(calls[g]))'
  BY <1>7
<1> QED  BY <1>10, <1>11

\* Every operation of a user, and every event of the order, starts such a call.
LEMMA RequestInvariant ==
  ASSUME InductiveInvariant, NEW h \in Handlers, NEW user \in Users, UserRequest(h, user)
  PROVE  InductiveInvariant'
<1> DEFINE Ready(op, target, to, todo) ==
      target \in 0..Len(messages) /\ Start(h, op, user, target, to, todo)
<1>1. Len(messages) \in Nat /\ 0 \in 0..Len(messages)
  BY LenProperties DEF InductiveInvariant, TypeOK
<1>2. CASE SendMessage(h, user)
  <2> DEFINE todo == <<"saveMessage", "load", "count", "load", "touch", "publish">>
  <2>1. todo \in Seq(Steps) \ {<<>>}
    BY DEF Steps, Edits
  <2>2. Start(h, "sendMessage", user, 0, "active", todo)
    BY <1>2 DEF SendMessage
  <2>3. \A k \in DOMAIN todo : /\ todo[k] \notin {"join", "saveReceipts", "saveCard", "setStatus"}
                               /\ todo[k] = "saveMessage" => k = 1
                               /\ todo[1] = "saveMessage"
    OBVIOUS
  <2> HIDE DEF todo
  <2> QED  BY <2>1, <2>2, <2>3, <1>1, StartInvariant DEF ConversationStatus
<1>3. CASE MarkMessageAsRead(h, user)
  <2> DEFINE todo == <<"findMessages", "saveReceipts">>
  <2>1. todo \in Seq(Steps) \ {<<>>}
    BY DEF Steps, Edits
  <2>2. PICK i \in DOMAIN messages : Start(h, "markMessageAsRead", user, i, "active", todo)
    BY <1>3 DEF MarkMessageAsRead
  <2>3. i \in 0..Len(messages) /\ i # 0
    BY LenProperties DEF InductiveInvariant, TypeOK
  <2>4. \A k \in DOMAIN todo : todo[k] \notin {"saveCard", "setStatus", "saveMessage", "publish"}
    OBVIOUS
  <2> HIDE DEF todo
  <2> QED  BY <2>1, <2>2, <2>3, <2>4, StartInvariant DEF ConversationStatus
<1>4. CASE MarkConversationRead(h, user)
  <2> DEFINE todo == <<"load", "reset", "findMessages", "saveReceipts">>
  <2>1. todo \in Seq(Steps) \ {<<>>}
    BY DEF Steps, Edits
  <2>2. Start(h, "markConversationRead", user, 0, "active", todo)
    BY <1>4 DEF MarkConversationRead
  <2>3. \A k \in DOMAIN todo : todo[k] \notin {"saveCard", "setStatus", "saveMessage", "publish"}
    OBVIOUS
  <2> HIDE DEF todo
  <2> QED  BY <2>1, <2>2, <2>3, <1>1, StartInvariant DEF ConversationStatus
<1>5. CASE SetConversationStatus(h, user)
  <2> DEFINE todo == <<"load", "setStatus">>
  <2>1. todo \in Seq(Steps) \ {<<>>}
    BY DEF Steps, Edits
  <2>2. PICK to \in {"active", "archived"} : Start(h, "setConversationStatus", user, 0, to, todo)
    BY <1>5 DEF SetConversationStatus
  <2>3. conversation.status # "closed" /\ to \in ConversationStatus
    BY <1>5 DEF SetConversationStatus, FoundById, ConversationStatus
  <2>4. \A k \in DOMAIN todo : todo[k] \in {"load", "setStatus"}
    OBVIOUS
  <2> HIDE DEF todo
  <2> QED  BY <2>1, <2>2, <2>3, <2>4, <1>1, StartInvariant
<1>6. CASE SetTyping(h, user)
  <2> DEFINE todo == <<"load", "rewrite">>
  <2>1. todo \in Seq(Steps) \ {<<>>}
    BY DEF Steps, Edits
  <2>2. Start(h, "setTyping", user, 0, "active", todo)
    BY <1>6 DEF SetTyping
  <2>3. \A k \in DOMAIN todo : todo[k] \in {"load", "rewrite"}
    OBVIOUS
  <2> HIDE DEF todo
  <2> QED  BY <2>1, <2>2, <2>3, <1>1, StartInvariant DEF ConversationStatus
<1>7. CASE JoinConversation(h, user)
  <2> DEFINE todo == <<"load", "join">>
  <2>1. todo \in Seq(Steps) \ {<<>>}
    BY DEF Steps, Edits
  <2>2. Start(h, "joinConversation", user, 0, "active", todo)
    BY <1>7 DEF JoinConversation
  <2>3. \A k \in DOMAIN todo : todo[k] \in {"load", "join"}
    OBVIOUS
  <2> HIDE DEF todo
  <2> QED  BY <2>1, <2>2, <2>3, <1>1, StartInvariant DEF ConversationStatus
<1>8. CASE LeaveConversation(h, user)
  <2> DEFINE todo == <<"load", "rewrite">>
  <2>1. todo \in Seq(Steps) \ {<<>>}
    BY DEF Steps, Edits
  <2>2. Start(h, "leaveConversation", user, 0, "active", todo)
    BY <1>8 DEF LeaveConversation
  <2>3. \A k \in DOMAIN todo : todo[k] \in {"load", "rewrite"}
    OBVIOUS
  <2> HIDE DEF todo
  <2> QED  BY <2>1, <2>2, <2>3, <1>1, StartInvariant DEF ConversationStatus
<1> QED  BY <1>2, <1>3, <1>4, <1>5, <1>6, <1>7, <1>8 DEF UserRequest

LEMMA OrderEventInvariant ==
  ASSUME InductiveInvariant, NEW h \in Handlers, OrderEvent(h)
  PROVE  InductiveInvariant'
<1>1. 0 \in 0..Len(messages)
  BY LenProperties DEF InductiveInvariant, TypeOK
<1>2. CASE CloseConversationForOrder(h)
  <2> DEFINE todo == <<"load", "setStatus">>
  <2>1. todo \in Seq(Steps) \ {<<>>}
    BY DEF Steps, Edits
  <2>2. Start(h, "closeConversationForOrder", System, 0, "closed", todo)
    BY <1>2 DEF CloseConversationForOrder
  <2>3. \A k \in DOMAIN todo : todo[k] \in {"load", "setStatus"}
    OBVIOUS
  <2> HIDE DEF todo
  <2> QED  BY <2>1, <2>2, <2>3, <1>1, StartInvariant DEF ConversationStatus
<1>3. CASE ReopenConversationForOrder(h)
  <2> DEFINE todo == <<"load", "setStatus">>
  <2>1. todo \in Seq(Steps) \ {<<>>}
    BY DEF Steps, Edits
  <2>2. Start(h, "reopenConversationForOrder", System, 0, "active", todo)
    BY <1>3 DEF ReopenConversationForOrder
  <2>3. \A k \in DOMAIN todo : todo[k] \in {"load", "setStatus"}
    OBVIOUS
  <2> HIDE DEF todo
  <2> QED  BY <2>1, <2>2, <2>3, <1>1, StartInvariant DEF ConversationStatus
<1>4. CASE PostRefundMessage(h)
  <2> DEFINE todo == <<"saveMessage", "load", "count", "load", "touch">>
  <2>1. todo \in Seq(Steps) \ {<<>>}
    BY DEF Steps, Edits
  <2>2. Start(h, "postRefundMessage", System, 0, "requested", todo)
    BY <1>4 DEF PostRefundMessage
  <2>3. \A k \in DOMAIN todo : /\ todo[k] \in {"saveMessage", "load", "count", "touch"}
                               /\ todo[k] = "saveMessage" => k = 1
    OBVIOUS
  <2> HIDE DEF todo
  <2> QED  BY <2>1, <2>2, <2>3, <1>1, StartInvariant DEF RefundMessageKind
<1>5. CASE ResolveRefundMessage(h)
  <2> DEFINE todo == <<"findMessages", "saveCard", "load", "touch">>
  <2>1. todo \in Seq(Steps) \ {<<>>}
    BY DEF Steps, Edits
  <2>2. PICK kind \in {"approved", "rejected"} :
          Start(h, "resolveRefundMessage", System, 0, kind, todo)
    BY <1>5 DEF ResolveRefundMessage
  <2>3. \A k \in DOMAIN todo : todo[k] \in {"findMessages", "saveCard", "load", "touch"}
    OBVIOUS
  <2>4. kind \in RefundMessageKind
    BY DEF RefundMessageKind
  <2> HIDE DEF todo
  <2> QED  BY <2>1, <2>2, <2>3, <2>4, <1>1, StartInvariant
<1> QED  BY <1>2, <1>3, <1>4, <1>5 DEF OrderEvent

-----------------------------------------------------------------------------
(* A call goes on.                                                         *)

\* The step that a call is at is the first of those that it still has to do.
LEMMA AtStep ==
  ASSUME InductiveInvariant, NEW h \in Handlers, NEW step, Doing(h, step)
  PROVE  /\ calls[h] \in Call /\ TodoOK(calls[h]) /\ calls[h].target <= Len(messages)
         /\ calls[h].todo[1] = step /\ Head(calls[h].todo) = step
         /\ Fit(calls[h], step)
         /\ step = "publish" => calls[h].target # 0
<1> DEFINE c == calls[h]
<1>1. c \in Call /\ TodoOK(c) /\ c.target <= Len(messages) /\ Head(c.todo) = step
  BY DEF InductiveInvariant, TypeOK, Doing
<1>2. c.todo \in Seq(Steps) /\ c.todo # <<>>
  BY <1>1 DEF Call
<1>3. Head(c.todo) = c.todo[1] /\ 1 \in DOMAIN c.todo
  BY <1>2, EmptySeq, LenProperties, HeadTailProperties
<1> HIDE DEF c
<1>4. Fit(c, step) /\ (step = "publish" => c.target # 0)
  BY <1>1, <1>3 DEF TodoOK
<1> QED  BY <1>1, <1>3, <1>4 DEF c

\* Moving on keeps the calls fit, and moves no other call.
LEMMA ProceedFit ==
  ASSUME InductiveInvariant, NEW h \in Handlers, NEW c \in Call, TodoOK(c),
         c.todo[1] = "saveMessage" => c.target # 0, Proceed(h, c)
  PROVE  /\ calls' \in [Handlers -> Call \cup {Idle}]
         /\ \A g \in Handlers : calls'[g] # Idle =>
              TodoOK(calls'[g]) /\ calls'[g].target \in {calls[g].target, c.target}
         /\ \A g \in Handlers : calls'[g] # Idle /\ g # h => calls'[g] = calls[g]
         /\ calls'[h] # Idle => calls'[h].target = c.target
<1>1. calls \in [Handlers -> Call \cup {Idle}] /\ \A g \in Handlers : calls[g] # Idle => TodoOK(calls[g])
  BY DEF InductiveInvariant, TypeOK
<1>2. CASE Len(c.todo) = 1
  <2>1. calls' = [calls EXCEPT ![h] = Idle]
    BY <1>2 DEF Proceed
  <2> QED  BY <1>1, <2>1
<1>3. CASE Len(c.todo) # 1
  <2> DEFINE d == [c EXCEPT !.todo = Tail(@)]
  <2>1. d \in Call /\ TodoOK(d) /\ d.target = c.target
    BY <1>3, TailFit
  <2>2. calls' = [calls EXCEPT ![h] = d]
    BY <1>3 DEF Proceed
  <2> HIDE DEF d
  <2> QED  BY <1>1, <2>1, <2>2
<1> QED  BY <1>2, <1>3

LEMMA ReturnFit ==
  ASSUME InductiveInvariant, NEW h \in Handlers, Return(h)
  PROVE  /\ calls' \in [Handlers -> Call \cup {Idle}]
         /\ \A g \in Handlers : calls'[g] # Idle =>
              TodoOK(calls'[g]) /\ calls'[g].target = calls[g].target /\ calls[g] # Idle
BY DEF InductiveInvariant, TypeOK, Return

\* A sequence of message numbers stays one when messages are added.
LEMMA NumbersGrow ==
  ASSUME NEW m \in Nat, NEW n \in Nat, m <= n, NEW s \in Seq(1..m)
  PROVE  s \in Seq(1..n)
BY ElementOfSeq, SeqDef

\* What an update makes of a conversation is a conversation.
LEMMA EditedTyped ==
  ASSUME InductiveInvariant, NEW h \in Handlers, NEW step \in Edits, Doing(h, step)
  PROVE  Edited(calls[h]) \in Conversation
<1> DEFINE c == calls[h]
           e == c.entity
<1>1. c \in Call /\ Head(c.todo) = step /\ Fit(c, step)
  BY AtStep
<1>2. e \in Conversation /\ c.seen \in ConversationStatus /\ Len(messages) \in Nat
  BY <1>1, LenProperties DEF Call, InductiveInvariant, TypeOK
<1> HIDE DEF c, e
<1>3. CASE step = "count"
  <2> DEFINE f == [u \in Users |-> IF u \in CountsFor(c) THEN e.unread[u] + 1 ELSE e.unread[u]]
  <2>1. Edited(c) = [e EXCEPT !.unread = f]
    BY <1>1, <1>3 DEF Edited, e
  <2>2. f \in [Users -> Nat]
    BY <1>2 DEF Conversation
  <2> HIDE DEF f
  <2>3. [e EXCEPT !.unread = f] \in Conversation
    BY <2>2, <1>2 DEF Conversation
  <2> QED  BY <2>1, <2>3 DEF c
<1>4. CASE step = "reset"
  <2> DEFINE f == [e.unread EXCEPT ![c.user] = 0]
  <2>1. Edited(c) = [e EXCEPT !.unread = f]
    BY <1>1, <1>4 DEF Edited, e
  <2>2. f \in [Users -> Nat]
    BY <1>2 DEF Conversation
  <2> HIDE DEF f
  <2>3. [e EXCEPT !.unread = f] \in Conversation
    BY <2>2, <1>2 DEF Conversation
  <2> QED  BY <2>1, <2>3 DEF c
<1>5. CASE step = "touch"
  <2>1. Edited(c) = [e EXCEPT !.status = c.seen]
    BY <1>1, <1>5 DEF Edited, e
  <2> QED  BY <2>1, <1>2 DEF Conversation, c
<1>6. CASE step = "setStatus"
  <2>1. Edited(c) = [e EXCEPT !.status = c.to]
    BY <1>1, <1>6 DEF Edited, e
  <2>2. c.to \in ConversationStatus
    BY <1>1, <1>6 DEF Fit
  <2> QED  BY <2>1, <2>2, <1>2 DEF Conversation, c
<1>7. CASE step = "join" /\ c.user \notin e.members
  <2> DEFINE f == [e.joined EXCEPT ![c.user] = Len(messages)]
             m == e.members \cup {c.user}
  <2>1. Edited(c) = [e EXCEPT !.members = m, !.joined = f]
    BY <1>1, <1>7 DEF Edited, e
  <2>2. m \in SUBSET Users
    BY <1>1, <1>2, <1>7 DEF Fit, Conversation
  <2>3. f \in [Users -> Nat]
    BY <1>2 DEF Conversation
  <2> HIDE DEF f, m
  <2>4. [e EXCEPT !.members = m, !.joined = f] \in Conversation
    BY <2>2, <2>3, <1>2 DEF Conversation
  <2> QED  BY <2>1, <2>4 DEF c
<1>8. CASE step = "rewrite" \/ (step = "join" /\ c.user \in e.members)
  <2>1. Edited(c) = e
    BY <1>1, <1>8 DEF Edited, e
  <2> QED  BY <2>1, <1>2 DEF c
<1> QED  BY <1>3, <1>4, <1>5, <1>6, <1>7, <1>8 DEF Edits

-----------------------------------------------------------------------------
(* Each repository call preserves the invariant.                           *)

LEMMA SaveMessageInvariant ==
  ASSUME InductiveInvariant, NEW h \in Handlers, SaveMessage(h)
  PROVE  InductiveInvariant'
<1> DEFINE c == calls[h]
           n == Len(messages)
           m == [sender |-> c.user, kind |-> IF c.user = System THEN "requested" ELSE "text",
                 readers |-> {}]
           d == [c EXCEPT !.target = n + 1]
<1>1. c \in Call /\ TodoOK(c)
  BY AtStep DEF SaveMessage
<1>2. messages \in Seq(Message) /\ n \in Nat
  BY LenProperties DEF InductiveInvariant, TypeOK
<1>3. m \in Message
  BY <1>1 DEF Call, Message, RefundMessageKind
<1>4. messages' = Append(messages, m) /\ Proceed(h, d)
      /\ UNCHANGED <<conversation, sentEvents, started, faults, overlapped, cutShort>>
  BY DEF SaveMessage
<1> HIDE DEF m
<1>5. messages' \in Seq(Message) /\ Len(messages') = n + 1
  BY <1>2, <1>3, <1>4, AppendProperties
<1>6. d \in Call /\ d.todo = c.todo /\ d.target = n + 1 /\ d.user = c.user /\ d.to = c.to
      /\ d.seen = c.seen /\ d.op = c.op
  BY <1>1, <1>2 DEF Call
<1> HIDE DEF d
<1>7. TodoOK(d)
  <2>1. ASSUME NEW k \in DOMAIN c.todo
        PROVE  Fit(d, c.todo[k]) /\ (c.todo[k] = "saveMessage" => k = 1)
    BY <1>1, <1>6 DEF TodoOK, Fit
  <2> QED  BY <2>1, <1>2, <1>6 DEF TodoOK
<1>8. /\ calls' \in [Handlers -> Call \cup {Idle}]
      /\ \A g \in Handlers : calls'[g] # Idle => TodoOK(calls'[g])
      /\ \A g \in Handlers : calls'[g] # Idle /\ g # h => calls'[g] = calls[g]
      /\ calls'[h] # Idle => calls'[h].target = n + 1
  BY <1>2, <1>4, <1>6, <1>7, ProceedFit
<1>9. \A g \in Handlers : calls'[g] # Idle => calls'[g].target <= Len(messages')
  <2> SUFFICES ASSUME NEW g \in Handlers, calls'[g] # Idle PROVE calls'[g].target <= n + 1
    BY <1>5
  <2>1. CASE g = h
    BY <2>1, <1>2, <1>8
  <2>2. CASE g # h
    <3>1. calls'[g] = calls[g] /\ calls[g] # Idle
      BY <2>2, <1>8
    <3>2. calls[g].target <= n /\ calls[g] \in Call
      BY <3>1 DEF InductiveInvariant, TypeOK
    <3> QED  BY <3>1, <3>2, <1>2 DEF Call
  <2> QED  BY <2>1, <2>2
<1>10. sentEvents' \in Seq(1..Len(messages'))
  BY <1>2, <1>4, <1>5, NumbersGrow DEF InductiveInvariant, TypeOK
<1> QED  BY <1>4, <1>5, <1>8, <1>9, <1>10 DEF InductiveInvariant, TypeOK

\* A step that keeps the messages, and goes on with a call about the same message.
LEMMA SameMessages ==
  ASSUME InductiveInvariant, NEW h \in Handlers, NEW c \in Call, TodoOK(c),
         c.todo[1] = "saveMessage" => c.target # 0, c.target <= Len(messages),
         Proceed(h, c), messages' \in Seq(Message), Len(messages') = Len(messages),
         conversation' \in Conversation, sentEvents' \in Seq(1..Len(messages)),
         UNCHANGED <<started, faults, overlapped, cutShort>>
  PROVE  InductiveInvariant'
<1>1. /\ calls' \in [Handlers -> Call \cup {Idle}]
      /\ \A g \in Handlers : calls'[g] # Idle => TodoOK(calls'[g])
      /\ \A g \in Handlers : calls'[g] # Idle /\ g # h => calls'[g] = calls[g]
      /\ calls'[h] # Idle => calls'[h].target = c.target
  BY ProceedFit
<1>2. \A g \in Handlers : calls[g] # Idle => calls[g].target <= Len(messages)
  BY DEF InductiveInvariant, TypeOK
<1>3. \A g \in Handlers : calls'[g] # Idle => calls'[g].target <= Len(messages')
  BY <1>1, <1>2
<1> QED  BY <1>1, <1>3 DEF InductiveInvariant, TypeOK

LEMMA LoadInvariant ==
  ASSUME InductiveInvariant, NEW h \in Handlers, Load(h)
  PROVE  InductiveInvariant'
<1> DEFINE c == calls[h]
           d == [c EXCEPT !.entity = conversation]
<1>1. c \in Call /\ TodoOK(c) /\ c.todo[1] = "load" /\ c.target <= Len(messages)
  BY AtStep DEF Load
<1>2. conversation \in Conversation
  BY DEF InductiveInvariant, TypeOK
<1>3. d \in Call /\ d.todo = c.todo /\ d.target = c.target /\ d.user = c.user /\ d.to = c.to
      /\ d.seen = c.seen /\ d.op = c.op
  BY <1>1, <1>2 DEF Call
<1>4. Proceed(h, d)
  BY DEF Load
<1> HIDE DEF d
<1>5. TodoOK(d)
  BY <1>1, <1>3 DEF TodoOK, Fit
<1> QED  BY <1>1, <1>3, <1>4, <1>5, SameMessages DEF Load, InductiveInvariant, TypeOK

LEMMA SaveEntityInvariant ==
  ASSUME InductiveInvariant, NEW h \in Handlers, SaveEntity(h)
  PROVE  InductiveInvariant'
<1>1. PICK step \in Edits : Doing(h, step)
  BY DEF SaveEntity
<1>2. Edited(calls[h]) \in Conversation
  BY <1>1, EditedTyped
<1>3. calls[h] \in Call /\ TodoOK(calls[h]) /\ calls[h].todo[1] # "saveMessage"
      /\ calls[h].target <= Len(messages)
  BY <1>1, AtStep DEF Edits
<1> QED  BY <1>2, <1>3, SameMessages DEF SaveEntity, InductiveInvariant, TypeOK

\* A step that ends a call and changes nothing but the faults and their history.
LEMMA ReturnInvariant ==
  ASSUME InductiveInvariant, NEW h \in Handlers, Return(h), faults' \in 0..MaxFaults,
         cutShort' \in BOOLEAN,
         UNCHANGED <<conversation, messages, sentEvents, started, overlapped>>
  PROVE  InductiveInvariant'
BY ReturnFit DEF InductiveInvariant, TypeOK

\* What is selected is stored.
LEMMA SelectedStored ==
  ASSUME InductiveInvariant, NEW h \in Handlers, Doing(h, "findMessages")
  PROVE  Selected(calls[h]) \subseteq DOMAIN messages
<1> DEFINE c == calls[h]
<1>1. CASE c.op = "markMessageAsRead"
  <2>1. Selected(c) = {c.target}
    BY <1>1 DEF Selected
  <2>2. c \in Call /\ c.target <= Len(messages) /\ c.target # 0
    BY <1>1, AtStep DEF Fit
  <2>3. c.target \in 1..Len(messages)
    BY <2>2, LenProperties DEF Call, InductiveInvariant, TypeOK
  <2> QED  BY <2>1, <2>3, LenProperties DEF InductiveInvariant, TypeOK
<1>2. CASE c.op # "markMessageAsRead"
  BY <1>2 DEF Selected
<1> QED  BY <1>1, <1>2

LEMMA FindMessagesInvariant ==
  ASSUME InductiveInvariant, NEW h \in Handlers, FindMessages(h)
  PROVE  InductiveInvariant'
<1> DEFINE c == calls[h]
           found == {[at |-> i, row |-> messages[i]] : i \in Selected(c)}
           d == [c EXCEPT !.found = found]
<1>1. c \in Call /\ TodoOK(c) /\ c.todo[1] = "findMessages" /\ c.target <= Len(messages)
  BY AtStep DEF FindMessages
<1>2. CASE Selected(c) = {}
  BY <1>2, ReturnInvariant DEF FindMessages, InductiveInvariant, TypeOK
<1>3. CASE Selected(c) # {}
  <2>1. Proceed(h, d)
    BY <1>3 DEF FindMessages
  <2>2. \A i \in DOMAIN messages : i \in Nat /\ messages[i] \in Message
    BY LenProperties, ElementOfSeq DEF InductiveInvariant, TypeOK
  <2>3. Selected(c) \subseteq DOMAIN messages
    BY SelectedStored DEF FindMessages
  <2>4. found \in SUBSET Found
    BY <2>2, <2>3 DEF Found
  <2> HIDE DEF found
  <2>5. d \in Call /\ d.todo = c.todo /\ d.target = c.target /\ d.user = c.user /\ d.to = c.to
        /\ d.seen = c.seen /\ d.op = c.op
    BY <1>1, <2>4 DEF Call
  <2> HIDE DEF d
  <2>6. TodoOK(d)
    BY <1>1, <2>5 DEF TodoOK, Fit
  <2> QED  BY <1>1, <2>1, <2>5, <2>6, SameMessages DEF FindMessages, InductiveInvariant, TypeOK
<1> QED  BY <1>2, <1>3

LEMMA SaveMessagesInvariant ==
  ASSUME InductiveInvariant, NEW h \in Handlers, SaveMessages(h)
  PROVE  InductiveInvariant'
<1> DEFINE c == calls[h]
           n == Len(messages)
           new(m) == IF Doing(h, "saveCard") THEN [m EXCEPT !.kind = c.to]
                                             ELSE [m EXCEPT !.readers = @ \cup {c.user}]
           row(i) == IF \E f \in c.found : f.at = i
                     THEN new((CHOOSE f \in c.found : f.at = i).row) ELSE messages[i]
<1>1. PICK step \in {"saveReceipts", "saveCard"} : Doing(h, step)
  BY DEF SaveMessages
<1>2. c \in Call /\ TodoOK(c) /\ c.target <= n /\ c.todo[1] = step /\ Fit(c, step)
      /\ Head(c.todo) = step
  BY <1>1, AtStep
<1>3. messages \in Seq(Message) /\ n \in Nat /\ DOMAIN messages = 1..n
  BY LenProperties DEF InductiveInvariant, TypeOK
<1>4. c # Idle
  BY <1>1 DEF Doing
<1>5. ASSUME NEW m \in Message PROVE new(m) \in Message
  <2>1. CASE step = "saveCard"
    <3>1. Doing(h, "saveCard") /\ c.to \in RefundMessageKind
      BY <1>1, <1>2, <2>1 DEF Fit
    <3> QED  BY <3>1 DEF Message
  <2>2. CASE step = "saveReceipts"
    <3>1. ~Doing(h, "saveCard") /\ c.user \in Users
      BY <1>2, <2>2 DEF Fit, Doing
    <3> QED  BY <3>1 DEF Message
  <2> QED  BY <2>1, <2>2
<1> HIDE DEF new
<1>6. ASSUME NEW i \in 1..n PROVE row(i) \in Message
  <2>1. CASE \E f \in c.found : f.at = i
    <3>1. (CHOOSE f \in c.found : f.at = i) \in c.found
      BY <2>1
    <3>2. c.found \subseteq Found
      BY <1>2 DEF Call
    <3>3. (CHOOSE f \in c.found : f.at = i).row \in Message
      BY <3>1, <3>2 DEF Found
    <3>4. row(i) = new((CHOOSE f \in c.found : f.at = i).row)
      BY <2>1
    <3> HIDE DEF row
    <3> QED  BY <3>3, <3>4, <1>5
  <2>2. CASE ~ \E f \in c.found : f.at = i
    BY <2>2, <1>3, ElementOfSeq
  <2> QED  BY <2>1, <2>2
<1>7. messages' = [i \in 1..n |-> row(i)]
  BY <1>3 DEF SaveMessages, new
<1> HIDE DEF row
<1>8. messages' \in [1..n -> Message]
  BY <1>6, <1>7
<1>9. messages' \in Seq(Message) /\ DOMAIN messages' = 1..n
  BY <1>3, <1>8, SeqDef
<1>10. Len(messages') = n
  BY <1>3, <1>9, LenProperties
<1> QED  BY <1>2, <1>9, <1>10, SameMessages DEF SaveMessages, InductiveInvariant, TypeOK

LEMMA PublishSentInvariant ==
  ASSUME InductiveInvariant, NEW h \in Handlers, PublishSent(h)
  PROVE  InductiveInvariant'
<1>1. calls[h] \in Call /\ TodoOK(calls[h]) /\ calls[h].target <= Len(messages)
      /\ calls[h].todo[1] = "publish" /\ calls[h].target # 0
  BY AtStep DEF PublishSent
<1>2. calls[h].target \in 1..Len(messages)
  BY <1>1, LenProperties DEF Call, InductiveInvariant, TypeOK
<1>3. sentEvents' \in Seq(1..Len(messages))
  BY <1>2, AppendProperties DEF PublishSent, InductiveInvariant, TypeOK
<1> QED  BY <1>1, <1>3, SameMessages DEF PublishSent, InductiveInvariant, TypeOK

LEMMA AbortInvariant ==
  ASSUME InductiveInvariant, NEW h \in Handlers, Abort(h)
  PROVE  InductiveInvariant'
<1>1. faults' \in 0..MaxFaults
  BY CommunicationAssumed DEF Abort, InductiveInvariant, TypeOK, CommunicationAssumption
<1> QED  BY <1>1, ReturnInvariant DEF Abort

\* Every step preserves the inductive invariant.
LEMMA NextInvariant == InductiveInvariant /\ [Next]_vars => InductiveInvariant'
<1> SUFFICES ASSUME InductiveInvariant, [Next]_vars PROVE InductiveInvariant'
  OBVIOUS
<1>1. CASE UNCHANGED vars
  BY <1>1 DEF vars, InductiveInvariant, TypeOK, TodoOK, Fit
<1>2. ASSUME NEW h \in Handlers, NEW user \in Users, UserRequest(h, user)
      PROVE  InductiveInvariant'
  BY <1>2, RequestInvariant
<1>3. ASSUME NEW h \in Handlers, OrderEvent(h) PROVE InductiveInvariant'
  BY <1>3, OrderEventInvariant
<1>4. ASSUME NEW h \in Handlers, Step(h) PROVE InductiveInvariant'
  <2>1. CASE SaveMessage(h)  BY <2>1, SaveMessageInvariant
  <2>2. CASE Load(h)  BY <2>2, LoadInvariant
  <2>3. CASE SaveEntity(h)  BY <2>3, SaveEntityInvariant
  <2>4. CASE SaveEntityRefused(h)
    BY <2>4, ReturnInvariant DEF SaveEntityRefused, InductiveInvariant, TypeOK
  <2>5. CASE FindMessages(h)  BY <2>5, FindMessagesInvariant
  <2>6. CASE SaveMessages(h)  BY <2>6, SaveMessagesInvariant
  <2>7. CASE PublishSent(h)  BY <2>7, PublishSentInvariant
  <2> QED  BY <1>4, <2>1, <2>2, <2>3, <2>4, <2>5, <2>6, <2>7 DEF Step
<1>5. ASSUME NEW h \in Handlers, Abort(h) PROVE InductiveInvariant'
  BY <1>5, AbortInvariant
<1> QED  BY <1>1, <1>2, <1>3, <1>4, <1>5 DEF Next

\* The rows, the messages and the calls in progress always have their types: a
\* call never carries what its next repository call cannot work on.
THEOREM TypeCorrect == Spec => []TypeOK
<1>1. InductiveInvariant => TypeOK
  BY DEF InductiveInvariant
<1> QED  BY InitInvariant, NextInvariant, <1>1, PTL DEF Spec

-----------------------------------------------------------------------------
(* The row of the conversation changes only when an update is saved.       *)

LEMMA OnlySavesWrite ==
  ASSUME [Next]_vars, conversation' # conversation
  PROVE  \E h \in Handlers : SaveEntity(h)
<1>1. ASSUME NEW h \in Handlers, NEW user \in Users, UserRequest(h, user) PROVE FALSE
  BY <1>1 DEF UserRequest, SendMessage, MarkMessageAsRead, MarkConversationRead,
     SetConversationStatus, SetTyping, JoinConversation, LeaveConversation, Start
<1>2. ASSUME NEW h \in Handlers, OrderEvent(h) PROVE FALSE
  BY <1>2 DEF OrderEvent, CloseConversationForOrder, ReopenConversationForOrder,
     PostRefundMessage, ResolveRefundMessage, Start
<1>3. ASSUME NEW h \in Handlers, Step(h) PROVE SaveEntity(h)
  BY <1>3 DEF Step, SaveMessage, Load, SaveEntityRefused, FindMessages, SaveMessages, PublishSent
<1>4. ASSUME NEW h \in Handlers, Abort(h) PROVE FALSE
  BY <1>4 DEF Abort
<1> QED  BY <1>1, <1>2, <1>3, <1>4 DEF Next, vars

\* A call that saves goes on: it is not where it was.
LEMMA SaveMovesOn ==
  ASSUME InductiveInvariant, NEW h \in Handlers, SaveEntity(h)
  PROVE  calls[h] # Idle /\ calls'[h] # calls[h]
<1> DEFINE c == calls[h]
<1>1. PICK step \in Edits : Doing(h, step)
  BY DEF SaveEntity
<1>2. c \in Call /\ c # Idle
  BY <1>1, AtStep DEF Doing
<1>3. Proceed(h, c) /\ calls \in [Handlers -> Call \cup {Idle}]
  BY DEF SaveEntity, InductiveInvariant, TypeOK
<1>4. c.todo \in Seq(Steps) /\ c.todo # <<>>
  BY <1>2 DEF Call
<1>5. Len(Tail(c.todo)) # Len(c.todo)
  BY <1>4, HeadTailProperties, LenProperties
<1>6. CASE Len(c.todo) = 1
  BY <1>2, <1>3, <1>6 DEF Proceed
<1>7. CASE Len(c.todo) # 1
  <2> DEFINE d == [c EXCEPT !.todo = Tail(@)]
  <2>1. calls'[h] = d
    BY <1>3, <1>7 DEF Proceed
  <2>2. d.todo = Tail(c.todo)
    BY <1>2 DEF Call
  <2>3. d # c
    BY <1>5, <2>2
  <2> QED  BY <1>2, <2>1, <2>3
<1> QED  BY <1>6, <1>7

\* What an update leaves open was open when the call read it, or is a reopening.
LEMMA EditedStatus ==
  ASSUME InductiveInvariant, NEW h \in Handlers, NEW step \in Edits, Doing(h, step),
         Edited(calls[h]).status # "closed"
  PROVE  \/ calls[h].op = "reopenConversationForOrder"
         \/ calls[h].seen # "closed"
         \/ calls[h].entity.status # "closed"
<1> DEFINE c == calls[h]
           e == c.entity
<1>1. c \in Call /\ Head(c.todo) = step /\ Fit(c, step)
  BY AtStep
<1>2. e \in Conversation
  BY <1>1 DEF Call
<1> HIDE DEF e
<1>3. CASE step = "touch"
  <2>1. Edited(c) = [e EXCEPT !.status = c.seen]
    BY <1>1, <1>3 DEF Edited, e
  <2> QED  BY <2>1, <1>2 DEF Conversation
<1>4. CASE step = "setStatus"
  <2>1. Edited(c) = [e EXCEPT !.status = c.to]
    BY <1>1, <1>4 DEF Edited, e
  <2>2. c.to # "closed"
    BY <2>1, <1>2 DEF Conversation
  <2> QED  BY <2>2, <1>1, <1>4 DEF Fit
<1>5. CASE step \notin {"touch", "setStatus"}
  <2>1. Edited(c).status = e.status
    BY <1>1, <1>2, <1>5 DEF Edited, e, Conversation
  <2> QED  BY <2>1 DEF e
<1> QED  BY <1>3, <1>4, <1>5

\* A conversation that was closed with its order is opened again only by a
\* reopening, or by a call that has read it while it was open.
THEOREM ClosesForGood == Spec => ClosedStaysClosed
<1>1. InductiveInvariant /\ [Next]_vars =>
        [conversation.status = "closed" /\ conversation'.status # "closed" =>
           \E h \in Handlers : /\ calls[h] # Idle /\ calls'[h] # calls[h]
                              /\ \/ calls[h].op = "reopenConversationForOrder"
                                 \/ calls[h].seen # "closed"
                                 \/ calls[h].entity.status # "closed"]_vars
  <2> SUFFICES ASSUME InductiveInvariant, [Next]_vars,
                      conversation.status = "closed", conversation'.status # "closed"
               PROVE  \E h \in Handlers :
                        /\ calls[h] # Idle /\ calls'[h] # calls[h]
                        /\ \/ calls[h].op = "reopenConversationForOrder"
                           \/ calls[h].seen # "closed"
                           \/ calls[h].entity.status # "closed"
    OBVIOUS
  <2>1. PICK h \in Handlers : SaveEntity(h)
    BY OnlySavesWrite
  <2>2. calls[h] # Idle /\ calls'[h] # calls[h]
    BY <2>1, SaveMovesOn
  <2>3. PICK step \in Edits : Doing(h, step)
    BY <2>1 DEF SaveEntity
  <2>4. Edited(calls[h]).status # "closed"
    BY <2>1 DEF SaveEntity
  <2> QED  BY <2>2, <2>3, <2>4, EditedStatus
<1> QED  BY InitInvariant, NextInvariant, <1>1, PTL DEF Spec, ClosedStaysClosed

\* Nobody who takes part in a conversation drops out of it, whatever stale
\* entities the calls in progress save.
THEOREM MembersStay == Spec => MembersNeverLost
<1>1. InductiveInvariant /\ [Next]_vars => [conversation.members \subseteq conversation'.members]_vars
  <2> SUFFICES ASSUME InductiveInvariant, [Next]_vars, conversation' # conversation
               PROVE  conversation.members \subseteq conversation'.members
    OBVIOUS
  <2>1. PICK h \in Handlers : SaveEntity(h)
    BY OnlySavesWrite
  <2>2. PICK step \in Edits : Doing(h, step)
    BY <2>1 DEF SaveEntity
  <2> DEFINE e == calls[h].entity
  <2>3. e \in Conversation
    BY <2>2, AtStep DEF Call
  <2>4. e.members \subseteq Edited(calls[h]).members
    <3>1. Edited(calls[h]).members \in {e.members, e.members \cup {calls[h].user}}
      BY <2>3 DEF Edited, Conversation
    <3> QED  BY <3>1
  <2> QED  BY <2>1, <2>4 DEF SaveEntity
<1> QED  BY InitInvariant, NextInvariant, <1>1, PTL DEF Spec, MembersNeverLost

-----------------------------------------------------------------------------
(* The scripts, and where a call stands in its own.                        *)

LEMMA ScriptTable ==
  /\ DOMAIN Script = {"sendMessage", "markMessageAsRead", "markConversationRead",
       "setConversationStatus", "setTyping", "joinConversation", "leaveConversation",
       "closeConversationForOrder", "reopenConversationForOrder", "postRefundMessage",
       "resolveRefundMessage"}
  /\ Script["sendMessage"] = <<"saveMessage", "load", "count", "load", "touch", "publish">>
  /\ Script["postRefundMessage"] = <<"saveMessage", "load", "count", "load", "touch">>
  /\ Script["markMessageAsRead"] = <<"findMessages", "saveReceipts">>
  /\ Script["markConversationRead"] = <<"load", "reset", "findMessages", "saveReceipts">>
  /\ Script["resolveRefundMessage"] = <<"findMessages", "saveCard", "load", "touch">>
  /\ Script["joinConversation"] = <<"load", "join">>
  /\ Script["setTyping"] = <<"load", "rewrite">>
  /\ Script["leaveConversation"] = <<"load", "rewrite">>
  /\ Script["setConversationStatus"] = <<"load", "setStatus">>
  /\ Script["closeConversationForOrder"] = <<"load", "setStatus">>
  /\ Script["reopenConversationForOrder"] = <<"load", "setStatus">>
BY DEF Script

\* What the step at place p of an operation says about the operation.
StepAt(op, p, step) ==
  /\ step = "saveMessage" <=> op \in WritingOps /\ p = 1
  /\ step = "count" => op \in WritingOps /\ p = 3
  /\ step = "publish" <=> op = "sendMessage" /\ p = 6
  /\ step = "reset" => op = "markConversationRead" /\ p = 2
  /\ step = "findMessages" => op \notin WritingOps /\ (op = "markConversationRead" => p = 3)
  /\ step \in {"saveReceipts", "saveCard"} => op \notin WritingOps
  /\ step = "saveReceipts" => op \in {"markMessageAsRead", "markConversationRead"}
  /\ step = "saveReceipts" /\ op = "markConversationRead" => p = 4
  /\ p = 1 => step \notin Edits \cup {"saveReceipts", "saveCard"}
  /\ op \in WritingOps /\ p = 2 => step = "load"
  /\ op \in WritingOps /\ p = 3 => step = "count"
  /\ op = "markConversationRead" /\ p \in 2..4 => step # "load"
  /\ op = "markConversationRead" /\ p = 2 => step = "reset"
  /\ op = "markConversationRead" /\ p = 3 => step = "findMessages"
  /\ op = "markConversationRead" /\ p = 4 => step = "saveReceipts"

\* An entity is edited right after it was loaded, and messages are saved right
\* after they were found.
Follows(step, next) ==
  /\ next \in Edits => step = "load"
  /\ next \in {"saveReceipts", "saveCard"} <=> step = "findMessages"

LEMMA StepsOfScript ==
  ASSUME NEW op \in DOMAIN Script, NEW p \in 1..Len(Script[op])
  PROVE  /\ StepAt(op, p, Script[op][p])
         /\ p # Len(Script[op]) => Follows(Script[op][p], Script[op][p + 1])
         /\ Len(Script[op]) \in 1..6
         /\ op = "sendMessage" => Len(Script[op]) = 6
         /\ op \in WritingOps => Len(Script[op]) \in 5..6
         /\ op = "markConversationRead" => Len(Script[op]) = 4
         /\ Script[op][p] = "findMessages" => p # Len(Script[op])
<1> USE DEF StepAt, Follows, Edits, WritingOps
<1>1. CASE op = "sendMessage"
  BY <1>1, ScriptTable
<1>2. CASE op = "postRefundMessage"
  BY <1>2, ScriptTable
<1>3. CASE op = "markMessageAsRead"
  BY <1>3, ScriptTable
<1>4. CASE op = "markConversationRead"
  BY <1>4, ScriptTable
<1>5. CASE op = "resolveRefundMessage"
  BY <1>5, ScriptTable
<1>6. CASE op = "joinConversation"
  BY <1>6, ScriptTable
<1>7. CASE op = "setTyping"
  BY <1>7, ScriptTable
<1>8. CASE op = "leaveConversation"
  BY <1>8, ScriptTable
<1>9. CASE op = "setConversationStatus"
  BY <1>9, ScriptTable
<1>10. CASE op = "closeConversationForOrder"
  BY <1>10, ScriptTable
<1>11. CASE op = "reopenConversationForOrder"
  BY <1>11, ScriptTable
<1>12. op \in {"sendMessage", "markMessageAsRead", "markConversationRead",
         "setConversationStatus", "setTyping", "joinConversation", "leaveConversation",
         "closeConversationForOrder", "reopenConversationForOrder", "postRefundMessage",
         "resolveRefundMessage"}
  BY ScriptTable
<1> QED  BY <1>1, <1>2, <1>3, <1>4, <1>5, <1>6, <1>7, <1>8, <1>9, <1>10, <1>11, <1>12

\* The call d is what remains of c after its step: nothing, or the same call
\* one place further.
NextOf(c, d) ==
  \/ d = Idle /\ Place(c) = Len(Script[c.op])
  \/ /\ d \in Call /\ OnScript(d)
     /\ Place(c) # Len(Script[c.op]) /\ Place(d) = Place(c) + 1
     /\ d.op = c.op /\ d.user = c.user /\ d.target = c.target
     /\ d.entity = c.entity /\ d.found = c.found /\ d.seen = c.seen /\ d.to = c.to

LEMMA FirstStep ==
  ASSUME NEW c \in Call, OnScript(c)
  PROVE  /\ c.op \in DOMAIN Script /\ Place(c) \in 1..Len(Script[c.op])
         /\ Len(Script[c.op]) \in Nat /\ Len(c.todo) \in Nat
         /\ c.todo[1] = Script[c.op][Place(c)] /\ Head(c.todo) = c.todo[1]
         /\ StepAt(c.op, Place(c), c.todo[1])
<1>1. c.todo \in Seq(Steps) /\ c.todo # <<>>
  BY DEF Call
<1>2. Len(c.todo) \in Nat /\ Head(c.todo) = c.todo[1] /\ 1 \in DOMAIN c.todo
  BY <1>1, EmptySeq, LenProperties, HeadTailProperties
<1>3. c.op \in DOMAIN Script /\ Place(c) \in 1..Len(Script[c.op])
  BY DEF OnScript
<1>4. Len(Script[c.op]) \in Nat
  BY <1>3, StepsOfScript
<1>5. Place(c) \in Nat
  BY <1>3, <1>4
<1>6. c.todo[1] = Script[c.op][Place(c)]
  BY <1>2, <1>5 DEF OnScript
<1> QED  BY <1>2, <1>3, <1>4, <1>6, StepsOfScript

LEMMA ProceedMoves ==
  ASSUME NEW h \in Handlers, NEW c \in Call, OnScript(c), Proceed(h, c)
  PROVE  \E d : calls' = [calls EXCEPT ![h] = d] /\ NextOf(c, d)
<1>1. PICK n, p : n = Len(Script[c.op]) /\ p = Place(c)
  OBVIOUS
<1>2. /\ c.op \in DOMAIN Script /\ p \in 1..n /\ n \in Nat
      /\ Len(c.todo) \in Nat /\ Len(c.todo) = 1 + n - p
  <2>1. c.op \in DOMAIN Script /\ p \in 1..n /\ n \in Nat /\ Len(c.todo) \in Nat
    BY <1>1, FirstStep
  <2>2. p = 1 + n - Len(c.todo)
    BY <1>1 DEF Place
  <2> QED  BY <2>1, <2>2
<1>3. CASE Len(c.todo) = 1
  <2>1. calls' = [calls EXCEPT ![h] = Idle]
    BY <1>3 DEF Proceed
  <2>2. p = n
    <3>1. 1 = 1 + n - p
      BY <1>2, <1>3
    <3> QED  BY <1>2, <3>1
  <2> QED  BY <1>1, <2>1, <2>2 DEF NextOf
<1>4. CASE Len(c.todo) # 1
  <2>1. PICK d : d = [c EXCEPT !.todo = Tail(@)]
    OBVIOUS
  <2>2. PICK rest : rest = Tail(c.todo)
    OBVIOUS
  <2>3. c.todo \in Seq(Steps) /\ c.todo # <<>>
    BY DEF Call
  <2>4. /\ rest \in Seq(Steps) /\ Len(rest) = Len(c.todo) - 1
        /\ \A k \in 1..Len(rest) : rest[k] = c.todo[k + 1]
    BY <2>2, <2>3, HeadTailProperties
  <2>5. rest # <<>> /\ DOMAIN rest = 1..Len(rest) /\ DOMAIN c.todo = 1..Len(c.todo)
    BY <1>2, <1>4, <2>3, <2>4, EmptySeq, LenProperties
  <2>6. /\ d \in Call /\ d.todo = rest /\ d.op = c.op /\ d.user = c.user /\ d.target = c.target
        /\ d.entity = c.entity /\ d.found = c.found /\ d.seen = c.seen /\ d.to = c.to
    BY <2>1, <2>2, <2>4, <2>5 DEF Call
  <2>7. Place(d) = p + 1 /\ p # n
    <3>1. Place(d) = 1 + n - Len(rest)
      BY <1>1, <2>6 DEF Place
    <3> QED  BY <1>2, <1>4, <2>4, <3>1
  <2>8. ASSUME NEW k \in DOMAIN rest
        PROVE  rest[k] = Script[c.op][p + 1 + k - 1]
    <3>1. k \in Nat /\ k + 1 \in DOMAIN c.todo /\ rest[k] = c.todo[k + 1]
      BY <1>2, <2>4, <2>5
    <3>2. c.todo[k + 1] = Script[c.op][p + (k + 1) - 1]
      BY <1>1, <3>1 DEF OnScript
    <3>3. p + (k + 1) - 1 = p + 1 + k - 1
      BY <1>2, <3>1
    <3> QED  BY <3>1, <3>2, <3>3
  <2>9. OnScript(d)
    BY <1>1, <1>2, <2>6, <2>7, <2>8 DEF OnScript
  <2>10. calls' = [calls EXCEPT ![h] = d]
    BY <1>4, <2>1 DEF Proceed
  <2> QED  BY <1>1, <2>6, <2>7, <2>9, <2>10 DEF NextOf
<1> QED  BY <1>3, <1>4

-----------------------------------------------------------------------------
(* The kinds of step.                                                      *)

Begins(h, d) ==
  /\ calls[h] = Idle /\ d \in Call /\ calls' = [calls EXCEPT ![h] = d]
  /\ OnScript(d) /\ Place(d) = 1 /\ d.entity = conversation /\ d.found = {}
  /\ d.op \in {"sendMessage", "markConversationRead"} => d.user \in Users
  /\ d.op = "postRefundMessage" => d.user = System
  /\ overlapped' = (overlapped \/ ~Quiet)
  /\ UNCHANGED <<conversation, messages, sentEvents, cutShort>>

\* The call of h, that is now e, moves on and becomes d.
MovesOn(h, e, d) ==
  /\ calls[h] \in Call /\ e \in Call /\ OnScript(e)
  /\ e.op = calls[h].op /\ e.user = calls[h].user /\ e.todo = calls[h].todo
  /\ calls' = [calls EXCEPT ![h] = d] /\ NextOf(e, d)
  /\ UNCHANGED <<overlapped, cutShort>>

Stores(h, d) ==
  LET c == calls[h] IN
  /\ c.todo[1] = "saveMessage"
  /\ \E e, m : /\ MovesOn(h, e, d) /\ e.target = Len(messages) + 1
               /\ e.entity = c.entity /\ e.found = c.found
               /\ m \in Message /\ m.sender = c.user /\ messages' = Append(messages, m)
  /\ UNCHANGED <<conversation, sentEvents>>

Loads(h, d) ==
  LET c == calls[h] IN
  /\ c.todo[1] = "load"
  /\ \E e : /\ MovesOn(h, e, d) /\ e.target = c.target /\ e.found = c.found
            /\ e.entity = conversation
  /\ UNCHANGED <<conversation, messages, sentEvents>>

Updates(h, d) ==
  LET c == calls[h] IN
  /\ c.todo[1] \in Edits /\ MovesOn(h, c, d)
  /\ conversation.members \subseteq c.entity.members
  /\ conversation' = Edited(c)
  /\ UNCHANGED <<messages, sentEvents>>

Finds(h, d) ==
  LET c == calls[h] IN
  /\ c.todo[1] = "findMessages"
  /\ Selected(c) \subseteq DOMAIN messages
  /\ \E e : /\ MovesOn(h, e, d) /\ e.target = c.target /\ e.entity = c.entity
            /\ e.found = {Row(i) : i \in Selected(c)}
  /\ UNCHANGED <<conversation, messages, sentEvents>>

\* A stored message is a changed copy of one that was found, or stays.
Rewritten(c, i) ==
  \/ \E f \in c.found :
       /\ f.at = i /\ messages'[i].sender = f.row.sender
       /\ messages'[i].readers =
            IF c.todo[1] = "saveCard" THEN f.row.readers ELSE f.row.readers \cup {c.user}
  \/ (\A f \in c.found : f.at # i) /\ messages'[i] = messages[i]

Rewrites(h, d) ==
  LET c == calls[h] IN
  /\ c.todo[1] \in {"saveReceipts", "saveCard"} /\ MovesOn(h, c, d)
  /\ DOMAIN messages' = DOMAIN messages
  /\ \A i \in DOMAIN messages : Rewritten(c, i)
  /\ UNCHANGED <<conversation, sentEvents>>

Tells(h, d) ==
  LET c == calls[h] IN
  /\ c.todo[1] = "publish" /\ MovesOn(h, c, d)
  /\ sentEvents' = Append(sentEvents, c.target)
  /\ UNCHANGED <<conversation, messages>>

FindsNothing(h) ==
  /\ calls[h] \in Call /\ calls[h].todo[1] = "findMessages" /\ Selected(calls[h]) = {}
  /\ calls' = [calls EXCEPT ![h] = Idle]
  /\ UNCHANGED <<conversation, messages, sentEvents, overlapped, cutShort>>

Stops(h) ==
  /\ calls[h] \in Call /\ calls' = [calls EXCEPT ![h] = Idle] /\ cutShort'
  /\ UNCHANGED <<conversation, messages, sentEvents, overlapped>>

ChatRests == UNCHANGED <<conversation, messages, sentEvents, calls, overlapped, cutShort>>

ChatSteps(h) ==
  \/ \E d : \/ Begins(h, d) \/ Stores(h, d) \/ Loads(h, d) \/ Updates(h, d)
            \/ Finds(h, d) \/ Rewrites(h, d) \/ Tells(h, d)
  \/ FindsNothing(h) \/ Stops(h)

LEMMA ScriptLengths ==
  \A op \in DOMAIN Script : Len(Script[op]) \in 1..6
BY ScriptTable

\* An operation starts at the first place of its script.
LEMMA StartBegins ==
  ASSUME InductiveInvariant', DOMAIN calls = Handlers, NEW h \in Handlers,
         NEW op \in DOMAIN Script, NEW user, NEW target, NEW to,
         NEW todo, todo = Script[op], Start(h, op, user, target, to, todo),
         op \in {"sendMessage", "markConversationRead"} => user \in Users,
         op = "postRefundMessage" => user = System
  PROVE  \E d : Begins(h, d)
<1>1. PICK d : d = [op |-> op, user |-> user, todo |-> todo, seen |-> conversation.status,
                    entity |-> conversation, found |-> {}, target |-> target, to |-> to]
  OBVIOUS
<1>2. /\ d.op = op /\ d.user = user /\ d.todo = todo /\ d.entity = conversation /\ d.found = {}
  BY <1>1
<1>3. /\ calls[h] = Idle /\ calls' = [calls EXCEPT ![h] = d]
      /\ overlapped' = (overlapped \/ ~Quiet)
      /\ UNCHANGED <<conversation, messages, sentEvents, cutShort>>
  BY <1>1 DEF Start
<1>4. d # Idle
  BY <1>2, ScriptTable DEF Idle
<1>5. calls'[h] = d
  BY <1>3
<1>6. d \in Call
  BY <1>4, <1>5 DEF InductiveInvariant, TypeOK
<1>7. Len(Script[op]) \in Nat
  BY ScriptLengths
<1>8. Place(d) = 1
  <2>1. Place(d) = 1 + Len(Script[op]) - Len(Script[op])
    BY <1>2 DEF Place
  <2> QED  BY <1>7, <2>1
<1>9. OnScript(d)
  <2>1. 1 \in 1..Len(Script[op])
    <3>1. PICK n : n = Len(Script[op]) /\ n \in 1..6
      BY ScriptLengths
    <3>2. 1 \in 1..n
      BY <3>1
    <3> QED  BY <3>1, <3>2
  <2>2. ASSUME NEW k \in DOMAIN d.todo
        PROVE  d.todo[k] = Script[op][1 + k - 1]
    <3>1. d.todo \in Seq(Steps)
      BY <1>6 DEF Call
    <3>2. k \in Nat
      BY <3>1, LenProperties
    <3>3. 1 + k - 1 = k
      BY <3>2
    <3> QED  BY <1>2, <3>3
  <2> QED  BY <1>2, <1>8, <2>1, <2>2 DEF OnScript
<1> QED  BY <1>2, <1>3, <1>6, <1>8, <1>9 DEF Begins

LEMMA RequestsBegin ==
  ASSUME InductiveInvariant', DOMAIN calls = Handlers, NEW h \in Handlers, NEW user \in Users,
         UserRequest(h, user)
  PROVE  \E d : Begins(h, d)
<1>1. CASE SendMessage(h, user)
  BY <1>1, ScriptTable, StartBegins DEF SendMessage
<1>2. CASE MarkMessageAsRead(h, user)
  BY <1>2, ScriptTable, StartBegins DEF MarkMessageAsRead
<1>3. CASE MarkConversationRead(h, user)
  BY <1>3, ScriptTable, StartBegins DEF MarkConversationRead
<1>4. CASE SetConversationStatus(h, user)
  BY <1>4, ScriptTable, StartBegins DEF SetConversationStatus
<1>5. CASE SetTyping(h, user)
  BY <1>5, ScriptTable, StartBegins DEF SetTyping
<1>6. CASE JoinConversation(h, user)
  BY <1>6, ScriptTable, StartBegins DEF JoinConversation
<1>7. CASE LeaveConversation(h, user)
  BY <1>7, ScriptTable, StartBegins DEF LeaveConversation
<1> QED  BY <1>1, <1>2, <1>3, <1>4, <1>5, <1>6, <1>7 DEF UserRequest

LEMMA OrderEventsBegin ==
  ASSUME InductiveInvariant', DOMAIN calls = Handlers, NEW h \in Handlers, OrderEvent(h)
  PROVE  \E d : Begins(h, d)
<1>1. CASE CloseConversationForOrder(h)
  BY <1>1, ScriptTable, StartBegins DEF CloseConversationForOrder
<1>2. CASE ReopenConversationForOrder(h)
  BY <1>2, ScriptTable, StartBegins DEF ReopenConversationForOrder
<1>3. CASE PostRefundMessage(h)
  BY <1>3, ScriptTable, StartBegins DEF PostRefundMessage
<1>4. CASE ResolveRefundMessage(h)
  BY <1>4, ScriptTable, StartBegins DEF ResolveRefundMessage
<1> QED  BY <1>1, <1>2, <1>3, <1>4 DEF OrderEvent

\* A call whose data changes is where it was.
LEMMA SameScript ==
  ASSUME NEW c, NEW e, OnScript(c), e.op = c.op, e.todo = c.todo
  PROVE  OnScript(e) /\ Place(e) = Place(c)
BY DEF OnScript, Place

LEMMA SaveMessageStores ==
  ASSUME InductiveInvariant, NEW h \in Handlers, OnScript(calls[h]), SaveMessage(h)
  PROVE  \E d : Stores(h, d)
<1>1. PICK c : c = calls[h]
  OBVIOUS
<1>2. PICK n : n = Len(messages)
  OBVIOUS
<1>3. c \in Call /\ c.todo[1] = "saveMessage"
  BY <1>1, AtStep DEF SaveMessage
<1>4. n \in Nat
  BY <1>2, LenProperties DEF InductiveInvariant, TypeOK
<1>5. PICK e : e = [c EXCEPT !.target = n + 1]
  OBVIOUS
<1>6. PICK m : m = [sender |-> c.user, kind |-> IF c.user = System THEN "requested" ELSE "text",
                    readers |-> {}]
  OBVIOUS
<1>7. /\ Proceed(h, e) /\ messages' = Append(messages, m)
      /\ UNCHANGED <<conversation, sentEvents, overlapped, cutShort>>
  BY <1>1, <1>2, <1>5, <1>6 DEF SaveMessage
<1>8. /\ e \in Call /\ e.todo = c.todo /\ e.target = n + 1 /\ e.user = c.user
      /\ e.op = c.op /\ e.entity = c.entity /\ e.found = c.found
  BY <1>3, <1>4, <1>5 DEF Call
<1>9. m \in Message /\ m.sender = c.user
  BY <1>3, <1>6 DEF Call, Message, RefundMessageKind
<1>10. OnScript(e)
  BY <1>1, <1>8, SameScript
<1>11. PICK d : calls' = [calls EXCEPT ![h] = d] /\ NextOf(e, d)
  BY <1>7, <1>8, <1>10, ProceedMoves
<1>12. MovesOn(h, e, d)
  BY <1>1, <1>3, <1>7, <1>8, <1>10, <1>11 DEF MovesOn
<1> QED  BY <1>1, <1>2, <1>3, <1>7, <1>8, <1>9, <1>12 DEF Stores

LEMMA LoadLoads ==
  ASSUME InductiveInvariant, NEW h \in Handlers, OnScript(calls[h]), Load(h)
  PROVE  \E d : Loads(h, d)
<1>1. PICK c : c = calls[h]
  OBVIOUS
<1>2. c \in Call /\ c.todo[1] = "load"
  BY <1>1, AtStep DEF Load
<1>3. conversation \in Conversation
  BY DEF InductiveInvariant, TypeOK
<1>4. PICK e : e = [c EXCEPT !.entity = conversation]
  OBVIOUS
<1>5. /\ Proceed(h, e)
      /\ UNCHANGED <<conversation, messages, sentEvents, overlapped, cutShort>>
  BY <1>1, <1>4 DEF Load
<1>6. /\ e \in Call /\ e.todo = c.todo /\ e.target = c.target /\ e.user = c.user
      /\ e.op = c.op /\ e.entity = conversation /\ e.found = c.found
  BY <1>2, <1>3, <1>4 DEF Call
<1>7. OnScript(e)
  BY <1>1, <1>6, SameScript
<1>8. PICK d : calls' = [calls EXCEPT ![h] = d] /\ NextOf(e, d)
  BY <1>5, <1>6, <1>7, ProceedMoves
<1>9. MovesOn(h, e, d)
  BY <1>1, <1>2, <1>5, <1>6, <1>7, <1>8 DEF MovesOn
<1> QED  BY <1>1, <1>2, <1>5, <1>6, <1>9 DEF Loads

LEMMA SaveEntityUpdates ==
  ASSUME InductiveInvariant, NEW h \in Handlers, OnScript(calls[h]), SaveEntity(h)
  PROVE  \E d : Updates(h, d)
<1>1. PICK step \in Edits : Doing(h, step)
  BY DEF SaveEntity
<1>2. calls[h] \in Call /\ calls[h].todo[1] \in Edits
  BY <1>1, AtStep
<1>3. Proceed(h, calls[h])
  BY DEF SaveEntity
<1>4. PICK d : calls' = [calls EXCEPT ![h] = d] /\ NextOf(calls[h], d)
  BY <1>2, <1>3, ProceedMoves
<1>5. MovesOn(h, calls[h], d)
  BY <1>2, <1>4 DEF MovesOn, SaveEntity
<1> QED  BY <1>2, <1>5 DEF Updates, SaveEntity

LEMMA FindMessagesFinds ==
  ASSUME InductiveInvariant, NEW h \in Handlers, OnScript(calls[h]), FindMessages(h)
  PROVE  FindsNothing(h) \/ \E d : Finds(h, d)
<1>1. PICK c : c = calls[h]
  OBVIOUS
<1>2. c \in Call /\ c.todo[1] = "findMessages"
  BY <1>1, AtStep DEF FindMessages
<1>3. Selected(c) \subseteq DOMAIN messages
  BY <1>1, SelectedStored DEF FindMessages
<1>4. UNCHANGED <<conversation, messages, sentEvents, overlapped, cutShort>>
  BY DEF FindMessages
<1>5. CASE Selected(c) = {}
  BY <1>1, <1>2, <1>4, <1>5 DEF FindMessages, FindsNothing, Return
<1>6. CASE Selected(c) # {}
  <2>1. PICK found : found = {Row(i) : i \in Selected(c)}
    OBVIOUS
  <2>2. PICK e : e = [c EXCEPT !.found = found]
    OBVIOUS
  <2>3. Proceed(h, e)
    BY <1>1, <1>6, <2>1, <2>2 DEF FindMessages, Row
  <2>4. \A i \in DOMAIN messages : i \in Nat /\ messages[i] \in Message
    BY LenProperties, ElementOfSeq DEF InductiveInvariant, TypeOK
  <2>5. found \in SUBSET Found
    BY <1>3, <2>1, <2>4 DEF Found, Row
  <2>6. /\ e \in Call /\ e.todo = c.todo /\ e.target = c.target /\ e.user = c.user
        /\ e.op = c.op /\ e.entity = c.entity /\ e.found = found
    BY <1>2, <2>2, <2>5 DEF Call
  <2>7. OnScript(e)
    BY <1>1, <2>6, SameScript
  <2>8. PICK d : calls' = [calls EXCEPT ![h] = d] /\ NextOf(e, d)
    BY <2>3, <2>6, <2>7, ProceedMoves
  <2>9. MovesOn(h, e, d)
    BY <1>1, <1>2, <1>4, <2>6, <2>7, <2>8 DEF MovesOn
  <2> QED  BY <1>1, <1>2, <1>3, <1>4, <2>1, <2>6, <2>9 DEF Finds
<1> QED  BY <1>5, <1>6

LEMMA SaveMessagesRewrites ==
  ASSUME InductiveInvariant, NEW h \in Handlers, OnScript(calls[h]), SaveMessages(h)
  PROVE  \E d : Rewrites(h, d)
<1>1. PICK c : c = calls[h]
  OBVIOUS
<1>2. PICK step \in {"saveReceipts", "saveCard"} : Doing(h, step)
  BY DEF SaveMessages
<1>3. c \in Call /\ c.todo[1] = step /\ Head(c.todo) = step
  BY <1>1, <1>2, AtStep
<1>4. Doing(h, "saveCard") <=> step = "saveCard"
  BY <1>1, <1>2, <1>3 DEF Doing
<1>5. /\ Proceed(h, c)
      /\ UNCHANGED <<conversation, sentEvents, overlapped, cutShort>>
  BY <1>1 DEF SaveMessages
<1>6. DOMAIN messages' = DOMAIN messages
  BY DEF SaveMessages
<1> DEFINE new(m) == IF Doing(h, "saveCard") THEN [m EXCEPT !.kind = c.to]
                                             ELSE [m EXCEPT !.readers = @ \cup {c.user}]
<1>7. ASSUME NEW m \in Message
      PROVE  /\ new(m).sender = m.sender
             /\ new(m).readers = IF c.todo[1] = "saveCard" THEN m.readers
                                 ELSE m.readers \cup {c.user}
  BY <1>3, <1>4 DEF Message
<1>8. \A i \in DOMAIN messages : messages'[i] =
        IF \E f \in c.found : f.at = i
        THEN new((CHOOSE f \in c.found : f.at = i).row) ELSE messages[i]
  BY <1>1 DEF SaveMessages
<1> HIDE DEF new
<1>9. ASSUME NEW i \in DOMAIN messages
      PROVE  Rewritten(c, i)
  <2>1. CASE \E f \in c.found : f.at = i
    <3>1. PICK f : f = CHOOSE g \in c.found : g.at = i
      OBVIOUS
    <3>2. f \in c.found /\ f.at = i
      BY <2>1, <3>1
    <3>3. f.row \in Message
      BY <1>3, <3>2 DEF Call, Found
    <3>4. messages'[i] = new(f.row)
      BY <1>8, <2>1, <3>1
    <3> QED  BY <1>7, <3>2, <3>3, <3>4 DEF Rewritten
  <2>2. CASE ~ \E f \in c.found : f.at = i
    BY <1>8, <2>2 DEF Rewritten
  <2> QED  BY <2>1, <2>2
<1>10. PICK d : calls' = [calls EXCEPT ![h] = d] /\ NextOf(c, d)
  BY <1>1, <1>3, <1>5, ProceedMoves
<1>11. MovesOn(h, c, d)
  BY <1>1, <1>3, <1>5, <1>10 DEF MovesOn
<1> QED  BY <1>1, <1>3, <1>5, <1>6, <1>9, <1>11 DEF Rewrites

LEMMA PublishSentTells ==
  ASSUME InductiveInvariant, NEW h \in Handlers, OnScript(calls[h]), PublishSent(h)
  PROVE  \E d : Tells(h, d)
<1>1. calls[h] \in Call /\ calls[h].todo[1] = "publish"
  BY AtStep DEF PublishSent
<1>2. Proceed(h, calls[h])
  BY DEF PublishSent
<1>3. PICK d : calls' = [calls EXCEPT ![h] = d] /\ NextOf(calls[h], d)
  BY <1>1, <1>2, ProceedMoves
<1>4. MovesOn(h, calls[h], d)
  BY <1>1, <1>3 DEF MovesOn, PublishSent
<1> QED  BY <1>1, <1>4 DEF Tells, PublishSent

\* Every step of the specification is of one of the kinds.
LEMMA ChatStepKinds ==
  ASSUME InductiveInvariant, InductiveInvariant', MessagesInvariant, [Next]_vars
  PROVE  ChatRests \/ \E h \in Handlers : ChatSteps(h)
<1>1. CASE UNCHANGED vars
  BY <1>1 DEF vars, ChatRests
<1>2. DOMAIN calls = Handlers /\ \A h \in Handlers : calls[h] \in Call \cup {Idle}
  BY DEF InductiveInvariant, TypeOK
<1>3. ASSUME NEW h \in Handlers, NEW user \in Users, UserRequest(h, user)
      PROVE  ChatSteps(h)
  BY <1>2, <1>3, RequestsBegin DEF ChatSteps
<1>4. ASSUME NEW h \in Handlers, OrderEvent(h)
      PROVE  ChatSteps(h)
  BY <1>2, <1>4, OrderEventsBegin DEF ChatSteps
<1>5. ASSUME NEW h \in Handlers, Step(h)
      PROVE  ChatSteps(h)
  <2>1. calls[h] # Idle
    BY <1>5 DEF Step, SaveMessage, Load, SaveEntity, SaveEntityRefused, FindMessages,
       SaveMessages, PublishSent, Doing
  <2>2. OnScript(calls[h]) /\ calls[h] \in Call
    BY <1>2, <2>1 DEF MessagesInvariant
  <2>3. CASE SaveMessage(h)
    BY <2>2, <2>3, SaveMessageStores DEF ChatSteps
  <2>4. CASE Load(h)
    BY <2>2, <2>4, LoadLoads DEF ChatSteps
  <2>5. CASE SaveEntity(h)
    BY <2>2, <2>5, SaveEntityUpdates DEF ChatSteps
  <2>6. CASE SaveEntityRefused(h)
    <3>1. Stops(h)
      BY <2>2, <2>6 DEF SaveEntityRefused, Return, Stops
    <3> QED  BY <3>1 DEF ChatSteps
  <2>7. CASE FindMessages(h)
    BY <2>2, <2>7, FindMessagesFinds DEF ChatSteps
  <2>8. CASE SaveMessages(h)
    BY <2>2, <2>8, SaveMessagesRewrites DEF ChatSteps
  <2>9. CASE PublishSent(h)
    BY <2>2, <2>9, PublishSentTells DEF ChatSteps
  <2> QED  BY <1>5, <2>3, <2>4, <2>5, <2>6, <2>7, <2>8, <2>9 DEF Step
<1>6. ASSUME NEW h \in Handlers, Abort(h)
      PROVE  ChatSteps(h)
  <2>1. Stops(h)
    BY <1>2, <1>6 DEF Abort, Return, Stops
  <2> QED  BY <2>1 DEF ChatSteps
<1>7. CASE Next
  BY <1>3, <1>4, <1>5, <1>6, <1>7 DEF Next
<1> QED  BY <1>1, <1>7

-----------------------------------------------------------------------------
(* Which message a call is about.                                          *)

\* What a step leaves of a call, when it leaves something.
LEMMA Moved ==
  ASSUME NEW h \in Handlers, NEW e, NEW d, MovesOn(h, e, d), d # Idle
  PROVE  /\ OnScript(calls[h]) /\ OnScript(d) /\ d \in Call /\ e \in Call
         /\ Place(calls[h]) \in 1..5 /\ Place(d) = Place(calls[h]) + 1
         /\ StepAt(calls[h].op, Place(calls[h]), calls[h].todo[1])
         /\ d.op = calls[h].op /\ d.user = calls[h].user /\ d.target = e.target
         /\ d.entity = e.entity /\ d.found = e.found
<1>1. PICK c : c = calls[h]
  OBVIOUS
<1>2. OnScript(e) /\ c \in Call /\ e.op = c.op /\ e.todo = c.todo /\ e.user = c.user /\ e \in Call
  BY <1>1 DEF MovesOn
<1>3. OnScript(c) /\ Place(c) = Place(e)
  BY <1>2 DEF OnScript, Place
<1>4. /\ d \in Call /\ OnScript(d) /\ Place(e) # Len(Script[e.op]) /\ Place(d) = Place(e) + 1
      /\ d.op = e.op /\ d.user = e.user /\ d.target = e.target
      /\ d.entity = e.entity /\ d.found = e.found
  BY DEF MovesOn, NextOf
<1>5. StepAt(c.op, Place(c), c.todo[1])
  BY <1>2, <1>3, FirstStep
<1>6. Place(c) \in 1..5
  <2>1. PICK n : n = Len(Script[c.op])
    OBVIOUS
  <2>2. n \in 1..6 /\ Place(c) \in 1..n /\ Place(c) # n
    BY <1>2, <1>3, <1>4, <2>1, ScriptLengths DEF OnScript
  <2> QED  BY <2>2
<1> QED  BY <1>1, <1>2, <1>3, <1>4, <1>5, <1>6

\* A step stores a message or keeps them all, and with them their senders.
SendersStay ==
  /\ DOMAIN messages \subseteq DOMAIN messages'
  /\ \A i \in DOMAIN messages : messages'[i].sender = messages[i].sender

LEMMA SendersAreKept ==
  ASSUME InductiveInvariant, MessagesInvariant, NEW h \in Handlers, ChatSteps(h)
  PROVE  SendersStay
<1>1. CASE \E d : Stores(h, d)
  <2>1. PICK m : messages' = Append(messages, m) /\ m \in Message
    BY <1>1 DEF Stores
  <2>2. messages \in Seq(Message)
    BY DEF InductiveInvariant, TypeOK
  <2>3. /\ messages' \in Seq(Message) /\ Len(messages') = Len(messages) + 1
        /\ \A i \in 1..Len(messages) : messages'[i] = messages[i]
    BY <2>1, <2>2, AppendProperties
  <2>4. DOMAIN messages = 1..Len(messages) /\ DOMAIN messages' = 1..Len(messages')
        /\ Len(messages) \in Nat
    BY <2>2, <2>3, LenProperties
  <2> QED  BY <2>3, <2>4 DEF SendersStay
<1>2. CASE \E d : Rewrites(h, d)
  <2>1. PICK c : c = calls[h]
    OBVIOUS
  <2>2. /\ DOMAIN messages' = DOMAIN messages /\ c \in Call
        /\ c.todo[1] \in {"saveReceipts", "saveCard"}
        /\ \A i \in DOMAIN messages : Rewritten(c, i)
    BY <1>2, <2>1 DEF Rewrites, MovesOn
  <2>3. KnowsMessages(c)
    <3>1. OnScript(c)
      BY <1>2, <2>1, <2>2 DEF Rewrites, MovesOn, OnScript, Place
    <3>2. c # Idle
      BY <3>1, ScriptTable DEF OnScript, Idle
    <3> QED  BY <2>1, <3>2 DEF MessagesInvariant
  <2>4. ASSUME NEW i \in DOMAIN messages
        PROVE  messages'[i].sender = messages[i].sender
    <3>1. CASE \E f \in c.found : f.at = i /\ messages'[i].sender = f.row.sender
      <4>1. PICK f \in c.found : f.at = i /\ messages'[i].sender = f.row.sender
        BY <3>1
      <4>2. f.row.sender = messages[f.at].sender
        BY <2>3 DEF KnowsMessages
      <4> QED  BY <4>1, <4>2
    <3>2. CASE messages'[i] = messages[i]
      BY <3>2
    <3> QED  BY <2>2, <3>1, <3>2 DEF Rewritten
  <2> QED  BY <2>2, <2>4 DEF SendersStay
<1>3. CASE UNCHANGED messages
  BY <1>3 DEF SendersStay
<1> QED  BY <1>1, <1>2, <1>3 DEF ChatSteps, Begins, Loads, Updates, Finds, Tells, FindsNothing, Stops

LEMMA KnowledgeStays ==
  ASSUME SendersStay, NEW c, KnowsMessages(c)
  PROVE  KnowsMessages(c)'
BY DEF SendersStay, KnowsMessages

\* The call that moved knows its message, and nobody else wrote it.
LEMMA MessagesKept ==
  ASSUME InductiveInvariant, MessagesInvariant, SendersStay, NEW h \in Handlers, NEW d,
         calls' = [calls EXCEPT ![h] = d],
         d # Idle =>
           /\ OnScript(d) /\ KnowsMessages(d)'
           /\ Wrote(d) => \A g \in Handlers \ {h} :
                            calls[g] # Idle /\ Wrote(calls[g]) => calls[g].target # d.target
  PROVE  MessagesInvariant'
<1>1. DOMAIN calls = Handlers
  BY DEF InductiveInvariant, TypeOK
<1>2. calls'[h] = d /\ \A g \in Handlers \ {h} : calls'[g] = calls[g]
  BY <1>1
<1>3. ASSUME NEW g \in Handlers, NEW c, c = calls'[g], c # Idle
      PROVE  OnScript(c) /\ KnowsMessages(c)'
  <2>1. CASE g = h
    <3>1. c = d
      BY <1>2, <1>3, <2>1
    <3> QED  BY <1>3, <3>1
  <2>2. CASE g # h
    <3>1. c = calls[g]
      BY <1>2, <1>3, <2>2
    <3>2. OnScript(c) /\ KnowsMessages(c)
      BY <1>3, <3>1 DEF MessagesInvariant
    <3> QED  BY <3>2, KnowledgeStays
  <2> QED  BY <2>1, <2>2
<1>4. ASSUME NEW f \in Handlers, NEW g \in Handlers, f # g,
             calls'[f] # Idle, calls'[g] # Idle, Wrote(calls'[f]), Wrote(calls'[g])
      PROVE  calls'[f].target # calls'[g].target
  <2>1. CASE f # h /\ g # h
    BY <1>2, <1>4, <2>1 DEF MessagesInvariant, OneWriter
  <2>2. CASE f = h \/ g = h
    BY <1>2, <1>4, <2>2
  <2> QED  BY <2>1, <2>2
<1>5. OneWriter'
  BY <1>4 DEF OneWriter, Wrote, Place
<1>6. ASSUME NEW g \in Handlers, calls'[g] # Idle
      PROVE  (OnScript(calls[g]) /\ KnowsMessages(calls[g]))'
  <2>1. PICK c : c = calls'[g]
    OBVIOUS
  <2>2. OnScript(c) /\ KnowsMessages(c)'
    BY <1>3, <1>6, <2>1
  <2>3. OnScript(calls[g])'
    BY <2>1, <2>2 DEF OnScript, Place
  <2>4. KnowsMessages(calls[g])'
    BY <2>1, <2>2 DEF KnowsMessages, Wrote, Place
  <2> QED  BY <2>3, <2>4
<1> QED  BY <1>5, <1>6 DEF MessagesInvariant

\* A step that changes neither the target of its call nor what it has found.
LEMMA SameMessage ==
  ASSUME InductiveInvariant, MessagesInvariant, SendersStay, NEW h \in Handlers, NEW e, NEW d,
         MovesOn(h, e, d), calls[h].todo[1] # "saveMessage", e.target = calls[h].target,
         \A f \in e.found : f.at \in DOMAIN messages /\ f.row.sender = messages[f.at].sender
  PROVE  MessagesInvariant'
<1>1. calls' = [calls EXCEPT ![h] = d]
  BY DEF MovesOn
<1>2. CASE d = Idle
  BY <1>1, <1>2, MessagesKept
<1>3. CASE d # Idle
  <2>1. PICK c : c = calls[h]
    OBVIOUS
  <2>2. /\ OnScript(c) /\ OnScript(d) /\ Place(c) \in 1..5 /\ Place(d) = Place(c) + 1
        /\ StepAt(c.op, Place(c), c.todo[1])
        /\ d.op = c.op /\ d.user = c.user /\ d.target = c.target /\ d.found = e.found
    BY <1>3, <2>1, Moved
  <2>3. c # Idle
    BY <2>2, ScriptTable DEF OnScript, Idle
  <2>4. KnowsMessages(c)
    BY <2>1, <2>3 DEF MessagesInvariant
  <2>5. Wrote(d) => Wrote(c)
    BY <2>1, <2>2 DEF Wrote, StepAt
  <2>6. KnowsMessages(d)
    BY <2>2, <2>4, <2>5 DEF KnowsMessages
  <2>7. KnowsMessages(d)'
    BY <2>6, KnowledgeStays
  <2>8. Wrote(d) => \A g \in Handlers \ {h} :
          calls[g] # Idle /\ Wrote(calls[g]) => calls[g].target # d.target
    BY <2>1, <2>2, <2>3, <2>5 DEF MessagesInvariant, OneWriter
  <2> QED  BY <1>1, <2>2, <2>7, <2>8, MessagesKept
<1> QED  BY <1>2, <1>3

LEMMA MessagesStep ==
  ASSUME InductiveInvariant, MessagesInvariant, NEW h \in Handlers, ChatSteps(h)
  PROVE  MessagesInvariant'
<1>1. SendersStay
  BY SendersAreKept
<1>2. ASSUME calls[h] \in Call, OnScript(calls[h])
      PROVE  KnowsMessages(calls[h])
  <2>1. calls[h] # Idle
    BY <1>2, ScriptTable DEF OnScript, Idle
  <2> QED  BY <2>1 DEF MessagesInvariant
<1>3. ASSUME NEW e, NEW d, MovesOn(h, e, d)
      PROVE  KnowsMessages(calls[h])
  <2>1. OnScript(calls[h]) /\ calls[h] \in Call
    BY <1>3 DEF MovesOn, OnScript, Place
  <2> QED  BY <1>2, <2>1
<1>4. ASSUME NEW d, Begins(h, d) PROVE MessagesInvariant'
  <2>1. /\ calls' = [calls EXCEPT ![h] = d] /\ OnScript(d) /\ Place(d) = 1 /\ d.found = {}
        /\ d.op \in {"sendMessage", "markConversationRead"} => d.user \in Users
        /\ d.op = "postRefundMessage" => d.user = System
    BY <1>4 DEF Begins
  <2>2. ~Wrote(d)
    BY <2>1 DEF Wrote
  <2>3. KnowsMessages(d)'
    BY <2>1, <2>2 DEF KnowsMessages
  <2> QED  BY <1>1, <2>1, <2>2, <2>3, MessagesKept
<1>5. ASSUME NEW d, Stores(h, d) PROVE MessagesInvariant'
  <2>1. PICK e, m : /\ MovesOn(h, e, d) /\ e.target = Len(messages) + 1
                    /\ e.found = calls[h].found
                    /\ m \in Message /\ m.sender = calls[h].user
                    /\ messages' = Append(messages, m)
    BY <1>5 DEF Stores
  <2>2. calls' = [calls EXCEPT ![h] = d]
    BY <2>1 DEF MovesOn
  <2>3. CASE d = Idle
    BY <1>1, <2>2, <2>3, MessagesKept
  <2>4. CASE d # Idle
    <3>1. PICK n : n = Len(messages)
      OBVIOUS
    <3>2. /\ OnScript(d) /\ d.op = calls[h].op /\ d.user = calls[h].user
          /\ d.target = n + 1 /\ d.found = calls[h].found
      BY <2>1, <2>4, <3>1, Moved
    <3>3. messages \in Seq(Message) /\ n \in Nat
      BY <3>1, LenProperties DEF InductiveInvariant, TypeOK
    <3>4. n + 1 \in DOMAIN messages' /\ messages'[n + 1] = m
      <4>1. messages' \in Seq(Message) /\ Len(messages') = n + 1 /\ messages'[n + 1] = m
        BY <2>1, <3>1, <3>3, AppendProperties
      <4>2. DOMAIN messages' = 1..(n + 1)
        BY <4>1, LenProperties
      <4> QED  BY <3>3, <4>1, <4>2
    <3>5. KnowsMessages(calls[h])
      BY <1>3, <2>1
    <3>6. \A f \in d.found :
            (f.at \in DOMAIN messages /\ f.row.sender = messages[f.at].sender)'
      BY <1>1, <3>2, <3>5 DEF KnowsMessages, SendersStay
    <3>7. d.target \in DOMAIN messages' /\ messages'[d.target].sender = d.user
      BY <2>1, <3>2, <3>4
    <3>8. /\ d.op \in {"sendMessage", "markConversationRead"} => d.user \in Users
          /\ d.op = "postRefundMessage" => d.user = System
      BY <3>2, <3>5 DEF KnowsMessages
    <3>9. KnowsMessages(d)'
      BY <3>6, <3>7, <3>8 DEF KnowsMessages
    <3>10. ASSUME NEW g \in Handlers, calls[g] # Idle PROVE calls[g].target # d.target
      <4>1. calls[g].target <= n /\ calls[g] \in Call
        BY <3>1, <3>10 DEF InductiveInvariant, TypeOK
      <4>2. calls[g].target \in Nat
        BY <4>1 DEF Call
      <4> QED  BY <3>2, <3>3, <4>1, <4>2
    <3> QED  BY <1>1, <2>2, <3>2, <3>9, <3>10, MessagesKept
  <2> QED  BY <2>3, <2>4
<1>6. ASSUME NEW d, Finds(h, d) PROVE MessagesInvariant'
  <2>1. PICK e : /\ MovesOn(h, e, d) /\ e.target = calls[h].target
                 /\ e.found = {Row(i) : i \in Selected(calls[h])}
    BY <1>6 DEF Finds
  <2>2. Selected(calls[h]) \subseteq DOMAIN messages /\ calls[h].todo[1] # "saveMessage"
    BY <1>6 DEF Finds
  <2>3. \A f \in e.found : f.at \in DOMAIN messages /\ f.row.sender = messages[f.at].sender
    BY <2>1, <2>2 DEF Row
  <2> QED  BY <1>1, <2>1, <2>2, <2>3, SameMessage
<1>7. ASSUME NEW e, NEW d, MovesOn(h, e, d), calls[h].todo[1] # "saveMessage",
             e.target = calls[h].target, e.found = calls[h].found
      PROVE  MessagesInvariant'
  <2>1. \A f \in e.found : f.at \in DOMAIN messages /\ f.row.sender = messages[f.at].sender
    BY <1>3, <1>7 DEF KnowsMessages
  <2> QED  BY <1>1, <1>7, <2>1, SameMessage
<1>8. ASSUME NEW d, Loads(h, d) PROVE MessagesInvariant'
  BY <1>7, <1>8 DEF Loads
<1>9. ASSUME NEW d, Updates(h, d) \/ Rewrites(h, d) \/ Tells(h, d) PROVE MessagesInvariant'
  BY <1>7, <1>9 DEF Updates, Rewrites, Tells, Edits
<1>10. CASE FindsNothing(h) \/ Stops(h)
  <2>1. PICK d : d = Idle
    OBVIOUS
  <2>2. calls' = [calls EXCEPT ![h] = d]
    BY <1>10, <2>1 DEF FindsNothing, Stops
  <2> QED  BY <1>1, <2>1, <2>2, MessagesKept
<1> QED  BY <1>4, <1>5, <1>6, <1>8, <1>9, <1>10 DEF ChatSteps

\* The inductive invariant, and with it what every call knows of the messages.
Known == InductiveInvariant /\ MessagesInvariant

LEMMA KnownInit == Init => Known
BY InitInvariant DEF Known, Init, MessagesInvariant, OneWriter

LEMMA ChatAtRest ==
  ASSUME ChatRests
  PROVE  /\ MessagesInvariant => MessagesInvariant'
         /\ CountsInvariant => CountsInvariant'
         /\ ToldInvariant => ToldInvariant'
         /\ SequentialInvariant => SequentialInvariant'
<1> USE DEF ChatRests
<1>1. MessagesInvariant => MessagesInvariant'
  BY DEF MessagesInvariant, OneWriter, OnScript, Place, KnowsMessages, Wrote
<1>2. CountsInvariant => CountsInvariant'
  BY DEF CountsInvariant, CountsNoMore, FromOthers, Uncounted, Counters, Counting, Place
<1>3. ToldInvariant => ToldInvariant'
  BY DEF ToldInvariant, ToldOnce, Announcements, Announcers, Announcing, Place
<1>4. SequentialInvariant => SequentialInvariant'
  BY DEF SequentialInvariant, UpToDate, Resetting, Place, Row, UnreadBy, FromOthers, Exempt,
     Shown, Due, Uncounted, Counters, Counting
<1> QED  BY <1>1, <1>2, <1>3, <1>4

LEMMA KnownNext == Known /\ [Next]_vars => Known'
<1> SUFFICES ASSUME Known, [Next]_vars PROVE Known'
  OBVIOUS
<1>1. InductiveInvariant'
  BY NextInvariant DEF Known
<1>2. ChatRests \/ \E h \in Handlers : ChatSteps(h)
  BY <1>1, ChatStepKinds DEF Known
<1> QED  BY <1>1, <1>2, ChatAtRest, MessagesStep DEF Known

-----------------------------------------------------------------------------
(* Announcements.                                                          *)

\* Where a call that ends was: at the end of its script.
LEMMA Ended ==
  ASSUME NEW h \in Handlers, NEW e, MovesOn(h, e, Idle), Idle \notin Call
  PROVE  /\ OnScript(calls[h]) /\ Place(calls[h]) = Len(Script[calls[h].op])
         /\ StepAt(calls[h].op, Place(calls[h]), calls[h].todo[1])
<1>1. PICK c : c = calls[h]
  OBVIOUS
<1>2. OnScript(e) /\ c \in Call /\ e.op = c.op /\ e.todo = c.todo /\ Place(e) = Len(Script[e.op])
  BY <1>1 DEF MovesOn, NextOf
<1>3. OnScript(c) /\ Place(c) = Place(e)
  BY <1>2 DEF OnScript, Place
<1>4. StepAt(c.op, Place(c), c.todo[1])
  BY <1>2, <1>3, FirstStep
<1> QED  BY <1>1, <1>2, <1>3, <1>4

LEMMA IdleIsNoCall == Idle \notin Call
<1> SUFFICES ASSUME Idle \in Call PROVE FALSE
  OBVIOUS
<1>1. DOMAIN Idle = {"op"}
  BY DEF Idle
<1>2. "todo" \in DOMAIN Idle
  BY DEF Call
<1> QED  BY <1>1, <1>2

\* A call that stores a message has more to do.
LEMMA StoresGoesOn ==
  ASSUME NEW h \in Handlers, NEW d, Stores(h, d)
  PROVE  d # Idle
<1> SUFFICES ASSUME d = Idle PROVE FALSE
  OBVIOUS
<1>1. PICK c, e : c = calls[h] /\ MovesOn(h, e, Idle) /\ c.todo[1] = "saveMessage"
  BY DEF Stores
<1>2. OnScript(c) /\ Place(c) = Len(Script[c.op]) /\ c.op \in WritingOps /\ Place(c) = 1
  BY <1>1, Ended, IdleIsNoCall DEF StepAt
<1>3. PICK op : op = c.op /\ op \in DOMAIN Script /\ op \in WritingOps
  BY <1>2 DEF OnScript
<1>4. 1 \in 1..Len(Script[op]) /\ Len(Script[op]) = 1
  BY <1>2, <1>3 DEF OnScript
<1>5. Len(Script[op]) \in 5..6
  BY <1>3, <1>4, StepsOfScript
<1> QED  BY <1>4, <1>5

\* A call that is to announce message i.
Announces(c, i) == c # Idle /\ Announcing(c) /\ c.target = i

\* A step that announces nothing leaves a message as told as it was, when its
\* call is to announce it afterwards if and only if it was before.
LEMMA ToldKept ==
  ASSUME InductiveInvariant, ToldInvariant, SendersStay, NEW h \in Handlers, NEW d,
         calls' = [calls EXCEPT ![h] = d], UNCHANGED sentEvents,
         NEW i \in DOMAIN messages,
         Announces(d, i) => Announces(calls[h], i),
         cutShort' \/ (UNCHANGED cutShort /\ (Announces(calls[h], i) => Announces(d, i)))
  PROVE  ToldOnce(i)'
<1>1. DOMAIN calls = Handlers
  BY DEF InductiveInvariant, TypeOK
<1>2. calls'[h] = d /\ \A g \in Handlers \ {h} : calls'[g] = calls[g]
  BY <1>1
<1>3. PICK A, B, C, D : /\ A = Announcements(i) /\ B = Announcements(i)'
                        /\ C = Announcers(i) /\ D = Announcers(i)'
  OBVIOUS
<1>4. B = A
  BY <1>3 DEF Announcements
<1>5. C = {g \in Handlers : Announces(calls[g], i)}
  BY <1>3 DEF Announcers, Announces
<1>6. D = {g \in Handlers : Announces(calls'[g], i)}
  BY <1>3 DEF Announcers, Announces, Announcing, Place
<1>7. D \subseteq C
  BY <1>2, <1>5, <1>6
<1>8. cutShort' \/ (UNCHANGED cutShort /\ C = D)
  <2>1. CASE UNCHANGED cutShort /\ (Announces(calls[h], i) => Announces(d, i))
    <3>1. C \subseteq D
      BY <1>2, <1>5, <1>6, <2>1
    <3> QED  BY <1>7, <2>1, <3>1
  <2> QED  BY <2>1
<1>9. /\ \A k, l \in A : k = l
      /\ A # {} => C = {} /\ messages[i].sender # System
      /\ messages[i].sender # System /\ ~cutShort => A # {} \/ C # {}
  BY <1>3 DEF ToldInvariant, ToldOnce
<1>10. messages'[i].sender = messages[i].sender
  BY DEF SendersStay
<1>11. /\ \A k, l \in B : k = l
       /\ B # {} => D = {} /\ messages'[i].sender # System
       /\ messages'[i].sender # System /\ ~cutShort' => B # {} \/ D # {}
  BY <1>4, <1>7, <1>8, <1>9, <1>10
<1> QED  BY <1>3, <1>11 DEF ToldOnce

LEMMA StoresTold ==
  ASSUME InductiveInvariant, MessagesInvariant, ToldInvariant, SendersStay,
         NEW h \in Handlers, NEW d, Stores(h, d)
  PROVE  ToldInvariant'
<1>1. PICK e, m : /\ MovesOn(h, e, d) /\ e.target = Len(messages) + 1
                  /\ m \in Message /\ m.sender = calls[h].user
                  /\ messages' = Append(messages, m)
  BY DEF Stores
<1>2. PICK c, n : c = calls[h] /\ n = Len(messages)
  OBVIOUS
<1>3. c.todo[1] = "saveMessage" /\ UNCHANGED <<sentEvents, cutShort>>
      /\ calls' = [calls EXCEPT ![h] = d]
  BY <1>1, <1>2 DEF Stores, MovesOn
<1>4. d # Idle
  BY StoresGoesOn
<1>5. /\ OnScript(c) /\ Place(c) = 1 /\ Place(d) = 2 /\ c.op \in WritingOps
      /\ d.op = c.op /\ d.user = c.user /\ d.target = n + 1
  BY <1>1, <1>2, <1>3, <1>4, Moved DEF StepAt
<1>6. messages \in Seq(Message) /\ n \in Nat /\ DOMAIN messages = 1..n /\ sentEvents \in Seq(1..n)
  BY <1>2, LenProperties DEF InductiveInvariant, TypeOK
<1>7. /\ messages' \in Seq(Message) /\ Len(messages') = n + 1 /\ messages'[n + 1] = m
      /\ DOMAIN messages' = 1..(n + 1)
  BY <1>1, <1>2, <1>6, AppendProperties, LenProperties
<1>8. c # Idle /\ KnowsMessages(c)
  BY <1>2, <1>5, ScriptTable DEF OnScript, Idle, MessagesInvariant
<1>9. ASSUME NEW i \in DOMAIN messages PROVE ToldOnce(i)'
  <2>1. ~Announces(d, i) /\ ~Announces(c, i)
    BY <1>5, <1>6, <1>9 DEF Announces, Announcing
  <2> QED  BY <1>2, <1>3, <1>9, <2>1, ToldKept
<1>10. ToldOnce(n + 1)'
  <2>1. \A k \in DOMAIN sentEvents : sentEvents[k] # n + 1
    BY <1>6, ElementOfSeq, LenProperties
  <2>2. Announcements(n + 1)' = {}
    BY <1>3, <2>1 DEF Announcements
  <2>3. CASE c.op = "sendMessage"
    <3>1. Announcing(d)
      BY <1>5, <2>3 DEF Announcing
    <3>2. calls'[h] = d
      BY <1>3 DEF InductiveInvariant, TypeOK
    <3>3. h \in Announcers(n + 1)'
      BY <1>4, <1>5, <3>1, <3>2 DEF Announcers, Announcing, Place
    <3> QED  BY <2>2, <3>3 DEF ToldOnce
  <2>4. CASE c.op # "sendMessage"
    <3>1. m.sender = System
      BY <1>1, <1>2, <1>5, <1>8, <2>4 DEF WritingOps, KnowsMessages
    <3> QED  BY <1>7, <2>2, <3>1 DEF ToldOnce
  <2> QED  BY <2>3, <2>4
<1>11. ASSUME NEW i \in DOMAIN messages' PROVE ToldOnce(i)'
  <2>1. i \in DOMAIN messages \/ i = n + 1
    BY <1>6, <1>7, <1>11
  <2> QED  BY <1>9, <1>10, <2>1
<1> QED  BY <1>11 DEF ToldInvariant

LEMMA TellsTold ==
  ASSUME InductiveInvariant, MessagesInvariant, ToldInvariant, SendersStay,
         NEW h \in Handlers, NEW d, Tells(h, d)
  PROVE  ToldInvariant'
<1>1. PICK c, s : c = calls[h] /\ s = Len(sentEvents)
  OBVIOUS
<1>2. /\ c.todo[1] = "publish" /\ MovesOn(h, c, d) /\ sentEvents' = Append(sentEvents, c.target)
      /\ calls' = [calls EXCEPT ![h] = d] /\ UNCHANGED <<messages, cutShort>>
  BY <1>1 DEF Tells, MovesOn
<1>3. d = Idle /\ OnScript(c) /\ c.op = "sendMessage" /\ Place(c) = 6
  <2>1. CASE d # Idle
    <3>1. StepAt(c.op, Place(c), c.todo[1]) /\ Place(c) \in 1..5
      BY <1>1, <1>2, <2>1, Moved
    <3>2. Place(c) = 6
      BY <1>2, <3>1 DEF StepAt
    <3> QED  BY <3>1, <3>2
  <2>2. CASE d = Idle
    BY <1>1, <1>2, <2>2, Ended, IdleIsNoCall DEF StepAt
  <2> QED  BY <2>1, <2>2
<1>4. c # Idle /\ KnowsMessages(c) /\ Wrote(c)
  BY <1>1, <1>3, ScriptTable DEF OnScript, Idle, MessagesInvariant, Wrote, WritingOps
<1>5. /\ c.target \in DOMAIN messages /\ messages[c.target].sender = c.user /\ c.user \in Users
  BY <1>3, <1>4 DEF KnowsMessages
<1>6. messages[c.target].sender # System
  BY <1>5, CommunicationAssumed DEF CommunicationAssumption
<1>7. Announces(c, c.target)
  BY <1>3, <1>4 DEF Announces, Announcing
<1>8. DOMAIN calls = Handlers /\ sentEvents \in Seq(Nat) /\ c.target \in Nat
  <2>1. messages \in Seq(Message) /\ sentEvents \in Seq(1..Len(messages)) /\ DOMAIN calls = Handlers
    BY DEF InductiveInvariant, TypeOK
  <2>2. DOMAIN messages \subseteq Nat /\ 1..Len(messages) \subseteq Nat
    BY <2>1, LenProperties
  <2>3. sentEvents \in Seq(Nat)
    BY <2>1, <2>2, ElementOfSeq, SeqDef
  <2> QED  BY <1>5, <2>1, <2>2, <2>3
<1>9. /\ s \in Nat /\ DOMAIN sentEvents = 1..s /\ DOMAIN sentEvents' = 1..(s + 1)
      /\ sentEvents'[s + 1] = c.target /\ \A k \in 1..s : sentEvents'[k] = sentEvents[k]
  BY <1>1, <1>2, <1>8, AppendProperties, LenProperties
<1>10. calls'[h] = Idle /\ \A g \in Handlers \ {h} : calls'[g] = calls[g]
  BY <1>2, <1>3, <1>8
<1>11. ASSUME NEW i \in DOMAIN messages PROVE ToldOnce(i)'
  <2>1. PICK A, B, C, D : /\ A = Announcements(i) /\ B = Announcements(i)'
                          /\ C = Announcers(i) /\ D = Announcers(i)'
    OBVIOUS
  <2>2. C = {g \in Handlers : Announces(calls[g], i)}
    BY <2>1 DEF Announcers, Announces
  <2>3. D = {g \in Handlers : Announces(calls'[g], i)}
    BY <2>1 DEF Announcers, Announces, Announcing, Place
  <2>4. A = {k \in 1..s : sentEvents[k] = i}
    BY <1>9, <2>1 DEF Announcements
  <2>5. B = {k \in 1..(s + 1) : sentEvents'[k] = i}
    BY <1>9, <2>1 DEF Announcements
  <2>6. /\ \A k, l \in A : k = l
        /\ A # {} => C = {} /\ messages[i].sender # System
        /\ messages[i].sender # System /\ ~cutShort => A # {} \/ C # {}
    BY <2>1 DEF ToldInvariant, ToldOnce
  <2>7. CASE i = c.target
    <3>1. h \in C
      BY <1>1, <1>7, <2>2, <2>7
    <3>2. A = {}
      BY <2>6, <3>1
    <3>3. B = {s + 1}
      BY <1>9, <2>4, <2>5, <2>7, <3>2
    <3>4. ASSUME NEW g \in Handlers, Announces(calls'[g], i) PROVE FALSE
      <4>1. g # h /\ calls'[g] = calls[g]
        BY <1>10, <3>4 DEF Announces
      <4>2. calls[g] # Idle /\ Wrote(calls[g]) /\ calls[g].target = i
        BY <3>4, <4>1 DEF Announces, Announcing, Wrote, WritingOps
      <4> QED  BY <1>1, <1>4, <2>7, <4>1, <4>2 DEF MessagesInvariant, OneWriter
    <3>5. D = {}
      BY <2>3, <3>4
    <3>6. /\ \A k, l \in B : k = l
          /\ B # {} => D = {} /\ messages'[i].sender # System
          /\ messages'[i].sender # System /\ ~cutShort' => B # {} \/ D # {}
      BY <1>2, <1>6, <2>7, <3>3, <3>5
    <3> QED  BY <2>1, <3>6 DEF ToldOnce
  <2>8. CASE i # c.target
    <3>1. B = A
      BY <1>9, <2>4, <2>5, <2>8
    <3>2. \A g \in Handlers : Announces(calls'[g], i) <=> Announces(calls[g], i)
      BY <1>1, <1>10, <2>8 DEF Announces
    <3>3. D = C
      BY <2>2, <2>3, <3>2
    <3>4. /\ \A k, l \in B : k = l
          /\ B # {} => D = {} /\ messages'[i].sender # System
          /\ messages'[i].sender # System /\ ~cutShort' => B # {} \/ D # {}
      BY <1>2, <2>6, <3>1, <3>3
    <3> QED  BY <2>1, <3>4 DEF ToldOnce
  <2> QED  BY <2>7, <2>8
<1> QED  BY <1>2, <1>11 DEF ToldInvariant

LEMMA ToldStep ==
  ASSUME InductiveInvariant, MessagesInvariant, ToldInvariant, NEW h \in Handlers, ChatSteps(h)
  PROVE  ToldInvariant'
<1>1. SendersStay
  BY SendersAreKept
<1>2. PICK c : c = calls[h]
  OBVIOUS
<1>3. ASSUME NEW d, calls' = [calls EXCEPT ![h] = d], UNCHANGED sentEvents,
             DOMAIN messages' = DOMAIN messages,
             \A i \in DOMAIN messages : Announces(d, i) => Announces(c, i),
             cutShort' \/ (UNCHANGED cutShort /\
                             \A i \in DOMAIN messages : Announces(c, i) => Announces(d, i))
      PROVE  ToldInvariant'
  <2>1. ASSUME NEW i \in DOMAIN messages PROVE ToldOnce(i)'
    BY <1>1, <1>2, <1>3, ToldKept
  <2> QED  BY <1>3, <2>1 DEF ToldInvariant
<1>4. ASSUME NEW d, Begins(h, d) PROVE ToldInvariant'
  <2>1. /\ calls' = [calls EXCEPT ![h] = d] /\ Place(d) = 1 /\ c = Idle
        /\ UNCHANGED <<messages, sentEvents, cutShort>>
    BY <1>2, <1>4 DEF Begins
  <2>2. \A i \in DOMAIN messages : ~Announces(c, i) /\ ~Announces(d, i)
    BY <2>1 DEF Announces, Announcing
  <2> QED  BY <1>3, <2>1, <2>2
<1>5. ASSUME NEW e, NEW d, MovesOn(h, e, d), UNCHANGED sentEvents,
             DOMAIN messages' = DOMAIN messages, e.target = c.target,
             c.todo[1] \notin {"saveMessage", "publish"}
      PROVE  ToldInvariant'
  <2>1. calls' = [calls EXCEPT ![h] = d] /\ UNCHANGED cutShort
    BY <1>5 DEF MovesOn
  <2>2. CASE d # Idle
    <3>1. /\ OnScript(c) /\ Place(c) \in 1..5 /\ Place(d) = Place(c) + 1
          /\ StepAt(c.op, Place(c), c.todo[1]) /\ d.op = c.op /\ d.target = c.target
      BY <1>2, <1>5, <2>2, Moved
    <3>2. c # Idle
      BY <3>1, ScriptTable DEF OnScript, Idle
    <3>3. Announcing(d) <=> Announcing(c)
      BY <1>5, <3>1 DEF Announcing, StepAt, WritingOps
    <3>4. \A i \in DOMAIN messages : Announces(c, i) <=> Announces(d, i)
      BY <2>2, <3>1, <3>2, <3>3 DEF Announces
    <3> QED  BY <1>3, <1>5, <2>1, <3>4
  <2>3. CASE d = Idle
    <3>1. /\ OnScript(c) /\ Place(c) = Len(Script[c.op])
          /\ StepAt(c.op, Place(c), c.todo[1])
      BY <1>2, <1>5, <2>3, Ended, IdleIsNoCall
    <3>2. c.op # "sendMessage"
      <4>1. Len(Script["sendMessage"]) = 6
        BY ScriptTable
      <4> QED  BY <1>5, <3>1, <4>1 DEF StepAt
    <3>3. \A i \in DOMAIN messages : ~Announces(c, i) /\ ~Announces(d, i)
      BY <2>3, <3>2 DEF Announces, Announcing
    <3> QED  BY <1>3, <1>5, <2>1, <3>3
  <2> QED  BY <2>2, <2>3
<1>6. ASSUME NEW d, Loads(h, d) \/ Updates(h, d) \/ Finds(h, d) \/ Rewrites(h, d)
      PROVE  ToldInvariant'
  BY <1>2, <1>5, <1>6 DEF Loads, Updates, Finds, Rewrites, Edits
<1>7. PICK idle : idle = Idle
  OBVIOUS
<1>8. \A i \in DOMAIN messages : ~Announces(idle, i)
  BY <1>7 DEF Announces
<1>9. CASE Stops(h)
  <2>1. calls' = [calls EXCEPT ![h] = idle] /\ cutShort' /\ UNCHANGED <<messages, sentEvents>>
    BY <1>7, <1>9 DEF Stops
  <2> QED  BY <1>3, <1>8, <2>1
<1>10. CASE FindsNothing(h)
  <2>1. /\ calls' = [calls EXCEPT ![h] = idle] /\ UNCHANGED <<messages, sentEvents, cutShort>>
        /\ c \in Call /\ c.todo[1] = "findMessages"
    BY <1>2, <1>7, <1>10 DEF FindsNothing
  <2>2. c # Idle /\ OnScript(c)
    BY <1>2, <2>1, IdleIsNoCall DEF MessagesInvariant
  <2>3. StepAt(c.op, Place(c), c.todo[1])
    BY <2>1, <2>2, FirstStep
  <2>4. c.op # "sendMessage"
    BY <2>1, <2>3 DEF StepAt, WritingOps
  <2>5. \A i \in DOMAIN messages : ~Announces(c, i)
    BY <2>4 DEF Announces, Announcing
  <2> QED  BY <1>3, <1>8, <2>1, <2>5
<1>11. ASSUME NEW d, Stores(h, d) \/ Tells(h, d) PROVE ToldInvariant'
  BY <1>1, <1>11, StoresTold, TellsTold
<1> QED  BY <1>4, <1>6, <1>9, <1>10, <1>11 DEF ChatSteps

\* Every message is announced once, about to be announced, or from the system.
LEMMA ToldNext == Known /\ ToldInvariant /\ [Next]_vars => ToldInvariant'
<1> SUFFICES ASSUME Known, ToldInvariant, [Next]_vars PROVE ToldInvariant'
  OBVIOUS
<1>1. ChatRests \/ \E h \in Handlers : ChatSteps(h)
  BY KnownNext, ChatStepKinds DEF Known
<1> QED  BY <1>1, ChatAtRest, ToldStep DEF Known

\* notifications-service is told exactly once of every message that a user sent,
\* and never of one that the system sent, when no call was cut short.
THEOREM EveryMessageIsTold == Spec => []StoredIsAnnounced
<1>1. Init => ToldInvariant
  BY DEF Init, ToldInvariant
<1>2. Known /\ ToldInvariant => StoredIsAnnounced
  <2> SUFFICES ASSUME Known, ToldInvariant, Quiet, ~cutShort, NEW i \in DOMAIN messages
               PROVE  Cardinality({k \in DOMAIN sentEvents : sentEvents[k] = i})
                        = IF messages[i].sender = System THEN 0 ELSE 1
    BY DEF StoredIsAnnounced
  <2>1. PICK A : A = Announcements(i)
    OBVIOUS
  <2>2. Announcers(i) = {}
    BY DEF Announcers, Quiet
  <2>3. /\ \A k, l \in A : k = l
        /\ A # {} => messages[i].sender # System
        /\ messages[i].sender # System => A # {}
    BY <2>1, <2>2 DEF ToldInvariant, ToldOnce
  <2>4. CASE messages[i].sender = System
    BY <2>1, <2>3, <2>4, FS_EmptySet DEF Announcements
  <2>5. CASE messages[i].sender # System
    <3>1. \E k : A = {k}
      <4>1. PICK k \in A : TRUE
        BY <2>3, <2>5
      <4>2. A = {k}
        BY <2>3, <4>1
      <4> QED  BY <4>2
    <3>2. Cardinality(A) = 1
      BY <3>1, FS_Singleton
    <3> QED  BY <2>1, <2>5, <3>2 DEF Announcements
  <2> QED  BY <2>4, <2>5
<1> QED  BY KnownInit, KnownNext, ToldNext, <1>1, <1>2, PTL DEF Spec

-----------------------------------------------------------------------------
(* Counters.                                                               *)

LEMMA CardinalityGrows ==
  ASSUME NEW T, IsFiniteSet(T), NEW S, S \subseteq T, NEW x \in Nat, x <= Cardinality(S)
  PROVE  /\ x <= Cardinality(T)
         /\ \A t \in T : t \notin S => x + 1 <= Cardinality(T)
<1>1. IsFiniteSet(S) /\ Cardinality(S) <= Cardinality(T)
  BY FS_Subset
<1>2. PICK m, n : m = Cardinality(S) /\ n = Cardinality(T) /\ m \in Nat /\ n \in Nat
  BY <1>1, FS_CardinalityType
<1>3. ASSUME NEW t \in T, t \notin S PROVE x + 1 <= n
  <2>1. Cardinality(S \cup {t}) = m + 1
    BY <1>1, <1>2, <1>3, FS_AddElement
  <2>2. S \cup {t} \subseteq T
    BY <1>3
  <2>3. Cardinality(S \cup {t}) <= n
    BY <1>2, <2>2, FS_Subset
  <2> QED  BY <1>2, <2>1, <2>3
<1> QED  BY <1>1, <1>2, <1>3

\* What an entity may count for a participant.
Countable(u) == FromOthers(u) \ Uncounted

LEMMA SomeMessagesFinite ==
  ASSUME NEW m \in Seq(Message), NEW S, S \subseteq DOMAIN m
  PROVE  IsFiniteSet(S)
<1>1. PICK n : n = Len(m) /\ n \in Nat /\ DOMAIN m = 1..n
  BY LenProperties
<1>2. 1 \in Int /\ n \in Int
  BY <1>1
<1>3. IsFiniteSet(1..n)
  BY <1>2, FS_Interval
<1> QED  BY <1>1, <1>3, FS_Subset

LEMMA CountableFinite ==
  ASSUME InductiveInvariant', NEW u
  PROVE  IsFiniteSet(Countable(u)')
<1>1. PICK m, S : m = messages' /\ S = Countable(u)'
  OBVIOUS
<1>2. m \in Seq(Message) /\ S \subseteq DOMAIN m
  BY <1>1 DEF InductiveInvariant, TypeOK, Countable, FromOthers
<1> QED  BY <1>1, <1>2, SomeMessagesFinite

\* A call that is to count message i.
Counts(c, i) == c # Idle /\ Counting(c) /\ c.target = i

\* A call that is to count an older message was already to count it: what may
\* be counted grows.
LEMMA CountableGrows ==
  ASSUME InductiveInvariant, SendersStay, NEW h \in Handlers, NEW d,
         calls' = [calls EXCEPT ![h] = d],
         \A i \in DOMAIN messages : Counts(d, i) => Counts(calls[h], i),
         NEW u
  PROVE  /\ Countable(u) \subseteq Countable(u)'
         /\ \A i \in FromOthers(u) :
              ~Counts(d, i) /\ (\A g \in Handlers \ {h} : ~Counts(calls[g], i))
                => i \in Countable(u)'
<1>1. calls'[h] = d /\ \A g \in Handlers \ {h} : calls'[g] = calls[g]
  BY DEF InductiveInvariant, TypeOK
<1>2. PICK U : U = Uncounted'
  OBVIOUS
<1>3. \A i \in U : \E g \in Handlers : Counts(calls'[g], i)
  BY <1>2 DEF Uncounted, Counters, Counts, Counting, Place
<1>4. FromOthers(u) \subseteq FromOthers(u)' /\ FromOthers(u) \subseteq DOMAIN messages
  BY DEF FromOthers, SendersStay
<1>5. Countable(u)' = FromOthers(u)' \ U
  BY <1>2 DEF Countable
<1>6. ASSUME NEW i \in Countable(u) PROVE i \in Countable(u)'
  <2>1. i \in FromOthers(u) /\ i \in DOMAIN messages /\ \A g \in Handlers : ~Counts(calls[g], i)
    BY <1>4 DEF Countable, Uncounted, Counters, Counts
  <2>2. i \notin U
    BY <1>1, <1>3, <2>1
  <2> QED  BY <1>4, <1>5, <2>1, <2>2
<1>7. ASSUME NEW i \in FromOthers(u), ~Counts(d, i),
             \A g \in Handlers \ {h} : ~Counts(calls[g], i)
      PROVE  i \in Countable(u)'
  <2>1. i \notin U
    BY <1>1, <1>3, <1>7
  <2> QED  BY <1>4, <1>5, <2>1
<1> QED  BY <1>6, <1>7

\* What counts no more than it may still does when it counts no more than before.
LEMMA StillCounts ==
  ASSUME InductiveInvariant', \A u \in Users : Countable(u) \subseteq Countable(u)',
         NEW x \in Conversation, CountsNoMore(x),
         NEW y \in Conversation, \A u \in Users : y.unread[u] <= x.unread[u]
  PROVE  CountsNoMore(y)'
<1>1. ASSUME NEW u \in Users PROVE y.unread[u] <= Cardinality(Countable(u)')
  <2>1. IsFiniteSet(Countable(u)')
    BY CountableFinite
  <2>2. x.unread[u] \in Nat /\ y.unread[u] \in Nat
    BY DEF Conversation
  <2>3. x.unread[u] <= Cardinality(Countable(u))
    BY DEF CountsNoMore, Countable
  <2>4. x.unread[u] <= Cardinality(Countable(u)')
    BY <2>1, <2>2, <2>3, CardinalityGrows
  <2>5. PICK n : n = Cardinality(Countable(u)') /\ n \in Nat
    BY <2>1, FS_CardinalityType
  <2> QED  BY <2>2, <2>4, <2>5
<1> QED  BY <1>1 DEF CountsNoMore, Countable

\* An entity, whoever has loaded it, still counts no more than it may.
LEMMA CountsKept ==
  ASSUME InductiveInvariant, InductiveInvariant', CountsInvariant,
         NEW h \in Handlers, NEW d, calls' = [calls EXCEPT ![h] = d],
         \A u \in Users : Countable(u) \subseteq Countable(u)',
         CountsNoMore(conversation)', d # Idle => CountsNoMore(d.entity)'
  PROVE  CountsInvariant'
<1>1. calls'[h] = d /\ \A g \in Handlers \ {h} : calls'[g] = calls[g]
  BY DEF InductiveInvariant, TypeOK
<1>2. ASSUME NEW g \in Handlers, calls'[g] # Idle PROVE CountsNoMore(calls[g].entity)'
  <2>1. PICK x : x = calls'[g].entity
    OBVIOUS
  <2>2. CASE g = h
    <3>1. CountsNoMore(x)'
      BY <1>1, <1>2, <2>1, <2>2
    <3> QED  BY <2>1, <3>1 DEF CountsNoMore
  <2>3. CASE g # h
    <3>1. calls[g] = calls'[g] /\ calls[g] \in Call
      BY <1>1, <1>2, <2>3 DEF InductiveInvariant, TypeOK
    <3>2. x \in Conversation /\ CountsNoMore(x)
      BY <1>2, <2>1, <3>1 DEF Call, CountsInvariant
    <3>3. \A u \in Users : x.unread[u] <= x.unread[u]
      BY <3>2 DEF Conversation
    <3>4. CountsNoMore(x)'
      BY <3>2, <3>3, StillCounts
    <3> QED  BY <2>1, <3>4 DEF CountsNoMore
  <2> QED  BY <2>2, <2>3
<1> QED  BY <1>2 DEF CountsInvariant

\* An update adds to a counter only when its call counts a message.
LEMMA EditedCounts ==
  ASSUME NEW c \in Call, c.todo[1] \in Edits, Head(c.todo) = c.todo[1], NEW u \in Users
  PROVE  /\ c.todo[1] # "count" => Edited(c).unread[u] <= c.entity.unread[u]
         /\ c.todo[1] = "count" => Edited(c).unread[u] =
              IF u \in c.entity.members \ {c.user} THEN c.entity.unread[u] + 1
              ELSE c.entity.unread[u]
<1>1. PICK e, step : e = c.entity /\ step = c.todo[1]
  OBVIOUS
<1>2. e \in Conversation /\ e.unread[u] \in Nat /\ e.unread \in [Users -> Nat]
  BY <1>1 DEF Call, Conversation
<1>3. CASE step = "count"
  <2> DEFINE f == [v \in Users |-> IF v \in CountsFor(c) THEN e.unread[v] + 1 ELSE e.unread[v]]
  <2>1. Edited(c) = [e EXCEPT !.unread = f]
    BY <1>1, <1>3 DEF Edited
  <2>2. Edited(c).unread = f
    BY <1>2, <2>1 DEF Conversation
  <2> QED  BY <1>1, <1>3, <2>2 DEF CountsFor
<1>4. CASE step = "reset"
  <2> DEFINE f == [e.unread EXCEPT ![c.user] = 0]
  <2>1. Edited(c) = [e EXCEPT !.unread = f]
    BY <1>1, <1>4 DEF Edited
  <2>2. Edited(c).unread = f
    BY <1>2, <2>1 DEF Conversation
  <2>3. f[u] <= e.unread[u]
    BY <1>2
  <2> QED  BY <1>1, <1>4, <2>2, <2>3
<1>5. CASE step \notin {"count", "reset"}
  <2>1. Edited(c).unread = e.unread
    BY <1>1, <1>2, <1>5 DEF Edited, Conversation
  <2> QED  BY <1>1, <1>2, <1>5, <2>1
<1> QED  BY <1>1, <1>3, <1>4, <1>5

LEMMA UpdatesCount ==
  ASSUME InductiveInvariant, InductiveInvariant', MessagesInvariant, CountsInvariant, SendersStay,
         NEW h \in Handlers, NEW d, Updates(h, d)
  PROVE  CountsInvariant'
<1>1. PICK c, x, y : c = calls[h] /\ x = c.entity /\ y = Edited(c)
  OBVIOUS
<1>2. /\ c.todo[1] \in Edits /\ MovesOn(h, c, d) /\ conversation' = y /\ c \in Call
      /\ calls' = [calls EXCEPT ![h] = d] /\ UNCHANGED messages
  BY <1>1 DEF Updates, MovesOn
<1>3. /\ c # Idle /\ OnScript(c) /\ KnowsMessages(c) /\ x \in Conversation /\ CountsNoMore(x)
  BY <1>1, <1>2, IdleIsNoCall DEF MessagesInvariant, CountsInvariant, Call
<1>4. y \in Conversation
  BY <1>2 DEF InductiveInvariant, TypeOK
<1>5. Head(c.todo) = c.todo[1] /\ StepAt(c.op, Place(c), c.todo[1])
  BY <1>2, <1>3, FirstStep
<1>6. d # Idle => /\ Place(c) \in 1..5 /\ Place(d) = Place(c) + 1 /\ d.op = c.op
                  /\ d.target = c.target /\ d.entity = x
  BY <1>1, <1>2, Moved
<1>7. Counting(d) /\ d # Idle => Counting(c) /\ c.todo[1] # "count"
  BY <1>2, <1>5, <1>6 DEF Counting, StepAt, WritingOps, Edits
<1>8. \A i \in DOMAIN messages : Counts(d, i) => Counts(c, i)
  BY <1>3, <1>6, <1>7 DEF Counts
<1>9. \A u \in Users : Countable(u) \subseteq Countable(u)'
  BY <1>1, <1>2, <1>8, CountableGrows
<1>10. CASE c.todo[1] = "count"
  <2>1. c.op \in WritingOps /\ Place(c) = 3
    BY <1>5, <1>10 DEF StepAt
  <2>2. Wrote(c) /\ Counting(c)
    BY <2>1 DEF Wrote, Counting
  <2>3. c.target \in DOMAIN messages /\ messages[c.target].sender = c.user
    BY <1>3, <2>2 DEF KnowsMessages
  <2>4. ASSUME NEW u \in Users PROVE y.unread[u] <= Cardinality(Countable(u)')
    <3>1. IsFiniteSet(Countable(u)') /\ Countable(u) \subseteq Countable(u)'
      BY <1>9, CountableFinite
    <3>2. x.unread[u] \in Nat /\ x.unread[u] <= Cardinality(Countable(u))
      BY <1>3 DEF Conversation, CountsNoMore, Countable
    <3>3. CASE y.unread[u] = x.unread[u]
      BY <3>1, <3>2, <3>3, CardinalityGrows
    <3>4. CASE u # c.user /\ y.unread[u] = x.unread[u] + 1
      <4>1. c.target \in FromOthers(u)
        BY <2>3, <3>4 DEF FromOthers
      <4>2. c.target \notin Countable(u)
        BY <1>1, <1>3, <2>2 DEF Countable, Uncounted, Counters
      <4>3. ~Counts(d, c.target)
        BY <1>7, <1>10 DEF Counts
      <4>4. ASSUME NEW g \in Handlers \ {h}, Counts(calls[g], c.target) PROVE FALSE
        <5>1. calls[g] # Idle /\ Wrote(calls[g]) /\ calls[g].target = c.target
          <6>1. Place(calls[g]) \in 2..3
            BY <4>4 DEF Counts, Counting
          <6>2. Place(calls[g]) >= 2
            BY <6>1
          <6> QED  BY <4>4, <6>2 DEF Counts, Counting, Wrote
        <5> QED  BY <1>1, <1>3, <2>2, <5>1 DEF MessagesInvariant, OneWriter
      <4>5. c.target \in Countable(u)'
        BY <1>1, <1>2, <1>8, <4>1, <4>3, <4>4, CountableGrows
      <4> QED  BY <3>1, <3>2, <3>4, <4>2, <4>5, CardinalityGrows
    <3> QED  BY <1>1, <1>2, <1>5, <1>10, <3>3, <3>4, EditedCounts
  <2>5. CountsNoMore(conversation)'
    BY <1>2, <2>4 DEF CountsNoMore, Countable
  <2>6. \A u \in Users : x.unread[u] <= x.unread[u]
    BY <1>3 DEF Conversation
  <2>7. CountsNoMore(x)'
    BY <1>3, <1>9, <2>6, StillCounts
  <2> QED  BY <1>2, <1>6, <1>9, <2>5, <2>7, CountsKept
<1>11. ASSUME c.todo[1] # "count" PROVE CountsInvariant'
  <2>1. \A u \in Users : y.unread[u] <= x.unread[u]
    BY <1>1, <1>2, <1>5, <1>11, EditedCounts
  <2>2. CountsNoMore(y)'
    BY <1>3, <1>4, <1>9, <2>1, StillCounts
  <2>3. CountsNoMore(conversation)'
    BY <1>2, <2>2 DEF CountsNoMore
  <2>4. \A u \in Users : x.unread[u] <= x.unread[u]
    BY <1>3 DEF Conversation
  <2>5. CountsNoMore(x)'
    BY <1>3, <1>9, <2>4, StillCounts
  <2> QED  BY <1>2, <1>6, <1>9, <2>3, <2>5, CountsKept
<1> QED  BY <1>10, <1>11

LEMMA RowCountsKept ==
  ASSUME InductiveInvariant, InductiveInvariant', CountsInvariant, SendersStay,
         NEW h \in Handlers, NEW d, calls' = [calls EXCEPT ![h] = d], UNCHANGED conversation,
         \A i \in DOMAIN messages : Counts(d, i) => Counts(calls[h], i),
         d # Idle => d.entity \in Conversation /\ CountsNoMore(d.entity)
  PROVE  CountsInvariant'
<1>1. \A u \in Users : Countable(u) \subseteq Countable(u)'
  BY CountableGrows
<1>2. ASSUME NEW x \in Conversation, CountsNoMore(x) PROVE CountsNoMore(x)'
  <2>1. \A u \in Users : x.unread[u] <= x.unread[u]
    BY DEF Conversation
  <2> QED  BY <1>1, <1>2, <2>1, StillCounts
<1>3. PICK x : x = conversation
  OBVIOUS
<1>4. CountsNoMore(x)'
  BY <1>2, <1>3 DEF CountsInvariant, InductiveInvariant, TypeOK
<1>5. CountsNoMore(conversation)'
  BY <1>3, <1>4 DEF CountsNoMore
<1>6. d # Idle => CountsNoMore(d.entity)'
  BY <1>2
<1> QED  BY <1>1, <1>5, <1>6, CountsKept

LEMMA CountsStep ==
  ASSUME InductiveInvariant, InductiveInvariant', MessagesInvariant, CountsInvariant,
         NEW h \in Handlers, ChatSteps(h)
  PROVE  CountsInvariant'
<1>1. SendersStay
  BY SendersAreKept
<1>2. PICK c : c = calls[h]
  OBVIOUS
<1>3. conversation \in Conversation /\ CountsNoMore(conversation)
  BY DEF InductiveInvariant, TypeOK, CountsInvariant
<1>4. ASSUME NEW d, Begins(h, d) PROVE CountsInvariant'
  <2>1. /\ calls' = [calls EXCEPT ![h] = d] /\ Place(d) = 1 /\ d.entity = conversation
        /\ UNCHANGED conversation
    BY <1>4 DEF Begins
  <2>2. \A i \in DOMAIN messages : ~Counts(d, i)
    BY <2>1 DEF Counts, Counting
  <2>3. d.entity \in Conversation /\ CountsNoMore(d.entity)
    BY <1>3, <2>1
  <2> QED  BY <1>1, <2>1, <2>2, <2>3, RowCountsKept
<1>5. ASSUME NEW e, NEW d, MovesOn(h, e, d), UNCHANGED conversation,
             \/ e.target = c.target /\ c.todo[1] # "saveMessage"
             \/ e.target = Len(messages) + 1,
             e.entity \in {c.entity, conversation}
      PROVE  CountsInvariant'
  <2>1. calls' = [calls EXCEPT ![h] = d] /\ c \in Call /\ OnScript(c)
    BY <1>2, <1>5 DEF MovesOn, OnScript, Place
  <2>2. c # Idle /\ c.entity \in Conversation /\ CountsNoMore(c.entity)
    BY <1>2, <2>1, IdleIsNoCall DEF Call, CountsInvariant
  <2>3. CASE d = Idle
    BY <1>1, <1>5, <2>1, <2>3, RowCountsKept DEF Counts
  <2>4. CASE d # Idle
    <3>1. /\ Place(c) \in 1..5 /\ Place(d) = Place(c) + 1 /\ StepAt(c.op, Place(c), c.todo[1])
          /\ d.op = c.op /\ d.target = e.target /\ d.entity = e.entity
      BY <1>2, <1>5, <2>4, Moved
    <3>2. ASSUME NEW i \in DOMAIN messages, Counts(d, i) PROVE Counts(c, i)
      <4>1. e.target # Len(messages) + 1
        <5>1. PICK n : n = Len(messages) /\ n \in Nat /\ DOMAIN messages = 1..n
          BY LenProperties DEF InductiveInvariant, TypeOK
        <5> QED  BY <3>1, <3>2, <5>1 DEF Counts
      <4>2. Counting(c)
        BY <1>5, <3>1, <3>2, <4>1 DEF Counts, Counting, StepAt, WritingOps
      <4> QED  BY <1>5, <2>2, <3>1, <3>2, <4>1, <4>2 DEF Counts
    <3>3. d.entity \in Conversation /\ CountsNoMore(d.entity)
      BY <1>3, <1>5, <2>2, <3>1
    <3> QED  BY <1>1, <1>2, <1>5, <2>1, <3>2, <3>3, RowCountsKept
  <2> QED  BY <2>3, <2>4
<1>6. ASSUME NEW d, Stores(h, d) PROVE CountsInvariant'
  BY <1>2, <1>5, <1>6 DEF Stores
<1>7. ASSUME NEW d, Loads(h, d) \/ Finds(h, d) \/ Rewrites(h, d) \/ Tells(h, d)
      PROVE  CountsInvariant'
  BY <1>2, <1>5, <1>7 DEF Loads, Finds, Rewrites, Tells
<1>8. ASSUME NEW d, Updates(h, d) PROVE CountsInvariant'
  BY <1>1, <1>8, UpdatesCount
<1>9. CASE FindsNothing(h) \/ Stops(h)
  <2>1. PICK d : d = Idle
    OBVIOUS
  <2>2. calls' = [calls EXCEPT ![h] = d] /\ UNCHANGED conversation
    BY <1>9, <2>1 DEF FindsNothing, Stops
  <2>3. \A i \in DOMAIN messages : ~Counts(d, i)
    BY <2>1 DEF Counts
  <2> QED  BY <1>1, <2>1, <2>2, <2>3, RowCountsKept
<1> QED  BY <1>4, <1>6, <1>7, <1>8, <1>9 DEF ChatSteps

LEMMA CountsInit == Init => CountsInvariant
<1> SUFFICES ASSUME Init PROVE CountsInvariant
  OBVIOUS
<1>1. ASSUME NEW u \in Users PROVE conversation.unread[u] <= Cardinality(Countable(u))
  <2>1. messages = <<>> /\ conversation.unread[u] = 0
    BY DEF Init, Created
  <2>2. Countable(u) = {}
    BY <2>1 DEF Countable, FromOthers
  <2> QED  BY <2>1, <2>2, FS_EmptySet
<1> QED  BY <1>1 DEF CountsInvariant, CountsNoMore, Countable, Init

LEMMA CountsNext == Known /\ CountsInvariant /\ [Next]_vars => CountsInvariant'
<1> SUFFICES ASSUME Known, CountsInvariant, [Next]_vars PROVE CountsInvariant'
  OBVIOUS
<1>1. ChatRests \/ \E h \in Handlers : ChatSteps(h)
  BY KnownNext, ChatStepKinds DEF Known
<1> QED  BY <1>1, KnownNext, ChatAtRest, CountsStep DEF Known

\* The badge of a participant never shows more than the others have written,
\* whatever stale entities the calls in progress save over each other.
THEOREM BadgesNeverOvercount == Spec => []NeverOvercounts
<1>1. Known /\ CountsInvariant => NeverOvercounts
  <2> SUFFICES ASSUME Known, CountsInvariant, NEW u \in conversation.members
               PROVE  conversation.unread[u] <= Cardinality(FromOthers(u))
    BY DEF NeverOvercounts, FromOthers
  <2>1. u \in Users /\ conversation.unread[u] \in Nat /\ messages \in Seq(Message)
    BY DEF Known, InductiveInvariant, TypeOK, Conversation
  <2>2. conversation.unread[u] <= Cardinality(Countable(u))
    BY <2>1 DEF CountsInvariant, CountsNoMore, Countable
  <2>3. IsFiniteSet(FromOthers(u)) /\ Countable(u) \subseteq FromOthers(u)
    BY <2>1, SomeMessagesFinite DEF FromOthers, Countable
  <2> QED  BY <2>1, <2>2, <2>3, CardinalityGrows
<1> QED  BY KnownInit, KnownNext, CountsInit, CountsNext, <1>1, PTL DEF Spec

-----------------------------------------------------------------------------
(* One call after another.                                                 *)

Alone(h) == \A g \in Handlers \ {h} : calls[g] = Idle

\* A call that has reset the counter of u, and is to save the receipts.
Exempts(c, u) == c # Idle /\ Resetting(c) /\ c.user = u

\* What the counter of a participant should show.
Left(u) == Due(u) \ Uncounted

LEMMA NextFollows ==
  ASSUME NEW h \in Handlers, NEW e, NEW d, MovesOn(h, e, d), d # Idle
  PROVE  Follows(calls[h].todo[1], d.todo[1])
<1>1. PICK c, op, p : c = calls[h] /\ op = c.op /\ p = Place(c)
  OBVIOUS
<1>2. /\ OnScript(c) /\ OnScript(d) /\ c \in Call /\ d \in Call
      /\ Place(d) = p + 1 /\ d.op = op /\ p \in 1..5
  <2>1. c \in Call
    BY <1>1 DEF MovesOn
  <2> QED  BY <1>1, <2>1, Moved
<1>3. c.todo[1] = Script[op][p] /\ d.todo[1] = Script[op][p + 1]
  BY <1>1, <1>2, FirstStep
<1>4. PICK n : n = Len(Script[op])
  OBVIOUS
<1>5. op \in DOMAIN Script /\ p \in 1..n /\ p + 1 \in 1..n /\ n \in 1..6
  BY <1>1, <1>2, <1>4, ScriptLengths DEF OnScript
<1>6. p # n
  BY <1>5
<1> QED  BY <1>1, <1>3, <1>4, <1>5, <1>6, StepsOfScript

LEMMA AloneNow ==
  ASSUME NEW h \in Handlers, Alone(h)
  PROVE  /\ \A i : i \in Uncounted <=> Counts(calls[h], i)
         /\ \A u : Exempt(u) <=> Exempts(calls[h], u)
BY DEF Alone, Uncounted, Counters, Counts, Exempt, Exempts

LEMMA AloneThen ==
  ASSUME InductiveInvariant, NEW h \in Handlers, Alone(h), NEW d,
         calls' = [calls EXCEPT ![h] = d]
  PROVE  /\ calls'[h] = d /\ \A g \in Handlers \ {h} : calls'[g] = Idle
         /\ \A i : i \in Uncounted' <=> Counts(d, i)
         /\ \A u : Exempt(u)' <=> Exempts(d, u)
<1>1. calls'[h] = d /\ \A g \in Handlers \ {h} : calls'[g] = Idle
  BY DEF InductiveInvariant, TypeOK, Alone
<1>2. PICK K : K = calls'
  OBVIOUS
<1>3. Uncounted' = {K[g].target : g \in {f \in Handlers : K[f] # Idle /\ Counting(K[f])}}
  BY <1>2 DEF Uncounted, Counters, Counting, Place
<1>4. ASSUME NEW i PROVE i \in Uncounted' <=> Counts(d, i)
  BY <1>1, <1>2, <1>3 DEF Counts
<1>5. ASSUME NEW u PROVE Exempt(u)' <=> \E g \in Handlers : Exempts(K[g], u)
  BY <1>2 DEF Exempt, Exempts, Resetting, Place
<1>6. ASSUME NEW u PROVE Exempt(u)' <=> Exempts(d, u)
  BY <1>1, <1>2, <1>5 DEF Exempts
<1> QED  BY <1>1, <1>4, <1>6

\* A counter that does not fall still shows what is left, when nothing is added.
LEMMA ShownStays ==
  ASSUME InductiveInvariant, InductiveInvariant', NEW h \in Handlers, Alone(h), NEW d,
         calls' = [calls EXCEPT ![h] = d], NEW u \in Users,
         conversation'.unread[u] >= conversation.unread[u], Shown(u),
         \A i \in Due(u)' : ~Counts(d, i) => i \in Due(u) /\ ~Counts(calls[h], i)
  PROVE  Shown(u)'
<1>1. PICK S, T, x, y : /\ S = Left(u)' /\ T = Left(u)
                        /\ x = conversation'.unread[u] /\ y = conversation.unread[u]
  OBVIOUS
<1>2. x \in Nat /\ y \in Nat /\ x >= y
  BY <1>1 DEF InductiveInvariant, TypeOK, Conversation
<1>3. T \subseteq DOMAIN messages /\ messages \in Seq(Message)
  BY <1>1 DEF Left, Due, UnreadBy, FromOthers, InductiveInvariant, TypeOK
<1>4. IsFiniteSet(T)
  BY <1>3, SomeMessagesFinite
<1>5. S \subseteq T
  BY <1>1, AloneNow, AloneThen DEF Left
<1>6. IsFiniteSet(S) /\ Cardinality(S) <= Cardinality(T)
  BY <1>4, <1>5, FS_Subset
<1>7. PICK m, n : m = Cardinality(S) /\ n = Cardinality(T) /\ m \in Nat /\ n \in Nat
  BY <1>4, <1>6, FS_CardinalityType
<1>8. y >= n
  BY <1>1, <1>7 DEF Shown, Left
<1>9. x >= m
  BY <1>2, <1>6, <1>7, <1>8
<1> QED  BY <1>1, <1>7, <1>9 DEF Shown, Left

LEMMA NothingDueIsShown ==
  ASSUME InductiveInvariant', NEW u \in Users, Due(u)' = {}
  PROVE  Shown(u)'
<1>1. PICK S, x : S = Left(u)' /\ x = conversation'.unread[u]
  OBVIOUS
<1>2. x \in Nat
  BY <1>1 DEF InductiveInvariant, TypeOK, Conversation
<1>3. S = {}
  BY <1>1 DEF Left
<1>4. Cardinality(S) = 0
  BY <1>3, FS_EmptySet
<1>5. x >= Cardinality(S)
  BY <1>2, <1>4
<1> QED  BY <1>1, <1>5 DEF Shown, Left

\* One step of the only call in progress.
LEMMA SequentialKept ==
  ASSUME InductiveInvariant, SequentialInvariant, ~overlapped,
         NEW h \in Handlers, Alone(h), NEW d, calls' = [calls EXCEPT ![h] = d],
         d # Idle => UpToDate(d)',
         \/ cutShort'
         \/ /\ UNCHANGED cutShort
            /\ \A u \in conversation'.members :
                 \/ Exempts(d, u) \/ Shown(u)'
                 \/ /\ u \in conversation.members /\ ~Exempts(calls[h], u)
                    /\ Shown(u) => Shown(u)'
  PROVE  SequentialInvariant'
<1>1. calls'[h] = d /\ \A g \in Handlers \ {h} : calls'[g] = Idle
  BY AloneThen
<1>2. ASSUME NEW f \in Handlers, NEW g \in Handlers, calls'[f] # Idle, calls'[g] # Idle
      PROVE  f = g
  BY <1>1, <1>2
<1>3. ASSUME NEW g \in Handlers, calls'[g] # Idle PROVE UpToDate(calls[g])'
  <2>1. calls'[g] = d /\ UpToDate(d)'
    BY <1>1, <1>3
  <2> QED  BY <2>1 DEF UpToDate, Resetting, Place
<1>4. ASSUME ~cutShort', NEW u \in conversation'.members PROVE Exempt(u)' \/ Shown(u)'
  <2>1. CASE Exempts(d, u)
    BY <2>1, AloneThen
  <2>2. CASE u \in conversation.members /\ ~Exempts(calls[h], u) /\ (Shown(u) => Shown(u)')
    <3>1. ~cutShort
      BY <1>4
    <3>2. Exempt(u) \/ Shown(u)
      BY <2>2, <3>1 DEF SequentialInvariant
    <3> QED  BY <2>2, <3>2, AloneNow
  <2> QED  BY <1>4, <2>1, <2>2
<1> QED  BY <1>2, <1>3, <1>4 DEF SequentialInvariant

\* What remains of a call that neither loads nor finds has read nothing that it
\* is about to save.
LEMMA NothingRead ==
  ASSUME NEW h \in Handlers, NEW e, NEW d, MovesOn(h, e, d), d # Idle,
         calls[h].todo[1] \notin {"load", "findMessages"}
  PROVE  UpToDate(d)'
BY NextFollows DEF Follows, UpToDate

LEMMA BeginsSequential ==
  ASSUME InductiveInvariant, InductiveInvariant', SequentialInvariant, ~overlapped',
         NEW h \in Handlers, NEW d, Begins(h, d)
  PROVE  SequentialInvariant'
<1>1. /\ calls[h] = Idle /\ calls' = [calls EXCEPT ![h] = d] /\ d \in Call /\ OnScript(d)
      /\ Place(d) = 1 /\ UNCHANGED <<conversation, messages, cutShort>>
      /\ ~overlapped /\ Quiet
  BY DEF Begins
<1>2. Alone(h)
  BY <1>1 DEF Quiet, Alone
<1>3. d.todo[1] \notin Edits \cup {"saveReceipts", "saveCard"}
  BY <1>1, FirstStep DEF StepAt
<1>4. UpToDate(d)'
  BY <1>3 DEF UpToDate
<1>5. \A i : ~Counts(d, i) /\ ~Counts(calls[h], i)
  BY <1>1 DEF Counts, Counting
<1>6. \A u : ~Exempts(calls[h], u)
  BY <1>1 DEF Exempts
<1>7. ASSUME NEW u \in conversation'.members, Shown(u) PROVE Shown(u)'
  <2>1. u \in Users /\ conversation'.unread[u] >= conversation.unread[u]
    BY <1>1 DEF InductiveInvariant, TypeOK, Conversation
  <2>2. Due(u)' = Due(u)
    BY <1>1 DEF Due, UnreadBy, FromOthers
  <2> QED  BY <1>1, <1>2, <1>5, <1>7, <2>1, <2>2, ShownStays
<1> QED  BY <1>1, <1>2, <1>4, <1>6, <1>7, SequentialKept

\* A call that is saving a message of its own, or reads the conversation.
LEMMA StoresSequential ==
  ASSUME InductiveInvariant, InductiveInvariant', SequentialInvariant, ~overlapped,
         NEW h \in Handlers, Alone(h), NEW d, Stores(h, d)
  PROVE  SequentialInvariant'
<1>1. PICK c, n : c = calls[h] /\ n = Len(messages)
  OBVIOUS
<1>2. PICK e, m : /\ MovesOn(h, e, d) /\ e.target = n + 1 /\ m \in Message
                  /\ messages' = Append(messages, m)
  BY <1>1 DEF Stores
<1>3. /\ c.todo[1] = "saveMessage" /\ UNCHANGED <<conversation, cutShort>>
      /\ calls' = [calls EXCEPT ![h] = d]
  BY <1>1, <1>2 DEF Stores, MovesOn
<1>4. d # Idle => UpToDate(d)'
  BY <1>1, <1>2, <1>3, NothingRead
<1>5. d # Idle => /\ Place(c) = 1 /\ Place(d) = 2 /\ c.op \in WritingOps /\ d.op = c.op
                  /\ d.target = n + 1
  BY <1>1, <1>2, <1>3, Moved DEF StepAt
<1>6. d # Idle
  BY StoresGoesOn
<1>7. \A u : ~Exempts(c, u)
  BY <1>5, <1>6 DEF Exempts, Resetting, WritingOps
<1>8. \A i : ~Counts(c, i)
  BY <1>5, <1>6 DEF Counts, Counting
<1>9. Counts(d, n + 1)
  BY <1>5, <1>6 DEF Counts, Counting
<1>10. /\ DOMAIN messages' = DOMAIN messages \cup {n + 1}
       /\ \A i \in DOMAIN messages : messages'[i] = messages[i]
  <2>1. messages \in Seq(Message) /\ n \in Nat /\ DOMAIN messages = 1..n
    BY <1>1, LenProperties DEF InductiveInvariant, TypeOK
  <2>2. /\ messages' \in Seq(Message) /\ Len(messages') = n + 1
        /\ \A i \in 1..n : messages'[i] = messages[i]
    BY <1>1, <1>2, <2>1, AppendProperties
  <2>3. DOMAIN messages' = 1..(n + 1)
    BY <2>2, LenProperties
  <2> QED  BY <2>1, <2>2, <2>3
<1>11. ASSUME NEW u \in conversation'.members, Shown(u) PROVE Shown(u)'
  <2>1. u \in Users /\ conversation'.unread[u] >= conversation.unread[u]
    BY <1>3 DEF InductiveInvariant, TypeOK, Conversation
  <2>2. \A i \in Due(u)' : i # n + 1 => i \in Due(u)
    BY <1>3, <1>10 DEF Due, UnreadBy, FromOthers
  <2>3. \A i \in Due(u)' : ~Counts(d, i) => i \in Due(u) /\ ~Counts(calls[h], i)
    BY <1>1, <1>8, <1>9, <2>2
  <2> QED  BY <1>3, <1>11, <2>1, <2>3, ShownStays
<1> QED  BY <1>1, <1>3, <1>4, <1>7, <1>11, SequentialKept

\* A step that neither stores nor counts leaves its call to count what it was.
LEMMA SameCount ==
  ASSUME NEW h \in Handlers, NEW e, NEW d, MovesOn(h, e, d), e.target = calls[h].target,
         calls[h].todo[1] \notin {"saveMessage", "count"}, NEW i
  PROVE  Counts(d, i) <=> Counts(calls[h], i)
<1>1. PICK c : c = calls[h] /\ c \in Call
  BY DEF MovesOn
<1>2. CASE d # Idle
  <2>1. /\ Place(c) \in 1..5 /\ Place(d) = Place(c) + 1 /\ StepAt(c.op, Place(c), c.todo[1])
        /\ d.op = c.op /\ d.target = c.target
    BY <1>1, <1>2, Moved
  <2>2. Counting(d) <=> Counting(c)
    BY <1>1, <2>1 DEF Counting, StepAt, WritingOps
  <2> QED  BY <1>1, <1>2, <2>1, <2>2, IdleIsNoCall DEF Counts
<1>3. CASE d = Idle
  <2>1. OnScript(c) /\ Place(c) = Len(Script[c.op])
    BY <1>1, <1>3, Ended, IdleIsNoCall
  <2>2. c.op \in WritingOps => Place(c) \in 5..6
    BY <2>1, StepsOfScript DEF OnScript
  <2> QED  BY <1>1, <1>3, <2>2 DEF Counts, Counting
<1> QED  BY <1>2, <1>3

\* A participant is exempt from the reset of the counter to the receipts.
LEMMA SameExempt ==
  ASSUME NEW h \in Handlers, NEW e, NEW d, MovesOn(h, e, d),
         calls[h].todo[1] \notin {"reset", "saveReceipts"}, NEW u
  PROVE  Exempts(d, u) <=> Exempts(calls[h], u)
<1>1. PICK c : c = calls[h] /\ c \in Call
  BY DEF MovesOn
<1>2. CASE d # Idle
  <2>1. /\ Place(c) \in 1..5 /\ Place(d) = Place(c) + 1 /\ StepAt(c.op, Place(c), c.todo[1])
        /\ d.op = c.op /\ d.user = c.user
    BY <1>1, <1>2, Moved
  <2>2. Resetting(d) <=> Resetting(c)
    BY <1>1, <2>1 DEF Resetting, StepAt
  <2> QED  BY <1>1, <1>2, <2>1, <2>2, IdleIsNoCall DEF Exempts
<1>3. CASE d = Idle
  <2>1. OnScript(c) /\ Place(c) = Len(Script[c.op]) /\ StepAt(c.op, Place(c), c.todo[1])
    BY <1>1, <1>3, Ended, IdleIsNoCall
  <2>2. c.op = "markConversationRead" => Place(c) = 4
    BY <2>1, StepsOfScript DEF OnScript
  <2>3. c.op # "markConversationRead"
    BY <1>1, <2>1, <2>2 DEF StepAt
  <2> QED  BY <1>1, <1>3, <2>3 DEF Exempts, Resetting
<1> QED  BY <1>2, <1>3

\* A step that changes neither the conversation nor the messages.
LEMMA ReadsSequential ==
  ASSUME InductiveInvariant, InductiveInvariant', SequentialInvariant, ~overlapped,
         NEW h \in Handlers, Alone(h), NEW e, NEW d, MovesOn(h, e, d),
         e.target = calls[h].target,
         calls[h].todo[1] \notin {"saveMessage", "count", "reset", "saveReceipts"},
         UNCHANGED <<conversation, messages>>, d # Idle => UpToDate(d)'
  PROVE  SequentialInvariant'
<1>1. calls' = [calls EXCEPT ![h] = d] /\ UNCHANGED cutShort
  BY DEF MovesOn
<1>2. ASSUME NEW u \in conversation'.members, Shown(u) PROVE Shown(u)'
  <2>1. u \in Users /\ conversation'.unread[u] >= conversation.unread[u]
    BY DEF InductiveInvariant, TypeOK, Conversation
  <2>2. Due(u)' = Due(u)
    BY DEF Due, UnreadBy, FromOthers
  <2>3. \A i : Counts(d, i) <=> Counts(calls[h], i)
    BY SameCount
  <2> QED  BY <1>1, <1>2, <2>1, <2>2, <2>3, ShownStays
<1>3. \A u : Exempts(d, u) <=> Exempts(calls[h], u)
  BY SameExempt
<1> QED  BY <1>1, <1>2, <1>3, SequentialKept

LEMMA FindsSequential ==
  ASSUME InductiveInvariant, InductiveInvariant', SequentialInvariant, ~overlapped,
         NEW h \in Handlers, Alone(h), NEW d, Finds(h, d)
  PROVE  SequentialInvariant'
<1>1. PICK c : c = calls[h]
  OBVIOUS
<1>2. PICK e : /\ MovesOn(h, e, d) /\ e.target = c.target
               /\ e.found = {Row(i) : i \in Selected(c)}
  BY <1>1 DEF Finds
<1>3. /\ c.todo[1] = "findMessages" /\ UNCHANGED <<conversation, messages>>
  BY <1>1 DEF Finds
<1>4. ASSUME d # Idle PROVE UpToDate(d)'
  <2>1. d.todo[1] \notin Edits /\ d.found = e.found /\ d.op = c.op /\ d.user = c.user
    BY <1>1, <1>2, <1>3, <1>4, Moved, NextFollows DEF Follows, Edits
  <2>2. \A f \in d.found : f = Row(f.at)
    BY <1>2, <2>1 DEF Row
  <2>3. d.op = "markConversationRead" => \A i \in UnreadBy(d.user) : Row(i) \in d.found
    <3>1. d.op = "markConversationRead" => Selected(c) = UnreadBy(d.user)
      BY <2>1 DEF Selected, UnreadBy, FromOthers
    <3> QED  BY <1>2, <2>1, <3>1
  <2>4. \A i : Row(i)' = Row(i)
    BY <1>3 DEF Row
  <2>5. \A u : UnreadBy(u)' = UnreadBy(u)
    BY <1>3 DEF UnreadBy, FromOthers
  <2>6. /\ \A f \in d.found : f = Row(f.at)'
        /\ d.op = "markConversationRead" => \A i \in UnreadBy(d.user)' : Row(i)' \in d.found
    BY <2>2, <2>3, <2>4, <2>5
  <2> QED  BY <2>1, <2>6 DEF UpToDate, Resetting
<1> QED  BY <1>1, <1>2, <1>3, <1>4, ReadsSequential

\* A participant who has nothing left to read is shown nothing.
LEMMA FindsNothingSequential ==
  ASSUME InductiveInvariant, InductiveInvariant', MessagesInvariant, SequentialInvariant,
         ~overlapped, NEW h \in Handlers, Alone(h), FindsNothing(h)
  PROVE  SequentialInvariant'
<1>1. PICK c, d : c = calls[h] /\ d = Idle
  OBVIOUS
<1>2. /\ c \in Call /\ c.todo[1] = "findMessages" /\ Selected(c) = {}
      /\ calls' = [calls EXCEPT ![h] = d] /\ UNCHANGED <<conversation, messages, cutShort>>
  BY <1>1 DEF FindsNothing
<1>3. StepAt(c.op, Place(c), c.todo[1])
  BY <1>1, <1>2, IdleIsNoCall, FirstStep DEF MessagesInvariant
<1>4. \A i : ~Counts(c, i) /\ ~Counts(d, i)
  BY <1>1, <1>2, <1>3 DEF Counts, Counting, StepAt
<1>5. \A u : Due(u)' = Due(u)
  BY <1>2 DEF Due, UnreadBy, FromOthers
<1>6. ASSUME NEW u \in conversation'.members
      PROVE  \/ Shown(u)'
             \/ u \in conversation.members /\ ~Exempts(c, u) /\ (Shown(u) => Shown(u)')
  <2>1. u \in Users /\ conversation'.unread[u] >= conversation.unread[u]
    BY <1>2 DEF InductiveInvariant, TypeOK, Conversation
  <2>2. CASE Exempts(c, u)
    <3>1. Due(u) = {}
      BY <1>2, <2>2 DEF Exempts, Resetting, Selected, Due, UnreadBy, FromOthers
    <3>2. Due(u)' = {}
      BY <1>5, <3>1
    <3> QED  BY <2>1, <3>2, NothingDueIsShown
  <2>3. Shown(u) => Shown(u)'
    BY <1>1, <1>2, <1>4, <1>5, <2>1, ShownStays
  <2> QED  BY <1>2, <2>2, <2>3
<1> QED  BY <1>1, <1>2, <1>6, SequentialKept

LEMMA LoadsSequential ==
  ASSUME InductiveInvariant, InductiveInvariant', SequentialInvariant, ~overlapped,
         NEW h \in Handlers, Alone(h), NEW d, Loads(h, d) \/ Tells(h, d)
  PROVE  SequentialInvariant'
<1>1. CASE Loads(h, d)
  <2>1. PICK e : /\ MovesOn(h, e, d) /\ e.target = calls[h].target /\ e.entity = conversation
    BY <1>1 DEF Loads
  <2>2. calls[h].todo[1] = "load" /\ UNCHANGED <<conversation, messages>>
    BY <1>1 DEF Loads
  <2>3. ASSUME d # Idle PROVE UpToDate(d)'
    <3>1. d.entity = conversation /\ d.todo[1] \notin {"saveReceipts", "saveCard"}
      BY <2>1, <2>2, <2>3, Moved, NextFollows DEF Follows
    <3> QED  BY <2>2, <3>1 DEF UpToDate
  <2> QED  BY <2>1, <2>2, <2>3, ReadsSequential
<1>2. CASE Tells(h, d)
  <2>1. PICK c : c = calls[h]
    OBVIOUS
  <2>2. MovesOn(h, c, d) /\ c.todo[1] = "publish" /\ UNCHANGED <<conversation, messages>>
    BY <1>2, <2>1 DEF Tells
  <2>3. d # Idle => UpToDate(d)'
    BY <2>1, <2>2, NothingRead
  <2> QED  BY <2>1, <2>2, <2>3, ReadsSequential
<1> QED  BY <1>1, <1>2

LEMMA StopsSequential ==
  ASSUME InductiveInvariant, SequentialInvariant, ~overlapped,
         NEW h \in Handlers, Alone(h), Stops(h)
  PROVE  SequentialInvariant'
<1>1. PICK d : d = Idle
  OBVIOUS
<1>2. calls' = [calls EXCEPT ![h] = d] /\ cutShort'
  BY <1>1 DEF Stops
<1> QED  BY <1>1, <1>2, SequentialKept

\* Receipts that are saved over what is stored mark, and unmark nothing.
LEMMA RewritesSequential ==
  ASSUME InductiveInvariant, InductiveInvariant', MessagesInvariant, SequentialInvariant,
         ~overlapped, NEW h \in Handlers, Alone(h), NEW d, Rewrites(h, d)
  PROVE  SequentialInvariant'
<1>1. PICK c : c = calls[h]
  OBVIOUS
<1>2. /\ MovesOn(h, c, d) /\ c.todo[1] \in {"saveReceipts", "saveCard"} /\ c \in Call
      /\ DOMAIN messages' = DOMAIN messages /\ \A i \in DOMAIN messages : Rewritten(c, i)
      /\ UNCHANGED <<conversation, cutShort>> /\ calls' = [calls EXCEPT ![h] = d]
  BY <1>1 DEF Rewrites, MovesOn
<1>3. c # Idle /\ UpToDate(c) /\ OnScript(c)
  BY <1>1, <1>2, IdleIsNoCall DEF SequentialInvariant, MessagesInvariant
<1>4. \A f \in c.found : f.row = messages[f.at]
  BY <1>2, <1>3 DEF UpToDate, Row
<1>5. SendersStay
  <2>1. ChatSteps(h)
    BY DEF ChatSteps
  <2> QED  BY <2>1, SendersAreKept
<1>6. ASSUME NEW i \in DOMAIN messages
      PROVE  messages[i].readers \subseteq messages'[i].readers
  <2>1. CASE \A f \in c.found : f.at # i
    BY <1>2, <2>1 DEF Rewritten
  <2>2. CASE \E f \in c.found : f.at = i
    <3>1. PICK f \in c.found :
            /\ f.at = i
            /\ messages'[i].readers =
                 IF c.todo[1] = "saveCard" THEN f.row.readers ELSE f.row.readers \cup {c.user}
      BY <1>2, <2>2 DEF Rewritten
    <3>2. f.row.readers = messages[i].readers
      BY <1>4, <3>1
    <3> QED  BY <3>1, <3>2
  <2> QED  BY <2>1, <2>2
<1>7. ASSUME NEW u PROVE UnreadBy(u)' \subseteq UnreadBy(u) /\ Due(u)' \subseteq Due(u)
  <2>1. UnreadBy(u)' \subseteq UnreadBy(u)
    BY <1>2, <1>5, <1>6 DEF UnreadBy, FromOthers, SendersStay
  <2> QED  BY <1>2, <2>1 DEF Due
<1>8. StepAt(c.op, Place(c), c.todo[1])
  BY <1>2, <1>3, FirstStep
<1>9. \A i : Counts(d, i) <=> Counts(c, i)
  BY <1>1, <1>2, SameCount
<1>10. d # Idle => UpToDate(d)'
  BY <1>1, <1>2, NothingRead
<1>11. ASSUME NEW u \in conversation'.members
       PROVE  \/ Shown(u)'
              \/ u \in conversation.members /\ ~Exempts(c, u) /\ (Shown(u) => Shown(u)')
  <2>1. u \in Users /\ conversation'.unread[u] >= conversation.unread[u]
    BY <1>2 DEF InductiveInvariant, TypeOK, Conversation
  <2>2. CASE Exempts(c, u)
    <3>1. c.op = "markConversationRead" /\ c.user = u /\ Resetting(c)
      BY <2>2 DEF Exempts, Resetting
    <3>2. c.todo[1] = "saveReceipts"
      <4>1. OnScript(c) /\ Place(c) \in 3..4
        <5>1. Len(Script[c.op]) = 4 /\ Place(c) \in 1..Len(Script[c.op])
          BY <1>3, <3>1, ScriptTable DEF OnScript
        <5> QED  BY <1>3, <3>1, <5>1 DEF Resetting
      <4> QED  BY <1>2, <1>8, <3>1, <4>1 DEF StepAt
    <3>3. \A i \in UnreadBy(u) : Row(i) \in c.found
      BY <1>3, <3>1, <3>2 DEF UpToDate
    <3>4. ASSUME NEW i \in UnreadBy(u)' PROVE FALSE
      <4>1. i \in UnreadBy(u) /\ i \in DOMAIN messages /\ u \notin messages'[i].readers
        BY <1>7, <3>4 DEF UnreadBy, FromOthers
      <4>2. Row(i) \in c.found /\ Row(i).at = i
        BY <3>3, <4>1 DEF Row
      <4>3. \E f \in c.found : f.at = i
        BY <4>2
      <4>4. PICK f \in c.found : messages'[i].readers = f.row.readers \cup {c.user}
        BY <1>2, <3>2, <4>1, <4>3 DEF Rewritten
      <4> QED  BY <3>1, <4>1, <4>4
    <3>5. Due(u)' = {}
      BY <3>4 DEF Due
    <3> QED  BY <2>1, <3>5, NothingDueIsShown
  <2>3. ASSUME Shown(u) PROVE Shown(u)'
    <3>1. \A i \in Due(u)' : ~Counts(d, i) => i \in Due(u) /\ ~Counts(calls[h], i)
      BY <1>1, <1>7, <1>9
    <3> QED  BY <1>2, <2>1, <2>3, <3>1, ShownStays
  <2> QED  BY <1>2, <2>2, <2>3
<1> QED  BY <1>1, <1>2, <1>10, <1>11, SequentialKept

\* What an update leaves of the entity that it edits.
LEMMA EditedKeeps ==
  ASSUME NEW c \in Call, c.todo[1] \in Edits, Head(c.todo) = c.todo[1]
  PROVE  /\ c.todo[1] \notin {"count", "reset"} => Edited(c).unread = c.entity.unread
         /\ c.todo[1] = "reset" =>
              \A u \in Users \ {c.user} : Edited(c).unread[u] = c.entity.unread[u]
         /\ c.todo[1] # "join" => /\ Edited(c).members = c.entity.members
                                  /\ Edited(c).joined = c.entity.joined
         /\ \A u \in Edited(c).members :
              \/ u \in c.entity.members /\ Edited(c).joined[u] = c.entity.joined[u]
              \/ u \in Users => Edited(c).joined[u] = Len(messages)
<1>1. PICK e, step, y : e = c.entity /\ step = c.todo[1] /\ y = Edited(c)
  OBVIOUS
<1>2. e \in Conversation /\ e.unread \in [Users -> Nat] /\ e.joined \in [Users -> Nat]
  BY <1>1 DEF Call, Conversation
<1>3. CASE step = "join"
  <2>1. CASE c.user \in e.members
    <3>1. y = e
      BY <1>1, <1>3, <2>1 DEF Edited
    <3> QED  BY <1>1, <1>3, <3>1
  <2>2. CASE c.user \notin e.members
    <3> DEFINE m == e.members \cup {c.user}
               f == [e.joined EXCEPT ![c.user] = Len(messages)]
    <3>1. y = [e EXCEPT !.members = m, !.joined = f]
      BY <1>1, <1>3, <2>2 DEF Edited
    <3>2. y.members = m /\ y.joined = f /\ y.unread = e.unread
      BY <1>2, <3>1 DEF Conversation
    <3>3. \A u \in e.members : u # c.user /\ f[u] = e.joined[u]
      BY <1>2, <2>2 DEF Conversation
    <3>4. c.user \in Users => f[c.user] = Len(messages)
      BY <1>2
    <3> QED  BY <1>1, <1>3, <3>2, <3>3, <3>4
  <2> QED  BY <2>1, <2>2
<1>4. CASE step # "join"
  <2>1. y.members = e.members /\ y.joined = e.joined
    BY <1>1, <1>2, <1>4 DEF Edited, Conversation
  <2>2. step \notin {"count", "reset"} => y.unread = e.unread
    BY <1>1, <1>2, <1>4 DEF Edited, Conversation
  <2>3. ASSUME step = "reset" PROVE \A u \in Users \ {c.user} : y.unread[u] = e.unread[u]
    <3> DEFINE f == [e.unread EXCEPT ![c.user] = 0]
    <3>1. y = [e EXCEPT !.unread = f]
      BY <1>1, <2>3 DEF Edited
    <3>2. y.unread = f
      BY <1>2, <3>1 DEF Conversation
    <3> QED  BY <1>2, <3>2
  <2> QED  BY <1>1, <1>4, <2>1, <2>2, <2>3
<1> QED  BY <1>3, <1>4

\* One more is shown when one more is to be.
LEMMA OneMoreIsShown ==
  ASSUME InductiveInvariant, InductiveInvariant', NEW u \in Users, Shown(u), NEW t,
         conversation'.unread[u] = conversation.unread[u] + 1, Left(u)' \subseteq Left(u) \cup {t}
  PROVE  Shown(u)'
<1>1. PICK S, T, x, y : /\ S = Left(u)' /\ T = Left(u)
                        /\ x = conversation'.unread[u] /\ y = conversation.unread[u]
  OBVIOUS
<1>2. x \in Nat /\ y \in Nat /\ x = y + 1
  BY <1>1 DEF InductiveInvariant, TypeOK, Conversation
<1>3. T \subseteq DOMAIN messages /\ messages \in Seq(Message)
  BY <1>1 DEF Left, Due, UnreadBy, FromOthers, InductiveInvariant, TypeOK
<1>4. IsFiniteSet(T)
  BY <1>3, SomeMessagesFinite
<1>5. PICK n : n = Cardinality(T) /\ n \in Nat
  BY <1>4, FS_CardinalityType
<1>6. /\ IsFiniteSet(T \cup {t}) /\ Cardinality(T \cup {t}) \in {n, n + 1}
  <2>1. CASE t \in T
    <3>1. T \cup {t} = T
      BY <2>1
    <3> QED  BY <1>4, <1>5, <3>1
  <2>2. CASE t \notin T
    BY <1>4, <1>5, <2>2, FS_AddElement
  <2> QED  BY <2>1, <2>2
<1>7. IsFiniteSet(S) /\ Cardinality(S) <= Cardinality(T \cup {t})
  BY <1>1, <1>6, FS_Subset
<1>8. PICK m : m = Cardinality(S) /\ m \in Nat
  BY <1>7, FS_CardinalityType
<1>9. y >= n
  BY <1>1, <1>5 DEF Shown, Left
<1>10. m <= n + 1
  BY <1>5, <1>6, <1>7, <1>8
<1>11. x >= m
  BY <1>2, <1>5, <1>8, <1>9, <1>10
<1> QED  BY <1>1, <1>8, <1>11 DEF Shown, Left

LEMMA UpdatesSequential ==
  ASSUME InductiveInvariant, InductiveInvariant', MessagesInvariant, SequentialInvariant,
         ~overlapped, NEW h \in Handlers, Alone(h), NEW d, Updates(h, d)
  PROVE  SequentialInvariant'
<1>1. PICK c, x, y : c = calls[h] /\ x = c.entity /\ y = Edited(c)
  OBVIOUS
<1>2. /\ c.todo[1] \in Edits /\ MovesOn(h, c, d) /\ conversation' = y /\ c \in Call
      /\ calls' = [calls EXCEPT ![h] = d] /\ UNCHANGED <<messages, cutShort>>
  BY <1>1 DEF Updates, MovesOn
<1>3. c # Idle /\ OnScript(c) /\ KnowsMessages(c) /\ x = conversation
  BY <1>1, <1>2, IdleIsNoCall DEF MessagesInvariant, SequentialInvariant, UpToDate
<1>4. Head(c.todo) = c.todo[1] /\ StepAt(c.op, Place(c), c.todo[1])
  BY <1>2, <1>3, FirstStep
<1>5. d # Idle => UpToDate(d)'
  BY <1>1, <1>2, NothingRead DEF Edits
<1>6. x \in Conversation /\ y \in Conversation
  BY <1>2, <1>3 DEF InductiveInvariant, TypeOK
<1>7. \A u : UnreadBy(u)' = UnreadBy(u)
  BY <1>2 DEF UnreadBy, FromOthers
<1>8. \A u : u \in x.members /\ y.joined[u] = x.joined[u] => Due(u)' = Due(u)
  BY <1>2, <1>3, <1>7 DEF Due
<1>9. c.todo[1] # "reset" => \A u : ~Exempts(c, u)
  <2>1. ASSUME c.op = "markConversationRead" PROVE Place(c) \in 1..4
    <3>1. Len(Script["markConversationRead"]) = 4
      BY ScriptTable
    <3>2. Place(c) \in 1..Len(Script[c.op])
      BY <1>3 DEF OnScript
    <3> QED  BY <2>1, <3>1, <3>2
  <2>2. ASSUME Resetting(c) PROVE c.todo[1] \in {"findMessages", "saveReceipts"}
    <3>1. c.op = "markConversationRead" /\ Place(c) \in 3..4
      BY <2>1, <2>2 DEF Resetting
    <3> QED  BY <1>4, <3>1 DEF StepAt
  <2> QED  BY <1>2, <2>2 DEF Exempts, Edits
<1>10. CASE c.todo[1] = "count"
  <2>1. c.op \in WritingOps /\ Place(c) = 3 /\ Counting(c) /\ Wrote(c)
    BY <1>4, <1>10 DEF StepAt, Counting, Wrote
  <2>2. c.target \in DOMAIN messages /\ messages[c.target].sender = c.user
    BY <1>3, <2>1 DEF KnowsMessages
  <2>3. ASSUME NEW u \in conversation'.members, Shown(u) PROVE Shown(u)'
    <3>1. u \in Users /\ u \in x.members /\ Due(u)' = Due(u)
      BY <1>1, <1>2, <1>4, <1>6, <1>8, <1>10, EditedKeeps DEF Conversation
    <3>2. x.unread[u] \in Nat
      BY <1>6, <3>1 DEF Conversation
    <3>3. y.unread[u] = IF u # c.user THEN x.unread[u] + 1 ELSE x.unread[u]
      BY <1>1, <1>2, <1>4, <1>10, <3>1, EditedCounts
    <3>4. CASE u # c.user
      <4>1. \A i : Counts(c, i) => i = c.target
        BY DEF Counts
      <4>2. Left(u)' \subseteq Left(u) \cup {c.target}
        BY <1>1, <3>1, <4>1, AloneNow DEF Left
      <4>3. conversation'.unread[u] = conversation.unread[u] + 1
        BY <1>2, <1>3, <3>3, <3>4
      <4> QED  BY <2>3, <3>1, <4>2, <4>3, OneMoreIsShown
    <3>5. CASE u = c.user
      <4>1. \A i \in Due(u) : ~Counts(c, i)
        BY <2>2, <3>5 DEF Counts, Due, UnreadBy, FromOthers
      <4>2. conversation'.unread[u] >= conversation.unread[u]
        BY <1>2, <1>3, <3>2, <3>3, <3>5
      <4> QED  BY <1>1, <1>2, <2>3, <3>1, <4>1, <4>2, ShownStays
    <3> QED  BY <3>4, <3>5
  <2>4. conversation'.members = conversation.members
    BY <1>1, <1>2, <1>3, <1>4, <1>10, EditedKeeps
  <2> QED  BY <1>1, <1>2, <1>5, <1>9, <1>10, <2>3, <2>4, SequentialKept
<1>11. CASE c.todo[1] = "reset"
  <2>1. c.op = "markConversationRead" /\ Place(c) = 2
    BY <1>4, <1>11 DEF StepAt
  <2>2. d # Idle
    <3> SUFFICES ASSUME d = Idle PROVE FALSE
      OBVIOUS
    <3>1. MovesOn(h, c, Idle)
      BY <1>2
    <3>2. Place(c) = Len(Script[c.op])
      BY <1>1, <3>1, Ended, IdleIsNoCall
    <3>3. Len(Script["markConversationRead"]) = 4
      BY ScriptTable
    <3> QED  BY <2>1, <3>2, <3>3
  <2>3. Exempts(d, c.user)
    BY <1>1, <1>2, <2>1, <2>2, Moved DEF Exempts, Resetting
  <2>4. \A i : Counts(d, i) <=> Counts(c, i)
    BY <1>1, <1>2, <1>11, SameCount
  <2>5. ASSUME NEW u \in conversation'.members, u # c.user
        PROVE  u \in conversation.members /\ ~Exempts(c, u) /\ (Shown(u) => Shown(u)')
    <3>1. u \in Users /\ u \in x.members /\ Due(u)' = Due(u) /\ y.unread[u] = x.unread[u]
      BY <1>1, <1>2, <1>4, <1>6, <1>8, <1>11, <2>5, EditedKeeps DEF Conversation
    <3>2. conversation'.unread[u] >= conversation.unread[u]
      BY <1>2, <1>3, <1>6, <3>1 DEF Conversation
    <3>3. Shown(u) => Shown(u)'
      BY <1>1, <1>2, <2>4, <3>1, <3>2, ShownStays
    <3> QED  BY <1>3, <2>5, <3>1, <3>3 DEF Exempts
  <2> QED  BY <1>1, <1>2, <1>5, <2>3, <2>5, SequentialKept
<1>12. CASE c.todo[1] \notin {"count", "reset"}
  <2>1. \A i : Counts(d, i) <=> Counts(c, i)
    BY <1>1, <1>2, <1>12, SameCount DEF Edits
  <2>2. ASSUME NEW u \in conversation'.members
        PROVE  \/ Shown(u)'
               \/ u \in conversation.members /\ (Shown(u) => Shown(u)')
    <3>1. u \in Users /\ y.unread[u] = x.unread[u]
      BY <1>1, <1>2, <1>4, <1>6, <1>12, EditedKeeps DEF Conversation
    <3>2. conversation'.unread[u] >= conversation.unread[u]
      BY <1>2, <1>3, <1>6, <3>1 DEF Conversation
    <3>3. CASE u \in x.members /\ y.joined[u] = x.joined[u]
      BY <1>1, <1>2, <1>3, <1>8, <2>1, <3>1, <3>2, <3>3, ShownStays
    <3>4. CASE y.joined[u] = Len(messages)
      <4>1. PICK n : n = Len(messages) /\ n \in Nat /\ DOMAIN messages = 1..n
        BY LenProperties DEF InductiveInvariant, TypeOK
      <4>2. \A i \in UnreadBy(u)' : i \in 1..n
        BY <1>7, <4>1 DEF UnreadBy, FromOthers
      <4>3. Due(u)' = {}
        BY <1>2, <3>4, <4>1, <4>2 DEF Due
      <4> QED  BY <3>1, <4>3, NothingDueIsShown
    <3> QED  BY <1>1, <1>2, <1>4, <3>1, <3>3, <3>4, EditedKeeps
  <2> QED  BY <1>1, <1>2, <1>5, <1>9, <1>12, <2>2, SequentialKept
<1> QED  BY <1>10, <1>11, <1>12

LEMMA SequentialStep ==
  ASSUME InductiveInvariant, InductiveInvariant', MessagesInvariant, SequentialInvariant,
         NEW h \in Handlers, ChatSteps(h)
  PROVE  SequentialInvariant'
<1> SUFFICES ASSUME ~overlapped' PROVE SequentialInvariant'
  BY DEF SequentialInvariant
<1>1. CASE \E d : Begins(h, d)
  BY <1>1, BeginsSequential
<1>2. CASE ~ \E d : Begins(h, d)
  <2>1. ~overlapped
    BY <1>2 DEF ChatSteps, Stores, Loads, Updates, Finds, Rewrites, Tells, MovesOn,
       FindsNothing, Stops
  <2>2. calls[h] \in Call
    BY <1>2 DEF ChatSteps, Stores, Loads, Updates, Finds, Rewrites, Tells, MovesOn,
       FindsNothing, Stops
  <2>3. Alone(h)
    BY <2>1, <2>2, IdleIsNoCall DEF SequentialInvariant, Alone
  <2>4. ASSUME NEW d, Stores(h, d) PROVE SequentialInvariant'
    BY <2>1, <2>3, <2>4, StoresSequential
  <2>5. ASSUME NEW d, Loads(h, d) \/ Tells(h, d) PROVE SequentialInvariant'
    BY <2>1, <2>3, <2>5, LoadsSequential
  <2>6. ASSUME NEW d, Updates(h, d) PROVE SequentialInvariant'
    BY <2>1, <2>3, <2>6, UpdatesSequential
  <2>7. ASSUME NEW d, Finds(h, d) PROVE SequentialInvariant'
    BY <2>1, <2>3, <2>7, FindsSequential
  <2>8. ASSUME NEW d, Rewrites(h, d) PROVE SequentialInvariant'
    BY <2>1, <2>3, <2>8, RewritesSequential
  <2>9. CASE FindsNothing(h) \/ Stops(h)
    BY <2>1, <2>3, <2>9, FindsNothingSequential, StopsSequential
  <2> QED  BY <1>2, <2>4, <2>5, <2>6, <2>7, <2>8, <2>9 DEF ChatSteps
<1> QED  BY <1>1, <1>2

LEMMA SequentialInit == Init => SequentialInvariant
<1> SUFFICES ASSUME Init PROVE SequentialInvariant
  OBVIOUS
<1>1. \A h \in Handlers : calls[h] = Idle
  BY DEF Init
<1>2. ASSUME NEW u \in conversation.members PROVE Shown(u)
  <2>1. u \in Users /\ messages = <<>> /\ conversation.unread = [v \in Users |-> 0]
    BY CommunicationAssumed DEF Init, Created, Users, CommunicationAssumption
  <2>2. Left(u) = {} /\ conversation.unread[u] = 0
    BY <2>1 DEF Left, Due, UnreadBy, FromOthers
  <2>3. Cardinality(Left(u)) = 0
    BY <2>2, FS_EmptySet
  <2>4. conversation.unread[u] >= Cardinality(Left(u))
    BY <2>2, <2>3
  <2> QED  BY <2>4 DEF Shown, Left
<1> QED  BY <1>1, <1>2 DEF SequentialInvariant

LEMMA SequentialNext == Known /\ SequentialInvariant /\ [Next]_vars => SequentialInvariant'
<1> SUFFICES ASSUME Known, SequentialInvariant, [Next]_vars PROVE SequentialInvariant'
  OBVIOUS
<1>1. ChatRests \/ \E h \in Handlers : ChatSteps(h)
  BY KnownNext, ChatStepKinds DEF Known
<1> QED  BY <1>1, KnownNext, ChatAtRest, SequentialStep DEF Known

\* As long as the calls on a conversation follow one another and none is cut
\* short, the badge of a participant counts every message of the others that
\* came since the participant joined and is not marked as read.
THEOREM UnreadMessagesAreShown == Spec => []UnreadIsShown
<1>1. Known /\ SequentialInvariant => UnreadIsShown
  <2> SUFFICES ASSUME Known, SequentialInvariant, Quiet, ~overlapped, ~cutShort,
                      NEW u \in conversation.members
               PROVE  conversation.unread[u] >= Cardinality({i \in DOMAIN messages :
                        /\ i > conversation.joined[u]
                        /\ messages[i].sender # u /\ u \notin messages[i].readers})
    BY DEF UnreadIsShown
  <2>1. ~Exempt(u) /\ Uncounted = {}
    BY DEF Exempt, Uncounted, Counters, Quiet
  <2>2. Shown(u)
    BY <2>1 DEF SequentialInvariant
  <2>3. Due(u) \ Uncounted = {i \in DOMAIN messages :
          i > conversation.joined[u] /\ messages[i].sender # u /\ u \notin messages[i].readers}
    BY <2>1 DEF Due, UnreadBy, FromOthers
  <2> QED  BY <2>2, <2>3 DEF Shown
<1> QED  BY KnownInit, KnownNext, SequentialInit, SequentialNext, <1>1, PTL DEF Spec

=============================================================================
