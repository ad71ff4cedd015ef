------------------------ MODULE OrderPromiseProofs ------------------------
(***************************************************************************)
(* The promises of OrderProperties, proved of OrderLifecycle for every     *)
(* value of its constants.  Each rests on one invariant of OrderInvariants,*)
(* shown to be inductive with the kinds of step of OrderStepProofs.        *)
(***************************************************************************)
EXTENDS OrderStepProofs

-----------------------------------------------------------------------------
(* The sale.                                                               *)

(* What ORDER_TRANSITIONS says of the statuses before and after the sale.  *)
LEMMA SaleTransitions ==
  ASSUME NEW s, NEW to, CanTransition(s, to)
  PROVE  /\ s \in Statuses /\ to \in Statuses /\ s # "none" /\ to # "none"
         /\ to \in BeforeSale => s \in BeforeSale /\ to # "CONFIRMED"
         /\ to \in SoldStatuses => to = "CONFIRMED" \/ s \in SoldStatuses
         /\ to = "CONFIRMED" => s \in BeforeSale
         /\ s \in GoneStatuses => to \in GoneStatuses /\ to # "CONFIRMED"
         /\ to \in STOCK_RELEASING_STATUSES =>
              s \in CONFIRMED_OR_LATER \cup STOCK_RELEASING_STATUSES \cup BeforeSale
         /\ to \in STOCK_RELEASING_STATUSES => to \in GoneStatuses /\ to # "CONFIRMED"
BY DEF CanTransition, ORDER_TRANSITIONS, Statuses, BeforeSale, SoldStatuses, GoneStatuses,
       STOCK_RELEASING_STATUSES, CONFIRMED_OR_LATER

LEMMA SaleStatuses ==
  /\ BeforeSale \cap SoldStatuses = {} /\ BeforeSale \cap GoneStatuses = {}
  /\ SoldStatuses \cap GoneStatuses = {}
  /\ CONFIRMED_OR_LATER \subseteq SoldStatuses /\ SavedStatuses \subseteq SoldStatuses
  /\ SoldStatuses \subseteq Statuses /\ "CONFIRMED" \in SoldStatuses
  /\ "none" \in BeforeSale /\ "none" \notin Statuses
  /\ "deleted" \in GoneStatuses /\ "deleted" \notin Statuses
  /\ STOCK_RELEASING_STATUSES \subseteq GoneStatuses
  /\ \A s \in Statuses : s \in BeforeSale \/ s \in SoldStatuses \/ s \in GoneStatuses
BY DEF BeforeSale, SoldStatuses, GoneStatuses, CONFIRMED_OR_LATER, SavedStatuses, Statuses,
       STOCK_RELEASING_STATUSES

(* One more entry in the history.                                          *)
LEMMA ReachedMore ==
  ASSUME NEW old \in OrderRow, NEW row, NEW e \in HistoryEntry,
         row.history = Append(old.history, e), NEW status
  PROVE  Reached(row, status) <=> Reached(old, status) \/ e.to = status
<1>1. PICK n : n = Len(old.history)
  OBVIOUS
<1>2. n \in Nat /\ DOMAIN old.history = 1..n /\ old.history \in Seq(HistoryEntry)
  BY <1>1, LenProperties DEF OrderRow
<1>3. PICK more : more = row.history
  OBVIOUS
<1>4. /\ DOMAIN more = 1..(n + 1) /\ more[n + 1] = e
      /\ \A i \in 1..n : more[i] = old.history[i]
  BY <1>1, <1>2, <1>3, AppendProperties
<1>5. 1..(n + 1) = 1..n \cup {n + 1}
  BY <1>2
<1> QED  BY <1>2, <1>3, <1>4, <1>5 DEF Reached

(* The invariant of the sale, after a step of the call of h on order o.    *)
LEMMA SaleKept ==
  ASSUME InductiveInvariant, SaleInvariant, NEW h \in Handlers, NEW d, Leaves(h, d),
         NEW o \in Orders,
         calls[h] = IdleCall \/ calls[h].order = o, d = IdleCall \/ d.order = o,
         NEW row, \A p \in Orders : orders'[p] = IF p = o THEN row ELSE orders[p],
         NEW talks, \A p \in Orders : Len(chats'[p]) = IF p = o THEN talks ELSE Len(chats[p]),
         NEW events, \A p \in Orders : outbox'[p] = IF p = o THEN events ELSE outbox[p],
         SaleStory(row, talks, events), UnsoldStaysGone(o)',
         \A g \in Handlers \ {h} :
           calls[g] # IdleCall /\ calls[g].order = o
           /\ KnowsSale(calls[g], orders[o], Len(chats[o])) => KnowsSale(calls[g], row, talks),
         d # IdleCall => KnowsSale(d, row, talks),
         OpensChat(d) => \/ OpensChat(calls[h])
                         \/ \A g \in Handlers : calls[g].order = o => ~OpensChat(calls[g])
  PROVE  SaleInvariant'
<1>1. calls'[h] = d /\ \A g \in Handlers \ {h} : calls'[g] = calls[g]
  BY DEF Leaves, InductiveInvariant, CallsOK
<1>2. \A g \in Handlers : calls[g] # IdleCall => calls[g] \in Call /\ calls[g].order \in Orders
  BY CallFields DEF InductiveInvariant, CallsOK
<1>3. \A p \in Orders : SaleStory(orders[p], Len(chats[p]), outbox[p])'
  BY DEF SaleInvariant
<1>4. \A p \in Orders : UnsoldStaysGone(p)'
  <2>1. ASSUME NEW p \in Orders, p # o
        PROVE  UnsoldStaysGone(p)'
    <3>1. UnsoldStaysGone(p)
      BY DEF SaleInvariant
    <3>2. \A g \in Handlers : calls'[g].pc = "saveOrder" /\ calls'[g].order = p =>
                                calls[g].pc = "saveOrder" /\ calls[g].order = p
      BY <1>1, <2>1, IdleOwesNothing
    <3>3. \A g \in Owing(p, "order.order.cancelled")' :
            g \in Owing(p, "order.order.cancelled") /\ calls'[g] = calls[g]
      BY <1>1, <2>1, IdleOwesNothing DEF Owing
    <3>4. EventsOf(p, "order.order.cancelled")' = EventsOf(p, "order.order.cancelled")
          /\ outbox'[p] = outbox[p]
      BY <2>1 DEF EventsOf
    <3> QED  BY <3>1, <3>2, <3>3, <3>4 DEF UnsoldStaysGone
  <2> QED  BY <2>1
<1>5. ASSUME NEW g \in Handlers, calls'[g] # IdleCall
      PROVE  KnowsSale(calls[g], orders[calls[g].order], Len(chats[calls[g].order]))'
  <2>1. CASE g = h
    BY <1>1, <1>5, <2>1
  <2>2. CASE g # h
    <3>1. /\ calls'[g] = calls[g] /\ calls[g].order \in Orders
          /\ KnowsSale(calls[g], orders[calls[g].order], Len(chats[calls[g].order]))
      BY <1>1, <1>2, <1>5, <2>2 DEF SaleInvariant
    <3> QED  BY <1>5, <2>2, <3>1
  <2> QED  BY <2>1, <2>2
<1>6. OneOpener'
  <2>1. ASSUME NEW g \in Handlers \ {h}, OpensChat(calls'[g]), OpensChat(d), calls'[g].order = d.order
        PROVE  FALSE
    <3>1. d # IdleCall /\ d.order = o /\ calls[g].order = o /\ OpensChat(calls[g])
      BY <1>1, <2>1, IdleOwesNothing
    <3>2. OpensChat(calls[h]) /\ calls[h].order = o
      BY <2>1, <3>1, IdleOwesNothing
    <3> QED  BY <2>1, <3>1, <3>2 DEF SaleInvariant, OneOpener
  <2>2. ASSUME NEW g \in Handlers \ {h}, NEW k \in Handlers \ {h}, OpensChat(calls'[g]),
               OpensChat(calls'[k]), calls'[g].order = calls'[k].order
        PROVE  g = k
    BY <1>1, <2>2 DEF SaleInvariant, OneOpener
  <2> QED  BY <1>1, <2>1, <2>2 DEF OneOpener
<1> QED  BY <1>3, <1>4, <1>5, <1>6 DEF SaleInvariant
(* A step that announces only what is owed, of a call that writes no       *)
(* snapshot and incurs only releases of sold stock.                        *)
LEMMA UnsoldKept ==
  ASSUME InductiveInvariant, SaleInvariant, NEW h \in Handlers, NEW d, Leaves(h, d),
         NEW o \in Orders, d.pc # "saveOrder",
         \A i \in EventsOf(o, "order.order.cancelled")' :
           \/ i \in EventsOf(o, "order.order.cancelled") /\ outbox'[o][i] = outbox[o][i]
           \/ \E g \in Owing(o, "order.order.cancelled") :
                outbox'[o][i].wasSold = (calls[g].expected \in CONFIRMED_OR_LATER),
         d.order = o /\ Owes(d, "order.order.cancelled") =>
           \/ d.expected \in CONFIRMED_OR_LATER
           \/ /\ calls[h].order = o /\ Owes(calls[h], "order.order.cancelled")
              /\ d.expected = calls[h].expected
           \/ orders[o].status \in BeforeSale
  PROVE  UnsoldStaysGone(o)'
<1>1. calls'[h] = d /\ \A g \in Handlers \ {h} : calls'[g] = calls[g]
  BY DEF Leaves, InductiveInvariant, CallsOK
<1>2. \A g \in Handlers : ~(calls[g].pc = "saveOrder" /\ calls[g].order = o) =>
                            ~(calls'[g].pc = "saveOrder" /\ calls'[g].order = o)
  BY <1>1
<1>3. CASE \A g \in Handlers : ~(calls[g].pc = "saveOrder" /\ calls[g].order = o)
  BY <1>2, <1>3 DEF UnsoldStaysGone
<1>4. ASSUME NEW g \in Handlers, calls[g].pc = "saveOrder", calls[g].order = o,
             \A i \in EventsOf(o, "order.order.cancelled") : outbox[o][i].wasSold,
             \A k \in Owing(o, "order.order.cancelled") : calls[k].expected \in CONFIRMED_OR_LATER
      PROVE  UnsoldStaysGone(o)'
  <2>1. orders[o].status \notin BeforeSale
    BY <1>4, IdleOwesNothing DEF SaleInvariant, KnowsSale, WasConfirmed
  <2>2. \A i \in EventsOf(o, "order.order.cancelled")' : outbox'[o][i].wasSold
    BY <1>4
  <2>3. \A k \in Owing(o, "order.order.cancelled")' : calls'[k].expected \in CONFIRMED_OR_LATER
    <3>1. \A k \in Handlers : calls[k].order = o /\ Owes(calls[k], "order.order.cancelled")
                                => calls[k].expected \in CONFIRMED_OR_LATER
      BY <1>4 DEF Owing
    <3> QED  BY <1>1, <2>1, <3>1 DEF Owing
  <2> QED  BY <2>2, <2>3 DEF UnsoldStaysGone
<1>5. UnsoldStaysGone(o)
  BY DEF SaleInvariant
<1> QED  BY <1>3, <1>4, <1>5 DEF UnsoldStaysGone

\* A step of a call that writes no row: it announces what it owes, opens the
\* conversation that it may open, and knows no more than before.
Shrinks(h, d) ==
  LET c == calls[h] IN
  /\ c \in Call /\ Leaves(h, d) /\ UNCHANGED orders
  /\ d = IdleCall \/ SameCall(c, d)
  /\ d.pc # "saveOrder"
  /\ Owes(d, "order.order.cancelled") => Owes(c, "order.order.cancelled")
  /\ OpensChat(d) => OpensChat(c)
  /\ \/ UNCHANGED outbox
     \/ \E event \in Event :
          /\ Publish(c.order, event)
          /\ event.key = "order.order.cancelled" =>
               /\ Owes(c, "order.order.cancelled")
               /\ event.wasSold = (c.expected \in CONFIRMED_OR_LATER)
  /\ Opens(c, d)

LEMMA StepsShrink ==
  ASSUME InductiveInvariant, NEW h \in Handlers,
         (\E d, e : Advances(h, d, e)) \/ (\E d : Fails(h, d)) \/ Returns(h)
  PROVE  \E d : Shrinks(h, d)
<1>1. ASSUME NEW d, NEW e, Advances(h, d, e)
      PROVE  Shrinks(h, d)
  <2>1. PICK c : c = calls[h]
    OBVIOUS
  <2>2. c \in Call /\ Moves(c, d, e) /\ Inserts(c, e) /\ Opens(c, d) /\ UNCHANGED orders
    BY <1>1, <2>1 DEF Advances
  <2>3. Leaves(h, d)
    BY <1>1 DEF Advances, Leaves, Moves, SameCall
  <2>4. /\ Owes(d, "order.order.cancelled") => Owes(c, "order.order.cancelled")
        /\ e = "order.order.cancelled" => Owes(c, "order.order.cancelled")
    BY <2>2, DebtCases DEF Moves, Settles
  <2>5. /\ d = IdleCall \/ SameCall(c, d)
        /\ d.pc # "saveOrder" /\ (OpensChat(d) => OpensChat(c))
    BY <2>2, IdleOwesNothing DEF Moves
  <2> QED  BY <2>1, <2>2, <2>3, <2>4, <2>5 DEF Shrinks, Inserts
<1>2. ASSUME NEW d, Fails(h, d)
      PROVE  Shrinks(h, d)
  <2>1. Leaves(h, d)
    BY <1>2 DEF Fails, Leaves, SameCall
  <2>2. Opens(calls[h], d)
    BY <1>2 DEF Fails, Opens
  <2> QED  BY <1>2, <2>1, <2>2, DebtCases, IdleOwesNothing DEF Fails, Shrinks
<1>3. ASSUME Returns(h)
      PROVE  Shrinks(h, IdleCall)
  BY <1>3, IdleOwesNothing DEF Returns, Leaves, Opens, Shrinks
<1> QED  BY <1>1, <1>2, <1>3

\* A call in progress knows its sale.
LEMMA CallInSale ==
  ASSUME InductiveInvariant, SaleInvariant, NEW h \in Handlers, NEW c, c = calls[h], c \in Call
  PROVE  c.order \in Orders /\ KnowsSale(c, orders[c.order], Len(chats[c.order]))
BY CallFields, IdleOwesNothing DEF SaleInvariant, Call, Points

LEMMA ShrinkKeepsSale ==
  ASSUME InductiveInvariant, SaleInvariant, NEW h \in Handlers, NEW d, Shrinks(h, d)
  PROVE  SaleInvariant'
<1>1. PICK c : c = calls[h]
  OBVIOUS
<1>2. PICK o : o = c.order
  OBVIOUS
<1>3. PICK row : row = orders[o]
  OBVIOUS
<1>4. PICK talks : talks = Len(chats'[o])
  OBVIOUS
<1>5. PICK events : events = outbox'[o]
  OBVIOUS
<1>6. /\ c \in Call /\ o \in Orders /\ Leaves(h, d) /\ UNCHANGED orders
      /\ KnowsSale(c, row, Len(chats[o])) /\ SaleStory(row, Len(chats[o]), outbox[o])
      /\ row.status \in BeforeSale \/ row.status \in SoldStatuses \/ row.status \in GoneStatuses
  <2>1. c \in Call /\ o \in Orders /\ KnowsSale(c, row, Len(chats[o]))
    BY <1>1, <1>2, <1>3, CallInSale DEF Shrinks
  <2>2. row \in OrderRow
    BY <1>3, <2>1 DEF InductiveInvariant, RowsOK
  <2> QED  BY <1>1, <1>3, <2>1, <2>2, SaleStatuses DEF Shrinks, SaleInvariant, OrderRow
<1>7. d = IdleCall \/ (d.order = o /\ d.row = c.row /\ d.expected = c.expected)
  BY <1>1, <1>2 DEF Shrinks, SameCall
<1>8. /\ Len(chats[o]) \in Nat
      /\ \A p \in Orders : chats[p] \in Seq(Conversation)
      /\ outbox[o] \in Seq(Event)
  BY <1>6, LenProperties DEF InductiveInvariant, ChatsOK, OutboxOK
<1>9. /\ \A p \in Orders : Len(chats'[p]) = IF p = o THEN talks ELSE Len(chats[p])
      /\ talks = Len(chats[o]) \/ (talks = Len(chats[o]) + 1 /\ OpensChat(c) /\ ~OpensChat(d))
  <2>1. CASE \A p \in Orders : Len(chats'[p]) = Len(chats[p])
    BY <1>4, <1>6, <2>1
  <2>2. ASSUME OpensChat(c), ~OpensChat(d), NEW chat, chats' = [chats EXCEPT ![o] = Append(@, chat)]
        PROVE  /\ \A p \in Orders : Len(chats'[p]) = IF p = o THEN talks ELSE Len(chats[p])
               /\ talks = Len(chats[o]) + 1
    <3>1. Len(Append(chats[o], chat)) = Len(chats[o]) + 1
      <4>1. chats[o] \in Seq(Conversation \cup {chat}) /\ chat \in Conversation \cup {chat}
        BY <1>6, <1>8
      <4> QED  BY <4>1, AppendProperties
    <3>2. chats'[o] = Append(chats[o], chat) /\ \A p \in Orders : p # o => chats'[p] = chats[p]
      BY <1>6, <2>2 DEF InductiveInvariant, ChatsOK
    <3> QED  BY <1>4, <1>6, <3>1, <3>2
  <2> QED  BY <1>1, <1>2, <2>1, <2>2 DEF Shrinks, Opens
<1>10. /\ \A p \in Orders : outbox'[p] = IF p = o THEN events ELSE outbox[p]
       /\ \A i \in EventsIn(events, "order.order.cancelled") :
            \/ i \in EventsIn(outbox[o], "order.order.cancelled") /\ events[i] = outbox[o][i]
            \/ /\ Owes(c, "order.order.cancelled")
               /\ events[i].wasSold = (c.expected \in CONFIRMED_OR_LATER)
  <2>1. CASE UNCHANGED outbox
    BY <1>5, <1>6, <2>1
  <2>2. ASSUME NEW event \in Event, Publish(o, event),
               event.key = "order.order.cancelled" =>
                 /\ Owes(c, "order.order.cancelled")
                 /\ event.wasSold = (c.expected \in CONFIRMED_OR_LATER)
        PROVE  <1>10!:
    <3>1. events = Append(outbox[o], event) /\ \A p \in Orders : p # o => outbox'[p] = outbox[p]
      BY <1>5, <1>6, <2>2 DEF Publish, InductiveInvariant, OutboxOK
    <3>2. PICK old : old = outbox[o]
      OBVIOUS
    <3>3. EventsStay(old, events, event, "order.order.cancelled")
      BY <1>8, <3>1, <3>2, AppendedEventsStay
    <3> QED  BY <1>5, <1>6, <2>2, <3>1, <3>2, <3>3 DEF EventsStay
  <2> QED  BY <1>1, <1>2, <2>1, <2>2 DEF Shrinks
<1>11. /\ \A i \in EventsIn(events, "order.order.cancelled") : ReleaseFits(row, events[i].wasSold)
       /\ EventsIn(events, "order.order.cancelled") # {} =>
            \/ EventsIn(outbox[o], "order.order.cancelled") # {}
            \/ row.status \notin BeforeSale
  <2>1. Owes(c, "order.order.cancelled") => ReleaseFits(row, c.expected \in CONFIRMED_OR_LATER)
    BY <1>6 DEF KnowsSale
  <2>2. Owes(c, "order.order.cancelled") => row.status \notin BeforeSale
    BY <2>1, SaleStatuses DEF ReleaseFits
  <2> QED  BY <1>6, <1>10, <2>1, <2>2 DEF SaleStory
<1>12. OpensChat(c) => /\ Len(chats[o]) = 0 /\ row.status \notin BeforeSale
                       /\ row.status \in Statuses => Reached(row, "CONFIRMED")
  BY <1>6 DEF KnowsSale, WasConfirmed
<1>13. SaleStory(row, talks, events)
  BY <1>6, <1>8, <1>9, <1>11, <1>12 DEF SaleStory
<1>14. UnsoldStaysGone(o)'
  <2>1. EventsOf(o, "order.order.cancelled")' = EventsIn(events, "order.order.cancelled")
        /\ EventsOf(o, "order.order.cancelled") = EventsIn(outbox[o], "order.order.cancelled")
    BY <1>5 DEF EventsOf, EventsIn
  <2>2. Owes(c, "order.order.cancelled") => h \in Owing(o, "order.order.cancelled")
    BY <1>1, <1>2 DEF Owing
  <2>3. d.pc # "saveOrder"
    BY DEF Shrinks
  <2>4. Owes(d, "order.order.cancelled") => Owes(c, "order.order.cancelled") /\ d.expected = c.expected
    BY <1>1, <1>7, IdleOwesNothing DEF Shrinks
  <2>5. calls[h].order = o /\ calls[h] = c
    BY <1>1, <1>2
  <2> QED  BY <1>5, <1>6, <1>10, <2>1, <2>2, <2>3, <2>4, <2>5, UnsoldKept
<1>15. ASSUME NEW g \in Handlers \ {h}, calls[g] # IdleCall, calls[g].order = o,
              KnowsSale(calls[g], orders[o], Len(chats[o]))
       PROVE  KnowsSale(calls[g], row, talks)
  <2>1. CASE talks = Len(chats[o])
    BY <1>3, <1>15, <2>1
  <2>2. CASE OpensChat(c)
    <3>1. ~OpensChat(calls[g])
      BY <1>1, <1>2, <1>15, <2>2 DEF SaleInvariant, OneOpener
    <3> QED  BY <1>3, <1>15, <3>1 DEF KnowsSale
  <2> QED  BY <1>9, <2>1, <2>2
<1>16. d # IdleCall => KnowsSale(d, row, talks)
  <2>1. SUFFICES ASSUME d # IdleCall
                 PROVE  KnowsSale(d, row, talks)
    OBVIOUS
  <2>2. /\ Owes(d, "order.order.cancelled") => Owes(c, "order.order.cancelled")
        /\ OpensChat(d) => OpensChat(c) /\ talks = Len(chats[o])
        /\ d.pc # "saveOrder" /\ d.expected = c.expected
    BY <1>1, <1>7, <1>9, <2>1 DEF Shrinks
  <2> QED  BY <1>6, <2>2 DEF KnowsSale
<1>17. OpensChat(d) => OpensChat(calls[h])
  BY DEF Shrinks
<1>18. \A p \in Orders : orders'[p] = IF p = o THEN row ELSE orders[p]
  BY <1>3, <1>6
<1>19. calls[h].order = o /\ (d = IdleCall \/ d.order = o)
  BY <1>1, <1>2, <1>7
<1> QED
  BY <1>6, <1>9, <1>10, <1>13, <1>14, <1>15, <1>16, <1>17, <1>18, <1>19, SaleKept
(* A step that touches neither the conversations nor the events, of a call *)
(* that owes nothing and opens nothing before and after, except by a       *)
(* transition.                                                             *)
LEMMA RowKeepsSale ==
  ASSUME InductiveInvariant, SaleInvariant, NEW h \in Handlers, NEW d, Leaves(h, d),
         NEW o \in Orders,
         calls[h] = IdleCall \/ calls[h].order = o, d = IdleCall \/ d.order = o,
         UNCHANGED <<chats, outbox>>,
         NEW row, \A p \in Orders : orders'[p] = IF p = o THEN row ELSE orders[p],
         SaleStory(row, Len(chats[o]), outbox[o]), UnsoldStaysGone(o)',
         \A g \in Handlers \ {h} :
           calls[g] # IdleCall /\ calls[g].order = o
           /\ KnowsSale(calls[g], orders[o], Len(chats[o])) => KnowsSale(calls[g], row, Len(chats[o])),
         d # IdleCall => KnowsSale(d, row, Len(chats[o])),
         OpensChat(d) => \A g \in Handlers : calls[g].order = o => ~OpensChat(calls[g])
  PROVE  SaleInvariant'
<1>1. PICK talks : talks = Len(chats[o])
  OBVIOUS
<1>2. PICK events : events = outbox[o]
  OBVIOUS
<1>3. \A p \in Orders : Len(chats'[p]) = IF p = o THEN talks ELSE Len(chats[p])
  BY <1>1
<1>4. \A p \in Orders : outbox'[p] = IF p = o THEN events ELSE outbox[p]
  BY <1>2
<1>5. SaleStory(row, talks, events)
  BY <1>1, <1>2
<1>6. \A g \in Handlers \ {h} :
        calls[g] # IdleCall /\ calls[g].order = o
        /\ KnowsSale(calls[g], orders[o], Len(chats[o])) => KnowsSale(calls[g], row, talks)
  BY <1>1
<1>7. d # IdleCall => KnowsSale(d, row, talks)
  BY <1>1
<1> QED  BY <1>3, <1>4, <1>5, <1>6, <1>7, SaleKept

LEMMA StartKeepsSale ==
  ASSUME InductiveInvariant, SaleInvariant, NEW h \in Handlers, NEW d, Starts(h, d)
  PROVE  SaleInvariant'
<1>1. PICK o : o = d.order
  OBVIOUS
<1>2. PICK row : row = orders[o]
  OBVIOUS
<1>3. d \in Call /\ o \in Orders /\ Snapshot(d) /\ Leaves(h, d)
      /\ UNCHANGED <<orders, chats, outbox>>
  BY <1>1, CallFields DEF Starts, Leaves
<1>4. calls[h] = IdleCall \/ calls[h].order = o
  BY <1>1 DEF Starts
<1>5. /\ row.status \in Statuses /\ SaleStory(row, Len(chats[o]), outbox[o])
      /\ d.pc \in {"saveTransition", "publishCreated", "saveOrder", "deleteRow", "markReserved"}
      /\ d.pc = "saveOrder" => row.status \in SavedStatuses /\ d.row.history = row.history
  BY <1>1, <1>2, <1>3 DEF Snapshot, SaleInvariant
<1>6. ~OpensChat(d) /\ ~Owes(d, "order.order.cancelled")
  BY <1>5, DebtCases DEF OpensChat
<1>7. d.pc = "saveOrder" => /\ row.status \in SoldStatuses /\ row.status \notin BeforeSale
                            /\ row.status \notin GoneStatuses /\ Reached(row, "CONFIRMED")
  BY <1>5, SaleStatuses DEF SaleStory, RowSold
<1>8. KnowsSale(d, row, Len(chats[o]))
  <2>1. d.pc = "saveOrder" => Reached(d.row, "CONFIRMED")
    BY <1>5, <1>7 DEF Reached
  <2> QED  BY <1>5, <1>6, <1>7, <2>1, SaleStatuses DEF KnowsSale, WasConfirmed
<1>9. UnsoldStaysGone(o)'
  <2>1. CASE d.pc = "saveOrder"
    <3>1. \A i \in EventsOf(o, "order.order.cancelled") : outbox[o][i].wasSold
      <4>1. \A i \in EventsIn(outbox[o], "order.order.cancelled") : ReleaseFits(row, outbox[o][i].wasSold)
        BY <1>5 DEF SaleStory
      <4> QED  BY <1>7, <2>1, <4>1 DEF EventsOf, EventsIn, ReleaseFits
    <3>2. \A g \in Handlers : calls[g].order = o /\ Owes(calls[g], "order.order.cancelled")
                                => calls[g].expected \in CONFIRMED_OR_LATER
      <4>1. ASSUME NEW g \in Handlers, calls[g].order = o, Owes(calls[g], "order.order.cancelled")
            PROVE  ReleaseFits(row, calls[g].expected \in CONFIRMED_OR_LATER)
        BY <1>2, <4>1, IdleOwesNothing DEF SaleInvariant, KnowsSale
      <4> QED  BY <1>7, <2>1, <4>1 DEF ReleaseFits
    <3>3. \A g \in Owing(o, "order.order.cancelled")' : calls'[g].expected \in CONFIRMED_OR_LATER
      <4>1. calls'[h] = d /\ \A g \in Handlers \ {h} : calls'[g] = calls[g]
        BY <1>3 DEF Leaves, InductiveInvariant, CallsOK
      <4> QED  BY <1>6, <3>2, <4>1 DEF Owing
    <3>4. \A i \in EventsOf(o, "order.order.cancelled")' : outbox'[o][i].wasSold
      BY <1>3, <3>1 DEF EventsOf
    <3> QED  BY <3>3, <3>4 DEF UnsoldStaysGone
  <2>2. CASE d.pc # "saveOrder"
    <3>1. \A i \in EventsOf(o, "order.order.cancelled")' :
            i \in EventsOf(o, "order.order.cancelled") /\ outbox'[o][i] = outbox[o][i]
      BY <1>3 DEF EventsOf
    <3> QED  BY <1>3, <1>6, <2>2, <3>1, UnsoldKept
  <2> QED  BY <2>1, <2>2
<1>10. \A p \in Orders : orders'[p] = IF p = o THEN row ELSE orders[p]
  BY <1>2, <1>3
<1>11. \A g \in Handlers \ {h} : KnowsSale(calls[g], orders[o], Len(chats[o]))
                                   => KnowsSale(calls[g], row, Len(chats[o]))
  BY <1>2
<1> QED
  BY <1>1, <1>3, <1>4, <1>5, <1>6, <1>8, <1>9, <1>10, <1>11, RowKeepsSale

LEMMA CreateKeepsSale ==
  ASSUME InductiveInvariant, SaleInvariant, NEW h \in Handlers, NEW d, NEW row,
         Creates(h, d, row)
  PROVE  SaleInvariant'
<1>1. PICK o : o = d.order
  OBVIOUS
<1>2. /\ d \in Call /\ o \in Orders /\ Leaves(h, d) /\ calls[h] = IdleCall
      /\ UNCHANGED <<chats, outbox>> /\ orders[o] = NoOrder /\ d.pc = "publishCartCreated"
      /\ row.status \in {"DRAFT", "CREATED"}
      /\ \A p \in Orders : orders'[p] = IF p = o THEN row ELSE orders[p]
  BY <1>1, CallFields DEF Creates, Leaves, InductiveInvariant, RowsOK
<1>3. \A g \in Handlers : calls[g] # IdleCall => calls[g].order # o
  BY <1>2 DEF SaleInvariant, KnowsSale, NoOrder, EmptyRow
<1>4. SaleStory(NoOrder, Len(chats[o]), outbox[o])
  BY <1>2 DEF SaleInvariant
<1>5. Len(chats[o]) = 0 /\ EventsIn(outbox[o], "order.order.cancelled") = {}
  BY <1>4, SaleStatuses DEF SaleStory, NoOrder, EmptyRow
<1>6. ~Reached(row, "CONFIRMED")
  <2>1. PICK by : row.history = <<[from |-> "none", to |-> row.status, by |-> by]>>
    BY DEF Creates
  <2> QED  BY <1>2, <2>1 DEF Reached
<1>7. row.status \in BeforeSale /\ row.status \notin SoldStatuses /\ row.status # "none"
  BY <1>2 DEF BeforeSale, SoldStatuses
<1>8. SaleStory(row, Len(chats[o]), outbox[o])
  BY <1>5, <1>6, <1>7 DEF SaleStory, RowSold
<1>9. ~OpensChat(d) /\ ~Owes(d, "order.order.cancelled") /\ d.pc # "saveOrder"
  BY <1>2, DebtCases DEF OpensChat
<1>10. KnowsSale(d, row, Len(chats[o]))
  BY <1>7, <1>9 DEF KnowsSale
<1>11. UnsoldStaysGone(o)'
  <2>1. \A i \in EventsOf(o, "order.order.cancelled")' :
          i \in EventsOf(o, "order.order.cancelled") /\ outbox'[o][i] = outbox[o][i]
    BY <1>2 DEF EventsOf
  <2> QED  BY <1>2, <1>9, <2>1, UnsoldKept
<1> QED  BY <1>1, <1>2, <1>3, <1>8, <1>9, <1>10, <1>11, RowKeepsSale

\* What was known of the sale under the old row is known under the new one.
SaleGoesOn(old, row) ==
  /\ row.status # "none"
  /\ WasConfirmed(old) => WasConfirmed(row)
  /\ \A wasSold : ReleaseFits(old, wasSold) => ReleaseFits(row, wasSold)

LEMMA OthersKnowSale ==
  ASSUME NEW old, NEW row, SaleGoesOn(old, row), NEW c, NEW talks, KnowsSale(c, old, talks)
  PROVE  KnowsSale(c, row, talks)
BY DEF SaleGoesOn, KnowsSale

(* A transition, seen from the sale.                                       *)
LEMMA TransitionSale ==
  ASSUME NEW old \in OrderRow, NEW row, NEW e \in HistoryEntry,
         row.history = Append(old.history, e), e.to = row.status,
         CanTransition(old.status, row.status), RowSold(old)
  PROVE  /\ SaleGoesOn(old, row) /\ RowSold(row)
         /\ row.status \in BeforeSale => old.status \in BeforeSale
         /\ Reached(old, "CONFIRMED") => Reached(row, "CONFIRMED")
         /\ row.status = "CONFIRMED" => old.status \in BeforeSale /\ WasConfirmed(row)
         /\ row.status \in STOCK_RELEASING_STATUSES /\ old.status \notin STOCK_RELEASING_STATUSES =>
              /\ ReleaseFits(row, old.status \in CONFIRMED_OR_LATER)
              /\ old.status \in CONFIRMED_OR_LATER \/ old.status \in BeforeSale
<1>1. Reached(row, "CONFIRMED") <=> Reached(old, "CONFIRMED") \/ row.status = "CONFIRMED"
  BY ReachedMore
<1>2. /\ old.status \in Statuses /\ row.status \in Statuses /\ row.status # "none"
      /\ row.status \in BeforeSale => old.status \in BeforeSale /\ row.status # "CONFIRMED"
      /\ row.status \in SoldStatuses => row.status = "CONFIRMED" \/ old.status \in SoldStatuses
      /\ row.status = "CONFIRMED" => old.status \in BeforeSale
      /\ old.status \in GoneStatuses => row.status \in GoneStatuses /\ row.status # "CONFIRMED"
      /\ row.status \in STOCK_RELEASING_STATUSES =>
           /\ old.status \in CONFIRMED_OR_LATER \cup STOCK_RELEASING_STATUSES \cup BeforeSale
           /\ row.status \in GoneStatuses /\ row.status # "CONFIRMED"
  BY SaleTransitions
<1>3. RowSold(row)
  BY <1>1, <1>2 DEF RowSold
<1>4. WasConfirmed(old) => WasConfirmed(row)
  BY <1>1, <1>2 DEF WasConfirmed
<1>5. ASSUME NEW wasSold, ReleaseFits(old, wasSold)
      PROVE  ReleaseFits(row, wasSold)
  BY <1>1, <1>2, <1>5 DEF ReleaseFits
<1>6. row.status = "CONFIRMED" => WasConfirmed(row)
  BY <1>1, SaleStatuses DEF WasConfirmed
<1>7. ASSUME row.status \in STOCK_RELEASING_STATUSES, old.status \notin STOCK_RELEASING_STATUSES
      PROVE  /\ ReleaseFits(row, old.status \in CONFIRMED_OR_LATER)
             /\ old.status \in CONFIRMED_OR_LATER \/ old.status \in BeforeSale
  <2>1. old.status \in CONFIRMED_OR_LATER \/ old.status \in BeforeSale
    BY <1>2, <1>7
  <2>2. row.status \in GoneStatuses /\ row.status \notin BeforeSale /\ row.status # "CONFIRMED"
    BY <1>2, <1>7, SaleStatuses
  <2>3. CASE old.status \in CONFIRMED_OR_LATER
    <3>1. Reached(old, "CONFIRMED")
      BY <2>3, SaleStatuses DEF RowSold
    <3> QED  BY <1>1, <2>1, <2>2, <2>3, <3>1 DEF ReleaseFits
  <2>4. CASE old.status \notin CONFIRMED_OR_LATER
    <3>1. ~Reached(row, "CONFIRMED")
      BY <1>1, <2>1, <2>2, <2>4 DEF RowSold
    <3> QED  BY <2>1, <2>2, <2>4, <3>1 DEF ReleaseFits
  <2> QED  BY <2>1, <2>3, <2>4
<1> QED  BY <1>1, <1>2, <1>3, <1>4, <1>5, <1>6, <1>7 DEF SaleGoesOn

LEMMA CommitKeepsSale ==
  ASSUME InductiveInvariant, SaleInvariant, NEW h \in Handlers, NEW d, NEW row,
         Commits(h, d, row)
  PROVE  SaleInvariant'
<1>1. PICK c : c = calls[h]
  OBVIOUS
<1>2. PICK o : o = c.order
  OBVIOUS
<1>3. PICK old : old = orders[o]
  OBVIOUS
<1>4. /\ c \in Call /\ o \in Orders /\ Leaves(h, d) /\ d.order = o /\ c.order = o
      /\ UNCHANGED <<chats, outbox>> /\ d.pc = "publishStatusChanged"
      /\ d.expected = c.expected /\ d.row = c.row
      /\ \A p \in Orders : orders'[p] = IF p = o THEN row ELSE orders[p]
      /\ old \in OrderRow
  BY <1>1, <1>2, <1>3, CallFields DEF Commits, Leaves, SameCall, InductiveInvariant, RowsOK
<1>5. PICK e : e = LastEntry(c.row)
  OBVIOUS
<1>6. /\ old.status = c.expected /\ row.status = c.row.status
      /\ row.history = Append(old.history, e) /\ e \in HistoryEntry /\ e.to = row.status
      /\ CanTransition(old.status, row.status)
  BY <1>1, <1>2, <1>3, <1>5 DEF Commits, CarriesTransition
<1>7. SaleStory(old, Len(chats[o]), outbox[o])
  BY <1>3, <1>4 DEF SaleInvariant
<1>8. /\ SaleGoesOn(old, row) /\ RowSold(row)
      /\ row.status \in BeforeSale => old.status \in BeforeSale
      /\ Reached(old, "CONFIRMED") => Reached(row, "CONFIRMED")
      /\ row.status = "CONFIRMED" => old.status \in BeforeSale /\ WasConfirmed(row)
      /\ row.status \in STOCK_RELEASING_STATUSES /\ old.status \notin STOCK_RELEASING_STATUSES =>
           /\ ReleaseFits(row, old.status \in CONFIRMED_OR_LATER)
           /\ old.status \in CONFIRMED_OR_LATER \/ old.status \in BeforeSale
  BY <1>4, <1>6, <1>7, TransitionSale DEF SaleStory
<1>9. old.status \in Statuses
  BY <1>6, SaleTransitions
<1>10. SaleStory(row, Len(chats[o]), outbox[o])
  BY <1>7, <1>8, <1>9 DEF SaleStory, SaleGoesOn
<1>11. /\ OpensChat(d) => row.status = "CONFIRMED"
       /\ Owes(d, "order.order.cancelled") =>
            row.status \in STOCK_RELEASING_STATUSES /\ old.status \notin STOCK_RELEASING_STATUSES
  BY <1>4, <1>6, DebtCases, IncurCases DEF OpensChat, STOCK_RELEASING_STATUSES
<1>12. KnowsSale(d, row, Len(chats[o]))
  <2>1. OpensChat(d) => WasConfirmed(row) /\ Len(chats[o]) = 0
    BY <1>7, <1>8, <1>11 DEF SaleStory
  <2>2. row.status # "none" /\ d.pc # "saveOrder"
    BY <1>4, <1>8 DEF SaleGoesOn
  <2>3. Owes(d, "order.order.cancelled") => ReleaseFits(row, d.expected \in CONFIRMED_OR_LATER)
    BY <1>4, <1>6, <1>8, <1>11
  <2> QED  BY <2>1, <2>2, <2>3 DEF KnowsSale
<1>13. UnsoldStaysGone(o)'
  <2>1. \A i \in EventsOf(o, "order.order.cancelled")' :
          i \in EventsOf(o, "order.order.cancelled") /\ outbox'[o][i] = outbox[o][i]
    BY <1>4 DEF EventsOf
  <2>2. Owes(d, "order.order.cancelled") =>
          d.expected \in CONFIRMED_OR_LATER \/ orders[o].status \in BeforeSale
    BY <1>3, <1>4, <1>6, <1>8, <1>11
  <2>3. d.pc # "saveOrder"
    BY <1>4
  <2> QED  BY <1>4, <2>1, <2>2, <2>3, UnsoldKept
<1>14. \A g \in Handlers \ {h} : KnowsSale(calls[g], orders[o], Len(chats[o]))
                                   => KnowsSale(calls[g], row, Len(chats[o]))
  BY <1>3, <1>8, OthersKnowSale
<1>15. OpensChat(d) => \A g \in Handlers : calls[g].order = o => ~OpensChat(calls[g])
  <2>1. ASSUME NEW g \in Handlers, calls[g].order = o, OpensChat(calls[g])
        PROVE  WasConfirmed(old)
    BY <1>3, <2>1, IdleOwesNothing DEF SaleInvariant, KnowsSale
  <2> QED  BY <1>8, <1>11, <2>1 DEF WasConfirmed
<1>16. calls[h].order = o
  BY <1>1, <1>4
<1> QED  BY <1>4, <1>10, <1>12, <1>13, <1>14, <1>15, <1>16, RowKeepsSale

LEMMA ReserveKeepsSale ==
  ASSUME InductiveInvariant, SaleInvariant, NEW h \in Handlers, NEW d, NEW row,
         Reserves(h, d, row)
  PROVE  SaleInvariant'
<1>1. PICK c : c = calls[h]
  OBVIOUS
<1>2. PICK o : o = c.order
  OBVIOUS
<1>3. PICK old : old = orders[o]
  OBVIOUS
<1>4. /\ c \in Call /\ o \in Orders /\ Leaves(h, d) /\ d.order = o
      /\ UNCHANGED <<chats, outbox>> /\ d.pc = "confirmIfPaid"
      /\ \A p \in Orders : orders'[p] = IF p = o THEN row ELSE orders[p]
      /\ row.status = old.status /\ row.history = old.history
  BY <1>1, <1>2, <1>3, CallFields DEF Reserves, Leaves, SameCall, InductiveInvariant, RowsOK
<1>5. KnowsSale(c, old, Len(chats[o])) /\ SaleStory(old, Len(chats[o]), outbox[o])
  BY <1>1, <1>2, <1>3, <1>4, CallInSale DEF SaleInvariant
<1>6. Reached(row, "CONFIRMED") <=> Reached(old, "CONFIRMED")
  BY <1>4 DEF Reached
<1>7. SaleGoesOn(old, row) /\ SaleStory(row, Len(chats[o]), outbox[o])
  BY <1>4, <1>5, <1>6 DEF SaleGoesOn, SaleStory, RowSold, ReleaseFits, WasConfirmed, KnowsSale
<1>8. ~OpensChat(d) /\ ~Owes(d, "order.order.cancelled") /\ d.pc # "saveOrder"
  BY <1>4, DebtCases DEF OpensChat
<1>9. KnowsSale(d, row, Len(chats[o]))
  BY <1>7, <1>8 DEF KnowsSale, SaleGoesOn
<1>10. UnsoldStaysGone(o)'
  <2>1. \A i \in EventsOf(o, "order.order.cancelled")' :
          i \in EventsOf(o, "order.order.cancelled") /\ outbox'[o][i] = outbox[o][i]
    BY <1>4 DEF EventsOf
  <2> QED  BY <1>4, <1>8, <2>1, UnsoldKept
<1>11. \A g \in Handlers \ {h} : KnowsSale(calls[g], orders[o], Len(chats[o]))
                                   => KnowsSale(calls[g], row, Len(chats[o]))
  BY <1>3, <1>7, OthersKnowSale
<1>12. calls[h].order = o
  BY <1>1, <1>2
<1> QED  BY <1>4, <1>7, <1>8, <1>9, <1>10, <1>11, <1>12, RowKeepsSale

LEMMA SaveKeepsSale ==
  ASSUME InductiveInvariant, SaleInvariant, NEW h \in Handlers, NEW d, Saves(h, d)
  PROVE  SaleInvariant'
<1>1. PICK c : c = calls[h]
  OBVIOUS
<1>2. PICK o : o = c.order
  OBVIOUS
<1>3. PICK row : row = c.row
  OBVIOUS
<1>4. /\ c \in Call /\ o \in Orders /\ Leaves(h, d) /\ (d = IdleCall \/ SameCall(c, d))
      /\ UNCHANGED <<chats, outbox>> /\ c.pc = "saveOrder"
      /\ d.pc \in {"idle", "findChatToReopen", "publishReturnRequested"}
      /\ \A p \in Orders : orders'[p] = IF p = o THEN row ELSE orders[p]
      /\ row.status \in SavedStatuses /\ c.expected = "none"
  BY <1>1, <1>2, <1>3, CallFields, IdleOwesNothing
  DEF Saves, Leaves, SameCall, InductiveInvariant, RowsOK, CallFits, PointFits
<1>5. KnowsSale(c, orders[o], Len(chats[o])) /\ SaleStory(orders[o], Len(chats[o]), outbox[o])
  BY <1>1, <1>2, <1>4, CallInSale DEF SaleInvariant
<1>6. row.status \in SoldStatuses /\ row.status \notin BeforeSale /\ row.status # "none"
  BY <1>4, SaleStatuses
<1>7. Reached(row, "CONFIRMED") /\ WasConfirmed(row) /\ RowSold(row)
  BY <1>3, <1>4, <1>5, <1>6 DEF KnowsSale, WasConfirmed, RowSold
<1>8. /\ \A i \in EventsOf(o, "order.order.cancelled") : outbox[o][i].wasSold
      /\ \A g \in Owing(o, "order.order.cancelled") : calls[g].expected \in CONFIRMED_OR_LATER
  BY <1>1, <1>2, <1>4 DEF SaleInvariant, UnsoldStaysGone
<1>9. \A wasSold : wasSold = TRUE => ReleaseFits(row, wasSold)
  BY <1>6, <1>7 DEF ReleaseFits
<1>10. SaleStory(row, Len(chats[o]), outbox[o])
  <2>1. \A i \in EventsIn(outbox[o], "order.order.cancelled") : ReleaseFits(row, outbox[o][i].wasSold)
    <3>1. ASSUME NEW i \in EventsIn(outbox[o], "order.order.cancelled")
          PROVE  outbox[o][i].wasSold = TRUE
      BY <1>5, <1>8, <3>1 DEF EventsOf, EventsIn, SaleStory, ReleaseFits
    <3> QED  BY <1>9, <3>1
  <2> QED  BY <1>5, <1>6, <1>7, <2>1 DEF SaleStory
<1>11. ~OpensChat(d) /\ ~Owes(d, "order.order.cancelled") /\ d.pc # "saveOrder"
  BY <1>4, DebtCases DEF OpensChat
<1>12. KnowsSale(d, row, Len(chats[o]))
  BY <1>6, <1>11 DEF KnowsSale
<1>13. ASSUME NEW g \in Handlers \ {h}, calls[g].order = o,
              KnowsSale(calls[g], orders[o], Len(chats[o]))
       PROVE  KnowsSale(calls[g], row, Len(chats[o]))
  <2>1. Owes(calls[g], "order.order.cancelled") => (calls[g].expected \in CONFIRMED_OR_LATER) = TRUE
    BY <1>8, <1>13 DEF Owing
  <2> QED  BY <1>6, <1>7, <1>9, <1>13, <2>1 DEF KnowsSale
<1>14. UnsoldStaysGone(o)'
  <2>1. \A i \in EventsOf(o, "order.order.cancelled")' :
          i \in EventsOf(o, "order.order.cancelled") /\ outbox'[o][i] = outbox[o][i]
    BY <1>4 DEF EventsOf
  <2> QED  BY <1>4, <1>11, <2>1, UnsoldKept
<1>15. calls[h].order = o /\ (d = IdleCall \/ d.order = o)
  BY <1>1, <1>2, <1>4 DEF SameCall
<1> QED  BY <1>4, <1>10, <1>11, <1>12, <1>13, <1>14, <1>15, RowKeepsSale

LEMMA DeleteKeepsSale ==
  ASSUME InductiveInvariant, SaleInvariant, NEW h \in Handlers, Deletes(h)
  PROVE  SaleInvariant'
<1>1. PICK c : c = calls[h]
  OBVIOUS
<1>2. PICK o : o = c.order
  OBVIOUS
<1>3. PICK old : old = orders[o]
  OBVIOUS
<1>4. PICK row : row = DeletedOrder
  OBVIOUS
<1>5. /\ c \in Call /\ o \in Orders /\ Leaves(h, IdleCall) /\ UNCHANGED <<chats, outbox>>
      /\ \A p \in Orders : orders'[p] = IF p = o THEN row ELSE orders[p]
      /\ row.status = "deleted" /\ row.history = <<>>
  BY <1>1, <1>2, <1>4, CallFields, IdleOwesNothing
  DEF Deletes, Leaves, InductiveInvariant, RowsOK, DeletedOrder, EmptyRow
<1>6. SaleStory(old, Len(chats[o]), outbox[o])
  BY <1>3, <1>5 DEF SaleInvariant
<1>7. row.status # "none" /\ WasConfirmed(row) /\ RowSold(row)
  BY <1>5, SaleStatuses DEF WasConfirmed, RowSold, BeforeSale
<1>8. \A wasSold : ReleaseFits(old, wasSold) => ReleaseFits(row, wasSold)
  BY <1>5, SaleStatuses DEF ReleaseFits, BeforeSale
<1>9. SaleStory(row, Len(chats[o]), outbox[o])
  BY <1>5, <1>6, <1>7, <1>8, SaleStatuses DEF SaleStory, BeforeSale
<1>10. \A g \in Handlers \ {h} : KnowsSale(calls[g], orders[o], Len(chats[o]))
                                   => KnowsSale(calls[g], row, Len(chats[o]))
  BY <1>3, <1>7, <1>8, OthersKnowSale DEF SaleGoesOn
<1>11. UnsoldStaysGone(o)'
  <2>1. \A i \in EventsOf(o, "order.order.cancelled")' :
          i \in EventsOf(o, "order.order.cancelled") /\ outbox'[o][i] = outbox[o][i]
    BY <1>5 DEF EventsOf
  <2> QED  BY <1>5, <2>1, IdleOwesNothing, UnsoldKept
<1>12. calls[h].order = o
  BY <1>1, <1>2
<1> QED  BY <1>5, <1>9, <1>10, <1>11, <1>12, IdleOwesNothing, RowKeepsSale

LEMMA SaleInitially ==
  ASSUME Init
  PROVE  SaleInvariant
<1>1. \A h \in Handlers : calls[h] = IdleCall
  BY DEF Init
<1>2. ASSUME NEW o \in Orders
      PROVE  SaleStory(orders[o], Len(chats[o]), outbox[o])
  <2>1. PICK start \in StartStates : /\ orders[o] = start.row /\ chats[o] = start.chats
                                     /\ outbox[o] = start.outbox
    BY DEF Init
  <2> QED  BY <2>1, StartSettled DEF SettledStart
<1>3. \A o \in Orders : UnsoldStaysGone(o)
  BY <1>1, IdleOwesNothing DEF UnsoldStaysGone
<1> QED  BY <1>1, <1>2, <1>3, IdleOwesNothing DEF SaleInvariant, OneOpener

LEMMA SaleIsKept ==
  ASSUME InductiveInvariant, CallsFit, SaleInvariant, [Next]_vars
  PROVE  SaleInvariant'
<1>1. CASE Rests
  <2>1. UNCHANGED <<orders, chats, outbox, calls>>
    BY <1>1 DEF Rests
  <2> QED  BY <2>1 DEF SaleInvariant, OneOpener, UnsoldStaysGone, EventsOf, Owing
<1>2. ASSUME NEW h \in Handlers, HandlerSteps(h)
      PROVE  SaleInvariant'
  BY <1>2, StepsShrink, ShrinkKeepsSale, StartKeepsSale, CreateKeepsSale, CommitKeepsSale,
     ReserveKeepsSale, SaveKeepsSale, DeleteKeepsSale
  DEF HandlerSteps
<1> QED  BY <1>1, <1>2, StepKinds

(* The sale of every order is told truly by its row, its conversations and *)
(* its events, whatever calls race on it.                                  *)
THEOREM SaleHolds == Spec => []SaleInvariant
<1>1. InductiveInvariant /\ CallsFit /\ SaleInvariant /\ [Next]_vars => SaleInvariant'
  BY SaleIsKept
<1>2. Init => SaleInvariant
  BY SaleInitially
<1> QED  BY <1>1, <1>2, InvariantHolds, CallsAlwaysFit, PTL DEF Spec

(* order.order.cancelled tells products-service the truth about the sale,  *)
(* however the order got to be cancelled, deleted, or inserted again.      *)
THEOREM ReleasesAreTrue == Spec => []WasSoldAccurate
<1>1. SaleInvariant => WasSoldAccurate
  <2>1. SUFFICES ASSUME SaleInvariant, NEW o \in Orders, Stored(o),
                        NEW i \in EventsOf(o, "order.order.cancelled")
                 PROVE  outbox[o][i].wasSold <=> Reached(orders[o], "CONFIRMED")
    BY DEF WasSoldAccurate
  <2>2. ReleaseFits(orders[o], outbox[o][i].wasSold)
    BY <2>1 DEF SaleInvariant, SaleStory, EventsOf, EventsIn
  <2> QED  BY <2>1, <2>2 DEF ReleaseFits, Stored
<1> QED  BY <1>1, SaleHolds, PTL

(* An order never has a second conversation, and none before its sale.     *)
THEOREM OneChatPerOrder == Spec => []OneConversation
<1>1. InductiveInvariant /\ SaleInvariant => OneConversation
  <2>1. SUFFICES ASSUME InductiveInvariant, SaleInvariant, NEW o \in Orders
                 PROVE  /\ Len(chats[o]) <= 1
                        /\ chats[o] # <<>> /\ Stored(o) => Reached(orders[o], "CONFIRMED")
    BY DEF OneConversation
  <2>2. SaleStory(orders[o], Len(chats[o]), outbox[o])
    BY <2>1 DEF SaleInvariant
  <2>3. chats[o] # <<>> => Len(chats[o]) # 0
    <3>1. chats[o] \in Seq(Conversation)
      BY <2>1 DEF InductiveInvariant, ChatsOK
    <3> QED  BY <3>1, EmptySeq
  <2> QED  BY <2>2, <2>3 DEF SaleStory, Stored
<1> QED  BY <1>1, InvariantHolds, SaleHolds, PTL

-----------------------------------------------------------------------------
(* The two signals.                                                        *)

(* How ORDER_TRANSITIONS moves an order towards its confirmation.          *)
LEMMA StageTransitions ==
  /\ \A s : Stage(s) \in 0..5
  /\ \A s \in Statuses : Stage(s) >= 1
  /\ \A s, to : CanTransition(s, to) =>
       /\ Stage(s) <= Stage(to)
       /\ Stage(s) < 5 => Stage(s) < Stage(to)
       /\ to = "CONFIRMED" => Stage(s) < 5
       /\ s # to /\ s \in Statuses /\ to \in Statuses
  /\ \A s \in SavedStatuses \cup {"DELIVERED", "CANCELLED", "FAILED", "deleted"} : Stage(s) = 5
  /\ Stage("none") = 0 /\ Stage("PAYMENT_APPROVED") = 4 /\ Stage("CREATED") = 2
BY DEF Stage, CanTransition, ORDER_TRANSITIONS, Statuses, SavedStatuses

\* What was known of the confirmation under the old row is known under the new one.
SignalsGoOn(old, row) ==
  /\ Stage(old.status) <= Stage(row.status)
  /\ \/ Stage(row.status) = 5
     \/ Stage(old.status) < Stage(row.status)
     \/ /\ row.status = old.status /\ row.cash = old.cash
        /\ old.stockReserved => row.stockReserved

LEMMA OthersKnowSignals ==
  ASSUME NEW old, NEW row, SignalsGoOn(old, row),
         NEW c \in Call, CallLegal(c), KnowsSignals(c, old)
  PROVE  KnowsSignals(c, row)
<1>1. c.expected # "none" /\ c.row.status = "CONFIRMED" => Stage(c.expected) < 5
  BY StageTransitions DEF CallLegal, CarriesTransition
<1>2. /\ Stage(old.status) \in 0..5 /\ Stage(row.status) \in 0..5 /\ Stage(c.expected) \in 0..5
      /\ Stage(old.status) <= Stage(row.status)
  BY StageTransitions DEF SignalsGoOn
<1>3. c.expected # "none" => Stage(c.expected) <= Stage(row.status)
  BY <1>2 DEF KnowsSignals
<1>4. c.pc \in {"saveOrder", "deleteRow"} => Stage(row.status) = 5
  BY <1>2 DEF KnowsSignals
<1>5. ASSUME c.expected # "none", c.row.status = "CONFIRMED", row.status = c.expected
      PROVE  row.cash \/ (c.expected = "PAYMENT_APPROVED" /\ row.stockReserved)
  <2>1. Stage(c.expected) <= Stage(old.status) /\ Stage(row.status) < 5
    BY <1>1, <1>5 DEF KnowsSignals
  <2>2. Stage(row.status) <= Stage(old.status)
    BY <1>5, <2>1
  <2>3. /\ row.status = old.status /\ row.cash = old.cash
        /\ old.stockReserved => row.stockReserved
    BY <1>2, <2>1, <2>2 DEF SignalsGoOn
  <2> QED  BY <1>5, <2>3 DEF KnowsSignals
<1> QED  BY <1>3, <1>4, <1>5 DEF KnowsSignals

(* The invariant of the two signals, after a step of the call of h on      *)
(* order o.                                                                *)
LEMMA SignalsKept ==
  ASSUME InductiveInvariant, SignalsInvariant, NEW h \in Handlers, NEW d, Leaves(h, d),
         NEW o \in Orders,
         calls[h] = IdleCall \/ calls[h].order = o, d = IdleCall \/ d.order = o,
         NEW row, \A p \in Orders : orders'[p] = IF p = o THEN row ELSE orders[p],
         SignalsGoOn(orders[o], row) \/ \A g \in Handlers : ~Busy(g, o),
         RowConfirmed(row), d # IdleCall => KnowsSignals(d, row),
         aborts' = 0 => aborts = 0,
         aborts = 0 /\ AwaitsConfirmation(row) =>
           \/ d # IdleCall /\ EndsWait(d)
           \/ \E g \in Handlers \ {h} : Busy(g, o) /\ EndsWait(calls[g])
  PROVE  SignalsInvariant'
<1>1. calls'[h] = d /\ \A g \in Handlers \ {h} : calls'[g] = calls[g]
  BY DEF Leaves, InductiveInvariant, CallsOK
<1>2. \A g \in Handlers : calls[g] # IdleCall =>
        calls[g] \in Call /\ calls[g].order \in Orders /\ CallLegal(calls[g])
  BY CallFields DEF InductiveInvariant, CallsOK
<1>3. \A p \in Orders : RowConfirmed(orders'[p])
  BY DEF SignalsInvariant
<1>4. ASSUME NEW g \in Handlers, calls'[g] # IdleCall
      PROVE  KnowsSignals(calls'[g], orders'[calls'[g].order])
  <2>1. CASE g = h
    BY <1>1, <1>4, <2>1
  <2>2. CASE g # h
    <3>1. /\ calls'[g] = calls[g] /\ calls[g] # IdleCall /\ calls[g] \in Call
          /\ calls[g].order \in Orders /\ CallLegal(calls[g])
      BY <1>1, <1>2, <1>4, <2>2
    <3>2. KnowsSignals(calls[g], orders[calls[g].order])
      BY <3>1 DEF SignalsInvariant
    <3>3. CASE calls[g].order # o
      BY <3>1, <3>2, <3>3
    <3>4. CASE calls[g].order = o
      BY <3>1, <3>2, <3>4, OthersKnowSignals DEF Busy
    <3> QED  BY <3>3, <3>4
  <2> QED  BY <2>1, <2>2
<1>5. ASSUME NEW p \in Orders, aborts' = 0, AwaitsConfirmation(orders'[p])
      PROVE  \E g \in Handlers : calls'[g] # IdleCall /\ calls'[g].order = p /\ EndsWait(calls'[g])
  <2>1. CASE p = o
    BY <1>1, <1>5, <2>1 DEF Busy
  <2>2. CASE p # o
    <3>1. PICK g \in Handlers : Busy(g, p) /\ EndsWait(calls[g])
      BY <1>5, <2>2 DEF SignalsInvariant
    <3>2. g # h
      BY <2>2, <3>1 DEF Busy
    <3> QED  BY <1>1, <3>1, <3>2 DEF Busy
  <2> QED  BY <2>1, <2>2
<1> QED  BY <1>3, <1>4, <1>5 DEF SignalsInvariant, Busy

(* A step that leaves the orders alone.                                    *)
LEMMA CallKeepsSignals ==
  ASSUME InductiveInvariant, SignalsInvariant, NEW h \in Handlers, NEW d, Leaves(h, d),
         NEW o \in Orders, UNCHANGED orders,
         calls[h] = IdleCall \/ calls[h].order = o, d = IdleCall \/ d.order = o,
         d # IdleCall => KnowsSignals(d, orders[o]),
         aborts' = 0 => aborts = 0,
         aborts' = 0 /\ AwaitsConfirmation(orders[o]) /\ calls[h] # IdleCall /\ EndsWait(calls[h]) =>
           d # IdleCall /\ EndsWait(d)
  PROVE  SignalsInvariant'
<1>1. CASE aborts' = 0
  <2>1. PICK row : row = orders[o]
    OBVIOUS
  <2>2. SignalsGoOn(orders[o], row) /\ RowConfirmed(row)
    BY <2>1, StageTransitions DEF SignalsGoOn, SignalsInvariant
  <2>3. aborts = 0 /\ AwaitsConfirmation(row) =>
          \/ d # IdleCall /\ EndsWait(d)
          \/ \E g \in Handlers \ {h} : Busy(g, o) /\ EndsWait(calls[g])
    BY <1>1, <2>1 DEF SignalsInvariant, Busy
  <2> QED  BY <2>1, <2>2, <2>3, SignalsKept
<1>2. CASE aborts' # 0
  <2>1. calls'[h] = d /\ \A g \in Handlers \ {h} : calls'[g] = calls[g]
    BY DEF Leaves, InductiveInvariant, CallsOK
  <2>2. \A p \in Orders : RowConfirmed(orders'[p])
    BY DEF SignalsInvariant
  <2>3. \A g \in Handlers : calls'[g] # IdleCall => KnowsSignals(calls'[g], orders'[calls'[g].order])
    BY <2>1 DEF SignalsInvariant
  <2> QED  BY <1>2, <2>2, <2>3 DEF SignalsInvariant
<1> QED  BY <1>1, <1>2

LEMMA CallInSignals ==
  ASSUME InductiveInvariant, SignalsInvariant, NEW h \in Handlers, NEW c, c = calls[h], c \in Call
  PROVE  c.order \in Orders /\ c # IdleCall /\ KnowsSignals(c, orders[c.order])
BY CallFields, IdleOwesNothing DEF SignalsInvariant, Call, Points

LEMMA AdvanceKeepsSignals ==
  ASSUME InductiveInvariant, SignalsInvariant, NEW h \in Handlers, NEW d,
         (\E e : Advances(h, d, e)) \/ Fails(h, d)
  PROVE  SignalsInvariant'
<1>1. PICK c : c = calls[h]
  OBVIOUS
<1>2. PICK o : o = c.order
  OBVIOUS
<1>3. /\ c \in Call /\ Leaves(h, d) /\ UNCHANGED orders /\ (aborts' = 0 => aborts = 0)
      /\ d = IdleCall \/ (SameCall(c, d) /\ d.pc \notin {"saveOrder", "deleteRow"})
  <2>1. CASE \E e : Advances(h, d, e)
    BY <1>1, <2>1 DEF Advances, Moves, Leaves, SameCall
  <2>2. CASE Fails(h, d)
    BY <1>1, <2>2 DEF Fails, Leaves, SameCall, InductiveInvariant, CountersOK
  <2> QED  BY <2>1, <2>2
<1>4. o \in Orders /\ KnowsSignals(c, orders[o])
  BY <1>1, <1>2, <1>3, CallInSignals
<1>5. d # IdleCall => d.order = o /\ KnowsSignals(d, orders[o])
  BY <1>2, <1>3, <1>4 DEF SameCall, KnowsSignals
<1>6. ASSUME aborts' = 0, AwaitsConfirmation(orders[o]), EndsWait(c)
      PROVE  d # IdleCall /\ EndsWait(d)
  <2>1. CASE \E e : Advances(h, d, e)
    <3>1. /\ c.pc # "confirmIfPaid"
          /\ c.pc = "publishStatusChanged" /\ c.op = "applyPaymentApproved" => d.pc = "confirmIfPaid"
          /\ c.pc = "saveTransition" => orders[o].status # c.expected
      BY <1>1, <1>2, <2>1 DEF Advances, Moves
    <3>2. d.pc = "confirmIfPaid"
      BY <1>6, <3>1 DEF EndsWait, AwaitsConfirmation
    <3> QED  BY <3>2, IdleOwesNothing DEF EndsWait
  <2>2. CASE Fails(h, d)
    BY <1>6, <2>2 DEF Fails, InductiveInvariant, CountersOK
  <2> QED  BY <2>1, <2>2
<1> QED  BY <1>1, <1>2, <1>3, <1>4, <1>5, <1>6, CallKeepsSignals

LEMMA ReturnKeepsSignals ==
  ASSUME InductiveInvariant, SignalsInvariant, NEW h \in Handlers, Returns(h)
  PROVE  SignalsInvariant'
<1>1. PICK c : c = calls[h]
  OBVIOUS
<1>2. PICK o : o = c.order
  OBVIOUS
<1>3. c \in Call /\ o \in Orders /\ Leaves(h, IdleCall) /\ UNCHANGED orders /\ UNCHANGED aborts
  BY <1>1, <1>2, CallFields, IdleOwesNothing DEF Returns, Leaves
<1>4. AwaitsConfirmation(orders[o]) => ~EndsWait(c)
  BY <1>1, <1>2 DEF Returns, EndsWait
<1> QED  BY <1>1, <1>2, <1>3, <1>4, CallKeepsSignals

LEMMA StartKeepsSignals ==
  ASSUME InductiveInvariant, SignalsInvariant, "CONFIRMED" \notin PatchTargets,
         NEW h \in Handlers, NEW d, Starts(h, d)
  PROVE  SignalsInvariant'
<1>1. PICK o : o = d.order
  OBVIOUS
<1>2. PICK row : row = orders[o]
  OBVIOUS
<1>3. /\ d \in Call /\ o \in Orders /\ Snapshot(d) /\ Leaves(h, d)
      /\ UNCHANGED orders /\ UNCHANGED aborts
      /\ calls[h] = IdleCall \/ (calls[h].order = o /\ EndsWait(d))
  BY <1>1, CallFields DEF Starts, Leaves
<1>4. RowConfirmed(row)
  BY <1>2, <1>3 DEF SignalsInvariant
<1>5. KnowsSignals(d, row)
  <2>1. d.expected # "none" => Stage(d.expected) <= Stage(row.status)
    BY <1>1, <1>2, <1>3, StageTransitions DEF Snapshot
  <2>2. d.pc \in {"saveOrder", "deleteRow"} => Stage(row.status) = 5
    BY <1>1, <1>2, <1>3, StageTransitions DEF Snapshot
  <2>3. d.pc = "saveOrder" => RowConfirmed(d.row)
    BY <1>1, <1>2, <1>3, <1>4 DEF Snapshot, RowConfirmed
  <2>4. d.expected # "none" /\ d.row.status = "CONFIRMED" /\ row.status = d.expected =>
          row.cash \/ (d.expected = "PAYMENT_APPROVED" /\ row.stockReserved)
    BY <1>1, <1>2, <1>3 DEF Snapshot
  <2> QED  BY <2>1, <2>2, <2>3, <2>4 DEF KnowsSignals
<1>6. d # IdleCall
  BY <1>3, IdleOwesNothing DEF Call, Points
<1> QED  BY <1>1, <1>2, <1>3, <1>5, <1>6, CallKeepsSignals

LEMMA CreateKeepsSignals ==
  ASSUME InductiveInvariant, SaleInvariant, SignalsInvariant,
         NEW h \in Handlers, NEW d, NEW row, Creates(h, d, row)
  PROVE  SignalsInvariant'
<1>1. PICK o : o = d.order
  OBVIOUS
<1>2. /\ d \in Call /\ o \in Orders /\ Leaves(h, d) /\ calls[h] = IdleCall
      /\ UNCHANGED aborts /\ orders[o] = NoOrder /\ d.pc = "publishCartCreated"
      /\ row.status \in {"DRAFT", "CREATED"}
      /\ d.expected # "none" => /\ d.expected = "CREATED" /\ row.status = "CREATED"
                                /\ d.row.status = "PENDING_PAYMENT"
      /\ \A p \in Orders : orders'[p] = IF p = o THEN row ELSE orders[p]
  BY <1>1, CallFields DEF Creates, Leaves, InductiveInvariant, RowsOK
<1>3. \A g \in Handlers : ~Busy(g, o)
  BY <1>2 DEF SaleInvariant, KnowsSale, NoOrder, EmptyRow, Busy
<1>4. RowConfirmed(row)
  <2>1. PICK by : row.history = <<[from |-> "none", to |-> row.status, by |-> by]>>
    BY DEF Creates
  <2> QED  BY <1>2, <2>1 DEF RowConfirmed
<1>5. KnowsSignals(d, row)
  BY <1>2, StageTransitions DEF KnowsSignals
<1>6. ~AwaitsConfirmation(row)
  BY <1>2 DEF AwaitsConfirmation
<1> QED  BY <1>1, <1>2, <1>3, <1>4, <1>5, <1>6, SignalsKept

(* One more entry in the history, which confirms rightly if it confirms.   *)
LEMMA ConfirmedMore ==
  ASSUME NEW old \in OrderRow, RowConfirmed(old), NEW row, NEW e,
         e \in HistoryEntry, row.history = Append(old.history, e),
         row.cash = old.cash, row.stockReserved = old.stockReserved,
         ~row.cash /\ e.to = "CONFIRMED" => row.stockReserved /\ e.from = "PAYMENT_APPROVED"
  PROVE  RowConfirmed(row)
<1>1. PICK n : n = Len(old.history)
  OBVIOUS
<1>2. n \in Nat /\ DOMAIN old.history = 1..n /\ old.history \in Seq(HistoryEntry)
  BY <1>1, LenProperties DEF OrderRow
<1>3. PICK more : more = row.history
  OBVIOUS
<1>4. /\ DOMAIN more = 1..(n + 1) /\ more[n + 1] = e
      /\ \A i \in 1..n : more[i] = old.history[i]
  BY <1>1, <1>2, <1>3, AppendProperties
<1>5. 1..(n + 1) = 1..n \cup {n + 1}
  BY <1>2
<1> QED  BY <1>2, <1>3, <1>4, <1>5 DEF RowConfirmed

LEMMA CommitKeepsSignals ==
  ASSUME InductiveInvariant, SignalsInvariant, "PAYMENT_APPROVED" \notin PatchTargets,
         NEW h \in Handlers, NEW d, NEW row, Commits(h, d, row)
  PROVE  SignalsInvariant'
<1>1. PICK c : c = calls[h]
  OBVIOUS
<1>2. PICK o : o = c.order
  OBVIOUS
<1>3. PICK old : old = orders[o]
  OBVIOUS
<1>4. /\ c \in Call /\ o \in Orders /\ Leaves(h, d) /\ d.order = o /\ d # IdleCall
      /\ UNCHANGED aborts /\ d.pc = "publishStatusChanged"
      /\ d.expected = c.expected /\ d.row = c.row /\ d.op = c.op
      /\ \A p \in Orders : orders'[p] = IF p = o THEN row ELSE orders[p]
      /\ old \in OrderRow
  BY <1>1, <1>2, <1>3, CallFields, IdleOwesNothing
  DEF Commits, Leaves, SameCall, InductiveInvariant, RowsOK
<1>5. PICK e : e = LastEntry(c.row)
  OBVIOUS
<1>6. /\ old.status = c.expected /\ row.status = c.row.status /\ c.expected # "none"
      /\ row.history = Append(old.history, e) /\ e \in HistoryEntry
      /\ e.to = row.status /\ e.from = old.status
      /\ row.cash = old.cash /\ row.stockReserved = old.stockReserved
      /\ CanTransition(old.status, row.status) /\ OperationFits(c)
  BY <1>1, <1>2, <1>3, <1>5 DEF Commits, CarriesTransition, CallFits
<1>7. KnowsSignals(c, old) /\ RowConfirmed(old)
  BY <1>1, <1>2, <1>3, <1>4, CallInSignals DEF SignalsInvariant
<1>8. SignalsGoOn(old, row)
  BY <1>6, StageTransitions DEF SignalsGoOn
<1>9. RowConfirmed(row)
  <2>1. ~row.cash /\ e.to = "CONFIRMED" => row.stockReserved /\ e.from = "PAYMENT_APPROVED"
    BY <1>6, <1>7 DEF KnowsSignals
  <2> QED  BY <1>4, <1>6, <1>7, <2>1, ConfirmedMore
<1>10. KnowsSignals(d, row)
  BY <1>4, <1>6, StageTransitions DEF KnowsSignals
<1>11. AwaitsConfirmation(row) => EndsWait(d)
  BY <1>4, <1>6 DEF AwaitsConfirmation, OperationFits, EndsWait
<1> QED  BY <1>1, <1>2, <1>3, <1>4, <1>8, <1>9, <1>10, <1>11, SignalsKept

LEMMA ReserveKeepsSignals ==
  ASSUME InductiveInvariant, SignalsInvariant, NEW h \in Handlers, NEW d, NEW row,
         Reserves(h, d, row)
  PROVE  SignalsInvariant'
<1>1. PICK c : c = calls[h]
  OBVIOUS
<1>2. PICK o : o = c.order
  OBVIOUS
<1>3. PICK old : old = orders[o]
  OBVIOUS
<1>4. /\ c \in Call /\ o \in Orders /\ Leaves(h, d) /\ d # IdleCall /\ SameCall(c, d)
      /\ UNCHANGED aborts /\ d.pc = "confirmIfPaid"
      /\ \A p \in Orders : orders'[p] = IF p = o THEN row ELSE orders[p]
      /\ row.status = old.status /\ row.history = old.history /\ row.cash = old.cash
      /\ old.stockReserved => row.stockReserved
  BY <1>1, <1>2, <1>3, CallFields, IdleOwesNothing
  DEF Reserves, Leaves, SameCall, InductiveInvariant, RowsOK
<1>5. KnowsSignals(c, old) /\ RowConfirmed(old)
  BY <1>1, <1>2, <1>3, <1>4, CallInSignals DEF SignalsInvariant
<1>6. SignalsGoOn(old, row)
  BY <1>4, StageTransitions DEF SignalsGoOn
<1>7. RowConfirmed(row)
  BY <1>4, <1>5 DEF RowConfirmed
<1>8. KnowsSignals(d, row)
  BY <1>4, <1>5 DEF KnowsSignals, SameCall
<1>9. EndsWait(d) /\ d.order = o /\ calls[h].order = o
  BY <1>1, <1>2, <1>4 DEF EndsWait, SameCall
<1> QED  BY <1>3, <1>4, <1>6, <1>7, <1>8, <1>9, SignalsKept

(* The steps that write or delete a whole row.                             *)
LEMMA WholeRowKeepsSignals ==
  ASSUME InductiveInvariant, SignalsInvariant, NEW h \in Handlers,
         (\E d : Saves(h, d)) \/ Deletes(h)
  PROVE  SignalsInvariant'
<1>1. PICK c : c = calls[h]
  OBVIOUS
<1>2. PICK o : o = c.order
  OBVIOUS
<1>3. PICK old : old = orders[o]
  OBVIOUS
<1>4. c \in Call /\ o \in Orders /\ KnowsSignals(c, old) /\ c.pc \in {"saveOrder", "deleteRow"}
  BY <1>1, <1>2, <1>3, CallInSignals DEF Saves, Deletes
<1>5. ASSUME NEW d, NEW row, Leaves(h, d), d = IdleCall \/ (SameCall(c, d) /\ c.expected = "none"),
             d.pc \notin {"saveOrder", "deleteRow"}, UNCHANGED aborts,
             \A p \in Orders : orders'[p] = IF p = o THEN row ELSE orders[p],
             Stage(row.status) = 5, RowConfirmed(row)
      PROVE  SignalsInvariant'
  <2>1. SignalsGoOn(old, row)
    BY <1>5, StageTransitions DEF SignalsGoOn
  <2>2. ~AwaitsConfirmation(row)
    BY <1>5, StageTransitions DEF AwaitsConfirmation
  <2>3. d # IdleCall => d.order = o /\ KnowsSignals(d, row)
    BY <1>2, <1>5 DEF SameCall, KnowsSignals
  <2> QED  BY <1>1, <1>2, <1>3, <1>4, <1>5, <2>1, <2>2, <2>3, SignalsKept
<1>6. ASSUME NEW d, Saves(h, d)
      PROVE  SignalsInvariant'
  <2>1. PICK row : row = c.row
    OBVIOUS
  <2>2. /\ Leaves(h, d) /\ (d = IdleCall \/ SameCall(c, d)) /\ UNCHANGED aborts
        /\ c.pc = "saveOrder" /\ c.expected = "none" /\ row.status \in SavedStatuses
        /\ d.pc \notin {"saveOrder", "deleteRow"}
        /\ \A p \in Orders : orders'[p] = IF p = o THEN row ELSE orders[p]
    BY <1>1, <1>2, <1>6, <2>1, IdleOwesNothing
    DEF Saves, Leaves, SameCall, InductiveInvariant, RowsOK, CallFits, PointFits
  <2>3. Stage(row.status) = 5 /\ RowConfirmed(row)
    BY <1>4, <2>1, <2>2, StageTransitions DEF KnowsSignals
  <2> QED  BY <1>5, <2>2, <2>3
<1>7. ASSUME Deletes(h)
      PROVE  SignalsInvariant'
  <2>1. PICK row : row = DeletedOrder
    OBVIOUS
  <2>2. /\ Leaves(h, IdleCall) /\ UNCHANGED aborts
        /\ \A p \in Orders : orders'[p] = IF p = o THEN row ELSE orders[p]
    BY <1>1, <1>2, <1>7, <2>1, IdleOwesNothing DEF Deletes, Leaves, InductiveInvariant, RowsOK
  <2>3. Stage(row.status) = 5 /\ RowConfirmed(row)
    BY <2>1, StageTransitions DEF DeletedOrder, EmptyRow, RowConfirmed
  <2> QED  BY <1>5, <2>2, <2>3, IdleOwesNothing
<1> QED  BY <1>6, <1>7

LEMMA SignalsInitially ==
  ASSUME Init
  PROVE  SignalsInvariant
<1>1. \A h \in Handlers : calls[h] = IdleCall
  BY DEF Init
<1>2. ASSUME NEW o \in Orders
      PROVE  RowConfirmed(orders[o]) /\ ~AwaitsConfirmation(orders[o])
  <2>1. PICK start \in StartStates : orders[o] = start.row
    BY DEF Init
  <2> QED  BY <2>1, StartSettled DEF SettledStart
<1> QED  BY <1>1, <1>2 DEF SignalsInvariant

LEMMA SignalsAreKept ==
  ASSUME {"CONFIRMED", "PAYMENT_APPROVED"} \cap PatchTargets = {},
         InductiveInvariant, CallsFit, SaleInvariant, SignalsInvariant, [Next]_vars
  PROVE  SignalsInvariant'
<1>1. CASE Rests
  <2>1. UNCHANGED <<orders, calls, aborts>>
    BY <1>1 DEF Rests
  <2> QED  BY <2>1 DEF SignalsInvariant, Busy
<1>2. ASSUME NEW h \in Handlers, HandlerSteps(h)
      PROVE  SignalsInvariant'
  BY <1>2, AdvanceKeepsSignals, ReturnKeepsSignals, StartKeepsSignals, CreateKeepsSignals,
     CommitKeepsSignals, ReserveKeepsSignals, WholeRowKeepsSignals
  DEF HandlerSteps
<1> QED  BY <1>1, <1>2, StepKinds

(* How far every order has come towards its confirmation is told truly, as *)
(* long as no PATCH asks for the two statuses that the signals lead to.    *)
THEOREM SignalsHold ==
  ASSUME {"CONFIRMED", "PAYMENT_APPROVED"} \cap PatchTargets = {}
  PROVE  Spec => []SignalsInvariant
<1>1. InductiveInvariant /\ CallsFit /\ SaleInvariant /\ SignalsInvariant /\ [Next]_vars => SignalsInvariant'
  BY SignalsAreKept
<1>2. Init => SignalsInvariant
  BY SignalsInitially
<1> QED  BY <1>1, <1>2, InvariantHolds, CallsAlwaysFit, SaleHolds, PTL DEF Spec

(* A digital order is confirmed only with both signals, whichever came     *)
(* first, and however many calls race.                                     *)
THEOREM ConfirmedWithBothSignals ==
  ASSUME {"CONFIRMED", "PAYMENT_APPROVED"} \cap PatchTargets = {}
  PROVE  Spec => []DigitalConfirmedWithStock
<1>1. SignalsInvariant => DigitalConfirmedWithStock
  BY DEF SignalsInvariant, RowConfirmed, DigitalConfirmedWithStock
<1> QED  BY <1>1, SignalsHold, PTL

(* No wake-up is lost between the payment and the reservation: an order    *)
(* that has both and waits has a call in progress that ends its wait.      *)
THEOREM NoWakeUpIsLost ==
  ASSUME {"CONFIRMED", "PAYMENT_APPROVED"} \cap PatchTargets = {}
  PROVE  Spec => []NoLostConfirmation
<1>1. SignalsInvariant => NoLostConfirmation
  BY DEF SignalsInvariant, AwaitsConfirmation, Busy, NoLostConfirmation, Quiet
<1> QED  BY <1>1, SignalsHold, PTL

-----------------------------------------------------------------------------
(* Returns.                                                                *)

(* How ORDER_TRANSITIONS moves an order that was picked up.                *)
LEMMA PickupTransitions ==
  /\ \A s, to : CanTransition(s, to) /\ s \in AfterPickup => to \in AfterPickup
  /\ \A s, to : CanTransition(s, to) /\ s \in AfterPickup /\ to \in PaidStatuses =>
       s = "RETURN_PENDING_APPROVAL"
  /\ "DELIVERED" \in AfterPickup /\ "RETURN_PENDING_APPROVAL" \notin SavedStatuses
BY DEF CanTransition, ORDER_TRANSITIONS, Statuses, AfterPickup, PaidStatuses, SavedStatuses

(* A price that was delivered stays delivered.                             *)
LEMMA MorePriced ==
  ASSUME NEW priced \in Nat, NEW more \in Nat, more >= priced
  PROVE  /\ \A row : PendingFits(row, priced) => PendingFits(row, more)
         /\ \A row : PickupFits(row, priced) => PickupFits(row, more)
         /\ \A c : KnowsReturns(c, priced) => KnowsReturns(c, more)
<1>1. \A row : PendingFits(row, priced) => PendingFits(row, more)
  BY DEF PendingFits
<1>2. priced >= 2 => more >= 2
  OBVIOUS
<1>3. \A row : PickupFits(row, priced) => PickupFits(row, more)
  BY <1>2, Zenon DEF PickupFits
<1>4. priced >= 1 => more >= 1
  OBVIOUS
<1>5. \A c : KnowsReturns(c, priced) => KnowsReturns(c, more)
  BY <1>2, <1>3, <1>4 DEF KnowsReturns
<1> QED  BY <1>1, <1>3, <1>5

(* The invariant of the returns, after a step of the call of h on order o. *)
LEMMA ReturnsKept ==
  ASSUME InductiveInvariant, InductiveInvariant', ReturnsInvariant,
         NEW h \in Handlers, NEW d, Leaves(h, d), NEW o \in Orders,
         d = IdleCall \/ d.order = o,
         \A p \in Orders : answers'[p] >= answers[p],
         NEW row, \A p \in Orders : orders'[p] = IF p = o THEN row ELSE orders[p],
         PendingFits(row, answers'[o]), PickupFits(row, answers'[o]),
         d # IdleCall => KnowsReturns(d, answers'[o])
  PROVE  ReturnsInvariant'
<1>1. calls'[h] = d /\ \A g \in Handlers \ {h} : calls'[g] = calls[g]
  BY DEF Leaves, InductiveInvariant, CallsOK
<1>2. \A g \in Handlers : calls[g] # IdleCall => calls[g].order \in Orders
  BY CallFields DEF InductiveInvariant, CallsOK
<1>3. \A p \in Orders : answers[p] \in Nat /\ answers'[p] \in Nat
  BY DEF InductiveInvariant, CountersOK
<1>4. ASSUME NEW p \in Orders
      PROVE  PendingFits(orders'[p], answers'[p]) /\ PickupFits(orders'[p], answers'[p])
  <2>1. CASE p = o
    BY <2>1
  <2>2. CASE p # o
    <3>1. PendingFits(orders[p], answers[p]) /\ PickupFits(orders[p], answers[p])
      BY DEF ReturnsInvariant
    <3>2. PendingFits(orders[p], answers'[p]) /\ PickupFits(orders[p], answers'[p])
      BY <1>3, <3>1, MorePriced
    <3> QED  BY <2>2, <3>2
  <2> QED  BY <2>1, <2>2
<1>5. ASSUME NEW g \in Handlers, calls'[g] # IdleCall
      PROVE  KnowsReturns(calls'[g], answers'[calls'[g].order])
  <2>1. CASE g = h
    BY <1>1, <1>5, <2>1
  <2>2. CASE g # h
    <3>1. calls'[g] = calls[g] /\ calls[g].order \in Orders
      BY <1>1, <1>2, <1>5, <2>2
    <3>2. KnowsReturns(calls[g], answers[calls[g].order])
      BY <1>5, <3>1 DEF ReturnsInvariant
    <3> QED  BY <1>3, <3>1, <3>2, MorePriced
  <2> QED  BY <2>1, <2>2
<1> QED  BY <1>4, <1>5 DEF ReturnsInvariant

(* A step that leaves the orders alone.                                    *)
LEMMA CallKeepsReturns ==
  ASSUME InductiveInvariant, InductiveInvariant', ReturnsInvariant,
         NEW h \in Handlers, NEW d, Leaves(h, d), NEW o \in Orders, UNCHANGED orders,
         d = IdleCall \/ d.order = o,
         \A p \in Orders : answers'[p] >= answers[p],
         d # IdleCall => KnowsReturns(d, answers'[o])
  PROVE  ReturnsInvariant'
<1>1. PICK row : row = orders[o]
  OBVIOUS
<1>2. answers[o] \in Nat /\ answers'[o] \in Nat
  BY DEF InductiveInvariant, CountersOK
<1>3. PendingFits(row, answers'[o]) /\ PickupFits(row, answers'[o])
  BY <1>1, <1>2, MorePriced DEF ReturnsInvariant
<1> QED  BY <1>1, <1>3, ReturnsKept

LEMMA CallInReturns ==
  ASSUME InductiveInvariant, ReturnsInvariant, NEW h \in Handlers, NEW c, c = calls[h], c \in Call
  PROVE  c.order \in Orders /\ c # IdleCall /\ KnowsReturns(c, answers[c.order])
BY CallFields, IdleOwesNothing DEF ReturnsInvariant, Call, Points

LEMMA AdvanceKeepsReturns ==
  ASSUME InductiveInvariant, InductiveInvariant', ReturnsInvariant, NEW h \in Handlers, NEW d,
         (\E e : Advances(h, d, e)) \/ Fails(h, d) \/ (Returns(h) /\ d = IdleCall)
  PROVE  ReturnsInvariant'
<1>1. PICK c : c = calls[h]
  OBVIOUS
<1>2. PICK o : o = c.order
  OBVIOUS
<1>3. /\ c \in Call /\ Leaves(h, d) /\ UNCHANGED orders /\ UNCHANGED answers
      /\ d = IdleCall \/ (SameCall(c, d) /\ d.pc # "saveOrder")
  <2>1. CASE \E e : Advances(h, d, e)
    BY <1>1, <2>1 DEF Advances, Moves, Leaves, SameCall
  <2>2. CASE Fails(h, d)
    BY <1>1, <2>2 DEF Fails, Leaves, SameCall
  <2>3. CASE Returns(h) /\ d = IdleCall
    BY <1>1, <2>3, IdleOwesNothing DEF Returns, Leaves
  <2> QED  BY <2>1, <2>2, <2>3
<1>4. o \in Orders /\ KnowsReturns(c, answers[o])
  BY <1>1, <1>2, <1>3, CallInReturns
<1>5. d # IdleCall => d.order = o /\ KnowsReturns(d, answers'[o])
  BY <1>2, <1>3, <1>4 DEF SameCall, KnowsReturns
<1>6. \A p \in Orders : answers'[p] >= answers[p]
  BY <1>3 DEF InductiveInvariant, CountersOK
<1> QED  BY <1>1, <1>2, <1>3, <1>4, <1>5, <1>6, CallKeepsReturns

LEMMA StartKeepsReturns ==
  ASSUME InductiveInvariant, InductiveInvariant', ReturnsInvariant,
         NEW h \in Handlers, NEW d, Starts(h, d)
  PROVE  ReturnsInvariant'
<1>1. PICK o : o = d.order
  OBVIOUS
<1>2. PICK row : row = orders[o]
  OBVIOUS
<1>3. /\ d \in Call /\ o \in Orders /\ Snapshot(d) /\ Leaves(h, d) /\ UNCHANGED orders
      /\ \A p \in Orders : answers'[p] >= answers[p]
      /\ d.op = "applyReturnPriced" => answers'[o] >= answers[o] + 1
  BY <1>1, CallFields DEF Starts, Leaves
<1>4. answers[o] \in Nat /\ answers'[o] \in Nat
  BY <1>3 DEF InductiveInvariant, CountersOK
<1>5. PendingFits(row, answers[o]) /\ PickupFits(row, answers'[o])
  BY <1>2, <1>3, <1>4, MorePriced DEF ReturnsInvariant
<1>6. d.pc = "saveOrder" => PickupFits(d.row, answers'[o])
  BY <1>1, <1>2, <1>3, <1>5, Zenon DEF Snapshot, PickupFits, Reached
<1>7. d.expected = "RETURN_PENDING_APPROVAL" => row.status = "RETURN_PENDING_APPROVAL"
  BY <1>1, <1>2, <1>3 DEF Snapshot
<1>8. d.op = "applyReturnPriced" =>
        answers'[o] >= 1 /\ (d.expected = "RETURN_PENDING_APPROVAL" => answers'[o] >= 2)
  BY <1>3, <1>4, <1>5, <1>7 DEF PendingFits
<1>9. KnowsReturns(d, answers'[o])
  BY <1>6, <1>8 DEF KnowsReturns
<1> QED  BY <1>1, <1>3, <1>9, CallKeepsReturns

LEMMA CreateKeepsReturns ==
  ASSUME InductiveInvariant, InductiveInvariant', ReturnsInvariant,
         NEW h \in Handlers, NEW d, NEW row, Creates(h, d, row)
  PROVE  ReturnsInvariant'
<1>1. PICK o : o = d.order
  OBVIOUS
<1>2. /\ d \in Call /\ o \in Orders /\ Leaves(h, d) /\ UNCHANGED answers
      /\ d.pc = "publishCartCreated" /\ d.op # "applyReturnPriced"
      /\ row.status \in {"DRAFT", "CREATED"}
      /\ \A p \in Orders : orders'[p] = IF p = o THEN row ELSE orders[p]
  BY <1>1, CallFields DEF Creates, Leaves, InductiveInvariant, RowsOK
<1>3. PICK e, by : row.history = <<e>> /\ e = [from |-> "none", to |-> row.status, by |-> by]
  BY DEF Creates
<1>4. e.to \notin PaidStatuses /\ ~Reached(row, "DELIVERED")
  BY <1>2, <1>3 DEF PaidStatuses, Reached
<1>5. DOMAIN row.history = {1} /\ row.history[1] = e
  BY <1>3
<1>6. PickupFits(row, answers'[o])
  BY <1>4, <1>5 DEF PickupFits
<1>7. PendingFits(row, answers'[o])
  BY <1>2 DEF PendingFits
<1>8. KnowsReturns(d, answers'[o])
  BY <1>2 DEF KnowsReturns
<1>9. \A p \in Orders : answers'[p] >= answers[p]
  BY <1>2 DEF InductiveInvariant, CountersOK
<1> QED  BY <1>1, <1>2, <1>6, <1>7, <1>8, <1>9, ReturnsKept

(* One more entry in the history of an order that was, or was not, picked  *)
(* up.                                                                     *)
LEMMA PickupMore ==
  ASSUME NEW old \in OrderRow, NEW priced, PickupFits(old, priced), NEW row, NEW e,
         e \in HistoryEntry, row.history = Append(old.history, e),
         Reached(row, "DELIVERED") => row.status \in AfterPickup,
         e.by = "applyReturnPriced" /\ e.to \in PaidStatuses /\ Reached(old, "DELIVERED") =>
           e.from = "RETURN_PENDING_APPROVAL" /\ priced >= 2
  PROVE  PickupFits(row, priced) /\ LastEntry(row) = e
<1>1. PICK n : n = Len(old.history)
  OBVIOUS
<1>2. n \in Nat /\ DOMAIN old.history = 1..n /\ old.history \in Seq(HistoryEntry)
  BY <1>1, LenProperties DEF OrderRow
<1>3. PICK more : more = row.history
  OBVIOUS
<1>4. /\ DOMAIN more = 1..(n + 1) /\ more[n + 1] = e /\ Len(more) = n + 1
      /\ \A i \in 1..n : more[i] = old.history[i]
  BY <1>1, <1>2, <1>3, AppendProperties
<1>5. ASSUME NEW i \in 1..(n + 1), more[i].by = "applyReturnPriced", more[i].to \in PaidStatuses,
             NEW j \in 1..(i - 1), more[j].to = "DELIVERED"
      PROVE  more[i].from = "RETURN_PENDING_APPROVAL" /\ priced >= 2
  <2>1. j \in 1..n /\ more[j] = old.history[j]
    BY <1>2, <1>4, <1>5
  <2>2. CASE i = n + 1
    <3>1. Reached(old, "DELIVERED")
      BY <1>2, <1>5, <2>1 DEF Reached
    <3> QED  BY <1>4, <1>5, <2>2, <3>1
  <2>3. CASE i \in 1..n
    <3>1. more[i] = old.history[i] /\ i \in DOMAIN old.history
      BY <1>2, <1>4, <2>3
    <3> QED  BY <1>5, <2>1, <3>1, Zenon DEF PickupFits
  <2>4. i = n + 1 \/ i \in 1..n
    BY <1>2
  <2> QED  BY <2>2, <2>3, <2>4
<1>6. PickupFits(row, priced)
  BY <1>3, <1>4, <1>5, Zenon DEF PickupFits
<1> QED  BY <1>3, <1>4, <1>6 DEF LastEntry

LEMMA CommitKeepsReturns ==
  ASSUME InductiveInvariant, InductiveInvariant', ReturnsInvariant,
         "RETURN_PENDING_APPROVAL" \notin PatchTargets,
         NEW h \in Handlers, NEW d, NEW row, Commits(h, d, row)
  PROVE  ReturnsInvariant'
<1>1. PICK c : c = calls[h]
  OBVIOUS
<1>2. PICK o : o = c.order
  OBVIOUS
<1>3. PICK old : old = orders[o]
  OBVIOUS
<1>4. /\ c \in Call /\ o \in Orders /\ Leaves(h, d) /\ d.order = o
      /\ UNCHANGED answers /\ d.pc = "publishStatusChanged"
      /\ d.expected = c.expected /\ d.op = c.op
      /\ \A p \in Orders : orders'[p] = IF p = o THEN row ELSE orders[p]
      /\ old \in OrderRow
  BY <1>1, <1>2, <1>3, CallFields DEF Commits, Leaves, SameCall, InductiveInvariant, RowsOK
<1>5. PICK e : e = LastEntry(c.row)
  OBVIOUS
<1>6. /\ old.status = c.expected /\ row.status = c.row.status /\ row.pending = c.row.pending
      /\ row.history = Append(old.history, e) /\ e \in HistoryEntry
      /\ e.to = row.status /\ e.from = old.status /\ e.by = c.op
      /\ CanTransition(old.status, row.status) /\ OperationFits(c)
  BY <1>1, <1>2, <1>3, <1>5 DEF Commits, CarriesTransition, CallFits, OperationFits
<1>7. PICK priced : priced = answers[o]
  OBVIOUS
<1>8. /\ KnowsReturns(c, priced) /\ PickupFits(old, priced)
      /\ answers'[o] = priced
  BY <1>1, <1>2, <1>3, <1>4, <1>7, CallInReturns DEF ReturnsInvariant
<1>9. Reached(row, "DELIVERED") => row.status \in AfterPickup
  <2>1. Reached(row, "DELIVERED") <=> Reached(old, "DELIVERED") \/ e.to = "DELIVERED"
    BY <1>4, <1>6, ReachedMore
  <2>2. Reached(old, "DELIVERED") => old.status \in AfterPickup
    BY <1>8 DEF PickupFits
  <2> QED  BY <1>6, <2>1, <2>2, PickupTransitions
<1>10. ASSUME e.by = "applyReturnPriced", e.to \in PaidStatuses, Reached(old, "DELIVERED")
       PROVE  e.from = "RETURN_PENDING_APPROVAL" /\ priced >= 2
  <2>1. old.status \in AfterPickup
    BY <1>8, <1>10 DEF PickupFits
  <2>2. old.status = "RETURN_PENDING_APPROVAL"
    BY <1>6, <1>10, <2>1, PickupTransitions
  <2> QED  BY <1>6, <1>8, <1>10, <2>2 DEF KnowsReturns
<1>11. PickupFits(row, priced) /\ LastEntry(row) = e
  BY <1>4, <1>6, <1>8, <1>9, <1>10, PickupMore
<1>12. PendingFits(row, priced)
  BY <1>6, <1>8, <1>11 DEF PendingFits, OperationFits, KnowsReturns
<1>13. KnowsReturns(d, priced)
  BY <1>4, <1>8 DEF KnowsReturns
<1>14. \A p \in Orders : answers'[p] >= answers[p]
  BY <1>4 DEF InductiveInvariant, CountersOK
<1> QED  BY <1>4, <1>8, <1>11, <1>12, <1>13, <1>14, ReturnsKept

LEMMA ReserveKeepsReturns ==
  ASSUME InductiveInvariant, InductiveInvariant', ReturnsInvariant,
         NEW h \in Handlers, NEW d, NEW row, Reserves(h, d, row)
  PROVE  ReturnsInvariant'
<1>1. PICK c : c = calls[h]
  OBVIOUS
<1>2. PICK o : o = c.order
  OBVIOUS
<1>3. PICK old : old = orders[o]
  OBVIOUS
<1>4. /\ c \in Call /\ o \in Orders /\ Leaves(h, d) /\ SameCall(c, d)
      /\ UNCHANGED answers /\ d.pc = "confirmIfPaid"
      /\ \A p \in Orders : orders'[p] = IF p = o THEN row ELSE orders[p]
      /\ row.status = old.status /\ row.history = old.history /\ row.pending = old.pending
  BY <1>1, <1>2, <1>3, CallFields DEF Reserves, Leaves, SameCall, InductiveInvariant, RowsOK
<1>5. /\ KnowsReturns(c, answers[o]) /\ PendingFits(old, answers[o]) /\ PickupFits(old, answers[o])
  BY <1>1, <1>2, <1>3, <1>4, CallInReturns DEF ReturnsInvariant
<1>6. PendingFits(row, answers'[o])
  BY <1>4, <1>5 DEF PendingFits, LastEntry
<1>7. PickupFits(row, answers'[o])
  BY <1>4, <1>5, Zenon DEF PickupFits, Reached
<1>8. d.order = o /\ KnowsReturns(d, answers'[o])
  BY <1>2, <1>4, <1>5 DEF KnowsReturns, SameCall
<1>9. \A p \in Orders : answers'[p] >= answers[p]
  BY <1>4 DEF InductiveInvariant, CountersOK
<1> QED  BY <1>4, <1>6, <1>7, <1>8, <1>9, ReturnsKept

(* The steps that write or delete a whole row.                             *)
LEMMA WholeRowKeepsReturns ==
  ASSUME InductiveInvariant, InductiveInvariant', ReturnsInvariant, NEW h \in Handlers,
         (\E d : Saves(h, d)) \/ Deletes(h)
  PROVE  ReturnsInvariant'
<1>1. PICK c : c = calls[h]
  OBVIOUS
<1>2. PICK o : o = c.order
  OBVIOUS
<1>3. c \in Call /\ o \in Orders /\ KnowsReturns(c, answers[o])
  BY <1>1, <1>2, CallInReturns DEF Saves, Deletes
<1>4. ASSUME NEW d, Saves(h, d)
      PROVE  ReturnsInvariant'
  <2>1. PICK row : row = c.row
    OBVIOUS
  <2>2. /\ Leaves(h, d) /\ (d = IdleCall \/ SameCall(c, d)) /\ UNCHANGED answers
        /\ c.pc = "saveOrder" /\ row.status \in SavedStatuses /\ d.pc # "saveOrder"
        /\ \A p \in Orders : orders'[p] = IF p = o THEN row ELSE orders[p]
    BY <1>1, <1>2, <1>4, <2>1, IdleOwesNothing
    DEF Saves, Leaves, SameCall, InductiveInvariant, RowsOK, CallFits, PointFits
  <2>3. PickupFits(row, answers'[o]) /\ PendingFits(row, answers'[o])
    BY <1>3, <2>1, <2>2, PickupTransitions DEF KnowsReturns, PendingFits
  <2>4. d # IdleCall => d.order = o /\ KnowsReturns(d, answers'[o])
    BY <1>2, <1>3, <2>2 DEF SameCall, KnowsReturns
  <2>5. \A p \in Orders : answers'[p] >= answers[p]
    BY <2>2 DEF InductiveInvariant, CountersOK
  <2> QED  BY <1>3, <2>2, <2>3, <2>4, <2>5, ReturnsKept
<1>5. ASSUME Deletes(h)
      PROVE  ReturnsInvariant'
  <2>1. PICK row : row = DeletedOrder
    OBVIOUS
  <2>2. /\ Leaves(h, IdleCall) /\ UNCHANGED answers
        /\ \A p \in Orders : orders'[p] = IF p = o THEN row ELSE orders[p]
    BY <1>1, <1>2, <1>5, <2>1, IdleOwesNothing DEF Deletes, Leaves, InductiveInvariant, RowsOK
  <2>3. row.status = "deleted" /\ row.history = <<>>
    BY <2>1 DEF DeletedOrder, EmptyRow
  <2>4. ~Reached(row, "DELIVERED") /\ PendingFits(row, answers'[o])
    BY <2>3 DEF Reached, PendingFits
  <2>5. PickupFits(row, answers'[o])
    BY <2>3, <2>4 DEF PickupFits
  <2>6. \A p \in Orders : answers'[p] >= answers[p]
    BY <2>2 DEF InductiveInvariant, CountersOK
  <2> QED  BY <1>3, <2>2, <2>4, <2>5, <2>6, ReturnsKept
<1> QED  BY <1>4, <1>5

LEMMA ReturnsInitially ==
  ASSUME Init
  PROVE  ReturnsInvariant
<1>1. \A h \in Handlers : calls[h] = IdleCall
  BY DEF Init
<1>2. ASSUME NEW o \in Orders
      PROVE  PendingFits(orders[o], answers[o]) /\ PickupFits(orders[o], answers[o])
  <2>1. PICK start \in StartStates : orders[o] = start.row /\ answers[o] = 0
    BY DEF Init
  <2> QED  BY <2>1, StartSettled DEF SettledStart
<1> QED  BY <1>1, <1>2 DEF ReturnsInvariant

LEMMA ReturnsAreKept ==
  ASSUME "RETURN_PENDING_APPROVAL" \notin PatchTargets,
         InductiveInvariant, InductiveInvariant', CallsFit, ReturnsInvariant, [Next]_vars
  PROVE  ReturnsInvariant'
<1>1. CASE Rests
  <2>1. UNCHANGED <<orders, calls>> /\ \A o \in Orders : answers'[o] >= answers[o]
    BY <1>1 DEF Rests
  <2>2. \A p \in Orders : answers[p] \in Nat /\ answers'[p] \in Nat
    BY DEF InductiveInvariant, CountersOK
  <2>3. \A p \in Orders : PendingFits(orders[p], answers'[p]) /\ PickupFits(orders[p], answers'[p])
    BY <2>1, <2>2, MorePriced DEF ReturnsInvariant
  <2>4. ASSUME NEW h \in Handlers, calls[h] # IdleCall
        PROVE  KnowsReturns(calls[h], answers'[calls[h].order])
    <3>1. calls[h].order \in Orders /\ KnowsReturns(calls[h], answers[calls[h].order])
      BY <2>4, CallFields DEF InductiveInvariant, CallsOK, ReturnsInvariant
    <3> QED  BY <2>1, <2>2, <3>1, MorePriced
  <2> QED  BY <2>1, <2>3, <2>4 DEF ReturnsInvariant
<1>2. ASSUME NEW h \in Handlers, HandlerSteps(h)
      PROVE  ReturnsInvariant'
  BY <1>2, AdvanceKeepsReturns, StartKeepsReturns, CreateKeepsReturns, CommitKeepsReturns,
     ReserveKeepsReturns, WholeRowKeepsReturns
  DEF HandlerSteps
<1> QED  BY <1>1, <1>2, StepKinds

(* The returns of every order are told truly, as long as no PATCH puts an  *)
(* order among those that wait for the store.                              *)
THEOREM ReturnsHold ==
  ASSUME "RETURN_PENDING_APPROVAL" \notin PatchTargets
  PROVE  Spec => []ReturnsInvariant
<1>1. InductiveInvariant /\ InductiveInvariant' /\ CallsFit /\ ReturnsInvariant /\ [Next]_vars => ReturnsInvariant'
  BY ReturnsAreKept
<1>2. Init => ReturnsInvariant
  BY ReturnsInitially
<1> QED  BY <1>1, <1>2, InvariantHolds, CallsAlwaysFit, PTL DEF Spec

(* An order that waits for the store holds the amount to refund and the    *)
(* status to go back to.                                                   *)
THEOREM PendingReturnsAreRecorded ==
  ASSUME "RETURN_PENDING_APPROVAL" \notin PatchTargets
  PROVE  Spec => []PendingReturnRecorded
<1>1. ReturnsInvariant => PendingReturnRecorded
  BY DEF ReturnsInvariant, PendingFits, PendingReturnRecorded
<1> QED  BY <1>1, ReturnsHold, PTL

(* No price is applied behind the back of the store to an order that was   *)
(* picked up.                                                              *)
THEOREM ReturnsAfterPickupWait ==
  ASSUME "RETURN_PENDING_APPROVAL" \notin PatchTargets
  PROVE  Spec => []PickedUpReturnsWait
<1>1. ReturnsInvariant => PickedUpReturnsWait
  <2>1. SUFFICES ASSUME ReturnsInvariant, NEW o \in Orders, NEW i \in DOMAIN orders[o].history,
                        orders[o].history[i].by = "applyReturnPriced",
                        orders[o].history[i].to \in {"RETURNED", "PARTIALLY_RETURNED"},
                        NEW j \in 1..(i - 1), orders[o].history[j].to = "DELIVERED"
                 PROVE  orders[o].history[i].from = "RETURN_PENDING_APPROVAL" /\ answers[o] >= 2
    BY DEF PickedUpReturnsWait
  <2>2. PickupFits(orders[o], answers[o])
    BY <2>1 DEF ReturnsInvariant
  <2> QED  BY <2>1, <2>2, Zenon DEF PickupFits, PaidStatuses
<1> QED  BY <1>1, ReturnsHold, PTL

-----------------------------------------------------------------------------
(* Announcements: what the steps do to the debts of an order.              *)

LEMMA DebtKinds ==
  ASSUME InductiveInvariant, NEW h \in Handlers, HandlerSteps(h),
         NEW o \in Orders, NEW key \in DebtKeys
  PROVE  DebtKept(o, key) \/ DebtTold(o, key) \/ DebtDropped(o, key) \/ DebtIncurred(o, key)
<1>1. ASSUME NEW d, NEW e, Advances(h, d, e)
      PROVE  DebtKept(o, key) \/ DebtTold(o, key)
  BY <1>1, AdvanceDebts
<1>2. ASSUME NEW d, Fails(h, d)
      PROVE  DebtKept(o, key) \/ DebtDropped(o, key)
  BY <1>2, FailDebts
<1>3. ASSUME NEW d, NEW row, Commits(h, d, row)
      PROVE  DebtKept(o, key) \/ DebtIncurred(o, key)
  BY <1>3, CommitDebts DEF DebtIncurred
<1> QED  BY <1>1, <1>2, <1>3, OtherDebts DEF HandlerSteps

LEMMA RestDebts ==
  ASSUME Rests, NEW o, NEW key
  PROVE  DebtKept(o, key)
BY DEF Rests, DebtKept, EventsOf, Owing

(* The calls that owe one announcement are finitely many, even if the      *)
(* handlers are not.                                                       *)
LEMMA DebtsStayFinite ==
  ASSUME InductiveInvariant, CallsFit, DebtsFinite, [Next]_vars
  PROVE  DebtsFinite'
<1>1. SUFFICES ASSUME NEW o \in Orders, NEW key \in DebtKeys
               PROVE  IsFiniteSet(Owing(o, key)')
  BY DEF DebtsFinite
<1>2. IsFiniteSet(Owing(o, key))
  BY DEF DebtsFinite
<1>3. DebtKept(o, key) \/ DebtTold(o, key) \/ DebtDropped(o, key) \/ DebtIncurred(o, key)
  BY StepKinds, DebtKinds, RestDebts
<1>4. PICK O, P : O = Owing(o, key) /\ P = Owing(o, key)'
  OBVIOUS
<1>5. \/ P = O \/ (\E h : P = O \ {h}) \/ (\E h : P = O \cup {h})
  BY <1>3, <1>4 DEF DebtKept, DebtTold, DebtDropped, DebtIncurred
<1> QED  BY <1>2, <1>4, <1>5, FS_AddElement, FS_RemoveElement

LEMMA DebtsAlwaysFinite == Spec => []DebtsFinite
<1>1. ASSUME Init
      PROVE  DebtsFinite
  <2>1. \A o \in Orders, key \in DebtKeys : Owing(o, key) = {}
    BY <1>1, IdleOwesNothing DEF Init, Owing
  <2> QED  BY <2>1, FS_EmptySet DEF DebtsFinite
<1>2. InductiveInvariant /\ CallsFit /\ DebtsFinite /\ [Next]_vars => DebtsFinite'
  BY DebtsStayFinite
<1> QED  BY <1>1, <1>2, InvariantHolds, CallsAlwaysFit, PTL DEF Spec

(* The announcements made or owed, counted.                                *)
LEMMA HandMoves ==
  ASSUME InductiveInvariant, DebtsFinite, NEW o \in Orders, NEW key \in DebtKeys
  PROVE  /\ InHand(o, key) \in Nat
         /\ Cardinality(EventsOf(o, key)) \in Nat
         /\ Cardinality(Owing(o, key)) \in Nat
         /\ DebtKept(o, key) => InHand(o, key)' = InHand(o, key)
         /\ DebtTold(o, key) => InHand(o, key)' = InHand(o, key)
         /\ DebtDropped(o, key) => InHand(o, key)' \in Nat /\ InHand(o, key)' <= InHand(o, key)
         /\ DebtIncurred(o, key) => InHand(o, key)' = InHand(o, key) + 1
<1>1. PICK E, O : E = EventsOf(o, key) /\ O = Owing(o, key)
  OBVIOUS
<1>2. PICK F, P : F = EventsOf(o, key)' /\ P = Owing(o, key)'
  OBVIOUS
<1>3. IsFiniteSet(E) /\ IsFiniteSet(O)
  <2>1. outbox[o] \in Seq(Event)
    BY DEF InductiveInvariant, OutboxOK
  <2>2. E = EventsIn(outbox[o], key)
    BY <1>1 DEF EventsOf, EventsIn
  <2> QED  BY <1>1, <2>1, <2>2, EventsFinite DEF DebtsFinite
<1>4. Cardinality(E) \in Nat /\ Cardinality(O) \in Nat
  BY <1>3, FS_CardinalityType
<1>5. InHand(o, key) = Cardinality(E) + Cardinality(O) /\ InHand(o, key)' = Cardinality(F) + Cardinality(P)
  BY <1>1, <1>2 DEF InHand
<1>6. ASSUME DebtTold(o, key)
      PROVE  InHand(o, key)' = InHand(o, key)
  <2>1. PICK h, i : h \in O /\ P = O \ {h} /\ i \notin E /\ F = E \cup {i}
    BY <1>1, <1>2, <1>6 DEF DebtTold
  <2>2. Cardinality(F) = Cardinality(E) + 1
    BY <1>3, <2>1, FS_AddElement
  <2>3. Cardinality(P) = Cardinality(O) - 1
    BY <1>3, <2>1, FS_RemoveElement
  <2> QED  BY <1>4, <1>5, <2>2, <2>3
<1>7. ASSUME DebtDropped(o, key)
      PROVE  InHand(o, key)' \in Nat /\ InHand(o, key)' <= InHand(o, key)
  <2>1. PICK h : F = E /\ P = O \ {h}
    BY <1>1, <1>2, <1>7 DEF DebtDropped
  <2>2. Cardinality(P) = IF h \in O THEN Cardinality(O) - 1 ELSE Cardinality(O)
    BY <1>3, <2>1, FS_RemoveElement
  <2>3. Cardinality(P) \in Nat
    <3>1. IsFiniteSet(P)
      BY <1>3, <2>1, FS_RemoveElement
    <3> QED  BY <3>1, FS_CardinalityType
  <2> QED  BY <1>4, <1>5, <2>1, <2>2, <2>3
<1>8. ASSUME DebtIncurred(o, key)
      PROVE  InHand(o, key)' = InHand(o, key) + 1
  <2>1. PICK h : F = E /\ h \notin O /\ P = O \cup {h}
    BY <1>1, <1>2, <1>8 DEF DebtIncurred
  <2>2. Cardinality(P) = Cardinality(O) + 1
    BY <1>3, <2>1, FS_AddElement
  <2> QED  BY <1>4, <1>5, <2>1, <2>2
<1>9. ASSUME DebtKept(o, key)
      PROVE  InHand(o, key)' = InHand(o, key)
  <2>1. F = E /\ P = O
    BY <1>1, <1>2, <1>9 DEF DebtKept
  <2> QED  BY <1>5, <2>1
<1> QED  BY <1>1, <1>4, <1>5, <1>6, <1>7, <1>8, <1>9

LEMMA RefundsMove ==
  ASSUME InductiveInvariant, DebtsFinite, NEW o \in Orders, NEW key, key = "order.return.confirmed"
  PROVE  /\ RefundsInHand(o) \in Nat
         /\ Cardinality(EventsOf(o, key)) \in Nat
         /\ Cardinality(Owing(o, key)) \in Nat
         /\ DebtKept(o, key) => RefundsInHand(o)' = RefundsInHand(o)
         /\ DebtTold(o, key) => RefundsInHand(o)' = RefundsInHand(o)
         /\ DebtDropped(o, key) => RefundsInHand(o)' \in Nat /\ RefundsInHand(o)' <= RefundsInHand(o)
         /\ DebtIncurred(o, key) => RefundsInHand(o)' = RefundsInHand(o) + 1
<1>1. key \in DebtKeys
  BY DebtCases
<1>2. RefundsInHand(o) = InHand(o, key) /\ RefundsInHand(o)' = InHand(o, key)'
  BY DEF RefundsInHand
<1> QED  BY <1>1, <1>2, HandMoves

\* The entry e pays, and counts.
Pays(e) == e.to \in PaidStatuses /\ e.by \in PayingOps
OneMorePaid(history, more, e) ==
  /\ Pays(e) => Cardinality(PayingIn(more)) = Cardinality(PayingIn(history)) + 1
  /\ ~Pays(e) => PayingIn(more) = PayingIn(history)

LEMMA PayingMore ==
  ASSUME NEW history \in Seq(HistoryEntry), NEW e \in HistoryEntry,
         NEW more, more = Append(history, e)
  PROVE  OneMorePaid(history, more, e)
<1>1. PICK n : n = Len(history)
  OBVIOUS
<1>2. n \in Nat /\ DOMAIN history = 1..n
  BY <1>1, LenProperties
<1>3. /\ DOMAIN more = 1..(n + 1) /\ more[n + 1] = e
      /\ \A i \in 1..n : more[i] = history[i]
  BY <1>1, <1>2, AppendProperties
<1>4. 1..(n + 1) = 1..n \cup {n + 1} /\ n + 1 \notin 1..n
  BY <1>2
<1>5. CASE ~Pays(e)
  <2>1. PayingIn(more) = PayingIn(history)
    BY <1>2, <1>3, <1>4, <1>5 DEF PayingIn, Pays
  <2> QED  BY <1>5, <2>1 DEF OneMorePaid
<1>6. CASE Pays(e)
  <2>1. PayingIn(more) = PayingIn(history) \cup {n + 1}
    BY <1>2, <1>3, <1>4, <1>6 DEF PayingIn, Pays
  <2>2. n + 1 \notin PayingIn(history) /\ PayingIn(history) \subseteq 1..n
    BY <1>2, <1>4 DEF PayingIn
  <2>3. IsFiniteSet(PayingIn(history))
    BY PayingFinite
  <2>4. Cardinality(PayingIn(more)) = Cardinality(PayingIn(history)) + 1
    BY <2>1, <2>2, <2>3, FS_AddElement
  <2> QED  BY <1>6, <2>4 DEF OneMorePaid
<1> QED  BY <1>5, <1>6

(* A history that has just begun, or is gone, pays nothing.                *)
LEMMA NothingPaid ==
  /\ Cardinality(PayingIn(<<>>)) = 0
  /\ \A e : e.to \in {"DRAFT", "CREATED"} => Cardinality(PayingIn(<<e>>)) = 0
<1>1. PayingIn(<<>>) = {}
  BY DEF PayingIn
<1>2. ASSUME NEW e, e.to \in {"DRAFT", "CREATED"}
      PROVE  PayingIn(<<e>>) = {}
  BY <1>2 DEF PayingIn, PaidStatuses
<1>3. ASSUME NEW e, e.to \in {"DRAFT", "CREATED"}
      PROVE  Cardinality(PayingIn(<<e>>)) = 0
  BY <1>2, <1>3, FS_EmptySet
<1> QED  BY <1>1, <1>3, FS_EmptySet

-----------------------------------------------------------------------------
(* Announcements: once for each row of the order.                          *)

LEMMA OnceKeyCases ==
  /\ OnceKeys = {"order.order.confirmed", "order.order.ready_for_pickup", "order.order.cancelled"}
  /\ OnceKeys \subseteq DebtKeys /\ "order.return.confirmed" \in DebtKeys
  /\ Telling["order.order.confirmed"] = {"CONFIRMED"}
  /\ Telling["order.order.ready_for_pickup"] = {"READY_FOR_PICKUP"}
  /\ Telling["order.order.cancelled"] = {"CANCELLED", "FAILED"}
  /\ Past["order.order.confirmed"] = SoldStatuses \cup GoneStatuses
  /\ Past["order.order.ready_for_pickup"] = {"READY_FOR_PICKUP"} \cup AfterPickup \cup GoneStatuses
  /\ Past["order.order.cancelled"] = GoneStatuses
  /\ GoneStatuses = {"CANCELLED", "FAILED", "deleted"}
BY DEF GoneStatuses, OnceKeys, Telling, Past, DebtKeys, DebtPoints, STOCK_RELEASING_STATUSES

(* What is past stays past, and is incurred by those who come from before. *)
LEMMA PastTransitions ==
  ASSUME NEW s, NEW to, CanTransition(s, to), NEW key \in OnceKeys
  PROVE  /\ s \in Past[key] => to \in Past[key]
         /\ to \in Telling[key] => to \in Past[key]
         /\ to \in Telling[key] => s \notin Past[key] \/ (key = "order.order.cancelled" /\ s = "FAILED")
<1>1. s \in Statuses /\ to \in ORDER_TRANSITIONS[s]
  BY DEF CanTransition
<1>2. CASE key = "order.order.confirmed"
  BY <1>1, <1>2, OnceKeyCases DEF ORDER_TRANSITIONS, Statuses, SoldStatuses
<1>3. CASE key = "order.order.ready_for_pickup"
  BY <1>1, <1>3, OnceKeyCases DEF ORDER_TRANSITIONS, Statuses, AfterPickup
<1>4. CASE key = "order.order.cancelled"
  BY <1>1, <1>4, OnceKeyCases DEF ORDER_TRANSITIONS, Statuses
<1> QED  BY <1>2, <1>3, <1>4, OnceKeyCases

LEMMA NoneIsBefore ==
  \A key \in OnceKeys : "none" \notin Past[key] /\ "deleted" \in Past[key]
BY OnceKeyCases DEF SoldStatuses, AfterPickup

(* A transition calls for an event when its status does, but for the       *)
(* second release of the stock.                                            *)
LEMMA TellingIncurs ==
  ASSUME NEW c, c.expected # "none", NEW key \in OnceKeys
  PROVE  /\ Incurs(c, key) => c.row.status \in Telling[key]
         /\ c.row.status \in Telling[key] => \/ Incurs(c, key)
                                             \/ /\ key = "order.order.cancelled"
                                                /\ c.expected \in {"CANCELLED", "FAILED"}
         /\ Incurs(c, key) /\ key = "order.order.cancelled" => c.expected \notin {"CANCELLED", "FAILED"}
BY OnceKeyCases, IncurCases

\* The bound of OnceAtMost after a step, in the values that the step leaves.
LEMMA OnceAfter ==
  ASSUME NEW o \in Orders, NEW key \in OnceKeys,
         NEW n, n = InHand(o, key)', NEW gone, gone = removed'[o].rows,
         NEW s, s = orders'[o].status,
         n <= gone + (IF s \in Past[key] /\ s # "deleted" THEN 1 ELSE 0)
  PROVE  OnceAtMost(o, key)'
BY DEF OnceAtMost

LEMMA OnceBefore ==
  ASSUME InductiveInvariant, NEW o \in Orders, NEW key \in OnceKeys, OnceAtMost(o, key)
  PROVE  /\ removed[o].rows \in Nat
         /\ InHand(o, key) <=
              removed[o].rows + (IF orders[o].status \in Past[key] /\ orders[o].status # "deleted"
                                 THEN 1 ELSE 0)
BY DEF OnceAtMost, InductiveInvariant, CountersOK, Removed

(* The announcements of one order, when its status does not go back.       *)
LEMMA OnceKept ==
  ASSUME InductiveInvariant, DebtsFinite,
         NEW o \in Orders, NEW key \in OnceKeys, OnceAtMost(o, key),
         DebtKept(o, key) \/ DebtTold(o, key) \/ DebtDropped(o, key),
         removed'[o] = removed[o],
         orders[o].status \in Past[key] /\ orders[o].status # "deleted" =>
           orders'[o].status \in Past[key] /\ orders'[o].status # "deleted"
  PROVE  OnceAtMost(o, key)'
<1>1. PICK n, m : n = InHand(o, key) /\ m = InHand(o, key)'
  OBVIOUS
<1>2. n \in Nat /\ m \in Nat /\ m <= n
  <2>1. key \in DebtKeys
    BY OnceKeyCases
  <2> QED  BY <1>1, <2>1, HandMoves
<1>3. PICK s, t, gone : s = orders[o].status /\ t = orders'[o].status /\ gone = removed[o].rows
  OBVIOUS
<1>4. gone \in Nat /\ n <= gone + (IF s \in Past[key] /\ s # "deleted" THEN 1 ELSE 0)
  BY <1>1, <1>3, OnceBefore
<1>5. m <= gone + (IF t \in Past[key] /\ t # "deleted" THEN 1 ELSE 0)
  BY <1>2, <1>3, <1>4
<1>6. gone = removed'[o].rows
  BY <1>3
<1> QED  BY <1>1, <1>3, <1>5, <1>6, OnceAfter

LEMMA OnceIncurred ==
  ASSUME InductiveInvariant, DebtsFinite,
         NEW o \in Orders, NEW key \in OnceKeys, OnceAtMost(o, key), DebtIncurred(o, key),
         removed'[o] = removed[o], orders[o].status \notin Past[key],
         orders'[o].status \in Past[key], orders'[o].status # "deleted"
  PROVE  OnceAtMost(o, key)'
<1>1. PICK n, m : n = InHand(o, key) /\ m = InHand(o, key)'
  OBVIOUS
<1>2. n \in Nat /\ m = n + 1
  <2>1. key \in DebtKeys
    BY OnceKeyCases
  <2> QED  BY <1>1, <2>1, HandMoves
<1>3. PICK s, t, gone : s = orders[o].status /\ t = orders'[o].status /\ gone = removed[o].rows
  OBVIOUS
<1>4. gone \in Nat /\ n <= gone
  BY <1>1, <1>3, OnceBefore
<1>5. m <= gone + (IF t \in Past[key] /\ t # "deleted" THEN 1 ELSE 0)
  BY <1>2, <1>3, <1>4
<1>6. gone = removed'[o].rows
  BY <1>3
<1> QED  BY <1>1, <1>3, <1>5, <1>6, OnceAfter

(* A row that is deleted leaves room for another one.                      *)
LEMMA OnceDeleted ==
  ASSUME InductiveInvariant, DebtsFinite,
         NEW o \in Orders, NEW key \in OnceKeys, OnceAtMost(o, key), DebtKept(o, key),
         IF Stored(o) THEN Remove(o) ELSE UNCHANGED removed
  PROVE  OnceAtMost(o, key)'
<1>1. PICK n : n = InHand(o, key)
  OBVIOUS
<1>2. n \in Nat /\ n = InHand(o, key)'
  <2>1. key \in DebtKeys
    BY OnceKeyCases
  <2> QED  BY <1>1, <2>1, HandMoves
<1>3. PICK s, t, gone : s = orders[o].status /\ t = orders'[o].status /\ gone = removed[o].rows
  OBVIOUS
<1>4. gone \in Nat /\ n <= gone + (IF s \in Past[key] /\ s # "deleted" THEN 1 ELSE 0)
  BY <1>1, <1>3, OnceBefore
<1>5. PICK more : more = removed'[o].rows
  OBVIOUS
<1>6. more \in Nat /\ n <= more
  <2>1. CASE Stored(o)
    <3>1. more = gone + 1
      BY <1>3, <1>5, <2>1 DEF Remove, InductiveInvariant, CountersOK
    <3> QED  BY <1>2, <1>4, <3>1
  <2>2. CASE ~Stored(o)
    <3>1. s \notin Past[key] \/ s = "deleted"
      <4>1. orders[o] \in OrderRow
        BY DEF InductiveInvariant, RowsOK
      <4>2. s = "none" \/ s = "deleted"
        BY <1>3, <2>2, <4>1 DEF Stored, OrderRow
      <4> QED  BY <4>2, NoneIsBefore
    <3>2. more = gone
      BY <1>3, <1>5, <2>2
    <3> QED  BY <1>4, <3>1, <3>2
  <2> QED  BY <2>1, <2>2
<1>7. n <= more + (IF t \in Past[key] /\ t # "deleted" THEN 1 ELSE 0)
  BY <1>2, <1>6
<1> QED  BY <1>2, <1>3, <1>5, <1>7, OnceAfter

\* The status and the history of this order stay.
StoryKept(o) == orders'[o].status = orders[o].status /\ orders'[o].history = orders[o].history

\* A snapshot of a deleted order is inserted again.
Revives(h, o) ==
  /\ \E d : Saves(h, d)
  /\ o = calls[h].order /\ orders[o].status = "deleted"
  /\ orders[o] = DeletedOrder \/ orders[o].history = orders'[o].history
  /\ orders'[o].status # "deleted"

\* The row of this order is deleted.
Deleted(h, o) ==
  /\ Deletes(h) /\ o = calls[h].order /\ orders[o].status # "none" /\ orders'[o] = DeletedOrder
  /\ IF Stored(o) THEN Remove(o) ELSE UNCHANGED removed

LEMMA DeletesOrder ==
  ASSUME InductiveInvariant, SaleInvariant, NEW h \in Handlers, Deletes(h),
         NEW o \in Orders, o = calls[h].order
  PROVE  Deleted(h, o)
<1>1. PICK c : c = calls[h]
  OBVIOUS
<1>2. c \in Call /\ orders[c.order].status # "none"
  BY <1>1, CallInSale DEF Deletes, KnowsSale
<1>3. orders'[o] = DeletedOrder
  BY DEF Deletes, InductiveInvariant, RowsOK
<1> QED  BY <1>1, <1>2, <1>3 DEF Deletes, Deleted

(* Only a creation, a transition, its deletion or the save of a stale      *)
(* snapshot of a deleted order touches the story of an order.              *)
LEMMA StoriesKept ==
  ASSUME InductiveInvariant, SaleInvariant,
         NEW h \in Handlers, HandlerSteps(h), NEW o \in Orders
  PROVE  \/ StoryKept(o)
         \/ \E d, row : Creates(h, d, row) /\ o = d.order /\ orders'[o] = row
         \/ \E d, row : Commits(h, d, row) /\ o = calls[h].order /\ orders'[o] = row
         \/ Revives(h, o)
         \/ Deleted(h, o)
<1>1. orders[o] \in OrderRow /\ DOMAIN orders = Orders
  BY DEF InductiveInvariant, RowsOK
<1>2. CASE UNCHANGED orders
  BY <1>2 DEF StoryKept
<1>3. ASSUME NEW d, NEW row, Creates(h, d, row)
      PROVE  StoryKept(o) \/ (o = d.order /\ orders'[o] = row)
  BY <1>1, <1>3 DEF Creates, StoryKept
<1>4. ASSUME NEW d, NEW row, Commits(h, d, row)
      PROVE  StoryKept(o) \/ (o = calls[h].order /\ orders'[o] = row)
  BY <1>1, <1>4 DEF Commits, StoryKept
<1>5. ASSUME NEW d, NEW row, Reserves(h, d, row)
      PROVE  StoryKept(o)
  BY <1>1, <1>5 DEF Reserves, StoryKept
<1>6. ASSUME NEW d, Saves(h, d)
      PROVE  StoryKept(o) \/ Revives(h, o)
  <2>1. PICK c : c = calls[h]
    OBVIOUS
  <2>2. PICK p : p = c.order
    OBVIOUS
  <2>3. PICK old : old = orders[p]
    OBVIOUS
  <2>4. /\ c \in Call /\ p \in Orders /\ KnowsSale(c, old, Len(chats[p]))
        /\ c.row.status \in Statuses /\ LegalStory(c.row)
        /\ old = DeletedOrder \/ old.history = c.row.history
        /\ orders'[o] = IF o = p THEN c.row ELSE orders[o]
    BY <1>1, <1>6, <2>1, <2>2, <2>3, CallInSale DEF Saves, CallLegal, CallFits, PointFits
  <2>5. old \in OrderRow /\ old.status # "none"
    BY <2>3, <2>4 DEF InductiveInvariant, RowsOK, KnowsSale
  <2>6. CASE o = p /\ old.status = "deleted"
    <3>1. c.row.status # "deleted"
      BY <2>4, SaleStatuses
    <3> QED  BY <1>6, <2>1, <2>2, <2>3, <2>4, <2>6, <3>1 DEF Revives
  <2>7. CASE old.status # "deleted"
    <3>1. old.status \in Statuses /\ old.history = c.row.history
      BY <2>4, <2>5, <2>7 DEF OrderRow, DeletedOrder, EmptyRow
    <3>2. LastEntry(old).to = old.status /\ LastEntry(c.row).to = c.row.status
      BY <2>3, <2>4, <3>1, RowAt DEF InductiveInvariant, LegalStory
    <3> QED  BY <2>3, <2>4, <3>1, <3>2 DEF StoryKept, LastEntry
  <2>8. CASE o # p
    BY <2>4, <2>8 DEF StoryKept
  <2> QED  BY <2>6, <2>7, <2>8
<1>7. ASSUME NEW d, NEW e, Advances(h, d, e)
      PROVE  UNCHANGED orders
  BY <1>7 DEF Advances
<1>8. ASSUME NEW d, Starts(h, d) \/ Fails(h, d)
      PROVE  UNCHANGED orders
  BY <1>8 DEF Starts, Fails
<1>9. Returns(h) => UNCHANGED orders
  BY DEF Returns
<1>10. CASE Deletes(h)
  <2>1. CASE o = calls[h].order
    BY <1>10, <2>1, DeletesOrder
  <2>2. CASE o # calls[h].order
    BY <1>1, <1>10, <2>2 DEF Deletes, StoryKept
  <2> QED  BY <2>1, <2>2
<1> QED  BY <1>2, <1>3, <1>4, <1>5, <1>6, <1>7, <1>8, <1>9, <1>10 DEF HandlerSteps

(* Only a deletion changes what was removed, and only of its order.        *)
LEMMA RemovedKept ==
  ASSUME InductiveInvariant, NEW h \in Handlers, HandlerSteps(h), NEW o \in Orders
  PROVE  removed'[o] = removed[o] \/ (Deletes(h) /\ o = calls[h].order)
<1>1. CASE Deletes(h)
  <2>1. PICK p : p = calls[h].order
    OBVIOUS
  <2>2. removed' = removed \/ Remove(p)
    BY <1>1, <2>1 DEF Deletes
  <2>3. o # p => removed'[o] = removed[o]
    BY <2>2 DEF Remove, InductiveInvariant, CountersOK
  <2> QED  BY <1>1, <2>1, <2>3
<1>2. CASE (\E d, e : Advances(h, d, e)) \/ (\E d : Starts(h, d) \/ Saves(h, d) \/ Fails(h, d))
  BY <1>2 DEF Advances, Starts, Saves, Fails
<1>3. CASE (\E d, row : Creates(h, d, row) \/ Commits(h, d, row) \/ Reserves(h, d, row)) \/ Returns(h)
  BY <1>3 DEF Creates, Commits, Reserves, Returns
<1> QED  BY <1>1, <1>2, <1>3 DEF HandlerSteps

\* The transition of a commit, on the order that it changes.
LEMMA CommitFacts ==
  ASSUME InductiveInvariant, NEW h \in Handlers, NEW d, NEW row, Commits(h, d, row),
         NEW c, c = calls[h], NEW o, o = c.order, NEW old, old = orders[o],
         NEW e, e = LastEntry(c.row)
  PROVE  /\ o \in Orders /\ old \in OrderRow /\ old.status = c.expected /\ c.expected # "none"
         /\ row.status = c.row.status /\ CanTransition(old.status, row.status)
         /\ row.history = Append(old.history, e) /\ e \in HistoryEntry
         /\ old.history \in Seq(HistoryEntry)
         /\ e.to = row.status /\ e.by = c.op /\ orders'[o] = row
         /\ old.status \in Statuses => LegalStory(old)
         /\ UNCHANGED aborts
         /\ Pays(e) <=> Incurs(c, "order.return.confirmed")
<1>1. c \in Call /\ o \in Orders
  BY CallFields DEF Commits
<1>2. old \in OrderRow /\ old.history \in Seq(HistoryEntry)
  BY <1>1, RowFields DEF InductiveInvariant, RowsOK
<1>3. /\ old.status = c.expected /\ c.expected # "none" /\ row.status = c.row.status
      /\ row.history = Append(old.history, e) /\ e \in HistoryEntry
      /\ e.to = row.status /\ CanTransition(old.status, row.status) /\ e.by = c.op
  BY DEF Commits, CarriesTransition, CallFits, OperationFits
<1>4. orders'[o] = row /\ UNCHANGED aborts
  BY <1>1 DEF Commits, InductiveInvariant, RowsOK
<1>5. Pays(e) <=> Incurs(c, "order.return.confirmed")
  BY <1>3, IncurCases DEF Pays, PaidStatuses, PayingOps
<1>6. old.status \in Statuses => LegalStory(old)
  BY <1>1, RowAt DEF InductiveInvariant
<1> QED  BY <1>1, <1>2, <1>3, <1>4, <1>5, <1>6

LEMMA NothingIsRemoved ==
  ASSUME InductiveInvariant, CallsFit, SaleInvariant, NothingRemoved, [Next]_vars
  PROVE  NothingRemoved'
<1>1. SUFFICES ASSUME "deleteOrder" \notin Ops, NEW o \in Orders
               PROVE  removed'[o].rows = 0 /\ orders'[o].status # "deleted"
  BY DEF NothingRemoved
<1>2. removed[o].rows = 0 /\ orders[o].status # "deleted"
  BY <1>1 DEF NothingRemoved
<1>3. CASE Rests
  BY <1>2, <1>3 DEF Rests
<1>4. ASSUME NEW h \in Handlers, HandlerSteps(h)
      PROVE  removed'[o].rows = 0 /\ orders'[o].status # "deleted"
  <2>1. ~Deletes(h)
    BY <1>1 DEF Deletes
  <2>2. removed'[o] = removed[o]
    BY <1>4, <2>1, RemovedKept
  <2>3. CASE StoryKept(o)
    BY <1>2, <2>2, <2>3 DEF StoryKept
  <2>4. ASSUME NEW d, NEW row, Creates(h, d, row), orders'[o] = row
        PROVE  orders'[o].status # "deleted"
    BY <2>4 DEF Creates
  <2>5. ASSUME NEW d, NEW row, Commits(h, d, row), orders'[o] = row
        PROVE  orders'[o].status # "deleted"
    BY <2>5, SaleTransitions, SaleStatuses DEF Commits, CarriesTransition
  <2>6. Revives(h, o) => orders'[o].status # "deleted"
    BY DEF Revives
  <2>7. ~Deleted(h, o)
    BY <2>1 DEF Deleted
  <2> QED  BY <1>2, <1>4, <2>2, <2>3, <2>4, <2>5, <2>6, <2>7, StoriesKept
<1> QED  BY <1>3, <1>4, StepKinds

LEMMA OnceStaysOnce ==
  ASSUME InductiveInvariant, CallsFit, SaleInvariant, DebtsFinite, EverythingOnce, [Next]_vars
  PROVE  EverythingOnce'
<1>1. SUFFICES ASSUME NEW o \in Orders, NEW key \in OnceKeys
               PROVE  OnceAtMost(o, key)'
  BY DEF EverythingOnce
<1>2. OnceAtMost(o, key) /\ key \in DebtKeys
  BY OnceKeyCases DEF EverythingOnce
<1>3. CASE Rests
  <2>1. orders'[o].status = orders[o].status /\ removed'[o] = removed[o]
    BY <1>3 DEF Rests
  <2> QED  BY <1>2, <1>3, <2>1, RestDebts, OnceKept
<1>4. ASSUME NEW h \in Handlers, HandlerSteps(h)
      PROVE  OnceAtMost(o, key)'
  <2>1. ASSUME NEW d, NEW row, Creates(h, d, row), o = d.order
        PROVE  OnceAtMost(o, key)'
    <3>1. orders[o].status = "none"
      BY <2>1 DEF Creates, NoOrder, EmptyRow
    <3>2. orders[o].status \notin Past[key]
      BY <3>1, NoneIsBefore
    <3>3. removed'[o] = removed[o] /\ DebtKept(o, key)
      BY <1>2, <2>1, OtherDebts DEF Creates
    <3> QED  BY <1>2, <3>2, <3>3, OnceKept
  <2>2. ASSUME NEW d, NEW row, Commits(h, d, row), o = calls[h].order
        PROVE  OnceAtMost(o, key)'
    <3>1. PICK c : c = calls[h]
      OBVIOUS
    <3>2. PICK e : e = LastEntry(c.row)
      OBVIOUS
    <3>3. /\ orders[o].status = c.expected /\ c.expected # "none" /\ row.status = c.row.status
          /\ CanTransition(orders[o].status, row.status) /\ orders'[o] = row
      BY <2>2, <3>1, <3>2, CommitFacts
    <3>4. removed'[o] = removed[o] /\ orders'[o].status # "deleted"
      BY <2>2, <3>3, SaleTransitions, SaleStatuses DEF Commits
    <3>5. CASE ~Incurs(c, key)
      <4>1. DebtKept(o, key)
        BY <1>2, <2>2, <3>1, <3>5, CommitDebts
      <4>2. orders[o].status \in Past[key] => orders'[o].status \in Past[key]
        BY <3>3, PastTransitions
      <4> QED  BY <1>2, <3>4, <4>1, <4>2, OnceKept
    <3>6. CASE Incurs(c, key)
      <4>1. DebtIncurred(o, key)
        BY <1>2, <2>2, <3>1, <3>6, CommitDebts DEF DebtIncurred
      <4>2. orders[o].status \notin Past[key] /\ orders'[o].status \in Past[key]
        BY <3>3, <3>6, PastTransitions, TellingIncurs
      <4> QED  BY <1>2, <3>4, <4>1, <4>2, OnceIncurred
    <3> QED  BY <3>5, <3>6
  <2>3. CASE StoryKept(o) /\ ~Deletes(h)
    <3>1. orders'[o].status = orders[o].status /\ removed'[o] = removed[o]
      BY <1>4, <2>3, RemovedKept DEF StoryKept
    <3>2. CASE DebtIncurred(o, key)
      <4>1. \E d, row : Commits(h, d, row) /\ o = calls[h].order
        <5>1. ~DebtKept(o, key) /\ ~DebtTold(o, key) /\ ~DebtDropped(o, key)
          BY <3>2 DEF DebtKept, DebtTold, DebtDropped, DebtIncurred
        <5> QED  BY <1>2, <1>4, <5>1, AdvanceDebts, FailDebts, OtherDebts, CommitDebts DEF HandlerSteps
      <4> QED  BY <2>2, <4>1
    <3>3. CASE ~DebtIncurred(o, key)
      <4>1. DebtKept(o, key) \/ DebtTold(o, key) \/ DebtDropped(o, key)
        BY <1>2, <1>4, <3>3, DebtKinds
      <4> QED  BY <1>2, <3>1, <4>1, OnceKept
    <3> QED  BY <3>2, <3>3
  <2>4. CASE Revives(h, o)
    <3>1. DebtKept(o, key) /\ removed'[o] = removed[o]
      BY <1>2, <2>4, OtherDebts DEF Revives, Saves
    <3>2. orders[o].status = "deleted"
      BY <2>4 DEF Revives
    <3> QED  BY <1>2, <3>1, <3>2, OnceKept
  <2>5. CASE Deletes(h) /\ o = calls[h].order
    <3>1. DebtKept(o, key)
      BY <1>2, <2>5, OtherDebts
    <3>2. IF Stored(o) THEN Remove(o) ELSE UNCHANGED removed
      BY <2>5 DEF Deletes
    <3> QED  BY <1>2, <3>1, <3>2, OnceDeleted
  <2>6. CASE Deletes(h) /\ o # calls[h].order
    <3>1. DebtKept(o, key) /\ removed'[o] = removed[o]
      BY <1>2, <1>4, <2>6, OtherDebts, RemovedKept
    <3>2. orders'[o] = orders[o]
      BY <2>6 DEF Deletes, InductiveInvariant, RowsOK
    <3> QED  BY <1>2, <3>1, <3>2, OnceKept
  <2>7. Deleted(h, o) => Deletes(h)
    BY DEF Deleted
  <2> QED  BY <1>4, <2>1, <2>2, <2>3, <2>4, <2>5, <2>6, <2>7, StoriesKept
<1> QED  BY <1>3, <1>4, StepKinds

(* The refunds and the returns that the history records, after a commit.   *)
LEMMA CommitPays ==
  ASSUME InductiveInvariant, DebtsFinite, NEW h \in Handlers, NEW d, NEW row, Commits(h, d, row),
         NEW o, o = calls[h].order
  PROVE  /\ Cardinality(PayingIn(orders[o].history)) \in Nat
         /\ Cardinality(PayingIn(row.history)) \in Nat
         /\ \/ /\ RefundsInHand(o)' = RefundsInHand(o)
               /\ Cardinality(PayingIn(row.history)) = Cardinality(PayingIn(orders[o].history))
            \/ /\ RefundsInHand(o)' = RefundsInHand(o) + 1
               /\ Cardinality(PayingIn(row.history)) = Cardinality(PayingIn(orders[o].history)) + 1
<1>1. PICK c, e : c = calls[h] /\ e = LastEntry(c.row)
  OBVIOUS
<1>2. PICK old : old = orders[o]
  OBVIOUS
<1>3. /\ o \in Orders /\ old.history \in Seq(HistoryEntry) /\ e \in HistoryEntry
      /\ row.history = Append(old.history, e)
      /\ Pays(e) <=> Incurs(c, "order.return.confirmed")
  BY <1>1, <1>2, CommitFacts
<1>4. PICK history, more : history = old.history /\ more = row.history
  OBVIOUS
<1>5. OneMorePaid(history, more, e) /\ history \in Seq(HistoryEntry)
  BY <1>3, <1>4, PayingMore
<1>6. more \in Seq(HistoryEntry)
  BY <1>3, <1>4, <1>5, AppendProperties
<1>7. Cardinality(PayingIn(history)) \in Nat /\ Cardinality(PayingIn(more)) \in Nat
  BY <1>5, <1>6, PayingFinite
<1>8. "order.return.confirmed" \in DebtKeys
  BY OnceKeyCases
<1>9. CASE Pays(e)
  <2>1. DebtIncurred(o, "order.return.confirmed")
    BY <1>1, <1>3, <1>8, <1>9, CommitDebts DEF DebtIncurred
  <2>2. RefundsInHand(o)' = RefundsInHand(o) + 1
    BY <1>3, <2>1, RefundsMove
  <2> QED  BY <1>2, <1>4, <1>5, <1>7, <1>9, <2>2 DEF OneMorePaid
<1>10. CASE ~Pays(e)
  <2>1. DebtKept(o, "order.return.confirmed")
    BY <1>1, <1>3, <1>8, <1>10, CommitDebts
  <2>2. RefundsInHand(o)' = RefundsInHand(o)
    BY <1>3, <2>1, RefundsMove
  <2> QED  BY <1>2, <1>4, <1>5, <1>7, <1>10, <2>2 DEF OneMorePaid
<1> QED  BY <1>9, <1>10

\* The bound of RefundsCovered after a step, in the values that the step leaves.
LEMMA RefundsAfter ==
  ASSUME NEW o \in Orders, NEW n, n = RefundsInHand(o)',
         NEW history, history = orders'[o].history, NEW gone, gone = removed'[o].returns,
         n <= Cardinality(PayingIn(history)) + gone
  PROVE  RefundsInHand(o)' <= Cardinality(PayingIn(orders[o].history))' + removed'[o].returns
OBVIOUS

LEMMA RefundsStayCovered ==
  ASSUME InductiveInvariant, CallsFit, SaleInvariant, DebtsFinite, RefundsCovered, [Next]_vars
  PROVE  RefundsCovered'
<1>1. SUFFICES ASSUME NEW o \in Orders
               PROVE  /\ RefundsInHand(o)' <=
                           Cardinality(PayingIn(orders[o].history))' + removed'[o].returns
                      /\ orders'[o].status = "deleted" => orders'[o].history = <<>>
  BY DEF RefundsCovered
<1> DEFINE Covered == RefundsInHand(o)' <=
                        Cardinality(PayingIn(orders[o].history))' + removed'[o].returns
           Empty == orders'[o].status = "deleted" => orders'[o].history = <<>>
<1>2. PICK n, m, gone, paid, key :
        /\ n = RefundsInHand(o) /\ m = RefundsInHand(o)' /\ gone = removed[o].returns
        /\ paid = Cardinality(PayingIn(orders[o].history)) /\ key = "order.return.confirmed"
  OBVIOUS
<1>3. /\ n \in Nat /\ gone \in Nat /\ paid \in Nat /\ n <= paid + gone /\ key \in DebtKeys
      /\ orders[o].status = "deleted" => orders[o].history = <<>>
  <2>1. orders[o].history \in Seq(HistoryEntry)
    BY RowFields DEF InductiveInvariant, RowsOK
  <2>2. paid \in Nat
    BY <1>2, <2>1, PayingFinite
  <2>3. gone \in Nat
    BY <1>2 DEF InductiveInvariant, CountersOK, Removed
  <2>4. n \in Nat /\ key \in DebtKeys
    BY <1>2, RefundsMove, OnceKeyCases
  <2>5. n <= paid + gone /\ (orders[o].status = "deleted" => orders[o].history = <<>>)
    BY <1>2 DEF RefundsCovered
  <2> QED  BY <2>2, <2>3, <2>4, <2>5
<1>4. ASSUME StoryKept(o), m \in Nat, m <= n, removed'[o] = removed[o]
      PROVE  Covered /\ Empty
  <2>1. orders'[o].history = orders[o].history /\ orders'[o].status = orders[o].status
    BY <1>4 DEF StoryKept
  <2>2. PICK history : history = orders[o].history /\ history = orders'[o].history
    BY <2>1
  <2>3. m <= Cardinality(PayingIn(history)) + gone
    BY <1>2, <1>3, <1>4, <2>2
  <2>4. gone = removed'[o].returns
    BY <1>2, <1>4
  <2>5. Covered
    BY <1>2, <2>2, <2>3, <2>4, RefundsAfter
  <2> QED  BY <1>3, <2>1, <2>5
<1>5. CASE Rests
  <2>1. StoryKept(o) /\ removed'[o] = removed[o]
    BY <1>5 DEF Rests, StoryKept
  <2>2. m = n
    BY <1>2, <1>5, RestDebts, RefundsMove
  <2> QED  BY <1>3, <1>4, <2>1, <2>2
<1>6. ASSUME NEW h \in Handlers, HandlerSteps(h)
      PROVE  Covered /\ Empty
  <2>1. ASSUME NEW d, NEW row, Commits(h, d, row), o = calls[h].order, orders'[o] = row
        PROVE  Covered /\ Empty
    <3>1. row.status # "deleted" /\ gone = removed'[o].returns
      BY <1>2, <2>1, SaleTransitions, SaleStatuses DEF Commits, CarriesTransition
    <3>2. PICK history : history = row.history
      OBVIOUS
    <3>3. /\ Cardinality(PayingIn(history)) \in Nat
          /\ \/ m = n /\ Cardinality(PayingIn(history)) = paid
             \/ m = n + 1 /\ Cardinality(PayingIn(history)) = paid + 1
      BY <1>2, <2>1, <3>2, CommitPays
    <3>4. m <= Cardinality(PayingIn(history)) + gone
      BY <1>3, <3>3
    <3>5. Covered
      BY <1>2, <2>1, <3>1, <3>2, <3>4, RefundsAfter
    <3> QED  BY <2>1, <3>1, <3>5
  <2>2. ASSUME NEW d, NEW row, Creates(h, d, row), o = d.order, orders'[o] = row
        PROVE  Covered /\ Empty
    <3>1. m = n
      BY <1>2, <1>3, <2>2, OtherDebts, RefundsMove
    <3>2. PICK e, by : row.history = <<e>> /\ e = [from |-> "none", to |-> row.status, by |-> by]
      BY <2>2 DEF Creates
    <3>3. e.to \in {"DRAFT", "CREATED"} /\ row.status # "deleted"
      BY <2>2, <3>2 DEF Creates
    <3>4. PICK history : history = row.history
      OBVIOUS
    <3>5. Cardinality(PayingIn(history)) = 0
      BY <3>2, <3>3, <3>4, NothingPaid
    <3>6. orders[o].history = <<>> /\ gone = removed'[o].returns
      BY <1>2, <2>2 DEF Creates, NoOrder, EmptyRow
    <3>7. paid = 0
      BY <1>2, <3>6, NothingPaid
    <3>8. Covered
      BY <1>2, <1>3, <2>2, <3>1, <3>4, <3>5, <3>6, <3>7, RefundsAfter
    <3> QED  BY <2>2, <3>3, <3>8
  <2>3. CASE Deletes(h)
    <3>1. m = n
      BY <1>2, <1>3, <2>3, OtherDebts, RefundsMove
    <3>2. CASE Deleted(h, o)
      <4>1. PICK history : history = orders'[o].history
        OBVIOUS
      <4>2. history = <<>>
        BY <3>2, <4>1 DEF Deleted, DeletedOrder, EmptyRow
      <4>3. Cardinality(PayingIn(history)) = 0
        BY <4>2, NothingPaid
      <4>4. PICK more : more = removed'[o].returns
        OBVIOUS
      <4>5. CASE Stored(o)
        <5>1. more = gone + paid
          BY <1>2, <3>2, <4>4, <4>5 DEF Deleted, Remove, InductiveInvariant, CountersOK
        <5> QED  BY <1>2, <1>3, <3>1, <4>1, <4>2, <4>3, <4>4, <5>1, RefundsAfter
      <4>6. CASE ~Stored(o)
        <5>1. orders[o] \in OrderRow
          BY DEF InductiveInvariant, RowsOK
        <5>2. orders[o].status = "deleted"
          BY <3>2, <4>6, <5>1 DEF Deleted, Stored, OrderRow
        <5>3. paid = 0
          BY <1>2, <1>3, <5>2, NothingPaid
        <5>4. more = gone
          BY <1>2, <3>2, <4>4, <4>6 DEF Deleted
        <5> QED  BY <1>2, <1>3, <3>1, <4>1, <4>2, <4>3, <4>4, <5>3, <5>4, RefundsAfter
      <4> QED  BY <4>5, <4>6
    <3>3. CASE o # calls[h].order
      <4>1. orders'[o] = orders[o]
        BY <2>3, <3>3 DEF Deletes, InductiveInvariant, RowsOK
      <4>2. StoryKept(o) /\ removed'[o] = removed[o]
        BY <1>6, <3>3, <4>1, RemovedKept DEF StoryKept
      <4> QED  BY <1>3, <1>4, <3>1, <4>2
    <3>4. o = calls[h].order => Deleted(h, o)
      BY <2>3, DeletesOrder
    <3> QED  BY <3>2, <3>3, <3>4
  <2>4. CASE Revives(h, o)
    <3>1. m = n
      BY <1>2, <1>3, <2>4, OtherDebts, RefundsMove DEF Revives
    <3>2. orders'[o].status # "deleted" /\ removed'[o] = removed[o]
      BY <2>4 DEF Revives, Saves
    <3>3. paid = 0
      BY <1>2, <1>3, <2>4, NothingPaid DEF Revives
    <3>4. PICK history : history = orders'[o].history
      OBVIOUS
    <3>5. Cardinality(PayingIn(history)) \in Nat
      <4>1. PICK d : Saves(h, d) /\ o = calls[h].order
        BY <2>4 DEF Revives
      <4>2. calls[h] \in Call /\ orders'[o] = calls[h].row
        BY <4>1 DEF Saves, InductiveInvariant, RowsOK
      <4>3. history \in Seq(HistoryEntry)
        BY <3>4, <4>2, CallFields, RowFields
      <4> QED  BY <4>3, PayingFinite
    <3>6. m <= Cardinality(PayingIn(history)) + gone
      BY <1>3, <3>1, <3>3, <3>5
    <3>7. gone = removed'[o].returns
      BY <1>2, <3>2
    <3>8. Covered
      BY <1>2, <3>4, <3>6, <3>7, RefundsAfter
    <3> QED  BY <3>2, <3>8
  <2>5. CASE StoryKept(o) /\ ~Deletes(h) /\ ~ \E d, row : Commits(h, d, row) /\ o = calls[h].order
    <3>1. DebtKept(o, key) \/ DebtTold(o, key) \/ DebtDropped(o, key)
      BY <1>3, <1>6, <2>5, AdvanceDebts, FailDebts, OtherDebts, CommitDebts DEF HandlerSteps
    <3>2. m \in Nat /\ m <= n
      BY <1>2, <1>3, <3>1, RefundsMove
    <3>3. removed'[o] = removed[o]
      BY <1>6, <2>5, RemovedKept
    <3> QED  BY <1>4, <2>5, <3>2, <3>3
  <2>6. \A d, row : Commits(h, d, row) /\ o = calls[h].order => orders'[o] = row
    BY DEF Commits, InductiveInvariant, RowsOK
  <2>7. Deleted(h, o) => Deletes(h)
    BY DEF Deleted
  <2> QED  BY <1>6, <2>1, <2>2, <2>3, <2>4, <2>5, <2>6, <2>7, StoriesKept
<1> QED  BY <1>5, <1>6, StepKinds

LEMMA SettledInitially ==
  ASSUME Init
  PROVE  NothingRemoved /\ EverythingOnce /\ RefundsCovered /\ EverythingTold
<1>1. \A h \in Handlers : calls[h] = IdleCall
  BY DEF Init
<1>2. \A o, key : Owing(o, key) = {}
  BY <1>1, IdleOwesNothing DEF Owing
<1>3. ASSUME NEW o \in Orders
      PROVE  /\ orders[o].status # "deleted" /\ \A key \in OnceKeys : OnceAtMost(o, key)
             /\ removed[o].rows = 0 /\ removed[o].returns = 0
             /\ RefundsInHand(o) = Cardinality(PayingIn(orders[o].history))
             /\ AllTold(o, orders[o].history)
  <2>1. PICK start \in StartStates : orders[o] = start.row /\ outbox[o] = start.outbox
    BY <1>3 DEF Init
  <2>2. SettledStart(start)
    BY <2>1, StartSettled
  <2>3. \A key : EventsOf(o, key) = EventsIn(start.outbox, key)
    BY <2>1 DEF EventsOf, EventsIn
  <2>4. orders[o].status # "deleted"
    BY <2>1, <2>2 DEF SettledStart
  <2>5. removed[o].rows = 0 /\ removed[o].returns = 0
    BY <1>3 DEF Init
  <2>6. ASSUME NEW key \in OnceKeys
        PROVE  OnceAtMost(o, key)
    <3>1. PICK E : E = EventsOf(o, key)
      OBVIOUS
    <3>2. (\A i, j \in E : i = j) /\ (E # {} => orders[o].status \in Past[key])
      BY <2>1, <2>2, <2>3, <3>1 DEF SettledStart
    <3>3. Cardinality({}) = 0 /\ InHand(o, key) = Cardinality(E) + 0
      BY <1>2, <3>1, FS_EmptySet DEF InHand
    <3>4. CASE E = {}
      BY <2>5, <3>3, <3>4 DEF OnceAtMost
    <3>5. CASE E # {}
      <4>1. PICK i : E = {i}
        BY <3>2, <3>5
      <4>2. Cardinality(E) = 1
        BY <4>1, FS_Singleton
      <4> QED  BY <2>4, <2>5, <3>2, <3>3, <3>5, <4>2 DEF OnceAtMost
    <3> QED  BY <3>4, <3>5
  <2>7. Cardinality(EventsOf(o, "order.return.confirmed")) = Cardinality(PayingIn(orders[o].history))
    BY <2>1, <2>2, <2>3 DEF SettledStart
  <2>8. Cardinality(PayingIn(orders[o].history)) \in Nat
    <3>1. orders[o].history \in Seq(HistoryEntry)
      BY <1>3, InitOK, RowFields DEF InductiveInvariant, RowsOK
    <3> QED  BY <3>1, PayingFinite
  <2>9. RefundsInHand(o) = Cardinality(PayingIn(orders[o].history))
    BY <1>2, <2>7, <2>8, FS_EmptySet DEF RefundsInHand, InHand
  <2>10. \A key \in OnceKeys : \A i \in DOMAIN orders[o].history :
          orders[o].history[i].to \in Telling[key] => EventsOf(o, key) # {} \/ Owing(o, key) # {}
    BY <2>1, <2>2, <2>3 DEF SettledStart
  <2> QED  BY <2>4, <2>5, <2>6, <2>8, <2>9, <2>10 DEF AllTold
<1>4. \A h \in Handlers : calls[h].pc # "saveOrder"
  BY <1>1, IdleOwesNothing
<1>5. ASSUME NEW o \in Orders
      PROVE  RefundsInHand(o) <= Cardinality(PayingIn(orders[o].history)) + removed[o].returns
  <2>1. Cardinality(PayingIn(orders[o].history)) \in Nat
    <3>1. orders[o].history \in Seq(HistoryEntry)
      BY <1>5, InitOK, RowFields DEF InductiveInvariant, RowsOK
    <3> QED  BY <3>1, PayingFinite
  <2> QED  BY <1>3, <2>1
<1>6. NothingRemoved /\ EverythingOnce
  BY <1>3 DEF NothingRemoved, EverythingOnce
<1>7. RefundsCovered
  BY <1>3, <1>5 DEF RefundsCovered
<1> QED  BY <1>3, <1>4, <1>6, <1>7 DEF EverythingTold

-----------------------------------------------------------------------------
(* Announcements: none is missing, as long as no call was lost.            *)

\* What this history says is told after the step.
ToldAfter(o, history) ==
  /\ \A key \in OnceKeys : \A i \in DOMAIN history :
       history[i].to \in Telling[key] => EventsOf(o, key)' # {} \/ Owing(o, key)' # {}
  /\ RefundsInHand(o)' >= Cardinality(PayingIn(history))

(* No debt is dropped without a call being lost.                           *)
LEMMA NoneDropped ==
  ASSUME InductiveInvariant, CallsFit, [Next]_vars, aborts' = 0
  PROVE  /\ aborts = 0
         /\ \A o \in Orders : \A key \in DebtKeys :
              DebtKept(o, key) \/ DebtTold(o, key) \/ DebtIncurred(o, key)
<1>1. CASE Rests
  BY <1>1, RestDebts DEF Rests
<1>2. ASSUME NEW h \in Handlers, HandlerSteps(h)
      PROVE  /\ aborts = 0
             /\ \A o \in Orders : \A key \in DebtKeys :
                  DebtKept(o, key) \/ DebtTold(o, key) \/ DebtIncurred(o, key)
  <2>1. ~ \E d : Fails(h, d)
    BY DEF Fails, InductiveInvariant, CountersOK
  <2>2. ASSUME NEW d, NEW e, Advances(h, d, e)
        PROVE  UNCHANGED aborts
    BY <2>2 DEF Advances
  <2>3. ASSUME NEW d, Starts(h, d) \/ Saves(h, d)
        PROVE  UNCHANGED aborts
    BY <2>3 DEF Starts, Saves
  <2>4. ASSUME NEW d, NEW row, Creates(h, d, row) \/ Commits(h, d, row) \/ Reserves(h, d, row)
        PROVE  UNCHANGED aborts
    BY <2>4 DEF Creates, Commits, Reserves
  <2>5. Returns(h) \/ Deletes(h) => UNCHANGED aborts
    BY DEF Returns, Deletes
  <2>6. aborts = 0
    BY <1>2, <2>1, <2>2, <2>3, <2>4, <2>5 DEF HandlerSteps
  <2>7. ASSUME NEW o \in Orders, NEW key \in DebtKeys
        PROVE  DebtKept(o, key) \/ DebtTold(o, key) \/ DebtIncurred(o, key)
    BY <1>2, <2>1, <2>7, AdvanceDebts, OtherDebts, CommitDebts DEF HandlerSteps, DebtIncurred
  <2> QED  BY <2>6, <2>7
<1> QED  BY <1>1, <1>2, StepKinds

(* What was told, or owed, stays so.                                       *)
LEMMA ToldStaysTold ==
  ASSUME InductiveInvariant, CallsFit, DebtsFinite, [Next]_vars, aborts' = 0,
         NEW o \in Orders, NEW history, AllTold(o, history),
         Cardinality(PayingIn(history)) \in Nat
  PROVE  ToldAfter(o, history)
<1>1. \A key \in DebtKeys : DebtKept(o, key) \/ DebtTold(o, key) \/ DebtIncurred(o, key)
  BY NoneDropped
<1>2. OnceKeys \subseteq DebtKeys /\ "order.return.confirmed" \in DebtKeys
  BY OnceKeyCases
<1>3. ASSUME NEW key \in OnceKeys, EventsOf(o, key) # {} \/ Owing(o, key) # {}
      PROVE  EventsOf(o, key)' # {} \/ Owing(o, key)' # {}
  <2>1. DebtKept(o, key) \/ DebtTold(o, key) \/ DebtIncurred(o, key)
    BY <1>1, <1>2
  <2> QED  BY <1>3, <2>1 DEF DebtKept, DebtTold, DebtIncurred
<1>4. RefundsInHand(o)' >= Cardinality(PayingIn(history))
  <2>1. RefundsInHand(o) \in Nat /\ RefundsInHand(o) >= Cardinality(PayingIn(history))
    BY RefundsMove DEF AllTold
  <2>2. RefundsInHand(o)' = RefundsInHand(o) \/ RefundsInHand(o)' = RefundsInHand(o) + 1
    BY <1>1, <1>2, RefundsMove
  <2> QED  BY <2>1, <2>2
<1> QED  BY <1>3, <1>4 DEF AllTold, ToldAfter

(* A history with nothing to tell.                                         *)
LEMMA NothingToTell ==
  ASSUME InductiveInvariant, CallsFit, DebtsFinite, [Next]_vars, aborts' = 0, NEW o \in Orders,
         NEW history, history = <<>> \/ \E e : history = <<e>> /\ e.to \in {"DRAFT", "CREATED"}
  PROVE  ToldAfter(o, history)
<1>1. "order.return.confirmed" \in DebtKeys
  BY OnceKeyCases
<1>2. RefundsInHand(o)' \in Nat
  BY <1>1, NoneDropped, RefundsMove
<1>3. Cardinality(PayingIn(history)) = 0
  BY NothingPaid
<1>4. \A i \in DOMAIN history : history[i].to \in {"DRAFT", "CREATED"}
  OBVIOUS
<1>5. \A key \in OnceKeys : Telling[key] \cap {"DRAFT", "CREATED"} = {}
  BY OnceKeyCases
<1> QED  BY <1>2, <1>3, <1>4, <1>5 DEF ToldAfter

(* A transition adds to the history what it tells later on.                *)
LEMMA CommitTells ==
  ASSUME InductiveInvariant, CallsFit, DebtsFinite, [Next]_vars, aborts' = 0,
         NEW h \in Handlers, NEW d, NEW row, Commits(h, d, row),
         NEW o, o = calls[h].order, AllTold(o, orders[o].history)
  PROVE  ToldAfter(o, row.history)
<1>1. PICK c, e : c = calls[h] /\ e = LastEntry(c.row)
  OBVIOUS
<1>2. PICK old : old = orders[o]
  OBVIOUS
<1>3. /\ o \in Orders /\ old \in OrderRow /\ old.status = c.expected /\ c.expected # "none"
      /\ row.status = c.row.status /\ CanTransition(old.status, row.status)
      /\ row.history = Append(old.history, e) /\ e \in HistoryEntry
      /\ old.history \in Seq(HistoryEntry) /\ e.to = row.status
      /\ old.status \in Statuses => LegalStory(old)
  BY <1>1, <1>2, CommitFacts
<1>4. /\ Cardinality(PayingIn(old.history)) \in Nat
      /\ Cardinality(PayingIn(row.history)) \in Nat
      /\ \/ /\ RefundsInHand(o)' = RefundsInHand(o)
            /\ Cardinality(PayingIn(row.history)) = Cardinality(PayingIn(old.history))
         \/ /\ RefundsInHand(o)' = RefundsInHand(o) + 1
            /\ Cardinality(PayingIn(row.history)) = Cardinality(PayingIn(old.history)) + 1
  BY <1>2, CommitPays
<1>5. AllTold(o, old.history) /\ ToldAfter(o, old.history)
  BY <1>2, <1>3, <1>4, ToldStaysTold
<1>6. RefundsInHand(o)' >= Cardinality(PayingIn(row.history))
  <2>1. RefundsInHand(o) \in Nat /\ RefundsInHand(o) >= Cardinality(PayingIn(old.history))
    BY <1>3, <1>5, RefundsMove DEF AllTold
  <2> QED  BY <1>4, <2>1
<1>7. ASSUME NEW key \in OnceKeys, e.to \in Telling[key]
      PROVE  EventsOf(o, key)' # {} \/ Owing(o, key)' # {}
  <2>1. CASE Incurs(c, key)
    <3>1. key \in DebtKeys
      BY OnceKeyCases
    <3> QED  BY <1>1, <1>3, <2>1, <3>1, CommitDebts
  <2>2. CASE ~Incurs(c, key)
    <3>1. key = "order.order.cancelled" /\ old.status \in Telling[key]
      BY <1>3, <1>7, <2>2, TellingIncurs, OnceKeyCases
    <3>2. old.status \in Statuses
      BY <1>3, SaleTransitions
    <3>3. old.history # <<>> /\ LastEntry(old).to \in Telling[key]
      BY <1>3, <3>1, <3>2 DEF LegalStory
    <3>4. Len(old.history) \in DOMAIN old.history
      BY <1>3, <3>3, EmptySeq, LenProperties
    <3>5. \A i \in DOMAIN old.history :
            old.history[i].to \in Telling[key] => EventsOf(o, key)' # {} \/ Owing(o, key)' # {}
      BY <1>5 DEF ToldAfter
    <3> QED  BY <3>3, <3>4, <3>5 DEF LastEntry
  <2> QED  BY <2>1, <2>2
<1>8. ASSUME NEW key \in OnceKeys, NEW i \in DOMAIN row.history, row.history[i].to \in Telling[key]
      PROVE  EventsOf(o, key)' # {} \/ Owing(o, key)' # {}
  <2>1. PICK n : n = Len(old.history)
    OBVIOUS
  <2>2. n \in Nat /\ DOMAIN old.history = 1..n
    BY <1>3, <2>1, LenProperties
  <2>3. PICK more : more = row.history
    OBVIOUS
  <2>4. /\ DOMAIN more = 1..(n + 1) /\ more[n + 1] = e
        /\ \A j \in 1..n : more[j] = old.history[j]
    BY <1>3, <2>1, <2>3, AppendProperties
  <2>5. i = n + 1 \/ i \in 1..n
    BY <1>8, <2>2, <2>3, <2>4
  <2>6. CASE i = n + 1
    BY <1>7, <1>8, <2>3, <2>4, <2>6
  <2>7. CASE i \in 1..n
    <3>1. i \in DOMAIN old.history /\ old.history[i].to \in Telling[key]
      BY <1>8, <2>2, <2>3, <2>4, <2>7
    <3> QED  BY <1>5, <3>1 DEF ToldAfter
  <2> QED  BY <2>5, <2>6, <2>7
<1> QED  BY <1>6, <1>8 DEF ToldAfter

LEMMA ToldInRows ==
  ASSUME InductiveInvariant, CallsFit, DebtsFinite, EverythingTold, [Next]_vars, aborts' = 0,
         NEW o \in Orders
  PROVE  ToldAfter(o, orders'[o].history)
<1>1. /\ AllTold(o, orders[o].history)
      /\ \A g \in Handlers : calls[g].pc = "saveOrder" => AllTold(calls[g].order, calls[g].row.history)
  BY NoneDropped DEF EverythingTold
<1>2. orders[o].history \in Seq(HistoryEntry) /\ DOMAIN orders = Orders
  BY RowFields DEF InductiveInvariant, RowsOK
<1>3. CASE orders'[o].history = orders[o].history
  BY <1>1, <1>2, <1>3, PayingFinite, ToldStaysTold
<1>4. ASSUME NEW h \in Handlers, HandlerSteps(h), orders'[o].history # orders[o].history
      PROVE  ToldAfter(o, orders'[o].history)
  <2>1. CASE (\E d, e : Advances(h, d, e)) \/ (\E d : Starts(h, d) \/ Fails(h, d)) \/ Returns(h)
    BY <1>4, <2>1 DEF Advances, Starts, Fails, Returns
  <2>2. ASSUME NEW d, NEW row, Creates(h, d, row)
        PROVE  ToldAfter(o, orders'[o].history)
    <3>1. orders'[o] = row
      BY <1>2, <1>4, <2>2 DEF Creates
    <3>2. PICK e, by : row.history = <<e>> /\ e = [from |-> "none", to |-> row.status, by |-> by]
      BY <2>2 DEF Creates
    <3>3. e.to \in {"DRAFT", "CREATED"}
      BY <2>2, <3>2 DEF Creates
    <3> QED  BY <3>1, <3>2, <3>3, NothingToTell
  <2>3. ASSUME NEW d, NEW row, Commits(h, d, row)
        PROVE  ToldAfter(o, orders'[o].history)
    <3>1. orders'[o] = row /\ o = calls[h].order
      BY <1>2, <1>4, <2>3 DEF Commits
    <3> QED  BY <1>1, <2>3, <3>1, CommitTells
  <2>4. ASSUME NEW d, NEW row, Reserves(h, d, row)
        PROVE  FALSE
    BY <1>2, <1>4, <2>4 DEF Reserves
  <2>5. ASSUME NEW d, Saves(h, d)
        PROVE  ToldAfter(o, orders'[o].history)
    <3>1. orders'[o] = calls[h].row /\ o = calls[h].order /\ calls[h].pc = "saveOrder"
          /\ calls[h] \in Call
      BY <1>2, <1>4, <2>5 DEF Saves
    <3>2. calls[h].row.history \in Seq(HistoryEntry)
      BY <3>1, CallFields, RowFields
    <3> QED  BY <1>1, <3>1, <3>2, PayingFinite, ToldStaysTold
  <2>6. CASE Deletes(h)
    <3>1. orders'[o] = DeletedOrder
      BY <1>2, <1>4, <2>6 DEF Deletes
    <3>2. orders'[o].history = <<>>
      BY <3>1 DEF DeletedOrder, EmptyRow
    <3> QED  BY <3>2, NothingToTell
  <2> QED  BY <1>4, <2>1, <2>2, <2>3, <2>4, <2>5, <2>6 DEF HandlerSteps
<1>5. Rests => orders'[o].history = orders[o].history
  BY DEF Rests
<1> QED  BY <1>3, <1>4, <1>5, StepKinds

LEMMA ToldInCalls ==
  ASSUME InductiveInvariant, CallsFit, DebtsFinite, EverythingTold, [Next]_vars, aborts' = 0,
         NEW g \in Handlers, NEW c, c = calls'[g], c.pc = "saveOrder"
  PROVE  ToldAfter(c.order, c.row.history)
<1>1. /\ \A o \in Orders : AllTold(o, orders[o].history)
      /\ \A k \in Handlers : calls[k].pc = "saveOrder" => AllTold(calls[k].order, calls[k].row.history)
  BY NoneDropped DEF EverythingTold
<1>2. DOMAIN calls = Handlers
  BY DEF InductiveInvariant, CallsOK
<1>3. CASE c = calls[g]
  <2>1. c \in Call
    BY <1>3, IdleOwesNothing DEF InductiveInvariant, CallsOK
  <2>2. c.order \in Orders /\ c.row.history \in Seq(HistoryEntry)
    BY <2>1, CallFields, RowFields
  <2>3. AllTold(c.order, c.row.history)
    BY <1>1, <1>3
  <2> QED  BY <2>2, <2>3, PayingFinite, ToldStaysTold
<1>4. ASSUME NEW h \in Handlers, HandlerSteps(h), c # calls[g]
      PROVE  ToldAfter(c.order, c.row.history)
  <2>1. \E d : Starts(h, d)
    <3>1. ASSUME NEW d, NEW e, Advances(h, d, e)
          PROVE  FALSE
      BY <1>2, <1>4, <3>1, IdleOwesNothing DEF Advances, Moves
    <3>2. ASSUME NEW d, Saves(h, d) \/ Fails(h, d)
          PROVE  FALSE
      BY <1>2, <1>4, <3>2, IdleOwesNothing DEF Saves, Fails
    <3>3. ASSUME NEW d, NEW row, Creates(h, d, row) \/ Commits(h, d, row) \/ Reserves(h, d, row)
          PROVE  FALSE
      BY <1>2, <1>4, <3>3 DEF Creates, Commits, Reserves
    <3>4. ~Returns(h) /\ ~Deletes(h)
      BY <1>2, <1>4, IdleOwesNothing DEF Returns, Deletes
    <3> QED  BY <1>4, <3>1, <3>2, <3>3, <3>4 DEF HandlerSteps
  <2>2. PICK d : Starts(h, d)
    BY <2>1
  <2>3. /\ c = d /\ d \in Call /\ d.order \in Orders
        /\ d.row.history = orders[d.order].history /\ d.row.history \in Seq(HistoryEntry)
    BY <1>2, <1>4, <2>2, CallFields, RowFields DEF Starts, Snapshot
  <2> QED  BY <1>1, <2>3, PayingFinite, ToldStaysTold
<1>5. Rests => c = calls[g]
  BY DEF Rests
<1> QED  BY <1>3, <1>4, <1>5, StepKinds

LEMMA EverythingStaysTold ==
  ASSUME InductiveInvariant, CallsFit, DebtsFinite, EverythingTold, [Next]_vars
  PROVE  EverythingTold'
<1>1. SUFFICES ASSUME aborts' = 0
               PROVE  /\ \A o \in Orders : AllTold(o, orders[o].history)'
                      /\ \A h \in Handlers : calls'[h].pc = "saveOrder" =>
                           AllTold(calls[h].order, calls[h].row.history)'
  BY DEF EverythingTold
<1>2. ASSUME NEW o \in Orders
      PROVE  AllTold(o, orders[o].history)'
  BY <1>1, ToldInRows DEF AllTold, ToldAfter
<1>3. ASSUME NEW h \in Handlers, calls'[h].pc = "saveOrder"
      PROVE  AllTold(calls[h].order, calls[h].row.history)'
  <2>1. PICK c : c = calls'[h]
    OBVIOUS
  <2>2. PICK o : o = c.order
    OBVIOUS
  <2>3. ToldAfter(o, c.row.history)
    BY <1>1, <1>3, <2>1, <2>2, ToldInCalls
  <2>4. AllTold(o, c.row.history)'
    BY <2>3 DEF AllTold, ToldAfter
  <2> QED  BY <2>1, <2>2, <2>4 DEF AllTold, EventsOf, Owing, RefundsInHand, InHand
<1> QED  BY <1>2, <1>3

-----------------------------------------------------------------------------
(* Announcements: the promises.                                            *)

LEMMA NothingRemovedHolds == Spec => []NothingRemoved
<1>1. InductiveInvariant /\ CallsFit /\ SaleInvariant /\ NothingRemoved /\ [Next]_vars => NothingRemoved'
  BY NothingIsRemoved
<1>2. Init => NothingRemoved
  BY SettledInitially
<1> QED  BY <1>1, <1>2, InvariantHolds, CallsAlwaysFit, SaleHolds, PTL DEF Spec

(* Each of the three events is made, or owed by a call, at most once for   *)
(* each row of an order that was deleted, and once more when the row that  *)
(* is stored is past it; this is the invariant behind AnnouncedOnce.       *)
THEOREM OnceHolds == Spec => []EverythingOnce
<1>1. /\ InductiveInvariant /\ CallsFit /\ SaleInvariant /\ DebtsFinite
      /\ EverythingOnce /\ [Next]_vars
      => EverythingOnce'
  BY OnceStaysOnce
<1>2. Init => EverythingOnce
  BY SettledInitially
<1> QED  BY <1>1, <1>2, InvariantHolds, CallsAlwaysFit, SaleHolds, DebtsAlwaysFinite, PTL DEF Spec

(* The release of the stock, the confirmation and the order being ready    *)
(* are announced at most once for each time that the row was inserted,     *)
(* however many calls race and whatever they delete or save again: the     *)
(* compare-and-set lets one of them through.                               *)
THEOREM AnnouncedAtMostOnce == Spec => []AnnouncedOnce
<1>1. InductiveInvariant /\ DebtsFinite /\ EverythingOnce => AnnouncedOnce
  <2>1. SUFFICES ASSUME InductiveInvariant, DebtsFinite, EverythingOnce,
                        NEW o \in Orders, NEW key \in OnceKeys
                 PROVE  Cardinality(EventsOf(o, key)) <= Insertions(o)
    BY OnceKeyCases DEF AnnouncedOnce
  <2>2. PICK n, k, gone : /\ n = Cardinality(EventsOf(o, key)) /\ k = Cardinality(Owing(o, key))
                          /\ gone = removed[o].rows
    OBVIOUS
  <2>3. n \in Nat /\ k \in Nat /\ InHand(o, key) = n + k
    <3>1. key \in DebtKeys
      BY OnceKeyCases
    <3> QED  BY <2>1, <2>2, <3>1, HandMoves DEF InHand
  <2>4. OnceAtMost(o, key)
    BY <2>1 DEF EverythingOnce
  <2>5. gone \in Nat
        /\ n + k <= gone + (IF orders[o].status \in Past[key] /\ orders[o].status # "deleted"
                            THEN 1 ELSE 0)
    BY <2>1, <2>2, <2>3, <2>4, OnceBefore
  <2>6. orders[o].status \in Past[key] /\ orders[o].status # "deleted" => Stored(o)
    <3>1. orders[o] \in OrderRow
      BY <2>1 DEF InductiveInvariant, RowsOK
    <3> QED  BY <3>1, NoneIsBefore DEF Stored, OrderRow
  <2> QED  BY <2>2, <2>3, <2>5, <2>6 DEF Insertions
<1> QED  BY <1>1, InvariantHolds, DebtsAlwaysFinite, OnceHolds, PTL

(* No refund is authorised without a return that the history of the order  *)
(* records, or recorded until it was deleted: two answers, or an answer    *)
(* and an approval, never pay for one transition.                          *)
THEOREM RefundsAreCovered == Spec => []RefundsAreRecorded
<1>1. ASSUME InductiveInvariant, CallsFit, SaleInvariant, DebtsFinite, RefundsCovered, [Next]_vars
      PROVE  RefundsCovered'
  BY <1>1, RefundsStayCovered
<1>2. Init => RefundsCovered
  BY SettledInitially
<1>3. Spec => []RefundsCovered
  BY <1>1, <1>2, InvariantHolds, CallsAlwaysFit, SaleHolds, DebtsAlwaysFinite, PTL DEF Spec
<1>4. InductiveInvariant /\ DebtsFinite /\ RefundsCovered => RefundsAreRecorded
  <2>1. SUFFICES ASSUME InductiveInvariant, DebtsFinite, RefundsCovered, NEW o \in Orders
                 PROVE  Cardinality(EventsOf(o, "order.return.confirmed"))
                          <= Cardinality(PayingEntries(o)) + removed[o].returns
    BY DEF RefundsAreRecorded
  <2>2. RefundsInHand(o) <= Cardinality(PayingEntries(o)) + removed[o].returns
    BY <2>1 DEF RefundsCovered, PayingEntries
  <2>3. Cardinality(PayingEntries(o)) \in Nat
    <3>1. orders[o].history \in Seq(HistoryEntry)
      BY <2>1, RowFields DEF InductiveInvariant, RowsOK
    <3> QED  BY <3>1, PayingFinite DEF PayingEntries
  <2>4. removed[o].returns \in Nat
    BY <2>1 DEF InductiveInvariant, CountersOK, Removed
  <2>5. /\ Cardinality(EventsOf(o, "order.return.confirmed")) \in Nat
        /\ Cardinality(Owing(o, "order.return.confirmed")) \in Nat
    BY <2>1, RefundsMove
  <2> QED  BY <2>2, <2>3, <2>4, <2>5 DEF RefundsInHand, InHand
<1> QED  BY <1>3, <1>4, InvariantHolds, DebtsAlwaysFinite, PTL

(* Whatever the history of an order says is announced, or owed by a call   *)
(* in progress, as long as no call was lost; for deleted orders too.       *)
THEOREM TellingHolds == Spec => []EverythingTold
<1>1. InductiveInvariant /\ CallsFit /\ DebtsFinite /\ EverythingTold /\ [Next]_vars => EverythingTold'
  BY EverythingStaysTold
<1>2. Init => EverythingTold
  BY SettledInitially
<1> QED  BY <1>1, <1>2, InvariantHolds, CallsAlwaysFit, DebtsAlwaysFinite, PTL DEF Spec

(* When the calls on an order have returned and none was lost, its whole   *)
(* history has been announced, and every return it records is refunded.    *)
THEOREM NothingStaysUntold == Spec => []AnnouncementsComplete
<1>1. ASSUME InductiveInvariant, DebtsFinite, EverythingTold
      PROVE  AnnouncementsComplete
  <2>1. SUFFICES ASSUME NEW o \in Orders, aborts = 0, Quiet(o)
                 PROVE  FullyAnnounced(o)
    BY DEF AnnouncementsComplete
  <2>2. AllTold(o, orders[o].history)
    BY <1>1, <2>1 DEF EverythingTold
  <2>3. \A key : Owing(o, key) = {}
    BY <2>1 DEF Quiet, Owing
  <2>4. ASSUME NEW key \in OnceKeys, NEW status \in Telling[key], Reached(orders[o], status)
        PROVE  Announced(o, key)
    BY <2>2, <2>3, <2>4 DEF AllTold, Reached, Announced
  <2>5. Cardinality(EventsOf(o, "order.return.confirmed")) >= Cardinality(PayingEntries(o))
    <3>1. RefundsInHand(o) >= Cardinality(PayingEntries(o))
      BY <2>2 DEF AllTold, PayingEntries
    <3>2. Cardinality(EventsOf(o, "order.return.confirmed")) \in Nat
      BY <1>1, RefundsMove
    <3>3. RefundsInHand(o) = Cardinality(EventsOf(o, "order.return.confirmed"))
      BY <2>3, <3>2, FS_EmptySet DEF RefundsInHand, InHand
    <3> QED  BY <3>1, <3>3
  <2>6. /\ Reached(orders[o], "CONFIRMED") => Announced(o, "order.order.confirmed")
        /\ Reached(orders[o], "READY_FOR_PICKUP") => Announced(o, "order.order.ready_for_pickup")
        /\ Reached(orders[o], "CANCELLED") => Announced(o, "order.order.cancelled")
        /\ Reached(orders[o], "FAILED") => Announced(o, "order.order.cancelled")
    BY <2>4, OnceKeyCases
  <2> QED  BY <2>5, <2>6 DEF FullyAnnounced
<1> QED  BY <1>1, InvariantHolds, DebtsAlwaysFinite, TellingHolds, PTL

=============================================================================
