------------------------- MODULE OrderIntakeProofs -------------------------
(***************************************************************************)
(* Proofs about OrderIntake, for any keys, instances, calls in progress,   *)
(* fees and bounds: its types, that the answers to one key agree, that a   *)
(* retry is answered, that every order is announced once and in order and  *)
(* recorded as it was charged.                                             *)
(***************************************************************************)
EXTENDS OrderIntake, FiniteSetTheorems, SequenceTheorems, TLAPS

-----------------------------------------------------------------------------
(* Facts about values.                                                     *)

LEMMA CallFields ==
  ASSUME NEW c \in Call
  PROVE  /\ c.op \in {"createOrder", "createDraft"} /\ c.at \in Instances
         /\ c.key \in Keys \cup {NoKey} /\ c.cash \in BOOLEAN /\ c.pc \in Points
         /\ c.order \in Nat /\ c.total \in Nat /\ c.retry \in BOOLEAN /\ c.pc # "idle"
BY DEF Call, Points

LEMMA IdlePoint == Idle.pc = "idle" /\ Idle.pc \notin Announcing
BY DEF Idle, Announcing

\* A handler that is not idle holds a call.
LEMMA BusyCall ==
  ASSUME TypeOK, NEW h \in Handlers, calls[h].pc # "idle"
  PROVE  calls[h] \in Call
BY DEF TypeOK, Idle

LEMMA RowFields ==
  ASSUME TypeOK, NEW o \in DOMAIN rows
  PROVE  /\ rows[o] \in Row /\ rows[o].key \in Keys \cup {NoKey} /\ rows[o].total \in Nat
         /\ o \in 1..Len(rows) /\ o # 0
<1>1. rows[o] \in Row /\ o \in 1..Len(rows) /\ o # 0
  BY DEF TypeOK
<1> QED  BY <1>1 DEF Row

\* The call of one handler changes.
LEMMA SetCall ==
  ASSUME TypeOK, NEW h \in Handlers, NEW c \in Call \cup {Idle},
         calls' = [calls EXCEPT ![h] = c]
  PROVE  /\ calls' \in [Handlers -> Call \cup {Idle}] /\ calls'[h] = c
         /\ \A g \in Handlers : g # h => calls'[g] = calls[g]
BY DEF TypeOK

\* An event is inserted: the events of that kind of that order gain the position n.
Published(event, order, total, n) ==
  /\ outbox' \in Seq(Event) /\ DOMAIN outbox' = DOMAIN outbox \cup {n} /\ n \notin DOMAIN outbox
  /\ \A e \in DOMAIN outbox : outbox'[e] = outbox[e] /\ e < n
  /\ outbox'[n].event = event /\ outbox'[n].order = order /\ outbox'[n].total = total
  /\ Events(event, order)' = Events(event, order) \cup {n}
  /\ \A x, o : (x = event /\ o = order) \/ Events(x, o)' = Events(x, o)

LEMMA PublishedEvents ==
  ASSUME TypeOK, NEW event \in {"order.cart.created", "order.cart.item_changed", "order.order.created"},
         NEW order \in DOMAIN rows, NEW total \in Nat, Publish(event, order, total)
  PROVE  \E n : Published(event, order, total, n)
<1> DEFINE new == [event |-> event, order |-> order, total |-> total]
<1>1. outbox \in Seq(Event) /\ Len(outbox) \in Nat /\ DOMAIN outbox = 1..Len(outbox)
  BY LenProperties DEF TypeOK
<1>2. order \in Nat
  BY RowFields
<1>3. new \in Event
  BY <1>2 DEF Event
<1>4. outbox' = Append(outbox, new)
  BY DEF Publish
<1>5. new.event = event /\ new.order = order /\ new.total = total
  OBVIOUS
<1> HIDE DEF new
<1>6. /\ outbox' \in Seq(Event) /\ Len(outbox') = Len(outbox) + 1
      /\ \A e \in 1..Len(outbox) : outbox'[e] = outbox[e]
      /\ outbox'[Len(outbox) + 1] = new
  BY <1>1, <1>3, <1>4, AppendProperties
<1>7. DOMAIN outbox' = 1..(Len(outbox) + 1)
  BY <1>6, LenProperties
<1>8. DOMAIN outbox' = DOMAIN outbox \cup {Len(outbox) + 1} /\ Len(outbox) + 1 \notin DOMAIN outbox
      /\ \A e \in DOMAIN outbox : e < Len(outbox) + 1
  BY <1>1, <1>7
<1>9. Events(event, order)' = Events(event, order) \cup {Len(outbox) + 1}
  BY <1>1, <1>5, <1>6, <1>8 DEF Events
<1>10. ASSUME NEW x, NEW o, ~(x = event /\ o = order)
       PROVE  Events(x, o)' = Events(x, o)
  BY <1>1, <1>5, <1>6, <1>8, <1>10 DEF Events
<1>11. \A x, o : (x = event /\ o = order) \/ Events(x, o)' = Events(x, o)
  BY <1>10
<1>12. Published(event, order, total, Len(outbox) + 1)
  BY <1>1, <1>5, <1>6, <1>8, <1>9, <1>11 DEF Published
<1> QED  BY <1>12

\* A row is inserted: it has no event yet.
LEMMA InsertedRow ==
  ASSUME TypeOK, NEW row \in Row, rows' = Append(rows, row)
  PROVE  /\ rows' \in Seq(Row) /\ DOMAIN rows' = DOMAIN rows \cup {Len(rows) + 1}
         /\ Len(rows) + 1 \in Nat /\ Len(rows) + 1 \notin DOMAIN rows
         /\ \A o \in DOMAIN rows : rows'[o] = rows[o]
         /\ rows'[Len(rows) + 1] = row
         /\ \A x : Events(x, Len(rows) + 1) = {}
<1>1. rows \in Seq(Row) /\ Len(rows) \in Nat /\ DOMAIN rows = 1..Len(rows)
  BY LenProperties DEF TypeOK
<1>2. /\ rows' \in Seq(Row) /\ Len(rows') = Len(rows) + 1
      /\ \A o \in 1..Len(rows) : rows'[o] = rows[o]
      /\ rows'[Len(rows) + 1] = row
  BY <1>1, AppendProperties
<1>3. DOMAIN rows' = 1..(Len(rows) + 1)
  BY <1>2, LenProperties
<1>4. Len(rows) + 1 \notin DOMAIN rows /\ DOMAIN rows' = DOMAIN rows \cup {Len(rows) + 1}
  BY <1>1, <1>3
<1>5. \A x : Events(x, Len(rows) + 1) = {}
  BY <1>4 DEF Events, TypeOK
<1> QED  BY <1>1, <1>2, <1>4, <1>5

\* A row is updated in place.
LEMMA UpdatedRow ==
  ASSUME TypeOK, NEW o \in DOMAIN rows, NEW row \in Row, rows' = [rows EXCEPT ![o] = row]
  PROVE  /\ rows' \in Seq(Row) /\ DOMAIN rows' = DOMAIN rows
         /\ rows'[o] = row /\ \A p \in DOMAIN rows : p # o => rows'[p] = rows[p]
<1>1. rows \in Seq(Row) /\ Len(rows) \in Nat /\ DOMAIN rows = 1..Len(rows)
  BY LenProperties DEF TypeOK
<1>2. rows \in [1..Len(rows) -> Row]
  BY <1>1, LenProperties
<1>3. rows' \in [1..Len(rows) -> Row] /\ rows'[o] = row
      /\ \A p \in DOMAIN rows : p # o => rows'[p] = rows[p]
  BY <1>1, <1>2
<1> QED  BY <1>1, <1>3, SeqDef

-----------------------------------------------------------------------------
(* One call moves, the others stay.                                        *)

\* No row disappears or changes its key.
Grows ==
  /\ DOMAIN rows \subseteq DOMAIN rows'
  /\ \A o \in DOMAIN rows : rows'[o].key = rows[o].key

\* The call of h becomes c; only the row that h owns, or a new one, is concerned.
Moves(h, c) ==
  /\ calls' = [calls EXCEPT ![h] = c]
  /\ Grows
  /\ \A o \in DOMAIN rows : Owns(h, o) \/ rows'[o] = rows[o]
  /\ \A e \in DOMAIN outbox : e \in DOMAIN outbox' /\ outbox'[e] = outbox[e]
  /\ \A x, o : Owns(h, o) \/ Events(x, o)' = Events(x, o)
  /\ c.pc \in Announcing => c.order \notin DOMAIN rows \/ Owns(h, c.order)

\* OwnerOK of a call that is not yet in the hands of a handler.
RowInHand(c) ==
  c.pc \in Announcing =>
    /\ c.order \in DOMAIN rows
    /\ rows[c.order].key = c.key
    /\ rows[c.order].status # "PENDING_PAYMENT"
    /\ c.op = "createDraft" => c.pc = "publishCart" /\ rows[c.order].total = 0
    /\ AnnouncedSoFar(c)

LEMMA KeysKeepTheirOrder ==
  ASSUME TypeOK, Grows, NEW key
  PROVE  OrderOf(key) \subseteq OrderOf(key)'
BY DEF Grows, OrderOf

\* A call that nobody moves and whose row nobody touches stays as it should be.
LEMMA OtherCall ==
  ASSUME TypeOK, NEW h \in Handlers, NEW c \in Call \cup {Idle}, Moves(h, c), CallsOK,
         NEW g \in Handlers, g # h
  PROVE  OwnerOK(g)' /\ PathOK(calls[g])'
<1>1. calls'[g] = calls[g] /\ calls'[h] = c
  BY SetCall DEF Moves
<1>2. OwnerOK(g) /\ PathOK(calls[g])
  BY DEF CallsOK
<1>3. PathOK(calls[g])'
  BY <1>1, <1>2, KeysKeepTheirOrder DEF PathOK, Moves
<1>4. ASSUME calls[g].pc \in Announcing
      PROVE  OwnerOK(g)'
  <2> DEFINE o == calls[g].order
  <2>1. /\ o \in DOMAIN rows /\ rows[o].key = calls[g].key /\ rows[o].status # "PENDING_PAYMENT"
        /\ calls[g].op = "createDraft" => calls[g].pc = "publishCart" /\ rows[o].total = 0
        /\ AnnouncedSoFar(calls[g])
        /\ \A k \in Handlers : Owns(k, o) => k = g
    BY <1>2, <1>4 DEF OwnerOK
  <2>2. ~Owns(h, o)
    BY <2>1
  <2>3. rows'[o] = rows[o] /\ o \in DOMAIN rows' /\ \A x : Events(x, o)' = Events(x, o)
    BY <2>1, <2>2 DEF Moves, Grows
  <2>4. \A e \in DOMAIN outbox : outbox'[e] = outbox[e]
    BY DEF Moves
  <2>5. \A x : Events(x, o) \subseteq DOMAIN outbox
    BY DEF Events
  <2>6. AnnouncedSoFar(calls[g])'
    BY <1>1, <2>1, <2>3, <2>4, <2>5
    DEF AnnouncedSoFar, CartOpened, ChargeTold, ItemsTold
  <2>7. \A k \in Handlers : (Owns(k, calls[g].order))' => k = g
    BY <1>1, <2>1, <2>2, SetCall DEF Moves, Owns
  <2> QED  BY <1>1, <2>1, <2>3, <2>6, <2>7 DEF OwnerOK
<1>5. ASSUME calls[g].pc \notin Announcing
      PROVE  OwnerOK(g)'
  BY <1>1, <1>5 DEF OwnerOK
<1> QED  BY <1>3, <1>4, <1>5

LEMMA MovedCalls ==
  ASSUME TypeOK, NEW h \in Handlers, NEW c \in Call \cup {Idle}, Moves(h, c), CallsOK,
         RowInHand(c)', PathOK(c)'
  PROVE  CallsOK'
<1>1. calls'[h] = c /\ \A g \in Handlers : g # h => calls'[g] = calls[g]
  BY SetCall DEF Moves
<1>2. ASSUME c.pc \in Announcing, NEW g \in Handlers, Owns(g, c.order)', g # h
      PROVE  FALSE
  <2>1. Owns(g, c.order)
    BY <1>1, <1>2 DEF Owns
  <2>2. c.order \in DOMAIN rows
    BY <2>1 DEF CallsOK, OwnerOK, Owns
  <2>3. Owns(h, c.order)
    BY <1>2, <2>2 DEF Moves
  <2> QED  BY <1>2, <2>1, <2>3 DEF CallsOK, OwnerOK, Owns
<1>3. OwnerOK(h)'
  BY <1>1, <1>2 DEF OwnerOK, RowInHand
<1>4. PathOK(calls[h])'
  BY <1>1
<1> QED  BY <1>3, <1>4, OtherCall DEF CallsOK

\* What the others still have to announce stays in their hands.
LEMMA MovedStill ==
  ASSUME TypeOK, NEW h \in Handlers, NEW c \in Call \cup {Idle}, Moves(h, c), StillToAnnounce,
         faults' = 0 => faults = 0,
         \A o \in DOMAIN rows' : o \notin DOMAIN rows => c.pc \in Announcing /\ c.order = o,
         \A o \in DOMAIN rows : Owns(h, o) /\ ~(c.pc \in Announcing /\ c.order = o) /\ faults' = 0 =>
           CartOpened(o)' /\ (rows'[o].total > 0 => ChargeTold(o)')
  PROVE  StillToAnnounce'
<1> SUFFICES ASSUME faults' = 0, NEW o \in DOMAIN rows'
             PROVE  /\ CartOpened(o)' \/ \E g \in Handlers : Owns(g, o)'
                    /\ rows'[o].total > 0 => ChargeTold(o)' \/ \E g \in Handlers : Owns(g, o)'
  BY DEF StillToAnnounce
<1>1. calls'[h] = c /\ \A g \in Handlers : g # h => calls'[g] = calls[g]
  BY SetCall DEF Moves
<1>2. CASE c.pc \in Announcing /\ c.order = o
  BY <1>1, <1>2 DEF Owns
<1>3. CASE o \in DOMAIN rows /\ ~(c.pc \in Announcing /\ c.order = o) /\ Owns(h, o)
  BY <1>3
<1>4. CASE o \in DOMAIN rows /\ ~Owns(h, o)
  <2>1. rows'[o] = rows[o] /\ \A x : Events(x, o)' = Events(x, o)
    BY <1>4 DEF Moves
  <2>2. \A g \in Handlers : Owns(g, o) => Owns(g, o)'
    BY <1>1, <1>4 DEF Owns
  <2>3. /\ CartOpened(o) \/ \E g \in Handlers : Owns(g, o)
        /\ rows[o].total > 0 => ChargeTold(o) \/ \E g \in Handlers : Owns(g, o)
    BY <1>4 DEF StillToAnnounce
  <2> QED  BY <2>1, <2>2, <2>3 DEF CartOpened, ChargeTold
<1> QED  BY <1>2, <1>3, <1>4

-----------------------------------------------------------------------------
(* What was answered, and the steps that write neither a row nor an event. *)

LEMMA NoAnswer ==
  ASSUME TypeOK, AnswersNameTheirRow, RetryIsAnswered, Grows, UNCHANGED answers,
         faults' = 0 => faults = 0
  PROVE  answers' \subseteq Answer /\ AnswersNameTheirRow' /\ RetryIsAnswered'
<1>1. answers' \subseteq Answer
  BY DEF TypeOK
<1>2. AnswersNameTheirRow'
  BY KeysKeepTheirOrder DEF AnswersNameTheirRow
<1>3. RetryIsAnswered'
  BY DEF RetryIsAnswered
<1> QED  BY <1>1, <1>2, <1>3

\* An answer names the order of its key, and refuses no retry.
LEMMA Answered ==
  ASSUME TypeOK, AnswersNameTheirRow, RetryIsAnswered, Grows,
         NEW h \in Handlers, calls[h] \in Call, NEW order \in Nat, Respond(h, order),
         calls[h].key # NoKey /\ order # 0 => order \in OrderOf(calls[h].key),
         faults' = 0 => faults = 0 /\ (order = 0 => ~calls[h].retry)
  PROVE  /\ answers' \subseteq Answer /\ AnswersNameTheirRow' /\ RetryIsAnswered'
         /\ calls' = [calls EXCEPT ![h] = Idle]
<1>0. calls' = [calls EXCEPT ![h] = Idle]
  BY DEF Respond
<1>1. CASE calls[h].key = NoKey
  <2>1. UNCHANGED answers
    BY <1>1 DEF Respond
  <2> QED  BY <1>0, <2>1, NoAnswer
<1>2. CASE calls[h].key # NoKey
  <2>0. PICK a : a = [key |-> calls[h].key, order |-> order, retry |-> calls[h].retry]
    OBVIOUS
  <2>1. a \in Answer /\ a.order = order /\ a.key = calls[h].key /\ a.retry = calls[h].retry
    BY <1>2, <2>0, CallFields DEF Answer
  <2>2. answers' = answers \cup {a}
    BY <1>2, <2>0 DEF Respond
  <2>3. a.order # 0 => a.order \in OrderOf(a.key)'
    BY <1>2, <2>1, KeysKeepTheirOrder
  <2>4. faults' = 0 => (a.retry => a.order # 0)
    BY <2>1
  <2>5. answers' \subseteq Answer
    BY <2>1, <2>2 DEF TypeOK
  <2>6. AnswersNameTheirRow'
    BY <2>2, <2>3, KeysKeepTheirOrder DEF AnswersNameTheirRow
  <2>7. RetryIsAnswered'
    BY <2>2, <2>4 DEF RetryIsAnswered
  <2> QED  BY <1>0, <2>5, <2>6, <2>7
<1> QED  BY <1>1, <1>2

\* A step of one call that moves or ends it, and writes neither a row nor an event.
LEMMA QuietStep ==
  ASSUME InductiveInvariant, NEW h \in Handlers, NEW c \in Call \cup {Idle},
         calls' = [calls EXCEPT ![h] = c], UNCHANGED <<rows, outbox, bus>>,
         c.pc \notin Announcing, PathOK(c)',
         answers' \subseteq Answer, AnswersNameTheirRow', RetryIsAnswered',
         started' \in 0..MaxCalls, faults' \in 0..MaxFaults, faults' = 0 => faults = 0,
         faults' = 0 => calls[h].pc \notin Announcing \/ calls[h].pc = "finalize"
  PROVE  InductiveInvariant'
<1> USE DEF InductiveInvariant
<1>1. Grows /\ \A x, o : Events(x, o)' = Events(x, o)
  BY DEF Grows, Events
<1>2. Moves(h, c)
  BY <1>1 DEF Moves
<1>3. TypeOK'
  BY SetCall DEF TypeOK, bus
<1>4. RowInHand(c)'
  BY DEF RowInHand
<1>5. CallsOK'
  BY <1>2, <1>4, MovedCalls
<1>6. ASSUME NEW o \in DOMAIN rows, Owns(h, o), faults' = 0
      PROVE  CartOpened(o)' /\ ChargeTold(o)'
  <2>1. calls[h].pc = "finalize" /\ o = calls[h].order
    BY <1>6 DEF Owns
  <2>2. \E e \in Events("order.order.created", o) : TRUE
    BY <2>1 DEF CallsOK, OwnerOK, AnnouncedSoFar, Announcing
  <2>3. CartOpened(o) /\ ChargeTold(o)
    BY <2>2 DEF ItemsBeforeCharge, CartOpened, ChargeTold
  <2> QED  BY <1>1, <2>3 DEF CartOpened, ChargeTold
<1>7. StillToAnnounce'
  BY <1>2, <1>6, MovedStill
<1>8. EventsOnce' /\ KeysAreUnique'
  BY DEF EventsOnce, KeysAreUnique
<1>9. ItemsBeforeCharge'
  BY <1>1 DEF ItemsBeforeCharge
<1>10. RecordedAsCharged'
  BY <1>1 DEF RecordedAsCharged
<1> QED  BY <1>3, <1>5, <1>7, <1>8, <1>9, <1>10

\* A call that has not its row yet goes on to another point.
LEMMA GoneOn ==
  ASSUME InductiveInvariant, NEW h \in Handlers, calls[h] \in Call, calls[h].pc \notin Announcing,
         NEW pc \in {"availability", "validate", "save", "lookupAgain"}, Goto(h, calls[h], pc),
         ~calls[h].retry, pc \in {"validate", "lookupAgain"} => calls[h].op = "createOrder",
         UNCHANGED <<rows, outbox, answers, bus, started, faults>>
  PROVE  InductiveInvariant'
<1>1. PICK c : c = [calls[h] EXCEPT !.pc = pc]
  OBVIOUS
<1>2. c \in Call /\ c.pc = pc /\ c.retry = calls[h].retry /\ c.op = calls[h].op
      /\ c.key = calls[h].key
  BY <1>1, CallFields DEF Call, Points
<1>3. calls' = [calls EXCEPT ![h] = c]
  BY <1>1 DEF Goto
<1>4. calls[h].op = "createDraft" => calls[h].key = NoKey
  BY CallFields DEF InductiveInvariant, CallsOK, PathOK
<1>8. PathOK(c)'
  BY <1>2, <1>4 DEF PathOK
<1>5. answers' \subseteq Answer /\ AnswersNameTheirRow' /\ RetryIsAnswered'
  BY DEF InductiveInvariant, TypeOK, AnswersNameTheirRow, RetryIsAnswered, OrderOf
<1>6. started' \in 0..MaxCalls /\ faults' \in 0..MaxFaults
  BY DEF InductiveInvariant, TypeOK
<1>7. c.pc \notin Announcing
  BY <1>2 DEF Announcing
<1> QED  BY <1>2, <1>3, <1>5, <1>6, <1>7, <1>8, QuietStep

\* A call that has not its row yet, or has announced everything, ends.
LEMMA Ended ==
  ASSUME InductiveInvariant, NEW h \in Handlers, calls[h] \in Call,
         calls[h].pc \notin Announcing \/ calls[h].pc = "finalize",
         NEW order \in Nat, Respond(h, order),
         calls[h].key # NoKey /\ order # 0 => order \in OrderOf(calls[h].key),
         order = 0 => ~calls[h].retry,
         UNCHANGED <<rows, outbox, bus, started, faults>>
  PROVE  InductiveInvariant'
<1>1. Grows
  BY DEF Grows
<1>2. /\ answers' \subseteq Answer /\ AnswersNameTheirRow' /\ RetryIsAnswered'
      /\ calls' = [calls EXCEPT ![h] = Idle]
  BY <1>1, Answered DEF InductiveInvariant
<1>3. PathOK(Idle)'
  BY IdlePoint DEF PathOK
<1>4. started' \in 0..MaxCalls /\ faults' \in 0..MaxFaults
  BY DEF InductiveInvariant, TypeOK
<1> QED  BY <1>2, <1>3, <1>4, IdlePoint, QuietStep

-----------------------------------------------------------------------------
(* The gate, and the second look-up.                                       *)

LEMMA InitOK == Init => InductiveInvariant
<1> SUFFICES ASSUME Init PROVE InductiveInvariant
  OBVIOUS
<1>1. rows = <<>> /\ outbox = <<>> /\ answers = {} /\ topic = {}
      /\ \A h \in Handlers : calls[h] = Idle
  BY DEF Init
<1>2. TypeOK
  BY IntakeAssumed DEF Init, TypeOK, StoreStatus
<1>3. CallsOK
  BY <1>1, IdlePoint DEF CallsOK, OwnerOK, PathOK
<1>4. KeysAreUnique /\ AnswersNameTheirRow /\ RetryIsAnswered /\ EventsOnce
  BY <1>1 DEF KeysAreUnique, AnswersNameTheirRow, RetryIsAnswered, EventsOnce
<1>5. ItemsBeforeCharge /\ StillToAnnounce /\ RecordedAsCharged
  BY <1>1 DEF ItemsBeforeCharge, StillToAnnounce, RecordedAsCharged
<1> QED  BY <1>2, <1>3, <1>4, <1>5 DEF InductiveInvariant

\* An order that carries the key is a row.
LEMMA FoundOrder ==
  ASSUME TypeOK, NEW key, NEW o \in OrderOf(key)
  PROVE  o \in Nat /\ o # 0 /\ o \in DOMAIN rows
BY RowFields DEF OrderOf, TypeOK

LEMMA StartOK ==
  ASSUME InductiveInvariant, NEW h \in Handlers, NEW op \in {"createOrder", "createDraft"},
         NEW at \in Instances, NEW key \in Keys \cup {NoKey}, NEW cash \in BOOLEAN,
         op = "createDraft" => key = NoKey, Start(h, op, at, key, cash)
  PROVE  InductiveInvariant'
<1>1. PICK c : c = [op |-> op, at |-> at, key |-> key, cash |-> cash, pc |-> "lookup",
                    order |-> 0, total |-> 0, retry |-> OrderOf(key) # {}]
  OBVIOUS
<1>2. (OrderOf(key) # {}) \in BOOLEAN
  OBVIOUS
<1>3. c \in Call /\ c.pc = "lookup" /\ c.key = key /\ c.op = op /\ (c.retry => OrderOf(key) # {})
  BY <1>1, <1>2 DEF Call, Points
<1>4. /\ calls[h].pc = "idle" /\ calls' = [calls EXCEPT ![h] = c]
      /\ UNCHANGED <<rows, outbox, answers, bus, faults>>
  BY <1>1 DEF Start, At
<1>5. PathOK(c)'
  BY <1>3, <1>4 DEF PathOK, OrderOf
<1>6. answers' \subseteq Answer /\ AnswersNameTheirRow' /\ RetryIsAnswered'
  BY <1>4 DEF InductiveInvariant, TypeOK, AnswersNameTheirRow, RetryIsAnswered, OrderOf
<1>7. started' \in 0..MaxCalls /\ faults' \in 0..MaxFaults
  BY <1>4, IntakeAssumed DEF InductiveInvariant, TypeOK, Start
<1>8. c.pc \notin Announcing /\ calls[h].pc \notin Announcing
  BY <1>3, <1>4 DEF Announcing
<1> QED  BY <1>3, <1>4, <1>5, <1>6, <1>7, <1>8, QuietStep

LEMMA LookupOK ==
  ASSUME InductiveInvariant, NEW h \in Handlers, Lookup(h)
  PROVE  InductiveInvariant'
<1>1. /\ calls[h].pc = "lookup" /\ calls[h] \in Call /\ calls[h].pc \notin Announcing
      /\ UNCHANGED <<rows, outbox, bus, started, faults>>
  BY BusyCall DEF Lookup, At, Announcing, InductiveInvariant
<1>2. CASE OrderOf(calls[h].key) # {}
  <2>1. PICK o \in OrderOf(calls[h].key) : Respond(h, o)
    BY <1>2 DEF Lookup
  <2>2. o \in Nat /\ o # 0
    BY <2>1, FoundOrder DEF InductiveInvariant
  <2> QED  BY <1>1, <2>1, <2>2, Ended
<1>3. CASE OrderOf(calls[h].key) = {}
  <2>1. ~calls[h].retry
    BY <1>1, <1>3 DEF InductiveInvariant, CallsOK, PathOK
  <2>2. CASE IsBlocked(calls[h].at)
    <3>1. Respond(h, 0)
      BY <1>3, <2>2 DEF Lookup
    <3> QED  BY <1>1, <2>1, <3>1, Ended
  <2>3. CASE ~IsBlocked(calls[h].at)
    <3>1. Goto(h, calls[h], "availability") /\ UNCHANGED answers
      BY <1>3, <2>3 DEF Lookup
    <3> QED  BY <1>1, <2>1, <3>1, GoneOn
  <2> QED  BY <2>2, <2>3
<1> QED  BY <1>2, <1>3

\* Beyond the look-up a call is no retry.
LEMMA FirstTry ==
  ASSUME InductiveInvariant, NEW h \in Handlers,
         calls[h].pc \in {"availability", "validate", "save", "lookupAgain"} \cup Announcing
  PROVE  calls[h] \in Call /\ ~calls[h].retry
<1>1. calls[h].pc \notin {"idle", "lookup"}
  BY DEF Announcing
<1> QED  BY <1>1, BusyCall DEF InductiveInvariant, CallsOK, PathOK

LEMMA CheckAvailabilityOK ==
  ASSUME InductiveInvariant, NEW h \in Handlers, CheckAvailability(h)
  PROVE  InductiveInvariant'
<1>1. /\ calls[h].pc = "availability" /\ UNCHANGED <<rows, outbox, bus, started, faults>>
      /\ calls[h] \in Call /\ ~calls[h].retry /\ calls[h].pc \notin Announcing
  BY FirstTry DEF CheckAvailability, At, Announcing
<1>2. CASE Respond(h, 0)
  BY <1>1, <1>2, Ended
<1>3. CASE /\ Goto(h, calls[h], IF calls[h].op = "createDraft" THEN "save" ELSE "validate")
           /\ UNCHANGED answers
  <2>1. CASE calls[h].op = "createDraft"
    <3>1. Goto(h, calls[h], "save")
      BY <1>3, <2>1
    <3> QED  BY <1>1, <1>3, <3>1, GoneOn
  <2>2. CASE calls[h].op # "createDraft"
    <3>1. Goto(h, calls[h], "validate") /\ calls[h].op = "createOrder"
      BY <1>1, <1>3, <2>2, CallFields
    <3> QED  BY <1>1, <1>3, <3>1, GoneOn
  <2> QED  BY <2>1, <2>2
<1> QED  BY <1>2, <1>3 DEF CheckAvailability

LEMMA ValidateItemsOK ==
  ASSUME InductiveInvariant, NEW h \in Handlers, ValidateItems(h)
  PROVE  InductiveInvariant'
<1>1. /\ calls[h].pc = "validate" /\ UNCHANGED <<rows, outbox, bus, started, faults>>
      /\ calls[h] \in Call /\ ~calls[h].retry /\ calls[h].pc \notin Announcing
  BY FirstTry DEF ValidateItems, At, Announcing
<1>2. CASE Respond(h, 0)
  BY <1>1, <1>2, Ended
<1>3. CASE Goto(h, calls[h], "save") /\ UNCHANGED answers
  BY <1>1, <1>3, GoneOn
<1> QED  BY <1>2, <1>3 DEF ValidateItems

LEMMA SaveViolatesUniqueOK ==
  ASSUME InductiveInvariant, NEW h \in Handlers, SaveViolatesUnique(h)
  PROVE  InductiveInvariant'
<1>1. /\ calls[h].pc = "save" /\ UNCHANGED <<rows, outbox, bus, started, faults>>
      /\ calls[h] \in Call /\ ~calls[h].retry /\ calls[h].pc \notin Announcing
  BY FirstTry DEF SaveViolatesUnique, At, Announcing
<1>2. CASE calls[h].key = NoKey
  <2>1. Respond(h, 0)
    BY <1>2 DEF SaveViolatesUnique
  <2> QED  BY <1>1, <2>1, Ended
<1>3. CASE calls[h].key # NoKey
  <2>1. Goto(h, calls[h], "lookupAgain") /\ UNCHANGED answers
    BY <1>3 DEF SaveViolatesUnique
  <2>2. calls[h].op = "createOrder"
    BY <1>1, <1>3, CallFields DEF InductiveInvariant, CallsOK, PathOK
  <2> QED  BY <1>1, <2>1, <2>2, GoneOn
<1> QED  BY <1>2, <1>3

LEMMA LookupAgainOK ==
  ASSUME InductiveInvariant, NEW h \in Handlers, LookupAgain(h)
  PROVE  InductiveInvariant'
<1>1. /\ calls[h].pc = "lookupAgain" /\ UNCHANGED <<rows, outbox, bus, started, faults>>
      /\ calls[h] \in Call /\ ~calls[h].retry /\ calls[h].pc \notin Announcing
  BY FirstTry DEF LookupAgain, At, Announcing
<1>2. CASE OrderOf(calls[h].key) = {}
  <2>1. Respond(h, 0)
    BY <1>2 DEF LookupAgain
  <2> QED  BY <1>1, <2>1, Ended
<1>3. CASE OrderOf(calls[h].key) # {}
  <2>1. PICK o \in OrderOf(calls[h].key) : Respond(h, o)
    BY <1>3 DEF LookupAgain
  <2>2. o \in Nat /\ o # 0
    BY <2>1, FoundOrder DEF InductiveInvariant
  <2> QED  BY <1>1, <2>1, <2>2, Ended
<1> QED  BY <1>2, <1>3

LEMMA AwaitPaymentConflictOK ==
  ASSUME InductiveInvariant, NEW h \in Handlers, AwaitPaymentConflict(h)
  PROVE  InductiveInvariant'
<1>1. /\ calls[h].pc = "finalize" /\ UNCHANGED <<rows, outbox, bus, started, faults>>
      /\ Respond(h, 0)
  BY DEF AwaitPaymentConflict, At
<1>2. calls[h] \in Call /\ ~calls[h].retry
  BY <1>1, FirstTry DEF Announcing
<1> QED  BY <1>1, <1>2, Ended

LEMMA FailOK ==
  ASSUME InductiveInvariant, NEW h \in Handlers, Fail(h)
  PROVE  InductiveInvariant'
<1>1. /\ calls[h] \in Call /\ Respond(h, 0) /\ UNCHANGED <<rows, outbox, bus, started>>
      /\ faults' = faults + 1 /\ faults < MaxFaults
  BY BusyCall DEF Fail, At, InductiveInvariant
<1>2. faults' \in 0..MaxFaults /\ faults' # 0 /\ started' \in 0..MaxCalls
  BY <1>1, IntakeAssumed DEF InductiveInvariant, TypeOK
<1>3. Grows
  BY <1>1 DEF Grows
<1>4. /\ answers' \subseteq Answer /\ AnswersNameTheirRow' /\ RetryIsAnswered'
      /\ calls' = [calls EXCEPT ![h] = Idle]
  BY <1>1, <1>2, <1>3, Answered DEF InductiveInvariant
<1>5. PathOK(Idle)'
  BY IdlePoint DEF PathOK
<1> QED  BY <1>1, <1>2, <1>4, <1>5, IdlePoint, QuietStep

-----------------------------------------------------------------------------
(* The row.                                                                *)

LEMMA NewRowTyped ==
  ASSUME NEW c \in Call
  PROVE  /\ NewRow(c) \in Row /\ NewRow(c).key = c.key /\ NewRow(c).status \in {"DRAFT", "CREATED"}
         /\ NewRow(c).total \in Nat /\ (c.op = "createDraft" => NewRow(c).total = 0)
BY CallFields DEF NewRow, Row, Base

LEMMA SaveOrderOK ==
  ASSUME InductiveInvariant, NEW h \in Handlers, SaveOrder(h)
  PROVE  InductiveInvariant'
<1> USE DEF InductiveInvariant
<1>1. /\ calls[h].pc = "save" /\ UNCHANGED <<outbox, answers, bus, started, faults>>
      /\ calls[h] \in Call /\ ~calls[h].retry /\ calls[h].pc \notin Announcing
      /\ OrderOf(calls[h].key) = {}
  BY FirstTry DEF SaveOrder, At, Announcing
<1>2. PICK o : o = Len(rows) + 1
  OBVIOUS
<1>3. PICK row : row = NewRow(calls[h])
  OBVIOUS
<1>4. /\ row \in Row /\ row.key = calls[h].key /\ row.status \in {"DRAFT", "CREATED"}
      /\ row.total \in Nat /\ (calls[h].op = "createDraft" => row.total = 0)
  BY <1>1, <1>3, NewRowTyped
<1>5. /\ rows' \in Seq(Row) /\ DOMAIN rows' = DOMAIN rows \cup {o} /\ o \in Nat
      /\ o \notin DOMAIN rows /\ rows'[o] = row /\ \A p \in DOMAIN rows : rows'[p] = rows[p]
      /\ \A x : Events(x, o) = {}
  BY <1>1, <1>2, <1>3, <1>4, InsertedRow DEF SaveOrder, Insert
<1>6. PICK c : c = [calls[h] EXCEPT !.order = o, !.total = row.total, !.pc = "publishCart"]
  OBVIOUS
<1>7. /\ c \in Call /\ c.pc = "publishCart" /\ c.order = o /\ c.key = calls[h].key
      /\ c.op = calls[h].op /\ ~c.retry
  BY <1>1, <1>4, <1>5, <1>6, CallFields DEF Call, Points
<1>8. calls' = [calls EXCEPT ![h] = c]
  BY <1>1, <1>2, <1>3, <1>6 DEF SaveOrder, Insert, Goto
<1>9. Grows /\ \A x, p : Events(x, p)' = Events(x, p)
  BY <1>1, <1>5 DEF Grows, Events
<1>10. Moves(h, c)
  BY <1>1, <1>5, <1>7, <1>8, <1>9 DEF Moves
<1>11. AnnouncedSoFar(c)'
  BY <1>5, <1>7, <1>9 DEF AnnouncedSoFar, CartOpened, ChargeTold
<1>12. RowInHand(c)'
  BY <1>4, <1>5, <1>7, <1>11 DEF RowInHand
<1>13. PathOK(c)'
  BY <1>1, <1>7 DEF PathOK, CallsOK
<1>14. CallsOK'
  BY <1>7, <1>10, <1>12, <1>13, MovedCalls
<1>15. StillToAnnounce'
  <2>1. \A p : ~Owns(h, p)
    BY <1>1 DEF Owns
  <2>2. c.pc \in Announcing
    BY <1>7 DEF Announcing
  <2> QED  BY <1>1, <1>5, <1>7, <1>10, <2>1, <2>2, MovedStill
<1>16. TypeOK'
  <2>1. calls' \in [Handlers -> Call \cup {Idle}]
    BY <1>7, <1>8, SetCall
  <2>2. \A e \in DOMAIN outbox : outbox[e].order \in DOMAIN rows'
    BY <1>5 DEF TypeOK
  <2> QED  BY <1>1, <1>5, <2>1, <2>2 DEF TypeOK, bus
<1>17. AnswersNameTheirRow' /\ RetryIsAnswered'
  BY <1>1, <1>9, NoAnswer
<1>18. KeysAreUnique'
  <2>1. ASSUME NEW p \in DOMAIN rows, rows[p].key = row.key, row.key # NoKey
        PROVE  FALSE
    BY <1>1, <1>4, <2>1 DEF OrderOf
  <2> QED  BY <1>5, <2>1 DEF KeysAreUnique
<1>19. EventsOnce'
  BY <1>1 DEF EventsOnce
<1>20. ItemsBeforeCharge'
  BY <1>5, <1>9 DEF ItemsBeforeCharge
<1>21. RecordedAsCharged'
  BY <1>1, <1>4, <1>5, <1>9 DEF RecordedAsCharged
<1> QED  BY <1>14, <1>15, <1>16, <1>17, <1>18, <1>19, <1>20, <1>21

\* A row that a call owns is there, and nobody else's.
LEMMA OwnedRow ==
  ASSUME InductiveInvariant, NEW h \in Handlers, calls[h].pc \in Announcing
  PROVE  /\ calls[h] \in Call /\ ~calls[h].retry /\ RowInHand(calls[h])
         /\ calls[h].order \in DOMAIN rows /\ calls[h].order \in Nat /\ calls[h].order # 0
         /\ calls[h].key # NoKey => calls[h].order \in OrderOf(calls[h].key)
<1>1. calls[h] \in Call /\ ~calls[h].retry
  BY FirstTry
<1>2. RowInHand(calls[h]) /\ calls[h].order \in DOMAIN rows
      /\ rows[calls[h].order].key = calls[h].key
  BY DEF InductiveInvariant, CallsOK, OwnerOK, RowInHand
<1>3. calls[h].order \in Nat /\ calls[h].order # 0
  BY <1>2, RowFields DEF InductiveInvariant, TypeOK
<1> QED  BY <1>1, <1>2, <1>3 DEF OrderOf

\* Nobody but its owner writes a row or tells of it.
LEMMA AwaitPaymentOK ==
  ASSUME InductiveInvariant, NEW h \in Handlers, AwaitPayment(h)
  PROVE  InductiveInvariant'
<1> USE DEF InductiveInvariant
<1>0. PICK o : o = calls[h].order
  OBVIOUS
<1>1. /\ calls[h].pc = "finalize" /\ UNCHANGED <<outbox, bus, started, faults>>
      /\ Respond(h, o)
  BY <1>0 DEF AwaitPayment, At
<1>2. /\ calls[h] \in Call /\ RowInHand(calls[h]) /\ ~calls[h].retry
      /\ o \in DOMAIN rows /\ o \in Nat /\ o # 0
      /\ calls[h].key # NoKey => o \in OrderOf(calls[h].key)
  BY <1>0, <1>1, OwnedRow DEF Announcing
<1>3. PICK row : row = [rows[o] EXCEPT !.status = "PENDING_PAYMENT", !.total = calls[h].total]
  OBVIOUS
<1>4. /\ row \in Row /\ row.key = rows[o].key /\ row.status = "PENDING_PAYMENT"
      /\ row.total = calls[h].total
  BY <1>2, <1>3, CallFields, RowFields DEF Row
<1>5. rows' = [rows EXCEPT ![o] = row]
  BY <1>0, <1>2, <1>3 DEF AwaitPayment
<1>6. /\ rows' \in Seq(Row) /\ DOMAIN rows' = DOMAIN rows /\ rows'[o] = row
      /\ \A p \in DOMAIN rows : p # o => rows'[p] = rows[p]
  BY <1>2, <1>4, <1>5, UpdatedRow
<1>7. Grows /\ \A x, p : Events(x, p)' = Events(x, p)
  BY <1>1, <1>4, <1>6 DEF Grows, Events
<1>8. /\ answers' \subseteq Answer /\ AnswersNameTheirRow' /\ RetryIsAnswered'
      /\ calls' = [calls EXCEPT ![h] = Idle]
  BY <1>1, <1>2, <1>7, Answered
<1>9. \A p : Owns(h, p) <=> p = o
  BY <1>0, <1>1 DEF Owns, Announcing
<1>10. Moves(h, Idle)
  BY <1>1, <1>6, <1>7, <1>8, <1>9, IdlePoint DEF Moves
<1>11. RowInHand(Idle)' /\ PathOK(Idle)'
  BY IdlePoint DEF RowInHand, PathOK
<1>12. CallsOK'
  BY <1>10, <1>11, MovedCalls
<1>13. PICK e \in Events("order.order.created", o) : outbox[e].total = calls[h].total
  BY <1>0, <1>1, <1>2 DEF RowInHand, AnnouncedSoFar, Announcing
<1>14. CartOpened(o)' /\ ChargeTold(o)'
  BY <1>2, <1>7, <1>13 DEF ItemsBeforeCharge, CartOpened, ChargeTold
<1>15. StillToAnnounce'
  BY <1>1, <1>6, <1>9, <1>10, <1>14, MovedStill
<1>16. TypeOK'
  <2>1. calls' \in [Handlers -> Call \cup {Idle}]
    BY <1>8, SetCall
  <2> QED  BY <1>1, <1>6, <1>8, <2>1 DEF TypeOK, bus
<1>17. KeysAreUnique'
  BY <1>4, <1>6 DEF KeysAreUnique
<1>18. EventsOnce'
  BY <1>1 DEF EventsOnce
<1>19. ItemsBeforeCharge'
  BY <1>6, <1>7 DEF ItemsBeforeCharge
<1>20. RecordedAsCharged'
  BY <1>1, <1>4, <1>6, <1>7, <1>13 DEF RecordedAsCharged
<1> QED  BY <1>8, <1>12, <1>15, <1>16, <1>17, <1>18, <1>19, <1>20

LEMMA CancelOrderOK ==
  ASSUME InductiveInvariant, NEW o \in DOMAIN rows, CancelOrder(o)
  PROVE  InductiveInvariant'
<1> USE DEF InductiveInvariant
<1>1. UNCHANGED <<outbox, calls, answers, bus, started, faults>>
  BY DEF CancelOrder
<1>2. PICK row : row = [rows[o] EXCEPT !.status = "CANCELLED"]
  OBVIOUS
<1>3. /\ row \in Row /\ row.key = rows[o].key /\ row.status = "CANCELLED"
      /\ row.total = rows[o].total
  BY <1>2, RowFields DEF Row
<1>4. rows' = [rows EXCEPT ![o] = row]
  BY <1>2 DEF CancelOrder
<1>5. /\ rows' \in Seq(Row) /\ DOMAIN rows' = DOMAIN rows /\ rows'[o] = row
      /\ \A p \in DOMAIN rows : p # o => rows'[p] = rows[p]
  BY <1>3, <1>4, UpdatedRow
<1>6. /\ Grows /\ \A x, p : Events(x, p)' = Events(x, p)
      /\ \A p \in DOMAIN rows : rows'[p].key = rows[p].key /\ rows'[p].total = rows[p].total
           /\ (rows'[p].status = rows[p].status \/ rows'[p].status = "CANCELLED")
  BY <1>1, <1>3, <1>5 DEF Grows, Events
<1>7. CallsOK'
  <2>1. ASSUME NEW h \in Handlers PROVE PathOK(calls[h])'
    BY <1>1, <1>6, KeysKeepTheirOrder DEF CallsOK, PathOK
  <2>2. ASSUME NEW h \in Handlers PROVE OwnerOK(h)'
    <3>1. OwnerOK(h)
      BY DEF CallsOK
    <3>2. AnnouncedSoFar(calls[h]) => AnnouncedSoFar(calls[h])'
      BY <1>1, <1>6 DEF AnnouncedSoFar, CartOpened, ChargeTold, ItemsTold
    <3>3. calls' = calls /\ \A g \in Handlers : Owns(g, calls[h].order)' => Owns(g, calls[h].order)
      BY <1>1 DEF Owns
    <3> QED  BY <1>5, <1>6, <3>1, <3>2, <3>3 DEF OwnerOK
  <2> QED  BY <2>1, <2>2 DEF CallsOK
<1>8. StillToAnnounce'
  BY <1>1, <1>5, <1>6 DEF StillToAnnounce, CartOpened, ChargeTold, Owns
<1>9. TypeOK'
  BY <1>1, <1>5 DEF TypeOK, bus
<1>10. AnswersNameTheirRow' /\ RetryIsAnswered'
  BY <1>1, <1>6, NoAnswer
<1>11. KeysAreUnique'
  BY <1>5, <1>6 DEF KeysAreUnique
<1>12. EventsOnce'
  BY <1>1 DEF EventsOnce
<1>13. ItemsBeforeCharge'
  BY <1>5, <1>6 DEF ItemsBeforeCharge
<1>14. RecordedAsCharged'
  BY <1>1, <1>5, <1>6 DEF RecordedAsCharged
<1> QED  BY <1>7, <1>8, <1>9, <1>10, <1>11, <1>12, <1>13, <1>14

-----------------------------------------------------------------------------
(* The announcements.                                                      *)

\* An owner inserts an event that its order has not yet, and goes on or ends.
LEMMA PublishStep ==
  ASSUME InductiveInvariant, NEW h \in Handlers, calls[h].pc \in Announcing,
         NEW event \in {"order.cart.created", "order.cart.item_changed", "order.order.created"},
         NEW total \in Nat, NEW o, o = calls[h].order, Publish(event, o, total),
         Events(event, o) = {}, event = "order.order.created" => ItemsTold(o),
         NEW c \in Call \cup {Idle}, calls' = [calls EXCEPT ![h] = c],
         c.pc \in Announcing => c.order = o, RowInHand(c)', PathOK(c)',
         c.pc \notin Announcing => CartOpened(o)' /\ (rows[o].total > 0 => ChargeTold(o)'),
         answers' \subseteq Answer, AnswersNameTheirRow', RetryIsAnswered',
         UNCHANGED <<rows, bus, started, faults>>
  PROVE  InductiveInvariant'
<1> USE DEF InductiveInvariant
<1>1. o \in DOMAIN rows /\ \A p : Owns(h, p) <=> p = o
  BY OwnedRow DEF Owns
<1>2. PICK n : Published(event, o, total, n)
  BY <1>1, PublishedEvents
<1>3. /\ outbox' \in Seq(Event) /\ DOMAIN outbox' = DOMAIN outbox \cup {n} /\ n \notin DOMAIN outbox
      /\ \A e \in DOMAIN outbox : outbox'[e] = outbox[e] /\ e < n
      /\ outbox'[n].event = event /\ outbox'[n].order = o /\ outbox'[n].total = total
      /\ Events(event, o)' = Events(event, o) \cup {n}
      /\ \A x, p : (x = event /\ p = o) \/ Events(x, p)' = Events(x, p)
  BY <1>2 DEF Published
<1>4. Grows
  BY DEF Grows
<1>5. Moves(h, c)
  BY <1>1, <1>3, <1>4 DEF Moves
<1>6. CallsOK'
  BY <1>5, MovedCalls
<1>7. StillToAnnounce'
  BY <1>1, <1>5, MovedStill
<1>8. TypeOK'
  <2>1. calls' \in [Handlers -> Call \cup {Idle}]
    BY SetCall
  <2>2. \A e \in DOMAIN outbox' : outbox'[e].order \in DOMAIN rows
    BY <1>1, <1>3 DEF TypeOK
  <2> QED  BY <1>3, <2>1, <2>2 DEF TypeOK, bus
<1>9. KeysAreUnique'
  BY DEF KeysAreUnique
<1>10. EventsOnce'
  <2>1. \A e \in DOMAIN outbox : ~(outbox[e].event = event /\ outbox[e].order = o)
    BY DEF Events
  <2> QED  BY <1>3, <2>1 DEF EventsOnce
<1>11. ItemsBeforeCharge'
  <2> SUFFICES ASSUME NEW p \in DOMAIN rows, NEW e \in Events("order.order.created", p)'
               PROVE  \E i \in Events("order.cart.created", p)',
                         j \in Events("order.cart.item_changed", p)' : i < j /\ j < e
    BY DEF ItemsBeforeCharge
  <2>1. CASE e \in Events("order.order.created", p)
    BY <1>3, <2>1 DEF ItemsBeforeCharge
  <2>2. CASE e \notin Events("order.order.created", p)
    <3>1. e = n /\ p = o /\ event = "order.order.created"
      BY <1>3, <2>2
    <3>2. PICK i \in Events("order.cart.created", o), j \in Events("order.cart.item_changed", o) : i < j
      BY <3>1 DEF ItemsTold
    <3>3. j < n
      BY <1>3, <3>2 DEF Events
    <3> QED  BY <1>3, <3>1, <3>2, <3>3
  <2> QED  BY <2>1, <2>2
<1>12. RecordedAsCharged'
  <2>1. \A x, p : Events(x, p) \subseteq DOMAIN outbox
    BY DEF Events
  <2> QED  BY <1>3, <2>1 DEF RecordedAsCharged
<1> QED  BY <1>6, <1>7, <1>8, <1>9, <1>10, <1>11, <1>12

LEMMA PublishCartCreatedOK ==
  ASSUME InductiveInvariant, NEW h \in Handlers, PublishCartCreated(h)
  PROVE  InductiveInvariant'
<1>0. PICK o, k : o = calls[h].order /\ k = calls[h]
  OBVIOUS
<1>1. /\ k.pc = "publishCart" /\ calls[h].pc \in Announcing
      /\ Publish("order.cart.created", o, 0) /\ UNCHANGED <<rows, bus, started, faults>>
  BY <1>0 DEF PublishCartCreated, At, Announcing
<1>2. /\ k \in Call /\ ~k.retry /\ RowInHand(k) /\ o \in DOMAIN rows /\ o \in Nat /\ o # 0
      /\ k.order = o /\ (k.key # NoKey => o \in OrderOf(k.key))
  BY <1>0, <1>1, OwnedRow
<1>3. /\ rows[o].key = k.key /\ rows[o].status # "PENDING_PAYMENT"
      /\ k.op = "createDraft" => rows[o].total = 0
      /\ Events("order.cart.created", o) = {} /\ Events("order.cart.item_changed", o) = {}
      /\ Events("order.order.created", o) = {}
  BY <1>1, <1>2 DEF RowInHand, AnnouncedSoFar, Announcing, CartOpened, ChargeTold
<1>4. PICK n : Published("order.cart.created", o, 0, n)
  BY <1>1, <1>2, PublishedEvents DEF InductiveInvariant
<1>5. CartOpened(o)'
  BY <1>4 DEF CartOpened, Published
<1>6. Grows /\ k.op \in {"createOrder", "createDraft"} /\ PathOK(k) /\ rows[o].total \in Nat
  BY <1>0, <1>1, <1>2, CallFields, RowFields DEF Grows, InductiveInvariant, CallsOK
<1>7. CASE k.op = "createDraft"
  <2>1. Respond(h, o)
    BY <1>0, <1>7 DEF PublishCartCreated
  <2>2. /\ answers' \subseteq Answer /\ AnswersNameTheirRow' /\ RetryIsAnswered'
        /\ calls' = [calls EXCEPT ![h] = Idle]
    BY <1>0, <1>1, <1>2, <1>6, <2>1, Answered DEF InductiveInvariant
  <2>3. RowInHand(Idle)' /\ PathOK(Idle)' /\ Idle.pc \notin Announcing
    BY IdlePoint DEF RowInHand, PathOK
  <2>4. ~(rows[o].total > 0)
    BY <1>3, <1>7
  <2> QED  BY <1>0, <1>1, <1>3, <1>5, <2>2, <2>3, <2>4, PublishStep
<1>8. CASE k.op # "createDraft"
  <2>1. Goto(h, k, "publishItems") /\ UNCHANGED answers
    BY <1>0, <1>8 DEF PublishCartCreated
  <2>2. PICK c : c = [k EXCEPT !.pc = "publishItems"]
    OBVIOUS
  <2>3. c \in Call /\ c.pc = "publishItems" /\ c.order = o /\ c.key = k.key /\ c.op = k.op /\ ~c.retry
    BY <1>2, <2>2, CallFields DEF Call, Points
  <2>4. calls' = [calls EXCEPT ![h] = c]
    BY <2>1, <2>2 DEF Goto
  <2>5. answers' \subseteq Answer /\ AnswersNameTheirRow' /\ RetryIsAnswered'
    BY <1>1, <1>6, <2>1, NoAnswer DEF InductiveInvariant
  <2>6. AnnouncedSoFar(c)'
    BY <1>3, <1>4, <1>5, <2>3 DEF AnnouncedSoFar, CartOpened, ChargeTold, Published
  <2>7. RowInHand(c)'
    BY <1>1, <1>2, <1>3, <1>8, <2>3, <2>6 DEF RowInHand
  <2>8. PathOK(c)' /\ c.pc \in Announcing
    BY <1>6, <1>8, <2>3 DEF PathOK, Announcing
  <2> QED  BY <1>0, <1>1, <1>3, <2>3, <2>4, <2>5, <2>7, <2>8, PublishStep
<1> QED  BY <1>7, <1>8

LEMMA PublishCartItemsOK ==
  ASSUME InductiveInvariant, NEW h \in Handlers, PublishCartItems(h)
  PROVE  InductiveInvariant'
<1>0. PICK o, k : o = calls[h].order /\ k = calls[h]
  OBVIOUS
<1>1. /\ k.pc = "publishItems" /\ calls[h].pc \in Announcing
      /\ Publish("order.cart.item_changed", o, 0) /\ UNCHANGED <<rows, answers, bus, started, faults>>
      /\ Goto(h, k, "publishCreated")
  BY <1>0 DEF PublishCartItems, At, Announcing
<1>2. /\ k \in Call /\ ~k.retry /\ RowInHand(k) /\ o \in DOMAIN rows /\ o \in Nat /\ o # 0
      /\ k.order = o
  BY <1>0, <1>1, OwnedRow
<1>3. /\ rows[o].key = k.key /\ rows[o].status # "PENDING_PAYMENT" /\ k.op # "createDraft"
      /\ Events("order.cart.created", o) # {} /\ Events("order.cart.item_changed", o) = {}
      /\ Events("order.order.created", o) = {}
  BY <1>1, <1>2 DEF RowInHand, AnnouncedSoFar, Announcing, CartOpened, ChargeTold
<1>4. PICK n : Published("order.cart.item_changed", o, 0, n)
  BY <1>1, <1>2, PublishedEvents DEF InductiveInvariant
<1>5. /\ Events("order.cart.item_changed", o)' = Events("order.cart.item_changed", o) \cup {n}
      /\ \A x, p : (x = "order.cart.item_changed" /\ p = o) \/ Events(x, p)' = Events(x, p)
      /\ \A e \in DOMAIN outbox : e < n
  BY <1>4 DEF Published
<1>6. ItemsTold(o)'
  <2>1. PICK i \in Events("order.cart.created", o) : i < n
    BY <1>3, <1>5 DEF Events
  <2> QED  BY <1>5, <2>1 DEF ItemsTold
<1>7. PICK c : c = [k EXCEPT !.pc = "publishCreated"]
  OBVIOUS
<1>8. c \in Call /\ c.pc = "publishCreated" /\ c.order = o /\ c.key = k.key /\ c.op = k.op /\ ~c.retry
  BY <1>2, <1>7, CallFields DEF Call, Points
<1>9. calls' = [calls EXCEPT ![h] = c]
  BY <1>1, <1>7 DEF Goto
<1>10. Grows
  BY <1>1 DEF Grows
<1>11. answers' \subseteq Answer /\ AnswersNameTheirRow' /\ RetryIsAnswered'
  BY <1>1, <1>10, NoAnswer DEF InductiveInvariant
<1>12. AnnouncedSoFar(c)'
  BY <1>3, <1>5, <1>6, <1>8 DEF AnnouncedSoFar, CartOpened, ChargeTold
<1>13. RowInHand(c)'
  BY <1>1, <1>2, <1>3, <1>8, <1>12 DEF RowInHand
<1>14. PathOK(c)' /\ c.pc \in Announcing
  BY <1>3, <1>8 DEF PathOK, Announcing
<1> QED  BY <1>0, <1>1, <1>3, <1>8, <1>9, <1>11, <1>13, <1>14, PublishStep

LEMMA PublishCreatedOK ==
  ASSUME InductiveInvariant, NEW h \in Handlers, PublishCreated(h)
  PROVE  InductiveInvariant'
<1>0. PICK o, k : o = calls[h].order /\ k = calls[h]
  OBVIOUS
<1>1. PICK fee \in Fees :
        /\ Publish("order.order.created", o, k.total + fee)
        /\ IF k.cash THEN Respond(h, o)
           ELSE Goto(h, [k EXCEPT !.total = @ + fee], "finalize") /\ UNCHANGED answers
  BY <1>0 DEF PublishCreated
<1>2. /\ k.pc = "publishCreated" /\ calls[h].pc \in Announcing
      /\ UNCHANGED <<rows, bus, started, faults>>
  BY <1>0 DEF PublishCreated, At, Announcing
<1>3. /\ k \in Call /\ ~k.retry /\ RowInHand(k) /\ o \in DOMAIN rows /\ o \in Nat /\ o # 0
      /\ k.order = o /\ (k.key # NoKey => o \in OrderOf(k.key))
  BY <1>0, <1>2, OwnedRow
<1>4. /\ rows[o].key = k.key /\ rows[o].status # "PENDING_PAYMENT" /\ k.op # "createDraft"
      /\ ItemsTold(o) /\ Events("order.order.created", o) = {}
  BY <1>2, <1>3 DEF RowInHand, AnnouncedSoFar, Announcing, ChargeTold
<1>5. PICK t \in Nat : t = k.total + fee
  BY <1>1, <1>3, CallFields, IntakeAssumed
<1>6. PICK n : Published("order.order.created", o, t, n)
  BY <1>1, <1>3, <1>5, PublishedEvents DEF InductiveInvariant
<1>7. /\ Events("order.order.created", o)' = Events("order.order.created", o) \cup {n}
      /\ \A x, p : (x = "order.order.created" /\ p = o) \/ Events(x, p)' = Events(x, p)
      /\ outbox'[n].total = t
  BY <1>6 DEF Published
<1>8. CartOpened(o)' /\ ChargeTold(o)'
  BY <1>4, <1>7 DEF CartOpened, ChargeTold, ItemsTold
<1>9. Grows
  BY <1>2 DEF Grows
<1>10. CASE k.cash
  <2>1. Respond(h, o)
    BY <1>1, <1>10
  <2>2. /\ answers' \subseteq Answer /\ AnswersNameTheirRow' /\ RetryIsAnswered'
        /\ calls' = [calls EXCEPT ![h] = Idle]
    BY <1>0, <1>2, <1>3, <1>9, <2>1, Answered DEF InductiveInvariant
  <2>3. RowInHand(Idle)' /\ PathOK(Idle)' /\ Idle.pc \notin Announcing
    BY IdlePoint DEF RowInHand, PathOK
  <2> QED  BY <1>0, <1>1, <1>2, <1>4, <1>5, <1>8, <2>2, <2>3, PublishStep
<1>11. CASE ~k.cash
  <2>1. Goto(h, [k EXCEPT !.total = t], "finalize") /\ UNCHANGED answers
    BY <1>1, <1>5, <1>11
  <2>2. PICK c : c = [k EXCEPT !.total = t, !.pc = "finalize"]
    OBVIOUS
  <2>3. /\ c \in Call /\ c.pc = "finalize" /\ c.order = o /\ c.key = k.key /\ c.op = k.op
        /\ ~c.retry /\ c.total = t
    BY <1>3, <2>2, CallFields DEF Call, Points
  <2>4. calls' = [calls EXCEPT ![h] = c]
    BY <2>1, <2>2 DEF Goto
  <2>5. answers' \subseteq Answer /\ AnswersNameTheirRow' /\ RetryIsAnswered'
    BY <1>2, <1>9, <2>1, NoAnswer DEF InductiveInvariant
  <2>6. AnnouncedSoFar(c)'
    BY <1>7, <2>3 DEF AnnouncedSoFar
  <2>7. RowInHand(c)'
    BY <1>2, <1>3, <1>4, <2>3, <2>6 DEF RowInHand
  <2>8. PathOK(c)' /\ c.pc \in Announcing
    BY <1>4, <2>3 DEF PathOK, Announcing
  <2> QED  BY <1>0, <1>1, <1>2, <1>4, <1>5, <2>3, <2>4, <2>5, <2>7, <2>8, PublishStep
<1> QED  BY <1>10, <1>11

-----------------------------------------------------------------------------
(* The store, the bus and the processes.                                   *)

\* What only the orders know of is left alone by the store and the bus.
LEMMA OrdersKept ==
  ASSUME InductiveInvariant, UNCHANGED <<rows, outbox, calls, answers, started, faults>>,
         topic' \subseteq StoreStatus, directory' \in [Instances -> StoreStatus \cup {"unknown"}]
  PROVE  InductiveInvariant'
<1> USE DEF InductiveInvariant
<1>1. TypeOK'
  BY DEF TypeOK
<1>2. \A x, o : Events(x, o)' = Events(x, o)
  BY DEF Events
<1>3. Grows
  BY DEF Grows
<1>4. AnswersNameTheirRow' /\ RetryIsAnswered'
  BY <1>3, NoAnswer
<1>5. ASSUME NEW h \in Handlers
      PROVE  OwnerOK(h)' /\ PathOK(calls[h])'
  <2>1. OwnerOK(h)'
    BY <1>2 DEF CallsOK, OwnerOK, Owns, AnnouncedSoFar, CartOpened, ItemsTold, ChargeTold
  <2>2. PathOK(calls[h])'
    BY DEF CallsOK, PathOK, OrderOf
  <2> QED  BY <2>1, <2>2
<1>6. CallsOK'
  BY <1>5 DEF CallsOK
<1>7. StillToAnnounce'
  BY <1>2 DEF StillToAnnounce, CartOpened, ChargeTold, Owns
<1>8. KeysAreUnique' /\ EventsOnce'
  BY DEF KeysAreUnique, EventsOnce
<1>9. ItemsBeforeCharge' /\ RecordedAsCharged'
  BY <1>2 DEF ItemsBeforeCharge, RecordedAsCharged
<1> QED  BY <1>1, <1>4, <1>6, <1>7, <1>8, <1>9

LEMMA ChangeStoreOK ==
  ASSUME InductiveInvariant, ChangeStore
  PROVE  InductiveInvariant'
BY OrdersKept DEF ChangeStore, InductiveInvariant, TypeOK

LEMMA ApplyStatusChangedOK ==
  ASSUME InductiveInvariant, NEW i \in Instances, ApplyStatusChanged(i)
  PROVE  InductiveInvariant'
<1>1. PICK status \in topic : /\ directory' = [directory EXCEPT ![i] = status]
                              /\ topic' \in {topic, topic \ {status}}
  BY DEF ApplyStatusChanged
<1>2. topic' \subseteq StoreStatus /\ directory' \in [Instances -> StoreStatus \cup {"unknown"}]
  BY <1>1 DEF InductiveInvariant, TypeOK
<1> QED  BY <1>2, OrdersKept DEF ApplyStatusChanged

LEMMA RestartOK ==
  ASSUME InductiveInvariant, NEW i \in Instances, Restart(i)
  PROVE  InductiveInvariant'
<1> USE DEF InductiveInvariant
<1>1. /\ UNCHANGED <<rows, outbox, answers, topic, started>>
      /\ faults' = faults + 1 /\ faults < MaxFaults
      /\ calls' = [h \in Handlers |-> IF ~At(h, "idle") /\ calls[h].at = i THEN Idle ELSE calls[h]]
      /\ directory' = [directory EXCEPT ![i] = "unknown"]
  BY DEF Restart
<1>2. faults' \in 0..MaxFaults /\ faults' # 0
  BY <1>1, IntakeAssumed DEF TypeOK
<1>4. TypeOK'
  <2>1. calls' \in [Handlers -> Call \cup {Idle}]
    BY <1>1 DEF TypeOK
  <2>2. directory' \in [Instances -> StoreStatus \cup {"unknown"}]
    BY <1>1 DEF TypeOK
  <2> QED  BY <1>1, <1>2, <2>1, <2>2 DEF TypeOK
<1>5. \A x, o : Events(x, o)' = Events(x, o)
  BY <1>1 DEF Events
<1>6. \A h \in Handlers : calls'[h] = Idle \/ calls'[h] = calls[h]
  BY <1>1
<1>7. \A h \in Handlers, o \in DOMAIN rows : Owns(h, o)' => Owns(h, o)
  BY <1>6, IdlePoint DEF Owns
<1>8. CallsOK'
  <2> SUFFICES ASSUME NEW h \in Handlers PROVE OwnerOK(h)' /\ PathOK(calls[h])'
    BY DEF CallsOK
  <2>1. CASE calls'[h] = Idle
    BY <2>1, IdlePoint DEF OwnerOK, PathOK
  <2>2. CASE calls'[h] = calls[h]
    <3>1. PathOK(calls[h])'
      BY <1>1, <2>2 DEF CallsOK, PathOK, OrderOf
    <3>2. OwnerOK(h)
      BY DEF CallsOK
    <3>3. AnnouncedSoFar(calls[h]) => AnnouncedSoFar(calls[h])'
      BY <1>1, <1>5, <2>2 DEF AnnouncedSoFar, CartOpened, ItemsTold, ChargeTold
    <3>4. OwnerOK(h)'
      BY <1>1, <1>7, <2>2, <3>2, <3>3 DEF OwnerOK
    <3> QED  BY <3>1, <3>4
  <2> QED  BY <1>6, <2>1, <2>2
<1>9. Grows
  BY <1>1 DEF Grows
<1>10. AnswersNameTheirRow' /\ RetryIsAnswered'
  BY <1>1, <1>2, <1>9, NoAnswer
<1>11. StillToAnnounce'
  BY <1>2 DEF StillToAnnounce
<1>12. KeysAreUnique' /\ EventsOnce'
  BY <1>1 DEF KeysAreUnique, EventsOnce
<1>13. ItemsBeforeCharge' /\ RecordedAsCharged'
  BY <1>1, <1>5 DEF ItemsBeforeCharge, RecordedAsCharged
<1> QED  BY <1>4, <1>8, <1>10, <1>11, <1>12, <1>13

-----------------------------------------------------------------------------
(* The theorems.                                                           *)

LEMMA StutterOK ==
  ASSUME InductiveInvariant, UNCHANGED vars
  PROVE  InductiveInvariant'
<1>1. UNCHANGED <<rows, outbox, calls, answers, started, faults, topic, directory>>
  BY DEF vars, bus
<1> QED  BY <1>1, OrdersKept DEF InductiveInvariant, TypeOK

LEMMA NextOK ==
  ASSUME InductiveInvariant, [Next]_vars
  PROVE  InductiveInvariant'
<1>1. ASSUME NEW h \in Handlers, CreateOrder(h)
      PROVE  InductiveInvariant'
  BY <1>1, StartOK DEF CreateOrder
<1>2. ASSUME NEW h \in Handlers, CreateDraft(h)
      PROVE  InductiveInvariant'
  BY <1>2, StartOK DEF CreateDraft
<1>3. ASSUME NEW h \in Handlers, Step(h)
      PROVE  InductiveInvariant'
  BY <1>3, LookupOK, CheckAvailabilityOK, ValidateItemsOK, SaveOrderOK, SaveViolatesUniqueOK,
     LookupAgainOK, PublishCartCreatedOK, PublishCartItemsOK, PublishCreatedOK, AwaitPaymentOK,
     AwaitPaymentConflictOK DEF Step
<1>4. ASSUME NEW h \in Handlers, Fail(h)
      PROVE  InductiveInvariant'
  BY <1>4, FailOK
<1>5. ASSUME NEW o \in DOMAIN rows, CancelOrder(o)
      PROVE  InductiveInvariant'
  BY <1>5, CancelOrderOK
<1>6. ASSUME NEW i \in Instances, ApplyStatusChanged(i) \/ Restart(i)
      PROVE  InductiveInvariant'
  BY <1>6, ApplyStatusChangedOK, RestartOK
<1> QED  BY <1>1, <1>2, <1>3, <1>4, <1>5, <1>6, ChangeStoreOK, StutterOK DEF Next

(* Everything that the promises rest on holds in every reachable state.    *)
THEOREM IntakeInvariant == Spec => []InductiveInvariant
<1>1. Init => InductiveInvariant
  BY InitOK
<1>2. InductiveInvariant /\ [Next]_vars => InductiveInvariant'
  BY NextOK
<1> QED  BY <1>1, <1>2, PTL DEF Spec

(* Every reachable state is well typed: in particular an event names an    *)
(* order that is in the table.                                             *)
THEOREM TypeCorrect == Spec => []TypeOK
<1>1. InductiveInvariant => TypeOK
  BY DEF InductiveInvariant
<1> QED  BY <1>1, IntakeInvariant, PTL

(* However many clicks, retries and instances race, all the answers to one *)
(* Idempotency-Key name one order.                                         *)
THEOREM OneKeyOneOrder == Spec => []AnswersAgree
<1>1. InductiveInvariant => AnswersAgree
  <2> SUFFICES ASSUME InductiveInvariant, NEW a \in answers, NEW b \in answers,
                      a.key = b.key, a.order # 0, b.order # 0
               PROVE  a.order = b.order
    BY DEF AnswersAgree
  <2> USE DEF InductiveInvariant
  <2>1. a.order \in OrderOf(a.key) /\ b.order \in OrderOf(b.key)
    BY DEF AnswersNameTheirRow
  <2>2. rows[a.order].key = rows[b.order].key /\ rows[a.order].key # NoKey
        /\ a.order \in DOMAIN rows /\ b.order \in DOMAIN rows
    BY <2>1 DEF OrderOf
  <2> QED  BY <2>2 DEF KeysAreUnique
<1> QED  BY <1>1, IntakeInvariant, PTL

(* As long as nothing fails, a retry is answered with the order that its   *)
(* first request has placed, whatever became of the store since.           *)
THEOREM RetriesSucceed == Spec => []RetryIsAnswered
<1>1. InductiveInvariant => RetryIsAnswered
  BY DEF InductiveInvariant
<1> QED  BY <1>1, IntakeInvariant, PTL

\* A set whose members are equal has at most one.
LEMMA AtMostOne ==
  ASSUME NEW S, \A x, y \in S : x = y
  PROVE  Cardinality(S) <= 1
<1>1. CASE S = {}
  BY <1>1, FS_EmptySet
<1>2. CASE S # {}
  <2>1. PICK x \in S : TRUE
    BY <1>2
  <2>2. S = {x}
    BY <2>1
  <2> QED  BY <2>2, FS_Singleton
<1> QED  BY <1>1, <1>2

(* The three events of an order are inserted at most once each, and its    *)
(* items before its creation, even when calls of one key race.             *)
THEOREM AnnouncedOnce == Spec => []AnnouncedOnceInOrder
<1>1. InductiveInvariant => AnnouncedOnceInOrder
  <2> SUFFICES ASSUME InductiveInvariant PROVE AnnouncedOnceInOrder
    OBVIOUS
  <2>1. ASSUME NEW event, NEW o
        PROVE  Cardinality(Events(event, o)) <= 1
    <3>1. \A d, e \in Events(event, o) : d = e
      BY DEF InductiveInvariant, EventsOnce, Events
    <3> QED  BY <3>1, AtMostOne
  <2> QED  BY <2>1 DEF InductiveInvariant, ItemsBeforeCharge, AnnouncedOnceInOrder
<1> QED  BY <1>1, IntakeInvariant, PTL

(* Once the calls are over and nothing has failed, products and financial  *)
(* know of every order in the table.                                       *)
THEOREM NothingIsSilent == Spec => []NoSilentOrder
<1>1. InductiveInvariant => NoSilentOrder
  <2> SUFFICES ASSUME InductiveInvariant, Quiet, faults = 0, NEW o \in DOMAIN rows
               PROVE  /\ Events("order.cart.created", o) # {}
                      /\ rows[o].total > 0 => Events("order.order.created", o) # {}
    BY DEF NoSilentOrder
  <2>1. \A h \in Handlers : ~Owns(h, o)
    BY DEF Quiet, At, Owns, Announcing
  <2> QED  BY <2>1 DEF InductiveInvariant, StillToAnnounce, CartOpened, ChargeTold
<1> QED  BY <1>1, IntakeInvariant, PTL

(* The total of an order that waits for its payment is the one that        *)
(* financial-service was told, fee included.                               *)
THEOREM ChargedAsRecorded == Spec => []RecordedAsCharged
<1>1. InductiveInvariant => RecordedAsCharged
  BY DEF InductiveInvariant
<1> QED  BY <1>1, IntakeInvariant, PTL

=============================================================================
