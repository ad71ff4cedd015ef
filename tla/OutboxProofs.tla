---------------------------- MODULE OutboxProofs ----------------------------
(***************************************************************************)
(* Proofs about the outbox, for any number of events and workers and any   *)
(* limits: its types, that PUBLISHED means sent, that FAILED means that    *)
(* MAX_RETRIES attempts were made, and in which order the events leave.    *)
(***************************************************************************)
EXTENDS Outbox, FiniteSetTheorems, TLAPS

-----------------------------------------------------------------------------
(* Facts about values.                                                     *)

LEMMA RowFields ==
  ASSUME NEW r \in Row
  PROVE  /\ r.status \in OutboxStatus \cup {"none"}
         /\ r.retryCount \in 0 .. MAX_RETRIES /\ r.createdAt \in Nat
BY DEF Row

LEMMA WorkerFields ==
  ASSUME NEW k \in Worker
  PROVE  /\ k.pc \in {"idle", "publish", "save", "saveFailure"}
         /\ k.batch \subseteq Events /\ k.entity \in [Events -> Entity]
BY DEF Worker

LEMMA EntityFields ==
  ASSUME NEW x \in Entity
  PROVE  x.status \in OutboxStatus \cup {"none"} /\ x.retryCount \in 0 .. MAX_RETRIES
BY DEF Entity

(* What is true of an event stays true when more is sent and tried.        *)
LEMMA HonestKept ==
  ASSUME NEW x, x.retryCount \in Nat, NEW c \in Nat, NEW t \in Nat, NEW c2 \in Nat, NEW t2 \in Nat,
         c <= c2, t <= t2, Honest(x, c, t)
  PROVE  Honest(x, c2, t2)
BY DEF Honest

LEMMA NoEntityHonest ==
  ASSUME NEW c \in Nat, NEW t \in Nat
  PROVE  NoEntity \in Entity /\ Honest(NoEntity, c, t)
BY OutboxAssumption DEF NoEntity, Entity, Honest

(* The catch block gives an honest entity, given an attempt that the       *)
(* retryCount does not count yet.                                          *)
LEMMA FailedHonest ==
  ASSUME NEW x \in Entity, x.status # "FAILED", x.status # "none", NEW c \in Nat, NEW t \in Nat,
         Honest(x, c, t), x.retryCount < t
  PROVE  Failed(x) \in Entity /\ Failed(x).status # "none" /\ Honest(Failed(x), c, t)
<1>1. x.retryCount \in 0 .. MAX_RETRIES /\ x.retryCount # MAX_RETRIES
      /\ x.status \in OutboxStatus
  BY EntityFields DEF Honest
<1>2. x.retryCount + 1 \in 0 .. MAX_RETRIES /\ x.retryCount + 1 <= t
  BY <1>1, OutboxAssumption
<1>3. CASE x.retryCount + 1 >= MAX_RETRIES
  <2>1. Failed(x) = [status |-> "FAILED", retryCount |-> x.retryCount + 1]
    BY <1>3 DEF Failed
  <2>2. x.retryCount + 1 = MAX_RETRIES
    BY <1>2, <1>3, OutboxAssumption
  <2> QED  BY <1>2, <2>1, <2>2 DEF Entity, OutboxStatus, Honest
<1>4. CASE ~(x.retryCount + 1 >= MAX_RETRIES)
  <2>1. Failed(x) = [status |-> x.status, retryCount |-> x.retryCount + 1]
    BY <1>4 DEF Failed
  <2>2. x.retryCount + 1 # MAX_RETRIES
    BY <1>1, <1>4, OutboxAssumption
  <2> QED  BY <1>1, <1>2, <2>1, <2>2 DEF Entity, OutboxStatus, Honest
<1> QED  BY <1>3, <1>4

-----------------------------------------------------------------------------
(* Facts about states.                                                     *)

(* A worker handles one entity at a time.                                  *)
LEMMA OneHandled ==
  ASSUME TypeOK, Ordered, NEW w \in Workers, WorkerOK(w),
         NEW e \in Events, NEW f \in Events, Handles(w, e), Handles(w, f)
  PROVE  e = f
<1>1. e \in Inserted /\ f \in Inserted
  BY DEF WorkerOK, Handles
<1>2. rows[e].createdAt \in Nat /\ rows[f].createdAt \in Nat
  BY RowFields DEF TypeOK
<1>3. rows[e].createdAt <= rows[f].createdAt /\ rows[f].createdAt <= rows[e].createdAt
  BY DEF Handles
<1> QED  BY <1>1, <1>2, <1>3 DEF Ordered

\* What no step takes back.
Monotone ==
  /\ Inserted \subseteq Inserted'
  /\ \A e \in Inserted : rows'[e].createdAt = rows[e].createdAt
  /\ sent' \in [Events -> Nat] /\ attempts' \in [Events -> Nat]
  /\ \A e \in Events : sent[e] <= sent'[e] /\ attempts[e] <= attempts'[e]

(* A worker that does not move keeps its invariant.                        *)
LEMMA OtherWorker ==
  ASSUME TypeOK, Monotone, NEW w \in Workers, WorkerOK(w), workers'[w] = workers[w]
  PROVE  WorkerOK(w)'
<1>1. workers[w] \in Worker /\ workers[w].batch \subseteq Inserted
  BY DEF TypeOK, WorkerOK
<1>2. ASSUME NEW e \in Events
      PROVE  /\ Entry(w, e)' = Entry(w, e) /\ Entry(w, e) \in Entity
             /\ sent[e] \in Nat /\ attempts[e] \in Nat /\ sent'[e] \in Nat /\ attempts'[e] \in Nat
             /\ sent[e] <= sent'[e] /\ attempts[e] <= attempts'[e]
  BY <1>1, <1>2, WorkerFields DEF Entry, TypeOK, Monotone
<1>3. ASSUME NEW e \in Events
      PROVE  Honest(Entry(w, e)', sent'[e], attempts'[e])
  <2>1. Entry(w, e).retryCount \in Nat
    BY <1>2, EntityFields
  <2>2. Honest(Entry(w, e), sent[e], attempts[e])
    BY DEF WorkerOK
  <2> QED  BY <1>2, <2>1, <2>2, HonestKept
<1>4. \A e \in Events : Handles(w, e)' <=> Handles(w, e)
  BY <1>1 DEF Handles, Monotone
<1>5. ASSUME NEW e \in workers'[w].batch
      PROVE  /\ Entry(w, e)'.status # "none"
             /\ Entry(w, e)'.status = "FAILED" => workers'[w].pc = "saveFailure" /\ Handles(w, e)'
             /\ workers'[w].pc = "save" /\ Handles(w, e)' => Entry(w, e)'.retryCount < attempts'[e]
  <2>1. e \in workers[w].batch /\ e \in Events
    BY <1>1, <1>5, WorkerFields
  <2>2. Entry(w, e).retryCount \in Nat
    BY <1>2, <2>1, EntityFields
  <2> QED  BY <1>2, <1>4, <2>1, <2>2 DEF WorkerOK
<1>6. workers'[w].batch \subseteq Inserted'
  BY <1>1 DEF Monotone
<1> QED  BY <1>3, <1>5, <1>6 DEF WorkerOK

(* A worker that ends its tick.                                            *)
LEMMA IdleWorker ==
  ASSUME sent' \in [Events -> Nat], attempts' \in [Events -> Nat],
         NEW w \in Workers, workers'[w] = Idle
  PROVE  WorkerOK(w)' /\ Idle \in Worker
<1>1. \A e \in Events : Entry(w, e)' = NoEntity
  BY DEF Entry, Idle
<1>2. workers'[w].batch = {}
  BY DEF Idle
<1>3. \A e \in Events : Honest(Entry(w, e)', sent'[e], attempts'[e])
  BY <1>1, NoEntityHonest
<1>4. Idle \in Worker
  BY NoEntityHonest DEF Idle, Worker
<1> QED  BY <1>2, <1>3, <1>4 DEF WorkerOK

(* A save of an honest entity of an inserted event.                        *)
LEMMA WrittenOK ==
  ASSUME TypeOK, Ordered, \A f \in Events : Honest(rows[f], sent[f], attempts[f]),
         NEW e \in Inserted, NEW x \in Entity, x.status # "none",
         Honest(x, sent[e], attempts[e]), rows' = Written(e, x), UNCHANGED <<sent, attempts>>
  PROVE  /\ rows' \in [Events -> Row] /\ Ordered' /\ Monotone
         /\ \A f \in Events : Honest(rows'[f], sent'[f], attempts'[f])
<1>1. e \in Events /\ rows[e] \in Row
  BY DEF Inserted, TypeOK
<1>2. rows'[e] = [rows[e] EXCEPT !.status = x.status, !.retryCount = x.retryCount]
  BY <1>1 DEF Written, TypeOK
<1>3. \A f \in Events \ {e} : rows'[f] = rows[f]
  BY DEF Written, TypeOK
<1>4. rows'[e] \in Row /\ rows'[e].status = x.status /\ rows'[e].retryCount = x.retryCount
      /\ rows'[e].createdAt = rows[e].createdAt
  BY <1>1, <1>2, EntityFields DEF Row
<1>5. rows' \in [Events -> Row]
  BY <1>4 DEF Written, TypeOK
<1>6. \A f \in Events : rows'[f].createdAt = rows[f].createdAt
  BY <1>3, <1>4
<1>7. Inserted' = Inserted
  BY <1>1, <1>3, <1>4 DEF Inserted
<1>8. Ordered'
  BY <1>6, <1>7 DEF Ordered, Inserted
<1>9. Monotone
  BY <1>6, <1>7 DEF Monotone, TypeOK, Inserted
<1>10. ASSUME NEW f \in Events
       PROVE  Honest(rows'[f], sent'[f], attempts'[f])
  <2>1. CASE f = e
    BY <1>4, <2>1 DEF Honest
  <2>2. CASE f # e
    BY <1>3, <2>2
  <2> QED  BY <2>1, <2>2
<1> QED  BY <1>5, <1>8, <1>9, <1>10

(* Rows that a step does not touch, while more is sent and tried.          *)
LEMMA SameRows ==
  ASSUME TypeOK, Ordered, \A f \in Events : Honest(rows[f], sent[f], attempts[f]),
         rows' = rows, sent' \in [Events -> Nat], attempts' \in [Events -> Nat],
         \A f \in Events : sent[f] <= sent'[f] /\ attempts[f] <= attempts'[f]
  PROVE  /\ rows' \in [Events -> Row] /\ Ordered' /\ Monotone
         /\ \A f \in Events : Honest(rows'[f], sent'[f], attempts'[f])
<1>1. Inserted' = Inserted /\ rows' \in [Events -> Row]
  BY DEF Inserted, TypeOK
<1>2. Ordered' /\ Monotone
  BY <1>1 DEF Ordered, Monotone
<1>3. ASSUME NEW f \in Events
      PROVE  Honest(rows'[f], sent'[f], attempts'[f])
  <2>1. rows[f].retryCount \in Nat
    BY RowFields DEF TypeOK
  <2> QED  BY <2>1, HonestKept DEF TypeOK
<1> QED  BY <1>1, <1>2, <1>3

(* The four parts together, when one worker has moved.                     *)
LEMMA Assemble ==
  ASSUME InductiveInvariant, Monotone, rows' \in [Events -> Row], Ordered', faults' \in Nat,
         \A f \in Events : Honest(rows'[f], sent'[f], attempts'[f]),
         NEW w \in Workers, NEW k \in Worker, workers' = [workers EXCEPT ![w] = k], WorkerOK(w)'
  PROVE  InductiveInvariant'
<1>1. workers' \in [Workers -> Worker]
  BY DEF InductiveInvariant, TypeOK
<1>2. TypeOK'
  BY <1>1 DEF TypeOK, Monotone
<1>3. ASSUME NEW v \in Workers, v # w
      PROVE  WorkerOK(v)'
  <2>1. workers'[v] = workers[v]
    BY <1>3 DEF InductiveInvariant, TypeOK
  <2> QED  BY <2>1, OtherWorker DEF InductiveInvariant
<1>4. \A v \in Workers : WorkerOK(v)'
  BY <1>3
<1> QED  BY <1>2, <1>4 DEF InductiveInvariant

-----------------------------------------------------------------------------
(* The two ways in which a worker moves.                                   *)

(* It holds a new entity for the event that it handles.                    *)
LEMMA BecomesOK ==
  ASSUME TypeOK, Ordered, Monotone, NEW w \in Workers, WorkerOK(w), NEW e \in Events, Handles(w, e),
         NEW x \in Entity, x.status # "none", Honest(x, sent'[e], attempts'[e]),
         NEW pc \in {"save", "saveFailure"}, x.status = "FAILED" => pc = "saveFailure",
         pc = "save" => x.retryCount < attempts'[e], Becomes(w, e, x, pc)
  PROVE  /\ WorkerOK(w)'
         /\ \E k \in Worker : workers' = [workers EXCEPT ![w] = k]
<1> DEFINE k == [workers[w] EXCEPT !.pc = pc, !.entity = [@ EXCEPT ![e] = x]]
<1>1. workers[w] \in Worker /\ workers[w].entity \in [Events -> Entity]
      /\ workers[w].batch \subseteq Events
  BY WorkerFields DEF TypeOK
<1>2. [workers[w].entity EXCEPT ![e] = x] \in [Events -> Entity]
  BY <1>1
<1>3. k \in Worker
  BY <1>1, <1>2 DEF Worker
<1>4. workers' = [workers EXCEPT ![w] = k]
  BY DEF Becomes, TypeOK
<1>5. workers'[w] = k
  BY <1>4 DEF TypeOK
<1>6. /\ k.pc = pc /\ k.batch = workers[w].batch
      /\ k.entity = [workers[w].entity EXCEPT ![e] = x]
  BY <1>1 DEF Worker
<1>7. /\ Entry(w, e)' = x
      /\ \A f \in Events : f # e => Entry(w, f)' = Entry(w, f)
  BY <1>1, <1>5, <1>6 DEF Entry
<1>8. \A f \in Events : Handles(w, f)' <=> Handles(w, f)
  BY <1>5, <1>6 DEF Handles, Monotone, WorkerOK
<1>9. ASSUME NEW f \in Events
      PROVE  Honest(Entry(w, f)', sent'[f], attempts'[f])
  <2>1. CASE f = e
    BY <1>7, <2>1
  <2>2. CASE f # e
    <3>1. Entry(w, f) \in Entity /\ Entry(w, f)' = Entry(w, f)
      BY <1>1, <1>7, <2>2 DEF Entry
    <3>2. Honest(Entry(w, f), sent[f], attempts[f])
      BY DEF WorkerOK
    <3>3. Entry(w, f).retryCount \in Nat
      BY <3>1, EntityFields
    <3> QED  BY <3>1, <3>2, <3>3, HonestKept DEF TypeOK, Monotone
  <2> QED  BY <2>1, <2>2
<1>10. ASSUME NEW f \in workers'[w].batch
       PROVE  /\ Entry(w, f)'.status # "none"
              /\ Entry(w, f)'.status = "FAILED" => workers'[w].pc = "saveFailure" /\ Handles(w, f)'
              /\ workers'[w].pc = "save" /\ Handles(w, f)' => Entry(w, f)'.retryCount < attempts'[f]
  <2>1. f \in workers[w].batch /\ f \in Events
    BY <1>1, <1>5, <1>6, <1>10
  <2>2. CASE f = e
    BY <1>5, <1>6, <1>7, <1>8, <2>2
  <2>3. CASE f # e
    <3>1. ~Handles(w, f)
      BY <2>1, <2>3, OneHandled
    <3>2. Entry(w, f)' = Entry(w, f)
      BY <1>7, <2>1, <2>3
    <3> QED  BY <1>8, <2>1, <3>1, <3>2 DEF WorkerOK
  <2> QED  BY <2>2, <2>3
<1>11. workers'[w].batch \subseteq Inserted'
  BY <1>5, <1>6 DEF WorkerOK, Monotone
<1> QED  BY <1>3, <1>4, <1>9, <1>10, <1>11 DEF WorkerOK

(* It has saved an entity and goes to the next one, none of which failed.  *)
LEMMA AdvancesOK ==
  ASSUME TypeOK, Ordered, Monotone, NEW w \in Workers, WorkerOK(w), NEW e \in Events, Handles(w, e),
         Advances(w, e)
  PROVE  /\ WorkerOK(w)'
         /\ \E k \in Worker : workers' = [workers EXCEPT ![w] = k]
<1>1. CASE workers[w].batch = {e}
  <2>1. workers' = [workers EXCEPT ![w] = Idle]
    BY <1>1 DEF Advances
  <2>2. workers'[w] = Idle
    BY <2>1 DEF TypeOK
  <2> QED  BY <2>1, <2>2, IdleWorker DEF Monotone
<1>2. CASE workers[w].batch # {e}
  <2> DEFINE k == [workers[w] EXCEPT !.pc = "publish", !.batch = @ \ {e},
                                     !.entity = [@ EXCEPT ![e] = NoEntity]]
  <2>1. workers[w] \in Worker /\ workers[w].entity \in [Events -> Entity]
        /\ workers[w].batch \subseteq Events
    BY WorkerFields DEF TypeOK
  <2>2. [workers[w].entity EXCEPT ![e] = NoEntity] \in [Events -> Entity]
    BY <2>1, NoEntityHonest DEF TypeOK
  <2>3. k \in Worker
    BY <2>1, <2>2 DEF Worker
  <2>4. workers' = [workers EXCEPT ![w] = k]
    <3>1. workers' = [workers EXCEPT ![w].pc = "publish", ![w].batch = @ \ {e},
                                     ![w].entity[e] = NoEntity]
      BY <1>2 DEF Advances
    <3>2. \A v \in Workers : v # w => workers'[v] = workers[v]
      BY <3>1 DEF TypeOK
    <3>3. workers'[w] = k
      BY <2>1, <3>1 DEF TypeOK, Worker
    <3> QED  BY <3>1, <3>2, <3>3 DEF TypeOK
  <2>5. workers'[w] = k
    BY <2>4 DEF TypeOK
  <2>6. /\ k.pc = "publish" /\ k.batch = workers[w].batch \ {e}
        /\ k.entity = [workers[w].entity EXCEPT ![e] = NoEntity]
    BY <2>1 DEF Worker
  <2>7. /\ Entry(w, e)' = NoEntity
        /\ \A f \in Events : f # e => Entry(w, f)' = Entry(w, f)
    BY <2>1, <2>5, <2>6 DEF Entry
  <2>8. ASSUME NEW f \in Events
        PROVE  Honest(Entry(w, f)', sent'[f], attempts'[f])
    <3>1. CASE f = e
      BY <2>7, <3>1, NoEntityHonest DEF Monotone
    <3>2. CASE f # e
      <4>1. Entry(w, f) \in Entity /\ Entry(w, f)' = Entry(w, f)
        BY <2>1, <2>7, <3>2 DEF Entry
      <4>2. Honest(Entry(w, f), sent[f], attempts[f])
        BY DEF WorkerOK
      <4>3. Entry(w, f).retryCount \in Nat
        BY <4>1, EntityFields
      <4> QED  BY <4>1, <4>2, <4>3, HonestKept DEF TypeOK, Monotone
    <3> QED  BY <3>1, <3>2
  <2>9. ASSUME NEW f \in workers'[w].batch
        PROVE  Entry(w, f)'.status \notin {"none", "FAILED"}
    <3>1. f \in workers[w].batch /\ f \in Events /\ f # e
      BY <2>1, <2>5, <2>6, <2>9
    <3>2. ~Handles(w, f)
      BY <3>1, OneHandled
    <3>3. Entry(w, f)' = Entry(w, f)
      BY <2>7, <3>1
    <3> QED  BY <3>1, <3>2, <3>3 DEF WorkerOK
  <2>10. workers'[w].batch \subseteq Inserted' /\ workers'[w].pc = "publish"
    BY <2>5, <2>6 DEF WorkerOK, Monotone
  <2> QED  BY <2>3, <2>4, <2>8, <2>9, <2>10 DEF WorkerOK
<1> QED  BY <1>1, <1>2

-----------------------------------------------------------------------------
(* The invariant is inductive: one lemma per kind of action.               *)

LEMMA InitOK ==
  ASSUME Init
  PROVE  InductiveInvariant
<1>1. NoRow \in Row /\ NoRow.status = "none" /\ NoRow.retryCount = 0
  BY OutboxAssumption DEF NoRow, Row
<1>2. TypeOK
  <2>1. Idle \in Worker
    BY NoEntityHonest DEF Idle, Worker
  <2> QED  BY <1>1, <2>1 DEF Init, TypeOK
<1>3. Inserted = {}
  BY <1>1 DEF Init, Inserted
<1>4. \A e \in Events : Honest(rows[e], sent[e], attempts[e])
  BY <1>1, OutboxAssumption DEF Init, Honest
<1>5. ASSUME NEW w \in Workers
      PROVE  WorkerOK(w)
  <2>1. workers[w] = Idle
    BY DEF Init
  <2>2. workers[w].batch = {} /\ \A e \in Events : Entry(w, e) = NoEntity
    BY <2>1 DEF Idle, Entry
  <2>3. \A e \in Events : Honest(Entry(w, e), sent[e], attempts[e])
    BY <2>2, NoEntityHonest DEF Init
  <2> QED  BY <2>2, <2>3 DEF WorkerOK
<1> QED  BY <1>2, <1>3, <1>4, <1>5 DEF InductiveInvariant, Ordered

LEMMA InsertOK ==
  ASSUME InductiveInvariant, NEW e \in Events, Insert(e)
  PROVE  InductiveInvariant'
<1> DEFINE n == Cardinality(Inserted)
           new == [status |-> "PENDING", retryCount |-> 0, createdAt |-> n + 1]
<1>1. TypeOK /\ Ordered
  BY DEF InductiveInvariant
<1>2. IsFiniteSet(Inserted) /\ n \in Nat /\ e \notin Inserted
  <2>1. Inserted \subseteq Events
    BY DEF Inserted
  <2>2. IsFiniteSet(Inserted)
    BY <2>1, OutboxAssumption, FS_Subset
  <2> QED  BY <2>2, FS_CardinalityType DEF Insert, Inserted
<1>3. new \in Row
  BY <1>2, OutboxAssumption DEF Row, OutboxStatus
<1>4. rows' = [rows EXCEPT ![e] = new] /\ rows' \in [Events -> Row]
  BY <1>1, <1>3 DEF Insert, TypeOK
<1>5. rows'[e] = new /\ \A f \in Events : f # e => rows'[f] = rows[f]
  BY <1>1, <1>4 DEF TypeOK
<1>6. Inserted' = Inserted \cup {e}
  BY <1>5 DEF Inserted
<1>7. Cardinality(Inserted') = n + 1
  BY <1>2, <1>6, FS_AddElement
<1>8. \A f \in Inserted : rows'[f] = rows[f] /\ f \in Events /\ rows[f].createdAt \in Nat
                          /\ rows[f].createdAt <= n
  BY <1>1, <1>2, <1>5, RowFields DEF Ordered, Inserted, TypeOK
<1>9. Ordered'
  <2>1. ASSUME NEW f \in Inserted'
        PROVE  /\ rows'[f].createdAt <= n + 1
               /\ \A g \in Inserted' : rows'[f].createdAt = rows'[g].createdAt => f = g
    BY <1>1, <1>2, <1>5, <1>6, <1>8 DEF Ordered
  <2> QED  BY <1>7, <2>1 DEF Ordered
<1>10. Monotone
  <2>1. sent' = sent /\ attempts' = attempts
    BY DEF Insert
  <2>2. \A f \in Events : sent[f] \in Nat /\ attempts[f] \in Nat
    BY <1>1 DEF TypeOK
  <2> QED  BY <1>1, <1>6, <1>8, <2>1, <2>2 DEF Monotone, TypeOK
<1>11. ASSUME NEW f \in Events
       PROVE  Honest(rows'[f], sent'[f], attempts'[f])
  <2>1. CASE f = e
    <3>1. attempts'[f] \in Nat
      BY <1>1 DEF Insert, TypeOK
    <3> QED  BY <1>5, <2>1, <3>1, OutboxAssumption DEF Honest
  <2>2. CASE f # e
    BY <1>5, <2>2 DEF Insert, InductiveInvariant
  <2> QED  BY <2>1, <2>2
<1>12. \A w \in Workers : WorkerOK(w)'
  BY <1>1, <1>10, OtherWorker DEF InductiveInvariant, Insert
<1>13. TypeOK'
  BY <1>1, <1>4 DEF Insert, TypeOK
<1> QED  BY <1>9, <1>11, <1>12, <1>13 DEF InductiveInvariant

LEMMA TickOK ==
  ASSUME InductiveInvariant, NEW w \in Workers, Tick(w)
  PROVE  InductiveInvariant'
<1>1. TypeOK /\ Ordered /\ \A f \in Events : Honest(rows[f], sent[f], attempts[f])
  BY DEF InductiveInvariant
<1>2. PICK S \in SUBSET Events :
        /\ IsBatch(S)
        /\ workers' = [workers EXCEPT ![w] =
             [pc |-> "publish", batch |-> S,
              entity |-> [e \in Events |->
                            IF e \in S
                            THEN [status |-> rows[e].status, retryCount |-> rows[e].retryCount]
                            ELSE NoEntity]]]
  BY DEF Tick
<1> DEFINE entity == [e \in Events |->
                        IF e \in S
                        THEN [status |-> rows[e].status, retryCount |-> rows[e].retryCount]
                        ELSE NoEntity]
           k == [pc |-> "publish", batch |-> S, entity |-> entity]
<1>3. ASSUME NEW e \in Events
      PROVE  /\ entity[e] \in Entity
             /\ Honest(entity[e], sent[e], attempts[e])
             /\ e \in S => entity[e].status = "PENDING"
  <2>1. CASE e \in S
    <3>1. entity[e] = [status |-> rows[e].status, retryCount |-> rows[e].retryCount]
      BY <2>1
    <3>2. rows[e].status = "PENDING"
      BY <1>2, <2>1 DEF IsBatch, Due
    <3>3. entity[e] \in Entity
      BY <1>1, <3>1, RowFields DEF Entity, TypeOK
    <3> QED  BY <1>1, <3>1, <3>2, <3>3 DEF Honest
  <2>2. CASE e \notin S
    BY <1>1, <2>2, NoEntityHonest DEF TypeOK
  <2> QED  BY <2>1, <2>2
<1>4. k \in Worker
  BY <1>3 DEF Worker
<1>5. workers'[w] = k
  BY <1>1, <1>2 DEF TypeOK
<1>6. sent' = sent /\ attempts' = attempts /\ rows' = rows /\ faults' = faults
  BY DEF Tick
<1>7. \A f \in Events : sent[f] \in Nat /\ attempts[f] \in Nat
  BY <1>1 DEF TypeOK
<1>8. /\ rows' \in [Events -> Row] /\ Ordered' /\ Monotone
      /\ \A f \in Events : Honest(rows'[f], sent'[f], attempts'[f])
  BY <1>1, <1>6, <1>7, SameRows DEF TypeOK
<1>9. WorkerOK(w)'
  <2>1. \A e \in Events : Entry(w, e)' = entity[e]
    BY <1>5 DEF Entry
  <2>2. workers'[w].batch = S /\ workers'[w].pc = "publish"
    BY <1>5
  <2>3. S \subseteq Inserted'
    BY <1>2, <1>6 DEF IsBatch, Due, Inserted
  <2>4. \A e \in Events : Honest(Entry(w, e)', sent'[e], attempts'[e])
    BY <1>3, <1>6, <2>1
  <2>5. \A e \in S : Entry(w, e)'.status = "PENDING"
    BY <1>2, <1>3, <2>1
  <2> QED  BY <2>2, <2>3, <2>4, <2>5 DEF WorkerOK
<1>10. faults' \in Nat
  BY <1>1, <1>6 DEF TypeOK
<1> QED  BY <1>2, <1>4, <1>8, <1>9, <1>10, Assemble

(* A worker that tries to send: the entity was not FAILED.                 *)
LEMMA TriesFacts ==
  ASSUME InductiveInvariant, NEW w \in Workers, NEW e \in Events, Tries(w, e)
  PROVE  /\ Entry(w, e) \in Entity /\ Entry(w, e).status \notin {"none", "FAILED"}
         /\ Honest(Entry(w, e), sent[e], attempts[e])
         /\ attempts' \in [Events -> Nat] /\ attempts'[e] = attempts[e] + 1
         /\ \A f \in Events : attempts[f] <= attempts'[f] /\ sent[f] \in Nat /\ attempts[f] \in Nat
         /\ Handles(w, e) /\ Entry(w, e).retryCount < attempts'[e]
<1>1. TypeOK /\ WorkerOK(w)
  BY DEF InductiveInvariant
<1>2. Handles(w, e) /\ e \in workers[w].batch /\ workers[w].pc = "publish"
  BY DEF Tries, Handles
<1>3. Entry(w, e) \in Entity
  BY <1>1, WorkerFields DEF Entry, TypeOK
<1>4. Entry(w, e).retryCount \in Nat
  BY <1>3, EntityFields
<1>5. /\ attempts' \in [Events -> Nat] /\ attempts'[e] = attempts[e] + 1
      /\ \A f \in Events : attempts[f] <= attempts'[f] /\ sent[f] \in Nat /\ attempts[f] \in Nat
  BY <1>1 DEF Tries, TypeOK
<1>6. Honest(Entry(w, e), sent[e], attempts[e]) /\ Entry(w, e).status \notin {"none", "FAILED"}
  BY <1>1, <1>2 DEF WorkerOK
<1>7. Entry(w, e).retryCount <= attempts[e]
  BY <1>6 DEF Honest
<1> QED  BY <1>2, <1>3, <1>4, <1>5, <1>6, <1>7

LEMMA PublishSucceedsOK ==
  ASSUME InductiveInvariant, NEW w \in Workers, NEW e \in Events, PublishSucceeds(w, e)
  PROVE  InductiveInvariant'
<1> DEFINE x == [Entry(w, e) EXCEPT !.status = "PUBLISHED"]
<1>1. TypeOK /\ Ordered /\ WorkerOK(w) /\ \A f \in Events : Honest(rows[f], sent[f], attempts[f])
  BY DEF InductiveInvariant
<1>2. /\ Entry(w, e) \in Entity /\ Entry(w, e).status \notin {"none", "FAILED"}
      /\ Honest(Entry(w, e), sent[e], attempts[e])
      /\ attempts' \in [Events -> Nat] /\ attempts'[e] = attempts[e] + 1
      /\ \A f \in Events : attempts[f] <= attempts'[f] /\ sent[f] \in Nat /\ attempts[f] \in Nat
      /\ Handles(w, e) /\ Entry(w, e).retryCount < attempts'[e]
  BY TriesFacts DEF PublishSucceeds
<1>3. /\ sent' \in [Events -> Nat] /\ sent'[e] = sent[e] + 1
      /\ \A f \in Events : sent[f] <= sent'[f]
  BY <1>1 DEF PublishSucceeds, TypeOK
<1>4. /\ rows' \in [Events -> Row] /\ Ordered' /\ Monotone
      /\ \A f \in Events : Honest(rows'[f], sent'[f], attempts'[f])
  BY <1>1, <1>2, <1>3, SameRows DEF PublishSucceeds
<1>5. x \in Entity /\ x.status = "PUBLISHED" /\ x.retryCount = Entry(w, e).retryCount
  BY <1>2 DEF Entity, OutboxStatus
<1>6. Honest(x, sent'[e], attempts'[e])
  <2>1. x.retryCount \in 0 .. MAX_RETRIES /\ x.retryCount # MAX_RETRIES
    BY <1>2, <1>5, EntityFields DEF Honest
  <2>2. sent'[e] > 0
    BY <1>2, <1>3
  <2> QED  BY <1>2, <1>5, <2>1, <2>2 DEF Honest
<1>7. Becomes(w, e, x, "save")
  BY DEF PublishSucceeds
<1>8. /\ WorkerOK(w)'
      /\ \E k \in Worker : workers' = [workers EXCEPT ![w] = k]
  BY <1>1, <1>2, <1>4, <1>5, <1>6, <1>7, BecomesOK
<1>9. faults' \in Nat
  BY <1>1 DEF PublishSucceeds, TypeOK
<1> QED  BY <1>4, <1>8, <1>9, Assemble

LEMMA PublishFailsOK ==
  ASSUME InductiveInvariant, NEW w \in Workers, NEW e \in Events, PublishFails(w, e)
  PROVE  InductiveInvariant'
<1> DEFINE x == Failed(Entry(w, e))
<1>1. TypeOK /\ Ordered /\ WorkerOK(w) /\ \A f \in Events : Honest(rows[f], sent[f], attempts[f])
  BY DEF InductiveInvariant
<1>2. /\ Entry(w, e) \in Entity /\ Entry(w, e).status \notin {"none", "FAILED"}
      /\ Honest(Entry(w, e), sent[e], attempts[e])
      /\ attempts' \in [Events -> Nat] /\ attempts'[e] = attempts[e] + 1
      /\ \A f \in Events : attempts[f] <= attempts'[f] /\ sent[f] \in Nat /\ attempts[f] \in Nat
      /\ Handles(w, e) /\ Entry(w, e).retryCount < attempts'[e]
  BY TriesFacts DEF PublishFails
<1>3. /\ sent' \in [Events -> Nat]
      /\ \A f \in Events : sent[f] <= sent'[f]
  BY <1>1 DEF PublishFails, TypeOK
<1>4. /\ rows' \in [Events -> Row] /\ Ordered' /\ Monotone
      /\ \A f \in Events : Honest(rows'[f], sent'[f], attempts'[f])
  BY <1>1, <1>2, <1>3, SameRows DEF PublishFails
<1>5. Honest(Entry(w, e), sent'[e], attempts'[e]) /\ sent'[e] \in Nat /\ attempts'[e] \in Nat
  <2>1. Entry(w, e).retryCount \in Nat
    BY <1>2, EntityFields
  <2> QED  BY <1>2, <1>3, <2>1, HonestKept
<1>6. x \in Entity /\ x.status # "none" /\ Honest(x, sent'[e], attempts'[e])
  BY <1>2, <1>5, FailedHonest
<1>7. Becomes(w, e, x, "saveFailure")
  BY DEF PublishFails
<1>8. /\ WorkerOK(w)'
      /\ \E k \in Worker : workers' = [workers EXCEPT ![w] = k]
  BY <1>1, <1>2, <1>4, <1>6, <1>7, BecomesOK
<1>9. faults' \in Nat
  BY <1>1 DEF PublishFails, TypeOK
<1> QED  BY <1>4, <1>8, <1>9, Assemble

(* The rows after a save that was written or not.                          *)
LEMMA SavedRows ==
  ASSUME InductiveInvariant, NEW w \in Workers, NEW e \in Events, Handles(w, e),
         rows' \in {rows, Written(e, Entry(w, e))}, UNCHANGED <<sent, attempts>>
  PROVE  /\ rows' \in [Events -> Row] /\ Ordered' /\ Monotone
         /\ \A f \in Events : Honest(rows'[f], sent'[f], attempts'[f])
         /\ Entry(w, e) \in Entity /\ Entry(w, e).status # "none"
         /\ Honest(Entry(w, e), sent[e], attempts[e])
         /\ sent[e] \in Nat /\ attempts[e] \in Nat
<1>1. /\ TypeOK /\ Ordered /\ WorkerOK(w)
      /\ \A f \in Events : Honest(rows[f], sent[f], attempts[f])
  BY DEF InductiveInvariant
<1>2. e \in workers[w].batch /\ e \in Inserted
  BY <1>1 DEF Handles, WorkerOK
<1>3. Entry(w, e) \in Entity
  BY <1>1, WorkerFields DEF Entry, TypeOK
<1>4. Entry(w, e).status # "none" /\ Honest(Entry(w, e), sent[e], attempts[e])
  BY <1>1, <1>2 DEF WorkerOK
<1>5. \A f \in Events : sent[f] \in Nat /\ attempts[f] \in Nat
  BY <1>1 DEF TypeOK
<1>6. CASE rows' = rows
  <2>1. sent' \in [Events -> Nat] /\ attempts' \in [Events -> Nat]
    BY <1>1 DEF TypeOK
  <2>2. \A f \in Events : sent[f] <= sent'[f] /\ attempts[f] <= attempts'[f]
    BY <1>5
  <2> QED  BY <1>1, <1>3, <1>4, <1>5, <1>6, <2>1, <2>2, SameRows
<1>7. CASE rows' = Written(e, Entry(w, e))
  BY <1>1, <1>2, <1>3, <1>4, <1>5, <1>7, WrittenOK
<1> QED  BY <1>6, <1>7

LEMMA SaveOK ==
  ASSUME InductiveInvariant, NEW w \in Workers, NEW e \in Events, Save(w, e)
  PROVE  InductiveInvariant'
<1>1. /\ rows' \in [Events -> Row] /\ Ordered' /\ Monotone
      /\ \A f \in Events : Honest(rows'[f], sent'[f], attempts'[f])
  BY SavedRows DEF Save
<1>2. TypeOK /\ Ordered /\ WorkerOK(w) /\ Handles(w, e) /\ Advances(w, e)
  BY DEF InductiveInvariant, Save
<1>3. /\ WorkerOK(w)'
      /\ \E k \in Worker : workers' = [workers EXCEPT ![w] = k]
  BY <1>1, <1>2, AdvancesOK
<1>4. faults' \in Nat
  BY <1>2 DEF Save, TypeOK
<1> QED  BY <1>1, <1>3, <1>4, Assemble

LEMMA SaveFailsOK ==
  ASSUME InductiveInvariant, NEW w \in Workers, NEW e \in Events, SaveFails(w, e)
  PROVE  InductiveInvariant'
<1> DEFINE x == Failed(Entry(w, e))
<1>1. /\ rows' \in [Events -> Row] /\ Ordered' /\ Monotone
      /\ \A f \in Events : Honest(rows'[f], sent'[f], attempts'[f])
      /\ Entry(w, e) \in Entity /\ Entry(w, e).status # "none"
      /\ Honest(Entry(w, e), sent[e], attempts[e])
      /\ sent[e] \in Nat /\ attempts[e] \in Nat
  BY SavedRows DEF SaveFails
<1>2. /\ TypeOK /\ Ordered /\ WorkerOK(w) /\ Handles(w, e)
      /\ Becomes(w, e, x, "saveFailure") /\ workers[w].pc = "save"
  BY DEF InductiveInvariant, SaveFails
<1>3. Entry(w, e).status # "FAILED" /\ Entry(w, e).retryCount < attempts[e]
  BY <1>2 DEF WorkerOK, Handles
<1>4. x \in Entity /\ x.status # "none" /\ Honest(x, sent[e], attempts[e])
  BY <1>1, <1>3, FailedHonest
<1>5. sent' = sent /\ attempts' = attempts
  BY DEF SaveFails
<1>6. /\ WorkerOK(w)'
      /\ \E k \in Worker : workers' = [workers EXCEPT ![w] = k]
  BY <1>1, <1>2, <1>4, <1>5, BecomesOK
<1>7. faults' \in Nat
  BY <1>2 DEF SaveFails, Fault, TypeOK
<1> QED  BY <1>1, <1>6, <1>7, Assemble

LEMMA StopOK ==
  ASSUME InductiveInvariant, NEW w \in Workers,
         Crash(w) \/ \E e \in Events : TickFails(w, e)
  PROVE  InductiveInvariant'
<1>1. /\ TypeOK /\ Ordered
      /\ \A f \in Events : Honest(rows[f], sent[f], attempts[f])
  BY DEF InductiveInvariant
<1>2. /\ workers' = [workers EXCEPT ![w] = Idle] /\ UNCHANGED <<sent, attempts>> /\ Fault
  BY DEF Crash, TickFails
<1>3. \A f \in Events : sent[f] \in Nat /\ attempts[f] \in Nat
  BY <1>1 DEF TypeOK
<1>4. /\ rows' \in [Events -> Row] /\ Ordered' /\ Monotone
      /\ \A f \in Events : Honest(rows'[f], sent'[f], attempts'[f])
  <2>1. CASE Crash(w)
    <3>1. sent' \in [Events -> Nat] /\ attempts' \in [Events -> Nat]
          /\ \A f \in Events : sent[f] <= sent'[f] /\ attempts[f] <= attempts'[f]
      BY <1>1, <1>2, <1>3 DEF TypeOK
    <3>2. rows' = rows
      BY <2>1 DEF Crash
    <3> QED  BY <1>1, <3>1, <3>2, SameRows
  <2>2. ASSUME NEW e \in Events, TickFails(w, e)
        PROVE  /\ rows' \in [Events -> Row] /\ Ordered' /\ Monotone
               /\ \A f \in Events : Honest(rows'[f], sent'[f], attempts'[f])
    BY <1>2, <2>2, SavedRows DEF TickFails
  <2> QED  BY <2>1, <2>2
<1>5. workers'[w] = Idle
  BY <1>1, <1>2 DEF TypeOK
<1>6. WorkerOK(w)' /\ Idle \in Worker
  BY <1>4, <1>5, IdleWorker DEF Monotone
<1>7. faults' \in Nat
  BY <1>1, <1>2 DEF Fault, TypeOK
<1> QED  BY <1>2, <1>4, <1>6, <1>7, Assemble

LEMMA NextOK ==
  ASSUME InductiveInvariant, [Next]_vars
  PROVE  InductiveInvariant'
<1>1. CASE \E e \in Events : Insert(e)
  BY <1>1, InsertOK
<1>2. ASSUME NEW w \in Workers, Work(w)
      PROVE  InductiveInvariant'
  BY <1>2, TickOK, PublishSucceedsOK, PublishFailsOK, SaveOK DEF Work
<1>3. ASSUME NEW w \in Workers,
             Crash(w) \/ \E e \in Events : SaveFails(w, e) \/ TickFails(w, e)
      PROVE  InductiveInvariant'
  BY <1>3, SaveFailsOK, StopOK
<1>4. CASE UNCHANGED vars
  BY <1>4 DEF vars, InductiveInvariant, TypeOK, Ordered, Inserted, WorkerOK, Entry, Handles
<1> QED  BY <1>1, <1>2, <1>3, <1>4 DEF Next

-----------------------------------------------------------------------------
(* The theorems.                                                           *)

(* The invariant holds in every reachable state.                           *)
THEOREM OutboxInvariant == Spec => []InductiveInvariant
<1>1. Init => InductiveInvariant
  BY InitOK
<1>2. InductiveInvariant /\ [Next]_vars => InductiveInvariant'
  BY NextOK
<1> QED  BY <1>1, <1>2, PTL DEF Spec

(* Type correctness: no worker and no interleaving lets a row count more   *)
(* than MAX_RETRIES.                                                       *)
THEOREM TypeCorrect == Spec => []TypeOK
<1>1. InductiveInvariant => TypeOK
  BY DEF InductiveInvariant
<1> QED  BY <1>1, OutboxInvariant, PTL

(* A row says PUBLISHED only after the bus has accepted its event, for any *)
(* number of workers that overwrite each other's copies.                   *)
THEOREM PublishedMeansSent == Spec => []PublishedWasSent
<1>1. InductiveInvariant => PublishedWasSent
  BY DEF InductiveInvariant, PublishedWasSent, Honest
<1> QED  BY <1>1, OutboxInvariant, PTL

(* A row says FAILED only after MAX_RETRIES attempts to send its event.    *)
THEOREM FailedMeansTried == Spec => []GivenUpAfterRetries
<1>1. ASSUME InductiveInvariant, NEW e \in Events, rows[e].status = "FAILED"
      PROVE  attempts[e] >= MAX_RETRIES
  <2>1. rows[e].retryCount = MAX_RETRIES /\ rows[e].retryCount <= attempts[e]
    BY <1>1 DEF InductiveInvariant, Honest
  <2>2. attempts[e] \in Nat /\ MAX_RETRIES \in Nat
    BY <1>1, OutboxAssumption DEF InductiveInvariant, TypeOK
  <2> QED  BY <2>1, <2>2
<1>2. InductiveInvariant => GivenUpAfterRetries
  BY <1>1 DEF GivenUpAfterRetries
<1> QED  BY <1>2, OutboxInvariant, PTL

-----------------------------------------------------------------------------
(* The order in which the events leave.                                    *)

\* No row changes its age, and a new one is the youngest.
Ageing ==
  /\ Inserted \subseteq Inserted'
  /\ \A f \in Inserted : rows'[f].createdAt = rows[f].createdAt
  /\ \A e \in Inserted, f \in Inserted' \ Inserted : rows[e].createdAt < rows'[f].createdAt
  /\ \A f \in Events : attempts'[f] \in Nat /\ attempts[f] \in Nat /\ attempts[f] <= attempts'[f]

LEMMA InsertedAge ==
  ASSUME TypeOK, NEW e \in Inserted
  PROVE  e \in Events /\ rows[e].createdAt \in Nat
BY RowFields DEF Inserted, TypeOK

LEMMA AgesInserted ==
  ASSUME InductiveInvariant, NEW e \in Events, Insert(e)
  PROVE  Ageing /\ e \notin Inserted /\ Inserted' = Inserted \cup {e}
<1> DEFINE n == Cardinality(Inserted)
           new == [status |-> "PENDING", retryCount |-> 0, createdAt |-> n + 1]
<1>1. TypeOK /\ Ordered
  BY DEF InductiveInvariant
<1>2. IsFiniteSet(Inserted) /\ n \in Nat /\ e \notin Inserted
  <2>1. Inserted \subseteq Events
    BY DEF Inserted
  <2>2. IsFiniteSet(Inserted)
    BY <2>1, OutboxAssumption, FS_Subset
  <2> QED  BY <2>2, FS_CardinalityType DEF Insert, Inserted
<1>3. rows'[e] = new /\ \A f \in Events : f # e => rows'[f] = rows[f]
  BY <1>1 DEF Insert, TypeOK
<1>4. new.status = "PENDING" /\ new.createdAt = n + 1
  OBVIOUS
<1>5. Inserted' = Inserted \cup {e}
  BY <1>3, <1>4 DEF Inserted
<1>6. \A f \in Inserted : rows'[f] = rows[f] /\ rows[f].createdAt \in Nat /\ rows[f].createdAt <= n
  BY <1>1, <1>2, <1>3, InsertedAge DEF Ordered
<1>7. \A f \in Inserted : rows[f].createdAt < rows'[e].createdAt
  BY <1>2, <1>3, <1>4, <1>6
<1>8. attempts' = attempts /\ attempts \in [Events -> Nat]
  BY <1>1 DEF Insert, TypeOK
<1> QED  BY <1>2, <1>5, <1>6, <1>7, <1>8 DEF Ageing

\* A step that leaves the rows alone, or saves one of them.
LEMMA AgesKept ==
  ASSUME InductiveInvariant, attempts' \in [Events -> Nat],
         \A f \in Events : attempts[f] <= attempts'[f],
         rows' = rows \/ \E w \in Workers, e \in Events : Handles(w, e) /\ rows' = Written(e, Entry(w, e))
  PROVE  Ageing /\ Inserted' = Inserted
<1>1. TypeOK /\ \A f \in Events : attempts[f] \in Nat /\ attempts'[f] \in Nat
  BY DEF InductiveInvariant, TypeOK
<1>2. CASE rows' = rows
  BY <1>1, <1>2 DEF Ageing, Inserted
<1>3. CASE \E w \in Workers, e \in Events : Handles(w, e) /\ rows' = Written(e, Entry(w, e))
  <2>1. PICK w \in Workers, e \in Events : Handles(w, e) /\ rows' = Written(e, Entry(w, e))
    BY <1>3
  <2>2. e \in Inserted /\ Entry(w, e).status # "none"
    BY <2>1 DEF InductiveInvariant, WorkerOK, Handles
  <2>3. rows \in [Events -> Row] /\ rows[e] \in Row
    BY <1>1 DEF TypeOK
  <2>4. /\ rows'[e].status = Entry(w, e).status /\ rows'[e].createdAt = rows[e].createdAt
        /\ \A f \in Events \ {e} : rows'[f] = rows[f]
    BY <2>1, <2>3 DEF Written, Row
  <2>5. Inserted' = Inserted
    BY <2>2, <2>4 DEF Inserted
  <2>6. \A f \in Inserted : rows'[f].createdAt = rows[f].createdAt
    BY <2>4 DEF Inserted
  <2> QED  BY <1>1, <2>5, <2>6 DEF Ageing
<1> QED  BY <1>2, <1>3

\* An event older than another one in some row was so before.
LEMMA OlderBefore ==
  ASSUME InductiveInvariant, InductiveInvariant', Ageing, NEW e \in Inserted, NEW f \in Inserted',
         rows'[f].createdAt < rows'[e].createdAt
  PROVE  f \in Inserted /\ rows[f].createdAt < rows[e].createdAt
<1>1. rows'[e].createdAt = rows[e].createdAt /\ rows[e].createdAt \in Nat
  BY InsertedAge DEF InductiveInvariant, Ageing
<1>2. f \in Events /\ rows' \in [Events -> Row]
  BY DEF Inserted, InductiveInvariant, TypeOK
<1>3. rows'[f].createdAt \in Nat
  BY <1>2, RowFields
<1>4. f \in Inserted
  <2>1. SUFFICES ASSUME f \notin Inserted PROVE FALSE
    OBVIOUS
  <2>2. rows[e].createdAt < rows'[f].createdAt
    BY <2>1 DEF Ageing
  <2> QED  BY <1>1, <1>3, <2>2
<1> QED  BY <1>1, <1>4 DEF Ageing

\* A worker whose batch shrinks at most by an event that was tried, and that comes
\* to its save only with one that was.
LEMMA TurnKept ==
  ASSUME InductiveInvariant, InductiveInvariant', Ageing, NEW w \in Workers, InTurn(w),
         workers'[w].batch \subseteq workers[w].batch,
         \A e \in workers[w].batch \ workers'[w].batch : attempts[e] > 0,
         \A e \in workers'[w].batch :
           workers'[w].pc \in {"save", "saveFailure"} /\ Handles(w, e)' => attempts'[e] > 0
  PROVE  InTurn(w)'
<1>1. workers[w].batch \subseteq Inserted /\ Inserted \subseteq Events
  BY DEF InductiveInvariant, WorkerOK, Inserted
<1>2. ASSUME NEW e \in workers'[w].batch, NEW f \in Inserted', rows'[f].createdAt < rows'[e].createdAt
      PROVE  f \in workers'[w].batch \/ attempts'[f] > 0
  <2>1. e \in workers[w].batch /\ e \in Inserted
    BY <1>1
  <2>2. f \in Inserted /\ rows[f].createdAt < rows[e].createdAt /\ f \in Events
    BY <1>1, <1>2, <2>1, OlderBefore
  <2>3. f \in workers[w].batch \/ attempts[f] > 0
    BY <2>1, <2>2 DEF InTurn
  <2>4. f \in workers'[w].batch \/ attempts[f] > 0
    BY <2>3
  <2> QED  BY <2>2, <2>4 DEF Ageing
<1> QED  BY <1>2 DEF InTurn

\* The events handled before and after a step of another worker, or of this one.
LEMMA SameHandled ==
  ASSUME InductiveInvariant, Ageing, NEW w \in Workers, workers'[w].batch = workers[w].batch,
         NEW e \in workers[w].batch, Handles(w, e)'
  PROVE  Handles(w, e)
<1>1. workers[w].batch \subseteq Inserted
  BY DEF InductiveInvariant, WorkerOK
<1> QED  BY <1>1 DEF Handles, Ageing

LEMMA StayingTurn ==
  ASSUME InductiveInvariant, InductiveInvariant', Ageing, NEW w \in Workers, InTurn(w),
         workers'[w] = workers[w]
  PROVE  InTurn(w)'
<1>1. ASSUME NEW e \in workers'[w].batch, workers'[w].pc \in {"save", "saveFailure"}, Handles(w, e)'
      PROVE  attempts'[e] > 0
  <2>1. e \in workers[w].batch /\ e \in Events
    BY <1>1 DEF InductiveInvariant, WorkerOK, Inserted
  <2>2. Handles(w, e)
    BY <1>1, <2>1, SameHandled
  <2>3. attempts[e] > 0
    BY <1>1, <2>1, <2>2 DEF InTurn
  <2> QED  BY <2>1, <2>3 DEF Ageing
<1> QED  BY <1>1, TurnKept

LEMMA IdleTurn ==
  ASSUME NEW w \in Workers, workers'[w] = Idle
  PROVE  InTurn(w)'
BY DEF InTurn, Idle

\* It has tried the event that it handles, and goes to its save.
LEMMA TriedTurn ==
  ASSUME InductiveInvariant, InductiveInvariant', Ageing, NEW w \in Workers, InTurn(w),
         NEW e \in Events, Handles(w, e), attempts'[e] > 0, NEW x, NEW pc, Becomes(w, e, x, pc)
  PROVE  InTurn(w)'
<1>1. workers[w] \in Worker /\ TypeOK /\ Ordered /\ WorkerOK(w)
  BY DEF InductiveInvariant, TypeOK
<1>2. workers'[w].batch = workers[w].batch
  BY <1>1 DEF Becomes, TypeOK, Worker
<1>3. ASSUME NEW f \in workers'[w].batch, Handles(w, f)'
      PROVE  attempts'[f] > 0
  <2>1. f \in Events /\ Handles(w, f)
    BY <1>1, <1>2, <1>3, SameHandled, WorkerFields
  <2>2. f = e
    BY <1>1, <2>1, OneHandled
  <2> QED  BY <2>2
<1> QED  BY <1>2, <1>3, TurnKept

LEMMA NextTurn ==
  ASSUME InductiveInvariant, InductiveInvariant', Ageing, NEW w \in Workers, InTurn(w),
         NEW e \in Events, Handles(w, e), workers[w].pc \in {"save", "saveFailure"}, Advances(w, e)
  PROVE  InTurn(w)'
<1>1. workers[w] \in Worker /\ TypeOK
  BY DEF InductiveInvariant, TypeOK
<1>2. e \in workers[w].batch /\ attempts[e] > 0
  BY DEF InTurn, Handles
<1>3. CASE workers[w].batch = {e}
  <2>1. workers'[w] = Idle
    BY <1>1, <1>3 DEF Advances, TypeOK
  <2> QED  BY <2>1, IdleTurn
<1>4. CASE workers[w].batch # {e}
  <2>1. workers' = [workers EXCEPT ![w].pc = "publish", ![w].batch = @ \ {e},
                                   ![w].entity[e] = NoEntity]
    BY <1>4 DEF Advances
  <2>2. workers'[w].batch = workers[w].batch \ {e} /\ workers'[w].pc = "publish"
    BY <1>1, <2>1 DEF TypeOK, Worker
  <2> QED  BY <1>2, <2>2, TurnKept
<1> QED  BY <1>3, <1>4

\* What a tick leaves out of its batch is younger, sent or given up.
LEMMA TickTurn ==
  ASSUME InductiveInvariant, TurnsInvariant, NEW w \in Workers, Tick(w)
  PROVE  InTurn(w)'
<1>1. TypeOK /\ UNCHANGED <<rows, attempts>>
  BY DEF Tick, InductiveInvariant
<1>2. PICK S \in SUBSET Events :
        /\ IsBatch(S)
        /\ workers' = [workers EXCEPT ![w] =
             [pc |-> "publish", batch |-> S,
              entity |-> [e \in Events |->
                            IF e \in S
                            THEN [status |-> rows[e].status, retryCount |-> rows[e].retryCount]
                            ELSE NoEntity]]]
  BY DEF Tick
<1>3. workers'[w].batch = S /\ workers'[w].pc = "publish"
  BY <1>1, <1>2 DEF TypeOK
<1>4. ASSUME NEW e \in S, NEW f \in Inserted, rows[f].createdAt < rows[e].createdAt, f \notin S
      PROVE  attempts[f] > 0
  <2>1. f \in Events /\ e \in Inserted
    BY <1>2 DEF Inserted, IsBatch, Due
  <2>2. rows[f] \in Row /\ rows[e] \in Row /\ sent[f] \in Nat /\ attempts[f] \in Nat
    BY <1>1, <2>1 DEF TypeOK, Inserted
  <2>3. f \notin Due
    <3>1. SUFFICES ASSUME f \in Due PROVE FALSE
      OBVIOUS
    <3>2. rows[e].createdAt < rows[f].createdAt
      BY <1>2, <1>4, <3>1 DEF IsBatch
    <3> QED  BY <1>4, <2>2, <3>2, RowFields
  <2>4. rows[f].status \in {"PUBLISHED", "FAILED"}
    BY <2>2, <2>3, RowFields, OutboxAssumption DEF Due, Inserted, OutboxStatus
  <2>5. Honest(rows[f], sent[f], attempts[f]) /\ sent[f] <= attempts[f]
    BY <2>1 DEF InductiveInvariant, TurnsInvariant
  <2> QED  BY <2>2, <2>4, <2>5, OutboxAssumption DEF Honest
<1> QED  BY <1>1, <1>3, <1>4 DEF InTurn, Inserted

\* An event that had been sent: what is older had been tried.
LEMMA SentBefore ==
  ASSUME InductiveInvariant, InductiveInvariant', TurnsInvariant, Ageing,
         NEW e \in Inserted', NEW f \in Inserted', sent[e] > 0, rows'[f].createdAt < rows'[e].createdAt
  PROVE  attempts'[f] > 0
<1>1. e \in Events /\ f \in Events
  BY DEF Inserted
<1>2. e \in Inserted
  BY <1>1 DEF TurnsInvariant
<1>3. f \in Inserted /\ rows[f].createdAt < rows[e].createdAt
  BY <1>2, OlderBefore
<1>4. attempts[f] > 0
  BY <1>2, <1>3 DEF TurnsInvariant, OlderTriedFirst
<1> QED  BY <1>1, <1>4 DEF Ageing

\* A step that sends nothing.
LEMMA NothingSent ==
  ASSUME InductiveInvariant, InductiveInvariant', TurnsInvariant, Ageing, UNCHANGED sent,
         \A w \in Workers : InTurn(w)'
  PROVE  TurnsInvariant'
<1>1. OlderTriedFirst'
  BY SentBefore DEF OlderTriedFirst
<1>2. ASSUME NEW e \in Events
      PROVE  sent'[e] <= attempts'[e] /\ (sent'[e] > 0 => e \in Inserted')
  <2>1. sent[e] \in Nat
    BY DEF InductiveInvariant, TypeOK
  <2> QED  BY <2>1 DEF TurnsInvariant, Ageing
<1> QED  BY <1>1, <1>2 DEF TurnsInvariant

\* A worker sends the event that it handles, which is the oldest of its batch.
LEMMA SendingTurn ==
  ASSUME InductiveInvariant, InductiveInvariant', TurnsInvariant, NEW w \in Workers, NEW e \in Events,
         Tries(w, e), UNCHANGED rows, sent' \in {sent, [sent EXCEPT ![e] = @ + 1]},
         NEW x, NEW pc, Becomes(w, e, x, pc)
  PROVE  TurnsInvariant'
<1>1. TypeOK /\ WorkerOK(w) /\ InTurn(w)
  BY DEF InductiveInvariant, TurnsInvariant
<1>2. /\ attempts' \in [Events -> Nat] /\ attempts'[e] = attempts[e] + 1 /\ attempts[e] \in Nat
      /\ \A f \in Events : f # e => attempts'[f] = attempts[f]
      /\ \A f \in Events : attempts[f] <= attempts'[f]
  BY <1>1 DEF Tries, TypeOK
<1>3. Handles(w, e) /\ e \in workers[w].batch /\ e \in Inserted /\ workers[w].batch \subseteq Inserted
  BY <1>1 DEF Tries, Handles, WorkerOK
<1>4. Ageing /\ Inserted' = Inserted
  BY <1>2, AgesKept
<1>5. \A v \in Workers : InTurn(v)'
  <2>1. InTurn(w)'
    BY <1>1, <1>2, <1>3, <1>4, TriedTurn
  <2>2. ASSUME NEW v \in Workers, v # w
        PROVE  InTurn(v)'
    <3>1. workers'[v] = workers[v]
      BY <1>1, <2>2 DEF Becomes, TypeOK
    <3> QED  BY <1>4, <3>1, StayingTurn DEF TurnsInvariant
  <2> QED  BY <2>1, <2>2
<1>6. ASSUME NEW d \in Events
      PROVE  /\ sent'[d] <= attempts'[d] /\ (sent'[d] > 0 => d \in Inserted')
             /\ d # e => sent'[d] = sent[d]
  <2>1. sent[d] \in Nat /\ attempts[d] \in Nat /\ sent[d] <= attempts[d]
        /\ (sent[d] > 0 => d \in Inserted)
    BY <1>1 DEF TypeOK, TurnsInvariant
  <2>2. CASE d = e
    <3>1. sent'[e] \in {sent[e], sent[e] + 1}
      BY <1>1 DEF TypeOK
    <3> QED  BY <1>2, <1>3, <1>4, <2>1, <2>2, <3>1
  <2>3. CASE d # e
    <3>1. sent'[d] = sent[d]
      BY <1>1, <2>3 DEF TypeOK
    <3> QED  BY <1>2, <1>4, <2>1, <2>3, <3>1
  <2> QED  BY <2>2, <2>3
<1>7. ASSUME NEW d \in Inserted', NEW f \in Inserted', sent'[d] > 0,
             rows'[f].createdAt < rows'[d].createdAt
      PROVE  attempts'[f] > 0
  <2>1. CASE d = e
    <3>1. f \in Inserted /\ f \in Events /\ rows[f].createdAt < rows[e].createdAt
      BY <1>4, <1>7, <2>1 DEF Inserted
    <3>2. rows[f].createdAt \in Nat /\ rows[e].createdAt \in Nat
      BY <1>1, <1>3, <3>1, InsertedAge
    <3>3. f \notin workers[w].batch
      BY <1>3, <3>1, <3>2 DEF Handles
    <3>4. attempts[f] > 0
      BY <1>1, <1>3, <3>1, <3>3 DEF InTurn
    <3> QED  BY <3>1, <3>4, <1>4 DEF Ageing
  <2>2. CASE d # e
    <3>1. sent[d] > 0
      BY <1>6, <1>7, <2>2 DEF Inserted
    <3> QED  BY <1>4, <1>7, <3>1, SentBefore
  <2> QED  BY <2>1, <2>2
<1>8. OlderTriedFirst'
  BY <1>7 DEF OlderTriedFirst
<1> QED  BY <1>5, <1>6, <1>8 DEF TurnsInvariant

\* One worker moves and nothing is sent.
LEMMA OneTurn ==
  ASSUME InductiveInvariant, InductiveInvariant', TurnsInvariant, Ageing, UNCHANGED sent,
         NEW w \in Workers, InTurn(w)', \A v \in Workers : v # w => workers'[v] = workers[v]
  PROVE  TurnsInvariant'
<1>1. \A v \in Workers : InTurn(v)'
  BY StayingTurn DEF TurnsInvariant
<1> QED  BY <1>1, NothingSent

LEMMA TurnsNext ==
  ASSUME InductiveInvariant, TurnsInvariant, [Next]_vars
  PROVE  TurnsInvariant'
<1>0. InductiveInvariant' /\ TypeOK /\ attempts \in [Events -> Nat]
  BY NextOK DEF InductiveInvariant, TypeOK
<1>1. ASSUME NEW e \in Events, Insert(e)
      PROVE  TurnsInvariant'
  <2>1. Ageing /\ UNCHANGED <<workers, sent>>
    BY <1>1, AgesInserted DEF Insert
  <2>2. \A v \in Workers : InTurn(v)'
    BY <1>0, <2>1, StayingTurn DEF TurnsInvariant
  <2> QED  BY <1>0, <2>1, <2>2, NothingSent
<1>2. ASSUME NEW w \in Workers, Tick(w)
      PROVE  TurnsInvariant'
  <2>1. UNCHANGED <<rows, sent, attempts>> /\ \A v \in Workers : v # w => workers'[v] = workers[v]
    BY <1>0, <1>2 DEF Tick, TypeOK
  <2>2. Ageing
    BY <1>0, <2>1, AgesKept DEF TypeOK
  <2> QED  BY <1>0, <1>2, <2>1, <2>2, TickTurn, OneTurn
<1>3. ASSUME NEW w \in Workers, NEW e \in Events, PublishSucceeds(w, e) \/ PublishFails(w, e)
      PROVE  TurnsInvariant'
  <2>1. CASE PublishSucceeds(w, e)
    BY <1>0, <2>1, SendingTurn DEF PublishSucceeds
  <2>2. CASE PublishFails(w, e)
    BY <1>0, <2>2, SendingTurn DEF PublishFails
  <2> QED  BY <1>3, <2>1, <2>2
<1>4. ASSUME NEW w \in Workers, NEW e \in Events, Save(w, e) \/ SaveFails(w, e) \/ TickFails(w, e)
      PROVE  TurnsInvariant'
  <2>1. /\ Handles(w, e) /\ UNCHANGED <<sent, attempts>> /\ workers[w].pc \in {"save", "saveFailure"}
        /\ rows' = rows \/ rows' = Written(e, Entry(w, e))
    BY <1>4 DEF Save, SaveFails, TickFails
  <2>2. Ageing
    BY <1>0, <2>1, AgesKept DEF TypeOK
  <2>3. InTurn(w) /\ attempts'[e] > 0
    BY <2>1 DEF TurnsInvariant, InTurn, Handles
  <2>4. \A v \in Workers : v # w => workers'[v] = workers[v]
    BY <1>0, <1>4 DEF Save, SaveFails, TickFails, Advances, Becomes, TypeOK
  <2>5. CASE Save(w, e)
    BY <1>0, <2>1, <2>2, <2>3, <2>4, <2>5, NextTurn, OneTurn DEF Save
  <2>6. CASE SaveFails(w, e)
    BY <1>0, <2>1, <2>2, <2>3, <2>4, <2>6, TriedTurn, OneTurn DEF SaveFails
  <2>7. CASE TickFails(w, e)
    <3>1. workers'[w] = Idle
      BY <1>0, <2>7 DEF TickFails, TypeOK
    <3> QED  BY <1>0, <2>1, <2>2, <2>4, <3>1, IdleTurn, OneTurn
  <2> QED  BY <1>4, <2>5, <2>6, <2>7
<1>5. ASSUME NEW w \in Workers, Crash(w)
      PROVE  TurnsInvariant'
  <2>1. /\ UNCHANGED <<rows, sent, attempts>> /\ workers'[w] = Idle
        /\ \A v \in Workers : v # w => workers'[v] = workers[v]
    BY <1>0, <1>5 DEF Crash, TypeOK
  <2>2. Ageing
    BY <1>0, <2>1, AgesKept DEF TypeOK
  <2> QED  BY <1>0, <2>1, <2>2, IdleTurn, OneTurn
<1>6. CASE UNCHANGED vars
  <2>1. UNCHANGED <<rows, workers, sent, attempts>>
    BY <1>6 DEF vars
  <2>2. Ageing
    BY <1>0, <2>1, AgesKept DEF TypeOK
  <2>3. \A v \in Workers : InTurn(v)'
    BY <1>0, <2>1, <2>2, StayingTurn DEF TurnsInvariant
  <2> QED  BY <1>0, <2>1, <2>2, <2>3, NothingSent
<1> QED  BY <1>1, <1>2, <1>3, <1>4, <1>5, <1>6 DEF Next, Work

LEMMA TurnsInit == Init => TurnsInvariant
<1> SUFFICES ASSUME Init PROVE TurnsInvariant
  OBVIOUS
<1>1. /\ \A e \in Events : rows[e].status = "none" /\ sent[e] = 0 /\ attempts[e] = 0
      /\ \A w \in Workers : workers[w].batch = {}
  BY DEF Init, NoRow, Idle
<1> QED  BY <1>1 DEF TurnsInvariant, InTurn, OlderTriedFirst, Inserted

(* An event is sent only when every older one has been sent or has failed  *)
(* at least once, whatever stale batches two workers hold: without a       *)
(* failure the events of an order leave in the order of their insertion.   *)
THEOREM OldestFirst == Spec => []OlderTriedFirst
<1>1. Init => InductiveInvariant /\ TurnsInvariant
  BY InitOK, TurnsInit
<1>2. InductiveInvariant /\ TurnsInvariant /\ [Next]_vars => (InductiveInvariant /\ TurnsInvariant)'
  BY NextOK, TurnsNext
<1>3. TurnsInvariant => OlderTriedFirst
  BY DEF TurnsInvariant
<1> QED  BY <1>1, <1>2, <1>3, PTL DEF Spec

-----------------------------------------------------------------------------
(* The outbox implements the steps of EventDelivery.                       *)

\* The events that reached the bus, and those whose row says FAILED.
Delivered == {e \in Events : sent[e] > 0}
Abandoned == {e \in Events : rows[e].status = "FAILED"}

DeliveryStep == Delivery!Next \/ UNCHANGED <<Inserted, Delivered, Abandoned>>

\* A copy more of an event, or none, is a delivery or nothing.
LEMMA SentStep ==
  ASSUME TypeOK, NEW e \in Inserted, UNCHANGED rows,
         sent' \in {sent, [sent EXCEPT ![e] = @ + 1]}
  PROVE  DeliveryStep
<1>1. e \in Events /\ sent \in [Events -> Nat] /\ UNCHANGED <<Inserted, Abandoned>>
  BY DEF TypeOK, Inserted, Abandoned
<1>2. CASE sent' = sent
  BY <1>1, <1>2 DEF DeliveryStep, Delivered
<1>3. CASE sent' = [sent EXCEPT ![e] = @ + 1]
  <2>1. Delivered' = Delivered \cup {e}
    BY <1>1, <1>3 DEF Delivered
  <2>2. Delivery!Deliver(e)
    BY <1>1, <2>1 DEF Delivery!Deliver, Delivered, Abandoned
  <2> QED  BY <1>1, <2>2 DEF DeliveryStep, Delivery!Next
<1> QED  BY <1>2, <1>3

\* A save gives the event up, takes it up again, or changes nothing of that.
LEMMA WrittenStep ==
  ASSUME InductiveInvariant, NEW w \in Workers, NEW e \in Events, Handles(w, e),
         rows' \in {rows, Written(e, Entry(w, e))}, UNCHANGED <<sent, attempts>>
  PROVE  DeliveryStep
<1>1. e \in Inserted /\ Entry(w, e) \in Entity /\ Entry(w, e).status # "none"
  BY SavedRows DEF InductiveInvariant, WorkerOK, Handles
<1>2. Delivered' = Delivered
  BY DEF Delivered
<1>3. CASE rows' = rows
  BY <1>2, <1>3 DEF DeliveryStep, Inserted, Abandoned
<1>4. CASE rows' = Written(e, Entry(w, e))
  <2>1. rows[e] \in Row /\ rows[e].status # "none" /\ rows \in [Events -> Row]
    BY <1>1 DEF InductiveInvariant, TypeOK, Inserted
  <2>2. rows'[e].status = Entry(w, e).status /\ \A f \in Events \ {e} : rows'[f] = rows[f]
    BY <1>4, <2>1 DEF Written, Row
  <2>3. Inserted' = Inserted
    BY <1>1, <2>1, <2>2 DEF Inserted
  <2>4. CASE Entry(w, e).status = "FAILED"
    <3>1. Abandoned' = Abandoned \cup {e}
      BY <2>2, <2>4 DEF Abandoned
    <3>2. Delivery!GiveUp(e)
      BY <1>1, <1>2, <2>3, <3>1 DEF Delivery!GiveUp, Delivered, Abandoned
    <3> QED  BY <3>2 DEF DeliveryStep, Delivery!Next
  <2>5. CASE Entry(w, e).status # "FAILED"
    <3>1. Abandoned' = Abandoned \ {e}
      BY <2>2, <2>5 DEF Abandoned
    <3>2. CASE e \in Abandoned
      <4>1. Delivery!Resume(e)
        BY <1>2, <2>3, <3>1, <3>2 DEF Delivery!Resume, Delivered, Abandoned
      <4> QED  BY <4>1 DEF DeliveryStep, Delivery!Next
    <3>3. CASE e \notin Abandoned
      BY <1>2, <2>3, <3>1, <3>3 DEF DeliveryStep
    <3> QED  BY <3>2, <3>3
  <2> QED  BY <2>4, <2>5
<1> QED  BY <1>3, <1>4

LEMMA InsertStep ==
  ASSUME InductiveInvariant, NEW e \in Events, Insert(e)
  PROVE  DeliveryStep
<1>1. /\ rows[e].status = "none" /\ UNCHANGED sent /\ rows \in [Events -> Row]
      /\ rows'[e].status = "PENDING" /\ \A f \in Events \ {e} : rows'[f] = rows[f]
  BY DEF Insert, InductiveInvariant, TypeOK
<1>2. /\ e \notin Inserted /\ Inserted' = Inserted \cup {e}
      /\ UNCHANGED <<Delivered, Abandoned>>
  BY <1>1 DEF Inserted, Delivered, Abandoned
<1>3. Delivery!Promise(e)
  BY <1>2 DEF Delivery!Promise, Delivered, Abandoned
<1> QED  BY <1>3 DEF DeliveryStep, Delivery!Next

LEMMA NextStep ==
  ASSUME InductiveInvariant, [Next]_vars
  PROVE  DeliveryStep
<1>1. ASSUME NEW e \in Events, Insert(e)
      PROVE  DeliveryStep
  BY <1>1, InsertStep
<1>2. ASSUME NEW w \in Workers, NEW e \in Events, PublishSucceeds(w, e) \/ PublishFails(w, e)
      PROVE  DeliveryStep
  <2>1. e \in Inserted /\ TypeOK
    BY <1>2 DEF PublishSucceeds, PublishFails, Tries, Handles, InductiveInvariant, WorkerOK
  <2> QED  BY <1>2, <2>1, SentStep DEF PublishSucceeds, PublishFails
<1>3. ASSUME NEW w \in Workers, NEW e \in Events, Save(w, e) \/ SaveFails(w, e) \/ TickFails(w, e)
      PROVE  DeliveryStep
  BY <1>3, WrittenStep DEF Save, SaveFails, TickFails
<1>4. ASSUME UNCHANGED <<rows, sent>>
      PROVE  DeliveryStep
  BY <1>4 DEF DeliveryStep, Inserted, Delivered, Abandoned
<1>5. ASSUME NEW w \in Workers, Tick(w) \/ Crash(w)
      PROVE  DeliveryStep
  BY <1>4, <1>5 DEF Tick, Crash
<1>6. CASE UNCHANGED vars
  BY <1>4, <1>6 DEF vars
<1> QED  BY <1>1, <1>2, <1>3, <1>5, <1>6 DEF Next, Work

(* Whatever workers race, crash or lose, the outbox does only what         *)
(* EventDelivery allows: nothing that was accepted is forgotten, nothing   *)
(* is delivered that was not accepted, and a delivery is never taken back. *)
THEOREM StepsOfDelivery ==
  Spec => Delivery!Init /\ [][Delivery!Next]_(Delivery!vars)
<1>1. Init => Delivery!Init
  <2> SUFFICES ASSUME Init PROVE Delivery!Init
    OBVIOUS
  <2>1. \A e \in Events : rows[e].status = "none" /\ sent[e] = 0
    BY DEF Init, NoRow
  <2> QED  BY <2>1 DEF Delivery!Init, Inserted
<1>2. InductiveInvariant /\ [Next]_vars => [Delivery!Next]_(Delivery!vars)
  BY NextStep DEF DeliveryStep, Delivery!vars, Delivered, Abandoned
<1> QED  BY <1>1, <1>2, OutboxInvariant, PTL DEF Spec

=============================================================================
