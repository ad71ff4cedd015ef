------------------------------- MODULE Outbox -------------------------------
(***************************************************************************)
(* The transactional outbox of orders-service: OutboxService inserts a     *)
(* PENDING row, and the OutboxWorker of every instance polls the table,    *)
(* sends what is pending to the bus and writes the outcome back.  Nothing  *)
(* locks a row: during a deployment two workers may hold the same one.     *)
(***************************************************************************)
EXTENDS Naturals, FiniteSets

CONSTANTS
  Events,        \* ids of outbox_events
  Workers,       \* the instances that run an OutboxWorker
  MAX_RETRIES,   \* attempts before an event is FAILED
  BATCH_SIZE,    \* rows that one tick loads
  MaxFaults      \* bound: failed writes of the database and crashes

VARIABLES
  rows,       \* [Events -> Row], outbox_events; createdAt orders the insertions
  workers,    \* [Workers -> Worker], the tick in progress of each instance
  sent,       \* [Events -> Nat], copies that the bus has accepted
  attempts,   \* [Events -> Nat], history: times a worker tried to send it
  faults      \* Nat, failures so far

vars == <<rows, workers, sent, attempts, faults>>

ASSUME OutboxAssumption ==
  /\ IsFiniteSet(Events)
  /\ MAX_RETRIES \in Nat \ {0} /\ BATCH_SIZE \in Nat \ {0} /\ MaxFaults \in Nat

-----------------------------------------------------------------------------
(* Types.                                                                  *)

OutboxStatus == {"PENDING", "PUBLISHED", "FAILED"}

\* No row counts more than MAX_RETRIES: the attempt that reaches it ends them.
Row == [status : OutboxStatus \cup {"none"}, retryCount : 0 .. MAX_RETRIES, createdAt : Nat]
NoRow == [status |-> "none", retryCount |-> 0, createdAt |-> 0]

\* A row as a worker holds it in memory.
Entity == [status : OutboxStatus \cup {"none"}, retryCount : 0 .. MAX_RETRIES]
NoEntity == [status |-> "none", retryCount |-> 0]

\* `batch` is what the tick has still to handle, `entity` its copies of the rows.
Worker == [pc : {"idle", "publish", "save", "saveFailure"},
           batch : SUBSET Events, entity : [Events -> Entity]]
Idle == [pc |-> "idle", batch |-> {}, entity |-> [e \in Events |-> NoEntity]]

(* Every variable has its type; the count of retries stays in its range,   *)
(* whichever worker wrote the row last.                                    *)
TypeOK ==
  /\ rows \in [Events -> Row]
  /\ workers \in [Workers -> Worker]
  /\ sent \in [Events -> Nat]
  /\ attempts \in [Events -> Nat]
  /\ faults \in Nat

Init ==
  /\ rows = [e \in Events |-> NoRow]
  /\ workers = [w \in Workers |-> Idle]
  /\ sent = [e \in Events |-> 0]
  /\ attempts = [e \in Events |-> 0]
  /\ faults = 0

-----------------------------------------------------------------------------
(* Helpers.                                                                *)

Inserted == {e \in Events : rows[e].status # "none"}

\* Mutant: an event that failed once is not loaded again.
DueOnce == {e \in Inserted : rows[e].status = "PENDING" /\ rows[e].retryCount < 1}

\* What the query of a tick selects, before ORDER BY and LIMIT.
Due == {e \in Inserted : rows[e].status = "PENDING" /\ rows[e].retryCount <= MAX_RETRIES}

\* The first BATCH_SIZE of them by createdAt.
IsBatch(S) ==
  /\ S \subseteq Due
  /\ IF Cardinality(Due) <= BATCH_SIZE THEN S = Due ELSE Cardinality(S) = BATCH_SIZE
  /\ \A e \in S, f \in Due \ S : rows[e].createdAt < rows[f].createdAt

\* Mutant: the query has no ORDER BY.
HandlesUnordered(w, e) == e \in workers[w].batch

\* The entity that worker w handles now: the loop goes through them by age.
Handles(w, e) ==
  /\ e \in workers[w].batch
  /\ \A f \in workers[w].batch : rows[e].createdAt <= rows[f].createdAt

Entry(w, e) == workers[w].entity[e]

\* Worker w now holds `entity` for e in memory, and is about to do `pc`.
Becomes(w, e, entity, pc) ==
  workers' = [workers EXCEPT ![w].pc = pc, ![w].entity[e] = entity]

\* The loop goes to the next entity, or the tick ends.
Advances(w, e) ==
  IF workers[w].batch = {e}
  THEN workers' = [workers EXCEPT ![w] = Idle]
  ELSE workers' = [workers EXCEPT ![w].pc = "publish", ![w].batch = @ \ {e},
                                  ![w].entity[e] = NoEntity]

\* repository.save, as one write: every column that differs takes the entity's value.
Written(e, entity) ==
  [rows EXCEPT ![e].status = entity.status, ![e].retryCount = entity.retryCount]

\* Mutant: the retry that reaches the limit is counted twice.
FailedEager(entity) ==
  [status |-> IF entity.retryCount + 2 >= MAX_RETRIES THEN "FAILED" ELSE entity.status,
   retryCount |-> entity.retryCount + 1]

\* Mutant: the limit is compared with the count before the increment.
FailedLate(entity) ==
  [status |-> IF entity.retryCount >= MAX_RETRIES THEN "FAILED" ELSE entity.status,
   retryCount |-> entity.retryCount + 1]

\* The catch block: one more retry, FAILED at the limit, otherwise the status that
\* the entity has in memory, which is PUBLISHED when only the save failed.
Failed(entity) ==
  [status |-> IF entity.retryCount + 1 >= MAX_RETRIES THEN "FAILED" ELSE entity.status,
   retryCount |-> entity.retryCount + 1]

-----------------------------------------------------------------------------
(* The actions.                                                            *)

\* createdAt follows the inserts: those of one order are awaited one after the other.
Insert(e) ==
  /\ rows[e].status = "none"
  /\ rows' = [rows EXCEPT ![e] = [status |-> "PENDING", retryCount |-> 0,
                                  createdAt |-> Cardinality(Inserted) + 1]]
  /\ UNCHANGED <<workers, sent, attempts, faults>>

\* `running` keeps the ticks of one worker apart; an empty result ends the tick.
Tick(w) ==
  /\ workers[w].pc = "idle"
  /\ \E S \in SUBSET Events :
       /\ S # {}
       /\ IsBatch(S)
       /\ workers' = [workers EXCEPT ![w] =
            [pc |-> "publish", batch |-> S,
             entity |-> [e \in Events |->
                           IF e \in S
                           THEN [status |-> rows[e].status, retryCount |-> rows[e].retryCount]
                           ELSE NoEntity]]]
  /\ UNCHANGED <<rows, sent, attempts, faults>>

Tries(w, e) ==
  /\ workers[w].pc = "publish"
  /\ Handles(w, e)
  /\ attempts' = [attempts EXCEPT ![e] = @ + 1]

PublishSucceeds(w, e) ==
  /\ Tries(w, e)
  /\ sent' = [sent EXCEPT ![e] = @ + 1]
  /\ Becomes(w, e, [Entry(w, e) EXCEPT !.status = "PUBLISHED"], "save")
  /\ UNCHANGED <<rows, faults>>

\* Mutant: the entity is marked PUBLISHED before it is sent.
PublishFailsMarked(w, e) ==
  /\ Tries(w, e)
  /\ Becomes(w, e, Failed([Entry(w, e) EXCEPT !.status = "PUBLISHED"]), "saveFailure")
  /\ UNCHANGED <<rows, sent, faults>>

\* The bus is down, or the acknowledgement of an accepted copy is lost.
PublishFails(w, e) ==
  /\ Tries(w, e)
  /\ sent' \in {sent, [sent EXCEPT ![e] = @ + 1]}
  /\ Becomes(w, e, Failed(Entry(w, e)), "saveFailure")
  /\ UNCHANGED <<rows, faults>>

Save(w, e) ==
  /\ workers[w].pc \in {"save", "saveFailure"}
  /\ Handles(w, e)
  /\ rows' = Written(e, Entry(w, e))
  /\ Advances(w, e)
  /\ UNCHANGED <<sent, attempts, faults>>

Fault == faults < MaxFaults /\ faults' = faults + 1

\* The save of PUBLISHED fails, written or not: the same catch block runs.
SaveFails(w, e) ==
  /\ workers[w].pc = "save"
  /\ Handles(w, e)
  /\ rows' \in {rows, Written(e, Entry(w, e))}
  /\ Becomes(w, e, Failed(Entry(w, e)), "saveFailure")
  /\ Fault
  /\ UNCHANGED <<sent, attempts>>

\* The save of a failure fails: the outer catch ends the tick and its batch.
TickFails(w, e) ==
  /\ workers[w].pc = "saveFailure"
  /\ Handles(w, e)
  /\ rows' \in {rows, Written(e, Entry(w, e))}
  /\ workers' = [workers EXCEPT ![w] = Idle]
  /\ Fault
  /\ UNCHANGED <<sent, attempts>>

\* The instance dies and starts again: what it held in memory is gone.
Crash(w) ==
  /\ workers[w] # Idle
  /\ workers' = [workers EXCEPT ![w] = Idle]
  /\ Fault
  /\ UNCHANGED <<rows, sent, attempts>>

Work(w) ==
  Tick(w) \/ \E e \in Events : PublishSucceeds(w, e) \/ PublishFails(w, e) \/ Save(w, e)

Next ==
  \/ \E e \in Events : Insert(e)
  \/ \E w \in Workers :
       Work(w) \/ Crash(w) \/ \E e \in Events : SaveFails(w, e) \/ TickFails(w, e)

Spec == Init /\ [][Next]_vars

\* The timer fires for ever, and a tick that started runs to its end.
FairSpec == Spec /\ \A w \in Workers : WF_vars(Work(w))

-----------------------------------------------------------------------------
(* Properties.                                                             *)

(* A row is PUBLISHED only if the bus has accepted its event at least once:*)
(* a worker that failed, or a stale copy of the row in another worker,     *)
(* must not mark an event that was never sent.                             *)
PublishedWasSent ==
  \A e \in Events : rows[e].status = "PUBLISHED" => sent[e] > 0

(* An event is FAILED only after MAX_RETRIES real attempts to send it,     *)
(* although two workers may overwrite each other's retryCount.             *)
GivenUpAfterRetries ==
  \A e \in Events : rows[e].status = "FAILED" => attempts[e] >= MAX_RETRIES

(* The events of one order leave in the order of their insertion, except   *)
(* around a failure: when an event has been sent, every older one has at   *)
(* least been tried, by this worker or by another that holds a stale batch.*)
OlderTriedFirst ==
  \A e, f \in Inserted :
    sent[e] > 0 /\ rows[f].createdAt < rows[e].createdAt => attempts[f] > 0

\* Refinement mapping: an event is given up when its row says FAILED.
Delivery == INSTANCE EventDelivery WITH
  promised  <- Inserted,
  delivered <- {e \in Events : sent[e] > 0},
  givenUp   <- {e \in Events : rows[e].status = "FAILED"}

(* The outbox implements EventDelivery: what was inserted is delivered at  *)
(* least once or is eventually FAILED, with any interleaving of two        *)
(* workers, lost acknowledgements, failed writes and crashes.              *)
ImplementsDelivery == Delivery!Spec

-----------------------------------------------------------------------------
(* The inductive invariant behind the three: what a row says of an event,  *)
(* and what a copy of it in the memory of a worker says, is true, now and  *)
(* when it will be written.                                                *)

\* x is a row or an entity of an event of which the bus took `copies` in `tries`.
Honest(x, copies, tries) ==
  /\ x.status = "PUBLISHED" => copies > 0
  /\ x.retryCount <= tries
  /\ x.status = "FAILED" <=> x.retryCount = MAX_RETRIES

\* Rows are ordered by createdAt without ties, so that a worker handles one entity.
Ordered ==
  \A e \in Inserted :
    /\ rows[e].createdAt <= Cardinality(Inserted)
    /\ \A f \in Inserted : rows[e].createdAt = rows[f].createdAt => e = f

\* Only the entity that a worker handles, and only after a failure, may be FAILED;
\* one that was sent has an attempt that its retryCount does not count yet.
WorkerOK(w) ==
  /\ workers[w].batch \subseteq Inserted
  /\ \A e \in Events : Honest(Entry(w, e), sent[e], attempts[e])
  /\ \A e \in workers[w].batch :
       /\ Entry(w, e).status # "none"
       /\ Entry(w, e).status = "FAILED" => workers[w].pc = "saveFailure" /\ Handles(w, e)
       /\ workers[w].pc = "save" /\ Handles(w, e) => Entry(w, e).retryCount < attempts[e]

InductiveInvariant ==
  /\ TypeOK
  /\ Ordered
  /\ \A e \in Events : Honest(rows[e], sent[e], attempts[e])
  /\ \A w \in Workers : WorkerOK(w)

\* An event older than one of a batch is in the batch too, or has been tried; the
\* loop leaves an event only after it has tried it.
InTurn(w) ==
  /\ \A e \in workers[w].batch, f \in Inserted :
       rows[f].createdAt < rows[e].createdAt => f \in workers[w].batch \/ attempts[f] > 0
  /\ \A e \in workers[w].batch :
       workers[w].pc \in {"save", "saveFailure"} /\ Handles(w, e) => attempts[e] > 0

TurnsInvariant ==
  /\ OlderTriedFirst
  /\ \A e \in Events : sent[e] <= attempts[e] /\ (sent[e] > 0 => e \in Inserted)
  /\ \A w \in Workers : InTurn(w)

=============================================================================
