-------------------------------- MODULE Cart --------------------------------
(***************************************************************************)
(* The cart of one order in DRAFT: setCartItem, quoteCart and checkout of  *)
(* OrdersService, with the lines, the amounts and the prices that module   *)
(* OrderLifecycle leaves out.  Each call reads the order once and then     *)
(* awaits products, financial, the database and the outbox; replaceItems   *)
(* is a transaction of several statements in READ COMMITTED.               *)
(***************************************************************************)
EXTENDS Naturals, FiniteSets, FiniteSetsExt, Functions

CONSTANTS
  Products,       \* ids of products
  Catalogs,       \* sets of prices that products may answer, 0 when inactive
  Fees,           \* what financial may answer for the peak hour, 0 on error
  Handlers,       \* calls that may be in progress at the same time
  PaymentMethod,  \* "cash" or "wallet"
  CarefulBuyer,   \* whether the buyer pays only from an invoice
  Ids,            \* bound: ids of order_items, random in the code
  MaxQuantity,    \* bound of the quantity of a line
  MaxCalls        \* bound of the calls made

VARIABLES
  order,      \* the order row and its order_items
  calls,      \* [Handlers -> Call], the calls in progress
  cart,       \* [Products -> Nat], what the buyer sees in the browser
  invoice,    \* the quote on the screen, or NoInvoice
  announced,  \* [Products -> Nat], the last order.cart.item_changed
  charge,     \* the last order.order.created, or NoCharge
  started,    \* Nat, calls made so far
  serial      \* history: no call has started before the previous one ended

vars == <<order, calls, cart, invoice, announced, charge, started, serial>>

ASSUME CartAssumption ==
  /\ IsFiniteSet(Products) /\ Ids \subseteq Nat
  /\ Catalogs \subseteq [Products -> Nat] /\ Fees \subseteq Nat
  /\ PaymentMethod \in {"cash", "wallet"} /\ CarefulBuyer \in BOOLEAN
  /\ MaxQuantity \in Nat /\ MaxCalls \in Nat

-----------------------------------------------------------------------------
(* Types.                                                                  *)

Quantity == 0 .. MaxQuantity
Line == [id : Ids, productId : Products, unitPrice : Nat, quantity : Quantity, totalAmount : Nat]

OrderStatus == {"DRAFT", "CREATED", "PENDING_PAYMENT"}
CheckedOut == IF PaymentMethod = "cash" THEN "CREATED" ELSE "PENDING_PAYMENT"

NoInvoice == [shown |-> FALSE, lines |-> [p \in Products |-> 0], productsTotal |-> 0]
NoCharge == [made |-> FALSE, orderAmount |-> 0, totalAmount |-> 0]

\* `items` and `total` are what the call will write, `quantities` the body of the
\* request, `seen` the rows that its DELETE found.
Call == [op : {"none", "setCartItem", "quoteCart", "checkout"},
         pc : {"idle", "quoteItems", "getCommission", "delete", "commit", "reload",
               "publish", "created", "finalize"},
         items : SUBSET Line, quantities : [Products -> Quantity], total : Nat, fee : Nat,
         seen : SUBSET Ids]

Empty == [p \in Products |-> 0]
NoCall == [op |-> "none", pc |-> "idle", items |-> {}, quantities |-> Empty,
           total |-> 0, fee |-> 0, seen |-> {}]

(* Every variable has its type; one id is one row, as the primary key says.*)
TypeOK ==
  /\ order \in [status : OrderStatus, lines : SUBSET Line, totalAmount : Nat]
  /\ \A l, m \in order.lines : l.id = m.id => l = m
  /\ calls \in [Handlers -> Call]
  /\ cart \in [Products -> Quantity]
  /\ invoice \in [shown : BOOLEAN, lines : [Products -> Nat], productsTotal : Nat]
  /\ announced \in [Products -> Nat]
  /\ charge \in [made : BOOLEAN, orderAmount : Nat, totalAmount : Nat]
  /\ started \in 0 .. MaxCalls
  /\ serial \in BOOLEAN

\* What createDraft leaves: an empty cart, of which products has a projection.
Init ==
  /\ order = [status |-> "DRAFT", lines |-> {}, totalAmount |-> 0]
  /\ calls = [h \in Handlers |-> NoCall]
  /\ cart = Empty
  /\ invoice = NoInvoice
  /\ announced = Empty
  /\ charge = NoCharge
  /\ started = 0
  /\ serial = TRUE

-----------------------------------------------------------------------------
(* Helpers.                                                                *)

LineIds(lines) == {l.id : l \in lines}
Of(lines, p) == {l \in lines : l.productId = p}
Quantities(lines) == [p \in Products |-> MapThenSumSet(LAMBDA l : l.quantity, Of(lines, p))]
Total(lines) == MapThenSumSet(LAMBDA l : l.totalAmount, lines)

\* Ids that are in the table or in the memory of a call.
Held == LineIds(order.lines) \cup
        UNION {LineIds(calls[h].items) \cup calls[h].seen : h \in Handlers}

\* New ids for the products of S: different ones, that nobody holds.
Fresh(S) == {f \in [S -> Ids \ Held] : IsInjective(f)}
NewIds(S) == CHOOSE f \in Fresh(S) : TRUE

\* The line of a product that findIndex and find take, the oldest one by convention.
First(lines, p) == CHOOSE l \in Of(lines, p) : \A m \in Of(lines, p) : l.id <= m.id

\* setCartItem: remove the line, change its quantity or add it, unpriced.  The line
\* that changes keeps its totalAmount.
WithItem(lines, p, q) ==
  IF Of(lines, p) = {}
  THEN lines \cup
       {l \in {[id |-> NewIds({p})[p], productId |-> p, unitPrice |-> 0, quantity |-> q,
                totalAmount |-> 0]} : q > 0}
  ELSE LET l == First(lines, p)
       IN  (lines \ {l}) \cup {m \in {[l EXCEPT !.quantity = q]} : q > 0}

\* quoteCart: exactly the lines of the request, with the prices of the catalog;
\* a product that the cart has already keeps the id of its line.
Asked(quantities) == {p \in Products : quantities[p] > 0}
Missing(lines, quantities) == {p \in Asked(quantities) : Of(lines, p) = {}}
PricedId(lines, quantities, p) ==
  IF Of(lines, p) = {} THEN NewIds(Missing(lines, quantities))[p] ELSE First(lines, p).id
Priced(lines, quantities, catalog) ==
  {[id |-> PricedId(lines, quantities, p), productId |-> p, unitPrice |-> catalog[p],
    quantity |-> quantities[p], totalAmount |-> catalog[p] * quantities[p]]
     : p \in Asked(quantities)}

At(h, op, pc) == calls[h].op \in op /\ calls[h].pc = pc
Goes(h, pc) == calls' = [calls EXCEPT ![h].pc = pc]
Ends(h) == calls' = [calls EXCEPT ![h] = NoCall]

Busy(op) == \E h \in Handlers : calls[h].op \in op

\* A request of the buyer reaches an idle handler while the cart is a DRAFT: in any
\* other status the call is rejected and changes nothing.
Requests(h, call) ==
  /\ calls[h] = NoCall
  /\ started < MaxCalls
  /\ started' = started + 1
  /\ serial' = (serial /\ \A g \in Handlers : calls[g] = NoCall)
  /\ order.status = "DRAFT"
  /\ calls' = [calls EXCEPT ![h] = call]

-----------------------------------------------------------------------------
(* setCartItem and quoteCart.  The browser does not edit the cart behind   *)
(* the dialog of a quote or of a payment.                                  *)

SetCartItem(h, p, q) ==
  /\ ~Busy({"quoteCart", "checkout"})
  /\ q # cart[p]
  /\ Fresh({p}) # {}
  /\ Requests(h, [NoCall EXCEPT !.op = "setCartItem", !.pc = "delete",
                                !.items = WithItem(order.lines, p, q),
                                !.total = order.totalAmount])
  /\ cart' = [cart EXCEPT ![p] = q]
  /\ invoice' = NoInvoice
  /\ UNCHANGED <<order, announced, charge>>

QuoteCart(h) ==
  /\ cart # Empty
  /\ ~Busy({"quoteCart", "checkout"})
  /\ Requests(h, [NoCall EXCEPT !.op = "quoteCart", !.pc = "quoteItems",
                                !.items = order.lines, !.quantities = cart])
  /\ invoice' = NoInvoice
  /\ UNCHANGED <<order, cart, announced, charge>>

\* products answers with the prices of this moment; the total is that of the products.
QuoteItems(h) ==
  /\ At(h, {"quoteCart"}, "quoteItems")
  /\ Fresh(Missing(calls[h].items, calls[h].quantities)) # {}
  /\ \E catalog \in Catalogs :
       LET items == Priced(calls[h].items, calls[h].quantities, catalog)
       IN  calls' = [calls EXCEPT ![h].items = items, ![h].total = Total(items),
                                  ![h].pc = "getCommission"]
  /\ UNCHANGED <<order, cart, invoice, announced, charge, started, serial>>

\* financial answers a fee that is only shown: the quote persists the total without it.
QuoteCommission(h) ==
  /\ At(h, {"quoteCart"}, "getCommission")
  /\ Goes(h, "delete")
  /\ UNCHANGED <<order, cart, invoice, announced, charge, started, serial>>

-----------------------------------------------------------------------------
(* replaceItems: no lock and no condition on the status.  The DELETE finds *)
(* the rows committed before it; rows inserted by a transaction that       *)
(* commits later stay.                                                     *)

DeleteItems(h) ==
  /\ At(h, {"setCartItem", "quoteCart"}, "delete")
  /\ calls' = [calls EXCEPT ![h].seen = LineIds(order.lines), ![h].pc = "commit"]
  /\ UNCHANGED <<order, cart, invoice, announced, charge, started, serial>>

\* Rows of other transactions that this one does not delete.
Survivors(h) == {l \in order.lines : l.id \notin calls[h].seen}

\* The rows that h replaced are gone for the transactions that had seen them; those
\* that it inserted are new rows, even under an old id.
Committed(h) ==
  calls' = [g \in Handlers |->
              IF g = h THEN [calls[h] EXCEPT !.pc = "reload"]
                       ELSE [calls[g] EXCEPT !.seen = @ \ calls[h].seen]]

\* Mutant: a line is inserted although its id is in the table.
CommitItemsUnkeyed(h) ==
  /\ At(h, {"setCartItem", "quoteCart"}, "commit")
  /\ order' = [order EXCEPT !.lines = Survivors(h) \cup calls[h].items,
                            !.totalAmount = calls[h].total]
  /\ Committed(h)
  /\ UNCHANGED <<cart, invoice, announced, charge, started, serial>>

CommitItems(h) ==
  /\ At(h, {"setCartItem", "quoteCart"}, "commit")
  /\ LineIds(Survivors(h)) \cap LineIds(calls[h].items) = {}
  /\ order' = [order EXCEPT !.lines = Survivors(h) \cup calls[h].items,
                            !.totalAmount = calls[h].total]
  /\ Committed(h)
  /\ UNCHANGED <<cart, invoice, announced, charge, started, serial>>

\* An id is in the table again: the transaction rolls back and the call fails.
DuplicateKey(h) ==
  /\ At(h, {"setCartItem", "quoteCart"}, "commit")
  /\ LineIds(Survivors(h)) \cap LineIds(calls[h].items) # {}
  /\ Ends(h)
  /\ UNCHANGED <<order, cart, invoice, announced, charge, started, serial>>

\* The order is read once more, to announce and return what the table has.
Reload(h) ==
  /\ At(h, {"setCartItem", "quoteCart"}, "reload")
  /\ calls' = [calls EXCEPT ![h].pc = "publish", ![h].items = order.lines, ![h].seen = {}]
  /\ UNCHANGED <<order, cart, invoice, announced, charge, started, serial>>

PublishSetItem(h) ==
  /\ At(h, {"setCartItem"}, "publish")
  /\ announced' = Quantities(calls[h].items)
  /\ Ends(h)
  /\ UNCHANGED <<order, cart, invoice, charge, started, serial>>

\* Mutant: a quote does not repair the projection of products.
PublishQuoteSilent(h) ==
  /\ At(h, {"quoteCart"}, "publish")
  /\ invoice' = [shown |-> TRUE, lines |-> calls[h].quantities, productsTotal |-> calls[h].total]
  /\ Ends(h)
  /\ UNCHANGED <<order, cart, announced, charge, started, serial>>

\* The projection of products is repaired, and the buyer gets the invoice.
PublishQuote(h) ==
  /\ At(h, {"quoteCart"}, "publish")
  /\ announced' = Quantities(calls[h].items)
  /\ invoice' = [shown |-> TRUE, lines |-> calls[h].quantities, productsTotal |-> calls[h].total]
  /\ Ends(h)
  /\ UNCHANGED <<order, cart, charge, started, serial>>

-----------------------------------------------------------------------------
(* checkout, up to the transition; OrderLifecycle has what follows.        *)

Checkout(h) ==
  /\ order.lines # {}
  /\ order.totalAmount > 0
  /\ CarefulBuyer => invoice.shown
  /\ Requests(h, [NoCall EXCEPT !.op = "checkout", !.pc = "getCommission",
                                !.total = order.totalAmount])
  /\ UNCHANGED <<order, cart, invoice, announced, charge>>

CheckoutCommission(h) ==
  /\ At(h, {"checkout"}, "getCommission")
  /\ \E fee \in Fees : calls' = [calls EXCEPT ![h].fee = fee, ![h].pc = "created"]
  /\ UNCHANGED <<order, cart, invoice, announced, charge, started, serial>>

\* order.order.created goes out before the order has left DRAFT.
PublishCreated(h) ==
  /\ At(h, {"checkout"}, "created")
  /\ charge' = [made |-> TRUE, orderAmount |-> calls[h].total,
                totalAmount |-> calls[h].total + calls[h].fee]
  /\ Goes(h, "finalize")
  /\ UNCHANGED <<order, cart, invoice, announced, started, serial>>

\* Mutant: the transition does not write the total.
SaveTransitionStatusOnly(h) ==
  /\ At(h, {"checkout"}, "finalize")
  /\ order' = IF order.status = "DRAFT" THEN [order EXCEPT !.status = CheckedOut] ELSE order
  /\ Ends(h)
  /\ UNCHANGED <<cart, invoice, announced, charge, started, serial>>

\* The compare-and-set writes the status and the total; a second checkout fails.
SaveTransition(h) ==
  /\ At(h, {"checkout"}, "finalize")
  /\ order' = IF order.status = "DRAFT"
              THEN [order EXCEPT !.status = CheckedOut,
                                 !.totalAmount = calls[h].total + calls[h].fee]
              ELSE order
  /\ Ends(h)
  /\ UNCHANGED <<cart, invoice, announced, charge, started, serial>>

\* An await fails or the instance dies: the rest of the call does not happen.
Abort(h) ==
  /\ calls[h] # NoCall
  /\ Ends(h)
  /\ UNCHANGED <<order, cart, invoice, announced, charge, started, serial>>

-----------------------------------------------------------------------------
(* The specification.                                                      *)

Step(h) ==
  \/ QuoteItems(h) \/ QuoteCommission(h)
  \/ DeleteItems(h) \/ CommitItems(h) \/ DuplicateKey(h) \/ Reload(h)
  \/ PublishSetItem(h) \/ PublishQuote(h)
  \/ CheckoutCommission(h) \/ PublishCreated(h) \/ SaveTransition(h)

Next ==
  \E h \in Handlers :
    \/ \E p \in Products, q \in Quantity : SetCartItem(h, p, q)
    \/ QuoteCart(h) \/ Checkout(h)
    \/ Step(h) \/ Abort(h)

Spec == Init /\ [][Next]_vars

-----------------------------------------------------------------------------
(* Properties.                                                             *)

(* What the invoice shows is what a payment would order: the lines, their  *)
(* total, and the projection from which products will reserve the stock.   *)
(* Each line of the invoice is one row.                                    *)
Faithful ==
  /\ Quantities(order.lines) = invoice.lines
  /\ announced = invoice.lines
  /\ order.totalAmount = invoice.productsTotal
  /\ \A l, m \in order.lines : l.productId = m.productId => l = m

(* While the invoice is on the screen the DRAFT has exactly its lines and  *)
(* total, whatever writes were lost before the quote.                      *)
InvoiceMatchesCart == invoice.shown /\ order.status = "DRAFT" => Faithful

(* The same of a browser that waits for each call before the next: a quote *)
(* repairs what failed calls left, in the order and in products.           *)
SerialInvoiceMatchesCart == serial => InvoiceMatchesCart

(* An order that left DRAFT records the total that financial was told to   *)
(* charge, whose base is what the invoice showed; and it keeps the lines   *)
(* of the invoice, which products reserves.                                *)
PlacedAsInvoiced ==
  (serial /\ order.status # "DRAFT") =>
     /\ charge.made
     /\ order.totalAmount = charge.totalAmount
     /\ charge.orderAmount = invoice.productsTotal
     /\ Quantities(order.lines) = invoice.lines
     /\ announced = invoice.lines

(* What financial charges for the products is what the lines of the order  *)
(* cost when it is placed: each quantity at the price that products gave.  *)
ChargedForItsLines ==
  order.status # "DRAFT" =>
    charge.orderAmount = MapThenSumSet(LAMBDA l : l.unitPrice * l.quantity, order.lines)

=============================================================================
