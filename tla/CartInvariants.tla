--------------------------- MODULE CartInvariants ---------------------------
(***************************************************************************)
(* What the properties of Cart need to be inductive: the rows that calls   *)
(* hold, and, for a browser that waits for each call, what the one call in *)
(* progress knows of the order it read.                                    *)
(***************************************************************************)
EXTENDS Cart

-----------------------------------------------------------------------------
(* Rows.                                                                   *)

\* Lines that may be the order_items of one order: finitely many, one row per id.
Keyed(lines) ==
  /\ lines \in SUBSET Line /\ IsFiniteSet(lines)
  /\ \A l, m \in lines : l.id = m.id => l = m

\* What is stored and what calls hold are such rows: no call writes an id twice.
RowsAreKeyed ==
  /\ Keyed(order.lines)
  /\ \A h \in Handlers : Keyed(calls[h].items)

CartTypeInvariant == TypeOK /\ RowsAreKeyed

-----------------------------------------------------------------------------
(* A quote and what it has written.                                        *)

\* Lines and total of a quote of these quantities: one line for each product.
Quotes(lines, total, quantities) ==
  /\ Quantities(lines) = quantities
  /\ Total(lines) = total
  /\ \A l, m \in lines : l.productId = m.productId => l = m

\* Of a call that replaces the lines of a cart nobody else writes.
Writes(h) ==
  LET c == calls[h]
  IN  /\ c.op = "quoteCart" /\ c.pc \in {"getCommission", "delete", "commit"} =>
           Quotes(c.items, c.total, c.quantities)
      /\ c.op \in {"setCartItem", "quoteCart"} /\ c.pc = "commit" =>
           c.seen = LineIds(order.lines)
      /\ c.op = "quoteCart" /\ c.pc \in {"reload", "publish"} =>
           /\ Quotes(order.lines, c.total, c.quantities)
           /\ order.totalAmount = c.total
      /\ c.op = "quoteCart" /\ c.pc = "publish" => c.items = order.lines

\* Of a checkout whose buyer looks at the invoice.
Charges(h) ==
  LET c == calls[h]
  IN  c.op = "checkout" =>
        /\ CarefulBuyer => invoice.shown /\ c.total = invoice.productsTotal
        /\ c.pc = "finalize" =>
             charge = [made |-> TRUE, orderAmount |-> c.total, totalAmount |-> c.total + c.fee]

\* One call at a time, none once the order is placed, and an invoice on the screen
\* leaves no call but a checkout.
OneAtATime ==
  /\ \A g, h \in Handlers : calls[g] # NoCall /\ calls[h] # NoCall => g = h
  /\ \A h \in Handlers : calls[h] # NoCall =>
       /\ order.status = "DRAFT"
       /\ invoice.shown => calls[h].op = "checkout"

SerialCart ==
  /\ OneAtATime
  /\ \A h \in Handlers : Writes(h) /\ Charges(h)
  /\ InvoiceMatchesCart

(* The inductive invariant of the cart.                                    *)
CartInvariant ==
  /\ CartTypeInvariant
  /\ serial => SerialCart
  /\ CarefulBuyer => PlacedAsInvoiced

=============================================================================
