----------------------------- MODULE CartProofs -----------------------------
(***************************************************************************)
(* Proofs about Cart, for any products, catalogs, fees, ids, calls and     *)
(* bounds.                                                                 *)
(***************************************************************************)
EXTENDS CartInvariants, FiniteSetTheorems, WellFoundedInduction, TLAPS

-----------------------------------------------------------------------------
(* Sums over finite sets.  MapThenSumSet chooses a function that satisfies *)
(* a recursive equation; that one exists is shown for each cardinality.    *)

LEMMA LeastNumber ==
  ASSUME NEW T \in SUBSET Nat, T # {}
  PROVE  \E n \in T : \A m \in T : n <= m
<1>1. PICK n \in T : \A y \in T : <<y, n>> \notin OpToRel(<, Nat)
  BY WFMin, NatLessThanWellFounded
<1>2. ASSUME NEW y \in T
      PROVE  ~(y < n)
  BY <1>1 DEF OpToRel
<1> QED  BY <1>2

One(s) == CHOOSE x \in s : TRUE

\* g adds up the weights of the sets of D.
AddsUp(g, D, w) ==
  \A s \in D : g[s] = IF s = {} THEN 0 ELSE w[One(s)] + g[s \ {One(s)}]

LEMMA OneLess ==
  ASSUME NEW s, IsFiniteSet(s), s # {}
  PROVE  /\ One(s) \in s
         /\ Cardinality(s) \in Nat /\ Cardinality(s \ {One(s)}) \in Nat
         /\ Cardinality(s) = Cardinality(s \ {One(s)}) + 1
<1>1. One(s) \in s
  BY DEF One
<1>2. /\ IsFiniteSet(s \ {One(s)})
      /\ Cardinality(s \ {One(s)}) = Cardinality(s) - 1
  BY <1>1, FS_RemoveElement
<1> QED  BY <1>1, <1>2, FS_CardinalityType

LEMMA SumsAreNumbers ==
  ASSUME NEW S, IsFiniteSet(S), NEW w \in [S -> Nat], NEW g, AddsUp(g, SUBSET S, w)
  PROVE  g[S] \in Nat
<1> DEFINE T == {Cardinality(s) : s \in {t \in SUBSET S : g[t] \notin Nat}}
<1>1. SUFFICES ASSUME T # {}
               PROVE  FALSE
  OBVIOUS
<1>2. T \in SUBSET Nat
  BY FS_Subset, FS_CardinalityType
<1>3. PICK n \in T : \A m \in T : n <= m
  BY <1>1, <1>2, LeastNumber
<1>4. PICK s \in SUBSET S : Cardinality(s) = n /\ g[s] \notin Nat
  BY <1>3
<1>5. s # {}
  BY <1>4 DEF AddsUp
<1>6. IsFiniteSet(s)
  BY FS_Subset
<1>7. PICK r : r = s \ {One(s)}
  OBVIOUS
<1>8. One(s) \in s /\ Cardinality(r) \in Nat /\ n = Cardinality(r) + 1
  BY <1>4, <1>5, <1>6, <1>7, OneLess
<1>9. r \in SUBSET S /\ w[One(s)] \in Nat
  BY <1>7, <1>8
<1>10. g[r] \notin Nat
  <2>1. g[s] = w[One(s)] + g[r]
    BY <1>5, <1>7 DEF AddsUp
  <2> QED  BY <1>4, <1>9, <2>1
<1>11. Cardinality(r) \in T
  <2>1. r \in {t \in SUBSET S : g[t] \notin Nat}
    BY <1>9, <1>10
  <2> QED  BY <2>1
<1>12. n <= Cardinality(r)
  <2> HIDE DEF T
  <2> QED  BY <1>3, <1>11
<1> QED  BY <1>8, <1>12

IsSum(g, S, w) ==
  g = [s \in SUBSET S |-> IF s = {} THEN 0 ELSE w[One(s)] + g[s \ {One(s)}]]

LEMMA SumsExist ==
  ASSUME NEW S, IsFiniteSet(S), NEW w \in [S -> Nat]
  PROVE  \E g : IsSum(g, S, w)
<1> DEFINE Upto(n) == {s \in SUBSET S : Cardinality(s) <= n}
<1> DEFINE Sums(n) == \E g : AddsUp(g, Upto(n), w)
<1> DEFINE T == {n \in Nat : ~Sums(n)}
<1>1. Sums(0)
  <2>1. \A s \in Upto(0) : s = {}
    BY FS_Subset, FS_CardinalityType, FS_EmptySet
  <2>2. AddsUp([s \in Upto(0) |-> 0], Upto(0), w)
    BY <2>1 DEF AddsUp
  <2> QED  BY <2>2
<1>2. ASSUME NEW n \in Nat, Sums(n)
      PROVE  Sums(n + 1)
  <2>1. PICK g : AddsUp(g, Upto(n), w)
    BY <1>2
  <2>2. PICK k : k = [s \in Upto(n + 1) |-> IF s = {} THEN 0 ELSE w[One(s)] + g[s \ {One(s)}]]
    OBVIOUS
  <2>3. ASSUME NEW s \in Upto(n + 1), s # {}
        PROVE  s \ {One(s)} \in Upto(n) /\ s \ {One(s)} \in Upto(n + 1)
    <3>1. s \in SUBSET S /\ IsFiniteSet(s) /\ Cardinality(s) <= n + 1
      BY FS_Subset
    <3> QED  BY <2>3, <3>1, OneLess
  <2>4. \A s \in Upto(n) : s \in Upto(n + 1) => k[s] = g[s]
    BY <2>1, <2>2 DEF AddsUp
  <2>5. AddsUp(k, Upto(n + 1), w)
    BY <2>2, <2>3, <2>4 DEF AddsUp
  <2> QED  BY <2>5
<1>3. T = {}
  <2>1. SUFFICES ASSUME T # {}
                 PROVE  FALSE
    OBVIOUS
  <2>2. PICK n \in T : \A m \in T : n <= m
    BY <2>1, LeastNumber
  <2>3. n \in Nat /\ ~Sums(n)
    OBVIOUS
  <2> HIDE DEF Sums
  <2>4. n # 0
    BY <1>1, <2>3
  <2>5. PICK m \in Nat : n = m + 1
    BY <2>3, <2>4
  <2>6. Sums(m)
    BY <2>2, <2>5
  <2> QED  BY <1>2, <2>3, <2>5, <2>6
<1>4. Cardinality(S) \in Nat /\ Upto(Cardinality(S)) = SUBSET S
  BY FS_Subset, FS_CardinalityType
<1>5. Sums(Cardinality(S))
  <2> HIDE DEF Sums
  <2> QED  BY <1>3, <1>4
<1>6. PICK g : AddsUp(g, SUBSET S, w)
  BY <1>4, <1>5
<1>7. PICK k : k = [s \in SUBSET S |-> IF s = {} THEN 0 ELSE w[One(s)] + g[s \ {One(s)}]]
  OBVIOUS
<1>8. ASSUME NEW s \in SUBSET S, s # {}
      PROVE  s \ {One(s)} \in SUBSET S /\ k[s \ {One(s)}] = g[s \ {One(s)}]
  BY <1>6, <1>7 DEF AddsUp
<1>9. IsSum(k, S, w)
  BY <1>7, <1>8 DEF IsSum
<1> QED  BY <1>9

LEMMA SumFacts ==
  ASSUME NEW S, IsFiniteSet(S), NEW w \in [S -> Nat], NEW g, AddsUp(g, SUBSET S, w)
  PROVE  /\ g[S] \in Nat
         /\ S = {} => g[S] = 0
         /\ \A x : S = {x} => g[S] = w[x]
<1>1. g[S] \in Nat
  BY SumsAreNumbers
<1>2. S = {} => g[S] = 0
  BY DEF AddsUp
<1>3. ASSUME NEW x, S = {x}
      PROVE  g[S] = w[x]
  <2>1. One(S) = x /\ S \ {One(S)} = {}
    BY <1>3 DEF One
  <2>2. g[S] = w[One(S)] + g[S \ {One(S)}]
    BY <1>3 DEF AddsUp
  <2>3. g[S] = w[x] + g[{}]
    BY <2>1, <2>2
  <2>4. g[{}] = 0
    BY DEF AddsUp
  <2>5. w[x] \in Nat
    BY <1>3
  <2> QED  BY <2>3, <2>4, <2>5
<1> QED  BY <1>1, <1>2, <1>3

LEMMA SumOfQuantities ==
  ASSUME NEW S, IsFiniteSet(S), \A l \in S : l.quantity \in Nat
  PROVE  /\ MapThenSumSet(LAMBDA l : l.quantity, S) \in Nat
         /\ S = {} => MapThenSumSet(LAMBDA l : l.quantity, S) = 0
         /\ \A x : S = {x} => MapThenSumSet(LAMBDA l : l.quantity, S) = x.quantity
<1> DEFINE Solves(g) ==
      g = [s \in SUBSET S |-> IF s = {} THEN 0 ELSE One(s).quantity + g[s \ {One(s)}]]
<1>1. PICK w \in [S -> Nat] : \A l \in S : w[l] = l.quantity
  <2>1. [l \in S |-> l.quantity] \in [S -> Nat]
    OBVIOUS
  <2> QED  BY <2>1
<1>2. \E g : Solves(g)
  <2>1. PICK g : IsSum(g, S, w)
    BY SumsExist
  <2>2. \A s \in SUBSET S : s # {} => w[One(s)] = One(s).quantity
    BY <1>1 DEF One
  <2>3. Solves(g)
    BY <2>1, <2>2 DEF IsSum
  <2> QED  BY <2>3
<1>3. PICK g : Solves(g) /\ MapThenSumSet(LAMBDA l : l.quantity, S) = g[S]
  <2>1. MapThenSumSet(LAMBDA l : l.quantity, S) = (CHOOSE g : Solves(g))[S]
    BY DEF MapThenSumSet, MapThenFoldSet, One
  <2>2. Solves(CHOOSE g : Solves(g))
    <3> HIDE DEF Solves
    <3> QED  BY <1>2
  <2> HIDE DEF Solves
  <2> QED  BY <2>1, <2>2
<1>4. AddsUp(g, SUBSET S, w)
  <2>1. \A s \in SUBSET S : s # {} => w[One(s)] = One(s).quantity
    BY <1>1 DEF One
  <2> QED  BY <1>3, <2>1 DEF AddsUp
<1>5. /\ g[S] \in Nat
      /\ S = {} => g[S] = 0
      /\ \A x : S = {x} => g[S] = w[x]
  BY <1>4, SumFacts
<1>6. \A x : S = {x} => w[x] = x.quantity
  BY <1>1
<1> QED  BY <1>3, <1>5, <1>6

LEMMA SumOfAmounts ==
  ASSUME NEW S, IsFiniteSet(S), \A l \in S : l.totalAmount \in Nat
  PROVE  /\ MapThenSumSet(LAMBDA l : l.totalAmount, S) \in Nat
         /\ S = {} => MapThenSumSet(LAMBDA l : l.totalAmount, S) = 0
         /\ \A x : S = {x} => MapThenSumSet(LAMBDA l : l.totalAmount, S) = x.totalAmount
<1> DEFINE Solves(g) ==
      g = [s \in SUBSET S |-> IF s = {} THEN 0 ELSE One(s).totalAmount + g[s \ {One(s)}]]
<1>1. PICK w \in [S -> Nat] : \A l \in S : w[l] = l.totalAmount
  <2>1. [l \in S |-> l.totalAmount] \in [S -> Nat]
    OBVIOUS
  <2> QED  BY <2>1
<1>2. \E g : Solves(g)
  <2>1. PICK g : IsSum(g, S, w)
    BY SumsExist
  <2>2. \A s \in SUBSET S : s # {} => w[One(s)] = One(s).totalAmount
    BY <1>1 DEF One
  <2>3. Solves(g)
    BY <2>1, <2>2 DEF IsSum
  <2> QED  BY <2>3
<1>3. PICK g : Solves(g) /\ MapThenSumSet(LAMBDA l : l.totalAmount, S) = g[S]
  <2>1. MapThenSumSet(LAMBDA l : l.totalAmount, S) = (CHOOSE g : Solves(g))[S]
    BY DEF MapThenSumSet, MapThenFoldSet, One
  <2>2. Solves(CHOOSE g : Solves(g))
    <3> HIDE DEF Solves
    <3> QED  BY <1>2
  <2> HIDE DEF Solves
  <2> QED  BY <2>1, <2>2
<1>4. AddsUp(g, SUBSET S, w)
  <2>1. \A s \in SUBSET S : s # {} => w[One(s)] = One(s).totalAmount
    BY <1>1 DEF One
  <2> QED  BY <1>3, <2>1 DEF AddsUp
<1>5. /\ g[S] \in Nat
      /\ S = {} => g[S] = 0
      /\ \A x : S = {x} => g[S] = w[x]
  BY <1>4, SumFacts
<1>6. \A x : S = {x} => w[x] = x.totalAmount
  BY <1>1
<1> QED  BY <1>3, <1>5, <1>6

-----------------------------------------------------------------------------
(* Lines and their ids.                                                    *)

\* What is computed from lines that are keyed is a number.
LEMMA KeyedCounts ==
  ASSUME NEW lines, Keyed(lines)
  PROVE  Quantities(lines) \in [Products -> Nat] /\ Total(lines) \in Nat
<1>1. ASSUME NEW l \in lines
      PROVE  l.quantity \in Nat /\ l.totalAmount \in Nat
  BY CartAssumption DEF Keyed, Line, Quantity
<1>2. Total(lines) \in Nat
  BY <1>1, SumOfAmounts DEF Total, Keyed
<1>3. ASSUME NEW p \in Products
      PROVE  MapThenSumSet(LAMBDA l : l.quantity, Of(lines, p)) \in Nat
  <2>1. IsFiniteSet(Of(lines, p)) /\ \A l \in Of(lines, p) : l.quantity \in Nat
    BY <1>1, FS_Subset DEF Keyed, Of
  <2> QED  BY <2>1, SumOfQuantities
<1> QED  BY <1>2, <1>3 DEF Quantities

\* A product has a first line as soon as it has one.
LEMMA FirstIsALine ==
  ASSUME NEW lines, Keyed(lines), NEW p, Of(lines, p) # {}
  PROVE  First(lines, p) \in Of(lines, p)
<1> DEFINE T == {l.id : l \in Of(lines, p)}
<1>1. T \in SUBSET Nat /\ T # {}
  BY CartAssumption DEF Of, Keyed, Line
<1>2. PICK n \in T : \A m \in T : n <= m
  BY <1>1, LeastNumber
<1>3. PICK l \in Of(lines, p) : l.id = n
  BY <1>2
<1>4. \A m \in Of(lines, p) : l.id <= m.id
  BY <1>2, <1>3
<1> QED  BY <1>4 DEF First

\* New ids differ, and no row that a call or the table holds has one of them.
LEMMA NewIdsAreFresh ==
  ASSUME NEW S, Fresh(S) # {}
  PROVE  /\ NewIds(S) \in [S -> Ids]
         /\ \A p \in S : NewIds(S)[p] \notin Held
         /\ \A p, q \in S : NewIds(S)[p] = NewIds(S)[q] => p = q
<1>1. NewIds(S) \in Fresh(S)
  BY DEF NewIds
<1>2. NewIds(S) \in [S -> Ids \ Held] /\ IsInjective(NewIds(S))
  BY <1>1 DEF Fresh
<1>3. DOMAIN NewIds(S) = S
  BY <1>2
<1> QED  BY <1>2, <1>3 DEF IsInjective

LEMMA KeyedSubset ==
  ASSUME NEW lines, Keyed(lines), NEW some \in SUBSET lines
  PROVE  Keyed(some)
BY FS_Subset DEF Keyed

\* Rows whose ids do not meet make one table.
LEMMA KeyedUnion ==
  ASSUME NEW A, Keyed(A), NEW B, Keyed(B), LineIds(A) \cap LineIds(B) = {}
  PROVE  Keyed(A \cup B)
<1>1. IsFiniteSet(A \cup B)
  BY FS_Union DEF Keyed
<1>2. A \cup B \in SUBSET Line
  BY DEF Keyed
<1>3. ASSUME NEW l \in A \cup B, NEW m \in A \cup B, l.id = m.id
      PROVE  l = m
  BY <1>3 DEF Keyed, LineIds
<1> QED  BY <1>1, <1>2, <1>3 DEF Keyed

\* setCartItem writes no id twice.
LEMMA WithItemKeyed ==
  ASSUME NEW lines, Keyed(lines), LineIds(lines) \subseteq Held,
         NEW p \in Products, NEW q \in Quantity, Fresh({p}) # {}
  PROVE  Keyed(WithItem(lines, p, q))
<1>1. CASE Of(lines, p) = {}
  <2>0. PICK new : new = [id |-> NewIds({p})[p], productId |-> p, unitPrice |-> 0,
                          quantity |-> q, totalAmount |-> 0]
    OBVIOUS
  <2>1. NewIds({p})[p] \in Ids /\ NewIds({p})[p] \notin Held
    <3>1. PICK f : f = NewIds({p})
      OBVIOUS
    <3>2. f \in [{p} -> Ids] /\ f[p] \notin Held
      BY <3>1, NewIdsAreFresh
    <3> QED  BY <3>1, <3>2
  <2>2. new \in Line
    BY <2>0, <2>1 DEF Line
  <2>3. Keyed({l \in {new} : q > 0})
    <3>1. IsFiniteSet({l \in {new} : q > 0})
      BY FS_Singleton, FS_Subset
    <3> QED  BY <2>2, <3>1 DEF Keyed
  <2>4. LineIds(lines) \cap LineIds({l \in {new} : q > 0}) = {}
    BY <2>0, <2>1 DEF LineIds
  <2>5. WithItem(lines, p, q) = lines \cup {l \in {new} : q > 0}
    BY <1>1, <2>0 DEF WithItem
  <2> QED  BY <2>3, <2>4, <2>5, KeyedUnion
<1>2. CASE Of(lines, p) # {}
  <2>1. PICK l : l = First(lines, p)
    OBVIOUS
  <2>2. l \in lines
    BY <1>2, <2>1, FirstIsALine DEF Of
  <2>3. PICK m : m = [l EXCEPT !.quantity = q]
    OBVIOUS
  <2>4. m \in Line /\ m.id = l.id
    BY <2>2, <2>3 DEF Keyed, Line
  <2>5. Keyed({k \in {m} : q > 0})
    <3>1. IsFiniteSet({k \in {m} : q > 0})
      BY FS_Singleton, FS_Subset
    <3> QED  BY <2>4, <3>1 DEF Keyed
  <2>6. Keyed(lines \ {l})
    BY KeyedSubset
  <2>7. LineIds(lines \ {l}) \cap LineIds({k \in {m} : q > 0}) = {}
    BY <2>2, <2>4 DEF LineIds, Keyed
  <2>8. WithItem(lines, p, q) = (lines \ {l}) \cup {k \in {m} : q > 0}
    BY <1>2, <2>1, <2>3 DEF WithItem
  <2> QED  BY <2>5, <2>6, <2>7, <2>8, KeyedUnion
<1> QED  BY <1>1, <1>2

\* The lines of a quote: one for each product asked for, and no id twice.
LEMMA PricedQuotes ==
  ASSUME NEW lines, Keyed(lines), LineIds(lines) \subseteq Held,
         NEW quantities \in [Products -> Quantity], NEW catalog \in [Products -> Nat],
         Fresh(Missing(lines, quantities)) # {}
  PROVE  LET items == Priced(lines, quantities, catalog)
         IN  Keyed(items) /\ Quotes(items, Total(items), quantities)
<1> DEFINE Row(p) ==
      [id |-> PricedId(lines, quantities, p), productId |-> p, unitPrice |-> catalog[p],
       quantity |-> quantities[p], totalAmount |-> catalog[p] * quantities[p]]
<1>1. PICK items : items = Priced(lines, quantities, catalog)
  OBVIOUS
<1>2. items = {Row(p) : p \in Asked(quantities)}
  BY <1>1 DEF Priced
<1>3. ASSUME NEW p \in Asked(quantities)
      PROVE  PricedId(lines, quantities, p) \in Ids
  <2>1. CASE Of(lines, p) = {}
    BY <1>3, <2>1, NewIdsAreFresh DEF PricedId, Missing
  <2>2. CASE Of(lines, p) # {}
    BY <2>2, FirstIsALine DEF PricedId, Of, Keyed, Line
  <2> QED  BY <2>1, <2>2
<1>4. ASSUME NEW p \in Asked(quantities)
      PROVE  Row(p) \in Line
  <2>1. p \in Products /\ catalog[p] \in Nat /\ quantities[p] \in Quantity
    BY DEF Asked
  <2>2. catalog[p] * quantities[p] \in Nat
    BY <2>1, CartAssumption DEF Quantity
  <2> QED  BY <1>3, <2>1, <2>2 DEF Line
<1>5. ASSUME NEW p \in Asked(quantities), NEW q \in Asked(quantities),
             PricedId(lines, quantities, p) = PricedId(lines, quantities, q)
      PROVE  p = q
  <2>1. CASE Of(lines, p) = {} /\ Of(lines, q) = {}
    BY <1>5, <2>1, NewIdsAreFresh DEF PricedId, Missing
  <2>2. CASE Of(lines, p) = {} /\ Of(lines, q) # {}
    BY <1>5, <2>2, NewIdsAreFresh, FirstIsALine DEF PricedId, Missing, Of, LineIds
  <2>3. CASE Of(lines, p) # {} /\ Of(lines, q) = {}
    BY <1>5, <2>3, NewIdsAreFresh, FirstIsALine DEF PricedId, Missing, Of, LineIds
  <2>4. CASE Of(lines, p) # {} /\ Of(lines, q) # {}
    BY <1>5, <2>4, FirstIsALine DEF PricedId, Of, Keyed
  <2> QED  BY <2>1, <2>2, <2>3, <2>4
<1>6. Keyed(items)
  <2>1. IsFiniteSet(Asked(quantities))
    BY CartAssumption, FS_Subset DEF Asked
  <2>2. IsFiniteSet(items)
    <3> HIDE DEF Row
    <3>1. PICK f : f = [p \in Asked(quantities) |-> Row(p)]
      OBVIOUS
    <3>2. f \in Surjection(Asked(quantities), items)
      BY <1>2, <3>1 DEF Surjection
    <3> QED  BY <2>1, <3>2, FS_Surjection
  <2>3. ASSUME NEW l \in items, NEW m \in items, l.id = m.id
        PROVE  l = m
    BY <1>2, <1>5, <2>3
  <2>4. items \in SUBSET Line
    BY <1>2, <1>4
  <2> QED  BY <2>2, <2>3, <2>4 DEF Keyed
<1>7. \A l, m \in items : l.productId = m.productId => l = m
  BY <1>2
<1>8. Quantities(items) = quantities
  <2>1. ASSUME NEW p \in Products
        PROVE  MapThenSumSet(LAMBDA l : l.quantity, Of(items, p)) = quantities[p]
    <3>1. IsFiniteSet(Of(items, p)) /\ \A l \in Of(items, p) : l.quantity \in Nat
      BY <1>6, FS_Subset, CartAssumption DEF Keyed, Of, Line, Quantity
    <3>2. CASE p \in Asked(quantities)
      <4>1. Of(items, p) = {Row(p)}
        BY <1>2, <3>2 DEF Of
      <4>2. Row(p).quantity = quantities[p]
        OBVIOUS
      <4> HIDE DEF Row
      <4> QED  BY <3>1, <4>1, <4>2, SumOfQuantities
    <3>3. CASE p \notin Asked(quantities)
      <4>1. Of(items, p) = {}
        BY <1>2, <3>3 DEF Of
      <4>2. quantities[p] = 0
        BY <3>3, CartAssumption DEF Asked, Quantity
      <4> QED  BY <3>1, <4>1, <4>2, SumOfQuantities
    <3> QED  BY <3>2, <3>3
  <2>2. quantities = [p \in Products |-> quantities[p]]
    OBVIOUS
  <2> QED  BY <2>1, <2>2 DEF Quantities
<1> QED  BY <1>1, <1>6, <1>7, <1>8 DEF Quotes

-----------------------------------------------------------------------------
(* Type correctness.                                                       *)

LEMMA NoCallTyped == NoCall \in Call /\ Keyed(NoCall.items) /\ Empty \in [Products -> Quantity]
<1>1. 0 \in Quantity
  BY CartAssumption DEF Quantity
<1>2. Empty \in [Products -> Quantity]
  BY <1>1 DEF Empty
<1> QED  BY <1>2, FS_EmptySet DEF NoCall, Call, Keyed

\* One call moves, with rows that are keyed.
LEMMA CallMoves ==
  ASSUME CartTypeInvariant, NEW h \in Handlers, NEW c \in Call, Keyed(c.items),
         calls' = [calls EXCEPT ![h] = c]
  PROVE  /\ calls' \in [Handlers -> Call]
         /\ \A g \in Handlers : Keyed(calls'[g].items)
<1>1. calls \in [Handlers -> Call] /\ \A g \in Handlers : Keyed(calls[g].items)
  BY DEF CartTypeInvariant, TypeOK, RowsAreKeyed
<1>2. ASSUME NEW g \in Handlers
      PROVE  calls'[g] \in Call /\ Keyed(calls'[g].items)
  BY <1>1
<1> QED  BY <1>1, <1>2

\* The type of an end, of a request that changes nothing but its call, and of a step
\* that leaves all but its call alone.
LEMMA RestTyped ==
  ASSUME CartTypeInvariant, calls' \in [Handlers -> Call],
         \A g \in Handlers : Keyed(calls'[g].items), order' = order,
         cart' \in [Products -> Quantity],
         invoice' \in [shown : BOOLEAN, lines : [Products -> Nat], productsTotal : Nat],
         announced' \in [Products -> Nat],
         charge' \in [made : BOOLEAN, orderAmount : Nat, totalAmount : Nat],
         started' \in 0 .. MaxCalls, serial' \in BOOLEAN
  PROVE  CartTypeInvariant'
BY DEF CartTypeInvariant, TypeOK, RowsAreKeyed

LEMMA NoInvoiceTyped ==
  NoInvoice \in [shown : BOOLEAN, lines : [Products -> Nat], productsTotal : Nat]
BY DEF NoInvoice

LEMMA RequestTyped ==
  ASSUME CartTypeInvariant, NEW h \in Handlers, NEW c \in Call, Keyed(c.items), Requests(h, c)
  PROVE  /\ calls' \in [Handlers -> Call]
         /\ \A g \in Handlers : Keyed(calls'[g].items)
         /\ started' \in 0 .. MaxCalls /\ serial' \in BOOLEAN
<1>1. started' \in 0 .. MaxCalls
  BY CartAssumption DEF Requests, CartTypeInvariant, TypeOK
<1>2. serial' \in BOOLEAN
  BY DEF Requests, CartTypeInvariant, TypeOK
<1>3. calls' = [calls EXCEPT ![h] = c]
  BY DEF Requests
<1> QED  BY <1>1, <1>2, <1>3, CallMoves

LEMMA TypeHoldsInitially == Init => CartTypeInvariant
<1> SUFFICES ASSUME Init  PROVE CartTypeInvariant
  OBVIOUS
<1>1. Keyed({})
  BY FS_EmptySet DEF Keyed
<1>2. calls \in [Handlers -> Call] /\ \A h \in Handlers : Keyed(calls[h].items)
  BY NoCallTyped DEF Init
<1>3. cart \in [Products -> Quantity] /\ announced \in [Products -> Nat]
  BY NoCallTyped DEF Init, Empty
<1>4. order \in [status : OrderStatus, lines : SUBSET Line, totalAmount : Nat]
  BY DEF Init, OrderStatus
<1>5. started \in 0 .. MaxCalls /\ serial \in BOOLEAN
  BY CartAssumption DEF Init
<1>6. charge \in [made : BOOLEAN, orderAmount : Nat, totalAmount : Nat]
  BY DEF Init, NoCharge
<1>7. order.lines = {}
  BY DEF Init
<1>8. invoice \in [shown : BOOLEAN, lines : [Products -> Nat], productsTotal : Nat]
  BY NoInvoiceTyped DEF Init
<1> QED  BY <1>1, <1>2, <1>3, <1>4, <1>5, <1>6, <1>7, <1>8
         DEF CartTypeInvariant, TypeOK, RowsAreKeyed

\* What the type invariant says of the rows that a call may use.
LEMMA TypedState ==
  ASSUME CartTypeInvariant, NEW h \in Handlers
  PROVE  /\ calls \in [Handlers -> Call] /\ calls[h] \in Call
         /\ Keyed(calls[h].items) /\ LineIds(calls[h].items) \subseteq Held
         /\ Keyed(order.lines) /\ LineIds(order.lines) \subseteq Held
         /\ order.totalAmount \in Nat
BY DEF CartTypeInvariant, TypeOK, RowsAreKeyed, Held

LEMMA SetCartItemTyped ==
  ASSUME CartTypeInvariant, NEW h \in Handlers, NEW p \in Products, NEW q \in Quantity,
         SetCartItem(h, p, q)
  PROVE  CartTypeInvariant'
<1>1. PICK items : items = WithItem(order.lines, p, q)
  OBVIOUS
<1>2. Keyed(items)
  BY <1>1, TypedState, WithItemKeyed DEF SetCartItem
<1>3. PICK c : c = [NoCall EXCEPT !.op = "setCartItem", !.pc = "delete", !.items = items,
                                  !.total = order.totalAmount]
  OBVIOUS
<1>4. c \in Call /\ Keyed(c.items)
  BY <1>2, <1>3, NoCallTyped, TypedState DEF NoCall, Call, Keyed
<1>5. Requests(h, c)
  BY <1>1, <1>3 DEF SetCartItem
<1>6. cart' \in [Products -> Quantity]
  BY DEF SetCartItem, CartTypeInvariant, TypeOK
<1>7. UNCHANGED <<order, announced, charge>> /\ invoice' = NoInvoice
  BY DEF SetCartItem
<1> QED  BY <1>4, <1>5, <1>6, <1>7, RequestTyped, RestTyped, NoInvoiceTyped
         DEF CartTypeInvariant, TypeOK

LEMMA QuoteCartTyped ==
  ASSUME CartTypeInvariant, NEW h \in Handlers, QuoteCart(h)
  PROVE  CartTypeInvariant'
<1>1. cart \in [Products -> Quantity]
  BY DEF CartTypeInvariant, TypeOK
<1>2. PICK c : c = [NoCall EXCEPT !.op = "quoteCart", !.pc = "quoteItems",
                                  !.items = order.lines, !.quantities = cart]
  OBVIOUS
<1>3. c \in Call /\ Keyed(c.items)
  BY <1>1, <1>2, NoCallTyped, TypedState DEF NoCall, Call, Keyed
<1>4. Requests(h, c)
  BY <1>2 DEF QuoteCart
<1>5. UNCHANGED <<order, cart, announced, charge>> /\ invoice' = NoInvoice
  BY DEF QuoteCart
<1> QED  BY <1>1, <1>3, <1>4, <1>5, RequestTyped, RestTyped, NoInvoiceTyped
         DEF CartTypeInvariant, TypeOK

LEMMA CheckoutTyped ==
  ASSUME CartTypeInvariant, NEW h \in Handlers, Checkout(h)
  PROVE  CartTypeInvariant'
<1>1. PICK c : c = [NoCall EXCEPT !.op = "checkout", !.pc = "getCommission",
                                  !.total = order.totalAmount]
  OBVIOUS
<1>2. c \in Call /\ Keyed(c.items)
  BY <1>1, NoCallTyped, TypedState DEF NoCall, Call, Keyed
<1>3. Requests(h, c)
  BY <1>1 DEF Checkout
<1>4. UNCHANGED <<order, cart, invoice, announced, charge>>
  BY DEF Checkout
<1> QED  BY <1>2, <1>3, <1>4, RequestTyped, RestTyped DEF CartTypeInvariant, TypeOK

\* A step that only moves its call, to one that is typed.
LEMMA MoveTyped ==
  ASSUME CartTypeInvariant, NEW h \in Handlers, NEW c \in Call, Keyed(c.items),
         calls' = [calls EXCEPT ![h] = c],
         UNCHANGED <<order, cart, invoice, announced, charge, started, serial>>
  PROVE  CartTypeInvariant'
BY CallMoves, RestTyped DEF CartTypeInvariant, TypeOK

LEMMA QuoteItemsTyped ==
  ASSUME CartTypeInvariant, NEW h \in Handlers, QuoteItems(h)
  PROVE  CartTypeInvariant'
<1>1. PICK catalog \in Catalogs :
        LET items == Priced(calls[h].items, calls[h].quantities, catalog)
        IN  calls' = [calls EXCEPT ![h].items = items, ![h].total = Total(items),
                                   ![h].pc = "getCommission"]
  BY DEF QuoteItems
<1>2. PICK items : items = Priced(calls[h].items, calls[h].quantities, catalog)
  OBVIOUS
<1>3. catalog \in [Products -> Nat] /\ calls[h].quantities \in [Products -> Quantity]
  BY CartAssumption, TypedState DEF Call
<1>4. Keyed(items) /\ Total(items) \in Nat
  BY <1>2, <1>3, TypedState, PricedQuotes, KeyedCounts DEF QuoteItems
<1>5. PICK total : total = Total(items)
  OBVIOUS
<1>6. PICK c : c = [calls[h] EXCEPT !.items = items, !.total = total, !.pc = "getCommission"]
  OBVIOUS
<1>7. c \in Call /\ c.items = items
  <2>1. items \in SUBSET Line /\ total \in Nat
    BY <1>4, <1>5 DEF Keyed
  <2> QED  BY <1>6, <2>1, TypedState DEF Call
<1>8. calls' = [calls EXCEPT ![h] = c]
  BY <1>1, <1>2, <1>5, <1>6, TypedState
<1> QED  BY <1>4, <1>7, <1>8, MoveTyped DEF QuoteItems

LEMMA GoesTyped ==
  ASSUME CartTypeInvariant, NEW h \in Handlers,
         NEW pc \in {"delete", "finalize"}, Goes(h, pc)
  PROVE  \E c \in Call : Keyed(c.items) /\ calls' = [calls EXCEPT ![h] = c]
<1>1. PICK c : c = [calls[h] EXCEPT !.pc = pc]
  OBVIOUS
<1>2. c \in Call /\ Keyed(c.items)
  BY <1>1, TypedState DEF Call
<1> QED  BY <1>1, <1>2, TypedState DEF Goes

LEMMA DeleteItemsTyped ==
  ASSUME CartTypeInvariant, NEW h \in Handlers, DeleteItems(h)
  PROVE  CartTypeInvariant'
<1>1. LineIds(order.lines) \in SUBSET Ids
  BY TypedState DEF Keyed, Line, LineIds
<1>2. PICK c : c = [calls[h] EXCEPT !.seen = LineIds(order.lines), !.pc = "commit"]
  OBVIOUS
<1>3. c \in Call /\ Keyed(c.items)
  BY <1>1, <1>2, TypedState DEF Call
<1>4. calls' = [calls EXCEPT ![h] = c]
  BY <1>2, TypedState DEF DeleteItems
<1> QED  BY <1>3, <1>4, MoveTyped DEF DeleteItems

LEMMA CommitItemsTyped ==
  ASSUME CartTypeInvariant, NEW h \in Handlers, CommitItems(h)
  PROVE  CartTypeInvariant'
<1>1. Keyed(Survivors(h))
  BY TypedState, KeyedSubset DEF Survivors
<1>2. PICK lines : lines = Survivors(h) \cup calls[h].items
  OBVIOUS
<1>3. Keyed(lines)
  BY <1>1, <1>2, TypedState, KeyedUnion DEF CommitItems
<1>4. order' = [order EXCEPT !.lines = lines, !.totalAmount = calls[h].total]
  BY <1>2 DEF CommitItems
<1>5. /\ order' \in [status : OrderStatus, lines : SUBSET Line, totalAmount : Nat]
      /\ order'.lines = lines
  BY <1>3, <1>4, TypedState DEF Keyed, Call, CartTypeInvariant, TypeOK
<1>6. ASSUME NEW g \in Handlers
      PROVE  /\ calls'[g] \in Call /\ Keyed(calls'[g].items)
  <2>1. calls'[g] = IF g = h THEN [calls[h] EXCEPT !.pc = "reload"]
                             ELSE [calls[g] EXCEPT !.seen = @ \ calls[h].seen]
    BY DEF CommitItems, Committed
  <2>2. calls'[g] \in Call /\ calls'[g].items = calls[g].items
    BY <2>1, TypedState DEF Call
  <2> QED  BY <2>2, TypedState
<1>7. calls' \in [Handlers -> Call]
  BY <1>6 DEF CommitItems, Committed
<1>8. UNCHANGED <<cart, invoice, announced, charge, started, serial>>
  BY DEF CommitItems
<1> QED  BY <1>3, <1>5, <1>6, <1>7, <1>8 DEF CartTypeInvariant, TypeOK, RowsAreKeyed, Keyed

LEMMA ReloadTyped ==
  ASSUME CartTypeInvariant, NEW h \in Handlers, Reload(h)
  PROVE  CartTypeInvariant'
<1>1. PICK c : c = [calls[h] EXCEPT !.pc = "publish", !.items = order.lines, !.seen = {}]
  OBVIOUS
<1>2. c \in Call /\ Keyed(c.items)
  BY <1>1, TypedState DEF Call, Keyed
<1>3. calls' = [calls EXCEPT ![h] = c]
  BY <1>1, TypedState DEF Reload
<1> QED  BY <1>2, <1>3, MoveTyped DEF Reload

LEMMA PublishSetItemTyped ==
  ASSUME CartTypeInvariant, NEW h \in Handlers, PublishSetItem(h)
  PROVE  CartTypeInvariant'
<1>1. announced' \in [Products -> Nat]
  BY TypedState, KeyedCounts DEF PublishSetItem
<1>2. calls' = [calls EXCEPT ![h] = NoCall]
  BY DEF PublishSetItem, Ends
<1>3. UNCHANGED <<order, cart, invoice, charge, started, serial>>
  BY DEF PublishSetItem
<1> QED  BY <1>1, <1>2, <1>3, NoCallTyped, CallMoves, RestTyped DEF CartTypeInvariant, TypeOK

LEMMA PublishQuoteTyped ==
  ASSUME CartTypeInvariant, NEW h \in Handlers, PublishQuote(h)
  PROVE  CartTypeInvariant'
<1>1. announced' \in [Products -> Nat]
  BY TypedState, KeyedCounts DEF PublishQuote
<1>2. invoice' \in [shown : BOOLEAN, lines : [Products -> Nat], productsTotal : Nat]
  <2>1. calls[h].quantities \in [Products -> Quantity] /\ calls[h].total \in Nat
    BY TypedState DEF Call
  <2>2. calls[h].quantities \in [Products -> Nat]
    BY <2>1, CartAssumption DEF Quantity
  <2> QED  BY <2>1, <2>2 DEF PublishQuote
<1>3. calls' = [calls EXCEPT ![h] = NoCall]
  BY DEF PublishQuote, Ends
<1>4. UNCHANGED <<order, cart, charge, started, serial>>
  BY DEF PublishQuote
<1> QED  BY <1>1, <1>2, <1>3, <1>4, NoCallTyped, CallMoves, RestTyped
         DEF CartTypeInvariant, TypeOK

LEMMA CheckoutCommissionTyped ==
  ASSUME CartTypeInvariant, NEW h \in Handlers, CheckoutCommission(h)
  PROVE  CartTypeInvariant'
<1>1. PICK fee \in Fees : calls' = [calls EXCEPT ![h].fee = fee, ![h].pc = "created"]
  BY DEF CheckoutCommission
<1>2. PICK c : c = [calls[h] EXCEPT !.fee = fee, !.pc = "created"]
  OBVIOUS
<1>3. c \in Call /\ Keyed(c.items)
  BY <1>2, CartAssumption, TypedState DEF Call
<1>4. calls' = [calls EXCEPT ![h] = c]
  BY <1>1, <1>2, TypedState
<1> QED  BY <1>3, <1>4, MoveTyped DEF CheckoutCommission

LEMMA PublishCreatedTyped ==
  ASSUME CartTypeInvariant, NEW h \in Handlers, PublishCreated(h)
  PROVE  CartTypeInvariant'
<1>1. PICK c \in Call : Keyed(c.items) /\ calls' = [calls EXCEPT ![h] = c]
  BY GoesTyped DEF PublishCreated
<1>2. charge' \in [made : BOOLEAN, orderAmount : Nat, totalAmount : Nat]
  BY TypedState DEF PublishCreated, Call
<1>3. UNCHANGED <<order, cart, invoice, announced, started, serial>>
  BY DEF PublishCreated
<1> QED  BY <1>1, <1>2, <1>3, CallMoves, RestTyped DEF CartTypeInvariant, TypeOK

LEMMA SaveTransitionTyped ==
  ASSUME CartTypeInvariant, NEW h \in Handlers, SaveTransition(h)
  PROVE  CartTypeInvariant'
<1>1. calls' = [calls EXCEPT ![h] = NoCall]
  BY DEF SaveTransition, Ends
<1>2. calls' \in [Handlers -> Call] /\ \A g \in Handlers : Keyed(calls'[g].items)
  BY <1>1, NoCallTyped, CallMoves
<1>3. calls[h].total + calls[h].fee \in Nat
  BY TypedState DEF Call
<1>4. /\ order' \in [status : OrderStatus, lines : SUBSET Line, totalAmount : Nat]
      /\ order'.lines = order.lines
  BY <1>3 DEF SaveTransition, CartTypeInvariant, TypeOK, OrderStatus, CheckedOut
<1>5. UNCHANGED <<cart, invoice, announced, charge, started, serial>>
  BY DEF SaveTransition
<1> QED  BY <1>2, <1>4, <1>5 DEF CartTypeInvariant, TypeOK, RowsAreKeyed

LEMMA TypeIsKept == CartTypeInvariant /\ [Next]_vars => CartTypeInvariant'
<1> SUFFICES ASSUME CartTypeInvariant, [Next]_vars
             PROVE  CartTypeInvariant'
  OBVIOUS
<1>1. CASE UNCHANGED vars
  BY <1>1 DEF vars, CartTypeInvariant, TypeOK, RowsAreKeyed
<1>2. ASSUME NEW h \in Handlers, NEW p \in Products, NEW q \in Quantity, SetCartItem(h, p, q)
      PROVE  CartTypeInvariant'
  BY <1>2, SetCartItemTyped
<1>3. ASSUME NEW h \in Handlers, QuoteCart(h)
      PROVE  CartTypeInvariant'
  BY <1>3, QuoteCartTyped
<1>4. ASSUME NEW h \in Handlers, Checkout(h)
      PROVE  CartTypeInvariant'
  BY <1>4, CheckoutTyped
<1>5. ASSUME NEW h \in Handlers, QuoteCommission(h)
      PROVE  CartTypeInvariant'
  <2>1. PICK c \in Call : Keyed(c.items) /\ calls' = [calls EXCEPT ![h] = c]
    BY <1>5, GoesTyped DEF QuoteCommission
  <2> QED  BY <1>5, <2>1, MoveTyped DEF QuoteCommission
<1>6. ASSUME NEW h \in Handlers, DuplicateKey(h) \/ Abort(h)
      PROVE  CartTypeInvariant'
  BY <1>6, NoCallTyped, MoveTyped DEF DuplicateKey, Abort, Ends
<1>7. ASSUME NEW h \in Handlers, Step(h)
      PROVE  CartTypeInvariant'
  BY <1>5, <1>6, <1>7, QuoteItemsTyped, DeleteItemsTyped, CommitItemsTyped, ReloadTyped,
     PublishSetItemTyped, PublishQuoteTyped, CheckoutCommissionTyped, PublishCreatedTyped,
     SaveTransitionTyped DEF Step
<1> QED  BY <1>1, <1>2, <1>3, <1>4, <1>6, <1>7 DEF Next

(* For any products, prices, fees, ids and number of overlapping calls the *)
(* state is well typed and an id of order_items is one row, in the table   *)
(* and in the memory of every call: the statements of replaceItems never   *)
(* leave the same primary key twice.                                       *)
THEOREM TypeCorrect == Spec => []TypeOK
<1>1. CartTypeInvariant => TypeOK
  BY DEF CartTypeInvariant
<1> QED  BY <1>1, TypeHoldsInitially, TypeIsKept, PTL DEF Spec

-----------------------------------------------------------------------------
(* A browser that waits for each call before the next.                     *)

\* The only call in progress, and what its end or its next step must leave.
LEMMA OneCallIsSerial ==
  ASSUME NEW h \in Handlers,
         \A g \in Handlers : g # h => calls'[g] = NoCall,
         calls'[h] # NoCall =>
           order'.status = "DRAFT" /\ (invoice'.shown => calls'[h].op = "checkout"),
         Writes(h)', Charges(h)', InvoiceMatchesCart'
  PROVE  SerialCart'
<1>1. OneAtATime'
  BY DEF OneAtATime
<1>2. ASSUME NEW g \in Handlers, g # h
      PROVE  Writes(g)' /\ Charges(g)'
  <2>1. calls'[g].op = "none"
    BY <1>2 DEF NoCall
  <2> QED  BY <2>1 DEF Writes, Charges
<1> QED  BY <1>1, <1>2 DEF SerialCart

\* Idle handlers owe nothing.
LEMMA IdleIsSerial ==
  ASSUME NEW h \in Handlers, CartTypeInvariant, calls' = [calls EXCEPT ![h] = NoCall],
         \A g \in Handlers : g # h => calls[g] = NoCall, InvoiceMatchesCart'
  PROVE  SerialCart'
<1>1. calls'[h] = NoCall /\ \A g \in Handlers : g # h => calls'[g] = NoCall
  BY TypedState
<1>2. Writes(h)' /\ Charges(h)'
  BY <1>1 DEF Writes, Charges, NoCall
<1> QED  BY <1>1, <1>2, OneCallIsSerial

\* Who is in progress is alone, with a DRAFT, and with no invoice unless it pays.
LEMMA BusyIsAlone ==
  ASSUME SerialCart, NEW h \in Handlers, calls[h] # NoCall
  PROVE  /\ \A g \in Handlers : g # h => calls[g] = NoCall
         /\ order.status = "DRAFT"
         /\ calls[h].op # "checkout" => ~invoice.shown
         /\ Writes(h) /\ Charges(h) /\ InvoiceMatchesCart
BY DEF SerialCart, OneAtATime

LEMMA StepIsBusy ==
  ASSUME NEW h, Step(h) \/ Abort(h)
  PROVE  calls[h] # NoCall
<1>1. \A op, pc : "none" \notin op => (At(h, op, pc) => calls[h] # NoCall)
  BY DEF At, NoCall
<1> QED  BY <1>1 DEF Step, Abort, QuoteItems, QuoteCommission, DeleteItems, CommitItems, DuplicateKey,
            Reload, PublishSetItem, PublishQuote, CheckoutCommission, PublishCreated, SaveTransition

\* A request that keeps the browser serial finds every handler idle.
LEMMA RequestIsFirst ==
  ASSUME CartInvariant, NEW h \in Handlers, NEW c, Requests(h, c), serial'
  PROVE  /\ \A g \in Handlers : g # h => calls'[g] = NoCall
         /\ calls'[h] = c /\ SerialCart /\ order.status = "DRAFT"
<1>1. \A g \in Handlers : calls[g] = NoCall
  BY DEF Requests
<1>2. calls' = [calls EXCEPT ![h] = c] /\ order.status = "DRAFT" /\ serial
  BY DEF Requests
<1>3. calls \in [Handlers -> Call]
  BY DEF CartInvariant, CartTypeInvariant, TypeOK
<1> QED  BY <1>1, <1>2, <1>3 DEF CartInvariant

LEMMA SetCartItemSerial ==
  ASSUME CartInvariant, serial', NEW h \in Handlers, NEW p, NEW q, SetCartItem(h, p, q)
  PROVE  SerialCart'
<1>1. PICK c : c = [NoCall EXCEPT !.op = "setCartItem", !.pc = "delete",
                                  !.items = WithItem(order.lines, p, q),
                                  !.total = order.totalAmount]
  OBVIOUS
<1>2. Requests(h, c) /\ c.op = "setCartItem" /\ c.pc = "delete"
  BY <1>1 DEF SetCartItem, NoCall
<1>3. calls'[h] = c /\ order.status = "DRAFT" /\ \A g \in Handlers : g # h => calls'[g] = NoCall
  BY <1>2, RequestIsFirst
<1>4. order' = order /\ ~invoice'.shown
  BY DEF SetCartItem, NoInvoice
<1>5. Writes(h)' /\ Charges(h)' /\ InvoiceMatchesCart'
  BY <1>2, <1>3, <1>4 DEF Writes, Charges, InvoiceMatchesCart
<1> QED  BY <1>3, <1>4, <1>5, OneCallIsSerial

LEMMA QuoteCartSerial ==
  ASSUME CartInvariant, serial', NEW h \in Handlers, QuoteCart(h)
  PROVE  SerialCart'
<1>1. PICK c : c = [NoCall EXCEPT !.op = "quoteCart", !.pc = "quoteItems",
                                  !.items = order.lines, !.quantities = cart]
  OBVIOUS
<1>2. Requests(h, c) /\ c.op = "quoteCart" /\ c.pc = "quoteItems"
  BY <1>1 DEF QuoteCart, NoCall
<1>3. calls'[h] = c /\ order.status = "DRAFT" /\ \A g \in Handlers : g # h => calls'[g] = NoCall
  BY <1>2, RequestIsFirst
<1>4. order' = order /\ ~invoice'.shown
  BY DEF QuoteCart, NoInvoice
<1>5. Writes(h)' /\ Charges(h)' /\ InvoiceMatchesCart'
  BY <1>2, <1>3, <1>4 DEF Writes, Charges, InvoiceMatchesCart
<1> QED  BY <1>3, <1>4, <1>5, OneCallIsSerial

LEMMA CheckoutSerial ==
  ASSUME CartInvariant, serial', NEW h \in Handlers, Checkout(h)
  PROVE  SerialCart'
<1>1. PICK c : c = [NoCall EXCEPT !.op = "checkout", !.pc = "getCommission",
                                  !.total = order.totalAmount]
  OBVIOUS
<1>2. /\ Requests(h, c) /\ c.op = "checkout" /\ c.pc = "getCommission"
      /\ c.total = order.totalAmount
  BY <1>1 DEF Checkout, NoCall
<1>3. /\ calls'[h] = c /\ order.status = "DRAFT" /\ SerialCart
      /\ \A g \in Handlers : g # h => calls'[g] = NoCall
  BY <1>2, RequestIsFirst
<1>4. UNCHANGED <<order, cart, invoice, announced, charge>> /\ (CarefulBuyer => invoice.shown)
  BY DEF Checkout
<1>5. CarefulBuyer => c.total = invoice.productsTotal
  BY <1>2, <1>3, <1>4 DEF SerialCart, InvoiceMatchesCart, Faithful
<1>6. Writes(h)' /\ Charges(h)'
  BY <1>2, <1>3, <1>4, <1>5 DEF Writes, Charges
<1>7. InvoiceMatchesCart'
  BY <1>3, <1>4 DEF SerialCart, InvoiceMatchesCart, Faithful
<1> QED  BY <1>2, <1>3, <1>4, <1>6, <1>7, OneCallIsSerial

\* A step of a call that edits the cart and goes on.
LEMMA EditGoesOn ==
  ASSUME CartTypeInvariant, SerialCart, NEW h \in Handlers,
         calls[h] # NoCall, calls[h].op # "checkout",
         NEW c, calls' = [calls EXCEPT ![h] = c], c.op = calls[h].op,
         UNCHANGED <<order, cart, invoice, announced, charge, started, serial>>,
         Writes(h)'
  PROVE  SerialCart'
<1>1. calls'[h] = c /\ \A g \in Handlers : g # h => calls'[g] = NoCall
  BY BusyIsAlone, TypedState
<1>2. order'.status = "DRAFT" /\ ~invoice'.shown
  BY BusyIsAlone
<1>3. Charges(h)' /\ InvoiceMatchesCart'
  BY <1>1, <1>2 DEF Charges, InvoiceMatchesCart
<1> QED  BY <1>1, <1>2, <1>3, OneCallIsSerial

LEMMA QuoteItemsSerial ==
  ASSUME CartTypeInvariant, SerialCart, NEW h \in Handlers, calls[h] # NoCall, QuoteItems(h)
  PROVE  SerialCart'
<1>1. PICK catalog \in Catalogs :
        LET items == Priced(calls[h].items, calls[h].quantities, catalog)
        IN  calls' = [calls EXCEPT ![h].items = items, ![h].total = Total(items),
                                   ![h].pc = "getCommission"]
  BY DEF QuoteItems
<1>2. PICK items : items = Priced(calls[h].items, calls[h].quantities, catalog)
  OBVIOUS
<1>3. PICK total : total = Total(items)
  OBVIOUS
<1>4. Quotes(items, total, calls[h].quantities)
  <2>1. catalog \in [Products -> Nat] /\ calls[h].quantities \in [Products -> Quantity]
    BY CartAssumption, TypedState DEF Call
  <2> QED  BY <1>2, <1>3, <2>1, TypedState, PricedQuotes DEF QuoteItems
<1>5. PICK c : c = [calls[h] EXCEPT !.items = items, !.total = total, !.pc = "getCommission"]
  OBVIOUS
<1>6. /\ c.op = "quoteCart" /\ c.pc = "getCommission" /\ c.items = items /\ c.total = total
      /\ c.quantities = calls[h].quantities
  BY <1>5, TypedState DEF Call, QuoteItems, At
<1>7. calls' = [calls EXCEPT ![h] = c]
  BY <1>1, <1>2, <1>3, <1>5, TypedState
<1>8. calls'[h] = c
  BY <1>7, TypedState
<1>9. Writes(h)'
  BY <1>4, <1>6, <1>8 DEF Writes
<1> QED  BY <1>6, <1>7, <1>9, EditGoesOn DEF QuoteItems, At

LEMMA QuoteCommissionSerial ==
  ASSUME CartTypeInvariant, SerialCart, NEW h \in Handlers, calls[h] # NoCall, QuoteCommission(h)
  PROVE  SerialCart'
<1>1. PICK c : c = [calls[h] EXCEPT !.pc = "delete"]
  OBVIOUS
<1>2. /\ c.op = "quoteCart" /\ c.pc = "delete" /\ c.items = calls[h].items
      /\ c.total = calls[h].total /\ c.quantities = calls[h].quantities
  BY <1>1, TypedState DEF Call, QuoteCommission, At
<1>3. Quotes(c.items, c.total, c.quantities)
  BY <1>2, BusyIsAlone DEF Writes, QuoteCommission, At
<1>4. calls' = [calls EXCEPT ![h] = c] /\ calls'[h] = c
  BY <1>1, TypedState DEF QuoteCommission, Goes
<1>5. Writes(h)'
  BY <1>2, <1>3, <1>4 DEF Writes
<1> QED  BY <1>2, <1>4, <1>5, EditGoesOn DEF QuoteCommission, At

LEMMA DeleteItemsSerial ==
  ASSUME CartTypeInvariant, SerialCart, NEW h \in Handlers, calls[h] # NoCall, DeleteItems(h)
  PROVE  SerialCart'
<1>1. PICK c : c = [calls[h] EXCEPT !.seen = LineIds(order.lines), !.pc = "commit"]
  OBVIOUS
<1>2. /\ c.op = calls[h].op /\ c.pc = "commit" /\ c.items = calls[h].items
      /\ c.total = calls[h].total /\ c.quantities = calls[h].quantities
      /\ c.seen = LineIds(order.lines) /\ c.op # "checkout"
  BY <1>1, TypedState DEF Call, DeleteItems, At
<1>3. c.op = "quoteCart" => Quotes(c.items, c.total, c.quantities)
  BY <1>2, BusyIsAlone DEF Writes, DeleteItems, At
<1>4. calls' = [calls EXCEPT ![h] = c] /\ calls'[h] = c /\ order' = order
  BY <1>1, TypedState DEF DeleteItems
<1>5. Writes(h)'
  BY <1>2, <1>3, <1>4 DEF Writes
<1> QED  BY <1>2, <1>4, <1>5, EditGoesOn DEF DeleteItems

\* Alone, the DELETE has seen every row: the order has the lines of the call.
LEMMA CommitItemsSerial ==
  ASSUME CartTypeInvariant, SerialCart, NEW h \in Handlers, calls[h] # NoCall, CommitItems(h)
  PROVE  SerialCart'
<1>1. /\ calls[h].op \in {"setCartItem", "quoteCart"} /\ calls[h].pc = "commit"
      /\ calls[h].seen = LineIds(order.lines)
  BY BusyIsAlone DEF CommitItems, At, Writes
<1>2. Survivors(h) = {}
  BY <1>1 DEF Survivors, LineIds
<1>3. order'.lines = calls[h].items /\ order'.totalAmount = calls[h].total
      /\ order'.status = order.status
  BY <1>2 DEF CommitItems, CartTypeInvariant, TypeOK
<1>4. PICK c : c = [calls[h] EXCEPT !.pc = "reload"]
  OBVIOUS
<1>5. /\ c.op = calls[h].op /\ c.pc = "reload" /\ c.total = calls[h].total
      /\ c.quantities = calls[h].quantities
  BY <1>4, TypedState DEF Call
<1>6. calls'[h] = c
  BY <1>4 DEF CommitItems, Committed
<1>7. ASSUME NEW g \in Handlers, g # h
      PROVE  calls'[g] = NoCall
  <2>1. calls[g] = NoCall
    BY <1>7, BusyIsAlone
  <2>2. calls'[g] = [NoCall EXCEPT !.seen = @ \ calls[h].seen]
    BY <1>7, <2>1 DEF CommitItems, Committed
  <2>3. NoCall.seen \ calls[h].seen = NoCall.seen
    BY DEF NoCall
  <2> QED  BY <2>2, <2>3 DEF NoCall
<1>8. c.op = "quoteCart" => Quotes(calls[h].items, c.total, c.quantities)
  BY <1>1, <1>5, BusyIsAlone DEF Writes
<1>9. Writes(h)'
  BY <1>3, <1>5, <1>6, <1>8 DEF Writes
<1>10. order'.status = "DRAFT" /\ ~invoice'.shown
  BY <1>1, <1>3, BusyIsAlone DEF CommitItems
<1>11. Charges(h)' /\ InvoiceMatchesCart'
  BY <1>1, <1>5, <1>6, <1>10 DEF Charges, InvoiceMatchesCart
<1> QED  BY <1>7, <1>9, <1>10, <1>11, OneCallIsSerial

LEMMA ReloadSerial ==
  ASSUME CartTypeInvariant, SerialCart, NEW h \in Handlers, calls[h] # NoCall, Reload(h)
  PROVE  SerialCart'
<1>1. PICK c : c = [calls[h] EXCEPT !.pc = "publish", !.items = order.lines, !.seen = {}]
  OBVIOUS
<1>2. /\ c.op = calls[h].op /\ c.pc = "publish" /\ c.items = order.lines
      /\ c.total = calls[h].total /\ c.quantities = calls[h].quantities /\ c.op # "checkout"
  BY <1>1, TypedState DEF Call, Reload, At
<1>3. c.op = "quoteCart" =>
        Quotes(order.lines, c.total, c.quantities) /\ order.totalAmount = c.total
  BY <1>2, BusyIsAlone DEF Writes, Reload, At
<1>4. calls' = [calls EXCEPT ![h] = c] /\ calls'[h] = c /\ order' = order
  BY <1>1, TypedState DEF Reload
<1>5. Writes(h)'
  BY <1>2, <1>3, <1>4 DEF Writes
<1> QED  BY <1>2, <1>4, <1>5, EditGoesOn DEF Reload

\* The invoice is that of the lines which the quote has just written.
LEMMA PublishQuoteSerial ==
  ASSUME CartTypeInvariant, SerialCart, NEW h \in Handlers, calls[h] # NoCall, PublishQuote(h)
  PROVE  SerialCart'
<1>1. PICK c : c = calls[h]
  OBVIOUS
<1>2. /\ Quotes(order.lines, c.total, c.quantities) /\ order.totalAmount = c.total
      /\ c.items = order.lines
  BY <1>1, BusyIsAlone DEF Writes, PublishQuote, At
<1>3. /\ announced' = Quantities(c.items) /\ order' = order
      /\ invoice' = [shown |-> TRUE, lines |-> c.quantities, productsTotal |-> c.total]
  BY <1>1 DEF PublishQuote
<1>4. announced' = c.quantities /\ Quantities(order.lines) = c.quantities
  BY <1>2, <1>3 DEF Quotes
<1>5. InvoiceMatchesCart'
  <2>1. \A l, m \in order.lines : l.productId = m.productId => l = m
    BY <1>2 DEF Quotes
  <2>2. order.totalAmount = c.total
    BY <1>2
  <2> QED  BY <1>3, <1>4, <2>1, <2>2 DEF InvoiceMatchesCart, Faithful
<1>6. calls' = [calls EXCEPT ![h] = NoCall]
  BY DEF PublishQuote, Ends
<1> QED  BY <1>5, <1>6, BusyIsAlone, IdleIsSerial

LEMMA PublishSetItemSerial ==
  ASSUME CartTypeInvariant, SerialCart, NEW h \in Handlers, calls[h] # NoCall, PublishSetItem(h)
  PROVE  SerialCart'
<1>1. ~invoice'.shown
  BY BusyIsAlone DEF PublishSetItem, At
<1>2. calls' = [calls EXCEPT ![h] = NoCall]
  BY DEF PublishSetItem, Ends
<1> QED  BY <1>1, <1>2, BusyIsAlone, IdleIsSerial DEF InvoiceMatchesCart

LEMMA EndSerial ==
  ASSUME CartTypeInvariant, SerialCart, NEW h \in Handlers, calls[h] # NoCall,
         DuplicateKey(h) \/ Abort(h)
  PROVE  SerialCart'
<1>1. UNCHANGED <<order, cart, invoice, announced, charge, started, serial>>
  BY DEF DuplicateKey, Abort
<1>2. InvoiceMatchesCart'
  BY <1>1, BusyIsAlone DEF InvoiceMatchesCart, Faithful
<1>3. calls' = [calls EXCEPT ![h] = NoCall]
  BY DEF DuplicateKey, Abort, Ends
<1> QED  BY <1>2, <1>3, BusyIsAlone, IdleIsSerial

\* A step of a checkout that goes on.
LEMMA PaymentGoesOn ==
  ASSUME CartTypeInvariant, SerialCart, NEW h \in Handlers, calls[h] # NoCall,
         NEW c, calls' = [calls EXCEPT ![h] = c], c.op = "checkout",
         UNCHANGED <<order, cart, invoice, announced>>, Charges(h)'
  PROVE  SerialCart'
<1>1. calls'[h] = c /\ \A g \in Handlers : g # h => calls'[g] = NoCall
  BY BusyIsAlone, TypedState
<1>2. order'.status = "DRAFT"
  BY BusyIsAlone
<1>3. Writes(h)'
  BY <1>1 DEF Writes
<1>4. InvoiceMatchesCart'
  BY BusyIsAlone DEF InvoiceMatchesCart, Faithful
<1> QED  BY <1>1, <1>2, <1>3, <1>4, OneCallIsSerial

LEMMA CheckoutCommissionSerial ==
  ASSUME CartTypeInvariant, SerialCart, NEW h \in Handlers, calls[h] # NoCall,
         CheckoutCommission(h)
  PROVE  SerialCart'
<1>1. PICK fee \in Fees : calls' = [calls EXCEPT ![h].fee = fee, ![h].pc = "created"]
  BY DEF CheckoutCommission
<1>2. PICK c : c = [calls[h] EXCEPT !.fee = fee, !.pc = "created"]
  OBVIOUS
<1>3. calls' = [calls EXCEPT ![h] = c] /\ calls'[h] = c
  BY <1>1, <1>2, TypedState
<1>4. c.op = "checkout" /\ c.pc = "created" /\ c.total = calls[h].total
  BY <1>2, TypedState DEF Call, CheckoutCommission, At
<1>5. UNCHANGED <<order, cart, invoice, announced>>
  BY DEF CheckoutCommission
<1>6. Charges(h)'
  BY <1>3, <1>4, <1>5, BusyIsAlone DEF Charges, CheckoutCommission, At
<1> QED  BY <1>3, <1>4, <1>5, <1>6, PaymentGoesOn

LEMMA PublishCreatedSerial ==
  ASSUME CartTypeInvariant, SerialCart, NEW h \in Handlers, calls[h] # NoCall, PublishCreated(h)
  PROVE  SerialCart'
<1>1. PICK c : c = [calls[h] EXCEPT !.pc = "finalize"]
  OBVIOUS
<1>2. calls' = [calls EXCEPT ![h] = c] /\ calls'[h] = c
  BY <1>1, TypedState DEF PublishCreated, Goes
<1>3. /\ c.op = "checkout" /\ c.pc = "finalize" /\ c.total = calls[h].total
      /\ c.fee = calls[h].fee
  BY <1>1, TypedState DEF Call, PublishCreated, At
<1>4. /\ UNCHANGED <<order, cart, invoice, announced>>
      /\ charge' = [made |-> TRUE, orderAmount |-> c.total, totalAmount |-> c.total + c.fee]
  BY <1>3 DEF PublishCreated
<1>5. Charges(h)'
  BY <1>2, <1>3, <1>4, BusyIsAlone DEF Charges, PublishCreated, At
<1> QED  BY <1>2, <1>3, <1>4, <1>5, PaymentGoesOn

LEMMA SaveTransitionSerial ==
  ASSUME CartTypeInvariant, SerialCart, NEW h \in Handlers, calls[h] # NoCall, SaveTransition(h)
  PROVE  SerialCart' /\ (CarefulBuyer => PlacedAsInvoiced')
<1>1. PICK c : c = calls[h]
  OBVIOUS
<1>2. c.op = "checkout" /\ c.pc = "finalize"
  BY <1>1 DEF SaveTransition, At
<1>3. charge = [made |-> TRUE, orderAmount |-> c.total, totalAmount |-> c.total + c.fee]
  BY <1>1, <1>2, BusyIsAlone DEF Charges
<1>4. /\ order'.status = CheckedOut /\ order'.totalAmount = c.total + c.fee
      /\ order'.lines = order.lines
  BY <1>1, BusyIsAlone DEF SaveTransition, CartTypeInvariant, TypeOK
<1>5. order'.status # "DRAFT"
  BY <1>4 DEF CheckedOut
<1>6. UNCHANGED <<cart, invoice, announced, charge, started, serial>>
  BY DEF SaveTransition
<1>7. calls' = [calls EXCEPT ![h] = NoCall]
  BY DEF SaveTransition, Ends
<1>8. SerialCart'
  BY <1>5, <1>7, BusyIsAlone, IdleIsSerial DEF InvoiceMatchesCart
<1>9. ASSUME CarefulBuyer
      PROVE  PlacedAsInvoiced'
  <2>1. invoice.shown /\ c.total = invoice.productsTotal
    BY <1>1, <1>2, <1>9, BusyIsAlone DEF Charges
  <2>2. Quantities(order.lines) = invoice.lines /\ announced = invoice.lines
    BY <2>1, BusyIsAlone DEF InvoiceMatchesCart, Faithful
  <2> QED  BY <1>3, <1>4, <1>6, <2>1, <2>2 DEF PlacedAsInvoiced
<1> QED  BY <1>8, <1>9

LEMMA StepSerial ==
  ASSUME CartInvariant, serial', NEW h \in Handlers, Step(h) \/ Abort(h)
  PROVE  SerialCart' /\ (CarefulBuyer /\ order'.status # "DRAFT" => PlacedAsInvoiced')
<1>1. calls[h] # NoCall
  BY StepIsBusy
<1>2. serial' = serial
  BY DEF Step, Abort, QuoteItems, QuoteCommission, DeleteItems, CommitItems, DuplicateKey, Reload,
         PublishSetItem, PublishQuote, CheckoutCommission, PublishCreated, SaveTransition
<1>3. CartTypeInvariant /\ SerialCart
  BY <1>2 DEF CartInvariant
<1>4. order.status = "DRAFT"
  BY <1>1, <1>3, BusyIsAlone
<1>5. CASE SaveTransition(h)
  BY <1>1, <1>3, <1>5, SaveTransitionSerial
<1>6. CASE ~SaveTransition(h)
  <2>1. order'.status = order.status
    BY <1>3, <1>6 DEF Step, Abort, QuoteItems, QuoteCommission, DeleteItems, CommitItems, DuplicateKey,
       Reload, PublishSetItem, PublishQuote, CheckoutCommission, PublishCreated,
       CartTypeInvariant, TypeOK
  <2>2. SerialCart'
    BY <1>1, <1>3, <1>6, QuoteItemsSerial, QuoteCommissionSerial, DeleteItemsSerial,
       CommitItemsSerial, ReloadSerial, PublishSetItemSerial, PublishQuoteSerial, EndSerial,
       CheckoutCommissionSerial, PublishCreatedSerial DEF Step
  <2> QED  BY <1>4, <2>1, <2>2
<1> QED  BY <1>5, <1>6

LEMMA RequestSerial ==
  ASSUME CartInvariant, serial', NEW h \in Handlers,
         \/ \E p \in Products, q \in Quantity : SetCartItem(h, p, q)
         \/ QuoteCart(h) \/ Checkout(h)
  PROVE  SerialCart' /\ order'.status = "DRAFT"
<1>1. SerialCart'
  BY SetCartItemSerial, QuoteCartSerial, CheckoutSerial
<1>2. order' = order /\ order.status = "DRAFT"
  BY DEF SetCartItem, QuoteCart, Checkout, Requests
<1> QED  BY <1>1, <1>2

LEMMA CartIsKept == CartInvariant /\ [Next]_vars => CartInvariant'
<1> SUFFICES ASSUME CartInvariant, [Next]_vars
             PROVE  CartInvariant'
  OBVIOUS
<1>1. CartTypeInvariant'
  BY TypeIsKept DEF CartInvariant
<1>2. ASSUME serial'
      PROVE  SerialCart' /\ (CarefulBuyer => PlacedAsInvoiced')
  <2>1. CASE UNCHANGED vars
    BY <1>2, <2>1 DEF vars, CartInvariant, SerialCart, OneAtATime, Writes, Charges,
       InvoiceMatchesCart, Faithful, PlacedAsInvoiced
  <2>2. ASSUME NEW h \in Handlers,
               \/ \E p \in Products, q \in Quantity : SetCartItem(h, p, q)
               \/ QuoteCart(h) \/ Checkout(h)
        PROVE  SerialCart' /\ PlacedAsInvoiced'
    BY <1>2, <2>2, RequestSerial DEF PlacedAsInvoiced
  <2>3. ASSUME NEW h \in Handlers, Step(h) \/ Abort(h)
        PROVE  SerialCart' /\ (CarefulBuyer => PlacedAsInvoiced')
    <3>1. order'.status = "DRAFT" => PlacedAsInvoiced'
      BY DEF PlacedAsInvoiced
    <3> QED  BY <1>2, <2>3, <3>1, StepSerial
  <2> QED  BY <2>1, <2>2, <2>3 DEF Next
<1>3. ~serial' => PlacedAsInvoiced'
  BY DEF PlacedAsInvoiced
<1> QED  BY <1>1, <1>2, <1>3 DEF CartInvariant

LEMMA CartInitially == Init => CartInvariant
<1> SUFFICES ASSUME Init
             PROVE  CartInvariant
  OBVIOUS
<1>1. \A h \in Handlers : calls[h] = NoCall
  BY DEF Init
<1>2. \A h \in Handlers : Writes(h) /\ Charges(h)
  BY <1>1 DEF Writes, Charges, NoCall
<1>3. OneAtATime
  BY <1>1 DEF OneAtATime
<1>4. order.status = "DRAFT" /\ ~invoice.shown
  BY DEF Init, NoInvoice
<1> QED  BY <1>2, <1>3, <1>4, TypeHoldsInitially
         DEF CartInvariant, SerialCart, InvoiceMatchesCart, PlacedAsInvoiced

(* What the one call of a serial browser has read, computed and written is *)
(* what its next statement needs, whatever calls failed before it: any     *)
(* setCartItem, quoteCart or checkout may have stopped at any await.       *)
THEOREM CartHolds == Spec => []CartInvariant
BY CartInitially, CartIsKept, PTL DEF Spec

(* While the invoice is on the screen the DRAFT has its lines, one row for *)
(* each product, and its total, and products was told the same lines: the  *)
(* quote repairs what failed calls left in the table and in the projection.*)
THEOREM InvoiceIsTheCart == Spec => []SerialInvoiceMatchesCart
<1>1. CartInvariant => SerialInvoiceMatchesCart
  BY DEF CartInvariant, SerialCart, SerialInvoiceMatchesCart
<1> QED  BY <1>1, CartHolds, PTL

(* A buyer who pays from an invoice, without other calls in flight, orders *)
(* what it showed: the lines of the order, those that products reserves,   *)
(* the base of the charge and the total recorded with the transition.      *)
THEOREM OrderedAsInvoiced ==
  ASSUME CarefulBuyer
  PROVE  Spec => []PlacedAsInvoiced
<1>1. CartInvariant => PlacedAsInvoiced
  BY DEF CartInvariant
<1> QED  BY <1>1, CartHolds, PTL

=============================================================================
