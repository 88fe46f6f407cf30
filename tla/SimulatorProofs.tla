--------------------------- MODULE SimulatorProofs ---------------------------
(***************************************************************************)
(* Proofs about Simulator, for every tier, set of requests, feed and       *)
(* number of orders.                                                       *)
(*                                                                         *)
(* Every tier executes in one way (Executes): the terms of the order are   *)
(* kept, the fills add up to what it gained and none is worse than its     *)
(* limit. Orders, position and depth follow from that. A sweep is a set of *)
(* fills; what it takes is counted with the units of the levels ahead of a *)
(* price, in a row (SlotInjection). Sums are sizes of sets.                *)
(***************************************************************************)
EXTENDS Simulator, SequenceTheorems, FiniteSetTheorems, WellFoundedInduction, TLAPS

-----------------------------------------------------------------------------
(***************************************************************************)
(* Sums                                                                    *)
(***************************************************************************)

LEMMA UnitsFinite ==
    ASSUME NEW S, IsFiniteSet(S), NEW f \in [S -> Nat]
    PROVE  IsFiniteSet(Units(f))
<1> DEFINE part == [x \in S |-> {x} \X (1 .. f[x])]
<1>1. IsFiniteSet({part[x] : x \in S})
  <2>1. part \in Surjection(S, {part[x] : x \in S})
    BY DEF Surjection
  <2> QED
    BY <2>1, FS_Surjection
<1>2. \A T \in {part[x] : x \in S} : IsFiniteSet(T)
  <2> SUFFICES ASSUME NEW x \in S PROVE IsFiniteSet({x} \X (1 .. f[x]))
    OBVIOUS
  <2>1. IsFiniteSet({x}) /\ f[x] \in Int /\ 1 \in Int
    BY FS_Singleton
  <2>2. IsFiniteSet(1 .. f[x])
    BY <2>1, FS_Interval
  <2> QED
    BY <2>1, <2>2, FS_Product
<1>3. Units(f) = UNION {part[x] : x \in S}
  BY DEF Units
<1> HIDE DEF part
<1> QED
  BY <1>1, <1>2, <1>3, FS_UNION

LEMMA TotalNat ==
    ASSUME NEW S, IsFiniteSet(S), NEW f \in [S -> Nat]
    PROVE  Total(f) \in Nat
  BY UnitsFinite, FS_CardinalityType DEF Total

\* f without its value at x.
Without(f, x) == [y \in DOMAIN f \ {x} |-> f[y]]

\* A sum is one summand and the sum of the others.
LEMMA TotalSplit ==
    ASSUME NEW S, IsFiniteSet(S), NEW f \in [S -> Nat], NEW x \in S
    PROVE  Total(f) = f[x] + Total(Without(f, x))
<1>0. PICK g : g = Without(f, x)
    OBVIOUS
<1> DEFINE A == {x} \X (1 .. f[x])
<1>1. IsFiniteSet(S \ {x}) /\ g \in [S \ {x} -> Nat]
  BY <1>0, FS_RemoveElement DEF Without
<1>2. IsFiniteSet(Units(f)) /\ IsFiniteSet(Units(g)) /\ Total(g) \in Nat
  BY <1>1, UnitsFinite, TotalNat
<1>3. f[x] \in Nat /\ DOMAIN f = S /\ DOMAIN g = S \ {x}
  BY <1>1
<1>4. IsFiniteSet(A) /\ Cardinality(A) = f[x]
  <2>1. IsFiniteSet({x}) /\ Cardinality({x}) = 1
    BY FS_Singleton
  <2>2. IsFiniteSet(1 .. f[x]) /\ Cardinality(1 .. f[x]) = f[x]
    BY <1>3, FS_Interval
  <2>3. IsFiniteSet(A) /\ Cardinality(A) = Cardinality({x}) * Cardinality(1 .. f[x])
    BY <2>1, <2>2, FS_Product
  <2> QED
    BY <1>3, <2>1, <2>2, <2>3
<1>5. Units(f) = A \cup Units(g)
  <2>1. \A y \in S \ {x} : g[y] = f[y]
    BY <1>0 DEF Without
  <2> QED
    BY <1>3, <2>1 DEF Units
<1>6. A \cap Units(g) = {}
  BY <1>3 DEF Units
<1> HIDE DEF A
<1>7. Cardinality(A \cup Units(g)) = Cardinality(A) + Cardinality(Units(g)) - Cardinality({})
  <2>1. Cardinality(A \cup Units(g))
            = Cardinality(A) + Cardinality(Units(g)) - Cardinality(A \cap Units(g))
    BY <1>2, <1>4, FS_Union
  <2> QED
    BY <1>6, <2>1
<1> QED
  BY <1>0, <1>2, <1>3, <1>4, <1>5, <1>7, FS_EmptySet DEF Total

LEMMA TotalEmpty ==
    ASSUME NEW f, DOMAIN f = {}
    PROVE  Total(f) = 0
<1>1. Units(f) = {}
  BY DEF Units
<1> QED
  BY <1>1, FS_EmptySet DEF Total

\* Two functions that agree everywhere but at x.
LEMMA TotalChange ==
    ASSUME NEW S, IsFiniteSet(S), NEW f \in [S -> Nat], NEW g \in [S -> Nat], NEW x \in S,
           Without(f, x) = Without(g, x)
    PROVE  /\ Total(f) \in Nat /\ Total(g) \in Nat /\ f[x] \in Nat /\ g[x] \in Nat
           /\ f[x] <= Total(f) /\ Total(g) = (Total(f) - f[x]) + g[x]
<1>1. Total(f) \in Nat /\ Total(g) \in Nat /\ f[x] \in Nat /\ g[x] \in Nat
  BY TotalNat
<1>2. PICK rest : rest = Total(Without(f, x))
  OBVIOUS
<1>3. rest \in Nat
  <2>1. IsFiniteSet(S \ {x}) /\ Without(f, x) \in [S \ {x} -> Nat]
    BY FS_RemoveElement DEF Without
  <2> QED
    BY <1>2, <2>1, TotalNat
<1>4. Total(f) = f[x] + rest /\ Total(g) = g[x] + rest
  BY <1>2, TotalSplit
<1> QED
  BY <1>1, <1>3, <1>4

Below(f, g) == \A x \in DOMAIN f : x \in DOMAIN g /\ f[x] <= g[x]

LEMMA TotalBelow ==
    ASSUME NEW S, IsFiniteSet(S), NEW g \in [S -> Nat],
           NEW T \in SUBSET S, NEW f \in [T -> Nat], Below(f, g)
    PROVE  Total(f) \in Nat /\ Total(g) \in Nat /\ Total(f) <= Total(g)
<1>1. Units(f) \subseteq Units(g)
  <2> SUFFICES ASSUME NEW x \in T, NEW k \in 1 .. f[x] PROVE x \in S /\ k \in 1 .. g[x]
    BY DEF Units
  <2>1. x \in S /\ f[x] <= g[x] /\ f[x] \in Nat /\ g[x] \in Nat
    BY DEF Below
  <2> QED
    BY <2>1
<1>2. IsFiniteSet(Units(g)) /\ IsFiniteSet(T)
  BY UnitsFinite, FS_Subset
<1>3. Cardinality(Units(f)) <= Cardinality(Units(g))
  BY <1>1, <1>2, FS_Subset
<1> QED
  BY <1>2, <1>3, TotalNat DEF Total

LEMMA TotalZero ==
    ASSUME NEW S, NEW f \in [S -> {0}]
    PROVE  Total(f) = 0
<1>1. Units(f) = {}
  BY DEF Units
<1> QED
  BY <1>1, FS_EmptySet DEF Total

Plus(f, g) == [x \in DOMAIN f |-> f[x] + g[x]]

LEMMA TotalPlus ==
    ASSUME NEW S, IsFiniteSet(S), NEW f \in [S -> Nat], NEW g \in [S -> Nat]
    PROVE  Total(Plus(f, g)) = Total(f) + Total(g)
<1>0. PICK h : h = Plus(f, g)
  OBVIOUS
<1>1. h \in [S -> Nat] /\ \A x \in S : h[x] = f[x] + g[x]
  BY <1>0 DEF Plus
<1> DEFINE m == [u \in Units(g) |-> <<u[1], f[u[1]] + u[2]>>]
           B == {m[u] : u \in Units(g)}
<1>2. IsFiniteSet(Units(f)) /\ IsFiniteSet(Units(g)) /\ Total(f) \in Nat /\ Total(g) \in Nat
  BY UnitsFinite, TotalNat
<1>3. \A u \in Units(g) : u[1] \in S /\ u[2] \in 1 .. g[u[1]] /\ u = <<u[1], u[2]>>
  BY DEF Units
<1>4. m \in Bijection(Units(g), B)
  <2>1. \A u, v \in Units(g) : m[u] = m[v] => u = v
    <3> SUFFICES ASSUME NEW u \in Units(g), NEW v \in Units(g),
                        <<u[1], f[u[1]] + u[2]>> = <<v[1], f[v[1]] + v[2]>>
                 PROVE  u = v
      OBVIOUS
    <3>1. u[1] = v[1] /\ f[u[1]] + u[2] = f[u[1]] + v[2]
      OBVIOUS
    <3>2. f[u[1]] \in Nat /\ u[2] \in Int /\ v[2] \in Int
      BY <1>3
    <3> QED
      BY <1>3, <3>1, <3>2
  <2> QED
    BY <2>1 DEF Bijection, Injection, Surjection, IsInjective
<1>5. IsFiniteSet(B) /\ Cardinality(B) = Total(g)
  <2>1. ExistsBijection(Units(g), B)
    BY <1>4 DEF ExistsBijection
  <2> HIDE DEF B
  <2> QED
    BY <1>2, <2>1, FS_Bijection DEF Total
<1>6. Units(h) = Units(f) \cup B
  <2>1. ASSUME NEW x \in S, NEW k \in 1 .. h[x] PROVE <<x, k>> \in Units(f) \cup B
    <3>1. f[x] \in Nat /\ g[x] \in Nat /\ h[x] = f[x] + g[x] /\ k \in Int
      BY <1>1
    <3>2. CASE k <= f[x]
      <4>1. k \in 1 .. f[x] /\ x \in DOMAIN f
        BY <3>1, <3>2
      <4>2. <<x, k>> \in Units(f)
        BY <4>1 DEF Units
      <4> QED
        BY <4>2
    <3>3. CASE k > f[x]
      <4>1. k - f[x] \in 1 .. g[x] /\ f[x] + (k - f[x]) = k
        BY <3>1, <3>3
      <4>2. <<x, k - f[x]>> \in Units(g)
        BY <4>1 DEF Units
      <4>3. m[<<x, k - f[x]>>] = <<x, k>>
        BY <4>1, <4>2
      <4> QED
        BY <4>2, <4>3
    <3> QED
      BY <3>1, <3>2, <3>3
  <2>2. ASSUME NEW x \in S, NEW k \in 1 .. f[x] PROVE <<x, k>> \in Units(h)
    <3>1. k \in 1 .. h[x]
      <4>1. f[x] \in Nat /\ g[x] \in Nat /\ h[x] = f[x] + g[x]
        BY <1>1
      <4> QED
        BY <4>1
    <3> QED
      BY <1>1, <3>1 DEF Units
  <2>3. ASSUME NEW u \in Units(g) PROVE <<u[1], f[u[1]] + u[2]>> \in Units(h)
    <3>1. u[1] \in S /\ u[2] \in 1 .. g[u[1]]
      BY <1>3
    <3>2. f[u[1]] + u[2] \in 1 .. h[u[1]]
      <4>1. f[u[1]] \in Nat /\ g[u[1]] \in Nat /\ h[u[1]] = f[u[1]] + g[u[1]]
        BY <1>1, <3>1
      <4> QED
        BY <3>1, <4>1
    <3> QED
      BY <1>1, <3>1, <3>2 DEF Units
  <2>4. Units(h) \subseteq Units(f) \cup B
    <3>1. \A u \in Units(h) : \E x \in S : \E k \in 1 .. h[x] : u = <<x, k>>
      BY <1>1 DEF Units
    <3> HIDE DEF B
    <3> QED
      BY <2>1, <3>1
  <2>5. Units(f) \subseteq Units(h)
    <3>1. \A u \in Units(f) : \E x \in S : \E k \in 1 .. f[x] : u = <<x, k>>
      BY DEF Units
    <3> QED
      BY <2>2, <3>1
  <2>6. B \subseteq Units(h)
    BY <2>3
  <2> QED
    BY <2>4, <2>5, <2>6
<1>7. Units(f) \cap B = {}
  <2> SUFFICES ASSUME NEW u \in Units(g), <<u[1], f[u[1]] + u[2]>> \in Units(f) PROVE FALSE
    OBVIOUS
  <2>1. f[u[1]] + u[2] \in 1 .. f[u[1]]
    BY DEF Units
  <2>2. f[u[1]] \in Nat /\ u[2] \in Int /\ u[2] >= 1
    BY <1>3
  <2> QED
    BY <2>1, <2>2
<1> HIDE DEF B, m
<1>8. Cardinality(Units(f) \cup B) = Cardinality(Units(f)) + Cardinality(B) - Cardinality({})
  <2>1. Cardinality(Units(f) \cup B)
            = Cardinality(Units(f)) + Cardinality(B) - Cardinality(Units(f) \cap B)
    BY <1>2, <1>5, FS_Union
  <2> QED
    BY <1>7, <2>1
<1> QED
  BY <1>0, <1>2, <1>5, <1>6, <1>8, FS_EmptySet DEF Total

-----------------------------------------------------------------------------
(***************************************************************************)
(* Orders                                                                  *)
(***************************************************************************)

\* LifecycleSound, ImmediatesAtomic and PostOnlyKeepsLimit of one order.
Sound(o) ==
    /\ o.filled <= o.quantity
    /\ o.status = "FILLED" <=> o.filled = o.quantity
    /\ o.status = "WORKING" => o.filled = 0
    /\ o.status = "PARTIALLY_FILLED" => o.filled > 0
    /\ o.status = "DORMANT" => IsStop(o.kind)
    /\ IsExecutable(o) => ~IsStop(o.kind)
    /\ o.tif # "GTC" /\ o.filled > 0 => IsTerminal(o)
    /\ o.tif = "FOK" => o.filled \in {0, o.quantity}
    /\ o.post_only /\ IsExecutable(o) => o.kind.limit # NoPrice

\* What every transition keeps of an order.
Keeps(o, a) ==
    /\ a \in Order /\ Sound(a)
    /\ a.filled >= o.filled /\ a.side = o.side /\ a.submitted = o.submitted
    /\ a.reduce_only = o.reduce_only
    /\ IsTerminal(o) => a = o

\* What one that is no replacement keeps as well.
KeepsTerms(o, a) == Keeps(o, a) /\ a.quantity = o.quantity /\ a.kind.limit = o.kind.limit

LEMMA OrderFields ==
    ASSUME NEW o \in Order
    PROVE  /\ o.side \in Side /\ o.quantity \in Nat /\ o.quantity > 0 /\ o.filled \in Nat
           /\ o.kind \in OrderKind /\ o.tif \in TimeInForce /\ o.submitted \in Nat
           /\ o.revision \in Nat /\ o.status \in OrderStatus
           /\ o.reduce_only \in BOOLEAN /\ o.post_only \in BOOLEAN
  BY DEF Order

LEMMA MinOf ==
    ASSUME NEW a \in Int, NEW b \in Int
    PROVE  Min({a, b}) = IF a <= b THEN a ELSE b
  BY DEF Min

LEMMA MaxOf ==
    ASSUME NEW a \in Int, NEW b \in Int
    PROVE  Max({a, b}) = IF a >= b THEN a ELSE b
  BY DEF Max

LEMMA MinOfThree ==
    ASSUME NEW a \in Int, NEW b \in Int, NEW c \in Int
    PROVE  LET m == Min({a, b, c}) IN m \in {a, b, c} /\ m <= a /\ m <= b /\ m <= c
  BY DEF Min

LEMMA KeepsSelf ==
    ASSUME NEW o \in Order, Sound(o)
    PROVE  KeepsTerms(o, o)
  BY OrderFields DEF KeepsTerms, Keeps

LEMMA CancelledKeeps ==
    ASSUME NEW o \in Order, Sound(o), ~IsTerminal(o)
    PROVE  KeepsTerms(o, Cancelled(o)) /\ Cancelled(o).filled = o.filled
<1>1. PICK a : a = Cancelled(o)
  OBVIOUS
<1>2. /\ a \in Order /\ a.status = "CANCELLED" /\ a.filled = o.filled /\ a.quantity = o.quantity
      /\ a.side = o.side /\ a.submitted = o.submitted /\ a.reduce_only = o.reduce_only
      /\ a.kind = o.kind /\ a.tif = o.tif
  BY <1>1 DEF Cancelled, Order, OrderStatus
<1>3. o.filled # o.quantity
  BY DEF Sound, IsTerminal
<1>4. Sound(a)
  BY <1>2, <1>3 DEF Sound, IsTerminal, IsExecutable
<1> QED
  BY <1>1, <1>2, <1>4, OrderFields DEF KeepsTerms, Keeps

\* A fill of an executable order: all of it, or a part of one that may rest.
LEMMA ApplyFillKeeps ==
    ASSUME NEW o \in Order, Sound(o), IsExecutable(o), NEW q \in Nat, q <= Remaining(o),
           o.tif = "GTC" \/ q = Remaining(o)
    PROVE  KeepsTerms(o, ApplyFill(o, q)) /\ ApplyFill(o, q).filled = o.filled + q
<1>1. CASE q = 0
  BY <1>1, KeepsSelf, OrderFields DEF ApplyFill
<1>2. CASE q # 0
  <2>1. PICK a, n, st : /\ a = ApplyFill(o, q) /\ n = o.filled + q
                        /\ st = IF n = o.quantity THEN "FILLED" ELSE "PARTIALLY_FILLED"
    OBVIOUS
  <2>2. a = [o EXCEPT !.filled = n, !.status = st]
    BY <1>2, <2>1 DEF ApplyFill
  <2>3. n \in Nat /\ n <= o.quantity /\ n > 0 /\ n > o.filled /\ st \in OrderStatus
    BY <1>2, <2>1, OrderFields DEF Remaining, OrderStatus
  <2>4. /\ a \in Order /\ a.status = st /\ a.filled = n /\ a.quantity = o.quantity
        /\ a.side = o.side /\ a.submitted = o.submitted /\ a.reduce_only = o.reduce_only
        /\ a.kind = o.kind /\ a.tif = o.tif /\ a.post_only = o.post_only
    BY <2>2, <2>3 DEF Order
  <2>5. ~IsStop(a.kind) /\ (a.post_only => a.kind.limit # NoPrice)
    BY <2>4 DEF Sound
  <2>6. a.tif # "GTC" => n = o.quantity
    BY <2>1, <2>4, OrderFields DEF Remaining
  <2>7. Sound(a)
    BY <2>1, <2>3, <2>4, <2>5, <2>6 DEF Sound, IsTerminal, IsExecutable
  <2> QED
    BY <2>1, <2>3, <2>4, <2>7, OrderFields DEF KeepsTerms, Keeps, IsTerminal, IsExecutable
<1> QED
  BY <1>1, <1>2

\* execute_immediate: all, nothing, or a part that ends the order.
LEMMA ImmediateKeeps ==
    ASSUME NEW o \in Order, Sound(o), IsExecutable(o), o.tif # "GTC", NEW q \in Nat
    PROVE  /\ KeepsTerms(o, ExecuteImmediate(o, q))
           /\ ExecuteImmediate(o, q).filled <= o.filled + q
<1>1. ~IsTerminal(o)
  BY DEF IsTerminal, IsExecutable
<1>2. CASE o.tif = "FOK" /\ q < Remaining(o)
  <2>1. ExecuteImmediate(o, q) = Cancelled(o)
    BY <1>2 DEF ExecuteImmediate
  <2> QED
    BY <1>1, <2>1, CancelledKeeps, OrderFields
<1>3. CASE q >= Remaining(o)
  <2>1. PICK n, a : n = Remaining(o) /\ a = ApplyFill(o, n)
    OBVIOUS
  <2>2. n \in Nat /\ n > 0 /\ Min({q, n}) = n /\ o.filled + n = o.quantity
    <3>1. Remaining(o) \in Nat /\ Remaining(o) > 0 /\ o.filled + Remaining(o) = o.quantity
      BY OrderFields DEF Sound, Remaining, IsExecutable
    <3> QED
      BY <1>3, <2>1, <3>1, MinOf
  <2>3. KeepsTerms(o, a) /\ a.filled = o.filled + n
    BY <2>1, <2>2, OrderFields, ApplyFillKeeps
  <2>4. IsTerminal(a)
    BY <2>2, <2>3 DEF KeepsTerms, Keeps, Sound, IsTerminal
  <2>5. ExecuteImmediate(o, q) = a
    BY <1>3, <2>1, <2>2, <2>4 DEF ExecuteImmediate
  <2> QED
    BY <1>3, <2>1, <2>2, <2>3, <2>5, OrderFields
<1>4. CASE o.tif # "FOK" /\ q < Remaining(o)
  <2>1. Min({q, Remaining(o)}) = q
    BY <1>4, MinOf, OrderFields DEF Remaining
  <2>2. PICK b : b = ApplyFill(o, q)
    OBVIOUS
  <2>3. CASE q = 0
    <3>1. ExecuteImmediate(o, q) = Cancelled(o)
      BY <1>1, <1>4, <2>1, <2>3 DEF ExecuteImmediate, ApplyFill
    <3> QED
      BY <1>1, <3>1, CancelledKeeps, OrderFields
  <2>4. CASE q # 0
    <3>1. PICK n : n = o.filled + q
      OBVIOUS
    <3>2. n \in Nat /\ n < o.quantity /\ n > o.filled
      BY <1>4, <2>4, <3>1, OrderFields DEF Remaining
    <3>3. b = [o EXCEPT !.filled = n, !.status = "PARTIALLY_FILLED"]
      <4>1. n # o.quantity
        BY <3>2, OrderFields
      <4>2. b = [o EXCEPT !.filled = n,
                          !.status = IF n = o.quantity THEN "FILLED" ELSE "PARTIALLY_FILLED"]
        BY <2>2, <2>4, <3>1 DEF ApplyFill
      <4> QED
        BY <4>1, <4>2
    <3>4. b.status = "PARTIALLY_FILLED"
      BY <3>3 DEF Order
    <3>5. PICK a : a = Cancelled(b)
      OBVIOUS
    <3>6. ExecuteImmediate(o, q) = a
      BY <1>4, <2>1, <2>2, <3>4, <3>5 DEF ExecuteImmediate, IsTerminal
    <3>7. /\ a \in Order /\ a.status = "CANCELLED" /\ a.filled = n /\ a.quantity = o.quantity
          /\ a.side = o.side /\ a.submitted = o.submitted /\ a.reduce_only = o.reduce_only
          /\ a.kind = o.kind /\ a.tif = o.tif
      BY <3>2, <3>3, <3>5 DEF Cancelled, Order, OrderStatus
    <3>8. Sound(a)
      BY <1>4, <3>2, <3>7, OrderFields DEF Sound, IsTerminal, IsExecutable
    <3> QED
      BY <1>1, <3>1, <3>2, <3>6, <3>7, <3>8, OrderFields DEF KeepsTerms, Keeps
  <2> QED
    BY <2>3, <2>4
<1>5. Remaining(o) \in Int
  BY OrderFields DEF Remaining
<1> QED
  BY <1>2, <1>3, <1>4, <1>5

LEMMA OfferKeeps ==
    ASSUME NEW o \in Order, Sound(o), IsExecutable(o), NEW q \in Nat
    PROVE  KeepsTerms(o, Offer(o, q)) /\ Offer(o, q).filled <= o.filled + q
<1>1. CASE o.tif # "GTC"
  BY <1>1, ImmediateKeeps DEF Offer
<1>2. CASE o.tif = "GTC"
  <2>1. PICK n : n = Min({q, Remaining(o)})
    OBVIOUS
  <2>2. Remaining(o) \in Nat
    BY OrderFields DEF Remaining, Sound
  <2>3. n \in Nat /\ n <= Remaining(o) /\ n <= q
    BY <2>1, <2>2, MinOf
  <2>4. Offer(o, q) = ApplyFill(o, n)
    BY <1>2, <2>1 DEF Offer
  <2>5. KeepsTerms(o, ApplyFill(o, n)) /\ ApplyFill(o, n).filled = o.filled + n
    BY <1>2, <2>3, ApplyFillKeeps
  <2> QED
    BY <2>3, <2>4, <2>5, OrderFields
<1> QED
  BY <1>1, <1>2

\* A post-only kind that passes the liquidity check now is a limit.
LEMMA PostOnlyIsLimit ==
    ASSUME NEW side, NEW kind, NEW marketable_only, NEW quote, ~IsStop(kind),
           LiquidityAllows(side, kind, TRUE, marketable_only, quote)
    PROVE  kind.limit # NoPrice
<1> SUFFICES ASSUME kind.limit = NoPrice PROVE FALSE
  OBVIOUS
<1>1. ~IsMarketable(side, kind, quote)
  BY DEF LiquidityAllows
<1>2. IsMarketable(side, kind, quote)
  BY DEF IsMarketable
<1> QED
  BY <1>1, <1>2

\* trigger_stop of an order that waits for its stop.
LEMMA TriggerKeeps ==
    ASSUME NEW o \in Order, Sound(o), o.status = "DORMANT", NEW price, NEW quote
    PROVE  /\ KeepsTerms(o, TriggerStop(o, price, quote))
           /\ TriggerStop(o, price, quote).filled = o.filled
<1>1. PICK a, k : a = TriggerStop(o, price, quote) /\ k = [o.kind EXCEPT !.stop = NoPrice]
  OBVIOUS
<1>2. k \in OrderKind /\ k.stop = NoPrice /\ k.limit = o.kind.limit
  BY <1>1, OrderFields DEF OrderKind
<1>3. ~IsTerminal(o) /\ o.filled # o.quantity /\ o.filled <= o.quantity
  BY DEF Sound, IsTerminal
<1>4. CASE a = o
  BY <1>1, <1>4, KeepsSelf
<1>5. CASE a = [o EXCEPT !.status = "REJECTED"]
  <2>1. /\ a \in Order /\ a.status = "REJECTED" /\ a.filled = o.filled /\ a.quantity = o.quantity
        /\ a.side = o.side /\ a.submitted = o.submitted /\ a.reduce_only = o.reduce_only
        /\ a.kind = o.kind /\ a.tif = o.tif
    BY <1>5 DEF Order, OrderStatus
  <2>2. Sound(a)
    BY <1>3, <2>1 DEF Sound, IsTerminal, IsExecutable
  <2> QED
    BY <1>1, <1>3, <2>1, <2>2, OrderFields DEF KeepsTerms, Keeps
<1>6. CASE /\ LiquidityAllows(o.side, k, o.post_only, o.marketable_only, quote)
           /\ a = [o EXCEPT !.kind = k, !.status = LiveStatus(o)]
  <2>1. PICK st : st = LiveStatus(o)
    OBVIOUS
  <2>2. /\ st \in OrderStatus /\ st \in {"WORKING", "PARTIALLY_FILLED"}
        /\ (st = "WORKING" => o.filled = 0) /\ (st = "PARTIALLY_FILLED" => o.filled > 0)
    BY <2>1, OrderFields DEF LiveStatus, OrderStatus
  <2>3. /\ a \in Order /\ a.status = st /\ a.filled = o.filled /\ a.quantity = o.quantity
        /\ a.side = o.side /\ a.submitted = o.submitted /\ a.reduce_only = o.reduce_only
        /\ a.kind = k /\ a.tif = o.tif /\ a.post_only = o.post_only
    BY <1>2, <1>6, <2>1, <2>2 DEF Order
  <2>4. o.post_only => k.limit # NoPrice
    <3>1. o.post_only = TRUE \/ o.post_only = FALSE
      BY OrderFields
    <3> QED
      BY <1>2, <1>6, <3>1, PostOnlyIsLimit DEF IsStop
  <2>5. o.tif # "GTC" => o.filled = 0
    BY <1>3, OrderFields DEF Sound
  <2>6. Sound(a)
    BY <1>2, <1>3, <2>2, <2>3, <2>4, <2>5, OrderFields DEF Sound, IsTerminal, IsExecutable, IsStop
  <2> QED
    BY <1>1, <1>2, <1>3, <2>3, <2>6, OrderFields DEF KeepsTerms, Keeps
<1> QED
  BY <1>1, <1>4, <1>5, <1>6 DEF TriggerStop

-----------------------------------------------------------------------------
(***************************************************************************)
(* Sweeps. The levels a sweep may reach, best first, are so many slots in  *)
(* a row: the k-th unit of a level stands behind all units of the better   *)
(* levels. A sweep takes the first slots, as many as it asks for.          *)
(***************************************************************************)

On(levels, T) == [q \in T |-> levels[q]]
Ahead(levels, side, p) == Total(On(levels, Better(levels, side, p)))

Eligible(levels, side, limit, max_levels) ==
    {p \in Displayed(levels) :
        /\ limit = NoPrice \/ IF side = "BUY" THEN p <= limit ELSE p >= limit
        /\ Cardinality(Better(levels, side, p)) < max_levels}

Available(levels, side, limit, max_levels) ==
    Total(On(levels, Eligible(levels, side, limit, max_levels)))

Reached(levels, side, requested, limit, max_levels) ==
    {p \in Eligible(levels, side, limit, max_levels) : Ahead(levels, side, p) < requested}

FillOf(levels, side, requested, p) ==
    [price |-> p, quantity |-> Min({levels[p], requested - Ahead(levels, side, p)})]

Sweep(levels, side, requested, limit, max_levels) ==
    {FillOf(levels, side, requested, p) : p \in Reached(levels, side, requested, limit, max_levels)}

LEMMA SweepIs ==
    ASSUME NEW b, NEW side, NEW requested, NEW limit, NEW max_levels
    PROVE  PlanSweep(b, side, requested, limit, max_levels)
              = Sweep(Opposite(b, side), side, requested, limit, max_levels)
  BY DEF PlanSweep, Sweep, Reached, Eligible, FillOf, Ahead, On

LEMMA PriceFacts == IsFiniteSet(Price) /\ \A p \in Price : p \in Int /\ p > 0
  BY PriceAssumption

LEMMA LevelsTyped ==
    ASSUME NEW levels \in Levels, NEW T \in SUBSET Price
    PROVE  IsFiniteSet(T) /\ On(levels, T) \in [T -> Nat] /\ Total(On(levels, T)) \in Nat
<1>1. IsFiniteSet(T)
  BY PriceFacts, FS_Subset
<1>2. On(levels, T) \in [T -> Nat]
  BY DEF On, Levels
<1> QED
  BY <1>1, <1>2, TotalNat

LEMMA BetterTyped ==
    ASSUME NEW levels \in Levels, NEW side \in Side, NEW p \in Price
    PROVE  /\ Better(levels, side, p) \in SUBSET Price /\ p \notin Better(levels, side, p)
           /\ Ahead(levels, side, p) \in Nat /\ levels[p] \in Nat
<1>1. Better(levels, side, p) \in SUBSET Price
  BY DEF Better, Displayed
<1>2. p \notin Better(levels, side, p)
  BY PriceFacts DEF Better
<1>3. levels[p] \in Nat
  BY DEF Levels
<1> QED
  BY <1>1, <1>2, <1>3, LevelsTyped DEF Ahead

\* The units of a level stand behind those of the better ones.
LEMMA AheadWithin ==
    ASSUME NEW levels \in Levels, NEW side \in Side, NEW p \in Price, NEW T \in SUBSET Price,
           Better(levels, side, p) \subseteq T, p \in T
    PROVE  Ahead(levels, side, p) + levels[p] <= Total(On(levels, T))
<1>1. PICK B, C : B = Better(levels, side, p) /\ C = B \cup {p}
  OBVIOUS
<1>2. /\ B \in SUBSET Price /\ p \notin B /\ levels[p] \in Nat
      /\ Ahead(levels, side, p) = Total(On(levels, B)) /\ Total(On(levels, B)) \in Nat
  BY <1>1, BetterTyped DEF Ahead
<1>3. C \in SUBSET Price /\ C \in SUBSET T /\ p \in C /\ C \ {p} = B
  BY <1>1, <1>2
<1>4. /\ IsFiniteSet(C) /\ On(levels, C) \in [C -> Nat]
      /\ IsFiniteSet(T) /\ On(levels, T) \in [T -> Nat] /\ Total(On(levels, T)) \in Nat
  BY <1>3, LevelsTyped
<1>5. Without(On(levels, C), p) = On(levels, B) /\ On(levels, C)[p] = levels[p]
  BY <1>3 DEF Without, On
<1>6. Total(On(levels, C)) = levels[p] + Total(On(levels, B))
  BY <1>3, <1>4, <1>5, TotalSplit
<1>7. Below(On(levels, C), On(levels, T))
  BY <1>3 DEF Below, On, Levels
<1>8. Total(On(levels, C)) <= Total(On(levels, T))
  BY <1>3, <1>4, <1>7, TotalBelow
<1> QED
  BY <1>2, <1>4, <1>6, <1>8

\* The levels better than a better level are better.
LEMMA BetterNested ==
    ASSUME NEW levels, NEW side \in Side, NEW p \in Price, NEW q \in Better(levels, side, p)
    PROVE  Better(levels, side, q) \subseteq Better(levels, side, p)
<1> SUFFICES ASSUME NEW r \in Better(levels, side, q) PROVE r \in Better(levels, side, p)
  OBVIOUS
<1>1. /\ q \in Displayed(levels) /\ r \in Displayed(levels) /\ q \in Price /\ r \in Price
      /\ IF side = "BUY" THEN q < p ELSE q > p
      /\ IF side = "BUY" THEN r < q ELSE r > q
  BY DEF Better, Displayed
<1>2. p \in Int /\ q \in Int /\ r \in Int
  BY <1>1, PriceFacts
<1>3. IF side = "BUY" THEN r < p ELSE r > p
  <2>1. CASE side = "BUY"
    BY <1>1, <1>2, <2>1
  <2>2. CASE side # "BUY"
    BY <1>1, <1>2, <2>2
  <2> QED
    BY <2>1, <2>2
<1> QED
  BY <1>1, <1>3 DEF Better

LEMMA EligibleClosed ==
    ASSUME NEW levels \in Levels, NEW side \in Side, NEW limit \in Price \cup {NoPrice},
           NEW max_levels \in Nat, NEW p \in Eligible(levels, side, limit, max_levels)
    PROVE  /\ p \in Price /\ levels[p] > 0
           /\ Better(levels, side, p) \subseteq Eligible(levels, side, limit, max_levels)
<1>1. p \in Price /\ levels[p] > 0 /\ p \in Displayed(levels)
  BY DEF Eligible, Displayed
<1>2. ASSUME NEW q \in Better(levels, side, p) PROVE q \in Eligible(levels, side, limit, max_levels)
  <2>1. q \in Displayed(levels) /\ q \in Price /\ IF side = "BUY" THEN q < p ELSE q > p
    BY DEF Better, Displayed
  <2>2. limit = NoPrice \/ IF side = "BUY" THEN q <= limit ELSE q >= limit
    <3>1. limit # NoPrice => limit \in Int
      BY PriceFacts
    <3>2. limit = NoPrice \/ IF side = "BUY" THEN p <= limit ELSE p >= limit
      BY DEF Eligible
    <3> QED
      BY <1>1, <2>1, <3>1, <3>2, PriceFacts
  <2>3. Better(levels, side, q) \subseteq Better(levels, side, p)
    BY <1>1, BetterNested
  <2>4. Cardinality(Better(levels, side, q)) < max_levels
    <3>1. IsFiniteSet(Better(levels, side, p)) /\ IsFiniteSet(Better(levels, side, q))
      BY <1>1, <2>1, BetterTyped, LevelsTyped
    <3>2. Cardinality(Better(levels, side, q)) <= Cardinality(Better(levels, side, p))
      BY <2>3, <3>1, FS_Subset
    <3>3. Cardinality(Better(levels, side, p)) < max_levels
      BY DEF Eligible
    <3>4. /\ Cardinality(Better(levels, side, p)) \in Nat
          /\ Cardinality(Better(levels, side, q)) \in Nat
      BY <3>1, FS_CardinalityType
    <3> QED
      BY <3>2, <3>3, <3>4
  <2> QED
    BY <2>1, <2>2, <2>4 DEF Eligible
<1> QED
  BY <1>1, <1>2

\* No two units have the same slot.
LEMMA SlotsDiffer ==
    ASSUME NEW levels \in Levels, NEW side \in Side,
           NEW p \in Displayed(levels), NEW q \in Displayed(levels),
           NEW k \in 1 .. levels[p], NEW l \in 1 .. levels[q],
           Ahead(levels, side, p) + k = Ahead(levels, side, q) + l
    PROVE  p = q /\ k = l
<1>1. p \in Price /\ q \in Price
  BY DEF Displayed
<1>2. /\ Ahead(levels, side, p) \in Nat /\ Ahead(levels, side, q) \in Nat
      /\ levels[p] \in Nat /\ levels[q] \in Nat /\ p \in Int /\ q \in Int
  BY <1>1, BetterTyped, PriceFacts
<1>3. ASSUME NEW x \in Displayed(levels), NEW y \in Displayed(levels),
             IF side = "BUY" THEN x < y ELSE x > y
      PROVE  Ahead(levels, side, x) + levels[x] <= Ahead(levels, side, y)
  <2>1. x \in Price /\ y \in Price /\ x \in Int /\ y \in Int
    BY PriceFacts DEF Displayed
  <2>2. x \in Better(levels, side, y)
    BY <1>3 DEF Better
  <2>3. Better(levels, side, x) \subseteq Better(levels, side, y)
    BY <2>1, <2>2, BetterNested
  <2>4. Better(levels, side, y) \in SUBSET Price
    BY <2>1, BetterTyped
  <2> QED
    BY <2>1, <2>2, <2>3, <2>4, AheadWithin DEF Ahead
<1>4. CASE IF side = "BUY" THEN p < q ELSE p > q
  <2>1. Ahead(levels, side, p) + levels[p] <= Ahead(levels, side, q)
    BY <1>3, <1>4
  <2> QED
    BY <1>2, <2>1
<1>5. CASE IF side = "BUY" THEN q < p ELSE q > p
  <2>1. Ahead(levels, side, q) + levels[q] <= Ahead(levels, side, p)
    BY <1>3, <1>5
  <2> QED
    BY <1>2, <2>1
<1>6. CASE p = q
  BY <1>2, <1>6
<1> QED
  BY <1>2, <1>4, <1>5, <1>6

LEMMA UnitFacts ==
    ASSUME NEW S, NEW f \in [S -> Nat], NEW u \in Units(f)
    PROVE  u[1] \in S /\ u[2] \in 1 .. f[u[1]] /\ u = <<u[1], u[2]>>
  BY DEF Units

\* The slot of each unit of g, which takes from the levels.
SlotOf(levels, side, g) == [u \in Units(g) |-> Ahead(levels, side, u[1]) + u[2]]

\* g takes the first n slots at most.
Takes(levels, side, g, n) ==
    \A p \in DOMAIN g :
        g[p] > 0 => g[p] <= levels[p] /\ Ahead(levels, side, p) + g[p] <= n

LEMMA SlotInjection ==
    ASSUME NEW levels \in Levels, NEW side \in Side, NEW R \in SUBSET Price,
           NEW g \in [R -> Nat], NEW n \in Nat, Takes(levels, side, g, n)
    PROVE  SlotOf(levels, side, g) \in Injection(Units(g), 1 .. n)
<1>1. PICK s : s = SlotOf(levels, side, g)
  OBVIOUS
<1>2. ASSUME NEW u \in Units(g)
      PROVE  /\ u[1] \in Displayed(levels) /\ u[2] \in 1 .. levels[u[1]]
             /\ s[u] = Ahead(levels, side, u[1]) + u[2] /\ s[u] \in 1 .. n
             /\ u = <<u[1], u[2]>>
  <2>1. u[1] \in R /\ u[2] \in 1 .. g[u[1]] /\ u = <<u[1], u[2]>>
    BY UnitFacts
  <2>2. PICK p, k : p = u[1] /\ k = u[2]
    OBVIOUS
  <2>3. p \in Price /\ g[p] \in Nat /\ k \in Int /\ 1 <= k /\ k <= g[p]
    BY <2>1, <2>2
  <2>4. levels[p] \in Nat /\ Ahead(levels, side, p) \in Nat
    BY <2>3, BetterTyped
  <2>5. g[p] <= levels[p] /\ Ahead(levels, side, p) + g[p] <= n
    BY <2>1, <2>2, <2>3 DEF Takes
  <2>6. p \in Displayed(levels)
    BY <2>3, <2>4, <2>5 DEF Displayed
  <2>7. s[u] = Ahead(levels, side, p) + k
    BY <1>1, <2>2 DEF SlotOf
  <2>8. k \in 1 .. levels[p] /\ Ahead(levels, side, p) + k \in 1 .. n
    BY <2>3, <2>4, <2>5
  <2> QED
    BY <2>1, <2>2, <2>6, <2>7, <2>8
<1>3. s \in [Units(g) -> 1 .. n]
  BY <1>1, <1>2 DEF SlotOf
<1>4. ASSUME NEW u \in Units(g), NEW v \in Units(g), s[u] = s[v] PROVE u = v
  <2>1. u[1] = v[1] /\ u[2] = v[2]
    <3>1. /\ u[1] \in Displayed(levels) /\ u[2] \in 1 .. levels[u[1]]
          /\ v[1] \in Displayed(levels) /\ v[2] \in 1 .. levels[v[1]]
          /\ Ahead(levels, side, u[1]) + u[2] = Ahead(levels, side, v[1]) + v[2]
      BY <1>2, <1>4
    <3> QED
      BY <3>1, SlotsDiffer
  <2> QED
    BY <1>2, <2>1
<1> QED
  BY <1>1, <1>3, <1>4 DEF Injection, IsInjective

LEMMA FirstSlots ==
    ASSUME NEW n \in Nat
    PROVE  IsFiniteSet(1 .. n) /\ Cardinality(1 .. n) = n
  BY FS_Interval

LEMMA SlotBound ==
    ASSUME NEW levels \in Levels, NEW side \in Side, NEW R \in SUBSET Price,
           NEW g \in [R -> Nat], NEW n \in Nat, Takes(levels, side, g, n)
    PROVE  /\ Total(g) \in Nat /\ Total(g) <= n
           /\ Total(g) = n => SlotOf(levels, side, g) \in Surjection(Units(g), 1 .. n)
<1>1. SlotOf(levels, side, g) \in Injection(Units(g), 1 .. n)
  BY SlotInjection
<1>2. IsFiniteSet(R)
  BY PriceFacts, FS_Subset
<1> QED
  BY <1>1, <1>2, FirstSlots, FS_Injection, TotalNat DEF Total

\* Every number up to what is available is the slot of a unit of some level.
IsSlot(levels, side, E, n) == \E p \in E : \E k \in 1 .. levels[p] : n = Ahead(levels, side, p) + k

LEMMA SlotsFull ==
    ASSUME NEW levels \in Levels, NEW side \in Side, NEW limit \in Price \cup {NoPrice},
           NEW max_levels \in Nat, NEW n \in 1 .. Available(levels, side, limit, max_levels)
    PROVE  IsSlot(levels, side, Eligible(levels, side, limit, max_levels), n)
<1>1. PICK E, g, a : /\ E = Eligible(levels, side, limit, max_levels)
                     /\ g = On(levels, E) /\ a = Total(g)
  OBVIOUS
<1>2. E \in SUBSET Price
  BY <1>1 DEF Eligible, Displayed
<1>3. g \in [E -> Nat] /\ a \in Nat /\ \A p \in E : g[p] = levels[p]
  <2>1. On(levels, E) \in [E -> Nat] /\ Total(On(levels, E)) \in Nat
    BY <1>2, LevelsTyped
  <2>2. \A p \in E : On(levels, E)[p] = levels[p]
    BY DEF On
  <2> QED
    BY <1>1, <2>1, <2>2
<1>4. Takes(levels, side, g, a)
  <2> SUFFICES ASSUME NEW p \in E
               PROVE  g[p] <= levels[p] /\ Ahead(levels, side, p) + g[p] <= a
    BY <1>3 DEF Takes
  <2>1. p \in Price /\ Better(levels, side, p) \subseteq E
    BY <1>1, EligibleClosed
  <2>2. Ahead(levels, side, p) + levels[p] <= a
    BY <1>1, <1>2, <2>1, AheadWithin
  <2> QED
    BY <1>3, <2>1, <2>2, BetterTyped
<1>5. SlotOf(levels, side, g) \in Surjection(Units(g), 1 .. a)
  BY <1>1, <1>2, <1>3, <1>4, SlotBound
<1>6. n \in 1 .. a
  BY <1>1 DEF Available
<1>7. PICK u \in Units(g) : SlotOf(levels, side, g)[u] = n
  BY <1>5, <1>6 DEF Surjection
<1>8. Ahead(levels, side, u[1]) + u[2] = n /\ u[1] \in E /\ u[2] \in 1 .. levels[u[1]]
  BY <1>3, <1>7, UnitFacts DEF SlotOf
<1> QED
  BY <1>1, <1>8 DEF IsSlot

\* What a sweep takes of each level it reaches.
Took(levels, side, requested, limit, max_levels) ==
    [p \in Reached(levels, side, requested, limit, max_levels) |->
        FillOf(levels, side, requested, p).quantity]

LEMMA FillFacts ==
    ASSUME NEW levels \in Levels, NEW side \in Side, NEW limit \in Price \cup {NoPrice},
           NEW max_levels \in Nat, NEW requested \in Nat,
           NEW p \in Reached(levels, side, requested, limit, max_levels)
    PROVE  LET f == FillOf(levels, side, requested, p) IN
           /\ p \in Price /\ f.price = p /\ f.quantity \in Nat /\ f.quantity > 0
           /\ f.quantity <= levels[p] /\ Ahead(levels, side, p) + f.quantity <= requested
           /\ f.quantity = levels[p] \/ Ahead(levels, side, p) + f.quantity = requested
<1>1. p \in Eligible(levels, side, limit, max_levels) /\ Ahead(levels, side, p) < requested
  BY DEF Reached
<1>2. p \in Price /\ levels[p] > 0
  BY <1>1, EligibleClosed
<1>3. levels[p] \in Nat /\ Ahead(levels, side, p) \in Nat
  BY <1>2, BetterTyped
<1>4. PICK f : f = FillOf(levels, side, requested, p)
  OBVIOUS
<1>5. f.price = p /\ f.quantity = Min({levels[p], requested - Ahead(levels, side, p)})
  BY <1>4 DEF FillOf
<1>6. requested - Ahead(levels, side, p) \in Int
  BY <1>3
<1>7. f.quantity = IF levels[p] <= requested - Ahead(levels, side, p)
                   THEN levels[p] ELSE requested - Ahead(levels, side, p)
  BY <1>3, <1>5, <1>6, MinOf
<1> QED
  BY <1>1, <1>2, <1>3, <1>4, <1>5, <1>7

LEMMA SweepTakes ==
    ASSUME NEW levels \in Levels, NEW side \in Side, NEW limit \in Price \cup {NoPrice},
           NEW max_levels \in Nat, NEW requested \in Nat
    PROVE  LET R == Reached(levels, side, requested, limit, max_levels)
               t == Took(levels, side, requested, limit, max_levels)
           IN  /\ R \in SUBSET Price /\ IsFiniteSet(R) /\ t \in [R -> Nat]
               /\ Takes(levels, side, t, requested)
<1>1. PICK R, t : /\ R = Reached(levels, side, requested, limit, max_levels)
                  /\ t = Took(levels, side, requested, limit, max_levels)
  OBVIOUS
<1>2. R \in SUBSET Price
  BY <1>1 DEF Reached, Eligible, Displayed
<1>3. ASSUME NEW p \in R
      PROVE  /\ t[p] \in Nat /\ t[p] <= levels[p] /\ Ahead(levels, side, p) + t[p] <= requested
             /\ t[p] = FillOf(levels, side, requested, p).quantity
  BY <1>1, FillFacts DEF Took
<1>4. t \in [R -> Nat]
  BY <1>1, <1>3 DEF Took
<1>5. Takes(levels, side, t, requested)
  BY <1>3, <1>4 DEF Takes
<1> QED
  BY <1>1, <1>2, <1>4, <1>5, LevelsTyped

Renames(f, g, h) == \A x \in DOMAIN f : f[x] = g[h[x]]

\* A sum does not depend on the names of its summands.
LEMMA TotalRenamed ==
    ASSUME NEW S, IsFiniteSet(S), NEW f \in [S -> Nat], NEW T, NEW g \in [T -> Nat],
           NEW h \in Bijection(S, T), Renames(f, g, h)
    PROVE  Total(g) = Total(f)
<1>1. /\ h \in [S -> T] /\ \A x, y \in S : h[x] = h[y] => x = y
      /\ \A y \in T : \E x \in S : h[x] = y
  BY DEF Bijection, Injection, Surjection, IsInjective
<1>2. \A x \in S : f[x] = g[h[x]]
  BY DEF Renames
<1>3. PICK m : m = [u \in Units(f) |-> <<h[u[1]], u[2]>>]
  OBVIOUS
<1>4. ASSUME NEW u \in Units(f)
      PROVE  /\ u[1] \in S /\ u[2] \in 1 .. f[u[1]] /\ u = <<u[1], u[2]>>
             /\ m[u] = <<h[u[1]], u[2]>>
  BY <1>3, UnitFacts
<1>5. ASSUME NEW x \in S, NEW k \in 1 .. f[x] PROVE <<x, k>> \in Units(f)
  BY DEF Units
<1>6. ASSUME NEW y \in T, NEW k \in 1 .. g[y] PROVE <<y, k>> \in Units(g)
  BY DEF Units
<1>7. m \in [Units(f) -> Units(g)]
  <2>1. ASSUME NEW u \in Units(f) PROVE m[u] \in Units(g)
    <3>1. h[u[1]] \in T /\ u[2] \in 1 .. g[h[u[1]]]
      BY <1>1, <1>2, <1>4
    <3> QED
      BY <1>4, <1>6, <3>1
  <2> QED
    BY <1>3, <2>1
<1>8. \A u, v \in Units(f) : m[u] = m[v] => u = v
  <2> SUFFICES ASSUME NEW u \in Units(f), NEW v \in Units(f), m[u] = m[v] PROVE u = v
    OBVIOUS
  <2>1. h[u[1]] = h[v[1]] /\ u[2] = v[2] /\ u[1] \in S /\ v[1] \in S
    BY <1>4
  <2> QED
    BY <1>1, <1>4, <2>1
<1>9. \A w \in Units(g) : \E u \in Units(f) : m[u] = w
  <2> SUFFICES ASSUME NEW w \in Units(g) PROVE \E u \in Units(f) : m[u] = w
    OBVIOUS
  <2>1. w[1] \in T /\ w[2] \in 1 .. g[w[1]] /\ w = <<w[1], w[2]>>
    BY UnitFacts
  <2>2. PICK x \in S : h[x] = w[1]
    BY <1>1, <2>1
  <2>3. w[2] \in 1 .. f[x]
    BY <1>2, <2>1, <2>2
  <2>4. <<x, w[2]>> \in Units(f)
    BY <1>5, <2>3
  <2>5. m[<<x, w[2]>>] = w
    BY <1>3, <2>1, <2>2, <2>4
  <2> QED
    BY <2>4, <2>5
<1>10. ExistsBijection(Units(f), Units(g))
  BY <1>7, <1>8, <1>9 DEF ExistsBijection, Bijection, Injection, Surjection, IsInjective
<1> QED
  BY <1>10, UnitsFinite, FS_Bijection DEF Total

\* What a set of fills amounts to.
QuantityIn(fills) == [f \in fills |-> f.quantity]

LEMMA SweepTotal ==
    ASSUME NEW levels \in Levels, NEW side \in Side, NEW limit \in Price \cup {NoPrice},
           NEW max_levels \in Nat, NEW requested \in Nat
    PROVE  QuantityOf(Sweep(levels, side, requested, limit, max_levels))
              = Total(Took(levels, side, requested, limit, max_levels))
<1>1. PICK R, t, F : /\ R = Reached(levels, side, requested, limit, max_levels)
                     /\ t = Took(levels, side, requested, limit, max_levels)
                     /\ F = Sweep(levels, side, requested, limit, max_levels)
  OBVIOUS
<1>2. IsFiniteSet(R) /\ t \in [R -> Nat]
  BY <1>1, SweepTakes
<1>3. PICK h : h = [p \in R |-> FillOf(levels, side, requested, p)]
  OBVIOUS
<1>4. ASSUME NEW p \in R
      PROVE  /\ h[p] = FillOf(levels, side, requested, p) /\ h[p].price = p
             /\ h[p].quantity = t[p] /\ h[p].quantity \in Nat
  BY <1>1, <1>3, FillFacts DEF Took
<1>5. F = {h[p] : p \in R}
  BY <1>1, <1>4 DEF Sweep
<1>6. h \in Bijection(R, F)
  <2>1. h \in [R -> F]
    BY <1>3, <1>4, <1>5
  <2>2. \A p, q \in R : h[p] = h[q] => p = q
    BY <1>4
  <2> QED
    BY <1>5, <2>1, <2>2 DEF Bijection, Injection, Surjection, IsInjective
<1>7. QuantityIn(F) \in [F -> Nat]
  BY <1>4, <1>5 DEF QuantityIn
<1>8. Renames(t, QuantityIn(F), h)
  BY <1>2, <1>4, <1>5 DEF Renames, QuantityIn
<1>9. Total(QuantityIn(F)) = Total(t)
  BY <1>2, <1>6, <1>7, <1>8, TotalRenamed
<1> QED
  BY <1>1, <1>9 DEF QuantityOf, QuantityIn

\* A sweep never finds more than there is, and finds what it asks for if it is there.
LEMMA SweepQuantity ==
    ASSUME NEW levels \in Levels, NEW side \in Side, NEW limit \in Price \cup {NoPrice},
           NEW max_levels \in Nat, NEW requested \in Nat
    PROVE  LET q == QuantityOf(Sweep(levels, side, requested, limit, max_levels))
               a == Available(levels, side, limit, max_levels)
           IN  /\ a \in Nat /\ q \in Nat /\ q <= a /\ q <= requested
               /\ requested <= a => q = requested
<1>1. PICK E, R, t, a, q : /\ E = Eligible(levels, side, limit, max_levels)
                           /\ R = Reached(levels, side, requested, limit, max_levels)
                           /\ t = Took(levels, side, requested, limit, max_levels)
                           /\ a = Available(levels, side, limit, max_levels)
                           /\ q = QuantityOf(Sweep(levels, side, requested, limit, max_levels))
  OBVIOUS
<1>2. /\ R \in SUBSET Price /\ IsFiniteSet(R) /\ t \in [R -> Nat]
      /\ Takes(levels, side, t, requested) /\ q = Total(t)
  BY <1>1, SweepTakes, SweepTotal
<1>3. E \in SUBSET Price /\ a = Total(On(levels, E)) /\ R \in SUBSET E
  BY <1>1 DEF Eligible, Displayed, Available, Reached
<1>4. On(levels, E) \in [E -> Nat] /\ a \in Nat /\ IsFiniteSet(E)
  BY <1>3, LevelsTyped
<1>5. q \in Nat /\ q <= requested
  BY <1>2, SlotBound
<1>6. q <= a
  <2>1. Below(t, On(levels, E))
    <3>1. ASSUME NEW p \in R PROVE p \in E /\ t[p] <= levels[p]
      BY <1>1, <1>3, FillFacts DEF Took
    <3> QED
      BY <1>2, <1>4, <3>1 DEF Below, On
  <2> QED
    BY <1>2, <1>3, <1>4, <2>1, TotalBelow
<1>7. ASSUME requested <= a PROVE q >= requested
  <2>1. PICK s : s = SlotOf(levels, side, t)
    OBVIOUS
  <2>2. s \in Injection(Units(t), 1 .. requested)
    BY <1>2, <2>1, SlotInjection
  <2>3. ASSUME NEW n \in 1 .. requested PROVE \E u \in Units(t) : s[u] = n
    <3>1. n \in 1 .. a
      BY <1>4, <1>7
    <3>2. IsSlot(levels, side, E, n)
      BY <1>1, <3>1, SlotsFull
    <3>3. PICK p \in E : \E k \in 1 .. levels[p] : n = Ahead(levels, side, p) + k
      BY <3>2 DEF IsSlot
    <3>4. PICK k \in 1 .. levels[p] : n = Ahead(levels, side, p) + k
      BY <3>3
    <3>5. Ahead(levels, side, p) \in Nat /\ levels[p] \in Nat
      BY <1>3, BetterTyped
    <3>6. Ahead(levels, side, p) < requested
      BY <3>4, <3>5
    <3>7. p \in R
      BY <1>1, <3>6 DEF Reached
    <3>8. t[p] = levels[p] \/ Ahead(levels, side, p) + t[p] = requested
      BY <1>1, <3>7, FillFacts DEF Took
    <3>9. k \in 1 .. t[p]
      <4>1. t[p] \in Nat
        BY <1>2, <3>7
      <4> QED
        BY <3>4, <3>5, <3>8, <4>1
    <3>10. <<p, k>> \in Units(t)
      BY <1>2, <3>7, <3>9 DEF Units
    <3>11. s[<<p, k>>] = n
      BY <2>1, <3>4, <3>10 DEF SlotOf
    <3> QED
      BY <3>10, <3>11
  <2>4. s \in Surjection(Units(t), 1 .. requested)
    BY <2>2, <2>3 DEF Surjection, Injection
  <2>5. Cardinality(Units(t)) = Cardinality(1 .. requested)
    BY <2>2, <2>4, FirstSlots, FS_Injection
  <2> QED
    BY <1>2, <2>5, FirstSlots DEF Total
<1> QED
  BY <1>1, <1>4, <1>5, <1>6, <1>7

LEMMA QuantityNone == QuantityOf({}) = 0
<1>1. DOMAIN QuantityIn({}) = {}
  BY DEF QuantityIn
<1> QED
  BY <1>1, TotalEmpty DEF QuantityOf, QuantityIn

LEMMA QuantityOne ==
    ASSUME NEW f, f.quantity \in Nat
    PROVE  QuantityOf({f}) = f.quantity
<1>1. PICK g : g = QuantityIn({f})
  OBVIOUS
<1>2. g \in [{f} -> Nat] /\ g[f] = f.quantity /\ f \in {f}
  BY <1>1 DEF QuantityIn
<1>3. DOMAIN Without(g, f) = {}
  BY <1>2 DEF Without
<1>4. Total(g) = g[f] + Total(Without(g, f))
  BY <1>2, FS_Singleton, TotalSplit
<1>5. Total(Without(g, f)) = 0
  BY <1>3, TotalEmpty
<1> QED
  BY <1>1, <1>2, <1>4, <1>5 DEF QuantityOf, QuantityIn

\* What is missing of the levels afterwards.
Gone(levels, left) == [p \in Price |-> levels[p] - left[p]]

\* The book c is b after a sweep that took, on the other side, requested at most.
Leaves(b, side, c, requested) ==
    LET levels == Opposite(b, side)
        left == Opposite(c, side)
    IN  /\ c \in L2Book /\ c.enabled = b.enabled /\ c.sequence = b.sequence
        /\ side = "BUY" => c.bids = b.bids
        /\ side # "BUY" => c.asks = b.asks
        /\ \A p \in Price : left[p] <= levels[p]
        /\ Gone(levels, left) \in [Price -> Nat]
        /\ Total(Gone(levels, left)) \in Nat /\ Total(Gone(levels, left)) <= requested

\* Consume takes from no level more than it has, and not more than was asked for.
LEMMA ConsumeFacts ==
    ASSUME NEW b \in L2Book, NEW side \in Side, NEW limit \in Price \cup {NoPrice},
           NEW max_levels \in Nat, NEW requested \in Nat
    PROVE  Leaves(b, side,
                  Consume(b, side, Sweep(Opposite(b, side), side, requested, limit, max_levels)),
                  requested)
<1>1. PICK levels, F, R, c : /\ levels = Opposite(b, side)
                             /\ F = Sweep(levels, side, requested, limit, max_levels)
                             /\ R = Reached(levels, side, requested, limit, max_levels)
                             /\ c = Consume(b, side, F)
  OBVIOUS
<1>2. levels \in Levels
  BY <1>1 DEF Opposite, L2Book
<1>3. PICK taken : taken = [p \in Price |-> QuantityOf({f \in F : f.price = p})]
  OBVIOUS
<1>4. ASSUME NEW p \in Price
      PROVE  /\ taken[p] \in Nat /\ levels[p] \in Nat /\ taken[p] <= levels[p]
             /\ taken[p] > 0 => Ahead(levels, side, p) + taken[p] <= requested
  <2>1. levels[p] \in Nat
    BY <1>2 DEF Levels
  <2>2. taken[p] = QuantityOf({f \in F : f.price = p})
    BY <1>3
  <2>3. \A f \in F : \E q \in R : f = FillOf(levels, side, requested, q)
    BY <1>1 DEF Sweep
  <2>4. \A q \in R : FillOf(levels, side, requested, q).price = q
    BY DEF FillOf
  <2>5. CASE p \in R
    <3>1. PICK f : f = FillOf(levels, side, requested, p)
      OBVIOUS
    <3>2. f \in F
      BY <1>1, <2>5, <3>1 DEF Sweep
    <3>3. {g \in F : g.price = p} = {f}
      BY <2>3, <2>4, <2>5, <3>1, <3>2
    <3>4. /\ f.quantity \in Nat /\ f.quantity <= levels[p]
          /\ Ahead(levels, side, p) + f.quantity <= requested
      BY <1>1, <1>2, <2>5, <3>1, FillFacts
    <3> QED
      BY <2>1, <2>2, <3>3, <3>4, QuantityOne
  <2>6. CASE p \notin R
    <3>1. {g \in F : g.price = p} = {}
      BY <2>3, <2>4, <2>6
    <3>2. taken[p] = 0
      BY <2>2, <3>1, QuantityNone
    <3> QED
      BY <2>1, <3>2
  <2> QED
    BY <2>5, <2>6
<1>5. PICK left : left = [p \in Price |-> levels[p] - taken[p]]
  OBVIOUS
<1>6. c = IF side = "BUY" THEN [b EXCEPT !.asks = left] ELSE [b EXCEPT !.bids = left]
  <2>1. left = [p \in Price |-> levels[p] - QuantityOf({f \in F : f.price = p})]
    BY <1>3, <1>5
  <2> QED
    BY <1>1, <2>1, Zenon DEF Consume
<1>7. left \in Levels /\ \A p \in Price : left[p] <= levels[p]
  BY <1>4, <1>5 DEF Levels
<1>8. /\ c \in L2Book /\ c.enabled = b.enabled /\ c.sequence = b.sequence /\ Opposite(c, side) = left
      /\ side = "BUY" => c.bids = b.bids
      /\ side # "BUY" => c.asks = b.asks
  BY <1>6, <1>7 DEF L2Book, Opposite
<1>9. Gone(levels, left) = taken
  <2>1. \A p \in Price : levels[p] - left[p] = taken[p]
    BY <1>4, <1>5
  <2>2. Gone(levels, left) = [p \in Price |-> taken[p]]
    BY <2>1 DEF Gone
  <2> QED
    BY <1>3, <2>2
<1>10. taken \in [Price -> Nat] /\ Takes(levels, side, taken, requested)
  BY <1>3, <1>4 DEF Takes
<1>11. Total(taken) \in Nat /\ Total(taken) <= requested
  BY <1>2, <1>10, SlotBound
<1>12. Leaves(b, side, c, requested)
  BY <1>1, <1>7, <1>8, <1>9, <1>10, <1>11 DEF Leaves
<1> QED
  BY <1>1, <1>12

-----------------------------------------------------------------------------
(***************************************************************************)
(* Admission and replacement                                               *)
(***************************************************************************)

LEMMA AdmittedSound ==
    ASSUME NEW r \in Request, ValidRequest(r), NEW q \in Nat, q > 0, NEW frontier \in Nat
    PROVE  LET a == Admitted(r, q, frontier) IN
           /\ a \in Order /\ Sound(a) /\ a.filled = 0 /\ a.quantity = q
           /\ a.side = r.side /\ a.reduce_only = r.reduce_only /\ ~IsTerminal(a)
<1>1. r \in [side: Side, quantity: Nat, kind: OrderKind, tif: TimeInForce,
             reduce_only: BOOLEAN, post_only: BOOLEAN, marketable_only: BOOLEAN]
  BY SessionAssumption
<1>2. PICK st : st = IF IsStop(r.kind) THEN "DORMANT" ELSE "WORKING"
  OBVIOUS
<1>3. PICK a : a = Admitted(r, q, frontier)
  OBVIOUS
<1>4. a = [side |-> r.side, quantity |-> q, filled |-> 0, kind |-> r.kind,
           tif |-> r.tif, reduce_only |-> r.reduce_only, post_only |-> r.post_only,
           marketable_only |-> r.marketable_only, submitted |-> frontier, revision |-> 0,
           status |-> st]
  BY <1>2, <1>3 DEF Admitted
<1>5. a \in Order
  BY <1>1, <1>2, <1>4 DEF Order, OrderStatus
<1>6. Sound(a)
  BY <1>2, <1>4 DEF Sound, IsExecutable, IsTerminal, ValidRequest
<1> QED
  BY <1>2, <1>3, <1>4, <1>5, <1>6 DEF IsTerminal

LEMMA ReplacedKeeps ==
    ASSUME NEW o \in Order, Sound(o), ~IsTerminal(o), NEW n \in Nat, n > 0,
           NEW kind \in OrderKind, NEW quote,
           LiquidityAllows(o.side, kind, o.post_only, o.marketable_only, quote)
    PROVE  LET a == Replaced(o, n, kind) IN
           Keeps(o, a) /\ a.filled = o.filled /\ Remaining(a) = n /\ ~IsTerminal(a)
<1>1. PICK a, st, q, v : /\ a = Replaced(o, n, kind) /\ q = o.filled + n /\ v = o.revision + 1
                         /\ st = IF IsStop(kind) THEN "DORMANT" ELSE LiveStatus(o)
  OBVIOUS
<1>2. a = [o EXCEPT !.quantity = q, !.kind = kind, !.revision = v, !.status = st]
  BY <1>1 DEF Replaced
<1>3. /\ q \in Nat /\ v \in Nat /\ q > o.filled /\ q - o.filled = n /\ q > 0
      /\ st \in {"DORMANT", "WORKING", "PARTIALLY_FILLED"}
      /\ st = "DORMANT" <=> IsStop(kind)
      /\ st = "WORKING" => o.filled = 0
      /\ st = "PARTIALLY_FILLED" => o.filled > 0
  BY <1>1, OrderFields DEF LiveStatus
<1>4. /\ a \in Order /\ a.status = st /\ a.filled = o.filled /\ a.quantity = q
      /\ a.side = o.side /\ a.submitted = o.submitted /\ a.reduce_only = o.reduce_only
      /\ a.kind = kind /\ a.tif = o.tif /\ a.post_only = o.post_only
  <2>1. q \in Nat \ {0} /\ v \in Nat /\ st \in OrderStatus
    BY <1>3 DEF OrderStatus
  <2>2. a = [[[[o EXCEPT !.quantity = q] EXCEPT !.kind = kind] EXCEPT !.revision = v]
                EXCEPT !.status = st]
    BY <1>2
  <2> QED
    BY <2>1, <2>2 DEF Order
<1>5. o.post_only /\ ~IsStop(kind) => kind.limit # NoPrice
  <2>1. o.post_only = TRUE \/ o.post_only = FALSE
    BY OrderFields
  <2> QED
    BY <2>1, PostOnlyIsLimit
<1>6. o.tif # "GTC" => o.filled = 0
  BY OrderFields DEF Sound
<1>7. Sound(a)
  BY <1>3, <1>4, <1>5, <1>6, OrderFields DEF Sound, IsTerminal, IsExecutable
<1> QED
  BY <1>1, <1>3, <1>4, <1>7, OrderFields DEF Keeps, Remaining, IsTerminal

AllSound(os) == os \in Seq(Order) /\ \A i \in DOMAIN os : Sound(os[i])

ClaimsOf(os, side, excluding) == [i \in DOMAIN os \ excluding |-> Claim(os[i], side)]

LEMMA OrdersIndexed ==
    ASSUME NEW os, AllSound(os)
    PROVE  /\ DOMAIN os = 1 .. Len(os) /\ Len(os) \in Nat /\ IsFiniteSet(DOMAIN os)
           /\ \A i \in DOMAIN os : os[i] \in Order /\ Sound(os[i])
<1>1. os \in Seq(Order) /\ \A i \in DOMAIN os : Sound(os[i])
  BY DEF AllSound
<1>2. DOMAIN os = 1 .. Len(os) /\ Len(os) \in Nat
  BY <1>1
<1>3. \A i \in DOMAIN os : os[i] \in Order
  BY <1>1
<1> QED
  BY <1>1, <1>2, <1>3, FirstSlots

LEMMA ClaimNat ==
    ASSUME NEW o \in Order, Sound(o), NEW side
    PROVE  Claim(o, side) \in Nat
<1>1. Remaining(o) \in Nat
  BY OrderFields DEF Sound, Remaining
<1> QED
  BY <1>1 DEF Claim

LEMMA ClaimsTyped ==
    ASSUME NEW os, AllSound(os), NEW side, NEW excluding
    PROVE  /\ IsFiniteSet(DOMAIN os \ excluding)
           /\ ClaimsOf(os, side, excluding) \in [DOMAIN os \ excluding -> Nat]
           /\ Reserved(os, side, excluding) = Total(ClaimsOf(os, side, excluding))
           /\ Reserved(os, side, excluding) \in Nat
<1>1. IsFiniteSet(DOMAIN os \ excluding)
  BY OrdersIndexed, FS_Subset
<1>2. ClaimsOf(os, side, excluding) \in [DOMAIN os \ excluding -> Nat]
  BY OrdersIndexed, ClaimNat DEF ClaimsOf
<1>3. Reserved(os, side, excluding) = Total(ClaimsOf(os, side, excluding))
  BY DEF Reserved, ClaimsOf
<1> QED
  BY <1>1, <1>2, <1>3, TotalNat

LEMMA ReducibleNat ==
    ASSUME NEW side, NEW pos \in Int
    PROVE  /\ Reducible(side, pos) \in Nat
           /\ Reducible(side, pos) = IF pos > 0 /\ side = "SELL" THEN pos
                                     ELSE IF pos < 0 /\ side = "BUY" THEN -pos ELSE 0
  BY DEF Reducible

\* An admitted reduce-only quantity fits beside what the others claim.
LEMMA ReduceOnlyFits ==
    ASSUME NEW os, AllSound(os), NEW side, NEW requested \in Int, NEW pos \in Int, NEW excluding,
           ReduceOnlyQuantity(os, side, requested, pos, excluding) > 0
    PROVE  LET q == ReduceOnlyQuantity(os, side, requested, pos, excluding) IN
           /\ q \in Nat /\ q <= requested
           /\ Reserved(os, side, excluding) + q <= Reducible(side, pos)
<1>1. PICK q, d, x : /\ q = ReduceOnlyQuantity(os, side, requested, pos, excluding)
                     /\ d = Reducible(side, pos) - Reserved(os, side, excluding)
                     /\ x = Max({0, d})
  OBVIOUS
<1>2. d \in Int /\ Reducible(side, pos) \in Nat /\ Reserved(os, side, excluding) \in Nat
  <2>1. Reducible(side, pos) \in Nat
    BY ReducibleNat
  <2>2. Reserved(os, side, excluding) \in Nat
    BY ClaimsTyped
  <2> QED
    BY <1>1, <2>1, <2>2
<1>3. x = IF 0 >= d THEN 0 ELSE d
  BY <1>1, <1>2, MaxOf
<1>4. q = Min({requested, x})
  BY <1>1 DEF ReduceOnlyQuantity
<1>5. q = IF requested <= x THEN requested ELSE x
  BY <1>2, <1>3, <1>4, MinOf
<1> QED
  BY <1>1, <1>2, <1>3, <1>5

-----------------------------------------------------------------------------
(***************************************************************************)
(* Executions                                                              *)
(***************************************************************************)

LEMMA KeepsTermsTrans ==
    ASSUME NEW o \in Order, NEW a, NEW b, KeepsTerms(o, a), KeepsTerms(a, b)
    PROVE  KeepsTerms(o, b)
<1>1. a \in Order /\ b \in Order
  BY DEF KeepsTerms, Keeps
<1>2. b.filled >= o.filled
  BY <1>1, OrderFields DEF KeepsTerms, Keeps
<1> QED
  BY <1>2 DEF KeepsTerms, Keeps

\* A fill at the limit of its order or better.
WithinLimit(o, f) ==
    o.kind.limit # NoPrice =>
        IF o.side = "BUY" THEN f.price <= o.kind.limit ELSE f.price >= o.kind.limit

\* What every execution path does to the order it is offered to.
Executes(i, after, fills) ==
    /\ KeepsTerms(orders[i], after)
    /\ QuantityOf(fills) = after.filled - orders[i].filled
    /\ \A f \in fills : WithinLimit(orders[i], f)
    /\ Reconcile(i, after, fills)

Executed(i) == \E after, fills : Executes(i, after, fills)

LEMMA FillAtFacts ==
    ASSUME NEW o \in Order, NEW a, Keeps(o, a), NEW price
    PROVE  /\ QuantityOf(FillAt(price, o, a)) = a.filled - o.filled
           /\ \A f \in FillAt(price, o, a) : f.price = price /\ a.filled # o.filled
<1>1. a \in Order /\ a.filled >= o.filled /\ a.filled \in Nat /\ o.filled \in Nat
  BY OrderFields DEF Keeps
<1>2. CASE a.filled = o.filled
  <2>1. FillAt(price, o, a) = {}
    BY <1>2 DEF FillAt
  <2> QED
    BY <1>1, <1>2, <2>1, QuantityNone
<1>3. CASE a.filled # o.filled
  <2>1. PICK f : f = [price |-> price, quantity |-> a.filled - o.filled]
    OBVIOUS
  <2>2. FillAt(price, o, a) = {f} /\ f.price = price /\ f.quantity = a.filled - o.filled
    BY <1>3, <2>1 DEF FillAt
  <2>3. f.quantity \in Nat
    BY <1>1, <2>2
  <2> QED
    BY <1>3, <2>2, <2>3, QuantityOne
<1> QED
  BY <1>2, <1>3

LEMMA FillAtExecutes ==
    ASSUME NEW i, orders[i] \in Order, NEW after, KeepsTerms(orders[i], after), NEW price,
           \A f \in FillAt(price, orders[i], after) : WithinLimit(orders[i], f),
           Reconcile(i, after, FillAt(price, orders[i], after))
    PROVE  Executed(i)
<1>1. QuantityOf(FillAt(price, orders[i], after)) = after.filled - orders[i].filled
  BY FillAtFacts DEF KeepsTerms
<1>2. Executes(i, after, FillAt(price, orders[i], after))
  BY <1>1 DEF Executes
<1> QED
  BY <1>2 DEF Executed

LEMMA KindFacts ==
    ASSUME NEW o \in Order
    PROVE  o.kind.limit \in Price \cup {NoPrice} /\ (o.kind.limit # NoPrice => o.kind.limit \in Int)
  BY OrderFields, PriceFacts DEF OrderKind

LEMMA F0Executes ==
    ASSUME AllSound(orders), NEW i \in DOMAIN orders, NEW bar \in Bar, NEW seq, NEW favorable,
           NEW slippage, ExecuteF0(i, bar, seq, favorable, slippage)
    PROVE  Executed(i)
<1>1. PICK o, active, price, after :
        /\ o = orders[i]
        /\ active = IF o.status = "DORMANT" /\ StopTouched(o, bar)
                    THEN TriggerStop(o, o.kind.stop, NoQuote) ELSE o
        /\ price = IF o.kind.limit = NoPrice THEN MarketFillPrice(o, bar, slippage)
                   ELSE LimitFillPrice(o, bar)
        /\ \/ after = o
           \/ after = active
           \/ IsExecutable(active) /\ after = Offer(active, Remaining(active))
        /\ Reconcile(i, after, FillAt(price, o, after))
  BY Zenon DEF ExecuteF0
<1>2. o \in Order /\ Sound(o)
  BY <1>1, OrdersIndexed
<1>3. KeepsTerms(o, active)
  BY <1>1, <1>2, KeepsSelf, TriggerKeeps
<1>4. KeepsTerms(o, after)
  <2>1. CASE IsExecutable(active) /\ after = Offer(active, Remaining(active))
    <3>1. active \in Order /\ Sound(active)
      BY <1>3 DEF KeepsTerms, Keeps
    <3>2. Remaining(active) \in Nat
      BY <3>1, OrderFields DEF Sound, Remaining
    <3> QED
      BY <1>2, <1>3, <2>1, <3>1, <3>2, OfferKeeps, KeepsTermsTrans
  <2> QED
    BY <1>1, <1>2, <1>3, <2>1, KeepsSelf
<1>5. WithinLimit(o, [price |-> price])
  <2> SUFFICES ASSUME o.kind.limit # NoPrice
               PROVE  IF o.side = "BUY" THEN price <= o.kind.limit ELSE price >= o.kind.limit
    BY DEF WithinLimit
  <2>1. o.kind.limit \in Int
    BY <1>2, KindFacts
  <2>2. bar.open \in Int
    BY MarketAssumption, PriceFacts
  <2>3. price = LimitFillPrice(o, bar)
    BY <1>1
  <2> QED
    BY <2>1, <2>2, <2>3, MinOf, MaxOf DEF LimitFillPrice
<1>6. \A f \in FillAt(price, o, after) : WithinLimit(o, f)
  BY <1>2, <1>4, <1>5, FillAtFacts DEF WithinLimit, KeepsTerms
<1> QED
  BY <1>1, <1>2, <1>4, <1>6, FillAtExecutes

LEMMA F1QuoteExecutes ==
    ASSUME AllSound(orders), NEW i \in DOMAIN orders, NEW quote \in Quote, NEW seq,
           NEW cap \in Cap, ExecuteF1Quote(i, quote, seq, cap)
    PROVE  Executed(i)
<1>1. PICK o, price, displayed, active, after :
        /\ o = orders[i]
        /\ price = IF o.side = "BUY" THEN quote.ask ELSE quote.bid
        /\ displayed = IF o.side = "BUY" THEN quote.ask_size ELSE quote.bid_size
        /\ active = IF o.status = "DORMANT" /\ seq > o.submitted
                    THEN TriggerStop(o, price, quote) ELSE o
        /\ after = IF ~IsExecutable(active) THEN active
                   ELSE IF IsMarketable(active.side, active.kind, quote)
                   THEN Offer(active, Min({displayed, cap}))
                   ELSE Offer(active, 0)
        /\ Reconcile(i, after, FillAt(price, o, after))
  BY Zenon DEF ExecuteF1Quote
<1>2. o \in Order /\ Sound(o)
  BY <1>1, OrdersIndexed
<1>3. KeepsTerms(o, active) /\ active.filled = o.filled
  BY <1>1, <1>2, KeepsSelf, TriggerKeeps
<1>4. active \in Order /\ Sound(active) /\ active.side = o.side /\ active.kind.limit = o.kind.limit
  BY <1>3 DEF KeepsTerms, Keeps
<1>5. quote.bid \in Int /\ quote.ask \in Int /\ Min({displayed, cap}) \in Nat
  <2>1. /\ quote.bid \in Price /\ quote.ask \in Price /\ quote.bid_size \in Nat
        /\ quote.ask_size \in Nat /\ cap \in Nat
    BY MarketAssumption, SessionAssumption
  <2>2. displayed \in Nat
    BY <1>1, <2>1
  <2> QED
    BY <2>1, <2>2, PriceFacts, MinOf
<1>6. CASE ~IsExecutable(active)
  <2>1. KeepsTerms(o, after) /\ after.filled = o.filled
    BY <1>1, <1>3, <1>6
  <2>2. \A f \in FillAt(price, o, after) : WithinLimit(o, f)
    BY <1>2, <2>1, FillAtFacts DEF KeepsTerms
  <2> QED
    BY <1>1, <1>2, <2>1, <2>2, FillAtExecutes
<1>7. CASE IsExecutable(active) /\ ~IsMarketable(active.side, active.kind, quote)
  <2>1. KeepsTerms(active, after) /\ after.filled <= active.filled + 0
    BY <1>1, <1>4, <1>7, OfferKeeps
  <2>2. KeepsTerms(o, after) /\ after.filled = o.filled
    <3>1. KeepsTerms(o, after)
      BY <1>2, <1>3, <2>1, KeepsTermsTrans
    <3> QED
      BY <1>2, <1>3, <2>1, <3>1, OrderFields DEF KeepsTerms, Keeps
  <2>3. \A f \in FillAt(price, o, after) : WithinLimit(o, f)
    BY <1>2, <2>2, FillAtFacts DEF KeepsTerms
  <2> QED
    BY <1>1, <1>2, <2>2, <2>3, FillAtExecutes
<1>8. CASE IsExecutable(active) /\ IsMarketable(active.side, active.kind, quote)
  <2>1. KeepsTerms(active, after)
    BY <1>1, <1>4, <1>5, <1>8, OfferKeeps
  <2>2. KeepsTerms(o, after)
    BY <1>2, <1>3, <2>1, KeepsTermsTrans
  <2>3. WithinLimit(o, [price |-> price])
    <3>1. o.side \in Side
      BY <1>2, OrderFields
    <3> QED
      BY <1>1, <1>4, <1>5, <1>8, <3>1 DEF WithinLimit, IsMarketable, Side
  <2>4. \A f \in FillAt(price, o, after) : WithinLimit(o, f)
    BY <1>2, <2>2, <2>3, FillAtFacts DEF WithinLimit, KeepsTerms
  <2> QED
    BY <1>1, <1>2, <2>2, <2>4, FillAtExecutes
<1> QED
  BY <1>6, <1>7, <1>8

LEMMA F1TradeExecutes ==
    ASSUME AllSound(orders), NEW i \in DOMAIN orders, NEW trade \in Trade, NEW seq,
           NEW eligible_after, NEW ahead \in Int, NEW cap \in Cap,
           ExecuteF1Trade(i, trade, seq, eligible_after, ahead, cap)
    PROVE  Executed(i)
<1>1. PICK o, fillable, after :
        /\ o = orders[i]
        /\ fillable = Min({Max({0, trade.quantity - ahead}), Remaining(o), cap})
        /\ \/ after = o
           \/ IsExecutable(o) /\ after = ApplyFill(o, fillable)
        /\ o.tif = "GTC" /\ o.kind.limit # NoPrice
        /\ Reconcile(i, after, FillAt(o.kind.limit, o, after))
  BY Zenon DEF ExecuteF1Trade
<1>2. o \in Order /\ Sound(o)
  BY <1>1, OrdersIndexed
<1>3. fillable \in Nat /\ fillable <= Remaining(o)
  <2>1. trade.quantity \in Nat /\ cap \in Nat
    BY MarketAssumption, SessionAssumption
  <2>2. Remaining(o) \in Nat
    BY <1>2, OrderFields DEF Sound, Remaining
  <2>3. PICK d, x : d = trade.quantity - ahead /\ x = Max({0, d})
    OBVIOUS
  <2>4. d \in Int
    BY <2>1, <2>3
  <2>5. x \in Nat
    BY <2>3, <2>4, MaxOf
  <2>6. fillable = Min({x, Remaining(o), cap})
    BY <1>1, <2>3
  <2>7. PICK r : r = Remaining(o)
    OBVIOUS
  <2>8. fillable \in {x, r, cap} /\ fillable <= r
    BY <2>1, <2>2, <2>5, <2>6, <2>7, MinOfThree
  <2> QED
    BY <2>1, <2>2, <2>5, <2>7, <2>8
<1>4. KeepsTerms(o, after)
  BY <1>1, <1>2, <1>3, KeepsSelf, ApplyFillKeeps
<1>5. WithinLimit(o, [price |-> o.kind.limit])
  BY <1>2, KindFacts DEF WithinLimit
<1>6. \A f \in FillAt(o.kind.limit, o, after) : WithinLimit(o, f)
  BY <1>2, <1>4, <1>5, FillAtFacts DEF WithinLimit, KeepsTerms
<1> QED
  BY <1>1, <1>2, <1>4, <1>6, FillAtExecutes

\* A sweep of what the order then fills.
Swept(i, after, requested, max_levels) ==
    LET o == orders[i]
        fills == Sweep(Opposite(book, o.side), o.side, requested, o.kind.limit, max_levels)
    IN  /\ requested \in Nat /\ requested = after.filled - o.filled
        /\ Executes(i, after, fills)
        /\ book' = Consume(book, o.side, fills)

SomeSweep(i, max_levels) == \E after, requested : Swept(i, after, requested, max_levels)

LEMMA SweepWithin ==
    ASSUME NEW levels, NEW o, NEW requested, NEW max_levels,
           NEW f \in Sweep(levels, o.side, requested, o.kind.limit, max_levels)
    PROVE  WithinLimit(o, f)
<1>1. PICK p \in Reached(levels, o.side, requested, o.kind.limit, max_levels) :
          f = FillOf(levels, o.side, requested, p)
  BY DEF Sweep
<1>2. f.price = p
  BY <1>1 DEF FillOf
<1>3. p \in Eligible(levels, o.side, o.kind.limit, max_levels)
  BY <1>1 DEF Reached
<1> QED
  BY <1>2, <1>3 DEF Eligible, WithinLimit

\* Whatever the time in force leaves of the plan is there to be taken.
LEMMA F2Sweeps ==
    ASSUME AllSound(orders), book \in L2Book, NEW i \in DOMAIN orders, NEW max_levels \in Nat,
           NEW cap \in Cap, ExecuteF2(i, max_levels, cap)
    PROVE  SomeSweep(i, max_levels)
<1>1. PICK o, levels, active, wanted, after, d :
        /\ o = orders[i] /\ levels = Opposite(book, o.side)
        /\ \/ active = o
           \/ o.status = "DORMANT" /\ \E x, t : active = TriggerStop(o, x, t)
        /\ wanted = Min({Remaining(o), cap})
        /\ after = IF IsExecutable(active)
                   THEN Offer(active, QuantityOf(PlanSweep(book, o.side, wanted, o.kind.limit, max_levels)))
                   ELSE active
        /\ d = after.filled - o.filled
        /\ book' = Consume(book, o.side, PlanSweep(book, o.side, d, o.kind.limit, max_levels))
        /\ Reconcile(i, after, PlanSweep(book, o.side, d, o.kind.limit, max_levels))
  BY Zenon DEF ExecuteF2
<1>2. o \in Order /\ Sound(o)
  BY <1>1, OrdersIndexed
<1>3. /\ levels \in Levels /\ o.side \in Side /\ o.kind.limit \in Price \cup {NoPrice}
      /\ wanted \in Nat
  <2>1. Remaining(o) \in Nat
    BY <1>2, OrderFields DEF Sound, Remaining
  <2>2. cap \in Nat
    BY SessionAssumption
  <2>3. wanted \in Nat
    BY <1>1, <2>1, <2>2, MinOf
  <2>4. levels \in Levels
    BY <1>1 DEF Opposite, L2Book
  <2> QED
    BY <1>2, <2>3, <2>4, OrderFields, KindFacts
<1>4. KeepsTerms(o, active) /\ active.filled = o.filled
  BY <1>1, <1>2, KeepsSelf, TriggerKeeps
<1>5. active \in Order /\ Sound(active)
  BY <1>4 DEF KeepsTerms, Keeps
<1>6. PICK q, a : /\ q = QuantityOf(PlanSweep(book, o.side, wanted, o.kind.limit, max_levels))
                  /\ a = Available(levels, o.side, o.kind.limit, max_levels)
  OBVIOUS
<1>7. q \in Nat /\ a \in Nat /\ q <= a
  BY <1>1, <1>3, <1>6, SweepIs, SweepQuantity
<1>8. KeepsTerms(o, after) /\ after.filled <= o.filled + q
  <2>1. CASE IsExecutable(active)
    <3>1. after = Offer(active, q)
      BY <1>1, <1>6, <2>1
    <3>2. KeepsTerms(active, after) /\ after.filled <= active.filled + q
      BY <1>5, <1>7, <2>1, <3>1, OfferKeeps
    <3> QED
      BY <1>2, <1>4, <3>2, KeepsTermsTrans
  <2>2. CASE ~IsExecutable(active)
    BY <1>1, <1>2, <1>4, <1>7, <2>2, OrderFields
  <2> QED
    BY <2>1, <2>2
<1>9. d \in Nat /\ d <= a
  <2>1. after.filled \in Nat /\ o.filled \in Nat /\ after.filled >= o.filled
    BY <1>2, <1>8, OrderFields DEF KeepsTerms, Keeps
  <2> QED
    BY <1>1, <1>7, <1>8, <2>1
<1>10. PICK F : F = Sweep(levels, o.side, d, o.kind.limit, max_levels)
  OBVIOUS
<1>11. PlanSweep(book, o.side, d, o.kind.limit, max_levels) = F
  BY <1>1, <1>10, SweepIs
<1>12. QuantityOf(F) = d
  BY <1>3, <1>6, <1>9, <1>10, SweepQuantity
<1>13. \A f \in F : WithinLimit(o, f)
  BY <1>10, SweepWithin
<1>14. Executes(i, after, F)
  BY <1>1, <1>8, <1>11, <1>12, <1>13 DEF Executes
<1>15. book' = Consume(book, o.side, F)
  BY <1>1, <1>11
<1>16. Swept(i, after, d, max_levels)
  BY <1>1, <1>9, <1>10, <1>14, <1>15 DEF Swept
<1> QED
  BY <1>16 DEF SomeSweep

LEMMA F2Executes ==
    ASSUME AllSound(orders), book \in L2Book, NEW i \in DOMAIN orders, NEW max_levels \in Nat,
           NEW cap \in Cap, ExecuteF2(i, max_levels, cap)
    PROVE  Executed(i) /\ book' \in L2Book
<1>1. SomeSweep(i, max_levels)
  BY F2Sweeps
<1>2. PICK after, requested : Swept(i, after, requested, max_levels)
  BY <1>1 DEF SomeSweep
<1>3. orders[i] \in Order
  BY OrdersIndexed
<1>4. /\ requested \in Nat /\ orders[i].side \in Side
      /\ orders[i].kind.limit \in Price \cup {NoPrice}
  BY <1>2, <1>3, OrderFields, KindFacts DEF Swept
<1>5. book' \in L2Book
  <2>1. book \in L2Book /\ Leaves(book, orders[i].side, book', requested)
    BY <1>2, <1>4, ConsumeFacts DEF Swept
  <2> QED
    BY <2>1 DEF Leaves
<1>6. Executed(i)
  BY <1>2 DEF Swept, Executed
<1> QED
  BY <1>5, <1>6

-----------------------------------------------------------------------------
(***************************************************************************)
(* Orders are sound                                                        *)
(***************************************************************************)

\* What a step may do to orders, position and execution.
Stepped ==
    /\ AllSound(orders') /\ Len(orders') >= Len(orders)
    /\ \A j \in DOMAIN orders : Keeps(orders[j], orders'[j])
    /\ position' \in Int
    /\ execution'.order \in 0 .. Len(orders')
    /\ FillsAtLimit'

LEMMA OneChanged ==
    ASSUME AllSound(orders), NEW i \in DOMAIN orders, NEW a, Keeps(orders[i], a),
           orders' = [orders EXCEPT ![i] = a]
    PROVE  /\ AllSound(orders') /\ Len(orders') = Len(orders) /\ DOMAIN orders' = DOMAIN orders
           /\ orders'[i] = a /\ \A j \in DOMAIN orders : Keeps(orders[j], orders'[j])
<1>1. orders \in Seq(Order) /\ a \in Order /\ Sound(a)
  BY DEF AllSound, Keeps
<1>2. /\ orders' \in Seq(Order) /\ Len(orders') = Len(orders) /\ DOMAIN orders' = DOMAIN orders
      /\ orders'[i] = a /\ \A j \in DOMAIN orders : j # i => orders'[j] = orders[j]
  BY <1>1
<1>3. ASSUME NEW j \in DOMAIN orders PROVE Keeps(orders[j], orders'[j])
  <2>1. orders[j] \in Order /\ Sound(orders[j])
    BY OrdersIndexed
  <2>2. Keeps(orders[j], orders[j])
    BY <2>1, KeepsSelf DEF KeepsTerms
  <2> QED
    BY <1>2, <2>2
<1>4. \A j \in DOMAIN orders' : Sound(orders'[j])
  BY <1>2, <1>3 DEF Keeps
<1> QED
  BY <1>2, <1>3, <1>4 DEF AllSound

LEMMA NothingExecuted ==
    ASSUME execution' = NoExecution, AllSound(orders')
    PROVE  execution'.order \in 0 .. Len(orders') /\ FillsAtLimit'
<1>1. execution'.order = 0 /\ execution'.fills = {}
  BY DEF NoExecution
<1>2. Len(orders') \in Nat
  BY DEF AllSound
<1> QED
  BY <1>1, <1>2 DEF FillsAtLimit

\* The quantity an order is admitted or replaced with.
LEMMA AcceptedNat ==
    ASSUME AllSound(orders), position \in Int, NEW reduce, NEW side, NEW wanted \in Int, NEW excluding,
           NEW accepted, accepted > 0,
           accepted = IF reduce THEN ReduceOnlyQuantity(orders, side, wanted, position, excluding)
                                ELSE wanted
    PROVE  /\ accepted \in Nat
           /\ reduce => Reserved(orders, side, excluding) + accepted <= Reducible(side, position)
<1>1. CASE reduce
  BY <1>1, ReduceOnlyFits
<1>2. CASE ~reduce
  BY <1>2
<1> QED
  BY <1>1, <1>2

LEMMA SubmitSteps ==
    ASSUME TypeOK, AllSound(orders), NEW r \in Request, NEW quote, Submit(r, quote)
    PROVE  Stepped
<1>1. PICK accepted :
        /\ accepted = IF r.reduce_only
                      THEN ReduceOnlyQuantity(orders, r.side, r.quantity, position, {})
                      ELSE r.quantity
        /\ accepted > 0
        /\ orders' = Append(orders, Admitted(r, accepted, Frontier))
  BY DEF Submit
<1>2. /\ ValidRequest(r) /\ execution' = NoExecution /\ position' = position
  BY DEF Submit
<1>3. accepted \in Nat
  <2>1. r.quantity \in Int /\ position \in Int
    BY SessionAssumption DEF TypeOK
  <2> QED
    BY <1>1, <2>1, AcceptedNat
<1>4. Frontier \in Nat
  BY DEF Frontier, TypeOK
<1>5. PICK a : a = Admitted(r, accepted, Frontier)
  OBVIOUS
<1>6. a \in Order /\ Sound(a)
  BY <1>1, <1>2, <1>3, <1>4, <1>5, AdmittedSound
<1>7. orders \in Seq(Order) /\ Len(orders) \in Nat
  BY DEF AllSound
<1>8. /\ orders' \in Seq(Order) /\ Len(orders') = Len(orders) + 1
      /\ \A j \in 1 .. Len(orders) : orders'[j] = orders[j]
      /\ orders'[Len(orders) + 1] = a
  BY <1>1, <1>5, <1>6, <1>7
<1>9. ASSUME NEW j \in DOMAIN orders PROVE Keeps(orders[j], orders'[j])
  BY <1>7, <1>8, OrdersIndexed, KeepsSelf DEF KeepsTerms
<1>10. AllSound(orders')
  <2>1. ASSUME NEW j \in DOMAIN orders' PROVE Sound(orders'[j])
    <3>1. j \in 1 .. Len(orders) + 1
      BY <1>8
    <3>2. CASE j = Len(orders) + 1
      BY <1>6, <1>8, <3>2
    <3>3. CASE j # Len(orders) + 1
      <4>1. j \in DOMAIN orders
        BY <1>7, <3>1, <3>3
      <4> QED
        BY <1>9, <4>1 DEF Keeps
    <3> QED
      BY <3>2, <3>3
  <2> QED
    BY <1>8, <2>1 DEF AllSound
<1>11. Len(orders') >= Len(orders)
  BY <1>7, <1>8
<1>12. position' \in Int
  BY <1>2 DEF TypeOK
<1> QED
  BY <1>2, <1>9, <1>10, <1>11, <1>12, NothingExecuted DEF Stepped

LEMMA CancelSteps ==
    ASSUME TypeOK, AllSound(orders), NEW i \in DOMAIN orders, Cancel(i)
    PROVE  Stepped
<1>1. /\ ~IsTerminal(orders[i]) /\ orders' = [orders EXCEPT ![i] = Cancelled(orders[i])]
      /\ execution' = NoExecution /\ position' = position
  BY DEF Cancel
<1>2. Keeps(orders[i], Cancelled(orders[i]))
  BY <1>1, OrdersIndexed, CancelledKeeps DEF KeepsTerms
<1>3. /\ AllSound(orders') /\ Len(orders') = Len(orders)
      /\ \A j \in DOMAIN orders : Keeps(orders[j], orders'[j])
  BY <1>1, <1>2, OneChanged
<1>4. Len(orders') >= Len(orders) /\ position' \in Int
  BY <1>1, <1>3 DEF TypeOK, AllSound
<1> QED
  BY <1>1, <1>3, <1>4, NothingExecuted DEF Stepped

\* What an accepted replacement is.
LEMMA ReplaceFacts ==
    ASSUME TypeOK, AllSound(orders), NEW i \in DOMAIN orders, NEW change \in Replacement,
           NEW quote, Replace(i, change, quote)
    PROVE  \E n \in Nat :
               /\ n > 0 /\ orders' = [orders EXCEPT ![i] = Replaced(orders[i], n, change.kind)]
               /\ Keeps(orders[i], Replaced(orders[i], n, change.kind))
               /\ orders[i].reduce_only =>
                      Reserved(orders, orders[i].side, {i}) + n <= Reducible(orders[i].side, position)
<1>1. PICK o, desired, n :
        /\ o = orders[i] /\ desired = change.quantity - o.filled
        /\ n = IF o.reduce_only THEN ReduceOnlyQuantity(orders, o.side, desired, position, {i})
                                ELSE desired
        /\ ~IsTerminal(o) /\ n > 0
        /\ LiquidityAllows(o.side, change.kind, o.post_only, o.marketable_only, quote)
        /\ orders' = [orders EXCEPT ![i] = Replaced(o, n, change.kind)]
  BY Zenon DEF Replace
<1>2. o \in Order /\ Sound(o)
  BY <1>1, OrdersIndexed
<1>3. change.quantity \in Nat /\ change.kind \in OrderKind /\ desired \in Int /\ position \in Int
  <2>1. change.quantity \in Nat /\ change.kind \in OrderKind
    BY SessionAssumption
  <2> QED
    BY <1>1, <1>2, <2>1, OrderFields DEF TypeOK
<1>4. /\ n \in Nat
      /\ o.reduce_only => Reserved(orders, o.side, {i}) + n <= Reducible(o.side, position)
  BY <1>1, <1>3, AcceptedNat
<1>5. Keeps(o, Replaced(o, n, change.kind))
  BY <1>1, <1>2, <1>3, <1>4, ReplacedKeeps
<1> QED
  BY <1>1, <1>4, <1>5

LEMMA ReplaceSteps ==
    ASSUME TypeOK, AllSound(orders), NEW i \in DOMAIN orders, NEW change \in Replacement,
           NEW quote, Replace(i, change, quote)
    PROVE  Stepped
<1>1. PICK n \in Nat : /\ orders' = [orders EXCEPT ![i] = Replaced(orders[i], n, change.kind)]
                       /\ Keeps(orders[i], Replaced(orders[i], n, change.kind))
  BY ReplaceFacts
<1>2. execution' = NoExecution /\ position' = position
  BY DEF Replace
<1>3. /\ AllSound(orders') /\ Len(orders') = Len(orders)
      /\ \A j \in DOMAIN orders : Keeps(orders[j], orders'[j])
  BY <1>1, OneChanged
<1>4. Len(orders') >= Len(orders) /\ position' \in Int
  BY <1>2, <1>3 DEF TypeOK, AllSound
<1> QED
  BY <1>2, <1>3, <1>4, NothingExecuted DEF Stepped

LEMMA ExecutedSteps ==
    ASSUME TypeOK, AllSound(orders), NEW i \in DOMAIN orders, Executed(i)
    PROVE  Stepped
<1>1. PICK after, fills : Executes(i, after, fills)
  BY DEF Executed
<1>2. /\ KeepsTerms(orders[i], after)
      /\ QuantityOf(fills) = after.filled - orders[i].filled
      /\ \A f \in fills : WithinLimit(orders[i], f)
      /\ orders' = [orders EXCEPT ![i] = after]
      /\ position' = IF after.side = "BUY" THEN position + QuantityOf(fills)
                                           ELSE position - QuantityOf(fills)
      /\ execution' = [order |-> i, fills |-> fills]
  BY <1>1 DEF Executes, Reconcile
<1>3. /\ AllSound(orders') /\ Len(orders') = Len(orders) /\ orders'[i] = after
      /\ \A j \in DOMAIN orders : Keeps(orders[j], orders'[j])
  BY <1>2, OneChanged DEF KeepsTerms
<1>4. Len(orders) \in Nat /\ Len(orders') >= Len(orders) /\ i \in 0 .. Len(orders')
  BY <1>3 DEF AllSound
<1>5. position' \in Int
  <2>1. orders[i] \in Order /\ after \in Order
    BY <1>2, OrdersIndexed DEF KeepsTerms, Keeps
  <2>2. QuantityOf(fills) \in Int
    BY <1>2, <2>1, OrderFields
  <2> QED
    BY <1>2, <2>2 DEF TypeOK
<1>6. execution'.order = i /\ execution'.fills = fills
  BY <1>2
<1>7. FillsAtLimit'
  <2>1. after.side = orders[i].side /\ after.kind.limit = orders[i].kind.limit
    BY <1>2 DEF KeepsTerms, Keeps
  <2> QED
    BY <1>2, <1>3, <1>6, <2>1 DEF FillsAtLimit, WithinLimit
<1> QED
  BY <1>3, <1>4, <1>5, <1>6, <1>7 DEF Stepped

LEMMA UnchangedSteps ==
    ASSUME TypeOK, AllSound(orders), orders' = orders, position' = position, execution' = NoExecution
    PROVE  Stepped
<1>1. \A j \in DOMAIN orders : Keeps(orders[j], orders[j])
  BY OrdersIndexed, KeepsSelf DEF KeepsTerms
<1>2. Len(orders') >= Len(orders) /\ AllSound(orders') /\ position' \in Int
  BY DEF AllSound, TypeOK
<1> QED
  BY <1>1, <1>2, NothingExecuted DEF Stepped

-----------------------------------------------------------------------------
(***************************************************************************)
(* Depth is typed                                                          *)
(***************************************************************************)

LEMMA LeastNat ==
    ASSUME NEW T \in SUBSET Nat, T # {}
    PROVE  \E x \in T : \A y \in T : x <= y
<1>1. PICK x \in T : \A y \in T : ~(<<y, x>> \in OpToRel(<, Nat))
  BY NatLessThanWellFounded, WFMin
<1>2. OpToRel(<, Nat) = {ss \in Nat \X Nat : ss[1] < ss[2]}
  BY Zenon DEF OpToRel
<1>3. ASSUME NEW y \in T PROVE ~(y < x)
  <2>1. <<y, x>> \notin {ss \in Nat \X Nat : ss[1] < ss[2]}
    BY <1>1, <1>2
  <2>2. <<y, x>> \in Nat \X Nat /\ <<y, x>>[1] = y /\ <<y, x>>[2] = x
    OBVIOUS
  <2> QED
    BY <2>1, <2>2, SMT
<1> QED
  BY <1>3

LEMMA LastOf ==
    ASSUME NEW n \in Nat, NEW S \in SUBSET (1 .. n), S # {}
    PROVE  Max(S) \in S /\ \A k \in S : k <= Max(S)
<1>1. PICK T : T = {n - k : k \in S}
  OBVIOUS
<1>2. T \in SUBSET Nat /\ T # {}
  <2>1. ASSUME NEW k \in S PROVE n - k \in Nat
    <3>1. k \in 1 .. n
      OBVIOUS
    <3> QED
      BY <3>1
  <2> QED
    BY <1>1, <2>1
<1>3. PICK t \in T : \A s \in T : t <= s
  BY <1>2, LeastNat
<1>4. PICK m \in S : t = n - m
  BY <1>1, <1>3
<1>5. ASSUME NEW k \in S PROVE m >= k
  <2>1. n - k \in T /\ k \in Int /\ m \in Int
    BY <1>1
  <2>2. n - m <= n - k
    BY <1>3, <1>4, <2>1
  <2> QED
    BY <2>1, <2>2
<1>6. Max(S) \in S /\ \A k \in S : Max(S) >= k
  BY <1>5 DEF Max
<1> QED
  BY <1>6

\* The updates of one price among the first n.
Updates(n, side, p) == {k \in 1 .. n : Feed[k].side = side /\ Feed[k].price = p}

FirstLevels(side) == IF side = "BID" THEN FirstDepth.bids ELSE FirstDepth.asks

LEMMA FeedFacts ==
    /\ FirstDepth.bids \in Levels /\ FirstDepth.asks \in Levels /\ Len(Feed) \in Nat
    /\ \A k \in 1 .. Len(Feed) : /\ Feed[k].side \in {"BID", "ASK"} /\ Feed[k].price \in Nat
                                 /\ Feed[k].quantity \in Nat
<1>1. /\ FirstDepth \in [bids: Levels, asks: Levels]
      /\ Feed \in Seq([side: {"BID", "ASK"}, price: Nat, quantity: Nat])
  BY MarketAssumption
<1>2. ASSUME NEW k \in 1 .. Len(Feed)
      PROVE  Feed[k] \in [side: {"BID", "ASK"}, price: Nat, quantity: Nat]
  BY <1>1, ElementOfSeq
<1> QED
  BY <1>1, <1>2

LEMMA VenueIs ==
    ASSUME NEW n, NEW side, NEW p \in Price
    PROVE  VenueLevels(n, side)[p] = IF Updates(n, side, p) # {}
                                     THEN Feed[Max(Updates(n, side, p))].quantity
                                     ELSE FirstLevels(side)[p]
  BY DEF VenueLevels, Updates, FirstLevels

LEMMA VenueTyped ==
    ASSUME NEW n \in 0 .. Len(Feed), NEW side
    PROVE  VenueLevels(n, side) \in Levels
<1>1. ASSUME NEW p \in Price PROVE VenueLevels(n, side)[p] \in Nat
  <2>1. CASE Updates(n, side, p) = {}
    <3>1. FirstLevels(side) \in Levels
      BY FeedFacts DEF FirstLevels
    <3> QED
      BY <2>1, <3>1, VenueIs DEF Levels
  <2>2. CASE Updates(n, side, p) # {}
    <3>1. n \in Nat /\ Updates(n, side, p) \in SUBSET (1 .. n)
      BY FeedFacts DEF Updates
    <3>2. Max(Updates(n, side, p)) \in Updates(n, side, p)
      BY <2>2, <3>1, LastOf
    <3>3. Max(Updates(n, side, p)) \in 1 .. Len(Feed)
      BY <3>1, <3>2, FeedFacts
    <3> QED
      BY <2>2, <3>3, VenueIs, FeedFacts
  <2> QED
    BY <2>1, <2>2
<1>2. VenueLevels(n, side) = [p \in Price |-> VenueLevels(n, side)[p]]
  BY Zenon DEF VenueLevels
<1> QED
  BY <1>1, <1>2 DEF Levels

LEMMA UpdatedTyped ==
    ASSUME NEW levels \in Levels, NEW p \in Price, NEW q \in Nat
    PROVE  Updated(levels, p, q) \in Levels
  BY DEF Updated, Levels

\* apply_delta: refused, or lost, or one level set.
LEMMA DeltaFacts ==
    ASSUME NEW b \in L2Book, NEW d, d.side \in {"BID", "ASK"}, d.quantity \in Nat, d.sequence \in Nat
    PROVE  LET c == ApplyDelta(b, d) IN
           /\ c \in L2Book
           /\ c.enabled => /\ b.enabled /\ Continues(b, d) /\ c.sequence = d.sequence
                           /\ Uncrossed(c.bids, c.asks)
                           /\ c.bids = IF d.side = "BID" THEN Updated(b.bids, d.price, d.quantity)
                                                         ELSE b.bids
                           /\ c.asks = IF d.side = "ASK" THEN Updated(b.asks, d.price, d.quantity)
                                                         ELSE b.asks
           /\ ~c.enabled => c.sequence = b.sequence
<1>1. PICK c, bids, asks :
        /\ c = ApplyDelta(b, d)
        /\ bids = IF d.side = "BID" THEN Updated(b.bids, d.price, d.quantity) ELSE b.bids
        /\ asks = IF d.side = "ASK" THEN Updated(b.asks, d.price, d.quantity) ELSE b.asks
  OBVIOUS
<1>2. \/ ~b.enabled /\ c = b
      \/ c = [b EXCEPT !.enabled = FALSE]
      \/ /\ b.enabled /\ Continues(b, d) /\ Uncrossed(bids, asks)
         /\ c = [b EXCEPT !.bids = bids, !.asks = asks, !.sequence = d.sequence]
  BY <1>1, Zenon DEF ApplyDelta
<1>3. CASE ~b.enabled /\ c = b
  BY <1>1, <1>3
<1>4. CASE c = [b EXCEPT !.enabled = FALSE]
  <2>1. c \in L2Book /\ ~c.enabled /\ c.sequence = b.sequence
    BY <1>4 DEF L2Book
  <2> QED
    BY <1>1, <2>1
<1>5. CASE /\ b.enabled /\ Continues(b, d) /\ Uncrossed(bids, asks)
           /\ c = [b EXCEPT !.bids = bids, !.asks = asks, !.sequence = d.sequence]
  <2>1. bids \in Levels /\ asks \in Levels
    BY <1>1, <1>5, UpdatedTyped DEF Continues, L2Book
  <2>2. /\ c \in L2Book /\ c.enabled = b.enabled /\ c.sequence = d.sequence
        /\ c.bids = bids /\ c.asks = asks
    BY <1>5, <2>1 DEF L2Book
  <2> QED
    BY <1>1, <1>5, <2>2
<1> QED
  BY <1>2, <1>3, <1>4, <1>5

-----------------------------------------------------------------------------
(***************************************************************************)
(* The invariant of the orders                                             *)
(***************************************************************************)

OrdersInv == TypeOK /\ AllSound(orders) /\ FillsAtLimit

\* The variables Stepped says nothing about.
Market ==
    /\ tier' = tier /\ book' \in L2Book
    /\ market_event_seq' \in Nat \cup {NoSequence}
    /\ market_event_seq # NoSequence =>
           market_event_seq' # NoSequence /\ market_event_seq' >= market_event_seq

LEMMA ObserveFacts ==
    ASSUME TypeOK, NEW seq \in Nat, Observe(seq)
    PROVE  /\ market_event_seq' \in Nat \cup {NoSequence}
           /\ market_event_seq # NoSequence =>
                  market_event_seq' # NoSequence /\ market_event_seq' >= market_event_seq
  BY SequenceAssumption DEF Observe, TypeOK

LEMMA MarketKept ==
    ASSUME TypeOK, UNCHANGED << tier, book, market_event_seq >>
    PROVE  Market
  BY DEF Market, TypeOK

LEMMA NextSteps ==
    ASSUME OrdersInv, Next
    PROVE  Stepped /\ Market
<1> USE DEF OrdersInv
<1>1. CASE Enter
  <2>1. ASSUME NEW quote, NEW r \in Request, Submit(r, quote) PROVE Stepped /\ Market
    BY <2>1, SubmitSteps, MarketKept DEF Submit
  <2>2. ASSUME NEW quote, NEW i \in DOMAIN orders, NEW change \in Replacement,
               Replace(i, change, quote)
        PROVE  Stepped /\ Market
    <3>1. UNCHANGED << tier, book, market_event_seq >>
      BY <2>2, Zenon DEF Replace
    <3> QED
      BY <2>2, <3>1, ReplaceSteps, MarketKept
  <2> QED
    BY <1>1, <2>1, <2>2 DEF Enter
<1>2. CASE Withdraw
  <2>1. ASSUME NEW i \in DOMAIN orders, Cancel(i) PROVE Stepped /\ Market
    BY <2>1, CancelSteps, MarketKept DEF Cancel
  <2> QED
    BY <1>2, <2>1 DEF Withdraw
<1>3. CASE ShowMarket
  <2> SUFFICES ASSUME NEW i \in DOMAIN orders, NEW seq \in Frontier .. MaxSequence,
                      \/ \E bar \in Bar, favorable \in BOOLEAN, slippage \in Slippage :
                             ExecuteF0(i, bar, seq, favorable, slippage)
                      \/ \E quote \in Quote, cap \in Cap : ExecuteF1Quote(i, quote, seq, cap)
                      \/ \E trade \in Trade, eligible_after \in 0 .. Frontier, ahead \in 0 .. 1, cap \in Cap :
                             ExecuteF1Trade(i, trade, seq, eligible_after, ahead, cap)
               PROVE  Stepped /\ Market
    BY <1>3 DEF ShowMarket
  <2>1. seq \in Nat
    <3>1. Frontier \in Nat
      BY DEF Frontier, TypeOK
    <3> QED
      BY <3>1, SessionAssumption
  <2>2. ASSUME NEW bar \in Bar, NEW favorable \in BOOLEAN, NEW slippage \in Slippage,
               ExecuteF0(i, bar, seq, favorable, slippage)
        PROVE  Executed(i) /\ Observe(seq) /\ UNCHANGED << tier, book >>
    <3>1. Observe(seq) /\ UNCHANGED << tier, book >>
      BY <2>2, Zenon DEF ExecuteF0
    <3> QED
      BY <2>2, <3>1, F0Executes
  <2>3. ASSUME NEW quote \in Quote, NEW cap \in Cap, ExecuteF1Quote(i, quote, seq, cap)
        PROVE  Executed(i) /\ Observe(seq) /\ UNCHANGED << tier, book >>
    <3>1. Observe(seq) /\ UNCHANGED << tier, book >>
      BY <2>3, Zenon DEF ExecuteF1Quote
    <3> QED
      BY <2>3, <3>1, F1QuoteExecutes
  <2>4. ASSUME NEW trade \in Trade, NEW eligible_after, NEW ahead \in 0 .. 1, NEW cap \in Cap,
               ExecuteF1Trade(i, trade, seq, eligible_after, ahead, cap)
        PROVE  Executed(i) /\ Observe(seq) /\ UNCHANGED << tier, book >>
    <3>1. Observe(seq) /\ UNCHANGED << tier, book >>
      BY <2>4, Zenon DEF ExecuteF1Trade
    <3> QED
      BY <2>4, <3>1, F1TradeExecutes
  <2>5. Executed(i) /\ Observe(seq) /\ UNCHANGED << tier, book >>
    BY <2>2, <2>3, <2>4
  <2> QED
    BY <2>1, <2>5, ExecutedSteps, ObserveFacts DEF Market, TypeOK
<1>4. CASE ShowDepth
  <2>1. ASSUME NEW n \in 0 .. Len(Feed), F2Snapshot(n) PROVE Stepped /\ Market
    <3>1. PICK s : /\ s = [sequence |-> n, bids |-> VenueLevels(n, "BID"), asks |-> VenueLevels(n, "ASK")]
                   /\ book' = ApplySnapshot(s)
      BY <2>1, Zenon DEF F2Snapshot
    <3>2. /\ Observe(n) /\ execution' = NoExecution /\ UNCHANGED << tier, orders, position >>
      BY <2>1, Zenon DEF F2Snapshot
    <3>3. book' \in L2Book
      <4>1. s.bids \in Levels /\ s.asks \in Levels /\ s.sequence \in Nat
        BY <3>1, VenueTyped, FeedFacts
      <4> QED
        BY <3>1, <4>1 DEF ApplySnapshot, L2Book
    <3>4. n \in Nat
      BY FeedFacts
    <3> QED
      BY <3>2, <3>3, <3>4, UnchangedSteps, ObserveFacts DEF Market
  <2>2. ASSUME NEW n \in 1 .. Len(Feed), F2Delta(n) PROVE Stepped /\ Market
    <3>1. PICK d : /\ d = [previous_sequence |-> n - 1, sequence |-> n, side |-> Feed[n].side,
                           price |-> Feed[n].price, quantity |-> Feed[n].quantity]
                   /\ book' = ApplyDelta(book, d)
      BY <2>2, Zenon DEF F2Delta
    <3>2. /\ Observe(n) /\ execution' = NoExecution /\ UNCHANGED << tier, orders, position >>
      BY <2>2, Zenon DEF F2Delta
    <3>3. book' \in L2Book
      <4>1. d.side \in {"BID", "ASK"} /\ d.quantity \in Nat /\ d.sequence \in Nat
        BY <3>1, FeedFacts
      <4> QED
        BY <3>1, <4>1, DeltaFacts DEF TypeOK
    <3>4. n \in Nat
      BY FeedFacts
    <3> QED
      BY <3>2, <3>3, <3>4, UnchangedSteps, ObserveFacts DEF Market
  <2>3. ASSUME NEW i \in DOMAIN orders, NEW max_levels \in 1 .. 2, NEW cap \in Cap,
               ExecuteF2(i, max_levels, cap)
        PROVE  Stepped /\ Market
    <3>1. tier' = tier /\ market_event_seq' = market_event_seq
      BY <2>3, Zenon DEF ExecuteF2
    <3>2. Executed(i) /\ book' \in L2Book
      BY <2>3, F2Executes DEF TypeOK
    <3> QED
      BY <3>1, <3>2, ExecutedSteps DEF Market, TypeOK
  <2> QED
    BY <1>4, <2>1, <2>2, <2>3 DEF ShowDepth
<1> QED
  BY <1>1, <1>2, <1>3, <1>4 DEF Next

LEMMA OrdersInvInit == ASSUME Init PROVE OrdersInv
<1>1. AllSound(orders)
  BY DEF Init, AllSound
<1>2. TypeOK
  BY SessionAssumption DEF Init, TypeOK, NewBook, NoLevels, L2Book, Levels, NoExecution
<1>3. FillsAtLimit
  BY DEF Init, FillsAtLimit, NoExecution
<1> QED
  BY <1>1, <1>2, <1>3 DEF OrdersInv

LEMMA OrdersInvNext == ASSUME OrdersInv, [Next]_vars PROVE OrdersInv'
<1>1. CASE Next
  <2>1. Stepped /\ Market
    BY <1>1, NextSteps
  <2>2. TypeOK'
    BY <2>1 DEF Stepped, Market, TypeOK, OrdersInv, AllSound
  <2> QED
    BY <2>1, <2>2 DEF Stepped, OrdersInv
<1>2. CASE UNCHANGED vars
  BY <1>2 DEF vars, OrdersInv, TypeOK, AllSound, FillsAtLimit
<1> QED
  BY <1>1, <1>2

\* The inductive invariant of the orders: types, every order sound, and the last
\* fills at their limit.
THEOREM OrdersInvariance == Spec => []OrdersInv
<1>1. Init => OrdersInv
  BY OrdersInvInit
<1>2. OrdersInv /\ [Next]_vars => OrdersInv'
  BY OrdersInvNext
<1> QED
  BY <1>1, <1>2, PTL DEF Spec

\* In every tier, after any fills, triggers and replacements (OrderState), every
\* order is sound and every limit order fills at its limit or better.
THEOREM OrdersAlwaysSound == Spec => []OrdersSound
<1>1. OrdersInv => OrdersSound
  <2> SUFFICES ASSUME OrdersInv PROVE OrdersSound
    OBVIOUS
  <2>1. \A i \in DOMAIN orders : Sound(orders[i])
    BY DEF OrdersInv, AllSound
  <2>2. LifecycleSound /\ ImmediatesAtomic /\ PostOnlyKeepsLimit
    BY <2>1 DEF LifecycleSound, ImmediatesAtomic, PostOnlyKeepsLimit, Sound
  <2> QED
    BY <2>2 DEF OrdersSound, OrdersInv
<1> QED
  BY <1>1, OrdersInvariance, PTL

\* No step takes back a fill, changes a side or the admission of an order, touches
\* an order that is over, reuses an id or goes back in the market.
THEOREM OrdersNeverBack == Spec => OrdersMonotone
<1> DEFINE Forward ==
        /\ Len(orders') >= Len(orders)
        /\ \A i \in DOMAIN orders :
               /\ orders'[i].filled >= orders[i].filled
               /\ orders'[i].side = orders[i].side
               /\ orders'[i].submitted = orders[i].submitted
               /\ IsTerminal(orders[i]) => orders'[i] = orders[i]
        /\ market_event_seq # NoSequence => market_event_seq' >= market_event_seq
<1>1. ASSUME OrdersInv, Next PROVE Forward
  BY <1>1, NextSteps DEF Stepped, Market, Keeps
<1>2. OrdersInv /\ [Next]_vars => [Forward]_vars
  BY <1>1
<1> QED
  BY <1>2, OrdersInvariance, PTL DEF Spec, OrdersMonotone

-----------------------------------------------------------------------------
(***************************************************************************)
(* Position and orders account for each other                              *)
(***************************************************************************)

SameBut(f, g, x) == \A y \in DOMAIN f : y # x => f[y] = g[y]

LEMMA SumChange ==
    ASSUME NEW S, IsFiniteSet(S), NEW f \in [S -> Nat], NEW g \in [S -> Nat], NEW x \in S,
           SameBut(f, g, x)
    PROVE  /\ Total(f) \in Nat /\ Total(g) \in Nat /\ f[x] \in Nat /\ g[x] \in Nat
           /\ f[x] <= Total(f) /\ Total(g) = (Total(f) - f[x]) + g[x]
<1>1. Without(f, x) = Without(g, x)
  BY DEF SameBut, Without
<1> QED
  BY <1>1, TotalChange

Continued(f, g) == \A y \in DOMAIN f : f[y] = g[y]

LEMMA SumGrow ==
    ASSUME NEW S, IsFiniteSet(S), NEW x, x \notin S, NEW f \in [S -> Nat],
           NEW T, T = S \cup {x}, NEW g \in [T -> Nat], Continued(f, g)
    PROVE  Total(f) \in Nat /\ Total(g) = Total(f) + g[x]
<1>1. IsFiniteSet(T) /\ x \in T
  BY FS_AddElement
<1>2. Without(g, x) = f
  BY DEF Without, Continued
<1>3. Total(g) = g[x] + Total(f)
  BY <1>1, <1>2, TotalSplit
<1>4. Total(f) \in Nat /\ g[x] \in Nat
  BY TotalNat
<1> QED
  BY <1>3, <1>4

FilledOf(o, side) == IF o.side = side THEN o.filled ELSE 0
FillsOf(os, side) == [i \in DOMAIN os |-> FilledOf(os[i], side)]

LEMMA FillsTyped ==
    ASSUME NEW os, AllSound(os), NEW side
    PROVE  FillsOf(os, side) \in [DOMAIN os -> Nat]
  BY OrdersIndexed, OrderFields DEF FillsOf, FilledOf

LEMMA FilledByIs ==
    ASSUME NEW side
    PROVE  FilledBy(side) = Total(FillsOf(orders, side))
  BY DEF FilledBy, FillsOf, FilledOf

LEMMA ReservedIs ==
    ASSUME NEW os, AllSound(os), NEW side
    PROVE  /\ ClaimsOf(os, side, {}) \in [DOMAIN os -> Nat]
           /\ Reserved(os, side, {}) = Total(ClaimsOf(os, side, {}))
<1>1. DOMAIN os \ {} = DOMAIN os
  OBVIOUS
<1> QED
  BY <1>1, ClaimsTyped

\* The sums when one order changes.
LEMMA SumsChange ==
    ASSUME AllSound(orders), NEW i \in DOMAIN orders, NEW a, Keeps(orders[i], a),
           orders' = [orders EXCEPT ![i] = a], NEW side
    PROVE  /\ Reserved(orders, side, {}) \in Nat /\ Reserved(orders', side, {}) \in Nat
           /\ Claim(orders[i], side) \in Nat /\ Claim(a, side) \in Nat
           /\ Claim(orders[i], side) <= Reserved(orders, side, {})
           /\ Reserved(orders', side, {})
                = (Reserved(orders, side, {}) - Claim(orders[i], side)) + Claim(a, side)
           /\ Total(FillsOf(orders, side)) \in Nat
           /\ Total(FillsOf(orders', side))
                = (Total(FillsOf(orders, side)) - FilledOf(orders[i], side)) + FilledOf(a, side)
<1>1. /\ AllSound(orders') /\ DOMAIN orders' = DOMAIN orders /\ orders'[i] = a
      /\ \A j \in DOMAIN orders : j # i => orders'[j] = orders[j]
  BY OneChanged DEF AllSound
<1>2. IsFiniteSet(DOMAIN orders)
  BY OrdersIndexed
<1>3. PICK c, d : c = ClaimsOf(orders, side, {}) /\ d = ClaimsOf(orders', side, {})
  OBVIOUS
<1>4. /\ c \in [DOMAIN orders -> Nat] /\ d \in [DOMAIN orders -> Nat]
      /\ Reserved(orders, side, {}) = Total(c) /\ Reserved(orders', side, {}) = Total(d)
  BY <1>1, <1>3, ReservedIs
<1>5. SameBut(c, d, i) /\ c[i] = Claim(orders[i], side) /\ d[i] = Claim(a, side)
  BY <1>1, <1>3 DEF SameBut, ClaimsOf
<1>6. PICK f, g : f = FillsOf(orders, side) /\ g = FillsOf(orders', side)
  OBVIOUS
<1>7. f \in [DOMAIN orders -> Nat] /\ g \in [DOMAIN orders -> Nat]
  BY <1>1, <1>6, FillsTyped
<1>8. SameBut(f, g, i) /\ f[i] = FilledOf(orders[i], side) /\ g[i] = FilledOf(a, side)
  BY <1>1, <1>6 DEF SameBut, FillsOf
<1>9. /\ Total(c) \in Nat /\ Total(d) \in Nat /\ c[i] \in Nat /\ d[i] \in Nat
      /\ c[i] <= Total(c) /\ Total(d) = (Total(c) - c[i]) + d[i]
  BY <1>2, <1>4, <1>5, SumChange
<1>10. Total(f) \in Nat /\ Total(g) = (Total(f) - f[i]) + g[i]
  BY <1>2, <1>7, <1>8, SumChange
<1> QED
  BY <1>4, <1>5, <1>6, <1>8, <1>9, <1>10

\* The others' claims, and all claims once one order is replaced.
LEMMA OthersClaims ==
    ASSUME AllSound(orders), NEW i \in DOMAIN orders, NEW a, Keeps(orders[i], a),
           orders' = [orders EXCEPT ![i] = a], NEW side
    PROVE  /\ Reserved(orders, side, {i}) \in Nat
           /\ Reserved(orders', side, {}) = Claim(a, side) + Reserved(orders, side, {i})
<1>1. /\ AllSound(orders') /\ DOMAIN orders' = DOMAIN orders /\ orders'[i] = a
      /\ \A j \in DOMAIN orders : j # i => orders'[j] = orders[j]
  BY OneChanged DEF AllSound
<1>2. IsFiniteSet(DOMAIN orders)
  BY OrdersIndexed
<1>3. PICK d : d = ClaimsOf(orders', side, {})
  OBVIOUS
<1>4. d \in [DOMAIN orders -> Nat] /\ Reserved(orders', side, {}) = Total(d) /\ d[i] = Claim(a, side)
  <2>1. d \in [DOMAIN orders' -> Nat] /\ Reserved(orders', side, {}) = Total(d)
    BY <1>1, <1>3, ReservedIs
  <2>2. d[i] = Claim(a, side)
    BY <1>1, <1>3 DEF ClaimsOf
  <2> QED
    BY <1>1, <2>1, <2>2
<1>5. Without(d, i) = ClaimsOf(orders, side, {i})
  BY <1>1, <1>3, <1>4 DEF Without, ClaimsOf
<1>6. Total(d) = d[i] + Total(ClaimsOf(orders, side, {i}))
  BY <1>2, <1>4, <1>5, TotalSplit
<1>7. /\ Reserved(orders, side, {i}) = Total(ClaimsOf(orders, side, {i}))
      /\ Reserved(orders, side, {i}) \in Nat
  BY ClaimsTyped
<1> QED
  BY <1>4, <1>6, <1>7

\* The sums when an order is admitted.
LEMMA SumsGrow ==
    ASSUME AllSound(orders), NEW a \in Order, Sound(a), orders' = Append(orders, a), NEW side
    PROVE  /\ Reserved(orders, side, {}) \in Nat /\ Claim(a, side) \in Nat
           /\ Reserved(orders', side, {}) = Reserved(orders, side, {}) + Claim(a, side)
           /\ Total(FillsOf(orders, side)) \in Nat
           /\ Total(FillsOf(orders', side)) = Total(FillsOf(orders, side)) + FilledOf(a, side)
<1>1. PICK S, x : S = DOMAIN orders /\ x = Len(orders) + 1
  OBVIOUS
<1>2. orders \in Seq(Order) /\ Len(orders) \in Nat /\ S = 1 .. Len(orders) /\ IsFiniteSet(S)
  BY <1>1, OrdersIndexed DEF AllSound
<1>3. /\ orders' \in Seq(Order) /\ Len(orders') = x /\ orders'[x] = a
      /\ \A j \in S : orders'[j] = orders[j]
  BY <1>1, <1>2
<1>4. PICK T : T = DOMAIN orders'
  OBVIOUS
<1>0. T = S \cup {x} /\ x \notin S
  BY <1>1, <1>2, <1>3, <1>4
<1>5. AllSound(orders') /\ IsFiniteSet(S)
  <2>1. \A j \in S : Sound(orders[j])
    BY <1>1 DEF AllSound
  <2> QED
    BY <1>0, <1>2, <1>3, <1>4, <2>1 DEF AllSound
<1>6. PICK c, d : c = ClaimsOf(orders, side, {}) /\ d = ClaimsOf(orders', side, {})
  OBVIOUS
<1>7. /\ c \in [S -> Nat] /\ d \in [T -> Nat]
      /\ Reserved(orders, side, {}) = Total(c) /\ Reserved(orders', side, {}) = Total(d)
  BY <1>1, <1>4, <1>5, <1>6, ReservedIs
<1>8. Continued(c, d) /\ d[x] = Claim(a, side)
  BY <1>0, <1>1, <1>3, <1>4, <1>6 DEF Continued, ClaimsOf
<1>9. PICK f, g : f = FillsOf(orders, side) /\ g = FillsOf(orders', side)
  OBVIOUS
<1>10. f \in [S -> Nat] /\ g \in [T -> Nat]
  BY <1>1, <1>4, <1>5, <1>9, FillsTyped
<1>11. Continued(f, g) /\ g[x] = FilledOf(a, side)
  BY <1>0, <1>1, <1>3, <1>4, <1>9 DEF Continued, FillsOf
<1>12. Total(c) \in Nat /\ Total(d) = Total(c) + d[x]
  <2>1. c \in [S -> Nat] /\ d \in [T -> Nat] /\ Continued(c, d) /\ IsFiniteSet(S)
    BY <1>5, <1>7, <1>8
  <2> QED
    BY <1>0, <2>1, SumGrow, ZenonT(60)
<1>13. Total(f) \in Nat /\ Total(g) = Total(f) + g[x]
  BY <1>0, <1>5, <1>10, <1>11, SumGrow, ZenonT(60)
<1> QED
  BY <1>7, <1>8, <1>9, <1>11, <1>12, <1>13, ClaimNat

OnlyReducing == \A j \in DOMAIN orders : orders[j].filled > 0 => orders[j].reduce_only
Covered(os, pos) == \A side \in Side : Reserved(os, side, {}) <= Reducible(side, pos)

LEMMA AccountedIs ==
    /\ PositionAccounted <=>
           /\ position = InitialPosition + Total(FillsOf(orders, "BUY")) - Total(FillsOf(orders, "SELL"))
           /\ OnlyReducing => Covered(orders, position)
    /\ PositionAccounted' <=>
           /\ position' = InitialPosition + Total(FillsOf(orders', "BUY")) - Total(FillsOf(orders', "SELL"))
           /\ OnlyReducing' => Covered(orders', position')
  BY DEF PositionAccounted, PositionIsFills, ReservedCovered, OnlyReducing, Covered,
         FilledBy, FillsOf, FilledOf

LEMMA ReducingBefore ==
    ASSUME AllSound(orders), Stepped, OnlyReducing'
    PROVE  OnlyReducing
<1> SUFFICES ASSUME NEW j \in DOMAIN orders, orders[j].filled > 0 PROVE orders[j].reduce_only
  BY DEF OnlyReducing
<1>1. AllSound(orders') /\ Len(orders') >= Len(orders) /\ Keeps(orders[j], orders'[j])
  BY DEF Stepped
<1>2. j \in DOMAIN orders'
  BY <1>1, OrdersIndexed
<1>3. orders'[j].filled > 0 /\ orders'[j].reduce_only = orders[j].reduce_only
  BY <1>1, OrdersIndexed, OrderFields DEF Keeps
<1> QED
  BY <1>2, <1>3 DEF OnlyReducing

LEMMA ClaimIs ==
    ASSUME NEW o, NEW side
    PROVE  /\ o.side = side /\ o.reduce_only /\ ~IsTerminal(o) => Claim(o, side) = Remaining(o)
           /\ ~(o.side = side /\ o.reduce_only /\ ~IsTerminal(o)) => Claim(o, side) = 0
  BY DEF Claim

LEMMA SubmitAccounts ==
    ASSUME OrdersInv, PositionAccounted, NEW r \in Request, NEW quote, Submit(r, quote)
    PROVE  PositionAccounted'
<1>1. PICK accepted :
        /\ accepted = IF r.reduce_only
                      THEN ReduceOnlyQuantity(orders, r.side, r.quantity, position, {})
                      ELSE r.quantity
        /\ accepted > 0
        /\ orders' = Append(orders, Admitted(r, accepted, Frontier))
  BY DEF Submit
<1>2. ValidRequest(r) /\ position' = position
  BY DEF Submit
<1>3. AllSound(orders) /\ TypeOK /\ Stepped
  BY SubmitSteps DEF OrdersInv
<1>4. /\ accepted \in Nat
      /\ r.reduce_only => Reserved(orders, r.side, {}) + accepted <= Reducible(r.side, position)
  <2>1. r.quantity \in Int /\ position \in Int
    BY <1>3, SessionAssumption DEF TypeOK
  <2> QED
    BY <1>1, <1>3, <2>1, AcceptedNat
<1>5. Frontier \in Nat
  BY <1>3 DEF Frontier, TypeOK
<1>6. PICK a : a = Admitted(r, accepted, Frontier)
  OBVIOUS
<1>7. /\ a \in Order /\ Sound(a) /\ a.filled = 0 /\ a.quantity = accepted
      /\ a.side = r.side /\ a.reduce_only = r.reduce_only /\ ~IsTerminal(a)
  BY <1>1, <1>2, <1>4, <1>5, <1>6, AdmittedSound
<1>8. ASSUME NEW side
      PROVE  /\ Reserved(orders, side, {}) \in Nat /\ Claim(a, side) \in Nat
             /\ Reserved(orders', side, {}) = Reserved(orders, side, {}) + Claim(a, side)
             /\ Total(FillsOf(orders, side)) \in Nat
             /\ Total(FillsOf(orders', side)) = Total(FillsOf(orders, side)) + FilledOf(a, side)
  BY <1>1, <1>3, <1>6, <1>7, SumsGrow
<1>9. ASSUME NEW side PROVE Total(FillsOf(orders', side)) = Total(FillsOf(orders, side))
  <2>1. FilledOf(a, side) = 0
    BY <1>7 DEF FilledOf
  <2> QED
    BY <1>8, <2>1
<1>10. position' = InitialPosition + Total(FillsOf(orders', "BUY")) - Total(FillsOf(orders', "SELL"))
  BY <1>2, <1>9, AccountedIs
<1>11. ASSUME OnlyReducing' PROVE Covered(orders', position')
  <2>1. Covered(orders, position)
    BY <1>3, <1>11, ReducingBefore, AccountedIs
  <2> SUFFICES ASSUME NEW side \in Side PROVE Reserved(orders', side, {}) <= Reducible(side, position)
    BY <1>2 DEF Covered
  <2>2. Reserved(orders, side, {}) <= Reducible(side, position) /\ Reducible(side, position) \in Nat
    BY <1>3, <2>1, ReducibleNat DEF Covered, TypeOK
  <2>3. CASE r.side = side /\ r.reduce_only
    <3>1. Claim(a, side) = accepted
      <4>1. Claim(a, side) = Remaining(a)
        BY <1>7, <2>3, ClaimIs
      <4> QED
        BY <1>4, <1>7, <4>1 DEF Remaining
    <3> QED
      BY <1>4, <1>8, <2>3, <3>1
  <2>4. CASE ~(r.side = side /\ r.reduce_only)
    <3>1. Claim(a, side) = 0
      BY <1>7, <2>4, ClaimIs
    <3> QED
      BY <1>8, <2>2, <3>1
  <2> QED
    BY <2>3, <2>4
<1> QED
  BY <1>10, <1>11, AccountedIs

\* A change of an order that fills nothing and claims no more than before.
LEMMA ChangeAccounts ==
    ASSUME OrdersInv, PositionAccounted, Stepped, NEW i \in DOMAIN orders, NEW a,
           Keeps(orders[i], a), orders' = [orders EXCEPT ![i] = a],
           a.filled = orders[i].filled, position' = position,
           \A side \in Side : Reserved(orders', side, {}) <= Reserved(orders, side, {})
                                \/ Reserved(orders', side, {}) <= Reducible(side, position)
    PROVE  PositionAccounted'
<1>1. AllSound(orders) /\ position \in Int
  BY DEF OrdersInv, TypeOK
<1>2. ASSUME NEW side
      PROVE  /\ Total(FillsOf(orders', side)) = Total(FillsOf(orders, side))
             /\ Reserved(orders, side, {}) \in Nat /\ Reserved(orders', side, {}) \in Nat
  <2>1. /\ Total(FillsOf(orders, side)) \in Nat
        /\ Total(FillsOf(orders', side))
             = (Total(FillsOf(orders, side)) - FilledOf(orders[i], side)) + FilledOf(a, side)
        /\ Reserved(orders, side, {}) \in Nat /\ Reserved(orders', side, {}) \in Nat
    BY <1>1, SumsChange
  <2>2. FilledOf(a, side) = FilledOf(orders[i], side)
    BY DEF Keeps, FilledOf
  <2>3. FilledOf(orders[i], side) \in Nat
    BY <1>1, OrdersIndexed, OrderFields DEF FilledOf
  <2> QED
    BY <2>1, <2>2, <2>3
<1>3. position' = InitialPosition + Total(FillsOf(orders', "BUY")) - Total(FillsOf(orders', "SELL"))
  BY <1>2, AccountedIs
<1>4. ASSUME OnlyReducing' PROVE Covered(orders', position')
  <2>1. Covered(orders, position)
    BY <1>1, <1>4, ReducingBefore, AccountedIs
  <2> SUFFICES ASSUME NEW side \in Side PROVE Reserved(orders', side, {}) <= Reducible(side, position)
    BY DEF Covered
  <2>2. Reserved(orders, side, {}) <= Reducible(side, position) /\ Reducible(side, position) \in Nat
    BY <1>1, <2>1, ReducibleNat DEF Covered
  <2>3. PICK x, y, z : /\ x = Reserved(orders', side, {}) /\ y = Reserved(orders, side, {})
                       /\ z = Reducible(side, position)
    OBVIOUS
  <2>4. x <= y \/ x <= z
    BY <2>3
  <2>5. x \in Nat /\ y \in Nat /\ z \in Nat /\ y <= z
    BY <1>2, <2>2, <2>3
  <2>6. x <= z
    BY <2>4, <2>5
  <2> QED
    BY <2>3, <2>6
<1> QED
  BY <1>3, <1>4, AccountedIs

LEMMA CancelAccounts ==
    ASSUME OrdersInv, PositionAccounted, NEW i \in DOMAIN orders, Cancel(i)
    PROVE  PositionAccounted'
<1>1. /\ ~IsTerminal(orders[i]) /\ orders' = [orders EXCEPT ![i] = Cancelled(orders[i])]
      /\ position' = position
  BY DEF Cancel
<1>2. AllSound(orders) /\ Stepped
  BY CancelSteps DEF OrdersInv
<1>3. PICK a : a = Cancelled(orders[i])
  OBVIOUS
<1>4. Keeps(orders[i], a) /\ a.filled = orders[i].filled
  BY <1>1, <1>2, <1>3, OrdersIndexed, CancelledKeeps DEF KeepsTerms
<1>5. IsTerminal(a)
  <2>1. orders[i] \in Order
    BY <1>2, OrdersIndexed
  <2> QED
    BY <1>3, <2>1 DEF Cancelled, IsTerminal, Order
<1>6. ASSUME NEW side \in Side PROVE Reserved(orders', side, {}) <= Reserved(orders, side, {})
  <2>1. Claim(a, side) = 0
    BY <1>5, ClaimIs
  <2>2. /\ Reserved(orders, side, {}) \in Nat /\ Claim(orders[i], side) \in Nat
        /\ Reserved(orders', side, {})
             = (Reserved(orders, side, {}) - Claim(orders[i], side)) + Claim(a, side)
    BY <1>1, <1>2, <1>3, <1>4, SumsChange
  <2> QED
    BY <2>1, <2>2
<1> QED
  BY <1>1, <1>2, <1>3, <1>4, <1>6, ChangeAccounts

LEMMA ReplaceAccounts ==
    ASSUME OrdersInv, PositionAccounted, NEW i \in DOMAIN orders, NEW change \in Replacement,
           NEW quote, Replace(i, change, quote)
    PROVE  PositionAccounted'
<1>1. AllSound(orders) /\ TypeOK /\ Stepped
  BY ReplaceSteps DEF OrdersInv
<1>2. PICK n \in Nat :
        /\ n > 0 /\ orders' = [orders EXCEPT ![i] = Replaced(orders[i], n, change.kind)]
        /\ Keeps(orders[i], Replaced(orders[i], n, change.kind))
        /\ orders[i].reduce_only =>
               Reserved(orders, orders[i].side, {i}) + n <= Reducible(orders[i].side, position)
  BY <1>1, ReplaceFacts
<1>3. PICK a : a = Replaced(orders[i], n, change.kind)
  OBVIOUS
<1>4. position' = position
  BY Zenon DEF Replace
<1>5. orders[i] \in Order
  BY <1>1, OrdersIndexed
<1>6. a.filled = orders[i].filled /\ a.quantity = orders[i].filled + n
  BY <1>3, <1>5 DEF Replaced, Order
<1>7. Remaining(a) = n
  BY <1>5, <1>6, OrderFields DEF Remaining
<1>8. a.side = orders[i].side /\ a.reduce_only = orders[i].reduce_only
  BY <1>2, <1>3 DEF Keeps
<1>9. ASSUME NEW side \in Side
      PROVE  \/ Reserved(orders', side, {}) <= Reserved(orders, side, {})
             \/ Reserved(orders', side, {}) <= Reducible(side, position)
  <2>1. /\ Reserved(orders, side, {}) \in Nat /\ Claim(orders[i], side) \in Nat
        /\ Reserved(orders', side, {})
             = (Reserved(orders, side, {}) - Claim(orders[i], side)) + Claim(a, side)
    BY <1>1, <1>2, <1>3, SumsChange
  <2>2. CASE ~(a.side = side /\ a.reduce_only)
    <3>1. Claim(a, side) = 0
      BY <2>2, ClaimIs
    <3> QED
      BY <2>1, <3>1
  <2>3. CASE a.side = side /\ a.reduce_only
    <3>1. /\ Reserved(orders, side, {i}) \in Nat
          /\ Reserved(orders', side, {}) = Claim(a, side) + Reserved(orders, side, {i})
      BY <1>1, <1>2, <1>3, OthersClaims
    <3>2. Claim(a, side) \in {0, n}
      BY <1>7, ClaimIs
    <3>3. Reserved(orders, side, {i}) + n <= Reducible(side, position)
      BY <1>2, <1>8, <2>3
    <3>4. Reducible(side, position) \in Nat
      BY <1>1, ReducibleNat DEF TypeOK
    <3> QED
      BY <3>1, <3>2, <3>3, <3>4
  <2> QED
    BY <2>2, <2>3
<1> QED
  BY <1>1, <1>2, <1>3, <1>4, <1>6, <1>9, ChangeAccounts

\* A fill that takes off the position what it takes off the claims.
LEMMA ReducedCovers ==
    ASSUME NEW pos \in Int, NEW d \in Nat, d > 0, NEW side \in Side, NEW other \in Side, other # side,
           NEW r \in Nat, d <= r, r <= Reducible(side, pos),
           NEW s \in Nat, s <= Reducible(other, pos)
    PROVE  LET next == IF side = "BUY" THEN pos + d ELSE pos - d IN
           r - d <= Reducible(side, next) /\ s <= Reducible(other, next)
<1>1. CASE side = "BUY" /\ other = "SELL"
  <2>1. Reducible("BUY", pos) = (IF pos < 0 THEN -pos ELSE 0) /\ pos + d \in Int
    BY ReducibleNat
  <2>2. pos < 0 /\ d <= -pos /\ pos + d <= 0 /\ r <= -pos
    BY <1>1, <2>1
  <2>3. Reducible("BUY", pos + d) = -(pos + d)
    BY <2>1, <2>2, ReducibleNat
  <2>4. Reducible("SELL", pos) = 0
    BY <2>2, ReducibleNat
  <2>5. Reducible("SELL", pos + d) \in Nat
    BY <2>1, ReducibleNat
  <2>6. r - d <= -(pos + d) /\ s = 0
    BY <1>1, <2>2, <2>4
  <2> QED
    BY <1>1, <2>3, <2>5, <2>6
<1>2. CASE side = "SELL" /\ other = "BUY"
  <2>1. Reducible("SELL", pos) = (IF pos > 0 THEN pos ELSE 0) /\ pos - d \in Int
    BY ReducibleNat
  <2>2. pos > 0 /\ d <= pos /\ pos - d >= 0 /\ r <= pos
    BY <1>2, <2>1
  <2>3. Reducible("SELL", pos - d) = pos - d
    BY <2>1, <2>2, ReducibleNat
  <2>4. Reducible("BUY", pos) = 0
    BY <2>2, ReducibleNat
  <2>5. Reducible("BUY", pos - d) \in Nat
    BY <2>1, ReducibleNat
  <2>6. r - d <= pos - d /\ s = 0
    BY <1>2, <2>2, <2>4
  <2> QED
    BY <1>2, <2>3, <2>5, <2>6
<1> QED
  BY <1>1, <1>2 DEF Side

LEMMA ExecutedAccounts ==
    ASSUME OrdersInv, PositionAccounted, NEW i \in DOMAIN orders, Executed(i)
    PROVE  PositionAccounted'
<1>1. PICK a, fills : Executes(i, a, fills)
  BY DEF Executed
<1>2. AllSound(orders) /\ TypeOK /\ Stepped /\ position \in Int
  BY ExecutedSteps DEF OrdersInv, TypeOK
<1>3. PICK o, d : o = orders[i] /\ d = a.filled - o.filled
  OBVIOUS
<1>4. /\ KeepsTerms(o, a) /\ Keeps(o, a) /\ orders' = [orders EXCEPT ![i] = a]
      /\ position' = IF a.side = "BUY" THEN position + d ELSE position - d
  BY <1>1, <1>3 DEF Executes, Reconcile, KeepsTerms
<1>5. o \in Order /\ Sound(o) /\ a \in Order /\ Sound(a) /\ a.side = o.side /\ o.side \in Side
  BY <1>2, <1>3, <1>4, OrdersIndexed, OrderFields DEF Keeps
<1>6. o.filled \in Nat /\ a.filled \in Nat /\ d \in Nat /\ a.filled = o.filled + d
  BY <1>3, <1>4, <1>5, OrderFields DEF Keeps
<1>7. ASSUME NEW side
      PROVE  /\ Reserved(orders, side, {}) \in Nat /\ Reserved(orders', side, {}) \in Nat
             /\ Claim(o, side) \in Nat /\ Claim(a, side) \in Nat
             /\ Claim(o, side) <= Reserved(orders, side, {})
             /\ Reserved(orders', side, {})
                  = (Reserved(orders, side, {}) - Claim(o, side)) + Claim(a, side)
             /\ Total(FillsOf(orders, side)) \in Nat
             /\ Total(FillsOf(orders', side))
                  = (Total(FillsOf(orders, side)) - FilledOf(o, side)) + FilledOf(a, side)
  BY <1>2, <1>3, <1>4, SumsChange
<1>8. ASSUME NEW side
      PROVE  /\ side = o.side => Total(FillsOf(orders', side)) = Total(FillsOf(orders, side)) + d
             /\ side # o.side => Total(FillsOf(orders', side)) = Total(FillsOf(orders, side))
  <2>1. CASE side = o.side
    <3>1. FilledOf(o, side) = o.filled /\ FilledOf(a, side) = a.filled
      BY <1>5, <2>1 DEF FilledOf
    <3> QED
      BY <1>6, <1>7, <2>1, <3>1
  <2>2. CASE side # o.side
    <3>1. FilledOf(o, side) = 0 /\ FilledOf(a, side) = 0
      BY <1>5, <2>2 DEF FilledOf
    <3> QED
      BY <1>7, <2>2, <3>1
  <2> QED
    BY <2>1, <2>2
<1>9. position' = InitialPosition + Total(FillsOf(orders', "BUY")) - Total(FillsOf(orders', "SELL"))
  <2>1. PICK b, s, b2, s2 : /\ b = Total(FillsOf(orders, "BUY")) /\ s = Total(FillsOf(orders, "SELL"))
                            /\ b2 = Total(FillsOf(orders', "BUY")) /\ s2 = Total(FillsOf(orders', "SELL"))
    OBVIOUS
  <2>2. b \in Nat /\ s \in Nat
    BY <1>7, <2>1
  <2>3. o.side = "BUY" => b2 = b + d /\ s2 = s
    BY <1>8, <2>1
  <2>4. o.side = "SELL" => b2 = b /\ s2 = s + d
    BY <1>8, <2>1
  <2>5. b2 \in Int /\ s2 \in Int
    BY <1>5, <1>6, <2>2, <2>3, <2>4 DEF Side
  <2>6. position = InitialPosition + b - s /\ InitialPosition \in Int
    BY <2>1, AccountedIs, SessionAssumption
  <2>7. (IF o.side = "BUY" THEN position + d ELSE position - d) = InitialPosition + b2 - s2
    <3>1. CASE o.side = "BUY"
      <4>1. position + d = InitialPosition + b2 - s2
        BY <1>6, <2>2, <2>3, <2>6, <3>1
      <4> QED
        BY <3>1, <4>1
    <3>2. CASE o.side = "SELL"
      <4>1. position - d = InitialPosition + b2 - s2
        BY <1>6, <2>2, <2>4, <2>6, <3>2
      <4> QED
        BY <3>2, <4>1
    <3> QED
      BY <1>5, <3>1, <3>2 DEF Side
  <2> QED
    BY <1>4, <1>5, <2>1, <2>7
<1>10. ASSUME OnlyReducing' PROVE Covered(orders', position')
  <2>1. Covered(orders, position)
    BY <1>2, <1>10, ReducingBefore, AccountedIs
  <2>2. ASSUME NEW side \in Side
        PROVE  Reserved(orders, side, {}) <= Reducible(side, position) /\ Reducible(side, position) \in Nat
    BY <1>2, <2>1, ReducibleNat DEF Covered
  <2>3. Remaining(o) \in Nat /\ Remaining(a) = Remaining(o) - d
    BY <1>4, <1>5, <1>6, OrderFields DEF Remaining, Sound, KeepsTerms
  <2>4. CASE d = 0
    <3>1. position' = position
      BY <1>2, <1>4, <2>4
    <3>2. ASSUME NEW side \in Side PROVE Reserved(orders', side, {}) <= Reducible(side, position)
      <4>1. Claim(a, side) <= Claim(o, side)
        <5>1. CASE IsTerminal(o)
          <6>1. a = o
            BY <1>4, <5>1 DEF Keeps
          <6> QED
            BY <1>7, <6>1
        <5>2. CASE ~IsTerminal(o)
          <6>1. a.reduce_only = o.reduce_only /\ Remaining(a) = Remaining(o)
            BY <1>4, <2>3, <2>4 DEF Keeps
          <6> QED
            BY <1>5, <1>7, <5>2, <6>1, ClaimIs
        <5> QED
          BY <5>1, <5>2
      <4> QED
        BY <1>7, <2>2, <4>1
    <3> QED
      BY <3>1, <3>2 DEF Covered
  <2>5. CASE d # 0
    <3>1. ~IsTerminal(o)
      <4> SUFFICES ASSUME IsTerminal(o) PROVE FALSE
        OBVIOUS
      <4>1. a = o
        BY <1>4 DEF Keeps
      <4> QED
        BY <1>3, <1>6, <2>5, <4>1
    <3>2. o.reduce_only
      <4>1. DOMAIN orders' = DOMAIN orders /\ orders'[i] = a
        BY <1>2, <1>3, <1>4, OneChanged
      <4>2. a.filled > 0
        BY <1>6, <2>5
      <4>3. a.reduce_only
        BY <1>10, <4>1, <4>2 DEF OnlyReducing
      <4> QED
        BY <1>4, <4>3 DEF Keeps
    <3>3. PICK other \in Side : other # o.side /\ \A side \in Side : side = o.side \/ side = other
      BY <1>5 DEF Side
    <3>4. PICK r, s, r2, s2 : /\ r = Reserved(orders, o.side, {}) /\ s = Reserved(orders, other, {})
                              /\ r2 = Reserved(orders', o.side, {}) /\ s2 = Reserved(orders', other, {})
      OBVIOUS
    <3>5. Claim(o, o.side) = Remaining(o)
      BY <3>1, <3>2, ClaimIs
    <3>6. Claim(a, o.side) <= Remaining(a) /\ Remaining(a) \in Nat /\ Claim(a, o.side) \in Nat
      <4>1. Remaining(a) \in Nat
        BY <1>5, OrderFields DEF Remaining, Sound
      <4>2. Claim(a, o.side) \in {0, Remaining(a)}
        BY ClaimIs
      <4> QED
        BY <4>1, <4>2
    <3>7. r \in Nat /\ r2 \in Nat /\ r2 <= r - d /\ d <= r
      <4>1. /\ r \in Nat /\ r2 \in Nat /\ Remaining(o) <= r
            /\ r2 = (r - Remaining(o)) + Claim(a, o.side)
        BY <1>7, <3>4, <3>5
      <4> QED
        BY <1>6, <2>3, <3>6, <4>1
    <3>8. s \in Nat /\ s2 = s
      <4>1. Claim(o, other) = 0 /\ Claim(a, other) = 0
        BY <1>5, <3>3, ClaimIs
      <4> QED
        BY <1>7, <3>4, <4>1
    <3>9. r <= Reducible(o.side, position) /\ s <= Reducible(other, position)
      BY <1>5, <2>2, <3>4
    <3>10. PICK next : next = IF o.side = "BUY" THEN position + d ELSE position - d
      OBVIOUS
    <3>11. position' = next /\ next \in Int
      BY <1>2, <1>4, <1>5, <1>6, <3>10
    <3>12. r - d <= Reducible(o.side, next) /\ s <= Reducible(other, next)
      <4>1. d > 0
        BY <1>6, <2>5
      <4> QED
        BY <1>2, <1>5, <1>6, <3>3, <3>7, <3>8, <3>9, <3>10, <4>1, ReducedCovers
    <3>13. Reducible(o.side, next) \in Nat /\ Reducible(other, next) \in Nat
      BY <3>11, ReducibleNat
    <3>14. r2 <= Reducible(o.side, next) /\ s2 <= Reducible(other, next)
      BY <1>6, <3>7, <3>8, <3>12, <3>13
    <3> QED
      BY <3>3, <3>4, <3>11, <3>14 DEF Covered
  <2> QED
    BY <2>4, <2>5
<1> QED
  BY <1>9, <1>10, AccountedIs

LEMMA AccountedInit == ASSUME Init PROVE PositionAccounted
<1>1. orders = << >> /\ position = InitialPosition /\ InitialPosition \in Int
  BY SessionAssumption DEF Init
<1>2. ASSUME NEW side PROVE Total(FillsOf(orders, side)) = 0 /\ Reserved(orders, side, {}) = 0
  <2>1. DOMAIN FillsOf(orders, side) = {} /\ DOMAIN ClaimsOf(orders, side, {}) = {}
    BY <1>1 DEF FillsOf, ClaimsOf
  <2>2. Reserved(orders, side, {}) = Total(ClaimsOf(orders, side, {}))
    BY DEF Reserved, ClaimsOf
  <2> QED
    BY <2>1, <2>2, TotalEmpty
<1>3. Covered(orders, position)
  <2> SUFFICES ASSUME NEW side \in Side PROVE 0 <= Reducible(side, position)
    BY <1>2 DEF Covered
  <2> QED
    BY <1>1, ReducibleNat
<1>4. position = InitialPosition + Total(FillsOf(orders, "BUY")) - Total(FillsOf(orders, "SELL"))
  BY <1>1, <1>2
<1> QED
  BY <1>3, <1>4, AccountedIs

LEMMA AccountedNext == ASSUME OrdersInv, PositionAccounted, [Next]_vars PROVE PositionAccounted'
<1>1. CASE Enter
  <2>1. ASSUME NEW quote, NEW r \in Request, Submit(r, quote) PROVE PositionAccounted'
    BY <2>1, SubmitAccounts
  <2>2. ASSUME NEW quote, NEW i \in DOMAIN orders, NEW change \in Replacement,
               Replace(i, change, quote)
        PROVE  PositionAccounted'
    BY <2>2, ReplaceAccounts
  <2> QED
    BY <1>1, <2>1, <2>2 DEF Enter
<1>2. CASE Withdraw
  BY <1>2, CancelAccounts DEF Withdraw
<1>3. CASE \E i \in DOMAIN orders : Executed(i)
  BY <1>3, ExecutedAccounts
<1>4. CASE UNCHANGED << orders, position >>
  BY <1>4 DEF PositionAccounted, PositionIsFills, ReservedCovered, FilledBy
<1>5. CASE ShowMarket
  <2>1. ASSUME NEW i \in DOMAIN orders, NEW seq, NEW bar \in Bar, NEW favorable, NEW slippage,
               ExecuteF0(i, bar, seq, favorable, slippage)
        PROVE  Executed(i)
    BY <2>1, F0Executes DEF OrdersInv
  <2>2. ASSUME NEW i \in DOMAIN orders, NEW seq, NEW quote \in Quote, NEW cap \in Cap,
               ExecuteF1Quote(i, quote, seq, cap)
        PROVE  Executed(i)
    BY <2>2, F1QuoteExecutes DEF OrdersInv
  <2>3. ASSUME NEW i \in DOMAIN orders, NEW seq, NEW trade \in Trade, NEW eligible_after,
               NEW ahead \in 0 .. 1, NEW cap \in Cap,
               ExecuteF1Trade(i, trade, seq, eligible_after, ahead, cap)
        PROVE  Executed(i)
    BY <2>3, F1TradeExecutes DEF OrdersInv
  <2>4. \E i \in DOMAIN orders : Executed(i)
    BY <1>5, <2>1, <2>2, <2>3 DEF ShowMarket
  <2> QED
    BY <1>3, <2>4
<1>6. CASE ShowDepth
  <2>1. ASSUME NEW n, F2Snapshot(n) PROVE UNCHANGED << orders, position >>
    BY <2>1, Zenon DEF F2Snapshot
  <2>2. ASSUME NEW n, F2Delta(n) PROVE UNCHANGED << orders, position >>
    BY <2>2, Zenon DEF F2Delta
  <2>3. ASSUME NEW i \in DOMAIN orders, NEW max_levels \in 1 .. 2, NEW cap \in Cap,
               ExecuteF2(i, max_levels, cap)
        PROVE  Executed(i)
    BY <2>3, F2Executes DEF OrdersInv, TypeOK
  <2>4. UNCHANGED << orders, position >> \/ \E i \in DOMAIN orders : Executed(i)
    BY <1>6, <2>1, <2>2, <2>3 DEF ShowDepth
  <2> QED
    BY <1>3, <1>4, <2>4
<1>7. CASE UNCHANGED vars
  BY <1>4, <1>7 DEF vars
<1> QED
  BY <1>1, <1>2, <1>5, <1>6, <1>7 DEF Next

\* Whatever fills, in whatever tier and in whatever parts, the position is the
\* sum of the fills (reconcile_execution), and reduce-only orders that race each
\* other never claim more than the position leaves (reduce_only_quantity).
THEOREM PositionAlwaysAccounted == Spec => []PositionAccounted
<1>1. Init => PositionAccounted
  BY AccountedInit
<1>2. OrdersInv /\ PositionAccounted /\ [Next]_vars => PositionAccounted'
  BY AccountedNext
<1> QED
  BY <1>1, <1>2, OrdersInvariance, PTL DEF Spec

-----------------------------------------------------------------------------
(***************************************************************************)
(* Depth is the venue's                                                    *)
(***************************************************************************)

\* The levels are the ones shown, less some of what was filled.
Matches(shown, levels, filled) ==
    (\A p \in Price : levels[p] <= shown[p]) /\ Total(Gone(shown, levels)) <= filled

LEMMA GoneTyped ==
    ASSUME NEW shown \in Levels, NEW levels \in Levels, \A p \in Price : levels[p] <= shown[p]
    PROVE  /\ Gone(shown, levels) \in [Price -> Nat] /\ Total(Gone(shown, levels)) \in Nat
           /\ \A p \in Price : /\ Gone(shown, levels)[p] = shown[p] - levels[p]
                               /\ shown[p] \in Nat /\ levels[p] \in Nat
<1>1. \A p \in Price : shown[p] \in Nat /\ levels[p] \in Nat
  BY DEF Levels
<1>2. \A p \in Price : Gone(shown, levels)[p] = shown[p] - levels[p]
  BY DEF Gone
<1>3. Gone(shown, levels) \in [Price -> Nat]
  <2>1. \A p \in Price : shown[p] - levels[p] \in Nat
    BY <1>1
  <2> QED
    BY <2>1 DEF Gone
<1> QED
  BY <1>1, <1>2, <1>3, PriceFacts, TotalNat

LEMMA MatchesSelf ==
    ASSUME NEW shown \in Levels, NEW filled \in Nat
    PROVE  Matches(shown, shown, filled)
<1>1. \A p \in Price : shown[p] \in Nat
  BY DEF Levels
<1>2. Gone(shown, shown) \in [Price -> {0}]
  BY <1>1 DEF Gone
<1>3. Total(Gone(shown, shown)) = 0
  BY <1>2, TotalZero
<1> QED
  BY <1>1, <1>3 DEF Matches

LEMMA MatchesMore ==
    ASSUME NEW shown \in Levels, NEW levels \in Levels, NEW filled \in Nat, NEW more \in Nat,
           Matches(shown, levels, filled), filled <= more
    PROVE  Matches(shown, levels, more)
<1>1. Total(Gone(shown, levels)) \in Nat
  BY GoneTyped DEF Matches
<1> QED
  BY <1>1 DEF Matches

LEMMA MatchesTaken ==
    ASSUME NEW shown \in Levels, NEW levels \in Levels, NEW left \in Levels,
           NEW filled \in Nat, NEW d \in Nat, Matches(shown, levels, filled),
           \A p \in Price : left[p] <= levels[p], Total(Gone(levels, left)) <= d
    PROVE  Matches(shown, left, filled + d)
<1>1. /\ \A p \in Price : levels[p] <= shown[p]
      /\ Total(Gone(shown, levels)) <= filled
  BY DEF Matches
<1>2. PICK f, g, h : f = Gone(shown, levels) /\ g = Gone(levels, left) /\ h = Gone(shown, left)
  OBVIOUS
<1>3. /\ f \in [Price -> Nat] /\ Total(f) \in Nat
      /\ \A p \in Price : f[p] = shown[p] - levels[p] /\ shown[p] \in Nat /\ levels[p] \in Nat
  BY <1>1, <1>2, GoneTyped
<1>4. /\ g \in [Price -> Nat] /\ Total(g) \in Nat
      /\ \A p \in Price : g[p] = levels[p] - left[p] /\ left[p] \in Nat
  BY <1>2, GoneTyped
<1>5. h = Plus(f, g)
  <2>1. \A p \in Price : shown[p] - left[p] = f[p] + g[p]
    BY <1>3, <1>4
  <2>2. h = [p \in Price |-> f[p] + g[p]]
    BY <1>2, <2>1 DEF Gone
  <2> QED
    BY <1>3, <2>2 DEF Plus
<1>6. Total(h) = Total(f) + Total(g)
  BY <1>3, <1>4, <1>5, PriceFacts, TotalPlus
<1>7. \A p \in Price : left[p] <= shown[p]
  BY <1>1, <1>3, <1>4
<1>8. Total(h) <= filled + d
  BY <1>1, <1>2, <1>3, <1>4, <1>6
<1> QED
  BY <1>2, <1>7, <1>8 DEF Matches

\* Both sides of one price set to the same quantity, or left alone.
LEMMA MatchesUpdated ==
    ASSUME NEW shown \in Levels, NEW levels \in Levels, NEW shown2 \in Levels, NEW levels2 \in Levels,
           NEW filled \in Nat, Matches(shown, levels, filled),
           \A p \in Price : \/ shown2[p] = levels2[p]
                            \/ shown2[p] = shown[p] /\ levels2[p] = levels[p]
    PROVE  Matches(shown2, levels2, filled)
<1>1. /\ \A p \in Price : levels[p] <= shown[p]
      /\ Total(Gone(shown, levels)) <= filled
  BY DEF Matches
<1>2. \A p \in Price : /\ shown[p] \in Nat /\ levels[p] \in Nat
                       /\ shown2[p] \in Nat /\ levels2[p] \in Nat
  BY DEF Levels
<1>3. \A p \in Price : levels2[p] <= shown2[p]
  BY <1>1, <1>2
<1>4. PICK f, g : f = Gone(shown, levels) /\ g = Gone(shown2, levels2)
  OBVIOUS
<1>5. /\ f \in [Price -> Nat] /\ Total(f) \in Nat
      /\ \A p \in Price : f[p] = shown[p] - levels[p]
  BY <1>1, <1>4, GoneTyped
<1>6. /\ g \in [Price -> Nat] /\ Total(g) \in Nat
      /\ \A p \in Price : g[p] = shown2[p] - levels2[p]
  BY <1>3, <1>4, GoneTyped
<1>7. Below(g, f)
  <2>1. \A p \in Price : g[p] <= f[p]
    BY <1>1, <1>2, <1>5, <1>6
  <2> QED
    BY <1>5, <1>6, <2>1 DEF Below
<1>8. Total(g) <= Total(f)
  BY <1>5, <1>6, <1>7, PriceFacts, TotalBelow
<1>9. Total(g) <= filled
  BY <1>1, <1>4, <1>5, <1>6, <1>8
<1> QED
  BY <1>3, <1>4, <1>9 DEF Matches

\* The venue's book after one more update.
LEMMA VenueStep ==
    ASSUME NEW n \in 1 .. Len(Feed), NEW side, NEW p \in Price
    PROVE  VenueLevels(n, side)[p] = IF Feed[n].side = side /\ Feed[n].price = p
                                     THEN Feed[n].quantity ELSE VenueLevels(n - 1, side)[p]
<1>1. n \in Nat /\ n > 0 /\ n - 1 \in Nat
  BY FeedFacts
<1>2. PICK S, T : S = Updates(n, side, p) /\ T = Updates(n - 1, side, p)
  OBVIOUS
<1>3. CASE Feed[n].side = side /\ Feed[n].price = p
  <2>1. n \in S /\ S \in SUBSET (1 .. n)
    BY <1>1, <1>2, <1>3 DEF Updates
  <2>2. Max(S) \in S /\ n <= Max(S)
    BY <1>1, <2>1, LastOf
  <2>3. Max(S) = n
    <3>1. PICK m : m = Max(S)
      OBVIOUS
    <3>2. m \in 1 .. n /\ n <= m
      BY <2>1, <2>2, <3>1
    <3>3. m = n
      BY <1>1, <3>2
    <3> QED
      BY <3>1, <3>3
  <2> QED
    BY <1>2, <1>3, <2>1, <2>3, VenueIs
<1>4. CASE ~(Feed[n].side = side /\ Feed[n].price = p)
  <2>1. S = T
    <3>1. \A k \in 1 .. n : k # n => k \in 1 .. n - 1
      BY <1>1
    <3>2. \A k \in 1 .. n - 1 : k \in 1 .. n
      BY <1>1
    <3> QED
      BY <1>2, <1>4, <3>1, <3>2 DEF Updates
  <2>2. VenueLevels(n, side)[p]
          = IF S # {} THEN Feed[Max(S)].quantity ELSE FirstLevels(side)[p]
    BY <1>2, VenueIs
  <2>3. VenueLevels(n - 1, side)[p]
          = IF T # {} THEN Feed[Max(T)].quantity ELSE FirstLevels(side)[p]
    BY <1>2, VenueIs
  <2> QED
    BY <1>4, <2>1, <2>2, <2>3
<1> QED
  BY <1>3, <1>4

\* No step makes the fills of a side fewer.
LEMMA FillsGrow ==
    ASSUME AllSound(orders), Stepped, NEW side
    PROVE  /\ Total(FillsOf(orders, side)) \in Nat /\ Total(FillsOf(orders', side)) \in Nat
           /\ Total(FillsOf(orders, side)) <= Total(FillsOf(orders', side))
<1>1. PICK f, g : f = FillsOf(orders, side) /\ g = FillsOf(orders', side)
  OBVIOUS
<1>2. /\ AllSound(orders') /\ Len(orders') >= Len(orders)
      /\ \A j \in DOMAIN orders : Keeps(orders[j], orders'[j])
  BY DEF Stepped
<1>3. DOMAIN orders \in SUBSET DOMAIN orders' /\ IsFiniteSet(DOMAIN orders')
  BY <1>2, OrdersIndexed
<1>4. f \in [DOMAIN orders -> Nat] /\ g \in [DOMAIN orders' -> Nat]
  BY <1>1, <1>2, FillsTyped
<1>5. Below(f, g)
  <2> SUFFICES ASSUME NEW j \in DOMAIN orders PROVE f[j] <= g[j]
    BY <1>3, <1>4 DEF Below
  <2>1. f[j] = FilledOf(orders[j], side) /\ g[j] = FilledOf(orders'[j], side)
    BY <1>1, <1>3 DEF FillsOf
  <2>2. orders'[j].filled >= orders[j].filled /\ orders'[j].side = orders[j].side
    BY <1>2 DEF Keeps
  <2>3. orders[j] \in Order /\ orders'[j] \in Order
    BY <1>2, OrdersIndexed DEF Keeps
  <2> QED
    BY <2>1, <2>2, <2>3, OrderFields DEF FilledOf
<1> QED
  BY <1>1, <1>3, <1>4, <1>5, TotalBelow

\* The depth while it is enabled, given what has been filled on each side.
Faithful(b, bought, sold) ==
    b.enabled => /\ b.sequence \in 0 .. Len(Feed)
                 /\ Uncrossed(b.bids, b.asks)
                 /\ Matches(VenueLevels(b.sequence, "BID"), b.bids, sold)
                 /\ Matches(VenueLevels(b.sequence, "ASK"), b.asks, bought)

LEMMA FaithfulMore ==
    ASSUME NEW b \in L2Book, NEW bought \in Nat, NEW sold \in Nat, NEW bought2 \in Nat,
           NEW sold2 \in Nat, bought <= bought2, sold <= sold2, Faithful(b, bought, sold)
    PROVE  Faithful(b, bought2, sold2)
<1> SUFFICES ASSUME b.enabled
             PROVE  /\ Matches(VenueLevels(b.sequence, "BID"), b.bids, sold2)
                    /\ Matches(VenueLevels(b.sequence, "ASK"), b.asks, bought2)
  BY DEF Faithful
<1>1. /\ b.bids \in Levels /\ b.asks \in Levels
      /\ VenueLevels(b.sequence, "BID") \in Levels /\ VenueLevels(b.sequence, "ASK") \in Levels
  BY VenueTyped DEF Faithful, L2Book
<1> QED
  BY <1>1, MatchesMore DEF Faithful

LEMMA SnapshotFaithful ==
    ASSUME NEW n \in 0 .. Len(Feed), NEW s, NEW bought \in Nat, NEW sold \in Nat,
           s = [sequence |-> n, bids |-> VenueLevels(n, "BID"), asks |-> VenueLevels(n, "ASK")],
           Uncrossed(s.bids, s.asks)
    PROVE  Faithful(ApplySnapshot(s), bought, sold)
<1>1. PICK b : b = ApplySnapshot(s)
  OBVIOUS
<1>2. /\ b.sequence = n /\ b.bids = VenueLevels(n, "BID") /\ b.asks = VenueLevels(n, "ASK")
      /\ s.bids = b.bids /\ s.asks = b.asks
  BY <1>1 DEF ApplySnapshot
<1>3. /\ Matches(VenueLevels(n, "BID"), VenueLevels(n, "BID"), sold)
      /\ Matches(VenueLevels(n, "ASK"), VenueLevels(n, "ASK"), bought)
  BY VenueTyped, MatchesSelf
<1> QED
  BY <1>1, <1>2, <1>3 DEF Faithful

LEMMA DeltaFaithful ==
    ASSUME NEW b \in L2Book, NEW n \in 1 .. Len(Feed), NEW d, NEW bought \in Nat, NEW sold \in Nat,
           d = [previous_sequence |-> n - 1, sequence |-> n, side |-> Feed[n].side,
                price |-> Feed[n].price, quantity |-> Feed[n].quantity],
           Faithful(b, bought, sold)
    PROVE  Faithful(ApplyDelta(b, d), bought, sold)
<1>1. PICK c : c = ApplyDelta(b, d)
  OBVIOUS
<1> SUFFICES ASSUME c.enabled PROVE Faithful(c, bought, sold)
  BY <1>1 DEF Faithful
<1>2. /\ d.side = Feed[n].side /\ d.price = Feed[n].price /\ d.quantity = Feed[n].quantity
      /\ d.sequence = n /\ d.previous_sequence = n - 1
      /\ d.side \in {"BID", "ASK"} /\ d.quantity \in Nat /\ d.sequence \in Nat
  BY FeedFacts
<1>3. /\ c \in L2Book /\ b.enabled /\ Continues(b, d) /\ c.sequence = n /\ Uncrossed(c.bids, c.asks)
      /\ c.bids = IF d.side = "BID" THEN Updated(b.bids, d.price, d.quantity) ELSE b.bids
      /\ c.asks = IF d.side = "ASK" THEN Updated(b.asks, d.price, d.quantity) ELSE b.asks
  BY <1>1, <1>2, DeltaFacts
<1>4. b.sequence = n - 1 /\ d.price \in Price
  BY <1>2, <1>3 DEF Continues
<1>5. /\ b.bids \in Levels /\ b.asks \in Levels /\ c.bids \in Levels /\ c.asks \in Levels
  BY <1>3 DEF L2Book
<1>6. /\ n \in 0 .. Len(Feed) /\ n - 1 \in 0 .. Len(Feed)
  BY FeedFacts
<1>7. \A side : VenueLevels(n, side) \in Levels /\ VenueLevels(n - 1, side) \in Levels
  BY <1>6, VenueTyped
<1>8. /\ Matches(VenueLevels(n - 1, "BID"), b.bids, sold)
      /\ Matches(VenueLevels(n - 1, "ASK"), b.asks, bought)
  BY <1>3, <1>4 DEF Faithful
<1>9. Matches(VenueLevels(n, "BID"), c.bids, sold)
  <2>1. ASSUME NEW p \in Price
        PROVE  \/ VenueLevels(n, "BID")[p] = c.bids[p]
               \/ VenueLevels(n, "BID")[p] = VenueLevels(n - 1, "BID")[p] /\ c.bids[p] = b.bids[p]
    BY <1>2, <1>3, <1>4, <1>5, VenueStep, SMTT(30) DEF Updated, Levels
  <2> QED
    BY <1>5, <1>7, <1>8, <2>1, MatchesUpdated, SMTT(30)
<1>10. Matches(VenueLevels(n, "ASK"), c.asks, bought)
  <2>1. ASSUME NEW p \in Price
        PROVE  \/ VenueLevels(n, "ASK")[p] = c.asks[p]
               \/ VenueLevels(n, "ASK")[p] = VenueLevels(n - 1, "ASK")[p] /\ c.asks[p] = b.asks[p]
    BY <1>2, <1>3, <1>4, <1>5, VenueStep DEF Updated, Levels
  <2> QED
    BY <1>5, <1>7, <1>8, <2>1, MatchesUpdated, SMTT(30)
<1> QED
  BY <1>3, <1>6, <1>9, <1>10 DEF Faithful

\* What a sweep takes is less than it fills, and never crosses the book.
LEMMA SweepFaithful ==
    ASSUME NEW b \in L2Book, NEW side \in Side, NEW limit \in Price \cup {NoPrice},
           NEW max_levels \in Nat, NEW requested \in Nat, NEW bought \in Nat, NEW sold \in Nat,
           Faithful(b, bought, sold)
    PROVE  LET c == Consume(b, side, Sweep(Opposite(b, side), side, requested, limit, max_levels)) IN
           /\ side = "BUY" => Faithful(c, bought + requested, sold)
           /\ side = "SELL" => Faithful(c, bought, sold + requested)
<1>1. PICK levels, c, left :
        /\ levels = Opposite(b, side) /\ left = Opposite(c, side)
        /\ c = Consume(b, side, Sweep(levels, side, requested, limit, max_levels))
  OBVIOUS
<1>2. /\ c \in L2Book /\ c.enabled = b.enabled /\ c.sequence = b.sequence
      /\ side = "BUY" => c.bids = b.bids
      /\ side # "BUY" => c.asks = b.asks
      /\ \A p \in Price : left[p] <= levels[p]
      /\ Total(Gone(levels, left)) <= requested
  <2>1. Leaves(b, side, c, requested)
    BY <1>1, ConsumeFacts
  <2> QED
    BY <1>1, <2>1 DEF Leaves
<1>3. /\ b.bids \in Levels /\ b.asks \in Levels /\ c.bids \in Levels /\ c.asks \in Levels
      /\ levels \in Levels /\ left \in Levels
  BY <1>1, <1>2 DEF L2Book, Opposite
<1>4. Displayed(left) \subseteq Displayed(levels)
  <2>1. \A p \in Price : left[p] \in Nat /\ levels[p] \in Nat
    BY <1>3 DEF Levels
  <2> QED
    BY <1>2, <2>1 DEF Displayed
<1>5. CASE ~b.enabled
  BY <1>1, <1>2, <1>5 DEF Faithful
<1>6. CASE b.enabled
  <2>1. PICK n : n = b.sequence
    OBVIOUS
  <2>2. /\ n \in 0 .. Len(Feed) /\ Uncrossed(b.bids, b.asks)
        /\ Matches(VenueLevels(n, "BID"), b.bids, sold)
        /\ Matches(VenueLevels(n, "ASK"), b.asks, bought)
    BY <1>6, <2>1 DEF Faithful
  <2>3. VenueLevels(n, "BID") \in Levels /\ VenueLevels(n, "ASK") \in Levels
    BY <2>2, VenueTyped
  <2>4. CASE side = "BUY"
    <3>1. levels = b.asks /\ left = c.asks /\ c.bids = b.bids
      BY <1>1, <1>2, <2>4 DEF Opposite
    <3>2. Matches(VenueLevels(n, "ASK"), c.asks, bought + requested)
      BY <1>2, <1>3, <2>2, <2>3, <3>1, MatchesTaken
    <3>3. Uncrossed(c.bids, c.asks)
      BY <1>4, <2>2, <3>1 DEF Uncrossed
    <3>4. Faithful(c, bought + requested, sold)
      BY <1>2, <2>1, <2>2, <3>1, <3>2, <3>3 DEF Faithful
    <3> QED
      BY <1>1, <2>4, <3>4
  <2>5. CASE side = "SELL"
    <3>1. levels = b.bids /\ left = c.bids /\ c.asks = b.asks
      BY <1>1, <1>2, <2>5 DEF Opposite
    <3>2. Matches(VenueLevels(n, "BID"), c.bids, sold + requested)
      BY <1>2, <1>3, <2>2, <2>3, <3>1, MatchesTaken
    <3>3. Uncrossed(c.bids, c.asks)
      BY <1>4, <2>2, <3>1 DEF Uncrossed
    <3>4. Faithful(c, bought, sold + requested)
      BY <1>2, <2>1, <2>2, <3>1, <3>2, <3>3 DEF Faithful
    <3> QED
      BY <1>1, <2>5, <3>4
  <2> QED
    BY <2>4, <2>5 DEF Side
<1> QED
  BY <1>5, <1>6

\* The inductive invariant of the depth.
DepthInv ==
    /\ Faithful(book, Total(FillsOf(orders, "BUY")), Total(FillsOf(orders, "SELL")))
    /\ Restorable

LEMMA DepthInvSuffices == ASSUME DepthInv PROVE DepthTrusted
<1>1. DepthIsVenues
  BY DEF DepthInv, Faithful, Matches, Gone, FillsOf, FilledOf, DepthIsVenues, Missing, FilledBy
<1> QED
  BY <1>1 DEF DepthInv, DepthTrusted

LEMMA DepthInvInit == ASSUME Init PROVE DepthInv
<1>1. /\ ~book.enabled /\ book.sequence = NoSequence /\ book = NewBook
  BY DEF Init, NewBook
<1> QED
  BY <1>1 DEF DepthInv, Faithful, Restorable

\* The depth of the steps that leave the book and the market alone.
LEMMA DepthKept ==
    ASSUME OrdersInv, DepthInv, Stepped, UNCHANGED << tier, book, market_event_seq >>
    PROVE  DepthInv'
<1>1. AllSound(orders) /\ book \in L2Book
  BY DEF OrdersInv, TypeOK
<1>2. PICK b, s, b2, s2 : /\ b = Total(FillsOf(orders, "BUY")) /\ s = Total(FillsOf(orders, "SELL"))
                          /\ b2 = Total(FillsOf(orders', "BUY")) /\ s2 = Total(FillsOf(orders', "SELL"))
  OBVIOUS
<1>3. b \in Nat /\ s \in Nat /\ b2 \in Nat /\ s2 \in Nat /\ b <= b2 /\ s <= s2
  BY <1>1, <1>2, FillsGrow
<1>4. Faithful(book, b2, s2)
  BY <1>1, <1>2, <1>3, FaithfulMore DEF DepthInv
<1>5. Faithful(book', Total(FillsOf(orders', "BUY")), Total(FillsOf(orders', "SELL")))
  BY <1>2, <1>4
<1>6. Restorable'
  BY DEF DepthInv, Restorable
<1> QED
  BY <1>5, <1>6 DEF DepthInv

\* Bars, quotes and prints: the book of the other tiers is never enabled.
LEMMA DepthUnused ==
    ASSUME OrdersInv, DepthInv, tier # "F2", UNCHANGED << tier, book >>
    PROVE  DepthInv'
<1>1. book' = NewBook /\ ~book'.enabled /\ book'.sequence = NoSequence
  BY DEF DepthInv, Restorable, NewBook
<1>2. Faithful(book', Total(FillsOf(orders', "BUY")), Total(FillsOf(orders', "SELL")))
  BY <1>1 DEF Faithful
<1>3. Restorable'
  BY <1>1 DEF Restorable
<1> QED
  BY <1>2, <1>3 DEF DepthInv

LEMMA DepthSnapshot ==
    ASSUME OrdersInv, DepthInv, NEW n \in 0 .. Len(Feed), F2Snapshot(n)
    PROVE  DepthInv'
<1>1. PICK s : /\ s = [sequence |-> n, bids |-> VenueLevels(n, "BID"), asks |-> VenueLevels(n, "ASK")]
               /\ Uncrossed(s.bids, s.asks) /\ book' = ApplySnapshot(s)
  BY Zenon DEF F2Snapshot
<1>2. /\ tier = "F2" /\ tier' = tier /\ orders' = orders /\ market_event_seq' = n
  BY Zenon DEF F2Snapshot, Observe
<1>3. Faithful(book', Total(FillsOf(orders', "BUY")), Total(FillsOf(orders', "SELL")))
  <2>1. AllSound(orders) /\ IsFiniteSet(DOMAIN orders)
    BY OrdersIndexed DEF OrdersInv
  <2>2. Total(FillsOf(orders, "BUY")) \in Nat /\ Total(FillsOf(orders, "SELL")) \in Nat
    BY <2>1, FillsTyped, TotalNat
  <2> QED
    BY <1>1, <1>2, <2>2, SnapshotFaithful
<1>4. book'.enabled /\ book'.sequence = n /\ book'.bids = s.bids /\ book'.asks = s.asks
  BY <1>1 DEF ApplySnapshot
<1>5. n \in Nat /\ n # NoSequence
  BY FeedFacts, SequenceAssumption
<1>6. Restorable'
  BY <1>1, <1>2, <1>4, <1>5 DEF Restorable
<1> QED
  BY <1>3, <1>6 DEF DepthInv

LEMMA DepthDelta ==
    ASSUME OrdersInv, DepthInv, NEW n \in 1 .. Len(Feed), F2Delta(n)
    PROVE  DepthInv'
<1>1. PICK d : /\ d = [previous_sequence |-> n - 1, sequence |-> n, side |-> Feed[n].side,
                       price |-> Feed[n].price, quantity |-> Feed[n].quantity]
               /\ book' = ApplyDelta(book, d)
  BY Zenon DEF F2Delta
<1>2. /\ tier = "F2" /\ tier' = tier /\ orders' = orders /\ market_event_seq' = n
      /\ market_event_seq = NoSequence \/ n >= market_event_seq
  BY Zenon DEF F2Delta, Observe
<1>3. book \in L2Book /\ AllSound(orders) /\ market_event_seq \in Nat \cup {NoSequence}
  BY DEF OrdersInv, TypeOK
<1>4. Faithful(book', Total(FillsOf(orders', "BUY")), Total(FillsOf(orders', "SELL")))
  <2>1. IsFiniteSet(DOMAIN orders)
    BY <1>3, OrdersIndexed
  <2>2. Total(FillsOf(orders, "BUY")) \in Nat /\ Total(FillsOf(orders, "SELL")) \in Nat
    BY <1>3, <2>1, FillsTyped, TotalNat
  <2>3. Faithful(book, Total(FillsOf(orders, "BUY")), Total(FillsOf(orders, "SELL")))
    BY DEF DepthInv
  <2>4. Faithful(ApplyDelta(book, d), Total(FillsOf(orders, "BUY")), Total(FillsOf(orders, "SELL")))
    BY <1>1, <1>3, <2>2, <2>3, DeltaFaithful
  <2> QED
    BY <1>1, <1>2, <2>4
<1>5. n \in Nat /\ n # NoSequence
  BY FeedFacts, SequenceAssumption
<1>6. /\ book'.enabled => book'.sequence = n /\ Uncrossed(book'.bids, book'.asks)
      /\ ~book'.enabled => book'.sequence = book.sequence
  <2>1. /\ d.side \in {"BID", "ASK"} /\ d.quantity \in Nat /\ d.sequence \in Nat /\ d.sequence = n
    BY <1>1, <1>5, FeedFacts
  <2> QED
    BY <1>1, <1>3, <2>1, DeltaFacts
<1>7. book'.sequence # NoSequence => book'.sequence <= n
  <2>1. CASE book'.enabled
    BY <1>5, <1>6, <2>1
  <2>2. CASE ~book'.enabled
    <3>1. book'.sequence = book.sequence /\ book.sequence \in Nat \cup {NoSequence}
      BY <1>3, <1>6, <2>2 DEF L2Book
    <3>2. book.sequence # NoSequence => market_event_seq # NoSequence /\ book.sequence <= market_event_seq
      BY DEF DepthInv, Restorable
    <3> QED
      BY <1>2, <1>3, <1>5, <3>1, <3>2
  <2> QED
    BY <2>1, <2>2
<1>8. Restorable'
  BY <1>2, <1>5, <1>6, <1>7 DEF Restorable
<1> QED
  BY <1>4, <1>8 DEF DepthInv

LEMMA DepthSwept ==
    ASSUME OrdersInv, DepthInv, NEW i \in DOMAIN orders, NEW max_levels \in Nat, NEW cap \in Cap,
           ExecuteF2(i, max_levels, cap)
    PROVE  DepthInv'
<1>1. AllSound(orders) /\ TypeOK /\ book \in L2Book
  BY DEF OrdersInv, TypeOK
<1>2. SomeSweep(i, max_levels)
  BY <1>1, F2Sweeps
<1>3. PICK after, d : Swept(i, after, d, max_levels)
  BY <1>2 DEF SomeSweep
<1>4. PICK o : o = orders[i]
  OBVIOUS
<1>5. /\ d \in Nat /\ d = after.filled - o.filled /\ KeepsTerms(o, after) /\ Keeps(o, after)
      /\ orders' = [orders EXCEPT ![i] = after]
      /\ book' = Consume(book, o.side, Sweep(Opposite(book, o.side), o.side, d, o.kind.limit, max_levels))
  BY <1>3, <1>4 DEF Swept, Executes, Reconcile, KeepsTerms
<1>6. /\ o \in Order /\ after \in Order /\ after.side = o.side /\ o.side \in Side
      /\ o.kind.limit \in Price \cup {NoPrice} /\ o.filled \in Nat /\ after.filled = o.filled + d
  <2>1. o \in Order /\ after \in Order /\ after.side = o.side
    BY <1>1, <1>4, <1>5, OrdersIndexed DEF Keeps
  <2> QED
    BY <1>5, <2>1, OrderFields, KindFacts
<1>7. ASSUME NEW side
      PROVE  /\ Total(FillsOf(orders, side)) \in Nat
             /\ side = o.side => Total(FillsOf(orders', side)) = Total(FillsOf(orders, side)) + d
             /\ side # o.side => Total(FillsOf(orders', side)) = Total(FillsOf(orders, side))
  <2>1. /\ Total(FillsOf(orders, side)) \in Nat
        /\ Total(FillsOf(orders', side))
             = (Total(FillsOf(orders, side)) - FilledOf(o, side)) + FilledOf(after, side)
    BY <1>1, <1>4, <1>5, SumsChange
  <2>2. CASE side = o.side
    <3>1. FilledOf(o, side) = o.filled /\ FilledOf(after, side) = o.filled + d
      BY <1>6, <2>2 DEF FilledOf
    <3> QED
      BY <1>5, <1>6, <2>1, <2>2, <3>1
  <2>3. CASE side # o.side
    <3>1. FilledOf(o, side) = 0 /\ FilledOf(after, side) = 0
      BY <1>6, <2>3 DEF FilledOf
    <3> QED
      BY <2>1, <2>3, <3>1
  <2> QED
    BY <2>2, <2>3
<1>8. PICK b, s : b = Total(FillsOf(orders, "BUY")) /\ s = Total(FillsOf(orders, "SELL"))
  OBVIOUS
<1>9. b \in Nat /\ s \in Nat /\ Faithful(book, b, s)
  BY <1>7, <1>8 DEF DepthInv
<1>10. /\ o.side = "BUY" => Faithful(book', b + d, s)
       /\ o.side = "SELL" => Faithful(book', b, s + d)
  BY <1>1, <1>5, <1>6, <1>9, SweepFaithful
<1>11. Faithful(book', Total(FillsOf(orders', "BUY")), Total(FillsOf(orders', "SELL")))
  <2>1. CASE o.side = "BUY"
    BY <1>7, <1>8, <1>10, <2>1
  <2>2. CASE o.side = "SELL"
    BY <1>7, <1>8, <1>10, <2>2
  <2> QED
    BY <1>6, <2>1, <2>2 DEF Side
<1>12. tier = "F2" /\ tier' = tier /\ book.enabled /\ market_event_seq' = market_event_seq
  BY Zenon DEF ExecuteF2
<1>13. book'.sequence = book.sequence
  <2>1. Leaves(book, o.side, book', d)
    BY <1>1, <1>5, <1>6, ConsumeFacts
  <2> QED
    BY <2>1 DEF Leaves
<1>14. book'.enabled => Uncrossed(book'.bids, book'.asks)
  BY <1>11 DEF Faithful
<1>15. Restorable'
  BY <1>12, <1>13, <1>14 DEF Restorable, DepthInv
<1> QED
  BY <1>11, <1>15 DEF DepthInv

LEMMA DepthInvNext == ASSUME OrdersInv, DepthInv, [Next]_vars PROVE DepthInv'
<1>1. CASE Enter \/ Withdraw
  <2>1. ASSUME NEW quote, NEW r, Submit(r, quote) PROVE UNCHANGED << tier, book, market_event_seq >>
    BY <2>1 DEF Submit
  <2>2. ASSUME NEW quote, NEW i, NEW change, Replace(i, change, quote)
        PROVE  UNCHANGED << tier, book, market_event_seq >>
    BY <2>2, Zenon DEF Replace
  <2>3. ASSUME NEW i, Cancel(i) PROVE UNCHANGED << tier, book, market_event_seq >>
    BY <2>3 DEF Cancel
  <2>4. UNCHANGED << tier, book, market_event_seq >>
    BY <1>1, <2>1, <2>2, <2>3 DEF Enter, Withdraw
  <2>5. Stepped
    BY <1>1, NextSteps DEF Next
  <2> QED
    BY <2>4, <2>5, DepthKept
<1>2. CASE ShowMarket
  <2>1. ASSUME NEW i, NEW bar, NEW seq, NEW favorable, NEW slippage,
               ExecuteF0(i, bar, seq, favorable, slippage)
        PROVE  tier = "F0" /\ UNCHANGED << tier, book >>
    BY <2>1, Zenon DEF ExecuteF0
  <2>2. ASSUME NEW i, NEW quote, NEW seq, NEW cap, ExecuteF1Quote(i, quote, seq, cap)
        PROVE  tier = "F1" /\ UNCHANGED << tier, book >>
    BY <2>2, Zenon DEF ExecuteF1Quote
  <2>3. ASSUME NEW i, NEW trade, NEW seq, NEW eligible_after, NEW ahead, NEW cap,
               ExecuteF1Trade(i, trade, seq, eligible_after, ahead, cap)
        PROVE  tier = "F1" /\ UNCHANGED << tier, book >>
    BY <2>3, Zenon DEF ExecuteF1Trade
  <2>4. tier # "F2" /\ UNCHANGED << tier, book >>
    BY <1>2, <2>1, <2>2, <2>3 DEF ShowMarket
  <2> QED
    BY <2>4, DepthUnused
<1>3. CASE ShowDepth
  <2>1. ASSUME NEW i \in DOMAIN orders, NEW max_levels \in 1 .. 2, NEW cap \in Cap,
               ExecuteF2(i, max_levels, cap)
        PROVE  DepthInv'
    <3>1. max_levels \in Nat
      OBVIOUS
    <3> QED
      BY <2>1, <3>1, DepthSwept
  <2> QED
    BY <1>3, <2>1, DepthSnapshot, DepthDelta DEF ShowDepth
<1>4. CASE UNCHANGED vars
  BY <1>4 DEF vars, DepthInv, Restorable
<1> QED
  BY <1>1, <1>2, <1>3, <1>4 DEF Next

\* While the reconstructed book is enabled it is the venue's, less what the
\* session took: no lost, repeated or reordered update (apply_delta) and no sweep
\* leaves it wrong; and from_snapshot accepts every state.
THEOREM DepthAlwaysTrusted == Spec => []DepthTrusted
<1>1. Init => DepthInv
  BY DepthInvInit
<1>2. OrdersInv /\ DepthInv /\ [Next]_vars => DepthInv'
  BY DepthInvNext
<1>3. DepthInv => DepthTrusted
  BY DepthInvSuffices
<1> QED
  BY <1>1, <1>2, <1>3, OrdersInvariance, PTL DEF Spec

=============================================================================
