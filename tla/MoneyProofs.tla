---------------------------- MODULE MoneyProofs -----------------------------
(***************************************************************************)
(* What a sum of Money does when its set of items changes.  Each lemma is  *)
(* a fact about the cardinality of a disjoint union.                       *)
(***************************************************************************)
EXTENDS Money, FiniteSetTheorems, TLAPS

\* There are n units in 1 .. n, whatever they are tagged with.
LEMMA TaggedInterval ==
    ASSUME NEW x, NEW n \in Nat
    PROVE  /\ IsFiniteSet({x} \X (1 .. n))
           /\ Cardinality({x} \X (1 .. n)) = n
<1> DEFINE I == 1 .. n
<1>1. IsFiniteSet({x}) /\ Cardinality({x}) = 1
  BY FS_Singleton
<1>2. IsFiniteSet(I) /\ Cardinality(I) = n
  <2>1. IsFiniteSet(I) /\ Cardinality(I) = IF 1 > n THEN 0 ELSE n - 1 + 1
    BY 1 \in Int, n \in Int, FS_Interval
  <2> QED  BY <2>1
<1> HIDE DEF I
<1>3. /\ IsFiniteSet({x} \X I)
      /\ Cardinality({x} \X I) = Cardinality({x}) * Cardinality(I)
  BY <1>1, <1>2, FS_Product
<1> QED  BY <1>1, <1>2, <1>3 DEF I

\* An item holds as many units as its amount says.
LEMMA UnitsOfItem ==
    ASSUME NEW x, NEW amount, amount[x] \in Nat
    PROVE  /\ IsFiniteSet(UnitsOf(x, amount))
           /\ Cardinality(UnitsOf(x, amount)) = amount[x]
BY TaggedInterval DEF UnitsOf

\* Finitely many items hold finitely many units, so their sum is a number.
LEMMA TotalType ==
    ASSUME NEW D, NEW amount \in [D -> Nat], NEW S \in SUBSET D, IsFiniteSet(S)
    PROVE  IsFiniteSet(Units(S, amount)) /\ Total(S, amount) \in Nat
<1> DEFINE each == {UnitsOf(x, amount) : x \in S}
           f == [x \in S |-> UnitsOf(x, amount)]
<1>1. f \in Surjection(S, each)
  BY DEF Surjection
<1>2. IsFiniteSet(each)
  <2> HIDE DEF f, each
  <2> QED  BY <1>1, FS_Surjection
<1>3. \A T \in each : IsFiniteSet(T)
  <2> SUFFICES ASSUME NEW x \in S  PROVE IsFiniteSet(UnitsOf(x, amount))
    OBVIOUS
  <2> QED  BY UnitsOfItem
<1>4. IsFiniteSet(UNION each)
  <2> HIDE DEF each
  <2> QED  BY <1>2, <1>3, FS_UNION
<1> QED  BY <1>4, FS_CardinalityType DEF Units, Total

\* Nothing sums to nothing.
LEMMA TotalEmpty == \A amount : Total({}, amount) = 0
BY FS_EmptySet DEF Total, Units

\* A new item adds its amount to the sum.
LEMMA TotalAdd ==
    ASSUME NEW D, NEW amount \in [D -> Nat], NEW S \in SUBSET D, IsFiniteSet(S),
           NEW x \in D, x \notin S
    PROVE  Total(S \cup {x}, amount) = Total(S, amount) + amount[x]
<1>1. Units(S \cup {x}, amount) = Units(S, amount) \cup UnitsOf(x, amount)
  BY DEF Units
<1>2. Units(S, amount) \cap UnitsOf(x, amount) = {}
  BY DEF Units, UnitsOf
<1>3. IsFiniteSet(Units(S, amount)) /\ Total(S, amount) \in Nat
  BY TotalType
<1>4. /\ IsFiniteSet(UnitsOf(x, amount))
      /\ Cardinality(UnitsOf(x, amount)) = amount[x] /\ amount[x] \in Nat
  BY UnitsOfItem
<1>5. Cardinality(Units(S, amount) \cup UnitsOf(x, amount))
        = Cardinality(Units(S, amount)) + Cardinality(UnitsOf(x, amount))
            - Cardinality(Units(S, amount) \cap UnitsOf(x, amount))
  BY <1>3, <1>4, FS_Union
<1>6. Cardinality(Units(S, amount) \cap UnitsOf(x, amount)) = 0
  BY <1>2, FS_EmptySet
<1>7. /\ Total(S \cup {x}, amount) = Cardinality(Units(S, amount) \cup UnitsOf(x, amount))
      /\ Total(S, amount) = Cardinality(Units(S, amount))
  BY <1>1 DEF Total
<1>8. Cardinality(Units(S, amount) \cup UnitsOf(x, amount)) = Total(S, amount) + amount[x] - 0
  BY <1>4, <1>5, <1>6, <1>7
<1> QED  BY <1>3, <1>4, <1>7, <1>8

\* An item taken out takes its amount with it.
LEMMA TotalRemove ==
    ASSUME NEW D, NEW amount \in [D -> Nat], NEW S \in SUBSET D, IsFiniteSet(S),
           NEW x \in S
    PROVE  /\ Total(S \ {x}, amount) = Total(S, amount) - amount[x]
           /\ Total(S \ {x}, amount) \in Nat
<1> DEFINE R == S \ {x}
<1>1. R \in SUBSET D /\ x \notin R /\ S = R \cup {x} /\ x \in D
  OBVIOUS
<1>2. IsFiniteSet(R)
  BY FS_RemoveElement
<1> HIDE DEF R
<1>3. Total(R \cup {x}, amount) = Total(R, amount) + amount[x]
  BY <1>1, <1>2, TotalAdd
<1>4. Total(R, amount) \in Nat /\ amount[x] \in Nat
  BY <1>1, <1>2, TotalType
<1>5. /\ Total(R, amount) = Total(S, amount) - amount[x]
      /\ Total(R, amount) \in Nat
  BY <1>1, <1>3, <1>4
<1> QED  BY <1>5 DEF R

\* A part sums to no more than the whole.
LEMMA TotalMonotone ==
    ASSUME NEW D, NEW amount \in [D -> Nat], NEW T \in SUBSET D, IsFiniteSet(T),
           NEW S \in SUBSET T
    PROVE  Total(S, amount) <= Total(T, amount)
<1>1. Units(S, amount) \in SUBSET Units(T, amount)
  BY DEF Units
<1>2. IsFiniteSet(Units(T, amount))
  BY TotalType
<1> QED  BY <1>1, <1>2, FS_Subset DEF Total

\* The sums of two sets with nothing in common add up.
LEMMA TotalDisjoint ==
    ASSUME NEW D, NEW amount \in [D -> Nat],
           NEW S \in SUBSET D, IsFiniteSet(S),
           NEW T \in SUBSET D, IsFiniteSet(T), S \cap T = {}
    PROVE  Total(S \cup T, amount) = Total(S, amount) + Total(T, amount)
<1> DEFINE U == Units(S, amount)
           V == Units(T, amount)
<1>1. Units(S \cup T, amount) = U \cup V
  BY DEF Units
<1>2. U \cap V = {}
  BY DEF Units, UnitsOf
<1>3. /\ IsFiniteSet(U) /\ Cardinality(U) \in Nat
      /\ IsFiniteSet(V) /\ Cardinality(V) \in Nat
  BY TotalType DEF Total
<1>4. Total(S \cup T, amount) = Cardinality(U \cup V)
  BY <1>1 DEF Total
<1> HIDE DEF U, V
<1>5. Cardinality(U \cup V) = Cardinality(U) + Cardinality(V) - 0
  <2>1. Cardinality(U \cup V)
          = Cardinality(U) + Cardinality(V) - Cardinality(U \cap V)
    BY <1>3, FS_Union
  <2>2. Cardinality(U \cap V) = 0
    BY <1>2, FS_EmptySet
  <2> QED  BY <2>1, <2>2
<1>6. Cardinality(U \cup V) = Cardinality(U) + Cardinality(V)
  BY <1>3, <1>5
<1> QED  BY <1>4, <1>6 DEF Total, U, V

\* Items that can be laid on items of their own worth at least as much sum to
\* no more than those.
LEMMA TotalInjection ==
    ASSUME NEW D, NEW amount \in [D -> Nat], NEW T \in SUBSET D, IsFiniteSet(T),
           NEW S, NEW worth \in [S -> Nat], NEW f \in [S -> T],
           \A x, y \in S : f[x] = f[y] => x = y,
           \A x \in S : worth[x] <= amount[f[x]]
    PROVE  Total(S, worth) <= Total(T, amount)
<1> DEFINE U == Units(S, worth)
           V == Units(T, amount)
           g == [u \in U |-> <<f[u[1]], u[2]>>]
<1>1. \A u \in U : /\ u[1] \in S /\ u[2] \in 1 .. worth[u[1]]
                   /\ u = <<u[1], u[2]>>
  BY DEF Units, UnitsOf
<1>2. \A t \in T : \A n \in 1 .. amount[t] : <<t, n>> \in V
  BY DEF Units, UnitsOf
<1>3. IsFiniteSet(V)
  BY TotalType
<1> HIDE DEF U, V
<1>4. \A u \in U : <<f[u[1]], u[2]>> \in V
  <2> SUFFICES ASSUME NEW u \in U  PROVE <<f[u[1]], u[2]>> \in V
    OBVIOUS
  <2>1. /\ f[u[1]] \in T /\ worth[u[1]] \in Nat /\ amount[f[u[1]]] \in Nat
        /\ worth[u[1]] <= amount[f[u[1]]]
    BY <1>1
  <2>2. u[2] \in 1 .. amount[f[u[1]]]
    BY <1>1, <2>1
  <2> QED  BY <1>2, <2>1, <2>2
<1>5. \A u, v \in U : g[u] = g[v] => u = v
  <2> SUFFICES ASSUME NEW u \in U, NEW v \in U, g[u] = g[v]  PROVE u = v
    OBVIOUS
  <2>1. f[u[1]] = f[v[1]] /\ u[2] = v[2]
    OBVIOUS
  <2>2. u[1] = v[1]
    BY <1>1, <2>1
  <2> QED  BY <1>1, <2>1, <2>2
<1>6. g \in Injection(U, V)
  BY <1>4, <1>5 DEF Injection, IsInjective
<1> HIDE DEF g
<1>7. Cardinality(U) <= Cardinality(V)
  BY <1>3, <1>6, FS_Injection
<1> QED  BY <1>7 DEF U, V, Total
=============================================================================
