--------------------------- MODULE RowSumTheorems ---------------------------
(***************************************************************************)
(* The algebra of SumOver.  A sum of numbers is counted: row x stands for  *)
(* the units <<x, 1>> .. <<x, f[x]>>, so that the laws of a sum are those  *)
(* of the cardinality of a finite set.                                     *)
(***************************************************************************)
EXTENDS RowSums, FiniteSetTheorems, WellFoundedInduction, TLAPS

\* The units that the numbers f[x] of the rows S stand for.
Units(f, S) == UNION {{x} \X (1 .. f[x]) : x \in S}

\* A sum of finitely many numbers counts finitely many units.
LEMMA UnitsFinite ==
  ASSUME NEW S, IsFiniteSet(S), NEW f, \A x \in S : f[x] \in Nat
  PROVE  IsFiniteSet(Units(f, S))
<1> DEFINE T == {{x} \X (1 .. f[x]) : x \in S}
           b == [x \in S |-> {x} \X (1 .. f[x])]
<1>1. b \in Surjection(S, T)
  BY DEF Surjection
<1>2. IsFiniteSet(T)
  BY <1>1, FS_Surjection
<1>3. \A t \in T : IsFiniteSet(t)
  <2>1. SUFFICES ASSUME NEW x \in S PROVE IsFiniteSet({x} \X (1 .. f[x]))
    OBVIOUS
  <2>2. IsFiniteSet({x})
    BY FS_Singleton
  <2>3. IsFiniteSet(1 .. f[x])
    BY FS_Interval
  <2>4. QED
    BY <2>2, <2>3, FS_Product
<1>4. QED
  BY <1>2, <1>3, FS_UNION DEF Units

\* Taking a row out takes exactly its own units out.
LEMMA UnitsSplit ==
  ASSUME NEW S, IsFiniteSet(S), NEW f, \A x \in S : f[x] \in Nat,
         NEW x \in S
  PROVE  Cardinality(Units(f, S)) = f[x] + Cardinality(Units(f, S \ {x}))
<1> DEFINE A == {x} \X (1 .. f[x])
           B == Units(f, S \ {x})
<1>1. IsFiniteSet(A) /\ Cardinality(A) = f[x]
  <2>1. IsFiniteSet({x}) /\ Cardinality({x}) = 1
    BY FS_Singleton
  <2>2. IsFiniteSet(1 .. f[x]) /\ Cardinality(1 .. f[x]) = f[x]
    BY FS_Interval
  <2>3. IsFiniteSet(A) /\ Cardinality(A) = 1 * Cardinality(1 .. f[x])
    BY <2>1, <2>2, FS_Product
  <2>4. QED
    BY <2>2, <2>3
<1>2. IsFiniteSet(B)
  <2>1. IsFiniteSet(S \ {x})
    BY FS_RemoveElement
  <2>2. QED
    BY <2>1, UnitsFinite
<1>3. Units(f, S) = A \cup B
  BY DEF Units
<1>4. A \cap B = {}
  BY DEF Units
<1>5. /\ Cardinality(A \cup B) = Cardinality(A) + Cardinality(B) - Cardinality(A \cap B)
  BY <1>1, <1>2, FS_Union
<1>6. Cardinality(B) \in Nat
  BY <1>2, FS_CardinalityType
<1>7. Cardinality(A \cap B) = 0
  BY <1>4, FS_EmptySet
<1>8. QED
  BY <1>1, <1>3, <1>5, <1>6, <1>7

\* A sum of numbers over a finite set is the number of their units: the fact
\* that replaces induction over the set, and that the rest follow from.
THEOREM SumIsCardinality ==
  ASSUME NEW S, IsFiniteSet(S), NEW f, \A x \in S : f[x] \in Nat
  PROVE  SumOver(f, S) = Cardinality(Units(f, S))
<1> DEFINE pick(s) == CHOOSE x \in s : TRUE
           Rec(g) == g = [s \in SUBSET S |->
                            IF s = {} THEN 0 ELSE f[pick(s)] + g[s \ {pick(s)}]]
           h == [s \in SUBSET S |-> Cardinality(Units(f, s))]
<1>1. SumOver(f, S) = (CHOOSE g : Rec(g))[S]
  BY DEF SumOver, MapThenSumSet, MapThenFoldSet
<1>2. \A s \in SUBSET S : s # {} => pick(s) \in s
  OBVIOUS
<1>3. \A s \in SUBSET S : IsFiniteSet(s)
  BY FS_Subset
<1>4. \A s \in SUBSET S :
        h[s] = IF s = {} THEN 0 ELSE f[pick(s)] + h[s \ {pick(s)}]
  <2> SUFFICES ASSUME NEW s \in SUBSET S
               PROVE  h[s] = IF s = {} THEN 0 ELSE f[pick(s)] + h[s \ {pick(s)}]
    OBVIOUS
  <2>1. CASE s = {}
    <3>1. Units(f, s) = {}
      BY <2>1 DEF Units
    <3>2. QED
      BY <2>1, <3>1, FS_EmptySet
  <2>2. CASE s # {}
    <3>1. Cardinality(Units(f, s)) = f[pick(s)] + Cardinality(Units(f, s \ {pick(s)}))
      <4> HIDE DEF pick
      <4>1. QED
        BY <1>2, <1>3, <2>2, UnitsSplit
    <3>2. h[s \ {pick(s)}] = Cardinality(Units(f, s \ {pick(s)}))
      OBVIOUS
    <3>3. QED
      BY <2>2, <3>1, <3>2
  <2>3. QED
    BY <2>1, <2>2
<1>5. Rec(h)
  <2> HIDE DEF pick
  <2>1. QED
    BY <1>4
<1>6. Rec(CHOOSE g : Rec(g))
  <2> HIDE DEF Rec, h
  <2>1. QED
    BY <1>5
<1>7. ASSUME NEW g, Rec(g) PROVE g[S] = h[S]
  <2> DEFINE Bad == {s \in SUBSET S : g[s] # h[s]}
  <2>1. SUFFICES ASSUME Bad # {} PROVE FALSE
    <3> HIDE DEF h
    <3>1. QED
      OBVIOUS
  <2>2. PICK m \in Bad : \A s \in Bad : <<s, m>> \notin StrictSubsetOrdering(S)
    <3>1. IsWellFoundedOn(StrictSubsetOrdering(S), SUBSET S)
      BY FS_StrictSubsetOrderingWellFounded, FS_FiniteSubsetsOfFinite
    <3>2. Bad \subseteq SUBSET S
      OBVIOUS
    <3> HIDE DEF Bad
    <3>3. QED
      BY <2>1, <3>1, <3>2, WFMin
  <2>3. m # {}
    <3> HIDE DEF pick
    <3>1. {} \in SUBSET S
      OBVIOUS
    <3>2. g[{}] = 0
      BY <1>7, <3>1
    <3>3. h[{}] = 0
      BY <1>4, <3>1
    <3>4. QED
      BY <3>2, <3>3
  <2>4. g[m \ {pick(m)}] = h[m \ {pick(m)}]
    <3>1. pick(m) \in m
      BY <1>2, <2>3
    <3> HIDE DEF pick, h
    <3>2. <<m \ {pick(m)}, m>> \in StrictSubsetOrdering(S)
      BY <3>1 DEF StrictSubsetOrdering
    <3>3. QED
      BY <2>2, <3>2
  <2>5. g[m] = f[pick(m)] + g[m \ {pick(m)}]
    <3> HIDE DEF pick
    <3>1. QED
      BY <1>7, <2>3
  <2>6. h[m] = f[pick(m)] + h[m \ {pick(m)}]
    BY <1>4, <2>3
  <2>7. QED
    BY <2>4, <2>5, <2>6
<1>8. QED
  <2>1. h[S] = Cardinality(Units(f, S))
    OBVIOUS
  <2> HIDE DEF Rec, h
  <2>2. QED
    BY <1>1, <1>6, <1>7, <2>1

\* SUM of a column of numbers is a number.
THEOREM SumNat ==
  ASSUME NEW S, IsFiniteSet(S), NEW f, \A x \in S : f[x] \in Nat
  PROVE  SumOver(f, S) \in Nat
  BY SumIsCardinality, UnitsFinite, FS_CardinalityType

\* COALESCE(SUM(...), 0) over no rows.
THEOREM SumEmpty ==
  ASSUME NEW f
  PROVE  SumOver(f, {}) = 0
<1>1. IsFiniteSet({}) /\ Cardinality({}) = 0
  BY FS_EmptySet
<1>2. Units(f, {}) = {}
  BY DEF Units
<1>3. QED
  BY <1>1, <1>2, SumIsCardinality

\* A row that leaves the set takes its value out of the sum.
THEOREM SumRemove ==
  ASSUME NEW S, IsFiniteSet(S), NEW f, \A x \in S : f[x] \in Nat, NEW x \in S
  PROVE  SumOver(f, S) = f[x] + SumOver(f, S \ {x})
<1>1. IsFiniteSet(S \ {x})
  BY FS_RemoveElement
<1>2. QED
  BY <1>1, SumIsCardinality, UnitsSplit

\* A row that joins the set adds its value to the sum.
THEOREM SumInsert ==
  ASSUME NEW S, IsFiniteSet(S), NEW x, x \notin S,
         NEW f, \A y \in S \cup {x} : f[y] \in Nat
  PROVE  SumOver(f, S \cup {x}) = f[x] + SumOver(f, S)
<1>1. IsFiniteSet(S \cup {x})
  BY FS_AddElement
<1>2. (S \cup {x}) \ {x} = S
  OBVIOUS
<1>3. QED
  BY <1>1, <1>2, SumRemove

\* The sum depends on the summed rows' values only.
THEOREM SumSame ==
  ASSUME NEW S, IsFiniteSet(S), NEW f, NEW g,
         \A x \in S : f[x] \in Nat /\ g[x] = f[x]
  PROVE  SumOver(g, S) = SumOver(f, S)
<1>1. Units(f, S) = Units(g, S)
  BY DEF Units
<1>2. QED
  BY <1>1, SumIsCardinality

\* Fewer rows with smaller values sum to no more.
THEOREM SumMonotone ==
  ASSUME NEW S, IsFiniteSet(S), NEW T \in SUBSET S, NEW f, NEW g,
         \A x \in S : f[x] \in Nat,
         \A x \in T : g[x] \in Nat /\ g[x] <= f[x]
  PROVE  SumOver(g, T) <= SumOver(f, S)
<1>1. IsFiniteSet(T)
  BY FS_Subset
<1>2. Units(g, T) \subseteq Units(f, S)
  <2>1. SUFFICES ASSUME NEW x \in T PROVE {x} \X (1 .. g[x]) \subseteq {x} \X (1 .. f[x])
    BY DEF Units
  <2>2. 1 .. g[x] \subseteq 1 .. f[x]
    OBVIOUS
  <2>3. QED
    BY <2>2
<1>3. IsFiniteSet(Units(f, S))
  BY UnitsFinite
<1>4. Cardinality(Units(g, T)) <= Cardinality(Units(f, S))
  BY <1>2, <1>3, FS_Subset
<1>5. QED
  BY <1>1, <1>4, SumIsCardinality
=============================================================================
