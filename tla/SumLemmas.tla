----------------------------- MODULE SumLemmas -----------------------------
(***************************************************************************)
(* Lemmas about sums over finite sets, by which the modules add up         *)
(* reservations, balances and fills.  SumFunctionOnSet takes the elements  *)
(* in an order that it chooses; the lemmas say that the order is of no     *)
(* account.  Induction is by least counterexample: the provers cannot      *)
(* instantiate an induction rule over predicates, but every set of natural *)
(* numbers has a least element.                                            *)
(***************************************************************************)
EXTENDS Integers, Functions, FiniteSets, FiniteSetTheorems,
        NaturalsInduction, WellFoundedInduction, TLAPS

\* A set of numbers has a least one: induction, as the proofs here use it.
LEMMA LeastNumber ==
    ASSUME NEW T \in SUBSET Nat, T # {}
    PROVE  \E x \in T : \A y \in T : x <= y
<1> DEFINE R == OpToRel(<, Nat)
<1>1. IsWellFoundedOn(R, Nat)
  BY NatLessThanWellFounded
<1>2. \A x, y \in Nat : <<y, x>> \in R <=> y < x
  BY DEF OpToRel
<1> HIDE DEF R
<1>3. PICK x \in T : \A y \in T : <<y, x>> \notin R
  BY Zenon, <1>1, WFMin
<1>4. \A y \in T : ~(y < x)
  BY Zenon, <1>2, <1>3
<1> QED  BY <1>4

\* The element that the sum takes first.
Pick(s) == CHOOSE x \in s : TRUE

Small(S, n) == {s \in SUBSET S : Cardinality(s) <= n}

\* The partial sums over some sets.
IsSum(g, f, D) == g = [s \in D |-> IF s = {} THEN 0 ELSE f[Pick(s)] + g[s \ {Pick(s)}]]

\* Removing the element that is taken first.
LEMMA Picked ==
    ASSUME NEW s, IsFiniteSet(s), s # {}
    PROVE  /\ Pick(s) \in s
           /\ IsFiniteSet(s \ {Pick(s)})
           /\ Cardinality(s \ {Pick(s)}) = Cardinality(s) - 1
           /\ Cardinality(s) \in Nat /\ Cardinality(s) > 0
<1>1. Pick(s) \in s
  BY Zenon DEF Pick
<1>2. Cardinality(s) \in Nat /\ Cardinality(s) # 0
  BY Zenon, FS_CardinalityType, FS_EmptySet
<1> QED  BY <1>1, <1>2, FS_RemoveElement

\* The partial sums over the subsets of a finite set exist.
LEMMA SumDefined ==
    ASSUME NEW f, NEW S, IsFiniteSet(S)
    PROVE  \E g : IsSum(g, f, SUBSET S)
<1> DEFINE T == {n \in Nat : ~\E g : IsSum(g, f, Small(S, n))}
<1>0. T \in SUBSET Nat /\ \A n \in Nat : n \in T <=> ~\E g : IsSum(g, f, Small(S, n))
  BY Zenon
<1> HIDE DEF T
<1>1. \A s \in SUBSET S : IsFiniteSet(s) /\ Cardinality(s) \in Nat
  BY Zenon, FS_Subset, FS_CardinalityType
<1>2. ASSUME T # {} PROVE FALSE
  <2>1. PICK n \in T : \A k \in T : n <= k
    BY Zenon, <1>0, <1>2, LeastNumber
  <2>0. n \in Nat
    BY Zenon, <1>0, <2>1
  <2>2. CASE n = 0
    <3>1. \A s \in Small(S, 0) : s = {}
      <4>1. ASSUME NEW s \in Small(S, 0) PROVE s = {}
        <5>1. s \in SUBSET S /\ Cardinality(s) <= 0
          BY Zenon, <4>1 DEF Small
        <5>2. Cardinality(s) = 0
          BY <1>1, <5>1
        <5> QED  BY Zenon, <1>1, <5>1, <5>2, FS_EmptySet
      <4> QED  BY Zenon, <4>1
    <3>2. PICK g : g = [s \in Small(S, 0) |-> 0]
      BY Zenon
    <3>3. \A s \in Small(S, 0) : 0 = IF s = {} THEN 0 ELSE f[Pick(s)] + g[s \ {Pick(s)}]
      BY Zenon, <3>1
    <3>4. g = [s \in Small(S, 0) |-> IF s = {} THEN 0 ELSE f[Pick(s)] + g[s \ {Pick(s)}]]
      BY Zenon, <3>2, <3>3
    <3> QED  BY Zenon, <1>0, <2>1, <2>2, <3>4 DEF IsSum
  <2>3. CASE n # 0
    <3>1. n - 1 \in Nat /\ n - 1 \notin T
      BY <2>0, <2>1, <2>3
    <3>2. PICK g : IsSum(g, f, Small(S, n - 1))
      BY Zenon, <1>0, <3>1
    <3>3. PICK h : h = [s \in Small(S, n) |->
                          IF s \in Small(S, n - 1) THEN g[s]
                          ELSE f[Pick(s)] + g[s \ {Pick(s)}]]
      BY Zenon
    <3>4. ASSUME NEW s \in Small(S, n), s # {} PROVE s \ {Pick(s)} \in Small(S, n - 1)
      <4>1. s \in SUBSET S /\ Cardinality(s) <= n
        BY Zenon, <3>4 DEF Small
      <4>2. /\ Cardinality(s \ {Pick(s)}) = Cardinality(s) - 1
            /\ Cardinality(s) \in Nat
        BY Zenon, <1>1, <3>4, <4>1, Picked
      <4>3. Cardinality(s \ {Pick(s)}) <= n - 1
        BY <2>0, <4>1, <4>2
      <4>4. s \ {Pick(s)} \in SUBSET S
        BY <4>1
      <4> QED  BY Zenon, <4>3, <4>4 DEF Small
    <3>5. \A s \in Small(S, n - 1) : s \in Small(S, n)
      <4>1. ASSUME NEW s \in SUBSET S, Cardinality(s) <= n - 1 PROVE Cardinality(s) <= n
        BY <1>1, <2>0, <4>1
      <4> QED  BY Zenon, <4>1 DEF Small
    <3>6. \A s \in Small(S, n - 1) : h[s] = g[s]
      BY Zenon, <3>3, <3>5
    <3>7. ASSUME NEW s \in Small(S, n)
          PROVE  h[s] = IF s = {} THEN 0 ELSE f[Pick(s)] + h[s \ {Pick(s)}]
      <4>1. CASE s \in Small(S, n - 1)
        <5>1. g[s] = IF s = {} THEN 0 ELSE f[Pick(s)] + g[s \ {Pick(s)}]
          BY Zenon, <3>2, <4>1 DEF IsSum
        <5> QED  BY Zenon, <3>4, <3>6, <3>7, <4>1, <5>1
      <4>2. CASE s \notin Small(S, n - 1)
        <5>1. s # {}
          <6>1. Cardinality({}) <= n - 1 /\ {} \in SUBSET S
            BY <3>1, FS_EmptySet
          <6> QED  BY Zenon, <4>2, <6>1 DEF Small
        <5>2. h[s] = f[Pick(s)] + g[s \ {Pick(s)}]
          BY Zenon, <3>3, <3>7, <4>2
        <5> QED  BY Zenon, <3>4, <3>6, <3>7, <5>1, <5>2
      <4> QED  BY Zenon, <4>1, <4>2
    <3>8. DOMAIN h = Small(S, n) /\ h = [s \in Small(S, n) |-> h[s]]
      BY Zenon, <3>3
    <3>9. IsSum(h, f, Small(S, n))
      BY Zenon, <3>7, <3>8 DEF IsSum
    <3> QED  BY Zenon, <1>0, <2>1, <3>9
  <2> QED  BY Zenon, <2>2, <2>3
<1>3. Cardinality(S) \in Nat
  BY Zenon, FS_CardinalityType
<1>4. Small(S, Cardinality(S)) = SUBSET S
  BY Zenon, FS_Subset DEF Small
<1> QED  BY Zenon, <1>0, <1>2, <1>3, <1>4

\* The sum is the last of the partial sums.
LEMMA SumIsPartial ==
    ASSUME NEW f, NEW S, IsFiniteSet(S)
    PROVE  \E g : IsSum(g, f, SUBSET S) /\ SumFunctionOnSet(f, S) = g[S]
<1> DEFINE G == CHOOSE g : g = [s \in SUBSET S |->
                    IF s = {} THEN 0
                    ELSE f[CHOOSE x \in s : TRUE] + g[s \ {CHOOSE x \in s : TRUE}]]
<1>1. \E g : g = [s \in SUBSET S |->
                    IF s = {} THEN 0
                    ELSE f[CHOOSE x \in s : TRUE] + g[s \ {CHOOSE x \in s : TRUE}]]
  <2>1. PICK g : IsSum(g, f, SUBSET S)
    BY Zenon, SumDefined
  <2> QED  BY Zenon, <2>1 DEF IsSum, Pick
<1>2. IsSum(G, f, SUBSET S)
  BY Zenon, <1>1 DEF IsSum, Pick
<1>3. SumFunctionOnSet(f, S) = G[S]
  BY Zenon DEF SumFunctionOnSet, FoldFunctionOnSet, MapThenFoldSet
<1> QED  BY Zenon, <1>2, <1>3

\* Partial sums over different sets agree where both are defined.
LEMMA SumsAgree ==
    ASSUME NEW f, NEW g, NEW h, NEW S, NEW U, IsFiniteSet(S), U \subseteq S,
           IsSum(g, f, SUBSET S), IsSum(h, f, SUBSET U)
    PROVE  g[U] = h[U]
<1> DEFINE T == {n \in Nat : \E s \in SUBSET U : Cardinality(s) = n /\ g[s] # h[s]}
<1>0. /\ T \in SUBSET Nat
      /\ \A n \in Nat : n \in T <=> \E s \in SUBSET U : Cardinality(s) = n /\ g[s] # h[s]
  BY Zenon
<1> HIDE DEF T
<1>1. \A s \in SUBSET U : s \in SUBSET S /\ IsFiniteSet(s) /\ Cardinality(s) \in Nat
  <2>1. \A s \in SUBSET U : s \in SUBSET S
    BY Zenon
  <2> QED  BY Zenon, <2>1, FS_Subset, FS_CardinalityType
<1>2. ASSUME T # {} PROVE FALSE
  <2>1. PICK n \in T : \A k \in T : n <= k
    BY Zenon, <1>0, <1>2, LeastNumber
  <2>2. PICK s \in SUBSET U : Cardinality(s) = n /\ g[s] # h[s]
    BY Zenon, <1>0, <2>1
  <2>3. /\ g[s] = IF s = {} THEN 0 ELSE f[Pick(s)] + g[s \ {Pick(s)}]
        /\ h[s] = IF s = {} THEN 0 ELSE f[Pick(s)] + h[s \ {Pick(s)}]
    BY Zenon, <1>1 DEF IsSum
  <2>4. s # {}
    BY Zenon, <2>2, <2>3
  <2>5. PICK t : t = s \ {Pick(s)}
    BY Zenon
  <2>6. t \in SUBSET U /\ g[t] # h[t]
    BY Zenon, <2>2, <2>3, <2>4, <2>5
  <2>7. Cardinality(t) = n - 1 /\ n \in Nat
    BY Zenon, <1>1, <2>2, <2>4, <2>5, Picked
  <2>8. Cardinality(t) \in T
    BY Zenon, <1>0, <1>1, <2>6
  <2> QED  BY <2>1, <2>7, <2>8
<1>3. \A s \in SUBSET U : g[s] = h[s]
  BY Zenon, <1>0, <1>1, <1>2
<1> QED  BY Zenon, <1>3

\* A sum over no elements is 0.
LEMMA SumEmpty == \A f : SumFunctionOnSet(f, {}) = 0
<1>1. ASSUME NEW f PROVE SumFunctionOnSet(f, {}) = 0
  <2>1. PICK g : IsSum(g, f, SUBSET {}) /\ SumFunctionOnSet(f, {}) = g[{}]
    BY Zenon, FS_EmptySet, SumIsPartial
  <2>2. {} \in SUBSET {}
    BY Zenon
  <2>3. g[{}] = 0
    BY Zenon, <2>1, <2>2 DEF IsSum
  <2> QED  BY Zenon, <2>1, <2>3
<1> QED  BY Zenon, <1>1

\* The sum takes some first element and then the rest.
LEMMA SumPicks ==
    ASSUME NEW f, NEW S, IsFiniteSet(S), S # {}
    PROVE  SumFunctionOnSet(f, S) = f[Pick(S)] + SumFunctionOnSet(f, S \ {Pick(S)})
<1>1. PICK U : U = S \ {Pick(S)}
  BY Zenon
<1>2. IsFiniteSet(U) /\ U \subseteq S
  BY Zenon, <1>1, Picked
<1>3. PICK g : IsSum(g, f, SUBSET S) /\ SumFunctionOnSet(f, S) = g[S]
  BY Zenon, SumIsPartial
<1>4. PICK h : IsSum(h, f, SUBSET U) /\ SumFunctionOnSet(f, U) = h[U]
  BY Zenon, <1>2, SumIsPartial
<1>5. g[U] = h[U]
  BY <1>2, <1>3, <1>4, SumsAgree
<1>6. S \in SUBSET S
  BY Zenon
<1>7. g[S] = f[Pick(S)] + g[U]
  BY Zenon, <1>1, <1>3, <1>6 DEF IsSum
<1> QED  BY Zenon, <1>1, <1>3, <1>4, <1>5, <1>7

Ints(f, S) == \A x \in S : f[x] \in Int

\* A sum of integers is one.
LEMMA SumInt ==
    ASSUME NEW f, NEW S, IsFiniteSet(S), Ints(f, S)
    PROVE  SumFunctionOnSet(f, S) \in Int
<1> DEFINE Bad(n) == \E s \in SUBSET S : Cardinality(s) = n /\ SumFunctionOnSet(f, s) \notin Int
           T == {n \in Nat : Bad(n)}
<1>0. T \in SUBSET Nat /\ \A n \in Nat : n \in T <=> Bad(n)
  BY Zenon
<1> HIDE DEF T
<1>1. \A s \in SUBSET S : IsFiniteSet(s) /\ Cardinality(s) \in Nat
  BY Zenon, FS_Subset, FS_CardinalityType
<1>2. ASSUME T # {} PROVE FALSE
  <2>1. PICK n \in T : \A k \in T : n <= k
    BY Zenon, <1>0, <1>2, LeastNumber
  <2>2. PICK s \in SUBSET S : Cardinality(s) = n /\ SumFunctionOnSet(f, s) \notin Int
    BY Zenon, <1>0, <2>1
  <2>3. s # {}
    <3>1. 0 \in Int
      OBVIOUS
    <3> QED  BY Zenon, <2>2, <3>1, SumEmpty
  <2>4. PICK t : t = s \ {Pick(s)}
    BY Zenon
  <2>5. SumFunctionOnSet(f, s) = f[Pick(s)] + SumFunctionOnSet(f, t)
    BY Zenon, <1>1, <2>3, <2>4, SumPicks
  <2>6. f[Pick(s)] \in Int
    BY Zenon, <1>1, <2>3, Picked DEF Ints
  <2>7. t \in SUBSET S /\ SumFunctionOnSet(f, t) \notin Int
    BY <2>2, <2>4, <2>5, <2>6
  <2>8. Cardinality(t) = n - 1 /\ n \in Nat
    BY Zenon, <1>1, <2>2, <2>3, <2>4, Picked
  <2>9. Cardinality(t) \in T
    BY Zenon, <1>0, <1>1, <2>7
  <2> QED  BY <2>1, <2>8, <2>9
<1>3. S \in SUBSET S
  BY Zenon
<1> QED  BY Zenon, <1>0, <1>1, <1>2, <1>3
\* An element may be taken from the set at any time.
LEMMA SumAdd ==
    ASSUME NEW f, NEW S, IsFiniteSet(S), NEW x, x \notin S, Ints(f, S \cup {x})
    PROVE  SumFunctionOnSet(f, S \cup {x}) = f[x] + SumFunctionOnSet(f, S)
<1> DEFINE Right(s, y) == SumFunctionOnSet(f, s \cup {y}) = f[y] + SumFunctionOnSet(f, s)
           Bad(n) == \E s \in SUBSET (S \cup {x}) : \E y \in (S \cup {x}) \ s :
                        Cardinality(s) = n /\ ~Right(s, y)
           T == {n \in Nat : Bad(n)}
<1>0. T \in SUBSET Nat /\ \A n \in Nat : n \in T <=> Bad(n)
  BY Zenon
<1> HIDE DEF T
<1>1. \A s \in SUBSET (S \cup {x}) : /\ IsFiniteSet(s) /\ Cardinality(s) \in Nat
                                    /\ SumFunctionOnSet(f, s) \in Int
  <2>1. IsFiniteSet(S \cup {x})
    BY Zenon, FS_AddElement
  <2>2. ASSUME NEW s \in SUBSET (S \cup {x})
        PROVE  /\ IsFiniteSet(s) /\ Cardinality(s) \in Nat
               /\ SumFunctionOnSet(f, s) \in Int
    <3>1. IsFiniteSet(s) /\ Cardinality(s) \in Nat
      BY Zenon, <2>1, FS_Subset, FS_CardinalityType
    <3>2. Ints(f, s)
      BY Zenon, <2>2 DEF Ints
    <3> QED  BY Zenon, <3>1, <3>2, SumInt
  <2> QED  BY Zenon, <2>2
<1>2. ASSUME T # {} PROVE FALSE
  <2>1. PICK n \in T : \A k \in T : n <= k
    BY Zenon, <1>0, <1>2, LeastNumber
  <2>2. PICK s \in SUBSET (S \cup {x}) : \E y \in (S \cup {x}) \ s :
            Cardinality(s) = n /\ ~Right(s, y)
    BY Zenon, <1>0, <2>1
  <2>22. PICK y \in (S \cup {x}) \ s : Cardinality(s) = n /\ ~Right(s, y)
    BY Zenon, <2>2
  <2>3. PICK u, c : u = s \cup {y} /\ c = Pick(u)
    BY Zenon
  <2>4. u \in SUBSET (S \cup {x}) /\ u # {}
    BY Zenon, <2>22, <2>3
  <2>5. c \in u /\ SumFunctionOnSet(f, u) = f[c] + SumFunctionOnSet(f, u \ {c})
    BY Zenon, <1>1, <2>3, <2>4, SumPicks, Picked
  <2>6. c # y
    <3>1. u \ {y} = s
      BY <2>22, <2>3
    <3> QED  BY Zenon, <2>22, <2>3, <2>5, <3>1
  <2>7. PICK t : t = s \ {c}
    BY Zenon
  <2>8. /\ c \in s /\ t \in SUBSET (S \cup {x})
        /\ c \in (S \cup {x}) \ t /\ y \in (S \cup {x}) \ t
        /\ u \ {c} = t \cup {y} /\ s = t \cup {c}
    BY <2>22, <2>3, <2>5, <2>6, <2>7
  <2>9. Cardinality(t) = n - 1 /\ n \in Nat
    BY <1>0, <1>1, <2>1, <2>22, <2>7, <2>8, FS_RemoveElement
  <2>10. Cardinality(t) \notin T
    BY <2>1, <2>9
  <2>11. Right(t, c) /\ Right(t, y)
    BY Zenon, <1>0, <1>1, <2>8, <2>10
  <2>12. /\ SumFunctionOnSet(f, u) = f[c] + (f[y] + SumFunctionOnSet(f, t))
         /\ SumFunctionOnSet(f, s) = f[c] + SumFunctionOnSet(f, t)
    BY Zenon, <2>5, <2>8, <2>11
  <2>13. f[c] \in Int /\ f[y] \in Int /\ SumFunctionOnSet(f, t) \in Int
    BY Zenon, <1>1, <2>22, <2>8 DEF Ints
  <2>14. SumFunctionOnSet(f, u) = f[y] + SumFunctionOnSet(f, s)
    BY <2>12, <2>13
  <2> QED  BY Zenon, <2>22, <2>3, <2>14
<1>3. S \in SUBSET (S \cup {x}) /\ x \in (S \cup {x}) \ S
  BY Zenon
<1>4. Cardinality(S) \in Nat
  BY Zenon, <1>1, <1>3
<1> QED  BY Zenon, <1>0, <1>2, <1>3, <1>4

\* Likewise for an element of the set.
LEMMA SumRemove ==
    ASSUME NEW f, NEW S, IsFiniteSet(S), NEW x \in S, Ints(f, S), NEW U, U = S \ {x}
    PROVE  SumFunctionOnSet(f, S) = f[x] + SumFunctionOnSet(f, U)
<1>1. U \cup {x} = S /\ x \notin U
  OBVIOUS
<1>2. IsFiniteSet(U)
  BY Zenon, FS_RemoveElement
<1> QED  BY Zenon, <1>1, <1>2, SumAdd

\* Functions that agree on the set have the same sum.
LEMMA SumSame ==
    ASSUME NEW f, NEW g, NEW S, IsFiniteSet(S), \A x \in S : f[x] = g[x]
    PROVE  SumFunctionOnSet(f, S) = SumFunctionOnSet(g, S)
<1>1. PICK h : IsSum(h, f, SUBSET S) /\ SumFunctionOnSet(f, S) = h[S]
  BY Zenon, SumIsPartial
<1>2. PICK k : IsSum(k, g, SUBSET S) /\ SumFunctionOnSet(g, S) = k[S]
  BY Zenon, SumIsPartial
<1>3. \A s \in SUBSET S : s # {} => Pick(s) \in S
  BY Zenon, FS_Subset, Picked
<1>4. \A s \in SUBSET S : (IF s = {} THEN 0 ELSE f[Pick(s)] + h[s \ {Pick(s)}]) =
                          (IF s = {} THEN 0 ELSE g[Pick(s)] + h[s \ {Pick(s)}])
  BY Zenon, <1>3
<1>5. h = [s \in SUBSET S |-> IF s = {} THEN 0 ELSE g[Pick(s)] + h[s \ {Pick(s)}]]
  BY Zenon, <1>1, <1>4 DEF IsSum
<1>6. IsSum(h, g, SUBSET S)
  BY Zenon, <1>5 DEF IsSum
<1>7. h[S] = k[S]
  BY <1>2, <1>6, SumsAgree
<1> QED  BY Zenon, <1>1, <1>2, <1>7
\* The sum over two sets that have nothing in common.
LEMMA SumUnion ==
    ASSUME NEW f, NEW S, NEW U, IsFiniteSet(S), IsFiniteSet(U), S \cap U = {},
           Ints(f, S \cup U)
    PROVE  SumFunctionOnSet(f, S \cup U) = SumFunctionOnSet(f, S) + SumFunctionOnSet(f, U)
<1> DEFINE Right(u) == SumFunctionOnSet(f, S \cup u) =
                          SumFunctionOnSet(f, S) + SumFunctionOnSet(f, u)
           Bad(n) == \E u \in SUBSET U : Cardinality(u) = n /\ ~Right(u)
           T == {n \in Nat : Bad(n)}
<1>0. T \in SUBSET Nat /\ \A n \in Nat : n \in T <=> Bad(n)
  BY Zenon
<1> HIDE DEF T
<1>1. ASSUME NEW u \in SUBSET U
      PROVE  /\ IsFiniteSet(u) /\ Cardinality(u) \in Nat /\ IsFiniteSet(S \cup u)
             /\ Ints(f, u) /\ Ints(f, S) /\ Ints(f, S \cup u)
             /\ SumFunctionOnSet(f, u) \in Int /\ SumFunctionOnSet(f, S) \in Int
  <2>1. IsFiniteSet(u) /\ Cardinality(u) \in Nat
    BY Zenon, FS_Subset, FS_CardinalityType
  <2>2. IsFiniteSet(S \cup u)
    BY Zenon, <2>1, FS_Union
  <2>3. Ints(f, u) /\ Ints(f, S) /\ Ints(f, S \cup u)
    BY Zenon, <1>1 DEF Ints
  <2> QED  BY Zenon, <2>1, <2>2, <2>3, SumInt
<1>2. ASSUME T # {} PROVE FALSE
  <2>1. PICK n \in T : \A k \in T : n <= k
    BY Zenon, <1>0, <1>2, LeastNumber
  <2>2. PICK u \in SUBSET U : Cardinality(u) = n /\ ~Right(u)
    BY Zenon, <1>0, <2>1
  <2>3. u # {}
    <3>1. S \cup {} = S /\ {} \in SUBSET U
      BY Zenon
    <3>2. Right({})
      <4>1. SumFunctionOnSet(f, S) \in Int
        BY Zenon, <1>1, <3>1
      <4>2. SumFunctionOnSet(f, S) = SumFunctionOnSet(f, S) + 0
        BY <4>1
      <4> QED  BY Zenon, <3>1, <4>2, SumEmpty
    <3> QED  BY Zenon, <2>2, <3>2
  <2>4. PICK x \in u : TRUE
    BY Zenon, <2>3
  <2>5. PICK v : v = u \ {x}
    BY Zenon
  <2>6. /\ v \in SUBSET U /\ v \cup {x} = u /\ x \notin v /\ x \notin S \cup v
        /\ S \cup u = (S \cup v) \cup {x}
    BY <2>2, <2>4, <2>5
  <2>7. Cardinality(v) = n - 1 /\ n \in Nat
    BY <1>1, <2>2, <2>4, <2>5, FS_RemoveElement
  <2>8. Cardinality(v) \notin T
    BY <2>1, <2>7
  <2>9. Right(v)
    BY Zenon, <1>0, <1>1, <2>6, <2>8
  <2>10. SumFunctionOnSet(f, S \cup u) = f[x] + SumFunctionOnSet(f, S \cup v)
    <3>1. IsFiniteSet(S \cup v) /\ Ints(f, (S \cup v) \cup {x})
      BY Zenon, <1>1, <2>2, <2>6
    <3> QED  BY Zenon, <2>6, <3>1, SumAdd
  <2>11. SumFunctionOnSet(f, u) = f[x] + SumFunctionOnSet(f, v)
    <3>1. IsFiniteSet(v) /\ Ints(f, v \cup {x})
      BY Zenon, <1>1, <2>2, <2>6
    <3> QED  BY Zenon, <2>6, <3>1, SumAdd
  <2>12. f[x] \in Int /\ SumFunctionOnSet(f, v) \in Int /\ SumFunctionOnSet(f, S) \in Int
    BY Zenon, <1>1, <2>2, <2>4, <2>6 DEF Ints
  <2>13. Right(u)
    BY <2>9, <2>10, <2>11, <2>12
  <2> QED  BY Zenon, <2>2, <2>13
<1>3. U \in SUBSET U
  BY Zenon
<1> QED  BY Zenon, <1>0, <1>1, <1>2, <1>3

\* A sum is at most another when its terms are.
LEMMA SumLess ==
    ASSUME NEW f, NEW g, NEW S, IsFiniteSet(S), Ints(f, S), Ints(g, S),
           \A x \in S : g[x] <= f[x]
    PROVE  SumFunctionOnSet(g, S) <= SumFunctionOnSet(f, S)
<1> DEFINE Right(s) == SumFunctionOnSet(g, s) <= SumFunctionOnSet(f, s)
           Bad(n) == \E s \in SUBSET S : Cardinality(s) = n /\ ~Right(s)
           T == {n \in Nat : Bad(n)}
<1>0. T \in SUBSET Nat /\ \A n \in Nat : n \in T <=> Bad(n)
  BY Zenon
<1> HIDE DEF T
<1>1. ASSUME NEW s \in SUBSET S
      PROVE  /\ IsFiniteSet(s) /\ Cardinality(s) \in Nat /\ Ints(f, s) /\ Ints(g, s)
             /\ SumFunctionOnSet(f, s) \in Int /\ SumFunctionOnSet(g, s) \in Int
  <2>1. IsFiniteSet(s) /\ Cardinality(s) \in Nat
    BY Zenon, FS_Subset, FS_CardinalityType
  <2>2. Ints(f, s) /\ Ints(g, s)
    BY Zenon DEF Ints
  <2> QED  BY Zenon, <2>1, <2>2, SumInt
<1>2. ASSUME T # {} PROVE FALSE
  <2>1. PICK n \in T : \A k \in T : n <= k
    BY Zenon, <1>0, <1>2, LeastNumber
  <2>2. PICK s \in SUBSET S : Cardinality(s) = n /\ ~Right(s)
    BY Zenon, <1>0, <2>1
  <2>3. s # {}
    <3>1. Right({})
      <4>1. SumFunctionOnSet(f, {}) = 0 /\ SumFunctionOnSet(g, {}) = 0
        BY Zenon, SumEmpty
      <4> QED  BY <4>1
    <3> QED  BY Zenon, <2>2, <3>1
  <2>4. PICK x \in s : TRUE
    BY Zenon, <2>3
  <2>5. PICK t : t = s \ {x} /\ t \in SUBSET S
    BY Zenon, <2>2
  <2>6. Cardinality(t) = n - 1 /\ n \in Nat
    BY <1>1, <2>2, <2>4, <2>5, FS_RemoveElement
  <2>7. Cardinality(t) \notin T
    BY <2>1, <2>6
  <2>8. Right(t)
    BY Zenon, <1>0, <1>1, <2>5, <2>7
  <2>9. /\ SumFunctionOnSet(f, s) = f[x] + SumFunctionOnSet(f, t)
        /\ SumFunctionOnSet(g, s) = g[x] + SumFunctionOnSet(g, t)
    BY <1>1, <2>2, <2>4, <2>5, SumRemove
  <2>10. /\ f[x] \in Int /\ g[x] \in Int /\ g[x] <= f[x]
         /\ SumFunctionOnSet(f, t) \in Int /\ SumFunctionOnSet(g, t) \in Int
    BY Zenon, <1>1, <2>2, <2>4, <2>5 DEF Ints
  <2>11. Right(s)
    BY <2>8, <2>9, <2>10
  <2> QED  BY Zenon, <2>2, <2>11
<1>3. S \in SUBSET S
  BY Zenon
<1> QED  BY Zenon, <1>0, <1>1, <1>2, <1>3

\* A sum falls by at least what one of its terms falls when no other rises.
LEMMA SumDrop ==
    ASSUME NEW f, NEW g, NEW S, IsFiniteSet(S), Ints(f, S), Ints(g, S),
           \A x \in S : g[x] <= f[x], NEW a \in S, NEW d \in Int, g[a] <= f[a] - d
    PROVE  SumFunctionOnSet(g, S) <= SumFunctionOnSet(f, S) - d
<1>1. PICK U : U = S \ {a}
  BY Zenon
<1>2. IsFiniteSet(U) /\ Ints(f, U) /\ Ints(g, U) /\ \A x \in U : g[x] <= f[x]
  <2>1. IsFiniteSet(U)
    BY Zenon, <1>1, FS_RemoveElement
  <2> QED  BY Zenon, <1>1, <2>1 DEF Ints
<1>3. SumFunctionOnSet(g, U) <= SumFunctionOnSet(f, U)
  BY Zenon, <1>2, SumLess
<1>4. /\ SumFunctionOnSet(f, S) = f[a] + SumFunctionOnSet(f, U)
      /\ SumFunctionOnSet(g, S) = g[a] + SumFunctionOnSet(g, U)
  BY <1>1, SumRemove
<1>5. /\ f[a] \in Int /\ g[a] \in Int
      /\ SumFunctionOnSet(f, U) \in Int /\ SumFunctionOnSet(g, U) \in Int
  BY Zenon, <1>2, SumInt DEF Ints
<1> QED  BY <1>3, <1>4, <1>5

\* The sum of equal terms.
LEMMA SumConstant ==
    ASSUME NEW f, NEW S, IsFiniteSet(S), NEW c \in Int, \A x \in S : f[x] = c
    PROVE  SumFunctionOnSet(f, S) = c * Cardinality(S)
<1> DEFINE Right(s) == SumFunctionOnSet(f, s) = c * Cardinality(s)
           Bad(n) == \E s \in SUBSET S : Cardinality(s) = n /\ ~Right(s)
           T == {n \in Nat : Bad(n)}
<1>0. T \in SUBSET Nat /\ \A n \in Nat : n \in T <=> Bad(n)
  BY Zenon
<1> HIDE DEF T
<1>1. \A s \in SUBSET S : IsFiniteSet(s) /\ Cardinality(s) \in Nat
  BY Zenon, FS_Subset, FS_CardinalityType
<1>2. ASSUME T # {} PROVE FALSE
  <2>1. PICK n \in T : \A k \in T : n <= k
    BY Zenon, <1>0, <1>2, LeastNumber
  <2>2. PICK s \in SUBSET S : Cardinality(s) = n /\ ~Right(s)
    BY Zenon, <1>0, <2>1
  <2>3. s # {}
    <3>1. c * 0 = 0
      OBVIOUS
    <3>2. Right({})
      BY Zenon, <3>1, SumEmpty, FS_EmptySet
    <3> QED  BY Zenon, <2>2, <3>2
  <2>4. PICK t : t = s \ {Pick(s)} /\ t \in SUBSET S
    BY Zenon, <2>2
  <2>5. Cardinality(t) = n - 1 /\ n \in Nat /\ Pick(s) \in S
    BY Zenon, <1>1, <2>2, <2>3, <2>4, Picked
  <2>6. Cardinality(t) \notin T
    BY <2>1, <2>5
  <2>7. Right(t)
    BY Zenon, <1>0, <1>1, <2>4, <2>6
  <2>8. SumFunctionOnSet(f, s) = f[Pick(s)] + SumFunctionOnSet(f, t)
    BY Zenon, <1>1, <2>2, <2>3, <2>4, SumPicks
  <2>9. SumFunctionOnSet(f, s) = c + c * (n - 1)
    BY Zenon, <2>5, <2>7, <2>8
  <2>10. c + c * (n - 1) = c * n
    BY <2>5
  <2> QED  BY Zenon, <2>2, <2>9, <2>10
<1>3. S \in SUBSET S
  BY Zenon
<1> QED  BY Zenon, <1>0, <1>1, <1>2, <1>3

\* Terms that are zero add nothing.
LEMMA SumZero ==
    ASSUME NEW f, NEW S, IsFiniteSet(S), \A x \in S : f[x] = 0
    PROVE  SumFunctionOnSet(f, S) = 0
<1>1. PICK n \in Nat : n = Cardinality(S)
  BY Zenon, FS_CardinalityType
<1>2. 0 \in Int /\ 0 * n = 0
  BY <1>1
<1> QED  BY Zenon, <1>1, <1>2, SumConstant

\* A sum is that over the part of the set where the terms are not zero.
LEMMA SumPart ==
    ASSUME NEW f, NEW S, NEW U, IsFiniteSet(S), U \subseteq S, Ints(f, S),
           \A x \in S \ U : f[x] = 0
    PROVE  SumFunctionOnSet(f, S) = SumFunctionOnSet(f, U)
<1>1. PICK R : R = S \ U
  BY Zenon
<1>2. /\ S = U \cup R /\ U \cap R = {}
      /\ IsFiniteSet(U) /\ IsFiniteSet(R) /\ Ints(f, U)
  <2>1. S = U \cup R /\ U \cap R = {} /\ R \subseteq S
    BY Zenon, <1>1
  <2> QED  BY Zenon, <2>1, FS_Subset DEF Ints
<1>3. SumFunctionOnSet(f, S) = SumFunctionOnSet(f, U) + SumFunctionOnSet(f, R)
  BY Zenon, <1>2, SumUnion
<1>4. SumFunctionOnSet(f, R) = 0 /\ SumFunctionOnSet(f, U) \in Int
  BY Zenon, <1>1, <1>2, SumZero, SumInt
<1> QED  BY <1>3, <1>4

\* Moving an amount from one term to another keeps the sum.
LEMMA SumMove ==
    ASSUME NEW f, NEW g, NEW S, IsFiniteSet(S), Ints(f, S), NEW a \in S, NEW b \in S, a # b,
           NEW d \in Int, g[a] = f[a] - d, g[b] = f[b] + d,
           \A x \in S \ {a, b} : g[x] = f[x]
    PROVE  SumFunctionOnSet(g, S) = SumFunctionOnSet(f, S)
<1>1. PICK U, R : U = S \ {a} /\ R = U \ {b}
  BY Zenon
<1>2. /\ IsFiniteSet(U) /\ IsFiniteSet(R) /\ b \in U /\ Ints(f, U) /\ Ints(f, R)
      /\ \A x \in R : g[x] = f[x]
  <2>1. IsFiniteSet(U) /\ IsFiniteSet(R)
    BY Zenon, <1>1, FS_RemoveElement
  <2> QED  BY Zenon, <1>1, <2>1 DEF Ints
<1>3. f[a] \in Int /\ f[b] \in Int /\ g[a] \in Int /\ g[b] \in Int
  <2>1. f[a] \in Int /\ f[b] \in Int
    BY Zenon DEF Ints
  <2> QED  BY <2>1
<1>4. Ints(g, S) /\ Ints(g, U)
  BY Zenon, <1>1, <1>3 DEF Ints
<1>5. /\ SumFunctionOnSet(f, S) = f[a] + SumFunctionOnSet(f, U)
      /\ SumFunctionOnSet(g, S) = g[a] + SumFunctionOnSet(g, U)
      /\ SumFunctionOnSet(f, U) = f[b] + SumFunctionOnSet(f, R)
      /\ SumFunctionOnSet(g, U) = g[b] + SumFunctionOnSet(g, R)
  <2>1. ASSUME NEW h, Ints(h, S), Ints(h, U)
        PROVE  /\ SumFunctionOnSet(h, S) = h[a] + SumFunctionOnSet(h, U)
               /\ SumFunctionOnSet(h, U) = h[b] + SumFunctionOnSet(h, R)
    BY <1>1, <1>2, <2>1, SumRemove
  <2> QED  BY Zenon, <1>2, <1>4, <2>1
<1>6. SumFunctionOnSet(g, R) = SumFunctionOnSet(f, R) /\ SumFunctionOnSet(f, R) \in Int
  BY Zenon, <1>2, SumSame, SumInt
<1> QED  BY <1>3, <1>5, <1>6
=============================================================================
