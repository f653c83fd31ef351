----------------------------- MODULE SumProofs ------------------------------
(***************************************************************************)
(* What the sums of the specifications, SumFunction and SumFunctionOnSet   *)
(* of Functions, do when a set or a summand changes.  They are folds,      *)
(* defined by recursion over the subsets of a set; that the recursion has  *)
(* one and only one solution is shown first, each time by taking a         *)
(* smallest set for which the claim fails.                                 *)
(***************************************************************************)
EXTENDS Functions, Integers, FiniteSetTheorems, WellFoundedInduction, TLAPS

LEMMA SmallestSize ==
    ASSUME NEW T, T \subseteq Nat, T # {}
    PROVE  \E x \in T : \A y \in T : x <= y
<1>1. PICK x \in T : \A y \in T : ~(<<y, x>> \in OpToRel(<, Nat))
  BY WFMin, NatLessThanWellFounded
<1>2. \A y \in T : ~(y < x)
  BY <1>1 DEF OpToRel
<1> QED
  BY <1>2

First(s) == CHOOSE x \in s : TRUE

(* h[s] is the sum of g over s, for every subset s of S.                   *)
Adds(h, g, S) ==
    h = [s \in SUBSET S |-> IF s = {} THEN 0 ELSE g[First(s)] + h[s \ {First(s)}]]

(* A set without its first element is smaller by one.                      *)
LEMMA WithoutFirst ==
    ASSUME NEW s, IsFiniteSet(s), s # {}
    PROVE  /\ First(s) \in s
           /\ IsFiniteSet(s \ {First(s)})
           /\ Cardinality(s) \in Nat
           /\ Cardinality(s \ {First(s)}) = Cardinality(s) - 1
           /\ Cardinality(s \ {First(s)}) < Cardinality(s)
<1>1. First(s) \in s
  BY DEF First
<1>2. IsFiniteSet(s \ {First(s)}) /\ Cardinality(s \ {First(s)}) = Cardinality(s) - 1
  BY <1>1, FS_RemoveElement
<1>3. Cardinality(s) \in Nat
  BY FS_CardinalityType
<1> QED
  BY <1>1, <1>2, <1>3

LEMMA AddsUnique ==
    ASSUME NEW g, NEW h, NEW k, NEW S, NEW T, IsFiniteSet(S), Adds(h, g, S), Adds(k, g, T),
           NEW s, s \subseteq S, s \subseteq T
    PROVE  h[s] = k[s]
<1> DEFINE bad == {n \in Nat : \E t \in SUBSET (S \cap T) : Cardinality(t) = n /\ h[t] # k[t]}
<1>1. ASSUME h[s] # k[s] PROVE FALSE
  <2>1. Cardinality(s) \in Nat /\ s \in SUBSET (S \cap T)
    BY FS_Subset, FS_CardinalityType
  <2>2. Cardinality(s) \in bad
    BY <1>1, <2>1
  <2>3. PICK n \in bad : \A m \in bad : n <= m
    BY <2>2, SmallestSize
  <2>4. PICK t \in SUBSET (S \cap T) : Cardinality(t) = n /\ h[t] # k[t]
    BY <2>3
  <2>5. IsFiniteSet(t) /\ t \in SUBSET S /\ t \in SUBSET T
    BY <2>4, FS_Subset
  <2>6. /\ h[t] = IF t = {} THEN 0 ELSE g[First(t)] + h[t \ {First(t)}]
        /\ k[t] = IF t = {} THEN 0 ELSE g[First(t)] + k[t \ {First(t)}]
    BY <2>5 DEF Adds
  <2>7. t # {}
    BY <2>4, <2>6
  <2>8. /\ Cardinality(t \ {First(t)}) \in Nat
        /\ Cardinality(t \ {First(t)}) < n
    BY <2>4, <2>5, <2>7, WithoutFirst, FS_CardinalityType
  <2>9. Cardinality(t \ {First(t)}) \notin bad
    <3>1. n \in Nat
      OBVIOUS
    <3> HIDE DEF bad
    <3> QED
      BY <2>3, <2>8, <3>1
  <2>10. h[t \ {First(t)}] = k[t \ {First(t)}]
    BY <2>4, <2>8, <2>9
  <2> QED
    BY <2>4, <2>6, <2>10
<1> QED
  BY <1>1

LEMMA AddsExists ==
    ASSUME NEW g, NEW S, IsFiniteSet(S)
    PROVE  \E h : Adds(h, g, S)
<1> DEFINE bad == {n \in Nat : \E t : /\ IsFiniteSet(t) /\ Cardinality(t) = n
                                      /\ ~ \E h : Adds(h, g, t)}
<1>1. ASSUME ~ \E h : Adds(h, g, S) PROVE FALSE
  <2>1. Cardinality(S) \in bad
    BY <1>1, FS_CardinalityType
  <2>2. PICK n \in bad : \A m \in bad : n <= m
    BY <2>1, SmallestSize
  <2>3. PICK U : IsFiniteSet(U) /\ Cardinality(U) = n /\ ~ \E h : Adds(h, g, U)
    BY <2>2
  <2> DEFINE part(s) == CHOOSE h : Adds(h, g, s)
             low(s) == part(s)[s]
             H == [s \in SUBSET U |->
                     IF s = U THEN (IF U = {} THEN 0
                                    ELSE g[First(U)] + low(U \ {First(U)}))
                     ELSE low(s)]
  <2>4. ASSUME NEW s \in SUBSET U, s # U
        PROVE  IsFiniteSet(s) /\ Adds(part(s), g, s)
    <3>1. IsFiniteSet(s) /\ Cardinality(s) <= n /\ Cardinality(s) # n
      BY <2>3, <2>4, FS_Subset
    <3>2. Cardinality(s) \in Nat
      BY <3>1, FS_CardinalityType
    <3>3. Cardinality(s) \notin bad
      BY <2>2, <3>1, <3>2
    <3>4. \E h : Adds(h, g, s)
      BY <3>1, <3>2, <3>3
    <3> QED
      BY <3>1, <3>4
  <2>5. ASSUME NEW s \in SUBSET U
        PROVE  H[s] = IF s = {} THEN 0 ELSE g[First(s)] + H[s \ {First(s)}]
    <3>1. s # {} => /\ s \ {First(s)} \in SUBSET U /\ s \ {First(s)} # U
                    /\ s \ {First(s)} \subseteq s /\ First(s) \in s
      BY DEF First
    <3>2. s # {} => H[s \ {First(s)}] = low(s \ {First(s)})
      BY <3>1
    <3>3. CASE s = U
      BY <3>2, <3>3
    <3>4. CASE s # U
      <4>1. H[s] = low(s)
        BY <3>4
      <4>2. Adds(part(s), g, s) /\ IsFiniteSet(s)
        BY <2>4, <3>4
      <4>3. low(s) = IF s = {} THEN 0 ELSE g[First(s)] + part(s)[s \ {First(s)}]
        <5> HIDE DEF part
        <5> QED
          BY <4>2 DEF Adds
      <4>4. s # {} => part(s)[s \ {First(s)}] = low(s \ {First(s)})
        <5>1. s # {} => Adds(part(s \ {First(s)}), g, s \ {First(s)})
          BY <2>4, <3>1
        <5> HIDE DEF part
        <5> QED
          BY <3>1, <4>2, <5>1, AddsUnique
      <4> HIDE DEF low, H
      <4> QED
        BY <3>2, <4>1, <4>3, <4>4
    <3> QED
      BY <3>3, <3>4
  <2>6. H = [s \in SUBSET U |-> H[s]]
    OBVIOUS
  <2> HIDE DEF H
  <2>7. Adds(H, g, U)
    BY <2>5, <2>6 DEF Adds
  <2> QED
    BY <2>3, <2>7
<1> QED
  BY <1>1

LEMMA SumIs ==
    ASSUME NEW g, NEW S, IsFiniteSet(S), NEW h, Adds(h, g, S)
    PROVE  SumFunctionOnSet(g, S) = h[S]
<1> DEFINE iter == CHOOSE k : Adds(k, g, S)
<1>1. SumFunctionOnSet(g, S) = iter[S]
  BY DEF SumFunctionOnSet, FoldFunctionOnSet, MapThenFoldSet, Adds, First
<1>2. Adds(iter, g, S)
  OBVIOUS
<1> HIDE DEF iter
<1>3. iter[S] = h[S]
  BY <1>2, AddsUnique
<1> QED
  BY <1>1, <1>3

-----------------------------------------------------------------------------
(* Sums.                                                                   *)

LEMMA SumOfNone ==
    ASSUME NEW g
    PROVE  SumFunctionOnSet(g, {}) = 0
<1>1. IsFiniteSet({})
  BY FS_EmptySet
<1>2. PICK h : Adds(h, g, {})
  BY <1>1, AddsExists
<1>3. h[{}] = 0
  BY <1>2 DEF Adds
<1> QED
  BY <1>1, <1>2, <1>3, SumIs

LEMMA SumFirst ==
    ASSUME NEW g, NEW S, IsFiniteSet(S), S # {}
    PROVE  SumFunctionOnSet(g, S) = g[First(S)] + SumFunctionOnSet(g, S \ {First(S)})
<1> DEFINE R == S \ {First(S)}
<1>1. IsFiniteSet(R) /\ R \subseteq S
  BY WithoutFirst
<1>2. PICK h : Adds(h, g, S)
  BY AddsExists
<1>3. PICK k : Adds(k, g, R)
  BY <1>1, AddsExists
<1>4. h[S] = g[First(S)] + h[R]
  BY <1>2 DEF Adds
<1>5. h[R] = k[R]
  BY <1>1, <1>2, <1>3, AddsUnique
<1> QED
  BY <1>1, <1>2, <1>3, <1>4, <1>5, SumIs

(* A sum of integers is one, a sum of naturals is one.                     *)
LEMMA SumType ==
    ASSUME NEW Typ, Typ = Int \/ Typ = Nat, NEW g, NEW S, IsFiniteSet(S),
           \A x \in S : g[x] \in Typ
    PROVE  SumFunctionOnSet(g, S) \in Typ
<1> DEFINE sum(s) == SumFunctionOnSet(g, s)
           bad == {n \in Nat : \E t \in SUBSET S : Cardinality(t) = n /\ sum(t) \notin Typ}
<1> HIDE DEF sum
<1>1. ASSUME sum(S) \notin Typ PROVE FALSE
  <2>1. Cardinality(S) \in bad
    BY <1>1, FS_CardinalityType
  <2>2. PICK n \in bad : \A m \in bad : n <= m
    BY <2>1, SmallestSize
  <2>3. PICK t \in SUBSET S : Cardinality(t) = n /\ sum(t) \notin Typ
    BY <2>2
  <2>4. IsFiniteSet(t) /\ n \in Nat
    BY <2>2, FS_Subset
  <2>5. t # {}
    BY <2>3, SumOfNone DEF sum
  <2>6. /\ First(t) \in t /\ Cardinality(t \ {First(t)}) \in Nat
        /\ Cardinality(t \ {First(t)}) < n
    BY <2>3, <2>4, <2>5, WithoutFirst, FS_CardinalityType
  <2>7. Cardinality(t \ {First(t)}) \notin bad
    <3> HIDE DEF bad
    <3> QED
      BY <2>2, <2>4, <2>6
  <2>8. sum(t \ {First(t)}) \in Typ
    BY <2>3, <2>6, <2>7
  <2>9. sum(t) = g[First(t)] + sum(t \ {First(t)}) /\ g[First(t)] \in Typ
    BY <2>4, <2>5, <2>6, SumFirst DEF sum
  <2> QED
    BY <2>3, <2>8, <2>9
<1> QED
  BY <1>1 DEF sum

(* Any element may be taken out first.                                     *)
LEMMA SumRemove ==
    ASSUME NEW g, NEW S, IsFiniteSet(S), \A y \in S : g[y] \in Int, NEW x \in S
    PROVE  SumFunctionOnSet(g, S) = g[x] + SumFunctionOnSet(g, S \ {x})
<1> DEFINE sum(s) == SumFunctionOnSet(g, s)
           bad == {n \in Nat : \E t \in SUBSET S : \E y \in t :
                      Cardinality(t) = n /\ sum(t) # g[y] + sum(t \ {y})}
<1> HIDE DEF sum
<1>1. ASSUME sum(S) # g[x] + sum(S \ {x}) PROVE FALSE
  <2>1. Cardinality(S) \in bad
    BY <1>1, FS_CardinalityType
  <2>2. PICK n \in bad : \A m \in bad : n <= m
    BY <2>1, SmallestSize
  <2>3a. PICK t \in SUBSET S : \E y \in t :
            Cardinality(t) = n /\ sum(t) # g[y] + sum(t \ {y})
    BY <2>2
  <2>3. PICK y \in t : Cardinality(t) = n /\ sum(t) # g[y] + sum(t \ {y})
    BY <2>3a
  <2> DEFINE z == First(t)
  <2>4. IsFiniteSet(t) /\ n \in Nat /\ t # {}
    BY <2>2, FS_Subset
  <2>5. \A w \in t : IsFiniteSet(t \ {w}) /\ Cardinality(t \ {w}) = n - 1
    BY <2>3, <2>4, FS_RemoveElement
  <2>6. z \in t /\ sum(t) = g[z] + sum(t \ {z})
    BY <2>4, WithoutFirst, SumFirst DEF sum
  <2>7. \A s \in SUBSET t : IsFiniteSet(s) /\ sum(s) \in Int
    BY <2>4, FS_Subset, SumType DEF sum
  <2>8. y # z
    BY <2>3, <2>6
  <2>9. n - 1 \in Nat /\ n - 1 \notin bad
    <3>1. n - 1 \in Nat
      BY <2>4, <2>5, <2>6, FS_CardinalityType
    <3> HIDE DEF bad
    <3> QED
      BY <2>2, <2>4, <3>1
  <2>10. \A w \in t : \A v \in t \ {w} :
            sum(t \ {w}) = g[v] + sum((t \ {w}) \ {v})
    BY <2>5, <2>9
  <2>11. (t \ {z}) \ {y} = (t \ {y}) \ {z}
    OBVIOUS
  <2> HIDE DEF z
  <2>12. /\ sum(t \ {z}) = g[y] + sum((t \ {z}) \ {y})
         /\ sum(t \ {y}) = g[z] + sum((t \ {z}) \ {y})
    BY <2>6, <2>8, <2>10, <2>11
  <2>13. g[y] \in Int /\ g[z] \in Int /\ sum((t \ {z}) \ {y}) \in Int
    BY <2>6, <2>7
  <2> QED
    BY <2>3, <2>6, <2>12, <2>13
<1> QED
  BY <1>1 DEF sum

LEMMA SumInsert ==
    ASSUME NEW g, NEW S, IsFiniteSet(S), NEW x, x \notin S, \A y \in S \cup {x} : g[y] \in Int
    PROVE  SumFunctionOnSet(g, S \cup {x}) = g[x] + SumFunctionOnSet(g, S)
<1>1. IsFiniteSet(S \cup {x}) /\ (S \cup {x}) \ {x} = S
  BY FS_AddElement
<1> QED
  BY <1>1, SumRemove

(* Summands that are not above others do not add up to more.               *)
LEMMA SumMonotone ==
    ASSUME NEW f, NEW g, NEW S, IsFiniteSet(S),
           \A x \in S : f[x] \in Int /\ g[x] \in Int /\ f[x] <= g[x]
    PROVE  SumFunctionOnSet(f, S) <= SumFunctionOnSet(g, S)
<1> DEFINE sumF(s) == SumFunctionOnSet(f, s)
           sumG(s) == SumFunctionOnSet(g, s)
           bad == {n \in Nat : \E t \in SUBSET S : Cardinality(t) = n /\ ~(sumF(t) <= sumG(t))}
<1> HIDE DEF sumF, sumG
<1>1. ASSUME ~(sumF(S) <= sumG(S)) PROVE FALSE
  <2>1. Cardinality(S) \in bad
    BY <1>1, FS_CardinalityType
  <2>2. PICK n \in bad : \A m \in bad : n <= m
    BY <2>1, SmallestSize
  <2>3. PICK t \in SUBSET S : Cardinality(t) = n /\ ~(sumF(t) <= sumG(t))
    BY <2>2
  <2>4. IsFiniteSet(t) /\ n \in Nat
    BY <2>2, FS_Subset
  <2>5. t # {}
    BY <2>3, SumOfNone DEF sumF, sumG
  <2>6. /\ First(t) \in t /\ Cardinality(t \ {First(t)}) \in Nat
        /\ IsFiniteSet(t \ {First(t)})
        /\ Cardinality(t \ {First(t)}) < n
    BY <2>3, <2>4, <2>5, WithoutFirst, FS_CardinalityType
  <2>7. Cardinality(t \ {First(t)}) \notin bad
    <3> HIDE DEF bad
    <3> QED
      BY <2>2, <2>4, <2>6
  <2>8. sumF(t \ {First(t)}) <= sumG(t \ {First(t)})
    BY <2>3, <2>6, <2>7
  <2>9. /\ sumF(t) = f[First(t)] + sumF(t \ {First(t)})
        /\ sumG(t) = g[First(t)] + sumG(t \ {First(t)})
    BY <2>4, <2>5, SumFirst DEF sumF, sumG
  <2>10. sumF(t \ {First(t)}) \in Int /\ sumG(t \ {First(t)}) \in Int
    BY <2>6, SumType DEF sumF, sumG
  <2>11. f[First(t)] \in Int /\ g[First(t)] \in Int /\ f[First(t)] <= g[First(t)]
    BY <2>6
  <2> QED
    BY <2>3, <2>8, <2>9, <2>10, <2>11
<1> QED
  BY <1>1 DEF sumF, sumG

(* Equal summands add up to the same.                                      *)
LEMMA SumSame ==
    ASSUME NEW f, NEW g, NEW S, IsFiniteSet(S), \A x \in S : f[x] = g[x]
    PROVE  SumFunctionOnSet(f, S) = SumFunctionOnSet(g, S)
<1>1. PICK h : Adds(h, f, S)
  BY AddsExists
<1>2. \A s \in SUBSET S : s # {} => First(s) \in S
  BY DEF First
<1>3. Adds(h, g, S)
  <2>1. \A s \in SUBSET S : h[s] = IF s = {} THEN 0 ELSE g[First(s)] + h[s \ {First(s)}]
    BY <1>1, <1>2 DEF Adds
  <2>2. h = [s \in SUBSET S |-> h[s]]
    BY <1>1 DEF Adds
  <2> QED
    BY <2>1, <2>2 DEF Adds
<1> QED
  BY <1>1, <1>3, SumIs

(* One summand changes.                                                    *)
LEMMA SumChange ==
    ASSUME NEW f, NEW g, NEW S, IsFiniteSet(S), NEW x \in S,
           \A y \in S : f[y] \in Int /\ g[y] \in Int,
           \A y \in S \ {x} : f[y] = g[y]
    PROVE  /\ SumFunctionOnSet(g, S) = SumFunctionOnSet(f, S) - f[x] + g[x]
           /\ SumFunctionOnSet(f, S) \in Int
           /\ SumFunctionOnSet(g, S) \in Int
<1>1. IsFiniteSet(S \ {x})
  BY FS_RemoveElement
<1> DEFINE r == SumFunctionOnSet(f, S \ {x})
           sf == SumFunctionOnSet(f, S)
           sg == SumFunctionOnSet(g, S)
<1>2. r \in Int /\ sf \in Int /\ sg \in Int
  BY <1>1, SumType
<1>3. r = SumFunctionOnSet(g, S \ {x})
  BY <1>1, SumSame
<1>4. sf = f[x] + r /\ sg = g[x] + r
  BY <1>3, SumRemove
<1>5. f[x] \in Int /\ g[x] \in Int
  OBVIOUS
<1> HIDE DEF r, sf, sg
<1>6. sg = sf - f[x] + g[x]
  BY <1>2, <1>4, <1>5
<1> QED
  BY <1>2, <1>6 DEF sf, sg

(* None of the summands exceeds the sum.                                   *)
LEMMA SumBounds ==
    ASSUME NEW g, NEW S, IsFiniteSet(S), \A y \in S : g[y] \in Nat, NEW x \in S
    PROVE  g[x] <= SumFunctionOnSet(g, S) /\ SumFunctionOnSet(g, S) \in Nat
<1>1. IsFiniteSet(S \ {x})
  BY FS_RemoveElement
<1>2. SumFunctionOnSet(g, S \ {x}) \in Nat /\ SumFunctionOnSet(g, S) \in Nat
  BY <1>1, SumType
<1>3. SumFunctionOnSet(g, S) = g[x] + SumFunctionOnSet(g, S \ {x})
  BY SumRemove
<1> QED
  BY <1>2, <1>3

(* What is nothing may be left out.                                        *)
LEMMA SumSubset ==
    ASSUME NEW g, NEW S, IsFiniteSet(S), NEW T, T \subseteq S, \A y \in S : g[y] \in Nat
    PROVE  SumFunctionOnSet(g, T) <= SumFunctionOnSet(g, S)
<1> DEFINE sum(s) == SumFunctionOnSet(g, s)
           bad == {n \in Nat : \E t \in SUBSET S :
                      T \subseteq t /\ Cardinality(t) = n /\ ~(sum(T) <= sum(t))}
<1> HIDE DEF sum
<1>1. ASSUME ~(sum(T) <= sum(S)) PROVE FALSE
  <2>1. Cardinality(S) \in bad
    BY <1>1, FS_CardinalityType
  <2>2. PICK n \in bad : \A m \in bad : n <= m
    BY <2>1, SmallestSize
  <2>3. PICK t \in SUBSET S : T \subseteq t /\ Cardinality(t) = n /\ ~(sum(T) <= sum(t))
    BY <2>2
  <2>4. IsFiniteSet(t) /\ n \in Nat
    BY <2>2, FS_Subset
  <2>5. IsFiniteSet(T) /\ sum(T) \in Nat /\ sum(t) \in Nat
    BY <2>3, <2>4, FS_Subset, SumType DEF sum
  <2>6. PICK y \in t : y \notin T
    BY <2>3, <2>5
  <2>7. /\ IsFiniteSet(t \ {y}) /\ Cardinality(t \ {y}) = n - 1
        /\ Cardinality(t \ {y}) \in Nat
    BY <2>3, <2>4, <2>6, FS_RemoveElement, FS_CardinalityType
  <2>8. Cardinality(t \ {y}) \notin bad
    <3> HIDE DEF bad
    <3> QED
      BY <2>2, <2>4, <2>7
  <2>9. sum(T) <= sum(t \ {y})
    BY <2>3, <2>6, <2>7, <2>8
  <2>10. sum(t) = g[y] + sum(t \ {y}) /\ g[y] \in Nat
    BY <2>4, <2>6, SumRemove DEF sum
  <2>11. sum(t \ {y}) \in Nat
    BY <2>7, SumType DEF sum
  <2> QED
    BY <2>3, <2>5, <2>9, <2>10, <2>11
<1> QED
  BY <1>1 DEF sum

LEMMA SumZero ==
    ASSUME NEW g, NEW S, IsFiniteSet(S), \A x \in S : g[x] = 0
    PROVE  SumFunctionOnSet(g, S) = 0
<1> DEFINE sum(s) == SumFunctionOnSet(g, s)
           bad == {n \in Nat : \E t \in SUBSET S : Cardinality(t) = n /\ sum(t) # 0}
<1> HIDE DEF sum
<1>1. ASSUME sum(S) # 0 PROVE FALSE
  <2>1. Cardinality(S) \in bad
    BY <1>1, FS_CardinalityType
  <2>2. PICK n \in bad : \A m \in bad : n <= m
    BY <2>1, SmallestSize
  <2>3. PICK t \in SUBSET S : Cardinality(t) = n /\ sum(t) # 0
    BY <2>2
  <2>4. IsFiniteSet(t) /\ t # {}
    BY <2>3, FS_Subset, SumOfNone DEF sum
  <2>5. /\ First(t) \in t /\ IsFiniteSet(t \ {First(t)}) /\ Cardinality(t \ {First(t)}) < n
        /\ Cardinality(t \ {First(t)}) \in Nat /\ n \in Nat
    BY <2>3, <2>4, WithoutFirst, FS_CardinalityType
  <2>6. Cardinality(t \ {First(t)}) \notin bad
    <3> HIDE DEF bad
    <3> QED
      BY <2>2, <2>5
  <2>7. sum(t \ {First(t)}) = 0
    BY <2>5, <2>6
  <2>8. sum(t) = g[First(t)] + sum(t \ {First(t)})
    BY <2>4, SumFirst DEF sum
  <2> QED
    BY <2>3, <2>5, <2>7, <2>8
<1> QED
  BY <1>1 DEF sum

-----------------------------------------------------------------------------
(* Arithmetic the provers do not find by themselves.                       *)

LEMMA TimesMonotone ==
    ASSUME NEW c \in Nat, NEW x \in Nat, NEW y \in Nat, x <= y
    PROVE  c * x \in Nat /\ c * y \in Nat /\ c * x <= c * y
<1>1. PICK d \in Nat : y = x + d
  <2>1. y - x \in Nat /\ y = x + (y - x)
    OBVIOUS
  <2> QED
    BY <2>1
<1>2. c * y = c * x + c * d /\ c * x \in Nat /\ c * d \in Nat
  BY <1>1
<1> QED
  BY <1>2

LEMMA QuotientType ==
    ASSUME NEW x \in Nat, NEW p \in Nat \ {0}
    PROVE  /\ x \div p \in Nat
           /\ p * (x \div p) <= x /\ x < p * (x \div p) + p
  OBVIOUS

LEMMA QuotientMonotone ==
    ASSUME NEW x \in Nat, NEW y \in Nat, x <= y, NEW p \in Nat \ {0}
    PROVE  x \div p <= y \div p
<1> DEFINE u == x \div p
           v == y \div p
<1>1. /\ u \in Nat /\ p * u <= x
      /\ v \in Nat /\ y < p * v + p
  BY QuotientType
<1> HIDE DEF u, v
<1>2. ASSUME v < u PROVE FALSE
  <2>1. v + 1 <= u /\ v + 1 \in Nat
    BY <1>1, <1>2
  <2>2. p * (v + 1) <= p * u /\ p * (v + 1) = p * v + p /\ p * u \in Nat /\ p * v \in Nat
    BY <1>1, <2>1, TimesMonotone
  <2> QED
    BY <1>1, <2>2
<1>3. u <= v
  BY <1>1, <1>2
<1> QED
  BY <1>3 DEF u, v

LEMMA QuotientBelow ==
    ASSUME NEW x \in Nat, NEW c \in Nat, NEW p \in Nat \ {0}, x <= c * p
    PROVE  x \div p <= c
<1> DEFINE u == x \div p
<1>1. u \in Nat /\ p * u <= x
  BY QuotientType
<1> HIDE DEF u
<1>2. ASSUME c < u PROVE FALSE
  <2>1. c + 1 <= u /\ c + 1 \in Nat
    BY <1>1, <1>2
  <2>2. p * (c + 1) <= p * u /\ p * (c + 1) = c * p + p /\ p * u \in Nat /\ c * p \in Nat
    BY <1>1, <2>1, TimesMonotone
  <2> QED
    BY <1>1, <2>2
<1>3. u <= c
  BY <1>1, <1>2
<1> QED
  BY <1>3 DEF u
=============================================================================
