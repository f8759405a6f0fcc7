------------------------------ MODULE DataLemmas ------------------------------
(***************************************************************************)
(* Lemmas about the data every component is built from: storage maps, and   *)
(* sums over finite sets (SumFunctionOnSet of the module Functions).  That  *)
(* the recursive function behind a sum exists, and the laws of addition,    *)
(* follow by looking at a smallest set for which they would fail.           *)
(***************************************************************************)
EXTENDS StorageMap, Integers, FiniteSets, Functions, FiniteSetTheorems,
        WellFoundedInduction, TLAPS

-------------------------------------------------------------------------------
(* Storage maps.                                                             *)

\* StorageMap::insert of a well-typed entry yields a well-typed map.
LEMMA InsertIsMap ==
    ASSUME NEW m, NEW K, NEW V, IsMap(m, K, V), NEW k \in K, NEW v \in V
    PROVE  IsMap(Insert(m, k, v), K, V)
  BY DEF IsMap, Insert

\* StorageMap::remove never adds or changes an entry.
LEMMA RemoveIsMap ==
    ASSUME NEW m, NEW K, NEW V, IsMap(m, K, V), NEW k
    PROVE  IsMap(Remove(m, k), K, V)
  BY DEF IsMap, Remove

\* The empty storage is a map of every type.
LEMMA EmptyIsMap == ASSUME NEW K, NEW V PROVE IsMap(EmptyMap, K, V)
  BY DEF IsMap, EmptyMap

\* Overwriting the value of a present key.
LEMMA ExceptIsMap ==
    ASSUME NEW m, NEW K, NEW V, IsMap(m, K, V), NEW k \in DOMAIN m, NEW v \in V
    PROVE  IsMap([m EXCEPT ![k] = v], K, V)
  BY DEF IsMap

\* Looking up a present key.
LEMMA LookupInMap ==
    ASSUME NEW m, NEW K, NEW V, IsMap(m, K, V), NEW k \in DOMAIN m
    PROVE  k \in K /\ m[k] \in V
  BY DEF IsMap

\* Removing an absent key changes nothing.
LEMMA RemoveAbsent ==
    ASSUME NEW m, NEW K, NEW V, IsMap(m, K, V), NEW k, k \notin DOMAIN m
    PROVE  Remove(m, k) = m
  BY DEF IsMap, Remove

\* StorageMap::insert and ::remove touch one key.
LEMMA OtherKeys ==
    ASSUME NEW m, NEW p, NEW q, q # p, NEW v
    PROVE  /\ q \in DOMAIN Insert(m, p, v) <=> q \in DOMAIN m
           /\ q \in DOMAIN m => Insert(m, p, v)[q] = m[q]
           /\ q \in DOMAIN Remove(m, p) <=> q \in DOMAIN m
           /\ q \in DOMAIN m => Remove(m, p)[q] = m[q]
           /\ p \notin DOMAIN Remove(m, p)
           /\ p \in DOMAIN Insert(m, p, v)
  BY DEF Insert, Remove

\* Nonempty sets of natural numbers have a least element.
LEMMA LeastNat ==
    ASSUME NEW T \in SUBSET Nat, T # {}
    PROVE  \E m \in T : \A k \in T : m =< k
  <1>1. PICK m \in T : \A k \in T : <<k, m>> \notin OpToRel(<, Nat)
    BY NatLessThanWellFounded, WFMin
  <1>2. \A k \in T : ~(k < m)
    BY <1>1 DEF OpToRel
  <1> QED BY <1>2

-------------------------------------------------------------------------------
(* Sums.                                                                     *)

\* Among subsets of a finite set there is one without a smaller one.
LEMMA SmallestSubset ==
    ASSUME NEW S, IsFiniteSet(S), NEW T \in SUBSET (SUBSET S), T # {}
    PROVE  \E s \in T : \A u \in T : ~(u \subseteq s /\ u # s)
  <1>1. T \subseteq FiniteSubsetsOf(S)
    BY FS_Subset DEF FiniteSubsetsOf
  <1>2. PICK s \in T : \A u \in T : <<u, s>> \notin StrictSubsetOrdering(S)
    BY <1>1, FS_StrictSubsetOrderingWellFounded, WFMin
  <1>3. \A u \in T : <<u, s>> \in (SUBSET S) \X (SUBSET S)
    OBVIOUS
  <1> QED BY <1>2, <1>3 DEF StrictSubsetOrdering

Pick(s) == CHOOSE x \in s : TRUE

\* g holds the sums of F over all subsets of S.
SumsUp(g, F, S) ==
    g = [s \in SUBSET S |-> IF s = {} THEN 0 ELSE F[Pick(s)] + g[s \ {Pick(s)}]]

\* What is picked is an element.
LEMMA PickElement == ASSUME NEW s, s # {} PROVE Pick(s) \in s
  BY DEF Pick

\* The sum is read off such a function, if there is one.
LEMMA SumReads ==
    ASSUME NEW F, NEW S, \E g : SumsUp(g, F, S)
    PROVE  \E g : SumsUp(g, F, S) /\ SumFunctionOnSet(F, S) = g[S]
  <1>1. SumFunctionOnSet(F, S) = (CHOOSE g : SumsUp(g, F, S))[S]
    BY DEF SumFunctionOnSet, FoldFunctionOnSet, MapThenFoldSet, SumsUp, Pick
  <1> QED BY <1>1

\* Two such functions agree where both are defined.
LEMMA SumsAgree ==
    ASSUME NEW F, NEW S, NEW U \in SUBSET S, IsFiniteSet(S), NEW g, NEW h,
           SumsUp(g, F, S), SumsUp(h, F, U)
    PROVE  \A v \in SUBSET U : g[v] = h[v]
  <1> DEFINE bad == {v \in SUBSET U : g[v] # h[v]}
  <1>1. SUFFICES ASSUME bad # {} PROVE FALSE
    OBVIOUS
  <1>2. PICK v \in bad : \A u \in bad : ~(u \subseteq v /\ u # v)
    <2>1. IsFiniteSet(U) /\ bad \in SUBSET (SUBSET U)
      BY FS_Subset
    <2> HIDE DEF bad
    <2> QED BY <1>1, <2>1, SmallestSubset
  <1>3. /\ g[v] = IF v = {} THEN 0 ELSE F[Pick(v)] + g[v \ {Pick(v)}]
        /\ h[v] = IF v = {} THEN 0 ELSE F[Pick(v)] + h[v \ {Pick(v)}]
    BY DEF SumsUp
  <1>4. v # {} /\ g[v \ {Pick(v)}] # h[v \ {Pick(v)}]
    BY <1>3
  <1>5. v \ {Pick(v)} \in bad
    BY <1>4
  <1> QED BY <1>2, <1>4, <1>5, PickElement

\* There is one.
LEMMA SumExists ==
    ASSUME NEW F, NEW S, IsFiniteSet(S)
    PROVE  \E g : SumsUp(g, F, S)
  <1> DEFINE bad == {s \in SUBSET S : ~\E g : SumsUp(g, F, s)}
  <1>1. SUFFICES ASSUME bad # {} PROVE FALSE
    OBVIOUS
  <1>2. PICK s \in bad : \A u \in bad : ~(u \subseteq s /\ u # s)
    <2>1. bad \in SUBSET (SUBSET S)
      OBVIOUS
    <2> HIDE DEF bad
    <2> QED BY <1>1, <2>1, SmallestSubset
  <1>3. ASSUME NEW u \in SUBSET s, u # s
        PROVE  \E g : SumsUp(g, F, u) /\ SumFunctionOnSet(F, u) = g[u]
    <2>1. u \in SUBSET S /\ u \notin bad
      BY <1>2, <1>3
    <2> QED BY <2>1, SumReads
  <1> HIDE DEF bad
  <1>4. ASSUME NEW u \in SUBSET s, u # s
        PROVE  SumFunctionOnSet(F, u) =
                 IF u = {} THEN 0 ELSE F[Pick(u)] + SumFunctionOnSet(F, u \ {Pick(u)})
    <2>1. PICK g : SumsUp(g, F, u) /\ SumFunctionOnSet(F, u) = g[u]
      BY <1>3, <1>4
    <2>2. g[u] = IF u = {} THEN 0 ELSE F[Pick(u)] + g[u \ {Pick(u)}]
      BY <2>1 DEF SumsUp
    <2>3. ASSUME u # {} PROVE g[u \ {Pick(u)}] = SumFunctionOnSet(F, u \ {Pick(u)})
      <3> DEFINE w == u \ {Pick(u)}
      <3>1. w \in SUBSET s /\ w # s /\ w \in SUBSET u
        BY <1>4, <2>3, PickElement
      <3>2. PICK h : SumsUp(h, F, w) /\ SumFunctionOnSet(F, w) = h[w]
        BY <1>3, <3>1
      <3>3. IsFiniteSet(u)
        BY <1>4, <1>2, FS_Subset DEF bad
      <3>4. w \in SUBSET w
        OBVIOUS
      <3> HIDE DEF w
      <3>5. g[w] = h[w]
        BY <2>1, <3>1, <3>2, <3>3, <3>4, SumsAgree
      <3> QED BY <3>2, <3>5 DEF w
    <2> QED BY <2>1, <2>2, <2>3
  <1> DEFINE G == [t \in SUBSET s |-> IF t = {} THEN 0
                                      ELSE F[Pick(t)] + SumFunctionOnSet(F, t \ {Pick(t)})]
  <1>5. ASSUME NEW t \in SUBSET s, t # {}
        PROVE  G[t \ {Pick(t)}] = SumFunctionOnSet(F, t \ {Pick(t)})
    <2>1. t \ {Pick(t)} \in SUBSET s /\ t \ {Pick(t)} # s
      BY <1>5, PickElement
    <2> QED BY <2>1, <1>4
  <1>6. SumsUp(G, F, s)
    BY <1>5 DEF SumsUp
  <1> QED BY <1>2, <1>6 DEF bad

\* The sum over no element and over one more.
LEMMA SumStep ==
    ASSUME NEW F, NEW S, IsFiniteSet(S)
    PROVE  /\ SumFunctionOnSet(F, {}) = 0
           /\ S # {} => SumFunctionOnSet(F, S) = F[Pick(S)] + SumFunctionOnSet(F, S \ {Pick(S)})
  <1>1. SumFunctionOnSet(F, {}) = 0
    <2>1. PICK g : SumsUp(g, F, {}) /\ SumFunctionOnSet(F, {}) = g[{}]
      BY FS_EmptySet, SumExists, SumReads
    <2> QED BY <2>1 DEF SumsUp
  <1>2. ASSUME S # {}
        PROVE  SumFunctionOnSet(F, S) = F[Pick(S)] + SumFunctionOnSet(F, S \ {Pick(S)})
    <2> DEFINE w == S \ {Pick(S)}
    <2>1. PICK g : SumsUp(g, F, S) /\ SumFunctionOnSet(F, S) = g[S]
      BY SumExists, SumReads
    <2>2. IsFiniteSet(w) /\ w \in SUBSET S /\ w \in SUBSET w
      BY FS_Subset
    <2>3. g[S] = F[Pick(S)] + g[w]
      BY <1>2, <2>1 DEF SumsUp
    <2> HIDE DEF w
    <2>4. PICK h : SumsUp(h, F, w) /\ SumFunctionOnSet(F, w) = h[w]
      BY <2>2, SumExists, SumReads
    <2>5. g[w] = h[w]
      BY <2>1, <2>2, <2>4, SumsAgree
    <2> QED BY <2>1, <2>3, <2>4, <2>5 DEF w
  <1> QED BY <1>1, <1>2

\* Sums of natural numbers are natural numbers, sums of integers integers.
LEMMA SumType ==
    ASSUME NEW F, NEW S, IsFiniteSet(S), NEW N \in {Nat, Int}, \A x \in S : F[x] \in N
    PROVE  SumFunctionOnSet(F, S) \in N
  <1> DEFINE bad == {s \in SUBSET S : SumFunctionOnSet(F, s) \notin N}
  <1>1. SUFFICES ASSUME bad # {} PROVE FALSE
    OBVIOUS
  <1>2. PICK s \in bad : \A u \in bad : ~(u \subseteq s /\ u # s)
    <2>1. bad \in SUBSET (SUBSET S)
      OBVIOUS
    <2> HIDE DEF bad
    <2> QED BY <1>1, <2>1, SmallestSubset
  <1>3. IsFiniteSet(s) /\ SumFunctionOnSet(F, s) \notin N /\ s \in SUBSET S
    BY <1>2, FS_Subset
  <1>4. s # {}
    <2>1. SumFunctionOnSet(F, {}) = 0
      BY FS_EmptySet, SumStep
    <2>2. 0 \in N
      OBVIOUS
    <2> QED BY <1>3, <2>1, <2>2
  <1>5. Pick(s) \in s
    BY <1>4, PickElement
  <1>6. SumFunctionOnSet(F, s \ {Pick(s)}) \in N
    BY <1>2, <1>5
  <1>7. SumFunctionOnSet(F, s) = F[Pick(s)] + SumFunctionOnSet(F, s \ {Pick(s)})
    BY <1>3, <1>4, SumStep
  <1>8. F[Pick(s)] \in N
    BY <1>3, <1>5
  <1> QED BY <1>3, <1>6, <1>7, <1>8

\* Any element can be taken out of a sum first.
LEMMA SumElement ==
    ASSUME NEW F, NEW S, IsFiniteSet(S), \A x \in S : F[x] \in Int, NEW e \in S
    PROVE  SumFunctionOnSet(F, S) = F[e] + SumFunctionOnSet(F, S \ {e})
  <1> DEFINE Sum(s) == SumFunctionOnSet(F, s)
             bad == {s \in SUBSET S : \E y \in s : Sum(s) # F[y] + Sum(s \ {y})}
  <1>1. SUFFICES ASSUME bad # {} PROVE FALSE
    OBVIOUS
  <1>2. PICK s \in bad : \A u \in bad : ~(u \subseteq s /\ u # s)
    <2>1. bad \in SUBSET (SUBSET S)
      OBVIOUS
    <2> HIDE DEF bad
    <2> QED BY <1>1, <2>1, SmallestSubset
  <1>3. PICK y \in s : Sum(s) # F[y] + Sum(s \ {y})
    BY <1>2
  <1>4. /\ \A t \in SUBSET S : Sum(t) \in Int
        /\ \A t \in SUBSET S : IsFiniteSet(t)
    BY FS_Subset, SumType
  <1> DEFINE x == Pick(s)
  <1>5. x \in s
    BY <1>3, PickElement
  <1>6. Sum(s) = F[x] + Sum(s \ {x})
    BY <1>2, <1>3, <1>4, SumStep
  <1> HIDE DEF Sum, x
  <1>7. x # y
    BY <1>3, <1>6
  <1>8. \A u \in SUBSET s : u # s => \A z \in u : Sum(u) = F[z] + Sum(u \ {z})
    BY <1>2
  <1>9. Sum(s \ {x}) = F[y] + Sum((s \ {x}) \ {y})
    BY <1>3, <1>5, <1>7, <1>8
  <1>10. Sum(s \ {y}) = F[x] + Sum((s \ {y}) \ {x})
    BY <1>3, <1>5, <1>7, <1>8
  <1>11. (s \ {x}) \ {y} = (s \ {y}) \ {x}
    OBVIOUS
  <1>12. /\ F[x] \in Int /\ F[y] \in Int
         /\ Sum((s \ {x}) \ {y}) \in Int
    BY <1>2, <1>3, <1>4, <1>5
  <1> DEFINE a == F[x]
             b == F[y]
             rest == Sum((s \ {x}) \ {y})
  <1>13. Sum(s) = a + (b + rest) /\ Sum(s \ {y}) = a + rest
    BY <1>6, <1>9, <1>10, <1>11
  <1>14. Sum(s) # b + Sum(s \ {y}) /\ a \in Int /\ b \in Int /\ rest \in Int
    BY <1>3, <1>12
  <1> HIDE DEF a, b, rest
  <1> QED BY <1>13, <1>14

\* Functions that agree on a set have the same sum over it.
LEMMA SumSame ==
    ASSUME NEW F, NEW G, NEW S, IsFiniteSet(S), \A x \in S : F[x] = G[x]
    PROVE  SumFunctionOnSet(F, S) = SumFunctionOnSet(G, S)
  <1> DEFINE bad == {s \in SUBSET S : SumFunctionOnSet(F, s) # SumFunctionOnSet(G, s)}
  <1>1. SUFFICES ASSUME bad # {} PROVE FALSE
    OBVIOUS
  <1>2. PICK s \in bad : \A u \in bad : ~(u \subseteq s /\ u # s)
    <2>1. bad \in SUBSET (SUBSET S)
      OBVIOUS
    <2> HIDE DEF bad
    <2> QED BY <1>1, <2>1, SmallestSubset
  <1>3. /\ IsFiniteSet(s) /\ s \in SUBSET S
        /\ SumFunctionOnSet(F, s) # SumFunctionOnSet(G, s)
    BY <1>2, FS_Subset
  <1>4. s # {}
    BY <1>3, SumStep
  <1>5. Pick(s) \in s
    BY <1>4, PickElement
  <1>6. SumFunctionOnSet(F, s \ {Pick(s)}) = SumFunctionOnSet(G, s \ {Pick(s)})
    BY <1>2, <1>5
  <1>7. /\ SumFunctionOnSet(F, s) = F[Pick(s)] + SumFunctionOnSet(F, s \ {Pick(s)})
        /\ SumFunctionOnSet(G, s) = G[Pick(s)] + SumFunctionOnSet(G, s \ {Pick(s)})
    BY <1>3, <1>4, SumStep
  <1>8. F[Pick(s)] = G[Pick(s)]
    BY <1>3, <1>5
  <1> QED BY <1>3, <1>6, <1>7, <1>8

\* A part of a sum of natural numbers is at most the whole, and is the whole
\* only if nothing positive is missing.
LEMMA SumPart ==
    ASSUME NEW F, NEW S, IsFiniteSet(S), \A x \in S : F[x] \in Nat, NEW e \in S,
           NEW T \in SUBSET S, e \notin T
    PROVE  SumFunctionOnSet(F, T) + F[e] <= SumFunctionOnSet(F, S)
  <1> DEFINE Sum(s) == SumFunctionOnSet(F, s)
             bad == {s \in SUBSET S : \E t \in SUBSET s, y \in s :
                                          y \notin t /\ ~(Sum(t) + F[y] <= Sum(s))}
  <1>1. SUFFICES ASSUME bad # {} PROVE FALSE
    OBVIOUS
  <1>2. PICK s \in bad : \A u \in bad : ~(u \subseteq s /\ u # s)
    <2>1. bad \in SUBSET (SUBSET S)
      OBVIOUS
    <2> HIDE DEF bad
    <2> QED BY <1>1, <2>1, SmallestSubset
  <1>3. PICK t \in SUBSET s, y \in s : y \notin t /\ ~(Sum(t) + F[y] <= Sum(s))
    BY <1>2
  <1>4. \A u \in SUBSET S : Sum(u) \in Nat /\ IsFiniteSet(u)
    BY FS_Subset, SumType
  <1>5. Sum(s) = F[y] + Sum(s \ {y})
    <2>1. IsFiniteSet(s) /\ \A x \in s : F[x] \in Int
      BY <1>2, <1>4
    <2> QED BY <2>1, SumElement
  <1>6. s \ {y} \in SUBSET S /\ t \in SUBSET S /\ F[y] \in Nat /\ t \in SUBSET (s \ {y})
    BY <1>2, <1>3
  <1> HIDE DEF Sum
  <1>7. Sum(t) > Sum(s \ {y})
    <2>1. Sum(t) \in Nat /\ Sum(s \ {y}) \in Nat
      BY <1>4, <1>6
    <2>2. ~(Sum(t) + F[y] <= F[y] + Sum(s \ {y})) /\ F[y] \in Nat
      BY <1>3, <1>5, <1>6
    <2> DEFINE a == Sum(t)
               b == F[y]
               c == Sum(s \ {y})
    <2>3. ~(a + b <= b + c) /\ a \in Nat /\ b \in Nat /\ c \in Nat
      BY <2>1, <2>2
    <2> HIDE DEF a, b, c
    <2>4. a > c
      BY <2>3
    <2> QED BY <2>4 DEF a, c
  <1>8. PICK z \in s \ {y} : z \notin t
    BY <1>6, <1>7, <1>4
  <1>9. Sum(t) + F[z] <= Sum(s \ {y})
    BY <1>2, <1>3, <1>6, <1>8
  <1>10. F[z] \in Nat
    BY <1>2, <1>8
  <1> QED BY <1>4, <1>6, <1>7, <1>9, <1>10


\* Changing one summand changes the sum by as much.
LEMMA SumUpdate ==
    ASSUME NEW F, NEW G, NEW S, IsFiniteSet(S), \A x \in S : F[x] \in Int /\ G[x] \in Int,
           NEW e \in S, \A x \in S \ {e} : F[x] = G[x]
    PROVE  SumFunctionOnSet(G, S) = SumFunctionOnSet(F, S) + (G[e] - F[e])
  <1> DEFINE rest == SumFunctionOnSet(F, S \ {e})
             f == F[e]
             g == G[e]
  <1>1. IsFiniteSet(S \ {e})
    BY FS_Subset
  <1>2. SumFunctionOnSet(F, S) = f + rest
    BY SumElement
  <1>3. SumFunctionOnSet(G, S) = g + rest
    BY <1>1, SumElement, SumSame
  <1>4. rest \in Int /\ f \in Int /\ g \in Int
    BY <1>1, SumType
  <1> HIDE DEF rest, f, g
  <1>5. SumFunctionOnSet(G, S) = SumFunctionOnSet(F, S) + (g - f)
    BY <1>2, <1>3, <1>4
  <1> QED BY <1>5 DEF f, g

\* A sum of zeros is zero.
LEMMA SumZero ==
    ASSUME NEW F, NEW S, IsFiniteSet(S), \A x \in S : F[x] = 0
    PROVE  SumFunctionOnSet(F, S) = 0
  <1> DEFINE bad == {s \in SUBSET S : SumFunctionOnSet(F, s) # 0}
  <1>1. SUFFICES ASSUME bad # {} PROVE FALSE
    OBVIOUS
  <1>2. PICK s \in bad : \A u \in bad : ~(u \subseteq s /\ u # s)
    <2>1. bad \in SUBSET (SUBSET S)
      OBVIOUS
    <2> HIDE DEF bad
    <2> QED BY <1>1, <2>1, SmallestSubset
  <1>3. IsFiniteSet(s) /\ s \in SUBSET S /\ SumFunctionOnSet(F, s) # 0
    BY <1>2, FS_Subset
  <1>4. s # {}
    BY <1>3, SumStep
  <1>5. Pick(s) \in s
    BY <1>4, PickElement
  <1>6. SumFunctionOnSet(F, s \ {Pick(s)}) = 0
    BY <1>2, <1>5
  <1>7. SumFunctionOnSet(F, s) = F[Pick(s)] + SumFunctionOnSet(F, s \ {Pick(s)})
    BY <1>3, <1>4, SumStep
  <1> QED BY <1>3, <1>5, <1>6, <1>7

\* The sum of as many times the same number.
LEMMA SumConstant ==
    ASSUME NEW F, NEW S, IsFiniteSet(S), NEW T, NEW n \in Nat,
           \A x \in S : (x \in T => F[x] = n) /\ (x \notin T => F[x] = 0)
    PROVE  SumFunctionOnSet(F, S) = n * Cardinality(S \cap T)
  <1> DEFINE bad == {s \in SUBSET S : SumFunctionOnSet(F, s) # n * Cardinality(s \cap T)}
  <1>1. SUFFICES ASSUME bad # {} PROVE FALSE
    OBVIOUS
  <1>2. PICK s \in bad : \A u \in bad : ~(u \subseteq s /\ u # s)
    <2>1. bad \in SUBSET (SUBSET S)
      OBVIOUS
    <2> HIDE DEF bad
    <2> QED BY <1>1, <2>1, SmallestSubset
  <1>3. IsFiniteSet(s) /\ s \in SUBSET S /\ SumFunctionOnSet(F, s) # n * Cardinality(s \cap T)
    BY <1>2, FS_Subset
  <1>4. s # {}
    <2>1. SUFFICES ASSUME s = {} PROVE FALSE
      OBVIOUS
    <2>2. SumFunctionOnSet(F, s) = 0
      BY <1>3, <2>1, SumStep
    <2>3. s \cap T = {} /\ Cardinality({}) = 0
      BY <2>1, FS_EmptySet
    <2> QED BY <1>3, <2>2, <2>3
  <1> DEFINE x == Pick(s)
             r == s \ {x}
             k == Cardinality(r \cap T)
  <1>5. x \in s
    BY <1>4, PickElement
  <1>6. SumFunctionOnSet(F, r) = n * k
    BY <1>2, <1>5
  <1>7. SumFunctionOnSet(F, s) = F[x] + SumFunctionOnSet(F, r)
    BY <1>3, <1>4, SumStep
  <1>8. F[x] = IF x \in T THEN n ELSE 0
    BY <1>3, <1>5
  <1>9. IsFiniteSet(r \cap T)
    BY <1>3, FS_Subset
  <1>10. k \in Nat /\ Cardinality(s \cap T) = IF x \in T THEN k + 1 ELSE k
    <2> HIDE DEF x
    <2>1. x \in T => s \cap T = (r \cap T) \cup {x} /\ x \notin r \cap T
      BY <1>5
    <2>2. x \notin T => s \cap T = r \cap T
      BY <1>5
    <2> QED BY <1>9, <2>1, <2>2, FS_AddElement, FS_CardinalityType
  <1> HIDE DEF x, r, k
  <1>11. n * (k + 1) = n + n * k /\ n * k \in Nat
    BY <1>10
  <1> QED BY <1>3, <1>6, <1>7, <1>8, <1>10, <1>11

\* Finitely many natural numbers, and not none, have a largest.
LEMMA LargestElement ==
    ASSUME NEW S, IsFiniteSet(S), \A x \in S : x \in Nat
    PROVE  S = {} \/ \E m \in S : \A y \in S : m >= y
  <1> DEFINE bad == {s \in SUBSET S : s # {} /\ ~\E m \in s : \A y \in s : m >= y}
  <1>1. SUFFICES ASSUME bad # {} PROVE FALSE
    OBVIOUS
  <1>2. PICK s \in bad : \A u \in bad : ~(u \subseteq s /\ u # s)
    <2>1. bad \in SUBSET (SUBSET S)
      OBVIOUS
    <2> HIDE DEF bad
    <2> QED BY <1>1, <2>1, SmallestSubset
  <1>3. s \in SUBSET S /\ s # {} /\ ~\E m \in s : \A y \in s : m >= y
    BY <1>2
  <1> DEFINE x == Pick(s)
             r == s \ {x}
  <1>4. x \in s /\ x \in Nat
    BY <1>3, PickElement
  <1>5. r # {}
    <2>1. CASE s = {x}
      BY <1>3, <1>4, <2>1
    <2> QED BY <1>4, <2>1
  <1>6. r \in SUBSET S /\ r \notin bad
    BY <1>2, <1>3, <1>4
  <1>7. PICK m \in r : \A y \in r : m >= y
    BY <1>5, <1>6
  <1> HIDE DEF x
  <1>8. m \in s /\ m \in Nat /\ \A y \in s : y \in Nat
    BY <1>3, <1>7
  <1>9. CASE m >= x
    BY <1>3, <1>7, <1>8, <1>9
  <1>10. CASE ~(m >= x)
    <2>1. \A y \in s : x >= y
      BY <1>4, <1>7, <1>8, <1>10
    <2> QED BY <1>3, <1>4, <2>1
  <1> QED BY <1>9, <1>10

-------------------------------------------------------------------------------
(* Counting pairs.                                                           *)

\* The pairs of an element r of R and one of its elements in s[r].
Pairs(R, s) == UNION {{r} \X s[r] : r \in R}

\* They are as many as the sizes of the s[r] add up to.
LEMMA PairsCounted ==
    ASSUME NEW R, IsFiniteSet(R), NEW s, \A r \in R : IsFiniteSet(s[r]),
           NEW F, \A r \in R : F[r] = Cardinality(s[r])
    PROVE  IsFiniteSet(Pairs(R, s)) /\ Cardinality(Pairs(R, s)) = SumFunctionOnSet(F, R)
  <1> DEFINE good(u) == IsFiniteSet(Pairs(u, s))
                        /\ Cardinality(Pairs(u, s)) = SumFunctionOnSet(F, u)
             bad == {u \in SUBSET R : ~good(u)}
  <1>1. SUFFICES ASSUME bad # {} PROVE FALSE
    OBVIOUS
  <1>2. PICK u \in bad : \A v \in bad : ~(v \subseteq u /\ v # u)
    <2>1. bad \in SUBSET (SUBSET R)
      OBVIOUS
    <2> HIDE DEF bad
    <2> QED BY <1>1, <2>1, SmallestSubset
  <1>3. IsFiniteSet(u) /\ u \in SUBSET R
    BY <1>2, FS_Subset
  <1>4. u # {}
    <2>1. Pairs({}, s) = {}
      BY DEF Pairs
    <2>2. SumFunctionOnSet(F, {}) = 0
      BY FS_EmptySet, SumStep
    <2>3. good({})
      BY <2>1, <2>2, FS_EmptySet
    <2> QED BY <1>2, <2>3
  <1> DEFINE x == Pick(u)
             w == u \ {x}
             P == Pairs(w, s)
             Q == {x} \X s[x]
  <1>5. x \in u
    BY <1>4, PickElement
  <1>6. good(w)
    BY <1>2, <1>5
  <1>7. Pairs(u, s) = P \cup Q /\ P \cap Q = {}
    BY <1>5 DEF Pairs
  <1>8. IsFiniteSet(Q) /\ Cardinality(Q) = Cardinality(s[x]) /\ Cardinality(s[x]) \in Nat
    <2>1. IsFiniteSet({x}) /\ Cardinality({x}) = 1
      BY FS_Singleton
    <2>2. IsFiniteSet(s[x]) /\ Cardinality(s[x]) \in Nat
      BY <1>3, <1>5, FS_CardinalityType
    <2>3. IsFiniteSet(Q) /\ Cardinality(Q) = Cardinality({x}) * Cardinality(s[x])
      BY <2>1, <2>2, FS_Product
    <2> QED BY <2>1, <2>2, <2>3
  <1>9. IsFiniteSet(P \cup Q) /\ Cardinality(P \cup Q) = Cardinality(P) + Cardinality(Q)
    <2>1. IsFiniteSet(P) /\ Cardinality(P) \in Nat /\ Cardinality(Q) \in Nat
      BY <1>6, <1>8, FS_CardinalityType
    <2>2. Cardinality(P \cap Q) = 0
      BY <1>7, FS_EmptySet
    <2> HIDE DEF P, Q
    <2>3. IsFiniteSet(P \cup Q)
          /\ Cardinality(P \cup Q) = Cardinality(P) + Cardinality(Q) - Cardinality(P \cap Q)
      BY <1>8, <2>1, FS_Union
    <2> QED BY <2>1, <2>2, <2>3
  <1>10. SumFunctionOnSet(F, u) = F[x] + SumFunctionOnSet(F, w)
    BY <1>3, <1>4, SumStep
  <1>11. Cardinality(P) = SumFunctionOnSet(F, w) /\ Cardinality(P) \in Nat
    BY <1>6, FS_CardinalityType
  <1>12. F[x] = Cardinality(s[x])
    BY <1>3, <1>5
  <1> HIDE DEF P, Q, x, w
  <1>13. good(u)
    BY <1>7, <1>8, <1>9, <1>10, <1>11, <1>12
  <1> QED BY <1>2, <1>13

\* Disjoint parts of a finite set are together no larger than it.
LEMMA DisjointParts ==
    ASSUME NEW S, IsFiniteSet(S), NEW A \in SUBSET S, NEW B \in SUBSET S, A \cap B = {}
    PROVE  /\ IsFiniteSet(A) /\ IsFiniteSet(B)
           /\ Cardinality(A) \in Nat /\ Cardinality(B) \in Nat
           /\ Cardinality(A) + Cardinality(B) =< Cardinality(S)
  <1>1. IsFiniteSet(A) /\ IsFiniteSet(B) /\ Cardinality(A) \in Nat /\ Cardinality(B) \in Nat
    BY FS_Subset, FS_CardinalityType
  <1>2. Cardinality(A \cap B) = 0
    BY FS_EmptySet
  <1>3. Cardinality(A \cup B) = Cardinality(A) + Cardinality(B) - Cardinality(A \cap B)
    BY <1>1, FS_Union
  <1>4. Cardinality(A \cup B) =< Cardinality(S)
    <2>1. A \cup B \in SUBSET S
      OBVIOUS
    <2> QED BY <2>1, FS_Subset
  <1> QED BY <1>1, <1>2, <1>3, <1>4
===============================================================================
