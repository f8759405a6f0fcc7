------------------------------ MODULE FoldLemmas ------------------------------
(***************************************************************************)
(* What a fold over a sequence computes, for an arbitrary operator.  An     *)
(* instance of this module with a component's operator for Op gives the     *)
(* lemmas for that component's folds.  Induction runs over the smallest     *)
(* set, or the smallest number, for which a statement would fail.           *)
(***************************************************************************)
EXTENDS DataLemmas, Sequences

SX == INSTANCE SequencesExt

CONSTANTS
    Op(_, _),     \* what is folded
    Rel(_, _)     \* a relation between results

Fold(b, s) == SX!FoldLeft(Op, b, s)

\* A nonempty set of positions has a last one.
LEMMA LastPosition ==
    ASSUME NEW n \in Nat, NEW T \in SUBSET (1..n), T # {}
    PROVE  SX!Max(T) \in T /\ \A x \in T : x =< SX!Max(T)
  <1> DEFINE bounds == {u \in Nat : \A x \in T : x =< u}
  <1>1. n \in bounds
    OBVIOUS
  <1>2. PICK u \in bounds : \A k \in bounds : u =< k
    <2>1. bounds \in SUBSET Nat
      OBVIOUS
    <2> HIDE DEF bounds
    <2> QED BY <1>1, <2>1, LeastNat
  <1>3. u \in T
    <2> SUFFICES ASSUME u \notin T PROVE FALSE
      OBVIOUS
    <2>1. \A x \in T : x =< u - 1 /\ x >= 1
      OBVIOUS
    <2>2. PICK x \in T : x =< u - 1 /\ x >= 1
      BY <2>1
    <2>3. u - 1 \in Nat
      BY <2>2
    <2>4. u - 1 \in bounds
      BY <2>1, <2>3
    <2> QED BY <1>2, <2>4
  <1>4. \E x \in T : \A y \in T : x >= y
    BY <1>3
  <1> QED BY <1>4 DEF SX!Max

\* Sets of positions of a sequence.
Positions(T) == \E n \in Nat : T \in SUBSET (1..n)

\* They are finite, so are their parts, and they have a last element.
LEMMA PositionsLast ==
    ASSUME NEW T, Positions(T)
    PROVE  /\ IsFiniteSet(T)
           /\ \A U \in SUBSET T : Positions(U)
           /\ T # {} => SX!Max(T) \in T
  <1>1. PICK n \in Nat : T \in SUBSET (1..n)
    BY DEF Positions
  <1>2. IsFiniteSet(1..n)
    BY FS_Interval
  <1>3. IsFiniteSet(T)
    BY <1>1, <1>2, FS_Subset
  <1>4. \A U \in SUBSET T : Positions(U)
    BY <1>1 DEF Positions
  <1>5. T # {} => SX!Max(T) \in T
    BY <1>1, LastPosition
  <1> QED BY <1>3, <1>4, <1>5

-------------------------------------------------------------------------------
(* The recursive function behind a fold.                                     *)

\* g holds what Op makes of b over every set of positions of s in T.
Traces(g, b, s, T) ==
    g = [t \in SUBSET T |-> IF t = {} THEN b ELSE Op(g[t \ {SX!Max(t)}], s[SX!Max(t)])]

\* The fold over the positions T of s.
FoldOn(b, s, T) ==
    SX!MapThenFoldSet(LAMBDA x, y : Op(y, x), b, LAMBDA i : s[i], LAMBDA S : SX!Max(S), T)

\* It is read off such a function, if there is one.
LEMMA FoldReads ==
    ASSUME NEW b, NEW s, NEW T, \E g : Traces(g, b, s, T)
    PROVE  \E g : Traces(g, b, s, T) /\ FoldOn(b, s, T) = g[T]
  <1>1. FoldOn(b, s, T) = (CHOOSE g : Traces(g, b, s, T))[T]
    BY DEF FoldOn, SX!MapThenFoldSet, Traces
  <1> QED BY <1>1

\* Two such functions agree where both are defined.
LEMMA TracesAgree ==
    ASSUME NEW b, NEW s, NEW T, Positions(T), NEW U \in SUBSET T,
           NEW g, NEW h, Traces(g, b, s, T), Traces(h, b, s, U)
    PROVE  \A v \in SUBSET U : g[v] = h[v]
  <1> DEFINE bad == {v \in SUBSET U : g[v] # h[v]}
  <1>1. SUFFICES ASSUME bad # {} PROVE FALSE
    OBVIOUS
  <1>2. PICK v \in bad : \A u \in bad : ~(u \subseteq v /\ u # v)
    <2>1. IsFiniteSet(U) /\ bad \in SUBSET (SUBSET U)
      BY PositionsLast, FS_Subset
    <2> HIDE DEF bad
    <2> QED BY <1>1, <2>1, SmallestSubset
  <1>3. /\ g[v] = IF v = {} THEN b ELSE Op(g[v \ {SX!Max(v)}], s[SX!Max(v)])
        /\ h[v] = IF v = {} THEN b ELSE Op(h[v \ {SX!Max(v)}], s[SX!Max(v)])
    BY DEF Traces
  <1>4. v # {} /\ g[v \ {SX!Max(v)}] # h[v \ {SX!Max(v)}]
    BY <1>3
  <1>5. v \ {SX!Max(v)} \in bad
    BY <1>4
  <1>6. SX!Max(v) \in v
    <2>1. Positions(v)
      BY PositionsLast
    <2> QED BY <1>4, <2>1, PositionsLast
  <1> QED BY <1>2, <1>5, <1>6

\* There is one.
LEMMA TraceExists ==
    ASSUME NEW b, NEW s, NEW T, Positions(T)
    PROVE  \E g : Traces(g, b, s, T)
  <1> DEFINE bad == {t \in SUBSET T : ~\E g : Traces(g, b, s, t)}
  <1>1. SUFFICES ASSUME bad # {} PROVE FALSE
    OBVIOUS
  <1>2. PICK t \in bad : \A u \in bad : ~(u \subseteq t /\ u # t)
    <2>1. IsFiniteSet(T) /\ bad \in SUBSET (SUBSET T)
      BY PositionsLast
    <2> HIDE DEF bad
    <2> QED BY <1>1, <2>1, SmallestSubset
  <1>3. ASSUME NEW u \in SUBSET t, u # t
        PROVE  \E g : Traces(g, b, s, u) /\ FoldOn(b, s, u) = g[u]
    <2>1. u \in SUBSET T /\ u \notin bad
      BY <1>2, <1>3
    <2> QED BY <2>1, FoldReads
  <1>4. \A u \in SUBSET t : Positions(u)
    BY <1>2, PositionsLast
  <1>5. ASSUME NEW u \in SUBSET t, u # {} PROVE SX!Max(u) \in u
    BY <1>4, <1>5, PositionsLast
  <1> HIDE DEF bad
  <1>6. ASSUME NEW u \in SUBSET t, u # t
        PROVE  FoldOn(b, s, u) =
                 IF u = {} THEN b ELSE Op(FoldOn(b, s, u \ {SX!Max(u)}), s[SX!Max(u)])
    <2>1. PICK g : Traces(g, b, s, u) /\ FoldOn(b, s, u) = g[u]
      BY <1>3, <1>6
    <2>2. g[u] = IF u = {} THEN b ELSE Op(g[u \ {SX!Max(u)}], s[SX!Max(u)])
      BY <2>1 DEF Traces
    <2>3. ASSUME u # {} PROVE g[u \ {SX!Max(u)}] = FoldOn(b, s, u \ {SX!Max(u)})
      <3> DEFINE w == u \ {SX!Max(u)}
      <3>1. w \in SUBSET t /\ w # t /\ w \in SUBSET u /\ w \in SUBSET w
            /\ Positions(u)
        BY <1>4, <1>5, <1>6, <2>3
      <3>2. PICK h : Traces(h, b, s, w) /\ FoldOn(b, s, w) = h[w]
        BY <1>3, <3>1
      <3> HIDE DEF w
      <3>3. g[w] = h[w]
        BY <2>1, <3>1, <3>2, TracesAgree
      <3> QED BY <3>2, <3>3 DEF w
    <2> QED BY <2>1, <2>2, <2>3
  <1> DEFINE G == [u \in SUBSET t |-> IF u = {} THEN b
                                      ELSE Op(FoldOn(b, s, u \ {SX!Max(u)}), s[SX!Max(u)])]
  <1>7. ASSUME NEW u \in SUBSET t, u # {}
        PROVE  G[u \ {SX!Max(u)}] = FoldOn(b, s, u \ {SX!Max(u)})
    <2>1. u \ {SX!Max(u)} \in SUBSET t /\ u \ {SX!Max(u)} # t
      BY <1>5, <1>7
    <2> QED BY <2>1, <1>6
  <1>8. Traces(G, b, s, t)
    BY <1>7 DEF Traces
  <1> QED BY <1>2, <1>8 DEF bad

\* The fold over no position and over one more.
LEMMA FoldOnStep ==
    ASSUME NEW b, NEW s, NEW T, Positions(T)
    PROVE  /\ FoldOn(b, s, {}) = b
           /\ T # {} => FoldOn(b, s, T) = Op(FoldOn(b, s, T \ {SX!Max(T)}), s[SX!Max(T)])
  <1>1. FoldOn(b, s, {}) = b
    <2>1. Positions({})
      BY PositionsLast
    <2>2. PICK g : Traces(g, b, s, {}) /\ FoldOn(b, s, {}) = g[{}]
      BY <2>1, TraceExists, FoldReads
    <2> QED BY <2>2 DEF Traces
  <1>2. ASSUME T # {}
        PROVE  FoldOn(b, s, T) = Op(FoldOn(b, s, T \ {SX!Max(T)}), s[SX!Max(T)])
    <2> DEFINE w == T \ {SX!Max(T)}
    <2>1. PICK g : Traces(g, b, s, T) /\ FoldOn(b, s, T) = g[T]
      BY TraceExists, FoldReads
    <2>2. Positions(w) /\ w \in SUBSET T /\ w \in SUBSET w
      BY PositionsLast
    <2>3. g[T] = Op(g[w], s[SX!Max(T)])
      BY <1>2, <2>1 DEF Traces
    <2> HIDE DEF w
    <2>4. PICK h : Traces(h, b, s, w) /\ FoldOn(b, s, w) = h[w]
      BY <2>2, TraceExists, FoldReads
    <2>5. g[w] = h[w]
      BY <2>1, <2>2, <2>4, TracesAgree
    <2> QED BY <2>1, <2>3, <2>4, <2>5 DEF w
  <1> QED BY <1>1, <1>2

\* The same over the first k positions.
LEMMA FoldUpTo ==
    ASSUME NEW b, NEW s, NEW k \in Nat
    PROVE  /\ FoldOn(b, s, 1..0) = b
           /\ FoldOn(b, s, 1..(k + 1)) = Op(FoldOn(b, s, 1..k), s[k + 1])
  <1>1. 1..0 = {}
    OBVIOUS
  <1>2. 1..(k + 1) # {} /\ k + 1 \in Nat /\ Positions(1..(k + 1)) /\ Positions({})
    <2>1. k + 1 \in Nat /\ 1..(k + 1) \in SUBSET (1..(k + 1)) /\ {} \in SUBSET (1..(k + 1))
      OBVIOUS
    <2>2. k + 1 \in 1..(k + 1)
      OBVIOUS
    <2> QED BY <2>1, <2>2 DEF Positions
  <1>3. SX!Max(1..(k + 1)) = k + 1
    <2>1. SX!Max(1..(k + 1)) \in 1..(k + 1) /\ \A x \in 1..(k + 1) : x =< SX!Max(1..(k + 1))
      BY <1>2, LastPosition
    <2> DEFINE m == SX!Max(1..(k + 1))
    <2>2. m \in 1..(k + 1) /\ k + 1 =< m
      BY <2>1
    <2> HIDE DEF m
    <2>3. m = k + 1
      BY <2>2
    <2> QED BY <2>3 DEF m
  <1>4. 1..(k + 1) \ {k + 1} = 1..k
    OBVIOUS
  <1>5. FoldOn(b, s, {}) = b
    BY <1>2, FoldOnStep
  <1>6. FoldOn(b, s, 1..(k + 1)) =
          Op(FoldOn(b, s, 1..(k + 1) \ {SX!Max(1..(k + 1))}), s[SX!Max(1..(k + 1))])
    BY <1>2, FoldOnStep
  <1> QED BY <1>1, <1>3, <1>4, <1>5, <1>6

-------------------------------------------------------------------------------
(* Folds over sequences.                                                     *)

\* Folds over positions where two sequences agree are equal.
LEMMA FoldSame ==
    ASSUME NEW b, NEW s, NEW r, NEW n \in Nat, \A i \in 1..n : s[i] = r[i]
    PROVE  FoldOn(b, s, 1..n) = FoldOn(b, r, 1..n)
  <1> DEFINE bad == {k \in 0..n : FoldOn(b, s, 1..k) # FoldOn(b, r, 1..k)}
  <1>1. SUFFICES ASSUME bad # {} PROVE FALSE
    OBVIOUS
  <1>2. PICK k \in bad : \A j \in bad : k =< j
    <2>1. bad \in SUBSET Nat
      OBVIOUS
    <2> HIDE DEF bad
    <2> QED BY <1>1, <2>1, LeastNat
  <1>3. k # 0
    BY <1>2, FoldUpTo
  <1>4. k - 1 \in Nat /\ (k - 1) + 1 = k /\ k \in 1..n /\ k - 1 \notin bad /\ k - 1 \in 0..n
    BY <1>2, <1>3
  <1> DEFINE j == k - 1
  <1>5. FoldOn(b, s, 1..j) = FoldOn(b, r, 1..j)
    BY <1>4
  <1>6. /\ FoldOn(b, s, 1..(j + 1)) = Op(FoldOn(b, s, 1..j), s[j + 1])
        /\ FoldOn(b, r, 1..(j + 1)) = Op(FoldOn(b, r, 1..j), r[j + 1])
    BY <1>4, FoldUpTo
  <1>7. s[k] = r[k]
    BY <1>4
  <1> QED BY <1>2, <1>4, <1>5, <1>6, <1>7

\* A fold is one over all positions.
LEMMA FoldIsFoldOn ==
    ASSUME NEW b, NEW S, NEW s \in Seq(S)
    PROVE  Fold(b, s) = FoldOn(b, s, 1..Len(s))
  <1>1. Fold(b, s) = FoldOn(b, s, DOMAIN s)
    BY DEF Fold, FoldOn, SX!FoldLeft
  <1>2. DOMAIN s = 1..Len(s)
    OBVIOUS
  <1> QED BY <1>1, <1>2

\* Folding nothing gives the start, and one element more at the end is one step more.
LEMMA FoldAppend ==
    ASSUME NEW b, NEW S, NEW s \in Seq(S), NEW e \in S
    PROVE  Fold(b, <<>>) = b /\ Fold(b, Append(s, e)) = Op(Fold(b, s), e)
  <1> DEFINE n == Len(s)
             r == Append(s, e)
  <1>1. n \in Nat /\ r \in Seq(S) /\ Len(r) = n + 1 /\ r[n + 1] = e
        /\ \A i \in 1..n : r[i] = s[i]
    OBVIOUS
  <1>2. Fold(b, <<>>) = b
    <2>1. <<>> \in Seq(S) /\ Len(<<>>) = 0
      OBVIOUS
    <2>2. Fold(b, <<>>) = FoldOn(b, <<>>, 1..0)
      BY <2>1, FoldIsFoldOn
    <2> QED BY <1>1, <2>2, FoldUpTo
  <1>3. Fold(b, s) = FoldOn(b, s, 1..n)
    BY FoldIsFoldOn
  <1> HIDE DEF n, r
  <1>4. Fold(b, r) = FoldOn(b, r, 1..(n + 1))
    BY <1>1, FoldIsFoldOn
  <1>5. FoldOn(b, r, 1..(n + 1)) = Op(FoldOn(b, r, 1..n), r[n + 1])
    BY <1>1, FoldUpTo
  <1>6. FoldOn(b, r, 1..n) = FoldOn(b, s, 1..n)
    BY <1>1, FoldSame
  <1> QED BY <1>1, <1>2, <1>3, <1>4, <1>5, <1>6 DEF r

\* Taking the first element off and starting from its result changes nothing.
LEMMA FoldHead ==
    ASSUME NEW b, NEW S, NEW s \in Seq(S), s # <<>>
    PROVE  Fold(b, s) = Fold(Op(b, Head(s)), Tail(s))
  <1> DEFINE n == Len(s) - 1
             r == Tail(s)
             c == Op(b, Head(s))
             bad == {k \in 0..n : FoldOn(b, s, 1..(k + 1)) # FoldOn(c, r, 1..k)}
  <1>1. n \in Nat /\ Len(s) = n + 1 /\ r \in Seq(S) /\ Len(r) = n /\ Head(s) = s[1]
        /\ \A i \in 1..n : r[i] = s[i + 1]
    OBVIOUS
  <1>2. bad = {}
    <2> HIDE DEF n, r
    <2> SUFFICES ASSUME bad # {} PROVE FALSE
      OBVIOUS
    <2>1. PICK k \in bad : \A j \in bad : k =< j
      <3>1. bad \in SUBSET Nat
        BY <1>1
      <3> HIDE DEF bad
      <3> QED BY <3>1, LeastNat
    <2>2. CASE k = 0
      <3>0. k \in Nat /\ 1..k = 1..0 /\ s[k + 1] = s[1]
        BY <2>2
      <3>1. FoldOn(b, s, 1..(k + 1)) = Op(FoldOn(b, s, 1..k), s[k + 1])
            /\ FoldOn(b, s, 1..0) = b /\ FoldOn(c, r, 1..0) = c
        <4> HIDE DEF c
        <4> QED BY <3>0, FoldUpTo
      <3>2. FoldOn(b, s, 1..(k + 1)) = FoldOn(c, r, 1..k)
        BY <1>1, <3>0, <3>1
      <3> QED BY <2>1, <3>2
    <2>3. CASE k # 0
      <3> DEFINE j == k - 1
      <3>1. j \in Nat /\ j + 1 = k /\ k \in 1..n /\ j \notin bad /\ j \in 0..n /\ k \in Nat
        BY <1>1, <2>1, <2>3
      <3>2. FoldOn(b, s, 1..(j + 1)) = FoldOn(c, r, 1..j)
        BY <3>1
      <3> HIDE DEF j, bad, c
      <3>3. FoldOn(b, s, 1..(k + 1)) = Op(FoldOn(b, s, 1..k), s[k + 1])
        BY <3>1, FoldUpTo
      <3>4. FoldOn(c, r, 1..(j + 1)) = Op(FoldOn(c, r, 1..j), r[j + 1])
        BY <3>1, FoldUpTo
      <3>5. r[k] = s[k + 1]
        BY <1>1, <3>1
      <3>6. FoldOn(b, s, 1..(k + 1)) = FoldOn(c, r, 1..k)
        BY <3>1, <3>2, <3>3, <3>4, <3>5
      <3> QED BY <2>1, <3>6 DEF bad
    <2> QED BY <2>2, <2>3
  <1>3. FoldOn(b, s, 1..(n + 1)) = FoldOn(c, r, 1..n)
    BY <1>1, <1>2
  <1>4. Fold(b, s) = FoldOn(b, s, 1..(n + 1))
    BY <1>1, FoldIsFoldOn
  <1>5. Fold(c, r) = FoldOn(c, r, 1..n)
    <2> HIDE DEF n, r, c
    <2> QED BY <1>1, FoldIsFoldOn
  <1> QED BY <1>3, <1>4, <1>5

\* A relation to some c that every step keeps, the fold keeps.
LEMMA FoldKeeps ==
    ASSUME NEW S, NEW s \in Seq(S), NEW b, NEW c, Rel(b, c),
           \A x, e : e \in S /\ Rel(x, c) => Rel(Op(x, e), c)
    PROVE  Rel(Fold(b, s), c)
  <1> DEFINE n == Len(s)
             bad == {k \in 0..n : ~Rel(FoldOn(b, s, 1..k), c)}
  <1>1. n \in Nat /\ \A i \in 1..n : s[i] \in S
    OBVIOUS
  <1>2. Fold(b, s) = FoldOn(b, s, 1..n)
    BY FoldIsFoldOn
  <1> HIDE DEF n
  <1>3. SUFFICES ASSUME bad # {} PROVE FALSE
    BY <1>1, <1>2
  <1>4. PICK k \in bad : \A j \in bad : k =< j
    <2>1. bad \in SUBSET Nat
      BY <1>1
    <2> HIDE DEF bad
    <2> QED BY <1>3, <2>1, LeastNat
  <1>5. k # 0
    BY <1>4, FoldUpTo
  <1> DEFINE j == k - 1
  <1>6. j \in Nat /\ j + 1 = k /\ k \in 1..n /\ j \notin bad /\ j \in 0..n
    BY <1>1, <1>4, <1>5
  <1>7. Rel(FoldOn(b, s, 1..j), c)
    BY <1>6
  <1> HIDE DEF j
  <1>8. FoldOn(b, s, 1..(j + 1)) = Op(FoldOn(b, s, 1..j), s[j + 1])
    BY <1>6, FoldUpTo
  <1>9. Rel(FoldOn(b, s, 1..k), c)
    BY <1>1, <1>6, <1>7, <1>8
  <1> QED BY <1>4, <1>9

\* A fold stays in a set that every step keeps.
LEMMA FoldStays ==
    ASSUME NEW S, NEW s \in Seq(S), NEW X, NEW b \in X,
           \A x, e : x \in X /\ e \in S => Op(x, e) \in X
    PROVE  Fold(b, s) \in X
  <1> DEFINE n == Len(s)
             bad == {k \in 0..n : FoldOn(b, s, 1..k) \notin X}
  <1>1. n \in Nat /\ \A i \in 1..n : s[i] \in S
    OBVIOUS
  <1>2. Fold(b, s) = FoldOn(b, s, 1..n)
    BY FoldIsFoldOn
  <1> HIDE DEF n
  <1>3. SUFFICES ASSUME bad # {} PROVE FALSE
    BY <1>1, <1>2
  <1>4. PICK k \in bad : \A j \in bad : k =< j
    <2>1. bad \in SUBSET Nat
      BY <1>1
    <2> HIDE DEF bad
    <2> QED BY <1>3, <2>1, LeastNat
  <1>5. k # 0
    BY <1>4, FoldUpTo
  <1> DEFINE j == k - 1
  <1>6. j \in Nat /\ j + 1 = k /\ k \in 1..n /\ j \notin bad /\ j \in 0..n
    BY <1>1, <1>4, <1>5
  <1>7. FoldOn(b, s, 1..j) \in X
    BY <1>6
  <1> HIDE DEF j
  <1>8. FoldOn(b, s, 1..(j + 1)) = Op(FoldOn(b, s, 1..j), s[j + 1])
    BY <1>6, FoldUpTo
  <1>9. FoldOn(b, s, 1..k) \in X
    BY <1>1, <1>6, <1>7, <1>8
  <1> QED BY <1>4, <1>9

\* What the element at position i brings about holds of the whole fold if every step keeps it.
LEMMA FoldCollects ==
    ASSUME NEW S, NEW s \in Seq(S), NEW X, NEW b \in X, NEW c, NEW i \in 1..Len(s),
           \A x, e : x \in X /\ e \in S => Op(x, e) \in X,
           \A x : x \in X => Rel(Op(x, s[i]), c),
           \A x, e : x \in X /\ e \in S /\ Rel(x, c) => Rel(Op(x, e), c)
    PROVE  Rel(Fold(b, s), c)
  <1> DEFINE n == Len(s)
             Good(k) == FoldOn(b, s, 1..k) \in X /\ (i =< k => Rel(FoldOn(b, s, 1..k), c))
             bad == {k \in 0..n : ~Good(k)}
  <1>1. n \in Nat /\ (\A j \in 1..n : s[j] \in S) /\ i \in 1..n
    OBVIOUS
  <1>2. Fold(b, s) = FoldOn(b, s, 1..n)
    BY FoldIsFoldOn
  <1> HIDE DEF n
  <1>3. SUFFICES ASSUME bad # {} PROVE FALSE
    BY <1>1, <1>2
  <1>4. PICK k \in bad : \A j \in bad : k =< j
    <2>1. bad \in SUBSET Nat
      BY <1>1
    <2> HIDE DEF bad
    <2> QED BY <1>3, <2>1, LeastNat
  <1>5. k # 0
    <2>1. Good(0)
      BY <1>1, FoldUpTo
    <2> QED BY <1>4, <2>1
  <1> DEFINE j == k - 1
  <1>6. j \in Nat /\ j + 1 = k /\ k \in 1..n /\ j \notin bad /\ j \in 0..n
    BY <1>1, <1>4, <1>5
  <1>7. Good(j)
    BY <1>6
  <1> HIDE DEF j
  <1>8. FoldOn(b, s, 1..k) = Op(FoldOn(b, s, 1..j), s[k]) /\ s[k] \in S
    <2>1. FoldOn(b, s, 1..(j + 1)) = Op(FoldOn(b, s, 1..j), s[j + 1])
      BY <1>6, FoldUpTo
    <2> QED BY <1>1, <1>6, <2>1
  <1>9. i =< k => i = k \/ i =< j
    BY <1>1, <1>6
  <1>10. Good(k)
    BY <1>7, <1>8, <1>9
  <1> QED BY <1>4, <1>10

\* Folds of one sequence from related starts are related if every step keeps the relation.
LEMMA FoldAlike ==
    ASSUME NEW S, NEW s \in Seq(S), NEW b, NEW c, Rel(b, c),
           \A x, y, e : e \in S /\ Rel(x, y) => Rel(Op(x, e), Op(y, e))
    PROVE  Rel(Fold(b, s), Fold(c, s))
  <1> DEFINE n == Len(s)
             bad == {k \in 0..n : ~Rel(FoldOn(b, s, 1..k), FoldOn(c, s, 1..k))}
  <1>1. n \in Nat /\ \A i \in 1..n : s[i] \in S
    OBVIOUS
  <1>2. Fold(b, s) = FoldOn(b, s, 1..n) /\ Fold(c, s) = FoldOn(c, s, 1..n)
    BY FoldIsFoldOn
  <1> HIDE DEF n
  <1>3. SUFFICES ASSUME bad # {} PROVE FALSE
    BY <1>1, <1>2
  <1>4. PICK k \in bad : \A j \in bad : k =< j
    <2>1. bad \in SUBSET Nat
      BY <1>1
    <2> HIDE DEF bad
    <2> QED BY <1>3, <2>1, LeastNat
  <1>5. k # 0
    BY <1>4, FoldUpTo
  <1> DEFINE j == k - 1
  <1>6. j \in Nat /\ j + 1 = k /\ k \in 1..n /\ j \notin bad /\ j \in 0..n
    BY <1>1, <1>4, <1>5
  <1>7. Rel(FoldOn(b, s, 1..j), FoldOn(c, s, 1..j))
    BY <1>6
  <1> HIDE DEF j
  <1>8. /\ FoldOn(b, s, 1..(j + 1)) = Op(FoldOn(b, s, 1..j), s[j + 1])
        /\ FoldOn(c, s, 1..(j + 1)) = Op(FoldOn(c, s, 1..j), s[j + 1])
    BY <1>6, FoldUpTo
  <1>9. Rel(FoldOn(b, s, 1..k), FoldOn(c, s, 1..k))
    BY <1>1, <1>6, <1>7, <1>8
  <1> QED BY <1>4, <1>9

===============================================================================
