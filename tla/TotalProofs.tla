------------------------------- MODULE TotalProofs ------------------------------
(***************************************************************************)
(* Induction, and what the sums and folds of the other modules compute.    *)
(*                                                                         *)
(* A fold over a finite set or a sequence is a function on the subsets     *)
(* that were folded.  It exists by induction on their size, and a sum does *)
(* not depend on the order in which the elements are taken.                *)
(***************************************************************************)
EXTENDS Totals, SequencesExt, FiniteSetTheorems, SequenceTheorems, TLAPS
--------------------------------------------------------------------------------
(***************************************************************************)
(* Induction, stated over sets so that it has no operator parameter: the   *)
(* least counterexample.                                                   *)
(***************************************************************************)
\* Every nonempty set of naturals has a least element.
LEMMA Least ==
  ASSUME NEW T \in SUBSET Nat, T # {}
  PROVE  \E m \in T : \A k \in T : m <= k
<1> DEFINE R == {p \in Nat \X Nat : p[1] < p[2]}
<1>1. IsWellFoundedOn(R, Nat)
  BY NatLessThanWellFounded DEF OpToRel
<1>2. \E m \in T : \A k \in T : <<k, m>> \notin R
  <2> HIDE DEF R
  <2> QED
    BY <1>1, WFMin
<1>3. ASSUME NEW k \in T, NEW m \in T, <<k, m>> \notin R PROVE m <= k
  <2>1. k \in Nat /\ m \in Nat /\ ~(k < m)
    BY <1>3
  <2>2. QED
    BY <2>1
<1>4. QED
  BY <1>2, <1>3

\* A set that holds 0 and the successor of each of its numbers holds them all.
LEMMA Induction ==
  ASSUME NEW T, 0 \in T, \A n \in Nat : n \in T => n + 1 \in T
  PROVE  Nat \subseteq T
<1> SUFFICES ASSUME Nat \ T # {} PROVE FALSE
  OBVIOUS
<1>1. PICK m \in Nat \ T : \A k \in Nat \ T : m <= k
  BY Least
<1>2. m # 0 /\ m - 1 \in Nat /\ m - 1 \notin Nat \ T
  BY <1>1
<1>3. QED
  BY <1>1, <1>2

\* A nonempty set of naturals up to n has a greatest element, and Max is it.
LEMMA MaxIn ==
  ASSUME NEW n \in Nat, NEW T \in SUBSET (0 .. n), T # {}
  PROVE  Max(T) \in T /\ \A y \in T : Max(T) >= y
<1> DEFINE D == {n - y : y \in T}
<1>0. \A y \in T : y \in Nat /\ n - y \in Nat
  OBVIOUS
<1>1. D \in SUBSET Nat /\ D # {}
  BY <1>0
<1>2. PICK d \in D : \A k \in D : d <= k
  BY <1>1, Least
<1>3. PICK x \in T : d = n - x
  OBVIOUS
<1>4. ASSUME NEW y \in T PROVE x >= y
  <2>1. n - y \in D /\ d <= n - y
    BY <1>2
  <2>2. QED
    BY <1>0, <1>3, <2>1
<1>5. QED
  BY <1>4 DEF Max

\* The greatest of 1 .. k is k, and taking it away leaves 1 .. k - 1.
LEMMA MaxOfInterval ==
  ASSUME NEW k \in Nat \ {0}
  PROVE  Max(1 .. k) = k /\ (1 .. k) \ {k} = 1 .. k - 1
<1>1. 1 .. k \in SUBSET (0 .. k) /\ 1 .. k # {} /\ k \in 1 .. k
  OBVIOUS
<1>2. Max(1 .. k) \in 1 .. k /\ Max(1 .. k) >= k
  BY <1>1, MaxIn
<1>3. QED
  BY <1>2
--------------------------------------------------------------------------------
(***************************************************************************)
(* What the folds of the model compute.                                    *)
(***************************************************************************)
\* Recursion over the subsets of a finite set, each step taking one element
\* away, defines a function.
FoldFunctions(S, V, base, pick, step) ==
  {g \in [SUBSET S -> V] :
     \A T \in SUBSET S :
       g[T] = IF T = {} THEN base ELSE step[<<pick[T], g[T \ {pick[T]}]>>]}

\* Such a function exists, by induction on the size of the subsets.
LEMMA FoldExists ==
  ASSUME NEW S, IsFiniteSet(S), NEW V, NEW base \in V,
         NEW pick, \A T \in SUBSET S : T # {} => pick[T] \in T,
         NEW step \in [S \X V -> V]
  PROVE  \E g : g \in FoldFunctions(S, V, base, pick, step)
<1> DEFINE Small(n) == {T \in SUBSET S : Cardinality(T) <= n}
           Rest(T) == T \ {pick[T]}
           IsFold(g, n) ==
             \A T \in Small(n) : g[T] = IF T = {} THEN base ELSE step[<<pick[T], g[Rest(T)]>>]
           N == {n \in Nat : \E g \in [Small(n) -> V] : IsFold(g, n)}
<1>1. \A T \in SUBSET S : IsFiniteSet(T) /\ Cardinality(T) \in Nat
  BY FS_Subset, FS_CardinalityType
<1>2. 0 \in N
  <2> DEFINE g == [T \in Small(0) |-> base]
  <2>1. \A T \in Small(0) : T = {}
    BY <1>1, FS_EmptySet
  <2>2. g \in [Small(0) -> V] /\ IsFold(g, 0)
    BY <2>1
  <2>3. QED
    BY <2>2
<1>3. ASSUME NEW n \in Nat, n \in N PROVE n + 1 \in N
  <2>1. PICK g \in [Small(n) -> V] : IsFold(g, n)
    BY <1>3
  <2> DEFINE h == [T \in Small(n + 1) |->
                     IF T = {} THEN base ELSE step[<<pick[T], g[Rest(T)]>>]]
  <2>2. ASSUME NEW T \in Small(n + 1), T # {}
        PROVE  Rest(T) \in Small(n) /\ Rest(T) \in Small(n + 1) /\ pick[T] \in S
    <3>1. pick[T] \in T /\ IsFiniteSet(T) /\ Cardinality(T) \in Nat
      BY <1>1, <2>2
    <3>2. Cardinality(Rest(T)) = Cardinality(T) - 1
      BY <3>1, FS_RemoveElement
    <3>3. QED
      BY <3>1, <3>2
  <2>3. \A T \in Small(n) : T \in Small(n + 1) /\ h[T] = g[T]
    <3>1. \A T \in Small(n) : T \in Small(n + 1)
      BY <1>1
    <3>2. QED
      BY <2>1, <3>1
  <2>4. h \in [Small(n + 1) -> V]
    <3>1. ASSUME NEW T \in Small(n + 1), T # {} PROVE step[<<pick[T], g[Rest(T)]>>] \in V
      BY <2>2, <3>1
    <3>2. QED
      BY <3>1
  <2>5. IsFold(h, n + 1)
    BY <2>2, <2>3
  <2>6. QED
    <3> HIDE DEF h, IsFold, Small
    <3> QED
      BY <2>4, <2>5
<1>4. Cardinality(S) \in N
  <2> HIDE DEF N
  <2>1. Nat \subseteq N
    BY <1>2, <1>3, Induction
  <2>2. QED
    BY <1>1, <2>1
<1>5. Small(Cardinality(S)) = SUBSET S
  BY <1>1, FS_Subset
<1>6. QED
  BY <1>4, <1>5 DEF FoldFunctions

\* A fold from the left takes the greatest index of a set last.
FoldsUp(h, n, V, base, step) ==
  /\ h[{}] = base
  /\ \A T \in SUBSET (1 .. n) :
       T # {} /\ h[T \ {Max(T)}] \in V => h[T] = step[<<Max(T), h[T \ {Max(T)}]>>]

\* Such a function exists for the indices of a sequence.
LEMMA FoldUpExists ==
  ASSUME NEW n \in Nat, NEW V, NEW base \in V, NEW step \in [(1 .. n) \X V -> V]
  PROVE  \E h \in [SUBSET (1 .. n) -> V] : FoldsUp(h, n, V, base, step)
<1> DEFINE D == 1 .. n
           pick == [T \in SUBSET D |-> Max(T)]
<1>1. IsFiniteSet(D)
  BY FS_Interval
<1>2. ASSUME NEW T \in SUBSET D, T # {} PROVE pick[T] \in T /\ pick[T] = Max(T)
  <2>1. T \in SUBSET (0 .. n)
    OBVIOUS
  <2>2. QED
    BY <1>2, <2>1, MaxIn
<1>3. step \in [D \X V -> V]
  OBVIOUS
<1>4. PICK h : h \in FoldFunctions(D, V, base, pick, step)
  <2> HIDE DEF D, pick
  <2> QED
    BY <1>1, <1>2, <1>3, FoldExists
<1>5. h \in [SUBSET D -> V] /\ h[{}] = base
  BY <1>4 DEF FoldFunctions
<1>6. ASSUME NEW T \in SUBSET D, T # {} PROVE h[T] = step[<<Max(T), h[T \ {Max(T)}]>>]
  <2>1. h[T] = step[<<pick[T], h[T \ {pick[T]}]>>]
    BY <1>4, <1>6 DEF FoldFunctions
  <2>2. QED
    BY <2>1
<1>7. QED
  BY <1>5, <1>6 DEF FoldsUp

\* It has a value after each index.
Steps(p, h, n, V, base, step) ==
  /\ p \in [0 .. n -> V] /\ p[0] = base /\ p[n] = h[1 .. n]
  /\ \A k \in 1 .. n : p[k] = step[<<k, p[k - 1]>>]

\* The values after the indices, in their order, are the steps of a loop.
LEMMA FoldSteps ==
  ASSUME NEW n \in Nat, NEW V, NEW base \in V, NEW step \in [(1 .. n) \X V -> V],
         NEW h, FoldsUp(h, n, V, base, step)
  PROVE  \E p : Steps(p, h, n, V, base, step)
<1> DEFINE q == [k \in 0 .. n |-> h[1 .. k]]
           N == {k \in Nat : k <= n => h[1 .. k] \in V}
<1>1. h[1 .. 0] = base
  <2>1. 1 .. 0 = {}
    OBVIOUS
  <2>2. QED
    BY <2>1 DEF FoldsUp
<1>2. ASSUME NEW k \in 1 .. n, h[1 .. k - 1] \in V
      PROVE  h[1 .. k] = step[<<k, h[1 .. k - 1]>>] /\ h[1 .. k] \in V
  <2>1. Max(1 .. k) = k /\ (1 .. k) \ {k} = 1 .. k - 1
    BY MaxOfInterval
  <2>2. 1 .. k \in SUBSET (1 .. n) /\ 1 .. k # {}
    OBVIOUS
  <2>3. h[(1 .. k) \ {Max(1 .. k)}] \in V
    BY <1>2, <2>1
  <2>4. h[1 .. k] = step[<<Max(1 .. k), h[(1 .. k) \ {Max(1 .. k)}]>>]
    BY <2>2, <2>3 DEF FoldsUp
  <2>5. QED
    BY <1>2, <2>1, <2>4
<1>3. \A k \in 0 .. n : h[1 .. k] \in V
  <2>1. 0 \in N
    BY <1>1
  <2>2. ASSUME NEW k \in Nat, k \in N PROVE k + 1 \in N
    <3> SUFFICES ASSUME k + 1 <= n PROVE h[1 .. k + 1] \in V
      OBVIOUS
    <3>1. k + 1 \in 1 .. n /\ (k + 1) - 1 = k /\ h[1 .. k] \in V
      BY <2>2
    <3>2. QED
      BY <1>2, <3>1
  <2>3. Nat \subseteq N
    <3> HIDE DEF N
    <3> QED
      BY <2>1, <2>2, Induction
  <2>4. QED
    BY <2>3
<1>4. q \in [0 .. n -> V] /\ q[0] = base /\ q[n] = h[1 .. n]
  BY <1>1, <1>3
<1>5. ASSUME NEW k \in 1 .. n PROVE q[k] = step[<<k, q[k - 1]>>]
  <2>1. k \in 0 .. n /\ k - 1 \in 0 .. n
    OBVIOUS
  <2>2. QED
    BY <1>2, <1>3, <2>1
<1>6. Steps(q, h, n, V, base, step)
  BY <1>4, <1>5 DEF Steps
<1>7. QED
  BY <1>6

\* g gives the sums of f over the subsets of its domain.
IsSum(g, f, D) ==
  /\ g \in [SUBSET D -> Int]
  /\ g[{}] = 0
  /\ \A T \in SUBSET D : \A x \in T : g[T] = f[x] + g[T \ {x}]

\* Total is a sum: it does not depend on the order in which the elements are
\* taken.
LEMMA TotalSums ==
  ASSUME NEW D, IsFiniteSet(D), NEW f \in [D -> Int]
  PROVE  \E g : IsSum(g, f, D) /\ Total(f) = g[D]
<1> DEFINE pick == [T \in SUBSET D |-> CHOOSE x \in T : TRUE]
           step == [p \in D \X Int |-> f[p[1]] + p[2]]
           IsIt(it) ==
             it = [T \in SUBSET D |-> IF T = {} THEN 0
                     ELSE f[CHOOSE x \in T : TRUE] + it[T \ {CHOOSE x \in T : TRUE}]]
           g == CHOOSE it : IsIt(it)
<1>1. Total(f) = g[D]
  BY DEF Total, MapThenSumSet, MapThenFoldSet
<1>2. IsIt(g)
  <2>1. \A T \in SUBSET D : T # {} => pick[T] \in T
    OBVIOUS
  <2>2. \A x \in D, v \in Int : step[<<x, v>>] \in Int /\ step[<<x, v>>] = f[x] + v
    OBVIOUS
  <2>3. PICK h : h \in FoldFunctions(D, Int, 0, pick, step)
    <3>1. step \in [D \X Int -> Int] /\ 0 \in Int
      OBVIOUS
    <3> HIDE DEF pick, step
    <3>2. QED
      BY <2>1, <3>1, FoldExists
  <2>4. ASSUME NEW T \in SUBSET D, T # {}
        PROVE  h[T] = f[CHOOSE x \in T : TRUE] + h[T \ {CHOOSE x \in T : TRUE}]
    <3>1. pick[T] \in D /\ h[T \ {pick[T]}] \in Int
      BY <2>1, <2>3, <2>4 DEF FoldFunctions
    <3>2. h[T] = f[pick[T]] + h[T \ {pick[T]}]
      <4> HIDE DEF pick, step
      <4> QED
        BY <2>2, <2>3, <2>4, <3>1 DEF FoldFunctions
    <3>3. QED
      BY <3>2
  <2>5. IsIt(h)
    BY <2>3, <2>4 DEF FoldFunctions
  <2>6. QED
    <3> HIDE DEF IsIt
    <3> QED
      BY <2>5
<1> DEFINE Rest(T) == T \ {pick[T]}
           Sums(T) == g[T] \in Int /\ \A x \in T : g[T] = f[x] + g[T \ {x}]
           N == {n \in Nat : \A T \in SUBSET D : Cardinality(T) <= n => Sums(T)}
<1>3. \A T \in SUBSET D : IsFiniteSet(T) /\ Cardinality(T) \in Nat
  BY FS_Subset, FS_CardinalityType
<1>4. g[{}] = 0
  <2> HIDE DEF g
  <2> QED
    BY <1>2
<1>5. ASSUME NEW T \in SUBSET D, T # {}
      PROVE  pick[T] \in T /\ g[T] = f[pick[T]] + g[Rest(T)]
  <2> HIDE DEF g
  <2>1. pick[T] = CHOOSE x \in T : TRUE
    OBVIOUS
  <2>2. pick[T] \in T
    BY <1>5, <2>1
  <2>3. g[T] = f[CHOOSE x \in T : TRUE] + g[T \ {CHOOSE x \in T : TRUE}]
    BY <1>2, <1>5
  <2>4. QED
    BY <2>1, <2>2, <2>3
<1>6. 0 \in N
  <2> HIDE DEF g
  <2>1. \A T \in SUBSET D : Cardinality(T) <= 0 => T = {}
    BY <1>3, FS_EmptySet
  <2>2. QED
    BY <1>4, <2>1
<1>7. ASSUME NEW n \in Nat, n \in N PROVE n + 1 \in N
  <2> SUFFICES ASSUME NEW T \in SUBSET D, Cardinality(T) <= n + 1, T # {} PROVE Sums(T)
    <3> HIDE DEF g
    <3>1. Sums({})
      BY <1>4
    <3> HIDE DEF Sums
    <3>2. QED
      BY <3>1
  <2> HIDE DEF g, pick
  <2>1. \A x \in T : Sums(T \ {x})
    <3> SUFFICES ASSUME NEW x \in T PROVE Sums(T \ {x})
      OBVIOUS
    <3>1. Cardinality(T \ {x}) = Cardinality(T) - 1
      BY <1>3, FS_RemoveElement
    <3>2. Cardinality(T \ {x}) <= n /\ T \ {x} \in SUBSET D
      BY <1>3, <3>1
    <3>3. QED
      BY <1>7, <3>2
  <2>2. pick[T] \in T /\ g[T] = f[pick[T]] + g[Rest(T)]
    BY <1>5
  <2>3. \A x \in T : f[x] \in Int
    OBVIOUS
  <2>4. g[T] \in Int
    <3>1. g[Rest(T)] \in Int /\ f[pick[T]] \in Int
      BY <2>1, <2>2, <2>3
    <3>2. QED
      BY <2>2, <3>1
  <2>5. ASSUME NEW x \in T, x # pick[T] PROVE g[T] = f[x] + g[T \ {x}]
    <3> DEFINE c == pick[T]
    <3> HIDE DEF c
    <3>1. c \in T \ {x} /\ x \in T \ {c}
      BY <2>2, <2>5 DEF c
    <3>2. g[T \ {c}] = f[x] + g[(T \ {c}) \ {x}]
      BY <2>1, <3>1
    <3>3. g[T \ {x}] = f[c] + g[(T \ {x}) \ {c}] /\ g[T \ {x}] \in Int
      BY <2>1, <3>1
    <3>4. (T \ {x}) \ {c} = (T \ {c}) \ {x}
      OBVIOUS
    <3>5. g[T] = f[c] + g[T \ {c}] /\ f[c] \in Int /\ f[x] \in Int
      BY <2>2, <2>3 DEF c
    <3>6. g[(T \ {c}) \ {x}] \in Int
      <4>1. (T \ {c}) \ {x} \in SUBSET D /\ Cardinality((T \ {x}) \ {c}) <= n
        <5>1. Cardinality(T \ {x}) <= n /\ IsFiniteSet(T \ {x}) /\ Cardinality(T \ {x}) \in Nat
          BY <1>3, FS_RemoveElement
        <5>2. Cardinality((T \ {x}) \ {c}) <= Cardinality(T \ {x})
              /\ Cardinality((T \ {x}) \ {c}) \in Nat
          BY <5>1, FS_Subset, FS_CardinalityType
        <5>3. QED
          BY <5>1, <5>2
      <4>2. QED
        BY <1>7, <3>4, <4>1
    <3>7. QED
      <4> DEFINE rest == g[(T \ {c}) \ {x}]
                 a == f[c]
                 b == f[x]
      <4>1. rest \in Int /\ a \in Int /\ b \in Int
        BY <3>5, <3>6
      <4>2. g[T] = a + (b + rest) /\ g[T \ {x}] = a + rest
        BY <3>2, <3>3, <3>4, <3>5
      <4> HIDE DEF rest, a, b
      <4>3. a + (b + rest) = b + (a + rest)
        BY <4>1
      <4>4. g[T] = b + g[T \ {x}]
        BY <4>2, <4>3
      <4>5. QED
        BY <4>4 DEF b
  <2>6. QED
    BY <2>2, <2>4, <2>5
<1>8. \A T \in SUBSET D : Sums(T)
  <2> HIDE DEF Sums
  <2>1. Nat \subseteq N
    <3> HIDE DEF N
    <3> QED
      BY <1>6, <1>7, Induction
  <2>2. QED
    BY <1>3, <2>1
<1>9. g \in [SUBSET D -> Int]
  <2> HIDE DEF g
  <2> QED
    BY <1>2, <1>8
<1>10. QED
  <2> HIDE DEF g
  <2> QED
    BY <1>1, <1>4, <1>8, <1>9 DEF IsSum

\* Sums over the subsets are determined by the summands.
LEMMA SumsAgree ==
  ASSUME NEW D, IsFiniteSet(D), NEW f \in [D -> Int], NEW g, IsSum(g, f, D),
         NEW E \in SUBSET D, NEW e \in [E -> Int], NEW h, IsSum(h, e, E),
         \A x \in E : e[x] = f[x]
  PROVE  g[E] = h[E]
<1> DEFINE N == {n \in Nat : \A T \in SUBSET E : Cardinality(T) <= n => g[T] = h[T]}
<1>1. \A T \in SUBSET E : IsFiniteSet(T) /\ Cardinality(T) \in Nat
  BY FS_Subset, FS_CardinalityType
<1>2. 0 \in N
  <2>1. \A T \in SUBSET E : Cardinality(T) <= 0 => T = {}
    BY <1>1, FS_EmptySet
  <2>2. QED
    BY <2>1 DEF IsSum
<1>3. ASSUME NEW n \in Nat, n \in N PROVE n + 1 \in N
  <2> SUFFICES ASSUME NEW T \in SUBSET E, Cardinality(T) <= n + 1 PROVE g[T] = h[T]
    OBVIOUS
  <2>1. CASE T = {}
    BY <2>1 DEF IsSum
  <2>2. CASE T # {}
    <3>1. PICK x \in T : TRUE
      BY <2>2
    <3>2. Cardinality(T \ {x}) = Cardinality(T) - 1 /\ Cardinality(T) \in Nat
      BY <1>1, FS_RemoveElement
    <3>3. g[T \ {x}] = h[T \ {x}]
      BY <1>3, <3>2
    <3>4. g[T] = f[x] + g[T \ {x}] /\ h[T] = e[x] + h[T \ {x}]
      BY DEF IsSum
    <3>5. QED
      BY <3>3, <3>4
  <2>3. QED
    BY <2>1, <2>2
<1>4. QED
  <2>1. Nat \subseteq N
    <3> HIDE DEF N
    <3> QED
      BY <1>2, <1>3, Induction
  <2>2. QED
    BY <1>1, <2>1

\* The total of a function over part of its domain is its sum there.
LEMMA TotalOver ==
  ASSUME NEW D, IsFiniteSet(D), NEW f \in [D -> Int]
  PROVE  \E g : /\ IsSum(g, f, D)
               /\ \A E \in SUBSET D : \A e \in [E -> Int] :
                    (\A x \in E : e[x] = f[x]) => Total(e) = g[E]
<1>1. PICK g : IsSum(g, f, D)
  BY TotalSums
<1>2. ASSUME NEW E \in SUBSET D, NEW e \in [E -> Int], \A x \in E : e[x] = f[x]
      PROVE  Total(e) = g[E]
  <2>1. IsFiniteSet(E)
    BY FS_Subset
  <2>2. PICK h : IsSum(h, e, E) /\ Total(e) = h[E]
    BY <2>1, TotalSums
  <2>3. g[E] = h[E]
    BY <1>1, <1>2, <2>2, SumsAgree
  <2>4. QED
    BY <2>2, <2>3
<1>3. QED
  BY <1>1, <1>2

\* The sum of whole numbers is one, and of none it is 0.
LEMMA TotalType ==
  ASSUME NEW D, IsFiniteSet(D), NEW f \in [D -> Int]
  PROVE  Total(f) \in Int /\ (D = {} => Total(f) = 0)
<1>1. PICK g : IsSum(g, f, D) /\ Total(f) = g[D]
  BY TotalSums
<1>2. QED
  BY <1>1 DEF IsSum

\* f has one argument more than e, x.
Extends(f, e, D, x) ==
  /\ x \in D /\ f \in [D -> Int] /\ e \in [D \ {x} -> Int]
  /\ \A y \in D \ {x} : e[y] = f[y]

\* A new element adds its value to the total.
LEMMA TotalAdd ==
  ASSUME NEW D, IsFiniteSet(D), NEW f, NEW e, NEW x, Extends(f, e, D, x)
  PROVE  Total(f) = Total(e) + f[x]
<1> USE DEF Extends
<1>1. PICK g : /\ IsSum(g, f, D)
               /\ \A E \in SUBSET D : \A h \in [E -> Int] :
                    (\A y \in E : h[y] = f[y]) => Total(h) = g[E]
  BY TotalOver
<1>2. Total(f) = g[D] /\ g[D] \in Int
  BY <1>1 DEF IsSum
<1>3. Total(e) = g[D \ {x}]
  BY <1>1
<1>4. g[D] = f[x] + g[D \ {x}] /\ g[D \ {x}] \in Int
  BY <1>1 DEF IsSum
<1>5. QED
  BY <1>2, <1>3, <1>4

\* The same over an interval
LEMMA TotalLast ==
  ASSUME NEW n \in Nat, NEW e \in [1 .. n -> Int], NEW f \in [1 .. n + 1 -> Int],
         \A i \in 1 .. n : e[i] = f[i]
  PROVE  Total(f) = Total(e) + f[n + 1]
<1>1. IsFiniteSet(1 .. n + 1)
  BY FS_Interval
<1>2. 1 .. n = (1 .. n + 1) \ {n + 1}
  OBVIOUS
<1>3. Extends(f, e, 1 .. n + 1, n + 1)
  BY <1>2 DEF Extends
<1>4. QED
  BY <1>1, <1>3, TotalAdd

\* A change of one value changes the total by as much.
LEMMA TotalUpdate ==
  ASSUME NEW D, IsFiniteSet(D), NEW f \in [D -> Int], NEW x \in D, NEW c \in Int
  PROVE  Total([f EXCEPT ![x] = @ + c]) = Total(f) + c
<1> DEFINE h == [f EXCEPT ![x] = @ + c]
           e == [y \in D \ {x} |-> f[y]]
<1>1. h \in [D -> Int] /\ e \in [D \ {x} -> Int] /\ IsFiniteSet(D \ {x})
  BY FS_RemoveElement
<1>2. h[x] = f[x] + c /\ \A y \in D \ {x} : e[y] = f[y] /\ e[y] = h[y]
  OBVIOUS
<1> HIDE DEF h, e
<1>3. Total(f) = Total(e) + f[x] /\ Total(h) = Total(e) + h[x] /\ Total(e) \in Int
  BY <1>1, <1>2, TotalAdd, TotalType DEF Extends
<1>4. QED
  BY <1>2, <1>3 DEF h

\* The total of zeros is zero.
LEMMA TotalZero ==
  ASSUME NEW D, IsFiniteSet(D)
  PROVE  Total([x \in D |-> 0]) = 0
<1> DEFINE f == [x \in D |-> 0]
           N == {n \in Nat : \A T \in SUBSET D : Cardinality(T) <= n => Total([x \in T |-> 0]) = 0}
<1>1. \A T \in SUBSET D : IsFiniteSet(T) /\ Cardinality(T) \in Nat
  BY FS_Subset, FS_CardinalityType
<1>2. 0 \in N
  <2>1. \A T \in SUBSET D : Cardinality(T) <= 0 => T = {}
    BY <1>1, FS_EmptySet
  <2>2. \A T \in SUBSET D : T = {} => Total([x \in T |-> 0]) = 0
    BY <1>1, TotalType
  <2>3. QED
    BY <2>1, <2>2
<1>3. ASSUME NEW n \in Nat, n \in N PROVE n + 1 \in N
  <2> SUFFICES ASSUME NEW T \in SUBSET D, Cardinality(T) <= n + 1, T # {}
               PROVE  Total([x \in T |-> 0]) = 0
    <3>1. IsFiniteSet({}) /\ [x \in {} |-> 0] \in [{} -> Int]
      BY FS_EmptySet
    <3>2. Total([x \in {} |-> 0]) = 0
      BY <3>1, TotalType
    <3>3. QED
      BY <3>2
  <2>1. PICK y \in T : TRUE
    OBVIOUS
  <2> DEFINE h == [x \in T |-> 0]
             e == [x \in T \ {y} |-> 0]
  <2>2. Cardinality(T \ {y}) = Cardinality(T) - 1 /\ Cardinality(T) \in Nat /\ IsFiniteSet(T)
    BY <1>1, FS_RemoveElement
  <2>3. Total(e) = 0
    BY <1>3, <2>2
  <2>4. h \in [T -> Int] /\ e \in [T \ {y} -> Int] /\ h[y] = 0 /\ \A x \in T \ {y} : e[x] = h[x]
    OBVIOUS
  <2>5. Total(h) = Total(e) + h[y]
    <3> HIDE DEF h, e
    <3> QED
      BY <2>2, <2>4, TotalAdd DEF Extends
  <2>6. QED
    BY <2>3, <2>4, <2>5
<1>4. QED
  <2>1. Nat \subseteq N
    <3> HIDE DEF N
    <3> QED
      BY <1>2, <1>3, Induction
  <2>2. QED
    BY <1>1, <2>1

\* A total is at most another one into whose elements its own can be mapped,
\* one to one and each to a value that is no smaller.
LEMMA TotalInto ==
  ASSUME NEW D, IsFiniteSet(D), NEW f \in [D -> Int],
         NEW E, IsFiniteSet(E), NEW e \in [E -> Nat],
         NEW b \in [D -> E], \A x, y \in D : b[x] = b[y] => x = y,
         \A x \in D : f[x] <= e[b[x]]
  PROVE  Total(f) <= Total(e)
<1>1. PICK g : IsSum(g, f, D) /\ Total(f) = g[D]
  BY TotalSums
<1>2. PICK h : IsSum(h, e, E) /\ Total(e) = h[E]
  <2>1. e \in [E -> Int]
    OBVIOUS
  <2>2. QED
    BY <2>1, TotalSums
<1> DEFINE Fits(T, U) == \A x \in T : b[x] \in U
           N == {n \in Nat : \A T \in SUBSET D, U \in SUBSET E :
                   Cardinality(U) <= n /\ Fits(T, U) => g[T] <= h[U]}
<1>3. \A U \in SUBSET E : IsFiniteSet(U) /\ Cardinality(U) \in Nat
  BY FS_Subset, FS_CardinalityType
<1>4. 0 \in N
  <2>1. \A U \in SUBSET E : Cardinality(U) <= 0 => U = {}
    BY <1>3, FS_EmptySet
  <2>2. ASSUME NEW T \in SUBSET D, Fits(T, {}) PROVE g[T] <= h[{}]
    <3>1. T = {}
      BY <2>2
    <3>2. QED
      BY <1>1, <1>2, <3>1 DEF IsSum
  <2>3. QED
    BY <2>1, <2>2
<1>5. ASSUME NEW n \in Nat, n \in N PROVE n + 1 \in N
  <2> SUFFICES ASSUME NEW T \in SUBSET D, NEW U \in SUBSET E,
                      Cardinality(U) <= n + 1, Fits(T, U)
               PROVE  g[T] <= h[U]
    OBVIOUS
  <2>1. g[T] \in Int /\ h[U] \in Int
    BY <1>1, <1>2 DEF IsSum
  <2>2. CASE U = {}
    <3>1. T = {}
      BY <2>2
    <3>2. QED
      BY <1>1, <1>2, <2>2, <3>1 DEF IsSum
  <2>3. ASSUME NEW y \in U PROVE g[T] <= h[U]
    <3>1. Cardinality(U \ {y}) = Cardinality(U) - 1 /\ Cardinality(U) \in Nat
      BY <1>3, FS_RemoveElement
    <3>2. h[U] = e[y] + h[U \ {y}] /\ e[y] \in Nat /\ h[U \ {y}] \in Int
      <4>1. U \ {y} \in SUBSET E /\ y \in E
        OBVIOUS
      <4>2. h[U] = e[y] + h[U \ {y}]
        BY <1>2 DEF IsSum
      <4>3. h[U \ {y}] \in Int
        BY <1>2, <4>1 DEF IsSum
      <4>4. QED
        BY <4>1, <4>2, <4>3
    <3>3. ASSUME NEW x \in T, b[x] = y PROVE g[T] <= h[U]
      <4>1. Fits(T \ {x}, U \ {y})
        BY <3>3
      <4>2. g[T \ {x}] <= h[U \ {y}]
        BY <1>5, <3>1, <4>1
      <4>3. g[T] = f[x] + g[T \ {x}] /\ f[x] \in Int /\ g[T \ {x}] \in Int
        <5>1. T \ {x} \in SUBSET D /\ x \in D
          OBVIOUS
        <5>2. g[T] = f[x] + g[T \ {x}]
          BY <1>1, <3>3 DEF IsSum
        <5>3. g[T \ {x}] \in Int
          BY <1>1, <5>1 DEF IsSum
        <5>4. QED
          BY <5>1, <5>2, <5>3
      <4>4. f[x] <= e[y]
        BY <3>3
      <4>5. QED
        BY <3>2, <4>2, <4>3, <4>4
    <3>4. CASE \A x \in T : b[x] # y
      <4>1. Fits(T, U \ {y})
        BY <3>4
      <4>2. g[T] <= h[U \ {y}]
        BY <1>5, <3>1, <4>1
      <4>3. QED
        BY <2>1, <3>2, <4>2
    <3>5. QED
      BY <3>3, <3>4
  <2>4. QED
    BY <2>2, <2>3
<1>6. Nat \subseteq N
  <2> HIDE DEF N
  <2> QED
    BY <1>4, <1>5, Induction
<1>7. Fits(D, E)
  OBVIOUS
<1>8. g[D] <= h[E]
  BY <1>3, <1>6, <1>7
<1>9. QED
  BY <1>1, <1>2, <1>8
================================================================================
