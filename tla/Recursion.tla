------------------------------ MODULE Recursion ------------------------------
(***************************************************************************)
(* Induction and recursion in the form the proofs of this project use them *)
(* in: over sets instead of predicates, so that a fact to be proved for    *)
(* every n is the set of the n it holds for; and what sums and folds of    *)
(* the community modules compute.                                          *)
(***************************************************************************)
EXTENDS Naturals, SequencesExt, Vectors, FiniteSetTheorems, TLAPS

(* A nonempty set of subsets of a finite set has a minimal element.        *)
LEMMA MinimalSubset ==
    ASSUME NEW S, IsFiniteSet(S), NEW T, T \subseteq SUBSET S, T # {}
    PROVE  \E x \in T : \A y \in T : y \subseteq x => y = x
<1>1. T \subseteq FiniteSubsetsOf(S)
  BY FS_Subset DEF FiniteSubsetsOf
<1>2. \E x \in T : \A y \in T : ~(<<y, x>> \in StrictSubsetOrdering(S))
  BY <1>1, FS_StrictSubsetOrderingWellFounded, WFMin
<1> QED BY <1>2 DEF StrictSubsetOrdering

(* A nonempty set of natural numbers has a least element.                  *)
LEMMA LeastNumber ==
    ASSUME NEW T, T \subseteq Nat, T # {}
    PROVE  \E x \in T : \A y \in T : x <= y
<1>1. PICK n \in T : TRUE
  OBVIOUS
<1> DEFINE I == 0..n
           D == {0..m : m \in {k \in T : k <= n}}
<1>2. D \subseteq SUBSET I /\ D # {} /\ IsFiniteSet(I)
  <2>1. IsFiniteSet(0..n)
    BY FS_Interval
  <2>2. \A k \in T : k <= n => 0..k \subseteq 0..n
    OBVIOUS
  <2>3. 0..n \in D
    OBVIOUS
  <2> QED BY <2>1, <2>2, <2>3
<1>3. \E d \in D : \A y \in D : y \subseteq d => y = d
  <2> HIDE DEF D, I
  <2> QED BY <1>2, MinimalSubset
<1>4. PICK m \in T : m <= n /\ \A y \in D : y \subseteq 0..m => y = 0..m
  BY <1>3
<1>5. ASSUME NEW y \in T, y < m PROVE FALSE
  <2>1. 0..y \in D /\ 0..y \subseteq 0..m
    BY <1>4, <1>5
  <2>2. 0..y = 0..m
    BY <2>1, <1>4
  <2>3. m \in 0..y
    BY <2>2
  <2> QED BY <2>3, <1>5
<1> QED BY <1>4, <1>5

(* Induction over the natural numbers.                                     *)
LEMMA NumberInduction ==
    ASSUME NEW P, 0 \in P, \A n \in Nat : n \in P => n + 1 \in P
    PROVE  Nat \subseteq P
<1> SUFFICES ASSUME Nat \ P # {} PROVE FALSE
  OBVIOUS
<1>1. PICK n \in Nat \ P : \A m \in Nat \ P : n <= m
  BY LeastNumber
<1>2. n # 0 /\ n - 1 \in Nat /\ n - 1 \in P
  BY <1>1
<1>3. (n - 1) + 1 \in P
  BY <1>2
<1> QED BY <1>1, <1>3

(* Induction over the subsets of a finite set.                             *)
IsInductive(P, S) == \A T \in SUBSET S : (\A x \in T : T \ {x} \in P) => T \in P

LEMMA SubsetInduction ==
    ASSUME NEW S, IsFiniteSet(S), NEW P, IsInductive(P, S)
    PROVE  SUBSET S \subseteq P
<1> USE DEF IsInductive
<1> SUFFICES ASSUME (SUBSET S) \ P # {} PROVE FALSE
  OBVIOUS
<1> DEFINE Q == (SUBSET S) \ P
<1>1. PICK T \in Q : \A U \in Q : U \subseteq T => U = T
  <2>1. Q \subseteq SUBSET S /\ Q # {}
    OBVIOUS
  <2> HIDE DEF Q
  <2> QED BY <2>1, MinimalSubset
<1>2. ASSUME NEW x \in T PROVE T \ {x} \in P
  <2>1. T \ {x} \in SUBSET S /\ T \ {x} \subseteq T /\ T \ {x} # T
    OBVIOUS
  <2> QED BY <1>1, <2>1
<1> QED BY <1>2

(***************************************************************************)
(* Recursion: the value of an element of D is found from that of another   *)
(* one of a lower level.                                                   *)
(***************************************************************************)
IsRecursion(D, V, N, level, pred, base, step) ==
    /\ N \in Nat /\ level \in [D -> 0..N] /\ pred \in [D -> D]
    /\ base \in [D -> V] /\ step \in [D \X V -> V]
    /\ \A d \in D : level[d] # 0 => level[pred[d]] < level[d]

FollowsRecursion(g, D, V, level, pred, base, step) ==
    /\ g \in [D -> V]
    /\ \A d \in D : g[d] = IF level[d] = 0 THEN base[d] ELSE step[<<d, g[pred[d]]>>]

LEMMA LevelRecursion ==
    ASSUME NEW D, NEW V, NEW N, NEW level, NEW pred, NEW base, NEW step,
           IsRecursion(D, V, N, level, pred, base, step)
    PROVE  \E g : FollowsRecursion(g, D, V, level, pred, base, step)
<1> USE DEF IsRecursion
<1> DEFINE Below(n) == {d \in D : level[d] <= n}
           Good(n, g) == \A d \in Below(n) :
                             g[d] = IF level[d] = 0 THEN base[d] ELSE step[<<d, g[pred[d]]>>]
           P == {n \in Nat : \E g \in [D -> V] : Good(n, g)}
<1>1. 0 \in P
  <2>1. base \in [D -> V] /\ Good(0, base)
    OBVIOUS
  <2> QED BY <2>1
<1>2. ASSUME NEW n \in Nat, n \in P PROVE n + 1 \in P
  <2>1. PICK g \in [D -> V] : Good(n, g)
    BY <1>2
  <2> DEFINE h == [d \in D |-> IF level[d] <= n THEN g[d] ELSE step[<<d, g[pred[d]]>>]]
  <2>2. h \in [D -> V]
    <3>1. \A d \in D : g[d] \in V /\ g[pred[d]] \in V
      BY <2>1
    <3>2. \A d \in D : step[<<d, g[pred[d]]>>] \in V
      BY <3>1
    <3> QED BY <3>1, <3>2
  <2>3. ASSUME NEW d \in Below(n + 1)
        PROVE  h[d] = IF level[d] = 0 THEN base[d] ELSE step[<<d, h[pred[d]]>>]
    <3>1. d \in D /\ level[d] \in Nat /\ pred[d] \in D /\ level[pred[d]] \in Nat
          /\ level[d] <= n + 1
      BY <2>3
    <3>2. level[d] # 0 => h[pred[d]] = g[pred[d]]
      BY <3>1
    <3>3. CASE level[d] <= n
      <4>1. g[d] = IF level[d] = 0 THEN base[d] ELSE step[<<d, g[pred[d]]>>]
        BY <2>1, <3>1, <3>3
      <4>2. h[d] = g[d]
        BY <3>1, <3>3
      <4> QED BY <3>2, <4>1, <4>2
    <3>4. CASE ~(level[d] <= n)
      <4>1. level[d] # 0
        BY <3>1, <3>4
      <4>2. h[d] = step[<<d, g[pred[d]]>>]
        BY <3>1, <3>4
      <4> QED BY <3>2, <4>1, <4>2
    <3> QED BY <3>3, <3>4
  <2>4. Good(n + 1, h)
    <3> HIDE DEF h
    <3> QED BY <2>3
  <2>5. \E f \in [D -> V] : Good(n + 1, f)
    <3> HIDE DEF h, Good
    <3> QED BY <2>2, <2>4
  <2> QED BY <2>5
<1>3. Nat \subseteq P
  <2> HIDE DEF P
  <2> QED BY <1>1, <1>2, NumberInduction
<1>4. PICK g \in [D -> V] : Good(N, g)
  BY <1>3
<1>5. D = Below(N)
  OBVIOUS
<1> QED BY <1>4, <1>5 DEF FollowsRecursion

(***************************************************************************)
(* A fold over a finite set, one element after the other as pick chooses   *)
(* them.                                                                   *)
(***************************************************************************)
IsFold(S, V, pick, base, step) ==
    /\ IsFiniteSet(S) /\ base \in V /\ step \in [S \X V -> V]
    /\ \A T \in SUBSET S : T # {} => pick[T] \in T

FollowsFold(g, S, V, pick, base, step) ==
    /\ g \in [SUBSET S -> V]
    /\ \A T \in SUBSET S :
           g[T] = IF T = {} THEN base ELSE step[<<pick[T], g[T \ {pick[T]}]>>]

LEMMA FoldRecursion ==
    ASSUME NEW S, NEW V, NEW pick, NEW base, NEW step, IsFold(S, V, pick, base, step)
    PROVE  \E g : FollowsFold(g, S, V, pick, base, step)
<1> USE DEF IsFold
<1> DEFINE level == [T \in SUBSET S |-> Cardinality(T)]
           pred == [T \in SUBSET S |-> T \ {pick[T]}]
           first == [T \in SUBSET S |-> base]
           more == [p \in (SUBSET S) \X V |-> IF p[1] = {} THEN base ELSE step[<<pick[p[1]], p[2]>>]]
           N == Cardinality(S)
<1>1. \A T \in SUBSET S : IsFiniteSet(T) /\ Cardinality(T) \in 0..N
  BY FS_Subset, FS_CardinalityType
<1>2. \A T \in SUBSET S : Cardinality(T) = 0 <=> T = {}
  BY <1>1, FS_EmptySet
<1>3. ASSUME NEW T \in SUBSET S, T # {} PROVE Cardinality(T \ {pick[T]}) < Cardinality(T)
  <2> DEFINE x == pick[T]
  <2>1. x \in T /\ IsFiniteSet(T) /\ Cardinality(T) \in Nat
    BY <1>1, <1>3
  <2>2. Cardinality(T \ {x}) = Cardinality(T) - 1
    <3> HIDE DEF x
    <3> QED BY <2>1, FS_RemoveElement
  <2> QED BY <2>1, <2>2
<1>4. IsRecursion(SUBSET S, V, N, level, pred, first, more)
  <2>1. N \in Nat
    BY FS_CardinalityType
  <2>2. level \in [SUBSET S -> 0..N] /\ pred \in [SUBSET S -> SUBSET S]
        /\ first \in [SUBSET S -> V]
    BY <1>1
  <2>3. more \in [(SUBSET S) \X V -> V]
    <3> SUFFICES ASSUME NEW T \in SUBSET S, NEW v \in V, T # {}
                 PROVE  step[<<pick[T], v>>] \in V
      OBVIOUS
    <3>1. pick[T] \in S
      OBVIOUS
    <3> QED BY <3>1
  <2>4. \A T \in SUBSET S : level[T] # 0 => level[pred[T]] < level[T]
    BY <1>2, <1>3
  <2> QED BY <2>1, <2>2, <2>3, <2>4 DEF IsRecursion
<1>5. PICK g : FollowsRecursion(g, SUBSET S, V, level, pred, first, more)
  <2> HIDE DEF level, pred, first, more, N
  <2> QED BY <1>4, LevelRecursion
<1>6. ASSUME NEW T \in SUBSET S
      PROVE  g[T] = IF T = {} THEN base ELSE step[<<pick[T], g[T \ {pick[T]}]>>]
  <2>1. level[T] = 0 <=> T = {}
    BY <1>2
  <2>2. first[T] = base /\ pred[T] = T \ {pick[T]} /\ pred[T] \in SUBSET S
    OBVIOUS
  <2>3. g[T \ {pick[T]}] \in V
    BY <1>5 DEF FollowsRecursion
  <2>4. T # {} => more[<<T, g[pred[T]]>>] = step[<<pick[T], g[pred[T]]>>]
    BY <2>2, <2>3
  <2> HIDE DEF level, pred, first, more
  <2> QED BY <1>5, <2>1, <2>2, <2>4 DEF FollowsRecursion
<1> QED BY <1>5, <1>6 DEF FollowsRecursion, FollowsFold

-----------------------------------------------------------------------------
(* Folds over sequences, from the left.                                    *)

(* A nonempty set of numbers with a bound has a greatest one.              *)
LEMMA GreatestNumber ==
    ASSUME NEW N \in Nat, NEW T, T \subseteq 0..N, T # {}
    PROVE  Max(T) \in T /\ \A y \in T : Max(T) >= y
<1> DEFINE U == {N - x : x \in T}
<1>1. U \subseteq Nat /\ U # {}
  <2>1. \A x \in T : N - x \in Nat
    OBVIOUS
  <2>2. PICK x \in T : TRUE
    OBVIOUS
  <2> QED BY <2>1, <2>2
<1>2. PICK u \in U : \A y \in U : u <= y
  <2> HIDE DEF U
  <2> QED BY <1>1, LeastNumber
<1>3. PICK x \in T : u = N - x
  OBVIOUS
<1>4. ASSUME NEW y \in T PROVE x >= y
  <2>1. N - y \in U /\ y \in 0..N /\ x \in 0..N
    OBVIOUS
  <2>2. N - x <= N - y
    <3> HIDE DEF U
    <3> QED BY <1>2, <1>3, <2>1
  <2> QED BY <2>1, <2>2
<1> QED BY <1>4 DEF Max

LEMMA PrefixMax ==
    ASSUME NEW N \in Nat, NEW n \in 1..N
    PROVE  /\ Max(1..n) = n /\ (1..n) \ {n} = 1..(n - 1) /\ 1..n # {}
           /\ 1..n \in SUBSET (1..N) /\ 1..(n - 1) \in SUBSET (1..N)
<1>1. 1..n \subseteq 0..n /\ 1..n # {} /\ n \in Nat /\ n \in 1..n
  OBVIOUS
<1>2. Max(1..n) \in 1..n /\ \A y \in 1..n : Max(1..n) >= y
  BY <1>1, GreatestNumber
<1>3. Max(1..n) = n
  <2> DEFINE m == Max(1..n)
  <2>1. m \in 1..n /\ m >= n
    BY <1>1, <1>2
  <2>2. m = n
    <3> HIDE DEF m
    <3> QED BY <2>1
  <2> QED BY <2>2
<1> QED BY <1>1, <1>3

(* A function on the sets of positions that folds the elements into base   *)
(* one after the other, the last one last.                                 *)
FoldsLeft(g, s, V, base, step) ==
    /\ g \in [SUBSET (1..Len(s)) -> V]
    /\ \A T \in SUBSET (1..Len(s)) :
           g[T] = IF T = {} THEN base ELSE step[<<g[T \ {Max(T)}], s[Max(T)]>>]

LEMMA LeftFoldRecursion ==
    ASSUME NEW E, NEW V, NEW s \in Seq(E), NEW base \in V, NEW step \in [V \X E -> V]
    PROVE  \E g : FoldsLeft(g, s, V, base, step)
<1> DEFINE N == Len(s)
           S == 1..N
           pick == [T \in SUBSET S |-> Max(T)]
           more == [p \in S \X V |-> step[<<p[2], s[p[1]]>>]]
<1>1. N \in Nat /\ \A n \in S : s[n] \in E
  OBVIOUS
<1>2. \A T \in SUBSET S : T # {} => Max(T) \in T
  <2> SUFFICES ASSUME NEW T \in SUBSET S, T # {} PROVE Max(T) \in T
    OBVIOUS
  <2>1. T \subseteq 0..N
    OBVIOUS
  <2> HIDE DEF N
  <2> QED BY <1>1, <2>1, GreatestNumber
<1>3. IsFold(S, V, pick, base, more)
  <2>1. IsFiniteSet(S)
    BY <1>1, FS_Interval
  <2>2. more \in [S \X V -> V]
    BY <1>1
  <2>3. \A T \in SUBSET S : T # {} => pick[T] \in T
    BY <1>2
  <2> HIDE DEF S, pick, more
  <2> QED BY <2>1, <2>2, <2>3 DEF IsFold
<1>4. PICK g : FollowsFold(g, S, V, pick, base, more)
  <2> HIDE DEF S, pick, more
  <2> QED BY <1>3, FoldRecursion
<1>5. ASSUME NEW T \in SUBSET S
      PROVE  g[T] = IF T = {} THEN base ELSE step[<<g[T \ {Max(T)}], s[Max(T)]>>]
  <2>1. g[T] = IF T = {} THEN base ELSE more[<<pick[T], g[T \ {pick[T]}]>>]
    <3> HIDE DEF S, pick, more
    <3> QED BY <1>4 DEF FollowsFold
  <2>2. pick[T] = Max(T) /\ T \ {Max(T)} \in SUBSET S
    OBVIOUS
  <2>3. g[T \ {Max(T)}] \in V
    <3> HIDE DEF S
    <3> QED BY <1>4, <2>2 DEF FollowsFold
  <2>4. T # {} => more[<<Max(T), g[T \ {Max(T)}]>>] = step[<<g[T \ {Max(T)}], s[Max(T)]>>]
    <3> SUFFICES ASSUME T # {}
                 PROVE  more[<<Max(T), g[T \ {Max(T)}]>>] = step[<<g[T \ {Max(T)}], s[Max(T)]>>]
      OBVIOUS
    <3>1. Max(T) \in S
      BY <1>2
    <3> DEFINE x == Max(T)
               v == g[T \ {Max(T)}]
    <3>2. x \in S /\ v \in V
      BY <2>3, <3>1
    <3> HIDE DEF x, v
    <3>3. more[<<x, v>>] = step[<<v, s[x]>>]
      BY <3>2
    <3> QED BY <3>3 DEF x, v
  <2> HIDE DEF more, pick
  <2> QED BY <2>1, <2>2, <2>4
<1>6. FoldsLeft(g, s, V, base, step)
  <2>1. g \in [SUBSET S -> V]
    BY <1>4 DEF FollowsFold
  <2> QED BY <1>5, <2>1 DEF FoldsLeft
<1> QED BY <1>6

-----------------------------------------------------------------------------
(* Sums.                                                                   *)

IsNumbering(f, S) == IsFiniteSet(S) /\ \A x \in S : f[x] \in Nat

(* The function by which a sum is defined exists, and follows its          *)
(* definition.                                                             *)
FollowsSum(g, f, S) ==
    /\ g \in [SUBSET S -> Nat] /\ SumFunctionOnSet(f, S) = g[S]
    /\ \A T \in SUBSET S :
           g[T] = IF T = {} THEN 0
                  ELSE f[CHOOSE x \in T : TRUE] + g[T \ {CHOOSE x \in T : TRUE}]

LEMMA SumRecursion ==
    ASSUME NEW f, NEW S, IsNumbering(f, S)
    PROVE  \E g : FollowsSum(g, f, S)
<1> USE DEF IsNumbering
<1> DEFINE pick == [T \in SUBSET S |-> CHOOSE x \in T : TRUE]
           step == [p \in S \X Nat |-> f[p[1]] + p[2]]
           iter(g) == [T \in SUBSET S |->
                          IF T = {} THEN 0
                          ELSE f[CHOOSE x \in T : TRUE] + g[T \ {CHOOSE x \in T : TRUE}]]
<1>1. \A T \in SUBSET S : T # {} => (CHOOSE x \in T : TRUE) \in T
  OBVIOUS
<1>2. IsFold(S, Nat, pick, 0, step)
  BY <1>1 DEF IsFold
<1>3. PICK g : FollowsFold(g, S, Nat, pick, 0, step)
  <2> HIDE DEF pick, step
  <2> QED BY <1>2, FoldRecursion
<1>4. ASSUME NEW T \in SUBSET S
      PROVE  g[T] = IF T = {} THEN 0
                    ELSE f[CHOOSE x \in T : TRUE] + g[T \ {CHOOSE x \in T : TRUE}]
  <2>1. pick[T] = CHOOSE x \in T : TRUE
    OBVIOUS
  <2>2. T # {} => pick[T] \in S
    BY <1>1, <2>1
  <2>3. g[T \ {pick[T]}] \in Nat
    BY <1>3 DEF FollowsFold
  <2>4. T # {} => step[<<pick[T], g[T \ {pick[T]}]>>] = f[pick[T]] + g[T \ {pick[T]}]
    <3> HIDE DEF pick
    <3> QED BY <2>2, <2>3
  <2> HIDE DEF step
  <2> QED BY <1>3, <2>1, <2>4 DEF FollowsFold
<1>5. g = iter(g)
  <2>1. \A T \in SUBSET S : g[T] = iter(g)[T]
    BY <1>4
  <2> QED BY <1>3, <2>1 DEF FollowsFold
<1> DEFINE G == CHOOSE h : h = iter(h)
<1>6. G = iter(G)
  <2> HIDE DEF iter
  <2> QED BY <1>5
<1>7. SumFunctionOnSet(f, S) = G[S]
  BY DEF SumFunctionOnSet, FoldFunctionOnSet, MapThenFoldSet
<1>8. \A T \in SUBSET S : G[T] = g[T]
  <2> DEFINE P == {T \in SUBSET S : G[T] = g[T]}
  <2>1. ASSUME NEW T \in SUBSET S, \A x \in T : T \ {x} \in P
        PROVE  T \in P
    <3>1. T # {} => G[T \ {CHOOSE x \in T : TRUE}] = g[T \ {CHOOSE x \in T : TRUE}]
      BY <1>1, <2>1
    <3>2. iter(G)[T] = iter(g)[T]
      BY <3>1
    <3> QED BY <1>5, <1>6, <3>2
  <2>2. IsInductive(P, S)
    BY <2>1 DEF IsInductive
  <2>3. SUBSET S \subseteq P
    <3> HIDE DEF P
    <3> QED BY <2>2, SubsetInduction
  <2> QED BY <2>3
<1>9. FollowsSum(g, f, S)
  BY <1>3, <1>4, <1>7, <1>8 DEF FollowsFold, FollowsSum
<1> QED BY <1>9

(* A sum is a number, and follows its definition.                          *)
LEMMA SumDefinition ==
    ASSUME NEW f, NEW S, IsNumbering(f, S)
    PROVE  /\ SumFunctionOnSet(f, S) \in Nat
           /\ SumFunctionOnSet(f, S) =
                  IF S = {} THEN 0
                  ELSE f[CHOOSE x \in S : TRUE]
                       + SumFunctionOnSet(f, S \ {CHOOSE x \in S : TRUE})
<1> DEFINE x == CHOOSE y \in S : TRUE
           U == S \ {x}
<1>1. PICK g : FollowsSum(g, f, S)
  BY SumRecursion
<1>2. IsNumbering(f, U)
  BY FS_Subset DEF IsNumbering
<1>3. PICK h : FollowsSum(h, f, U)
  <2> HIDE DEF U
  <2> QED BY <1>2, SumRecursion
<1>4. U \in SUBSET U /\ U \in SUBSET S
  OBVIOUS
<1>5. g[U] = h[U]
  <2> DEFINE P == {T \in SUBSET U : g[T] = h[T]}
  <2>1. ASSUME NEW T \in SUBSET U, \A y \in T : T \ {y} \in P
        PROVE  T \in P
    <3> DEFINE z == CHOOSE y \in T : TRUE
    <3>1. T \in SUBSET S
      OBVIOUS
    <3>2. T # {} => z \in T
      OBVIOUS
    <3>3. T # {} => g[T \ {z}] = h[T \ {z}]
      BY <2>1, <3>2
    <3>4. g[T] = IF T = {} THEN 0 ELSE f[z] + g[T \ {z}]
      BY <1>1, <3>1 DEF FollowsSum
    <3>5. h[T] = IF T = {} THEN 0 ELSE f[z] + h[T \ {z}]
      BY <1>3 DEF FollowsSum
    <3>6. g[T] = h[T]
      <4> HIDE DEF z
      <4> QED BY <3>3, <3>4, <3>5
    <3> QED BY <3>6
  <2>2. IsInductive(P, U)
    BY <2>1 DEF IsInductive
  <2>3. IsFiniteSet(U)
    BY <1>2 DEF IsNumbering
  <2>4. SUBSET U \subseteq P
    <3> HIDE DEF P, U
    <3> QED BY <2>2, <2>3, SubsetInduction
  <2> QED BY <1>4, <2>4
<1>6. g[S] \in Nat /\ SumFunctionOnSet(f, S) = g[S] /\ SumFunctionOnSet(f, U) = h[U]
  BY <1>1, <1>3 DEF FollowsSum
<1>7. g[S] = IF S = {} THEN 0 ELSE f[x] + g[U]
  BY <1>1 DEF FollowsSum
<1> QED BY <1>5, <1>6, <1>7

LEMMA SumNat ==
    ASSUME NEW f, NEW S, IsNumbering(f, S)
    PROVE  SumFunctionOnSet(f, S) \in Nat
BY SumDefinition

(* A sum does not depend on the order of its terms.                        *)
LEMMA SumRemove ==
    ASSUME NEW f, NEW S, IsNumbering(f, S), NEW x \in S
    PROVE  SumFunctionOnSet(f, S) = f[x] + SumFunctionOnSet(f, S \ {x})
<1> DEFINE P == {T \in SUBSET S : \A y \in T :
                    SumFunctionOnSet(f, T) = f[y] + SumFunctionOnSet(f, T \ {y})}
<1>1. \A T \in SUBSET S : IsNumbering(f, T)
  BY FS_Subset DEF IsNumbering
<1>2. ASSUME NEW T \in SUBSET S, \A y \in T : T \ {y} \in P
      PROVE  T \in P
  <2> SUFFICES ASSUME NEW y \in T
               PROVE  SumFunctionOnSet(f, T) = f[y] + SumFunctionOnSet(f, T \ {y})
    OBVIOUS
  <2> DEFINE z == CHOOSE u \in T : TRUE
  <2>1. z \in T
    OBVIOUS
  <2>2. SumFunctionOnSet(f, T) = f[z] + SumFunctionOnSet(f, T \ {z})
    BY <1>1, SumDefinition
  <2> HIDE DEF z
  <2>3. CASE y = z
    BY <2>2, <2>3
  <2>4. CASE y # z
    <3> DEFINE W == (T \ {z}) \ {y}
    <3>1. W = (T \ {y}) \ {z}
      OBVIOUS
    <3>2. SumFunctionOnSet(f, T \ {z}) = f[y] + SumFunctionOnSet(f, W)
      BY <1>2, <2>1, <2>4
    <3>3. SumFunctionOnSet(f, T \ {y}) = f[z] + SumFunctionOnSet(f, W)
      BY <1>2, <2>1, <2>4, <3>1
    <3>4. W \in SUBSET S
      OBVIOUS
    <3>5. SumFunctionOnSet(f, W) \in Nat /\ f[y] \in Nat /\ f[z] \in Nat
      <4> HIDE DEF W
      <4> QED BY <1>1, <2>1, <3>4, SumDefinition DEF IsNumbering
    <3> QED BY <2>2, <3>2, <3>3, <3>5
  <2> QED BY <2>3, <2>4
<1>3. IsInductive(P, S)
  BY <1>2 DEF IsInductive
<1>4. SUBSET S \subseteq P
  <2> HIDE DEF P
  <2> QED BY <1>3, SubsetInduction DEF IsNumbering
<1> QED BY <1>4

LEMMA SumAdd ==
    ASSUME NEW f, NEW S, NEW x, x \notin S, IsNumbering(f, S \cup {x})
    PROVE  SumFunctionOnSet(f, S \cup {x}) = f[x] + SumFunctionOnSet(f, S)
<1>1. (S \cup {x}) \ {x} = S
  OBVIOUS
<1> QED BY <1>1, SumRemove

LEMMA SumEmpty ==
    ASSUME NEW f
    PROVE  SumFunctionOnSet(f, {}) = 0
BY SumDefinition, FS_EmptySet DEF IsNumbering

(* Terms that are equal have equal sums.                                   *)
LEMMA SumSame ==
    ASSUME NEW f, NEW g, NEW S, IsNumbering(f, S), \A x \in S : f[x] = g[x]
    PROVE  SumFunctionOnSet(f, S) = SumFunctionOnSet(g, S)
<1> DEFINE P == {T \in SUBSET S : SumFunctionOnSet(f, T) = SumFunctionOnSet(g, T)}
<1>1. \A T \in SUBSET S : IsNumbering(f, T) /\ IsNumbering(g, T)
  BY FS_Subset DEF IsNumbering
<1>2. ASSUME NEW T \in SUBSET S, \A y \in T : T \ {y} \in P
      PROVE  T \in P
  <2>1. CASE T = {}
    BY <2>1, SumEmpty
  <2>2. ASSUME NEW y \in T PROVE T \in P
    <3>1. SumFunctionOnSet(f, T) = f[y] + SumFunctionOnSet(f, T \ {y})
      BY <1>1, SumRemove
    <3>2. SumFunctionOnSet(g, T) = g[y] + SumFunctionOnSet(g, T \ {y})
      BY <1>1, SumRemove
    <3> QED BY <1>2, <3>1, <3>2
  <2> QED BY <2>1, <2>2
<1>3. IsInductive(P, S)
  BY <1>2 DEF IsInductive
<1>4. SUBSET S \subseteq P
  <2> HIDE DEF P
  <2> QED BY <1>3, SubsetInduction DEF IsNumbering
<1> QED BY <1>4

(* The sum over two disjoint sets.                                         *)
LEMMA SumUnion ==
    ASSUME NEW f, NEW S, NEW T, IsNumbering(f, S), IsNumbering(f, T), S \cap T = {}
    PROVE  SumFunctionOnSet(f, S \cup T) = SumFunctionOnSet(f, S) + SumFunctionOnSet(f, T)
<1> DEFINE P == {U \in SUBSET T :
                    SumFunctionOnSet(f, S \cup U) = SumFunctionOnSet(f, S) + SumFunctionOnSet(f, U)}
<1>1. \A U \in SUBSET T : IsNumbering(f, U) /\ IsNumbering(f, S \cup U)
  BY FS_Subset, FS_Union DEF IsNumbering
<1>2. ASSUME NEW U \in SUBSET T, \A y \in U : U \ {y} \in P
      PROVE  U \in P
  <2>0. SumFunctionOnSet(f, S) \in Nat
    BY SumDefinition
  <2>1. CASE U = {}
    <3>1. S \cup U = S
      BY <2>1
    <3> QED BY <2>0, <2>1, <3>1, SumEmpty
  <2>2. ASSUME NEW y \in U PROVE U \in P
    <3>0. IsNumbering(f, U) /\ IsNumbering(f, S \cup U) /\ IsNumbering(f, U \ {y})
      BY <1>1
    <3>1. SumFunctionOnSet(f, U) = f[y] + SumFunctionOnSet(f, U \ {y})
      BY <3>0, SumRemove
    <3>2. SumFunctionOnSet(f, S \cup U) = f[y] + SumFunctionOnSet(f, (S \cup U) \ {y})
      BY <3>0, SumRemove
    <3>3. (S \cup U) \ {y} = S \cup (U \ {y})
      OBVIOUS
    <3>4. SumFunctionOnSet(f, U \ {y}) \in Nat /\ f[y] \in Nat
      BY <3>0, SumDefinition DEF IsNumbering
    <3>5. SumFunctionOnSet(f, S \cup (U \ {y})) = SumFunctionOnSet(f, S) + SumFunctionOnSet(f, U \ {y})
      BY <1>2
    <3>6. SumFunctionOnSet(f, S \cup U) = SumFunctionOnSet(f, S) + SumFunctionOnSet(f, U)
      <4> DEFINE a == SumFunctionOnSet(f, S)
                 b == SumFunctionOnSet(f, U \ {y})
                 c == SumFunctionOnSet(f, S \cup U)
                 d == SumFunctionOnSet(f, U)
      <4>1. d = f[y] + b /\ c = f[y] + (a + b) /\ a \in Nat /\ b \in Nat /\ f[y] \in Nat
        BY <2>0, <3>1, <3>2, <3>3, <3>4, <3>5
      <4>2. c = a + d
        <5> HIDE DEF a, b, c, d
        <5> QED BY <4>1
      <4> QED BY <4>2
    <3> QED BY <3>6
  <2> QED BY <2>1, <2>2
<1>3. IsInductive(P, T)
  BY <1>2 DEF IsInductive
<1>4. SUBSET T \subseteq P
  <2> HIDE DEF P
  <2> QED BY <1>3, SubsetInduction DEF IsNumbering
<1> QED BY <1>4

(* More terms, a larger sum.                                               *)
LEMMA SumMonotone ==
    ASSUME NEW f, NEW S, IsNumbering(f, S), NEW T \in SUBSET S
    PROVE  /\ IsNumbering(f, T)
           /\ SumFunctionOnSet(f, T) <= SumFunctionOnSet(f, S)
           /\ SumFunctionOnSet(f, S) =
                  SumFunctionOnSet(f, T) + SumFunctionOnSet(f, S \ T)
<1>1. IsNumbering(f, T) /\ IsNumbering(f, S \ T)
  BY FS_Subset DEF IsNumbering
<1>2. T \cup (S \ T) = S /\ T \cap (S \ T) = {}
  OBVIOUS
<1>3. SumFunctionOnSet(f, S) = SumFunctionOnSet(f, T) + SumFunctionOnSet(f, S \ T)
  BY <1>1, <1>2, SumUnion
<1>4. SumFunctionOnSet(f, T) \in Nat /\ SumFunctionOnSet(f, S \ T) \in Nat
  BY <1>1, SumDefinition
<1> QED BY <1>1, <1>3, <1>4

(* The sum of sums.                                                        *)
IsPlus(f, g, h, S) == \A x \in S : f[x] = g[x] + h[x]

LEMMA SumPlus ==
    ASSUME NEW f, NEW g, NEW h, NEW S, IsNumbering(g, S), IsNumbering(h, S),
           IsPlus(f, g, h, S)
    PROVE  /\ IsNumbering(f, S)
           /\ SumFunctionOnSet(f, S) = SumFunctionOnSet(g, S) + SumFunctionOnSet(h, S)
<1> DEFINE P == {T \in SUBSET S : SumFunctionOnSet(f, T)
                                      = SumFunctionOnSet(g, T) + SumFunctionOnSet(h, T)}
<1>1. IsNumbering(f, S)
  BY DEF IsNumbering, IsPlus
<1>2. \A T \in SUBSET S : IsNumbering(f, T) /\ IsNumbering(g, T) /\ IsNumbering(h, T)
  BY <1>1, FS_Subset DEF IsNumbering
<1>3. ASSUME NEW T \in SUBSET S, \A y \in T : T \ {y} \in P
      PROVE  T \in P
  <2>1. CASE T = {}
    <3>1. /\ SumFunctionOnSet(f, {}) = 0 /\ SumFunctionOnSet(g, {}) = 0
          /\ SumFunctionOnSet(h, {}) = 0
      BY SumEmpty
    <3> QED BY <2>1, <3>1
  <2>2. CASE T # {}
    <3>1. PICK x \in T : TRUE
      BY <2>2
    <3> DEFINE U == T \ {x}
    <3>2. U \in SUBSET S /\ IsNumbering(f, U) /\ IsNumbering(g, U) /\ IsNumbering(h, U)
      BY <1>2
    <3>3. /\ SumFunctionOnSet(f, T) = f[x] + SumFunctionOnSet(f, U)
          /\ SumFunctionOnSet(g, T) = g[x] + SumFunctionOnSet(g, U)
          /\ SumFunctionOnSet(h, T) = h[x] + SumFunctionOnSet(h, U)
      BY <1>2, SumRemove
    <3>4. SumFunctionOnSet(f, U) = SumFunctionOnSet(g, U) + SumFunctionOnSet(h, U)
      BY <1>3
    <3>5. f[x] = g[x] + h[x] /\ g[x] \in Nat /\ h[x] \in Nat
      BY DEF IsNumbering, IsPlus
    <3>6. SumFunctionOnSet(g, U) \in Nat /\ SumFunctionOnSet(h, U) \in Nat
      <4> HIDE DEF U
      <4> QED BY <3>2, SumDefinition
    <3> HIDE DEF U
    <3>7. SumFunctionOnSet(f, T) = SumFunctionOnSet(g, T) + SumFunctionOnSet(h, T)
      BY <3>3, <3>4, <3>5, <3>6
    <3> QED BY <3>7
  <2> QED BY <2>1, <2>2
<1>4. IsInductive(P, S)
  BY <1>3 DEF IsInductive
<1>5. SUBSET S \subseteq P
  <2>1. IsFiniteSet(S)
    BY DEF IsNumbering
  <2> HIDE DEF P
  <2> QED BY <1>4, <2>1, SubsetInduction
<1> QED BY <1>1, <1>5

(* A sum in which one term changes.                                        *)
LEMMA SumUpdate ==
    ASSUME NEW f, NEW g, NEW S, IsNumbering(f, S), IsNumbering(g, S), NEW x \in S,
           \A y \in S \ {x} : f[y] = g[y]
    PROVE  /\ SumFunctionOnSet(f, S) + g[x] = SumFunctionOnSet(g, S) + f[x]
           /\ SumFunctionOnSet(f, S) \in Nat /\ SumFunctionOnSet(g, S) \in Nat
<1> DEFINE U == S \ {x}
<1>1. IsNumbering(f, U) /\ IsNumbering(g, U)
  BY FS_Subset DEF IsNumbering
<1>2. SumFunctionOnSet(f, U) = SumFunctionOnSet(g, U)
  <2> HIDE DEF U
  <2>1. \A y \in U : f[y] = g[y]
    BY DEF U
  <2> QED BY <1>1, <2>1, SumSame
<1>3. /\ SumFunctionOnSet(f, S) = f[x] + SumFunctionOnSet(f, U)
      /\ SumFunctionOnSet(g, S) = g[x] + SumFunctionOnSet(g, U)
  BY SumRemove
<1>4. SumFunctionOnSet(f, U) \in Nat /\ f[x] \in Nat /\ g[x] \in Nat
  <2>1. SumFunctionOnSet(f, U) \in Nat
    <3> HIDE DEF U
    <3> QED BY <1>1, SumDefinition
  <2> QED BY <2>1 DEF IsNumbering
<1> HIDE DEF U
<1> QED BY <1>2, <1>3, <1>4

LEMMA SumZero ==
    ASSUME NEW f, NEW S, IsFiniteSet(S), \A x \in S : f[x] = 0
    PROVE  IsNumbering(f, S) /\ SumFunctionOnSet(f, S) = 0
<1>1. IsNumbering(f, S) /\ IsPlus(f, f, f, S)
  BY DEF IsNumbering, IsPlus
<1>2. SumFunctionOnSet(f, S) = SumFunctionOnSet(f, S) + SumFunctionOnSet(f, S)
  BY <1>1, SumPlus
<1>3. SumFunctionOnSet(f, S) \in Nat
  BY <1>1, SumDefinition
<1> DEFINE t == SumFunctionOnSet(f, S)
<1>4. t = 0
  <2>1. t \in Nat /\ t = t + t
    BY <1>2, <1>3
  <2> HIDE DEF t
  <2> QED BY <2>1
<1> QED BY <1>1, <1>4

(* A column of a table.                                                    *)
IsColumn(f, g, A, i) == IsNumbering(g, A) /\ \A a \in A : f[<<a, i>>] = g[a]

LEMMA SumColumn ==
    ASSUME NEW f, NEW g, NEW A, NEW i, IsColumn(f, g, A, i)
    PROVE  /\ IsNumbering(f, A \X {i})
           /\ SumFunctionOnSet(f, A \X {i}) = SumFunctionOnSet(g, A)
<1> DEFINE P == {T \in SUBSET A : SumFunctionOnSet(f, T \X {i}) = SumFunctionOnSet(g, T)}
<1> USE DEF IsColumn
<1>1. \A T \in SUBSET A : IsNumbering(f, T \X {i}) /\ IsNumbering(g, T)
  <2> SUFFICES ASSUME NEW T \in SUBSET A PROVE IsNumbering(f, T \X {i}) /\ IsNumbering(g, T)
    OBVIOUS
  <2>1. IsFiniteSet(T)
    BY FS_Subset DEF IsNumbering
  <2>2. IsFiniteSet({i})
    BY FS_Singleton
  <2>3. IsFiniteSet(T \X {i})
    BY <2>1, <2>2, FS_Product
  <2>4. \A p \in T \X {i} : f[p] \in Nat
    BY DEF IsNumbering
  <2> QED BY <2>1, <2>3, <2>4 DEF IsNumbering
<1>2. ASSUME NEW T \in SUBSET A, \A y \in T : T \ {y} \in P
      PROVE  T \in P
  <2>1. CASE T = {}
    <3>1. SumFunctionOnSet(f, {}) = 0 /\ SumFunctionOnSet(g, {}) = 0
      BY SumEmpty
    <3>2. T \X {i} = {}
      BY <2>1
    <3> QED BY <2>1, <3>1, <3>2
  <2>2. CASE T # {}
    <3>1. PICK x \in T : TRUE
      BY <2>2
    <3> DEFINE U == T \ {x}
    <3>2. (T \X {i}) \ {<<x, i>>} = U \X {i} /\ <<x, i>> \in T \X {i}
      OBVIOUS
    <3>3. SumFunctionOnSet(g, T) = g[x] + SumFunctionOnSet(g, U)
      <4>1. IsNumbering(g, T)
        BY <1>1
      <4> HIDE DEF IsColumn, P
      <4> QED BY <3>1, <4>1, SumRemove
    <3>4. SumFunctionOnSet(f, T \X {i}) = f[<<x, i>>] + SumFunctionOnSet(f, U \X {i})
      <4> DEFINE C == T \X {i}
      <4>1. IsNumbering(f, C) /\ <<x, i>> \in C
        BY <1>1, <3>2
      <4>2. SumFunctionOnSet(f, C) = f[<<x, i>>] + SumFunctionOnSet(f, C \ {<<x, i>>})
        <5> HIDE DEF C
        <5> QED BY <4>1, SumRemove
      <4> HIDE DEF U
      <4> QED BY <3>2, <4>2
    <3>5. SumFunctionOnSet(f, U \X {i}) = SumFunctionOnSet(g, U)
      BY <1>2
    <3>6. f[<<x, i>>] = g[x]
      OBVIOUS
    <3> HIDE DEF U
    <3>7. SumFunctionOnSet(f, T \X {i}) = SumFunctionOnSet(g, T)
      BY <3>3, <3>4, <3>5, <3>6
    <3> QED BY <3>7
  <2> QED BY <2>1, <2>2
<1>3. IsInductive(P, A)
  BY <1>2 DEF IsInductive
<1>4. SUBSET A \subseteq P
  <2>1. IsFiniteSet(A)
    BY DEF IsNumbering
  <2> HIDE DEF P
  <2> QED BY <1>3, <2>1, SubsetInduction
<1> QED BY <1>1, <1>4

(* The differences of a sequence of numbers that does not decrease add up  *)
(* to how much it has grown.                                               *)
GrowsBy(u, d, N) ==
    /\ u \in [0..N -> Nat]
    /\ \A k \in 1..N : d[k] \in Nat /\ u[k] = u[k - 1] + d[k]

LEMMA SumDifferences ==
    ASSUME NEW N \in Nat, NEW u, NEW d, GrowsBy(u, d, N)
    PROVE  IsNumbering(d, 1..N) /\ u[N] = u[0] + SumFunctionOnSet(d, 1..N)
<1> DEFINE P == {n \in Nat : n <= N => u[n] = u[0] + SumFunctionOnSet(d, 1..n)}
<1>1. \A n \in 0..N : IsNumbering(d, 1..n)
  <2>1. \A n \in 0..N : 1 \in Int /\ n \in Int /\ 1..n \subseteq 1..N
    OBVIOUS
  <2>2. \A n \in 0..N : IsFiniteSet(1..n)
    BY <2>1, FS_Interval
  <2> QED BY <2>1, <2>2 DEF IsNumbering, GrowsBy
<1>2. 0 \in P
  <2>1. 1..0 = {} /\ u[0] \in Nat
    BY DEF GrowsBy
  <2>2. SumFunctionOnSet(d, {}) = 0
    BY SumEmpty
  <2> QED BY <2>1, <2>2
<1>3. ASSUME NEW n \in Nat, n \in P PROVE n + 1 \in P
  <2> SUFFICES ASSUME n + 1 <= N PROVE u[n + 1] = u[0] + SumFunctionOnSet(d, 1..(n + 1))
    OBVIOUS
  <2>1. n + 1 \in 1..N /\ n \in 0..N /\ n + 1 \in 0..N /\ (n + 1) - 1 = n
    OBVIOUS
  <2>2. u[n] = u[0] + SumFunctionOnSet(d, 1..n)
    BY <1>3, <2>1
  <2>3. n + 1 \in 1..(n + 1) /\ (1..(n + 1)) \ {n + 1} = 1..n
    BY <2>1
  <2>4. SumFunctionOnSet(d, 1..(n + 1)) = d[n + 1] + SumFunctionOnSet(d, (1..(n + 1)) \ {n + 1})
    <3> DEFINE x == n + 1
               S == 1..(n + 1)
    <3>1. IsNumbering(d, S) /\ x \in S
      BY <1>1, <2>1, <2>3
    <3>2. SumFunctionOnSet(d, S) = d[x] + SumFunctionOnSet(d, S \ {x})
      <4> HIDE DEF S, x
      <4> QED BY <3>1, SumRemove
    <3> QED BY <3>2
  <2>5. SumFunctionOnSet(d, 1..n) \in Nat
    BY <1>1, <2>1, SumDefinition
  <2>6. u[n + 1] = u[n] + d[n + 1] /\ d[n + 1] \in Nat /\ u[0] \in Nat
    BY <2>1 DEF GrowsBy
  <2> DEFINE t == SumFunctionOnSet(d, 1..n)
  <2>7. SumFunctionOnSet(d, 1..(n + 1)) = d[n + 1] + t
    BY <2>3, <2>4
  <2>8. t \in Nat /\ u[n] = u[0] + t
    BY <2>2, <2>5
  <2> HIDE DEF t
  <2> QED BY <2>6, <2>7, <2>8
<1>4. Nat \subseteq P
  <2> HIDE DEF P
  <2> QED BY <1>2, <1>3, NumberInduction
<1> QED BY <1>1, <1>4

-----------------------------------------------------------------------------
(* Vectors.                                                                *)

(* The function by which Retain is defined exists, and follows its         *)
(* definition.                                                             *)
FollowsRetain(g, s, keep, E) ==
    /\ g \in [0..Len(s) -> Seq(E)] /\ g[0] = <<>> /\ Retain(s, keep) = g[Len(s)]
    /\ \A n \in 1..Len(s) :
           g[n] = IF n \in keep THEN Append(g[n - 1], s[n]) ELSE g[n - 1]

LEMMA RetainRecursion ==
    ASSUME NEW E, NEW s \in Seq(E), NEW keep
    PROVE  \E g : FollowsRetain(g, s, keep, E)
<1> DEFINE N == Len(s)
           D == 0..N
           level == [d \in D |-> d]
           pred == [d \in D |-> IF d = 0 THEN 0 ELSE d - 1]
           base == [d \in D |-> <<>>]
           step == [p \in D \X Seq(E) |->
                       IF p[1] \in keep \cap 1..N THEN Append(p[2], s[p[1]]) ELSE p[2]]
           iter(g) == [n \in 0..Len(s) |->
                          IF n = 0 THEN <<>>
                          ELSE IF n \in keep THEN Append(g[n - 1], s[n]) ELSE g[n - 1]]
<1>1. N \in Nat /\ \A n \in 1..N : s[n] \in E
  OBVIOUS
<1>2. IsRecursion(D, Seq(E), N, level, pred, base, step)
  <2>1. step \in [D \X Seq(E) -> Seq(E)]
    BY <1>1
  <2>2. base \in [D -> Seq(E)]
    OBVIOUS
  <2> HIDE DEF step, base
  <2> QED BY <1>1, <2>1, <2>2 DEF IsRecursion
<1>3. PICK g : FollowsRecursion(g, D, Seq(E), level, pred, base, step)
  <2> HIDE DEF D, N, level, pred, base, step
  <2> QED BY <1>2, LevelRecursion
<1>4. g \in [0..Len(s) -> Seq(E)]
  BY <1>3 DEF FollowsRecursion
<1>5. g[0] = <<>>
  <2>1. 0 \in D /\ level[0] = 0 /\ base[0] = <<>>
    BY <1>1
  <2> HIDE DEF D, level, base
  <2> QED BY <1>3, <2>1 DEF FollowsRecursion
<1>6. ASSUME NEW n \in 1..Len(s)
      PROVE  g[n] = IF n \in keep THEN Append(g[n - 1], s[n]) ELSE g[n - 1]
  <2>1. n \in D /\ n - 1 \in D /\ level[n] # 0 /\ pred[n] = n - 1
    BY <1>1
  <2>2. g[n] = step[<<n, g[n - 1]>>]
    <3> HIDE DEF step, D
    <3> QED BY <1>3, <2>1 DEF FollowsRecursion
  <2>3. <<n, g[n - 1]>> \in D \X Seq(E)
    BY <1>4, <2>1
  <2> QED BY <2>2, <2>3
<1>7. g = iter(g)
  <2>1. \A n \in 0..Len(s) : g[n] = iter(g)[n]
    BY <1>1, <1>5, <1>6
  <2> QED BY <1>4, <2>1
<1> DEFINE G == CHOOSE h : h = iter(h)
<1>8. G = iter(G)
  <2> HIDE DEF iter
  <2> QED BY <1>7
<1>9. Retain(s, keep) = G[Len(s)]
  BY DEF Retain
<1>10. \A n \in 0..Len(s) : G[n] = g[n]
  <2> DEFINE P == {n \in Nat : n <= Len(s) => G[n] = g[n]}
  <2>1. 0 \in P
    <3>1. G[0] = iter(G)[0]
      BY <1>8
    <3>2. iter(G)[0] = <<>>
      BY <1>1
    <3> QED BY <1>5, <3>1, <3>2
  <2>2. ASSUME NEW n \in Nat, n \in P PROVE n + 1 \in P
    <3> SUFFICES ASSUME n + 1 <= Len(s) PROVE G[n + 1] = g[n + 1]
      OBVIOUS
    <3>1. G[n] = g[n] /\ n + 1 \in 1..Len(s) /\ (n + 1) - 1 = n
      BY <1>1, <2>2
    <3>2. G[n + 1] = iter(G)[n + 1]
      BY <1>8
    <3>3. iter(G)[n + 1] = IF n + 1 \in keep THEN Append(G[n], s[n + 1]) ELSE G[n]
      BY <1>1, <3>1
    <3>4. g[n + 1] = IF n + 1 \in keep THEN Append(g[n], s[n + 1]) ELSE g[n]
      BY <1>6, <3>1
    <3> QED BY <3>1, <3>2, <3>3, <3>4
  <2>3. Nat \subseteq P
    <3> HIDE DEF P
    <3> QED BY <2>1, <2>2, NumberInduction
  <2> QED BY <1>1, <2>3
<1>11. Retain(s, keep) = g[Len(s)]
  <2> HIDE DEF G
  <2> QED BY <1>1, <1>9, <1>10
<1>12. FollowsRetain(g, s, keep, E)
  BY <1>4, <1>5, <1>6, <1>11 DEF FollowsRetain
<1> QED BY <1>12

(* What is retained is a sequence of the elements to keep.                 *)
LEMMA RetainElements ==
    ASSUME NEW E, NEW s \in Seq(E), NEW keep
    PROVE  /\ Retain(s, keep) \in Seq(E)
           /\ \A k \in DOMAIN Retain(s, keep) :
                  \E n \in keep \cap DOMAIN s : Retain(s, keep)[k] = s[n]
<1>1. PICK g : FollowsRetain(g, s, keep, E)
  BY RetainRecursion
<1> DEFINE N == Len(s)
           Good(n) == \A k \in DOMAIN g[n] : \E m \in keep \cap DOMAIN s : g[n][k] = s[m]
           P == {n \in Nat : n <= N => Good(n)}
<1>2. N \in Nat /\ DOMAIN s = 1..N
  OBVIOUS
<1>3. 0 \in P
  BY <1>1 DEF FollowsRetain
<1>4. ASSUME NEW n \in Nat, n \in P PROVE n + 1 \in P
  <2> SUFFICES ASSUME n + 1 <= N PROVE Good(n + 1)
    OBVIOUS
  <2>1. n + 1 \in 1..N /\ n \in 0..N /\ (n + 1) - 1 = n /\ s[n + 1] \in E
    BY <1>2
  <2>4. Good(n) /\ g[n] \in Seq(E)
    <3>1. n <= N
      BY <2>1
    <3>2. Good(n)
      <4> HIDE DEF Good
      <4> QED BY <1>4, <3>1
    <3> QED BY <1>1, <2>1, <3>2 DEF FollowsRetain
  <2>2. CASE n + 1 \in keep
    <3>1. g[n + 1] = Append(g[n], s[n + 1])
      BY <1>1, <2>1, <2>2 DEF FollowsRetain
    <3> QED BY <1>2, <2>1, <2>2, <2>4, <3>1
  <2>3. CASE n + 1 \notin keep
    <3>1. g[n + 1] = g[n]
      BY <1>1, <2>1, <2>3 DEF FollowsRetain
    <3> QED BY <2>1, <2>4, <3>1
  <2> QED BY <2>2, <2>3
<1>5. Nat \subseteq P
  <2> HIDE DEF P
  <2> QED BY <1>3, <1>4, NumberInduction
<1>6. Good(N)
  BY <1>2, <1>5
<1> QED BY <1>1, <1>2, <1>6 DEF FollowsRetain

(* What is to be kept is retained.                                         *)
LEMMA RetainKeeps ==
    ASSUME NEW E, NEW s \in Seq(E), NEW keep, NEW m \in keep \cap DOMAIN s
    PROVE  \E k \in DOMAIN Retain(s, keep) : Retain(s, keep)[k] = s[m]
<1>1. PICK g : FollowsRetain(g, s, keep, E)
  BY RetainRecursion
<1> DEFINE N == Len(s)
           Good(n) == \E k \in DOMAIN g[n] : g[n][k] = s[m]
           P == {n \in Nat : m <= n /\ n <= N => Good(n)}
<1>2. N \in Nat /\ DOMAIN s = 1..N /\ m \in 1..N
  OBVIOUS
<1>3. 0 \in P
  BY <1>2
<1>4. ASSUME NEW n \in Nat, n \in P PROVE n + 1 \in P
  <2> SUFFICES ASSUME m <= n + 1, n + 1 <= N PROVE Good(n + 1)
    OBVIOUS
  <2>1. n + 1 \in 1..N /\ n \in 0..N /\ (n + 1) - 1 = n /\ s[n + 1] \in E
    BY <1>2
  <2>2. g[n] \in Seq(E)
    BY <1>1, <2>1 DEF FollowsRetain
  <2>3. CASE m = n + 1
    <3>1. g[n + 1] = Append(g[n], s[n + 1])
      BY <1>1, <2>1, <2>3 DEF FollowsRetain
    <3>2. Len(g[n]) + 1 \in DOMAIN g[n + 1] /\ g[n + 1][Len(g[n]) + 1] = s[n + 1]
      BY <2>1, <2>2, <3>1
    <3> QED BY <2>3, <3>2
  <2>4. CASE m # n + 1
    <3>1. m <= n /\ n <= N
      BY <1>2, <2>1, <2>4
    <3>2. Good(n)
      <4> HIDE DEF Good
      <4> QED BY <1>4, <3>1
    <3>3. g[n + 1] = Append(g[n], s[n + 1]) \/ g[n + 1] = g[n]
      BY <1>1, <2>1 DEF FollowsRetain
    <3>4. PICK k \in DOMAIN g[n] : g[n][k] = s[m]
      BY <3>2
    <3>5. k \in DOMAIN g[n + 1] /\ g[n + 1][k] = g[n][k]
      <4>1. k \in 1..Len(g[n])
        BY <2>2
      <4>2. CASE g[n + 1] = Append(g[n], s[n + 1])
        <5> DEFINE q == g[n]
        <5>1. q \in Seq(E) /\ k \in 1..Len(q)
          BY <2>2, <4>1
        <5>2. k \in DOMAIN Append(q, s[n + 1]) /\ Append(q, s[n + 1])[k] = q[k]
          <6> HIDE DEF q
          <6> QED BY <2>1, <5>1
        <5> QED BY <4>2, <5>2
      <4> QED BY <3>3, <4>2
    <3> QED BY <3>4, <3>5
  <2> QED BY <2>3, <2>4
<1>5. Nat \subseteq P
  <2> HIDE DEF P
  <2> QED BY <1>3, <1>4, NumberInduction
<1>6. Good(N)
  BY <1>2, <1>5
<1> QED BY <1>1, <1>2, <1>6 DEF FollowsRetain

(* The sum of the weights of a sequence's elements.                        *)
Weights(w, q) == [k \in DOMAIN q |-> w[q[k]]]
Weighed(w, q) == SumFunctionOnSet(Weights(w, q), DOMAIN q)

LEMMA AppendWeighed ==
    ASSUME NEW E, NEW q \in Seq(E), NEW e \in E, NEW w \in [E -> Nat]
    PROVE  /\ Weighed(w, q) \in Nat
           /\ Weighed(w, Append(q, e)) = w[e] + Weighed(w, q)
<1> DEFINE l == Len(q)
           D == 1..l
           r == Append(q, e)
           f == [k \in DOMAIN q |-> w[q[k]]]
           h == [k \in DOMAIN r |-> w[r[k]]]
<1>1. l \in Nat /\ DOMAIN q = D /\ DOMAIN r = D \cup {l + 1} /\ l + 1 \notin D
  OBVIOUS
<1>2. IsFiniteSet(D) /\ IsFiniteSet(D \cup {l + 1})
  <2>1. IsFiniteSet(D)
    BY <1>1, FS_Interval
  <2> QED BY <2>1, FS_AddElement
<1>3. \A k \in D : f[k] = h[k] /\ f[k] \in Nat
  OBVIOUS
<1>4. h[l + 1] = w[e] /\ w[e] \in Nat
  OBVIOUS
<1>5. IsNumbering(f, D) /\ IsNumbering(h, D) /\ IsNumbering(h, D \cup {l + 1})
  <2> HIDE DEF D, f, h
  <2> QED BY <1>2, <1>3, <1>4 DEF IsNumbering
<1>6. Weighed(w, q) = SumFunctionOnSet(f, D) /\ Weighed(w, r) = SumFunctionOnSet(h, D \cup {l + 1})
  <2>1. Weighed(w, q) = SumFunctionOnSet(f, DOMAIN q) /\ Weighed(w, r) = SumFunctionOnSet(h, DOMAIN r)
    BY DEF Weighed, Weights
  <2> HIDE DEF D, f, h, r
  <2> QED BY <1>1, <2>1
<1>7. SumFunctionOnSet(f, D) = SumFunctionOnSet(h, D)
  <2> HIDE DEF D, f, h
  <2> QED BY <1>3, <1>5, SumSame
<1>8. SumFunctionOnSet(h, D \cup {l + 1}) = h[l + 1] + SumFunctionOnSet(h, D)
  <2> HIDE DEF D, h
  <2> QED BY <1>1, <1>5, SumAdd
<1>9. SumFunctionOnSet(f, D) \in Nat
  <2> HIDE DEF D, f
  <2> QED BY <1>5, SumDefinition
<1> HIDE DEF D, f, h
<1> QED BY <1>4, <1>6, <1>7, <1>8, <1>9

LEMMA EmptyWeighed ==
    ASSUME NEW w
    PROVE  Weighed(w, <<>>) = 0
<1>1. DOMAIN <<>> = {}
  OBVIOUS
<1> DEFINE f == [k \in DOMAIN <<>> |-> w[<<>>[k]]]
<1>2. SumFunctionOnSet(f, {}) = 0
  <2> HIDE DEF f
  <2> QED BY SumEmpty
<1>3. Weighed(w, <<>>) = SumFunctionOnSet(f, DOMAIN <<>>)
  BY DEF Weighed, Weights
<1> QED BY <1>1, <1>2, <1>3

(* The weights of what is retained add up to those of what is kept.        *)
LEMMA RetainSum ==
    ASSUME NEW E, NEW s \in Seq(E), NEW keep, NEW w \in [E -> Nat]
    PROVE  Weighed(w, Retain(s, keep))
               = SumFunctionOnSet(Weights(w, s), keep \cap DOMAIN s)
<1>1. PICK g : FollowsRetain(g, s, keep, E)
  BY RetainRecursion
<1> DEFINE N == Len(s)
           f == [k \in DOMAIN s |-> w[s[k]]]
           upTo(n) == keep \cap 1..n
           Good(n) == Weighed(w, g[n]) = SumFunctionOnSet(f, upTo(n))
           P == {n \in Nat : n <= N => Good(n)}
<1>2. N \in Nat /\ DOMAIN s = 1..N
  OBVIOUS
<1>3. 0 \in P
  <2>1. g[0] = <<>> /\ upTo(0) = {}
    BY <1>1 DEF FollowsRetain
  <2>2. SumFunctionOnSet(f, {}) = 0
    <3> HIDE DEF f
    <3> QED BY SumEmpty
  <2>3. Good(0)
    <3> HIDE DEF f, upTo
    <3> QED BY <2>1, <2>2, EmptyWeighed
  <2> HIDE DEF Good
  <2> QED BY <2>3
<1>4. ASSUME NEW n \in Nat, n \in P PROVE n + 1 \in P
  <2> SUFFICES ASSUME n + 1 <= N PROVE Good(n + 1)
    <3> HIDE DEF Good
    <3> QED OBVIOUS
  <2>1. n + 1 \in 1..N /\ n \in 0..N /\ n <= N /\ (n + 1) - 1 = n /\ s[n + 1] \in E
    BY <1>2
  <2>2. Good(n)
    <3> HIDE DEF Good
    <3> QED BY <1>4, <2>1
  <2>3. g[n] \in Seq(E)
    BY <1>1, <2>1 DEF FollowsRetain
  <2>4. CASE n + 1 \in keep
    <3>1. g[n + 1] = Append(g[n], s[n + 1])
      BY <1>1, <2>1, <2>4 DEF FollowsRetain
    <3>2. Weighed(w, g[n + 1]) = w[s[n + 1]] + Weighed(w, g[n])
      BY <2>1, <2>3, <3>1, AppendWeighed
    <3>3. upTo(n + 1) = upTo(n) \cup {n + 1} /\ n + 1 \notin upTo(n)
      BY <2>1, <2>4
    <3>4. IsFiniteSet(1..N) /\ upTo(n) \cup {n + 1} \subseteq 1..N
      <4>1. IsFiniteSet(1..N)
        BY <1>2, FS_Interval
      <4> QED BY <1>2, <2>1, <4>1
    <3>5. \A k \in 1..N : f[k] = w[s[k]] /\ f[k] \in Nat
      BY <1>2
    <3>6. IsNumbering(f, upTo(n) \cup {n + 1})
      <4> HIDE DEF upTo, f, N
      <4> QED BY <3>4, <3>5, FS_Subset DEF IsNumbering
    <3>7. SumFunctionOnSet(f, upTo(n + 1)) = f[n + 1] + SumFunctionOnSet(f, upTo(n))
      <4> HIDE DEF upTo, f
      <4> QED BY <3>3, <3>6, SumAdd
    <3> HIDE DEF f, upTo
    <3> QED BY <2>1, <2>2, <3>2, <3>5, <3>7
  <2>5. CASE n + 1 \notin keep
    <3>1. g[n + 1] = g[n]
      BY <1>1, <2>1, <2>5 DEF FollowsRetain
    <3>2. upTo(n + 1) = upTo(n)
      BY <2>1, <2>5
    <3> HIDE DEF upTo, f
    <3> QED BY <2>2, <3>1, <3>2
  <2> QED BY <2>4, <2>5
<1>5. Nat \subseteq P
  <2> HIDE DEF P
  <2> QED BY <1>3, <1>4, NumberInduction
<1>6. Good(N)
  <2> HIDE DEF Good
  <2> QED BY <1>2, <1>5
<1>7. Retain(s, keep) = g[N]
  BY <1>1 DEF FollowsRetain
<1> QED BY <1>2, <1>6, <1>7 DEF Weights

=============================================================================
