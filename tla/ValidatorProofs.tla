--------------------------- MODULE ValidatorProofs ---------------------------
(***************************************************************************)
(* Proofs about ValidatorUpdates: whatever updates an application sends,   *)
(* and whatever the powers are, quorums of the set intersect in honest     *)
(* power, the honest validators are a quorum, and leaders rotate in        *)
(* proportion to power.                                                    *)
(***************************************************************************)
EXTENDS ValidatorUpdates, Recursion

-----------------------------------------------------------------------------
(* Updates.                                                                *)

LEMMA Widths == MaxPower \in Nat /\ Power \subseteq 0..MaxPower /\ MaxUpdates \in Nat
BY GenesisSetAssumption

(* An update of a set of well-formed validators yields one.                *)
LEMMA ApplyUpdateType ==
    ASSUME NEW vs \in Seq(Validator), NEW u \in Update
    PROVE  ApplyUpdate(vs, u) \in Seq(Validator)
<1>1. CASE u.power = 0
  <2>1. Retain(vs, {i \in DOMAIN vs : vs[i].id # u.id}) \in Seq(Validator)
    BY RetainElements
  <2> QED BY <1>1, <2>1 DEF ApplyUpdate
<1>2. CASE u.power # 0
  <2>1. u \in Validator
    <3>1. u.power \in 1..MaxPower
      <4>1. u.power \in Power
        BY DEF Update
      <4>2. u.power \in 0..MaxPower
        BY <4>1, Widths
      <4> QED BY <1>2, <4>2, Widths
    <3>2. /\ u = [id |-> u.id, key |-> u.key, power |-> u.power]
          /\ u.id \in Id /\ u.key \in Key
      BY DEF Update
    <3> QED BY <3>1, <3>2 DEF Validator
  <2> QED BY <1>2, <2>1 DEF ApplyUpdate
<1> QED BY <1>1, <1>2

(* So does a list of them.                                                 *)
LEMMA ApplyUpdatesType ==
    ASSUME NEW vs \in Seq(Validator), NEW us \in Seq(Update)
    PROVE  ApplyUpdates(vs, us) \in Seq(Validator)
<1> DEFINE V == Seq(Validator)
           N == Len(us)
           step == [p \in V \X Update |-> ApplyUpdate(p[1], p[2])]
           iter(h) == [T \in SUBSET DOMAIN us |->
                          IF T = {} THEN vs
                          ELSE ApplyUpdate(h[T \ {Max(T)}], us[Max(T)])]
           G == CHOOSE h : h = iter(h)
<1>1. N \in Nat /\ DOMAIN us = 1..N
  OBVIOUS
<1>2. step \in [V \X Update -> V]
  BY ApplyUpdateType
<1>3. PICK g : FoldsLeft(g, us, V, vs, step)
  <2> HIDE DEF V, step
  <2>1. vs \in V
    BY DEF V
  <2> QED BY <1>2, <2>1, LeftFoldRecursion
<1>4. g = iter(g)
  <2>1. ASSUME NEW T \in SUBSET (1..N) PROVE g[T] = iter(g)[T]
    <3>1. CASE T = {}
      BY <1>1, <1>3, <3>1 DEF FoldsLeft
    <3>2. CASE T # {}
      <4>1. T \subseteq 0..N
        BY <1>1
      <4>2. Max(T) \in T
        <5> HIDE DEF N
        <5> QED BY <1>1, <3>2, <4>1, GreatestNumber
      <4>3. us[Max(T)] \in Update /\ T \ {Max(T)} \in SUBSET (1..N)
        <5>1. \A n \in 1..N : us[n] \in Update
          BY <1>1
        <5> HIDE DEF N
        <5> QED BY <4>2, <5>1
      <4>4. g[T \ {Max(T)}] \in V
        BY <1>3, <4>3 DEF FoldsLeft
      <4>5. step[<<g[T \ {Max(T)}], us[Max(T)]>>] = ApplyUpdate(g[T \ {Max(T)}], us[Max(T)])
        <5> HIDE DEF V
        <5> QED BY <4>3, <4>4
      <4>6. g[T] = step[<<g[T \ {Max(T)}], us[Max(T)]>>]
        <5> HIDE DEF step
        <5> QED BY <1>3, <3>2 DEF FoldsLeft
      <4> QED BY <1>1, <3>2, <4>5, <4>6
    <3> QED BY <3>1, <3>2
  <2>2. g \in [SUBSET DOMAIN us -> V]
    BY <1>1, <1>3 DEF FoldsLeft
  <2> QED BY <1>1, <2>1, <2>2
<1>5. G = iter(G)
  <2> HIDE DEF iter
  <2> QED BY <1>4
<1>6. ApplyUpdates(vs, us) = G[1..N]
  <2>1. ApplyUpdates(vs, us) = G[DOMAIN us]
    BY DEF ApplyUpdates, FoldLeft, MapThenFoldSet
  <2> HIDE DEF G
  <2> QED BY <1>1, <2>1
<1> DEFINE P == {n \in Nat : n <= N => G[1..n] \in V}
<1>7. 0 \in P
  <2>1. G[{}] = iter(G)[{}]
    BY <1>5
  <2>2. iter(G)[{}] = vs
    OBVIOUS
  <2>3. 1..0 = {}
    OBVIOUS
  <2> HIDE DEF G, iter
  <2> QED BY <2>1, <2>2, <2>3
<1>8. ASSUME NEW n \in Nat, n \in P PROVE n + 1 \in P
  <2> SUFFICES ASSUME n + 1 <= N PROVE G[1..(n + 1)] \in V
    BY <1>1
  <2>1. n + 1 \in 1..N /\ (n + 1) - 1 = n /\ us[n + 1] \in Update
    BY <1>1
  <2>2. /\ Max(1..(n + 1)) = n + 1 /\ (1..(n + 1)) \ {n + 1} = 1..n /\ 1..(n + 1) # {}
        /\ 1..(n + 1) \in SUBSET DOMAIN us
    BY <1>1, <2>1, PrefixMax
  <2>3. G[1..(n + 1)] = iter(G)[1..(n + 1)]
    BY <1>5
  <2>4. iter(G)[1..(n + 1)] = ApplyUpdate(G[1..n], us[n + 1])
    <3> HIDE DEF G
    <3> QED BY <2>2
  <2>5. G[1..n] \in V
    <3> HIDE DEF G
    <3> QED BY <1>1, <1>8
  <2> HIDE DEF G, iter
  <2> QED BY <2>1, <2>3, <2>4, <2>5, ApplyUpdateType
<1>9. Nat \subseteq P
  <2> HIDE DEF P
  <2> QED BY <1>7, <1>8, NumberInduction
<1> HIDE DEF G
<1> QED BY <1>1, <1>6, <1>9

-----------------------------------------------------------------------------
(* The invariant.                                                          *)

ValidatorInv == TypeOK /\ ValidSet(vset)

LEMMA ValidatorInvariant == Spec => []ValidatorInv
<1>1. Init => ValidatorInv
  BY GenesisSetAssumption DEF Init, ValidatorInv, TypeOK
<1>2. ValidatorInv /\ [Next]_vset => ValidatorInv'
  <2> SUFFICES ASSUME ValidatorInv, [Next]_vset PROVE ValidatorInv'
    OBVIOUS
  <2>1. CASE UNCHANGED vset
    BY <2>1 DEF ValidatorInv, TypeOK
  <2>2. CASE Next
    <3>1. PICK us \in UpdateLists : TryApplyUpdates(us)
      BY <2>2 DEF Next
    <3>2. us \in Seq(Update)
      BY Widths DEF UpdateLists
    <3>3. ApplyUpdates(vset, us) \in Seq(Validator)
      BY <3>2, ApplyUpdatesType DEF ValidatorInv, TypeOK
    <3> QED BY <3>1, <3>3 DEF TryApplyUpdates, ValidatorInv, TypeOK
  <2> QED BY <2>1, <2>2
<1> QED BY <1>1, <1>2, PTL DEF Spec

(***************************************************************************)
(* try_apply_updates only ever produces a vector of well-formed            *)
(* validators, and removes those whose power was set to 0: TypeOK holds    *)
(* for every list of updates, every set of keys and every largest power.   *)
(***************************************************************************)
THEOREM ValidatorTypeCorrect == Spec => []TypeOK
<1>1. ValidatorInv => TypeOK
  BY DEF ValidatorInv
<1> QED BY <1>1, ValidatorInvariant, PTL

-----------------------------------------------------------------------------
(* Power.                                                                  *)

(* The validators' powers, by position.                                    *)
Powers(vs) == [i \in DOMAIN vs |-> vs[i].power]
At(vs, S) == {i \in DOMAIN vs : vs[i].id \in S}

LEMMA PowerFacts ==
    ASSUME NEW vs \in Seq(Validator), ValidSet(vs)
    PROVE  /\ IsNumbering(Powers(vs), DOMAIN vs)
           /\ TotalPower(vs) = SumFunctionOnSet(Powers(vs), DOMAIN vs)
           /\ TotalPower(vs) \in 0..MaxPower
           /\ \A S : PowerOf(vs, S) = SumFunctionOnSet(Powers(vs), At(vs, S))
           /\ \A S : At(vs, S) \in SUBSET DOMAIN vs
           /\ vs # <<>> => TotalPower(vs) > 0
<1>1. IsNumbering(Powers(vs), DOMAIN vs)
  <2>1. DOMAIN vs = 1..Len(vs) /\ Len(vs) \in Nat
    OBVIOUS
  <2>2. IsFiniteSet(DOMAIN vs)
    BY <2>1, FS_Interval
  <2>3. \A i \in DOMAIN vs : vs[i].power \in Nat
    <3>1. \A i \in DOMAIN vs : vs[i] \in Validator
      OBVIOUS
    <3>2. \A v \in Validator : v.power \in Nat
      BY Widths DEF Validator
    <3> QED BY <3>1, <3>2
  <2> QED BY <2>2, <2>3 DEF IsNumbering, Powers
<1> DEFINE total == SumFunctionOnSet(Powers(vs), DOMAIN vs)
<1>2. total \in Nat
  BY <1>1, SumDefinition
<1>3. PowerAt(vs, DOMAIN vs) = total
  BY DEF PowerAt, Powers
<1>4. total <= MaxPower
  <2> HIDE DEF total
  <2> QED BY <1>3 DEF ValidSet
<1>5. TotalPower(vs) = total
  <2>1. TotalPower(vs) = total % (MaxPower + 1)
    <3> HIDE DEF total
    <3> QED BY <1>3 DEF TotalPower
  <2> HIDE DEF total
  <2> QED BY <1>2, <1>4, <2>1, Widths
<1>6. \A S : PowerOf(vs, S) = SumFunctionOnSet(Powers(vs), At(vs, S))
  BY DEF PowerOf, PowerAt, Powers, At
<1>7. TotalPower(vs) \in 0..MaxPower
  <2> HIDE DEF total
  <2> QED BY <1>2, <1>4, <1>5
<1>8. vs # <<>> => TotalPower(vs) > 0
  BY DEF ValidSet
<1>9. \A S : At(vs, S) \in SUBSET DOMAIN vs
  BY DEF At
<1> QED BY <1>1, <1>5, <1>6, <1>7, <1>8, <1>9

(* Two sets of validators: what both hold beyond the whole, they share.    *)
LEMMA SharedPower ==
    ASSUME NEW vs \in Seq(Validator), ValidSet(vs), NEW Q, NEW R
    PROVE  /\ PowerOf(vs, Q) \in Nat /\ PowerOf(vs, R) \in Nat /\ PowerOf(vs, Q \cap R) \in Nat
           /\ PowerOf(vs, Q) + PowerOf(vs, R) <= TotalPower(vs) + PowerOf(vs, Q \cap R)
<1> DEFINE f == Powers(vs)
           A == At(vs, Q)
           B == At(vs, R)
<1>1. IsNumbering(f, DOMAIN vs) /\ A \in SUBSET DOMAIN vs /\ B \in SUBSET DOMAIN vs
  BY PowerFacts
<1>2. At(vs, Q \cap R) = A \cap B
  BY DEF At
<1>3. /\ PowerOf(vs, Q) = SumFunctionOnSet(f, A) /\ PowerOf(vs, R) = SumFunctionOnSet(f, B)
      /\ PowerOf(vs, Q \cap R) = SumFunctionOnSet(f, A \cap B)
      /\ TotalPower(vs) = SumFunctionOnSet(f, DOMAIN vs)
  <2>1. PowerOf(vs, Q \cap R) = SumFunctionOnSet(f, At(vs, Q \cap R))
    BY PowerFacts
  <2> QED BY <1>2, <2>1, PowerFacts
<1> HIDE DEF f, A, B
<1>4. A \cap B \in SUBSET A /\ A \ (A \cap B) = A \ B /\ (A \ B) \cap B = {}
      /\ (A \ B) \cup B \in SUBSET DOMAIN vs /\ A \ B \in SUBSET DOMAIN vs
  BY <1>1
<1>5. IsNumbering(f, A) /\ IsNumbering(f, B) /\ IsNumbering(f, A \ B) /\ IsNumbering(f, A \cap B)
  <2>1. IsNumbering(f, A) /\ IsNumbering(f, B) /\ IsNumbering(f, A \ B)
    BY <1>1, <1>4, SumMonotone
  <2> QED BY <1>4, <2>1, SumMonotone
<1>6. SumFunctionOnSet(f, A) = SumFunctionOnSet(f, A \cap B) + SumFunctionOnSet(f, A \ B)
  <2>1. SumFunctionOnSet(f, A)
            = SumFunctionOnSet(f, A \cap B) + SumFunctionOnSet(f, A \ (A \cap B))
    <3> DEFINE I == A \cap B
    <3>1. I \in SUBSET A
      OBVIOUS
    <3>2. SumFunctionOnSet(f, A) = SumFunctionOnSet(f, I) + SumFunctionOnSet(f, A \ I)
      <4> HIDE DEF I
      <4> QED BY <1>5, <3>1, SumMonotone
    <3> QED BY <3>2
  <2> QED BY <1>4, <2>1
<1>7. SumFunctionOnSet(f, (A \ B) \cup B) = SumFunctionOnSet(f, A \ B) + SumFunctionOnSet(f, B)
  BY <1>4, <1>5, SumUnion
<1>8. SumFunctionOnSet(f, (A \ B) \cup B) <= SumFunctionOnSet(f, DOMAIN vs)
  BY <1>1, <1>4, SumMonotone
<1>9. /\ SumFunctionOnSet(f, A) \in Nat /\ SumFunctionOnSet(f, B) \in Nat
      /\ SumFunctionOnSet(f, A \ B) \in Nat /\ SumFunctionOnSet(f, A \cap B) \in Nat
      /\ SumFunctionOnSet(f, DOMAIN vs) \in Nat
  BY <1>1, <1>5, SumDefinition
<1> QED BY <1>3, <1>6, <1>7, <1>8, <1>9

(***************************************************************************)
(* The assumption under which the engine is safe holds for every set the   *)
(* code can build: two sets of signers for which has_quorum is true share  *)
(* more power than max_faulty_power, whatever updates were applied.        *)
(***************************************************************************)
THEOREM QuorumsIntersectHonestly == Spec => []QuorumsShareHonestPower
<1>1. ValidatorInv => QuorumsShareHonestPower
  <2> SUFFICES ASSUME ValidatorInv, NEW Q \in Quorums(vset), NEW R \in Quorums(vset)
               PROVE  PowerOf(vset, Q \cap R) > MaxFaultyPower(TotalPower(vset))
    BY DEF QuorumsShareHonestPower
  <2> DEFINE T == TotalPower(vset)
             q == PowerOf(vset, Q)
             r == PowerOf(vset, R)
             b == PowerOf(vset, Q \cap R)
  <2>1. T \in Nat
    BY PowerFacts DEF ValidatorInv, TypeOK
  <2>2. q \in Nat /\ r \in Nat /\ b \in Nat /\ q + r <= T + b
    BY SharedPower DEF ValidatorInv, TypeOK
  <2>3. q >= QuorumThreshold(T) /\ r >= QuorumThreshold(T)
    <3>1. q \in QuorumThreshold(T)..MaxPower /\ r \in QuorumThreshold(T)..MaxPower
      BY DEF Quorums, HasQuorum
    <3>2. QuorumThreshold(T) \in Nat
      <4> HIDE DEF T
      <4> QED BY <2>1 DEF QuorumThreshold
    <3> HIDE DEF T, q, r
    <3> QED BY <3>1, <3>2, <2>2
  <2> HIDE DEF T, q, r, b
  <2>4. b > MaxFaultyPower(T)
    BY <2>1, <2>2, <2>3 DEF MaxFaultyPower, QuorumThreshold
  <2> QED BY <2>4 DEF b, T
<1> QED BY <1>1, ValidatorInvariant, PTL

(***************************************************************************)
(* Validators that together hold at most max_faulty_power cannot block the *)
(* others by being silent: the rest is a quorum for has_quorum, in every   *)
(* set the code can build.                                                 *)
(***************************************************************************)
THEOREM HonestAreQuorum == Spec => []HonestPowerSuffices
<1>1. ValidatorInv => HonestPowerSuffices
  <2> SUFFICES ASSUME ValidatorInv, vset # <<>>, NEW S \in SUBSET Ids(vset),
                      PowerOf(vset, S) <= MaxFaultyPower(TotalPower(vset))
               PROVE  HasQuorum(vset, Ids(vset) \ S)
    BY DEF HonestPowerSuffices
  <2> DEFINE T == TotalPower(vset)
             f == Powers(vset)
             A == At(vset, S)
             D == DOMAIN vset
             a == SumFunctionOnSet(f, A)
             b == SumFunctionOnSet(f, D \ A)
  <2>1. /\ IsNumbering(f, D) /\ A \in SUBSET D /\ T = SumFunctionOnSet(f, D)
        /\ T \in 0..MaxPower /\ T > 0
    BY PowerFacts DEF ValidatorInv, TypeOK
  <2>2. At(vset, Ids(vset) \ S) = D \ A
    BY DEF At, Ids
  <2>3. PowerOf(vset, S) = a /\ PowerOf(vset, Ids(vset) \ S) = b
    <3>1. PowerOf(vset, Ids(vset) \ S) = SumFunctionOnSet(f, At(vset, Ids(vset) \ S))
      BY PowerFacts DEF ValidatorInv, TypeOK
    <3> QED BY <2>2, <3>1, PowerFacts DEF ValidatorInv, TypeOK
  <2>4. T = a + b /\ a \in Nat /\ b \in Nat
    <3> HIDE DEF f, A, D
    <3>1. T = a + b /\ IsNumbering(f, A)
      BY <2>1, SumMonotone
    <3>2. IsNumbering(f, D \ A)
      <4>1. D \ A \in SUBSET D
        OBVIOUS
      <4> QED BY <2>1, <4>1, SumMonotone
    <3> QED BY <3>1, <3>2, SumDefinition
  <2>5. a <= MaxFaultyPower(T)
    BY <2>3
  <2> HIDE DEF T, a, b
  <2>6. b \in QuorumThreshold(T)..MaxPower
    BY <2>1, <2>4, <2>5, Widths DEF MaxFaultyPower, QuorumThreshold
  <2> QED BY <2>3, <2>6 DEF HasQuorum, T
<1> QED BY <1>1, ValidatorInvariant, PTL

-----------------------------------------------------------------------------
(* Leaders.                                                                *)

(* A window of T views meets every residue once.                           *)
LEMMA Residues ==
    ASSUME NEW T \in Nat \ {0}, NEW a \in Nat, NEW b \in Nat, a % T = b % T, a < b
    PROVE  b >= a + T
<1> DEFINE x == a \div T
           y == b \div T
           r == a % T
<1>1. x \in Nat /\ y \in Nat /\ r \in Nat /\ a = T * x + r /\ b = T * y + r
  OBVIOUS
<1> HIDE DEF x, y, r
<1>2. y > x
  <2> SUFFICES ASSUME y <= x PROVE FALSE
    BY <1>1
  <2>1. T * y <= T * x
    BY <1>1
  <2> QED BY <1>1, <2>1
<1>3. T * y >= T * (x + 1) /\ T * (x + 1) = T * x + T
  BY <1>1, <1>2
<1> QED BY <1>1, <1>3

LEMMA SlotOfShift ==
    ASSUME NEW T \in Nat \ {0}, NEW q \in Nat, NEW r \in 0..(T - 1)
    PROVE  (T * q + r) % T = r
OBVIOUS

Window(T, s, a, b) == {v \in s..(s + T - 1) : v % T \in a..(b - 1)}

LEMMA WindowCount ==
    ASSUME NEW T \in Nat \ {0}, NEW s \in Nat, NEW a \in Nat, NEW b \in Nat, a <= b, b <= T
    PROVE  Cardinality(Window(T, s, a, b)) = b - a
<1> DEFINE W == {v \in s..(s + T - 1) : v % T \in a..(b - 1)}
           R == a..(b - 1)
           f == [v \in W |-> v % T]
<1>1. f \in [W -> R]
  OBVIOUS
<1>2. ASSUME NEW v \in W, NEW w \in W, v % T = w % T PROVE v = w
  <2>1. v \in Nat /\ w \in Nat /\ v < w + T /\ w < v + T
    OBVIOUS
  <2>2. ~(v < w) /\ ~(w < v)
    <3>1. ~(v < w)
      <4> SUFFICES ASSUME v < w PROVE FALSE
        OBVIOUS
      <4>1. w >= v + T
        <5> HIDE DEF W
        <5> QED BY <1>2, <2>1, Residues
      <4> QED BY <2>1, <4>1
    <3>2. ~(w < v)
      <4> SUFFICES ASSUME w < v PROVE FALSE
        OBVIOUS
      <4>1. v >= w + T
        <5> HIDE DEF W
        <5> QED BY <1>2, <2>1, Residues
      <4> QED BY <2>1, <4>1
    <3> QED BY <3>1, <3>2
  <2> QED BY <2>1, <2>2
<1>3. ASSUME NEW r \in R PROVE \E v \in W : f[v] = r
  <2> DEFINE q == s \div T
             m == s % T
             v == IF r >= m THEN T * q + r ELSE T * (q + 1) + r
  <2>1. q \in Nat /\ m \in 0..(T - 1) /\ s = T * q + m /\ r \in 0..(T - 1)
    OBVIOUS
  <2> HIDE DEF q, m
  <2>2. T * q \in Nat /\ T * (q + 1) = T * q + T
    BY <2>1
  <2>3. v \in s..(s + T - 1)
    <3> DEFINE z == T * q
    <3>1. v = IF r >= m THEN z + r ELSE z + T + r
      BY <2>2
    <3>2. s = z + m /\ z \in Nat
      BY <2>1, <2>2
    <3> HIDE DEF z, v
    <3> QED BY <2>1, <3>1, <3>2
  <2>4. v % T = r
    <3>1. (T * q + r) % T = r
      BY <2>1, SlotOfShift
    <3>2. (T * (q + 1) + r) % T = r
      BY <2>1, SlotOfShift
    <3> QED BY <3>1, <3>2
  <2>5. v \in W /\ f[v] = v % T
    BY <2>3, <2>4
  <2> HIDE DEF v
  <2> QED BY <2>4, <2>5
<1>4. f \in Bijection(W, R)
  <2> HIDE DEF W, R
  <2>1. \A v, w \in W : f[v] = f[w] => v = w
    BY <1>2
  <2> HIDE DEF f
  <2>2. f \in Injection(W, R)
    BY <1>1, <2>1 DEF Injection, IsInjective
  <2>3. f \in Surjection(W, R)
    BY <1>1, <1>3 DEF Surjection
  <2> QED BY <2>2, <2>3 DEF Bijection
<1>5. IsFiniteSet(W)
  <2>1. IsFiniteSet(s..(s + T - 1)) /\ W \in SUBSET (s..(s + T - 1))
    BY FS_Interval
  <2> QED BY <2>1, FS_Subset
<1>6. Cardinality(R) = Cardinality(W)
  <2> HIDE DEF W, R, f
  <2> QED BY <1>4, <1>5, FS_Bijection DEF ExistsBijection
<1>7. Cardinality(R) = b - a
  <2>1. a \in Int /\ b - 1 \in Int
    OBVIOUS
  <2>2. Cardinality(a..(b - 1)) = IF a > b - 1 THEN 0 ELSE (b - 1) - a + 1
    BY <2>1, FS_Interval
  <2> QED BY <2>2
<1> QED BY <1>6, <1>7 DEF Window

LEMMA UniqueIds ==
    ASSUME NEW vs \in Seq(Validator), ValidSet(vs), NEW i \in DOMAIN vs, NEW j \in DOMAIN vs,
           vs[i].id = vs[j].id
    PROVE  i = j
<1> DEFINE f == [k \in DOMAIN vs |-> vs[k].id]
           S == DOMAIN vs
<1>1. S = 1..Len(vs) /\ Len(vs) \in Nat
  OBVIOUS
<1>2. IsFiniteSet(S) /\ Cardinality(S) = Len(vs)
  <2> DEFINE n == Len(vs)
  <2>1. n \in Nat /\ 1 \in Int /\ n \in Int
    BY <1>1
  <2>2. IsFiniteSet(1..n) /\ Cardinality(1..n) = n
    <3> HIDE DEF n
    <3>1. IsFiniteSet(1..n) /\ Cardinality(1..n) = IF 1 > n THEN 0 ELSE n - 1 + 1
      BY <2>1, FS_Interval
    <3> QED BY <2>1, <3>1
  <2> QED BY <1>1, <2>2
<1>3. f \in Surjection(S, Ids(vs))
  BY DEF Surjection, Ids
<1>4. Cardinality(Ids(vs)) = Cardinality(S)
  <2> HIDE DEF S
  <2> QED BY <1>2 DEF ValidSet
<1>5. f \in Injection(S, Ids(vs))
  <2> HIDE DEF f, S
  <2> QED BY <1>2, <1>3, <1>4, FS_Surjection
<1>6. f[i] = f[j]
  OBVIOUS
<1> HIDE DEF f
<1>7. DOMAIN f = DOMAIN vs
  BY DEF f
<1> QED BY <1>5, <1>6, <1>7 DEF Injection, IsInjective

(* The power of the first n validators grows by that of the next.          *)
LEMMA CumulativePower ==
    ASSUME NEW vs \in Seq(Validator), ValidSet(vs)
    PROVE  /\ PowerAt(vs, 1..0) = 0 /\ PowerAt(vs, 1..Len(vs)) = TotalPower(vs)
           /\ \A n \in 0..Len(vs) : PowerAt(vs, 1..n) \in Nat
           /\ \A n \in DOMAIN vs : PowerAt(vs, 1..n) = vs[n].power + PowerAt(vs, 1..(n - 1))
           /\ \A n \in 0..Len(vs) : \A m \in 0..n : PowerAt(vs, 1..m) <= PowerAt(vs, 1..n)
<1> DEFINE f == Powers(vs)
           N == Len(vs)
<1>1. \A S : PowerAt(vs, S) = SumFunctionOnSet(f, S)
  BY DEF PowerAt, Powers
<1>2. N \in Nat /\ DOMAIN vs = 1..N
  OBVIOUS
<1>3. IsNumbering(f, 1..N) /\ \A n \in 1..N : f[n] = vs[n].power /\ f[n] \in Nat
  <2>1. IsNumbering(f, 1..N)
    BY <1>2, PowerFacts
  <2> QED BY <1>2, <2>1 DEF Powers, IsNumbering
<1>4. \A n \in 0..N : IsNumbering(f, 1..n)
  <2>1. \A n \in 0..N : 1..n \in SUBSET (1..N)
    BY <1>2
  <2> HIDE DEF f, N
  <2> QED BY <1>3, <2>1, SumMonotone
<1>5. PowerAt(vs, 1..0) = 0
  <2>1. 1..0 = {}
    OBVIOUS
  <2> HIDE DEF f
  <2> QED BY <1>1, <2>1, SumEmpty
<1>6. PowerAt(vs, 1..N) = TotalPower(vs)
  BY <1>1, <1>2, PowerFacts
<1>7. \A n \in 0..N : PowerAt(vs, 1..n) \in Nat
  <2> HIDE DEF f, N
  <2>1. \A n \in 0..N : SumFunctionOnSet(f, 1..n) \in Nat
    BY <1>4, SumDefinition
  <2> QED BY <1>1, <2>1
<1>8. ASSUME NEW n \in 1..N PROVE PowerAt(vs, 1..n) = vs[n].power + PowerAt(vs, 1..(n - 1))
  <2>1. n \in 1..n /\ (1..n) \ {n} = 1..(n - 1) /\ n \in 0..N
    BY <1>2
  <2>2. SumFunctionOnSet(f, 1..n) = f[n] + SumFunctionOnSet(f, (1..n) \ {n})
    <3> HIDE DEF f, N
    <3> QED BY <1>4, <2>1, SumRemove
  <2> HIDE DEF f, N
  <2> QED BY <1>1, <1>3, <2>1, <2>2
<1>9. ASSUME NEW n \in 0..N, NEW m \in 0..n PROVE PowerAt(vs, 1..m) <= PowerAt(vs, 1..n)
  <2>1. 1..m \in SUBSET (1..n)
    BY <1>2
  <2> DEFINE A == 1..m
             B == 1..n
  <2>2. IsNumbering(f, B) /\ A \in SUBSET B
    BY <1>4, <2>1
  <2>3. SumFunctionOnSet(f, A) <= SumFunctionOnSet(f, B)
    <3> HIDE DEF f, A, B
    <3> QED BY <2>2, SumMonotone
  <2> HIDE DEF f, N
  <2> QED BY <1>1, <2>3
<1> QED BY <1>2, <1>5, <1>6, <1>7, <1>8, <1>9

(* A validator leads the views whose slot is in its range.                 *)
LEMMA LeaderSlots ==
    ASSUME NEW vs \in Seq(Validator), ValidSet(vs), NEW v \in Nat, NEW i \in DOMAIN vs
    PROVE  /\ TotalPower(vs) \in Nat \ {0}
           /\ LeaderForView(vs, v) = vs[i].id
                  <=> v % TotalPower(vs) \in PowerAt(vs, 1..(i - 1))..(PowerAt(vs, 1..i) - 1)
<1> DEFINE T == TotalPower(vs)
           C(n) == PowerAt(vs, 1..n)
           N == Len(vs)
           slot == v % T
           reached == {k \in DOMAIN vs : slot < C(k)}
           m == Min(reached)
<1>1. N \in Nat /\ DOMAIN vs = 1..N /\ vs # <<>> /\ N \in DOMAIN vs /\ i \in 1..N
  OBVIOUS
<1>2. T \in Nat \ {0}
  BY <1>1, PowerFacts
<1>3. /\ C(N) = T /\ \A n \in 0..N : C(n) \in Nat
      /\ \A n \in 0..N : \A k \in 0..n : C(k) <= C(n)
  BY CumulativePower
<1>4. slot \in 0..(T - 1)
  <2> HIDE DEF T
  <2> QED BY <1>2
<1> HIDE DEF T, C, slot
<1>5. reached \subseteq Nat /\ N \in reached
  BY <1>1, <1>2, <1>3, <1>4
<1>6. m \in reached /\ \A y \in reached : m <= y
  <2>1. \E x \in reached : \A y \in reached : x <= y
    <3> HIDE DEF reached
    <3> QED BY <1>5, LeastNumber
  <2> HIDE DEF reached
  <2> QED BY <2>1 DEF Min
<1>7. LeaderForView(vs, v) = vs[m].id
  BY DEF LeaderForView, T, C, slot
<1> HIDE DEF m
<1>8. m \in 1..N /\ slot < C(m) /\ \A k \in 1..N : slot < C(k) => m <= k
  BY <1>1, <1>6
<1>9. LeaderForView(vs, v) = vs[i].id <=> m = i
  BY <1>1, <1>7, <1>8, UniqueIds
<1>10. m = i <=> slot \in C(i - 1)..(C(i) - 1)
  <2>1. C(i) \in Nat /\ C(i - 1) \in Nat /\ C(m) \in Nat
    BY <1>1, <1>3, <1>8
  <2>2. ASSUME m = i PROVE slot \in C(i - 1)..(C(i) - 1)
    <3>1. slot >= C(i - 1)
      <4>1. CASE i = 1
        <5>1. C(0) = 0
          BY CumulativePower DEF C
        <5> QED BY <1>4, <4>1, <5>1
      <4>2. CASE i # 1
        <5>1. i - 1 \in 1..N /\ ~(m <= i - 1)
          BY <1>1, <2>2, <4>2
        <5> QED BY <1>2, <1>4, <1>8, <2>1, <5>1
      <4> QED BY <4>1, <4>2
    <3> QED BY <1>2, <1>4, <1>8, <2>1, <2>2, <3>1
  <2>3. ASSUME slot \in C(i - 1)..(C(i) - 1) PROVE m = i
    <3>1. slot < C(i) /\ C(i - 1) <= slot
      BY <1>4, <2>1, <2>3
    <3>2. m <= i
      BY <1>1, <1>8, <3>1
    <3>3. ~(m <= i - 1)
      <4> SUFFICES ASSUME m <= i - 1 PROVE FALSE
        OBVIOUS
      <4>1. i - 1 \in 0..N /\ m \in 0..(i - 1)
        BY <1>1, <1>8
      <4>2. C(m) <= C(i - 1)
        BY <1>3, <4>1
      <4> QED BY <1>2, <1>4, <1>8, <2>1, <3>1, <4>2
    <3> QED BY <1>1, <1>8, <3>2, <3>3
  <2> QED BY <2>2, <2>3
<1> QED BY <1>2, <1>9, <1>10 DEF T, C, slot

(***************************************************************************)
(* leader_for_view is fair by weight: in any total_power consecutive views *)
(* each validator leads exactly as many as it has power, in every set that *)
(* updates can lead to.                                                    *)
(***************************************************************************)
THEOREM LeadersRotateByPower == Spec => []RotationIsProportional
<1>1. ValidatorInv => RotationIsProportional
  <2> SUFFICES ASSUME ValidatorInv, NEW s \in 0..TotalPower(vset), NEW i \in DOMAIN vset
               PROVE  Cardinality({v \in s..(s + TotalPower(vset) - 1) :
                                      LeaderForView(vset, v) = vset[i].id}) = vset[i].power
    BY DEF RotationIsProportional
  <2> DEFINE T == TotalPower(vset)
             a == PowerAt(vset, 1..(i - 1))
             b == PowerAt(vset, 1..i)
  <2>1. T \in Nat \ {0} /\ s \in Nat
    <3>1. T \in Nat \ {0}
      BY LeaderSlots DEF ValidatorInv, TypeOK
    <3> HIDE DEF T
    <3> QED BY <3>1 DEF T
  <2>2. /\ a \in Nat /\ b \in Nat /\ b = vset[i].power + a /\ b <= T /\ vset[i].power \in Nat
    <3>1. i \in 1..Len(vset) /\ Len(vset) \in Nat /\ vset[i] \in Validator
      BY DEF ValidatorInv, TypeOK
    <3>2. i \in 0..Len(vset) /\ i - 1 \in 0..Len(vset) /\ Len(vset) \in 0..Len(vset)
      BY <3>1
    <3>3. vset[i].power \in Nat
      BY <3>1, Widths DEF Validator
    <3> QED BY <3>1, <3>2, <3>3, CumulativePower DEF ValidatorInv, TypeOK
  <2>3. \A v \in s..(s + T - 1) : LeaderForView(vset, v) = vset[i].id <=> v % T \in a..(b - 1)
    <3>1. \A v \in s..(s + T - 1) : v \in Nat
      <4> HIDE DEF T
      <4> QED BY <2>1
    <3> QED BY <3>1, LeaderSlots DEF ValidatorInv, TypeOK
  <2> HIDE DEF T, a, b
  <2>4. {v \in s..(s + T - 1) : LeaderForView(vset, v) = vset[i].id}
            = Window(T, s, a, b)
    BY <2>3 DEF Window
  <2>5. a <= b
    BY <2>2
  <2>6. Cardinality(Window(T, s, a, b)) = b - a
    <3>1. b <= T
      BY <2>2
    <3> QED BY <2>1, <2>2, <2>5, <3>1, WindowCount
  <2>7. b - a = vset[i].power
    BY <2>2
  <2> QED BY <2>4, <2>6, <2>7 DEF T
<1> QED BY <1>1, ValidatorInvariant, PTL

=============================================================================
