---------------------------- MODULE StakingProofs ----------------------------
(***************************************************************************)
(* Proofs about Staking: tokens are conserved to the last unit through     *)
(* every rounded slash, the power of a validator is backed by entries,     *)
(* what is unbonding can still be slashed, and the updates of a block make *)
(* the validator set the formal list.                                      *)
(***************************************************************************)
EXTENDS Staking, Recursion

-----------------------------------------------------------------------------
(* The sums of the properties, of any state.                               *)

Account == [key : Key \cup {0}, self : 0..MaxPower, del : 0..MaxPower, jailed : BOOLEAN,
            until : Nat, tomb : BOOLEAN, slashes : SUBSET Evidence]

Entry == [staker : Staker, validator : Id, amount : Nat, at : Nat]

Table == [Staker \X Id -> Nat]

Own(w) == SumFunctionOnSet([i \in Id |-> w[i].self], Id)
Staked(st) == SumFunctionOnSet(st, DOMAIN st)
Column(st, i) == SumFunctionOnSet([s \in Staker |-> st[<<s, i>>]], Staker)
Queued(q) == SumFunctionOnSet([n \in DOMAIN q |-> q[n].amount], DOMAIN q)

LEMMA Widths ==
    /\ MaxPower \in Nat \ {0} /\ MaxTokens \in Nat /\ UnbondingPeriod \in Nat
    /\ JailDuration \in Nat /\ BlockReward \in Nat /\ MinSelfStake \in Nat
    /\ Amount \subseteq 0..MaxPower /\ IsFiniteSet(Id) /\ IsFiniteSet(Staker)
    /\ Cardinality(Staker) \in Nat /\ Staker = 1..Cardinality(Staker) /\ 0 \notin Key
<1>1. Cardinality(Staker) \in Nat
  BY StakingAssumption, FS_CardinalityType
<1> QED BY <1>1, StakingAssumption

(* One account changes.                                                    *)
LEMMA OwnUpdate ==
    ASSUME NEW w \in [Id -> Account], NEW x \in [Id -> Account], NEW i \in Id,
           \A j \in Id \ {i} : w[j].self = x[j].self
    PROVE  Own(w) \in Nat /\ Own(x) \in Nat /\ Own(w) + x[i].self = Own(x) + w[i].self
<1> DEFINE f == [j \in Id |-> w[j].self]
           g == [j \in Id |-> x[j].self]
<1>1. \A j \in Id : w[j].self \in Nat /\ x[j].self \in Nat
  BY Widths, SMTT(30) DEF Account
<1>2. IsNumbering(f, Id) /\ IsNumbering(g, Id)
  BY <1>1, Widths DEF IsNumbering
<1>3. \A j \in Id \ {i} : f[j] = g[j]
  OBVIOUS
<1>4. f[i] = w[i].self /\ g[i] = x[i].self
  OBVIOUS
<1>5. /\ SumFunctionOnSet(f, Id) + g[i] = SumFunctionOnSet(g, Id) + f[i]
      /\ SumFunctionOnSet(f, Id) \in Nat /\ SumFunctionOnSet(g, Id) \in Nat
  <2> HIDE DEF f, g
  <2> QED BY <1>2, <1>3, SumUpdate
<1>6. Own(w) = SumFunctionOnSet(f, Id) /\ Own(x) = SumFunctionOnSet(g, Id)
  BY DEF Own
<1> HIDE DEF f, g
<1> QED BY <1>4, <1>5, <1>6

(* No account changes its own stake.                                       *)
LEMMA OwnSame ==
    ASSUME NEW w \in [Id -> Account], NEW x, \A j \in Id : w[j].self = x[j].self
    PROVE  Own(w) = Own(x) /\ Own(w) \in Nat
<1> DEFINE f == [j \in Id |-> w[j].self]
           g == [j \in Id |-> x[j].self]
<1>1. \A j \in Id : w[j].self \in Nat
  BY Widths DEF Account
<1>2. IsNumbering(f, Id)
  BY <1>1, Widths DEF IsNumbering
<1>3. \A j \in Id : f[j] = g[j]
  OBVIOUS
<1>4. SumFunctionOnSet(f, Id) = SumFunctionOnSet(g, Id)
  <2> HIDE DEF f, g
  <2> QED BY <1>2, <1>3, SumSame
<1>5. SumFunctionOnSet(f, Id) \in Nat
  <2> HIDE DEF f
  <2> QED BY <1>2, SumNat
<1> QED BY <1>4, <1>5 DEF Own

(* The stake entries of a validator.                                       *)
LEMMA ColumnFacts ==
    ASSUME NEW st \in Table, NEW i \in Id
    PROVE  /\ IsNumbering([s \in Staker |-> st[<<s, i>>]], Staker)
           /\ Column(st, i) \in Nat
           /\ \A s \in Staker : st[<<s, i>>] \in Nat /\ st[<<s, i>>] <= Column(st, i)
<1> DEFINE f == [s \in Staker |-> st[<<s, i>>]]
<1>1. \A s \in Staker : st[<<s, i>>] \in Nat /\ f[s] = st[<<s, i>>]
  BY DEF Table
<1>2. IsNumbering(f, Staker)
  BY <1>1, Widths DEF IsNumbering
<1>3. SumFunctionOnSet(f, Staker) \in Nat
  <2> HIDE DEF f
  <2> QED BY <1>2, SumNat
<1>4. ASSUME NEW s \in Staker PROVE f[s] <= SumFunctionOnSet(f, Staker)
  <2> DEFINE rest == SumFunctionOnSet(f, Staker \ {s})
  <2>1. SumFunctionOnSet(f, Staker) = f[s] + rest
    <3> HIDE DEF f
    <3> QED BY <1>2, SumRemove
  <2>2. rest \in Nat
    <3>1. IsNumbering(f, Staker \ {s})
      BY <1>2, FS_Subset DEF IsNumbering
    <3> HIDE DEF f
    <3> QED BY <3>1, SumNat
  <2>3. f[s] \in Nat
    BY <1>1
  <2> HIDE DEF f, rest
  <2> QED BY <2>1, <2>2, <2>3
<1> QED BY <1>1, <1>2, <1>3, <1>4 DEF Column

LEMMA ColumnSame ==
    ASSUME NEW st \in Table, NEW ts, NEW i \in Id, \A s \in Staker : st[<<s, i>>] = ts[<<s, i>>]
    PROVE  Column(st, i) = Column(ts, i)
<1> DEFINE f == [s \in Staker |-> st[<<s, i>>]]
           g == [s \in Staker |-> ts[<<s, i>>]]
<1>1. IsNumbering(f, Staker)
  BY ColumnFacts
<1>2. \A s \in Staker : f[s] = g[s]
  OBVIOUS
<1>3. SumFunctionOnSet(f, Staker) = SumFunctionOnSet(g, Staker)
  <2> HIDE DEF f, g
  <2> QED BY <1>1, <1>2, SumSame
<1> QED BY <1>3 DEF Column

(* One entry changes.                                                      *)
LEMMA ColumnUpdate ==
    ASSUME NEW st \in Table, NEW ts \in Table, NEW i \in Id, NEW s \in Staker,
           \A t \in Staker \ {s} : st[<<t, i>>] = ts[<<t, i>>]
    PROVE  Column(st, i) + ts[<<s, i>>] = Column(ts, i) + st[<<s, i>>]
<1> DEFINE f == [t \in Staker |-> st[<<t, i>>]]
           g == [t \in Staker |-> ts[<<t, i>>]]
<1>1. IsNumbering(f, Staker) /\ IsNumbering(g, Staker)
  BY ColumnFacts
<1>2. (\A t \in Staker \ {s} : f[t] = g[t]) /\ f[s] = st[<<s, i>>] /\ g[s] = ts[<<s, i>>]
  OBVIOUS
<1>3. SumFunctionOnSet(f, Staker) + g[s] = SumFunctionOnSet(g, Staker) + f[s]
  <2> HIDE DEF f, g
  <2> QED BY <1>1, <1>2, SumUpdate
<1> QED BY <1>2, <1>3 DEF Column

LEMMA StakedNat ==
    ASSUME NEW st \in Table
    PROVE  Staked(st) \in Nat
<1>1. IsNumbering(st, Staker \X Id)
  BY Widths, FS_Product DEF IsNumbering, Table
<1>2. DOMAIN st = Staker \X Id
  BY DEF Table
<1> QED BY <1>1, <1>2, SumNat DEF Staked

(* The entries of one validator change.                                    *)
LEMMA StakedUpdate ==
    ASSUME NEW st \in Table, NEW ts \in Table, NEW i \in Id,
           \A s \in Staker : \A j \in Id \ {i} : st[<<s, j>>] = ts[<<s, j>>]
    PROVE  /\ Staked(st) \in Nat /\ Staked(ts) \in Nat
           /\ Staked(st) + Column(ts, i) = Staked(ts) + Column(st, i)
<1> DEFINE D == Staker \X Id
           A == Staker \X {i}
<1>1. IsFiniteSet(D)
  BY Widths, FS_Product
<1>2. IsNumbering(st, D) /\ IsNumbering(ts, D)
  BY <1>1 DEF IsNumbering, Table
<1>3. A \in SUBSET D /\ \A x \in D \ A : st[x] = ts[x]
  OBVIOUS
<1>4. ASSUME NEW r \in Table PROVE SumFunctionOnSet(r, A) = Column(r, i)
  <2> DEFINE f == [s \in Staker |-> r[<<s, i>>]]
  <2>1. IsNumbering(f, Staker)
    BY ColumnFacts
  <2>2. \A s \in Staker : r[<<s, i>>] = f[s]
    OBVIOUS
  <2>3. SumFunctionOnSet(r, Staker \X {i}) = SumFunctionOnSet(f, Staker)
    <3>1. IsColumn(r, f, Staker, i)
      BY <2>1, <2>2 DEF IsColumn
    <3> HIDE DEF f
    <3> QED BY <3>1, SumColumn
  <2> QED BY <2>3 DEF Column
<1>5. /\ SumFunctionOnSet(st, D) = SumFunctionOnSet(st, A) + SumFunctionOnSet(st, D \ A)
      /\ SumFunctionOnSet(ts, D) = SumFunctionOnSet(ts, A) + SumFunctionOnSet(ts, D \ A)
  <2> HIDE DEF D, A
  <2> QED BY <1>2, <1>3, SumMonotone
<1>6. IsNumbering(st, D \ A)
  <2>1. D \ A \in SUBSET D
    OBVIOUS
  <2> HIDE DEF D, A
  <2> QED BY <1>2, <2>1, SumMonotone
<1>7. /\ SumFunctionOnSet(st, D \ A) = SumFunctionOnSet(ts, D \ A)
      /\ SumFunctionOnSet(st, D \ A) \in Nat
  <2> DEFINE E == D \ A
  <2>1. IsNumbering(st, E) /\ \A x \in E : st[x] = ts[x]
    BY <1>3, <1>6
  <2> HIDE DEF E
  <2>2. SumFunctionOnSet(st, E) = SumFunctionOnSet(ts, E)
    BY <2>1, SumSame
  <2>3. SumFunctionOnSet(st, E) \in Nat
    BY <2>1, SumNat
  <2> QED BY <2>2, <2>3 DEF E
<1>8. Column(st, i) \in Nat /\ Column(ts, i) \in Nat
  BY ColumnFacts
<1>9. Staked(st) = SumFunctionOnSet(st, D) /\ Staked(ts) = SumFunctionOnSet(ts, D)
  BY DEF Staked, Table
<1> HIDE DEF D, A
<1> QED BY <1>4, <1>5, <1>7, <1>8, <1>9

-----------------------------------------------------------------------------
(* The queue.                                                              *)

Amounts == [e \in Entry |-> e.amount]

LEMMA QueueFacts ==
    ASSUME NEW q \in Seq(Entry)
    PROVE  /\ Amounts \in [Entry -> Nat] /\ Queued(q) = Weighed(Amounts, q) /\ Queued(q) \in Nat
           /\ IsNumbering([n \in DOMAIN q |-> q[n].amount], DOMAIN q)
<1> DEFINE f == [n \in DOMAIN q |-> q[n].amount]
<1>1. Amounts \in [Entry -> Nat] /\ \A e \in Entry : Amounts[e] = e.amount
  BY DEF Amounts, Entry
<1>2. \A n \in DOMAIN q : q[n] \in Entry
  OBVIOUS
<1>3. f = [n \in DOMAIN q |-> Amounts[q[n]]]
  BY <1>1, <1>2
<1>4. Queued(q) = Weighed(Amounts, q)
  BY <1>3 DEF Queued, Weighed, Weights
<1>5. IsNumbering(f, DOMAIN q)
  <2>1. DOMAIN q = 1..Len(q) /\ Len(q) \in Nat
    OBVIOUS
  <2>2. IsFiniteSet(DOMAIN q)
    BY <2>1, FS_Interval
  <2>3. \A n \in DOMAIN q : q[n].amount \in Nat
    BY <1>2 DEF Entry
  <2> QED BY <2>2, <2>3 DEF IsNumbering
<1>6. SumFunctionOnSet(f, DOMAIN q) \in Nat
  <2> HIDE DEF f
  <2> QED BY <1>5, SumNat
<1> QED BY <1>1, <1>4, <1>5, <1>6 DEF Queued

LEMMA QueueAppend ==
    ASSUME NEW q \in Seq(Entry), NEW e \in Entry
    PROVE  Queued(Append(q, e)) = e.amount + Queued(q)
<1>1. Append(q, e) \in Seq(Entry)
  OBVIOUS
<1>2. Weighed(Amounts, Append(q, e)) = Amounts[e] + Weighed(Amounts, q)
  BY QueueFacts, AppendWeighed
<1>3. Amounts[e] = e.amount
  BY DEF Amounts
<1>4. Queued(Append(q, e)) = Weighed(Amounts, Append(q, e))
  BY <1>1, QueueFacts
<1> QED BY <1>2, <1>3, <1>4, QueueFacts

(* What is retained of the queue and what is dropped is the whole.         *)
LEMMA QueueRetain ==
    ASSUME NEW q \in Seq(Entry), NEW keep, keep \subseteq DOMAIN q
    PROVE  /\ Retain(q, keep) \in Seq(Entry)
           /\ Queued(q) = Queued(Retain(q, keep))
                  + SumFunctionOnSet([n \in DOMAIN q |-> q[n].amount], DOMAIN q \ keep)
           /\ SumFunctionOnSet([n \in DOMAIN q |-> q[n].amount], DOMAIN q \ keep) \in Nat
<1> DEFINE f == [n \in DOMAIN q |-> q[n].amount]
           g == Weights(Amounts, q)
           r == Retain(q, keep)
<1>1. r \in Seq(Entry)
  BY RetainElements
<1>2. f = g
  <2>1. \A n \in DOMAIN q : q[n] \in Entry
    OBVIOUS
  <2> QED BY <2>1 DEF Amounts, Weights
<1>3. Queued(r) = SumFunctionOnSet(f, keep)
  <2>1. Weighed(Amounts, r) = SumFunctionOnSet(g, keep \cap DOMAIN q)
    <3>1. Amounts \in [Entry -> Nat]
      BY QueueFacts
    <3> QED BY <3>1, RetainSum
  <2>2. keep \cap DOMAIN q = keep
    OBVIOUS
  <2>3. Queued(r) = Weighed(Amounts, r)
    <3> HIDE DEF r
    <3> QED BY <1>1, QueueFacts
  <2> HIDE DEF f, g, r
  <2> QED BY <1>2, <2>1, <2>2, <2>3
<1>4. IsNumbering(f, DOMAIN q)
  BY QueueFacts
<1> DEFINE D == DOMAIN q
           E == D \ keep
<1>5. keep \in SUBSET D /\ E \in SUBSET D
  OBVIOUS
<1>6. Queued(q) = SumFunctionOnSet(f, D)
  BY DEF Queued
<1> HIDE DEF f, D, r
<1>7. SumFunctionOnSet(f, D) = SumFunctionOnSet(f, keep) + SumFunctionOnSet(f, E)
  BY <1>4, <1>5, SumMonotone DEF D
<1>8. SumFunctionOnSet(f, E) \in Nat
  <2>1. IsNumbering(f, E)
    <3> HIDE DEF E
    <3> QED BY <1>4, <1>5, SumMonotone DEF D
  <2> HIDE DEF E
  <2> QED BY <2>1, SumNat
<1>9. r \in Seq(Entry) /\ Queued(q) = Queued(r) + SumFunctionOnSet(f, E) /\ SumFunctionOnSet(f, E) \in Nat
  BY <1>1, <1>3, <1>6, <1>7, <1>8
<1> QED BY <1>9 DEF r, f, E, D

(* Dropping the entries that are worth nothing changes no sum.             *)
LEMMA QueueNonZero ==
    ASSUME NEW q \in Seq(Entry)
    PROVE  /\ NonZero(q) \in Seq(Entry) /\ Queued(NonZero(q)) = Queued(q)
           /\ \A n \in DOMAIN NonZero(q) : NonZero(q)[n].amount > 0
           /\ Pending(NonZero(q)) \subseteq Pending(q)
<1> DEFINE keep == {n \in DOMAIN q : q[n].amount > 0}
           f == [n \in DOMAIN q |-> q[n].amount]
           E == DOMAIN q \ keep
<1>1. NonZero(q) = Retain(q, keep)
  BY DEF NonZero
<1>2. keep \subseteq DOMAIN q
  OBVIOUS
<1>3. /\ Retain(q, keep) \in Seq(Entry)
      /\ Queued(q) = Queued(Retain(q, keep)) + SumFunctionOnSet(f, E)
  <2> HIDE DEF keep
  <2> QED BY <1>2, QueueRetain
<1>4. SumFunctionOnSet(f, E) = 0
  <2>1. IsNumbering(f, DOMAIN q)
    BY QueueFacts
  <2>2. \A n \in E : f[n] = 0
    BY <2>1 DEF IsNumbering
  <2>3. IsFiniteSet(E)
    BY <2>1, FS_Subset DEF IsNumbering
  <2> HIDE DEF f, E
  <2> QED BY <2>2, <2>3, SumZero
<1>5. \A k \in DOMAIN Retain(q, keep) : \E n \in keep \cap DOMAIN q : Retain(q, keep)[k] = q[n]
  <2> HIDE DEF keep
  <2> QED BY RetainElements
<1>6. Queued(Retain(q, keep)) \in Nat
  <2> HIDE DEF keep
  <2> QED BY <1>3, QueueFacts
<1>7. Queued(NonZero(q)) = Queued(q)
  <2> HIDE DEF keep, f, E
  <2> QED BY <1>1, <1>3, <1>4, <1>6
<1>8. \A n \in DOMAIN NonZero(q) : NonZero(q)[n].amount > 0
  BY <1>1, <1>5
<1>9. Pending(NonZero(q)) \subseteq Pending(q)
  BY <1>1, <1>5 DEF Pending
<1> QED BY <1>1, <1>3, <1>7, <1>8, <1>9

-----------------------------------------------------------------------------
(* Slashes.                                                                *)

LEMMA ShareFacts ==
    ASSUME NEW a \in Nat, NEW rate \in Rates
    PROVE  Share(a, rate) \in Nat /\ Share(a, rate) <= a
<1>1. Whole \in Nat \ {0}
  BY DEF Whole
<1>2. a * rate \in Nat /\ a * rate <= a * Whole
  BY <1>1 DEF Rates
<1>3. (a * rate) \div Whole \in Nat /\ (a * rate) \div Whole <= a
  <2> DEFINE p == a * rate
  <2>1. p \in Nat /\ p <= a * Whole
    BY <1>2
  <2> HIDE DEF p
  <2>2. p \div Whole \in Nat /\ p \div Whole <= a
    BY <1>1, <2>1
  <2> QED BY <2>2 DEF p
<1> QED BY <1>3 DEF Share

(* The cut that a slash makes in the queue.                                *)
Cut(q, i, rate) ==
    [n \in DOMAIN q |-> IF q[n].validator = i THEN Share(q[n].amount, rate) ELSE 0]
Slashed(q, i, rate) == [n \in DOMAIN q |-> SlashedEntry(q[n], i, rate)]

LEMMA EntrySlash ==
    ASSUME NEW e \in Entry, NEW i \in Id, NEW rate \in Rates
    PROVE  /\ SlashedEntry(e, i, rate) \in Entry
           /\ SlashedEntry(e, i, rate).validator = e.validator
           /\ LET cut == IF e.validator = i THEN Share(e.amount, rate) ELSE 0
              IN  cut \in Nat /\ e.amount = SlashedEntry(e, i, rate).amount + cut
<1> DEFINE a == e.amount
           b == Share(e.amount, rate)
           c == a - b
<1>1. /\ e = [staker |-> e.staker, validator |-> e.validator, amount |-> e.amount, at |-> e.at]
      /\ e.staker \in Staker /\ e.validator \in Id /\ a \in Nat /\ e.at \in Nat
  BY DEF Entry
<1>2. b \in Nat /\ b <= a
  <2> HIDE DEF a
  <2>1. a \in Nat
    BY <1>1
  <2>2. Share(a, rate) \in Nat /\ Share(a, rate) <= a
    BY <2>1, ShareFacts
  <2> QED BY <2>2 DEF a
<1>3. c \in Nat /\ a = c + b /\ a = a + 0
  <2> HIDE DEF a, b
  <2> QED BY <1>1, <1>2
<1>4. CASE e.validator = i
  <2>1. SlashedEntry(e, i, rate) = [e EXCEPT !.amount = c]
    BY <1>4 DEF SlashedEntry
  <2> HIDE DEF a, b, c
  <2>2. SlashedEntry(e, i, rate)
            = [staker |-> e.staker, validator |-> e.validator, amount |-> c, at |-> e.at]
    BY <1>1, <2>1
  <2> QED BY <1>1, <1>2, <1>3, <1>4, <2>2 DEF Entry, a, b
<1>5. CASE e.validator # i
  <2>1. SlashedEntry(e, i, rate) = e
    BY <1>5 DEF SlashedEntry
  <2> HIDE DEF c
  <2> QED BY <1>3, <1>5, <2>1
<1> QED BY <1>4, <1>5

LEMMA QueueSlash ==
    ASSUME NEW q \in Seq(Entry), NEW i \in Id, NEW rate \in Rates
    PROVE  /\ Slashed(q, i, rate) \in Seq(Entry)
           /\ Pending(Slashed(q, i, rate)) \subseteq Pending(q)
           /\ SumFunctionOnSet(Cut(q, i, rate), DOMAIN q) \in Nat
           /\ Queued(q) = Queued(Slashed(q, i, rate))
                              + SumFunctionOnSet(Cut(q, i, rate), DOMAIN q)
<1> DEFINE r == Slashed(q, i, rate)
           f == [n \in DOMAIN q |-> q[n].amount]
           g == [n \in DOMAIN r |-> r[n].amount]
           h == Cut(q, i, rate)
           D == DOMAIN q
<1>1. ASSUME NEW n \in D
      PROVE  /\ r[n] \in Entry /\ r[n].validator = q[n].validator /\ h[n] \in Nat
             /\ q[n].amount = r[n].amount + h[n] /\ r[n].amount \in Nat
  <2>1. q[n] \in Entry
    OBVIOUS
  <2>2. r[n] = SlashedEntry(q[n], i, rate) /\ h[n] = IF q[n].validator = i
                                        THEN Share(q[n].amount, rate) ELSE 0
    BY DEF Slashed, Cut
  <2>3. r[n] \in Entry /\ r[n].validator = q[n].validator /\ h[n] \in Nat
        /\ q[n].amount = r[n].amount + h[n]
    <3> DEFINE e == q[n]
               x == SlashedEntry(e, i, rate)
               cut == IF e.validator = i THEN Share(e.amount, rate) ELSE 0
    <3>1. e \in Entry
      BY <2>1
    <3>2. x \in Entry /\ x.validator = e.validator /\ cut \in Nat /\ e.amount = x.amount + cut
      <4> HIDE DEF e
      <4> QED BY <3>1, EntrySlash
    <3>3. r[n] = x /\ h[n] = cut
      BY <2>2
    <3> HIDE DEF x, cut, r, h
    <3> QED BY <3>2, <3>3
  <2>4. r[n].amount \in Nat
    <3> HIDE DEF r
    <3> QED BY <2>3 DEF Entry
  <2> QED BY <2>3, <2>4
<1>2. DOMAIN r = D /\ DOMAIN q = 1..Len(q) /\ Len(q) \in Nat
  BY DEF Slashed
<1>3. r \in Seq(Entry)
  <2>1. r = [n \in 1..Len(q) |-> SlashedEntry(q[n], i, rate)]
    BY <1>2 DEF Slashed
  <2>2. \A n \in 1..Len(q) : SlashedEntry(q[n], i, rate) \in Entry
    BY <1>1, <1>2 DEF Slashed
  <2>3. [n \in 1..Len(q) |-> SlashedEntry(q[n], i, rate)] \in [1..Len(q) -> Entry]
    BY <2>2
  <2> HIDE DEF r
  <2> QED BY <1>2, <2>1, <2>3
<1>4. Pending(r) \subseteq Pending(q)
  <2> HIDE DEF r
  <2> QED BY <1>1, <1>2 DEF Pending
<1>5. IsNumbering(f, D) /\ \A n \in D : f[n] = g[n] + h[n] /\ g[n] \in Nat /\ h[n] \in Nat
  <2>1. IsNumbering(f, D)
    BY QueueFacts
  <2> HIDE DEF r, h
  <2> QED BY <1>1, <1>2, <2>1
<1>6. IsNumbering(g, D) /\ IsNumbering(h, D)
  <2> HIDE DEF f, g, h, D
  <2> QED BY <1>5 DEF IsNumbering
<1>7. SumFunctionOnSet(f, D) = SumFunctionOnSet(g, D) + SumFunctionOnSet(h, D)
  <2>1. IsPlus(f, g, h, D)
    BY <1>5 DEF IsPlus
  <2> HIDE DEF f, g, h, D
  <2> QED BY <1>6, <2>1, SumPlus
<1>8. SumFunctionOnSet(h, D) \in Nat
  <2> HIDE DEF f, g, h, D
  <2> QED BY <1>6, SumNat
<1>9. Queued(q) = SumFunctionOnSet(f, D) /\ Queued(r) = SumFunctionOnSet(g, D)
  <2>1. Queued(r) = SumFunctionOnSet(g, DOMAIN r)
    BY DEF Queued
  <2> HIDE DEF g, r
  <2> QED BY <1>2, <2>1 DEF Queued
<1> HIDE DEF f, g
<1> QED BY <1>3, <1>4, <1>7, <1>8, <1>9

(* Rounding the cumulative shares down gives everybody a cut of at most    *)
(* what it has.                                                            *)
LEMMA RoundedDifference ==
    ASSUME NEW c \in Nat, NEW x \in Nat, NEW D \in Nat, NEW T \in Nat \ {0}, D <= T
    PROVE  /\ (c * D) \div T \in Nat /\ ((c + x) * D) \div T \in Nat
           /\ (c * D) \div T <= ((c + x) * D) \div T
           /\ ((c + x) * D) \div T <= (c * D) \div T + x
<1> DEFINE m == c * D
           n == (c + x) * D
           q == m \div T
           p == n \div T
<1>1. m \in Nat /\ x * D \in Nat /\ n = m + x * D /\ x * D <= x * T /\ x * T \in Nat
  <2>1. (c + x) * D = c * D + x * D
    OBVIOUS
  <2> QED BY <2>1
<1> HIDE DEF m, n
<1>2. n \in Nat /\ m <= n /\ n <= m + x * T
  <2> DEFINE y == x * D
             z == x * T
  <2>1. m \in Nat /\ y \in Nat /\ n = m + y /\ y <= z /\ z \in Nat
    BY <1>1
  <2> HIDE DEF y, z
  <2>2. n \in Nat /\ m <= n /\ n <= m + z
    BY <2>1
  <2> QED BY <2>2 DEF z
<1>3. q \in Nat /\ p \in Nat /\ T * q <= m /\ m < T * q + T /\ T * p <= n /\ n < T * p + T
  BY <1>1, <1>2
<1> HIDE DEF q, p
<1>4. q <= p
  <2> SUFFICES ASSUME p + 1 <= q PROVE FALSE
    BY <1>3
  <2>1. T * (p + 1) <= T * q /\ T * (p + 1) = T * p + T
    BY <1>3
  <2> QED BY <1>1, <1>2, <1>3, <2>1
<1>5. p <= q + x
  <2> SUFFICES ASSUME q + x + 1 <= p PROVE FALSE
    BY <1>3
  <2>1. T * (q + x + 1) <= T * p /\ T * (q + x + 1) = T * q + x * T + T
    BY <1>3
  <2> QED BY <1>1, <1>2, <1>3, <2>1
<1> QED BY <1>3, <1>4, <1>5 DEF m, n, q, p

(* The cuts of the stakers add up to the cut of the validator, and none    *)
(* takes more than there is.                                               *)
Cuts(i, D) == [s \in Staker |-> StakerSlash(i, s, D)]

LEMMA StakerCuts ==
    ASSUME stakes \in Table, NEW i \in Id, NEW D \in Nat,
           StakeOf(i, Staker) > 0, D <= StakeOf(i, Staker)
    PROVE  /\ \A s \in Staker : StakerSlash(i, s, D) \in 0..stakes[<<s, i>>]
           /\ IsNumbering(Cuts(i, D), Staker)
           /\ SumFunctionOnSet(Cuts(i, D), Staker) = D
<1> DEFINE N == Cardinality(Staker)
           f == [s \in Staker |-> stakes[<<s, i>>]]
           T == StakeOf(i, Staker)
           cum(t) == SumFunctionOnSet(f, 1..t)
           u == [t \in 0..N |-> (cum(t) * D) \div T]
           d == Cuts(i, D)
<1>1. N \in Nat /\ Staker = 1..N
  BY Widths
<1>2. IsNumbering(f, Staker) /\ \A s \in Staker : f[s] = stakes[<<s, i>>] /\ f[s] \in Nat
  <2>1. IsNumbering(f, Staker)
    BY ColumnFacts
  <2> QED BY <2>1 DEF IsNumbering
<1>3. \A S : StakeOf(i, S) = SumFunctionOnSet(f, S)
  BY DEF StakeOf
<1>4. T \in Nat \ {0}
  <2>1. T \in Nat
    <3> HIDE DEF f
    <3> QED BY <1>2, <1>3, SumNat
  <2> HIDE DEF T
  <2>2. T > 0
    BY DEF T
  <2> QED BY <2>1, <2>2
<1>5. \A t \in 0..N : IsNumbering(f, 1..t)
  <2>1. \A t \in 0..N : 1..t \in SUBSET Staker
    <3> HIDE DEF N
    <3> QED BY <1>1
  <2> HIDE DEF f, N
  <2> QED BY <1>2, <2>1, SumMonotone
<1>6. \A t \in 0..N : cum(t) \in Nat
  <2> HIDE DEF f, N
  <2> QED BY <1>5, SumNat
<1>7. ASSUME NEW t \in 1..N PROVE cum(t) = cum(t - 1) + f[t]
  <2> HIDE DEF N
  <2>1. t \in 1..t /\ (1..t) \ {t} = 1..(t - 1) /\ t \in 0..N /\ t - 1 \in 0..N
    BY <1>1
  <2> DEFINE S == 1..t
  <2>2. IsNumbering(f, S) /\ t \in S
    BY <1>5, <2>1
  <2>3. SumFunctionOnSet(f, S) = f[t] + SumFunctionOnSet(f, S \ {t})
    <3> HIDE DEF S, f
    <3> QED BY <2>2, SumRemove
  <2>4. cum(t) = f[t] + cum(t - 1)
    <3> HIDE DEF f
    <3> QED BY <2>1, <2>3
  <2>5. f[t] \in Nat /\ cum(t - 1) \in Nat
    BY <1>1, <1>2, <1>6, <2>1
  <2> HIDE DEF f, cum
  <2> QED BY <2>4, <2>5
<1>8. ASSUME NEW t \in 1..N
      PROVE  /\ u[t] \in Nat /\ u[t - 1] \in Nat /\ u[t - 1] <= u[t] /\ u[t] <= u[t - 1] + f[t]
             /\ d[t] = u[t] - u[t - 1] /\ d[t] = StakerSlash(i, t, D)
  <2> HIDE DEF N
  <2>1. t \in 0..N /\ t - 1 \in 0..N /\ t \in Staker
    BY <1>1
  <2>2. cum(t - 1) \in Nat /\ f[t] \in Nat /\ cum(t) = cum(t - 1) + f[t]
    BY <1>1, <1>2, <1>6, <1>7, <2>1
  <2>3. u[t] = (cum(t) * D) \div T /\ u[t - 1] = (cum(t - 1) * D) \div T
    <3> HIDE DEF cum, T
    <3> QED BY <2>1
  <2>4. D <= T
    OBVIOUS
  <2>5. /\ u[t] \in Nat /\ u[t - 1] \in Nat /\ u[t - 1] <= u[t] /\ u[t] <= u[t - 1] + f[t]
    <3> DEFINE c == cum(t - 1)
               x == f[t]
    <3>1. c \in Nat /\ x \in Nat /\ u[t] = ((c + x) * D) \div T /\ u[t - 1] = (c * D) \div T
      <4> HIDE DEF cum, f, T, u
      <4> QED BY <2>2, <2>3
    <3> HIDE DEF c, u, T, x
    <3>2. c \in Nat /\ x \in Nat /\ D \in Nat /\ T \in Nat \ {0} /\ D <= T
      BY <1>4, <2>4, <3>1
    <3>3. /\ (c * D) \div T \in Nat /\ ((c + x) * D) \div T \in Nat
          /\ (c * D) \div T <= ((c + x) * D) \div T
          /\ ((c + x) * D) \div T <= (c * D) \div T + x
      BY ONLY <3>2, RoundedDifference
    <3>4. u[t] \in Nat /\ u[t - 1] \in Nat /\ u[t - 1] <= u[t] /\ u[t] <= u[t - 1] + x
      BY ONLY <3>1, <3>3
    <3> QED BY <3>4 DEF x
  <2>6. d[t] = StakerSlash(i, t, D)
    BY <2>1 DEF Cuts
  <2>7. StakerSlash(i, t, D)
            = (StakeOf(i, 1..t) * D) \div T - (StakeOf(i, 1..(t - 1)) * D) \div T
    BY DEF StakerSlash
  <2>8. StakeOf(i, 1..t) = cum(t) /\ StakeOf(i, 1..(t - 1)) = cum(t - 1)
    BY <1>3
  <2> HIDE DEF u, cum, T, f, d
  <2> QED BY <2>3, <2>5, <2>6, <2>7, <2>8
<1>9. \A s \in Staker : StakerSlash(i, s, D) \in 0..stakes[<<s, i>>]
  <2> SUFFICES ASSUME NEW s \in Staker PROVE StakerSlash(i, s, D) \in 0..stakes[<<s, i>>]
    OBVIOUS
  <2>1. s \in 1..N
    BY <1>1
  <2> HIDE DEF N, u, d, f
  <2>2. f[s] = stakes[<<s, i>>] /\ f[s] \in Nat
    BY <1>2
  <2> QED BY <1>8, <2>1, <2>2
<1>10. GrowsBy(u, d, N)
  <2> HIDE DEF N
  <2>1. u \in [0..N -> Nat]
    <3>1. \A t \in 0..N : (cum(t) * D) \div T \in Nat
      <4> SUFFICES ASSUME NEW t \in 0..N PROVE (cum(t) * D) \div T \in Nat
        OBVIOUS
      <4> DEFINE c == cum(t)
      <4>1. c \in Nat /\ 0 \in Nat /\ D <= T
        BY <1>6
      <4> HIDE DEF c, T
      <4>2. (c * D) \div T \in Nat
        BY <1>4, <4>1, RoundedDifference
      <4> QED BY <4>2 DEF c
    <3> HIDE DEF cum, T
    <3> QED BY <3>1
  <2> HIDE DEF u, d, f
  <2>2. \A t \in 1..N : d[t] \in Nat /\ u[t] = u[t - 1] + d[t]
    BY <1>8
  <2> QED BY <2>1, <2>2 DEF GrowsBy
<1>11. IsNumbering(d, 1..N) /\ u[N] = u[0] + SumFunctionOnSet(d, 1..N)
  <2> HIDE DEF N, u, d
  <2> QED BY <1>1, <1>10, SumDifferences
<1>12. u[0] = 0 /\ u[N] = D
  <2>1. cum(0) = 0 /\ cum(N) = T
    <3>1. 1..0 = {}
      OBVIOUS
    <3>2. SumFunctionOnSet(f, {}) = 0
      BY SumEmpty
    <3>3. T = SumFunctionOnSet(f, Staker)
      BY <1>3
    <3> HIDE DEF f, N, T
    <3> QED BY <1>1, <3>1, <3>2, <3>3
  <2>2. u[0] = (cum(0) * D) \div T /\ u[N] = (cum(N) * D) \div T
    <3> HIDE DEF N, cum, T
    <3> QED BY <1>1
  <2> HIDE DEF T, cum, u
  <2>3. (0 * D) \div T = 0 /\ (T * D) \div T = D
    BY <1>4
  <2> QED BY <2>1, <2>2, <2>3
<1>13. SumFunctionOnSet(d, Staker) = D /\ IsNumbering(d, Staker)
  <2>1. SumFunctionOnSet(d, 1..N) \in Nat
    <3> HIDE DEF d, N
    <3> QED BY <1>11, SumNat
  <2> HIDE DEF u, d, N
  <2> QED BY <1>1, <1>11, <1>12, <2>1
<1> QED BY <1>9, <1>13

-----------------------------------------------------------------------------
(***************************************************************************)
(* The inductive invariant.  Conservation and the backing of power are     *)
(* inductive together with the types; that a validator with unbondings     *)
(* stays in the store needs that the store is tidy: an account without a   *)
(* key is one that is not there.                                           *)
(***************************************************************************)

Typed == /\ vals \in [Id -> Account] /\ stakes \in Table
         /\ unbonding \in Seq(Entry) /\ view \in Nat

Tidy == \A i \in Id : vals[i].key = 0 => vals[i] = Gone

Waiting == \A n \in DOMAIN unbonding : unbonding[n].amount > 0

Conserved == /\ tokens = Own(vals) + Staked(stakes) + Queued(unbonding)
             /\ tokens <= MaxTokens

Backed == \A i \in Id : vals[i].del = Column(stakes, i)

StakingInv == Typed /\ Tidy /\ Waiting /\ Conserved /\ Backed /\ UnbondingStaysSlashable

(* The sums are numbers.                                                   *)
LEMMA InvariantSums ==
    ASSUME StakingInv
    PROVE  /\ Own(vals) \in Nat /\ Staked(stakes) \in Nat /\ Queued(unbonding) \in Nat
           /\ tokens \in Nat /\ tokens <= MaxTokens
           /\ tokens = Own(vals) + Staked(stakes) + Queued(unbonding)
<1>1. Typed /\ Conserved
  BY DEF StakingInv
<1>2. Own(vals) \in Nat
  BY <1>1, OwnSame DEF Typed
<1>3. Queued(unbonding) \in Nat
  BY <1>1, QueueFacts DEF Typed
<1>4. Staked(stakes) \in Nat
  BY <1>1, StakedNat DEF Typed
<1> QED BY <1>1, <1>2, <1>3, <1>4 DEF Conserved

(* What the invariant says of the properties that the runs check.          *)
LEMMA InvariantImplies ==
    StakingInv => TypeOK /\ StakeIsConserved /\ DelegationsAddUp /\ UnbondingStaysSlashable
<1> SUFFICES ASSUME StakingInv PROVE TypeOK /\ StakeIsConserved /\ DelegationsAddUp
  BY DEF StakingInv
<1>1. Typed /\ Waiting /\ Conserved /\ Backed
  BY DEF StakingInv
<1>2. StakeIsConserved
  BY <1>1 DEF Conserved, StakeIsConserved, Own, Staked, Queued
<1>3. DelegationsAddUp
  BY <1>1 DEF Backed, DelegationsAddUp, Column, StakeOf
<1>4. \A i \in Id : vals[i].self \in 0..MaxPower /\ vals[i].del \in 0..MaxPower
  BY <1>1 DEF Typed, Account
<1>5. \A x \in DOMAIN stakes : stakes[x] \in 0..MaxPower
  <2> SUFFICES ASSUME NEW s \in Staker, NEW i \in Id PROVE stakes[<<s, i>>] \in 0..MaxPower
    BY <1>1 DEF Typed, Table
  <2>1. stakes[<<s, i>>] \in Nat /\ stakes[<<s, i>>] <= Column(stakes, i) /\ Column(stakes, i) \in Nat
    BY <1>1, ColumnFacts DEF Typed
  <2>2. Column(stakes, i) \in 0..MaxPower
    BY <1>1, <1>4 DEF Backed
  <2> QED BY <2>1, <2>2, Widths
<1>6. tokens \in 0..MaxTokens
  BY InvariantSums, Widths
<1> QED BY <1>1, <1>2, <1>3, <1>4, <1>5, <1>6 DEF TypeOK, Waiting

(* An account that is in the store changes and keeps its key.              *)
LEMMA AccountChanges ==
    ASSUME StakingInv, NEW i \in Registered, NEW a \in Account, a.key = vals[i].key,
           vals' = [vals EXCEPT ![i] = a]
    PROVE  /\ i \in Id /\ vals[i] \in Account /\ vals' \in [Id -> Account] /\ Tidy'
           /\ Registered \subseteq Registered'
           /\ vals'[i] = a /\ \A j \in Id \ {i} : vals'[j] = vals[j]
           /\ Own(vals') \in Nat /\ Own(vals) + a.self = Own(vals') + vals[i].self
<1>1. i \in Id /\ vals \in [Id -> Account] /\ vals[i] \in Account /\ vals[i] # Gone
  BY DEF Registered, StakingInv, Typed
<1>2. vals' \in [Id -> Account] /\ vals'[i] = a /\ \A j \in Id \ {i} : vals'[j] = vals[j]
  BY <1>1
<1>3. a.key # 0
  BY <1>1 DEF StakingInv, Tidy
<1>4. Tidy'
  BY <1>2, <1>3 DEF Tidy, StakingInv
<1>5. a # Gone
  BY <1>3 DEF Gone
<1>6. Registered \subseteq Registered'
  BY <1>2, <1>5 DEF Registered
<1>7. Own(vals') \in Nat /\ Own(vals) + a.self = Own(vals') + vals[i].self
  <2> DEFINE x == vals'
  <2>1. x \in [Id -> Account] /\ x[i].self = a.self /\ \A j \in Id \ {i} : vals[j].self = x[j].self
    BY <1>2
  <2> HIDE DEF x
  <2>2. Own(x) \in Nat /\ Own(vals) + x[i].self = Own(x) + vals[i].self
    BY <1>1, <2>1, OwnUpdate
  <2> QED BY <2>1, <2>2 DEF x
<1> QED BY <1>1, <1>2, <1>4, <1>6, <1>7

-----------------------------------------------------------------------------
(* Every operation keeps the invariant.                                    *)

LEMMA RegisterKeeps ==
    ASSUME StakingInv, NEW i \in Id, NEW k \in Key, NEW s \in Amount, Register(i, k, s)
    PROVE  StakingInv'
<1> DEFINE a == Fresh(k, s)
<1>1. vals[i] = Gone /\ Typed /\ Tidy /\ Backed
  BY DEF Register, Registered, StakingInv
<1>2. s \in 0..MaxPower /\ s \in Nat /\ k # 0
  BY Widths
<1>3. a \in Account /\ a.key = k /\ a.self = s /\ a.del = 0
  <2>1. Gone \in Account /\ Gone.del = 0
    BY Widths DEF Gone, Account
  <2> QED BY <1>2, <2>1 DEF Fresh, Account
<1>4. vals[i].self = 0 /\ vals[i].del = 0
  BY <1>1 DEF Gone
<1> HIDE DEF a
<1>5. vals' = [vals EXCEPT ![i] = a] /\ tokens' = tokens + s /\ tokens + s <= MaxTokens
      /\ stakes' = stakes /\ unbonding' = unbonding /\ view' = view
  BY DEF Register, a, chainVars
<1>6. vals' \in [Id -> Account] /\ vals'[i] = a /\ \A j \in Id \ {i} : vals'[j] = vals[j]
  BY <1>1, <1>3, <1>5 DEF Typed
<1>7. Typed'
  BY <1>1, <1>5, <1>6 DEF Typed
<1>8. Tidy'
  BY <1>1, <1>2, <1>3, <1>6 DEF Tidy
<1>9. Waiting'
  BY <1>5 DEF Waiting, StakingInv
<1>10. Own(vals') = Own(vals) + s
  <2> DEFINE x == vals'
  <2>1. x \in [Id -> Account] /\ x[i].self = s /\ \A j \in Id \ {i} : vals[j].self = x[j].self
    BY <1>3, <1>6
  <2> HIDE DEF x
  <2>2. Own(x) \in Nat /\ Own(vals) \in Nat /\ Own(vals) + x[i].self = Own(x) + vals[i].self
    BY <1>1, <2>1, OwnUpdate DEF Typed
  <2>3. Own(x) = Own(vals) + s
    BY <1>2, <1>4, <2>1, <2>2
  <2> QED BY <2>3 DEF x
<1>11. Conserved'
  <2>1. tokens' <= MaxTokens
    BY <1>5
  <2>2. tokens' = Own(vals') + Staked(stakes) + Queued(unbonding)
    BY <1>2, <1>5, <1>10, InvariantSums
  <2> QED BY <1>5, <2>1, <2>2 DEF Conserved
<1>12. Backed'
  BY <1>1, <1>3, <1>4, <1>5, <1>6 DEF Backed
<1>13. UnbondingStaysSlashable'
  <2>1. a # Gone
    BY <1>2, <1>3 DEF Gone
  <2>2. Registered \subseteq Registered'
    BY <1>6, <2>1 DEF Registered
  <2> QED BY <1>5, <2>2 DEF UnbondingStaysSlashable, StakingInv, Pending
<1> QED BY <1>7, <1>8, <1>9, <1>11, <1>12, <1>13 DEF StakingInv

(* No stake at all.                                                        *)
LEMMA NoStake ==
    ASSUME NEW v \in Account, TotalStake(v) = 0
    PROVE  v.self = 0 /\ v.del = 0
<1>1. v.self \in Nat /\ v.del \in Nat
  BY Widths DEF Account
<1> QED BY <1>1, Widths DEF TotalStake, Capped

LEMMA UnregisterKeeps ==
    ASSUME StakingInv, NEW i \in Id, Unregister(i)
    PROVE  StakingInv'
<1> DEFINE a == IF i \in Pending(unbonding) THEN [vals[i] EXCEPT !.tomb = TRUE] ELSE Gone
<1>1. Typed /\ Tidy /\ Backed /\ i \in Registered /\ vals[i] \in Account
  BY DEF Unregister, StakingInv, Typed
<1>2. vals[i].self = 0 /\ vals[i].del = 0
  BY <1>1, NoStake DEF Unregister
<1>3. a \in Account /\ a.self = 0 /\ a.del = 0 /\ (a.key = 0 => a = Gone)
      /\ (i \in Pending(unbonding) => a # Gone)
  <2>1. Gone \in Account /\ Gone.self = 0 /\ Gone.del = 0 /\ Gone.key = 0
    BY Widths DEF Gone, Account
  <2>2. vals[i].key # 0
    BY <1>1 DEF Tidy, Registered
  <2> DEFINE b == [vals[i] EXCEPT !.tomb = TRUE]
  <2>3. b \in Account /\ b.self = 0 /\ b.del = 0 /\ b.key = vals[i].key
    BY <1>1, <1>2 DEF Account
  <2>4. b # Gone
    <3> HIDE DEF b
    <3> QED BY <2>1, <2>2, <2>3
  <2> HIDE DEF b
  <2>5. a = IF i \in Pending(unbonding) THEN b ELSE Gone
    BY DEF b
  <2> HIDE DEF a
  <2> QED BY <2>1, <2>2, <2>3, <2>4, <2>5
<1>4. vals' = [vals EXCEPT ![i] = a] /\ tokens' = tokens
      /\ stakes' = stakes /\ unbonding' = unbonding /\ view' = view
  BY <1>1 DEF Unregister, chainVars, Typed
<1> HIDE DEF a
<1>5. vals' \in [Id -> Account] /\ vals'[i] = a /\ \A j \in Id \ {i} : vals'[j] = vals[j]
  BY <1>1, <1>3, <1>4 DEF Typed
<1>6. Typed'
  BY <1>1, <1>4, <1>5 DEF Typed
<1>7. Tidy'
  BY <1>1, <1>3, <1>5 DEF Tidy
<1>8. Waiting'
  BY <1>4 DEF Waiting, StakingInv
<1>9. Conserved'
  <2> DEFINE x == vals'
  <2>1. \A j \in Id : vals[j].self = x[j].self
    BY <1>2, <1>3, <1>5
  <2> HIDE DEF x
  <2>2. Own(vals) = Own(x)
    BY <1>1, <2>1, OwnSame DEF Typed
  <2> QED BY <1>4, <2>2 DEF Conserved, StakingInv, x
<1>10. Backed'
  BY <1>1, <1>2, <1>3, <1>4, <1>5 DEF Backed
<1>11. UnbondingStaysSlashable'
  BY <1>3, <1>4, <1>5 DEF UnbondingStaysSlashable, StakingInv, Pending, Registered
<1> QED BY <1>6, <1>7, <1>8, <1>9, <1>10, <1>11 DEF StakingInv

LEMMA UnjailKeeps ==
    ASSUME StakingInv, NEW i \in Id, Unjail(i)
    PROVE  StakingInv'
<1> DEFINE a == [vals[i] EXCEPT !.jailed = FALSE, !.until = 0]
<1>1. Typed /\ Backed /\ i \in Registered /\ vals[i] \in Account
  BY DEF Unjail, StakingInv, Typed
<1>2. a \in Account /\ a.key = vals[i].key /\ a.self = vals[i].self /\ a.del = vals[i].del
  BY <1>1 DEF Account
<1>3. vals' = [vals EXCEPT ![i] = a] /\ tokens' = tokens
      /\ stakes' = stakes /\ unbonding' = unbonding /\ view' = view
  BY <1>1 DEF Unjail, chainVars, Typed
<1> HIDE DEF a
<1>4. /\ vals' \in [Id -> Account] /\ Tidy' /\ Registered \subseteq Registered'
      /\ vals'[i] = a /\ \A j \in Id \ {i} : vals'[j] = vals[j]
      /\ Own(vals') \in Nat /\ Own(vals) + a.self = Own(vals') + vals[i].self
  BY <1>1, <1>2, <1>3, AccountChanges
<1>5. Typed'
  BY <1>1, <1>3, <1>4 DEF Typed
<1>6. Waiting'
  BY <1>3 DEF Waiting, StakingInv
<1>7. Conserved'
  <2>1. vals[i].self \in Nat
    BY <1>1, Widths DEF Account
  <2>2. Own(vals') = Own(vals)
    BY <1>2, <1>4, <2>1, InvariantSums
  <2> QED BY <1>3, <2>2 DEF Conserved, StakingInv
<1>8. Backed'
  BY <1>1, <1>2, <1>3, <1>4 DEF Backed
<1>9. UnbondingStaysSlashable'
  BY <1>3, <1>4 DEF UnbondingStaysSlashable, StakingInv, Pending
<1> QED BY <1>4, <1>5, <1>6, <1>7, <1>8, <1>9 DEF StakingInv

LEMMA RewardKeeps ==
    ASSUME StakingInv, NEW i \in Id, RewardProposer(i)
    PROVE  StakingInv'
<1> DEFINE a == [vals[i] EXCEPT !.self = @ + BlockReward]
<1>1. Typed /\ Backed /\ i \in Registered /\ vals[i] \in Account
  BY DEF RewardProposer, StakingInv, Typed
<1>2. vals[i].self \in Nat /\ BlockReward \in Nat /\ vals[i].self + BlockReward <= MaxPower
  BY <1>1, Widths DEF Account, RewardProposer
<1>3. /\ a \in Account /\ a.key = vals[i].key /\ a.self = vals[i].self + BlockReward
      /\ a.del = vals[i].del
  <2>1. vals[i].self + BlockReward \in 0..MaxPower
    BY <1>2, Widths
  <2> QED BY <1>1, <2>1 DEF Account
<1>4. /\ vals' = [vals EXCEPT ![i] = a] /\ tokens' = tokens + BlockReward
      /\ tokens + BlockReward <= MaxTokens
      /\ stakes' = stakes /\ unbonding' = unbonding /\ view' = view
  BY <1>1 DEF RewardProposer, chainVars, Typed
<1> HIDE DEF a
<1>5. /\ vals' \in [Id -> Account] /\ Tidy' /\ Registered \subseteq Registered'
      /\ vals'[i] = a /\ \A j \in Id \ {i} : vals'[j] = vals[j]
      /\ Own(vals') \in Nat /\ Own(vals) + a.self = Own(vals') + vals[i].self
  BY <1>1, <1>3, <1>4, AccountChanges
<1>6. Typed'
  BY <1>1, <1>4, <1>5 DEF Typed
<1>7. Waiting'
  BY <1>4 DEF Waiting, StakingInv
<1>8. Conserved'
  <2>1. Own(vals') = Own(vals) + BlockReward
    BY <1>2, <1>3, <1>5, InvariantSums
  <2>2. tokens' = Own(vals') + Staked(stakes) + Queued(unbonding)
    BY <1>2, <1>4, <2>1, InvariantSums
  <2> QED BY <1>4, <2>2 DEF Conserved
<1>9. Backed'
  BY <1>1, <1>3, <1>4, <1>5 DEF Backed
<1>10. UnbondingStaysSlashable'
  BY <1>4, <1>5 DEF UnbondingStaysSlashable, StakingInv, Pending
<1> QED BY <1>5, <1>6, <1>7, <1>8, <1>9, <1>10 DEF StakingInv

(* One stake entry changes: the sums follow.                               *)
Replaces(ts, st, s, i, b) == ts = [st EXCEPT ![<<s, i>>] = b]

LEMMA EntryChanges ==
    ASSUME NEW st \in Table, NEW s \in Staker, NEW i \in Id, NEW b \in Nat, NEW ts,
           Replaces(ts, st, s, i, b)
    PROVE  /\ ts \in Table /\ Column(ts, i) \in Nat /\ Column(st, i) \in Nat
           /\ Column(st, i) + b = Column(ts, i) + st[<<s, i>>]
           /\ Staked(st) \in Nat /\ Staked(ts) \in Nat
           /\ Staked(st) + Column(ts, i) = Staked(ts) + Column(st, i)
           /\ \A j \in Id \ {i} : Column(ts, j) = Column(st, j)
<1>1. ts \in Table /\ ts[<<s, i>>] = b
  BY DEF Table, Replaces
<1>2. \A t \in Staker : \A j \in Id \ {i} : st[<<t, j>>] = ts[<<t, j>>]
  BY DEF Table, Replaces
<1>3. \A t \in Staker \ {s} : st[<<t, i>>] = ts[<<t, i>>]
  BY DEF Table, Replaces
<1>4. Column(st, i) + b = Column(ts, i) + st[<<s, i>>]
  <2>1. Column(st, i) + ts[<<s, i>>] = Column(ts, i) + st[<<s, i>>]
    BY <1>1, <1>3, ColumnUpdate
  <2> QED BY <1>1, <2>1
<1>5. /\ Staked(st) \in Nat /\ Staked(ts) \in Nat
      /\ Staked(st) + Column(ts, i) = Staked(ts) + Column(st, i)
  BY <1>1, <1>2, StakedUpdate
<1>6. \A j \in Id \ {i} : Column(ts, j) = Column(st, j)
  BY <1>2, ColumnSame
<1>7. Column(ts, i) \in Nat /\ Column(st, i) \in Nat
  BY <1>1, ColumnFacts
<1> QED BY <1>1, <1>4, <1>5, <1>6, <1>7

LEMMA DelegateKeeps ==
    ASSUME StakingInv, NEW s \in Staker, NEW i \in Id, NEW d \in Amount, Delegate(s, i, d)
    PROVE  StakingInv'
<1> DEFINE a == [vals[i] EXCEPT !.del = @ + d]
           b == stakes[<<s, i>>] + d
           ts == stakes'
<1>1. /\ Typed /\ Backed /\ i \in Registered /\ vals[i] \in Account /\ stakes \in Table
      /\ stakes[<<s, i>>] \in Nat /\ d \in Nat
  BY Widths, SMTT(30) DEF Delegate, StakingInv, Typed, Table
<1>2. vals[i].del \in Nat /\ vals[i].self \in Nat /\ vals[i].del + d <= MaxPower
  BY <1>1, Widths, SMTT(30) DEF Account, Delegate
<1>3. /\ a \in Account /\ a.key = vals[i].key /\ a.self = vals[i].self
      /\ a.del = vals[i].del + d
  <2>1. vals[i].del + d \in 0..MaxPower
    BY <1>1, <1>2, Widths, SMTT(30)
  <2> QED BY <1>1, <2>1 DEF Account
<1>4. /\ vals' = [vals EXCEPT ![i] = a] /\ tokens' = tokens + d
      /\ tokens + d <= MaxTokens /\ ts = [stakes EXCEPT ![<<s, i>>] = b]
      /\ unbonding' = unbonding /\ view' = view
  BY <1>1 DEF Delegate, chainVars, Typed, Table
<1>5. b \in Nat
  BY <1>1
<1> HIDE DEF a, ts
<1>6. /\ vals' \in [Id -> Account] /\ Tidy' /\ Registered \subseteq Registered'
      /\ vals'[i] = a /\ \A j \in Id \ {i} : vals'[j] = vals[j]
      /\ Own(vals') \in Nat /\ Own(vals) + a.self = Own(vals') + vals[i].self
  BY <1>1, <1>3, <1>4, AccountChanges
<1>7. /\ ts \in Table /\ Column(ts, i) \in Nat /\ Column(stakes, i) \in Nat
      /\ Column(stakes, i) + b = Column(ts, i) + stakes[<<s, i>>]
      /\ Staked(stakes) \in Nat /\ Staked(ts) \in Nat
      /\ Staked(stakes) + Column(ts, i) = Staked(ts) + Column(stakes, i)
      /\ \A j \in Id \ {i} : Column(ts, j) = Column(stakes, j)
  <2> HIDE DEF b
  <2>1. Replaces(ts, stakes, s, i, b)
    BY <1>4 DEF Replaces
  <2> QED BY <1>1, <1>5, <2>1, EntryChanges
<1>8. Column(ts, i) = Column(stakes, i) + d /\ Staked(ts) = Staked(stakes) + d
  BY <1>1, <1>7
<1>9. Typed'
  BY <1>1, <1>4, <1>6, <1>7 DEF Typed, ts
<1>10. Waiting'
  BY <1>4 DEF Waiting, StakingInv
<1>11. Conserved'
  <2>1. Own(vals') = Own(vals)
    BY <1>2, <1>3, <1>6, InvariantSums
  <2>2. tokens' = Own(vals') + Staked(ts) + Queued(unbonding)
    BY <1>1, <1>4, <1>8, <2>1, InvariantSums
  <2> QED BY <1>4, <2>2 DEF Conserved, ts
<1>12. Backed'
  <2>1. \A j \in Id : vals'[j].del = Column(ts, j)
    BY <1>1, <1>3, <1>6, <1>7, <1>8 DEF Backed
  <2> QED BY <2>1 DEF Backed, ts
<1>13. UnbondingStaysSlashable'
  BY <1>4, <1>6 DEF UnbondingStaysSlashable, StakingInv, Pending
<1> QED BY <1>6, <1>9, <1>10, <1>11, <1>12, <1>13 DEF StakingInv

LEMMA UndelegateKeeps ==
    ASSUME StakingInv, NEW s \in Staker, NEW i \in Id, NEW d \in Amount, Undelegate(s, i, d)
    PROVE  StakingInv'
<1> DEFINE a == [vals[i] EXCEPT !.del = IF @ > d THEN @ - d ELSE 0]
           b == stakes[<<s, i>>] - d
           e == [staker |-> s, validator |-> i, amount |-> d, at |-> view + UnbondingPeriod]
           ts == stakes'
<1>1. /\ Typed /\ Backed /\ i \in Registered /\ vals[i] \in Account /\ stakes \in Table
      /\ stakes[<<s, i>>] \in Nat /\ d \in Nat /\ unbonding \in Seq(Entry) /\ view \in Nat
  BY Widths, SMTT(30) DEF Undelegate, StakingInv, Typed, Table
<1>2. /\ vals[i].del \in Nat /\ vals[i].self \in Nat /\ vals[i].del <= MaxPower
      /\ stakes[<<s, i>>] >= d /\ d > 0
  <2>1. vals[i].del \in 0..MaxPower /\ vals[i].self \in 0..MaxPower
    BY <1>1 DEF Account
  <2>2. stakes[<<s, i>>] >= d /\ d > 0
    BY DEF Undelegate
  <2> QED BY <2>1, <2>2, Widths
<1>3. vals[i].del >= d
  <2>1. stakes[<<s, i>>] <= Column(stakes, i) /\ Column(stakes, i) = vals[i].del
    BY <1>1, ColumnFacts DEF Backed
  <2> QED BY <1>1, <1>2, <2>1
<1>4. /\ a \in Account /\ a.key = vals[i].key /\ a.self = vals[i].self
      /\ a.del = vals[i].del - d
  <2> DEFINE m == IF vals[i].del > d THEN vals[i].del - d ELSE 0
  <2>1. m = vals[i].del - d /\ m \in 0..MaxPower
    BY <1>1, <1>2, <1>3, Widths, SMTT(30)
  <2>2. a = [vals[i] EXCEPT !.del = m]
    OBVIOUS
  <2> HIDE DEF a, m
  <2> QED BY <1>1, <2>1, <2>2 DEF Account
<1>5. e \in Entry /\ e.amount = d /\ e.validator = i
  <2>1. view + UnbondingPeriod \in Nat
    BY <1>1, Widths
  <2> QED BY <1>1, <2>1 DEF Entry
<1>6. /\ vals' = [vals EXCEPT ![i] = a] /\ tokens' = tokens
      /\ ts = [stakes EXCEPT ![<<s, i>>] = b]
      /\ unbonding' = Append(unbonding, e) /\ view' = view
  BY <1>1 DEF Undelegate, chainVars, Typed, Table
<1>7. b \in Nat
  BY <1>1, <1>2
<1> HIDE DEF a, ts, e
<1>8. /\ vals' \in [Id -> Account] /\ Tidy' /\ Registered \subseteq Registered'
      /\ vals'[i] = a /\ \A j \in Id \ {i} : vals'[j] = vals[j]
      /\ Own(vals') \in Nat /\ Own(vals) + a.self = Own(vals') + vals[i].self
  BY <1>1, <1>4, <1>6, AccountChanges
<1>9. /\ ts \in Table /\ Column(ts, i) \in Nat /\ Column(stakes, i) \in Nat
      /\ Column(stakes, i) + b = Column(ts, i) + stakes[<<s, i>>]
      /\ Staked(stakes) \in Nat /\ Staked(ts) \in Nat
      /\ Staked(stakes) + Column(ts, i) = Staked(ts) + Column(stakes, i)
      /\ \A j \in Id \ {i} : Column(ts, j) = Column(stakes, j)
  <2> HIDE DEF b
  <2>1. Replaces(ts, stakes, s, i, b)
    BY <1>6 DEF Replaces
  <2> QED BY <1>1, <1>7, <2>1, EntryChanges
<1>10. Column(ts, i) + d = Column(stakes, i) /\ Staked(ts) + d = Staked(stakes)
  <2>1. stakes[<<s, i>>] = b + d
    BY <1>1
  <2> HIDE DEF b
  <2>2. Column(ts, i) + d = Column(stakes, i)
    BY <1>1, <1>7, <1>9, <2>1, SMTT(30)
  <2>3. /\ Column(ts, i) \in Nat /\ Staked(stakes) \in Nat /\ Staked(ts) \in Nat /\ d \in Nat
        /\ Staked(stakes) + Column(ts, i) = Staked(ts) + Column(stakes, i)
    BY <1>1, <1>9
  <2>4. Staked(ts) + d = Staked(stakes)
    BY ONLY <2>2, <2>3
  <2> QED BY <2>2, <2>4
<1>11. Queued(unbonding') = d + Queued(unbonding)
  BY <1>1, <1>5, <1>6, QueueAppend
<1>12. Typed'
  BY <1>1, <1>5, <1>6, <1>8, <1>9 DEF Typed, ts
<1>13. \A n \in DOMAIN unbonding' : unbonding'[n] = e \/ \E m \in DOMAIN unbonding : unbonding'[n] = unbonding[m]
  BY <1>1, <1>5, <1>6
<1>14. Waiting'
  BY <1>2, <1>5, <1>13 DEF Waiting, StakingInv
<1>15. Conserved'
  <2>1. Own(vals') = Own(vals)
    BY <1>2, <1>4, <1>8, InvariantSums
  <2>2. tokens' = Own(vals') + Staked(ts) + Queued(unbonding')
    <3>1. /\ tokens' = tokens /\ tokens = Own(vals) + Staked(stakes) + Queued(unbonding)
          /\ Own(vals) \in Nat /\ Queued(unbonding) \in Nat
      BY <1>6, InvariantSums
    <3>2. Staked(ts) \in Nat /\ d \in Nat /\ Staked(ts) + d = Staked(stakes)
      BY <1>1, <1>9, <1>10
    <3> QED BY ONLY <1>11, <2>1, <3>1, <3>2
  <2> QED BY <1>6, <2>2, InvariantSums DEF Conserved, ts
<1>16. Backed'
  <2>1. vals'[i].del = Column(ts, i)
    <3>1. vals'[i].del = vals[i].del - d /\ vals[i].del = Column(stakes, i)
      BY <1>1, <1>4, <1>8 DEF Backed
    <3> QED BY <1>1, <1>9, <1>10, <3>1
  <2>2. \A j \in Id : vals'[j].del = Column(ts, j)
    BY <1>1, <1>8, <1>9, <2>1 DEF Backed
  <2> QED BY <2>2 DEF Backed, ts
<1>17. UnbondingStaysSlashable'
  <2>1. \A n \in DOMAIN unbonding' : unbonding'[n].validator \in Registered
    BY <1>1, <1>5, <1>13 DEF UnbondingStaysSlashable, StakingInv, Pending
  <2> QED BY <1>8, <2>1 DEF UnbondingStaysSlashable, Pending
<1> QED BY <1>8, <1>12, <1>14, <1>15, <1>16, <1>17 DEF StakingInv

LEMMA ProcessUnbondingKeeps ==
    ASSUME StakingInv, ProcessUnbonding
    PROVE  StakingInv'
<1> DEFINE q == unbonding
           mature == {n \in DOMAIN q : q[n].at <= view}
           keep == DOMAIN q \ mature
           r == Retain(q, keep)
           out == SumFunctionOnSet([n \in DOMAIN q |-> q[n].amount], mature)
<1>1. Typed /\ Tidy /\ Backed /\ Waiting /\ q \in Seq(Entry) /\ vals \in [Id -> Account]
  BY DEF StakingInv, Typed
<1>2. unbonding' = r /\ tokens' = tokens - out /\ vals' = Pruned(r) /\ stakes' = stakes /\ view' = view
  BY DEF ProcessUnbonding, chainVars
<1>3. keep \subseteq DOMAIN q /\ DOMAIN q \ keep = mature
  OBVIOUS
<1>4. r \in Seq(Entry) /\ Queued(q) = Queued(r) + out /\ out \in Nat
  <2> HIDE DEF keep
  <2>1. /\ r \in Seq(Entry)
        /\ Queued(q) = Queued(r) + SumFunctionOnSet([n \in DOMAIN q |-> q[n].amount], DOMAIN q \ keep)
        /\ SumFunctionOnSet([n \in DOMAIN q |-> q[n].amount], DOMAIN q \ keep) \in Nat
    BY <1>1, <1>3, QueueRetain
  <2> QED BY <1>3, <2>1
<1>5. \A n \in DOMAIN r : \E m \in DOMAIN q : r[n] = q[m]
  <2> HIDE DEF keep
  <2> QED BY <1>1, RetainElements
<1> HIDE DEF q, r, out
<1>6. \A j \in Id : \/ vals'[j] = vals[j]
                    \/ /\ vals'[j] = Gone /\ j \notin Pending(r)
                       /\ vals[j].self = 0 /\ vals[j].del = 0
  <2> SUFFICES ASSUME NEW j \in Id, vals'[j] # vals[j]
               PROVE  vals'[j] = Gone /\ j \notin Pending(r) /\ vals[j].self = 0 /\ vals[j].del = 0
    OBVIOUS
  <2>1. vals'[j] = Gone /\ j \notin Pending(r) /\ TotalStake(vals[j]) = 0
    BY <1>2 DEF Pruned
  <2> QED BY <1>1, <2>1, NoStake
<1>7. Gone \in Account /\ Gone.self = 0 /\ Gone.del = 0
  BY Widths DEF Gone, Account
<1>8. vals' \in [Id -> Account]
  <2>1. vals' = [j \in Id |-> vals'[j]]
    BY <1>2 DEF Pruned
  <2>2. \A j \in Id : vals'[j] \in Account
    BY <1>1, <1>6, <1>7
  <2> QED BY <2>1, <2>2
<1>9. \A j \in Id : vals'[j].self = vals[j].self /\ vals'[j].del = vals[j].del
  BY <1>6, <1>7
<1>10. Typed'
  BY <1>1, <1>2, <1>4, <1>8 DEF Typed
<1>11. Tidy'
  BY <1>1, <1>6 DEF Tidy
<1>12. Waiting'
  BY <1>1, <1>2, <1>5 DEF Waiting, q
<1>13. Conserved'
  <2> DEFINE x == vals'
  <2>1. \A j \in Id : vals[j].self = x[j].self
    BY <1>9
  <2> HIDE DEF x
  <2>2. Own(vals) = Own(x)
    BY <1>1, <2>1, OwnSame
  <2>3. Queued(r) \in Nat
    BY <1>4, QueueFacts
  <2>4. /\ Own(vals) \in Nat /\ Staked(stakes) \in Nat /\ Queued(q) \in Nat /\ tokens \in Nat
        /\ tokens <= MaxTokens /\ tokens = Own(vals) + Staked(stakes) + Queued(q)
    BY InvariantSums DEF q
  <2>5. /\ tokens - out = Own(x) + Staked(stakes) + Queued(r)
        /\ tokens - out <= MaxTokens
    <3>1. out \in Nat /\ Queued(q) = Queued(r) + out /\ MaxTokens \in Nat
      BY <1>4, Widths
    <3> QED BY ONLY <2>2, <2>3, <2>4, <3>1
  <2> QED BY <1>2, <2>5 DEF Conserved, x
<1>14. Backed'
  BY <1>1, <1>2, <1>9 DEF Backed
<1>15. UnbondingStaysSlashable'
  <2>1. Pending(r) \subseteq Pending(q)
    BY <1>5 DEF Pending
  <2>2. Pending(q) \subseteq Registered
    BY DEF StakingInv, UnbondingStaysSlashable, q
  <2> QED BY <1>2, <1>6, <2>1, <2>2 DEF UnbondingStaysSlashable, Registered
<1> QED BY <1>10, <1>11, <1>12, <1>13, <1>14, <1>15 DEF StakingInv

(* The stake entries after a slash of D from the delegations to i.         *)
SlashedStakes(i, D) ==
    [x \in DOMAIN stakes |->
        IF x[2] = i /\ D > 0 /\ StakeOf(i, Staker) > 0
        THEN stakes[x] - StakerSlash(i, x[1], D)
        ELSE stakes[x]]

LEMMA StakesSlash ==
    ASSUME stakes \in Table, NEW i \in Id, NEW D \in Nat, D <= StakeOf(i, Staker)
    PROVE  /\ SlashedStakes(i, D) \in Table
           /\ Column(SlashedStakes(i, D), i) \in Nat
           /\ Column(stakes, i) = Column(SlashedStakes(i, D), i) + D
           /\ \A s \in Staker : \A j \in Id \ {i} :
                  stakes[<<s, j>>] = SlashedStakes(i, D)[<<s, j>>]
<1> DEFINE ts == SlashedStakes(i, D)
<1>1. DOMAIN stakes = Staker \X Id /\ \A s \in Staker, j \in Id : stakes[<<s, j>>] \in Nat
  BY DEF Table
<1>2. \A s \in Staker : \A j \in Id \ {i} : ts[<<s, j>>] = stakes[<<s, j>>]
  BY <1>1 DEF SlashedStakes
<1>3. Column(stakes, i) = StakeOf(i, Staker) /\ Column(stakes, i) \in Nat
  <2>1. Column(stakes, i) \in Nat
    BY ColumnFacts
  <2> QED BY <2>1 DEF Column, StakeOf
<1>4. CASE D > 0 /\ StakeOf(i, Staker) > 0
  <2>1. /\ \A s \in Staker : StakerSlash(i, s, D) \in 0..stakes[<<s, i>>]
        /\ IsNumbering(Cuts(i, D), Staker) /\ SumFunctionOnSet(Cuts(i, D), Staker) = D
    BY <1>4, StakerCuts
  <2>2. \A s \in Staker : ts[<<s, i>>] = stakes[<<s, i>>] - StakerSlash(i, s, D)
    BY <1>1, <1>4 DEF SlashedStakes
  <2>3. \A s \in Staker : /\ ts[<<s, i>>] \in Nat
                          /\ stakes[<<s, i>>] = ts[<<s, i>>] + StakerSlash(i, s, D)
    BY <1>1, <2>1, <2>2
  <2>4. ts \in Table
    <3>1. \A s \in Staker, j \in Id : ts[<<s, j>>] \in Nat
      BY <1>1, <1>2, <2>3
    <3>2. ts = [x \in Staker \X Id |-> ts[x]]
      BY <1>1 DEF SlashedStakes
    <3> HIDE DEF ts
    <3>3. \A x \in Staker \X Id : ts[x] \in Nat
      BY <3>1
    <3> QED BY <3>2, <3>3 DEF Table
  <2> HIDE DEF ts
  <2>5. Column(stakes, i) = Column(ts, i) + D /\ Column(ts, i) \in Nat
    <3> DEFINE f == [s \in Staker |-> stakes[<<s, i>>]]
               g == [s \in Staker |-> ts[<<s, i>>]]
               h == Cuts(i, D)
    <3>1. IsNumbering(g, Staker) /\ Column(ts, i) \in Nat
      BY <2>4, ColumnFacts
    <3>2. IsPlus(f, g, h, Staker)
      BY <2>3 DEF IsPlus, Cuts
    <3>3. IsNumbering(h, Staker) /\ SumFunctionOnSet(h, Staker) = D
      BY <2>1
    <3>4. SumFunctionOnSet(f, Staker) = SumFunctionOnSet(g, Staker) + SumFunctionOnSet(h, Staker)
      <4> HIDE DEF f, g, h
      <4> QED BY <3>1, <3>2, <3>3, SumPlus
    <3>5. Column(stakes, i) = SumFunctionOnSet(f, Staker) /\ Column(ts, i) = SumFunctionOnSet(g, Staker)
      BY DEF Column
    <3> HIDE DEF f, g, h
    <3> QED BY <3>1, <3>3, <3>4, <3>5
  <2> QED BY <1>2, <2>4, <2>5 DEF ts
<1>5. CASE ~(D > 0 /\ StakeOf(i, Staker) > 0)
  <2>1. D = 0
    BY <1>3, <1>5
  <2>2. ts = stakes
    BY <1>1, <1>5 DEF SlashedStakes, Table
  <2> HIDE DEF ts
  <2> QED BY <1>2, <1>3, <2>1, <2>2 DEF ts
<1> QED BY <1>4, <1>5

LEMMA SlashKeeps ==
    ASSUME StakingInv, NEW i \in Id, NEW ev \in Evidence, NEW r \in Reason, Slash(i, ev, r)
    PROVE  StakingInv'
<1> DEFINE rate == SlashRate[r]
           own == Share(vals[i].self, rate)
           del == Share(vals[i].del, rate)
           q == unbonding
           lost == SumFunctionOnSet(Cut(q, i, rate), DOMAIN q)
           t == view + JailDuration
           a == [vals[i] EXCEPT !.self = @ - own, !.del = @ - del, !.jailed = TRUE,
                                !.until = IF @ > t THEN @ ELSE t, !.slashes = @ \cup {ev}]
           ts == SlashedStakes(i, del)
           cut == Slashed(q, i, rate)
<1>1. /\ Typed /\ Backed /\ i \in Registered /\ vals[i] \in Account /\ stakes \in Table
      /\ q \in Seq(Entry) /\ view \in Nat
  BY DEF Slash, StakingInv, Typed
<1>2. rate \in Rates
  BY StakingAssumption
<1>3. /\ vals' = [vals EXCEPT ![i] = a] /\ stakes' = ts /\ unbonding' = NonZero(cut)
      /\ tokens' = tokens - own - del - lost /\ view' = view
  <2>1. DOMAIN Cut(q, i, rate) = DOMAIN q
    BY DEF Cut
  <2>2. view' = view
    BY DEF Slash, chainVars
  <2>3. vals' = [vals EXCEPT ![i] = a]
    BY DEF Slash
  <2>4. stakes' = ts
    BY DEF Slash, SlashedStakes
  <2>5. unbonding' = NonZero(cut)
    BY DEF Slash, Slashed
  <2>6. tokens' = tokens - own - del - SumFunctionOnSet(Cut(q, i, rate), DOMAIN Cut(q, i, rate))
    BY DEF Slash, Cut
  <2> QED BY <2>1, <2>2, <2>3, <2>4, <2>5, <2>6
<1>4. /\ vals[i].self \in Nat /\ vals[i].del \in Nat
      /\ vals[i].self <= MaxPower /\ vals[i].del <= MaxPower
  BY <1>1, Widths DEF Account
<1>5. own \in Nat /\ own <= vals[i].self /\ del \in Nat /\ del <= vals[i].del
  <2> HIDE DEF rate
  <2> QED BY <1>2, <1>4, ShareFacts
<1> HIDE DEF rate, own, del, cut, q, lost, ts
<1>6. /\ a \in Account /\ a.key = vals[i].key /\ a.self = vals[i].self - own
      /\ a.del = vals[i].del - del
  <2> DEFINE x == vals[i].self - own
             y == vals[i].del - del
             u == IF vals[i].until > t THEN vals[i].until ELSE t
  <2>1. x \in 0..MaxPower /\ y \in 0..MaxPower
    BY <1>4, <1>5, Widths, SMTT(30)
  <2>2. u \in Nat
    BY <1>1, Widths DEF Account
  <2>3. a = [vals[i] EXCEPT !.self = x, !.del = y, !.jailed = TRUE, !.until = u,
                            !.slashes = @ \cup {ev}]
    OBVIOUS
  <2>4. vals[i].slashes \cup {ev} \in SUBSET Evidence
    BY <1>1 DEF Account
  <2> HIDE DEF a, u, x, y
  <2>5. a \in Account /\ a.key = vals[i].key /\ a.self = x /\ a.del = y
    BY <1>1, <2>1, <2>2, <2>3, <2>4 DEF Account
  <2> QED BY <2>5 DEF x, y
<1> HIDE DEF a, t
<1>7. /\ vals' \in [Id -> Account] /\ Tidy' /\ Registered \subseteq Registered'
      /\ vals'[i] = a /\ \A j \in Id \ {i} : vals'[j] = vals[j]
      /\ Own(vals') \in Nat /\ Own(vals) + a.self = Own(vals') + vals[i].self
  BY <1>1, <1>3, <1>6, AccountChanges
<1>8. /\ ts \in Table /\ Column(ts, i) \in Nat /\ Column(stakes, i) = Column(ts, i) + del
      /\ \A s \in Staker : \A j \in Id \ {i} : stakes[<<s, j>>] = ts[<<s, j>>]
  <2>1. vals[i].del = StakeOf(i, Staker)
    BY <1>1 DEF Backed, Column, StakeOf
  <2> QED BY <1>1, <1>5, <2>1, StakesSlash DEF ts
<1>9. /\ Staked(stakes) \in Nat /\ Staked(ts) \in Nat
      /\ Staked(stakes) + Column(ts, i) = Staked(ts) + Column(stakes, i)
  BY <1>1, <1>8, StakedUpdate
<1>10. \A j \in Id \ {i} : Column(ts, j) = Column(stakes, j)
  BY <1>1, <1>8, ColumnSame
<1>11. /\ cut \in Seq(Entry) /\ Pending(cut) \subseteq Pending(q)
       /\ lost \in Nat /\ Queued(q) = Queued(cut) + lost
  BY <1>1, <1>2, QueueSlash DEF lost, cut
<1>12. /\ NonZero(cut) \in Seq(Entry) /\ Queued(NonZero(cut)) = Queued(cut)
       /\ \A n \in DOMAIN NonZero(cut) : NonZero(cut)[n].amount > 0
       /\ Pending(NonZero(cut)) \subseteq Pending(cut)
  BY <1>11, QueueNonZero
<1>13. Typed'
  BY <1>1, <1>3, <1>7, <1>8, <1>12 DEF Typed
<1>14. Waiting'
  BY <1>3, <1>12 DEF Waiting
<1>15. Conserved'
  <2>1. /\ Own(vals) \in Nat /\ Queued(q) \in Nat /\ tokens \in Nat
        /\ tokens <= MaxTokens /\ tokens = Own(vals) + Staked(stakes) + Queued(q)
    BY InvariantSums DEF q
  <2>2. Queued(cut) \in Nat
    BY <1>11, QueueFacts
  <2>3. Own(vals) = Own(vals') + own
    BY <1>4, <1>5, <1>6, <1>7, <2>1
  <2>4. Staked(stakes) = Staked(ts) + del
    <3>1. Column(ts, i) \in Nat /\ Column(stakes, i) = Column(ts, i) + del /\ del \in Nat
      BY <1>5, <1>8
    <3> QED BY ONLY <1>9, <3>1
  <2>5. /\ Own(vals') \in Nat /\ own \in Nat /\ Staked(ts) \in Nat /\ del \in Nat /\ lost \in Nat
        /\ Queued(q) = Queued(cut) + lost /\ MaxTokens \in Nat
    BY <1>5, <1>7, <1>9, <1>11, Widths
  <2>6. tokens - own - del - lost = Own(vals') + Staked(ts) + Queued(cut)
    BY ONLY <2>1, <2>2, <2>3, <2>4, <2>5
  <2>7. tokens - own - del - lost <= MaxTokens
    BY ONLY <2>1, <2>5
  <2>8. tokens' = Own(vals') + Staked(stakes') + Queued(unbonding') /\ tokens' <= MaxTokens
    BY <1>3, <1>12, <2>6, <2>7
  <2> QED BY <2>8 DEF Conserved
<1>16. Backed'
  <2>1. vals'[i].del = Column(ts, i)
    <3>1. vals'[i].del = vals[i].del - del /\ vals[i].del = Column(stakes, i)
      BY <1>1, <1>6, <1>7 DEF Backed
    <3>2. Column(ts, i) \in Nat /\ Column(stakes, i) = Column(ts, i) + del /\ del \in Nat
      BY <1>5, <1>8
    <3> QED BY <3>1, <3>2
  <2>2. \A j \in Id : vals'[j].del = Column(ts, j)
    BY <1>1, <1>7, <1>10, <2>1 DEF Backed
  <2> QED BY <1>3, <2>2 DEF Backed
<1>17. UnbondingStaysSlashable'
  <2>1. Pending(q) \subseteq Registered
    BY DEF StakingInv, UnbondingStaysSlashable, q
  <2> QED BY <1>3, <1>7, <1>11, <1>12, <2>1 DEF UnbondingStaysSlashable
<1> QED BY <1>7, <1>13, <1>14, <1>15, <1>16, <1>17 DEF StakingInv

LEMMA EndBlockKeeps ==
    ASSUME StakingInv, NEW v \in (view + 1)..(view + 2), EndBlock(v)
    PROVE  StakingInv'
<1>1. view \in Nat
  BY DEF StakingInv, Typed
<1>2. view' \in Nat
  BY <1>1 DEF EndBlock
<1>3. vals' = vals /\ stakes' = stakes /\ unbonding' = unbonding /\ tokens' = tokens
  BY DEF EndBlock
<1> QED BY <1>2, <1>3 DEF StakingInv, Typed, Tidy, Waiting, Conserved, Backed,
                          UnbondingStaysSlashable, Registered

-----------------------------------------------------------------------------
(* At genesis the tokens are the self-stakes.                              *)

LEMMA GenesisOwn ==
    ASSUME Init
    PROVE  /\ vals \in [Id -> Account] /\ Tidy
           /\ \A i \in Id : vals[i].del = 0
           /\ Own(vals) = SumFunctionOnSet(Genesis, DOMAIN Genesis)
<1> DEFINE G == DOMAIN Genesis
           f == [i \in Id |-> vals[i].self]
<1>1. /\ G \in SUBSET Id
      /\ \A i \in G : i \in Key /\ i # 0 /\ Genesis[i] \in 0..MaxPower /\ Genesis[i] \in Nat
  <2>1. \A i \in G : i \in Id /\ i \in Key /\ Genesis[i] \in MinSelfStake..MaxPower /\ MinSelfStake \in Nat
    BY StakingAssumption, SMTT(30)
  <2> QED BY <2>1, Widths
<1>2. Gone \in Account /\ Gone.del = 0 /\ Gone.self = 0
  BY Widths DEF Gone, Account
<1>3. \A i \in G : /\ Fresh(i, Genesis[i]) \in Account /\ Fresh(i, Genesis[i]).key = i
                   /\ Fresh(i, Genesis[i]).self = Genesis[i] /\ Fresh(i, Genesis[i]).del = 0
  BY <1>1, <1>2 DEF Fresh, Account
<1>4. \A i \in Id : vals[i] = IF i \in G THEN Fresh(i, Genesis[i]) ELSE Gone
  BY DEF Init
<1>5. vals \in [Id -> Account]
  <2>1. \A i \in Id : vals[i] \in Account
    BY <1>2, <1>3, <1>4
  <2>2. vals = [i \in Id |-> vals[i]]
    BY DEF Init
  <2> QED BY <2>1, <2>2
<1>6. Tidy
  BY <1>1, <1>3, <1>4 DEF Tidy
<1>7. \A i \in Id : vals[i].del = 0
  BY <1>2, <1>3, <1>4
<1>8. (\A i \in G : f[i] = Genesis[i]) /\ \A i \in Id \ G : f[i] = 0
  BY <1>1, <1>2, <1>3, <1>4
<1>9. IsNumbering(f, Id)
  <2>1. \A i \in Id : f[i] \in Nat
    <3> HIDE DEF f
    <3> QED BY <1>1, <1>8
  <2>2. IsFiniteSet(Id)
    BY Widths
  <2> HIDE DEF f
  <2> QED BY <2>1, <2>2 DEF IsNumbering
<1>10. IsFiniteSet(Id \ G)
  BY Widths, FS_Subset
<1> HIDE DEF f, G
<1>11. /\ IsNumbering(f, G)
       /\ SumFunctionOnSet(f, Id) = SumFunctionOnSet(f, G) + SumFunctionOnSet(f, Id \ G)
  <2>1. G \in SUBSET Id
    BY <1>1
  <2> QED BY <1>9, <2>1, SumMonotone
<1>12. SumFunctionOnSet(f, Id \ G) = 0
  BY <1>8, <1>10, SumZero
<1>13. SumFunctionOnSet(f, G) = SumFunctionOnSet(Genesis, G)
  BY <1>8, <1>11, SumSame
<1>14. SumFunctionOnSet(f, G) \in Nat
  BY <1>11, SumNat
<1>15. Own(vals) = SumFunctionOnSet(Genesis, G)
  BY <1>11, <1>12, <1>13, <1>14 DEF Own, f
<1> QED BY <1>5, <1>6, <1>7, <1>15 DEF G

LEMMA InitInv == Init => StakingInv
<1> SUFFICES ASSUME Init PROVE StakingInv
  OBVIOUS
<1>1. /\ vals \in [Id -> Account] /\ Tidy /\ \A i \in Id : vals[i].del = 0
      /\ Own(vals) = SumFunctionOnSet(Genesis, DOMAIN Genesis)
  BY GenesisOwn
<1>2. stakes \in Table /\ \A x \in Staker \X Id : stakes[x] = 0
  BY DEF Init, Table
<1>3. unbonding = <<>> /\ unbonding \in Seq(Entry) /\ DOMAIN unbonding = {}
  BY DEF Init
<1>4. Typed
  BY <1>1, <1>2, <1>3 DEF Typed, Init
<1>5. Waiting
  BY <1>3 DEF Waiting
<1>6. Staked(stakes) = 0
  <2>1. DOMAIN stakes = Staker \X Id
    BY <1>2 DEF Table
  <2>2. IsFiniteSet(Staker \X Id)
    BY Widths, FS_Product
  <2> QED BY <1>2, <2>1, <2>2, SumZero DEF Staked
<1>7. ASSUME NEW i \in Id PROVE Column(stakes, i) = 0
  <2> DEFINE f == [s \in Staker |-> stakes[<<s, i>>]]
  <2>1. (\A s \in Staker : f[s] = 0) /\ IsFiniteSet(Staker)
    BY <1>2, Widths
  <2>2. Column(stakes, i) = SumFunctionOnSet(f, Staker)
    BY DEF Column
  <2> HIDE DEF f
  <2> QED BY <2>1, <2>2, SumZero
<1>8. Backed
  BY <1>1, <1>7 DEF Backed
<1>9. Queued(unbonding) = 0
  BY <1>3, QueueFacts, EmptyWeighed
<1>10. Conserved
  <2>1. /\ tokens = SumFunctionOnSet(Genesis, DOMAIN Genesis)
        /\ SumFunctionOnSet(Genesis, DOMAIN Genesis) <= MaxTokens
    BY StakingAssumption, SMTT(30) DEF Init
  <2>2. Own(vals) \in Nat
    BY <1>1, OwnSame
  <2> QED BY <1>1, <1>6, <1>9, <2>1, <2>2 DEF Conserved
<1>11. UnbondingStaysSlashable
  BY <1>3 DEF UnbondingStaysSlashable, Pending
<1> QED BY <1>1, <1>4, <1>5, <1>8, <1>10, <1>11 DEF StakingInv

LEMMA NextKeeps == StakingInv /\ [Next]_vars => StakingInv'
<1> SUFFICES ASSUME StakingInv, [Next]_vars PROVE StakingInv'
  OBVIOUS
<1>1. ASSUME NEW i \in Id, NEW k \in Key, NEW a \in Amount, Register(i, k, a) PROVE StakingInv'
  BY <1>1, RegisterKeeps
<1>2. ASSUME NEW i \in Id, Unregister(i) PROVE StakingInv'
  BY <1>2, UnregisterKeeps
<1>3. ASSUME NEW i \in Id, Unjail(i) PROVE StakingInv'
  BY <1>3, UnjailKeeps
<1>4. ASSUME NEW i \in Id, RewardProposer(i) PROVE StakingInv'
  BY <1>4, RewardKeeps
<1>5. ASSUME NEW s \in Staker, NEW i \in Id, NEW a \in Amount, Delegate(s, i, a) PROVE StakingInv'
  BY <1>5, DelegateKeeps
<1>6. ASSUME NEW s \in Staker, NEW i \in Id, NEW a \in Amount, Undelegate(s, i, a) PROVE StakingInv'
  BY <1>6, UndelegateKeeps
<1>7. ASSUME ProcessUnbonding PROVE StakingInv'
  BY <1>7, ProcessUnbondingKeeps
<1>8. ASSUME NEW i \in Id, NEW ev \in Evidence, NEW r \in Reason, Slash(i, ev, r) PROVE StakingInv'
  BY <1>8, SlashKeeps
<1>9. ASSUME NEW v \in (view + 1)..(view + 2), EndBlock(v) PROVE StakingInv'
  BY <1>9, EndBlockKeeps
<1>10. ASSUME UNCHANGED vars PROVE StakingInv'
  BY <1>10 DEF vars, StakingInv, Typed, Tidy, Waiting, Conserved, Backed,
               UnbondingStaysSlashable, Registered
<1> QED BY <1>1, <1>2, <1>3, <1>4, <1>5, <1>6, <1>7, <1>8, <1>9, <1>10 DEF Next

LEMMA StakingInvariant == Spec => []StakingInv
BY InitInv, NextKeeps, PTL DEF Spec

-----------------------------------------------------------------------------
(***************************************************************************)
(* Amounts fit their width whatever is registered, delegated, slashed and  *)
(* rewarded, and slash_with_evidence leaves no empty unbonding entry.      *)
(***************************************************************************)
THEOREM StakingTypeCorrect == Spec => []TypeOK
BY StakingInvariant, InvariantImplies, PTL

(***************************************************************************)
(* No operation of the staking manager loses or makes a token: what was    *)
(* deposited and rewarded, less what process_unbonding released and        *)
(* slash_with_evidence reported, is what the store holds, for every slash  *)
(* rate and every number of stakers.                                       *)
(***************************************************************************)
THEOREM TokensAreConserved == Spec => []StakeIsConserved
BY StakingInvariant, InvariantImplies, PTL

(***************************************************************************)
(* delegated_stake of a validator is the sum of its stake entries: the     *)
(* parts into which slash_with_evidence rounds a delegated slash add up to *)
(* it, and none is larger than the entry it is taken from.                 *)
(***************************************************************************)
THEOREM PowerIsBacked == Spec => []DelegationsAddUp
BY StakingInvariant, InvariantImplies, PTL

(***************************************************************************)
(* A validator with pending unbondings is never removed from the store by  *)
(* unregister_validator or by process_unbonding, so that evidence which    *)
(* arrives within the unbonding period finds it.                           *)
(***************************************************************************)
THEOREM UnbondingCanBeSlashed == Spec => []UnbondingStaysSlashable
BY StakingInvariant, InvariantImplies, PTL

-----------------------------------------------------------------------------
(* The formal list.                                                        *)

Listing == [id : Id, key : Key \cup {0}, power : Nat]

(* An id has one entry's key and power, wherever it occurs.                *)
OneOfEach(vs) == \A v, w \in Range(vs) : v.id = w.id => v = w

Listed(vs) == vs \in Seq(Listing) /\ OneOfEach(vs)

LEMMA ListingFields ==
    ASSUME NEW v \in Listing
    PROVE  /\ v.id \in Id /\ v.key \in Key \cup {0} /\ v.power \in Nat
           /\ v = [id |-> v.id, key |-> v.key, power |-> v.power]
BY DEF Listing

LEMMA RangeType ==
    ASSUME NEW E, NEW s \in Seq(E)
    PROVE  Range(s) \subseteq E /\ Range(s) = {s[n] : n \in 1..Len(s)} /\ DOMAIN s = 1..Len(s)
BY DEF Range

LEMMA PowerNat ==
    ASSUME Typed
    PROVE  /\ \A i \in Id : VotingPower(vals[i]) \in Nat /\ vals[i].key \in Key \cup {0}
           /\ \A i \in Eligible : i \in Id /\ i \in Nat
           /\ MinSelfStake > 0 => \A i \in Eligible : VotingPower(vals[i]) > 0
           /\ IsFiniteSet(Eligible)
<1>1. \A i \in Id : vals[i] \in Account
  BY DEF Typed
<1>2. \A a \in Account : a.self \in Nat /\ a.del \in Nat /\ a.key \in Key \cup {0}
  BY Widths DEF Account
<1>3. MaxPower \in Nat /\ MaxPower > 0 /\ MinSelfStake \in Nat
  BY Widths
<1>4. ASSUME NEW a \in Account
      PROVE  /\ VotingPower(a) \in Nat
             /\ ~a.jailed /\ ~a.tomb /\ a.self > 0 => VotingPower(a) > 0
  <2>1. a.self \in Nat /\ a.del \in Nat
    BY <1>2
  <2>2. TotalStake(a) \in Nat /\ (a.self > 0 => TotalStake(a) > 0)
    BY <1>3, <2>1 DEF TotalStake, Capped
  <2> QED BY <2>2 DEF VotingPower
<1>5. Eligible \subseteq Id /\ Id \subseteq Nat
  BY StakingAssumption DEF Eligible, Registered
<1>6. ASSUME MinSelfStake > 0, NEW i \in Eligible PROVE VotingPower(vals[i]) > 0
  <2>1. i \in Id /\ ~vals[i].jailed /\ ~vals[i].tomb /\ vals[i].self >= MinSelfStake
    BY DEF Eligible, Registered
  <2>2. vals[i].self \in Nat
    BY <1>1, <1>2, <2>1
  <2> QED BY <1>1, <1>3, <1>4, <1>6, <2>1, <2>2
<1>7. IsFiniteSet(Eligible)
  BY <1>5, Widths, FS_Subset
<1> QED BY <1>1, <1>2, <1>4, <1>5, <1>6, <1>7

LEMMA BeforeOrders ==
    ASSUME Typed
    PROVE  /\ \A i \in Eligible : ~Before(i, i)
           /\ \A i, j \in Eligible : i # j => Before(i, j) \/ Before(j, i)
           /\ \A i, j, k \in Eligible : Before(i, j) /\ Before(j, k) => Before(i, k)
<1>1. \A i \in Eligible : VotingPower(vals[i]) \in Nat /\ i \in Nat
  BY PowerNat
<1> QED BY <1>1 DEF Before

Ahead(i) == {j \in Eligible : Before(j, i)}

LEMMA RankOrder ==
    ASSUME Typed, NEW i \in Eligible, NEW j \in Eligible, Before(i, j)
    PROVE  Rank(i) \in Nat /\ Rank(j) \in Nat /\ Rank(i) < Rank(j)
<1>1. IsFiniteSet(Ahead(i)) /\ IsFiniteSet(Ahead(j))
  BY PowerNat, FS_Subset DEF Ahead
<1>2. Ahead(i) \subseteq Ahead(j) /\ i \in Ahead(j) /\ i \notin Ahead(i)
  BY BeforeOrders DEF Ahead
<1>3. /\ Cardinality(Ahead(i)) <= Cardinality(Ahead(j))
      /\ Cardinality(Ahead(i)) # Cardinality(Ahead(j))
  BY <1>1, <1>2, FS_Subset
<1>4. Cardinality(Ahead(i)) \in Nat /\ Cardinality(Ahead(j)) \in Nat
  BY <1>1, FS_CardinalityType
<1>5. Rank(i) = Cardinality(Ahead(i)) + 1 /\ Rank(j) = Cardinality(Ahead(j)) + 1
  BY DEF Rank, Ahead
<1> QED BY <1>3, <1>4, <1>5

LEMMA RankRange ==
    ASSUME Typed, NEW i \in Eligible
    PROVE  Rank(i) \in 1..Cardinality(Eligible)
<1>1. IsFiniteSet(Eligible) /\ Ahead(i) \subseteq Eligible /\ Ahead(i) # Eligible
  BY PowerNat, BeforeOrders DEF Ahead
<1>2. /\ IsFiniteSet(Ahead(i)) /\ Cardinality(Ahead(i)) <= Cardinality(Eligible)
      /\ Cardinality(Ahead(i)) # Cardinality(Eligible)
  BY <1>1, FS_Subset
<1>3. Cardinality(Ahead(i)) \in Nat /\ Cardinality(Eligible) \in Nat
  BY <1>1, <1>2, FS_CardinalityType
<1>4. Rank(i) = Cardinality(Ahead(i)) + 1
  BY DEF Rank, Ahead
<1> QED BY <1>2, <1>3, <1>4

(* Every rank is that of exactly one candidate.                            *)
LEMMA RankOnto ==
    ASSUME Typed, NEW n \in 1..Cardinality(Eligible)
    PROVE  \E i \in Eligible : Rank(i) = n
<1> DEFINE S == Eligible
           N == Cardinality(S)
           g == [i \in S |-> Rank(i)]
<1>1. IsFiniteSet(S) /\ N \in Nat
  BY PowerNat, FS_CardinalityType
<1>2. \A i \in S : Rank(i) \in 1..N
  BY RankRange
<1>3. \A i, j \in S : Rank(i) = Rank(j) => i = j
  <2> SUFFICES ASSUME NEW i \in S, NEW j \in S, i # j PROVE Rank(i) # Rank(j)
    OBVIOUS
  <2>1. Before(i, j) \/ Before(j, i)
    BY BeforeOrders
  <2>2. Rank(i) \in Nat /\ Rank(j) \in Nat /\ (Rank(i) < Rank(j) \/ Rank(j) < Rank(i))
    BY <2>1, RankOrder
  <2> QED BY <2>2
<1>4. g \in Injection(S, 1..N)
  BY <1>2, <1>3 DEF Injection, IsInjective
<1>5. Cardinality(1..N) = N /\ IsFiniteSet(1..N)
  <2>1. IsFiniteSet(1..N) /\ Cardinality(1..N) = IF 1 > N THEN 0 ELSE N - 1 + 1
    BY <1>1, FS_Interval, SMTT(30)
  <2> HIDE DEF N
  <2> QED BY <1>1, <2>1
<1>6. g \in Surjection(S, 1..N)
  <2> HIDE DEF g, N
  <2>1. N = Cardinality(S)
    BY DEF N
  <2> QED BY <1>4, <1>5, <2>1, FS_Injection
<1> QED BY <1>6 DEF Surjection

LEMMA FormalList ==
    ASSUME Typed
    PROVE  /\ Listed(FormalValidatorList)
           /\ Cardinality(Ids(FormalValidatorList)) = Len(FormalValidatorList)
           /\ MinSelfStake > 0 => \A v \in Range(FormalValidatorList) : v.power > 0
<1> DEFINE N == Cardinality(Eligible)
           M == Min({N, MaxValidators})
           at(n) == CHOOSE i \in Eligible : Rank(i) = n
           f == FormalValidatorList
<1>1. N \in Nat /\ MaxValidators \in Nat
  BY PowerNat, FS_CardinalityType, StakingAssumption
<1>2. M \in Nat /\ M <= N
  <2> HIDE DEF N
  <2>1. \E x \in {N, MaxValidators} : \A y \in {N, MaxValidators} : x <= y
    BY <1>1
  <2>2. M \in {N, MaxValidators} /\ \A y \in {N, MaxValidators} : M <= y
    BY <2>1 DEF Min
  <2> QED BY <1>1, <2>2
<1>3. f = [n \in 1..M |-> [id |-> at(n), key |-> vals[at(n)].key, power |-> VotingPower(vals[at(n)])]]
  BY DEF FormalValidatorList
<1> HIDE DEF f, M
<1>4. \A n \in 1..M : at(n) \in Eligible /\ Rank(at(n)) = n
  <2> SUFFICES ASSUME NEW n \in 1..M PROVE at(n) \in Eligible /\ Rank(at(n)) = n
    OBVIOUS
  <2>1. \E i \in Eligible : Rank(i) = n
    <3>1. n \in 1..Cardinality(Eligible)
      BY <1>1, <1>2
    <3> QED BY <3>1, RankOnto
  <2> QED BY <2>1
<1>5. \A n \in 1..M : at(n) \in Id /\ vals[at(n)].key \in Key \cup {0} /\ VotingPower(vals[at(n)]) \in Nat
  BY <1>4, PowerNat
<1>6. \A n, m \in 1..M : at(n) = at(m) => n = m
  BY <1>4
<1>7. MinSelfStake > 0 => \A n \in 1..M : VotingPower(vals[at(n)]) > 0
  BY <1>4, PowerNat
<1> HIDE DEF at
<1>8. /\ DOMAIN f = 1..M
      /\ \A n \in 1..M : /\ f[n] \in Listing /\ f[n].id = at(n)
                         /\ f[n].power = VotingPower(vals[at(n)])
  BY <1>3, <1>5 DEF Listing
<1>9. f \in [1..M -> Listing]
  BY <1>3, <1>5 DEF Listing
<1>10. f \in Seq(Listing) /\ Len(f) = M
  BY <1>2, <1>9
<1>11. Range(f) = {f[n] : n \in 1..M} /\ Ids(f) = {f[n].id : n \in 1..M}
  BY <1>8 DEF Range, Ids
<1>12. OneOfEach(f)
  BY <1>6, <1>8, <1>11 DEF OneOfEach
<1>13. MinSelfStake > 0 => \A v \in Range(f) : v.power > 0
  BY <1>7, <1>8, <1>11
<1>14. Cardinality(Ids(f)) = M
  <2> DEFINE g == [n \in 1..M |-> f[n].id]
  <2>1. g \in Bijection(1..M, Ids(f))
    BY <1>6, <1>8, <1>11 DEF Bijection, Injection, Surjection, IsInjective
  <2>2. IsFiniteSet(1..M) /\ Cardinality(1..M) = M
    <3>1. IsFiniteSet(1..M) /\ Cardinality(1..M) = IF 1 > M THEN 0 ELSE M - 1 + 1
      BY <1>2, FS_Interval, SMTT(30)
    <3> QED BY <1>2, <3>1
  <2> HIDE DEF g
  <2>3. ExistsBijection(1..M, Ids(f))
    BY <2>1 DEF ExistsBijection
  <2> QED BY <2>2, <2>3, FS_Bijection
<1> QED BY <1>10, <1>12, <1>13, <1>14 DEF Listed, f

-----------------------------------------------------------------------------
(* Updates.                                                                *)

LEMMA RetainRange ==
    ASSUME NEW E, NEW s \in Seq(E), NEW keep
    PROVE  /\ Retain(s, keep) \in Seq(E)
           /\ Range(Retain(s, keep)) = {s[n] : n \in keep \cap DOMAIN s}
<1> DEFINE t == Retain(s, keep)
<1>1. t \in Seq(E) /\ \A k \in DOMAIN t : \E n \in keep \cap DOMAIN s : t[k] = s[n]
  BY RetainElements
<1>2. \A n \in keep \cap DOMAIN s : \E k \in DOMAIN t : t[k] = s[n]
  BY RetainKeeps
<1> HIDE DEF t
<1>3. Range(t) = {s[n] : n \in keep \cap DOMAIN s}
  BY <1>1, <1>2 DEF Range
<1> QED BY <1>1, <1>3 DEF t

(* What one update makes of the entries of a set.                          *)
Updated(S, u) == {v \in S : v.id # u.id} \cup (IF u.power = 0 THEN {} ELSE {u})

LEMMA ApplyUpdateRange ==
    ASSUME NEW vs \in Seq(Listing), NEW u \in Listing
    PROVE  /\ ApplyUpdate(vs, u) \in Seq(Listing)
           /\ Range(ApplyUpdate(vs, u)) = Updated(Range(vs), u)
<1>0. DOMAIN vs = 1..Len(vs) /\ Len(vs) \in Nat /\ Range(vs) = {vs[i] : i \in 1..Len(vs)}
      /\ \A i \in 1..Len(vs) : vs[i] \in Listing
  BY DEF Range
<1>1. CASE u.power = 0
  <2> DEFINE keep == {i \in DOMAIN vs : vs[i].id # u.id}
  <2>1. ApplyUpdate(vs, u) = Retain(vs, keep)
    BY <1>1 DEF ApplyUpdate
  <2>2. Retain(vs, keep) \in Seq(Listing) /\ Range(Retain(vs, keep)) = {vs[i] : i \in keep \cap DOMAIN vs}
    <3> HIDE DEF keep
    <3> QED BY RetainRange
  <2>3. {vs[i] : i \in keep \cap DOMAIN vs} = {v \in Range(vs) : v.id # u.id}
    BY <1>0
  <2> HIDE DEF keep
  <2> QED BY <1>1, <2>1, <2>2, <2>3 DEF Updated
<1>2. CASE u.power # 0 /\ u.id \in Ids(vs)
  <2> DEFINE t == [i \in DOMAIN vs |-> IF vs[i].id = u.id THEN u ELSE vs[i]]
  <2>1. ApplyUpdate(vs, u) = t
    BY <1>2 DEF ApplyUpdate
  <2>2. t \in [1..Len(vs) -> Listing]
    BY <1>0
  <2>3. t \in Seq(Listing)
    <3> HIDE DEF t
    <3> QED BY <1>0, <2>2
  <2>4. DOMAIN t = 1..Len(vs) /\ \A i \in 1..Len(vs) : t[i] = IF vs[i].id = u.id THEN u ELSE vs[i]
    BY <1>0
  <2>5. PICK k \in 1..Len(vs) : vs[k].id = u.id
    BY <1>0, <1>2 DEF Ids
  <2> HIDE DEF t
  <2>6. Range(t) = {t[i] : i \in 1..Len(vs)}
    BY <2>4 DEF Range
  <2>7. Range(t) = {v \in Range(vs) : v.id # u.id} \cup {u}
    BY <1>0, <2>4, <2>5, <2>6
  <2> QED BY <1>2, <2>1, <2>3, <2>7 DEF Updated
<1>3. CASE u.power # 0 /\ u.id \notin Ids(vs)
  <2> DEFINE t == Append(vs, u)
  <2>1. ApplyUpdate(vs, u) = t
    BY <1>3 DEF ApplyUpdate
  <2>2. /\ t \in Seq(Listing) /\ DOMAIN t = (1..Len(vs)) \cup {Len(vs) + 1}
        /\ t[Len(vs) + 1] = u /\ \A i \in 1..Len(vs) : t[i] = vs[i]
    <3>1. DOMAIN t = 1..(Len(vs) + 1) /\ 1..(Len(vs) + 1) = (1..Len(vs)) \cup {Len(vs) + 1}
      BY <1>0
    <3> QED BY <1>0, <3>1
  <2>3. \A v \in Range(vs) : v.id # u.id
    BY <1>0, <1>3 DEF Ids
  <2> HIDE DEF t
  <2>4. Range(t) = {v \in Range(vs) : v.id # u.id} \cup {u}
    BY <1>0, <2>2, <2>3 DEF Range
  <2> QED BY <1>3, <2>1, <2>2, <2>4 DEF Updated
<1> QED BY <1>1, <1>2, <1>3

(* The sets after the first updates of us, one after the other.            *)
StagesOf(r, vs, us) ==
    /\ r \in [0..Len(us) -> Seq(Listing)] /\ r[0] = vs
    /\ \A n \in 1..Len(us) : r[n] = ApplyUpdate(r[n - 1], us[n])
    /\ ApplyUpdates(vs, us) = r[Len(us)]

LEMMA Updating ==
    ASSUME NEW vs \in Seq(Listing), NEW us \in Seq(Listing)
    PROVE  \E r : StagesOf(r, vs, us)
<1> DEFINE V == Seq(Listing)
           N == Len(us)
           step == [p \in V \X Listing |-> ApplyUpdate(p[1], p[2])]
           iter(h) == [T \in SUBSET DOMAIN us |->
                          IF T = {} THEN vs
                          ELSE ApplyUpdate(h[T \ {Max(T)}], us[Max(T)])]
           G == CHOOSE h : h = iter(h)
<1>1. N \in Nat /\ DOMAIN us = 1..N /\ \A n \in 1..N : us[n] \in Listing
  OBVIOUS
<1>2. step \in [V \X Listing -> V]
  BY ApplyUpdateRange
<1>3. PICK g : FoldsLeft(g, us, V, vs, step)
  <2> HIDE DEF V, step
  <2>1. vs \in V
    BY DEF V
  <2> QED BY <1>2, <2>1, LeftFoldRecursion
<1>4. g = iter(g)
  <2>1. ASSUME NEW T \in SUBSET (1..N) PROVE g[T] = iter(g)[T]
    <3>1. CASE T = {}
      BY <1>1, <1>3, <3>1 DEF FoldsLeft
    <3>2. CASE T # {}
      <4>1. T \subseteq 0..N
        BY <1>1
      <4>2. Max(T) \in T
        <5> HIDE DEF N
        <5> QED BY <1>1, <3>2, <4>1, GreatestNumber
      <4>3. us[Max(T)] \in Listing /\ T \ {Max(T)} \in SUBSET (1..N)
        <5> HIDE DEF N
        <5> QED BY <1>1, <4>2
      <4>4. g[T \ {Max(T)}] \in V
        BY <1>3, <4>3 DEF FoldsLeft
      <4>5. step[<<g[T \ {Max(T)}], us[Max(T)]>>] = ApplyUpdate(g[T \ {Max(T)}], us[Max(T)])
        <5> HIDE DEF V
        <5> QED BY <4>3, <4>4
      <4>6. g[T] = step[<<g[T \ {Max(T)}], us[Max(T)]>>]
        <5> HIDE DEF step
        <5> QED BY <1>3, <3>2 DEF FoldsLeft
      <4> QED BY <1>1, <3>2, <4>5, <4>6
    <3> QED BY <3>1, <3>2
  <2>2. g \in [SUBSET DOMAIN us -> V]
    BY <1>1, <1>3 DEF FoldsLeft
  <2> QED BY <1>1, <2>1, <2>2
<1>5. G = iter(G)
  <2> HIDE DEF iter
  <2> QED BY <1>4
<1>6. ApplyUpdates(vs, us) = G[1..N]
  <2>1. ApplyUpdates(vs, us) = G[DOMAIN us]
    BY DEF ApplyUpdates, FoldLeft, MapThenFoldSet
  <2> HIDE DEF G
  <2> QED BY <1>1, <2>1
<1>7. G[1..0] = vs
  <2>1. G[{}] = iter(G)[{}]
    BY <1>5
  <2>2. iter(G)[{}] = vs
    OBVIOUS
  <2>3. 1..0 = {}
    OBVIOUS
  <2> HIDE DEF G, iter
  <2> QED BY <2>1, <2>2, <2>3
<1>8. ASSUME NEW n \in 1..N PROVE G[1..n] = ApplyUpdate(G[1..(n - 1)], us[n])
  <2>1. /\ Max(1..n) = n /\ (1..n) \ {n} = 1..(n - 1) /\ 1..n # {}
        /\ 1..n \in SUBSET DOMAIN us
    BY <1>1, PrefixMax
  <2>2. G[1..n] = iter(G)[1..n]
    BY <1>5
  <2>3. iter(G)[1..n] = ApplyUpdate(G[1..(n - 1)], us[n])
    <3> HIDE DEF G
    <3> QED BY <2>1
  <2> HIDE DEF G, iter
  <2> QED BY <2>2, <2>3
<1> DEFINE P == {n \in Nat : n <= N => G[1..n] \in V}
           r == [n \in 0..N |-> G[1..n]]
<1>9. 0 \in P
  <2> HIDE DEF G
  <2> QED BY <1>7
<1>10. ASSUME NEW n \in Nat, n \in P PROVE n + 1 \in P
  <2> SUFFICES ASSUME n + 1 <= N PROVE G[1..(n + 1)] \in V
    BY <1>1
  <2>1. n + 1 \in 1..N /\ (n + 1) - 1 = n /\ us[n + 1] \in Listing
    BY <1>1
  <2> HIDE DEF G, N
  <2>2. G[1..n] \in V
    BY <1>1, <1>10
  <2>3. G[1..(n + 1)] = ApplyUpdate(G[1..n], us[n + 1])
    BY <1>8, <2>1
  <2> QED BY <2>1, <2>2, <2>3, ApplyUpdateRange
<1>11. Nat \subseteq P
  <2> HIDE DEF P
  <2> QED BY <1>9, <1>10, NumberInduction
<1> HIDE DEF G
<1>12. r \in [0..N -> V] /\ r[0] = vs /\ r[N] = G[1..N]
  <2> HIDE DEF V
  <2> QED BY <1>1, <1>7, <1>11
<1>13. ASSUME NEW n \in 1..N PROVE r[n] = ApplyUpdate(r[n - 1], us[n])
  <2>1. n \in 0..N /\ n - 1 \in 0..N
    BY <1>1
  <2>2. r[n] = G[1..n] /\ r[n - 1] = G[1..(n - 1)]
    BY <2>1
  <2> QED BY <1>8, <2>2
<1> HIDE DEF r
<1> QED BY <1>6, <1>12, <1>13 DEF StagesOf

(* The entries after the updates at the positions 1..n.                    *)
After(S, us, n) ==
    {v \in S : \A k \in 1..n : us[k].id # v.id}
    \cup {us[k] : k \in {j \in 1..n : us[j].power # 0}}

(* Updates that agree on what they make of an id can be read as a set: an  *)
(* entry stays if no update names it, and an update with power is one.     *)
LEMMA ApplyUpdatesRange ==
    ASSUME NEW vs \in Seq(Listing), NEW us, Listed(us)
    PROVE  /\ ApplyUpdates(vs, us) \in Seq(Listing)
           /\ Range(ApplyUpdates(vs, us)) = After(Range(vs), us, Len(us))
<1> DEFINE N == Len(us)
           S == Range(vs)
<1>1. /\ us \in Seq(Listing) /\ N \in Nat /\ DOMAIN us = 1..N
      /\ \A n \in 1..N : us[n] \in Listing
      /\ \A n, m \in 1..N : us[n].id = us[m].id => us[n] = us[m]
  BY DEF Listed, OneOfEach, Range
<1>2. PICK r : StagesOf(r, vs, us)
  BY <1>1, Updating
<1>3. /\ r[0] = vs /\ ApplyUpdates(vs, us) = r[N] /\ \A n \in 0..N : r[n] \in Seq(Listing)
      /\ \A n \in 1..N : r[n] = ApplyUpdate(r[n - 1], us[n])
  BY <1>2 DEF StagesOf
<1> DEFINE P == {n \in Nat : n <= N => Range(r[n]) = After(S, us, n)}
<1>4. 0 \in P
  BY <1>3 DEF After
<1>5. ASSUME NEW n \in Nat, n \in P PROVE n + 1 \in P
  <2> SUFFICES ASSUME n + 1 <= N PROVE Range(r[n + 1]) = After(S, us, n + 1)
    OBVIOUS
  <2> DEFINE u == us[n + 1]
  <2>1. /\ n + 1 \in 1..N /\ (n + 1) - 1 = n /\ n \in 0..N
        /\ 1..(n + 1) = (1..n) \cup {n + 1} /\ 1..n \subseteq 1..N
    BY <1>1
  <2>2. Range(r[n + 1]) = Updated(Range(r[n]), u)
    <3>1. r[n] \in Seq(Listing) /\ u \in Listing
      BY <1>1, <1>3, <2>1
    <3>2. r[n + 1] = ApplyUpdate(r[n], u)
      BY <1>3, <2>1
    <3> HIDE DEF u
    <3> QED BY <3>1, <3>2, ApplyUpdateRange
  <2>3. Range(r[n]) = After(S, us, n)
    BY <1>5, <2>1
  <2>4. \A k \in 1..n : us[k].id = u.id => us[k] = u
    BY <1>1, <2>1
  <2>5. After(S, us, n + 1) = {v \in S : (\A k \in 1..n : us[k].id # v.id) /\ u.id # v.id}
            \cup {us[k] : k \in {j \in 1..n : us[j].power # 0}} \cup (IF u.power = 0 THEN {} ELSE {u})
    BY <2>1 DEF After
  <2>6. Updated(After(S, us, n), u) = After(S, us, n + 1)
    <3>1. \A v : v \in Updated(After(S, us, n), u) <=>
                     \/ v \in After(S, us, n) /\ v.id # u.id
                     \/ u.power # 0 /\ v = u
      BY DEF Updated
    <3>2. \A v : v \in After(S, us, n) <=>
                     \/ v \in S /\ \A k \in 1..n : us[k].id # v.id
                     \/ \E k \in 1..n : us[k].power # 0 /\ v = us[k]
      BY DEF After
    <3>3. \A v : v \in After(S, us, n + 1) <=>
                     \/ v \in S /\ (\A k \in 1..n : us[k].id # v.id) /\ u.id # v.id
                     \/ \E k \in 1..n : us[k].power # 0 /\ v = us[k]
                     \/ u.power # 0 /\ v = u
      BY <2>5
    <3> HIDE DEF u, S
    <3>4. \A v : v \in Updated(After(S, us, n), u) <=> v \in After(S, us, n + 1)
      BY ONLY <2>4, <3>1, <3>2, <3>3
    <3> QED BY ONLY <3>4
  <2> QED BY <2>2, <2>3, <2>6
<1>6. Nat \subseteq P
  <2> HIDE DEF P
  <2> QED BY <1>4, <1>5, NumberInduction
<1>7. Range(r[N]) = After(S, us, N) /\ r[N] \in Seq(Listing)
  BY <1>1, <1>3, <1>6
<1> QED BY <1>3, <1>7

(* So they keep one entry for each id.                                     *)
LEMMA ApplyUpdatesListed ==
    ASSUME NEW vs, Listed(vs), NEW us, Listed(us)
    PROVE  Listed(ApplyUpdates(vs, us))
<1> DEFINE N == Len(us)
           A == After(Range(vs), us, N)
<1>1. ApplyUpdates(vs, us) \in Seq(Listing) /\ Range(ApplyUpdates(vs, us)) = A
  BY ApplyUpdatesRange DEF Listed
<1>2. /\ \A v, w \in Range(vs) : v.id = w.id => v = w
      /\ \A n, m \in 1..N : us[n].id = us[m].id => us[n] = us[m]
  BY DEF Listed, OneOfEach, Range
<1>3. \A v \in A : \/ v \in Range(vs) /\ \A k \in 1..N : us[k].id # v.id
                   \/ \E k \in 1..N : v = us[k]
  BY DEF After
<1> HIDE DEF A, N
<1>4. \A v, w \in A : v.id = w.id => v = w
  BY <1>2, <1>3
<1> QED BY <1>1, <1>4 DEF Listed, OneOfEach

-----------------------------------------------------------------------------
(* The updates of a block.                                                 *)

Leaving(v) == [v EXCEPT !.power = 0]

(* The updates are the entries of the list that are new or changed, and    *)
(* those of the set that left the list, with power 0.                      *)
LEMMA UpdatesOf ==
    ASSUME Typed, NEW set, Listed(set), NEW f, f = FormalValidatorList,
           NEW us, us = ComputeValidatorUpdates(set)
    PROVE  /\ Listed(us)
           /\ f # <<>> /\ PowerAt(f, DOMAIN f) <= MaxPower =>
                  Range(us) = (Range(f) \ Range(set))
                              \cup {Leaving(v) : v \in {w \in Range(set) : w.id \notin Ids(f)}}
<1> DEFINE keep == {n \in DOMAIN f : f[n] \notin Range(set)}
           gone == {n \in DOMAIN set : set[n].id \notin Ids(f)}
           new == Retain(f, keep)
           leaves == Retain(set, gone)
           out == [n \in DOMAIN leaves |-> [leaves[n] EXCEPT !.power = 0]]
           big == f = <<>> \/ PowerAt(f, DOMAIN f) > MaxPower
<1>1. us = IF big THEN <<>> ELSE new \o out
  BY DEF ComputeValidatorUpdates
<1>2. Listed(f) /\ f \in Seq(Listing) /\ set \in Seq(Listing)
  BY FormalList DEF Listed
<1>3. new \in Seq(Listing) /\ Range(new) = Range(f) \ Range(set)
  <2>1. new \in Seq(Listing) /\ Range(new) = {f[n] : n \in keep \cap DOMAIN f}
    <3> HIDE DEF keep
    <3> QED BY <1>2, RetainRange
  <2>2. {f[n] : n \in keep \cap DOMAIN f} = Range(f) \ Range(set)
    BY DEF Range
  <2> QED BY <2>1, <2>2
<1>4. leaves \in Seq(Listing) /\ Range(leaves) = {w \in Range(set) : w.id \notin Ids(f)}
  <2>1. leaves \in Seq(Listing) /\ Range(leaves) = {set[n] : n \in gone \cap DOMAIN set}
    <3> HIDE DEF gone
    <3> QED BY <1>2, RetainRange
  <2>2. {set[n] : n \in gone \cap DOMAIN set} = {w \in Range(set) : w.id \notin Ids(f)}
    BY DEF Range
  <2> QED BY <2>1, <2>2
<1> HIDE DEF new, leaves
<1>5. \A v \in Listing : Leaving(v) \in Listing /\ Leaving(v).id = v.id /\ Leaving(v).power = 0
  BY DEF Leaving, Listing
<1>6. /\ DOMAIN out = 1..Len(leaves) /\ Len(leaves) \in Nat
      /\ \A n \in 1..Len(leaves) : out[n] = Leaving(leaves[n]) /\ leaves[n] \in Listing
  BY <1>4 DEF Leaving
<1>7. out \in Seq(Listing) /\ Range(out) = {Leaving(v) : v \in Range(leaves)}
  <2>1. out = [n \in 1..Len(leaves) |-> out[n]]
    BY <1>6
  <2> HIDE DEF out
  <2>2. out \in [1..Len(leaves) -> Listing]
    BY <1>5, <1>6, <2>1
  <2>3. out \in Seq(Listing)
    BY <1>6, <2>2
  <2>4. Range(leaves) = {leaves[n] : n \in 1..Len(leaves)} /\ Range(out) = {out[n] : n \in 1..Len(leaves)}
    BY <1>4, <1>6 DEF Range
  <2> QED BY <1>6, <2>3, <2>4
<1> HIDE DEF out
<1>8. new \o out \in Seq(Listing) /\ Range(new \o out) = Range(new) \cup Range(out)
  <2> DEFINE a == Len(new)
             b == Len(out)
             t == new \o out
  <2>1. a \in Nat /\ b \in Nat /\ DOMAIN new = 1..a /\ DOMAIN out = 1..b
    BY <1>3, <1>7
  <2>2. /\ t \in Seq(Listing) /\ DOMAIN t = 1..(a + b)
        /\ \A n \in 1..(a + b) : t[n] = IF n <= a THEN new[n] ELSE out[n - a]
    BY <1>3, <1>7
  <2> HIDE DEF a, b, t
  <2>3. Range(t) = {t[n] : n \in 1..(a + b)} /\ Range(new) = {new[n] : n \in 1..a}
        /\ Range(out) = {out[n] : n \in 1..b}
    BY <2>1, <2>2 DEF Range
  <2>4. Range(t) \subseteq Range(new) \cup Range(out)
    <3> SUFFICES ASSUME NEW n \in 1..(a + b) PROVE t[n] \in Range(new) \cup Range(out)
      BY <2>3
    <3>1. CASE n <= a
      <4>1. n \in 1..a /\ t[n] = new[n]
        BY <2>1, <2>2, <3>1
      <4> QED BY <2>3, <4>1
    <3>2. CASE ~(n <= a)
      <4>1. n - a \in 1..b /\ t[n] = out[n - a]
        BY <2>1, <2>2, <3>2
      <4> QED BY <2>3, <4>1
    <3> QED BY <3>1, <3>2
  <2>5. Range(new) \subseteq Range(t)
    <3> SUFFICES ASSUME NEW n \in 1..a PROVE new[n] \in Range(t)
      BY <2>3
    <3>1. n \in 1..(a + b) /\ n <= a
      BY <2>1
    <3> QED BY <2>2, <2>3, <3>1
  <2>6. Range(out) \subseteq Range(t)
    <3> SUFFICES ASSUME NEW n \in 1..b PROVE out[n] \in Range(t)
      BY <2>3
    <3>1. n + a \in 1..(a + b) /\ ~(n + a <= a) /\ (n + a) - a = n
      BY <2>1
    <3> QED BY <2>2, <2>3, <3>1
  <2> QED BY <2>2, <2>4, <2>5, <2>6 DEF t
<1>9. OneOfEach(new \o out)
  <2>1. /\ \A v, w \in Range(f) : v.id = w.id => v = w
        /\ \A v, w \in Range(set) : v.id = w.id => v = w
        /\ Range(set) \subseteq Listing
    BY <1>2 DEF Listed, OneOfEach, Range
  <2>2. \A v \in Range(f) : v.id \in Ids(f)
    BY DEF Ids, Range
  <2>3. \A v \in Range(out) : \E w \in Range(set) : w.id \notin Ids(f) /\ v = Leaving(w) /\ v.id = w.id
    BY <1>4, <1>5, <1>7, <2>1
  <2> QED BY <1>3, <1>8, <2>1, <2>2, <2>3 DEF OneOfEach
<1>10. <<>> \in Seq(Listing) /\ OneOfEach(<<>>)
  BY DEF OneOfEach, Range
<1>11. Listed(us)
  <2> HIDE DEF big
  <2> QED BY <1>1, <1>8, <1>9, <1>10 DEF Listed
<1>12. ASSUME f # <<>>, PowerAt(f, DOMAIN f) <= MaxPower
       PROVE  Range(us) = (Range(f) \ Range(set))
                          \cup {Leaving(v) : v \in {w \in Range(set) : w.id \notin Ids(f)}}
  <2>1. ~big
    <3>1. PowerAt(f, DOMAIN f) \in Nat
      <4> DEFINE g == [i \in DOMAIN f |-> f[i].power]
      <4>1. IsFiniteSet(DOMAIN f) /\ \A i \in DOMAIN f : f[i] \in Listing
        <5>1. DOMAIN f = 1..Len(f) /\ Len(f) \in Nat /\ \A i \in DOMAIN f : f[i] \in Listing
          BY <1>2
        <5> QED BY <5>1, FS_Interval
      <4>2. IsNumbering(g, DOMAIN f)
        BY <4>1, ListingFields DEF IsNumbering
      <4> HIDE DEF g
      <4>3. SumFunctionOnSet(g, DOMAIN f) \in Nat
        BY <4>2, SumNat
      <4> QED BY <4>3 DEF PowerAt, g
    <3> QED BY <1>12, <3>1, Widths
  <2> HIDE DEF big
  <2>2. us = new \o out
    BY <1>1, <2>1
  <2> QED BY <1>3, <1>4, <1>7, <1>8, <2>2
<1> QED BY <1>11, <1>12

(* Applied to the set they were computed for, they make it the list.       *)
LEMMA UpdatesMeet ==
    ASSUME Typed, NEW set, Listed(set), NEW f, f = FormalValidatorList,
           f # <<>>, PowerAt(f, DOMAIN f) <= MaxPower,
           NEW next, next = ApplyUpdates(set, ComputeValidatorUpdates(set))
    PROVE  Range(next) = {v \in Range(f) : v \in Range(set) \/ v.power # 0}
<1> DEFINE us == ComputeValidatorUpdates(set)
           N == Len(us)
<1>1. /\ Listed(us)
      /\ Range(us) = (Range(f) \ Range(set))
                     \cup {Leaving(v) : v \in {w \in Range(set) : w.id \notin Ids(f)}}
  BY UpdatesOf
<1> HIDE DEF us
<1>2. Listed(f) /\ f \in Seq(Listing) /\ set \in Seq(Listing) /\ us \in Seq(Listing)
  BY <1>1, FormalList DEF Listed
<1>3. Range(next) = After(Range(set), us, N)
  BY <1>1, <1>2, ApplyUpdatesRange DEF us
<1>4. /\ \A v, w \in Range(f) : v.id = w.id => v = w
      /\ \A v, w \in Range(set) : v.id = w.id => v = w
      /\ Range(set) \subseteq Listing
  BY <1>2 DEF Listed, OneOfEach, Range
<1>5. /\ \A v \in Range(f) : v.id \in Ids(f)
      /\ \A i \in Ids(f) : \E v \in Range(f) : v.id = i
  BY DEF Ids, Range
<1>6. \A v \in Listing : Leaving(v).id = v.id /\ Leaving(v).power = 0
  BY DEF Leaving, Listing
<1>7. Range(us) = {us[k] : k \in 1..N}
  BY <1>2 DEF Range
<1>8. After(Range(set), us, N) = {v \in Range(set) : \A u \in Range(us) : u.id # v.id}
                                 \cup {u \in Range(us) : u.power # 0}
  BY <1>7 DEF After
<1>9. \A u \in Range(us) : \/ u \in Range(f) /\ u \notin Range(set) /\ u.id \in Ids(f)
                           \/ u.id \notin Ids(f) /\ u.power = 0
  BY <1>1, <1>4, <1>5, <1>6
<1>10. ASSUME NEW v \in Range(set)
       PROVE  (\A u \in Range(us) : u.id # v.id) <=> v \in Range(f)
  <2>1. CASE v \in Range(f)
    BY <1>4, <1>5, <1>9, <2>1
  <2>2. CASE v \notin Range(f) /\ v.id \in Ids(f)
    <3>1. PICK w \in Range(f) : w.id = v.id
      BY <1>5, <2>2
    <3>2. w \notin Range(set) /\ w \in Range(us)
      BY <1>1, <1>4, <2>2, <3>1
    <3> QED BY <2>2, <3>1, <3>2
  <2>3. CASE v \notin Range(f) /\ v.id \notin Ids(f)
    <3>1. Leaving(v) \in Range(us) /\ Leaving(v).id = v.id
      BY <1>1, <1>4, <1>6, <2>3
    <3> QED BY <2>3, <3>1
  <2> QED BY <2>1, <2>2, <2>3
<1>11. {u \in Range(us) : u.power # 0} = {v \in Range(f) : v \notin Range(set) /\ v.power # 0}
  BY <1>1, <1>9
<1>12. {v \in Range(set) : \A u \in Range(us) : u.id # v.id} = Range(f) \cap Range(set)
  BY <1>10
<1> QED BY <1>3, <1>8, <1>11, <1>12

-----------------------------------------------------------------------------
(* The sets of the current epoch and of the pending one have one entry for *)
(* each id.                                                                *)

SetsInv == Listed(active) /\ Listed(pend.set)

Epoch(u, set) == [start |-> u, set |-> set]

LEMMA EndBlockSets ==
    ASSUME StakingInv, SetsInv, NEW v \in (view + 1)..(view + 2), EndBlock(v)
    PROVE  /\ SetsInv'
           /\ pend = NoEpoch /\ ValidSet(ApplyUpdates(active, ComputeValidatorUpdates(active)))
                  => NextSet' = ApplyUpdates(active, ComputeValidatorUpdates(active))
<1> DEFINE us == ComputeValidatorUpdates(active)
           next == ApplyUpdates(NextSet, us)
           chained == IF us = <<>> \/ ~ValidSet(next) THEN pend ELSE Epoch(view + 2, next)
<1>1. Listed(us)
  BY UpdatesOf DEF StakingInv, SetsInv
<1>2. Listed(NextSet)
  BY DEF NextSet, SetsInv
<1>3. Listed(next)
  <2> HIDE DEF us
  <2> QED BY <1>1, <1>2, ApplyUpdatesListed
<1>4. IF chained # NoEpoch /\ v >= chained.start
      THEN active' = chained.set /\ pend' = NoEpoch
      ELSE active' = active /\ pend' = chained
  BY DEF EndBlock, Epoch
<1>5. us = <<>> => next = NextSet
  <2> SUFFICES ASSUME us = <<>> PROVE ApplyUpdates(NextSet, <<>>) = NextSet
    OBVIOUS
  <2>1. <<>> \in Seq(Listing) /\ Len(<<>>) = 0
    OBVIOUS
  <2>2. \E r : StagesOf(r, NextSet, <<>>)
    BY <1>2, <2>1, Updating DEF Listed
  <2> QED BY <2>1, <2>2 DEF StagesOf
<1> HIDE DEF us, next
<1>6. view \in Nat /\ NoEpoch.start = 0 /\ NoEpoch.set = <<>>
  BY DEF StakingInv, Typed, NoEpoch
<1>7. /\ Epoch(view + 2, next).start = view + 2 /\ Epoch(view + 2, next).set = next
      /\ Epoch(view + 2, next) # NoEpoch
  BY <1>6 DEF Epoch
<1>8. Listed(NoEpoch.set)
  BY <1>6 DEF Listed, OneOfEach, Range
<1>9. Listed(chained.set)
  BY <1>3, <1>7 DEF SetsInv
<1>10. SetsInv'
  <2>1. Listed(active') /\ Listed((pend').set)
    <3> HIDE DEF chained
    <3> QED BY <1>4, <1>8, <1>9 DEF SetsInv
  <2> QED BY <2>1 DEF SetsInv
<1>11. ASSUME pend = NoEpoch, ValidSet(next)
       PROVE  NextSet' = next
  <2>1. NextSet = active
    BY <1>11 DEF NextSet
  <2>0. NextSet' = IF pend' = NoEpoch THEN active' ELSE pend'.set
    BY DEF NextSet
  <2>2. CASE us = <<>>
    BY <1>4, <1>5, <1>11, <2>0, <2>1, <2>2
  <2>3. CASE us # <<>>
    BY <1>4, <1>7, <1>11, <2>0, <2>3
  <2> QED BY <2>2, <2>3
<1>12. pend = NoEpoch => next = ApplyUpdates(active, ComputeValidatorUpdates(active))
  BY DEF next, us, NextSet
<1> QED BY <1>10, <1>11, <1>12

LEMMA ChainSteps ==
    ASSUME [Next]_vars
    PROVE  (\E v \in (view + 1)..(view + 2) : EndBlock(v)) \/ UNCHANGED chainVars
<1>1. ASSUME NEW i \in Id, NEW k \in Key, NEW a \in Amount, Register(i, k, a)
      PROVE  UNCHANGED chainVars
  BY <1>1 DEF Register
<1>2. ASSUME NEW i \in Id, Unregister(i) \/ Unjail(i) \/ RewardProposer(i)
      PROVE  UNCHANGED chainVars
  BY <1>2 DEF Unregister, Unjail, RewardProposer
<1>3. ASSUME NEW s \in Staker, NEW i \in Id, NEW a \in Amount,
             Delegate(s, i, a) \/ Undelegate(s, i, a)
      PROVE  UNCHANGED chainVars
  BY <1>3 DEF Delegate, Undelegate
<1>4. ASSUME ProcessUnbonding PROVE UNCHANGED chainVars
  BY <1>4 DEF ProcessUnbonding
<1>5. ASSUME NEW i \in Id, NEW ev \in Evidence, NEW r \in Reason, Slash(i, ev, r)
      PROVE  UNCHANGED chainVars
  BY <1>5 DEF Slash
<1>6. ASSUME UNCHANGED vars PROVE UNCHANGED chainVars
  BY <1>6 DEF vars, chainVars
<1> QED BY <1>1, <1>2, <1>3, <1>4, <1>5, <1>6 DEF Next

LEMMA SetsInvariant == Spec => [](StakingInv /\ SetsInv)
<1>1. Init => StakingInv /\ SetsInv
  <2> SUFFICES ASSUME Init PROVE StakingInv /\ SetsInv
    OBVIOUS
  <2>1. StakingInv
    BY InitInv
  <2>2. active = FormalValidatorList /\ pend = NoEpoch
    BY DEF Init
  <2>3. Listed(active)
    BY <2>1, <2>2, FormalList DEF StakingInv
  <2>4. pend.set = <<>>
    BY <2>2 DEF NoEpoch
  <2> QED BY <2>1, <2>3, <2>4 DEF SetsInv, Listed, OneOfEach, Range
<1>2. StakingInv /\ SetsInv /\ [Next]_vars => (StakingInv /\ SetsInv)'
  <2> SUFFICES ASSUME StakingInv, SetsInv, [Next]_vars PROVE SetsInv'
    BY NextKeeps
  <2>1. ASSUME NEW v \in (view + 1)..(view + 2), EndBlock(v) PROVE SetsInv'
    BY <2>1, EndBlockSets
  <2>2. ASSUME UNCHANGED chainVars PROVE SetsInv'
    BY <2>2 DEF SetsInv, chainVars
  <2>3. (\E v \in (view + 1)..(view + 2) : EndBlock(v)) \/ UNCHANGED chainVars
    BY ChainSteps
  <2> QED BY <2>1, <2>2, <2>3
<1> QED BY <1>1, <1>2, PTL DEF Spec

(***************************************************************************)
(* compute_validator_updates, applied by consensus, makes the next set the *)
(* formal list: nobody who left it stays, nobody who joined is missing,    *)
(* and keys and powers are the list's, for every number of validators,     *)
(* every minimum and whatever happened to the stakes before, if no epoch   *)
(* was in flight and consensus accepts the updates.                        *)
(***************************************************************************)
THEOREM UpdatesReachTheList == Spec => UpdatesReachFormalList
<1> DEFINE f == FormalValidatorList
           set == NextSet'
           A == /\ view' # view /\ pend = NoEpoch
                /\ FormalValidatorList # <<>>
                /\ PowerAt(FormalValidatorList, DOMAIN FormalValidatorList) <= MaxPower
                /\ ValidSet(ApplyUpdates(active, ComputeValidatorUpdates(active)))
                => /\ Powered(NextSet') = Powered(FormalValidatorList)
                   /\ MinSelfStake > 0 => /\ Range(NextSet') = Range(FormalValidatorList)
                                          /\ Len(NextSet') = Len(FormalValidatorList)
<1>1. ASSUME StakingInv, SetsInv, [Next]_vars PROVE A
  <2> SUFFICES ASSUME view' # view, pend = NoEpoch, f # <<>>, PowerAt(f, DOMAIN f) <= MaxPower,
                      ValidSet(ApplyUpdates(active, ComputeValidatorUpdates(active)))
               PROVE  /\ Powered(set) = Powered(f)
                      /\ MinSelfStake > 0 => Range(set) = Range(f) /\ Len(set) = Len(f)
    OBVIOUS
  <2>1. (\E v \in (view + 1)..(view + 2) : EndBlock(v)) \/ UNCHANGED chainVars
    BY <1>1, ChainSteps
  <2>2. PICK v \in (view + 1)..(view + 2) : EndBlock(v)
    BY <2>1 DEF chainVars
  <2>3. set = ApplyUpdates(active, ComputeValidatorUpdates(active)) /\ ValidSet(set)
    BY <1>1, <2>2, EndBlockSets
  <2>4. /\ Listed(f) /\ Cardinality(Ids(f)) = Len(f)
        /\ MinSelfStake > 0 => \A w \in Range(f) : w.power > 0
    BY <1>1, FormalList DEF StakingInv
  <2> HIDE DEF set
  <2>5. Range(set) = {w \in Range(f) : w \in Range(active) \/ w.power # 0}
    BY <1>1, <2>3, UpdatesMeet DEF StakingInv, SetsInv
  <2> HIDE DEF f
  <2>6. \A w \in Range(f) : w.power \in Nat
    BY <2>4, RangeType, ListingFields DEF Listed
  <2>7. Powered(set) = Powered(f)
    BY <2>5, <2>6 DEF Powered
  <2>8. ASSUME MinSelfStake > 0 PROVE Range(set) = Range(f) /\ Len(set) = Len(f)
    <3>1. Range(set) = Range(f)
      BY <2>4, <2>5, <2>6, <2>8
    <3>2. Ids(set) = {w.id : w \in Range(set)} /\ Ids(f) = {w.id : w \in Range(f)}
      BY DEF Ids, Range
    <3>3. Len(set) = Cardinality(Ids(set))
      BY <2>3 DEF ValidSet
    <3> QED BY <2>4, <3>1, <3>2, <3>3
  <2> QED BY <2>7, <2>8
<1>2. StakingInv /\ SetsInv /\ [Next]_vars => A
  <2> HIDE DEF A
  <2> QED BY <1>1
<1>3. StakingInv /\ SetsInv /\ [Next]_vars => [A]_vars
  <2> HIDE DEF A
  <2> QED BY <1>2
<1>4. Spec => [][A]_vars
  <2> HIDE DEF A
  <2> QED BY <1>3, SetsInvariant, PTL DEF Spec
<1> QED BY <1>4 DEF UpdatesReachFormalList

=============================================================================
