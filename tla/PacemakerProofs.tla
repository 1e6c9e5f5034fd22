-------------------------- MODULE PacemakerProofs --------------------------
(***************************************************************************)
(* That the buckets of wishes stay within the horizon of the Wish handler, *)
(* and that a replica is in a view only because a quorum has asked for it, *)
(* a quorum has ended the view before it, or a faulty replica that holds a *)
(* double certificate has named it.                                        *)
(***************************************************************************)
EXTENDS Pacemaker, Recursion

-----------------------------------------------------------------------------
(* Quorums.                                                                *)

(* A set that contains a quorum is one.                                    *)
LEMMA QuorumsGrow ==
    ASSUME NEW Q \in Quorums, NEW S \in SUBSET Validator, Q \subseteq S
    PROVE  S \in Quorums
<1>1. Q \in SUBSET S /\ Q \in SUBSET Validator
  BY DEF Quorums
<1>2. IsNumbering(Power, S) /\ IsNumbering(Power, Validator) /\ IsNumbering(Power, Q)
  BY <1>1, PacemakerAssumption, FS_Subset DEF IsNumbering
<1>3. PowerOf(Q) <= PowerOf(S)
  BY <1>1, <1>2, SumMonotone DEF PowerOf
<1>4. PowerOf(Q) \in Nat /\ PowerOf(S) \in Nat /\ PowerOf(Validator) \in Nat
  BY <1>2, SumDefinition DEF PowerOf
<1>5. PowerOf(Q) >= (PowerOf(Validator) * 2) \div 3 + 1
  BY DEF Quorums
<1>6. PowerOf(S) >= (PowerOf(Validator) * 2) \div 3 + 1
  <2> DEFINE q == (PowerOf(Validator) * 2) \div 3 + 1
  <2>1. q \in Nat
    BY <1>4
  <2> HIDE DEF q
  <2>2. PowerOf(Q) >= q
    BY <1>5 DEF q
  <2>3. PowerOf(S) >= q
    BY <1>3, <1>4, <2>1, <2>2
  <2> QED BY <2>3 DEF q
<1> QED BY <1>6 DEF Quorums

-----------------------------------------------------------------------------
(* The inductive invariant.                                                *)

(* A quorum, faulty replicas included, has done what H holds for view t:   *)
(* H is what every node has wished for, or what every node has prepared.   *)
Backed(H, t) == {m \in Validator : m \in Node => t \in H[m]} \in Quorums

(* Who has backed a view keeps backing it.                                 *)
LEMMA BackingLasts ==
    ASSUME NEW H, NEW G, \A m \in Node : H[m] \subseteq G[m], NEW t, Backed(H, t)
    PROVE  Backed(G, t)
<1> DEFINE Q == {m \in Validator : m \in Node => t \in H[m]}
           S == {m \in Validator : m \in Node => t \in G[m]}
<1>1. Q \in Quorums /\ S \in SUBSET Validator /\ Q \subseteq S
  BY DEF Backed
<1>2. S \in Quorums
  <2> HIDE DEF Q, S
  <2> QED BY <1>1, QuorumsGrow
<1> QED BY <1>2 DEF Backed

(* What may lead a node to view t, where W is what every node has wished   *)
(* for and P what it has prepared.                                         *)
Earned(W, P, t) ==
    \/ t = 1 \/ Backed(W, t) \/ Backed(P, t - 1)
    \/ (\E m \in Node : <<m, t>> \in FaultyProposals) /\ \E v \in Views : Backed(P, v)

(* What a node has collected of a replica that follows the protocol, that  *)
(* replica has sent.                                                       *)
WishesAreSent ==
    \A n \in Node, t \in Targets : \A m \in wishes[n][t] \cap Node : t \in wished[m]

(* A certificate that is on its way stands for a quorum of wishes.         *)
CertificatesAreWanted == \A n \in Node : \A t \in sentTC[n] : Backed(wished, t)

(* Leaders are in a view, and propose in it, for a reason.                 *)
EntriesAreEarned ==
    /\ \A n \in Node : Earned(wished, prepared, view[n])
    /\ \A t \in proposed : Earned(wished, prepared, t)

PacemakerInv == TypeOK /\ WishesAreSent /\ CertificatesAreWanted /\ EntriesAreEarned

(* A reason to enter a view stays one.                                     *)
LEMMA EarningLasts ==
    ASSUME \A m \in Node : wished[m] \subseteq wished'[m],
           \A m \in Node : prepared[m] \subseteq prepared'[m],
           NEW t, Earned(wished, prepared, t)
    PROVE  Earned(wished', prepared', t)
<1>1. \A u : Backed(wished, u) => Backed(wished', u)
  BY BackingLasts
<1>2. \A u : Backed(prepared, u) => Backed(prepared', u)
  BY BackingLasts
<1> QED BY <1>1, <1>2 DEF Earned

LEMMA InitialState == Init => PacemakerInv
<1> SUFFICES ASSUME Init PROVE PacemakerInv
  OBVIOUS
<1>1. 1 \in Views
  BY PacemakerAssumption DEF Views
<1> QED BY <1>1 DEF Init, PacemakerInv, TypeOK, WishesAreSent, CertificatesAreWanted,
                    EntriesAreEarned, Earned

(***************************************************************************)
(* What the handlers share: advance_view_to leads to a view the node may   *)
(* be in, with wishes that have been sent.                                 *)
(***************************************************************************)
LEMMA AdvanceIsSound ==
    ASSUME PacemakerInv, NEW n \in Node, NEW v \in Views, NEW W \in [Targets -> SUBSET Validator],
           NEW dc \in BOOLEAN, AdvanceViewTo(n, v, W, dc),
           wished' \in [Node -> SUBSET Targets], sentTC' \in [Node -> SUBSET Targets],
           \A m \in Node : wished[m] \subseteq wished'[m],
           \A t \in Targets : \A m \in W[t] \cap Node : t \in wished'[m],
           \A t \in Targets : W[t] # {} => t <= view[n] + 1,
           \A m \in Node : \A t \in sentTC'[m] : Backed(wished', t),
           prepared' = prepared, v > view[n] => Earned(wished', prepared', v)
    PROVE  PacemakerInv'
<1> USE DEF PacemakerInv
<1>0. /\ Views = 1..MaxView /\ Targets = 2..MaxView /\ MaxView \in Nat
      /\ view \in [Node -> Views] /\ view[n] \in Views /\ view[n] \in Nat /\ v \in Nat
  BY PacemakerAssumption DEF TypeOK, Views, Targets
<1>1. /\ view' = [view EXCEPT ![n] = IF v > view[n] THEN v ELSE @]
      /\ view'[n] \in Views /\ view[n] <= view'[n]
      /\ v > view[n] => view'[n] = v
      /\ \A m \in Node : m # n => view'[m] = view[m]
      /\ view' \in [Node -> Views]
  BY <1>0 DEF AdvanceViewTo
<1> DEFINE X == wishes'[n]
<1>2. /\ wishes \in [Node -> [Targets -> SUBSET Validator]]
      /\ X \in [Targets -> SUBSET Validator]
      /\ wishes' = [wishes EXCEPT ![n] = X]
      /\ \A t \in Targets : X[t] \subseteq W[t]
  BY <1>0 DEF AdvanceViewTo, TypeOK, Kept
<1>3. hasDC' \in [Node -> BOOLEAN] /\ cut' \in Cuts
  BY DEF AdvanceViewTo, TypeOK
<1>4. /\ proposed' \subseteq Targets /\ prepared' \in [Node -> SUBSET Views]
      /\ \A t \in proposed' : t \in proposed \/ (t = v /\ v > view[n])
  BY <1>0 DEF AdvanceViewTo, TypeOK
<1> HIDE DEF X
<1>5. \A m \in Node, t \in Targets : wishes'[m][t] # {} => t <= view'[m] + 1
  <2> SUFFICES ASSUME NEW m \in Node, NEW t \in Targets, wishes'[m][t] # {}
               PROVE  t <= view'[m] + 1
    OBVIOUS
  <2>1. CASE m = n
    <3>1. W[t] # {}
      BY <1>2, <2>1
    <3>2. t <= view[n] + 1 /\ t \in Nat /\ view'[n] \in Nat
      BY <3>1, <1>0, <1>1
    <3> QED BY <2>1, <3>2, <1>0, <1>1
  <2>2. CASE m # n
    BY <2>2, <1>1, <1>2 DEF TypeOK
  <2> QED BY <2>1, <2>2
<1>6. TypeOK'
  BY <1>1, <1>2, <1>3, <1>4, <1>5 DEF TypeOK
<1>7. WishesAreSent'
  <2> SUFFICES ASSUME NEW k \in Node, NEW t \in Targets, NEW m \in wishes'[k][t] \cap Node
               PROVE  t \in wished'[m]
    BY DEF WishesAreSent
  <2>1. CASE k = n
    BY <2>1, <1>2
  <2>2. CASE k # n
    BY <2>2, <1>2 DEF WishesAreSent
  <2> QED BY <2>1, <2>2
<1>8. CertificatesAreWanted'
  BY DEF CertificatesAreWanted
<1>9. ASSUME NEW t, Earned(wished, prepared, t) PROVE Earned(wished', prepared', t)
  <2>1. \A m \in Node : prepared[m] \subseteq prepared'[m]
    OBVIOUS
  <2> QED BY <1>9, <2>1, EarningLasts
<1>10. EntriesAreEarned'
  <2>1. ASSUME NEW m \in Node PROVE Earned(wished', prepared', view'[m])
    <3>1. CASE m = n /\ v > view[n]
      BY <3>1, <1>1
    <3>2. CASE ~(m = n /\ v > view[n])
      <4>1. view'[m] = view[m]
        BY <3>2, <1>0, <1>1
      <4>2. Earned(wished, prepared, view[m])
        BY DEF EntriesAreEarned
      <4> QED BY <4>1, <4>2, <1>9
    <3> QED BY <3>1, <3>2
  <2>2. ASSUME NEW t \in proposed' PROVE Earned(wished', prepared', t)
    BY <2>2, <1>4, <1>9 DEF EntriesAreEarned
  <2> QED BY <2>1, <2>2 DEF EntriesAreEarned
<1> QED BY <1>6, <1>7, <1>8, <1>10

(* add_wish: the certificate a new wish completes stands for a quorum.     *)
LEMMA WishIsSound ==
    ASSUME PacemakerInv, NEW n \in Node, NEW k \in Validator, NEW t \in Targets,
           AddWish(n, k, t), t <= view[n] + 1, prepared' = prepared,
           wished' \in [Node -> SUBSET Targets],
           \A m \in Node : wished[m] \subseteq wished'[m], k \in Node => t \in wished'[k]
    PROVE  PacemakerInv'
<1> DEFINE W == [wishes[n] EXCEPT ![t] = @ \cup {k}]
           forms == k \notin wishes[n][t] /\ W[t] \in Quorums
           v == IF forms THEN t ELSE view[n]
           dc == hasDC[n]
<1> USE DEF PacemakerInv
<1>0. /\ wishes[n] \in [Targets -> SUBSET Validator] /\ view[n] \in Views /\ dc \in BOOLEAN
      /\ Targets \subseteq Views
  BY PacemakerAssumption, SMTT(30) DEF TypeOK, Targets, Views
<1>1. W \in [Targets -> SUBSET Validator] /\ v \in Views
  BY <1>0
<1>2. \A u \in Targets : W[u] = IF u = t THEN wishes[n][t] \cup {k} ELSE wishes[n][u]
  BY <1>0
<1>3. \A u \in Targets : \A m \in W[u] \cap Node : u \in wished'[m]
  BY <1>2 DEF WishesAreSent
<1>4. \A u \in Targets : W[u] # {} => u <= view[n] + 1
  BY <1>2 DEF TypeOK
<1>5. ASSUME NEW u \in Targets, Backed(wished, u) PROVE Backed(wished', u)
  BY <1>5, BackingLasts
<1>6. forms => Backed(wished', t)
  <2> SUFFICES ASSUME W[t] \in Quorums PROVE Backed(wished', t)
    OBVIOUS
  <2> DEFINE Q == W[t]
             S == {m \in Validator : m \in Node => t \in wished'[m]}
  <2>1. Q \in Quorums /\ S \in SUBSET Validator /\ Q \subseteq S
    BY <1>1, <1>3
  <2>2. S \in Quorums
    <3> HIDE DEF Q, S
    <3> QED BY <2>1, QuorumsGrow
  <2> QED BY <2>2 DEF Backed
<1>7. /\ sentTC' = [sentTC EXCEPT ![n] = IF forms THEN @ \cup {t} ELSE @]
      /\ AdvanceViewTo(n, v, W, dc)
  BY DEF AddWish
<1> HIDE DEF W, forms
<1>8. sentTC' \in [Node -> SUBSET Targets]
  BY <1>7 DEF TypeOK
<1>9. \A m \in Node : \A u \in sentTC'[m] : Backed(wished', u)
  <2> SUFFICES ASSUME NEW m \in Node, NEW u \in sentTC'[m] PROVE Backed(wished', u)
    OBVIOUS
  <2>1. u \in Targets /\ (u \in sentTC[m] \/ (forms /\ u = t))
    BY <1>7, <1>8 DEF TypeOK
  <2> QED BY <2>1, <1>5, <1>6 DEF CertificatesAreWanted
<1>10. v > view[n] => Earned(wished', prepared', v)
  <2>1. CASE forms
    BY <2>1, <1>6 DEF Earned
  <2>2. CASE ~forms
    <3>1. v = view[n] /\ view[n] \in Nat
      BY <2>2, <1>0 DEF Views
    <3> QED BY <3>1
  <2> QED BY <2>1, <2>2
<1> HIDE DEF v, dc
<1> QED BY <1>0, <1>1, <1>3, <1>4, <1>7, <1>8, <1>9, <1>10, AdvanceIsSound

LEMMA TimeoutStep ==
    ASSUME PacemakerInv, NEW n \in Node, HandleTimeout(n)
    PROVE  PacemakerInv'
<1> DEFINE t == view[n] + 1
<1>0. view[n] \in Views /\ view[n] < MaxView /\ MaxView \in Nat /\ n \in Validator
  BY PacemakerAssumption DEF PacemakerInv, TypeOK, HandleTimeout
<1>1. t \in Targets /\ t <= view[n] + 1
  BY <1>0 DEF Targets, Views
<1>2. /\ wished' = [wished EXCEPT ![n] = @ \cup {t}] /\ AddWish(n, n, t)
      /\ prepared' = prepared /\ wished \in [Node -> SUBSET Targets]
  BY DEF HandleTimeout, PacemakerInv, TypeOK
<1> HIDE DEF t
<1>3. /\ wished' \in [Node -> SUBSET Targets] /\ t \in wished'[n]
      /\ \A m \in Node : wished[m] \subseteq wished'[m]
  BY <1>1, <1>2
<1> QED BY <1>0, <1>1, <1>2, <1>3, WishIsSound

LEMMA WishStep ==
    ASSUME PacemakerInv, NEW n \in Node, NEW k \in Validator, NEW t \in Targets, OnWish(n, k, t)
    PROVE  PacemakerInv'
<1>1. /\ AddWish(n, k, t) /\ wished' = wished /\ (k \in Node => t \in wished[k])
      /\ t \in {view[n], view[n] + 1} /\ prepared' = prepared
  BY DEF OnWish
<1>2. view[n] \in Nat
  BY DEF PacemakerInv, TypeOK, Views
<1>3. t <= view[n] + 1
  BY <1>1, <1>2
<1>4. wished \in [Node -> SUBSET Targets]
  BY DEF PacemakerInv, TypeOK
<1>5. /\ wished' \in [Node -> SUBSET Targets] /\ (k \in Node => t \in wished'[k])
      /\ \A m \in Node : wished[m] \subseteq wished'[m]
  BY <1>1, <1>4
<1> QED BY <1>1, <1>3, <1>5, WishIsSound

LEMMA CertificateStep ==
    ASSUME PacemakerInv, NEW n \in Node, NEW m \in Node, NEW t \in Targets, OnTimeoutCert(n, m, t)
    PROVE  PacemakerInv'
<1> DEFINE W == wishes[n]
           dc == hasDC[n]
<1> USE DEF PacemakerInv
<1>0. /\ AdvanceViewTo(n, t, W, dc) /\ wished' = wished /\ prepared' = prepared
      /\ t \in sentTC[m]
      /\ sentTC' = [sentTC EXCEPT ![n] = IF ShouldRelayTC(n, t) THEN @ \cup {t} ELSE @]
  BY DEF OnTimeoutCert
<1>1. /\ W \in [Targets -> SUBSET Validator] /\ dc \in BOOLEAN /\ t \in Views
      /\ wished \in [Node -> SUBSET Targets] /\ sentTC \in [Node -> SUBSET Targets]
  BY DEF TypeOK, Targets, Views
<1>2. Backed(wished', t) /\ Earned(wished', prepared', t)
  BY <1>0 DEF CertificatesAreWanted, Earned
<1>3. sentTC' \in [Node -> SUBSET Targets] /\ wished' \in [Node -> SUBSET Targets]
  BY <1>0, <1>1
<1>4. \A k \in Node : \A u \in sentTC'[k] : Backed(wished', u)
  <2> SUFFICES ASSUME NEW k \in Node, NEW u \in sentTC'[k] PROVE Backed(wished', u)
    OBVIOUS
  <2>1. u \in sentTC[k] \/ u = t
    BY <1>0, <1>1
  <2> QED BY <1>0, <1>2, <2>1 DEF CertificatesAreWanted
<1>5. /\ \A u \in Targets : \A k \in W[u] \cap Node : u \in wished'[k]
      /\ \A u \in Targets : W[u] # {} => u <= view[n] + 1
      /\ \A k \in Node : wished[k] \subseteq wished'[k]
  BY <1>0 DEF WishesAreSent, TypeOK
<1> HIDE DEF W, dc
<1> QED BY <1>0, <1>1, <1>2, <1>3, <1>4, <1>5, AdvanceIsSound

LEMMA DoubleCertStep ==
    ASSUME PacemakerInv, NEW n \in Node, NEW v \in Targets,
           Earned(wished, prepared, v),
           AdvanceViewTo(n, v, wishes[n], TRUE), UNCHANGED <<wished, sentTC, prepared>>
    PROVE  PacemakerInv'
<1> DEFINE W == wishes[n]
<1> USE DEF PacemakerInv
<1>1. /\ W \in [Targets -> SUBSET Validator] /\ v \in Views /\ TRUE \in BOOLEAN
      /\ wished' \in [Node -> SUBSET Targets] /\ sentTC' \in [Node -> SUBSET Targets]
  BY DEF TypeOK, Targets, Views
<1>2. /\ \A u \in Targets : \A k \in W[u] \cap Node : u \in wished'[k]
      /\ \A u \in Targets : W[u] # {} => u <= view[n] + 1
      /\ \A k \in Node : wished[k] \subseteq wished'[k]
      /\ \A k \in Node : \A u \in sentTC'[k] : Backed(wished', u)
  BY DEF WishesAreSent, TypeOK, CertificatesAreWanted
<1>3. AdvanceViewTo(n, v, W, TRUE) /\ prepared' = prepared
      /\ (v > view[n] => Earned(wished', prepared', v))
  OBVIOUS
<1> HIDE DEF W
<1> QED BY <1>1, <1>2, <1>3, AdvanceIsSound

LEMMA PrepareStep ==
    ASSUME PacemakerInv, NEW n \in Node, OnPrepare(n)
    PROVE  PacemakerInv'
<1> USE DEF PacemakerInv
<1>1. /\ prepared' = [prepared EXCEPT ![n] = @ \cup {view[n]}]
      /\ UNCHANGED <<view, wished, wishes, sentTC, hasDC, proposed, cut>>
      /\ prepared \in [Node -> SUBSET Views] /\ view[n] \in Views
  BY DEF OnPrepare, TypeOK
<1>2. prepared' \in [Node -> SUBSET Views] /\ \A m \in Node : prepared[m] \subseteq prepared'[m]
  BY <1>1
<1>3. TypeOK'
  BY <1>1, <1>2 DEF TypeOK
<1>4. WishesAreSent' /\ CertificatesAreWanted'
  BY <1>1 DEF WishesAreSent, CertificatesAreWanted, Backed
<1>5. \A t : Earned(wished, prepared, t) => Earned(wished', prepared', t)
  <2>1. \A m \in Node : wished[m] \subseteq wished'[m]
    BY <1>1
  <2> QED BY <1>2, <2>1, EarningLasts
<1>6. EntriesAreEarned'
  BY <1>1, <1>5 DEF EntriesAreEarned
<1> QED BY <1>3, <1>4, <1>6

LEMMA StutterStep == ASSUME PacemakerInv, UNCHANGED vars PROVE PacemakerInv'
<1>1. \A t : Earned(wished, prepared, t) => Earned(wished', prepared', t)
  <2>1. wished' = wished /\ prepared' = prepared
    BY DEF vars
  <2> QED BY <2>1, EarningLasts
<1> QED BY <1>1 DEF PacemakerInv, vars, TypeOK, WishesAreSent, CertificatesAreWanted, Backed,
                    EntriesAreEarned

(***************************************************************************)
(* Every state of the pacemaker satisfies the invariant.                   *)
(***************************************************************************)
LEMMA PacemakerInvariant == Spec => []PacemakerInv
<1>1. ASSUME PacemakerInv, [Next]_vars PROVE PacemakerInv'
  <2>1. ASSUME NEW n \in Node, HandleTimeout(n) PROVE PacemakerInv'
    BY <1>1, <2>1, TimeoutStep
  <2>2. ASSUME NEW n \in Node, OnDoubleCertFormed(n) PROVE PacemakerInv'
    <3>1. PICK v \in Targets : v = view[n] + 1
      <4>1. view[n] \in 1..MaxView /\ view[n] < MaxView /\ MaxView \in Nat
        BY <1>1, <2>2, PacemakerAssumption DEF PacemakerInv, TypeOK, OnDoubleCertFormed, Views
      <4> QED BY <4>1 DEF Targets
    <3>2. v - 1 = view[n]
      BY <1>1, <3>1 DEF PacemakerInv, TypeOK, Views
    <3>3. AdvanceViewTo(n, v, wishes[n], TRUE) /\ UNCHANGED <<wished, sentTC, prepared>>
      BY <2>2, <3>1 DEF OnDoubleCertFormed
    <3>4. Earned(wished, prepared, v)
      BY <2>2, <3>2 DEF OnDoubleCertFormed, Doubled, Backed, Earned
    <3> QED BY <1>1, <3>3, <3>4, DoubleCertStep
  <2>3. ASSUME NEW n \in Node, NEW k \in Validator, NEW t \in Targets, OnWish(n, k, t)
        PROVE  PacemakerInv'
    BY <1>1, <2>3, WishStep
  <2>4. ASSUME NEW n \in Node, NEW m \in Node, NEW t \in Targets, OnTimeoutCert(n, m, t)
        PROVE  PacemakerInv'
    BY <1>1, <2>4, CertificateStep
  <2>5. ASSUME NEW n \in Node, NEW t \in Targets, OnPropose(n, t) PROVE PacemakerInv'
    <3>1. AdvanceViewTo(n, t, wishes[n], TRUE) /\ UNCHANGED <<wished, sentTC, prepared>>
      BY <2>5 DEF OnPropose
    <3>2. Earned(wished, prepared, t)
      BY <1>1, <2>5 DEF OnPropose, PacemakerInv, EntriesAreEarned
    <3> QED BY <1>1, <3>1, <3>2, DoubleCertStep
  <2>6. ASSUME NEW n \in Node, NEW t \in Targets, OnFaultyPropose(n, t) PROVE PacemakerInv'
    <3>1. AdvanceViewTo(n, t, wishes[n], TRUE) /\ UNCHANGED <<wished, sentTC, prepared>>
      BY <2>6 DEF OnFaultyPropose
    <3>2. Earned(wished, prepared, t)
      BY <2>6 DEF OnFaultyPropose, Doubled, Backed, Earned
    <3> QED BY <1>1, <3>1, <3>2, DoubleCertStep
  <2>7. ASSUME NEW n \in Node, OnPrepare(n) PROVE PacemakerInv'
    BY <1>1, <2>7, PrepareStep
  <2>8. CASE UNCHANGED vars
    BY <1>1, <2>8, StutterStep
  <2> QED BY <1>1, <2>1, <2>2, <2>3, <2>4, <2>5, <2>6, <2>7, <2>8 DEF Next
<1> QED BY <1>1, InitialState, PTL DEF Spec

-----------------------------------------------------------------------------
(***************************************************************************)
(* The type invariant, and with it the horizon of the Wish handler: a node *)
(* never holds a wish for a view later than its next one, whatever the     *)
(* other replicas wish for and in which order it arrives.                  *)
(***************************************************************************)
THEOREM PacemakerTypeCorrect == Spec => []TypeOK
BY PacemakerInvariant, PTL DEF PacemakerInv

(***************************************************************************)
(* No node is carried into a view by replicas that are less than a quorum, *)
(* neither by a certificate it forms in add_wish, nor by one that is       *)
(* relayed to it, nor by the votes of a view, nor by a leader's proposal:  *)
(* except by the fast-forward of a faulty replica's proposal to a view of  *)
(* its choice, for which there must be a double certificate at least.      *)
(***************************************************************************)
THEOREM ViewChangesAreEarned == Spec => []ViewsAreEarned
<1>1. PacemakerInv => ViewsAreEarned
  BY DEF PacemakerInv, EntriesAreEarned, Earned, Backed, ViewsAreEarned, Wanted, Doubled, Named
<1> QED BY <1>1, PacemakerInvariant, PTL

=============================================================================
