----------------------------- MODULE Pacemaker -----------------------------
(***************************************************************************)
(* How replicas leave a view (pacemaker.rs, and the engine's timeout, Wish,*)
(* TimeoutCert, Vote2 and fast-forward handlers): by a timeout certificate *)
(* made of a quorum of wishes, by the double certificate of the view,      *)
(* which any replica forms that gets the votes, or by a proposal from a    *)
(* later view that carries a double certificate.                           *)
(*                                                                         *)
(* A timer may fire at any time, and does so again and again: the backoff  *)
(* is capped.  What has been sent may arrive at any later time, twice or   *)
(* never; what must arrive is a matter of Fairness.  Replicas that are not *)
(* in Node vote, wish, pass votes on, propose with any double certificate  *)
(* there is, or stay silent, as they like.                                 *)
(***************************************************************************)
EXTENDS Naturals, FiniteSets, Functions

CONSTANTS
    Validator,
    Node,        \* the replicas that follow the protocol
    Power,       \* voting power
    Leader,      \* leader_for_view
    EpochOf,     \* the epoch of a view
    MaxView,     \* bound: replicas rest in this view
    FaultyWishes, \* bound: <<n, t>>, the other replicas may wish for t at n
    FaultyProposals, \* bound: <<n, t>>, they may send n a proposal of view t
    Prepares,    \* bound: <<n, v>>, node n may get the first certificate of view v
    Cuts,        \* the sets of broken links <<from, to>> to consider
    CutKinds     \* the kinds of messages that do not get over a broken link

Views == 1..MaxView
Targets == 2..MaxView

ASSUME PacemakerAssumption ==
    /\ Node \subseteq Validator /\ IsFiniteSet(Validator)
    /\ Power \in [Validator -> Nat] /\ MaxView \in Nat \ {0}
    /\ Leader \in [Views -> Validator] /\ EpochOf \in [Views -> Nat]
    /\ FaultyWishes \subseteq Node \X Targets /\ FaultyProposals \subseteq Node \X Targets
    /\ Prepares \subseteq Node \X Views /\ Cuts \subseteq SUBSET (Node \X Node)

VARIABLES
    view,      \* state.current_view of every node
    wished,    \* the views a node has broadcast a wish for
    wishes,    \* pacemaker.wishes: who wishes for a view, as a node knows it
    sentTC,    \* the views a node has broadcast or relayed a certificate to
    prepared,  \* the views whose first certificate a node has, and voted for in a Vote2
    hasDC,     \* whether highest_double_cert is set
    proposed,  \* the views whose leader has sent a proposal with a double certificate
    cut        \* the links that are broken in this behaviour

vars == <<view, wished, wishes, sentTC, prepared, hasDC, proposed, cut>>

PowerOf(S) == SumFunctionOnSet(Power, S)

Quorums == {S \in SUBSET Validator :
                PowerOf(S) >= (PowerOf(Validator) * 2) \div 3 + 1}

(* The epoch of node n and the last one.                                   *)
VerificationEpochs(n) == {EpochOf[view[n]], EpochOf[view[n]] - 1}

(* verify_message: what node n accepts is signed in one of them.           *)
Verifies(n, epoch) == epoch \in VerificationEpochs(n)

Reaches(kind, m, n) == kind \in CutKinds => <<m, n>> \notin cut

-----------------------------------------------------------------------------
(* What advance_view_to keeps of the wishes: nothing at the start of an    *)
(* epoch.                                                                  *)
Kept(W, old, fresh) ==
    [t \in Targets |-> IF fresh \/ t <= old THEN {} ELSE W[t]]

(***************************************************************************)
(* Node n, with the wishes W, moves to view v if that is a later one: old  *)
(* wishes are dropped, and the leader of v proposes at once, with its      *)
(* highest double certificate.                                             *)
(***************************************************************************)
AdvanceViewTo(n, v, W, dc) ==
    LET moves == v > view[n]
        fresh == EpochOf[v] # EpochOf[view[n]]
    IN  /\ view' = [view EXCEPT ![n] = IF moves THEN v ELSE @]
        /\ wishes' = [wishes EXCEPT ![n] = IF moves THEN Kept(W, view[n], fresh) ELSE W]
        /\ hasDC' = [hasDC EXCEPT ![n] = dc]
        /\ proposed' = IF moves /\ Leader[v] = n /\ dc THEN proposed \cup {v} ELSE proposed
        /\ UNCHANGED cut

(* Fault: a certificate names the view it leads to, not the one it ends.   *)
AddWish_TargetView(n, k, t) ==
    LET W == [wishes[n] EXCEPT ![t] = @ \cup {k}]
        forms == k \notin wishes[n][t] /\ W[t] \in Quorums
    IN  /\ sentTC' = [sentTC EXCEPT ![n] = IF forms THEN @ \cup ({t + 1} \cap Targets) ELSE @]
        /\ AdvanceViewTo(n, IF forms THEN t ELSE view[n], W, hasDC[n])

(* add_wish: the first wish of a validator counts; a quorum of wishes, and *)
(* every further wish, yields a certificate, which is broadcast and        *)
(* followed.                                                               *)
AddWish(n, k, t) ==
    LET W == [wishes[n] EXCEPT ![t] = @ \cup {k}]
        forms == k \notin wishes[n][t] /\ W[t] \in Quorums
    IN  /\ sentTC' = [sentTC EXCEPT ![n] = IF forms THEN @ \cup {t} ELSE @]
        /\ AdvanceViewTo(n, IF forms THEN t ELSE view[n], W, hasDC[n])

(* handle_timeout: the wish for the next view, each time the timer fires.  *)
HandleTimeout(n) ==
    /\ view[n] < MaxView /\ Power[n] > 0
    /\ wished' = [wished EXCEPT ![n] = @ \cup {view[n] + 1}]
    /\ AddWish(n, n, view[n] + 1)
    /\ UNCHANGED prepared

(* Fault: wishes for any later view are collected.                         *)
OnWish_NoHorizon(n, k, t) ==
    /\ k # n /\ IF k \in Node THEN t \in wished[k] /\ Reaches("wish", k, n)
                 ELSE <<n, t>> \in FaultyWishes
    /\ t >= view[n] /\ Verifies(n, EpochOf[t - 1]) /\ k \notin wishes[n][t]
    /\ AddWish(n, k, t)
    /\ UNCHANGED <<wished, prepared>>

(* Wishes for the current view or the next one are counted, once.          *)
OnWish(n, k, t) ==
    /\ k # n /\ IF k \in Node THEN t \in wished[k] /\ Reaches("wish", k, n)
                 ELSE <<n, t>> \in FaultyWishes
    /\ t \in {view[n], view[n] + 1} /\ Verifies(n, EpochOf[t - 1])
    /\ k \notin wishes[n][t]
    /\ AddWish(n, k, t)
    /\ UNCHANGED <<wished, prepared>>

(* Fault: a certificate that arrives is not passed on.                     *)
ShouldRelayTC_Never(n, t) == FALSE

(* should_relay_tc: the first copy of a certificate that does not lie      *)
(* behind is passed on.                                                    *)
ShouldRelayTC(n, t) == t >= view[n] /\ t \notin sentTC[n]

OnTimeoutCert(n, m, t) ==
    /\ m # n /\ t \in sentTC[m] /\ Reaches("tc", m, n)
    /\ (t > view[n] \/ ShouldRelayTC(n, t)) /\ Verifies(n, EpochOf[t - 1])
    /\ sentTC' = [sentTC EXCEPT ![n] = IF ShouldRelayTC(n, t) THEN @ \cup {t} ELSE @]
    /\ AdvanceViewTo(n, t, wishes[n], hasDC[n])
    /\ UNCHANGED <<wished, prepared>>

-----------------------------------------------------------------------------
(* Double certificates.                                                    *)

(* The leader of the view has a certificate from a quorum that has been    *)
(* there, or is faulty; the node gets it and sends its Vote2.              *)
OnPrepare(n) ==
    /\ <<n, view[n]>> \in Prepares /\ view[n] \notin prepared[n]
    /\ {m \in Validator : m \in Node => view[m] >= view[n]} \in Quorums
    /\ prepared' = [prepared EXCEPT ![n] = @ \cup {view[n]}]
    /\ UNCHANGED <<view, wished, wishes, sentTC, hasDC, proposed, cut>>

(* There is a double certificate of view v, or faulty votes can complete   *)
(* it.                                                                     *)
Doubled(v) == {m \in Validator : m \in Node => v \in prepared[m]} \in Quorums

(* Vote2s are sent to the next leader and relayed, so that any node may    *)
(* get a quorum of them; one that lacks the first certificate drops them.  *)
OnDoubleCertFormed(n) ==
    /\ view[n] < MaxView /\ view[n] \in prepared[n] /\ Doubled(view[n])
    /\ AdvanceViewTo(n, view[n] + 1, wishes[n], TRUE)
    /\ UNCHANGED <<wished, sentTC, prepared>>

(* The fast-forward of a leader's proposal from a later view;              *)
(* verify_message wants it signed in the node's epoch or the last one.     *)
OnPropose(n, t) ==
    /\ t \in proposed /\ Reaches("proposal", Leader[t], n)
    /\ t > view[n] /\ Verifies(n, EpochOf[t])
    /\ AdvanceViewTo(n, t, wishes[n], TRUE)
    /\ UNCHANGED <<wished, sentTC, prepared>>

(* The same for the proposal of a faulty replica, which need not lead the  *)
(* view: who leads it is asked only after the fast-forward.  The double    *)
(* certificate may be an old one.                                          *)
OnFaultyPropose(n, t) ==
    /\ <<n, t>> \in FaultyProposals /\ t > view[n]
    /\ \E v \in Views : Doubled(v) /\ Verifies(n, EpochOf[v])
    /\ AdvanceViewTo(n, t, wishes[n], TRUE)
    /\ UNCHANGED <<wished, sentTC, prepared>>

-----------------------------------------------------------------------------
Init == /\ view = [n \in Node |-> 1]
        /\ wished = [n \in Node |-> {}]
        /\ wishes = [n \in Node |-> [t \in Targets |-> {}]]
        /\ sentTC = [n \in Node |-> {}]
        /\ prepared = [n \in Node |-> {}]
        /\ hasDC = [n \in Node |-> FALSE]
        /\ proposed = {}
        /\ cut \in Cuts

Next ==
    \E n \in Node :
        \/ HandleTimeout(n)
        \/ OnPrepare(n)
        \/ OnDoubleCertFormed(n)
        \/ \E k \in Validator, t \in Targets : OnWish(n, k, t)
        \/ \E m \in Node, t \in Targets : OnTimeoutCert(n, m, t)
        \/ \E t \in Targets : OnPropose(n, t) \/ OnFaultyPropose(n, t)

(***************************************************************************)
(* The timer of a node fires again as long as it stays in its view.  A     *)
(* wish that its sender keeps repeating arrives in the end; one that it    *)
(* does not repeat may be lost.  A certificate and a proposal are sent     *)
(* once, and arrive over every link that is not broken.  Nothing makes a   *)
(* view succeed, no Vote2 need be relayed to anybody, and nothing makes a  *)
(* faulty replica do anything.                                             *)
(***************************************************************************)
Receive(n) ==
    \/ \E k \in Node, t \in Targets : view[k] = t - 1 /\ OnWish(n, k, t)
    \/ \E m \in Node, t \in Targets : OnTimeoutCert(n, m, t)
    \/ \E t \in Targets : OnPropose(n, t)

Fairness == \A n \in Node : WF_vars(HandleTimeout(n)) /\ WF_vars(Receive(n))

Spec == Init /\ [][Next]_vars /\ Fairness

-----------------------------------------------------------------------------
(* Properties.                                                             *)

(* The buckets of wishes stay within the horizon of the Wish handler, "an  *)
(* unbounded memory sink" otherwise.                                       *)
TypeOK ==
    /\ view \in [Node -> Views] /\ cut \in Cuts
    /\ wished \in [Node -> SUBSET Targets] /\ sentTC \in [Node -> SUBSET Targets]
    /\ wishes \in [Node -> [Targets -> SUBSET Validator]]
    /\ prepared \in [Node -> SUBSET Views]
    /\ hasDC \in [Node -> BOOLEAN] /\ proposed \subseteq Targets
    /\ \A n \in Node, t \in Targets :
           wishes[n][t] # {} => t <= view[n] + 1

(* A quorum, faulty replicas included, has wished for view t.              *)
Wanted(t) == {m \in Validator : m \in Node => t \in wished[m]} \in Quorums

(* A faulty replica may have named view t in a proposal with some double   *)
(* certificate.                                                            *)
Named(t) == (\E m \in Node : <<m, t>> \in FaultyProposals) /\ \E v \in Views : Doubled(v)

(***************************************************************************)
(* Replicas of less power than a quorum carry nobody into a view on their  *)
(* own: a quorum has wished for exactly this view or has ended the one     *)
(* before it.  The one exception is the fast-forward, which takes a faulty *)
(* replica's word for the view; it, too, needs a double certificate.  What *)
(* a correct leader passes on counts for nothing more.                     *)
(***************************************************************************)
ViewsAreEarned ==
    \A n \in Node :
        view[n] = 1 \/ Wanted(view[n]) \/ Doubled(view[n] - 1) \/ Named(view[n])

(* Somebody calls the others to view v: its leader with a proposal, or a   *)
(* node with a timeout certificate.                                        *)
Announced(v) == v \in proposed \/ \E n \in Node : v \in sentTC[n]

(***************************************************************************)
(* Every replica gets through every view, also when no view succeeds, a    *)
(* replica is silent and a link is broken: "The pacemaker ensures liveness *)
(* by detecting stalled views and advancing to the next view."  The views  *)
(* stop only when a replica stays for good in one that nobody calls the    *)
(* others to: it went there alone, by a double certificate that the next   *)
(* leader did not form or by a faulty replica's proposal, and its wishes   *)
(* are beyond the others' horizon.                                         *)
(***************************************************************************)
ViewsAdvance ==
    \/ <>(\A n \in Node : view[n] = MaxView)
    \/ <>[](\E n \in Node : view[n] # 1 /\ ~Announced(view[n]))

=============================================================================
