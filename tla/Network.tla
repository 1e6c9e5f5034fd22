------------------------------ MODULE Network -------------------------------
(***************************************************************************)
(* The network service (hotmint-network/service.rs): which peers hold a    *)
(* connection slot, which of them have an open stream, which peer each     *)
(* validator is reached at, and which messages of the consensus are passed *)
(* on.  One action is one arm of the service's select!; the events of the  *)
(* connections and of the two notification protocols come over channels of *)
(* their own, which select! serves in any order.                           *)
(*                                                                         *)
(* A peer is named by its key: a validator's node signs with the key that  *)
(* also gives its peer id.  Budgets, rate limits and full queues that drop *)
(* a message are steps that change nothing.                                *)
(***************************************************************************)
EXTENDS Naturals, SequencesExt

CONSTANTS
    Peer,           \* peers, that is keys
    OnChain,        \* the peers whose handshake carries our chain_id_hash
    Sets,           \* Sets[e]: the validators of epoch e in order, records [id, key]
    LeaderOf,       \* LeaderOf[e][v]: the leader of view v in epoch e
    Message,        \* messages of the consensus that may arrive
    OwnMessage,     \* those the node's own engine sends
    DedupLimit,     \* how many messages a dedup set holds before it rotates
    Settings        \* configurations of the node, with the bounds of a run

ASSUME NetworkAssumption ==
    /\ IsFiniteSet(Peer) /\ OnChain \subseteq Peer /\ OwnMessage \subseteq Message
    /\ DedupLimit \in Nat
    /\ Sets \in Seq(Seq([id : Nat, key : Peer])) /\ Len(Sets) > 0
    /\ \A e \in DOMAIN Sets : \A i, j \in DOMAIN Sets[e] :
           i # j => Sets[e][i].id # Sets[e][j].id /\ Sets[e][i].key # Sets[e][j].key

Kinds == {"notif", "mempool"}

KeysOf(set) == [id \in {s.id : s \in Range(set)} |->
                   (CHOOSE s \in Range(set) : s.id = id).key]

ASSUME SettingsAssumption ==
    \A s \in Settings :
        /\ s.max_peers \in Nat /\ s.max_txs \in Nat
        /\ s.relay_consensus \in BOOLEAN
        /\ s.churn \in Nat /\ s.epochs \in DOMAIN Sets /\ s.floods \in Nat
        /\ s.inbox \in Nat /\ s.sync_queue \in Nat
        /\ s.kinds \subseteq Kinds /\ s.dialers \subseteq Peer
        /\ s.persistent_peers \in Seq(DOMAIN KeysOf(Sets[1]))

VARIABLES
    setting,     \* this node's configuration
    wire,        \* the transport: who is up, which streams are open, the
                 \* events the service has not taken yet
    connected,   \* connected_peers
    streams,     \* notif_connected_peers, mempool_notif_connected_peers
    routes,      \* peer_map: validator_to_peer and peer_to_validator
    keys,        \* validator_keys, the keys of current_validator_set
    epoch,       \* current_epoch
    notice,      \* the epoch in the watch channel not yet seen, 0 for none
    seen,        \* seen_active and seen_backup
    inbox,       \* msg_tx: messages the engine has not taken, with their sender
    syncReqs,    \* sync_req_tx: peers whose requests for blocks wait
    churn,       \* history: connections made or lost
    flooded,     \* history: messages sent out, with whether they were ours
    everRouted   \* history: peers that were in the map

netVars == <<setting, wire, connected, streams, routes, keys, epoch, notice,
             seen, inbox, syncReqs, churn, flooded, everRouted>>

-----------------------------------------------------------------------------
(* The map between validators and peers.                                   *)

Without(f, x) == [y \in DOMAIN f \ {x} |-> f[y]]
With(f, x, v) == [y \in DOMAIN f \cup {x} |-> IF y = x THEN v ELSE f[y]]

EmptyMap == [v2p |-> <<>>, p2v |-> <<>>]

(* Fault: a peer that another validator had is not taken from it.          *)
InsertRoute_KeepsForward(map, vid, pid) ==
    LET p2v == IF vid \in DOMAIN map.v2p THEN Without(map.p2v, map.v2p[vid]) ELSE map.p2v
    IN  [v2p |-> With(map.v2p, vid, pid), p2v |-> With(p2v, pid, vid)]

InsertRoute(map, vid, pid) ==
    LET p2v == IF vid \in DOMAIN map.v2p THEN Without(map.p2v, map.v2p[vid]) ELSE map.p2v
        v2p == With(map.v2p, vid, pid)
    IN  [v2p |-> IF pid \in DOMAIN p2v /\ p2v[pid] # vid THEN Without(v2p, p2v[pid]) ELSE v2p,
         p2v |-> With(p2v, pid, vid)]

RemoveRoute(vid, map) == [v2p |-> Without(map.v2p, vid),
                     p2v |-> Without(map.p2v, map.v2p[vid])]

Routed(p) == p \in DOMAIN routes.p2v

-----------------------------------------------------------------------------
(* The transport (litep2p), as the service sees it.                        *)

Connect(p) ==
    /\ p \in setting.dialers \ wire.up /\ churn < setting.churn
    /\ wire' = [wire EXCEPT !.up = @ \cup {p}, !.conn[p] = Append(@, "established")]
    /\ churn' = churn + 1
    /\ UNCHANGED <<setting, inbox, syncReqs, connected, streams, routes, keys,
                   epoch, notice, seen, flooded, everRouted>>

(* A connection drops; the closing of its streams may go unreported.       *)
Disconnect(p) ==
    /\ p \in wire.up /\ churn < setting.churn
    /\ churn' = churn + 1
    /\ \E told \in SUBSET {k \in Kinds : p \in wire.open[k]} :
           wire' = [up   |-> wire.up \ {p},
                    conn |-> [wire.conn EXCEPT ![p] = Append(@, "closed")],
                    open |-> [k \in Kinds |-> wire.open[k] \ {p}],
                    strm |-> [k \in Kinds |-> IF k \in told
                                THEN [wire.strm[k] EXCEPT ![p] = Append(@, "closed")]
                                ELSE wire.strm[k]]]
    /\ UNCHANGED <<setting, inbox, syncReqs, connected, streams, routes, keys,
                   epoch, notice, seen, flooded, everRouted>>

(* Either side opens a stream; ValidateSubstream accepts our chain's peers. *)
ValidateSubstream(k, p) ==
    /\ k \in setting.kinds /\ p \in wire.up \ wire.open[k]
    /\ p \in OnChain
    /\ wire' = [wire EXCEPT !.open[k] = @ \cup {p}, !.strm[k][p] = Append(@, "opened")]
    /\ UNCHANGED <<setting, inbox, syncReqs, connected, streams, routes, keys,
                   epoch, notice, seen, churn, flooded, everRouted>>

-----------------------------------------------------------------------------
(* Connections.                                                            *)

(* Fault: a validator at the limit is admitted beside everybody else.      *)
Evictable_Nobody(admitted) == {}

(* The peers one of which makes room for a validator.                      *)
Evictable(admitted) ==
    IF Cardinality(admitted) < setting.max_peers THEN {} ELSE {p \in admitted : ~Routed(p)}

(***************************************************************************)
(* handle_litep2p_event, ConnectionEstablished: at the limit a peer that   *)
(* is no validator is ignored, and a validator takes the place of one.     *)
(***************************************************************************)
ConnectionEstablished(p) ==
    /\ wire.conn[p] # <<>> /\ Head(wire.conn[p]) = "established"
    /\ wire' = [wire EXCEPT !.conn[p] = Tail(@)]
    /\ \/ /\ ~Routed(p) /\ Cardinality(connected) >= setting.max_peers
          /\ UNCHANGED <<connected, streams>>
       \/ /\ Routed(p) \/ Cardinality(connected) < setting.max_peers
          /\ LET out == IF Routed(p) THEN Evictable(connected) ELSE {}
             IN  \E evicted \in IF out = {} THEN {{}} ELSE {{q} : q \in out} :
                     /\ connected' = (connected \ evicted) \cup {p}
                     /\ streams' = [k \in Kinds |-> streams[k] \ evicted]
    /\ UNCHANGED <<setting, inbox, syncReqs, routes, keys, epoch, notice, seen,
                   churn, flooded, everRouted>>

(* Fault: the streams are left to the events of their own protocols.       *)
ConnectionClosed_KeepsStreams(p) ==
    /\ wire.conn[p] # <<>> /\ Head(wire.conn[p]) = "closed"
    /\ wire' = [wire EXCEPT !.conn[p] = Tail(@)]
    /\ connected' = connected \ {p}
    /\ UNCHANGED <<setting, inbox, syncReqs, streams, routes, keys, epoch, notice,
                   seen, churn, flooded, everRouted>>

(* ConnectionClosed: the streams are forgotten with the connection.        *)
ConnectionClosed(p) ==
    /\ wire.conn[p] # <<>> /\ Head(wire.conn[p]) = "closed"
    /\ wire' = [wire EXCEPT !.conn[p] = Tail(@)]
    /\ connected' = connected \ {p}
    /\ streams' = [k \in Kinds |-> streams[k] \ {p}]
    /\ UNCHANGED <<setting, inbox, syncReqs, routes, keys, epoch, notice, seen,
                   churn, flooded, everRouted>>

(* NotificationStreamOpened, of both protocols.                            *)
StreamOpened(k, p) ==
    /\ wire.strm[k][p] # <<>> /\ Head(wire.strm[k][p]) = "opened"
    /\ wire' = [wire EXCEPT !.strm[k][p] = Tail(@)]
    /\ streams' = IF Routed(p) \/ p \in connected
                  THEN [streams EXCEPT ![k] = @ \cup {p}] ELSE streams
    /\ UNCHANGED <<setting, inbox, syncReqs, connected, routes, keys, epoch,
                   notice, seen, churn, flooded, everRouted>>

(* NotificationStreamClosed, of both protocols.                            *)
StreamClosed(k, p) ==
    /\ wire.strm[k][p] # <<>> /\ Head(wire.strm[k][p]) = "closed"
    /\ wire' = [wire EXCEPT !.strm[k][p] = Tail(@)]
    /\ streams' = [streams EXCEPT ![k] = @ \ {p}]
    /\ UNCHANGED <<setting, inbox, syncReqs, connected, routes, keys, epoch,
                   notice, seen, churn, flooded, everRouted>>

-----------------------------------------------------------------------------
(* Messages of the consensus: records [kind, by, epoch, view, signers,     *)
(* signed], by the author named in the message, epoch the one it was       *)
(* signed in, signed whether its signatures are genuine.                   *)

(* should_accept_consensus_from_peer.                                      *)
ShouldAccept(sender, m) ==
    /\ m.kind \in {"propose", "vote", "wish", "status"} => m.by \in DOMAIN keys
    /\ m.kind = "status" => m.by = sender

(* verify_relay_sender: genuine under the current epoch and keys; a        *)
(* Prepare only from the leader itself, a timeout certificate by count.    *)
VerifyRelaySender(sender, m, leader) ==
    CASE m.kind \in {"propose", "vote", "wish"} ->
             m.by \in DOMAIN keys /\ m.signed /\ m.epoch = epoch
      [] m.kind = "prepare" ->
             sender = leader /\ sender = m.by /\ m.signed /\ m.epoch = epoch
      [] m.kind = "tc" ->
             /\ m.signed /\ m.epoch = epoch /\ m.signers \subseteq DOMAIN keys
             /\ Cardinality(m.signers) * 3 > Cardinality(DOMAIN keys) * 2
      [] OTHER -> sender \in DOMAIN keys

ShouldRelay(sender, m) ==
    /\ m.kind # "status"
    /\ VerifyRelaySender(sender, m, LeaderOf[epoch][m.view])

(* Fault: the set filled before the last rotation is not looked at.        *)
AlreadySeen_ActiveOnly(m) == m \in seen.active

AlreadySeen(m) == m \in seen.active \cup seen.backup

(* Insertion in the active set, which rotates when it is full.             *)
Mark(s, m) ==
    LET active == s.active \cup {m}
    IN  IF Cardinality(active) > DedupLimit THEN [active |-> {}, backup |-> active]
        ELSE [s EXCEPT !.active = active]

(* relay_consensus_message: sent to every open stream but the sender's.    *)
Relay(m) ==
    IF AlreadySeen(m) THEN UNCHANGED <<seen, flooded>>
    ELSE /\ seen' = Mark(seen, m)
         /\ flooded' = Append(flooded, [msg |-> m, own |-> FALSE])

(***************************************************************************)
(* NotificationReceived: from a validator of the map, accepted, given to   *)
(* the engine if its queue has room, and relayed all the same if the node  *)
(* relays.  The step is shown where it changes the service.                *)
(***************************************************************************)
OnNotification(p, m) ==
    /\ p \in wire.open["notif"] /\ Routed(p)
    /\ ShouldAccept(routes.p2v[p], m)
    /\ LET relays == setting.relay_consensus /\ ShouldRelay(routes.p2v[p], m)
           room   == Len(inbox) < setting.inbox
       IN  /\ relays \/ room
           /\ inbox' = IF room THEN Append(inbox, [from |-> routes.p2v[p], msg |-> m])
                       ELSE inbox
           /\ IF relays THEN Len(flooded) < setting.floods /\ Relay(m)
              ELSE UNCHANGED <<seen, flooded>>
    /\ UNCHANGED <<setting, syncReqs, wire, connected, streams, routes, keys,
                   epoch, notice, churn, everRouted>>

(* A request of a validator, which needs a connection but no stream: given *)
(* to the engine, or rejected.                                             *)
OnRequest(p, m) ==
    /\ p \in wire.up /\ Routed(p)
    /\ ShouldAccept(routes.p2v[p], m)
    /\ Len(inbox) < setting.inbox
    /\ inbox' = Append(inbox, [from |-> routes.p2v[p], msg |-> m])
    /\ UNCHANGED <<setting, syncReqs, wire, connected, streams, routes, keys,
                   epoch, notice, seen, churn, flooded, everRouted>>

(* The engine takes a message.                                             *)
EngineReceive ==
    /\ inbox # <<>>
    /\ inbox' = Tail(inbox)
    /\ UNCHANGED <<setting, syncReqs, wire, connected, streams, routes, keys,
                   epoch, notice, seen, churn, flooded, everRouted>>

(* NetCommand::Broadcast: our own messages are marked as seen.             *)
Broadcast(m) ==
    /\ Len(flooded) < setting.floods
    /\ seen' = Mark(seen, m)
    /\ flooded' = Append(flooded, [msg |-> m, own |-> TRUE])
    /\ UNCHANGED <<setting, inbox, syncReqs, wire, connected, streams, routes,
                   keys, epoch, notice, churn, everRouted>>

-----------------------------------------------------------------------------
(* Requests for blocks.                                                    *)

(* handle_sync_event, RequestReceived: only from a peer with an admitted   *)
(* stream; a full queue rejects.                                           *)
OnSyncRequest(p) ==
    /\ p \in wire.up /\ p \in streams["notif"]
    /\ Len(syncReqs) < setting.sync_queue
    /\ syncReqs' = Append(syncReqs, p)
    /\ UNCHANGED <<setting, inbox, wire, connected, streams, routes, keys, epoch,
                   notice, seen, churn, flooded, everRouted>>

(* The responder takes a request and answers it, wherever the peer is now. *)
SyncRespond ==
    /\ syncReqs # <<>>
    /\ syncReqs' = Tail(syncReqs)
    /\ UNCHANGED <<setting, inbox, wire, connected, streams, routes, keys, epoch,
                   notice, seen, churn, flooded, everRouted>>

-----------------------------------------------------------------------------
(* Epochs.                                                                 *)

(* on_epoch_change: the watch channel keeps the latest epoch.  Only        *)
(* advance_view_to calls it; an epoch that a commit activates              *)
(* (adopt_commit_epoch) is never announced, and not an epoch here.         *)
AnnounceEpoch ==
    /\ LET latest == IF notice # 0 THEN notice ELSE epoch
       IN  latest < setting.epochs /\ notice' = latest + 1
    /\ UNCHANGED <<setting, inbox, syncReqs, wire, connected, streams, routes,
                   keys, epoch, seen, churn, flooded, everRouted>>

(* A validator whose key did not change keeps its route.                   *)
Reroute(map, s) ==
    IF s.id \in DOMAIN map.v2p /\ s.id \in DOMAIN keys /\ keys[s.id] = s.key
    THEN map ELSE InsertRoute(map, s.id, s.key)

(***************************************************************************)
(* handle_epoch_change: routes for the new validators and keys, in the     *)
(* order of the set, then none for the validators that left.               *)
(***************************************************************************)
HandleEpochChange ==
    /\ notice # 0
    /\ LET set == Sets[notice]
           new == FoldLeft(Reroute, routes, set)
           gone == DOMAIN new.v2p \ DOMAIN KeysOf(set)
       IN  /\ routes' = FoldSet(RemoveRoute, new, gone)
           /\ keys' = KeysOf(set)
    /\ epoch' = notice /\ notice' = 0
    /\ everRouted' = everRouted \cup DOMAIN routes'.p2v
    /\ UNCHANGED <<setting, inbox, syncReqs, wire, connected, streams, seen,
                   churn, flooded>>

-----------------------------------------------------------------------------
(* parse_persistent_peers: validators of genesis the node is told of.      *)
ConfiguredRoute(map, vid) == InsertRoute(map, vid, KeysOf(Sets[1])[vid])

ConfiguredRoutes == FoldLeft(ConfiguredRoute, EmptyMap, setting.persistent_peers)

(* create: the set of genesis, and the epoch the node was restored in.     *)
NetInit ==
    /\ setting \in Settings
    /\ wire = [up |-> {}, conn |-> [p \in Peer |-> <<>>],
               open |-> [k \in Kinds |-> {}],
               strm |-> [k \in Kinds |-> [p \in Peer |-> <<>>]]]
    /\ connected = {} /\ streams = [k \in Kinds |-> {}]
    /\ routes = ConfiguredRoutes
    /\ keys = KeysOf(Sets[1]) /\ epoch = 1
    /\ notice \in 1..setting.epochs
    /\ seen = [active |-> {}, backup |-> {}] /\ inbox = <<>> /\ syncReqs = <<>>
    /\ churn = 0 /\ flooded = <<>> /\ everRouted = DOMAIN routes.p2v

-----------------------------------------------------------------------------
(***************************************************************************)
(* The two maps are inverse to each other, and once the service has taken  *)
(* the announced epoch they hold exactly the keys of its validators,       *)
(* whatever keys were rotated, swapped or taken over on the way.           *)
(***************************************************************************)
RoutesMatchSet ==
    /\ \A v \in DOMAIN routes.v2p :
           routes.v2p[v] \in DOMAIN routes.p2v /\ routes.p2v[routes.v2p[v]] = v
    /\ \A p \in DOMAIN routes.p2v :
           routes.p2v[p] \in DOMAIN routes.v2p /\ routes.v2p[routes.p2v[p]] = p
    /\ notice = 0 => routes.v2p = keys

(* Slots beyond max_peers are only ever held by peers that are or were     *)
(* validators.                                                             *)
SlotsAreForValidators ==
    Cardinality(connected) > setting.max_peers => connected \subseteq everRouted

(* A peer that was never a validator is served over its streams only while *)
(* it holds a slot, and no peer of another chain ever is, nor are blocks   *)
(* served to one, although the events of streams and connections may be    *)
(* taken in any order or be lost.                                          *)
StreamsAreAdmitted ==
    /\ \A k \in Kinds : streams[k] \subseteq OnChain \cap (connected \cup everRouted)
    /\ Range(syncReqs) \subseteq OnChain

(***************************************************************************)
(* A message is passed on a second time only after more than DedupLimit    *)
(* others have gone out since, even across a rotation of the sets, and     *)
(* when the first time was our own broadcast.                              *)
(***************************************************************************)
NoEchoFlood ==
    \A j \in DOMAIN flooded : \A i \in 1..(j - 1) :
        ~flooded[j].own /\ flooded[i].msg = flooded[j].msg =>
            Cardinality({flooded[n].msg : n \in (i + 1)..(j - 1)}) > DedupLimit

=============================================================================
