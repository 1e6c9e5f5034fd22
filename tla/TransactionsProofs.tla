-------------------------- MODULE TransactionsProofs --------------------------
(***************************************************************************)
(* Proofs about the network service and the way of transactions: who holds *)
(* slots and streams, that no message echoes, that the routes follow the   *)
(* validator sets, what the pool holds and why something leaves it, and    *)
(* that payloads are greedy.                                               *)
(***************************************************************************)
EXTENDS Transactions, Recursion

-----------------------------------------------------------------------------
(* Who holds a slot or a stream.                                           *)

Wire == [up : SUBSET Peer, conn : [Peer -> Seq({"established", "closed"})],
         open : [Kinds -> SUBSET Peer],
         strm : [Kinds -> [Peer -> Seq({"opened", "closed"})]]]

(* Only peers of our chain open streams, and events tell of no others.     *)
OurChain(w) == /\ \A k \in Kinds : w.open[k] \subseteq OnChain
               /\ \A k \in Kinds, p \in Peer : w.strm[k][p] # <<>> => p \in OnChain

Admission ==
    /\ setting \in Settings /\ wire \in Wire /\ connected \subseteq Peer
    /\ streams \in [Kinds -> SUBSET Peer]
    /\ epoch \in 1..Len(Sets) /\ notice \in 0..Len(Sets)
    /\ Range(syncReqs) \subseteq OnChain /\ syncReqs \in Seq(Peer)
    /\ Len(syncReqs) <= setting.sync_queue
    /\ DOMAIN routes.p2v \subseteq everRouted
    /\ OurChain(wire)

AdmissionInv == Admission /\ SlotsAreForValidators /\ StreamsAreAdmitted

LEMMA NetworkConstants ==
    /\ IsFiniteSet(Peer) /\ OnChain \subseteq Peer /\ DedupLimit \in Nat
    /\ Len(Sets) \in Nat \ {0} /\ DOMAIN Sets = 1..Len(Sets)
    /\ \A s \in Settings : /\ s.max_peers \in Nat /\ s.epochs \in 1..Len(Sets)
                           /\ s.sync_queue \in Nat /\ s.inbox \in Nat /\ s.max_txs \in Nat
<1>1. Len(Sets) \in Nat \ {0} /\ DOMAIN Sets = 1..Len(Sets)
  BY NetworkAssumption
<1> QED BY <1>1, NetworkAssumption, SettingsAssumption

(* The fields of the transport make it up.                                 *)
LEMMA WireFields ==
    ASSUME NEW w, w = [up |-> w.up, conn |-> w.conn, open |-> w.open, strm |-> w.strm],
           w.up \in SUBSET Peer, w.conn \in [Peer -> Seq({"established", "closed"})],
           w.open \in [Kinds -> SUBSET Peer],
           w.strm \in [Kinds -> [Peer -> Seq({"opened", "closed"})]]
    PROVE  w \in Wire
BY DEF Wire

(* One peer's queue of events changes.                                     *)
LEMMA QueueChanges ==
    ASSUME NEW S, NEW K, NEW f \in [K -> [Peer -> S]], NEW k \in K, NEW p \in Peer, NEW v \in S
    PROVE  /\ [f EXCEPT ![k][p] = v] \in [K -> [Peer -> S]]
           /\ [f EXCEPT ![k][p] = v][k][p] = v
           /\ \A j \in K, q \in Peer : j # k \/ q # p => [f EXCEPT ![k][p] = v][j][q] = f[j][q]
<1> DEFINE g == [f EXCEPT ![k][p] = v]
<1>1. g = [j \in K |-> IF j = k THEN [f[k] EXCEPT ![p] = v] ELSE f[j]]
  OBVIOUS
<1>2. [f[k] EXCEPT ![p] = v] \in [Peer -> S]
  OBVIOUS
<1>3. g \in [K -> [Peer -> S]]
  BY <1>1, <1>2
<1> QED BY <1>1, <1>3

LEMMA ConnectWire ==
    ASSUME Admission, NEW p \in Peer, Connect(p)
    PROVE  wire' \in Wire /\ OurChain(wire')
<1>1. wire \in Wire /\ wire.conn \in [Peer -> Seq({"established", "closed"})]
      /\ wire.up \in SUBSET Peer /\ wire.open \in [Kinds -> SUBSET Peer]
      /\ wire.strm \in [Kinds -> [Peer -> Seq({"opened", "closed"})]]
  BY DEF Admission, Wire
<1>2. wire' = [wire EXCEPT !.up = @ \cup {p}, !.conn[p] = Append(@, "established")]
  BY DEF Connect
<1>3. /\ wire'.up = wire.up \cup {p} /\ wire'.open = wire.open /\ wire'.strm = wire.strm
      /\ wire'.conn = [wire.conn EXCEPT ![p] = Append(wire.conn[p], "established")]
      /\ wire' = [up |-> wire'.up, conn |-> wire'.conn, open |-> wire'.open, strm |-> wire'.strm]
  BY <1>1, <1>2 DEF Wire
<1>4. [wire.conn EXCEPT ![p] = Append(wire.conn[p], "established")]
          \in [Peer -> Seq({"established", "closed"})]
  BY <1>1
<1>5. wire' \in Wire
  BY <1>1, <1>3, <1>4, WireFields
<1> QED BY <1>3, <1>5 DEF Admission, OurChain

(* A step that takes an event off a peer's queue of connections.           *)
LEMMA TakeWire ==
    ASSUME wire \in Wire, OurChain(wire), NEW p \in Peer, wire.conn[p] # <<>>,
           wire' = [wire EXCEPT !.conn[p] = Tail(@)]
    PROVE  wire' \in Wire /\ OurChain(wire')
<1>1. wire.conn \in [Peer -> Seq({"established", "closed"})]
      /\ wire.up \in SUBSET Peer /\ wire.open \in [Kinds -> SUBSET Peer]
      /\ wire.strm \in [Kinds -> [Peer -> Seq({"opened", "closed"})]]
  BY DEF Wire
<1>2. /\ wire'.up = wire.up /\ wire'.open = wire.open /\ wire'.strm = wire.strm
      /\ wire'.conn = [wire.conn EXCEPT ![p] = Tail(wire.conn[p])]
      /\ wire' = [up |-> wire'.up, conn |-> wire'.conn, open |-> wire'.open, strm |-> wire'.strm]
  BY DEF Wire
<1>3. [wire.conn EXCEPT ![p] = Tail(wire.conn[p])] \in [Peer -> Seq({"established", "closed"})]
  BY <1>1
<1>4. wire' \in Wire
  BY <1>1, <1>2, <1>3, WireFields
<1> QED BY <1>2, <1>4 DEF OurChain

(* A step that takes an event off a peer's queue of streams.               *)
LEMMA TakeStream ==
    ASSUME wire \in Wire, OurChain(wire), NEW k \in Kinds, NEW p \in Peer, wire.strm[k][p] # <<>>,
           wire' = [wire EXCEPT !.strm[k][p] = Tail(@)]
    PROVE  wire' \in Wire /\ OurChain(wire') /\ p \in OnChain
<1> DEFINE v == Tail(wire.strm[k][p])
           E == Seq({"opened", "closed"})
           f == wire.strm
<1>1. wire.conn \in [Peer -> Seq({"established", "closed"})]
      /\ wire.up \in SUBSET Peer /\ wire.open \in [Kinds -> SUBSET Peer]
      /\ f \in [Kinds -> [Peer -> E]]
  BY DEF Wire
<1>2. v \in E
  BY <1>1
<1>3. /\ wire'.up = wire.up /\ wire'.open = wire.open /\ wire'.conn = wire.conn
      /\ wire' = [up |-> wire'.up, conn |-> wire'.conn, open |-> wire'.open, strm |-> wire'.strm]
  BY DEF Wire
<1>4. wire'.strm = [f EXCEPT ![k][p] = v]
  BY DEF Wire
<1>5. p \in OnChain
  BY DEF OurChain
<1> HIDE DEF v, E, f
<1>6. /\ [f EXCEPT ![k][p] = v] \in [Kinds -> [Peer -> E]]
      /\ \A j \in Kinds, q \in Peer : j # k \/ q # p => [f EXCEPT ![k][p] = v][j][q] = f[j][q]
  BY <1>1, <1>2, QueueChanges
<1>7. wire' \in Wire
  BY <1>1, <1>3, <1>4, <1>6, WireFields DEF E
<1>8. OurChain(wire')
  BY <1>3, <1>4, <1>5, <1>6 DEF OurChain, f
<1> QED BY <1>5, <1>7, <1>8

LEMMA ValidateWire ==
    ASSUME wire \in Wire, OurChain(wire), NEW k \in Kinds, NEW p \in Peer, ValidateSubstream(k, p)
    PROVE  wire' \in Wire /\ OurChain(wire')
<1> DEFINE v == Append(wire.strm[k][p], "opened")
           E == Seq({"opened", "closed"})
           f == wire.strm
<1>1. wire.conn \in [Peer -> Seq({"established", "closed"})]
      /\ wire.up \in SUBSET Peer /\ wire.open \in [Kinds -> SUBSET Peer]
      /\ f \in [Kinds -> [Peer -> E]]
  BY DEF Wire
<1>2. v \in E
  BY <1>1
<1>3. /\ p \in OnChain
      /\ wire' = [wire EXCEPT !.open[k] = @ \cup {p}, !.strm[k][p] = Append(@, "opened")]
  BY DEF ValidateSubstream
<1>4. /\ wire'.up = wire.up /\ wire'.conn = wire.conn
      /\ wire'.open = [wire.open EXCEPT ![k] = wire.open[k] \cup {p}]
      /\ wire' = [up |-> wire'.up, conn |-> wire'.conn, open |-> wire'.open, strm |-> wire'.strm]
  BY <1>3 DEF Wire
<1>5. wire'.strm = [f EXCEPT ![k][p] = v]
  BY <1>3 DEF Wire
<1> HIDE DEF v, E, f
<1>6. /\ [f EXCEPT ![k][p] = v] \in [Kinds -> [Peer -> E]]
      /\ \A j \in Kinds, q \in Peer : j # k \/ q # p => [f EXCEPT ![k][p] = v][j][q] = f[j][q]
  BY <1>1, <1>2, QueueChanges
<1>7. [wire.open EXCEPT ![k] = wire.open[k] \cup {p}] \in [Kinds -> SUBSET Peer]
  BY <1>1
<1>8. wire' \in Wire
  BY <1>1, <1>4, <1>5, <1>6, <1>7, WireFields, ZenonT(30) DEF E
<1>9. \A j \in Kinds : wire'.open[j] \subseteq OnChain
  BY <1>1, <1>3, <1>4 DEF OurChain
<1>10. OurChain(wire')
  BY <1>3, <1>5, <1>6, <1>9 DEF OurChain, f
<1> QED BY <1>8, <1>10

LEMMA DisconnectWire ==
    ASSUME wire \in Wire, OurChain(wire), NEW p \in Peer, Disconnect(p)
    PROVE  wire' \in Wire /\ OurChain(wire')
<1> DEFINE E == Seq({"opened", "closed"})
<1>1. wire.conn \in [Peer -> Seq({"established", "closed"})]
      /\ wire.up \in SUBSET Peer /\ wire.open \in [Kinds -> SUBSET Peer]
      /\ wire.strm \in [Kinds -> [Peer -> E]]
  BY DEF Wire
<1>2. PICK told \in SUBSET {k \in Kinds : p \in wire.open[k]} :
           wire' = [up   |-> wire.up \ {p},
                    conn |-> [wire.conn EXCEPT ![p] = Append(@, "closed")],
                    open |-> [k \in Kinds |-> wire.open[k] \ {p}],
                    strm |-> [k \in Kinds |-> IF k \in told
                                THEN [wire.strm[k] EXCEPT ![p] = Append(@, "closed")]
                                ELSE wire.strm[k]]]
  BY DEF Disconnect
<1>3. /\ wire'.up = wire.up \ {p}
      /\ wire'.conn = [wire.conn EXCEPT ![p] = Append(wire.conn[p], "closed")]
      /\ wire'.open = [k \in Kinds |-> wire.open[k] \ {p}]
      /\ wire'.strm = [k \in Kinds |-> IF k \in told
                          THEN [wire.strm[k] EXCEPT ![p] = Append(wire.strm[k][p], "closed")]
                          ELSE wire.strm[k]]
      /\ wire' = [up |-> wire'.up, conn |-> wire'.conn, open |-> wire'.open, strm |-> wire'.strm]
  BY <1>2
<1>4. wire'.conn \in [Peer -> Seq({"established", "closed"})]
  BY <1>1, <1>3
<1>5. wire'.open \in [Kinds -> SUBSET Peer] /\ wire'.up \in SUBSET Peer
  BY <1>1, <1>3
<1>6. \A k \in Kinds : wire'.strm[k] \in [Peer -> E]
  <2> SUFFICES ASSUME NEW k \in Kinds PROVE wire'.strm[k] \in [Peer -> E]
    OBVIOUS
  <2>1. wire.strm[k] \in [Peer -> E]
    BY <1>1
  <2>2. [wire.strm[k] EXCEPT ![p] = Append(wire.strm[k][p], "closed")] \in [Peer -> E]
    BY <2>1
  <2> HIDE DEF E
  <2> QED BY <1>3, <2>1, <2>2
<1>7. wire'.strm \in [Kinds -> [Peer -> E]]
  <2> HIDE DEF E
  <2> QED BY <1>3, <1>6
<1>8. wire' \in Wire
  BY <1>3, <1>4, <1>5, <1>7, WireFields
<1>9. \A k \in Kinds : wire'.open[k] \subseteq OnChain
  BY <1>3 DEF OurChain
<1>10. \A k \in Kinds, q \in Peer : wire'.strm[k][q] # <<>> => q \in OnChain
  <2> SUFFICES ASSUME NEW k \in Kinds, NEW q \in Peer, wire'.strm[k][q] # <<>> PROVE q \in OnChain
    OBVIOUS
  <2>1. CASE k \in told /\ q = p
    BY <2>1 DEF OurChain
  <2>2. CASE ~(k \in told /\ q = p)
    <3>1. wire'.strm[k][q] = wire.strm[k][q]
      BY <1>1, <1>3, <2>2
    <3> QED BY <3>1 DEF OurChain
  <2> QED BY <2>1, <2>2
<1> QED BY <1>8, <1>9, <1>10 DEF OurChain

(* A peer takes a slot, with at most one other making room for it.         *)
LEMMA EstablishedKeeps ==
    ASSUME AdmissionInv, NEW p \in Peer, ConnectionEstablished(p)
    PROVE  AdmissionInv'
<1> DEFINE M == setting.max_peers
<1>1. /\ Admission /\ SlotsAreForValidators /\ StreamsAreAdmitted /\ wire \in Wire
      /\ OurChain(wire) /\ connected \subseteq Peer /\ DOMAIN routes.p2v \subseteq everRouted
      /\ setting \in Settings /\ M \in Nat /\ streams \in [Kinds -> SUBSET Peer]
  BY NetworkConstants DEF AdmissionInv, Admission
<1>2. wire' \in Wire /\ OurChain(wire')
  BY <1>1, TakeWire DEF ConnectionEstablished
<1>3. /\ setting' = setting /\ syncReqs' = syncReqs /\ routes' = routes
      /\ epoch' = epoch /\ notice' = notice /\ everRouted' = everRouted
  BY DEF ConnectionEstablished
<1>4. IsFiniteSet(connected) /\ Cardinality(connected) \in Nat
  BY <1>1, NetworkConstants, FS_Subset, FS_CardinalityType
<1>5. CASE UNCHANGED <<connected, streams>>
  BY <1>1, <1>2, <1>3, <1>5 DEF AdmissionInv, Admission, SlotsAreForValidators,
                               StreamsAreAdmitted
<1>6. CASE /\ Routed(p) \/ Cardinality(connected) < M
           /\ LET out == IF Routed(p) THEN Evictable(connected) ELSE {}
              IN  \E evicted \in IF out = {} THEN {{}} ELSE {{q} : q \in out} :
                      /\ connected' = (connected \ evicted) \cup {p}
                      /\ streams' = [k \in Kinds |-> streams[k] \ evicted]
  <2> DEFINE out == IF Routed(p) THEN Evictable(connected) ELSE {}
  <2>1. PICK evicted : /\ \/ out = {} /\ evicted = {}
                          \/ \E q \in out : evicted = {q}
                       /\ connected' = (connected \ evicted) \cup {p}
                       /\ streams' = [k \in Kinds |-> streams[k] \ evicted]
    BY <1>6
  <2>2. streams' \in [Kinds -> SUBSET Peer] /\ connected' \subseteq Peer
    BY <1>1, <2>1
  <2>3. Admission'
    BY <1>1, <1>2, <1>3, <2>2 DEF Admission
  <2>4. out \subseteq connected
    BY DEF Evictable
  <2>5. evicted \subseteq connected
    BY <2>1, <2>4
  <2>6. StreamsAreAdmitted'
    BY <1>1, <1>3, <2>1 DEF StreamsAreAdmitted
  <2>7. SlotsAreForValidators'
    <3>1. CASE Cardinality(connected) < M
      <4>1. connected' \subseteq connected \cup {p}
        BY <2>1
      <4>2. /\ IsFiniteSet(connected \cup {p})
            /\ Cardinality(connected \cup {p}) <= Cardinality(connected) + 1
        <5> DEFINE C == Cardinality(connected)
        <5>1. /\ IsFiniteSet(connected \cup {p})
              /\ Cardinality(connected \cup {p}) = IF p \in connected THEN C ELSE C + 1
          BY <1>4, FS_AddElement
        <5>2. C \in Nat
          BY <1>4, FS_CardinalityType
        <5> HIDE DEF C
        <5>3. C <= C + 1 /\ C + 1 <= C + 1
          BY <5>2
        <5>4. Cardinality(connected \cup {p}) <= C + 1
          BY <5>1, <5>3
        <5> QED BY <5>1, <5>4 DEF C
      <4>3. /\ Cardinality(connected') <= Cardinality(connected \cup {p})
            /\ Cardinality(connected') \in Nat /\ Cardinality(connected \cup {p}) \in Nat
        BY <4>1, <4>2, FS_Subset, FS_CardinalityType
      <4>4. ~(Cardinality(connected') > M)
        BY <1>1, <1>4, <3>1, <4>2, <4>3
      <4> QED BY <1>3, <4>4 DEF SlotsAreForValidators
    <3>2. CASE ~(Cardinality(connected) < M)
      <4>1. Routed(p) /\ out = {q \in connected : ~Routed(q)}
        BY <1>6, <3>2 DEF Evictable
      <4>2. p \in everRouted
        BY <1>1, <4>1 DEF Routed
      <4>3. CASE out = {}
        <5>1. connected \subseteq everRouted
          BY <1>1, <4>1, <4>3 DEF Routed
        <5> QED BY <1>3, <2>1, <4>2, <5>1 DEF SlotsAreForValidators
      <4>4. CASE out # {}
        <5>1. PICK q \in out : evicted = {q}
          BY <2>1, <4>4
        <5>2. connected' = (connected \ {q}) \cup {p} /\ q \in connected
          BY <2>1, <2>4, <5>1
        <5>3. IsFiniteSet(connected \ {q}) /\ Cardinality(connected \ {q}) = Cardinality(connected) - 1
          BY <1>4, <5>2, FS_RemoveElement
        <5>4. Cardinality(connected') <= Cardinality(connected \ {q}) + 1 /\ Cardinality(connected') \in Nat
          <6> DEFINE S == connected \ {q}
          <6>1. IsFiniteSet(S) /\ Cardinality(S) \in Nat
            BY <5>3, FS_CardinalityType
          <6> HIDE DEF S
          <6>2. Cardinality(S \cup {p}) <= Cardinality(S) + 1 /\ Cardinality(S \cup {p}) \in Nat
            <7>1. Cardinality(S \cup {p}) = IF p \in S THEN Cardinality(S) ELSE Cardinality(S) + 1
              BY <6>1, FS_AddElement
            <7> QED BY <6>1, <7>1
          <6> QED BY <5>2, <6>2 DEF S
        <5>5. Cardinality(connected') <= Cardinality(connected)
          BY <1>4, <5>3, <5>4
        <5>6. CASE Cardinality(connected) > M
          BY <1>1, <1>3, <4>2, <5>2, <5>6 DEF SlotsAreForValidators
        <5>7. CASE ~(Cardinality(connected) > M)
          <6>1. ~(Cardinality(connected') > M)
            BY <1>1, <1>4, <5>4, <5>5, <5>7
          <6> QED BY <1>3, <6>1 DEF SlotsAreForValidators
        <5> QED BY <5>6, <5>7
      <4> QED BY <4>3, <4>4
    <3> QED BY <3>1, <3>2
  <2> QED BY <2>3, <2>6, <2>7 DEF AdmissionInv
<1> QED BY <1>5, <1>6 DEF ConnectionEstablished

LEMMA ClosedKeeps ==
    ASSUME AdmissionInv, NEW p \in Peer, ConnectionClosed(p)
    PROVE  AdmissionInv'
<1>1. /\ Admission /\ SlotsAreForValidators /\ StreamsAreAdmitted /\ wire \in Wire
      /\ OurChain(wire) /\ connected \subseteq Peer
      /\ setting \in Settings /\ setting.max_peers \in Nat /\ streams \in [Kinds -> SUBSET Peer]
  BY NetworkConstants DEF AdmissionInv, Admission
<1>2. wire' \in Wire /\ OurChain(wire')
  BY <1>1, TakeWire DEF ConnectionClosed
<1>3. /\ setting' = setting /\ syncReqs' = syncReqs /\ routes' = routes
      /\ epoch' = epoch /\ notice' = notice /\ everRouted' = everRouted
      /\ connected' = connected \ {p} /\ streams' = [k \in Kinds |-> streams[k] \ {p}]
  BY DEF ConnectionClosed
<1>4. IsFiniteSet(connected) /\ Cardinality(connected) \in Nat
  BY <1>1, NetworkConstants, FS_Subset, FS_CardinalityType
<1>5. Cardinality(connected') <= Cardinality(connected) /\ Cardinality(connected') \in Nat
  BY <1>3, <1>4, FS_Subset, FS_CardinalityType
<1>6. Admission'
  BY <1>1, <1>2, <1>3 DEF Admission
<1>7. StreamsAreAdmitted'
  BY <1>1, <1>3 DEF StreamsAreAdmitted
<1>8. SlotsAreForValidators'
  <2>1. Cardinality(connected') > setting.max_peers => Cardinality(connected) > setting.max_peers
    BY <1>1, <1>4, <1>5
  <2> QED BY <1>1, <1>3, <2>1 DEF SlotsAreForValidators
<1> QED BY <1>6, <1>7, <1>8 DEF AdmissionInv

LEMMA StreamOpenedKeeps ==
    ASSUME AdmissionInv, NEW k \in Kinds, NEW p \in Peer, StreamOpened(k, p)
    PROVE  AdmissionInv'
<1>1. /\ Admission /\ SlotsAreForValidators /\ StreamsAreAdmitted /\ wire \in Wire
      /\ OurChain(wire) /\ streams \in [Kinds -> SUBSET Peer]
      /\ DOMAIN routes.p2v \subseteq everRouted
  BY DEF AdmissionInv, Admission
<1>2. wire' \in Wire /\ OurChain(wire') /\ p \in OnChain
  BY <1>1, TakeStream DEF StreamOpened
<1>3. /\ setting' = setting /\ syncReqs' = syncReqs /\ routes' = routes
      /\ epoch' = epoch /\ notice' = notice /\ everRouted' = everRouted
      /\ connected' = connected
      /\ streams' = IF Routed(p) \/ p \in connected
                    THEN [streams EXCEPT ![k] = @ \cup {p}] ELSE streams
  BY DEF StreamOpened
<1>4. streams' \in [Kinds -> SUBSET Peer]
  BY <1>1, <1>3
<1>5. Admission'
  BY <1>1, <1>2, <1>3, <1>4 DEF Admission
<1>6. StreamsAreAdmitted'
  BY <1>1, <1>2, <1>3 DEF StreamsAreAdmitted, Routed
<1>7. SlotsAreForValidators'
  BY <1>1, <1>3 DEF SlotsAreForValidators
<1> QED BY <1>5, <1>6, <1>7 DEF AdmissionInv

LEMMA StreamClosedKeeps ==
    ASSUME AdmissionInv, NEW k \in Kinds, NEW p \in Peer, StreamClosed(k, p)
    PROVE  AdmissionInv'
<1>1. /\ Admission /\ SlotsAreForValidators /\ StreamsAreAdmitted /\ wire \in Wire
      /\ OurChain(wire) /\ streams \in [Kinds -> SUBSET Peer]
  BY DEF AdmissionInv, Admission
<1>2. wire' \in Wire /\ OurChain(wire')
  BY <1>1, TakeStream DEF StreamClosed
<1>3. /\ setting' = setting /\ syncReqs' = syncReqs /\ routes' = routes
      /\ epoch' = epoch /\ notice' = notice /\ everRouted' = everRouted
      /\ connected' = connected /\ streams' = [streams EXCEPT ![k] = @ \ {p}]
  BY DEF StreamClosed
<1>4. streams' \in [Kinds -> SUBSET Peer]
  BY <1>1, <1>3
<1>5. Admission'
  BY <1>1, <1>2, <1>3, <1>4 DEF Admission
<1>6. StreamsAreAdmitted'
  BY <1>1, <1>3 DEF StreamsAreAdmitted
<1>7. SlotsAreForValidators'
  BY <1>1, <1>3 DEF SlotsAreForValidators
<1> QED BY <1>5, <1>6, <1>7 DEF AdmissionInv

(* Steps that touch neither slots nor streams nor routes.                  *)
LEMMA AdmissionSame ==
    ASSUME AdmissionInv, UNCHANGED <<setting, connected, streams, routes, everRouted>>,
           wire' \in Wire, OurChain(wire'),
           epoch' \in 1..Len(Sets), notice' \in 0..Len(Sets),
           Range(syncReqs') \subseteq OnChain, syncReqs' \in Seq(Peer),
           Len(syncReqs') <= setting.sync_queue
    PROVE  AdmissionInv'
<1>1. Admission'
  BY DEF AdmissionInv, Admission
<1>2. SlotsAreForValidators' /\ StreamsAreAdmitted'
  BY DEF AdmissionInv, SlotsAreForValidators, StreamsAreAdmitted
<1> QED BY <1>1, <1>2 DEF AdmissionInv

LEMMA SyncQueueFacts ==
    ASSUME AdmissionInv
    PROVE  /\ \A p \in OnChain \cap Peer :
                  /\ Append(syncReqs, p) \in Seq(Peer) /\ Range(Append(syncReqs, p)) \subseteq OnChain
                  /\ Len(Append(syncReqs, p)) = Len(syncReqs) + 1
           /\ syncReqs # <<>> =>
                  /\ Tail(syncReqs) \in Seq(Peer) /\ Range(Tail(syncReqs)) \subseteq OnChain
                  /\ Len(Tail(syncReqs)) <= setting.sync_queue
           /\ Len(syncReqs) \in Nat
<1>1. /\ syncReqs \in Seq(Peer) /\ \A n \in DOMAIN syncReqs : syncReqs[n] \in OnChain
      /\ Len(syncReqs) <= setting.sync_queue /\ setting.sync_queue \in Nat
  BY NetworkConstants DEF AdmissionInv, Admission, Range
<1>2. ASSUME NEW p \in OnChain \cap Peer
      PROVE  /\ Append(syncReqs, p) \in Seq(Peer) /\ Range(Append(syncReqs, p)) \subseteq OnChain
             /\ Len(Append(syncReqs, p)) = Len(syncReqs) + 1
  BY <1>1, <1>2 DEF Range
<1>3. ASSUME syncReqs # <<>>
      PROVE  /\ Tail(syncReqs) \in Seq(Peer) /\ Range(Tail(syncReqs)) \subseteq OnChain
             /\ Len(Tail(syncReqs)) <= setting.sync_queue
  <2>1. Tail(syncReqs) \in Seq(Peer) /\ Len(Tail(syncReqs)) = Len(syncReqs) - 1
    BY <1>1, <1>3
  <2>2. \A n \in DOMAIN Tail(syncReqs) : Tail(syncReqs)[n] = syncReqs[n + 1] /\ n + 1 \in DOMAIN syncReqs
    BY <1>1, <1>3
  <2>3. Range(Tail(syncReqs)) \subseteq OnChain
    BY <1>1, <2>2 DEF Range
  <2> QED BY <1>1, <2>1, <2>3
<1> QED BY <1>1, <1>2, <1>3

LEMMA AdmissionStep == AdmissionInv /\ NetNext => AdmissionInv'
<1> SUFFICES ASSUME AdmissionInv, NetNext PROVE AdmissionInv'
  OBVIOUS
<1>1. /\ Admission /\ wire \in Wire /\ OurChain(wire)
      /\ epoch \in 1..Len(Sets) /\ notice \in 0..Len(Sets)
      /\ Range(syncReqs) \subseteq OnChain /\ syncReqs \in Seq(Peer)
      /\ Len(syncReqs) <= setting.sync_queue /\ setting.sync_queue \in Nat
      /\ setting \in Settings /\ Len(Sets) \in Nat /\ setting.epochs \in 1..Len(Sets)
  BY NetworkConstants DEF AdmissionInv, Admission
<1>2. ASSUME NEW p \in Peer, Connect(p) PROVE AdmissionInv'
  <2>1. wire' \in Wire /\ OurChain(wire')
    BY <1>1, <1>2, ConnectWire
  <2>2. UNCHANGED <<setting, connected, streams, routes, everRouted, epoch, notice, syncReqs>>
    BY <1>2 DEF Connect
  <2> QED BY <1>1, <2>1, <2>2, AdmissionSame
<1>3. ASSUME NEW p \in Peer, Disconnect(p) PROVE AdmissionInv'
  <2>1. wire' \in Wire /\ OurChain(wire')
    BY <1>1, <1>3, DisconnectWire
  <2>2. UNCHANGED <<setting, connected, streams, routes, everRouted, epoch, notice, syncReqs>>
    BY <1>3 DEF Disconnect
  <2> QED BY <1>1, <2>1, <2>2, AdmissionSame
<1>4. ASSUME NEW k \in Kinds, NEW p \in Peer, ValidateSubstream(k, p) PROVE AdmissionInv'
  <2>1. wire' \in Wire /\ OurChain(wire')
    BY <1>1, <1>4, ValidateWire
  <2>2. UNCHANGED <<setting, connected, streams, routes, everRouted, epoch, notice, syncReqs>>
    BY <1>4 DEF ValidateSubstream
  <2> QED BY <1>1, <2>1, <2>2, AdmissionSame
<1>5. ASSUME NEW p \in Peer, OnSyncRequest(p) PROVE AdmissionInv'
  <2>1. p \in OnChain
    BY <1>5 DEF OnSyncRequest, AdmissionInv, StreamsAreAdmitted, Kinds
  <2>2. UNCHANGED <<setting, connected, streams, routes, everRouted, epoch, notice, wire>>
    BY <1>5 DEF OnSyncRequest
  <2>3. syncReqs' = Append(syncReqs, p) /\ Len(syncReqs) < setting.sync_queue
    BY <1>5 DEF OnSyncRequest
  <2>4. /\ syncReqs' \in Seq(Peer) /\ Range(syncReqs') \subseteq OnChain
        /\ Len(syncReqs') = Len(syncReqs) + 1 /\ Len(syncReqs) \in Nat
    BY <2>1, <2>3, SyncQueueFacts
  <2>5. Len(syncReqs') <= setting.sync_queue
    BY <1>1, <2>3, <2>4
  <2> QED BY <1>1, <2>2, <2>4, <2>5, AdmissionSame
<1>6. ASSUME SyncRespond PROVE AdmissionInv'
  <2>1. UNCHANGED <<setting, connected, streams, routes, everRouted, epoch, notice, wire>>
    BY <1>6 DEF SyncRespond
  <2>2. syncReqs' = Tail(syncReqs) /\ syncReqs # <<>>
    BY <1>6 DEF SyncRespond
  <2>3. /\ syncReqs' \in Seq(Peer) /\ Range(syncReqs') \subseteq OnChain
        /\ Len(syncReqs') <= setting.sync_queue
    BY <2>2, SyncQueueFacts
  <2> QED BY <1>1, <2>1, <2>3, AdmissionSame
<1>7. ASSUME \/ \E p \in Peer, m \in Message : OnNotification(p, m) \/ OnRequest(p, m)
             \/ \E m \in OwnMessage : Broadcast(m)
             \/ EngineReceive
      PROVE  AdmissionInv'
  <2>1. UNCHANGED <<setting, connected, streams, routes, everRouted, epoch, notice, wire, syncReqs>>
    BY <1>7 DEF OnNotification, OnRequest, Broadcast, EngineReceive
  <2> QED BY <1>1, <2>1, AdmissionSame
<1>8. ASSUME AnnounceEpoch PROVE AdmissionInv'
  <2>1. UNCHANGED <<setting, connected, streams, routes, everRouted, epoch, wire, syncReqs>>
    BY <1>8 DEF AnnounceEpoch
  <2>2. \E latest \in {epoch, notice} : latest < setting.epochs /\ notice' = latest + 1
    BY <1>8 DEF AnnounceEpoch
  <2>3. notice' \in 0..Len(Sets)
    BY <1>1, <2>2
  <2> QED BY <1>1, <2>1, <2>3, AdmissionSame
<1>9. ASSUME HandleEpochChange PROVE AdmissionInv'
  <2>1. UNCHANGED <<setting, connected, streams, wire, syncReqs>>
    BY <1>9 DEF HandleEpochChange
  <2>2. notice # 0 /\ epoch' = notice /\ notice' = 0
    BY <1>9 DEF HandleEpochChange
  <2>3. everRouted' = everRouted \cup DOMAIN routes'.p2v
    BY <1>9 DEF HandleEpochChange
  <2>4. epoch' \in 1..Len(Sets) /\ notice' \in 0..Len(Sets)
    BY <1>1, <2>2
  <2>5. Admission'
    BY <1>1, <2>1, <2>3, <2>4 DEF Admission
  <2>6. SlotsAreForValidators' /\ StreamsAreAdmitted'
    BY <2>1, <2>3 DEF AdmissionInv, SlotsAreForValidators, StreamsAreAdmitted
  <2> QED BY <2>5, <2>6 DEF AdmissionInv
<1> QED BY <1>2, <1>3, <1>4, <1>5, <1>6, <1>7, <1>8, <1>9, EstablishedKeeps, ClosedKeeps,
           StreamOpenedKeeps, StreamClosedKeeps DEF NetNext

LEMMA AdmissionInit == Init => AdmissionInv
<1> SUFFICES ASSUME Init PROVE AdmissionInv
  OBVIOUS
<1>1. NetInit
  BY DEF Init
<1>2. /\ setting \in Settings /\ connected = {} /\ streams = [k \in Kinds |-> {}]
      /\ epoch = 1 /\ notice \in 1..setting.epochs /\ syncReqs = <<>>
      /\ everRouted = DOMAIN routes.p2v
      /\ wire = [up |-> {}, conn |-> [p \in Peer |-> <<>>], open |-> [k \in Kinds |-> {}],
                 strm |-> [k \in Kinds |-> [p \in Peer |-> <<>>]]]
  BY <1>1 DEF NetInit
<1>3. /\ Len(Sets) \in Nat \ {0} /\ setting.epochs \in 1..Len(Sets)
      /\ setting.sync_queue \in Nat /\ setting.max_peers \in Nat
  BY <1>2, NetworkConstants
<1>4. epoch \in 1..Len(Sets) /\ notice \in 0..Len(Sets)
  BY <1>2, <1>3
<1>5. wire \in Wire
  BY <1>2 DEF Wire
<1>6. OurChain(wire)
  BY <1>2 DEF OurChain
<1>7. Range(syncReqs) \subseteq OnChain /\ syncReqs \in Seq(Peer) /\ Len(syncReqs) = 0
  BY <1>2 DEF Range
<1>8. Admission
  BY <1>2, <1>3, <1>4, <1>5, <1>6, <1>7 DEF Admission
<1>9. Cardinality(connected) = 0
  BY <1>2, FS_EmptySet
<1>10. SlotsAreForValidators
  BY <1>3, <1>9 DEF SlotsAreForValidators
<1>11. StreamsAreAdmitted
  BY <1>2, <1>7 DEF StreamsAreAdmitted
<1> QED BY <1>8, <1>10, <1>11 DEF AdmissionInv

(* The way of transactions leaves the network service alone.               *)
LEMMA TxLeavesNetwork ==
    ASSUME TxNext
    PROVE  UNCHANGED netVars
BY DEF TxNext, OnGossip, JudgeGossip, SubmitTx, AddGossiped, AddSubmitted, OnCommit,
       BeginRecheck, EndRecheck, ValidateBlock

LEMMA AdmissionInvariant == Spec => []AdmissionInv
<1>1. ASSUME AdmissionInv, UNCHANGED netVars PROVE AdmissionInv'
  BY <1>1 DEF netVars, AdmissionInv, Admission, SlotsAreForValidators, StreamsAreAdmitted
<1>2. AdmissionInv /\ [Next]_vars => AdmissionInv'
  BY <1>1, AdmissionStep, TxLeavesNetwork DEF Next, vars
<1> QED BY <1>2, AdmissionInit, PTL DEF Spec

-----------------------------------------------------------------------------
(***************************************************************************)
(* Echoes.  The two dedup sets are the messages of two adjacent stretches  *)
(* at the end of what was sent, and the older stretch, if there is one,    *)
(* holds more than DedupLimit of them.                                     *)
(***************************************************************************)

Flood == [msg : Message, own : BOOLEAN]

Msgs(f, a, b) == {f[n].msg : n \in a..b}

IsTail(f, s, a, b) ==
    /\ s.active = Msgs(f, a + 1, Len(f)) /\ s.backup = Msgs(f, b + 1, a)
    /\ a = 0 \/ Cardinality(s.backup) > DedupLimit

Tails == \E a \in 0..Len(flooded) : \E b \in 0..a : IsTail(flooded, seen, a, b)

EchoInv == /\ flooded \in Seq(Flood) /\ DOMAIN seen = {"active", "backup"}
           /\ seen = [active |-> seen.active, backup |-> seen.backup]
           /\ Tails /\ NoEchoFlood

LEMMA MsgsFinite ==
    ASSUME NEW f, NEW a \in Nat, NEW b \in Nat
    PROVE  IsFiniteSet(Msgs(f, a, b)) /\ Cardinality(Msgs(f, a, b)) \in Nat
<1> DEFINE g == [n \in a..b |-> f[n].msg]
<1>1. IsFiniteSet(a..b)
  BY FS_Interval
<1>2. g \in Surjection(a..b, Msgs(f, a, b))
  BY DEF Surjection, Msgs
<1>3. IsFiniteSet(Msgs(f, a, b))
  <2> HIDE DEF g
  <2> QED BY <1>1, <1>2, FS_Surjection
<1> QED BY <1>3, FS_CardinalityType

(* A message is sent and marked.                                           *)
LEMMA SendKeeps ==
    ASSUME EchoInv, NEW m \in Message, NEW o \in BOOLEAN, o \/ ~AlreadySeen(m),
           seen' = Mark(seen, m), flooded' = Append(flooded, [msg |-> m, own |-> o])
    PROVE  EchoInv'
<1> DEFINE N == Len(flooded)
           f == flooded
           g == flooded'
           e == [msg |-> m, own |-> o]
           A == seen.active \cup {m}
<1>1. f \in Seq(Flood) /\ N \in Nat /\ e \in Flood /\ e.msg = m /\ e.own = o
  BY DEF EchoInv, Flood
<1>2. g \in Seq(Flood) /\ Len(g) = N + 1 /\ g[N + 1] = e /\ \A n \in 1..N : g[n] = f[n]
  BY <1>1
<1>3. DOMAIN g = 1..(N + 1) /\ DOMAIN f = 1..N
  BY <1>1, <1>2
<1> HIDE DEF e, g
<1>4. PICK a \in 0..N : \E b \in 0..a : IsTail(f, seen, a, b)
  BY DEF EchoInv, Tails
<1>5. PICK b \in 0..a : IsTail(f, seen, a, b)
  BY <1>4
<1> HIDE DEF N, f
<1>6. a \in Nat /\ b \in Nat /\ b <= a /\ a <= N
  BY <1>1, <1>4, <1>5
<1>7. ASSUME NEW x \in Nat, NEW y \in Nat, x >= 1, y <= N
      PROVE  Msgs(g, x, y) = Msgs(f, x, y)
  <2>1. \A n \in x..y : g[n] = f[n]
    BY <1>1, <1>2, <1>7
  <2> QED BY <2>1 DEF Msgs
<1>8. Msgs(g, a + 1, N + 1) = A
  <2>1. (a + 1)..(N + 1) = ((a + 1)..N) \cup {N + 1}
    BY <1>1, <1>6
  <2>2. Msgs(g, a + 1, N + 1) = Msgs(g, a + 1, N) \cup {g[N + 1].msg}
    BY <2>1 DEF Msgs
  <2>3. Msgs(g, a + 1, N) = Msgs(f, a + 1, N)
    BY <1>1, <1>6, <1>7
  <2>4. Msgs(f, a + 1, N) = seen.active
    BY <1>5 DEF IsTail, N, f
  <2> QED BY <1>1, <1>2, <2>2, <2>3, <2>4
<1>9. Msgs(g, b + 1, a) = seen.backup
  <2>1. Msgs(g, b + 1, a) = Msgs(f, b + 1, a)
    BY <1>1, <1>6, <1>7
  <2> QED BY <1>5, <2>1 DEF IsTail
<1>10. seen' = [active |-> seen'.active, backup |-> seen'.backup] /\ DOMAIN seen' = {"active", "backup"}
  <2>1. seen = [active |-> seen.active, backup |-> seen.backup]
    BY DEF EchoInv
  <2> QED BY <2>1 DEF Mark
<1>11. Tails'
  <2>1. CASE Cardinality(A) > DedupLimit
    <3>1. seen' = [active |-> {}, backup |-> A]
      BY <2>1 DEF Mark
    <3>2. Msgs(g, N + 2, N + 1) = {}
      BY <1>1 DEF Msgs
    <3>3. IsTail(g, seen', N + 1, a)
      <4>1. seen'.active = {} /\ seen'.backup = A
        BY <3>1
      <4>2. (N + 1) + 1 = N + 2
        BY <1>1
      <4> HIDE DEF A
      <4> QED BY <1>2, <1>8, <2>1, <3>2, <4>1, <4>2 DEF IsTail
    <3>4. N + 1 \in 0..Len(g) /\ a \in 0..(N + 1)
      BY <1>1, <1>2, <1>6
    <3>5. \E c \in 0..Len(g) : \E d \in 0..c : IsTail(g, seen', c, d)
      BY <3>3, <3>4
    <3> QED BY <3>5 DEF Tails, g
  <2>2. CASE ~(Cardinality(A) > DedupLimit)
    <3>1. seen' = [seen EXCEPT !.active = A]
      BY <2>2 DEF Mark
    <3>2. seen'.active = A /\ seen'.backup = seen.backup
      BY <3>1 DEF EchoInv
    <3> HIDE DEF A
    <3>3. IsTail(g, seen', a, b)
      BY <1>2, <1>5, <1>8, <1>9, <3>2 DEF IsTail
    <3>4. a \in 0..Len(g)
      BY <1>1, <1>2, <1>6
    <3>5. \E c \in 0..Len(g) : \E d \in 0..c : IsTail(g, seen', c, d)
      BY <1>5, <3>3, <3>4
    <3> QED BY <3>5 DEF Tails, g
  <2> QED BY <2>1, <2>2
<1>12. NoEchoFlood'
  <2> SUFFICES ASSUME NEW j \in DOMAIN g, NEW i \in 1..(j - 1),
                      ~g[j].own, g[i].msg = g[j].msg
               PROVE  Cardinality({g[n].msg : n \in (i + 1)..(j - 1)}) > DedupLimit
    BY DEF NoEchoFlood, g
  <2>1. j \in 1..(N + 1) /\ i \in 1..N /\ i < j /\ i \in Nat /\ j \in Nat
    BY <1>1, <1>3
  <2>2. CASE j \in 1..N
    <3>1. /\ j \in DOMAIN f /\ ~f[j].own /\ f[i].msg = f[j].msg
      BY <1>2, <1>3, <2>1, <2>2
    <3>2. Cardinality({f[n].msg : n \in (i + 1)..(j - 1)}) > DedupLimit
      BY <3>1 DEF EchoInv, NoEchoFlood, f
    <3>3. i + 1 \in Nat /\ j - 1 \in Nat /\ i + 1 >= 1 /\ j - 1 <= N
      BY <1>1, <2>1
    <3>4. Msgs(g, i + 1, j - 1) = Msgs(f, i + 1, j - 1)
      BY <1>7, <3>3
    <3> QED BY <3>2, <3>4 DEF Msgs
  <2>3. CASE j = N + 1
    <3>1. g[j] = e /\ ~o /\ g[i] = f[i] /\ f[i].msg = m
      BY <1>1, <1>2, <2>1, <2>3
    <3>2. m \notin seen.active /\ m \notin seen.backup
      BY <3>1 DEF AlreadySeen
    <3>3. i \notin (a + 1)..N /\ i \notin (b + 1)..a
      <4>1. m \notin Msgs(f, a + 1, N) /\ m \notin Msgs(f, b + 1, a)
        BY <1>5, <3>2 DEF IsTail, N, f
      <4> QED BY <3>1, <4>1 DEF Msgs
    <3>4. i <= b /\ a # 0
      BY <1>1, <1>6, <2>1, <3>3
    <3>5. Cardinality(seen.backup) > DedupLimit
      BY <1>5, <3>4 DEF IsTail
    <3>6. (b + 1)..a \subseteq (i + 1)..N
      BY <1>1, <1>6, <2>1, <3>4
    <3>7. seen.backup \subseteq Msgs(g, i + 1, N)
      <4>1. Msgs(g, b + 1, a) \subseteq Msgs(g, i + 1, N)
        BY <3>6 DEF Msgs
      <4> QED BY <1>9, <4>1
    <3>8. IsFiniteSet(Msgs(g, i + 1, N)) /\ Cardinality(Msgs(g, i + 1, N)) \in Nat
      BY <1>1, <2>1, MsgsFinite
    <3>9. IsFiniteSet(Msgs(g, b + 1, a)) /\ Cardinality(Msgs(g, b + 1, a)) \in Nat
      BY <1>6, MsgsFinite
    <3>10. Cardinality(seen.backup) <= Cardinality(Msgs(g, i + 1, N)) /\ Cardinality(seen.backup) \in Nat
      BY <1>9, <3>7, <3>8, <3>9, FS_Subset
    <3>11. Cardinality(Msgs(g, i + 1, N)) > DedupLimit
      <4>1. DedupLimit \in Nat
        BY NetworkConstants
      <4> QED BY <3>5, <3>8, <3>10, <4>1, SMTT(30)
    <3>12. j - 1 = N
      BY <1>1, <2>3
    <3> QED BY <3>11, <3>12 DEF Msgs
  <2> QED BY <1>1, <2>1, <2>2, <2>3, SMTT(30)
<1> QED BY <1>2, <1>10, <1>11, <1>12 DEF EchoInv, g

LEMMA EchoSame ==
    ASSUME EchoInv, UNCHANGED <<seen, flooded>>
    PROVE  EchoInv'
BY DEF EchoInv, Tails, NoEchoFlood

LEMMA EchoStep == EchoInv /\ NetNext => EchoInv'
<1> SUFFICES ASSUME EchoInv, NetNext PROVE EchoInv'
  OBVIOUS
<1>1. ASSUME NEW m \in OwnMessage, Broadcast(m) PROVE EchoInv'
  <2>1. m \in Message
    BY NetworkAssumption
  <2>2. seen' = Mark(seen, m) /\ flooded' = Append(flooded, [msg |-> m, own |-> TRUE])
    BY <1>1 DEF Broadcast
  <2> QED BY <2>1, <2>2, SendKeeps
<1>2. ASSUME NEW p \in Peer, NEW m \in Message, OnNotification(p, m) PROVE EchoInv'
  <2>1. \/ UNCHANGED <<seen, flooded>>
        \/ /\ ~AlreadySeen(m) /\ seen' = Mark(seen, m)
           /\ flooded' = Append(flooded, [msg |-> m, own |-> FALSE])
    BY <1>2 DEF OnNotification, Relay
  <2> QED BY <2>1, SendKeeps, EchoSame, Zenon
<1>3. ASSUME NEW p \in Peer,
             \/ Connect(p) \/ Disconnect(p) \/ ConnectionEstablished(p) \/ ConnectionClosed(p)
             \/ \E k \in Kinds : \/ ValidateSubstream(k, p)
                                 \/ StreamOpened(k, p) \/ StreamClosed(k, p)
             \/ OnSyncRequest(p)
             \/ \E m \in Message : OnRequest(p, m)
      PROVE  EchoInv'
  <2>1. UNCHANGED <<seen, flooded>>
    BY <1>3, Zenon
       DEF Connect, Disconnect, ConnectionEstablished, ConnectionClosed, OnRequest,
           ValidateSubstream, StreamOpened, StreamClosed, OnSyncRequest
  <2> QED BY <2>1, EchoSame
<1>4. ASSUME EngineReceive \/ SyncRespond \/ AnnounceEpoch \/ HandleEpochChange
      PROVE  EchoInv'
  <2>1. UNCHANGED <<seen, flooded>>
    BY <1>4 DEF EngineReceive, SyncRespond, AnnounceEpoch, HandleEpochChange
  <2> QED BY <2>1, EchoSame
<1> QED BY <1>1, <1>2, <1>3, <1>4 DEF NetNext

LEMMA EchoInit == Init => EchoInv
<1> SUFFICES ASSUME Init PROVE EchoInv
  OBVIOUS
<1>1. seen = [active |-> {}, backup |-> {}] /\ flooded = <<>>
  BY DEF Init, NetInit
<1>2. Msgs(flooded, 1, 0) = {} /\ Len(flooded) = 0
  BY <1>1 DEF Msgs
<1>3. IsTail(flooded, seen, 0, 0)
  BY <1>1, <1>2 DEF IsTail
<1>4. Tails
  BY <1>2, <1>3 DEF Tails
<1>5. NoEchoFlood
  BY <1>1 DEF NoEchoFlood
<1> QED BY <1>1, <1>4, <1>5 DEF EchoInv

LEMMA EchoInvariant == Spec => []EchoInv
<1>1. EchoInv /\ UNCHANGED netVars => EchoInv'
  BY EchoSame DEF netVars
<1>2. EchoInv /\ [Next]_vars => EchoInv'
  BY <1>1, EchoStep, TxLeavesNetwork DEF Next, vars
<1> QED BY <1>2, EchoInit, PTL DEF Spec

-----------------------------------------------------------------------------
(***************************************************************************)
(* Routes.  Between two epochs each route is the one the validator has in  *)
(* the set of the service; while a new set is taken in, validator after    *)
(* validator, those already treated have their new route, the others their *)
(* old one or none.                                                        *)
(***************************************************************************)

PMap(A, B) == UNION {[D -> B] : D \in SUBSET A}

RawMaps == [v2p : PMap(Nat, Peer), p2v : PMap(Peer, Nat)]

Mutual(m) ==
    /\ \A v \in DOMAIN m.v2p : m.v2p[v] \in DOMAIN m.p2v /\ m.p2v[m.v2p[v]] = v
    /\ \A p \in DOMAIN m.p2v : m.p2v[p] \in DOMAIN m.v2p /\ m.v2p[m.p2v[p]] = p

LEMMA PMapFacts ==
    ASSUME NEW A, NEW B, NEW f
    PROVE  f \in PMap(A, B) <=> /\ DOMAIN f \subseteq A /\ f = [x \in DOMAIN f |-> f[x]]
                                /\ \A x \in DOMAIN f : f[x] \in B
<1>1. ASSUME f \in PMap(A, B)
      PROVE  /\ DOMAIN f \subseteq A /\ f = [x \in DOMAIN f |-> f[x]]
             /\ \A x \in DOMAIN f : f[x] \in B
  BY <1>1 DEF PMap
<1>2. ASSUME DOMAIN f \subseteq A, f = [x \in DOMAIN f |-> f[x]], \A x \in DOMAIN f : f[x] \in B
      PROVE  f \in PMap(A, B)
  <2>1. f \in [DOMAIN f -> B]
    BY <1>2
  <2> QED BY <1>2, <2>1 DEF PMap
<1> QED BY <1>1, <1>2

LEMMA WithoutType ==
    ASSUME NEW A, NEW B, NEW f \in PMap(A, B), NEW x
    PROVE  Without(f, x) \in PMap(A, B)
<1> DEFINE g == Without(f, x)
<1>1. /\ DOMAIN g = DOMAIN f \ {x} /\ g = [y \in DOMAIN g |-> g[y]]
      /\ \A y \in DOMAIN f \ {x} : g[y] = f[y]
  BY DEF Without
<1>2. DOMAIN f \subseteq A /\ \A y \in DOMAIN f : f[y] \in B
  BY PMapFacts
<1> HIDE DEF g
<1>3. g \in PMap(A, B)
  BY <1>1, <1>2, PMapFacts
<1> QED BY <1>3 DEF g

LEMMA WithType ==
    ASSUME NEW A, NEW B, NEW f \in PMap(A, B), NEW x \in A, NEW v \in B
    PROVE  With(f, x, v) \in PMap(A, B)
<1> DEFINE g == With(f, x, v)
<1>1. /\ DOMAIN g = DOMAIN f \cup {x} /\ g = [y \in DOMAIN g |-> g[y]] /\ g[x] = v
      /\ \A y \in DOMAIN f \ {x} : g[y] = f[y]
  BY DEF With
<1>2. DOMAIN f \subseteq A /\ \A y \in DOMAIN f : f[y] \in B
  BY PMapFacts
<1> HIDE DEF g
<1>3. g \in PMap(A, B)
  BY <1>1, <1>2, PMapFacts
<1> QED BY <1>3 DEF g

LEMMA RawFields ==
    ASSUME NEW m
    PROVE  m \in RawMaps <=> /\ m = [v2p |-> m.v2p, p2v |-> m.p2v]
                             /\ m.v2p \in PMap(Nat, Peer) /\ m.p2v \in PMap(Peer, Nat)
BY DEF RawMaps

LEMMA InsertRaw ==
    ASSUME NEW m \in RawMaps, NEW v \in Nat, NEW p \in Peer
    PROVE  InsertRoute(m, v, p) \in RawMaps
<1> DEFINE n == InsertRoute(m, v, p)
           a == IF v \in DOMAIN m.v2p THEN Without(m.p2v, m.v2p[v]) ELSE m.p2v
           b == With(m.v2p, v, p)
<1>1. m.v2p \in PMap(Nat, Peer) /\ m.p2v \in PMap(Peer, Nat)
  BY RawFields
<1>2. a \in PMap(Peer, Nat)
  BY <1>1, WithoutType
<1>3. b \in PMap(Nat, Peer)
  BY <1>1, WithType
<1>4. n = [v2p |-> IF p \in DOMAIN a /\ a[p] # v THEN Without(b, a[p]) ELSE b,
           p2v |-> With(a, p, v)]
  BY DEF InsertRoute
<1> HIDE DEF n, a, b
<1>5. With(a, p, v) \in PMap(Peer, Nat)
  BY <1>2, WithType
<1>6. (IF p \in DOMAIN a /\ a[p] # v THEN Without(b, a[p]) ELSE b) \in PMap(Nat, Peer)
  BY <1>3, WithoutType
<1> QED BY <1>4, <1>5, <1>6 DEF RawMaps, n

(* Inserting a route takes the peer from whoever had it.                   *)
LEMMA InsertFacts ==
    ASSUME NEW m \in RawMaps, Mutual(m), NEW v \in Nat, NEW p \in Peer, NEW n,
           n = InsertRoute(m, v, p)
    PROVE  /\ n \in RawMaps /\ Mutual(n) /\ v \in DOMAIN n.v2p /\ n.v2p[v] = p
           /\ \A u \in DOMAIN n.v2p \ {v} : u \in DOMAIN m.v2p /\ n.v2p[u] = m.v2p[u]
           /\ \A u \in DOMAIN m.v2p \ {v} : m.v2p[u] # p => u \in DOMAIN n.v2p
<1> DEFINE a == IF v \in DOMAIN m.v2p THEN Without(m.p2v, m.v2p[v]) ELSE m.p2v
           b == With(m.v2p, v, p)
           c == IF p \in DOMAIN a /\ a[p] # v THEN Without(b, a[p]) ELSE b
           d == With(a, p, v)
<1>1. m.v2p \in PMap(Nat, Peer) /\ m.p2v \in PMap(Peer, Nat)
  BY RawFields
<1>2. /\ a \in PMap(Peer, Nat) /\ DOMAIN a \subseteq DOMAIN m.p2v
      /\ \A q \in DOMAIN m.p2v : q \in DOMAIN a <=> m.p2v[q] # v
      /\ \A q \in DOMAIN a : a[q] = m.p2v[q]
  <2>1. CASE v \in DOMAIN m.v2p
    <3>1. a = Without(m.p2v, m.v2p[v])
      BY <2>1
    <3>2. a \in PMap(Peer, Nat)
      BY <1>1, <3>1, WithoutType
    <3>3. /\ DOMAIN a = DOMAIN m.p2v \ {m.v2p[v]}
          /\ \A q \in DOMAIN m.p2v \ {m.v2p[v]} : a[q] = m.p2v[q]
      BY <3>1 DEF Without
    <3> HIDE DEF a
    <3> QED BY <2>1, <3>2, <3>3 DEF Mutual
  <2>2. CASE v \notin DOMAIN m.v2p
    <3>1. a = m.p2v
      BY <2>2
    <3> HIDE DEF a
    <3> QED BY <1>1, <2>2, <3>1 DEF Mutual
  <2> QED BY <2>1, <2>2
<1>3. /\ DOMAIN b = DOMAIN m.v2p \cup {v} /\ b[v] = p
      /\ \A u \in DOMAIN m.v2p \ {v} : b[u] = m.v2p[u]
  BY DEF With
<1> HIDE DEF a, b
<1>4. /\ DOMAIN c \subseteq DOMAIN b /\ v \in DOMAIN c
      /\ \A u \in DOMAIN c : c[u] = b[u]
      /\ \A u \in DOMAIN m.v2p \ {v} : u \in DOMAIN c <=> m.v2p[u] # p
  <2>1. CASE p \in DOMAIN a /\ a[p] # v
    <3>1. c = Without(b, a[p])
      BY <2>1
    <3>2. DOMAIN c = DOMAIN b \ {a[p]} /\ \A u \in DOMAIN b \ {a[p]} : c[u] = b[u]
      BY <3>1 DEF Without
    <3>3. m.p2v[p] = a[p] /\ m.v2p[a[p]] = p /\ p \in DOMAIN m.p2v /\ a[p] \in DOMAIN m.v2p
      BY <1>2, <2>1 DEF Mutual
    <3> HIDE DEF c
    <3>4. \A u \in DOMAIN m.v2p \ {v} : u \in DOMAIN c <=> m.v2p[u] # p
      BY <1>3, <3>2, <3>3 DEF Mutual
    <3> QED BY <1>3, <2>1, <3>2, <3>4
  <2>2. CASE ~(p \in DOMAIN a /\ a[p] # v)
    <3>1. c = b
      BY <2>2
    <3>2. \A u \in DOMAIN m.v2p \ {v} : m.v2p[u] # p
      BY <1>2, <2>2 DEF Mutual
    <3> HIDE DEF c
    <3> QED BY <1>3, <3>1, <3>2
  <2> QED BY <2>1, <2>2
<1>5. DOMAIN d = DOMAIN a \cup {p} /\ d[p] = v /\ \A q \in DOMAIN a \ {p} : d[q] = a[q]
  BY DEF With
<1>6. n = [v2p |-> c, p2v |-> d]
  BY DEF InsertRoute, a, b
<1> HIDE DEF c, d
<1>7. n.v2p = c /\ n.p2v = d
  BY <1>6
<1>8. n \in RawMaps
  BY InsertRaw
<1>9. ASSUME NEW u \in DOMAIN c PROVE c[u] \in DOMAIN d /\ d[c[u]] = u
  <2>1. CASE u = v
    BY <1>3, <1>4, <1>5, <2>1
  <2>2. CASE u # v
    <3>1. u \in DOMAIN m.v2p /\ c[u] = m.v2p[u] /\ m.v2p[u] # p
      BY <1>3, <1>4, <2>2
    <3>2. m.v2p[u] \in DOMAIN m.p2v /\ m.p2v[m.v2p[u]] = u
      BY <3>1 DEF Mutual
    <3>3. m.v2p[u] \in DOMAIN a /\ a[m.v2p[u]] = u
      BY <1>2, <2>2, <3>2
    <3> QED BY <1>5, <3>1, <3>3
  <2> QED BY <2>1, <2>2
<1>10. ASSUME NEW q \in DOMAIN d PROVE d[q] \in DOMAIN c /\ c[d[q]] = q
  <2>1. CASE q = p
    BY <1>3, <1>4, <1>5, <2>1
  <2>2. CASE q # p
    <3>1. q \in DOMAIN a /\ d[q] = m.p2v[q] /\ m.p2v[q] # v /\ q \in DOMAIN m.p2v
      BY <1>2, <1>5, <2>2
    <3>2. m.p2v[q] \in DOMAIN m.v2p /\ m.v2p[m.p2v[q]] = q
      BY <3>1 DEF Mutual
    <3>3. m.p2v[q] \in DOMAIN c /\ c[m.p2v[q]] = q
      BY <1>3, <1>4, <2>2, <3>1, <3>2
    <3> QED BY <3>1, <3>3
  <2> QED BY <2>1, <2>2
<1>11. Mutual(n)
  BY <1>7, <1>9, <1>10 DEF Mutual
<1>12. \A u \in DOMAIN c \ {v} : u \in DOMAIN m.v2p /\ c[u] = m.v2p[u]
  BY <1>3, <1>4
<1> QED BY <1>3, <1>4, <1>7, <1>8, <1>11, <1>12

LEMMA RemoveRaw ==
    ASSUME NEW m \in RawMaps, NEW v
    PROVE  /\ RemoveRoute(v, m) \in RawMaps
           /\ DOMAIN RemoveRoute(v, m).v2p = DOMAIN m.v2p \ {v}
           /\ \A u \in DOMAIN m.v2p \ {v} : RemoveRoute(v, m).v2p[u] = m.v2p[u]
           /\ Mutual(m) /\ v \in DOMAIN m.v2p => Mutual(RemoveRoute(v, m))
<1> DEFINE a == Without(m.v2p, v)
           b == Without(m.p2v, m.v2p[v])
<1>1. m.v2p \in PMap(Nat, Peer) /\ m.p2v \in PMap(Peer, Nat)
  BY RawFields
<1>2. /\ DOMAIN a = DOMAIN m.v2p \ {v}
      /\ \A u \in DOMAIN m.v2p \ {v} : a[u] = m.v2p[u]
  BY DEF Without
<1>3. /\ DOMAIN b = DOMAIN m.p2v \ {m.v2p[v]}
      /\ \A q \in DOMAIN m.p2v \ {m.v2p[v]} : b[q] = m.p2v[q]
  BY DEF Without
<1>4. a \in PMap(Nat, Peer) /\ b \in PMap(Peer, Nat)
  BY <1>1, WithoutType
<1>5. RemoveRoute(v, m) = [v2p |-> a, p2v |-> b]
  BY DEF RemoveRoute
<1> HIDE DEF a, b
<1>6. RemoveRoute(v, m) \in RawMaps
  BY <1>5, <1>4 DEF RawMaps
<1>7. RemoveRoute(v, m).v2p = a /\ RemoveRoute(v, m).p2v = b
  BY <1>5
<1>8. ASSUME Mutual(m), v \in DOMAIN m.v2p PROVE Mutual(RemoveRoute(v, m))
  <2>1. \A u \in DOMAIN a : a[u] \in DOMAIN b /\ b[a[u]] = u
    BY <1>2, <1>3, <1>8 DEF Mutual
  <2>2. \A q \in DOMAIN b : b[q] \in DOMAIN a /\ a[b[q]] = q
    BY <1>2, <1>3, <1>8 DEF Mutual
  <2> QED BY <1>7, <2>1, <2>2 DEF Mutual
<1> QED BY <1>2, <1>6, <1>7, <1>8

-----------------------------------------------------------------------------
(* The routes, validator after validator.                                  *)

Member == [id : Nat, key : Peer]

Visits(r, set) ==
    /\ r \in [0..Len(set) -> RawMaps] /\ r[0] = routes
    /\ \A n \in 1..Len(set) : r[n] = Reroute(r[n - 1], set[n])
    /\ FoldLeft(Reroute, routes, set) = r[Len(set)]

LEMMA RerouteRaw ==
    ASSUME NEW m \in RawMaps, NEW e \in Member
    PROVE  Reroute(m, e) \in RawMaps
BY InsertRaw DEF Reroute, Member

LEMMA Rerouting ==
    ASSUME routes \in RawMaps, NEW set \in Seq(Member)
    PROVE  \E r : Visits(r, set)
<1> DEFINE N == Len(set)
           step == [p \in RawMaps \X Member |-> Reroute(p[1], p[2])]
           iter(h) == [T \in SUBSET DOMAIN set |->
                          IF T = {} THEN routes
                          ELSE Reroute(h[T \ {Max(T)}], set[Max(T)])]
           G == CHOOSE h : h = iter(h)
<1>1. N \in Nat /\ DOMAIN set = 1..N
  OBVIOUS
<1>2. step \in [RawMaps \X Member -> RawMaps]
  BY RerouteRaw
<1>3. PICK g : FoldsLeft(g, set, RawMaps, routes, step)
  <2> HIDE DEF step
  <2> QED BY <1>2, LeftFoldRecursion
<1>4. g = iter(g)
  <2>1. ASSUME NEW T \in SUBSET (1..N) PROVE g[T] = iter(g)[T]
    <3>1. CASE T = {}
      BY <1>1, <1>3, <3>1 DEF FoldsLeft
    <3>2. CASE T # {}
      <4>1. T \subseteq 0..N
        BY <1>1
      <4>2. Max(T) \in T
        <5> HIDE DEF N
        <5> QED BY <1>1, <3>2, <4>1, GreatestNumber
      <4>3. set[Max(T)] \in Member /\ T \ {Max(T)} \in SUBSET (1..N)
        <5>1. \A n \in 1..N : set[n] \in Member
          BY <1>1
        <5> HIDE DEF N
        <5> QED BY <4>2, <5>1
      <4>4. g[T \ {Max(T)}] \in RawMaps
        BY <1>3, <4>3 DEF FoldsLeft
      <4>5. step[<<g[T \ {Max(T)}], set[Max(T)]>>] = Reroute(g[T \ {Max(T)}], set[Max(T)])
        BY <4>3, <4>4
      <4>6. g[T] = step[<<g[T \ {Max(T)}], set[Max(T)]>>]
        <5> HIDE DEF step
        <5> QED BY <1>3, <3>2 DEF FoldsLeft
      <4> QED BY <1>1, <3>2, <4>5, <4>6
    <3> QED BY <3>1, <3>2
  <2>2. g \in [SUBSET DOMAIN set -> RawMaps]
    BY <1>1, <1>3 DEF FoldsLeft
  <2> QED BY <1>1, <2>1, <2>2
<1>5. G = iter(G)
  <2> HIDE DEF iter
  <2> QED BY <1>4
<1>6. FoldLeft(Reroute, routes, set) = G[1..N]
  <2>1. FoldLeft(Reroute, routes, set) = G[DOMAIN set]
    BY DEF FoldLeft, MapThenFoldSet
  <2> HIDE DEF G
  <2> QED BY <1>1, <2>1
<1>7. G[1..0] = routes
  <2>1. G[{}] = iter(G)[{}]
    BY <1>5
  <2>2. iter(G)[{}] = routes
    OBVIOUS
  <2>3. 1..0 = {}
    OBVIOUS
  <2> HIDE DEF G, iter
  <2> QED BY <2>1, <2>2, <2>3
<1>8. ASSUME NEW n \in 1..N PROVE G[1..n] = Reroute(G[1..(n - 1)], set[n])
  <2>1. /\ Max(1..n) = n /\ (1..n) \ {n} = 1..(n - 1) /\ 1..n # {}
        /\ 1..n \in SUBSET DOMAIN set
    BY <1>1, PrefixMax
  <2>2. G[1..n] = iter(G)[1..n]
    BY <1>5
  <2>3. iter(G)[1..n] = Reroute(G[1..(n - 1)], set[n])
    <3> HIDE DEF G
    <3> QED BY <2>1
  <2> HIDE DEF G, iter
  <2> QED BY <2>2, <2>3
<1> DEFINE P == {n \in Nat : n <= N => G[1..n] \in RawMaps}
           r == [n \in 0..N |-> G[1..n]]
<1>9. 0 \in P
  <2> HIDE DEF G
  <2> QED BY <1>7
<1>10. ASSUME NEW n \in Nat, n \in P PROVE n + 1 \in P
  <2> SUFFICES ASSUME n + 1 <= N PROVE G[1..(n + 1)] \in RawMaps
    BY <1>1
  <2>1. n + 1 \in 1..N /\ (n + 1) - 1 = n /\ set[n + 1] \in Member
    BY <1>1
  <2> HIDE DEF G, N
  <2>2. G[1..n] \in RawMaps
    BY <1>1, <1>10
  <2>3. G[1..(n + 1)] = Reroute(G[1..n], set[n + 1])
    BY <1>8, <2>1
  <2> QED BY <2>1, <2>2, <2>3, RerouteRaw
<1>11. Nat \subseteq P
  <2> HIDE DEF P
  <2> QED BY <1>9, <1>10, NumberInduction
<1> HIDE DEF G
<1>12. r \in [0..N -> RawMaps] /\ r[0] = routes /\ r[N] = G[1..N]
  BY <1>1, <1>7, <1>11
<1>13. ASSUME NEW n \in 1..N PROVE r[n] = Reroute(r[n - 1], set[n])
  <2>1. n \in 0..N /\ n - 1 \in 0..N
    BY <1>1
  <2>2. r[n] = G[1..n] /\ r[n - 1] = G[1..(n - 1)]
    BY <2>1
  <2> QED BY <1>8, <2>2
<1> HIDE DEF r
<1> QED BY <1>6, <1>12, <1>13 DEF Visits

(* The first n validators of a set have their new routes, the others keep  *)
(* theirs or lose it to one of these.                                      *)
Partial(m, set, n) ==
    /\ Mutual(m)
    /\ \A i \in 1..n : set[i].id \in DOMAIN m.v2p /\ m.v2p[set[i].id] = set[i].key
    /\ \A v \in DOMAIN m.v2p :
           (\A i \in 1..n : v # set[i].id) => v \in DOMAIN keys /\ m.v2p[v] = keys[v]

Distinct(set) == \A i, j \in DOMAIN set : i # j => set[i].id # set[j].id /\ set[i].key # set[j].key

Known == \A v \in DOMAIN routes.v2p : v \in DOMAIN keys /\ routes.v2p[v] = keys[v]

LEMMA RerouteStep ==
    ASSUME NEW set \in Seq(Member), Distinct(set), NEW n \in 1..Len(set), NEW m \in RawMaps,
           Partial(m, set, n - 1), NEW o, o = Reroute(m, set[n])
    PROVE  Partial(o, set, n)
<1> DEFINE e == set[n]
<1>1. /\ n \in Nat /\ n - 1 \in Nat /\ e \in Member /\ e.id \in Nat /\ e.key \in Peer
      /\ 1..n = (1..(n - 1)) \cup {n} /\ n \notin 1..(n - 1)
  <2>1. n \in Nat /\ n - 1 \in Nat /\ 1..n = (1..(n - 1)) \cup {n} /\ n \notin 1..(n - 1)
    <3>1. Len(set) \in Nat
      OBVIOUS
    <3> QED BY ONLY n \in 1..Len(set), <3>1
  <2>2. e \in Member
    OBVIOUS
  <2> HIDE DEF e
  <2> QED BY <2>1, <2>2 DEF Member
<1>2. \A i \in 1..(n - 1) : set[i].id # e.id /\ set[i].key # e.key
  BY DEF Distinct
<1>3. CASE e.id \in DOMAIN m.v2p /\ e.id \in DOMAIN keys /\ keys[e.id] = e.key
  <2>1. o = m
    BY <1>3 DEF Reroute
  <2>2. m.v2p[e.id] = e.key
    BY <1>2, <1>3 DEF Partial
  <2> HIDE DEF e
  <2>3. e = set[n]
    BY DEF e
  <2> QED BY <1>1, <1>3, <2>1, <2>2, <2>3 DEF Partial
<1>4. CASE ~(e.id \in DOMAIN m.v2p /\ e.id \in DOMAIN keys /\ keys[e.id] = e.key)
  <2>1. o = InsertRoute(m, e.id, e.key) /\ Mutual(m)
    BY <1>4 DEF Reroute, Partial
  <2>2. /\ o \in RawMaps /\ Mutual(o) /\ e.id \in DOMAIN o.v2p /\ o.v2p[e.id] = e.key
        /\ \A u \in DOMAIN o.v2p \ {e.id} : u \in DOMAIN m.v2p /\ o.v2p[u] = m.v2p[u]
        /\ \A u \in DOMAIN m.v2p \ {e.id} : m.v2p[u] # e.key => u \in DOMAIN o.v2p
    <3> DEFINE v == e.id
               p == e.key
    <3>1. v \in Nat /\ p \in Peer /\ o = InsertRoute(m, v, p)
      BY <1>1, <2>1
    <3> HIDE DEF v, p
    <3>2. /\ o \in RawMaps /\ Mutual(o) /\ v \in DOMAIN o.v2p /\ o.v2p[v] = p
          /\ \A u \in DOMAIN o.v2p \ {v} : u \in DOMAIN m.v2p /\ o.v2p[u] = m.v2p[u]
          /\ \A u \in DOMAIN m.v2p \ {v} : m.v2p[u] # p => u \in DOMAIN o.v2p
      BY ONLY m \in RawMaps, <2>1, <3>1, InsertFacts, SMTT(30)
    <3> QED BY <3>2 DEF v, p
  <2>3. e = set[n]
    OBVIOUS
  <2> HIDE DEF e
  <2>4. \A i \in 1..(n - 1) : set[i].id \in DOMAIN o.v2p /\ o.v2p[set[i].id] = set[i].key
    BY <1>2, <2>2 DEF Partial
  <2>5. ASSUME NEW v \in DOMAIN o.v2p, \A i \in 1..n : v # set[i].id
        PROVE  v \in DOMAIN keys /\ o.v2p[v] = keys[v]
    BY <1>1, <2>2, <2>3, <2>5 DEF Partial
  <2> QED BY <1>1, <2>2, <2>3, <2>4, <2>5 DEF Partial
<1> QED BY <1>3, <1>4

LEMMA Rerouted ==
    ASSUME routes \in RawMaps, Mutual(routes), Known, NEW set \in Seq(Member), Distinct(set),
           NEW r, Visits(r, set)
    PROVE  r[Len(set)] \in RawMaps /\ Partial(r[Len(set)], set, Len(set))
<1> DEFINE N == Len(set)
           P == {n \in Nat : n <= N => Partial(r[n], set, n)}
<1>1. N \in Nat
  OBVIOUS
<1>2. 0 \in P
  <2>1. r[0] = routes /\ 1..0 = {}
    BY DEF Visits
  <2> QED BY <2>1 DEF Partial, Known
<1>3. ASSUME NEW n \in Nat, n \in P PROVE n + 1 \in P
  <2> SUFFICES ASSUME n + 1 <= N PROVE Partial(r[n + 1], set, n + 1)
    OBVIOUS
  <2>1. n + 1 \in 1..N /\ (n + 1) - 1 = n /\ n \in 0..N /\ n <= N
    BY <1>1
  <2>2. r[n] \in RawMaps /\ r[n + 1] = Reroute(r[n], set[n + 1])
    BY <2>1 DEF Visits
  <2>3. Partial(r[n], set, n)
    BY <1>3, <2>1
  <2>4. Partial(r[n], set, (n + 1) - 1)
    BY <2>1, <2>3
  <2> QED BY <2>1, <2>2, <2>4, RerouteStep
<1>4. Nat \subseteq P
  <2> HIDE DEF P
  <2> QED BY <1>2, <1>3, NumberInduction
<1> QED BY <1>1, <1>4 DEF Visits

(* The routes of the validators that left are taken out one by one.        *)
Forgets(o, m, T) ==
    /\ o \in RawMaps /\ Mutual(o) /\ DOMAIN o.v2p = DOMAIN m.v2p \ T
    /\ \A v \in DOMAIN o.v2p : o.v2p[v] = m.v2p[v]

LEMMA Forgetting ==
    ASSUME NEW m \in RawMaps, Mutual(m), NEW S, S \subseteq DOMAIN m.v2p, IsFiniteSet(S)
    PROVE  Forgets(FoldSet(RemoveRoute, m, S), m, S)
<1> DEFINE pick == [T \in SUBSET S |-> CHOOSE x \in T : TRUE]
           step == [p \in S \X RawMaps |-> RemoveRoute(p[1], p[2])]
           iter(g) == [T \in SUBSET S |->
                          IF T = {} THEN m
                          ELSE RemoveRoute(CHOOSE x \in T : TRUE, g[T \ {CHOOSE x \in T : TRUE}])]
           G == CHOOSE g : g = iter(g)
<1>1. \A T \in SUBSET S : T # {} => (CHOOSE x \in T : TRUE) \in T
  OBVIOUS
<1>2. step \in [S \X RawMaps -> RawMaps]
  BY RemoveRaw
<1>3. IsFold(S, RawMaps, pick, m, step)
  <2> HIDE DEF step
  <2> QED BY <1>1, <1>2 DEF IsFold
<1>4. PICK g : FollowsFold(g, S, RawMaps, pick, m, step)
  <2> HIDE DEF pick, step
  <2> QED BY <1>3, FoldRecursion
<1>5. g = iter(g)
  <2>1. ASSUME NEW T \in SUBSET S PROVE g[T] = iter(g)[T]
    <3>1. CASE T = {}
      BY <1>4, <3>1 DEF FollowsFold
    <3>2. CASE T # {}
      <4> DEFINE x == CHOOSE y \in T : TRUE
      <4>1. x \in T /\ pick[T] = x
        BY <1>1, <3>2
      <4>2. g[T \ {x}] \in RawMaps
        BY <1>4 DEF FollowsFold
      <4>3. g[T] = step[<<pick[T], g[T \ {pick[T]}]>>]
        <5> HIDE DEF pick, step
        <5> QED BY <1>4, <3>2 DEF FollowsFold
      <4>4. iter(g)[T] = RemoveRoute(x, g[T \ {x}])
        BY <3>2
      <4> HIDE DEF x, pick
      <4>5. step[<<x, g[T \ {x}]>>] = RemoveRoute(x, g[T \ {x}])
        BY <4>1, <4>2
      <4> HIDE DEF step, iter
      <4> QED BY <4>1, <4>3, <4>4, <4>5
    <3> QED BY <3>1, <3>2
  <2>2. g \in [SUBSET S -> RawMaps]
    BY <1>4 DEF FollowsFold
  <2> HIDE DEF pick, step
  <2> QED BY <2>1, <2>2
<1>6. G = iter(G)
  <2> HIDE DEF iter
  <2> QED BY <1>5
<1>7. FoldSet(RemoveRoute, m, S) = G[S]
  BY DEF FoldSet, MapThenFoldSet
<1> DEFINE P == {T \in SUBSET S : Forgets(G[T], m, T)}
<1>8. ASSUME NEW T \in SUBSET S, \A x \in T : T \ {x} \in P
      PROVE  T \in P
  <2>1. G[T] = iter(G)[T]
    BY <1>6
  <2>2. CASE T = {}
    <3>1. iter(G)[T] = m
      BY <2>2
    <3> HIDE DEF G, iter
    <3> QED BY <2>1, <2>2, <3>1 DEF Forgets
  <2>3. CASE T # {}
    <3> DEFINE x == CHOOSE y \in T : TRUE
    <3>1. x \in T
      BY <1>1, <2>3
    <3>2. iter(G)[T] = RemoveRoute(x, G[T \ {x}])
      BY <2>3
    <3> HIDE DEF G, iter, x
    <3>3. Forgets(G[T \ {x}], m, T \ {x})
      BY <1>8, <3>1
    <3> DEFINE o == G[T \ {x}]
               q == RemoveRoute(x, o)
    <3>4. /\ o \in RawMaps /\ Mutual(o) /\ DOMAIN o.v2p = DOMAIN m.v2p \ (T \ {x})
          /\ \A v \in DOMAIN o.v2p : o.v2p[v] = m.v2p[v]
      BY <3>3 DEF Forgets
    <3> HIDE DEF o
    <3>5. x \in DOMAIN o.v2p
      BY <3>1, <3>4
    <3>6. /\ q \in RawMaps /\ DOMAIN q.v2p = DOMAIN o.v2p \ {x} /\ Mutual(q)
          /\ \A u \in DOMAIN o.v2p \ {x} : q.v2p[u] = o.v2p[u]
      BY <3>4, <3>5, RemoveRaw
    <3> HIDE DEF q
    <3>7. DOMAIN q.v2p = DOMAIN m.v2p \ T /\ \A v \in DOMAIN q.v2p : q.v2p[v] = m.v2p[v]
      BY <3>1, <3>4, <3>6
    <3>8. Forgets(q, m, T)
      BY <3>6, <3>7 DEF Forgets
    <3>9. G[T] = q
      BY <2>1, <3>2 DEF q, o
    <3> QED BY <3>8, <3>9
  <2> QED BY <2>2, <2>3
<1>9. SUBSET S \subseteq P
  <2>1. IsInductive(P, S)
    <3> HIDE DEF P
    <3> QED BY <1>8 DEF IsInductive
  <2> HIDE DEF P
  <2> QED BY <2>1, SubsetInduction
<1> HIDE DEF G
<1> QED BY <1>7, <1>9

(* A map of validators to finitely many peers, no two to the same, has     *)
(* finitely many validators.                                               *)
LEMMA RoutesFinite ==
    ASSUME NEW m \in RawMaps, Mutual(m)
    PROVE  IsFiniteSet(DOMAIN m.v2p)
<1>1. m.v2p \in [DOMAIN m.v2p -> Peer]
  BY RawFields, PMapFacts
<1>2. m.v2p \in Injection(DOMAIN m.v2p, Peer)
  BY <1>1 DEF Injection, IsInjective, Mutual
<1> QED BY <1>2, FS_Injection, NetworkConstants

LEMMA KeysOfSet ==
    ASSUME NEW set \in Seq(Member), Distinct(set)
    PROVE  /\ DOMAIN KeysOf(set) \subseteq Nat
           /\ KeysOf(set) = [v \in DOMAIN KeysOf(set) |-> KeysOf(set)[v]]
           /\ \A v \in DOMAIN KeysOf(set) : KeysOf(set)[v] \in Peer
           /\ \A v : v \in DOMAIN KeysOf(set) <=> \E i \in DOMAIN set : set[i].id = v
           /\ \A i \in DOMAIN set : KeysOf(set)[set[i].id] = set[i].key
<1>1. \A i \in DOMAIN set : set[i] \in Member
  OBVIOUS
<1>2. \A s : s \in Range(set) <=> \E i \in DOMAIN set : s = set[i]
  BY DEF Range
<1>3. DOMAIN KeysOf(set) = {s.id : s \in Range(set)}
  BY DEF KeysOf
<1>4. \A v : v \in DOMAIN KeysOf(set) <=> \E i \in DOMAIN set : set[i].id = v
  BY <1>2, <1>3
<1>5. KeysOf(set) = [v \in DOMAIN KeysOf(set) |-> KeysOf(set)[v]]
  BY DEF KeysOf
<1>6. ASSUME NEW i \in DOMAIN set PROVE KeysOf(set)[set[i].id] = set[i].key
  <2> DEFINE c == CHOOSE s \in Range(set) : s.id = set[i].id
  <2>1. set[i] \in Range(set) /\ set[i].id \in DOMAIN KeysOf(set)
    BY <1>2, <1>4
  <2>2. c \in Range(set) /\ c.id = set[i].id
    BY <2>1
  <2>3. KeysOf(set)[set[i].id] = c.key
    BY <1>3, <2>1 DEF KeysOf
  <2> HIDE DEF c
  <2>4. PICK j \in DOMAIN set : c = set[j]
    BY <1>2, <2>2
  <2>5. j = i
    BY <2>2, <2>4 DEF Distinct
  <2> QED BY <2>3, <2>4, <2>5
<1>7. DOMAIN KeysOf(set) \subseteq Nat /\ \A v \in DOMAIN KeysOf(set) : KeysOf(set)[v] \in Peer
  <2> SUFFICES ASSUME NEW v \in DOMAIN KeysOf(set) PROVE v \in Nat /\ KeysOf(set)[v] \in Peer
    OBVIOUS
  <2>1. PICK i \in DOMAIN set : set[i].id = v
    BY <1>4
  <2>2. set[i] \in Member /\ KeysOf(set)[v] = set[i].key
    BY <1>1, <1>6, <2>1
  <2> QED BY <2>1, <2>2 DEF Member
<1> QED BY <1>4, <1>5, <1>6, <1>7

LEMMA SetsAreDistinct ==
    ASSUME NEW e \in 1..Len(Sets)
    PROVE  Sets[e] \in Seq(Member) /\ Distinct(Sets[e])
BY NetworkAssumption DEF Member, Distinct

RouteInv == routes \in RawMaps /\ Mutual(routes) /\ Known /\ (notice = 0 => routes.v2p = keys)

LEMMA EpochRoutes ==
    ASSUME RouteInv, AdmissionInv, HandleEpochChange
    PROVE  RouteInv'
<1> DEFINE set == Sets[notice]
           new == FoldLeft(Reroute, routes, set)
           N == Len(set)
           K == KeysOf(set)
           gone == DOMAIN new.v2p \ DOMAIN K
<1>1. notice \in 1..Len(Sets)
  BY NetworkConstants DEF HandleEpochChange, AdmissionInv, Admission
<1>2. set \in Seq(Member) /\ Distinct(set)
  BY <1>1, SetsAreDistinct
<1>3. routes' = FoldSet(RemoveRoute, new, gone) /\ keys' = K /\ notice' = 0
  BY DEF HandleEpochChange
<1>4. routes \in RawMaps /\ Mutual(routes) /\ Known
  BY DEF RouteInv
<1> HIDE DEF set
<1>5. N \in Nat /\ DOMAIN set = 1..N
  BY <1>2
<1>6. new \in RawMaps /\ Partial(new, set, N)
  <2>1. PICK r : Visits(r, set)
    BY <1>2, <1>4, Rerouting
  <2>2. r[Len(set)] \in RawMaps /\ Partial(r[Len(set)], set, Len(set))
    BY <1>2, <1>4, <2>1, Rerouted
  <2>3. new = r[Len(set)]
    BY <2>1 DEF Visits
  <2> QED BY <2>2, <2>3
<1> HIDE DEF new, N
<1>7. /\ DOMAIN K \subseteq Nat /\ K = [v \in DOMAIN K |-> K[v]]
      /\ \A v : v \in DOMAIN K <=> \E i \in DOMAIN set : set[i].id = v
      /\ \A i \in DOMAIN set : K[set[i].id] = set[i].key
  BY <1>2, KeysOfSet
<1> HIDE DEF K
<1>8. gone \subseteq DOMAIN new.v2p /\ IsFiniteSet(gone)
  <2>1. IsFiniteSet(DOMAIN new.v2p)
    BY <1>6, RoutesFinite DEF Partial
  <2> QED BY <2>1, FS_Subset
<1>9. \A v : v \in gone <=> v \in DOMAIN new.v2p /\ v \notin DOMAIN K
  OBVIOUS
<1> HIDE DEF gone
<1>10. Forgets(routes', new, gone)
  BY <1>3, <1>6, <1>8, Forgetting DEF Partial
<1>11. DOMAIN routes'.v2p = DOMAIN K
  <2>1. DOMAIN K \subseteq DOMAIN new.v2p
    BY <1>5, <1>6, <1>7 DEF Partial
  <2> QED BY <1>9, <1>10, <2>1 DEF Forgets
<1>12. ASSUME NEW v \in DOMAIN K PROVE routes'.v2p[v] = K[v]
  <2>1. PICK i \in 1..N : set[i].id = v
    BY <1>5, <1>7
  <2>2. new.v2p[v] = set[i].key /\ K[v] = set[i].key
    BY <1>5, <1>6, <1>7, <2>1 DEF Partial
  <2> QED BY <1>10, <1>11, <2>2 DEF Forgets
<1>13. routes' \in RawMaps /\ Mutual(routes')
  BY <1>10 DEF Forgets
<1>14. routes'.v2p = [v \in DOMAIN routes'.v2p |-> routes'.v2p[v]]
  BY <1>13, RawFields, PMapFacts
<1>15. routes'.v2p = K
  BY <1>7, <1>11, <1>12, <1>14
<1> QED BY <1>3, <1>11, <1>12, <1>13, <1>15 DEF RouteInv, Known

LEMMA EmptyFacts ==
    EmptyMap \in RawMaps /\ Mutual(EmptyMap) /\ DOMAIN EmptyMap.v2p = {}
<1>1. DOMAIN <<>> = {} /\ <<>> = [x \in {} |-> <<>>[x]]
  OBVIOUS
<1>2. <<>> \in PMap(Nat, Peer) /\ <<>> \in PMap(Peer, Nat)
  BY <1>1, PMapFacts
<1>3. EmptyMap.v2p = <<>> /\ EmptyMap.p2v = <<>> /\ EmptyMap \in RawMaps
  BY <1>2 DEF EmptyMap, RawMaps
<1> QED BY <1>1, <1>3 DEF Mutual

(* The routes of the configured peers, one after the other.                *)
Configures(r, ids) ==
    /\ r \in [0..Len(ids) -> RawMaps] /\ r[0] = EmptyMap
    /\ \A n \in 1..Len(ids) : r[n] = ConfiguredRoute(r[n - 1], ids[n])
    /\ FoldLeft(ConfiguredRoute, EmptyMap, ids) = r[Len(ids)]

LEMMA GenesisKeys ==
    /\ DOMAIN KeysOf(Sets[1]) \subseteq Nat
    /\ \A v \in DOMAIN KeysOf(Sets[1]) : KeysOf(Sets[1])[v] \in Peer
<1>1. 1 \in 1..Len(Sets)
  BY NetworkConstants
<1> QED BY <1>1, SetsAreDistinct, KeysOfSet

LEMMA ConfiguredRaw ==
    ASSUME NEW m \in RawMaps, NEW v \in DOMAIN KeysOf(Sets[1])
    PROVE  ConfiguredRoute(m, v) \in RawMaps
BY GenesisKeys, InsertRaw DEF ConfiguredRoute

LEMMA Configuring ==
    ASSUME NEW ids \in Seq(DOMAIN KeysOf(Sets[1]))
    PROVE  \E r : Configures(r, ids)
<1> DEFINE N == Len(ids)
           step == [p \in RawMaps \X DOMAIN KeysOf(Sets[1]) |-> ConfiguredRoute(p[1], p[2])]
           iter(h) == [T \in SUBSET DOMAIN ids |->
                          IF T = {} THEN EmptyMap
                          ELSE ConfiguredRoute(h[T \ {Max(T)}], ids[Max(T)])]
           G == CHOOSE h : h = iter(h)
<1>1. N \in Nat /\ DOMAIN ids = 1..N
  OBVIOUS
<1>2. step \in [RawMaps \X DOMAIN KeysOf(Sets[1]) -> RawMaps]
  BY ConfiguredRaw
<1>3. PICK g : FoldsLeft(g, ids, RawMaps, EmptyMap, step)
  <2> HIDE DEF step
  <2> QED BY <1>2, EmptyFacts, LeftFoldRecursion
<1>4. g = iter(g)
  <2>1. ASSUME NEW T \in SUBSET (1..N) PROVE g[T] = iter(g)[T]
    <3>1. CASE T = {}
      BY <1>1, <1>3, <3>1 DEF FoldsLeft
    <3>2. CASE T # {}
      <4>1. T \subseteq 0..N
        BY <1>1
      <4>2. Max(T) \in T
        <5> HIDE DEF N
        <5> QED BY <1>1, <3>2, <4>1, GreatestNumber
      <4>3. ids[Max(T)] \in DOMAIN KeysOf(Sets[1]) /\ T \ {Max(T)} \in SUBSET (1..N)
        <5>1. \A n \in 1..N : ids[n] \in DOMAIN KeysOf(Sets[1])
          BY <1>1
        <5> HIDE DEF N
        <5> QED BY <4>2, <5>1
      <4>4. g[T \ {Max(T)}] \in RawMaps
        BY <1>3, <4>3 DEF FoldsLeft
      <4>5. step[<<g[T \ {Max(T)}], ids[Max(T)]>>] = ConfiguredRoute(g[T \ {Max(T)}], ids[Max(T)])
        BY <4>3, <4>4
      <4>6. g[T] = step[<<g[T \ {Max(T)}], ids[Max(T)]>>]
        <5> HIDE DEF step
        <5> QED BY <1>3, <3>2 DEF FoldsLeft
      <4> QED BY <1>1, <3>2, <4>5, <4>6
    <3> QED BY <3>1, <3>2
  <2>2. g \in [SUBSET DOMAIN ids -> RawMaps]
    BY <1>1, <1>3 DEF FoldsLeft
  <2> QED BY <1>1, <2>1, <2>2
<1>5. G = iter(G)
  <2> HIDE DEF iter
  <2> QED BY <1>4
<1>6. FoldLeft(ConfiguredRoute, EmptyMap, ids) = G[1..N]
  <2>1. FoldLeft(ConfiguredRoute, EmptyMap, ids) = G[DOMAIN ids]
    BY DEF FoldLeft, MapThenFoldSet
  <2> HIDE DEF G
  <2> QED BY <1>1, <2>1
<1>7. G[1..0] = EmptyMap
  <2>1. G[{}] = iter(G)[{}]
    BY <1>5
  <2>2. iter(G)[{}] = EmptyMap
    OBVIOUS
  <2>3. 1..0 = {}
    OBVIOUS
  <2> HIDE DEF G, iter
  <2> QED BY <2>1, <2>2, <2>3
<1>8. ASSUME NEW n \in 1..N PROVE G[1..n] = ConfiguredRoute(G[1..(n - 1)], ids[n])
  <2>1. /\ Max(1..n) = n /\ (1..n) \ {n} = 1..(n - 1) /\ 1..n # {}
        /\ 1..n \in SUBSET DOMAIN ids
    BY <1>1, PrefixMax
  <2>2. G[1..n] = iter(G)[1..n]
    BY <1>5
  <2>3. iter(G)[1..n] = ConfiguredRoute(G[1..(n - 1)], ids[n])
    <3> HIDE DEF G
    <3> QED BY <2>1
  <2> HIDE DEF G, iter
  <2> QED BY <2>2, <2>3
<1> DEFINE P == {n \in Nat : n <= N => G[1..n] \in RawMaps}
           r == [n \in 0..N |-> G[1..n]]
<1>9. 0 \in P
  <2> HIDE DEF G
  <2> QED BY <1>7, EmptyFacts
<1>10. ASSUME NEW n \in Nat, n \in P PROVE n + 1 \in P
  <2> SUFFICES ASSUME n + 1 <= N PROVE G[1..(n + 1)] \in RawMaps
    BY <1>1
  <2>1. n + 1 \in 1..N /\ (n + 1) - 1 = n /\ ids[n + 1] \in DOMAIN KeysOf(Sets[1])
    BY <1>1
  <2> HIDE DEF G, N
  <2>2. G[1..n] \in RawMaps
    BY <1>1, <1>10
  <2>3. G[1..(n + 1)] = ConfiguredRoute(G[1..n], ids[n + 1])
    BY <1>8, <2>1
  <2> QED BY <2>1, <2>2, <2>3, ConfiguredRaw
<1>11. Nat \subseteq P
  <2> HIDE DEF P
  <2> QED BY <1>9, <1>10, NumberInduction
<1> HIDE DEF G
<1>12. r \in [0..N -> RawMaps] /\ r[0] = EmptyMap /\ r[N] = G[1..N]
  BY <1>1, <1>7, <1>11
<1>13. ASSUME NEW n \in 1..N PROVE r[n] = ConfiguredRoute(r[n - 1], ids[n])
  <2>1. n \in 0..N /\ n - 1 \in 0..N
    BY <1>1
  <2>2. r[n] = G[1..n] /\ r[n - 1] = G[1..(n - 1)]
    BY <2>1
  <2> QED BY <1>8, <2>2
<1> HIDE DEF r
<1> QED BY <1>6, <1>12, <1>13 DEF Configures


OfGenesis(m) ==
    /\ Mutual(m)
    /\ \A v \in DOMAIN m.v2p : v \in DOMAIN KeysOf(Sets[1]) /\ m.v2p[v] = KeysOf(Sets[1])[v]

LEMMA ConfiguredOfGenesis ==
    ASSUME NEW ids \in Seq(DOMAIN KeysOf(Sets[1]))
    PROVE  /\ FoldLeft(ConfiguredRoute, EmptyMap, ids) \in RawMaps
           /\ OfGenesis(FoldLeft(ConfiguredRoute, EmptyMap, ids))
<1> DEFINE N == Len(ids)
<1>1. PICK r : Configures(r, ids)
  BY Configuring
<1> DEFINE P == {n \in Nat : n <= N => OfGenesis(r[n])}
<1>2. N \in Nat
  OBVIOUS
<1>3. 0 \in P
  BY <1>1, EmptyFacts DEF Configures, OfGenesis
<1>4. ASSUME NEW n \in Nat, n \in P PROVE n + 1 \in P
  <2> SUFFICES ASSUME n + 1 <= N PROVE OfGenesis(r[n + 1])
    OBVIOUS
  <2>1. n + 1 \in 1..N /\ (n + 1) - 1 = n /\ n \in 0..N /\ n <= N
    BY <1>2
  <2> DEFINE m == r[n]
             o == r[n + 1]
             v == ids[n + 1]
             K == KeysOf(Sets[1])
             p == K[v]
  <2>2. m \in RawMaps /\ o = InsertRoute(m, v, p)
    BY <1>1, <2>1 DEF Configures, ConfiguredRoute
  <2>3. v \in DOMAIN K
    BY <2>1
  <2>4. OfGenesis(m)
    BY <1>4, <2>1
  <2>5. v \in Nat /\ p \in Peer
    BY <2>3, GenesisKeys
  <2>6. Mutual(m) /\ \A u \in DOMAIN m.v2p : u \in DOMAIN K /\ m.v2p[u] = K[u]
    BY <2>4 DEF OfGenesis
  <2>7. p = K[v]
    OBVIOUS
  <2> HIDE DEF m, o, v, p
  <2>8. /\ o \in RawMaps /\ Mutual(o) /\ v \in DOMAIN o.v2p /\ o.v2p[v] = p
        /\ \A u \in DOMAIN o.v2p \ {v} : u \in DOMAIN m.v2p /\ o.v2p[u] = m.v2p[u]
    BY <2>2, <2>5, <2>6, InsertFacts, SMTT(30)
  <2>9. \A u \in DOMAIN o.v2p : u \in DOMAIN K /\ o.v2p[u] = K[u]
    <3> HIDE DEF K
    <3> QED BY <2>3, <2>6, <2>7, <2>8
  <2>10. OfGenesis(o)
    BY <2>8, <2>9 DEF OfGenesis
  <2> QED BY <2>10 DEF o
<1>5. Nat \subseteq P
  <2> HIDE DEF P
  <2> QED BY <1>3, <1>4, NumberInduction
<1>6. r[N] \in RawMaps /\ OfGenesis(r[N])
  BY <1>1, <1>2, <1>5 DEF Configures
<1> QED BY <1>1, <1>6 DEF Configures

LEMMA RouteInit == Init => RouteInv
<1> SUFFICES ASSUME Init PROVE RouteInv
  OBVIOUS
<1>1. /\ setting \in Settings /\ routes = ConfiguredRoutes /\ keys = KeysOf(Sets[1])
      /\ notice \in 1..setting.epochs
  BY DEF Init, NetInit
<1>2. notice # 0
  BY <1>1, NetworkConstants
<1>3. setting.persistent_peers \in Seq(DOMAIN KeysOf(Sets[1]))
  BY <1>1, SettingsAssumption
<1>4. routes \in RawMaps /\ OfGenesis(routes)
  BY <1>1, <1>3, ConfiguredOfGenesis DEF ConfiguredRoutes
<1> QED BY <1>1, <1>2, <1>4 DEF RouteInv, OfGenesis, Known

LEMMA RouteSame ==
    ASSUME RouteInv, UNCHANGED <<routes, keys>>, notice' = notice \/ notice' # 0
    PROVE  RouteInv'
BY DEF RouteInv, Known

LEMMA RouteStep == AdmissionInv /\ RouteInv /\ NetNext => RouteInv'
<1> SUFFICES ASSUME AdmissionInv, RouteInv, NetNext PROVE RouteInv'
  OBVIOUS
<1>1. ASSUME NEW p \in Peer,
             \/ Connect(p) \/ Disconnect(p) \/ ConnectionEstablished(p) \/ ConnectionClosed(p)
             \/ OnSyncRequest(p)
             \/ \E k \in Kinds : ValidateSubstream(k, p) \/ StreamOpened(k, p) \/ StreamClosed(k, p)
             \/ \E m \in Message : OnNotification(p, m) \/ OnRequest(p, m)
      PROVE  UNCHANGED <<routes, keys, notice>>
  BY <1>1, Zenon
     DEF Connect, Disconnect, ConnectionEstablished, ConnectionClosed, OnSyncRequest,
         ValidateSubstream, StreamOpened, StreamClosed, OnNotification, OnRequest
<1>2. ASSUME (\E m \in OwnMessage : Broadcast(m)) \/ EngineReceive \/ SyncRespond
      PROVE  UNCHANGED <<routes, keys, notice>>
  BY <1>2 DEF Broadcast, EngineReceive, SyncRespond
<1>3. ASSUME AnnounceEpoch PROVE UNCHANGED <<routes, keys>> /\ notice' # 0
  <2>1. notice \in Nat /\ epoch \in Nat
    BY NetworkConstants DEF AdmissionInv, Admission
  <2> QED BY <1>3, <2>1 DEF AnnounceEpoch
<1> QED BY <1>1, <1>2, <1>3, RouteSame, EpochRoutes DEF NetNext

LEMMA RouteInvariant == Spec => []RouteInv
<1>1. ASSUME RouteInv, UNCHANGED netVars PROVE RouteInv'
  BY <1>1, RouteSame DEF netVars
<1>2. AdmissionInv /\ RouteInv /\ [Next]_vars => RouteInv'
  BY <1>1, RouteStep, TxLeavesNetwork DEF Next, vars
<1> QED BY <1>2, RouteInit, AdmissionInvariant, PTL DEF Spec

-----------------------------------------------------------------------------
(* What the network service guarantees.                                    *)

(***************************************************************************)
(* The service never holds more than max_peers connections except for      *)
(* peers that are or were validators: at the limit ConnectionEstablished   *)
(* ignores any other peer, and puts one out for a validator.               *)
(***************************************************************************)
THEOREM SlotsGoToValidators == Spec => []SlotsAreForValidators
<1>1. AdmissionInv => SlotsAreForValidators
  BY DEF AdmissionInv
<1> QED BY <1>1, AdmissionInvariant, PTL

(***************************************************************************)
(* Whatever order the events of connections and streams are taken in, and  *)
(* though the closing of a stream may go unreported, the service sends     *)
(* over a stream only to a peer of our chain that holds a slot or was a    *)
(* validator, and serves blocks to peers of our chain only.                *)
(***************************************************************************)
THEOREM StreamsNeedAdmission == Spec => []StreamsAreAdmitted
<1>1. AdmissionInv => StreamsAreAdmitted
  BY DEF AdmissionInv
<1> QED BY <1>1, AdmissionInvariant, PTL

(***************************************************************************)
(* relay_consensus_message passes a message on a second time only after    *)
(* more than DedupLimit others have gone out, across any rotations of the  *)
(* two dedup sets.                                                         *)
(***************************************************************************)
THEOREM MessagesDoNotEcho == Spec => []NoEchoFlood
<1>1. EchoInv => NoEchoFlood
  BY DEF EchoInv
<1> QED BY <1>1, EchoInvariant, PTL

(***************************************************************************)
(* handle_epoch_change leaves the two maps of peer_map inverse to each     *)
(* other and equal to the keys of the new set, whatever keys were rotated, *)
(* exchanged or taken over between the sets, and though epochs may have    *)
(* been skipped in the watch channel.                                      *)
(***************************************************************************)
THEOREM RoutesFollowSets == Spec => []RoutesMatchSet
<1>1. RouteInv => RoutesMatchSet
  BY DEF RouteInv, RoutesMatchSet, Mutual
<1> QED BY <1>1, RouteInvariant, PTL

-----------------------------------------------------------------------------
(***************************************************************************)
(* The pool.  Its entries are one for a transaction and filed under their  *)
(* priorities; that they are finitely many orders them, so that there is a *)
(* lowest one to make room, and a recheck reaches them all.                *)
(***************************************************************************)

Entries == [tx : Tx, priority : Nat, gas : Nat, at : Nat]

Filed(p) ==
    /\ p.entries \subseteq Entries /\ IsFiniteSet(p.entries)
    /\ DOMAIN p.seen = Pending(p)
    /\ \A e \in p.entries : p.seen[e.tx] = e.priority
    /\ \A e, f \in p.entries : e.tx = f.tx => e = f

LEMMA EntryFields ==
    ASSUME NEW e \in Entries
    PROVE  e.tx \in Tx /\ e.priority \in Nat /\ e.gas \in Nat /\ e.at \in Nat
           /\ HashOrder[e.tx] \in Nat
BY MempoolAssumption DEF Entries

(* The order of entries.                                                   *)
LEMMA BelowOrders ==
    ASSUME NEW p, Filed(p)
    PROVE  /\ \A e \in p.entries : ~Below(e, e)
           /\ \A e, f \in p.entries : e # f => Below(e, f) \/ Below(f, e)
           /\ \A e, f, g \in p.entries : Below(e, f) /\ Below(f, g) => Below(e, g)
<1>1. \A e \in p.entries : e.tx \in Tx /\ e.priority \in Nat /\ HashOrder[e.tx] \in Nat
  BY EntryFields DEF Filed
<1>2. \A e, f \in p.entries : HashOrder[e.tx] = HashOrder[f.tx] => e = f
  BY <1>1, MempoolAssumption DEF Filed
<1>3. \A e \in p.entries : ~Below(e, e)
  BY <1>1 DEF Below
<1>4. \A e, f \in p.entries : e # f => Below(e, f) \/ Below(f, e)
  BY <1>1, <1>2 DEF Below
<1>5. \A e, f, g \in p.entries : Below(e, f) /\ Below(f, g) => Below(e, g)
  BY <1>1 DEF Below
<1> QED BY <1>3, <1>4, <1>5

LEMMA LowestExists ==
    ASSUME NEW p, Filed(p), p.entries # {}
    PROVE  Lowest(p) \in p.entries /\ \A f \in p.entries \ {Lowest(p)} : Below(Lowest(p), f)
<1> DEFINE S == p.entries
           Q == {e.priority : e \in S}
<1>1. \A e \in S : e.priority \in Nat /\ HashOrder[e.tx] \in Nat /\ e.tx \in Tx
  BY EntryFields DEF Filed
<1>2. PICK q \in Q : \A y \in Q : q <= y
  <2>1. Q \subseteq Nat /\ Q # {}
    BY <1>1
  <2> HIDE DEF Q
  <2> QED BY <2>1, LeastNumber
<1> DEFINE H == {HashOrder[e.tx] : e \in {f \in S : f.priority = q}}
<1>3. PICK h \in H : \A y \in H : h <= y
  <2>1. H \subseteq Nat /\ H # {}
    BY <1>1, <1>2
  <2> HIDE DEF H
  <2> QED BY <2>1, LeastNumber
<1>4. PICK e \in S : e.priority = q /\ HashOrder[e.tx] = h
  BY <1>3
<1>5. ASSUME NEW f \in S \ {e} PROVE Below(e, f)
  <2>1. q <= f.priority
    BY <1>2
  <2>2. f.priority = q => h <= HashOrder[f.tx]
    BY <1>3
  <2>3. HashOrder[f.tx] # h
    <3>1. f.tx # e.tx
      BY DEF Filed
    <3> QED BY <1>1, <1>4, <3>1, MempoolAssumption
  <2> HIDE DEF Q, H
  <2> QED BY <1>1, <1>4, <2>1, <2>2, <2>3 DEF Below
<1>6. \E l \in S : \A f \in S \ {l} : Below(l, f)
  BY <1>5
<1> QED BY <1>6 DEF Lowest

(* One entry in the place of another, or of none.                          *)
LEMMA ExchangeFacts ==
    ASSUME NEW p, Filed(p), NEW e \in Entries, NEW old, old \subseteq p.entries,
           \A o \in p.entries : o.tx = e.tx => o \in old
    PROVE  /\ Filed(Exchange(p, old, e))
           /\ Exchange(p, old, e).entries = (p.entries \ old) \cup {e}
<1> DEFINE q == Exchange(p, old, e)
           stay == {t \in DOMAIN p.seen : \A o \in old : o.tx # t} \cup {e.tx}
           E == (p.entries \ old) \cup {e}
           sn == [t \in stay |-> IF t = e.tx THEN e.priority ELSE p.seen[t]]
<1>1. q = [entries |-> E, seen |-> sn]
  BY DEF Exchange
<1>2. q.entries = E /\ q.seen = sn
  BY <1>1
<1>3. E \subseteq Entries /\ IsFiniteSet(E)
  <2>1. IsFiniteSet(p.entries \ old)
    BY FS_Subset DEF Filed
  <2> QED BY <2>1, FS_AddElement DEF Filed
<1>4. stay = {f.tx : f \in E}
  <2>1. \A t : t \in DOMAIN p.seen <=> \E f \in p.entries : f.tx = t
    BY DEF Filed, Pending
  <2>2. \A t : t \in stay => t \in {f.tx : f \in E}
    BY <2>1
  <2>3. ASSUME NEW f \in E PROVE f.tx \in stay
    <3>1. CASE f = e
      BY <3>1
    <3>2. CASE f \in p.entries \ old
      <4>1. \A o \in old : o.tx # f.tx
        BY <3>2 DEF Filed
      <4> QED BY <2>1, <3>2, <4>1
    <3> QED BY <3>1, <3>2
  <2> HIDE DEF stay, E
  <2> QED BY <2>2, <2>3
<1>5. ASSUME NEW f \in E PROVE sn[f.tx] = f.priority
  <2>1. f.tx \in stay
    BY <1>4
  <2>2. CASE f = e
    BY <2>1, <2>2
  <2>3. CASE f \in p.entries \ old
    <3>1. f.tx # e.tx /\ p.seen[f.tx] = f.priority
      BY <2>3 DEF Filed
    <3> HIDE DEF stay
    <3> QED BY <2>1, <3>1
  <2> QED BY <2>2, <2>3
<1>6. \A f, g \in E : f.tx = g.tx => f = g
  BY DEF Filed
<1>7. DOMAIN sn = stay
  OBVIOUS
<1>8. Pending(q) = stay
  <2> HIDE DEF q, E, stay, sn
  <2> QED BY <1>2, <1>4 DEF Pending
<1> HIDE DEF q, E, stay, sn
<1>9. Filed(q)
  BY <1>2, <1>3, <1>5, <1>6, <1>7, <1>8 DEF Filed
<1>10. q.entries = (p.entries \ old) \cup {e}
  BY <1>2 DEF E
<1> QED BY <1>9, <1>10 DEF q

(* Adding a transaction: the pool is left alone, or the entry is in the    *)
(* new one, beside the old ones, or instead of one of the same transaction *)
(* or of lower priority.                                                   *)
Adds(p, q, e, max) ==
    \/ q = p
    \/ /\ e \in q.entries /\ e.tx \notin Pending(p) /\ Cardinality(p.entries) < max
       /\ q.entries = p.entries \cup {e}
    \/ /\ \E o \in p.entries : o.tx = e.tx /\ q.entries = (p.entries \ {o}) \cup {e}
    \/ /\ e.tx \notin Pending(p) /\ ~(Cardinality(p.entries) < max)
       /\ \E o \in p.entries : o.priority < e.priority /\ q.entries = (p.entries \ {o}) \cup {e}

LEMMA AddTxFacts ==
    ASSUME NEW p, Filed(p), NEW e \in Entries, NEW max \in Nat
    PROVE  Filed(AddTx(p, e, max)) /\ Adds(p, AddTx(p, e, max), e, max)
<1> DEFINE q == AddTx(p, e, max)
<1>0. Cardinality(p.entries) \in Nat /\ e.priority \in Nat /\ e.tx \in Tx
  BY FS_CardinalityType, EntryFields DEF Filed
<1>1. CASE max = 0 \/ SizeOf[e.tx] > MaxTxBytes
  <2>1. q = p
    BY <1>1 DEF AddTx
  <2> QED BY <2>1 DEF Adds
<1>2. CASE ~(max = 0 \/ SizeOf[e.tx] > MaxTxBytes) /\ e.tx \in DOMAIN p.seen
  <2>1. CASE e.priority <= p.seen[e.tx]
    <3>1. q = p
      BY <1>2, <2>1 DEF AddTx
    <3> QED BY <3>1 DEF Adds
  <2>2. CASE ~(e.priority <= p.seen[e.tx])
    <3> DEFINE old == {o \in p.entries : o.tx = e.tx /\ o.priority = p.seen[e.tx]}
    <3>1. q = Exchange(p, old, e)
      BY <1>2, <2>2 DEF AddTx
    <3>2. PICK o \in p.entries : o.tx = e.tx
      BY <1>2 DEF Filed, Pending
    <3>3. old = {o}
      BY <3>2 DEF Filed
    <3> HIDE DEF old
    <3>4. old \subseteq p.entries /\ \A f \in p.entries : f.tx = e.tx => f \in old
      BY <3>2, <3>3 DEF Filed
    <3>5. Filed(q) /\ q.entries = (p.entries \ old) \cup {e}
      BY <3>1, <3>4, ExchangeFacts
    <3> HIDE DEF q
    <3>6. Filed(q) /\ Adds(p, q, e, max)
      BY <3>2, <3>3, <3>5 DEF Adds
    <3> QED BY <3>6 DEF q
  <2> QED BY <2>1, <2>2
<1>3. CASE ~(max = 0 \/ SizeOf[e.tx] > MaxTxBytes) /\ e.tx \notin DOMAIN p.seen
  <2>0. e.tx \notin Pending(p) /\ \A f \in p.entries : f.tx # e.tx
    BY <1>3 DEF Filed, Pending
  <2>1. CASE Cardinality(p.entries) < max
    <3>1. q = Exchange(p, {}, e)
      BY <1>3, <2>1 DEF AddTx
    <3>2. Filed(Exchange(p, {}, e)) /\ Exchange(p, {}, e).entries = (p.entries \ {}) \cup {e}
      BY <2>0, ExchangeFacts
    <3>3. Filed(q) /\ q.entries = p.entries \cup {e}
      BY <3>1, <3>2
    <3> HIDE DEF q
    <3>4. Filed(q) /\ Adds(p, q, e, max)
      BY <2>0, <2>1, <3>3 DEF Adds
    <3> QED BY <3>4 DEF q
  <2>2. CASE ~(Cardinality(p.entries) < max)
    <3> DEFINE o == Lowest(p)
    <3>1. p.entries # {}
      BY <1>0, <1>3, <2>2, FS_EmptySet
    <3>2. o \in p.entries
      BY <3>1, LowestExists
    <3>3. o.priority \in Nat
      BY <3>2, EntryFields DEF Filed
    <3>4. CASE e.priority <= o.priority
      <4>1. q = p
        BY <1>3, <2>2, <3>4 DEF AddTx
      <4> QED BY <4>1 DEF Adds
    <3>5. CASE ~(e.priority <= o.priority)
      <4>1. q = Exchange(p, {o}, e)
        BY <1>3, <2>2, <3>5 DEF AddTx
      <4> HIDE DEF o
      <4>2. Filed(Exchange(p, {o}, e)) /\ Exchange(p, {o}, e).entries = (p.entries \ {o}) \cup {e}
        BY <2>0, <3>2, ExchangeFacts
      <4>3. o.priority < e.priority
        BY <1>0, <3>3, <3>5
      <4>4. Filed(q) /\ q.entries = (p.entries \ {o}) \cup {e}
        BY <4>1, <4>2
      <4> HIDE DEF q
      <4>5. Filed(q) /\ Adds(p, q, e, max)
        BY <2>0, <2>2, <3>2, <4>3, <4>4 DEF Adds
      <4> QED BY <4>5 DEF q
    <3> QED BY <3>4, <3>5
  <2> QED BY <2>1, <2>2
<1> QED BY <1>1, <1>2, <1>3

LEMMA AddKeepsSize ==
    ASSUME NEW p, Filed(p), NEW q, NEW e \in Entries, NEW max \in Nat, Adds(p, q, e, max),
           Cardinality(p.entries) <= max
    PROVE  Cardinality(q.entries) <= max
<1> DEFINE N == Cardinality(p.entries)
<1>0. N \in Nat /\ IsFiniteSet(p.entries)
  BY FS_CardinalityType DEF Filed
<1>1. CASE q = p
  BY <1>1
<1>2. CASE N < max /\ q.entries = p.entries \cup {e}
  <2>1. Cardinality(p.entries \cup {e}) = IF e \in p.entries THEN N ELSE N + 1
    BY <1>0, FS_AddElement
  <2> HIDE DEF N
  <2> QED BY <1>0, <1>2, <2>1
<1>3. ASSUME NEW o \in p.entries, q.entries = (p.entries \ {o}) \cup {e}
      PROVE  Cardinality(q.entries) <= max
  <2> DEFINE R == p.entries \ {o}
             M == Cardinality(R)
  <2>1. Cardinality(R) = (IF o \in p.entries THEN N - 1 ELSE N) /\ IsFiniteSet(R)
    BY <1>0, FS_RemoveElement
  <2>2. M = N - 1 /\ M \in Nat
    BY <2>1, FS_CardinalityType
  <2>3. Cardinality(R \cup {e}) = IF e \in R THEN M ELSE M + 1
    <3> HIDE DEF R
    <3> QED BY <2>1, FS_AddElement
  <2>4. q.entries = R \cup {e} /\ N <= max
    BY <1>3
  <2> HIDE DEF N, M, R
  <2> QED BY <1>0, <2>2, <2>3, <2>4
<1> QED BY <1>1, <1>2, <1>3 DEF Adds

Above(e, S) == {f \in S : Below(e, f)}

LEMMA PlaceOrder ==
    ASSUME NEW p, Filed(p), NEW e \in p.entries, NEW f \in p.entries, Below(e, f)
    PROVE  /\ Place(e, p.entries) \in Nat /\ Place(f, p.entries) \in Nat
           /\ Place(f, p.entries) < Place(e, p.entries)
<1> DEFINE S == p.entries
           A == Above(e, S)
           B == Above(f, S)
<1>1. IsFiniteSet(A) /\ IsFiniteSet(B) /\ B \subseteq A /\ B # A
  <2>1. IsFiniteSet(A) /\ IsFiniteSet(B)
    BY FS_Subset DEF Above, Filed
  <2>2. B \subseteq A
    BY BelowOrders DEF Above
  <2>3. f \in A /\ f \notin B
    BY BelowOrders DEF Above
  <2> QED BY <2>1, <2>2, <2>3
<1> HIDE DEF A, B
<1>2. Cardinality(B) <= Cardinality(A) /\ (Cardinality(A) = Cardinality(B) => A = B)
  BY <1>1, FS_Subset
<1>3. Cardinality(A) \in Nat /\ Cardinality(B) \in Nat
  BY <1>1, FS_CardinalityType
<1>4. Place(e, S) = Cardinality(A) + 1 /\ Place(f, S) = Cardinality(B) + 1
  BY DEF Place, A, B, Above
<1> QED BY <1>1, <1>2, <1>3, <1>4

LEMMA PlaceRange ==
    ASSUME NEW p, Filed(p), NEW e \in p.entries
    PROVE  Place(e, p.entries) \in 1..Cardinality(p.entries)
<1> DEFINE S == p.entries
           A == Above(e, S)
           N == Cardinality(S)
<1>1. A \subseteq S /\ A # S /\ IsFiniteSet(S)
  BY BelowOrders DEF Above, Filed
<1> HIDE DEF A
<1>2. IsFiniteSet(A) /\ Cardinality(A) <= N /\ Cardinality(A) # N
  BY <1>1, FS_Subset
<1>3. Cardinality(A) \in Nat /\ N \in Nat
  BY <1>1, <1>2, FS_CardinalityType
<1>4. Place(e, S) = Cardinality(A) + 1
  BY DEF Place, A, Above
<1> QED BY <1>2, <1>3, <1>4

(* The entries in their order: each of them once, the highest first.       *)
LEMMA Ranking ==
    ASSUME NEW p, Filed(p)
    PROVE  /\ ByPriority(p) \in Seq(p.entries)
           /\ Len(ByPriority(p)) = Cardinality(p.entries)
           /\ \A e \in p.entries : \E n \in DOMAIN ByPriority(p) : ByPriority(p)[n] = e
           /\ \A n, m \in DOMAIN ByPriority(p) :
                  n < m => Below(ByPriority(p)[m], ByPriority(p)[n])
<1> DEFINE S == p.entries
           N == Cardinality(S)
           s == ByPriority(p)
           g == [e \in S |-> Place(e, S)]
<1>1. IsFiniteSet(S) /\ N \in Nat
  BY FS_CardinalityType DEF Filed
<1>2. \A e \in S : Place(e, S) \in 1..N
  BY PlaceRange
<1>3. \A e, f \in S : Place(e, S) = Place(f, S) => e = f
  <2> SUFFICES ASSUME NEW e \in S, NEW f \in S, e # f PROVE Place(e, S) # Place(f, S)
    OBVIOUS
  <2>1. Below(e, f) \/ Below(f, e)
    BY BelowOrders
  <2>2. Place(e, S) \in Nat /\ Place(f, S) \in Nat
        /\ (Place(f, S) < Place(e, S) \/ Place(e, S) < Place(f, S))
    BY <2>1, PlaceOrder
  <2> QED BY <2>2
<1>4. g \in Injection(S, 1..N)
  BY <1>2, <1>3 DEF Injection, IsInjective
<1>5. Cardinality(1..N) = N /\ IsFiniteSet(1..N)
  <2>1. IsFiniteSet(1..N) /\ Cardinality(1..N) = IF 1 > N THEN 0 ELSE N - 1 + 1
    BY <1>1, FS_Interval, SMTT(30)
  <2> HIDE DEF N
  <2> QED BY <1>1, <2>1
<1>6. g \in Surjection(S, 1..N)
  <2> HIDE DEF g, N
  <2>1. N = Cardinality(S)
    BY DEF N
  <2> QED BY <1>4, <1>5, <2>1, FS_Injection
<1>7. \A n \in 1..N : \E e \in S : Place(e, S) = n
  BY <1>6 DEF Surjection
<1>8. /\ DOMAIN s = 1..N /\ s = [n \in 1..N |-> s[n]]
      /\ \A n \in 1..N : s[n] = CHOOSE e \in S : Place(e, S) = n
  BY DEF ByPriority
<1>9. \A n \in 1..N : s[n] \in S /\ Place(s[n], S) = n
  <2> SUFFICES ASSUME NEW n \in 1..N PROVE s[n] \in S /\ Place(s[n], S) = n
    OBVIOUS
  <2> HIDE DEF s, N
  <2> QED BY <1>7, <1>8
<1> HIDE DEF s, N, g
<1>10. s \in [1..N -> S]
  BY <1>8, <1>9
<1>11. s \in Seq(S) /\ Len(s) = N
  BY <1>1, <1>10
<1>12. \A e \in S : \E n \in DOMAIN s : s[n] = e
  BY <1>2, <1>3, <1>8, <1>9
<1>13. ASSUME NEW n \in 1..N, NEW m \in 1..N, n < m PROVE Below(s[m], s[n])
  <2>1. s[m] # s[n]
    BY <1>9, <1>13
  <2>2. Below(s[n], s[m]) => m < n
    BY <1>9, PlaceOrder
  <2> QED BY <1>1, <1>9, <1>13, <2>1, <2>2, BelowOrders
<1> QED BY <1>8, <1>11, <1>12, <1>13 DEF s, N

-----------------------------------------------------------------------------
(* Verdicts.                                                               *)

Answers == [tx : Tx, valid : BOOLEAN, priority : Nat, gas : Nat, at : Nat]

AtMostOne(S, X) == S = {} \/ \E x \in X : S = {x}

(* What a call for t that the application answered in state v comes to.    *)
Answered(r, t, v) ==
    /\ r.of = t /\ r.said \in Answers /\ AtMostOne(r.left, Answers)
    /\ r.failed \in {0, 1} /\ r.crossed \in BOOLEAN
    /\ ~r.crossed => r.said.at = v
    /\ ~r.crossed /\ r.failed = 0 => r.said = Answer(t, v)

LEMMA VerdictType ==
    /\ Len(Verdict) \in Nat /\ DOMAIN Verdict = 1..Len(Verdict)
    /\ \A v \in 1..Len(Verdict) : \A t \in Tx :
           /\ Verdict[v][t].valid \in BOOLEAN
           /\ Verdict[v][t].priority \in Nat /\ Verdict[v][t].gas \in Nat
    /\ \A s \in Settings : s.versions \in 1..Len(Verdict) /\ s.txs \in Nat /\ s.max_txs \in Nat
<1> DEFINE V == [valid : BOOLEAN, priority : Nat, gas : Nat]
<1>1. Verdict \in Seq([Tx -> V])
  BY TransactionsAssumption
<1>2. /\ Len(Verdict) \in Nat /\ DOMAIN Verdict = 1..Len(Verdict)
      /\ \A v \in 1..Len(Verdict) : Verdict[v] \in [Tx -> V]
  <2> HIDE DEF V
  <2> QED BY <1>1
<1>3. \A v \in 1..Len(Verdict) : \A t \in Tx : Verdict[v][t] \in V
  <2> HIDE DEF V
  <2> QED BY <1>2
<1>4. \A x \in V : x.valid \in BOOLEAN /\ x.priority \in Nat /\ x.gas \in Nat
  OBVIOUS
<1> HIDE DEF V
<1> QED BY <1>2, <1>3, <1>4, TransactionsAssumption, SettingsAssumption

LEMMA AnswerType ==
    ASSUME NEW t \in Tx, NEW v \in 1..Len(Verdict)
    PROVE  /\ Answer(t, v) \in Answers /\ Answer(t, v).at = v
           /\ Answer(t, v).valid = Verdict[v][t].valid
           /\ Reject(t, v) \in Answers /\ Reject(t, v).at = v
<1>1. /\ Verdict[v][t].valid \in BOOLEAN /\ v \in Nat
      /\ Verdict[v][t].priority \in Nat /\ Verdict[v][t].gas \in Nat
  BY VerdictType
<1>2. Answer(t, v) \in Answers /\ Answer(t, v).at = v /\ Answer(t, v).valid = Verdict[v][t].valid
  BY <1>1 DEF Answer, Answers
<1> DEFINE a == Answer(t, v)
<1>3. Reject(t, v) = [a EXCEPT !.valid = FALSE]
  BY DEF Reject
<1> HIDE DEF a
<1>4. a \in Answers /\ a.at = v
  BY <1>2 DEF a
<1>5. Reject(t, v) \in Answers /\ Reject(t, v).at = v
  BY <1>3, <1>4 DEF Answers
<1> QED BY <1>2, <1>5

LEMMA CallFacts ==
    ASSUME NEW left, left \subseteq Answers, NEW t \in Tx, NEW v \in 1..Len(Verdict),
           NEW r \in ValidateTx(left, t, v)
    PROVE  Answered(r, t, v)
<1> DEFINE a == Answer(t, v)
           j == Reject(t, v)
<1>1. a \in Answers /\ a.at = v /\ j \in Answers /\ j.at = v
  BY AnswerType
<1>2. \/ \E o \in TxCall :
             r = [of |-> t, said |-> IF o.answer = "given" THEN a ELSE j,
                  left |-> IF o.unread /\ o.answer # "given" THEN {a} ELSE {},
                  failed |-> IF o.answer = "given" /\ left = {} THEN 0 ELSE 1, crossed |-> FALSE]
      \/ \E u \in left : r = [of |-> t, said |-> u, left |-> {a}, failed |-> 0, crossed |-> TRUE]
  BY DEF ValidateTx
<1>3. ASSUME NEW o \in TxCall,
             r = [of |-> t, said |-> IF o.answer = "given" THEN a ELSE j,
                  left |-> IF o.unread /\ o.answer # "given" THEN {a} ELSE {},
                  failed |-> IF o.answer = "given" /\ left = {} THEN 0 ELSE 1, crossed |-> FALSE]
      PROVE  Answered(r, t, v)
  <2> HIDE DEF a, j
  <2>1. /\ r.of = t /\ r.said = (IF o.answer = "given" THEN a ELSE j)
        /\ r.left = (IF o.unread /\ o.answer # "given" THEN {a} ELSE {})
        /\ r.failed = (IF o.answer = "given" /\ left = {} THEN 0 ELSE 1) /\ r.crossed = FALSE
    BY <1>3
  <2>2. r.said \in Answers /\ r.said.at = v /\ (r.failed = 0 => r.said = a)
    BY <1>1, <2>1
  <2>3. AtMostOne(r.left, Answers) /\ r.failed \in {0, 1}
    BY <1>1, <2>1 DEF AtMostOne
  <2> QED BY <2>1, <2>2, <2>3 DEF Answered, a
<1>4. ASSUME NEW u \in left,
             r = [of |-> t, said |-> u, left |-> {a}, failed |-> 0, crossed |-> TRUE]
      PROVE  Answered(r, t, v)
  <2> HIDE DEF a, j
  <2>1. r.of = t /\ r.said = u /\ r.left = {a} /\ r.failed = 0 /\ r.crossed = TRUE
    BY <1>4
  <2> QED BY <1>1, <2>1 DEF Answered, AtMostOne
<1> QED BY <1>2, <1>3, <1>4

-----------------------------------------------------------------------------
(* A recheck, entry after entry.                                           *)

Runs == [said : PMap(Tx, Answers), v : rechecking..version, left : SUBSET Answers,
         failed : Nat, crossed : BOOLEAN]

FirstRun == [said |-> <<>>, v |-> rechecking, left |-> unread, failed |-> 0, crossed |-> FALSE]

Begun == /\ version \in 1..Len(Verdict) /\ rechecking \in 1..version
         /\ AtMostOne(unread, Answers)

RunSets == SUBSET Runs

(* A run that has judged the transactions D.                               *)
Sound(run, D) ==
    /\ run \in Runs /\ AtMostOne(run.left, Answers) /\ DOMAIN run.said = D
    /\ ~run.crossed => \A t \in D : run.said[t].at \in rechecking..version
    /\ ~run.crossed /\ run.failed = 0 =>
           \A t \in D : \E v \in rechecking..version : run.said[t] = Answer(t, v)

NextRun(run, e, v, r) ==
    [said |-> With(run.said, e.tx, r.said), v |-> v, left |-> r.left,
     failed |-> run.failed + r.failed, crossed |-> run.crossed \/ r.crossed]

LEMMA FirstIsSound ==
    ASSUME Begun
    PROVE  Sound(FirstRun, {})
<1>1. rechecking \in rechecking..version /\ unread \in SUBSET Answers
  BY VerdictType DEF Begun, AtMostOne
<1>2. <<>> \in PMap(Tx, Answers) /\ DOMAIN <<>> = {}
  <2>1. DOMAIN <<>> = {} /\ <<>> = [x \in {} |-> <<>>[x]]
    OBVIOUS
  <2> QED BY <2>1, PMapFacts
<1>3. FirstRun \in Runs
  BY <1>1, <1>2 DEF FirstRun, Runs
<1>4. FirstRun.said = <<>> /\ FirstRun.left = unread
  BY DEF FirstRun
<1> QED BY <1>2, <1>3, <1>4 DEF Sound, Begun

LEMMA FirstIsRun ==
    ASSUME Begun
    PROVE  {FirstRun} \in RunSets
BY FirstIsSound DEF Sound, RunSets

(* What a further run is, without regard to what it judged before.         *)
LEMMA NextRunFacts ==
    ASSUME Begun, NEW run \in Runs, NEW e \in Entries, NEW v \in run.v..version,
           NEW r \in ValidateTx(run.left, e.tx, v), NEW n, n = NextRun(run, e, v, r)
    PROVE  /\ n \in Runs /\ Answered(r, e.tx, v) /\ v \in rechecking..version
           /\ n.said = With(run.said, e.tx, r.said) /\ n.left = r.left
           /\ n.failed = run.failed + r.failed /\ run.failed \in Nat
           /\ n.crossed = (run.crossed \/ r.crossed) /\ run.crossed \in BOOLEAN
<1>1. /\ run.said \in PMap(Tx, Answers) /\ run.v \in rechecking..version
      /\ run.left \subseteq Answers /\ run.failed \in Nat /\ run.crossed \in BOOLEAN
  BY DEF Runs
<1>2. v \in rechecking..version /\ v \in 1..Len(Verdict)
  BY <1>1, VerdictType DEF Begun
<1>3. e.tx \in Tx
  BY EntryFields
<1>4. Answered(r, e.tx, v)
  BY <1>1, <1>2, <1>3, CallFacts
<1>5. /\ r.said \in Answers /\ r.left \in SUBSET Answers /\ r.failed \in Nat
      /\ r.crossed \in BOOLEAN
  BY <1>4 DEF Answered, AtMostOne
<1>6. With(run.said, e.tx, r.said) \in PMap(Tx, Answers)
  BY <1>1, <1>3, <1>5, WithType
<1>7. run.failed + r.failed \in Nat /\ (run.crossed \/ r.crossed) \in BOOLEAN
  BY <1>1, <1>5
<1>8. n \in Runs
  BY <1>2, <1>5, <1>6, <1>7 DEF NextRun, Runs
<1> QED BY <1>1, <1>2, <1>4, <1>8 DEF NextRun

LEMMA NextIsSound ==
    ASSUME Begun, NEW D, NEW run, Sound(run, D), NEW e \in Entries, NEW v \in run.v..version,
           NEW r \in ValidateTx(run.left, e.tx, v), NEW n, n = NextRun(run, e, v, r)
    PROVE  Sound(n, D \cup {e.tx})
<1>0. run \in Runs
  BY DEF Sound
<1>1. /\ n \in Runs /\ Answered(r, e.tx, v) /\ v \in rechecking..version
      /\ n.said = With(run.said, e.tx, r.said) /\ n.left = r.left
      /\ n.failed = run.failed + r.failed /\ run.failed \in Nat
      /\ n.crossed = (run.crossed \/ r.crossed) /\ run.crossed \in BOOLEAN
  BY <1>0, NextRunFacts
<1>2. /\ DOMAIN n.said = D \cup {e.tx} /\ n.said[e.tx] = r.said
      /\ \A t \in D \ {e.tx} : n.said[t] = run.said[t]
  BY <1>1 DEF With, Sound
<1>3. /\ r.failed \in {0, 1} /\ r.crossed \in BOOLEAN /\ AtMostOne(n.left, Answers)
      /\ (~r.crossed => r.said.at = v)
      /\ (~r.crossed /\ r.failed = 0 => r.said = Answer(e.tx, v))
  BY <1>1 DEF Answered
<1>4. ASSUME ~n.crossed, NEW t \in D \cup {e.tx} PROVE n.said[t].at \in rechecking..version
  BY <1>1, <1>2, <1>3, <1>4 DEF Sound
<1>5. ASSUME ~n.crossed, n.failed = 0, NEW t \in D \cup {e.tx}
      PROVE  \E u \in rechecking..version : n.said[t] = Answer(t, u)
  <2>1. run.failed = 0 /\ r.failed = 0
    BY <1>1, <1>3, <1>5
  <2>2. ~run.crossed /\ ~r.crossed
    BY <1>1, <1>5
  <2> QED BY <1>1, <1>2, <1>3, <2>1, <2>2 DEF Sound
<1> QED BY <1>1, <1>2, <1>3, <1>4, <1>5 DEF Sound

LEMMA RunOfEntry ==
    ASSUME NEW runs, NEW e, NEW n \in RecheckEntry(runs, e)
    PROVE  \E run \in runs : \E v \in run.v..version : \E r \in ValidateTx(run.left, e.tx, v) :
               n = NextRun(run, e, v, r)
BY DEF RecheckEntry, NextRun

LEMMA RunsRaw ==
    ASSUME Begun, NEW m \in RunSets, NEW e \in Entries
    PROVE  RecheckEntry(m, e) \in RunSets
<1> SUFFICES ASSUME NEW n \in RecheckEntry(m, e) PROVE n \in Runs
  BY DEF RunSets
<1>1. PICK run \in m : \E v \in run.v..version : \E r \in ValidateTx(run.left, e.tx, v) :
          n = NextRun(run, e, v, r)
  BY RunOfEntry
<1>2. run \in Runs
  BY DEF RunSets
<1> QED BY <1>1, <1>2, NextRunFacts

Judges(r, seq) ==
    /\ r \in [0..Len(seq) -> RunSets] /\ r[0] = {FirstRun}
    /\ \A n \in 1..Len(seq) : r[n] = RecheckEntry(r[n - 1], seq[n])
    /\ FoldLeft(RecheckEntry, {FirstRun}, seq) = r[Len(seq)]

LEMMA Rechecking ==
    ASSUME Begun, NEW seq \in Seq(Entries)
    PROVE  \E r : Judges(r, seq)
<1> DEFINE N == Len(seq)
           step == [p \in RunSets \X Entries |-> RecheckEntry(p[1], p[2])]
           iter(h) == [T \in SUBSET DOMAIN seq |->
                          IF T = {} THEN {FirstRun}
                          ELSE RecheckEntry(h[T \ {Max(T)}], seq[Max(T)])]
           G == CHOOSE h : h = iter(h)
<1>1. N \in Nat /\ DOMAIN seq = 1..N
  OBVIOUS
<1>2. step \in [RunSets \X Entries -> RunSets]
  BY RunsRaw
<1>3. PICK g : FoldsLeft(g, seq, RunSets, {FirstRun}, step)
  <2> HIDE DEF step
  <2> QED BY <1>2, FirstIsRun, LeftFoldRecursion
<1>4. g = iter(g)
  <2>1. ASSUME NEW T \in SUBSET (1..N) PROVE g[T] = iter(g)[T]
    <3>1. CASE T = {}
      BY <1>1, <1>3, <3>1 DEF FoldsLeft
    <3>2. CASE T # {}
      <4>1. T \subseteq 0..N
        BY <1>1
      <4>2. Max(T) \in T
        <5> HIDE DEF N
        <5> QED BY <1>1, <3>2, <4>1, GreatestNumber
      <4>3. seq[Max(T)] \in Entries /\ T \ {Max(T)} \in SUBSET (1..N)
        <5>1. \A n \in 1..N : seq[n] \in Entries
          BY <1>1
        <5> HIDE DEF N
        <5> QED BY <4>2, <5>1
      <4>4. g[T \ {Max(T)}] \in RunSets
        BY <1>3, <4>3 DEF FoldsLeft
      <4>5. step[<<g[T \ {Max(T)}], seq[Max(T)]>>] = RecheckEntry(g[T \ {Max(T)}], seq[Max(T)])
        BY <4>3, <4>4
      <4>6. g[T] = step[<<g[T \ {Max(T)}], seq[Max(T)]>>]
        <5> HIDE DEF step
        <5> QED BY <1>3, <3>2 DEF FoldsLeft
      <4> QED BY <1>1, <3>2, <4>5, <4>6
    <3> QED BY <3>1, <3>2
  <2>2. g \in [SUBSET DOMAIN seq -> RunSets]
    BY <1>1, <1>3 DEF FoldsLeft
  <2> QED BY <1>1, <2>1, <2>2
<1>5. G = iter(G)
  <2> HIDE DEF iter
  <2> QED BY <1>4
<1>6. FoldLeft(RecheckEntry, {FirstRun}, seq) = G[1..N]
  <2>1. FoldLeft(RecheckEntry, {FirstRun}, seq) = G[DOMAIN seq]
    BY DEF FoldLeft, MapThenFoldSet
  <2> HIDE DEF G
  <2> QED BY <1>1, <2>1
<1>7. G[1..0] = {FirstRun}
  <2>1. G[{}] = iter(G)[{}]
    BY <1>5
  <2>2. iter(G)[{}] = {FirstRun}
    OBVIOUS
  <2>3. 1..0 = {}
    OBVIOUS
  <2> HIDE DEF G, iter
  <2> QED BY <2>1, <2>2, <2>3
<1>8. ASSUME NEW n \in 1..N PROVE G[1..n] = RecheckEntry(G[1..(n - 1)], seq[n])
  <2>1. /\ Max(1..n) = n /\ (1..n) \ {n} = 1..(n - 1) /\ 1..n # {}
        /\ 1..n \in SUBSET DOMAIN seq
    BY <1>1, PrefixMax
  <2>2. G[1..n] = iter(G)[1..n]
    BY <1>5
  <2>3. iter(G)[1..n] = RecheckEntry(G[1..(n - 1)], seq[n])
    <3> HIDE DEF G
    <3> QED BY <2>1
  <2> HIDE DEF G, iter
  <2> QED BY <2>2, <2>3
<1> DEFINE P == {n \in Nat : n <= N => G[1..n] \in RunSets}
           r == [n \in 0..N |-> G[1..n]]
<1>9. 0 \in P
  <2> HIDE DEF G
  <2> QED BY <1>7, FirstIsRun
<1>10. ASSUME NEW n \in Nat, n \in P PROVE n + 1 \in P
  <2> SUFFICES ASSUME n + 1 <= N PROVE G[1..(n + 1)] \in RunSets
    BY <1>1
  <2>1. n + 1 \in 1..N /\ (n + 1) - 1 = n /\ seq[n + 1] \in Entries
    BY <1>1
  <2> HIDE DEF G, N
  <2>2. G[1..n] \in RunSets
    BY <1>1, <1>10
  <2>3. G[1..(n + 1)] = RecheckEntry(G[1..n], seq[n + 1])
    BY <1>8, <2>1
  <2> QED BY <2>1, <2>2, <2>3, RunsRaw
<1>11. Nat \subseteq P
  <2> HIDE DEF P
  <2> QED BY <1>9, <1>10, NumberInduction
<1> HIDE DEF G
<1>12. r \in [0..N -> RunSets] /\ r[0] = {FirstRun} /\ r[N] = G[1..N]
  BY <1>1, <1>7, <1>11
<1>13. ASSUME NEW n \in 1..N PROVE r[n] = RecheckEntry(r[n - 1], seq[n])
  <2>1. n \in 0..N /\ n - 1 \in 0..N
    BY <1>1
  <2>2. r[n] = G[1..n] /\ r[n - 1] = G[1..(n - 1)]
    BY <2>1
  <2> QED BY <1>8, <2>2
<1> HIDE DEF r
<1> QED BY <1>6, <1>12, <1>13 DEF Judges



JudgedOf(seq, n) == {seq[i].tx : i \in 1..n}

LEMMA RunsAreSound ==
    ASSUME Begun, NEW seq \in Seq(Entries)
    PROVE  \A run \in FoldLeft(RecheckEntry, {FirstRun}, seq) : Sound(run, JudgedOf(seq, Len(seq)))
<1> DEFINE N == Len(seq)
<1>1. PICK r : Judges(r, seq)
  BY Rechecking
<1> DEFINE P == {n \in Nat : n <= N => \A run \in r[n] : Sound(run, JudgedOf(seq, n))}
<1>2. N \in Nat
  OBVIOUS
<1>3. 0 \in P
  <2>1. JudgedOf(seq, 0) = {} /\ r[0] = {FirstRun}
    BY <1>1 DEF JudgedOf, Judges
  <2> QED BY <2>1, FirstIsSound
<1>4. ASSUME NEW n \in Nat, n \in P PROVE n + 1 \in P
  <2> SUFFICES ASSUME n + 1 <= N, NEW q \in r[n + 1] PROVE Sound(q, JudgedOf(seq, n + 1))
    OBVIOUS
  <2>1. n + 1 \in 1..N /\ (n + 1) - 1 = n /\ n <= N /\ seq[n + 1] \in Entries
    BY <1>2
  <2> DEFINE e == seq[n + 1]
  <2>2. r[n + 1] = RecheckEntry(r[n], e)
    BY <1>1, <2>1 DEF Judges
  <2>3. JudgedOf(seq, n + 1) = JudgedOf(seq, n) \cup {e.tx}
    <3>1. 1..(n + 1) = (1..n) \cup {n + 1}
      BY ONLY n \in Nat
    <3> QED BY <3>1 DEF JudgedOf
  <2>4. e \in Entries
    BY <2>1
  <2> HIDE DEF e
  <2>5. PICK run \in r[n] : \E v \in run.v..version : \E s \in ValidateTx(run.left, e.tx, v) :
            q = NextRun(run, e, v, s)
    BY <2>2, RunOfEntry
  <2>6. Sound(run, JudgedOf(seq, n))
    BY <1>4, <2>1
  <2>7. Sound(q, JudgedOf(seq, n) \cup {e.tx})
    BY <2>4, <2>5, <2>6, NextIsSound
  <2> QED BY <2>3, <2>7
<1>5. Nat \subseteq P
  <2> HIDE DEF P
  <2> QED BY <1>3, <1>4, NumberInduction
<1>6. \A run \in r[N] : Sound(run, JudgedOf(seq, N))
  BY <1>2, <1>5
<1> QED BY <1>1, <1>6 DEF Judges

(* A recheck judges every pending transaction.                             *)
LEMMA RecheckIsSound ==
    ASSUME Begun, Filed(pool)
    PROVE  \A run \in RecheckRuns : Sound(run, Pending(pool))
<1> DEFINE S == pool.entries
           s == ByPriority(pool)
           N == Len(s)
           t == Reverse(s)
<1>1. /\ s \in Seq(S) /\ DOMAIN s = 1..N /\ N \in Nat
      /\ \A e \in S : \E n \in 1..N : s[n] = e
  BY Ranking
<1>2. /\ DOMAIN t = 1..N /\ t = [n \in 1..N |-> s[(N - n) + 1]]
  BY DEF Reverse
<1>3. \A n \in 1..N : t[n] = s[(N - n) + 1]
  BY <1>2
<1> HIDE DEF s, N, t
<1>4. \A n \in 1..N : (N - n) + 1 \in 1..N /\ (N - ((N - n) + 1)) + 1 = n
  BY <1>1
<1>5. \A n \in 1..N : s[n] \in S
  BY <1>1
<1>6. S \subseteq Entries
  BY DEF Filed
<1>7. t \in [1..N -> Entries]
  BY <1>2, <1>4, <1>5, <1>6
<1>8. t \in Seq(Entries) /\ Len(t) = N
  BY <1>1, <1>7
<1>9. JudgedOf(t, N) = Pending(pool)
  <2>1. ASSUME NEW n \in 1..N PROVE t[n] \in S
    BY <1>3, <1>4, <1>5
  <2>2. ASSUME NEW e \in S PROVE \E n \in 1..N : t[n] = e
    <3>1. PICK n \in 1..N : s[n] = e
      BY <1>1
    <3>2. (N - n) + 1 \in 1..N /\ t[(N - n) + 1] = s[n]
      BY <1>3, <1>4
    <3> QED BY <3>1, <3>2
  <2> QED BY <2>1, <2>2 DEF JudgedOf, Pending
<1>10. RecheckRuns = FoldLeft(RecheckEntry, {FirstRun}, t)
  BY DEF RecheckRuns, FirstRun, t, s
<1> QED BY <1>8, <1>9, <1>10, RunsAreSound

(* The pool that a recheck leaves.                                         *)
LEMMA RecheckedFacts ==
    ASSUME NEW p, Filed(p), NEW said, DOMAIN said = Pending(p),
           \A t \in Pending(p) : said[t] \in Answers, NEW q, q = Rechecked(p, said)
    PROVE  /\ Filed(q) /\ Cardinality(q.entries) <= Cardinality(p.entries)
           /\ \A f \in q.entries : f.tx \in Pending(p) /\ f.at = said[f.tx].at
           /\ \A t \in Pending(p) : said[t].valid => t \in Pending(q)
<1> DEFINE keep == {t \in Pending(p) : said[t].valid}
           new == [t \in keep |-> [tx |-> t, priority |-> said[t].priority, gas |-> said[t].gas,
                                   at |-> said[t].at]]
           E == {new[t] : t \in keep}
           sn == [t \in keep |-> said[t].priority]
<1>1. q.entries = E /\ q.seen = sn
  <2>1. E = {[tx |-> t, priority |-> said[t].priority, gas |-> said[t].gas,
              at |-> said[t].at] : t \in keep}
    OBVIOUS
  <2>2. q = [entries |-> {[tx |-> t, priority |-> said[t].priority, gas |-> said[t].gas,
                           at |-> said[t].at] : t \in keep}, seen |-> sn]
    BY DEF Rechecked
  <2> HIDE DEF E, sn, keep
  <2> QED BY <2>1, <2>2
<1>2. \A t \in Pending(p) : t \in Tx
  BY EntryFields DEF Filed, Pending
<1>3. \A t \in keep : /\ new[t] \in Entries /\ new[t].tx = t
                      /\ new[t].priority = said[t].priority /\ new[t].at = said[t].at
  <2> SUFFICES ASSUME NEW t \in keep
               PROVE  /\ new[t] \in Entries /\ new[t].tx = t
                      /\ new[t].priority = said[t].priority /\ new[t].at = said[t].at
    OBVIOUS
  <2>1. said[t].priority \in Nat /\ said[t].gas \in Nat /\ said[t].at \in Nat
    BY DEF Answers
  <2> QED BY <1>2, <2>1 DEF Entries
<1>4. IsFiniteSet(p.entries)
  BY DEF Filed
<1>5. IsFiniteSet(Pending(p)) /\ Cardinality(Pending(p)) <= Cardinality(p.entries)
  <2> DEFINE g == [e \in p.entries |-> e.tx]
  <2>1. g \in Surjection(p.entries, Pending(p))
    BY DEF Surjection, Pending
  <2> HIDE DEF g
  <2> QED BY <1>4, <2>1, FS_Surjection
<1>6. keep \subseteq Pending(p)
  OBVIOUS
<1>7. \A t \in keep : new[t] \in E
  OBVIOUS
<1>8. \A f \in E : \E t \in keep : f = new[t]
  OBVIOUS
<1>9. new = [t \in keep |-> new[t]]
  OBVIOUS
<1>10. \A t : t \in keep <=> t \in Pending(p) /\ said[t].valid
  OBVIOUS
<1>11. DOMAIN sn = keep /\ \A t \in keep : sn[t] = said[t].priority
  OBVIOUS
<1> HIDE DEF keep, new, E, sn
<1>12. IsFiniteSet(keep) /\ Cardinality(keep) <= Cardinality(Pending(p))
  BY <1>5, <1>6, FS_Subset
<1>13. IsFiniteSet(E) /\ Cardinality(E) <= Cardinality(keep)
  <2>1. new \in Surjection(keep, E)
    BY <1>7, <1>8, <1>9 DEF Surjection
  <2> QED BY <1>12, <2>1, FS_Surjection
<1>14. Cardinality(E) <= Cardinality(p.entries)
  <2>1. /\ Cardinality(E) \in Nat /\ Cardinality(keep) \in Nat
        /\ Cardinality(Pending(p)) \in Nat /\ Cardinality(p.entries) \in Nat
    BY <1>4, <1>5, <1>12, <1>13, FS_CardinalityType
  <2> QED BY <1>5, <1>12, <1>13, <2>1
<1>15. Pending(q) = keep
  BY <1>1, <1>3, <1>7, <1>8 DEF Pending
<1>16. Filed(q)
  BY <1>1, <1>3, <1>8, <1>11, <1>13, <1>15 DEF Filed
<1>17. \A f \in E : f.tx \in Pending(p) /\ f.at = said[f.tx].at
  BY <1>3, <1>8, <1>10
<1> QED BY <1>1, <1>10, <1>14, <1>15, <1>16, <1>17

-----------------------------------------------------------------------------
(***************************************************************************)
(* The way of transactions.  A recheck that is running was begun in the    *)
(* current state of the application unless another one waits, so that the  *)
(* verdicts it collects are current or will be replaced.                   *)
(***************************************************************************)

TxTypes ==
    /\ version \in 1..setting.versions /\ rechecking \in 0..version /\ rechecks \in Nat
    /\ faults \in Nat /\ crossed \in BOOLEAN
    /\ txQueue \in Seq(Tx) /\ Len(txQueue) <= TxQueueBound
    /\ AtMostOne(unread, Answers) /\ AtMostOne(gossiped, Entries) /\ AtMostOne(submitted, Entries)
    /\ Filed(pool) /\ Cardinality(pool.entries) <= setting.max_txs

RecheckFollows == rechecking # 0 /\ rechecks = 0 => rechecking = version

TxInv == TxTypes /\ RecheckFollows /\ PoolIsCurrent

LEMMA JudgeFacts ==
    ASSUME AtMostOne(unread, Answers), faults \in Nat, crossed \in BOOLEAN,
           version \in 1..Len(Verdict), NEW t \in Tx, NEW accepted, Judge(t, accepted)
    PROVE  /\ AtMostOne(unread', Answers) /\ faults' \in Nat /\ crossed' \in BOOLEAN
           /\ (crossed => crossed') /\ AtMostOne(accepted, Entries)
<1>1. PICK r \in ValidateTx(unread, t, version) :
          /\ faults' = faults + r.failed /\ unread' = r.left
          /\ crossed' = (crossed \/ r.crossed)
          /\ accepted = IF r.said.valid THEN {Entry(r)} ELSE {}
  BY DEF Judge
<1>2. Answered(r, t, version)
  <2>1. unread \subseteq Answers
    BY DEF AtMostOne
  <2> QED BY <2>1, CallFacts
<1>3. r.of = t /\ r.said \in Answers /\ r.failed \in Nat /\ r.crossed \in BOOLEAN
  BY <1>2 DEF Answered
<1>4. Entry(r) \in Entries
  <2>1. r.said.priority \in Nat /\ r.said.gas \in Nat /\ r.said.at \in Nat
    BY <1>3 DEF Answers
  <2> QED BY <1>3, <2>1 DEF Entry, Entries
<1>5. AtMostOne(accepted, Entries)
  BY <1>1, <1>4 DEF AtMostOne
<1> QED BY <1>1, <1>2, <1>3, <1>5 DEF Answered

LEMMA TxConstants ==
    ASSUME setting \in Settings, TxTypes
    PROVE  /\ setting.max_txs \in Nat /\ setting.versions \in Nat /\ TxQueueBound \in Nat
           /\ version \in Nat /\ version \in 1..Len(Verdict) /\ rechecking \in Nat
           /\ Len(Verdict) \in Nat
<1>1. /\ setting.max_txs \in Nat /\ setting.versions \in 1..Len(Verdict)
      /\ Len(Verdict) \in Nat
  BY VerdictType
<1> QED BY <1>1, TransactionsAssumption DEF TxTypes

LEMMA CurrentSame ==
    ASSUME PoolIsCurrent, UNCHANGED <<pool, version, late>>, crossed => crossed',
           (rechecks > 0 \/ rechecking # 0) => (rechecks' > 0 \/ rechecking' # 0)
    PROVE  PoolIsCurrent'
BY DEF PoolIsCurrent

LEMMA AddKeeps ==
    ASSUME setting \in Settings, TxInv, NEW e \in Entries, AddJudged(e),
           UNCHANGED <<setting, version, rechecks, rechecking, crossed>>
    PROVE  /\ Filed(pool') /\ Cardinality(pool'.entries) <= setting.max_txs
           /\ PoolIsCurrent' /\ Adds(pool, pool', e, setting.max_txs)
<1>1. /\ pool' = AddTx(pool, e, setting.max_txs) /\ rechecking = 0
      /\ late' = IF pool' # pool
                 THEN IF e.at < version THEN late \cup {e.tx} ELSE late \ {e.tx}
                 ELSE late
  BY DEF AddJudged
<1>2. Filed(pool) /\ Cardinality(pool.entries) <= setting.max_txs /\ setting.max_txs \in Nat
  BY TxConstants DEF TxInv, TxTypes
<1>3. Filed(pool') /\ Adds(pool, pool', e, setting.max_txs)
  BY <1>1, <1>2, AddTxFacts
<1>4. Cardinality(pool'.entries) <= setting.max_txs
  BY <1>2, <1>3, AddKeepsSize
<1>5. PoolIsCurrent'
  <2>1. CASE pool' = pool
    <3>1. late' = late
      BY <1>1, <2>1
    <3> QED BY <2>1, <3>1, CurrentSame DEF TxInv
  <2>2. CASE pool' # pool
    <3>1. e \in pool'.entries /\ \A f \in pool'.entries : f = e \/ f \in pool.entries
      BY <1>3, <2>2 DEF Adds
    <3>2. \A f \in pool'.entries : f.tx = e.tx => f = e
      BY <1>3, <3>1 DEF Filed
    <3>3. late' = IF e.at < version THEN late \cup {e.tx} ELSE late \ {e.tx}
      BY <1>1, <2>2
    <3> SUFFICES ASSUME ~crossed', NEW f \in pool'.entries, f.at < version'
                 PROVE  rechecks' > 0 \/ rechecking' # 0 \/ f.tx \in late'
      BY DEF PoolIsCurrent
    <3>4. CASE f = e
      BY <3>3, <3>4
    <3>5. CASE f # e
      <4>1. f \in pool.entries /\ f.tx # e.tx
        BY <3>1, <3>2, <3>5
      <4>2. rechecks > 0 \/ rechecking # 0 \/ f.tx \in late
        BY <4>1 DEF TxInv, PoolIsCurrent
      <4> QED BY <3>3, <4>1, <4>2
    <3> QED BY <3>4, <3>5
  <2> QED BY <2>1, <2>2
<1> QED BY <1>3, <1>4, <1>5

LEMMA EndKeeps ==
    ASSUME setting \in Settings, TxInv, EndRecheck
    PROVE  TxInv'
<1>1. /\ version \in Nat /\ version \in 1..Len(Verdict) /\ rechecking \in Nat
      /\ setting.max_txs \in Nat
  BY TxConstants DEF TxInv
<1>2. /\ rechecking # 0 /\ rechecking' = 0 /\ late' = {}
      /\ UNCHANGED <<setting, version, txQueue, gossiped, submitted, rechecks>>
  BY DEF EndRecheck, netVars
<1>3. PICK run \in RecheckRuns : /\ faults' = faults + run.failed /\ unread' = run.left
                                 /\ crossed' = (crossed \/ run.crossed)
                                 /\ pool' = Rechecked(pool, run.said)
  BY DEF EndRecheck
<1>4. Filed(pool) /\ Cardinality(pool.entries) <= setting.max_txs /\ faults \in Nat
      /\ crossed \in BOOLEAN /\ rechecking \in 0..version
  BY DEF TxInv, TxTypes
<1>5. Begun
  BY <1>1, <1>2, <1>4 DEF Begun, TxInv, TxTypes
<1>6. Sound(run, Pending(pool))
  BY <1>4, <1>5, RecheckIsSound
<1>7. /\ run.said \in PMap(Tx, Answers) /\ run.failed \in Nat /\ run.crossed \in BOOLEAN
      /\ DOMAIN run.said = Pending(pool) /\ AtMostOne(run.left, Answers)
      /\ (~run.crossed => \A t \in Pending(pool) : run.said[t].at \in rechecking..version)
  BY <1>6 DEF Sound, Runs
<1>8. \A t \in Pending(pool) : run.said[t] \in Answers
  BY <1>7, PMapFacts
<1>9. /\ Filed(pool') /\ Cardinality(pool'.entries) <= Cardinality(pool.entries)
      /\ \A f \in pool'.entries : f.tx \in Pending(pool) /\ f.at = run.said[f.tx].at
  BY <1>3, <1>4, <1>7, <1>8, RecheckedFacts
<1>10. Cardinality(pool'.entries) <= setting.max_txs'
  <2>1. Cardinality(pool.entries) \in Nat /\ Cardinality(pool'.entries) \in Nat
    BY <1>4, <1>9, FS_CardinalityType DEF Filed
  <2> QED BY <1>1, <1>2, <1>4, <1>9, <2>1
<1>11. PoolIsCurrent'
  <2> SUFFICES ASSUME ~crossed', NEW f \in pool'.entries, f.at < version'
               PROVE  rechecks' > 0
    BY DEF PoolIsCurrent
  <2>1. ~run.crossed
    BY <1>3
  <2>2. f.at \in rechecking..version
    BY <1>7, <1>9, <2>1
  <2>3. rechecking # version
    BY <1>1, <1>2, <2>2
  <2>4. rechecks # 0 /\ rechecks \in Nat
    BY <1>2, <2>3 DEF TxInv, RecheckFollows, TxTypes
  <2> QED BY <1>2, <2>4
<1>12. RecheckFollows'
  BY <1>2 DEF RecheckFollows
<1>13. faults' \in Nat /\ crossed' \in BOOLEAN /\ rechecking' \in 0..version'
  BY <1>1, <1>2, <1>3, <1>4, <1>7
<1>14. TxTypes'
  BY <1>2, <1>3, <1>7, <1>9, <1>10, <1>13 DEF TxTypes, TxInv
<1> QED BY <1>11, <1>12, <1>14 DEF TxInv

LEMMA TxStep == setting \in Settings /\ TxInv /\ TxNext => TxInv'
<1> SUFFICES ASSUME setting \in Settings, TxInv, TxNext PROVE TxInv'
  OBVIOUS
<1>0. /\ version \in Nat /\ version \in 1..Len(Verdict) /\ rechecking \in Nat
      /\ setting.max_txs \in Nat /\ setting.versions \in Nat /\ TxQueueBound \in Nat
      /\ Len(Verdict) \in Nat
  BY TxConstants DEF TxInv
<1>1. /\ version \in 1..setting.versions /\ rechecking \in 0..version /\ rechecks \in Nat
      /\ faults \in Nat /\ crossed \in BOOLEAN
      /\ txQueue \in Seq(Tx) /\ Len(txQueue) <= TxQueueBound
      /\ AtMostOne(unread, Answers) /\ AtMostOne(gossiped, Entries)
      /\ AtMostOne(submitted, Entries)
      /\ Filed(pool) /\ Cardinality(pool.entries) <= setting.max_txs
      /\ RecheckFollows /\ PoolIsCurrent
  BY DEF TxInv, TxTypes
<1>2. ASSUME NEW p \in Peer, NEW t \in Tx, OnGossip(p, t) PROVE TxInv'
  <2>1. /\ txQueue' = Append(txQueue, t) /\ Len(txQueue) < TxQueueBound
        /\ UNCHANGED <<setting, pool, version, gossiped, submitted, rechecks, rechecking,
                       faults, late, unread, crossed>>
    BY <1>2 DEF OnGossip, netVars
  <2>2. txQueue' \in Seq(Tx) /\ Len(txQueue') <= TxQueueBound
    BY <1>0, <1>1, <2>1
  <2>3. TxTypes'
    BY <1>1, <2>1, <2>2 DEF TxTypes
  <2>4. RecheckFollows' /\ PoolIsCurrent'
    BY <1>1, <2>1, CurrentSame DEF RecheckFollows
  <2> QED BY <2>3, <2>4 DEF TxInv
<1>3. ASSUME JudgeGossip PROVE TxInv'
  <2>1. /\ txQueue # <<>> /\ Judge(Head(txQueue), gossiped') /\ txQueue' = Tail(txQueue)
        /\ UNCHANGED <<setting, pool, version, submitted, rechecks, rechecking, late>>
    BY <1>3 DEF JudgeGossip, netVars
  <2>2. Head(txQueue) \in Tx /\ txQueue' \in Seq(Tx) /\ Len(txQueue') <= TxQueueBound
    BY <1>0, <1>1, <2>1
  <2>3. /\ AtMostOne(unread', Answers) /\ faults' \in Nat /\ crossed' \in BOOLEAN
        /\ (crossed => crossed') /\ AtMostOne(gossiped', Entries)
    BY <1>0, <1>1, <2>1, <2>2, JudgeFacts
  <2>4. TxTypes'
    BY <1>1, <2>1, <2>2, <2>3 DEF TxTypes
  <2>5. RecheckFollows' /\ PoolIsCurrent'
    BY <1>1, <2>1, <2>3, CurrentSame DEF RecheckFollows
  <2> QED BY <2>4, <2>5 DEF TxInv
<1>4. ASSUME NEW t \in Tx, SubmitTx(t) PROVE TxInv'
  <2>1. /\ Judge(t, submitted')
        /\ UNCHANGED <<setting, pool, version, gossiped, rechecks, rechecking, late, txQueue>>
    BY <1>4 DEF SubmitTx, netVars
  <2>3. /\ AtMostOne(unread', Answers) /\ faults' \in Nat /\ crossed' \in BOOLEAN
        /\ (crossed => crossed') /\ AtMostOne(submitted', Entries)
    BY <1>0, <1>1, <2>1, JudgeFacts
  <2>4. TxTypes'
    BY <1>1, <2>1, <2>3 DEF TxTypes
  <2>5. RecheckFollows' /\ PoolIsCurrent'
    BY <1>1, <2>1, <2>3, CurrentSame DEF RecheckFollows
  <2> QED BY <2>4, <2>5 DEF TxInv
<1>5. ASSUME AddGossiped \/ AddSubmitted PROVE TxInv'
  <2>1. PICK e \in Entries : AddJudged(e)
    BY <1>1, <1>5 DEF AddGossiped, AddSubmitted, AtMostOne
  <2>2. /\ UNCHANGED <<setting, version, txQueue, rechecks, rechecking, faults, unread, crossed>>
        /\ gossiped' \in {{}, gossiped} /\ submitted' \in {{}, submitted}
    BY <1>5 DEF AddGossiped, AddSubmitted, netVars
  <2>3. /\ Filed(pool') /\ Cardinality(pool'.entries) <= setting.max_txs /\ PoolIsCurrent'
    BY <2>1, <2>2, AddKeeps
  <2>4. AtMostOne(gossiped', Entries) /\ AtMostOne(submitted', Entries)
    BY <1>1, <2>2 DEF AtMostOne
  <2>5. TxTypes'
    BY <1>1, <2>2, <2>3, <2>4 DEF TxTypes
  <2>6. RecheckFollows'
    BY <1>1, <2>2 DEF RecheckFollows
  <2> QED BY <2>3, <2>5, <2>6 DEF TxInv
<1>6. ASSUME OnCommit PROVE TxInv'
  <2>1. /\ version < setting.versions /\ version' = version + 1 /\ rechecks' = rechecks + 1
        /\ UNCHANGED <<setting, pool, txQueue, gossiped, submitted, rechecking, faults, unread,
                       crossed>>
    BY <1>6 DEF OnCommit, netVars
  <2>2. /\ version' \in 1..setting.versions /\ rechecking \in 0..version' /\ rechecks' \in Nat
        /\ rechecks' > 0 /\ rechecks' # 0
    BY <1>0, <1>1, <2>1
  <2>3. TxTypes'
    BY <1>1, <2>1, <2>2 DEF TxTypes
  <2>4. RecheckFollows' /\ PoolIsCurrent'
    BY <2>2 DEF RecheckFollows, PoolIsCurrent
  <2> QED BY <2>3, <2>4 DEF TxInv
<1>7. ASSUME BeginRecheck PROVE TxInv'
  <2>1. /\ rechecks > 0 /\ rechecks' = rechecks - 1 /\ rechecking' = version
        /\ UNCHANGED <<setting, pool, version, txQueue, gossiped, submitted, faults, unread,
                       crossed>>
    BY <1>7 DEF BeginRecheck, netVars
  <2>2. rechecking' \in 0..version /\ rechecks' \in Nat /\ rechecking' # 0
    BY <1>0, <1>1, <2>1
  <2>3. TxTypes'
    BY <1>1, <2>1, <2>2 DEF TxTypes
  <2>4. RecheckFollows' /\ PoolIsCurrent'
    BY <2>1, <2>2 DEF RecheckFollows, PoolIsCurrent
  <2> QED BY <2>3, <2>4 DEF TxInv
<1>8. ASSUME ValidateBlock PROVE TxInv'
  <2>1. /\ unread' = {}
        /\ UNCHANGED <<setting, pool, version, txQueue, gossiped, submitted, rechecks,
                       rechecking, faults, late, crossed>>
    BY <1>8 DEF ValidateBlock, netVars
  <2>2. TxTypes'
    BY <1>1, <2>1 DEF TxTypes, AtMostOne
  <2>3. RecheckFollows' /\ PoolIsCurrent'
    BY <1>1, <2>1, CurrentSame DEF RecheckFollows
  <2> QED BY <2>2, <2>3 DEF TxInv
<1> QED BY <1>2, <1>3, <1>4, <1>5, <1>6, <1>7, <1>8, EndKeeps DEF TxNext

LEMMA NetLeavesTx ==
    ASSUME NetNext
    PROVE  UNCHANGED txVars /\ UNCHANGED setting
<1>1. ASSUME NEW p \in Peer,
             \/ Connect(p) \/ Disconnect(p) \/ ConnectionEstablished(p) \/ ConnectionClosed(p)
             \/ OnSyncRequest(p)
      PROVE  UNCHANGED setting
  BY <1>1, Zenon
     DEF Connect, Disconnect, ConnectionEstablished, ConnectionClosed, OnSyncRequest
<1>2. ASSUME NEW p \in Peer,
             \/ \E k \in Kinds : ValidateSubstream(k, p) \/ StreamOpened(k, p) \/ StreamClosed(k, p)
             \/ \E m \in Message : OnNotification(p, m) \/ OnRequest(p, m)
      PROVE  UNCHANGED setting
  BY <1>2, Zenon DEF ValidateSubstream, StreamOpened, StreamClosed, OnNotification, OnRequest
<1>3. ASSUME \/ \E m \in OwnMessage : Broadcast(m)
             \/ EngineReceive \/ SyncRespond \/ AnnounceEpoch \/ HandleEpochChange
      PROVE  UNCHANGED setting
  BY <1>3, Zenon DEF Broadcast, EngineReceive, SyncRespond, AnnounceEpoch, HandleEpochChange
<1> QED BY <1>1, <1>2, <1>3, Zenon DEF NetNext

LEMMA TxInit == Init => TxInv
<1> SUFFICES ASSUME Init PROVE TxInv
  OBVIOUS
<1>1. /\ setting \in Settings /\ pool = EmptyPool /\ version = 1 /\ txQueue = <<>>
      /\ gossiped = {} /\ submitted = {} /\ rechecks = 0 /\ rechecking = 0 /\ unread = {}
      /\ faults = 0 /\ crossed = FALSE
  BY DEF Init, NetInit
<1>2. setting.versions \in 1..Len(Verdict) /\ setting.max_txs \in Nat /\ TxQueueBound \in Nat
  BY <1>1, VerdictType, TransactionsAssumption
<1>3. pool.entries = {} /\ pool.seen = <<>>
  BY <1>1 DEF EmptyPool
<1>4. Filed(pool) /\ Cardinality(pool.entries) = 0
  BY <1>3, FS_EmptySet DEF Filed, Pending
<1>5. txQueue \in Seq(Tx) /\ Len(txQueue) = 0
  BY <1>1
<1>6. version \in 1..setting.versions /\ Len(txQueue) <= TxQueueBound
      /\ Cardinality(pool.entries) <= setting.max_txs
  BY <1>1, <1>2, <1>4, <1>5, VerdictType
<1>7. TxTypes
  <2>1. crossed \in BOOLEAN
    BY <1>1
  <2>2. /\ AtMostOne(unread, Answers) /\ AtMostOne(gossiped, Entries)
        /\ AtMostOne(submitted, Entries)
    BY <1>1 DEF AtMostOne
  <2>3. rechecking \in 0..version /\ rechecks \in Nat /\ faults \in Nat
    BY <1>1
  <2> QED BY <1>4, <1>5, <1>6, <2>1, <2>2, <2>3 DEF TxTypes
<1> QED BY <1>1, <1>3, <1>7 DEF TxInv, RecheckFollows, PoolIsCurrent

LEMMA TxInvariant == Spec => []TxInv
<1>1. ASSUME TxInv, UNCHANGED <<setting, txVars>> PROVE TxInv'
  BY <1>1 DEF txVars, TxInv, TxTypes, RecheckFollows, PoolIsCurrent
<1>2. AdmissionInv => setting \in Settings
  BY DEF AdmissionInv, Admission
<1>3. AdmissionInv /\ TxInv /\ [Next]_vars => TxInv'
  BY <1>1, <1>2, TxStep, NetLeavesTx DEF Next, vars, netVars
<1> QED BY <1>3, TxInit, AdmissionInvariant, PTL DEF Spec

(* What the network service gave to the engine, and its queues.            *)
InboxInv ==
    /\ inbox \in Seq([from : Nat, msg : Message]) /\ Len(inbox) <= setting.inbox
    /\ \A n \in DOMAIN inbox : inbox[n].msg.kind = "status" => inbox[n].msg.by = inbox[n].from

LEMMA InboxAdd ==
    ASSUME setting \in Settings, InboxInv, RouteInv, NEW p, Routed(p), NEW m \in Message,
           ShouldAccept(routes.p2v[p], m), Len(inbox) < setting.inbox,
           inbox' = Append(inbox, [from |-> routes.p2v[p], msg |-> m]), UNCHANGED setting
    PROVE  InboxInv'
<1> DEFINE x == [from |-> routes.p2v[p], msg |-> m]
           F == [from : Nat, msg : Message]
<1>1. routes.p2v[p] \in Nat
  <2>1. routes.p2v \in PMap(Peer, Nat)
    BY RawFields DEF RouteInv
  <2> QED BY <2>1, PMapFacts DEF Routed
<1>2. x \in F /\ (x.msg.kind = "status" => x.msg.by = x.from)
  BY <1>1 DEF ShouldAccept
<1>3. inbox' = Append(inbox, x) /\ inbox \in Seq(F) /\ setting.inbox \in Nat
  BY NetworkConstants DEF InboxInv
<1> HIDE DEF x, F
<1>4. inbox' \in Seq(F) /\ Len(inbox') = Len(inbox) + 1 /\ Len(inbox) \in Nat
  BY <1>2, <1>3
<1>5. Len(inbox') <= setting.inbox'
  BY <1>3, <1>4
<1>6. \A n \in DOMAIN inbox' : inbox'[n] = x \/ (n \in DOMAIN inbox /\ inbox'[n] = inbox[n])
  BY <1>2, <1>3
<1>7. \A n \in DOMAIN inbox' : inbox'[n].msg.kind = "status" => inbox'[n].msg.by = inbox'[n].from
  BY <1>2, <1>6 DEF InboxInv
<1> QED BY <1>4, <1>5, <1>7 DEF InboxInv, F

LEMMA InboxStep == setting \in Settings /\ RouteInv /\ InboxInv /\ NetNext => InboxInv'
<1> SUFFICES ASSUME setting \in Settings, RouteInv, InboxInv, NetNext PROVE InboxInv'
  OBVIOUS
<1>0. ASSUME UNCHANGED <<setting, inbox>> PROVE InboxInv'
  BY <1>0 DEF InboxInv
<1>1. ASSUME NEW p \in Peer,
             \/ Connect(p) \/ Disconnect(p) \/ ConnectionEstablished(p) \/ ConnectionClosed(p)
             \/ OnSyncRequest(p)
             \/ \E k \in Kinds : ValidateSubstream(k, p) \/ StreamOpened(k, p) \/ StreamClosed(k, p)
      PROVE  UNCHANGED <<setting, inbox>>
  BY <1>1, Zenon
     DEF Connect, Disconnect, ConnectionEstablished, ConnectionClosed, OnSyncRequest,
         ValidateSubstream, StreamOpened, StreamClosed
<1>2. ASSUME \/ \E m \in OwnMessage : Broadcast(m)
             \/ SyncRespond \/ AnnounceEpoch \/ HandleEpochChange
      PROVE  UNCHANGED <<setting, inbox>>
  BY <1>2 DEF Broadcast, SyncRespond, AnnounceEpoch, HandleEpochChange
<1>3. ASSUME NEW p \in Peer, NEW m \in Message, OnNotification(p, m) PROVE InboxInv'
  <2>1. /\ Routed(p) /\ ShouldAccept(routes.p2v[p], m) /\ UNCHANGED setting
        /\ inbox' = IF Len(inbox) < setting.inbox
                    THEN Append(inbox, [from |-> routes.p2v[p], msg |-> m]) ELSE inbox
    BY <1>3 DEF OnNotification
  <2>2. CASE Len(inbox) < setting.inbox
    BY <2>1, <2>2, InboxAdd
  <2>3. CASE ~(Len(inbox) < setting.inbox)
    BY <1>0, <2>1, <2>3
  <2> QED BY <2>2, <2>3
<1>4. ASSUME NEW p \in Peer, NEW m \in Message, OnRequest(p, m) PROVE InboxInv'
  BY <1>4, InboxAdd DEF OnRequest
<1>5. ASSUME EngineReceive PROVE InboxInv'
  <2> DEFINE F == [from : Nat, msg : Message]
  <2>1. inbox # <<>> /\ inbox' = Tail(inbox) /\ UNCHANGED setting /\ inbox \in Seq(F)
        /\ Len(inbox) <= setting.inbox /\ setting.inbox \in Nat
    BY <1>5, NetworkConstants DEF EngineReceive, InboxInv
  <2> HIDE DEF F
  <2>2. inbox' \in Seq(F) /\ Len(inbox') <= setting.inbox'
    BY <2>1
  <2>3. \A n \in DOMAIN inbox' : n + 1 \in DOMAIN inbox /\ inbox'[n] = inbox[n + 1]
    BY <2>1
  <2> QED BY <2>2, <2>3 DEF InboxInv, F
<1> QED BY <1>0, <1>1, <1>2, <1>3, <1>4, <1>5 DEF NetNext

LEMMA InboxInvariant == Spec => []InboxInv
<1>1. Init => InboxInv
  <2> SUFFICES ASSUME Init PROVE InboxInv
    OBVIOUS
  <2>1. setting \in Settings /\ inbox = <<>>
    BY DEF Init, NetInit
  <2>2. setting.inbox \in Nat
    BY <2>1, NetworkConstants
  <2> QED BY <2>1, <2>2 DEF InboxInv
<1>2. ASSUME InboxInv, UNCHANGED netVars PROVE InboxInv'
  BY <1>2 DEF netVars, InboxInv
<1>3. AdmissionInv => setting \in Settings
  BY DEF AdmissionInv, Admission
<1>4. AdmissionInv /\ RouteInv /\ InboxInv /\ [Next]_vars => InboxInv'
  BY <1>2, <1>3, InboxStep, TxLeavesNetwork DEF Next, vars
<1> QED BY <1>1, <1>4, AdmissionInvariant, RouteInvariant, PTL DEF Spec

-----------------------------------------------------------------------------
(* What holds of transactions on their way.                                *)

(***************************************************************************)
(* Every reachable state is well typed, and the two indexes of the pool    *)
(* (entries and seen) agree, with one entry for a transaction and no more  *)
(* than max_size, through additions, replacements, evictions and rechecks. *)
(***************************************************************************)
THEOREM TransactionsTypeCorrect == Spec => []TypeOK
<1>1. AdmissionInv /\ InboxInv /\ TxInv => TypeOK
  <2> SUFFICES ASSUME AdmissionInv, InboxInv, TxInv PROVE TypeOK
    OBVIOUS
  <2>1. /\ setting \in Settings /\ wire \in Wire /\ connected \subseteq Peer
        /\ streams \in [Kinds -> SUBSET Peer]
        /\ epoch \in 1..Len(Sets) /\ notice \in 0..Len(Sets)
        /\ Len(syncReqs) <= setting.sync_queue
    BY DEF AdmissionInv, Admission
  <2>2. wire.up \subseteq Peer
    BY <2>1 DEF Wire
  <2>3. epoch \in DOMAIN Sets
    BY <2>1, NetworkConstants
  <2>4. version \in DOMAIN Verdict
    BY <2>1, TxConstants, VerdictType DEF TxInv
  <2>5. ASSUME NEW S, NEW X, AtMostOne(S, X) PROVE Cardinality(S) <= 1
    <3>1. CASE S = {}
      BY <3>1, FS_EmptySet
    <3>2. CASE \E x \in X : S = {x}
      BY <3>2, FS_Singleton
    <3> QED BY <2>5, <3>1, <3>2 DEF AtMostOne
  <2>6. Cardinality(unread) <= 1 /\ Cardinality(gossiped) <= 1 /\ Cardinality(submitted) <= 1
    BY <2>5 DEF TxInv, TxTypes
  <2>7. /\ rechecking \in 0..version /\ Len(txQueue) <= TxQueueBound /\ Filed(pool)
        /\ Cardinality(pool.entries) <= setting.max_txs
    BY DEF TxInv, TxTypes
  <2>8. /\ Len(inbox) <= setting.inbox
        /\ \A n \in DOMAIN inbox : inbox[n].msg.kind = "status" => inbox[n].msg.by = inbox[n].from
    BY DEF InboxInv
  <2> QED BY <2>1, <2>2, <2>3, <2>4, <2>6, <2>7, <2>8 DEF TypeOK, Filed
<1> QED BY <1>1, AdmissionInvariant, InboxInvariant, TxInvariant, PTL

(***************************************************************************)
(* The recheck that on_commit spawns leaves no verdict older than the      *)
(* last commit in the pool, however commits, rechecks and insertions       *)
(* interleave, except of what was inserted after it.                       *)
(***************************************************************************)
THEOREM PoolStaysCurrent == Spec => []PoolIsCurrent
<1>1. TxInv => PoolIsCurrent
  BY DEF TxInv
<1> QED BY <1>1, TxInvariant, PTL

(***************************************************************************)
(* add_tx_with_gas and recheck take a transaction out of the pool only     *)
(* for the application's verdict, a failed call, or one of strictly higher *)
(* priority at capacity.                                                   *)
(***************************************************************************)
THEOREM LeavesForAReason == Spec => TxLeavesForAReason
<1> DEFINE Gone(e) == e.tx \notin {f.tx : f \in pool'.entries}
           Reason(e) == \/ faults' > faults
                        \/ /\ rechecking # 0
                           /\ \E v \in rechecking..version : ~Verdict[v][e.tx].valid
                        \/ /\ rechecking = 0
                           /\ Cardinality(pool.entries) = setting.max_txs
                           /\ \E f \in pool'.entries \ pool.entries : f.priority > e.priority
           A == ~crossed' => \A e \in pool.entries : Gone(e) => Reason(e)
<1>1. ASSUME UNCHANGED pool PROVE A
  BY <1>1
<1>2. ASSUME setting \in Settings, TxInv, AddGossiped \/ AddSubmitted PROVE A
  <2> SUFFICES ASSUME NEW e \in pool.entries, Gone(e) PROVE Reason(e)
    OBVIOUS
  <2>1. PICK n \in Entries : AddJudged(n)
    BY <1>2 DEF AddGossiped, AddSubmitted, AtMostOne, TxInv, TxTypes
  <2>2. UNCHANGED <<setting, version, rechecks, rechecking, crossed>>
    BY <1>2 DEF AddGossiped, AddSubmitted, netVars
  <2>3. Adds(pool, pool', n, setting.max_txs)
    BY <1>2, <2>1, <2>2, AddKeeps
  <2>4. e \notin pool'.entries /\ pool' # pool
    OBVIOUS
  <2>5. \A o \in pool.entries : o.tx = n.tx => pool'.entries # (pool.entries \ {o}) \cup {n}
    <3> SUFFICES ASSUME NEW o \in pool.entries, o.tx = n.tx,
                        pool'.entries = (pool.entries \ {o}) \cup {n}
                 PROVE  FALSE
      OBVIOUS
    <3>1. e = o
      BY <2>4
    <3> QED BY <3>1
  <2>6. PICK o \in pool.entries : /\ o.priority < n.priority /\ n.tx \notin Pending(pool)
                                  /\ ~(Cardinality(pool.entries) < setting.max_txs)
                                  /\ pool'.entries = (pool.entries \ {o}) \cup {n}
    BY <2>3, <2>4, <2>5 DEF Adds
  <2>7. e = o /\ n \in pool'.entries /\ n \notin pool.entries
    BY <2>4, <2>6 DEF Pending
  <2>8. Cardinality(pool.entries) = setting.max_txs
    <3>1. /\ Cardinality(pool.entries) <= setting.max_txs /\ setting.max_txs \in Nat
          /\ Cardinality(pool.entries) \in Nat
      BY <1>2, TxConstants, FS_CardinalityType DEF TxInv, TxTypes, Filed
    <3> QED BY <2>6, <3>1
  <2>9. e.priority \in Nat /\ n.priority \in Nat
    BY <1>2, EntryFields DEF TxInv, TxTypes, Filed
  <2>10. n.priority > e.priority
    BY <2>6, <2>7, <2>9
  <2>11. rechecking = 0
    BY <2>1 DEF AddJudged
  <2> QED BY <2>7, <2>8, <2>10, <2>11
<1>3. ASSUME setting \in Settings, TxInv, EndRecheck PROVE A
  <2> SUFFICES ASSUME ~crossed', NEW e \in pool.entries, Gone(e), ~(faults' > faults)
               PROVE  rechecking # 0 /\ \E v \in rechecking..version : ~Verdict[v][e.tx].valid
    OBVIOUS
  <2>1. /\ version \in Nat /\ version \in 1..Len(Verdict) /\ rechecking \in Nat
    BY <1>3, TxConstants DEF TxInv
  <2>2. /\ rechecking # 0 /\ rechecking \in 0..version /\ faults \in Nat /\ Filed(pool)
    BY <1>3 DEF EndRecheck, TxInv, TxTypes
  <2>3. PICK run \in RecheckRuns : /\ faults' = faults + run.failed
                                   /\ crossed' = (crossed \/ run.crossed)
                                   /\ pool' = Rechecked(pool, run.said)
    BY <1>3 DEF EndRecheck
  <2>4. Begun
    BY <1>3, <2>1, <2>2 DEF Begun, TxInv, TxTypes
  <2>5. Sound(run, Pending(pool))
    BY <2>2, <2>4, RecheckIsSound
  <2>6. /\ run.said \in PMap(Tx, Answers) /\ run.failed \in Nat
        /\ DOMAIN run.said = Pending(pool)
    BY <2>5 DEF Sound, Runs
  <2>7. ~run.crossed /\ run.failed = 0
    <3>1. ~run.crossed
      BY <2>3
    <3>2. run.failed = 0
      <4> HIDE DEF A
      <4> QED BY <2>2, <2>3, <2>6
    <3> QED BY <3>1, <3>2
  <2>8. \A t \in Pending(pool) : run.said[t] \in Answers
    BY <2>6, PMapFacts
  <2>9. \A t \in Pending(pool) : run.said[t].valid => t \in Pending(pool')
    BY <2>2, <2>3, <2>6, <2>8, RecheckedFacts
  <2>10. e.tx \in Pending(pool) /\ e.tx \notin Pending(pool') /\ e.tx \in Tx
    BY <2>2, EntryFields DEF Pending, Filed
  <2>11. PICK v \in rechecking..version : run.said[e.tx] = Answer(e.tx, v)
    BY <2>5, <2>7, <2>10 DEF Sound
  <2>12. v \in 1..Len(Verdict)
    BY <2>1, <2>2, VerdictType
  <2>13. ~Verdict[v][e.tx].valid
    BY <2>9, <2>10, <2>11, <2>12, AnswerType
  <2> QED BY <2>2, <2>13
<1>4. ASSUME setting \in Settings, TxInv, [Next]_vars PROVE A
  <2>1. \/ UNCHANGED pool \/ AddGossiped \/ AddSubmitted \/ EndRecheck
    BY <1>4, NetLeavesTx DEF Next, TxNext, vars, txVars, OnGossip, JudgeGossip, SubmitTx,
       OnCommit, BeginRecheck, ValidateBlock
  <2> HIDE DEF A
  <2> QED BY <1>1, <1>2, <1>3, <1>4, <2>1
<1>5. AdmissionInv => setting \in Settings
  BY DEF AdmissionInv, Admission
<1>6. AdmissionInv /\ TxInv /\ [Next]_vars => A
  <2> HIDE DEF A
  <2> QED BY <1>4, <1>5
<1>7. AdmissionInv /\ TxInv /\ [Next]_vars => [A]_vars
  <2> HIDE DEF A
  <2> QED BY <1>6
<1>8. Spec => [][A]_vars
  <2> HIDE DEF A
  <2> QED BY <1>7, AdmissionInvariant, TxInvariant, PTL DEF Spec
<1> QED BY <1>8 DEF TxLeavesForAReason

-----------------------------------------------------------------------------
(* Payloads: the scan of the entries, the highest first.                   *)

Scans == [txs : Seq(Tx), bytes : Nat, gas : Nat, skipped : Nat]

FirstScan == [txs |-> <<>>, bytes |-> 0, gas |-> 0, skipped |-> 0]

LEMMA ScanFields ==
    ASSUME NEW c \in Scans
    PROVE  c.txs \in Seq(Tx) /\ c.bytes \in Nat /\ c.gas \in Nat /\ c.skipped \in Nat
BY DEF Scans

(* What one transaction of the scan comes to.                              *)
Ended(c, e, b, g) ==
    \/ c.skipped >= MaxSkipped
    \/ SizeOf[e.tx] > b
    \/ g > 0 /\ e.gas > g

Taking(c, e, g) ==
    [txs |-> Append(c.txs, e.tx), bytes |-> c.bytes + SizeOf[e.tx],
     gas |-> IF g > 0 THEN c.gas + e.gas ELSE c.gas, skipped |-> c.skipped]

Skipping(c) == [txs |-> c.txs, bytes |-> c.bytes, gas |-> c.gas, skipped |-> c.skipped + 1]

LEMMA ScanCases ==
    ASSUME NEW c \in Scans, NEW e \in Entries, NEW b \in Nat, NEW g \in Nat
    PROVE  /\ Scan(c, e, b, g) \in Scans
           /\ Ended(c, e, b, g) => Scan(c, e, b, g) = c
           /\ ~Ended(c, e, b, g) /\ Fits(c, e, b, g) => Scan(c, e, b, g) = Taking(c, e, g)
           /\ ~Ended(c, e, b, g) /\ ~Fits(c, e, b, g) => Scan(c, e, b, g) = Skipping(c)
<1>1. c.txs \in Seq(Tx) /\ c.bytes \in Nat /\ c.gas \in Nat /\ c.skipped \in Nat
  BY ScanFields
<1>2. e.tx \in Tx /\ e.gas \in Nat /\ SizeOf[e.tx] \in Nat
  BY EntryFields, MempoolAssumption
<1>3. Taking(c, e, g) \in Scans
  <2>1. Append(c.txs, e.tx) \in Seq(Tx)
    BY <1>1, <1>2
  <2>2. c.bytes + SizeOf[e.tx] \in Nat /\ (IF g > 0 THEN c.gas + e.gas ELSE c.gas) \in Nat
    BY <1>1, <1>2
  <2> QED BY <1>1, <2>1, <2>2 DEF Taking, Scans
<1>4. Skipping(c) \in Scans
  <2>1. c.skipped + 1 \in Nat
    BY <1>1
  <2> QED BY <1>1, <2>1 DEF Skipping, Scans
<1>5. Ended(c, e, b, g) => Scan(c, e, b, g) = c
  BY DEF Scan, Ended
<1>6. ASSUME ~Ended(c, e, b, g), Fits(c, e, b, g) PROVE Scan(c, e, b, g) = Taking(c, e, g)
  <2>1. Scan(c, e, b, g) = [c EXCEPT !.txs = Append(@, e.tx), !.bytes = @ + SizeOf[e.tx],
                                     !.gas = IF g > 0 THEN @ + e.gas ELSE @]
    BY <1>6 DEF Scan, Ended
  <2> QED BY <2>1 DEF Taking, Scans
<1>7. ASSUME ~Ended(c, e, b, g), ~Fits(c, e, b, g) PROVE Scan(c, e, b, g) = Skipping(c)
  <2>1. Scan(c, e, b, g) = [c EXCEPT !.skipped = @ + 1]
    BY <1>7 DEF Scan, Ended
  <2> QED BY <2>1 DEF Skipping, Scans
<1> QED BY <1>3, <1>4, <1>5, <1>6, <1>7

(* The scans of the first entries of seq, one after the other.             *)
ScansOf(r, seq, b, g) ==
    /\ r \in [0..Len(seq) -> Scans] /\ r[0] = FirstScan
    /\ \A n \in 1..Len(seq) : r[n] = Scan(r[n - 1], seq[n], b, g)

LEMMA Collecting ==
    ASSUME NEW p, ByPriority(p) \in Seq(Entries), NEW b \in Nat, NEW g \in Nat
    PROVE  \E r : /\ ScansOf(r, ByPriority(p), b, g)
                  /\ Collect(p, b, g) = r[Len(ByPriority(p))]
<1> DEFINE seq == ByPriority(p)
           N == Len(seq)
           step == [x \in Scans \X Entries |-> Scan(x[1], x[2], b, g)]
           iter(h) == [T \in SUBSET DOMAIN seq |->
                          IF T = {} THEN FirstScan
                          ELSE Scan(h[T \ {Max(T)}], seq[Max(T)], b, g)]
           G == CHOOSE h : h = iter(h)
<1>0. Collect(p, b, g) = G[DOMAIN seq]
  BY DEF Collect, FoldLeft, MapThenFoldSet, FirstScan
<1> HIDE DEF seq
<1>1. N \in Nat /\ DOMAIN seq = 1..N /\ seq \in Seq(Entries) /\ \A n \in 1..N : seq[n] \in Entries
  BY DEF seq
<1>2. step \in [Scans \X Entries -> Scans]
  BY ScanCases
<1>20. FirstScan \in Scans
  BY DEF FirstScan, Scans
<1>3. PICK k : FoldsLeft(k, seq, Scans, FirstScan, step)
  <2> HIDE DEF step
  <2> QED BY <1>1, <1>2, <1>20, LeftFoldRecursion
<1>4. k = iter(k)
  <2>1. ASSUME NEW T \in SUBSET (1..N) PROVE k[T] = iter(k)[T]
    <3>1. CASE T = {}
      BY <1>1, <1>3, <3>1 DEF FoldsLeft
    <3>2. CASE T # {}
      <4>1. T \subseteq 0..N
        BY <1>1
      <4>2. Max(T) \in T
        <5> HIDE DEF N
        <5> QED BY <1>1, <3>2, <4>1, GreatestNumber
      <4>3. seq[Max(T)] \in Entries /\ T \ {Max(T)} \in SUBSET (1..N)
        <5> HIDE DEF N
        <5> QED BY <1>1, <4>2
      <4>4. k[T \ {Max(T)}] \in Scans
        BY <1>3, <4>3 DEF FoldsLeft
      <4>5. step[<<k[T \ {Max(T)}], seq[Max(T)]>>] = Scan(k[T \ {Max(T)}], seq[Max(T)], b, g)
        BY <4>3, <4>4
      <4>6. k[T] = step[<<k[T \ {Max(T)}], seq[Max(T)]>>]
        <5> HIDE DEF step
        <5> QED BY <1>3, <3>2 DEF FoldsLeft
      <4> QED BY <1>1, <3>2, <4>5, <4>6
    <3> QED BY <3>1, <3>2
  <2>2. k \in [SUBSET DOMAIN seq -> Scans]
    BY <1>1, <1>3 DEF FoldsLeft
  <2> QED BY <1>1, <2>1, <2>2
<1>5. G = iter(G)
  <2> HIDE DEF iter
  <2> QED BY <1>4
<1>6. Collect(p, b, g) = G[1..N]
  <2> HIDE DEF G
  <2> QED BY <1>0, <1>1
<1>7. G[1..0] = FirstScan
  <2>1. G[{}] = iter(G)[{}]
    BY <1>5
  <2>2. iter(G)[{}] = FirstScan
    OBVIOUS
  <2>3. 1..0 = {}
    OBVIOUS
  <2> HIDE DEF G, iter
  <2> QED BY <2>1, <2>2, <2>3
<1>8. ASSUME NEW n \in 1..N PROVE G[1..n] = Scan(G[1..(n - 1)], seq[n], b, g)
  <2>1. /\ Max(1..n) = n /\ (1..n) \ {n} = 1..(n - 1) /\ 1..n # {}
        /\ 1..n \in SUBSET DOMAIN seq
    BY <1>1, PrefixMax
  <2>2. G[1..n] = iter(G)[1..n]
    BY <1>5
  <2>3. iter(G)[1..n] = Scan(G[1..(n - 1)], seq[n], b, g)
    <3> HIDE DEF G
    <3> QED BY <2>1
  <2> HIDE DEF G, iter
  <2> QED BY <2>2, <2>3
<1> DEFINE P == {n \in Nat : n <= N => G[1..n] \in Scans}
           r == [n \in 0..N |-> G[1..n]]
<1>9. 0 \in P
  <2> HIDE DEF G
  <2> QED BY <1>7, <1>20
<1>10. ASSUME NEW n \in Nat, n \in P PROVE n + 1 \in P
  <2> SUFFICES ASSUME n + 1 <= N PROVE G[1..(n + 1)] \in Scans
    BY <1>1
  <2>1. n + 1 \in 1..N /\ (n + 1) - 1 = n /\ seq[n + 1] \in Entries
    BY <1>1
  <2> HIDE DEF G, N
  <2>2. G[1..n] \in Scans
    BY <1>1, <1>10
  <2>3. G[1..(n + 1)] = Scan(G[1..n], seq[n + 1], b, g)
    BY <1>8, <2>1
  <2> QED BY <2>1, <2>2, <2>3, ScanCases
<1>11. Nat \subseteq P
  <2> HIDE DEF P
  <2> QED BY <1>9, <1>10, NumberInduction
<1> HIDE DEF G
<1>12. r \in [0..N -> Scans] /\ r[0] = FirstScan /\ r[N] = G[1..N]
  BY <1>1, <1>7, <1>11
<1>13. ASSUME NEW n \in 1..N PROVE r[n] = Scan(r[n - 1], seq[n], b, g)
  <2>1. n \in 0..N /\ n - 1 \in 0..N
    BY <1>1
  <2>2. r[n] = G[1..n] /\ r[n - 1] = G[1..(n - 1)]
    BY <2>1
  <2> QED BY <1>8, <2>2
<1> HIDE DEF r
<1>14. ScansOf(r, seq, b, g) /\ Collect(p, b, g) = r[N]
  BY <1>6, <1>12, <1>13 DEF ScansOf
<1> QED BY <1>14 DEF seq

(* The sums over entries.                                                  *)
LEMMA EntrySums ==
    ASSUME NEW S, S \subseteq Entries, IsFiniteSet(S)
    PROVE  /\ BytesOf(S) \in Nat /\ GasOf(S) \in Nat
           /\ \A e \in Entries \ S : /\ BytesOf(S \cup {e}) = BytesOf(S) + SizeOf[e.tx]
                                     /\ GasOf(S \cup {e}) = GasOf(S) + e.gas
<1> DEFINE B(T) == [e \in T |-> SizeOf[e.tx]]
           A(T) == [e \in T |-> e.gas]
<1>1. \A e \in Entries : SizeOf[e.tx] \in Nat /\ e.gas \in Nat
  BY EntryFields, MempoolAssumption
<1>2. \A T : T \subseteq Entries /\ IsFiniteSet(T) => IsNumbering(B(T), T) /\ IsNumbering(A(T), T)
  BY <1>1 DEF IsNumbering
<1>3. BytesOf(S) \in Nat /\ GasOf(S) \in Nat
  BY <1>2, SumNat DEF BytesOf, GasOf
<1>4. ASSUME NEW e \in Entries \ S
      PROVE  /\ BytesOf(S \cup {e}) = BytesOf(S) + SizeOf[e.tx]
             /\ GasOf(S \cup {e}) = GasOf(S) + e.gas
  <2> DEFINE U == S \cup {e}
  <2>1. IsFiniteSet(U) /\ U \subseteq Entries
    BY FS_AddElement
  <2>2. IsNumbering(B(U), U) /\ IsNumbering(A(U), U) /\ IsNumbering(B(S), S) /\ IsNumbering(A(S), S)
    BY <1>2, <2>1
  <2>3. /\ \A x \in S : B(S)[x] = B(U)[x] /\ A(S)[x] = A(U)[x]
        /\ B(U)[e] = SizeOf[e.tx] /\ A(U)[e] = e.gas
    OBVIOUS
  <2>4. BytesOf(S) = SumFunctionOnSet(B(S), S) /\ GasOf(S) = SumFunctionOnSet(A(S), S)
        /\ BytesOf(U) = SumFunctionOnSet(B(U), U) /\ GasOf(U) = SumFunctionOnSet(A(U), U)
    BY DEF BytesOf, GasOf
  <2> HIDE DEF A, B
  <2>5. /\ SumFunctionOnSet(B(U), U) = B(U)[e] + SumFunctionOnSet(B(U), S)
        /\ SumFunctionOnSet(A(U), U) = A(U)[e] + SumFunctionOnSet(A(U), S)
    BY <2>2, SumAdd
  <2>6. /\ SumFunctionOnSet(B(S), S) = SumFunctionOnSet(B(U), S)
        /\ SumFunctionOnSet(A(S), S) = SumFunctionOnSet(A(U), S)
    BY <2>2, <2>3, SumSame
  <2>7. SizeOf[e.tx] \in Nat /\ e.gas \in Nat
    BY <1>1
  <2> QED BY <1>3, <2>3, <2>4, <2>5, <2>6, <2>7
<1> QED BY <1>3, <1>4

LEMMA SingleSums ==
    ASSUME NEW e \in Entries
    PROVE  BytesOf({e}) = SizeOf[e.tx] /\ GasOf({e}) = e.gas
<1>1. BytesOf({}) = 0 /\ GasOf({}) = 0
  BY SumEmpty DEF BytesOf, GasOf
<1>2. {} \cup {e} = {e} /\ e \in Entries \ {} /\ {} \subseteq Entries
  OBVIOUS
<1>3. BytesOf({} \cup {e}) = 0 + SizeOf[e.tx] /\ GasOf({} \cup {e}) = 0 + e.gas
  BY <1>1, EntrySums, FS_EmptySet
<1>4. SizeOf[e.tx] \in Nat /\ e.gas \in Nat
  BY EntryFields, MempoolAssumption
<1> QED BY <1>2, <1>3, <1>4

First(seq, n) == {seq[i] : i \in 1..n}

Took(c, seq, n) == {e \in First(seq, n) : e.tx \in Range(c.txs)}

(* Why the scan c left entry e, when T is what it has taken.               *)
LeftOut(c, T, e, b, g) ==
    Within({e}, b, g) => \/ c.skipped >= MaxSkipped
                         \/ ~Within({e} \cup {f \in T : Below(e, f)}, b, g)

(* The scan c of the first n entries of seq.                               *)
Greedy(c, seq, n, b, g) ==
    LET T == Took(c, seq, n)
    IN  /\ c \in Scans
        /\ Range(c.txs) \subseteq {e.tx : e \in First(seq, n)}
        /\ c.bytes = BytesOf(T) /\ (g > 0 => c.gas = GasOf(T))
        /\ Within(T, b, g)
        /\ \A e \in First(seq, n) \ T : LeftOut(c, T, e, b, g)

(* The entries of a pool, in their order.                                  *)
Ordered(seq) ==
    /\ seq \in Seq(Entries)
    /\ \A n, m \in DOMAIN seq :
           /\ n < m => Below(seq[m], seq[n]) /\ ~Below(seq[n], seq[m])
           /\ seq[n].tx = seq[m].tx => n = m

LEMMA PrefixFacts ==
    ASSUME NEW seq \in Seq(Entries), NEW n \in Nat, n < Len(seq)
    PROVE  /\ First(seq, 0) = {}
           /\ First(seq, n) \subseteq Entries /\ IsFiniteSet(First(seq, n))
           /\ First(seq, n + 1) = First(seq, n) \cup {seq[n + 1]}
<1>1. First(seq, 0) = {}
  BY DEF First
<1>2. First(seq, n) \subseteq Entries
  BY DEF First
<1>3. First(seq, n + 1) = First(seq, n) \cup {seq[n + 1]}
  <2>1. 1..(n + 1) = (1..n) \cup {n + 1}
    OBVIOUS
  <2> QED BY <2>1 DEF First
<1>4. IsFiniteSet(First(seq, n))
  <2>1. IsFiniteSet(1..n)
    BY FS_Interval
  <2> DEFINE h == [i \in 1..n |-> seq[i]]
  <2>2. h \in Surjection(1..n, First(seq, n))
    BY DEF Surjection, First
  <2> HIDE DEF h
  <2> QED BY <2>1, <2>2, FS_Surjection
<1> QED BY <1>1, <1>2, <1>3, <1>4

LEMMA GreedyStart ==
    ASSUME NEW seq \in Seq(Entries), NEW b \in Nat, NEW g \in Nat
    PROVE  Greedy(FirstScan, seq, 0, b, g)
<1>1. First(seq, 0) = {} /\ Took(FirstScan, seq, 0) = {}
  BY DEF First, Took
<1>2. BytesOf({}) = 0 /\ GasOf({}) = 0
  BY SumEmpty DEF BytesOf, GasOf
<1>3. FirstScan \in Scans /\ Range(FirstScan.txs) = {} /\ FirstScan.bytes = 0 /\ FirstScan.gas = 0
  BY DEF FirstScan, Scans, Range
<1>4. Within({}, b, g)
  BY <1>2 DEF Within
<1> QED BY <1>1, <1>2, <1>3, <1>4 DEF Greedy

LEMMA AppendRange ==
    ASSUME NEW q \in Seq(Tx), NEW t \in Tx
    PROVE  Range(Append(q, t)) = Range(q) \cup {t}
<1> DEFINE l == Len(q)
           a == Append(q, t)
<1>1. /\ l \in Nat /\ DOMAIN q = 1..l /\ DOMAIN a = 1..(l + 1)
      /\ a[l + 1] = t /\ \A i \in 1..l : a[i] = q[i]
  OBVIOUS
<1>2. 1..(l + 1) = (1..l) \cup {l + 1}
  BY <1>1
<1>3. Range(a) = {a[i] : i \in 1..(l + 1)} /\ Range(q) = {q[i] : i \in 1..l}
  BY <1>1 DEF Range
<1> HIDE DEF a, l
<1>4. Range(a) = Range(q) \cup {t}
  BY <1>1, <1>2, <1>3
<1> QED BY <1>4 DEF a

LEMMA GreedyStep ==
    ASSUME NEW seq, Ordered(seq), NEW n \in Nat, n < Len(seq), NEW b \in Nat, NEW g \in Nat,
           NEW c, Greedy(c, seq, n, b, g)
    PROVE  Greedy(Scan(c, seq[n + 1], b, g), seq, n + 1, b, g)
<1> DEFINE e == seq[n + 1]
           d == Scan(c, e, b, g)
           F == First(seq, n)
           T == Took(c, seq, n)
           U == Took(d, seq, n + 1)
<1>1. /\ seq \in Seq(Entries) /\ e \in Entries /\ n + 1 \in DOMAIN seq
      /\ \A i \in 1..n : i \in DOMAIN seq /\ i < n + 1
  BY DEF Ordered
<1>2. /\ F \subseteq Entries /\ IsFiniteSet(F) /\ First(seq, n + 1) = F \cup {e}
  BY <1>1, PrefixFacts
<1>3. \A f \in F : Below(e, f) /\ ~Below(f, e) /\ f.tx # e.tx
  BY <1>1 DEF First, Ordered
<1>4. /\ c \in Scans /\ Range(c.txs) \subseteq {f.tx : f \in F}
      /\ c.bytes = BytesOf(T) /\ (g > 0 => c.gas = GasOf(T)) /\ Within(T, b, g)
      /\ \A f \in F \ T : LeftOut(c, T, f, b, g)
  BY DEF Greedy
<1>5. T \subseteq F /\ T = {f \in F : f.tx \in Range(c.txs)}
  BY DEF Took
<1>6. U = {f \in F \cup {e} : f.tx \in Range(d.txs)}
  BY <1>2 DEF Took
<1>7. e.tx \in Tx /\ SizeOf[e.tx] \in Nat /\ e.gas \in Nat
  BY <1>1, EntryFields, MempoolAssumption
<1>8. c.txs \in Seq(Tx) /\ c.bytes \in Nat /\ c.gas \in Nat /\ c.skipped \in Nat
  BY <1>4, ScanFields
<1>9. e \notin F /\ e.tx \notin Range(c.txs)
  BY <1>3, <1>4
<1>10. BytesOf({e}) = SizeOf[e.tx] /\ GasOf({e}) = e.gas
  BY <1>1, SingleSums
<1>11. /\ BytesOf(T) \in Nat /\ GasOf(T) \in Nat
       /\ BytesOf(T \cup {e}) = BytesOf(T) + SizeOf[e.tx] /\ GasOf(T \cup {e}) = GasOf(T) + e.gas
  <2>1. T \subseteq Entries /\ IsFiniteSet(T) /\ e \in Entries \ T
    BY <1>1, <1>2, <1>5, <1>9, FS_Subset
  <2> HIDE DEF T, e
  <2> QED BY <2>1, EntrySums
<1>12. /\ d \in Scans
       /\ (Ended(c, e, b, g) => d = c)
       /\ (~Ended(c, e, b, g) /\ Fits(c, e, b, g) => d = Taking(c, e, g))
       /\ (~Ended(c, e, b, g) /\ ~Fits(c, e, b, g) => d = Skipping(c))
  BY <1>1, <1>4, ScanCases
<1>13. MaxSkipped \in Nat
  BY MempoolAssumption
<1> SUFFICES /\ Range(d.txs) \subseteq {f.tx : f \in F \cup {e}}
             /\ d.bytes = BytesOf(U) /\ (g > 0 => d.gas = GasOf(U)) /\ Within(U, b, g)
             /\ \A f \in (F \cup {e}) \ U : LeftOut(d, U, f, b, g)
  BY <1>2, <1>12 DEF Greedy
<1> HIDE DEF d, e, F, T, U
<1>14. ASSUME d.txs = c.txs, d.bytes = c.bytes, d.gas = c.gas, d.skipped \in Nat,
              d.skipped >= c.skipped, LeftOut(d, T, e, b, g)
       PROVE  /\ Range(d.txs) \subseteq {f.tx : f \in F \cup {e}}
              /\ d.bytes = BytesOf(U) /\ (g > 0 => d.gas = GasOf(U)) /\ Within(U, b, g)
              /\ \A f \in (F \cup {e}) \ U : LeftOut(d, U, f, b, g)
  <2>1. U = T
    BY <1>5, <1>6, <1>9, <1>14
  <2>2. \A f \in F \ T : LeftOut(d, T, f, b, g)
    BY <1>4, <1>8, <1>13, <1>14 DEF LeftOut
  <2>3. \A f \in (F \cup {e}) \ U : LeftOut(d, U, f, b, g)
    BY <1>14, <2>1, <2>2
  <2>4. Range(d.txs) \subseteq {f.tx : f \in F \cup {e}}
    BY <1>4, <1>14
  <2> QED BY <1>4, <1>14, <2>1, <2>3, <2>4
<1>15. CASE Ended(c, e, b, g)
  <2>1. d = c
    BY <1>12, <1>15
  <2>2. LeftOut(c, T, e, b, g)
    BY <1>7, <1>10, <1>15 DEF LeftOut, Ended, Within
  <2>3. d.skipped >= c.skipped
    BY <1>8, <2>1
  <2> QED BY <1>8, <1>14, <2>1, <2>2, <2>3
<1>16. CASE ~Ended(c, e, b, g) /\ Fits(c, e, b, g)
  <2>1. /\ d.txs = Append(c.txs, e.tx) /\ d.bytes = c.bytes + SizeOf[e.tx]
        /\ d.gas = (IF g > 0 THEN c.gas + e.gas ELSE c.gas) /\ d.skipped = c.skipped
    BY <1>12, <1>16 DEF Taking
  <2>2. Range(d.txs) = Range(c.txs) \cup {e.tx}
    BY <1>7, <1>8, <2>1, AppendRange
  <2>3. U = T \cup {e}
    BY <1>3, <1>5, <1>6, <2>2
  <2>4. d.bytes = BytesOf(U) /\ (g > 0 => d.gas = GasOf(U))
    BY <1>4, <1>11, <2>1, <2>3
  <2>5. Within(U, b, g)
    BY <1>16, <2>1, <2>4 DEF Within, Fits
  <2>6. ASSUME NEW f \in (F \cup {e}) \ U PROVE LeftOut(d, U, f, b, g)
    <3>1. f \in F \ T /\ LeftOut(c, T, f, b, g) /\ ~Below(f, e)
      BY <1>3, <1>4, <2>3, <2>6
    <3>2. {x \in U : Below(f, x)} = {x \in T : Below(f, x)}
      BY <2>3, <3>1
    <3> QED BY <2>1, <3>1, <3>2 DEF LeftOut
  <2>7. Range(d.txs) \subseteq {f.tx : f \in F \cup {e}}
    BY <1>4, <2>2
  <2> QED BY <2>4, <2>5, <2>6, <2>7
<1>17. CASE ~Ended(c, e, b, g) /\ ~Fits(c, e, b, g)
  <2>1. d.txs = c.txs /\ d.bytes = c.bytes /\ d.gas = c.gas /\ d.skipped = c.skipped + 1
    BY <1>12, <1>17 DEF Skipping
  <2>2. {e} \cup {f \in T : Below(e, f)} = T \cup {e}
    BY <1>3, <1>5
  <2>3. ~Within(T \cup {e}, b, g)
    BY <1>4, <1>7, <1>8, <1>11, <1>17 DEF Within, Fits
  <2>4. LeftOut(d, T, e, b, g)
    BY <2>2, <2>3 DEF LeftOut
  <2>5. d.skipped \in Nat /\ d.skipped >= c.skipped
    BY <1>8, <2>1
  <2> QED BY <1>14, <2>1, <2>4, <2>5
<1> QED BY <1>15, <1>16, <1>17

(* A payload of a well-filed pool is greedy.                               *)
LEMMA CollectIsGreedy ==
    ASSUME NEW p, Filed(p), NEW b \in Nat, NEW g \in Nat
    PROVE  Greedy(Collect(p, b, g), ByPriority(p), Len(ByPriority(p)), b, g)
           /\ First(ByPriority(p), Len(ByPriority(p))) = p.entries
<1> DEFINE seq == ByPriority(p)
           N == Len(seq)
<1>1. /\ seq \in Seq(p.entries)
      /\ \A e \in p.entries : \E n \in DOMAIN seq : seq[n] = e
      /\ \A n, m \in DOMAIN seq : n < m => Below(seq[m], seq[n])
  BY Ranking
<1>2. p.entries \subseteq Entries /\ \A e, f \in p.entries : e.tx = f.tx => e = f
  BY DEF Filed
<1>3. /\ \A e \in p.entries : ~Below(e, e)
      /\ \A e, f, h \in p.entries : Below(e, f) /\ Below(f, h) => Below(e, h)
  BY BelowOrders
<1> HIDE DEF seq
<1>4. N \in Nat /\ DOMAIN seq = 1..N /\ \A n \in 1..N : seq[n] \in p.entries
  BY <1>1
<1>5. seq \in Seq(Entries)
  BY <1>1, <1>2
<1>6. Ordered(seq)
  <2>1. ASSUME NEW n \in 1..N, NEW m \in 1..N, n < m PROVE Below(seq[m], seq[n]) /\ ~Below(seq[n], seq[m])
    BY <1>1, <1>3, <1>4, <2>1
  <2>2. ASSUME NEW n \in 1..N, NEW m \in 1..N, seq[n].tx = seq[m].tx PROVE n = m
    <3>1. seq[n] = seq[m]
      BY <1>2, <1>4, <2>2
    <3>2. ~(n < m) /\ ~(m < n)
      BY <1>3, <1>4, <2>1, <3>1
    <3> QED BY <1>4, <3>2
  <2> QED BY <1>4, <1>5, <2>1, <2>2 DEF Ordered
<1>7. PICK r : ScansOf(r, seq, b, g) /\ Collect(p, b, g) = r[N]
  BY <1>5, Collecting DEF seq
<1> DEFINE P == {n \in Nat : n <= N => Greedy(r[n], seq, n, b, g)}
<1>8. 0 \in P
  BY <1>5, <1>7, GreedyStart DEF ScansOf
<1>9. ASSUME NEW n \in Nat, n \in P PROVE n + 1 \in P
  <2> SUFFICES ASSUME n + 1 <= N PROVE Greedy(r[n + 1], seq, n + 1, b, g)
    OBVIOUS
  <2>1. n + 1 \in 1..N /\ (n + 1) - 1 = n /\ n < N /\ n <= N
    BY <1>4
  <2>2. r[n + 1] = Scan(r[n], seq[n + 1], b, g)
    BY <1>7, <2>1 DEF ScansOf
  <2>3. Greedy(r[n], seq, n, b, g)
    BY <1>9, <2>1
  <2> QED BY <1>6, <2>1, <2>2, <2>3, GreedyStep
<1>10. Nat \subseteq P
  <2> HIDE DEF P
  <2> QED BY <1>8, <1>9, NumberInduction
<1>11. Greedy(r[N], seq, N, b, g)
  BY <1>4, <1>10
<1>12. First(seq, N) = p.entries
  BY <1>1, <1>4 DEF First
<1> QED BY <1>7, <1>11, <1>12 DEF seq

(***************************************************************************)
(* In every reachable state, whatever the budgets, the pool would hand the *)
(* engine a payload that is within them and that leaves a transaction out  *)
(* only for want of room after those of higher priority, or after          *)
(* MaxSkipped others (collect_payload_with_gas).                           *)
(***************************************************************************)
THEOREM PayloadsAreGreedy == Spec => []PayloadIsGreedy
<1>1. ASSUME TxInv, NEW b \in Budgets, NEW g \in Budgets
      PROVE  LET c     == Collect(pool, b, g)
                 taken == {e \in pool.entries : e.tx \in Range(c.txs)}
             IN  /\ Within(taken, b, g)
                 /\ \A e \in pool.entries \ taken :
                        Within({e}, b, g) =>
                            \/ c.skipped >= MaxSkipped
                            \/ ~Within({e} \cup {f \in taken : Below(e, f)}, b, g)
  <2> DEFINE c == Collect(pool, b, g)
             seq == ByPriority(pool)
             T == {e \in pool.entries : e.tx \in Range(c.txs)}
  <2>1. b \in Nat /\ g \in Nat /\ Filed(pool)
    BY <1>1, TransactionsAssumption DEF TxInv, TxTypes
  <2>2. Greedy(c, seq, Len(seq), b, g) /\ First(seq, Len(seq)) = pool.entries
    BY <2>1, CollectIsGreedy
  <2> HIDE DEF c, seq
  <2>3. Took(c, seq, Len(seq)) = T
    BY <2>2 DEF Took
  <2> HIDE DEF T
  <2>4. Within(T, b, g) /\ \A e \in pool.entries \ T : LeftOut(c, T, e, b, g)
    BY <2>2, <2>3 DEF Greedy
  <2> QED BY <2>4 DEF LeftOut, T, c
<1>2. TxInv => PayloadIsGreedy
  BY <1>1 DEF PayloadIsGreedy
<1> QED BY <1>2, TxInvariant, PTL

=============================================================================
