---------------------------- MODULE Transactions -----------------------------
(***************************************************************************)
(* The way of a transaction into the pool: gossip received by the network  *)
(* service, the task of the node that judges it (bin/node.rs), submit_tx   *)
(* of the RPC server (hotmint-api/rpc.rs), and the recheck after a commit, *)
(* composed with the network service.  The application answers over its    *)
(* socket; the engine commits meanwhile.                                   *)
(***************************************************************************)
EXTENDS Network, Mempool, Ipc

CONSTANTS
    Verdict,       \* Verdict[v][t]: what the application says of t in its
                   \* state v, a record [valid, priority, gas]
    TxQueueBound,  \* capacity of the channel of gossiped transactions
    MaxFaults,     \* bound: calls of validate_tx that fail
    Budgets        \* budgets of bytes and of gas tried for a payload

ASSUME TransactionsAssumption ==
    /\ TxQueueBound \in Nat \ {0} /\ MaxFaults \in Nat /\ Budgets \subseteq Nat
    /\ Verdict \in Seq([Tx -> [valid : BOOLEAN, priority : Nat, gas : Nat]])
    /\ \A s \in Settings : s.versions \in DOMAIN Verdict /\ s.txs \in Nat

VARIABLES
    pool,        \* the mempool
    version,     \* the state of the application
    txQueue,     \* mempool_tx_rx
    txSeen,      \* mempool_seen_active and mempool_seen_backup
    gossiped,    \* entries the gossip task is about to add
    submitted,   \* entries submit_tx is about to add
    rechecks,    \* rechecks spawned and not begun
    rechecking,  \* the application's state when the running one began, or 0
    arrivals,    \* history: transactions received or submitted
    unread,      \* answers left on the connection, at most one
    faults,      \* history: calls that failed
    crossed,     \* history: an answer was taken for that of another call
    late         \* history: transactions added after a commit had outdated
                 \* their verdict

txVars == <<pool, version, txQueue, txSeen, gossiped, submitted, rechecks, rechecking,
            arrivals, unread, faults, crossed, late>>

-----------------------------------------------------------------------------
(***************************************************************************)
(* validate_tx.  Gossip, submit_tx and recheck share one connection with   *)
(* the engine.  An answer left on it is read by the next call as its own,  *)
(* whose answer then stays behind in turn, until a failure makes the       *)
(* client connect again.                                                   *)
(***************************************************************************)
Answer(t, v) == [tx |-> t, valid |-> Verdict[v][t].valid,
                 priority |-> Verdict[v][t].priority, gas |-> Verdict[v][t].gas, at |-> v]

Reject(t, v) == [Answer(t, v) EXCEPT !.valid = FALSE]

TxCall == {[answer |-> c.answer, unread |-> c.unread] : c \in CallOutcomes("validate_tx")}

(* A call for t when left is on the connection, at most one answer, and    *)
(* the application is in state v: the verdict taken for t, what is then    *)
(* left, whether the call failed, and whether the verdict is not of t.     *)
ValidateTx(left, t, v) ==
    {[of |-> t, said |-> IF o.answer = "given" THEN Answer(t, v) ELSE Reject(t, v),
      left |-> IF o.unread /\ o.answer # "given" THEN {Answer(t, v)} ELSE {},
      failed |-> IF o.answer = "given" /\ left = {} THEN 0 ELSE 1, crossed |-> FALSE] :
        o \in TxCall}
    \cup
    {[of |-> t, said |-> u, left |-> {Answer(t, v)}, failed |-> 0, crossed |-> TRUE] :
        u \in left}

Entry(r) == [tx |-> r.of, priority |-> r.said.priority, gas |-> r.said.gas,
             at |-> r.said.at]

(* One call; accepted are the entries to add afterwards, at most one.      *)
Judge(t, accepted) ==
    \E r \in ValidateTx(unread, t, version) :
        /\ faults + r.failed <= MaxFaults
        /\ faults' = faults + r.failed
        /\ unread' = r.left
        /\ crossed' = (crossed \/ r.crossed)
        /\ accepted = IF r.said.valid THEN {Entry(r)} ELSE {}

-----------------------------------------------------------------------------
(* The mempool protocol's NotificationReceived: only over an admitted      *)
(* stream, once, and remembered only when the queue had room.              *)
OnGossip(p, t) ==
    /\ arrivals < setting.txs
    /\ p \in wire.open["mempool"] /\ p \in streams["mempool"]
    /\ t \notin txSeen.active \cup txSeen.backup
    /\ Len(txQueue) < TxQueueBound
    /\ txQueue' = Append(txQueue, t)
    /\ txSeen' = Mark(txSeen, t)
    /\ arrivals' = arrivals + 1
    /\ UNCHANGED <<netVars, pool, version, gossiped, submitted, rechecks, rechecking,
                   faults, late, unread, crossed>>

(* The gossip task takes a transaction and has it judged.                  *)
JudgeGossip ==
    /\ txQueue # <<>> /\ gossiped = {}
    /\ Judge(Head(txQueue), gossiped')
    /\ txQueue' = Tail(txQueue)
    /\ UNCHANGED <<netVars, pool, version, txSeen, submitted, rechecks, rechecking,
                   arrivals, late>>

(* submit_tx: the same judgement for a client of the RPC server.           *)
SubmitTx(t) ==
    /\ arrivals < setting.txs /\ submitted = {}
    /\ Judge(t, submitted')
    /\ arrivals' = arrivals + 1
    /\ UNCHANGED <<netVars, pool, version, txQueue, txSeen, gossiped, rechecks, rechecking,
                   late>>

(* Both add what was judged valid, when the pool is free.                  *)
AddJudged(e) ==
    /\ rechecking = 0
    /\ pool' = AddTx(pool, e, setting.max_txs)
    /\ late' = IF pool' # pool
               THEN IF e.at < version THEN late \cup {e.tx} ELSE late \ {e.tx}
               ELSE late

AddGossiped ==
    /\ \E e \in gossiped : AddJudged(e)
    /\ gossiped' = {}
    /\ UNCHANGED <<netVars, version, txQueue, txSeen, submitted, rechecks, rechecking,
                   arrivals, faults, unread, crossed>>

(* submit_tx also hands what the pool accepted to broadcast_tx.            *)
AddSubmitted ==
    /\ \E e \in submitted : AddJudged(e)
    /\ submitted' = {}
    /\ UNCHANGED <<netVars, version, txQueue, txSeen, gossiped, rechecks, rechecking,
                   arrivals, faults, unread, crossed>>

(* Fault: the pool is not judged again after a commit.                     *)
OnCommit_NoRecheck ==
    /\ version < setting.versions /\ unread = {}
    /\ version' = version + 1
    /\ UNCHANGED <<netVars, pool, txQueue, txSeen, gossiped, submitted, rechecks,
                   rechecking, arrivals, faults, late, unread, crossed>>

(***************************************************************************)
(* The engine executes a block; on_commit spawns a recheck of the pool.    *)
(* With an answer left on the connection execute_block would take it for   *)
(* its own and fail, and the node go down.                                 *)
(***************************************************************************)
OnCommit ==
    /\ version < setting.versions /\ unread = {}
    /\ version' = version + 1
    /\ rechecks' = rechecks + 1
    /\ UNCHANGED <<netVars, pool, txQueue, txSeen, gossiped, submitted, rechecking,
                   arrivals, faults, late, unread, crossed>>

(* recheck takes the locks of the pool and holds them to the end ...       *)
BeginRecheck ==
    /\ rechecks > 0 /\ rechecking = 0
    /\ rechecks' = rechecks - 1
    /\ rechecking' = version
    /\ UNCHANGED <<netVars, pool, version, txQueue, txSeen, gossiped, submitted, arrivals,
                   faults, late, unread, crossed>>

(* ... while one entry after the other is judged, in the states that the   *)
(* application goes through until then.                                    *)
RecheckEntry(runs, e) ==
    UNION {UNION {{[said    |-> With(run.said, e.tx, r.said), v |-> v,
                    left    |-> r.left, failed |-> run.failed + r.failed,
                    crossed |-> run.crossed \/ r.crossed] :
                      r \in ValidateTx(run.left, e.tx, v)} :
                  v \in run.v..version} : run \in runs}

RecheckRuns ==
    FoldLeft(RecheckEntry,
             {[said |-> <<>>, v |-> rechecking, left |-> unread, failed |-> 0,
               crossed |-> FALSE]},
             Reverse(ByPriority(pool)))

EndRecheck ==
    /\ rechecking # 0
    /\ \E run \in RecheckRuns :
           /\ faults + run.failed <= MaxFaults
           /\ faults' = faults + run.failed
           /\ unread' = run.left
           /\ crossed' = (crossed \/ run.crossed)
           /\ pool' = Rechecked(pool, run.said)
    /\ rechecking' = 0
    /\ late' = {}
    /\ UNCHANGED <<netVars, version, txQueue, txSeen, gossiped, submitted, rechecks,
                   arrivals>>

(* The engine's validate_block finds the answer, and connects again.       *)
ValidateBlock ==
    /\ unread # {}
    /\ unread' = {}
    /\ UNCHANGED <<netVars, pool, version, txQueue, txSeen, gossiped, submitted, rechecks,
                   rechecking, arrivals, faults, late, crossed>>

-----------------------------------------------------------------------------
Init ==
    /\ NetInit
    /\ pool = EmptyPool /\ version = 1
    /\ txQueue = <<>> /\ txSeen = [active |-> {}, backup |-> {}]
    /\ gossiped = {} /\ submitted = {} /\ rechecks = 0 /\ rechecking = 0
    /\ arrivals = 0 /\ unread = {} /\ faults = 0 /\ crossed = FALSE /\ late = {}

NetNext ==
    /\ \/ \E p \in Peer :
              \/ Connect(p) \/ Disconnect(p)
              \/ ConnectionEstablished(p) \/ ConnectionClosed(p)
              \/ \E k \in Kinds : \/ ValidateSubstream(k, p)
                                  \/ StreamOpened(k, p) \/ StreamClosed(k, p)
              \/ OnSyncRequest(p)
              \/ \E m \in Message : OnNotification(p, m) \/ OnRequest(p, m)
       \/ \E m \in OwnMessage : Broadcast(m)
       \/ EngineReceive \/ SyncRespond \/ AnnounceEpoch \/ HandleEpochChange
    /\ UNCHANGED txVars

TxNext ==
    \/ \E t \in Tx : SubmitTx(t) \/ \E p \in Peer : OnGossip(p, t)
    \/ JudgeGossip \/ AddGossiped \/ AddSubmitted
    \/ OnCommit \/ BeginRecheck \/ EndRecheck \/ ValidateBlock

Next == NetNext \/ TxNext

vars == <<netVars, txVars>>

Spec == Init /\ [][Next]_vars

-----------------------------------------------------------------------------
(* The variables have their types, and the pool is what its readers take   *)
(* it for: one entry for a transaction, filed in the index under its       *)
(* priority, and no more than max_size of them.                            *)
TypeOK ==
    /\ setting \in Settings /\ wire.up \subseteq Peer /\ connected \subseteq Peer
    /\ streams \in [Kinds -> SUBSET Peer]
    /\ epoch \in DOMAIN Sets /\ notice \in 0..Len(Sets)
    /\ version \in DOMAIN Verdict /\ rechecking \in 0..version
    /\ Len(txQueue) <= TxQueueBound /\ Len(syncReqs) <= setting.sync_queue
    /\ Len(inbox) <= setting.inbox
    /\ \A n \in DOMAIN inbox : inbox[n].msg.kind = "status" => inbox[n].msg.by = inbox[n].from
    /\ Cardinality(unread) <= 1 /\ Cardinality(gossiped) <= 1 /\ Cardinality(submitted) <= 1
    /\ DOMAIN pool.seen = Pending(pool) /\ Cardinality(pool.entries) <= setting.max_txs
    /\ \A e \in pool.entries : pool.seen[e.tx] = e.priority
    /\ \A e, f \in pool.entries : e.tx = f.tx => e = f

(***************************************************************************)
(* As long as no answer was taken for that of another call, a transaction  *)
(* leaves the pool only because the application called it invalid in a     *)
(* state since the recheck began, because a call of the application        *)
(* failed, or to make room for one of strictly higher priority.            *)
(***************************************************************************)
TxLeavesForAReason ==
    [][~crossed' => \A e \in pool.entries : e.tx \notin {f.tx : f \in pool'.entries} =>
           \/ faults' > faults
           \/ /\ rechecking # 0
              /\ \E v \in rechecking..version : ~Verdict[v][e.tx].valid
           \/ /\ rechecking = 0
              /\ Cardinality(pool.entries) = setting.max_txs
              /\ \E f \in pool'.entries \ pool.entries : f.priority > e.priority]_vars

(***************************************************************************)
(* A verdict given before the last commit survives only until the recheck  *)
(* still to come, unless its transaction was added after the recheck: the  *)
(* judgement and the insertion are two steps; or an answer was taken for   *)
(* that of another call.                                                   *)
(***************************************************************************)
PoolIsCurrent ==
    ~crossed => \A e \in pool.entries :
        e.at < version => rechecks > 0 \/ rechecking # 0 \/ e.tx \in late

BytesOf(S) == SumFunctionOnSet([e \in S |-> SizeOf[e.tx]], S)

GasOf(S) == SumFunctionOnSet([e \in S |-> e.gas], S)

(* A budget of no gas is none.                                             *)
Within(S, b, g) == BytesOf(S) <= b /\ (g > 0 => GasOf(S) <= g)

(***************************************************************************)
(* A payload stays within its budgets, and leaves out a transaction that a *)
(* block can hold only when those of higher priority it has taken leave no *)
(* room for it, unless it has given up after MaxSkipped of them.           *)
(***************************************************************************)
PayloadIsGreedy ==
    \A b, g \in Budgets :
        LET c     == Collect(pool, b, g)
            taken == {e \in pool.entries : e.tx \in Range(c.txs)}
        IN  /\ Within(taken, b, g)
            /\ \A e \in pool.entries \ taken :
                   Within({e}, b, g) =>
                       \/ c.skipped >= MaxSkipped
                       \/ ~Within({e} \cup {f \in taken : Below(e, f)}, b, g)

=============================================================================
