------------------------------ MODULE Mempool -------------------------------
(***************************************************************************)
(* The pool of pending transactions (hotmint-mempool/lib.rs), as a record: *)
(*                                                                         *)
(*    entries  the ordered set of entries                                  *)
(*    seen     the priority under which each pending transaction is filed  *)
(*                                                                         *)
(* A transaction is named by its hash.  The field at of an entry is        *)
(* history: the application state that judged it.                          *)
(***************************************************************************)
EXTENDS Naturals, SequencesExt

CONSTANTS
    Tx,           \* transactions
    HashOrder,    \* the place of a transaction's hash in the order of hashes
    SizeOf,       \* the length of its frame in a payload, in bytes
    MaxTxBytes,   \* config.mempool.max_tx_bytes, for frames
    MaxSkipped    \* MAX_SKIPPED of collect_payload_with_gas

ASSUME MempoolAssumption ==
    /\ HashOrder \in [Tx -> Nat] /\ SizeOf \in [Tx -> Nat]
    /\ \A t, u \in Tx : HashOrder[t] = HashOrder[u] => t = u
    /\ MaxTxBytes \in Nat /\ MaxSkipped \in Nat \ {0}

EmptyPool == [entries |-> {}, seen |-> <<>>]

Pending(pool) == {e.tx : e \in pool.entries}

(* The order of the set: by priority, then by hash.                        *)
Below(e, f) ==
    \/ e.priority < f.priority
    \/ e.priority = f.priority /\ HashOrder[e.tx] < HashOrder[f.tx]

Lowest(pool) == CHOOSE e \in pool.entries : \A f \in pool.entries \ {e} : Below(e, f)

(* File entry e in the place of the entries in old.                        *)
Exchange(pool, old, e) ==
    LET stay == {t \in DOMAIN pool.seen : \A o \in old : o.tx # t} \cup {e.tx}
    IN  [entries |-> (pool.entries \ old) \cup {e},
         seen    |-> [t \in stay |-> IF t = e.tx THEN e.priority ELSE pool.seen[t]]]

(* Fault: the evicted transaction is not taken out of seen.                *)
AddTx_KeepsSeen(pool, e, max_size) ==
    IF max_size = 0 \/ SizeOf[e.tx] > MaxTxBytes THEN pool
    ELSE IF e.tx \in DOMAIN pool.seen
         THEN IF e.priority <= pool.seen[e.tx] THEN pool
              ELSE Exchange(pool, {o \in pool.entries :
                                      o.tx = e.tx /\ o.priority = pool.seen[e.tx]}, e)
    ELSE IF Cardinality(pool.entries) < max_size THEN Exchange(pool, {}, e)
    ELSE IF e.priority <= Lowest(pool).priority THEN pool
    ELSE [Exchange(pool, {}, e) EXCEPT !.entries = @ \ {Lowest(pool)}]

(* Fault: at capacity, a transaction of equal priority displaces another.  *)
AddTx_EqualEvicts(pool, e, max_size) ==
    IF max_size = 0 \/ SizeOf[e.tx] > MaxTxBytes THEN pool
    ELSE IF e.tx \in DOMAIN pool.seen
         THEN IF e.priority <= pool.seen[e.tx] THEN pool
              ELSE Exchange(pool, {o \in pool.entries :
                                      o.tx = e.tx /\ o.priority = pool.seen[e.tx]}, e)
    ELSE IF Cardinality(pool.entries) < max_size THEN Exchange(pool, {}, e)
    ELSE IF e.priority < Lowest(pool).priority THEN pool
    ELSE Exchange(pool, {Lowest(pool)}, e)

(***************************************************************************)
(* add_tx_with_gas: a pending transaction is replaced by a copy of higher  *)
(* priority; at capacity the lowest entry makes room for a higher one.     *)
(* The transaction is accepted if and only if the pool changes.            *)
(***************************************************************************)
AddTx(pool, e, max_size) ==
    IF max_size = 0 \/ SizeOf[e.tx] > MaxTxBytes THEN pool
    ELSE IF e.tx \in DOMAIN pool.seen
         THEN IF e.priority <= pool.seen[e.tx] THEN pool
              ELSE Exchange(pool, {o \in pool.entries :
                                      o.tx = e.tx /\ o.priority = pool.seen[e.tx]}, e)
    ELSE IF Cardinality(pool.entries) < max_size THEN Exchange(pool, {}, e)
    ELSE IF e.priority <= Lowest(pool).priority THEN pool
    ELSE Exchange(pool, {Lowest(pool)}, e)

(* recheck: the entries are filed again as the application judges them;    *)
(* said[t] is its verdict on t.                                            *)
Rechecked(pool, said) ==
    LET keep == {t \in Pending(pool) : said[t].valid}
        new(t) == [tx |-> t, priority |-> said[t].priority, gas |-> said[t].gas,
                   at |-> said[t].at]
    IN  [entries |-> {new(t) : t \in keep},
         seen    |-> [t \in keep |-> said[t].priority]]

-----------------------------------------------------------------------------
(* Payloads.                                                               *)

(* The place of an entry among others, the highest first.                  *)
Place(e, entries) == Cardinality({f \in entries : Below(e, f)}) + 1

ByPriority(pool) ==
    [n \in 1..Cardinality(pool.entries) |->
        CHOOSE e \in pool.entries : Place(e, pool.entries) = n]

Fits(c, e, max_bytes, max_gas) ==
    /\ c.bytes + SizeOf[e.tx] <= max_bytes
    /\ max_gas > 0 => c.gas + e.gas <= max_gas

(* Fault: the scan stops at the first transaction that does not fit.       *)
Scan_Stops(c, e, max_bytes, max_gas) ==
    IF c.skipped > 0 THEN c
    ELSE IF Fits(c, e, max_bytes, max_gas)
    THEN [c EXCEPT !.txs = Append(@, e.tx), !.bytes = @ + SizeOf[e.tx],
                   !.gas = IF max_gas > 0 THEN @ + e.gas ELSE @]
    ELSE [c EXCEPT !.skipped = @ + 1]

(***************************************************************************)
(* One transaction of the scan: one that no block can hold is passed over, *)
(* one that does not fit any more is skipped, and the scan ends when       *)
(* MaxSkipped have been.                                                   *)
(***************************************************************************)
Scan(c, e, max_bytes, max_gas) ==
    IF \/ c.skipped >= MaxSkipped
       \/ SizeOf[e.tx] > max_bytes
       \/ max_gas > 0 /\ e.gas > max_gas
    THEN c
    ELSE IF Fits(c, e, max_bytes, max_gas)
    THEN [c EXCEPT !.txs = Append(@, e.tx), !.bytes = @ + SizeOf[e.tx],
                   !.gas = IF max_gas > 0 THEN @ + e.gas ELSE @]
    ELSE [c EXCEPT !.skipped = @ + 1]

Collect(pool, max_bytes, max_gas) ==
    FoldLeft(LAMBDA c, e : Scan(c, e, max_bytes, max_gas),
             [txs |-> <<>>, bytes |-> 0, gas |-> 0, skipped |-> 0],
             ByPriority(pool))

=============================================================================
