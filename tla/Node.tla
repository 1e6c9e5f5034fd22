-------------------------------- MODULE Node --------------------------------
(***************************************************************************)
(* One node around the consensus protocol: its block store, write-ahead    *)
(* log, durable checkpoint and application, as the engine commits blocks,  *)
(* as startup sync replays them, as the reconnect watcher fetches them     *)
(* beside the engine, and as the process crashes and restarts.             *)
(*                                                                         *)
(* Consensus is the environment.  It certifies the blocks of a constant    *)
(* tree and gives double certificates to the blocks of one branch only,    *)
(* the one that ends in FinalTip (HotStuff2 is about that); certificates   *)
(* of other branches exist, proposals on any branch arrive, and a peer may *)
(* serve any of them.                                                      *)
(***************************************************************************)
EXTENDS Epochs, CommitWal, Ipc

CONSTANTS
    FinalTip,      \* the last block of the branch that consensus commits
    CertEpoch,     \* QuorumCertificate.epoch of the certificate of a block
    MaxView,       \* bound: the node enters no later view
    MaxRefusals,   \* bound: commits refused after an execution
    MaxCrashes     \* bound: crashes in a behaviour

ASSUME NodeAssumption ==
    /\ FinalTip \in Block
    /\ CertEpoch \in [Block -> Nat]
    /\ MaxView \in Nat /\ MaxRefusals \in Nat /\ MaxCrashes \in Nat

VARIABLES
    phase,      \* "sync": startup sync; "running": the engine; "down"; "halted"
    view,       \* state.current_view
    committed,  \* state.last_committed_height
    epochs,     \* state.current_epoch, previous_epoch and pending_epoch
    job,        \* what the node is in the middle of
    status,     \* the height and the epoch last published by on_commit
    watch,      \* the reconnect watcher
    store,      \* the block store as the process sees it
    disk,       \* the block store as it was when vsdb was last flushed
    saved,      \* PersistentConsensusState
    wal,        \* the write-ahead log file
    app,        \* the application: the blocks it has executed, and under what
    crashes,
    early,      \* a view activated an epoch that the chain was to replace
    torn,       \* a crash cut a checkpoint in two
    strayed,    \* a certified block off the committed branch came from a peer
    refusals    \* commits that failed on updates after an execution

memory == <<view, committed, epochs>>
history == <<crashes, early, torn, strayed, refusals>>
vars == <<phase, view, committed, epochs, job, status, watch, store, disk,
          saved, wal, app, crashes, early, torn, strayed, refusals>>

Chain == AncestorAt[FinalTip]
FinalHeight == HeightOf[FinalTip]
Branch == {Chain[h] : h \in 0..FinalHeight}

(***************************************************************************)
(* What the protocol guarantees of the branch it commits.  A certified     *)
(* block is of a later view than the certificate it extends: a quorum      *)
(* voted for that one before, and no replica goes back (proved within an   *)
(* epoch, CertifiedViewsGrow of HotStuff2Proofs; assumed from one epoch to *)
(* the next).  A vote names the current epoch of the voter, and an epoch   *)
(* is current from its first view on: no certificate of an earlier view    *)
(* names it.                                                               *)
(***************************************************************************)
ASSUME BranchAssumption ==
    \A h \in 1..FinalHeight :
        /\ ViewOf[Chain[h - 1]] < ViewOf[Chain[h]]
        /\ LET next == ChainEpochs(FinalTip)[h - 1].pend
           IN  next # NoEpoch /\ ViewOf[Chain[h]] < next.start =>
                   CertEpoch[Chain[h]] # next.number

Idle == [kind |-> "idle", stage |-> "none", tip |-> Genesis,
         from |-> 0, e |-> GenesisEpochs, act |-> FALSE]

WatchOff == [stage |-> "off", height |-> 0, epoch |-> 0]

(* What on_commit, and the start of the engine, tell the other tasks.      *)
Published(h, e) == [height |-> h, epoch |-> e.number]

Blank == [view |-> 1, height |-> 0, e |-> GenesisEpochs]

Init == /\ phase = "sync"
        /\ view = 1 /\ committed = 0 /\ epochs = GenesisEpochs
        /\ job = Idle /\ watch = WatchOff /\ status = Published(0, GenesisEpoch)
        /\ store = Opened(EmptyStore) /\ disk = store
        /\ saved = Blank /\ wal = <<>> /\ app = <<>>
        /\ crashes = 0 /\ refusals = 0
        /\ early = FALSE /\ torn = FALSE /\ strayed = FALSE

Free == phase = "running" /\ job = Idle

(* The engine holds the store's lock while a batch is executed.            *)
StoreIsFree == ~(job.kind = "live" /\ job.stage = "execute")

-----------------------------------------------------------------------------
(* Proposals and views.                                                    *)

(* The blocks a proposal carries along, those above the committed height.  *)
WithAncestors(s, b) ==
    LET add[h \in Heights] ==
            IF h <= committed \/ h >= HeightOf[b]
            THEN IF h = 0 THEN s ELSE add[h - 1]
            ELSE IF AncestorAt[b][h] \in s.blocks THEN add[h - 1]
                 ELSE PutBlock(add[h - 1], AncestorAt[b][h])
    IN  add[MaxHeight]

(***************************************************************************)
(* R-28: the certificate that justifies a proposal is kept as the commit   *)
(* certificate of the block it certifies, if there is none for its height. *)
(***************************************************************************)
KeepJustify(s, b) ==
    LET j == Parent[b]
    IN  IF j # Genesis /\ j \in s.blocks /\ s.qcs[HeightOf[j]] = None
        THEN PutCommitQC(s, HeightOf[j], j)
        ELSE s

(* A proposal of a past view is stored if its height is still open.        *)
PastProposal(b, anc) ==
    /\ Free /\ ViewOf[b] < view
    /\ LET s == IF anc THEN WithAncestors(store, b) ELSE store
       IN  store' = IF HeightOf[b] > committed THEN PutBlock(s, b) ELSE s
    /\ UNCHANGED <<phase, memory, job, status, watch, disk, saved, wal, app, history>>

(* A proposal of the current view; on_proposal may refuse to store it, and *)
(* does so if the parent is unknown.                                       *)
CurrentProposal(b, anc, accepted) ==
    /\ Free /\ ViewOf[b] = view
    /\ LET s == KeepJustify(IF anc THEN WithAncestors(store, b) ELSE store, b)
       IN  store' = IF accepted /\ Parent[b] \in s.blocks THEN PutBlock(s, b)
                    ELSE s
    /\ UNCHANGED <<phase, memory, job, status, watch, disk, saved, wal, app, history>>

(* Does the branch still hold updates of a view before the epoch's first,  *)
(* which would have replaced the epoch before it could start?              *)
Premature(e) ==
    \E h \in (committed + 1)..FinalHeight :
        Chain[h] \in Updates /\ ViewOf[Chain[h]] < e.start

(* advance_view_to; the new state is then persisted.                       *)
AdvanceViewTo(v) ==
    /\ Free /\ v > view /\ v <= MaxView
    /\ view' = v
    /\ epochs' = EnterView(epochs, v)
    /\ early' = (early \/ (Activates(epochs.pend, v) /\ Premature(epochs.pend)))
    /\ job' = [Idle EXCEPT !.kind = "view", !.stage = "persist"]
    /\ UNCHANGED <<phase, committed, status, watch, store, disk, saved, wal, app,
                   crashes, torn, strayed, refusals>>

-----------------------------------------------------------------------------
(* A live commit: apply_commit, or the fast-forward of a proposal.         *)

(* A double certificate for a stored block: the intent is logged first.    *)
ApplyCommit(tip) ==
    /\ Free /\ tip \in {Chain[h] : h \in 1..FinalHeight} /\ tip \in store.blocks
    /\ job' = [Idle EXCEPT !.kind = "live", !.stage = "intent", !.tip = tip]
    /\ UNCHANGED <<phase, memory, status, watch, store, disk, saved, wal, app, history>>

LogIntent ==
    /\ job.stage = "intent"
    /\ wal' = LogCommitIntent(wal, HeightOf[job.tip])
    /\ job' = [job EXCEPT !.stage = IF job.kind = "live" THEN "walk" ELSE "execute"]
    /\ UNCHANGED <<phase, memory, status, watch, store, disk, saved, app, history>>

(***************************************************************************)
(* try_commit validates the whole branch before it executes any of it:     *)
(* every parent down to the committed height is stored, and the one at     *)
(* that height is the block the index holds for it.                        *)
(***************************************************************************)
BranchIsWhole(tip) ==
    /\ HeightOf[tip] > committed
    /\ \A h \in committed..HeightOf[tip] : AncestorAt[tip][h] \in store.blocks
    /\ GetBlockByHeight(store, committed) = AncestorAt[tip][committed]

(* Otherwise nothing is committed and the intent is closed.                *)
TryCommit ==
    /\ job.kind = "live" /\ job.stage = "walk"
    /\ job' = IF BranchIsWhole(job.tip)
              THEN [job EXCEPT !.stage = "execute", !.from = committed, !.e = epochs]
              ELSE [job EXCEPT !.stage = "done"]
    /\ UNCHANGED <<phase, memory, status, watch, store, disk, saved, wal, app, history>>

Execution(b, e, times) ==
    app \o [i \in 1..times |-> [block |-> b, epoch |-> e.number]]

(* The next block of the batch, executed and announced by on_commit.       *)
ExecuteNext(b, e) ==
    /\ job.kind = "live" /\ job.stage = "execute" /\ committed < HeightOf[job.tip]
    /\ \E o \in CallOutcomes("execute_block") :
         /\ o.answer = "given"
         /\ app' = Execution(b, ContextEpoch(e, b), o.applied)
    /\ status' = Published(HeightOf[b], ContextEpoch(e, b))

(***************************************************************************)
(* One iteration of try_commit's loop.  The epochs of the batch are local  *)
(* until adopt_commit_epoch; last_committed_height is not.                 *)
(***************************************************************************)
ExecuteLive ==
    /\ LET b == AncestorAt[job.tip][committed + 1]
           e == ActivateAt(job.e, b)
       IN  /\ ExecuteNext(b, e)
           /\ job' = [job EXCEPT !.e = AfterExecution(e, b), !.act = @ \/ e # job.e]
    /\ committed' = committed + 1
    /\ UNCHANGED <<phase, view, epochs, watch, store, disk, saved, wal, history>>

(***************************************************************************)
(* The updates a block returned do not apply to the set: try_commit fails  *)
(* after the block is executed and announced.  apply_commit warns, closes  *)
(* the intent and goes on: the height stays below this block, the blocks   *)
(* of the batch before it stay committed, with no results, no certificate  *)
(* and the epochs from before the batch.                                   *)
(***************************************************************************)
RefuseLive ==
    /\ refusals < MaxRefusals
    /\ LET b == AncestorAt[job.tip][committed + 1]
       IN  ExecuteNext(b, ActivateAt(job.e, b)) /\ b \in Updates
    /\ job' = [job EXCEPT !.stage = "done"]
    /\ refusals' = refusals + 1
    /\ UNCHANGED <<phase, memory, watch, store, disk, saved, wal,
                   crashes, early, torn, strayed>>

(* The certificate of the tip and the results of the whole batch.          *)
WithResults(s) ==
    [PutCommitQC(s, HeightOf[job.tip], job.tip) EXCEPT
        !.results = [h \in Heights |->
            IF h \in (job.from + 1)..committed THEN "real" ELSE @[h]]]

(* Fault: the store is not flushed before the checkpoint is written.       *)
ProcessCommitResult_NoFlush ==
    /\ job.kind = "live" /\ job.stage = "execute" /\ committed = HeightOf[job.tip]
    /\ epochs' = [cur  |-> job.e.cur,
                  prev |-> IF job.act THEN epochs.cur ELSE epochs.prev,
                  pend |-> job.e.pend]
    /\ store' = WithResults(store)
    /\ job' = [job EXCEPT !.stage = "persist"]
    /\ UNCHANGED <<phase, view, committed, status, watch, disk, saved, wal, app, history>>

(* adopt_commit_epoch, then the first part of process_commit_result.       *)
ProcessCommitResult ==
    /\ job.kind = "live" /\ job.stage = "execute" /\ committed = HeightOf[job.tip]
    /\ epochs' = [cur  |-> job.e.cur,
                  prev |-> IF job.act THEN epochs.cur ELSE epochs.prev,
                  pend |-> job.e.pend]
    /\ store' = WithResults(store)
    /\ disk' = store'
    /\ job' = [job EXCEPT !.stage = "persist"]
    /\ UNCHANGED <<phase, view, committed, status, watch, saved, wal, app, history>>

-----------------------------------------------------------------------------
(* The checkpoint and the end of a commit.                                 *)

(* The values are written one after the other; the first k of them.        *)
SavedUpTo(k) ==
    [view   |-> IF k >= 1 THEN view ELSE saved.view,
     height |-> IF k >= 2 THEN committed ELSE saved.height,
     e      |-> [cur  |-> IF k >= 3 THEN epochs.cur ELSE saved.e.cur,
                 prev |-> IF k >= 4 THEN epochs.prev ELSE saved.e.prev,
                 pend |-> IF k >= 5 THEN epochs.pend ELSE saved.e.pend]]

Fields == 5

(* persist_state and persist_sync_checkpoint; vsdb_flush covers the store. *)
PersistState ==
    /\ job.stage = "persist"
    /\ saved' = SavedUpTo(Fields) /\ disk' = store
    /\ job' = IF job.kind = "view" THEN Idle ELSE [job EXCEPT !.stage = "done"]
    /\ UNCHANGED <<phase, memory, status, watch, store, wal, app, history>>

(* log_commit_done and finish_wal_intent: a record, then the truncation.   *)
LogCommitDone ==
    /\ job.stage = "done"
    /\ wal' = LogDone(wal, HeightOf[job.tip])
    /\ job' = [job EXCEPT !.stage = "truncate"]
    /\ UNCHANGED <<phase, memory, status, watch, store, disk, saved, app, history>>

TruncateWal ==
    /\ job.stage = "truncate"
    /\ wal' = Truncate(wal)
    /\ job' = Idle
    /\ UNCHANGED <<phase, memory, status, watch, store, disk, saved, app, history>>

-----------------------------------------------------------------------------
(* Startup sync: replay_blocks, one block at a time.                       *)

(* The certificate of b, for a node that replays it in the given epoch.    *)
VerifyVoteQC(b, epoch) == CertEpoch[b] = epoch

(* The epoch under which the next block is verified and executed.          *)
ReplayEpochs(b) == ActivateAt(epochs, b)

(* A peer's answer for the height after h: any block with a certificate of *)
(* the epoch that extends the block the index holds for h.                 *)
Offered(h, b, epoch) ==
    /\ HeightOf[b] = h + 1
    /\ GetBlockByHeight(store, h) = Parent[b]
    /\ VerifyVoteQC(b, epoch)

(***************************************************************************)
(* replay_blocks asks for a first-phase certificate, not for a double one: *)
(* the block it stores and pins need not be committed.  The block and its  *)
(* certificate are durable before the intent.                              *)
(***************************************************************************)
SyncStore(b) ==
    /\ phase = "sync" /\ job = Idle
    /\ Offered(committed, b, ReplayEpochs(b).cur.number)
    /\ store' = PutCommitQC(PutBlock(store, b), HeightOf[b], b)
    /\ disk' = store'
    /\ job' = [Idle EXCEPT !.kind = "sync", !.stage = "intent", !.tip = b]
    /\ strayed' = (strayed \/ b \notin Branch)
    /\ UNCHANGED <<phase, memory, status, watch, saved, wal, app,
                   crashes, early, torn, refusals>>

(* An error of replay_blocks leaves the intent open: the node checks its   *)
(* log as at a start, and refuses to continue.                             *)
SyncFails ==
    /\ job.kind = "sync" /\ job.stage = "execute"
    /\ phase' = IF NeedsReplay(wal, committed) THEN "halted" ELSE "sync"
    /\ wal' = Recovered(wal, committed)
    /\ job' = Idle
    /\ UNCHANGED <<view, committed, status, watch, store, disk, saved, history>>

(* The application turns the block down, or cannot be asked.               *)
SyncRejected ==
    /\ SyncFails
    /\ \E o \in CallOutcomes("validate_block") : o.answer = "no"
    /\ UNCHANGED <<epochs, app>>

(* It has executed the block, and the updates it returned do not apply.    *)
RefuseSync ==
    /\ SyncFails /\ job.tip \in Updates
    /\ \E o \in CallOutcomes("execute_block") :
         /\ o.answer = "given"
         /\ app' = Execution(job.tip, ReplayEpochs(job.tip).cur, o.applied)
    /\ epochs' = [ReplayEpochs(job.tip) EXCEPT !.pend = epochs.pend]

(* Results are written only if there are none; then the store is flushed.  *)
SyncExecute ==
    /\ job.kind = "sync" /\ job.stage = "execute"
    /\ \E o \in CallOutcomes("execute_block") :
         /\ o.answer = "given"
         /\ app' = Execution(job.tip, ReplayEpochs(job.tip).cur, o.applied)
    /\ epochs' = AfterExecution(ReplayEpochs(job.tip), job.tip)
    /\ committed' = HeightOf[job.tip]
    /\ store' = IF store.results[HeightOf[job.tip]] = "none"
                THEN PutBlockResults(store, HeightOf[job.tip], "real") ELSE store
    /\ disk' = store'
    /\ job' = [job EXCEPT !.stage = "persist"]
    /\ UNCHANGED <<phase, view, status, watch, saved, wal, history>>

(* Sync ends, caught up or not; the engine starts past the last block.     *)
StartEngine ==
    /\ phase = "sync" /\ job = Idle
    /\ phase' = "running"
    /\ view' = LET b == GetBlockByHeight(store, committed)
                   v == 1 + IF b = None THEN committed ELSE ViewOf[b]
               IN  IF committed > 0 /\ v > view THEN v ELSE view
    /\ saved' = [view |-> view', height |-> committed, e |-> epochs]
    /\ disk' = store
    /\ status' = Published(committed, epochs.cur)
    /\ UNCHANGED <<committed, epochs, job, watch, store, wal, app, history>>

-----------------------------------------------------------------------------
(* The reconnect watcher: sync_to_tip beside the engine, with the          *)
(* NoopApplication, no checkpoint, no log and no pending epoch, from the   *)
(* height and the epoch that the last on_commit published.                 *)

WatchStart ==
    /\ phase = "running" /\ watch = WatchOff
    /\ watch' = [stage |-> "store", height |-> status.height, epoch |-> status.epoch]
    /\ UNCHANGED <<phase, memory, job, status, store, disk, saved, wal, app, history>>

(* The certificate moves the pin and the index of its height.              *)
WatchStore(b) ==
    /\ watch.stage = "store" /\ StoreIsFree
    /\ Offered(watch.height, b, watch.epoch)
    /\ store' = PutCommitQC(PutBlock(store, b), HeightOf[b], b)
    /\ disk' = store'
    /\ watch' = [watch EXCEPT !.stage = "results"]
    /\ strayed' = (strayed \/ b \notin Branch)
    /\ UNCHANGED <<phase, memory, job, status, saved, wal, app,
                   crashes, early, torn, refusals>>

(* The look at the results and the write take the store's lock separately. *)
WatchLook ==
    /\ watch.stage = "results"
    /\ watch' = IF store.results[watch.height + 1] = "none"
                THEN [watch EXCEPT !.stage = "write"]
                ELSE [watch EXCEPT !.stage = "store", !.height = @ + 1]
    /\ UNCHANGED <<phase, memory, job, status, store, disk, saved, wal, app, history>>

WatchWrite ==
    /\ watch.stage = "write" /\ StoreIsFree
    /\ store' = PutBlockResults(store, watch.height + 1, "default")
    /\ disk' = store'
    /\ watch' = [watch EXCEPT !.stage = "store", !.height = @ + 1]
    /\ UNCHANGED <<phase, memory, job, status, saved, wal, app, history>>

WatchEnd ==
    /\ watch.stage = "store"
    /\ watch' = WatchOff
    /\ UNCHANGED <<phase, memory, job, status, store, disk, saved, wal, app, history>>

-----------------------------------------------------------------------------
(* Crashes and restarts.                                                   *)

(* The process is gone; what was not flushed may be lost.                  *)
Gone ==
    /\ phase \in {"sync", "running"} /\ crashes < MaxCrashes
    /\ phase' = "down" /\ crashes' = crashes + 1
    /\ view' = 1 /\ committed' = 0 /\ epochs' = GenesisEpochs
    /\ job' = Idle /\ watch' = WatchOff /\ status' = Published(0, GenesisEpoch)
    /\ store' \in {store, disk} /\ disk' = store'
    /\ UNCHANGED <<strayed, refusals>>

(* The process is killed, told to stop, or ends because one of the tasks   *)
(* it supervises did, at any moment.                                       *)
Crash ==
    /\ Gone
    /\ UNCHANGED <<saved, wal, app, early, torn>>

(* In the middle of a write to the log.                                    *)
CrashInWal ==
    /\ job.stage \in {"intent", "done"} /\ Gone
    /\ wal' = Append(wal, Torn)
    /\ UNCHANGED <<saved, app, early, torn>>

SameCheckpoint(a, b) == a.height = b.height /\ a.e = b.e

(* Between two writes of a checkpoint.                                     *)
CrashInPersist ==
    /\ job.stage = "persist" /\ Gone
    /\ \E k \in 1..(Fields - 1) :
         /\ saved' = SavedUpTo(k)
         /\ torn' = (torn \/ ~(\/ SameCheckpoint(SavedUpTo(k), saved)
                               \/ SameCheckpoint(SavedUpTo(k), SavedUpTo(Fields))))
    /\ UNCHANGED <<wal, app, early>>

(* A call of the commit path fails: execute_committed_block panics, and    *)
(* the application may or may not have executed the block.                 *)
Panic ==
    /\ job.stage = "execute" /\ Gone
    /\ job.kind = "live" => committed < HeightOf[job.tip]
    /\ LET b == AncestorAt[job.tip][committed + 1]
           e == IF job.kind = "live" THEN ContextEpoch(ActivateAt(job.e, b), b)
                ELSE ReplayEpochs(b).cur
       IN  \E o \in CallOutcomes("execute_block") :
             o.answer = "error" /\ app' = Execution(b, e, o.applied)
    /\ UNCHANGED <<saved, wal, early, torn>>

(* The node refuses to start on an intent its checkpoint does not cover.   *)
Restart ==
    /\ phase = "down"
    /\ phase' = IF NeedsReplay(wal, saved.height) THEN "halted" ELSE "sync"
    /\ wal' = Recovered(wal, saved.height)
    /\ view' = saved.view /\ committed' = saved.height /\ epochs' = saved.e
    /\ store' = Opened(store) /\ disk' = store'
    /\ UNCHANGED <<job, status, watch, saved, app, history>>

-----------------------------------------------------------------------------
Next ==
    \/ \E b \in Block \ {Genesis}, anc \in BOOLEAN : PastProposal(b, anc)
    \/ \E b \in Block \ {Genesis}, anc, acc \in BOOLEAN : CurrentProposal(b, anc, acc)
    \/ \E v \in 1..MaxView : AdvanceViewTo(v)
    \/ \E b \in Block \ {Genesis} : ApplyCommit(b)
    \/ LogIntent \/ TryCommit \/ ExecuteLive \/ RefuseLive \/ ProcessCommitResult
    \/ PersistState \/ LogCommitDone \/ TruncateWal
    \/ \E b \in Block \ {Genesis} : SyncStore(b)
    \/ SyncRejected \/ RefuseSync \/ SyncExecute \/ StartEngine
    \/ \E b \in Block \ {Genesis} : WatchStore(b)
    \/ WatchStart \/ WatchLook \/ WatchWrite \/ WatchEnd
    \/ Crash \/ CrashInWal \/ CrashInPersist \/ Panic \/ Restart

Spec == Init /\ [][Next]_vars

-----------------------------------------------------------------------------
(* What the node tells others: the sync responder, and the verify_header   *)
(* request of the RPC server.                                              *)

(* GetBlocks: the block of a height with the certificate kept for it.      *)
Served(h) == [block |-> GetBlockByHeight(store, h), qc |-> store.qcs[h]]

(* LightClient::verify_header from a trusted block: the next height, the   *)
(* right parent, and a certificate of the trusted validators.              *)
LightVerify(trusted, h, epoch, b) ==
    /\ HeightOf[b] = h + 1 /\ Parent[b] = trusted
    /\ CertEpoch[b] = epoch

(* Fault: the light client is not anchored at the committed block.         *)
VerifyHeader_NoAnchor(b) ==
    IF HeightOf[b] <= status.height THEN store.qcs[HeightOf[b]] = b
    ELSE LightVerify(Parent[b], HeightOf[b] - 1, status.epoch, b)

(* A published height is compared with the stored certificate, the next    *)
(* one is left to the light client.                                        *)
VerifyHeader(b) ==
    IF HeightOf[b] <= status.height THEN store.qcs[HeightOf[b]] = b
    ELSE LightVerify(GetBlockByHeight(store, status.height), status.height,
                     status.epoch, b)

-----------------------------------------------------------------------------
(* Properties.                                                             *)

(* Every variable has its type, and the index by height never dangles: it  *)
(* leads to a stored block of that height (put_block, put_commit_qc).      *)
TypeOK ==
    /\ phase \in {"sync", "running", "down", "halted"}
    /\ view \in Nat /\ committed \in Heights
    /\ store \in Stores /\ disk \in Stores
    /\ \A h \in Heights : store.index[h] # None =>
          store.index[h] \in store.blocks /\ HeightOf[store.index[h]] = h
    /\ job.kind \in {"idle", "live", "view", "sync"}
    /\ job.tip \in Block
    /\ saved.height \in Heights
    /\ crashes \in 0..MaxCrashes /\ refusals \in 0..MaxRefusals
    /\ {early, torn, strayed} \subseteq BOOLEAN

(***************************************************************************)
(* The two things after which the code promises less, and the properties   *)
(* below say nothing: a peer served a certified block that was not         *)
(* committed, which replay_blocks cannot tell from a committed one; and a  *)
(* commit failed on its updates after it was executed, which apply_commit  *)
(* only warns of.                                                          *)
(***************************************************************************)
Undisturbed == ~strayed /\ refusals = 0

(* The application has executed the committed branch, each block once and  *)
(* in order.                                                               *)
ExecutedIsCommitted ==
    /\ Len(app) <= FinalHeight
    /\ \A i \in 1..Len(app) : app[i].block = Chain[i]

(***************************************************************************)
(* The application executes the committed branch, each block once and in   *)
(* order, through every sequence of live commits, replays, lost answers,   *)
(* crashes and restarts in which peers serve committed blocks and updates  *)
(* apply: execute_committed_block is never reached for a block the         *)
(* application has seen.                                                   *)
(***************************************************************************)
AppFollowsChain == Undisturbed => ExecutedIsCommitted

(***************************************************************************)
(* A node that is up and not inside a commit has a checkpoint of exactly   *)
(* what its application has executed: the log and the refusal to start     *)
(* leave no state in which the two can drift apart, as long as no commit   *)
(* was refused after its execution and no peer strayed.                    *)
(***************************************************************************)
CheckpointMatchesApp ==
    Undisturbed /\ phase \in {"sync", "running"} /\ job.kind \in {"idle", "view"} =>
        Len(app) = committed /\ saved.height = committed

(***************************************************************************)
(* The index leads from the committed height to the committed block        *)
(* whenever a commit or a replay is about to read it, whatever proposals,  *)
(* certificates inside proposals and watcher writes of committed blocks    *)
(* came between: the conflict check of try_commit never turns the          *)
(* committed branch away.  Only a certified sibling from a peer moves it.  *)
(***************************************************************************)
TipIsCommitted ==
    Undisturbed /\ phase \in {"sync", "running"} /\ job.stage # "execute" =>
        GetBlockByHeight(store, committed) = Chain[committed]

(***************************************************************************)
(* What is durable is never behind the checkpoint: after any crash, and    *)
(* with everything lost that was not flushed, the blocks of every height   *)
(* up to the checkpointed one are there, each with results, the            *)
(* application's or the defaults of a watcher that came first.  A commit   *)
(* refused after its execution leaves heights without results behind.      *)
(***************************************************************************)
StoreCoversCheckpoint ==
    Undisturbed =>
        \A h \in 1..saved.height :
            /\ Chain[h] \in store.blocks \cap disk.blocks
            /\ disk.results[h] # "none"

(***************************************************************************)
(* What a running node says about its published height is the chain's,     *)
(* except while a batch is being executed, before its last block is pinned *)
(* (put_commit_qc): verify_header confirms at that height the committed    *)
(* block only, above it only its children, and a syncing peer is served    *)
(* the committed block with its certificate.  At lower heights the store   *)
(* may keep a certified sibling, and nothing is claimed.                   *)
(***************************************************************************)
HeadersExtendChain ==
    Undisturbed /\ phase = "running" /\ job.stage # "execute" =>
        /\ status.height = committed
        /\ committed > 0 =>
              Served(committed) = [block |-> Chain[committed], qc |-> Chain[committed]]
        /\ \A b \in Block \ {Genesis} : VerifyHeader(b) =>
            /\ HeightOf[b] = committed => b = Chain[committed]
            /\ HeightOf[b] > committed => Parent[b] = Chain[committed]

(* The epoch of every execution is the one the chain determines.           *)
EpochsAgree ==
    \A i \in 1..Len(app) : app[i].epoch = ChainContext(FinalTip)[i].number

(* So are the epochs of a node between two commits, up to the activation   *)
(* of the pending one by a view.                                           *)
EpochsOfChain ==
    LET c == ChainEpochs(FinalTip)[committed]
    IN  \/ epochs.cur = c.cur /\ epochs.pend = c.pend
        \/ c.pend # NoEpoch /\ epochs.cur = c.pend /\ epochs.pend = NoEpoch

(***************************************************************************)
(* However a node got its blocks - in batches of any size, by replay,      *)
(* after entering views by timeout, after a restart - it executes each     *)
(* under the epoch the chain determines, and holds the epochs the chain    *)
(* determines.  Four things undo it: a view activated an epoch that later  *)
(* updates of an earlier view were to replace, a crash cut a checkpoint in *)
(* two, a commit was refused after its execution (the updates of the       *)
(* earlier blocks of its batch are lost), or a peer strayed.               *)
(***************************************************************************)
EpochsFollowChain ==
    Undisturbed /\ ~early /\ ~torn =>
        /\ EpochsAgree
        /\ phase \in {"sync", "running"} /\ job = Idle => EpochsOfChain

=============================================================================
