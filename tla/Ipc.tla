--------------------------------- MODULE Ipc ---------------------------------
(***************************************************************************)
(* A call of the application over the Unix socket                          *)
(* (hotmint-abci/client.rs and server.rs): how often the application has   *)
(* dispatched the request, what the caller is told, and whether an answer  *)
(* is left unread on the connection, when the connection or the            *)
(* application's process may fail, or be slow, at any point.               *)
(***************************************************************************)
EXTENDS Naturals

(* What the caller is told when a call fails: an error ...                 *)
Raised == {"init_chain", "execute_block", "on_commit", "on_evidence",
           "on_offline_validators", "query"}

(* ... a refusal ...                                                       *)
Denied == {"validate_block", "validate_tx", "verify_vote_extension"}

(* ... nothing at all ...                                                  *)
Empty == {"create_payload", "extend_vote", "list_snapshots", "load_snapshot_chunk"}

(* ... or to abort the restoring of a snapshot.                            *)
Aborted == {"offer_snapshot", "apply_snapshot_chunk"}

OnFailure(req) ==
    CASE req \in Raised            -> "error"
      [] req \in Denied            -> "no"
      [] req \in Empty             -> "nothing"
      [] req \in Aborted           -> "abort"
      [] req = "tracks_app_hash"   -> "yes"
      [] req = "info"              -> "panic"

(* Requests without a deadline.                                            *)
IsCommitPath(req) == req \in {"execute_block", "on_commit", "on_evidence"}

(* Fault: a lost answer to execute_block is retried like that of a query.  *)
MayRetryAfterWrite_Execute(req) ==
    req \in {"info", "validate_block", "validate_tx", "verify_vote_extension",
             "query", "list_snapshots", "load_snapshot_chunk",
             "tracks_app_hash", "execute_block"}

(* Requests that may be sent again although the application may have seen  *)
(* them.                                                                   *)
MayRetryAfterWrite(req) ==
    req \in {"info", "validate_block", "validate_tx", "verify_vote_extension",
             "query", "list_snapshots", "load_snapshot_chunk",
             "tracks_app_hash"}

(* write_frame_sync counts the bytes that went out before a failure.       *)
WriteFrame == {"unwritten", "partial", "written"}

(* The server dispatches a whole frame, unless it dies before that.        *)
Dispatches(write) == IF write = "written" THEN {0, 1} ELSE {0}

(* read_frame_sync: the answer, the end of the connection, or, with the    *)
(* server alive, the deadline.                                             *)
ReadFrame(req, applied) ==
    {"closed"} \cup (IF applied = 0 THEN {}
                     ELSE IF IsCommitPath(req) THEN {"answer"} ELSE {"answer", "timeout"})

(* call_once: connect if need be, write, read.                             *)
CallOnce(req) ==
    {[applied |-> 0, end |-> "connect"]} \cup
    UNION {UNION {{[applied |-> n, end |-> r] :
                      r \in IF w = "written" THEN ReadFrame(req, n) ELSE {w}} :
                  n \in Dispatches(w)} : w \in WriteFrame}

Retries(req, end) ==
    \/ end = "unwritten"
    \/ end \in {"closed", "timeout"} /\ MayRetryAfterWrite(req)

(***************************************************************************)
(* call: at most one retry, on a new connection.  The connection of a      *)
(* first attempt that failed is dropped; that of a retry is kept, and an   *)
(* answer that comes after the deadline stays on it, unread.               *)
(***************************************************************************)
CallOutcomes(req) ==
    LET told(end) == IF end = "answer" THEN "given" ELSE OnFailure(req)
    IN  {[applied |-> a.applied, answer |-> told(a.end), unread |-> FALSE] :
            a \in {c \in CallOnce(req) : ~Retries(req, c.end)}}
        \cup
        {[applied |-> a.applied + b.applied, answer |-> told(b.end),
          unread |-> b.end = "timeout"] :
            a \in {c \in CallOnce(req) : Retries(req, c.end)}, b \in CallOnce(req)}

=============================================================================
