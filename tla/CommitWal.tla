----------------------------- MODULE CommitWal ------------------------------
(***************************************************************************)
(* The write-ahead log around a commit (hotmint-storage/wal.rs): the       *)
(* sequence of its entries on disk.  The file is fsynced after each write, *)
(* so a crash can only tear the entry that was being written.              *)
(***************************************************************************)
EXTENDS Naturals, Sequences

Intent(h) == [kind |-> "intent", height |-> h]
Done(h)   == [kind |-> "done", height |-> h]
Torn      == [kind |-> "torn", height |-> 0]

LogCommitIntent(w, h) == Append(w, Intent(h))

(* The first half of log_commit_done; the second truncates the file.       *)
LogDone(w, h) == Append(w, Done(h))

Truncate(w) == <<>>

(* check_recovery_path drops a tail that is no complete entry.             *)
Complete(w) ==
    IF w # <<>> /\ w[Len(w)].kind = "torn" THEN SubSeq(w, 1, Len(w) - 1) ELSE w

(* Fault: an intent one above the checkpoint counts as covered by it.      *)
NeedsReplay_OffByOne(w, committed) ==
    LET c == Complete(w)
    IN  c # <<>> /\ c[Len(c)].kind = "intent" /\ committed + 1 < c[Len(c)].height

(***************************************************************************)
(* check_recovery_with_committed_height: the last complete entry is an     *)
(* intent that the durable checkpoint does not cover.                      *)
(***************************************************************************)
NeedsReplay(w, committed) ==
    LET c == Complete(w)
    IN  c # <<>> /\ c[Len(c)].kind = "intent" /\ committed < c[Len(c)].height

(* What the check leaves in the file.                                      *)
Recovered(w, committed) ==
    IF NeedsReplay(w, committed) THEN Complete(w) ELSE Truncate(w)

=============================================================================
