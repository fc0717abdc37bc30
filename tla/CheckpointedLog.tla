--------------------------- MODULE CheckpointedLog ---------------------------
(***************************************************************************)
(* What every trace store of the repository promises its users, stated     *)
(* without files, buffers or digests.                                      *)
(*                                                                         *)
(* A writer accepts rows one at a time; a checkpoint makes a prefix of the *)
(* accepted rows permanent; when the writer's process ends, accepted rows  *)
(* that no checkpoint covers may be lost, but only from the end.  Nothing  *)
(* ever changes, drops or reorders a committed row.                        *)
(*                                                                         *)
(* The native memmap store (NativeStore), the capture loop that drives it  *)
(* (CaptureRun) and the chunked host store (TracePack) are each checked to *)
(* implement this specification under a refinement mapping.                *)
(***************************************************************************)
EXTENDS Naturals, Sequences

CONSTANT Row            \* what a row may hold

VARIABLES
  accepted,             \* the rows the writer has taken, oldest first
  committed             \* the rows a checkpoint has made permanent

vars == <<accepted, committed>>

Prefix(s, n) == SubSeq(s, 1, n)

Init == accepted = <<>> /\ committed = <<>>

\* One row is accepted whole.
Accept ==
  /\ \E r \in Row : accepted' = Append(accepted, r)
  /\ UNCHANGED committed

\* A checkpoint commits some of the accepted rows, in order.
Commit ==
  /\ \E n \in Len(committed) .. Len(accepted) : committed' = Prefix(accepted, n)
  /\ UNCHANGED accepted

\* The end of a process may lose rows that were accepted and not committed.
Lose ==
  /\ \E n \in Len(committed) .. Len(accepted) : accepted' = Prefix(accepted, n)
  /\ UNCHANGED committed

Next == Accept \/ Commit \/ Lose

Spec == Init /\ [][Next]_vars
=============================================================================
