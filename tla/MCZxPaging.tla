----------------------------- MODULE MCZxPaging -----------------------------
(* Constants of the model-checking runs of ZxPaging.                       *)
EXTENDS ZxPaging

\* Two normal layouts that differ in the ROM and an all-RAM layout.
Plus3Bytes ==
  {Zero1FFD, [allRam |-> FALSE, config |-> 2], [allRam |-> TRUE, config |-> 3]}

\* What snapshots hold: the reset value, and another bank, ROM and display
\* with paging locked.
MCSnapshotBytes ==
  {Zero7FFD, [bank |-> 7, display |-> 7, rom |-> 1, lock |-> TRUE]}
=============================================================================
