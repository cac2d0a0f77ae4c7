----------------------------- MODULE MCVmBuild ------------------------------
(***************************************************************************)
(* Two stages in a VM: one needs an object of this run and is a            *)
(* checkpoint, the other needs one of the cache.                           *)
(***************************************************************************)
EXTENDS VmBuild

TwoStages == <<[needs |-> {"deps"}, checkpoint |-> TRUE],
               [needs |-> {"data"}, checkpoint |-> FALSE]>>
TwoShares == <<"rootfs", "store">>
=============================================================================
