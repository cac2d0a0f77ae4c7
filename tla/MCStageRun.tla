----------------------------- MODULE MCStageRun -----------------------------
(***************************************************************************)
(* An input that asks for a tree, a loop device, a device on top of it, a  *)
(* mount of that, and a second mount below the first; and a stage with two *)
(* inputs and a device.                                                    *)
(***************************************************************************)
EXTENDS StageRun

FiveServices == 5
DiskUses == <<{}, {}, {2}, {3}, {2, 4}>>
OneInput == {1}

NoServices == 0
NoUses == <<>>
=============================================================================
