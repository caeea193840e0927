---------------------------- MODULE MCDiskCache ----------------------------
(* Three videos of which one is as large as the budget, and two that fit.  *)
EXTENDS DiskCache

CONSTANTS small, medium, large

MCSizeOf == [v \in Videos |-> CASE v = small -> 1 [] v = medium -> 2 [] v = large -> 3]
=============================================================================
