------------------------------ MODULE MCSplitPlan ------------------------------
(* Every source of at most MaxGroups row groups of at most MaxRows rows.   *)
EXTENDS SplitPlan
=============================================================================
