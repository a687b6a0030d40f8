----------------------------- MODULE MCSplitBuild -----------------------------
(* Small instances of SplitBuild. *)
EXTENDS SplitBuild
ThreeSplits == 0 .. 2
EverySetup  == [kind : {"file"}, empty : {{}, {2}}] \cup DirSetups
AnyFile     == Contents
=============================================================================
