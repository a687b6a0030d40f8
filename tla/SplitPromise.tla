---------------------------- MODULE SplitPromise ----------------------------
(***************************************************************************)
(* What a split promises to whoever reads its stop flag and its file: rows *)
(* get recorded one at a time and stay recorded, the flag goes up once,    *)
(* and it goes up only when every row of the split is recorded.  Nothing   *)
(* is said of launchers, Slurm jobs, crashes or retries.                   *)
(***************************************************************************)
CONSTANT Rows
VARIABLES recorded, complete

Init == recorded = {} /\ complete = FALSE

Record ==
    /\ \E i \in Rows \ recorded : recorded' = recorded \cup {i}
    /\ UNCHANGED complete

Complete ==
    /\ recorded = Rows
    /\ complete' = TRUE
    /\ UNCHANGED recorded

Next == Record \/ Complete
Spec == Init /\ [][Next]_<<recorded, complete>>
=============================================================================
