---------------------------- MODULE MCJudgeCascade ----------------------------
(* Small instances of JudgeCascade. *)
EXTENDS JudgeCascade, TLC
CONSTANTS j1, j2
TwoJobs == {j1, j2}
Interchangeable == Permutations(TwoJobs)

Rows == {1, 2}
OneOfTwo == {0}

Good(i)  == [kind |-> "good", index |-> i]
Short(i) == [kind |-> "short", index |-> i]
Torn(i)  == [kind |-> "torn", index |-> i]

(* As it should be; recorded twice by overlapping jobs; torn by a killed   *)
(* job and made again by the next; a record without all its rollouts.  In  *)
(* OneRow, the other row of the split has no usable image and no record.   *)
OneRow == <<Good(1)>>
EveryInput == { OneRow, <<Good(2), Good(1)>>, <<Good(1), Good(2), Good(1)>>,
                <<Torn(1), Good(2), Good(1)>>, <<Good(1), Short(2)>> }

(* Bound: the programs after the judge run over the one verdict of OneRow. *)
FilteredIfOneRow == prog # Idle => input = OneRow

TwoSplits  == 0 :> <<1, 2>> @@ 1 :> <<3, 4>>
OtherSplit == 1 :> {3, 4}
=============================================================================
