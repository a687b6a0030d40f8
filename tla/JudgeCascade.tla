------------------------------ MODULE JudgeCascade ------------------------------
(***************************************************************************)
(* From the judge's verdicts to the splits of the 9B stage: the programs   *)
(* filter_parquet_by_verify.py, merge_filter_splits.py and                 *)
(* split_final_to_400.py, which the operator runs by hand, at any time, in *)
(* any order and with any options, and which may be killed at every step.  *)
(* Split 0 is judged by JudgeJob; the verdicts on the others are given.    *)
(***************************************************************************)
EXTENDS JudgeJob

CONSTANTS
    Source,     \* split -> its rows, the source_split_dir
    Given,      \* split -> rows with a verdict in KeepCounts, for all but 0
    KeepCounts, \* --keep-counts
    NumNine     \* --num-splits of split_final_to_400.py

ASSUME CascadeAssumption ==
    /\ 0 \in DOMAIN Source /\ IsFiniteSet(DOMAIN Source)
    /\ DOMAIN Source = 0 .. Cardinality(DOMAIN Source) - 1
    /\ \A s \in DOMAIN Source : Source[s] \in Seq(Nat)
    /\ Given \in [DOMAIN Source \ {0} -> SUBSET Nat]
    /\ KeepCounts \subseteq Counts /\ NumNine \in Nat \ {0}

VARIABLES
    filtered,  \* 4bprfilter_split/<i>.parquet
    final,     \* 4bprfilter_split/Final.parquet
    nine,      \* qwen35_9b_distill/splits/<i>.parquet
    prog,      \* the program that runs, how far it is and what it has read
    reached,   \* history: the last program that ended well, over a good run
               \* of the ones before it
    chosen,    \* history: the file that the filter last began to write of
               \* each split
    settled    \* history: for that of split 0 it read the verdicts when the
               \* flag was there and no judge job was left

files == <<filtered, final, nine>>
history == <<reached, chosen, settled>>
cascadeVars == <<files, prog, history>>
vars == <<judgeVars, cascadeVars>>

Splits == DOMAIN Source
Nine   == 0 .. NumNine - 1

(* A parquet file is absent, torn (it has no footer yet), or whole. *)
NoFile == [state |-> "absent", rows |-> <<>>]
TornFile(rows) == [state |-> "torn", rows |-> rows]
FileOf(rows)   == [state |-> "whole", rows |-> rows]
Exists(f) == f.state # "absent"
Whole(f)  == f.state = "whole"

Idle == [name |-> "idle", step |-> "none", at |-> 0, opts |-> {}, rows |-> <<>>, late |-> FALSE]

(* The variables keep their types. *)
Parquet == [state : {"absent", "torn", "whole"}, rows : Seq(Nat)]
Program == [name : {"idle", "filter", "merge", "cut"},
            step : {"none", "open", "choose", "write", "read", "delete"},
            at : Nat, opts : SUBSET {"overwrite", "resume", "keep"},
            rows : Seq(Nat), late : BOOLEAN]
TypeOK ==
    /\ JudgeTypeOK
    /\ filtered \in [Splits -> Parquet] /\ final \in Parquet /\ nine \in [Nine -> Parquet]
    /\ prog \in Program
    /\ reached \in {"none", "filtered", "merged", "cut"}
    /\ chosen \in [Splits -> Parquet] /\ settled \in BOOLEAN

CascadeInit ==
    /\ filtered = [s \in Splits |-> NoFile]
    /\ final = NoFile
    /\ nine = [i \in Nine |-> NoFile]
    /\ prog = Idle
    /\ reached = "none"
    /\ chosen = [s \in Splits |-> NoFile]
    /\ settled = FALSE

(* The rows of the first n files, one after the other. *)
Joined(rowsOf, n) ==
    LET upTo[k \in Nat] == IF k = 0 THEN <<>> ELSE upTo[k - 1] \o rowsOf[k - 1] IN upTo[n]

At(name, step) == prog.name = name /\ prog.step = step
GoTo(step, at) == prog' = [prog EXCEPT !.step = step, !.at = at, !.rows = <<>>, !.late = FALSE]
Starts(name, step, at, opts) ==
    prog' = [Idle EXCEPT !.name = name, !.step = step, !.at = at, !.opts = opts]

-----------------------------------------------------------------------------
(***************************************************************************)
(* filter_parquet_by_verify.py                                             *)
(***************************************************************************)
(* read_keep_indexes: one line with a count to be kept is enough. *)
KeepIndexes(s) ==
    IF s = 0 THEN {i \in Indexes : \E c \in KeepCounts : <<i, c>> \in out.keys} ELSE Given[s]

Kept(rows, keep) ==
    Joined([k \in 0 .. Len(rows) - 1 |-> IF rows[k + 1] \in keep THEN <<rows[k + 1]>> ELSE <<>>], Len(rows))

FilteredRows(s) == Kept(Source[s], KeepIndexes(s))

(* Mutant: lines that do not parse are skipped, as in load_existing_indexes. *)
ParsesOrSkips(s) == TRUE

Parses(s) == s = 0 => ~F!Malformed(out)

(* It looks at no flag: it takes the verify files there are, and raises    *)
(* when there is none.  That of split 0 is there once a job has opened it. *)
First == IF opened THEN 0 ELSE 1

FilterStarts(opts) ==
    /\ prog = Idle /\ First \in Splits
    /\ Starts("filter", "open", First, opts)
    /\ reached' = "none"
    /\ UNCHANGED <<judgeVars, files, chosen, settled>>

Rewrites(s) == ~Exists(filtered[s]) \/ "overwrite" \in prog.opts

(* --resume opens the file to count its rows, and reads no verdict. *)
FilterSkips ==
    /\ At("filter", "open") /\ prog.at \in Splits
    /\ ~Rewrites(prog.at) /\ "resume" \in prog.opts /\ Whole(filtered[prog.at])
    /\ GoTo("open", prog.at + 1)
    /\ UNCHANGED <<judgeVars, files, history>>

FilterRaises ==
    /\ At("filter", "open") /\ prog.at \in Splits
    /\ IF Rewrites(prog.at) THEN ~Parses(prog.at)
                            ELSE "resume" \notin prog.opts \/ ~Whole(filtered[prog.at])
    /\ prog' = Idle
    /\ UNCHANGED <<judgeVars, files, history>>

(* The judge is done with split 0. *)
JudgeDone == flag /\ \A j \in Jobs : pc[j] = "free"

(* read_keep_indexes, while judge jobs may still append. *)
FilterReads ==
    /\ At("filter", "open") /\ prog.at \in Splits
    /\ Rewrites(prog.at) /\ Parses(prog.at)
    /\ prog' = [prog EXCEPT !.step = "choose", !.rows = FilteredRows(prog.at), !.late = JudgeDone]
    /\ UNCHANGED <<judgeVars, files, history>>

(* filter_one_split writes under the final name. *)
FilterOpens ==
    /\ At("filter", "choose")
    /\ filtered' = [filtered EXCEPT ![prog.at] = TornFile(<<>>)]
    /\ chosen' = [chosen EXCEPT ![prog.at] = FileOf(prog.rows)]
    /\ settled' = IF prog.at = 0 THEN prog.late ELSE settled
    /\ prog' = [prog EXCEPT !.step = "write"]
    /\ UNCHANGED <<judgeVars, final, nine, reached>>

FilterWrites ==
    /\ At("filter", "write")
    /\ filtered' = [filtered EXCEPT ![prog.at] = FileOf(prog.rows)]
    /\ GoTo("open", prog.at + 1)
    /\ UNCHANGED <<judgeVars, final, nine, history>>

FilterEnds ==
    /\ At("filter", "open") /\ prog.at \notin Splits
    /\ prog' = Idle
    /\ reached' = "filtered"
    /\ UNCHANGED <<judgeVars, files, chosen, settled>>

-----------------------------------------------------------------------------
(***************************************************************************)
(* merge_filter_splits.py                                                  *)
(***************************************************************************)
MissingSplits == {s \in Splits : ~Exists(filtered[s])}

(* Mutant: the old file goes before the splits are counted. *)
MergeUnlinksFirst(opts) ==
    /\ prog = Idle
    /\ Exists(final) => "overwrite" \in opts
    /\ final' = NoFile
    /\ reached' = IF reached = "none" THEN "none" ELSE "filtered"
    /\ IF MissingSplits = {} THEN Starts("merge", "read", 0, opts) ELSE UNCHANGED prog
    /\ UNCHANGED <<judgeVars, filtered, nine, chosen, settled>>

(* With a split missing, or a final file it may not replace, it raises     *)
(* before it has changed anything.                                         *)
MergeStarts(opts) ==
    /\ prog = Idle
    /\ MissingSplits = {}
    /\ Exists(final) => "overwrite" \in opts
    /\ final' = NoFile
    /\ reached' = IF reached = "none" THEN "none" ELSE "filtered"
    /\ Starts("merge", "read", 0, opts)
    /\ UNCHANGED <<judgeVars, filtered, nine, chosen, settled>>

MergeReads ==
    /\ At("merge", "read") /\ prog.at \in Splits
    /\ Whole(filtered[prog.at])
    /\ final' = TornFile(final.rows \o filtered[prog.at].rows)
    /\ GoTo("read", prog.at + 1)
    /\ UNCHANGED <<judgeVars, filtered, nine, history>>

(* A split that is torn: "finally" closes the writer, if there is one, and *)
(* leaves a readable final file of the splits before.                      *)
MergeRaises ==
    /\ At("merge", "read") /\ prog.at \in Splits
    /\ ~Whole(filtered[prog.at])
    /\ final' = IF Exists(final) THEN FileOf(final.rows) ELSE NoFile
    /\ prog' = Idle
    /\ UNCHANGED <<judgeVars, filtered, nine, history>>

MergeCloses ==
    /\ At("merge", "read") /\ prog.at \notin Splits
    /\ final' = FileOf(final.rows)
    /\ GoTo("delete", IF "keep" \in prog.opts THEN Cardinality(Splits) ELSE 0)
    /\ UNCHANGED <<judgeVars, filtered, nine, history>>

MergeDeletes ==
    /\ At("merge", "delete") /\ prog.at \in Splits
    /\ filtered' = [filtered EXCEPT ![prog.at] = NoFile]
    /\ GoTo("delete", prog.at + 1)
    /\ UNCHANGED <<judgeVars, final, nine, history>>

MergeEnds ==
    /\ At("merge", "delete") /\ prog.at \notin Splits
    /\ prog' = Idle
    /\ reached' = IF reached = "none" THEN "none" ELSE "merged"
    /\ UNCHANGED <<judgeVars, files, chosen, settled>>

-----------------------------------------------------------------------------
(***************************************************************************)
(* split_final_to_400.py                                                   *)
(***************************************************************************)
(* split_sizes, and where a split begins. *)
Base == Len(final.rows) \div NumNine
Rem  == Len(final.rows) % NumNine
SplitSize(i)  == Base + (IF i < Rem THEN 1 ELSE 0)
SplitStart(i) == i * Base + (IF i < Rem THEN i ELSE Rem)
Share(i) == SubSeq(final.rows, SplitStart(i) + 1, SplitStart(i) + SplitSize(i))

(* The existing splits are unlinked before the source is opened; a torn    *)
(* source raises there.                                                    *)
CutStarts(opts) ==
    /\ prog = Idle /\ Exists(final)
    /\ (\E i \in Nine : Exists(nine[i])) => opts \cap {"overwrite", "resume"} # {}
    /\ nine' = IF "overwrite" \in opts THEN [i \in Nine |-> NoFile] ELSE nine
    /\ IF Whole(final) THEN Starts("cut", "open", 0, opts) ELSE UNCHANGED prog
    /\ reached' = IF reached = "cut" THEN "merged" ELSE reached
    /\ UNCHANGED <<judgeVars, filtered, final, chosen, settled>>

(* Mutant: --resume skips the files that are there, as its help says. *)
CutOpensOrSkips ==
    /\ At("cut", "open") /\ prog.at \in Nine
    /\ IF "resume" \in prog.opts /\ Exists(nine[prog.at])
       THEN GoTo("open", prog.at + 1) /\ UNCHANGED nine
       ELSE GoTo("write", prog.at) /\ nine' = [nine EXCEPT ![prog.at] = TornFile(<<>>)]
    /\ UNCHANGED <<judgeVars, filtered, final, history>>

CutOpens ==
    /\ At("cut", "open") /\ prog.at \in Nine
    /\ nine' = [nine EXCEPT ![prog.at] = TornFile(<<>>)]
    /\ GoTo("write", prog.at)
    /\ UNCHANGED <<judgeVars, filtered, final, history>>

CutWrites ==
    /\ At("cut", "write")
    /\ nine' = [nine EXCEPT ![prog.at] = FileOf(Share(prog.at))]
    /\ GoTo("open", prog.at + 1)
    /\ UNCHANGED <<judgeVars, filtered, final, history>>

CutEnds ==
    /\ At("cut", "open") /\ prog.at \notin Nine
    /\ prog' = Idle
    /\ reached' = IF reached = "merged" THEN "cut" ELSE reached
    /\ UNCHANGED <<judgeVars, files, chosen, settled>>

-----------------------------------------------------------------------------
(* A program dies: its files stay as they are. *)
Killed ==
    /\ prog # Idle
    /\ prog' = Idle
    /\ UNCHANGED <<judgeVars, files, history>>

CascadeNext ==
    \/ \E opts \in SUBSET {"overwrite", "resume"} : FilterStarts(opts) \/ CutStarts(opts)
    \/ \E opts \in SUBSET {"overwrite", "keep"} : MergeStarts(opts)
    \/ FilterSkips \/ FilterRaises \/ FilterReads \/ FilterOpens \/ FilterWrites \/ FilterEnds
    \/ MergeReads \/ MergeRaises \/ MergeCloses \/ MergeDeletes \/ MergeEnds
    \/ CutOpens \/ CutWrites \/ CutEnds
    \/ Killed

Init == JudgeInit /\ CascadeInit
Next == (JudgeNext /\ UNCHANGED cascadeVars) \/ CascadeNext
Spec == Init /\ [][Next]_vars

-----------------------------------------------------------------------------
(* The rows that the filter last selected, in the order of the source. *)
ChosenRows == Joined([s \in Splits |-> chosen[s].rows], Cardinality(Splits))

(* From the time the filter has ended well, every row it has selected is   *)
(* in a whole file: its split, until a whole final file holds all of them, *)
(* whichever program is killed where and started again with which options. *)
RowsSurvive ==
    reached # "none" =>
        final = FileOf(ChosenRows) \/ \A s \in Splits : filtered[s] = chosen[s]

(* Filtered, merged and cut without an error, each over the result of the  *)
(* one before, the splits of the 9B stage hold the selected rows once each *)
(* and in order, although --resume and --overwrite met what killed         *)
(* programs, and cuts of other selections, had left.                       *)
NineInOrder ==
    reached = "cut" =>
        /\ \A i \in Nine : Whole(nine[i])
        /\ Joined([i \in Nine |-> nine[i].rows], NumNine) = ChosenRows

(* A filter selects too few rows if it reads the verdicts early, and a     *)
(* later one with --resume keeps them.  What it selects when the flag is   *)
(* there and no job is left is final: no job that starts later, or died    *)
(* before, has it miss a verdict, and it was taken from a file without a   *)
(* torn line.                                                              *)
DoneSplitIsFinal ==
    settled => chosen[0] = FileOf(FilteredRows(0)) /\ ~F!Malformed(out)
=============================================================================
