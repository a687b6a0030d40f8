------------------------------- MODULE SplitPlan -------------------------------
(***************************************************************************)
(* How split.py cuts a parquet file into numeric splits: the number of     *)
(* rows of each split, the window of row groups that holds them, and the   *)
(* loop of build_split_worker that slices each row group and numbers the   *)
(* rows.  The "index" it writes is the key by which every later stage      *)
(* joins, so a row must get the same index however the source is stored.   *)
(*                                                                         *)
(* A behaviour cuts one source, split after split; the splits are          *)
(* independent of each other (SplitBuild has their processes and files).   *)
(***************************************************************************)
EXTENDS Integers, Sequences, FiniteSets, FiniteSetsExt

CONSTANTS
    MaxGroups,  \* bound: row groups of the source
    MaxRows,    \* bound: rows of a row group
    MaxSplits   \* bound: num_splits

ASSUME PlanAssumption == MaxGroups \in Nat /\ MaxRows \in Nat /\ MaxSplits \in Nat

VARIABLES
    sizes,    \* rows of each row group
    num,      \* num_splits
    split,    \* split_idx of the worker at work
    rg,       \* rg_idx, next row group of its loop, counted from 0
    current,  \* current_index
    rows,     \* <<index, source row, split>> of every row written
    written,  \* total_written
    result    \* split -> "todo", "written" or "raised"

planVars == <<sizes, num, split, rg, current, rows, written, result>>
source == <<sizes, num>>

Sources == UNION {[1 .. n -> 0 .. MaxRows] : n \in 0 .. MaxGroups}
Groups == 1 .. Len(sizes)

PlanTypeOK ==
    /\ sizes \in Sources /\ num \in 1 .. MaxSplits
    /\ split \in 0 .. num /\ rg \in Nat /\ current \in Nat /\ written \in Nat
    /\ rows \subseteq Nat \X Nat \X Nat
    /\ result \in [0 .. num - 1 -> {"todo", "written", "raised"}]

(* A cursor that has moved on by f[1], ..., f[n]. *)
Cursor(f, n) ==
    LET upTo[k \in Nat] == IF k = 0 THEN 0 ELSE upTo[k - 1] + f[k] IN upTo[n]

(* row_group_bounds: groups are counted from 1 here. *)
RowEnd(k)   == Cursor(sizes, k)
RowStart(k) == RowEnd(k - 1)
TotalRows   == RowEnd(Len(sizes))

SplitCount(i) == (TotalRows \div num) + (IF i < TotalRows % num THEN 1 ELSE 0)

SplitStart(i) == Cursor([j \in 1 .. num |-> SplitCount(j - 1)], i)
SplitEnd(i)   == SplitStart(i) + SplitCount(i)

(* The prefix sums row_group_bounds returns, and bisect, which on a sorted *)
(* list is counting.                                                       *)
Ends   == [k \in Groups |-> RowEnd(k)]
Starts == [k \in Groups |-> RowStart(k)]
BisectRight(list, x) == Cardinality({k \in DOMAIN list : list[k] <= x})
BisectLeft(list, x)  == Cardinality({k \in DOMAIN list : list[k] < x})

(* Mutant: the last group is left out. *)
LastGroupShort(i) == BisectLeft(Starts, SplitEnd(i)) - 1

FirstGroup(i) == BisectRight(Ends, SplitStart(i))
LastGroup(i)  == BisectLeft(Starts, SplitEnd(i))

-----------------------------------------------------------------------------
(* A worker starts on split i. *)
Begin(i) == [rg |-> FirstGroup(i), current |-> SplitStart(i)]

PlanInit ==
    /\ sizes \in Sources
    /\ num \in 1 .. MaxSplits
    /\ split = 0
    /\ rg = Begin(0).rg /\ current = Begin(0).current
    /\ rows = {} /\ written = 0
    /\ result = [i \in 0 .. num - 1 |-> "todo"]

(* table.slice(local_start, local_end - local_start) of row group k. *)
LocalStart(k) == Max({0, SplitStart(split) - RowStart(k)})

(* Mutant: a row group is never cut short. *)
LocalEndWhole(k) == sizes[k]

LocalEnd(k) == Min({sizes[k], SplitEnd(split) - RowStart(k)})

(* Mutant: the numbering starts again with every row group. *)
ReadGroupRestarting ==
    /\ split < num /\ rg < LastGroup(split)
    /\ LET k == rg + 1
           n == LocalEnd(k) - LocalStart(k)
       IN  /\ rows' = rows \cup {<<SplitStart(split) + j, RowStart(k) + LocalStart(k) + j, split>> : j \in 0 .. n - 1}
           /\ current' = current + n
           /\ written' = written + n
    /\ rg' = rg + 1
    /\ UNCHANGED <<source, split, result>>

ReadGroup ==
    /\ split < num /\ rg < LastGroup(split)
    /\ LET k == rg + 1
           n == LocalEnd(k) - LocalStart(k)
       IN  /\ rows' = rows \cup {<<current + j, RowStart(k) + LocalStart(k) + j, split>> : j \in 0 .. n - 1}
           /\ current' = current + n
           /\ written' = written + n
    /\ rg' = rg + 1
    /\ UNCHANGED <<source, split, result>>

(* The loop is over: the count is checked, and the temporary file, which   *)
(* exists only if a row was written, replaces the final one.               *)
EndSplit ==
    /\ split < num /\ rg >= LastGroup(split)
    /\ result' = [result EXCEPT ![split] =
                     IF written = SplitCount(split) /\ written > 0 THEN "written" ELSE "raised"]
    /\ split' = split + 1
    /\ written' = 0
    /\ IF split + 1 < num
       THEN rg' = Begin(split + 1).rg /\ current' = Begin(split + 1).current
       ELSE UNCHANGED <<rg, current>>
    /\ UNCHANGED <<source, rows>>

PlanNext == ReadGroup \/ EndSplit
PlanSpec == PlanInit /\ [][PlanNext]_planVars

-----------------------------------------------------------------------------
(* The index a row is given is its place in the source: it depends neither *)
(* on the row groups nor on the number of splits.                          *)
IndexIsSourceRow == \A p \in rows : p[1] = p[2]

(* When all splits are through, they hold the rows of the source in the    *)
(* order of the source, each row once, and none is left out.               *)
PartitionInOrder ==
    split = num =>
        /\ {p[2] : p \in rows} = 0 .. TotalRows - 1
        /\ \A p, q \in rows : p[2] <= q[2] => p[3] <= q[3]

(* The check on the row count never fires; a split raises exactly when it  *)
(* is empty, that is when the source has fewer rows than there are splits. *)
RaisesOnlyWhenEmpty ==
    \A i \in 0 .. split - 1 : result[i] = "raised" <=> i >= TotalRows
=============================================================================
