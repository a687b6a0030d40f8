-------------------------------- MODULE BestOfN --------------------------------
(***************************************************************************)
(* Best-of-n selection, 27b_distill/best-of-n: the jobs that score the     *)
(* correct rollouts of every sample and append the best one to the file of *)
(* their shard (score_shard.py), and the two programs that are run by hand *)
(* over the finished shards: merge_shards_to_splits.py and                 *)
(* build_final_rollouts.py.  Jobs of one shard may overlap, as SplitJob    *)
(* shows for the same launcher, and jobs and programs may be killed.       *)
(***************************************************************************)
EXTENDS Integers, Sequences, FiniteSets, SequencesExt

CONSTANTS
    Ids,        \* sample ids
    RolloutIds,
    NumSplits,
    MaxShards,  \* bound on num_shards
    Inputs,     \* what there may be to score: records of type Input
    Jobs,       \* the scoring jobs that there may be at a time
    MultiByte   \* whether rows hold non-ASCII text

Splits == 0 .. NumSplits - 1
Shards == 0 .. MaxShards - 1
Programs == {"merge", "final"}

(* num_shards of the configuration; source: the ids of each split, in      *)
(* order; rollouts: the correct rollouts of the ids that have a record in  *)
(* the rollout file of their split.                                        *)
Input == [num_shards : 1 .. MaxShards,
          source : [Splits -> Seq(Ids)],
          rollouts : UNION {[R -> SUBSET RolloutIds] : R \in SUBSET Ids}]

ASSUME BestOfNAssumption ==
    /\ NumSplits \in Nat \ {0} /\ MaxShards \in Nat \ {0}
    /\ \A i \in Inputs : /\ i.num_shards \in 1 .. MaxShards
                         /\ i.source \in [Splits -> Seq(Ids)]
                         /\ DOMAIN i.rollouts \subseteq Ids
                         /\ \A x \in DOMAIN i.rollouts : i.rollouts[x] \subseteq RolloutIds
    /\ {"none", "clean", "torn"} \cap Jobs = {}
    /\ MultiByte \in BOOLEAN

VARIABLES
    input,   \* input_splits_dir and input_rollouts_dir, which do not change
    shard,   \* shards/shard_<h>.jsonl: rows <<id, selected_rollout_id>>
    made,    \* the shard files that exist
    flag,    \* stop_files/shard_<h>.flag exists
    job,     \* what each scoring job is doing
    file,    \* the split files of each program; <<>>: there is none
    prog     \* the program that is being run

jobVars == <<shard, made, flag, job>>
progVars == <<file, prog>>
vars == <<input, jobVars, progVars>>

F == INSTANCE JsonlFile WITH Keys <- Ids \X RolloutIds, Writers <- Jobs
Cuts == IF MultiByte THEN BOOLEAN ELSE {FALSE}

NoJob == [pc |-> "free", shard |-> 0, todo |-> {}, failed |-> FALSE, row |-> <<>>]
Idle == [name |-> "none", step |-> "idle", at |-> 0, rows |-> {}, overwrite |-> FALSE, doomed |-> FALSE]

Init ==
    /\ input \in Inputs
    /\ shard = [h \in Shards |-> F!FileWith({})]
    /\ made = {}
    /\ flag = [h \in Shards |-> FALSE]
    /\ job = [j \in Jobs |-> NoJob]
    /\ file = [p \in Programs |-> [s \in Splits |-> <<>>]]
    /\ prog = Idle

(* The variables keep their types. *)
TypeOK ==
    /\ input \in Inputs
    /\ shard \in [Shards -> F!File]
    /\ made \subseteq Shards
    /\ flag \in [Shards -> BOOLEAN]
    /\ job \in [Jobs -> [pc : {"free", "score", "write"}, shard : Shards,
                         todo : SUBSET (Splits \X Nat), failed : BOOLEAN,
                         row : (Ids \X RolloutIds) \cup {<<>>}]]
    /\ file \in [Programs -> [Splits -> Seq(Ids \X RolloutIds)]]
    /\ prog \in [name : Programs \cup {"none"}, step : {"idle", "load", "write"}, at : Nat,
                 rows : SUBSET (Ids \X RolloutIds), overwrite : BOOLEAN, doomed : BOOLEAN]

-----------------------------------------------------------------------------
(* The samples of a shard, as places <<split, position>>. *)
SampleAt(p) == input.source[p[1]][p[2]]
numeric_split_paths(h) == {s \in Splits : s % input.num_shards = h}
Samples(h) == UNION {{s} \X DOMAIN input.source[s] : s \in numeric_split_paths(h)}

IdsOf(rows) == {row[1] : row \in rows}
load_existing_ids(h) == IdsOf(shard[h].keys)

Work(h) == {p \in Samples(h) : SampleAt(p) \notin load_existing_ids(h)}

(* Mutants: the count alone, or the failures alone, decide on the flag. *)
CompleteByFailures(j, h) == ~job[j].failed /\ ~F!Undecodable(shard[h])

Complete(j, h) ==
    /\ ~job[j].failed
    /\ ~F!Undecodable(shard[h])
    /\ Cardinality(load_existing_ids(h)) >= Cardinality(Samples(h))

(* A launcher that saw no flag may submit a job that starts after another  *)
(* one has written it.  A job raises, and leaves nothing behind, if it can *)
(* not decode its shard's file or a sample to do has no rollout record.    *)
Starts(j, h) ==
    /\ job[j].pc = "free"
    /\ h < input.num_shards
    /\ ~F!Undecodable(shard[h])
    /\ \A p \in Work(h) : SampleAt(p) \in DOMAIN input.rollouts

NothingLeft(h) ==
    /\ \E j \in Jobs : Starts(j, h)
    /\ Work(h) = {}
    /\ flag' = [flag EXCEPT ![h] = TRUE]
    /\ UNCHANGED <<input, shard, made, job, progVars>>

Start(j, h) ==
    /\ Starts(j, h)
    /\ Work(h) # {}
    /\ job' = [job EXCEPT ![j] = [NoJob EXCEPT !.pc = "score", !.shard = h, !.todo = Work(h)]]
    /\ made' = made \cup {h}
    /\ UNCHANGED <<input, shard, flag, progVars>>

(* Samples end in any order.  The server's scores are not the same in      *)
(* every job, so that any rollout may come out best; a single one is not   *)
(* scored.  The first piece of the row reaches the file.                   *)
Select(j, p) ==
    /\ job[j].pc = "score" /\ p \in job[j].todo
    /\ \E r \in input.rollouts[SampleAt(p)] :
          job' = [job EXCEPT ![j].pc = "write", ![j].todo = @ \ {p}, ![j].row = <<SampleAt(p), r>>]
    /\ \E c \in Cuts : shard' = [shard EXCEPT ![job[j].shard] = F!BeginLine(@, j, c)]
    /\ UNCHANGED <<input, made, flag, progVars>>

EndRow(j) ==
    /\ job[j].pc = "write"
    /\ job' = [job EXCEPT ![j].pc = "score", ![j].row = <<>>]
    /\ shard' = [shard EXCEPT ![job[j].shard] = F!EndLine(@, j, job[j].row)]
    /\ UNCHANGED <<input, made, flag, progVars>>

(* No rollout at all, or a request that failed max_retries times. *)
Fail(j, p) ==
    /\ job[j].pc = "score" /\ p \in job[j].todo
    /\ Cardinality(input.rollouts[SampleAt(p)]) # 1
    /\ job' = [job EXCEPT ![j].todo = @ \ {p}, ![j].failed = TRUE]
    /\ UNCHANGED <<input, shard, made, flag, progVars>>

Finish(j) ==
    /\ job[j].pc = "score" /\ job[j].todo = {}
    /\ flag' = [flag EXCEPT ![job[j].shard] = @ \/ Complete(j, job[j].shard)]
    /\ job' = [job EXCEPT ![j] = NoJob]
    /\ UNCHANGED <<input, shard, made, progVars>>

JobKilled(j) ==
    /\ job[j].pc # "free"
    /\ shard' = [shard EXCEPT ![job[j].shard] = F!Abandon(@, j)]
    /\ job' = [job EXCEPT ![j] = NoJob]
    /\ UNCHANGED <<input, made, flag, progVars>>

-----------------------------------------------------------------------------
(* Mutants of Loads: an unreadable row is skipped; the last of two counts. *)
LoadsOrSkips(h, seen) ==
    /\ h \in made /\ ~F!Undecodable(shard[h])
    /\ shard[h].repeated = {}
    /\ \A a, b \in seen \cup shard[h].keys : a[1] = b[1] => a = b
    /\ seen \cap shard[h].keys = {}
LoadsLast(h, seen) == h \in made /\ ~F!Malformed(shard[h])

(* load_shards, load_best_rows: every line parses and no id comes twice. *)
Loads(h, seen) ==
    /\ h \in made /\ ~F!Malformed(shard[h])
    /\ shard[h].repeated = {}
    /\ \A a, b \in seen \cup shard[h].keys : a[1] = b[1] => a = b
    /\ seen \cap shard[h].keys = {}

(* A line of some shard is torn or glued, or an id has two rows. *)
BadLine(h) == shard[h].junk \/ shard[h].tail = "torn" \/ shard[h].repeated # {}
Spoiled ==
    \/ \E h \in Shards : BadLine(h)
    \/ \E g, h \in Shards : \E a \in shard[g].keys, b \in shard[h].keys :
          a[1] = b[1] /\ <<g, a>> # <<h, b>>

Run(p, overwrite) ==
    /\ prog.step = "idle"
    /\ prog' = [Idle EXCEPT !.name = p, !.step = "load", !.overwrite = overwrite, !.doomed = Spoiled]
    /\ UNCHANGED <<input, jobVars, file>>

LoadShard ==
    /\ prog.step = "load"
    /\ Loads(prog.at, prog.rows)
    /\ LET rows == prog.rows \cup shard[prog.at].keys
       IN  prog' = IF prog.at + 1 < input.num_shards
                   THEN [prog EXCEPT !.rows = rows, !.at = @ + 1]
                   ELSE [prog EXCEPT !.rows = rows, !.at = 0, !.step = "write"]
    /\ UNCHANGED <<input, jobVars, file>>

SplitIds(s) == ToSet(input.source[s])
RowOf(id) == CHOOSE row \in prog.rows : row[1] = id

(* build_final_rollouts.py also refuses the ids of an earlier split. *)
MayWrite(s) ==
    /\ file[prog.name][s] = <<>> \/ prog.overwrite
    /\ SplitIds(s) \subseteq IdsOf(prog.rows)
    /\ prog.name = "final" => \A t \in 0 .. s - 1 : SplitIds(s) \cap SplitIds(t) = {}

(* The split's file is written aside and renamed. *)
WriteSplit ==
    /\ prog.step = "write" /\ prog.at < NumSplits
    /\ MayWrite(prog.at)
    /\ file' = [file EXCEPT ![prog.name][prog.at] =
                   [i \in DOMAIN input.source[prog.at] |-> RowOf(input.source[prog.at][i])]]
    /\ prog' = [prog EXCEPT !.at = @ + 1]
    /\ UNCHANGED <<input, jobVars>>

(* The program ends well, raises or is killed. *)
Ends ==
    /\ prog.step # "idle"
    /\ prog' = Idle
    /\ UNCHANGED <<input, jobVars, file>>

Next ==
    \/ \E h \in Shards : NothingLeft(h)
    \/ \E j \in Jobs : \/ \E h \in Shards : Start(j, h)
                       \/ \E p \in job[j].todo : Select(j, p) \/ Fail(j, p)
                       \/ EndRow(j) \/ Finish(j) \/ JobKilled(j)
    \/ \E p \in Programs, o \in BOOLEAN : Run(p, o)
    \/ LoadShard \/ WriteSplit \/ Ends

Spec == Init /\ [][Next]_vars

-----------------------------------------------------------------------------
(* A shard's flag means that every sample of its splits has a row that can *)
(* be read, whatever lines were torn, glued together or lost to a failed   *)
(* request on the way.                                                     *)
FlagMeansScored ==
    \A h \in Shards : flag[h] => \A p \in Samples(h) : SampleAt(p) \in load_existing_ids(h)

(* Overlapping jobs may choose different rollouts for a sample, and each   *)
(* program may be killed and run again: the split files of the two         *)
(* programs never disagree about the rollout that was selected.            *)
ChoicesAgree ==
    \A p, q \in Programs : \A s, t \in Splits :
        \A a \in ToSet(file[p][s]), b \in ToSet(file[q][t]) : a[1] = b[1] => a = b

(* The README merges once every shard shows its flag.  A torn or glued     *)
(* line, or a row of an overlapping job, stays in its shard for ever, and  *)
(* no program started after that writes a split file, flags or not.        *)
SpoiledNeverMerges == prog.doomed => prog.step # "write"
=============================================================================
