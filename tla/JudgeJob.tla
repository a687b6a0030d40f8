-------------------------------- MODULE JudgeJob --------------------------------
(***************************************************************************)
(* The 27B judge of one split of the 4B rollouts, 27b_verify/scripts/      *)
(* run_verify.py: the lines of the rollout file it is given, and the jobs  *)
(* that launchers run until the stop flag is there.  A launcher that is    *)
(* started again cancels the job of the one before without waiting for its *)
(* end, and a squeue that fails cancels none: jobs overlap, start late and *)
(* die at any step.                                                        *)
(***************************************************************************)
EXTENDS Integers, Sequences, FiniteSets

CONSTANTS
    Indexes,     \* row indexes of the split
    Inputs,      \* the rollout files there may be: sequences of Line
    Expected,    \* expected_rollouts
    MaxPending,  \* max_concurrent * max_pending_multiplier
    Jobs,        \* names for the Slurm jobs alive at one time
    MultiByte    \* whether verdicts hold non-ASCII text

(* A line of the rollout file: a record with all its rollouts, one that    *)
(* run_verify.py rejects as invalid or incomplete, or a torn one.          *)
Line == [kind : {"good", "short", "torn"}, index : Indexes]

ASSUME JudgeAssumption ==
    /\ Indexes \subseteq Nat
    /\ \A f \in Inputs : f \in Seq(Line)
    /\ Expected \in Nat \ {0} /\ MaxPending \in Nat \ {0}
    /\ {"none", "clean", "torn"} \cap Jobs = {}
    /\ MultiByte \in BOOLEAN

VARIABLES
    input,    \* input_file, which does not change
    out,      \* output_file: verdicts <<index, correct_count>>
    opened,   \* output_file exists
    flag,     \* stop_files/verify_<i>.flag exists
    pc,       \* job -> what it is doing; "free": there is no such job
    todo,     \* job -> numbers of the lines that have no result in it
    writing   \* job -> <<line number, correct_count>> being written

judgeVars == <<input, out, opened, flag, pc, todo, writing>>

Counts == 0 .. Expected
F == INSTANCE JsonlFile WITH Keys <- Indexes \X Counts, Writers <- Jobs
Cuts == IF MultiByte THEN BOOLEAN ELSE {FALSE}
Lines == DOMAIN input

JudgeTypeOK ==
    /\ input \in Inputs
    /\ out \in F!File
    /\ opened \in BOOLEAN
    /\ flag \in BOOLEAN
    /\ pc \in [Jobs -> {"free", "work", "write"}]
    /\ todo \in [Jobs -> SUBSET Lines]
    /\ writing \in [Jobs -> {<<>>} \cup (Lines \X Counts)]

JudgeInit ==
    /\ input \in Inputs
    /\ out = F!FileWith({})
    /\ opened = FALSE
    /\ flag = FALSE
    /\ pc = [j \in Jobs |-> "free"]
    /\ todo = [j \in Jobs |-> {}]
    /\ writing = [j \in Jobs |-> <<>>]

(* Mutant: a line that does not parse takes the index it would have had. *)
IndexAsMeant(n) == input[n].index

(* iter_input_records: a line that does not parse is a record of its own,  *)
(* whose index is its line number with a minus sign.                       *)
IndexOf(n) == IF input[n].kind = "torn" THEN -n ELSE input[n].index

(* load_existing_indexes *)
Existing == {i \in Indexes : \E c \in Counts : <<i, c>> \in out.keys}

Work == {n \in Lines : IndexOf(n) \notin Existing}

EnoughIndexes == Cardinality(Existing) >= Len(input)

-----------------------------------------------------------------------------
JobEnds(j) ==
    /\ pc' = [pc EXCEPT ![j] = "free"]
    /\ todo' = [todo EXCEPT ![j] = {}]
    /\ writing' = [writing EXCEPT ![j] = <<>>]

(* A job that was submitted, or queued, before the flag was there looks at *)
(* no flag; one that can not decode the output file raises at once.        *)
Begins(j) == pc[j] = "free" /\ ~F!Undecodable(out)

NothingLeft(j) ==
    /\ Begins(j) /\ Work = {}
    /\ flag' = TRUE
    /\ UNCHANGED <<input, out, opened, pc, todo, writing>>

Load(j) ==
    /\ Begins(j) /\ Work # {}
    /\ opened' = TRUE
    /\ pc' = [pc EXCEPT ![j] = "work"]
    /\ todo' = [todo EXCEPT ![j] = Work]
    /\ UNCHANGED <<input, out, flag, writing>>

(* Samples are scheduled in the order of the file, one for each that ends. *)
Active(j) == {n \in todo[j] : Cardinality({m \in todo[j] : m < n}) < MaxPending}

(* Every judgment of the sample was given; the first piece of its verdict  *)
(* reaches the file.                                                       *)
Judge(j, n) ==
    /\ pc[j] = "work" /\ n \in Active(j)
    /\ input[n].kind = "good"
    /\ \E count \in Counts : writing' = [writing EXCEPT ![j] = <<n, count>>]
    /\ \E c \in Cuts : out' = F!BeginLine(out, j, c)
    /\ pc' = [pc EXCEPT ![j] = "write"]
    /\ UNCHANGED <<input, opened, flag, todo>>

EndVerdict(j) ==
    /\ pc[j] = "write"
    /\ out' = F!EndLine(out, j, <<IndexOf(writing[j][1]), writing[j][2]>>)
    /\ todo' = [todo EXCEPT ![j] = @ \ {writing[j][1]}]
    /\ writing' = [writing EXCEPT ![j] = <<>>]
    /\ pc' = [pc EXCEPT ![j] = "work"]
    /\ UNCHANGED <<input, opened, flag>>

(* The record was torn, invalid or short, or one of its requests failed:   *)
(* the result goes to failed_file.                                         *)
Fail(j, n) ==
    /\ pc[j] = "work" /\ n \in Active(j)
    /\ todo' = [todo EXCEPT ![j] = @ \ {n}]
    /\ UNCHANGED <<input, out, opened, flag, pc, writing>>

Count(j) ==
    /\ pc[j] = "work" /\ todo[j] = {} /\ ~F!Undecodable(out)
    /\ flag' = (flag \/ EnoughIndexes)
    /\ JobEnds(j)
    /\ UNCHANGED <<input, out, opened>>

(* Killed, or raising at the end over a file that does not decode. *)
JobEndsEarly(j) ==
    /\ pc[j] # "free"
    /\ out' = F!Abandon(out, j)
    /\ JobEnds(j)
    /\ UNCHANGED <<input, opened, flag>>

JudgeNext ==
    \E j \in Jobs :
       \/ NothingLeft(j) \/ Load(j) \/ EndVerdict(j) \/ Count(j) \/ JobEndsEarly(j)
       \/ \E n \in Lines : Judge(j, n) \/ Fail(j, n)

JudgeSpec == JudgeInit /\ [][JudgeNext]_judgeVars

(* The flag means that every line of the rollout file parsed and has a     *)
(* verdict.  A torn line, or one without a usable record for its index,    *)
(* keeps the split open for ever: its jobs are submitted again and again.  *)
FlagMeansJudged ==
    flag => \A n \in Lines : input[n].kind # "torn" /\ input[n].index \in Existing

(* What has a verdict was a usable record of the rollout file. *)
VerdictsAreEarned ==
    \A i \in Existing : \E n \in Lines : input[n].kind = "good" /\ input[n].index = i
=============================================================================
