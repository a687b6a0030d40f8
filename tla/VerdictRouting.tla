----------------------------- MODULE VerdictRouting -----------------------------
(***************************************************************************)
(* Where the verdicts on a split send its samples.  The verify_response    *)
(* file of a CompassVerify stage grows while jobs append to it; two        *)
(* programs, which the operator may run at any time, read it line by line, *)
(* with rules of their own, and write their results some time later:       *)
(* extract_*_correct_rollouts.py takes samples with a correct rollout into *)
(* the final data of the stage, and extract_9b_all_wrong_to_27b_splits.py  *)
(* or build_122b_tmp_splits.py sends those without one to the next model.  *)
(***************************************************************************)
EXTENDS Integers, Sequences, FiniteSets

CONSTANTS
    Keys,      \* the ids of the split's samples
    Rollouts,  \* the rollout ids of a sample
    Jobs,      \* verification jobs that may overlap
    MaxLines   \* bound: lines of the verify file

ASSUME RoutingAssumption == IsFiniteSet(Keys) /\ IsFiniteSet(Rollouts) /\ MaxLines \in Nat

VARIABLES
    stage,            \* "9b" or "27b": which pair of programs
    verify,           \* the lines of the verify file
    todo,             \* job -> keys it still has to verify
    correctSplit,     \* <out>/splits/<i>.parquet
    correctRollouts,  \* <out>/rollouts/<i>.jsonl
    wrong,            \* the split of all-wrong samples for the next model
    checked,          \* the --expected-total the last build ended well with
    prog              \* the program that runs: what it has read and still has to do

vars == <<stage, verify, todo, correctSplit, correctRollouts, wrong, checked, prog>>
results == <<correctSplit, correctRollouts, wrong, checked, prog>>

(* A line: the verdict on a sample and its rollouts judged correct, or one *)
(* that does not parse.                                                    *)
Line == [parses : BOOLEAN, key : Keys, valid : BOOLEAN, good : SUBSET Rollouts]

(* A file is <<>> while it does not exist, <<content>> afterwards. *)
NoFile == <<>>

Content(f) == IF f = NoFile THEN {} ELSE f[1]
FileOf(T)  == {NoFile} \cup {<<c>> : c \in T}

Idle == [name |-> "idle"]

(* --expected-total; a negative one is not checked. *)
Totals == -1 .. Cardinality(Keys)

(* Only the program that runs has what it has read. *)
Building == {"build", "chosen", "built"}

ProgOK ==
    /\ prog.name \in {"idle", "extract", "rollouts", "all wrong"} \cup Building
    /\ prog.name \in {"extract", "rollouts"} => \A p \in prog.rollouts : p[1] \in Keys
    /\ prog.name \in {"all wrong", "chosen"} => prog.keys \in SUBSET Keys
    /\ prog.name \in Building => prog.total \in Totals
    /\ prog.name = "built" => wrong # NoFile

TypeOK ==
    /\ stage \in {"9b", "27b"}
    /\ verify \in Seq(Line) /\ Len(verify) <= MaxLines
    /\ todo \in [Jobs -> SUBSET Keys]
    /\ correctSplit \in FileOf(SUBSET Keys)
    /\ \A p \in Content(correctRollouts) : p[1] \in Keys
    /\ wrong \in FileOf(SUBSET Keys)
    /\ checked \in FileOf(0 .. Cardinality(Keys))
    /\ ProgOK

Init ==
    /\ stage \in {"9b", "27b"}
    /\ verify = <<>>
    /\ todo = [j \in Jobs |-> {}]
    /\ correctSplit = NoFile /\ correctRollouts = NoFile
    /\ wrong = NoFile /\ checked = NoFile
    /\ prog = Idle

Lines == DOMAIN verify
LinesOf(k)    == {n \in Lines : verify[n].parses /\ verify[n].key = k}
ValidLines(k) == {n \in LinesOf(k) : verify[n].valid}
AllParse == \A n \in Lines : verify[n].parses
IsLast(n, lines) == n \in lines /\ \A m \in lines : m <= n

-----------------------------------------------------------------------------
(***************************************************************************)
(* The verify file, as the jobs of CompassVerify leave it                  *)
(***************************************************************************)
Done == {k \in Keys : ValidLines(k) # {}}

(* A job looks once for what is done.  A job may still run when the next   *)
(* one starts: it was cancelled and has not died.                          *)
Load(j) ==
    /\ todo[j] = {} /\ Done # Keys
    /\ todo' = [todo EXCEPT ![j] = Keys \ Done]
    /\ UNCHANGED <<stage, verify, results>>

(* Every result is appended, an invalid one as well; a line is lost to a   *)
(* torn one.  An invalid result may count correct rollouts (a record with  *)
(* too few responses) or none (no judgment could be parsed).               *)
Result(j, k) ==
    /\ k \in todo[j] /\ Len(verify) < MaxLines
    /\ \E parses, valid \in BOOLEAN, good \in SUBSET Rollouts :
          /\ ~parses => ~valid /\ good = {}
          /\ verify' = Append(verify, [parses |-> parses, key |-> k, valid |-> valid, good |-> good])
    /\ todo' = [todo EXCEPT ![j] = @ \ {k}]
    /\ UNCHANGED <<stage, results>>

JobDies(j) ==
    /\ todo[j] # {}
    /\ todo' = [todo EXCEPT ![j] = {}]
    /\ UNCHANGED <<stage, verify, results>>

-----------------------------------------------------------------------------
(***************************************************************************)
(* extract_9b_correct_rollouts.py, extract_27b_correct_rollouts.py         *)
(***************************************************************************)
(* Mutant: verify_valid is not looked at. *)
PositiveLinesOfAny(k) == {n \in LinesOf(k) : verify[n].good # {}}

PositiveLines(k) == {n \in ValidLines(k) : verify[n].good # {}}

(* Mutant: the first verdict on a sample is the one that counts. *)
CorrectByFirst ==
    {k \in Keys : \E n \in PositiveLines(k) : \A m \in ValidLines(k) : n <= m}

(* load_verify_correct_rollout_ids: a line that counts none does not undo  *)
(* an earlier one that counts some.                                        *)
CorrectKeys == {k \in Keys : PositiveLines(k) # {}}
GoodIds(k) == verify[CHOOSE n \in PositiveLines(k) : IsLast(n, PositiveLines(k))].good

Extract(overwrite) ==
    /\ prog = Idle
    /\ stage = "9b" => AllParse
    /\ overwrite \/ (correctSplit = NoFile /\ correctRollouts = NoFile)
    /\ prog' = [name |-> "extract", rollouts |-> {<<k, GoodIds(k)>> : k \in CorrectKeys}]
    /\ UNCHANGED <<stage, verify, todo, correctSplit, correctRollouts, wrong, checked>>

(* The two files are replaced one after the other. *)
WriteCorrect ==
    /\ prog.name = "extract"
    /\ correctSplit' = <<{p[1] : p \in prog.rollouts}>>
    /\ prog' = [name |-> "rollouts", rollouts |-> prog.rollouts]
    /\ UNCHANGED <<stage, verify, todo, correctRollouts, wrong, checked>>

WriteRollouts ==
    /\ prog.name = "rollouts"
    /\ correctRollouts' = <<prog.rollouts>>
    /\ prog' = Idle
    /\ UNCHANGED <<stage, verify, todo, correctSplit, wrong, checked>>

(***************************************************************************)
(* extract_9b_all_wrong_to_27b_splits.py                                   *)
(***************************************************************************)
(* load_all_wrong_keys: the latest valid line of a sample counts. *)
LatestIsWrong(k) == \E n \in ValidLines(k) : IsLast(n, ValidLines(k)) /\ verify[n].good = {}

AllWrong == {k \in Keys : LatestIsWrong(k)}

ExtractAllWrong(overwrite) ==
    /\ prog = Idle /\ stage = "9b" /\ AllParse
    /\ wrong = NoFile \/ overwrite
    /\ prog' = [name |-> "all wrong", keys |-> AllWrong]
    /\ UNCHANGED <<stage, verify, todo, correctSplit, correctRollouts, wrong, checked>>

WriteAllWrong ==
    /\ prog.name = "all wrong"
    /\ wrong' = <<prog.keys>>
    /\ prog' = Idle
    /\ UNCHANGED <<stage, verify, todo, correctSplit, correctRollouts, checked>>

(***************************************************************************)
(* build_122b_tmp_splits.py                                                *)
(***************************************************************************)
(* --overwrite unlinks first. *)
BuildStarts(overwrite, total) ==
    /\ prog = Idle /\ stage = "27b"
    /\ wrong = NoFile \/ overwrite
    /\ wrong' = NoFile /\ checked' = NoFile
    /\ prog' = [name |-> "build", total |-> total]
    /\ UNCHANGED <<stage, verify, todo, correctSplit, correctRollouts>>

(* Mutant: verify_by_key[key] = row, without a look whether it is there. *)
SomeLineEach == \A k \in Keys : LinesOf(k) # {}

OneLineEach == \A k \in Keys : Cardinality(LinesOf(k)) = 1

(* Lines that do not parse are skipped, but a sample with no line or with  *)
(* two is refused.  A sample whose line is invalid is left out.            *)
BuildReads ==
    /\ prog.name = "build"
    /\ OneLineEach
    /\ prog' = [name |-> "chosen", total |-> prog.total, keys |-> AllWrong]
    /\ UNCHANGED <<stage, verify, todo, correctSplit, correctRollouts, wrong, checked>>

BuildWrites ==
    /\ prog.name = "chosen"
    /\ wrong' = <<prog.keys>>
    /\ prog' = [name |-> "built", total |-> prog.total]
    /\ UNCHANGED <<stage, verify, todo, correctSplit, correctRollouts, checked>>

(* Mutant: only too many rows are an error. *)
TotalNotExceeded(total) == Cardinality(wrong[1]) <= total

TotalMatches(total) == Cardinality(wrong[1]) = total

(* With another total the program raises, and leaves its files in place. *)
BuildEnds ==
    /\ prog.name = "built"
    /\ checked' = IF prog.total >= 0 /\ TotalMatches(prog.total) THEN <<prog.total>> ELSE NoFile
    /\ prog' = Idle
    /\ UNCHANGED <<stage, verify, todo, correctSplit, correctRollouts, wrong>>

(* A program is killed, or raises before it has changed anything more. *)
Killed ==
    /\ prog # Idle
    /\ prog' = Idle
    /\ UNCHANGED <<stage, verify, todo, correctSplit, correctRollouts, wrong, checked>>

Next ==
    \/ \E j \in Jobs : Load(j) \/ JobDies(j) \/ \E k \in Keys : Result(j, k)
    \/ \E overwrite \in BOOLEAN :
          \/ Extract(overwrite) \/ ExtractAllWrong(overwrite)
          \/ \E total \in Totals : BuildStarts(overwrite, total)
    \/ WriteCorrect \/ WriteRollouts \/ WriteAllWrong
    \/ BuildReads \/ BuildWrites \/ BuildEnds \/ Killed

Spec == Init /\ [][Next]_vars

-----------------------------------------------------------------------------
(***************************************************************************)
(* Properties                                                              *)
(***************************************************************************)
JudgedTwice == \E k \in Keys : Cardinality(ValidLines(k)) > 1
Verified == Done = Keys /\ \A j \in Jobs : todo[j] = {}

(* A sample is never both in the final data of its stage and on its way to *)
(* the next model, however early, late, often or interrupted the programs  *)
(* run while verdicts still come in; unless it got two valid verdicts.     *)
RoutedOnce ==
    ~JudgedTwice =>
        \A k \in Content(wrong) :
            k \notin Content(correctSplit) /\ \A p \in Content(correctRollouts) : p[1] # k

(* Once a split is verified the two readers, each with its own rule for    *)
(* samples with several verdicts, leave no sample out between them.        *)
NobodyLeftOut == Verified => \A k \in Keys : k \in CorrectKeys \/ LatestIsWrong(k)

(* A build that ran too early is found out by its total alone: if it ended *)
(* well with the total of the finished verify file, it selected just the   *)
(* samples that are all wrong in the end.                                  *)
TotalIsEnough ==
    Verified /\ ~JudgedTwice =>
        (checked = <<Cardinality(AllWrong)>> => wrong = <<AllWrong>>)

(* A sample that was judged invalid and then, as the launcher means it to  *)
(* be, judged again blocks the build for 122B of its split for good; only  *)
(* a build that has read the verify file before that still writes it.      *)
Retried == stage = "27b" /\ \E k \in Keys : Cardinality(LinesOf(k)) > 1
MayWrite == prog.name = "chosen"

RetryBlocksBuild ==
    [][Retried /\ ~MayWrite => ~MayWrite' /\ wrong' \in {wrong, NoFile}]_vars
=============================================================================
