----------------------------- MODULE CompassVerify -----------------------------
(***************************************************************************)
(* One split of a CompassVerifier stage (compass_verify_122b; the 9b and   *)
(* 27b stages and compassverify_sft_rollouts differ in what they require   *)
(* of a response's format): the Slurm jobs that its launcher runs one      *)
(* after the other, and in each the loop of run_verify.py over the records *)
(* of the rollout file that have no valid verdict yet.  Unlike a rollout   *)
(* worker, it appends every result to the output file, valid or not.       *)
(* The rollout file is complete and does not change (SplitJob has its      *)
(* flag); a record may be in it twice, because two jobs of the rollout     *)
(* stage overlapped.  The launcher's steps are SplitJob's.                 *)
(***************************************************************************)
EXTENDS Naturals, Sequences, FiniteSets, SequencesExt

CONSTANTS
    Keys,        \* record keys
    Rollouts,    \* the rollout files there may be, see RolloutFile
    Loose,       \* a final <answer>...</answer> is enough of a last line
    Expected,    \* expected_rollouts
    BatchSize,   \* batch_size
    Jobs,        \* names for the Slurm jobs alive at one time
    MultiByte,   \* whether results hold non-ASCII text
    MaxLosses,   \* bound: jobs lost, cancelled, or missed by a cleanup
    MaxRaises    \* bound: items whose verification raises

(* sentence: tags, and the last line is "Therefore, the final answer is    *)
(* <answer>...</answer>"; answer: tags, ends with <answer>...</answer>;    *)
(* trailing: text follows the answer; untagged: some tag is missing.       *)
Formats == {"sentence", "answer", "trailing", "untagged"}

(* input: record keys in the order of the file; responses: the formats of  *)
(* a record's responses; unparsable: records on which the verifier never   *)
(* gives a judgment that can be parsed.                                    *)
RolloutFile(f) ==
    /\ f.input \in Seq(Keys)
    /\ f.responses \in [Keys -> Seq(Formats)]
    /\ f.unparsable \subseteq Keys

ASSUME ConstantsAssumption ==
    /\ \A f \in Rollouts : RolloutFile(f)
    /\ Loose \in BOOLEAN /\ MultiByte \in BOOLEAN
    /\ Expected \in Nat \ {0} /\ BatchSize \in Nat \ {0}
    /\ {"none", "clean", "torn"} \cap Jobs = {}
    /\ MaxLosses \in Nat /\ MaxRaises \in Nat

VARIABLES
    rollout,  \* the rollout file, which does not change
    out,      \* output_path
    flag,     \* stop_path exists
    pc,       \* job -> what it is doing
    dying,    \* jobs that were cancelled and have not died yet
    todo,     \* job -> lines of the rollout file it still has to verify
    answer,   \* job -> the verifier's answer for the result it is writing
    beside,   \* history: some job was started while another one was there
    losses, raises

bounds == <<beside, losses, raises>>
vars   == <<rollout, out, flag, pc, dying, todo, answer, bounds>>

F == INSTANCE JsonlFile WITH Keys <- Keys \X BOOLEAN, Writers <- Jobs
Input      == rollout.input
Responses  == rollout.responses
Unparsable == rollout.unparsable
Recorded   == Range(Input)

Cuts == IF MultiByte THEN BOOLEAN ELSE {FALSE}

(* "B" stands for "C" as well: only "A" is told apart. *)
Labels == {"A", "B"}
Texts  == Labels \cup {""}
NoAnswer == [key |-> "none", texts |-> <<>>]
Pcs == {"free", "load", "verify", "write", "count"}

TypeOK ==
    /\ rollout \in Rollouts
    /\ out \in F!File
    /\ flag \in BOOLEAN
    /\ pc \in [Jobs -> Pcs]
    /\ dying \subseteq Jobs
    /\ todo \in [Jobs -> SUBSET (1 .. Len(Input))]
    /\ answer \in [Jobs -> [key : Keys \cup {"none"}, texts : Seq(Texts)]]
    /\ beside \in BOOLEAN
    /\ losses \in 0 .. MaxLosses /\ raises \in 0 .. MaxRaises

Init ==
    /\ rollout \in Rollouts
    /\ out = F!FileWith({})
    /\ flag = FALSE
    /\ pc = [j \in Jobs |-> "free"]
    /\ dying = {}
    /\ todo = [j \in Jobs |-> {}]
    /\ answer = [j \in Jobs |-> NoAnswer]
    /\ beside = FALSE
    /\ losses = 0 /\ raises = 0

-----------------------------------------------------------------------------
(***************************************************************************)
(* The judgment of one record                                              *)
(***************************************************************************)
(* check_rollout_format *)
FormatValid(f) == f = "sentence" \/ (Loose /\ f = "answer")

(* The responses that are sent to the verifier, in their order, and the    *)
(* place that each has in prompts and in prompt_task_indices.              *)
Prompted(k) == {i \in 1 .. Len(Responses[k]) : FormatValid(Responses[k][i])}
Prompts(k)  == Cardinality(Prompted(k))
PlaceOf(k, i) == Cardinality(Prompted(k) \cap (1 .. i))

(* Mutant: task_idx = start + offset, right only when nothing is skipped. *)
TaskOfPosition(k, p) == p

(* task_idx of the p-th prompt, found through its batch and its offset. *)
TaskOf(k, p) ==
    LET start  == ((p - 1) \div BatchSize) * BatchSize
        offset == p - 1 - start
    IN  CHOOSE i \in Prompted(k) : PlaceOf(k, i) = start + offset + 1

(* verifier_texts_by_task, a dict; texts[p] is the output of prompt p.     *)
VerifierTexts(k, texts) == {<<TaskOf(k, p), texts[p]>> : p \in 1 .. Prompts(k)}

(* verifier_texts_by_task.get(i, "") *)
TextFor(said, i) ==
    IF \E e \in said : e[1] = i THEN (CHOOSE e \in said : e[1] = i)[2] ELSE ""

LabelOf(k, texts, i) ==
    LET text == TextFor(VerifierTexts(k, texts), i)
    IN  IF FormatValid(Responses[k][i]) /\ text # "" THEN text ELSE "B"

ParseFailures(k, texts) ==
    LET said == VerifierTexts(k, texts)
    IN  {i \in Prompted(k) : TextFor(said, i) = ""}

VerifyValid(k, texts) ==
    /\ Len(Responses[k]) = Expected
    /\ Cardinality(ParseFailures(k, texts)) < Expected

-----------------------------------------------------------------------------
(***************************************************************************)
(* Slurm jobs                                                              *)
(***************************************************************************)
JobEnds(j) ==
    /\ pc' = [pc EXCEPT ![j] = "free"]
    /\ dying' = dying \ {j}
    /\ todo' = [todo EXCEPT ![j] = {}]
    /\ answer' = [answer EXCEPT ![j] = NoAnswer]

Alive == {h \in Jobs : pc[h] # "free"}

(* The launcher submits while there is no flag, and waits for its job.  If *)
(* it was started again, jobs of the one before may be there: cancelled    *)
(* and not dead yet, or missed by a squeue or scancel that failed.         *)
StartJob(j) ==
    /\ ~flag
    /\ pc[j] = "free"
    /\ pc' = [pc EXCEPT ![j] = "load"]
    /\ beside' = (beside \/ Alive # {})
    /\ \/ Alive \subseteq dying /\ UNCHANGED losses
       \/ ~(Alive \subseteq dying) /\ losses < MaxLosses /\ losses' = losses + 1
    /\ UNCHANGED <<rollout, out, flag, dying, todo, answer, raises>>

(* A launcher started again cancels the job of the one before. *)
Cancel(j) ==
    /\ pc[j] # "free" /\ j \notin dying /\ losses < MaxLosses
    /\ dying' = dying \cup {j}
    /\ losses' = losses + 1
    /\ UNCHANGED <<rollout, out, flag, pc, todo, answer, beside, raises>>

JobKilled(j) ==
    /\ pc[j] # "free"
    /\ \/ j \in dying /\ UNCHANGED losses
       \/ j \notin dying /\ losses < MaxLosses /\ losses' = losses + 1
    /\ out' = F!Abandon(out, j)
    /\ JobEnds(j)
    /\ UNCHANGED <<rollout, flag, beside, raises>>

(***************************************************************************)
(* run_verify.py                                                           *)
(***************************************************************************)
FlagThere(j) ==
    /\ pc[j] = "load" /\ flag
    /\ JobEnds(j)
    /\ UNCHANGED <<rollout, out, flag, bounds>>

(* load_jsonl skips bad JSON; it does not survive bad UTF-8. *)
LoadRaises(j) ==
    /\ \/ pc[j] = "load" /\ ~flag
       \/ pc[j] = "count"
    /\ F!Undecodable(out)
    /\ JobEnds(j)
    /\ UNCHANGED <<rollout, out, flag, bounds>>

(* Mutants: no result is looked at; an invalid one is final as well. *)
NothingDone == {}
DoneIfAnyResult == {k \in Keys : \E v \in BOOLEAN : <<k, v>> \in out.keys}

Done == {k \in Keys : <<k, TRUE>> \in out.keys}

Remaining == {n \in 1 .. Len(Input) : Input[n] \notin Done}

(* The line that a job is at, its record, and the lines after it. *)
FirstOf(S) == CHOOSE n \in S : \A m \in S : n <= m
RecordAt(j) == Input[FirstOf(todo[j])]
NextLine(j) == todo' = [todo EXCEPT ![j] = @ \ {FirstOf(@)}]

(* Mutant: nothing to do, nothing to write. *)
NothingLeftNoFlag(j) ==
    /\ pc[j] = "load" /\ ~flag /\ ~F!Undecodable(out)
    /\ Remaining = {}
    /\ JobEnds(j)
    /\ UNCHANGED <<rollout, out, flag, bounds>>

NothingLeft(j) ==
    /\ pc[j] = "load" /\ ~flag /\ ~F!Undecodable(out)
    /\ Remaining = {}
    /\ flag' = TRUE
    /\ JobEnds(j)
    /\ UNCHANGED <<rollout, out, bounds>>

Load(j) ==
    /\ pc[j] = "load" /\ ~flag /\ ~F!Undecodable(out)
    /\ Remaining # {}
    /\ todo' = [todo EXCEPT ![j] = Remaining]
    /\ pc' = [pc EXCEPT ![j] = "verify"]
    /\ UNCHANGED <<rollout, out, flag, dying, answer, bounds>>

(* The verifier answers every prompt of the record, and the first piece of *)
(* the result reaches the file.                                            *)
Judge(j) ==
    /\ pc[j] = "verify" /\ todo[j] # {}
    /\ pc' = [pc EXCEPT ![j] = "write"]
    /\ UNCHANGED <<rollout, flag, dying, todo, bounds>>
    /\ LET k == RecordAt(j) IN
       \E texts \in [1 .. Prompts(k) -> IF k \in Unparsable THEN {""} ELSE Texts] :
          answer' = [answer EXCEPT ![j] = [key |-> k, texts |-> texts]]
    /\ \E c \in Cuts : out' = F!BeginLine(out, j, c)

Valid(j) == VerifyValid(answer[j].key, answer[j].texts)

(* The rest of the line; the next record. *)
EndResult(j) ==
    /\ pc[j] = "write"
    /\ pc' = [pc EXCEPT ![j] = "verify"]
    /\ NextLine(j)
    /\ answer' = [answer EXCEPT ![j] = NoAnswer]
    /\ LET k == answer[j].key IN
       out' = F!EndLine(out, j, <<k, Valid(j)>>)
    /\ UNCHANGED <<rollout, flag, dying, bounds>>

(* except Exception: the record goes to failed_path only. *)
ItemRaises(j) ==
    /\ pc[j] = "verify" /\ todo[j] # {}
    /\ raises < MaxRaises
    /\ NextLine(j)
    /\ raises' = raises + 1
    /\ UNCHANGED <<rollout, out, flag, pc, dying, answer, beside, losses>>

CloseFiles(j) ==
    /\ pc[j] = "verify" /\ todo[j] = {}
    /\ pc' = [pc EXCEPT ![j] = "count"]
    /\ UNCHANGED <<rollout, out, flag, dying, todo, answer, bounds>>

(* Distinct valid keys of the output against rows of the input. *)
EnoughKeys == Cardinality(Done) >= Len(Input)

Count(j) ==
    /\ pc[j] = "count" /\ ~F!Undecodable(out)
    /\ flag' = (flag \/ EnoughKeys)
    /\ JobEnds(j)
    /\ UNCHANGED <<rollout, out, bounds>>

-----------------------------------------------------------------------------
JobStep(j) ==
    \/ FlagThere(j) \/ LoadRaises(j) \/ NothingLeft(j) \/ Load(j)
    \/ Judge(j) \/ EndResult(j) \/ CloseFiles(j) \/ Count(j)

Next == \E j \in Jobs : StartJob(j) \/ JobStep(j) \/ ItemRaises(j) \/ Cancel(j) \/ JobKilled(j)

Spec == Init /\ [][Next]_vars

(* The launcher submits again when its job is gone, jobs run, Slurm ends a *)
(* cancelled job, and a record that can get a valid verdict gets one if it *)
(* is tried for ever.                                                      *)
Fairness ==
    /\ WF_vars(Alive \subseteq dying /\ \E j \in Jobs : StartJob(j))
    /\ \A j \in Jobs : WF_vars(JobStep(j)) /\ WF_vars(j \in dying /\ JobKilled(j))
    /\ \A k \in Keys :
          SF_vars(\E j \in Jobs : todo[j] # {} /\ RecordAt(j) = k /\ Judge(j) /\ Valid(j)')

FairSpec == Spec /\ Fairness

-----------------------------------------------------------------------------
(***************************************************************************)
(* Properties                                                              *)
(***************************************************************************)

(* The stop flag means that every record of the rollout file has a valid   *)
(* result, also when records are repeated on either side.                  *)
FlagMeansVerified == flag => \A k \in Recorded : <<k, TRUE>> \in out.keys

(* A verdict is filed under the response it was given for, although the    *)
(* responses with a bad format are left out of the batches: the p-th text  *)
(* belongs to the p-th response that is well formed, and a response the    *)
(* verifier was not asked about is never counted correct.                  *)
JudgedOnItsOwn ==
    \A j \in Jobs : pc[j] = "write" =>
        LET k   == answer[j].key
            own == Responses[k]
        IN  \A i \in 1 .. Len(own) :
               LabelOf(k, answer[j].texts, i) = "A" <=>
                   /\ FormatValid(own[i])
                   /\ answer[j].texts[Cardinality({h \in 1 .. i : FormatValid(own[h])})] = "A"

(* A record with the wrong number of responses, or none of whose responses *)
(* gets a judgment that can be parsed, keeps its split open for ever.      *)
Hopeless(k) ==
    \/ Len(Responses[k]) # Expected
    \/ k \in Unparsable /\ \A i \in 1 .. Expected : FormatValid(Responses[k][i])

(* However many jobs were killed, over torn lines and failed items, a job  *)
(* that runs alone does not have a record verified again whose result is   *)
(* valid, unless the rollout file repeats it: until a job is started       *)
(* beside another one, no record gets two valid results.                   *)
NoRepeatedVerdict ==
    ~beside => \A k \in Keys :
        <<k, TRUE>> \in out.repeated => Cardinality({n \in 1 .. Len(Input) : Input[n] = k}) > 1

(* Retrying ends with the flag, also for a rollout file with repeated      *)
(* records, whose rows outnumber the keys that a job can count; unless a   *)
(* record is hopeless or the output file has been spoiled.                 *)
Spoiled == out.garbled \/ out.cut = "torn"
EventuallyVerified ==
    (\A k \in Recorded : ~Hopeless(k)) /\ []~Spoiled => <>flag
=============================================================================
