------------------------------ MODULE SplitJob ------------------------------
(***************************************************************************)
(* One split of a rollout stage, from the launcher that submits it to the  *)
(* stop flag that ends it:                                                 *)
(*   - single_job.sh, the submit/retry loop on the login node;             *)
(*   - the Slurm jobs it submits with a blocking srun, which may be        *)
(*     preempted, and which scancel only asks to end;                      *)
(*   - slurm_worker.sh and run_rollout.py inside a job, which resume from  *)
(*     the split's JSONL file, keep a window of samples in flight, append  *)
(*     a record per valid sample and write the stop flag.                  *)
(* The launcher's choice of quota is QuotaLauncher's, the requests behind  *)
(* one sample are SampleRollouts'.  The failed_rollouts file is a log that *)
(* no program of the pipeline reads back as work, and is left out.         *)
(***************************************************************************)
EXTENDS Naturals, FiniteSets

CONSTANTS
    Rows,        \* the "index" values of the split's parquet file
    Leftover,    \* indexes of other rows whose records the file holds at first
    BadImage,    \* rows whose image may be one that cannot be encoded
    Launchers,   \* instances of single_job.sh there may be for this split
    Jobs,        \* names for the Slurm jobs alive at one time
    MaxPending,  \* max_concurrent * max_pending_multiplier
    MultiByte,   \* whether records hold non-ASCII text
    MaxLosses,   \* bound: jobs lost to preemption, time limit or node failure
    MaxStops     \* bound: launchers stopped and started again

ASSUME ConstantsAssumption ==
    /\ Rows \subseteq Nat /\ IsFiniteSet(Rows)
    /\ Leftover \subseteq Nat \ Rows /\ IsFiniteSet(Leftover)
    /\ BadImage \subseteq Rows
    /\ IsFiniteSet(Launchers)
    /\ {"none", "clean", "torn"} \cap Jobs = {}
    /\ MaxPending \in Nat \ {0}
    /\ MultiByte \in BOOLEAN
    /\ MaxLosses \in Nat /\ MaxStops \in Nat

VARIABLES
    out,        \* output_file, the split's JSONL file
    flag,       \* STOP_FILE exists
    lpc,        \* launcher -> where it is in the loop of single_job.sh
    srun,       \* launcher -> the job its srun waits for
    jpc,        \* job -> what it is doing, "free" when there is no such job
    cancelled,  \* running jobs that were scancel'ed and have not died yet
    missed,     \* history: jobs the latest cleanup asked to end in vain
    todo,       \* job -> rows its iterator has not handed out yet
    active,     \* job -> rows with a task in flight
    writing,    \* job -> the row whose record it is writing, as a set
    bad,        \* rows whose image cannot be encoded; does not change
    losses, stops

fileVars   == <<out, flag>>
launchVars == <<lpc, srun>>
workVars   == <<todo, active, writing>>
asked      == <<cancelled, missed>>
jobVars    == <<jpc, asked, todo, active, writing>>
bounds     == <<bad, losses, stops>>
vars       == <<fileVars, launchVars, jobVars, bounds>>

Keys == Rows \cup Leftover
F == INSTANCE JsonlFile WITH Keys <- Keys, Writers <- Jobs

Cuts == IF MultiByte THEN BOOLEAN ELSE {FALSE}
LauncherPcs == {"absent", "down", "test", "cleanup", "submit", "wait", "leave", "exited"}
JobPcs == {"free", "pending", "boot", "load", "run", "write"}

TypeOK ==
    /\ out \in F!File
    /\ flag \in BOOLEAN
    /\ lpc \in [Launchers -> LauncherPcs]
    /\ srun \in [Launchers -> Jobs \cup {"none"}]
    /\ jpc \in [Jobs -> JobPcs]
    /\ cancelled \subseteq Jobs
    /\ missed \subseteq Jobs
    /\ todo \in [Jobs -> SUBSET Rows]
    /\ active \in [Jobs -> SUBSET Rows]
    /\ writing \in [Jobs -> SUBSET Rows]
    /\ bad \subseteq BadImage
    /\ losses \in 0 .. MaxLosses
    /\ stops \in 0 .. MaxStops

(* launch.sh was run once or, by mistake, more often; some image is bad or none. *)
Init ==
    /\ out = F!FileWith(Leftover)
    /\ flag = FALSE
    /\ lpc \in [Launchers -> {"absent", "test"}]
    /\ \E l \in Launchers : lpc[l] = "test"
    /\ bad \in SUBSET BadImage
    /\ srun = [l \in Launchers |-> "none"]
    /\ jpc = [j \in Jobs |-> "free"]
    /\ cancelled = {}
    /\ missed = {}
    /\ todo = [j \in Jobs |-> {}]
    /\ active = [j \in Jobs |-> {}]
    /\ writing = [j \in Jobs |-> {}]
    /\ losses = 0
    /\ stops = 0

Running == {j \in Jobs : jpc[j] \notin {"free", "pending"}}

(* Mutant: positions counted from one. *)
FirstRowsFromOne(S, k) == {i + 1 : i \in {h \in S : Cardinality({g \in S : g < h}) < k}}

(* The first k rows of S in file order. *)
FirstRows(S, k) == {i \in S : Cardinality({h \in S : h < i}) < k}

(***************************************************************************)
(* single_job.sh                                                           *)
(***************************************************************************)
TestFlag(l) ==
    /\ lpc[l] = "test"
    /\ lpc' = [lpc EXCEPT ![l] = IF flag THEN "leave" ELSE "cleanup"]
    /\ UNCHANGED <<fileVars, srun, jobVars, bounds>>

(* Mutant: squeue -t R, which does not list the queued jobs. *)
ListedRunning == Running

(* squeue by user and job name *)
Listed == {j \in Jobs : jpc[j] # "free"}

(* scancel for each job that squeue lists.  A squeue that fails lists      *)
(* nothing, a scancel that fails is passed over: any of the jobs may be    *)
(* missed.  A queued job is gone at once, a running one only knows that it *)
(* has to end.                                                             *)
ScancelAll ==
    \E reached \in SUBSET Listed :
        /\ jpc' = [j \in Jobs |-> IF j \in reached \ Running THEN "free" ELSE jpc[j]]
        /\ cancelled' = cancelled \cup (reached \cap Running)
        /\ missed' = Listed \ (reached \cup cancelled)

(* Mutant: the launcher leaves without looking for jobs. *)
CleanupBeforeSubmitOnly(l) ==
    /\ \/ lpc[l] = "cleanup" /\ lpc' = [lpc EXCEPT ![l] = "submit"] /\ ScancelAll
       \/ lpc[l] = "leave"   /\ lpc' = [lpc EXCEPT ![l] = "exited"] /\ UNCHANGED <<jpc, asked>>
    /\ UNCHANGED <<fileVars, srun, workVars, bounds>>

CleanupOldJobs(l) ==
    /\ \/ lpc[l] = "cleanup" /\ lpc' = [lpc EXCEPT ![l] = "submit"]
       \/ lpc[l] = "leave"   /\ lpc' = [lpc EXCEPT ![l] = "exited"]
    /\ ScancelAll
    /\ UNCHANGED <<fileVars, srun, workVars, bounds>>

Submit(l) ==
    /\ lpc[l] = "submit"
    /\ \E j \in Jobs :
          /\ jpc[j] = "free"
          /\ \A m \in Launchers : srun[m] # j
          /\ jpc' = [jpc EXCEPT ![j] = "pending"]
          /\ srun' = [srun EXCEPT ![l] = j]
    /\ lpc' = [lpc EXCEPT ![l] = "wait"]
    /\ UNCHANGED <<fileVars, asked, workVars, bounds>>

(* Mutant: set -e, under which an attempt that fails ends the script. *)
SrunReturnsOrEnds(l) ==
    /\ lpc[l] = "wait"
    /\ jpc[srun[l]] = "free"
    /\ srun' = [srun EXCEPT ![l] = "none"]
    /\ lpc' = [lpc EXCEPT ![l] = IF flag THEN "test" ELSE "exited"]
    /\ UNCHANGED <<fileVars, jobVars, bounds>>

SrunReturns(l) ==
    /\ lpc[l] = "wait"
    /\ jpc[srun[l]] = "free"
    /\ srun' = [srun EXCEPT ![l] = "none"]
    /\ lpc' = [lpc EXCEPT ![l] = "test"]
    /\ UNCHANGED <<fileVars, jobVars, bounds>>

(* The operator's "Stop jobs": pkill -9 of the launcher, then scancel. *)
StopLauncher(l) ==
    /\ stops < MaxStops
    /\ lpc[l] \notin {"absent", "down", "exited"}
    /\ stops' = stops + 1
    /\ lpc' = [lpc EXCEPT ![l] = "down"]
    /\ srun' = [srun EXCEPT ![l] = "none"]
    /\ \/ ScancelAll
       \/ UNCHANGED <<jpc, asked>>
    /\ UNCHANGED <<fileVars, workVars, bad, losses>>

(* launch.sh again *)
Launch(l) ==
    /\ lpc[l] = "down"
    /\ lpc' = [lpc EXCEPT ![l] = "test"]
    /\ UNCHANGED <<fileVars, srun, jobVars, bounds>>

(***************************************************************************)
(* slurm_worker.sh: preflight, vLLM start-up, then run_rollout.py          *)
(***************************************************************************)
JobEnds(j) ==
    /\ jpc' = [jpc EXCEPT ![j] = "free"]
    /\ cancelled' = cancelled \ {j}
    /\ missed' = missed \ {j}
    /\ todo' = [todo EXCEPT ![j] = {}]
    /\ active' = [active EXCEPT ![j] = {}]
    /\ writing' = [writing EXCEPT ![j] = {}]

Allocate(j) ==
    /\ jpc[j] = "pending"
    /\ jpc' = [jpc EXCEPT ![j] = "boot"]
    /\ UNCHANGED <<fileVars, launchVars, asked, workVars, bounds>>

ServerReady(j) ==
    /\ jpc[j] = "boot"
    /\ jpc' = [jpc EXCEPT ![j] = "load"]
    /\ UNCHANGED <<fileVars, launchVars, asked, workVars, bounds>>

(* Too little free GPU memory (exit 42), vLLM died or timed out (exit 1). *)
ServerFails(j) ==
    /\ jpc[j] = "boot"
    /\ JobEnds(j)
    /\ UNCHANGED <<fileVars, launchVars, bounds>>

(***************************************************************************)
(* run_rollout.py: process_split                                           *)
(***************************************************************************)
(* Mutant: the file is not consulted. *)
NothingExists == {}

(* load_existing_indexes: the indexes of the well-formed valid records.  *)
Existing == out.keys

(* Mutant: open(..., errors="replace"). *)
AlwaysReadable == TRUE

Readable == ~F!Undecodable(out)

(* Mutants: one row short; a file with any record counts. *)
AllButOneRecorded == Cardinality(Existing) + 1 >= Cardinality(Rows)
SomeRecorded == Existing # {}

AllRecorded == Cardinality(Existing) >= Cardinality(Rows)

(* load_existing_indexes raises on the way in or on the way out. *)
LoadRaises(j) ==
    /\ jpc[j] = "load" \/ (jpc[j] = "run" /\ active[j] = {})
    /\ ~Readable
    /\ JobEnds(j)
    /\ UNCHANGED <<fileVars, launchVars, bounds>>

AlreadyComplete(j) ==
    /\ jpc[j] = "load" /\ Readable
    /\ Rows \ Existing = {}
    /\ flag' = TRUE
    /\ JobEnds(j)
    /\ UNCHANGED <<out, launchVars, bounds>>

StartWork(j) ==
    /\ jpc[j] = "load" /\ Readable
    /\ LET work  == Rows \ Existing
           first == FirstRows(work, MaxPending)
       IN  /\ work # {}
           /\ active' = [active EXCEPT ![j] = first]
           /\ todo' = [todo EXCEPT ![j] = work \ first]
    /\ jpc' = [jpc EXCEPT ![j] = "run"]
    /\ UNCHANGED <<fileVars, launchVars, asked, writing, bounds>>

(* Mutant: the next row is scheduled only when nothing is left in flight. *)
ReplaceWhenEmpty(j, i) ==
    LET next == IF active[j] = {i} THEN FirstRows(todo[j], 1) ELSE {}
    IN  /\ active' = [active EXCEPT ![j] = (active[j] \ {i}) \cup next]
        /\ todo' = [todo EXCEPT ![j] = todo[j] \ next]

(* The task of row i is done: another row, if any is left, takes its place. *)
Replace(j, i) ==
    LET next == FirstRows(todo[j], 1)
    IN  /\ active' = [active EXCEPT ![j] = (active[j] \ {i}) \cup next]
        /\ todo' = [todo EXCEPT ![j] = todo[j] \ next]

BeginRecord(j, i) ==
    /\ jpc[j] = "run"
    /\ i \in active[j] \ bad
    /\ \E c \in Cuts : out' = F!BeginLine(out, j, c)
    /\ jpc' = [jpc EXCEPT ![j] = "write"]
    /\ writing' = [writing EXCEPT ![j] = {i}]
    /\ UNCHANGED <<flag, launchVars, asked, todo, active, bounds>>

EndRecord(j) ==
    /\ jpc[j] = "write"
    /\ \E i \in writing[j] :
          /\ out' = F!EndLine(out, j, i)
          /\ Replace(j, i)
    /\ jpc' = [jpc EXCEPT ![j] = "run"]
    /\ writing' = [writing EXCEPT ![j] = {}]
    /\ UNCHANGED <<flag, launchVars, asked, bounds>>

(* Some rollout of row i failed for good: the record goes to failed_file. *)
RecordInvalid(j, i) ==
    /\ jpc[j] = "run"
    /\ i \in active[j] \ bad
    /\ Replace(j, i)
    /\ UNCHANGED <<fileVars, launchVars, jpc, asked, writing, bounds>>

(* encode_image raises inside the task, task.result() raises it again. *)
TaskRaises(j) ==
    /\ jpc[j] = "run"
    /\ active[j] \cap bad # {}
    /\ JobEnds(j)
    /\ UNCHANGED <<fileVars, launchVars, bounds>>

(* Nothing left in flight: count the recorded indexes against the dataset. *)
Finish(j) ==
    /\ jpc[j] = "run" /\ active[j] = {}
    /\ Readable
    /\ flag' = (flag \/ AllRecorded)
    /\ JobEnds(j)
    /\ UNCHANGED <<out, launchVars, bounds>>

(* Killed at any point: by scancel, or lost for a reason of Slurm's own. *)
JobKilled(j) ==
    /\ j \in Running
    /\ \/ j \in cancelled /\ UNCHANGED losses
       \/ j \notin cancelled /\ losses < MaxLosses /\ losses' = losses + 1
    /\ out' = F!Abandon(out, j)
    /\ JobEnds(j)
    /\ UNCHANGED <<flag, launchVars, bad, stops>>

-----------------------------------------------------------------------------
LauncherStep(l) ==
    TestFlag(l) \/ CleanupOldJobs(l) \/ Submit(l) \/ SrunReturns(l) \/ Launch(l)

JobStep(j) ==
    \/ Allocate(j) \/ ServerReady(j)
    \/ LoadRaises(j) \/ AlreadyComplete(j) \/ StartWork(j)
    \/ EndRecord(j) \/ TaskRaises(j) \/ Finish(j)

Next ==
    \/ \E l \in Launchers : LauncherStep(l) \/ StopLauncher(l)
    \/ \E j \in Jobs : JobStep(j) \/ ServerFails(j) \/ JobKilled(j)
    \/ \E j \in Jobs, i \in Rows : BeginRecord(j, i) \/ RecordInvalid(j, i)

Spec == Init /\ [][Next]_vars

(***************************************************************************)
(* The launcher's shell loop and a job's own program are never suspended;  *)
(* Slurm starts a queued job, and ends a cancelled one, in the end; vLLM   *)
(* comes up if it is tried again and again; and a row whose image is fine  *)
(* gets a valid set of rollouts if it is tried again and again.            *)
(***************************************************************************)
Fairness ==
    /\ \A l \in Launchers : WF_vars(LauncherStep(l))
    /\ \A j \in Jobs : /\ WF_vars(JobStep(j))
                       /\ WF_vars(j \in cancelled /\ JobKilled(j))
                       /\ SF_vars(ServerReady(j))
    /\ \A i \in Rows : SF_vars(\E j \in Jobs : BeginRecord(j, i))

FairSpec == Spec /\ Fairness

-----------------------------------------------------------------------------
(***************************************************************************)
(* Properties                                                              *)
(***************************************************************************)

Started == {l \in Launchers : lpc[l] # "absent"}

(* One launcher, never stopped: its jobs come one after the other. *)
Undisturbed == Cardinality(Started) = 1 /\ stops = 0

(* The stop flag, which run_rollout.py derives from a count, means that    *)
(* every row of the split has a well-formed valid record in the file.      *)
FlagMeansComplete == flag => Rows \subseteq out.keys

(* A launcher leaves its loop only when the split is really complete,      *)
(* however many jobs were lost and however often it was started again.     *)
ExitMeansComplete ==
    \A l \in Launchers : lpc[l] = "exited" => flag /\ Rows \subseteq out.keys

(* The jobs that no launcher has asked to end. *)
Wanted == {j \in Jobs : jpc[j] # "free"} \ cancelled

(* One launcher never has two jobs of the split at work that it has not    *)
(* asked to end, but for those its latest cleanup asked to end in vain:    *)
(* cleanup_old_jobs finds the jobs of the launcher's earlier lives.        *)
OneWantedJob ==
    Cardinality(Started) = 1 => \A j, k \in Wanted \ missed : j = k

(* When every launcher has left, every job of the split that is still      *)
(* there has been asked to end, or the last cleanup tried to in vain: a    *)
(* finished split does not go on holding GPUs because nobody looked, also  *)
(* where two launchers cancelled each other's jobs.                        *)
NothingLeftRunning ==
    (\A l \in Started : lpc[l] = "exited") => Wanted \subseteq missed

(* Unless two jobs overlap, no row is requested again once it is recorded, *)
(* nor recorded twice, whatever was lost in between.                       *)
NoRepeatedRequest ==
    Undisturbed =>
        /\ out.repeated = {}
        /\ \A j \in Jobs : /\ (active[j] \cup todo[j]) \cap out.keys = {}
                           /\ active[j] \cap todo[j] = {}

(* No job has more samples in flight than max_concurrent * multiplier, and *)
(* a job that still has rows to hand out keeps its window full.            *)
WindowIsFull ==
    \A j \in Jobs :
        /\ Cardinality(active[j]) <= MaxPending
        /\ todo[j] # {} => Cardinality(active[j]) = MaxPending

(* A record cut inside a character by a lost job, and never finished by    *)
(* its writer, makes load_existing_indexes raise where it means to skip:   *)
(* no later attempt can complete the split or mend its file.               *)
Spoiled == out.garbled \/ out.cut = "torn"
SpoiledNeverCompletes == [][Spoiled /\ ~flag => Spoiled' /\ ~flag']_vars

(* Retrying ends, unless an image is bad or the file is spoiled: the flag  *)
(* goes up and the launcher leaves its loop.                               *)
EventuallyComplete ==
    bad = {} /\ []~Spoiled => <>flag /\ \A l \in Launchers : <>[](lpc[l] \in {"absent", "exited"})

(* The split as its readers see it. *)
Promise == INSTANCE SplitPromise WITH recorded <- out.keys \cap Rows, complete <- flag
PromiseSpec == Promise!Spec
=============================================================================
