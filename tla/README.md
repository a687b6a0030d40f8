# Multimodel_Reasoning in TLA+

A specification of the data pipeline in `src/Multimodel_Reasoning`, checked with
TLC on small instances and, where noted, proved with TLAPS for all of them.  The
rest of the repository (`src/verl`, `src/LlamaFactory`) is vendored, makes up nearly
all of its lines, and is not modelled.  Paths below are relative to `src/Multimodel_Reasoning`.

## 1. The system

A cascade of models (4B, 9B, 27B, 122B) answers multimodal questions; each stage
samples several rollouts per row, a verifier judges them, and the verdicts decide
which rows go on to the next model and which become training data.  Every stage is
cut into hundreds of *splits*, and every split is worked off by a chain of
preemptible Slurm jobs.  There is no database and no coordinator.  The whole state
is files on a shared file system, and the actors agree through them:

| state | written by | read by |
|---|---|---|
| `splits/<i>.parquet`, rows with an `index` | `split.py` | workers, all later programs |
| `<output_dir>/rollouts/<i>.jsonl`, one record per finished row | workers, append only | the next worker of the split, later stages |
| `<output_dir>/stop_files/rollout_<i>.flag` | workers | the launcher of the split |
| `verify_response/<i>.jsonl`, `shards/shard_<h>.jsonl`, verdicts and selected rollouts | verification and scoring jobs, append only | their next job, programs of the cascade |
| parquet files between the stages | programs run by hand | programs run by hand, the next stage |
| `<output_dir>/locks`: markers of reserved quota, the submit lock | launchers | all launchers of the stage |
| `squeue`, `scancel` | Slurm | launchers |

Components, what they keep and do, and what makes them correct:

* **Split job** (`launch.sh`, `scripts/single_job.sh`, `scripts/slurm_worker.sh`,
  `scripts/run_rollout.py`; copies in `4b_difficulty`, `9b_distill`, `27b_distill`,
  `122b_distill`, `sft_model_rollout`).  The launcher loops: test the flag, cancel
  old jobs, submit, wait for `srun`.  A job starts a vLLM server, reads the indexes
  that are recorded, keeps a window of samples in flight, appends one line per
  valid sample, and raises the flag when it *counts* as many indexes as rows.
  Hard: jobs die at any instruction, dying jobs overlap new ones, two launchers,
  torn lines.  Correct when the flag means every row is recorded, nothing is done
  twice without need, and retrying ends.
* **Quota launcher** (`count_reserved_active_jobs`, `pick_quota` and the locked
  section of `single_job.sh`; mapped to the copy of `sft_model_rollout`).  All launchers of a stage share
  `reserved_min_running` places of reserved quota.  Hard: check-then-act over
  `squeue` and marker files, killed launchers whose children live on, a failing `squeue`.
  Correct when the bound holds, no marker outlives its use, and nobody waits for the lock
  for ever.
* **Rollout requests** (`generate_one_sample`, `request_one_rollout`).  A sample is
  `rollouts_per_sample` concurrent requests with retries, timeouts and a limited
  number of connections.  Correct when what is written as valid is what will be
  counted as done, and is really answered.
* **Split preparation** (`scripts/split.py`).  Cuts row groups into splits and
  numbers the rows, in a pool of processes, with `--resume` and `--overwrite`.
  Correct when each row gets its own place as its index, and a run that ends well
  leaves whole files.
* **CompassVerify jobs** (`compass_verify_*/`, `compassverify_sft_rollouts/`).
  Judge the rollouts of a split in batches, append valid and invalid verdicts.
  Correct when the flag means verified and a verdict belongs to its response.
* **27B judge** (`27b_verify/scripts/run_verify.py`).  Judges every line of a rollout
  file over HTTP and appends a count of correct rollouts per index.  Hard: a torn line
  of its input counts as an input; its flag is a count again.  Correct when the flag
  means that all lines are judged.
* **Cascade programs**, run by hand over what the jobs have written.
  `27b_verify/filter_parquet_by_verify.py`, `merge_filter_splits.py` and
  `split_final_to_400.py` turn verdicts into the input of the 9B stage;
  `extract_*_correct_rollouts.py` and `extract_9b_all_wrong_to_27b_splits.py`
  (`122b_distill/oper/build_122b_tmp_splits.py` in the next stage) split the samples of a
  stage into final data and work for the next model.  Hard: files written in place,
  sources that are deleted, programs killed and repeated with other options, readers of
  one file with different rules while jobs still append.  Correct when no row is lost,
  doubled or sent two ways.
* **Best-of-n** (`27b_distill/best-of-n`, the same code in `9b_distill`).  Jobs score the correct
  rollouts of a sample and append the best to a shard; two programs merge the shards
  back into splits.  Hard: overlapping jobs choose differently, a strict reader after a
  tolerant writer.  Correct when the flag means scored and all outputs agree.
* **Final builders**, **status reports**, **prompts and configuration**, **evaluation**
  (`eval/`), **RL reward and launch scripts** (`rl/`, `opd/`): not modelled; see
  section 7.

## 2. Modules

| module | models | composed with |
|---|---|---|
| `JsonlFile` | the append-only result file: torn, glued and undecodable lines | instantiated by `SplitJob`, `CompassVerify`, `JudgeJob`, `BestOfN` |
| `SplitJob` | one split, from launcher to flag | |
| `SplitPromise` | what a split promises its readers: record rows, then raise the flag once | refined by `SplitJob` |
| `QuotaLauncher` | all launchers of a stage, the lock, the markers, `squeue` | |
| `SampleRollouts` | the requests behind the samples of one worker | |
| `SplitPlan` | the arithmetic of `split.py` | |
| `SplitBuild` | the program `split.py` and its files, run again and again | |
| `CompassVerify` | the verification jobs of one split | |
| `JudgeJob` | the jobs of the 27B judge on one split | |
| `JudgeCascade` | filter, merge and cut, over the files of `JudgeJob` | extends `JudgeJob` |
| `VerdictRouting` | the verify file of a stage and the programs that keep or pass on its samples | |
| `BestOfN` | scoring jobs, shards, and the programs that merge them | |
| `SplitJobProofs`, `QuotaLauncherProofs`, `SampleRolloutsProofs`, `CompassVerifyProofs`, `VerdictRoutingProofs`, `BestOfNProofs` | theorems | extend their modules |
| `SplitPreparationProofs` | theorems about `SplitPlan` and about `SplitBuild` | extends both |
| `JudgeCascadeProofs` | theorems about `JudgeJob` and about `JudgeCascade` | extends `JudgeCascade` |
| `MC*` | the instances TLC checks | |

How state and actions correspond to the code (`PROJECT.json` has the lines):

* **`JsonlFile`.**  A record is longer than the write buffer of Python's text files,
  so it reaches the file in two pieces, `BeginLine` and `EndLine`.  A process that
  dies between them leaves a torn line; the next append is glued to it and neither
  parses.  A piece may end inside a multi-byte character; `cut` says whose piece that is.
  Its writer completes the character with its own next piece, anything else that follows
  garbles the file.  `load_existing_indexes` skips lines that are not JSON but iterates over
  a text-mode file, and the `UnicodeDecodeError` of a bad byte is not caught: `Undecodable`.
* **`SplitJob`.**  `lpc` and `srun` are the launcher's place in its `while true` and
  the job it waits for; `jpc`, `todo`, `active`, `writing` are one job's worker.
  `TestFlag`, `CleanupOldJobs`, `Submit`, `SrunReturns` are the loop of
  `single_job.sh`; `Allocate`, `JobKilled` are Slurm; `ServerReady`, `ServerFails` are
  the whole of vLLM's startup; `StartWork`, `BeginRecord`, `EndRecord`,
  `RecordInvalid`, `TaskRaises`, `Finish` are `process_split`.  `StopLauncher` and
  `Launch` are the README's "Stop" and the operator's next `launch.sh`.  `scancel`
  removes a queued job at once and only *marks* a running one (`cancelled`), which
  goes on until `JobKilled`.  A `squeue` that fails lists nothing and a `scancel` that
  fails is passed over, so `ScancelAll` reaches any of the jobs; `missed` remembers those
  that the latest cleanup has not reached.
* **`QuotaLauncher`.**  The locked section is four steps (`TakeLock`, `CountJobs`,
  `CountMarkersAndPick`, `MarkAndUnlock`) because it is not atomic without a lock.
  `Locked` is TRUE for the scripts that open descriptor 9 around the section and
  FALSE for those where the redirection comes too late.  The section is a subshell: when
  its launcher dies it goes on alone (`alone`), and when it is killed the `squeue`,
  `scontrol` or `find` it waits for still has descriptor 9, and with it the lock, for a
  while (`leaked`, `ChildEnds`).  `outlived` are reserved jobs of an earlier launch, which
  cleanups cancel or miss.  `Launch` is `launch.sh`, run when no launcher and no section is
  left.  `blind` only records that `squeue` has once said nothing.
* **`SampleRollouts`.**  `Connect` is aiohttp's connector; a request fails
  (`AttemptFails`) while it waits for a connection as well as when it is sent,
  because `request_timeout` covers both.  `Gather` is `asyncio.gather`, the record,
  and the next sample in one step of the event loop.
* **`SplitPlan`.**  `FirstGroup`/`LastGroup` are the bisections, `ReadGroup` one turn
  of the loop in `build_split_worker`, `EndSplit` the count check and the rename.  `Cursor`
  is the variable of that name in `row_group_bounds` and in `main`.
* **`SplitBuild`.**  A file is whole, of as many rows but others, of another cut, torn or
  absent, and every setup starts over any of them (in place, the files are the source).  A
  worker writes a temporary file (`BeginWrite`) and renames it (`EndWrite`); directory mode
  links or copies.  `kept` are the files that the run has passed over as complete.
* **`CompassVerify`.**  `Prompted`, `TaskOf`, `LabelOf` and `VerifyValid` are pure
  operators for the judgment of one record; `Load`, `Judge`, `EndResult`, `ItemRaises`,
  `Count` are `main`.  `answer` is the verifier's answer for the result a job is writing.
  `StartJob` may happen beside jobs that are dying, and beside one that a cleanup has
  missed; `beside` only records that it has.
* **`JudgeJob`.**  A line of the input is good, short of rollouts, or torn; `IndexOf` gives a
  torn one the negative number the code gives it.  `Judge` and `EndVerdict` append a
  verdict in two pieces, `Fail` is every way to `failed_*`, `Count` the comparison at the
  end.  Jobs overlap, and one that was queued before the flag starts after it: the program
  does not look at it.
* **`JudgeCascade`.**  One program runs at a time; `prog` is its name, its place, its options and
  what it has read.  A file is absent, torn, or whole with its rows.  Each file is opened and
  finished in two steps where the code writes under the final name, and the filter reads the
  verdicts of a split in a step before (`FilterReads`, `FilterOpens`, `FilterWrites`), while
  judge jobs append.  It looks at no flag: it may run as soon as there is a verify file
  (`First`).  `MergeDeletes` unlinks one split.  `Joined` is the rows of files read one after
  the other.  `Killed` may come between any two.  Three variables only record: `reached`
  how far the programs have got without an error, `chosen` what the filter last selected,
  `settled` that it read the verdicts on split 0 with the flag up and no judge job left.
* **`VerdictRouting`.**  `Result` is a verdict, valid or not, appended by one of several jobs;
  `todo` is read once at a job's start.  Every program reads in one step and writes in later
  ones, while jobs append: `Extract`, `WriteCorrect`, `WriteRollouts`; `ExtractAllWrong`,
  `WriteAllWrong`; `BuildStarts`, `BuildReads`, `BuildWrites`, `BuildEnds`.  `PositiveLines`
  and `LatestIsWrong` are the two rules by which they read.  `stage` selects the programs of
  9B or of 27B.
* **`BestOfN`.**  `Select` takes any rollout for the best.  `Loads` is the strict reader of both
  programs; a split file is written aside and renamed, so `WriteSplit` is one step.
  `prog.doomed` only records that a shard was spoiled when the program started.  Two
  assumptions: the programs are run one at a time, which is the order their README gives, and
  the shards start empty for one value of `num_shards`.

Some choices are made once, in `Init`, and never change; each run explores all of
them together: `bad` (rows whose image cannot be encoded), `keepFailed` (the policy
of 122b_distill against the others'), `setup` (the configuration of `split.py`) and
`rollout` (the rollout file).  In `SplitJob` a launcher may also be `"absent"` for
good: with two launcher names a run covers one launcher and the mistake of two.

## 3. Runs

| run | question |
|---|---|
| `SplitJob_safety` | Over stops and restarts of the launcher, two launchers at once, lost jobs, a failing `squeue` or `scancel`, torn lines and a bad image: is the flag sound (`FlagMeansComplete`), is the file resumed without repetition (`NoRepeatedRequest`), are jobs cleaned up (`OneWantedJob`, `NothingLeftRunning`), is a spoiled file really hopeless (`SpoiledNeverCompletes`), and is `SplitPromise` implemented (`PromiseSpec`)? |
| `SplitJob_progress` | Does the flag go up in the end (`EventuallyComplete`), with the window of samples kept full (`WindowIsFull`)? |
| `SplitJob_recut` | *violation*: records of another cut of the data count towards the flag. |
| `Quota_lock` | With a working lock, killed launchers whose sections or children live on, full stops and a mute `squeue`: `QuotaBound`, `NoStaleMarker`, and `EveryoneSubmits`: does whoever waits for the lock get it? |
| `Quota_unlocked` | *violation*: the same bound with the lock of 4b, 9b, 27b. |
| `Sample_requests` | What valid records mean (`ValidIsAnswered`), that they are counted (`ValidIsCounted`), that every sample gets its record. |
| `Plan_cut` | Every layout of row groups: `IndexIsSourceRow`, `PartitionInOrder`, `RaisesOnlyWhenEmpty`. |
| `Build_prepare` | What a run of `split.py` that ends well has prepared over any leftovers, for every kind of source (`DoneMeansPrepared`); that nothing half-written is seen, `--resume` gives nothing up, hopeless configurations never end well, every run ends. |
| `Compass_verify` | `FlagMeansVerified`, `JudgedOnItsOwn`, `NoRepeatedVerdict` with jobs that are cancelled, killed or missed, over repeated, short and unparsable records, and that retrying ends (`EventuallyVerified`). |
| `Judge_cascade` | Is the judge's flag sound over torn, short and repeated lines and with overlapping jobs (`FlagMeansJudged`)?  The filter may run at any time: when is what it selects final (`DoneSplitIsFinal`)?  Do the selected rows survive filter, merge and cut, killed anywhere and repeated with any options (`RowsSurvive`), and arrive once each and in order (`NineInOrder`)? |
| `Verdict_routing` | Over any verify file that overlapping jobs leave, with the programs run at any time: is a sample routed one way (`RoutedOnce`), is none left out (`NobodyLeftOut`), what does the expected total guarantee (`TotalIsEnough`), and what does a second line of a key do (`RetryBlocksBuild`)? |
| `Best_select` | Is a shard's flag sound (`FlagMeansScored`), do the outputs of both programs agree (`ChoicesAgree`), and does a spoiled shard keep them from writing (`SpoiledNeverMerges`)? |

What the checks show beyond "no error":

* The flag is sound although it is only a count, and although two launchers may run
  over one file: indexes are only ever added, and only rows of the split are added.
  It is unsound exactly when the file holds other rows to begin with; nothing
  clears the JSONL files when `split.py --overwrite` changes the cut (`SplitJob_recut`).
* Overlapping jobs can spoil a file for good: a record cut inside a character and never
  finished by its writer makes every later job raise before it does anything, and the
  launcher retries for ever.
  `SpoiledNeverCompletes` states this as a fact about the code, and
  `EventuallyComplete` has to exclude it.
* `cleanup_old_jobs` silences the failures of `squeue` and `scancel`: an old job may then go
  on beside the new one, or after the last launcher has left, and `OneWantedJob` and
  `NothingLeftRunning` except just these jobs (`missed`).  The flag does not depend on it.
* One unreadable image ends the worker, and each later one of the split; its
  finished lines stay whole.
* `QuotaBound` survives either a killed launcher (the jobs are still in `squeue`) or
  a failing `squeue` (the markers still stand), not both: `Trusted`.  `NoStaleMarker` holds
  until a launcher is killed; what a killed one leaves is cleared by the next `launch.sh`
  only.  The lock itself is never lost: what holds it after a kill ends (`EveryoneSubmits`).
* `CompassVerify`'s flag compares distinct keys with rows; with repeated rows the end
  of a job never raises it, the beginning of the next job does.
* A record with too few rollouts, or one the judge never answers in a form that
  parses, keeps its split open for ever: sound, but an operator has to notice.
* Writers are tolerant and readers are strict.  A job that dies inside a line does not
  keep its split or shard from showing its flag, but the filter of 27B and both
  programs after best-of-n raise over that line for ever (`Parses`, `SpoiledNeverMerges`):
  somebody has to edit the file.
* The same strictness makes overlapping scoring jobs harmless: a sample with two choices is
  a duplicate id, so that two outputs can not disagree (`ChoicesAgree`).
* The filter of 27B looks at no flag.  Run while the judge works, it writes a whole file with
  the rows judged so far; a later run with `--resume` keeps it, reads no verdict, and ends
  well, and the 9B stage lacks the rows that were judged in between.  `RowsSurvive` and
  `NineInOrder` are therefore about the rows that the filter *selected*: merge and cut lose,
  double and reorder none of them.  Only what it selected with the flag up and no judge job
  left is what it should be, and stays so (`DoneSplitIsFinal`); an operator has to wait for
  both, or to filter again with `--overwrite`.
* `RoutedOnce` holds although the two readers have different rules and no program looks at
  a flag, except for a sample that two overlapping jobs judged differently.  `NobodyLeftOut`
  compares what the two readers would take of the finished file; an output written before,
  which nothing makes them write again, is not its subject.
  `build_122b_tmp_splits.py` writes its files before it compares `--expected-total`; an
  equal total is nevertheless enough to know that the right samples are in them.
* In the 27B stage the retry of an invalid verdict, which CompassVerify does by design,
  gives its key two lines, and from then on the build for 122B refuses the split; only a
  build that has already read the file still writes (`RetryBlocksBuild`).
* The merge deletes its sources only when the final file is whole, so a kill costs at
  most a repeated run with `--overwrite`; over a partial set of splits it raises before
  it touches anything.

Some disagreements have no run of their own.  `--resume` in directory mode trusts any
file that is there, one of another cut or one that an interrupted `shutil.copy2` left torn
(its help says "Skip complete numeric split files."); with a source file it trusts one of as
many rows, of whatever source.  `DoneMeansPrepared` excludes just these, by name (`Trusted`),
and holds in full without `--resume`.  `HopelessIsNeverDone` says that a hopeless
configuration never ends well; that `--overwrite` in place loses the rows it does not mend.
A running reserved job is counted twice, by `squeue` and by its
marker, so spot quota is chosen before the first `reserved_min_running` places are
used, which is less than `sft_model_rollout/README.md` promises.  `split.py --overwrite`
over its own source directory unlinks the rows before it reads them.  The help of
`split_final_to_400.py --resume` says that valid files are skipped; the code writes all
of them again, and that is what makes `NineInOrder` true.  The best-of-n README merges
once every shard has stopped, which a spoiled shard makes impossible.  The README of
CompassVerify demands a last-line format that the code reads less strictly.

Each property of a passing run has a mutant in `PROJECT.json`: an operator standing
next to the one it replaces, marked "Mutant", that is a plausible bug of that code
and makes the property fail.

## 4. Bounds

* `SplitJob`: two rows and two job names for safety (a torn record, its glued
  neighbour and an overlap of a dying job with a new one need no more), three rows
  and a window of two for progress, so that there is always a row that waits; one
  loss and one stop.  Jobs are names that are used again, so the *number* of jobs is
  not bounded.  `MaxLosses` and `MaxStops` bound the environment, not the program.
* `QuotaLauncher`: three splits for two places, so that one must be refused; one
  stop or kill, so that jobs outlive their markers, a section its launcher, and the lock both.
  No symmetry, because the run checks a liveness property.
* `SampleRollouts`: three samples in a window of two, two rollouts each, three
  connections for four requests, two attempts.
* `SplitPlan`: at most four row groups of at most three rows, empty ones included, and
  up to five splits: splits inside a group, across groups, aligned, and empty.
* `SplitBuild`: three splits, two workers, three starts, two failures: a killed run, a
  second one over its leftovers, and a third; any mixture of leftovers to begin with.
* `CompassVerify`: two keys, three responses, batches of one, so that the responses
  left out of the batches shift every position.  Repeated, short and unparsable
  records are each in one of the files.  One job lost, cancelled or missed, and one item that
  raises.
* `JudgeCascade`: a split of two rows that is judged by two jobs and one whose verdicts are
  given; rollout files with a repeated, a torn and a short line; two counts of correct
  rollouts, one of them kept; two splits for the 9B stage, of uneven sizes.  Programs are not
  bounded in number.  The constraint `FilteredIfOneRow` lets the programs after the judge run
  only over the rollout file with a single line (the other row of its split has no usable
  image): that is enough for an early and a late filter, a torn verdict and every mixture of
  options, and the other files are for the judge's flag.
* `VerdictRouting`: two samples, two jobs, at most `MaxLines` = 4 lines, so that each sample can
  have two verdicts of any kind in any order, or one of them three.
* `BestOfN`: two splits in one shard and in two, two ids with two and one rollouts, two jobs; an id
  in two splits, an id without rollouts, an id without a record.

## 5. Fairness

Safety is checked without fairness.  For liveness:

* `SplitJob`: the launcher's shell loop and a worker's own steps are weakly fair (they
  are sequential programs that nothing suspends); so are Slurm starting a queued job
  and killing a cancelled one.  The operator starts a stopped launcher again.
  `ServerReady` is strongly fair (a server that is started again and again comes up),
  and so is `BeginRecord` per row (a row that is sampled again and again gets a valid
  set).  The code relies on these two: its only answer to a failure is to try again.
* `SampleRollouts`: an attempt ends by `request_timeout`, queued or sent; sleeping tasks
  wake.  Connections are *not* assumed fair: a request that never gets one fails.
* `QuotaLauncher`: a launcher that is not killed goes on, and so does a section that has lost
  its launcher; a program that inherited descriptor 9 ends; `flock` passes nobody over for
  ever (strong fairness of `TakeLock`).  Jobs need not end.
* `SplitBuild`: the program's own steps are weakly fair; kills and failed writes are not.
* `CompassVerify`: the launcher submits again, steps of a job are weakly fair, and a
  record that can get a valid verdict gets one if judged for ever.
* `JudgeJob`, `JudgeCascade`, `VerdictRouting` and `BestOfN` state no fairness: programs are
  run by hand, and that their jobs are retried until the flag is up is `SplitJob`'s.

## 6. Proofs

Every safety property that a passing run checks is also a theorem, for every value of
the constants that the modules' assumptions allow (`ConstantsAssumption`,
`PlanAssumption`, `JudgeAssumption`, `CascadeAssumption`, `RoutingAssumption`,
`BestOfNAssumption`); TLAPS checks them down to the last leaf.  The
assumptions say that sets of rows, launchers and keys are finite, that limits are natural
numbers, that the values used as markers (`"torn"`, `"clean"`) are not names of jobs, and
what a file that was there before may hold.  Some theorems have a hypothesis of their own:
`FlagIsSound`, `ExitIsSound` and `KeepsPromise` that `Leftover = {}` (no records of another
cut), `QuotaIsBounded` that `Locked` (descriptor 9 is opened around the section),
`HopelessIsNeverDoneHolds` that `Splits # {}` (a split preparation of nothing ends well over
any source).

* **`SplitJobProofs`.**  `TypeCorrect`.
  * `FlagIsSound`: `Leftover = {}` implies `Spec => []FlagMeansComplete`.  The inductive
    invariant is the type invariant, the property, and that a launcher that left has seen
    the flag (`LeaversSawFlag`).  It says nothing about jobs: the keys of the file are a
    subset of `Rows` and only grow, so a count of `Cardinality(Rows)` is reached only by
    all of them.  `ExitIsSound` is the same for the launcher's exit.
  * `KeepsPromise` is the refinement of `SplitPromise`: each step records one new row,
    raises the flag over a complete file, or stutters.
  * `SpoiledForGood`: the bad byte of a record cut inside a character, once its writer is gone
    or another has written, is never taken out of the file (`DamageIsForGood`, over what any
    job can do to it), and only a job that could read the file raises the flag (`FileStep`).
    This one needs no hypothesis.
  * `WindowStaysFull`, from an invariant on each job's rows (`RowsOfJobs`): those in flight
    and those to hand out are disjoint, and the window is full while rows wait.
  * `OneJobAtATime`: `CleanBeforeSubmit` strengthens it.  Jobs by themselves only leave, so
    nothing wanted but what the `scancel` missed (`Unasked` is empty) is there between the
    cleanup of a sole launcher and its submit.
    `NothingIsLeft` is inductive with the types: the last launcher to leave does so by its
    own cleanup, which asks every job that is there to end or misses it, and nobody is left to
    submit.
  * `NothingIsRepeated`: a sole launcher that nobody stops has no job but the one its `srun`
    waits for (`JobIsAwaited`), so what this job found unrecorded at its start stays so
    until it records it itself (`NothingRepeated`).
* **`QuotaLauncherProofs`.**  `QuotaIsBounded`: `Locked` implies `Spec => []QuotaBound`.  The
  bound alone is not inductive.  The key
  is `outlived`, the reserved jobs without a marker, of which there are some only once
  launchers were killed: a job starts with its marker in place (`MarkedInv`), so that the set
  grows only by a new launch, which clears the markers too; what a
  launcher counted in `squeue` stays an upper bound of it until the launcher decides
  (`CountedInv`), and nobody else chooses or marks while the lock is held (`LockInv`).
  When `squeue` has lied, nobody was ever killed and `outlived` is empty
  (`NoStopInv`).  A section that has lost its launcher is still a holder, and a lock that a
  dead section has left to a child keeps the others out (`LockInv`, `AloneInv`).
  `MarkersAreMeant` (`NoStaleMarker`) is inductive with the types and needs no lock: a
  launcher only sets and removes its own marker.
* **`SampleRolloutsProofs`.**  `TypeCorrect`, `ValidRecordsCount`, `ValidRecordsAnswered`,
  `InvalidRecordsExhausted`, `NoOrphanRequest`.  The invariant ties a request's state to its
  tries (failed exactly when they are used up), to the sample (only
  active samples have requests under way), and a record to the requests it was made from.
* **`SplitPreparationProofs`.**
  * Of `SplitPlan`: `PlanTypeCorrect`, `IndexIsSourceRowHolds`, `PartitionInOrderHolds`,
    `RaisesOnlyWhenEmptyHolds`.  Row groups follow each other and so do splits, which sum up
    to the source (`GroupsMeet`, `SplitsMeet`); bisection finds a window outside which no
    row of the split lies (`WindowOfSplit`); what the loop slices out of a group is the part
    of the split in it (`SliceOfGroup`).  `PlanInv` then says that just the rows before the
    cursor are written, each in its place, and that the cursor is as far as the row groups
    that were read, kept within the split (`Clip`).  It makes the last two properties
    follow from the end of the loop: all groups of the window read, the cursor is where the
    next split starts.
  * Of `SplitBuild`: `TypeCorrect`, `DoneMeansPreparedHolds`, `HopelessIsNeverDoneHolds`,
    `NeverTornHolds`, `ResumeKeepsWholeHolds`.  The invariant says where a split may be while
    the program works: waiting, in the pool, being written, or there, unless a worker
    raised (`FileInv`); linked, copied or trusted in directory mode (`DirectoryInv`); and
    which files are still to be unlinked while old ones are cleared (`ClearInv`).  In both
    modes only `--resume` alone ever finds a file to trust: otherwise what is left to do is
    absent.
* **`CompassVerifyProofs`.**  `TypeCorrect`, with any number of overlapping jobs: its
  strengthening `WriterInv` says that a job writing a result is still at the record the
  result is about.
  * `VerdictsAreFiled` (`JudgedOnItsOwn`): the `k`-th prompt of a batch belongs to the `k`-th
    response that was not left out (`PromptedFacts`), for all batch sizes.
  * `FlagIsSound`: keys in the file come from the input (`KeysFromInput`) and are never more
    than its different records, so as many keys as rows are all of them.
  * `VerdictsAreNotRepeated`: until a job is started beside another there is a single one,
    however many were killed (`SoleJob`, `BesideStays`), and a
    line it has still to verify has no valid verdict yet, unless another line of the input
    repeats its record (`OnceOrRepeated`).
* **`JudgeCascadeProofs`.**
  * `JudgeTypeCorrect`, `FlagMeansJudgedHolds`: what the file records comes from the lines to
    do (`VerdictsAreEarned`), for every job a line that it is writing (`WriteInv`), so as many
    different records as there are lines come from all
    of them (`CountIsEnough`).  `JudgeRunsFreely` shows `Spec => JudgeSpec`: these results
    hold whatever the later programs do.
  * `RowsSurviveHolds`, `NineInOrderHolds` follow from `OrderInv`, and say nothing of when the
    filter reads: what a program finds is compared with what the filter last selected.  A split
    is as it was selected from the time the filter is through with it (`FilterInv`), and only
    a run that begins at the first split and ends well counts; the merge deletes
    only over a whole final file, and has read before it whatever was there (`MergeInv`);
    the cut has written the shares of the splits before the one it is at (`CutInv`).  That the
    shares, joined, are the whole again is `SharesJoin`, which rests on division with
    remainder (`Division`) and on joining the parts of any cut (`JoinedCut`).
  * `DoneSplitIsFinalHolds`, from `SettledInv`: with the flag up and no job left, every line has
    a verdict, so that a job that starts later, by the judge's own invariant, finds nothing
    to do, and the file stays as it is (`DoneStays`).
* **`VerdictRoutingProofs`.**  `TypeCorrect`, `RoutedOnceHolds`, `NobodyLeftOutHolds`,
  `TotalIsEnoughHolds`, `RetryBlocksBuildHolds`.  What a program wrote was true of the file
  at some earlier time; the
  invariants say what stays true, of what it has read and of what it wrote, while lines are
  appended: a kept sample has a correct valid line, one that was passed on has a valid line without a correct rollout
  (`SourceInv`), and a checked total is that of the file it was checked against (`TotalInv`).
  For a sample with one valid line that decides where it belongs.  The samples passed on are
  then a subset of those that are all wrong in the end, and an equal total leaves none out.
  `RetryBlocksBuildHolds` only adds that two lines of a key stay two.
* **`BestOfNProofs`.**  `TypeCorrect`; `FlagMeansScoredHolds`, by the counting lemma again.
  `SpoiledNeverMergesHolds` needs more, because shards grow while a program reads them: as
  long as a doomed program reads, a bad line lies ahead of it, or a row ahead of it has the
  id of another row, ahead of it or read already (`Trap`).  A shard that loads leaves the
  trap ahead (`TrapAhead`), so that the last shard never loads.  `ChoicesAgreeHolds`
  (`ChosenInv`): each row that some program has written to a split file is still in a shard,
  so a program that is through all of them has read it, and with it no other row of that id.

Where a definition goes through numbers one by one (`Cursor` of `SplitPlan`, `Joined` of
`JudgeCascade`) it is a recursive function, and what it yields is shown by induction over
a *set* of numbers: the least number outside the set would have its predecessor inside
(`Induction`, from the well-foundedness of the natural numbers).  `CursorTable` and
`JoinedTable` first show that a function with the recursive equation exists.

Model-checked only: liveness (`EventuallyComplete`, `EveryoneSubmits`, `EverySampleRecorded`,
`RunsEnd`, `EventuallyVerified`), which rests on fairness and is outside what the provers handle.

## 7. Not modelled, and the plan

Abstracted everywhere: prompts, texts, wording, logs, progress bars, the content of
parquet files beyond rows and indexes, `failed_*` files that no program reads as work.
Status and statistics programs change nothing.  `LlamaFactory` and `verl` are third-party.

Within the modelled components: the startup of vLLM is one step of `SplitJob`; scores and
replies of a model are any of their outcomes; `split_pool_to_50.py`,
`merge_122b_tmp_splits.py`, `resplit_122b_distill_parquet.py` and `build_left_parquet.py`,
`split_left_parquet.py` cut and join files as the modelled programs do.  The final builders are
sequential and stop at the first mismatch of their counts.

What could be added, in the order of its weight:

1. `VllmStartup`: `slurm_worker.sh` in place of the step `ServerReady`/`ServerFails`.
2. `JudgeReward`: caps and failures of `qwen_science_judge_reward_strict.py` as a function,
   checked against its prompt's rubric; an outage of the judge gives the reward 0.0.
3. `RlLaunch`: trainer and verifier around the URL file.
4. `EvalRun`: startup and resumption of `eval/run.sh`, `run.py`.

Proofs to come: abstract specifications of the components that have none, with the
detailed ones shown to implement them, as `SplitJob` implements `SplitPromise`: of
`CompassVerify` and `JudgeJob`, whose readers rely on the same promise, and of `JudgeCascade`
(the 9B stage is the filtered source, cut).  And the steps towards liveness that are
safety: that a retried split loses no record (`SplitJob`), that each round of requests uses
up a try (`SampleRollouts`).

## 8. Running

In this directory, with TLC, the community modules and TLAPS:

    tlc -workers 2 -config SplitJob_safety.cfg MCSplitJob
    tlapm SplitJobProofs.tla

The longest runs take one to two minutes.  `CHECK_DEADLOCK FALSE` is set in every
configuration because every system here ends: launchers leave, programs exit.
