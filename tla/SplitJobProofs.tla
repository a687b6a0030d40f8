--------------------------- MODULE SplitJobProofs ---------------------------
(***************************************************************************)
(* What holds of SplitJob for every split, window, number of launchers and *)
(* jobs, and any number of losses and stops.                               *)
(***************************************************************************)
EXTENDS SplitJob, FiniteSetTheorems, TLAPS

-----------------------------------------------------------------------------
(* The file's own operators. *)

(* Appending keeps the file well formed and never forgets a recorded key. *)
LEMMA FileOperators ==
    ASSUME NEW f \in F!File, NEW j \in Jobs, NEW k \in Keys, NEW c \in BOOLEAN
    PROVE  /\ F!BeginLine(f, j, c) \in F!File
           /\ F!EndLine(f, j, k) \in F!File
           /\ F!Abandon(f, j) \in F!File
           /\ F!BeginLine(f, j, c).keys = f.keys
           /\ F!EndLine(f, j, k).keys \in {f.keys, f.keys \cup {k}}
           /\ F!Abandon(f, j).keys = f.keys
<1>1. F!BeginLine(f, j, c) \in F!File /\ F!BeginLine(f, j, c).keys = f.keys
  BY DEF F!File, F!BeginLine
<1>2. F!EndLine(f, j, k) \in F!File /\ F!EndLine(f, j, k).keys \in {f.keys, f.keys \cup {k}}
  <2>1. CASE f.tail = j
    BY <2>1 DEF F!File, F!EndLine
  <2>2. CASE f.tail # j
    BY <2>2 DEF F!File, F!EndLine
  <2> QED
    BY <2>1, <2>2
<1>3. F!Abandon(f, j) \in F!File /\ F!Abandon(f, j).keys = f.keys
  BY DEF F!File, F!Abandon
<1> QED
  BY <1>1, <1>2, <1>3

(* The rows handed out first are rows of the set they are taken from. *)
LEMMA FirstRowsSubset ==
    ASSUME NEW S, NEW k
    PROVE  FirstRows(S, k) \subseteq S
BY DEF FirstRows

-----------------------------------------------------------------------------
(* Every variable keeps its type, through every loss, stop and relaunch. *)

LEMMA InitTypeOK == Init => TypeOK
<1> SUFFICES ASSUME Init PROVE TypeOK
  OBVIOUS
<1>1. F!FileWith(Leftover) \in F!File
  BY DEF F!FileWith, F!File, Keys
<1>2. 0 \in 0 .. MaxLosses /\ 0 \in 0 .. MaxStops
  BY ConstantsAssumption DEF ConstantsAssumption
<1> QED
  BY <1>1, <1>2 DEF Init, TypeOK, LauncherPcs, JobPcs

LEMMA JobEndsTypes ==
    ASSUME TypeOK, NEW j \in Jobs, JobEnds(j)
    PROVE  /\ jpc' \in [Jobs -> JobPcs]
           /\ cancelled' \subseteq Jobs /\ missed' \subseteq Jobs
           /\ todo' \in [Jobs -> SUBSET Rows]
           /\ active' \in [Jobs -> SUBSET Rows]
           /\ writing' \in [Jobs -> SUBSET Rows]
BY DEF TypeOK, JobEnds, JobPcs

LEMMA ReplaceTypes ==
    ASSUME TypeOK, NEW j \in Jobs, NEW i \in Rows, Replace(j, i)
    PROVE  /\ active' \in [Jobs -> SUBSET Rows]
           /\ todo' \in [Jobs -> SUBSET Rows]
<1>1. FirstRows(todo[j], 1) \subseteq Rows
  BY FirstRowsSubset DEF TypeOK
<1> QED
  BY <1>1 DEF TypeOK, Replace

LEMMA CutsBoolean == Cuts \subseteq BOOLEAN
BY DEF Cuts

LEMMA LauncherTypeOK ==
    ASSUME TypeOK, NEW l \in Launchers, LauncherStep(l) \/ StopLauncher(l)
    PROVE  TypeOK'
<1>1. CASE TestFlag(l)
  BY <1>1 DEF TypeOK, TestFlag, asked, LauncherPcs, fileVars, jobVars, bounds
<1>2. CASE CleanupOldJobs(l)
  BY <1>2 DEF TypeOK, CleanupOldJobs, ScancelAll, Listed, Running, LauncherPcs, JobPcs,
              fileVars, workVars, bounds
<1>3. CASE Submit(l)
  BY <1>3 DEF TypeOK, Submit, asked, LauncherPcs, JobPcs, fileVars, workVars, bounds
<1>4. CASE SrunReturns(l)
  BY <1>4 DEF TypeOK, SrunReturns, asked, LauncherPcs, fileVars, jobVars, bounds
<1>5. CASE Launch(l)
  BY <1>5 DEF TypeOK, Launch, asked, LauncherPcs, fileVars, jobVars, bounds
<1>6. CASE StopLauncher(l)
  <2>1. stops' \in 0 .. MaxStops
    BY <1>6, ConstantsAssumption DEF TypeOK, StopLauncher
  <2>2. jpc' \in [Jobs -> JobPcs] /\ cancelled' \subseteq Jobs /\ missed' \subseteq Jobs
    BY <1>6 DEF TypeOK, StopLauncher, ScancelAll, Listed, Running, JobPcs, asked
  <2> QED
    BY <1>6, <2>1, <2>2 DEF TypeOK, StopLauncher, LauncherPcs, fileVars, workVars
<1> QED
  BY <1>1, <1>2, <1>3, <1>4, <1>5, <1>6 DEF LauncherStep

LEMMA JobTypeOK ==
    ASSUME TypeOK, NEW j \in Jobs, JobStep(j) \/ ServerFails(j) \/ JobKilled(j)
    PROVE  TypeOK'
<1>1. CASE Allocate(j)
  BY <1>1 DEF TypeOK, Allocate, asked, JobPcs, fileVars, launchVars, workVars, bounds
<1>2. CASE ServerReady(j)
  BY <1>2 DEF TypeOK, ServerReady, asked, JobPcs, fileVars, launchVars, workVars, bounds
<1>3. CASE LoadRaises(j)
  BY <1>3, JobEndsTypes DEF TypeOK, LoadRaises, fileVars, launchVars, bounds
<1>4. CASE AlreadyComplete(j)
  BY <1>4, JobEndsTypes DEF TypeOK, AlreadyComplete, launchVars, bounds
<1>5. CASE StartWork(j)
  <2>1. FirstRows(Rows \ Existing, MaxPending) \subseteq Rows
    BY FirstRowsSubset
  <2> QED
    BY <1>5, <2>1 DEF TypeOK, StartWork, asked, JobPcs, fileVars, launchVars, bounds
<1>6. CASE EndRecord(j)
  <2>1. PICK i \in writing[j] : out' = F!EndLine(out, j, i) /\ Replace(j, i)
    BY <1>6 DEF EndRecord
  <2>2. i \in Rows /\ i \in Keys
    BY <2>1 DEF TypeOK, Keys
  <2>3. out' \in F!File
    BY <2>1, <2>2, FileOperators DEF TypeOK
  <2> QED
    BY <1>6, <2>1, <2>2, <2>3, ReplaceTypes
    DEF TypeOK, EndRecord, asked, JobPcs, launchVars, bounds
<1>7. CASE TaskRaises(j)
  BY <1>7, JobEndsTypes DEF TypeOK, TaskRaises, fileVars, launchVars, bounds
<1>8. CASE Finish(j)
  BY <1>8, JobEndsTypes DEF TypeOK, Finish, AllRecorded, launchVars, bounds
<1>9. CASE ServerFails(j)
  BY <1>9, JobEndsTypes DEF TypeOK, ServerFails, fileVars, launchVars, bounds
<1>10. CASE JobKilled(j)
  <2>1. losses' \in 0 .. MaxLosses
    BY <1>10, ConstantsAssumption DEF TypeOK, JobKilled
  <2>2. out' \in F!File
    <3>1. Rows = {} \/ \E i \in Rows : TRUE
      OBVIOUS
    <3> QED
      BY <1>10 DEF TypeOK, JobKilled, F!Abandon, F!File
  <2> QED
    BY <1>10, <2>1, <2>2, JobEndsTypes DEF TypeOK, JobKilled, launchVars
<1> QED
  BY <1>1, <1>2, <1>3, <1>4, <1>5, <1>6, <1>7, <1>8, <1>9, <1>10 DEF JobStep

LEMMA RowTypeOK ==
    ASSUME TypeOK, NEW j \in Jobs, NEW i \in Rows, BeginRecord(j, i) \/ RecordInvalid(j, i)
    PROVE  TypeOK'
<1>1. CASE BeginRecord(j, i)
  <2>1. i \in Keys
    BY DEF Keys
  <2>2. out' \in F!File
    BY <1>1, <2>1, FileOperators, CutsBoolean DEF TypeOK, BeginRecord
  <2> QED
    BY <1>1, <2>2 DEF TypeOK, BeginRecord, asked, JobPcs, launchVars, bounds
<1>2. CASE RecordInvalid(j, i)
  BY <1>2, ReplaceTypes DEF TypeOK, RecordInvalid, asked, fileVars, launchVars, bounds
<1> QED
  BY <1>1, <1>2

LEMMA NextTypeOK == TypeOK /\ [Next]_vars => TypeOK'
<1> SUFFICES ASSUME TypeOK, [Next]_vars PROVE TypeOK'
  OBVIOUS
<1>1. CASE UNCHANGED vars
  BY <1>1 DEF TypeOK, vars, asked, fileVars, launchVars, jobVars, bounds
<1>2. CASE Next
  BY <1>2, LauncherTypeOK, JobTypeOK, RowTypeOK DEF Next
<1> QED
  BY <1>1, <1>2

(* Type correctness of the whole submit, resume and retry machinery. *)
THEOREM TypeCorrect == Spec => []TypeOK
<1> QED
  BY InitTypeOK, NextTypeOK, PTL DEF Spec

-----------------------------------------------------------------------------
(* What one step may do to the file and to the flag. *)

(* At most one row is recorded in a step, and then the flag stays as it is. *)
OneMoreKey ==
    \/ out'.keys = out.keys
    \/ flag' = flag /\ \E i \in Rows : out'.keys = out.keys \cup {i}

(* The flag goes up only on the strength of the file. *)
FlagFromFile == flag' = flag \/ (flag' /\ out' = out /\ (Rows \subseteq out.keys \/ AllRecorded))

LEMMA RecordStep ==
    ASSUME TypeOK, NEW j \in Jobs, EndRecord(j)
    PROVE  OneMoreKey
<1>1. PICK i \in writing[j] : out' = F!EndLine(out, j, i)
  BY DEF EndRecord
<1>2. i \in Rows /\ i \in Keys
  BY <1>1 DEF TypeOK, Keys
<1>3. out'.keys \in {out.keys, out.keys \cup {i}}
  BY <1>1, <1>2, FileOperators DEF TypeOK
<1> QED
  BY <1>2, <1>3 DEF EndRecord, OneMoreKey

LEMMA StepEffect ==
    ASSUME TypeOK, [Next]_vars
    PROVE  OneMoreKey /\ FlagFromFile
<1>1. CASE UNCHANGED vars
  BY <1>1 DEF vars, fileVars, OneMoreKey, FlagFromFile
<1>2. ASSUME NEW l \in Launchers, LauncherStep(l) \/ StopLauncher(l)
      PROVE  OneMoreKey /\ FlagFromFile
  BY <1>2 DEF LauncherStep, TestFlag, CleanupOldJobs, Submit, SrunReturns, Launch,
              StopLauncher, fileVars, OneMoreKey, FlagFromFile
<1>3. ASSUME NEW j \in Jobs, JobStep(j) \/ ServerFails(j) \/ JobKilled(j)
      PROVE  OneMoreKey /\ FlagFromFile
  <2>1. CASE EndRecord(j)
    BY <2>1, RecordStep DEF EndRecord, FlagFromFile
  <2>2. CASE JobKilled(j)
    BY <2>2 DEF JobKilled, F!Abandon, F!File, TypeOK, OneMoreKey, FlagFromFile
  <2>3. CASE AlreadyComplete(j)
    <3>1. Rows \subseteq out.keys
      BY <2>3 DEF AlreadyComplete, Existing
    <3> QED
      BY <2>3, <3>1 DEF AlreadyComplete, OneMoreKey, FlagFromFile
  <2>4. CASE Finish(j)
    BY <2>4 DEF Finish, OneMoreKey, FlagFromFile, TypeOK
  <2>5. CASE Allocate(j) \/ ServerReady(j) \/ ServerFails(j) \/ LoadRaises(j)
             \/ StartWork(j) \/ TaskRaises(j)
    BY <2>5 DEF Allocate, ServerReady, ServerFails, LoadRaises, StartWork, TaskRaises,
                fileVars, OneMoreKey, FlagFromFile
  <2> QED
    BY <1>3, <2>1, <2>2, <2>3, <2>4, <2>5 DEF JobStep
<1>4. ASSUME NEW j \in Jobs, NEW i \in Rows, BeginRecord(j, i) \/ RecordInvalid(j, i)
      PROVE  OneMoreKey /\ FlagFromFile
  <2>1. CASE BeginRecord(j, i)
    <3>1. i \in Keys
      BY DEF Keys
    <3> QED
      BY <2>1, <3>1, FileOperators, CutsBoolean
      DEF BeginRecord, TypeOK, OneMoreKey, FlagFromFile
  <2>2. CASE RecordInvalid(j, i)
    BY <2>2 DEF RecordInvalid, fileVars, OneMoreKey, FlagFromFile
  <2> QED
    BY <1>4, <2>1, <2>2
<1> QED
  BY <1>1, <1>2, <1>3, <1>4 DEF Next

-----------------------------------------------------------------------------
(***************************************************************************)
(* The flag and the launcher's exit are sound, provided the file starts    *)
(* without records of other rows: the code compares counts, so it needs    *)
(* every recorded index to be a row of this split.                         *)
(***************************************************************************)

(* Counting is enough when only rows of the split are ever recorded. *)
LEMMA CountingIsEnough ==
    ASSUME Leftover = {}, TypeOK, AllRecorded
    PROVE  Rows \subseteq out.keys
<1>1. out.keys \subseteq Rows
  BY DEF TypeOK, F!File, Keys
<1>2. IsFiniteSet(Rows)
  BY ConstantsAssumption DEF ConstantsAssumption
<1>3. Cardinality(out.keys) >= Cardinality(Rows)
  BY DEF AllRecorded, Existing
<1>4. Cardinality(out.keys) \in Nat /\ Cardinality(Rows) \in Nat
  BY <1>1, <1>2, FS_Subset, FS_CardinalityType
<1>5. out.keys # Rows => Cardinality(out.keys) < Cardinality(Rows)
  BY <1>1, <1>2, <1>4, FS_Subset
<1> QED
  BY <1>3, <1>4, <1>5

(* A launcher that is about to leave has seen the flag. *)
LeaversSawFlag == \A l \in Launchers : lpc[l] \in {"leave", "exited"} => flag

IInv == TypeOK /\ FlagMeansComplete /\ LeaversSawFlag

LEMMA LeaversStep ==
    ASSUME IInv, [Next]_vars, flag => flag'
    PROVE  LeaversSawFlag'
<1> USE DEF LeaversSawFlag
<1>1. CASE UNCHANGED vars
  BY <1>1 DEF IInv, vars, fileVars, launchVars
<1>2. ASSUME NEW l \in Launchers, LauncherStep(l) \/ StopLauncher(l)
      PROVE  LeaversSawFlag'
  BY <1>2 DEF IInv, TypeOK, LauncherStep, TestFlag, CleanupOldJobs, Submit, SrunReturns,
              Launch, StopLauncher, fileVars
<1>3. ASSUME NEW j \in Jobs, JobStep(j) \/ ServerFails(j) \/ JobKilled(j)
      PROVE  UNCHANGED lpc
  BY <1>3 DEF JobStep, Allocate, ServerReady, ServerFails, LoadRaises, AlreadyComplete,
              StartWork, EndRecord, TaskRaises, Finish, JobKilled, launchVars
<1>4. ASSUME NEW j \in Jobs, NEW i \in Rows, BeginRecord(j, i) \/ RecordInvalid(j, i)
      PROVE  UNCHANGED lpc
  BY <1>4 DEF BeginRecord, RecordInvalid, launchVars
<1> QED
  BY <1>1, <1>2, <1>3, <1>4 DEF IInv, Next

LEMMA InductiveStep ==
    ASSUME Leftover = {}, IInv, [Next]_vars
    PROVE  IInv'
<1>1. TypeOK'
  BY NextTypeOK DEF IInv
<1>2. OneMoreKey /\ FlagFromFile
  BY StepEffect DEF IInv
<1>3. flag => flag'
  BY <1>2 DEF FlagFromFile
<1>4. FlagMeansComplete'
  <2> SUFFICES ASSUME flag' PROVE Rows \subseteq out'.keys
    BY DEF FlagMeansComplete
  <2>1. CASE flag
    BY <1>2, <2>1 DEF IInv, FlagMeansComplete, OneMoreKey
  <2>2. CASE ~flag
    BY <1>2, <2>2, CountingIsEnough DEF IInv, FlagFromFile
  <2> QED
    BY <2>1, <2>2
<1> QED
  BY <1>1, <1>3, <1>4, LeaversStep DEF IInv

THEOREM Invariance == ASSUME Leftover = {} PROVE Spec => []IInv
<1>1. Init => IInv
  BY InitTypeOK DEF Init, IInv, FlagMeansComplete, LeaversSawFlag
<1>2. IInv /\ [Next]_vars => IInv'
  BY InductiveStep
<1> QED
  BY <1>1, <1>2, PTL DEF Spec

(* A stop flag is only ever written for a split all of whose rows have a   *)
(* valid record: overlapping jobs, torn lines and relaunches included.     *)
THEOREM FlagIsSound == ASSUME Leftover = {} PROVE Spec => []FlagMeansComplete
<1>1. IInv => FlagMeansComplete
  BY DEF IInv
<1> QED
  BY <1>1, Invariance, PTL

(* single_job.sh gives up a split only when it is complete. *)
THEOREM ExitIsSound == ASSUME Leftover = {} PROVE Spec => []ExitMeansComplete
<1>1. IInv => ExitMeansComplete
  BY DEF IInv, FlagMeansComplete, LeaversSawFlag, ExitMeansComplete
<1> QED
  BY <1>1, Invariance, PTL

-----------------------------------------------------------------------------
(* The submit and retry machinery implements the promise of a split. *)

LEMMA StepKeepsPromise ==
    ASSUME Leftover = {}, IInv, IInv', [Next]_vars
    PROVE  [Promise!Next]_<<out.keys \cap Rows, flag>>
<1>1. OneMoreKey /\ FlagFromFile
  BY StepEffect DEF IInv
<1>2. CASE flag' # flag
  <2>1. flag' /\ out' = out
    BY <1>1, <1>2 DEF FlagFromFile
  <2>2. Rows \subseteq out.keys
    BY <2>1 DEF IInv, FlagMeansComplete
  <2>3. Promise!Complete
    BY <2>1, <2>2 DEF Promise!Complete
  <2> QED
    BY <2>3 DEF Promise!Next
<1>3. CASE flag' = flag
  <2>1. CASE out'.keys \cap Rows = out.keys \cap Rows
    BY <1>3, <2>1
  <2>2. CASE out'.keys \cap Rows # out.keys \cap Rows
    <3>1. PICK i \in Rows : out'.keys = out.keys \cup {i}
      BY <1>1, <2>2 DEF OneMoreKey
    <3>2. Promise!Record
      BY <1>3, <2>2, <3>1 DEF Promise!Record
    <3> QED
      BY <3>2 DEF Promise!Next
  <2> QED
    BY <2>1, <2>2
<1> QED
  BY <1>2, <1>3

(* SplitJob refines SplitPromise: rows are recorded one at a time, stay    *)
(* recorded, and the flag goes up once, after the last of them.            *)
THEOREM KeepsPromise == ASSUME Leftover = {} PROVE Spec => PromiseSpec
<1>1. Init => Promise!Init
  BY DEF Init, F!FileWith, Promise!Init
<1>2. IInv /\ IInv' /\ [Next]_vars => [Promise!Next]_<<out.keys \cap Rows, flag>>
  BY StepKeepsPromise
<1> QED
  BY <1>1, <1>2, Invariance, PTL DEF Spec, PromiseSpec, Promise!Spec

-----------------------------------------------------------------------------
(***************************************************************************)
(* A spoiled file.  Unlike the results above these hold whatever records   *)
(* the file starts with.                                                   *)
(***************************************************************************)

Damaged(f) == f.garbled \/ f.cut = "torn"

(* What is damaged stays damaged, whoever appends to it or dies over it. *)
LEMMA DamageIsForGood ==
    ASSUME NEW f \in F!File, Damaged(f), NEW j \in Jobs, NEW k, NEW c \in BOOLEAN
    PROVE  /\ Damaged(F!BeginLine(f, j, c))
           /\ Damaged(F!EndLine(f, j, k))
           /\ Damaged(F!Abandon(f, j))
<1>1. j \notin {"none", "torn"}
  BY ConstantsAssumption DEF ConstantsAssumption
<1>2. Damaged(F!BeginLine(f, j, c))
  BY DEF Damaged, F!File, F!BeginLine
<1>3. Damaged(F!EndLine(f, j, k))
  BY <1>1 DEF Damaged, F!File, F!EndLine
<1>4. Damaged(F!Abandon(f, j))
  BY DEF Damaged, F!File, F!Abandon
<1> QED
  BY <1>2, <1>3, <1>4

(* A step leaves the file alone, or it is one of the three things a job    *)
(* does to it; only a job that could read the file raises the flag.        *)
FileStep ==
    \/ out' = out /\ (flag' = flag \/ Readable)
    \/ /\ flag' = flag
       /\ \E j \in Jobs :
             \/ out' = F!Abandon(out, j)
             \/ \E c \in BOOLEAN : out' = F!BeginLine(out, j, c)
             \/ \E k \in Keys : out' = F!EndLine(out, j, k)

LEMMA StepOnFile ==
    ASSUME TypeOK, [Next]_vars
    PROVE  FileStep
<1>1. CASE UNCHANGED vars
  BY <1>1 DEF vars, fileVars, FileStep
<1>2. ASSUME NEW l \in Launchers, LauncherStep(l) \/ StopLauncher(l)
      PROVE  FileStep
  BY <1>2 DEF LauncherStep, TestFlag, CleanupOldJobs, Submit, SrunReturns, Launch,
              StopLauncher, fileVars, FileStep
<1>3. ASSUME NEW j \in Jobs, JobStep(j) \/ ServerFails(j) \/ JobKilled(j)
      PROVE  FileStep
  <2>1. CASE EndRecord(j)
    <3>1. PICK i \in writing[j] : out' = F!EndLine(out, j, i)
      BY <2>1 DEF EndRecord
    <3>2. i \in Keys
      BY <3>1 DEF TypeOK, Keys
    <3> QED
      BY <2>1, <3>1, <3>2 DEF EndRecord, FileStep
  <2>2. CASE JobKilled(j)
    BY <2>2 DEF JobKilled, FileStep
  <2>3. CASE AlreadyComplete(j) \/ Finish(j)
    BY <2>3 DEF AlreadyComplete, Finish, FileStep
  <2>4. CASE Allocate(j) \/ ServerReady(j) \/ ServerFails(j) \/ LoadRaises(j)
             \/ StartWork(j) \/ TaskRaises(j)
    BY <2>4 DEF Allocate, ServerReady, ServerFails, LoadRaises, StartWork, TaskRaises,
                fileVars, FileStep
  <2> QED
    BY <1>3, <2>1, <2>2, <2>3, <2>4 DEF JobStep
<1>4. ASSUME NEW j \in Jobs, NEW i \in Rows, BeginRecord(j, i) \/ RecordInvalid(j, i)
      PROVE  FileStep
  <2>1. CASE BeginRecord(j, i)
    <3>1. PICK c \in Cuts : out' = F!BeginLine(out, j, c)
      BY <2>1 DEF BeginRecord
    <3>2. c \in BOOLEAN
      BY <3>1, CutsBoolean
    <3> QED
      BY <2>1, <3>1, <3>2 DEF BeginRecord, FileStep
  <2>2. CASE RecordInvalid(j, i)
    BY <2>2 DEF RecordInvalid, fileVars, FileStep
  <2> QED
    BY <1>4, <2>1, <2>2
<1> QED
  BY <1>1, <1>2, <1>3, <1>4 DEF Next

(* A file spoiled by a record that a lost job left cut inside a character  *)
(* is spoiled for good: no later attempt of any launcher ever completes    *)
(* the split or mends the file.                                            *)
THEOREM SpoiledForGood == Spec => SpoiledNeverCompletes
<1>1. ASSUME TypeOK, [Next]_vars, Spoiled, ~flag PROVE Spoiled' /\ ~flag'
  <2>1. out \in F!File /\ Damaged(out)
    BY <1>1 DEF TypeOK, Spoiled, Damaged
  <2>2. ~Readable
    BY <1>1, <2>1 DEF Spoiled, Readable, F!Undecodable, F!File
  <2>3. FileStep
    BY <1>1, StepOnFile
  <2>4. Damaged(out')
    BY <2>1, <2>3, DamageIsForGood DEF FileStep
  <2>5. flag' = flag
    BY <2>2, <2>3 DEF FileStep
  <2> QED
    BY <1>1, <2>4, <2>5 DEF Spoiled, Damaged
<1>2. TypeOK /\ [Next]_vars => [Spoiled /\ ~flag => Spoiled' /\ ~flag']_vars
  BY <1>1
<1> QED
  BY <1>2, TypeCorrect, PTL DEF Spec, SpoiledNeverCompletes

-----------------------------------------------------------------------------
(* The window of samples in flight. *)

(* FirstRows(S, k) takes k rows, or all of S if there are no more.         *)
LEMMA FirstRowsCount ==
    ASSUME NEW S \in SUBSET Nat, IsFiniteSet(S), NEW k \in Nat
    PROVE  /\ IsFiniteSet(FirstRows(S, k))
           /\ Cardinality(FirstRows(S, k)) <= k
           /\ FirstRows(S, k) # S => Cardinality(FirstRows(S, k)) = k
<1> DEFINE A == FirstRows(S, k)
           below(i) == {h \in S : h < i}
           rank == [i \in A |-> Cardinality(below(i))]
<1>1. A = {i \in S : Cardinality(below(i)) < k}
  BY DEF FirstRows
<1>2. IsFiniteSet(A) /\ Cardinality(A) \in Nat
  BY FirstRowsSubset, FS_Subset, FS_CardinalityType
<1>3. ASSUME NEW i \in Nat
      PROVE  IsFiniteSet(below(i)) /\ Cardinality(below(i)) \in Nat
  BY FS_Subset, FS_CardinalityType
<1>4. ASSUME NEW i \in S, NEW j \in S, i < j
      PROVE  Cardinality(below(i)) < Cardinality(below(j))
  <2>1. i \in Nat /\ j \in Nat
    OBVIOUS
  <2>2. ASSUME NEW h \in below(i) PROVE h \in below(j)
    <3>1. h \in Nat /\ h < i
      OBVIOUS
    <3> QED
      BY <1>4, <2>1, <3>1
  <2>3. i \in below(j) /\ i \notin below(i)
    BY <1>4, <2>1
  <2>4. Cardinality(below(i)) <= Cardinality(below(j)) /\ Cardinality(below(i)) # Cardinality(below(j))
    BY <1>3, <2>1, <2>2, <2>3, FS_Subset
  <2> QED
    BY <1>3, <2>1, <2>4
<1>5. Cardinality(A) <= k
  <2>1. rank \in [A -> 0 .. k - 1]
    <3> SUFFICES ASSUME NEW i \in A PROVE Cardinality(below(i)) \in 0 .. k - 1
      OBVIOUS
    <3>1. i \in Nat /\ Cardinality(below(i)) < k
      BY <1>1
    <3> QED
      BY <1>3, <3>1
  <2>2. ASSUME NEW i \in A, NEW j \in A, rank[i] = rank[j] PROVE i = j
    <3>1. i \in S /\ j \in S /\ i \in Nat /\ j \in Nat
      BY <1>1
    <3>2. Cardinality(below(i)) = Cardinality(below(j))
      BY <2>2
    <3>3. ~(i < j) /\ ~(j < i)
      BY <1>3, <1>4, <3>1, <3>2
    <3> QED
      BY <3>1, <3>3
  <2>3. rank \in Injection(A, 0 .. k - 1)
    BY <2>1, <2>2 DEF Injection, IsInjective
  <2>4. IsFiniteSet(0 .. k - 1) /\ Cardinality(0 .. k - 1) = k
    BY FS_Interval
  <2> QED
    BY <2>3, <2>4, FS_Injection
<1>6. ASSUME A # S PROVE Cardinality(A) >= k
  <2>1. S \ A \subseteq Nat /\ S \ A # {}
    BY <1>1, <1>6
  <2>2. PICK n \in S \ A : \A m \in S \ A : ~(<<m, n>> \in OpToRel(<, Nat))
    BY <2>1, NatLessThanWellFounded, WFMin
  <2>3. \A m \in S \ A : ~(m < n)
    BY <2>1, <2>2 DEF OpToRel
  <2>4. below(n) \subseteq A
    BY <2>3
  <2>5. n \in Nat /\ Cardinality(below(n)) >= k
    BY <1>1, <1>3
  <2>6. Cardinality(below(n)) <= Cardinality(A)
    BY <1>2, <2>4, FS_Subset
  <2> QED
    BY <1>2, <1>3, <2>5, <2>6
<1> QED
  BY <1>1, <1>2, <1>5, <1>6

LEMMA RowsFinite ==
    ASSUME NEW S \in SUBSET Rows
    PROVE  S \in SUBSET Nat /\ IsFiniteSet(S) /\ Cardinality(S) \in Nat
BY ConstantsAssumption, FS_Subset, FS_CardinalityType DEF ConstantsAssumption

(* What a job's rows are like: those in flight (a), those not handed out   *)
(* yet (t) and the one being written (w), at stage p of the job.           *)
Window(a, t) ==
    /\ a \cap t = {}
    /\ Cardinality(a) <= MaxPending
    /\ t # {} => Cardinality(a) = MaxPending

RowsOfJob(p, a, t, w) ==
    /\ p \notin {"run", "write"} => a = {} /\ t = {}
    /\ p # "write" => w = {}
    /\ w \subseteq a
    /\ Window(a, t)

RowsOfJobs == \A j \in Jobs : RowsOfJob(jpc[j], active[j], todo[j], writing[j])

WInv == TypeOK /\ RowsOfJobs

LEMMA IdleJob == \A p \in JobPcs : p \notin {"run", "write"} => RowsOfJob(p, {}, {}, {})
BY FS_EmptySet, ConstantsAssumption DEF ConstantsAssumption, RowsOfJob, Window

LEMMA FirstWindow ==
    ASSUME NEW S \in SUBSET Rows
    PROVE  Window(FirstRows(S, MaxPending), S \ FirstRows(S, MaxPending))
<1>1. S \in SUBSET Nat /\ IsFiniteSet(S)
  BY RowsFinite
<1>2. MaxPending \in Nat
  BY ConstantsAssumption DEF ConstantsAssumption
<1> QED
  BY <1>1, <1>2, FirstRowsCount, FirstRowsSubset DEF Window

(* A finished row is replaced by the next one, if there is one.            *)
LEMMA NextWindow ==
    ASSUME NEW a \in SUBSET Rows, NEW t \in SUBSET Rows, NEW i \in a, Window(a, t)
    PROVE  Window((a \ {i}) \cup FirstRows(t, 1), t \ FirstRows(t, 1))
<1> DEFINE n == FirstRows(t, 1)
           b == a \ {i}
<1>1. n \subseteq t
  BY FirstRowsSubset
<1>2. t \in SUBSET Nat /\ IsFiniteSet(t) /\ IsFiniteSet(a) /\ Cardinality(a) \in Nat
  BY RowsFinite
<1>3. /\ IsFiniteSet(n) /\ Cardinality(n) \in Nat /\ Cardinality(n) <= 1
      /\ n # t => Cardinality(n) = 1
  BY <1>2, FirstRowsCount, FS_CardinalityType
<1>4. IsFiniteSet(b) /\ Cardinality(b) = Cardinality(a) - 1
  BY <1>2, FS_RemoveElement
<1>5. n \cap b = {} /\ (b \cup n) \cap (t \ n) = {}
  BY <1>1 DEF Window
<1>6. Cardinality(b \cup n) = Cardinality(b) + Cardinality(n)
  <2> HIDE DEF n, b
  <2>1. Cardinality(b \cap n) = 0
    <3>1. b \cap n = {}
      BY <1>5
    <3> QED
      BY <3>1, FS_EmptySet, Zenon
  <2>2. Cardinality(b \cup n) = Cardinality(b) + Cardinality(n) - Cardinality(b \cap n)
    BY <1>3, <1>4, FS_Union
  <2> QED
    BY <1>2, <1>3, <1>4, <2>1, <2>2
<1>7. MaxPending \in Nat
  BY ConstantsAssumption DEF ConstantsAssumption
<1>8. CASE t = {}
  <2>1. n = {} /\ Cardinality(n) = 0
    BY <1>1, <1>8, FS_EmptySet
  <2> QED
    BY <1>2, <1>4, <1>5, <1>6, <1>7, <1>8, <2>1 DEF Window
<1>9. CASE t # {}
  <2>1. Cardinality(a) = MaxPending
    BY <1>9 DEF Window
  <2>2. t \ n # {} => Cardinality(n) = 1
    BY <1>3
  <2> HIDE DEF n, b
  <2>3. Cardinality(b \cup n) <= MaxPending
    BY <1>2, <1>3, <1>4, <1>6, <2>1
  <2>4. t \ n # {} => Cardinality(b \cup n) = MaxPending
    BY <1>2, <1>3, <1>4, <1>6, <2>1, <2>2
  <2>5. Window(b \cup n, t \ n)
    BY <1>5, <2>3, <2>4 DEF Window
  <2> QED
    BY <2>5 DEF n, b
<1> QED
  BY <1>8, <1>9

(* One job moves at a time: the rows of the others stay what they were.    *)
LEMMA OneJobMoves ==
    ASSUME WInv, NEW j \in Jobs, NEW p, NEW a, NEW t, NEW w,
           jpc' = [jpc EXCEPT ![j] = p], active' = [active EXCEPT ![j] = a],
           todo' = [todo EXCEPT ![j] = t], writing' = [writing EXCEPT ![j] = w],
           RowsOfJob(p, a, t, w)
    PROVE  RowsOfJobs'
<1> SUFFICES ASSUME NEW k \in Jobs
             PROVE  RowsOfJob(jpc[k], active[k], todo[k], writing[k])'
  BY DEF RowsOfJobs
<1>1. /\ DOMAIN jpc = Jobs /\ DOMAIN active = Jobs
      /\ DOMAIN todo = Jobs /\ DOMAIN writing = Jobs
  BY DEF WInv, TypeOK
<1>2. CASE k = j
  <2>1. jpc'[k] = p /\ active'[k] = a /\ todo'[k] = t /\ writing'[k] = w
    BY <1>1, <1>2
  <2> QED
    BY <2>1 DEF RowsOfJob, Window
<1>3. CASE k # j
  <2>1. jpc'[k] = jpc[k] /\ active'[k] = active[k] /\ todo'[k] = todo[k] /\ writing'[k] = writing[k]
    BY <1>1, <1>3
  <2> QED
    BY <2>1 DEF WInv, RowsOfJobs, RowsOfJob, Window
<1> QED
  BY <1>2, <1>3

(* A job that changes its stage without having rows at hand.               *)
LEMMA RowsUntouched ==
    ASSUME WInv, UNCHANGED workVars,
           \A k \in Jobs : \/ jpc'[k] = jpc[k]
                           \/ jpc[k] \notin {"run", "write"} /\ jpc'[k] \notin {"run", "write"}
    PROVE  RowsOfJobs'
<1> SUFFICES ASSUME NEW k \in Jobs
             PROVE  RowsOfJob(jpc[k], active[k], todo[k], writing[k])'
  BY DEF RowsOfJobs
<1>1. RowsOfJob(jpc[k], active[k], todo[k], writing[k])
  BY DEF WInv, RowsOfJobs
<1>2. active'[k] = active[k] /\ todo'[k] = todo[k] /\ writing'[k] = writing[k]
  BY DEF workVars
<1> QED
  BY <1>1, <1>2 DEF RowsOfJob, Window

LEMMA JobEndsRows ==
    ASSUME WInv, NEW j \in Jobs, JobEnds(j)
    PROVE  RowsOfJobs'
<1>1. RowsOfJob("free", {}, {}, {})
  BY IdleJob DEF JobPcs
<1> QED
  BY <1>1, OneJobMoves DEF JobEnds

LEMMA ReplaceRows ==
    ASSUME WInv, NEW j \in Jobs, NEW i \in active[j], Replace(j, i),
           jpc' = [jpc EXCEPT ![j] = "run"], writing' = [writing EXCEPT ![j] = {}]
    PROVE  RowsOfJobs'
<1> DEFINE n == FirstRows(todo[j], 1)
<1>1. active[j] \in SUBSET Rows /\ todo[j] \in SUBSET Rows
  BY DEF WInv, TypeOK
<1>2. Window(active[j], todo[j])
  BY DEF WInv, RowsOfJobs, RowsOfJob
<1>3. Window((active[j] \ {i}) \cup n, todo[j] \ n)
  BY <1>1, <1>2, NextWindow
<1>4. /\ active' = [active EXCEPT ![j] = (active[j] \ {i}) \cup n]
      /\ todo' = [todo EXCEPT ![j] = todo[j] \ n]
  BY DEF Replace
<1> HIDE DEF n
<1>5. RowsOfJob("run", (active[j] \ {i}) \cup n, todo[j] \ n, {})
  BY <1>3 DEF RowsOfJob
<1> QED
  BY <1>4, <1>5, OneJobMoves

LEMMA LauncherRows ==
    ASSUME WInv, NEW l \in Launchers, LauncherStep(l) \/ StopLauncher(l)
    PROVE  RowsOfJobs'
<1>1. UNCHANGED workVars
  BY DEF LauncherStep, TestFlag, CleanupOldJobs, Submit, SrunReturns, Launch, StopLauncher,
         workVars, jobVars
<1>2. ASSUME NEW k \in Jobs
      PROVE  \/ jpc'[k] = jpc[k]
             \/ jpc[k] \notin {"run", "write"} /\ jpc'[k] \notin {"run", "write"}
  <2>1. CASE ScancelAll
    BY <2>1 DEF ScancelAll, Listed, Running
  <2>2. CASE Submit(l)
    BY <2>2 DEF WInv, TypeOK, Submit
  <2>3. CASE UNCHANGED jpc
    BY <2>3
  <2> QED
    BY <2>1, <2>2, <2>3 DEF LauncherStep, TestFlag, CleanupOldJobs, SrunReturns, Launch,
       StopLauncher, jobVars
<1> QED
  BY <1>1, <1>2, RowsUntouched

LEMMA JobRows ==
    ASSUME WInv, NEW j \in Jobs, JobStep(j) \/ ServerFails(j) \/ JobKilled(j)
    PROVE  RowsOfJobs'
<1>1. CASE Allocate(j) \/ ServerReady(j)
  <2>1. UNCHANGED workVars
    BY <1>1 DEF Allocate, ServerReady
  <2>2. \A k \in Jobs : \/ jpc'[k] = jpc[k]
                        \/ jpc[k] \notin {"run", "write"} /\ jpc'[k] \notin {"run", "write"}
    BY <1>1 DEF WInv, TypeOK, Allocate, ServerReady
  <2> QED
    BY <2>1, <2>2, RowsUntouched
<1>2. CASE JobEnds(j)
  BY <1>2, JobEndsRows
<1>3. CASE StartWork(j)
  <2> DEFINE s == Rows \ Existing
             first == FirstRows(s, MaxPending)
  <2>1. Window(first, s \ first)
    BY FirstWindow
  <2>2. /\ jpc' = [jpc EXCEPT ![j] = "run"]
        /\ active' = [active EXCEPT ![j] = first]
        /\ todo' = [todo EXCEPT ![j] = s \ first]
        /\ writing' = writing
    BY <1>3 DEF StartWork
  <2>3. writing[j] = {} /\ writing = [writing EXCEPT ![j] = {}]
    BY <1>3 DEF StartWork, WInv, TypeOK, RowsOfJobs, RowsOfJob
  <2> HIDE DEF first, s
  <2>4. RowsOfJob("run", first, s \ first, {})
    BY <2>1 DEF RowsOfJob
  <2> QED
    BY <2>2, <2>3, <2>4, OneJobMoves
<1>4. CASE EndRecord(j)
  <2>1. PICK i \in writing[j] : Replace(j, i)
    BY <1>4 DEF EndRecord
  <2>2. i \in active[j]
    BY <2>1 DEF WInv, RowsOfJobs, RowsOfJob
  <2> QED
    BY <1>4, <2>1, <2>2, ReplaceRows DEF EndRecord
<1> QED
  BY <1>1, <1>2, <1>3, <1>4 DEF JobStep, ServerFails, LoadRaises, AlreadyComplete, TaskRaises,
     Finish, JobKilled

LEMMA RecordRows ==
    ASSUME WInv, NEW j \in Jobs, NEW i \in Rows, BeginRecord(j, i) \/ RecordInvalid(j, i)
    PROVE  RowsOfJobs'
<1>0. jpc[j] = "run" /\ i \in active[j]
  BY DEF BeginRecord, RecordInvalid
<1>1. CASE BeginRecord(j, i)
  <2>1. /\ jpc' = [jpc EXCEPT ![j] = "write"] /\ writing' = [writing EXCEPT ![j] = {i}]
        /\ active' = active /\ todo' = todo
    BY <1>1 DEF BeginRecord
  <2>2. active = [active EXCEPT ![j] = active[j]] /\ todo = [todo EXCEPT ![j] = todo[j]]
    BY DEF WInv, TypeOK
  <2>3. RowsOfJob("write", active[j], todo[j], {i})
    BY <1>0 DEF WInv, RowsOfJobs, RowsOfJob
  <2> QED
    BY <2>1, <2>2, <2>3, OneJobMoves
<1>2. CASE RecordInvalid(j, i)
  <2>1. jpc' = jpc /\ writing' = writing /\ Replace(j, i)
    BY <1>2 DEF RecordInvalid
  <2>2. writing[j] = {}
    BY <1>0 DEF WInv, RowsOfJobs, RowsOfJob
  <2>3. jpc = [jpc EXCEPT ![j] = "run"] /\ writing = [writing EXCEPT ![j] = {}]
    BY <1>0, <2>2 DEF WInv, TypeOK
  <2> QED
    BY <1>0, <2>1, <2>3, ReplaceRows
<1> QED
  BY <1>1, <1>2

LEMMA InitRows == Init => WInv
<1> SUFFICES ASSUME Init PROVE RowsOfJobs
  BY InitTypeOK DEF WInv
<1>1. RowsOfJob("free", {}, {}, {})
  BY IdleJob DEF JobPcs
<1> QED
  BY <1>1 DEF Init, RowsOfJobs

LEMMA RowsInvariance == Spec => []WInv
<1>1. Init => WInv
  BY InitRows
<1>2. WInv /\ [Next]_vars => WInv'
  <2> SUFFICES ASSUME WInv, [Next]_vars PROVE RowsOfJobs'
    BY NextTypeOK DEF WInv
  <2>1. CASE UNCHANGED vars
    BY <2>1, RowsUntouched DEF vars, jobVars, workVars
  <2> QED
    BY <2>1, LauncherRows, JobRows, RecordRows DEF Next
<1> QED
  BY <1>1, <1>2, PTL DEF Spec

(* However many rows fail, are lost or are recorded in between, a job      *)
(* never has more samples in flight than max_concurrent times the pending  *)
(* multiplier, and has that many while rows are left to hand out.          *)
THEOREM WindowStaysFull == Spec => []WindowIsFull
<1>1. WInv => WindowIsFull
  BY DEF WInv, RowsOfJobs, RowsOfJob, Window, WindowIsFull
<1> QED
  BY <1>1, RowsInvariance, PTL

-----------------------------------------------------------------------------
(***************************************************************************)
(* Who may hold GPUs: the jobs of the split that are there, that nobody    *)
(* has asked to end, and that no cleanup has tried to end in vain.         *)
(***************************************************************************)

Unasked == Wanted \ missed

(* No launcher appears or vanishes for good. *)
LEMMA SameLaunchers ==
    ASSUME TypeOK, [Next]_vars
    PROVE  Started' = Started
<1>1. CASE UNCHANGED vars
  BY <1>1 DEF vars, launchVars, Started
<1>2. ASSUME NEW l \in Launchers, LauncherStep(l) \/ StopLauncher(l)
      PROVE  Started' = Started
  <2>1. /\ lpc[l] # "absent" /\ \E p \in LauncherPcs \ {"absent"} : lpc' = [lpc EXCEPT ![l] = p]
    BY <1>2 DEF LauncherStep, TestFlag, CleanupOldJobs, Submit, SrunReturns, Launch,
                StopLauncher, LauncherPcs
  <2> QED
    BY <2>1 DEF TypeOK, Started
<1>3. ASSUME NEW j \in Jobs, JobStep(j) \/ ServerFails(j) \/ JobKilled(j)
      PROVE  UNCHANGED lpc
  BY <1>3 DEF JobStep, Allocate, ServerReady, ServerFails, LoadRaises, AlreadyComplete,
              StartWork, EndRecord, TaskRaises, Finish, JobKilled, launchVars
<1>4. ASSUME NEW j \in Jobs, NEW i \in Rows, BeginRecord(j, i) \/ RecordInvalid(j, i)
      PROVE  UNCHANGED lpc
  BY <1>4 DEF BeginRecord, RecordInvalid, launchVars
<1> QED
  BY <1>1, <1>2, <1>3, <1>4 DEF Next, Started

(* A job by itself can only leave; that it was cancelled, or missed, is    *)
(* forgotten when it is gone.                                              *)
JobsOnlyLeave ==
    \A k \in Jobs : jpc'[k] # "free" =>
        /\ jpc[k] # "free"
        /\ k \in cancelled => k \in cancelled'
        /\ k \in missed => k \in missed'

LEMMA JobsByThemselves ==
    ASSUME TypeOK, NEW j \in Jobs,
           \/ JobStep(j) \/ ServerFails(j) \/ JobKilled(j)
           \/ \E i \in Rows : BeginRecord(j, i) \/ RecordInvalid(j, i)
    PROVE  JobsOnlyLeave /\ UNCHANGED <<launchVars, stops>>
<1>1. UNCHANGED <<launchVars, stops>>
  BY DEF JobStep, Allocate, ServerReady, ServerFails, LoadRaises, AlreadyComplete, StartWork,
         EndRecord, TaskRaises, Finish, JobKilled, BeginRecord, RecordInvalid, launchVars, bounds
<1>2. CASE JobEnds(j)
  BY <1>1, <1>2 DEF TypeOK, JobEnds, JobsOnlyLeave
<1>3. CASE UNCHANGED asked /\ jpc[j] # "free" /\ \E p \in JobPcs : jpc' = [jpc EXCEPT ![j] = p]
  BY <1>1, <1>3 DEF TypeOK, JobsOnlyLeave, asked
<1>4. CASE UNCHANGED <<jpc, asked>>
  BY <1>1, <1>4 DEF JobsOnlyLeave, asked
<1> QED
  BY <1>1, <1>2, <1>3, <1>4 DEF JobStep, Allocate, ServerReady, ServerFails, LoadRaises,
     AlreadyComplete, StartWork, EndRecord, TaskRaises, Finish, JobKilled, BeginRecord,
     RecordInvalid, JobPcs

LEMMA ScancelLeavesNone ==
    ASSUME TypeOK, ScancelAll
    PROVE  Unasked' = {}
BY DEF TypeOK, ScancelAll, Listed, Running, Unasked, Wanted

-----------------------------------------------------------------------------
(* When the last launcher leaves it cancels, and nobody submits after it.  *)
LEMMA NothingLeftStep ==
    ASSUME TypeOK, NothingLeftRunning, [Next]_vars
    PROVE  NothingLeftRunning'
<1> SUFFICES ASSUME \A l \in Started : lpc'[l] = "exited"
             PROVE  Unasked' = {}
  BY SameLaunchers DEF NothingLeftRunning, Unasked
<1>1. CASE UNCHANGED vars
  BY <1>1 DEF vars, launchVars, jobVars, asked, NothingLeftRunning, Unasked, Wanted
<1>2. ASSUME NEW l \in Launchers, LauncherStep(l) \/ StopLauncher(l)
      PROVE  Unasked' = {}
  <2>1. l \in Started
    BY <1>2 DEF LauncherStep, TestFlag, CleanupOldJobs, Submit, SrunReturns, Launch,
                StopLauncher, Started
  <2>2. CleanupOldJobs(l)
    BY <1>2, <2>1 DEF TypeOK, LauncherStep, TestFlag, Submit, SrunReturns, Launch, StopLauncher
  <2> QED
    BY <2>2, ScancelLeavesNone DEF CleanupOldJobs
<1>3. ASSUME NEW k \in Jobs,
             \/ JobStep(k) \/ ServerFails(k) \/ JobKilled(k)
             \/ \E i \in Rows : BeginRecord(k, i) \/ RecordInvalid(k, i)
      PROVE  Unasked' = {}
  BY <1>3, JobsByThemselves DEF JobsOnlyLeave, launchVars, NothingLeftRunning, Unasked, Wanted
<1> QED
  BY <1>1, <1>2, <1>3 DEF Next

(* Once every launcher of a finished split has left, no job of the split   *)
(* holds GPUs without having been told to end, or being told so in vain by *)
(* the last cleanup, however the launchers' submits, scancels and failed   *)
(* scancels were interleaved.                                              *)
THEOREM NothingIsLeft == Spec => []NothingLeftRunning
<1>1. Init => NothingLeftRunning
  BY DEF Init, NothingLeftRunning, Wanted
<1>2. TypeOK /\ NothingLeftRunning /\ [Next]_vars => NothingLeftRunning'
  BY NothingLeftStep
<1> QED
  BY <1>1, <1>2, TypeCorrect, PTL DEF Spec

-----------------------------------------------------------------------------
(* One launcher, however often it is killed and started again.             *)

LEMMA TheLauncher ==
    ASSUME TypeOK, Cardinality(Started) = 1
    PROVE  \E l \in Launchers : Started = {l}
<1>1. Started \subseteq Launchers
  BY DEF Started
<1>2. IsFiniteSet(Started)
  BY <1>1, ConstantsAssumption, FS_Subset DEF ConstantsAssumption
<1>3. PICK l : Started = {l}
  BY <1>2, FS_Singleton
<1> QED
  BY <1>1, <1>3

(* Between its cleanup and its submit there is only what it failed to end. *)
CleanBeforeSubmit ==
    Cardinality(Started) = 1 => \A l \in Started : lpc[l] = "submit" => Unasked = {}

OneInv == TypeOK /\ OneWantedJob /\ CleanBeforeSubmit

LEMMA OneStep ==
    ASSUME OneInv, [Next]_vars, Cardinality(Started) = 1
    PROVE  /\ \A j, k \in Unasked' : j = k
           /\ \A l \in Started : lpc'[l] = "submit" => Unasked' = {}
<1>1. PICK s \in Launchers : Started = {s}
  BY TheLauncher DEF OneInv
<1>2. /\ \A j, k \in Unasked : j = k
      /\ lpc[s] = "submit" => Unasked = {}
  BY <1>1 DEF OneInv, OneWantedJob, CleanBeforeSubmit, Unasked
<1>3. CASE UNCHANGED vars
  BY <1>1, <1>2, <1>3 DEF vars, launchVars, jobVars, asked, Unasked, Wanted
<1>4. ASSUME NEW l \in Launchers, LauncherStep(l) \/ StopLauncher(l)
      PROVE  /\ \A j, k \in Unasked' : j = k
             /\ lpc'[s] = "submit" => Unasked' = {}
  <2>1. l = s
    <3>1. l \in Started
      BY <1>4 DEF LauncherStep, TestFlag, CleanupOldJobs, Submit, SrunReturns, Launch,
                  StopLauncher, Started
    <3> QED
      BY <1>1, <3>1
  <2>2. CASE ScancelAll
    BY <2>2, ScancelLeavesNone DEF OneInv
  <2>3. CASE Submit(l)
    <3>1. Unasked = {}
      BY <1>2, <2>1, <2>3 DEF Submit
    <3>2. PICK j \in Jobs : jpc' = [jpc EXCEPT ![j] = "pending"] /\ UNCHANGED asked
      BY <2>3 DEF Submit
    <3>3. Unasked' \subseteq {j}
      BY <3>1, <3>2 DEF OneInv, TypeOK, asked, Unasked, Wanted
    <3>4. lpc'[s] = "wait"
      BY <2>1, <2>3 DEF Submit, OneInv, TypeOK
    <3> QED
      BY <3>3, <3>4
  <2>4. CASE UNCHANGED <<jpc, asked>> /\ lpc'[s] # "submit"
    BY <1>2, <2>4 DEF Unasked, Wanted, asked
  <2>5. CASE TestFlag(l) \/ SrunReturns(l) \/ Launch(l) \/ StopLauncher(l)
    <3>1. lpc'[s] # "submit"
      BY <2>1, <2>5 DEF TestFlag, SrunReturns, Launch, StopLauncher, OneInv, TypeOK
    <3> QED
      BY <2>2, <2>4, <2>5, <3>1 DEF TestFlag, SrunReturns, Launch, StopLauncher, jobVars
  <2> QED
    BY <1>4, <2>2, <2>3, <2>5 DEF LauncherStep, CleanupOldJobs
<1>5. ASSUME NEW j \in Jobs,
             \/ JobStep(j) \/ ServerFails(j) \/ JobKilled(j)
             \/ \E i \in Rows : BeginRecord(j, i) \/ RecordInvalid(j, i)
      PROVE  Unasked' \subseteq Unasked /\ lpc' = lpc
  BY <1>5, JobsByThemselves DEF OneInv, JobsOnlyLeave, launchVars, Unasked, Wanted
<1> QED
  BY <1>1, <1>2, <1>3, <1>4, <1>5 DEF Next

(* One launcher never has two jobs of its split at once, but for those     *)
(* that its latest cleanup tried to end in vain: also when it is killed    *)
(* without a scancel and started again over a running job.                 *)
THEOREM OneJobAtATime == Spec => []OneWantedJob
<1>1. Init => OneInv
  BY InitTypeOK DEF Init, OneInv, OneWantedJob, CleanBeforeSubmit, Unasked, Wanted, Started
<1>2. OneInv /\ [Next]_vars => OneInv'
  <2> SUFFICES ASSUME OneInv, [Next]_vars PROVE OneInv'
    OBVIOUS
  <2>1. TypeOK' /\ Started' = Started
    BY NextTypeOK, SameLaunchers DEF OneInv
  <2> QED
    BY <2>1, OneStep DEF OneInv, OneWantedJob, CleanBeforeSubmit, Unasked
<1>3. OneInv => OneWantedJob
  BY DEF OneInv
<1> QED
  BY <1>1, <1>2, <1>3, PTL DEF Spec

-----------------------------------------------------------------------------
(***************************************************************************)
(* No row is requested again, nor recorded twice, by a single launcher     *)
(* that nobody stops, whatever its jobs lose: there is never a job beside  *)
(* the one the launcher waits for, and that one works on rows it found     *)
(* unrecorded when it started.                                             *)
(***************************************************************************)

(* The only job there is is the one the launcher's srun waits for.         *)
JobIsAwaited ==
    Undisturbed => \A l \in Started, j \in Jobs : jpc[j] # "free" => lpc[l] = "wait" /\ srun[l] = j

LEMMA AwaitedStep ==
    ASSUME TypeOK, JobIsAwaited, [Next]_vars, Undisturbed'
    PROVE  Undisturbed /\ JobIsAwaited'
<1>1. Started' = Started /\ stops' = 0
  BY SameLaunchers DEF Undisturbed
<1>2. stops \in Nat
  BY ConstantsAssumption DEF TypeOK, ConstantsAssumption
<1>3. PICK s \in Launchers : Started = {s}
  BY <1>1, TheLauncher DEF Undisturbed
<1>4. ASSUME NEW j \in Jobs,
             \/ JobStep(j) \/ ServerFails(j) \/ JobKilled(j)
             \/ \E i \in Rows : BeginRecord(j, i) \/ RecordInvalid(j, i)
      PROVE  Undisturbed /\ JobIsAwaited'
  <2>1. JobsOnlyLeave /\ UNCHANGED <<launchVars, stops>>
    BY <1>4, JobsByThemselves
  <2>2. Undisturbed
    BY <1>1, <2>1 DEF Undisturbed
  <2> QED
    BY <1>1, <2>1, <2>2 DEF JobsOnlyLeave, launchVars, JobIsAwaited
<1>5. ASSUME NEW l \in Launchers, LauncherStep(l) \/ StopLauncher(l)
      PROVE  Undisturbed /\ JobIsAwaited'
  <2>1. ~StopLauncher(l)
    BY <1>1, <1>2 DEF StopLauncher
  <2>2. stops' = stops
    BY <1>5, <2>1 DEF LauncherStep, TestFlag, CleanupOldJobs, Submit, SrunReturns, Launch, bounds
  <2>3. Undisturbed
    BY <1>1, <2>2 DEF Undisturbed
  <2>4. l = s
    <3>1. l \in Started
      BY <1>5, <2>1 DEF LauncherStep, TestFlag, CleanupOldJobs, Submit, SrunReturns, Launch, Started
    <3> QED
      BY <1>3, <3>1
  <2>5. \A j \in Jobs : jpc[j] # "free" => lpc[l] = "wait" /\ srun[l] = j
    BY <1>3, <2>3, <2>4 DEF JobIsAwaited
  <2>6. CASE Submit(l)
    <3>1. \A j \in Jobs : jpc[j] = "free"
      BY <2>5, <2>6 DEF Submit
    <3>2. PICK j \in Jobs : jpc' = [jpc EXCEPT ![j] = "pending"] /\ srun' = [srun EXCEPT ![l] = j]
      BY <2>6 DEF Submit
    <3>3. lpc'[l] = "wait" /\ srun'[l] = j
      BY <2>6, <3>2 DEF Submit, TypeOK
    <3>4. \A k \in Jobs : jpc'[k] # "free" => k = j
      BY <3>1, <3>2 DEF TypeOK
    <3> QED
      BY <1>1, <1>3, <2>3, <2>4, <3>3, <3>4 DEF JobIsAwaited
  <2>7. CASE TestFlag(l) \/ CleanupOldJobs(l) \/ SrunReturns(l) \/ Launch(l)
    <3>1. \A j \in Jobs : jpc[j] = "free"
      BY <2>5, <2>7 DEF TestFlag, CleanupOldJobs, SrunReturns, Launch
    <3>2. \A j \in Jobs : jpc'[j] = "free"
      BY <2>7, <3>1 DEF TestFlag, CleanupOldJobs, ScancelAll, SrunReturns, Launch, jobVars
    <3> QED
      BY <2>3, <3>2 DEF JobIsAwaited
  <2> QED
    BY <1>5, <2>1, <2>6, <2>7 DEF LauncherStep
<1>6. CASE UNCHANGED vars
  BY <1>6 DEF vars, launchVars, jobVars, bounds, Undisturbed, Started, JobIsAwaited
<1> QED
  BY <1>4, <1>5, <1>6 DEF Next

AtHand(j) == active[j] \cup todo[j]

(* The rows a job has at hand are those it had, or rows not recorded yet;  *)
(* and when a row is recorded its job lets go of it.                       *)
RowsMove ==
    \/ /\ out'.keys = out.keys /\ out'.repeated = out.repeated
       /\ \A j \in Jobs : AtHand(j)' \subseteq AtHand(j) \cup (Rows \ out.keys)
    \/ \E j \in Jobs : \E i \in AtHand(j) :
          /\ jpc[j] # "free"
          /\ out'.keys = out.keys \cup {i}
          /\ out'.repeated = IF i \in out.keys THEN out.repeated \cup {i} ELSE out.repeated
          /\ AtHand(j)' \subseteq AtHand(j) \ {i}
          /\ \A k \in Jobs \ {j} : AtHand(k)' = AtHand(k)

LEMMA ReplaceMoves ==
    ASSUME WInv, NEW j \in Jobs, NEW i \in active[j], Replace(j, i)
    PROVE  /\ AtHand(j)' \subseteq AtHand(j) \ {i}
           /\ \A k \in Jobs \ {j} : AtHand(k)' = AtHand(k)
<1> DEFINE n == FirstRows(todo[j], 1)
<1>1. n \subseteq todo[j]
  BY FirstRowsSubset
<1>2. i \notin todo[j]
  BY DEF WInv, RowsOfJobs, RowsOfJob, Window
<1>3. /\ active' = [active EXCEPT ![j] = (active[j] \ {i}) \cup n]
      /\ todo' = [todo EXCEPT ![j] = todo[j] \ n]
  BY DEF Replace
<1> HIDE DEF n
<1>4. /\ active'[j] = (active[j] \ {i}) \cup n /\ todo'[j] = todo[j] \ n
      /\ \A k \in Jobs \ {j} : active'[k] = active[k] /\ todo'[k] = todo[k]
  BY <1>3 DEF WInv, TypeOK
<1> QED
  BY <1>1, <1>2, <1>4 DEF AtHand

LEMMA RecordMoves ==
    ASSUME WInv, NEW j \in Jobs, EndRecord(j)
    PROVE  RowsMove
<1>1. PICK i \in writing[j] : out' = F!EndLine(out, j, i) /\ Replace(j, i)
  BY DEF EndRecord
<1>2. i \in active[j]
  BY <1>1 DEF WInv, RowsOfJobs, RowsOfJob
<1>3. /\ AtHand(j)' \subseteq AtHand(j) \ {i}
      /\ \A k \in Jobs \ {j} : AtHand(k)' = AtHand(k)
  BY <1>1, <1>2, ReplaceMoves
<1>5. out \in F!File
  BY DEF WInv, TypeOK
<1>6. CASE out.tail = j
  <2>1. /\ out'.keys = out.keys \cup {i}
        /\ out'.repeated = IF i \in out.keys THEN out.repeated \cup {i} ELSE out.repeated
    BY <1>1, <1>5, <1>6 DEF F!File, F!EndLine
  <2>2. i \in AtHand(j) /\ jpc[j] # "free"
    BY <1>2 DEF AtHand, EndRecord
  <2> QED
    BY <1>3, <2>1, <2>2 DEF RowsMove
<1>7. CASE out.tail # j
  <2>1. out'.keys = out.keys /\ out'.repeated = out.repeated
    BY <1>1, <1>5, <1>7 DEF F!File, F!EndLine
  <2>2. \A k \in Jobs : AtHand(k)' \subseteq AtHand(k)
    BY <1>3
  <2> QED
    BY <2>1, <2>2 DEF RowsMove
<1> QED
  BY <1>6, <1>7

LEMMA StepMovesRows ==
    ASSUME WInv, [Next]_vars
    PROVE  RowsMove
<1>1. CASE UNCHANGED <<out, active, todo>>
  BY <1>1 DEF RowsMove, AtHand
<1>2. ASSUME NEW l \in Launchers, LauncherStep(l) \/ StopLauncher(l)
      PROVE  UNCHANGED <<out, active, todo>>
  BY <1>2 DEF LauncherStep, TestFlag, CleanupOldJobs, Submit, SrunReturns, Launch,
              StopLauncher, fileVars, jobVars, workVars
<1>3. ASSUME NEW j \in Jobs, JobStep(j) \/ ServerFails(j) \/ JobKilled(j)
      PROVE  RowsMove
  <2>1. CASE EndRecord(j)
    BY <2>1, RecordMoves
  <2>2. CASE Allocate(j) \/ ServerReady(j)
    BY <1>1, <2>2 DEF Allocate, ServerReady, fileVars, workVars
  <2>3. CASE StartWork(j)
    <3> DEFINE s == Rows \ Existing
               first == FirstRows(s, MaxPending)
    <3>1. first \subseteq s /\ s = Rows \ out.keys
      BY FirstRowsSubset DEF Existing
    <3>2. out' = out /\ active' = [active EXCEPT ![j] = first] /\ todo' = [todo EXCEPT ![j] = s \ first]
      BY <2>3 DEF StartWork, fileVars
    <3> HIDE DEF s, first
    <3>3. \A k \in Jobs : AtHand(k)' \subseteq AtHand(k) \cup s
      BY <3>1, <3>2 DEF WInv, TypeOK, AtHand
    <3> QED
      BY <3>1, <3>2, <3>3 DEF RowsMove
  <2>4. CASE JobEnds(j) /\ (out' = out \/ out' = F!Abandon(out, j))
    <3>1. out'.keys = out.keys /\ out'.repeated = out.repeated
      BY <2>4 DEF WInv, TypeOK, F!File, F!Abandon
    <3>2. \A k \in Jobs : AtHand(k)' \subseteq AtHand(k)
      BY <2>4 DEF JobEnds, WInv, TypeOK, AtHand
    <3> QED
      BY <3>1, <3>2 DEF RowsMove
  <2> QED
    BY <1>3, <2>1, <2>2, <2>3, <2>4 DEF JobStep, ServerFails, LoadRaises, AlreadyComplete,
       TaskRaises, Finish, JobKilled, fileVars
<1>4. ASSUME NEW j \in Jobs, NEW i \in Rows, BeginRecord(j, i) \/ RecordInvalid(j, i)
      PROVE  RowsMove
  <2>1. CASE BeginRecord(j, i)
    <3>1. PICK c \in Cuts : out' = F!BeginLine(out, j, c)
      BY <2>1 DEF BeginRecord
    <3>2. out'.keys = out.keys /\ out'.repeated = out.repeated
      BY <3>1 DEF WInv, TypeOK, F!File, F!BeginLine
    <3> QED
      BY <2>1, <3>2 DEF BeginRecord, RowsMove, AtHand
  <2>2. CASE RecordInvalid(j, i)
    <3>1. \A k \in Jobs : AtHand(k)' \subseteq AtHand(k)
      BY <2>2, ReplaceMoves DEF RecordInvalid
    <3> QED
      BY <2>2, <3>1 DEF RecordInvalid, fileVars, RowsMove
  <2> QED
    BY <1>4, <2>1, <2>2
<1> QED
  BY <1>1, <1>2, <1>3, <1>4 DEF Next, vars, fileVars, jobVars

NothingRepeated == out.repeated = {} /\ \A j \in Jobs : AtHand(j) \cap out.keys = {}

NInv == WInv /\ JobIsAwaited /\ (Undisturbed => NothingRepeated)

LEMMA NothingRepeatedStep ==
    ASSUME NInv, [Next]_vars, Undisturbed
    PROVE  NothingRepeated'
<1>1. RowsMove /\ NothingRepeated
  BY StepMovesRows DEF NInv
<1>2. CASE /\ out'.keys = out.keys /\ out'.repeated = out.repeated
           /\ \A j \in Jobs : AtHand(j)' \subseteq AtHand(j) \cup (Rows \ out.keys)
  BY <1>1, <1>2 DEF NothingRepeated
<1>3. ASSUME NEW j \in Jobs, NEW i \in AtHand(j), jpc[j] # "free",
             out'.keys = out.keys \cup {i},
             out'.repeated = IF i \in out.keys THEN out.repeated \cup {i} ELSE out.repeated,
             AtHand(j)' \subseteq AtHand(j) \ {i},
             \A k \in Jobs \ {j} : AtHand(k)' = AtHand(k)
      PROVE  NothingRepeated'
  <2>1. out'.repeated = {}
    BY <1>1, <1>3 DEF NothingRepeated
  <2>2. AtHand(j)' \cap out'.keys = {}
    BY <1>1, <1>3 DEF NothingRepeated
  <2>3. ASSUME NEW k \in Jobs \ {j} PROVE AtHand(k) = {}
    <3>1. PICK s \in Launchers : Started = {s}
      BY TheLauncher DEF NInv, WInv, Undisturbed
    <3>2. jpc[k] = "free"
      BY <1>3, <2>3, <3>1 DEF NInv, JobIsAwaited
    <3> QED
      BY <3>2 DEF NInv, WInv, RowsOfJobs, RowsOfJob, AtHand
  <2> QED
    BY <1>3, <2>1, <2>2, <2>3 DEF NothingRepeated
<1> QED
  BY <1>1, <1>2, <1>3 DEF RowsMove

(* While one launcher retries a split and nobody stops it, no row is       *)
(* requested again once it is recorded, nor recorded twice, and no job     *)
(* has a row both in flight and still to hand out.                         *)
THEOREM NothingIsRepeated == Spec => []NoRepeatedRequest
<1>1. Init => NInv
  BY InitRows DEF Init, NInv, JobIsAwaited, NothingRepeated, AtHand, F!FileWith
<1>2. ASSUME NInv, [Next]_vars, WInv' PROVE NInv'
  <2>1. Undisturbed' => Undisturbed /\ JobIsAwaited'
    BY <1>2, AwaitedStep DEF NInv, WInv
  <2>2. Undisturbed => NothingRepeated'
    BY <1>2, NothingRepeatedStep
  <2>3. JobIsAwaited'
    BY <2>1 DEF JobIsAwaited
  <2> QED
    BY <1>2, <2>1, <2>2, <2>3 DEF NInv
<1>3. NInv => NoRepeatedRequest
  BY DEF NInv, WInv, RowsOfJobs, RowsOfJob, Window, NothingRepeated, AtHand, NoRepeatedRequest
<1> QED
  BY <1>1, <1>2, <1>3, RowsInvariance, PTL DEF Spec
=============================================================================
