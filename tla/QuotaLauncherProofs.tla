------------------------- MODULE QuotaLauncherProofs -------------------------
(***************************************************************************)
(* The reserved quota is respected for any number of splits and any        *)
(* reserved_min_running, where the submit lock really is held: although    *)
(* jobs are counted first and markers later, although srun returns and     *)
(* jobs end without the lock, and although launchers are killed and        *)
(* launched again, or squeue fails (but not both, see Trusted).            *)
(***************************************************************************)
EXTENDS QuotaLauncher, FiniteSetTheorems, TLAPS

USE DEF Quotas

(* The lock admits one launcher to counting, choosing and marking. *)
LockInv ==
    /\ \A s \in Splits : pc[s] \in Section => s \in holder
    /\ \A s, t \in holder : s = t

(* From the test of the flag to srun a launcher has no job. *)
IdleInv == \A s \in Splits : pc[s] \in Section \cup {"test", "lock", "submit"} => job[s] = "none"

(* From its choice until srun has returned, a reserved split is marked. *)
MarkedInv ==
    /\ \A s \in Splits : pc[s] = "submit" /\ quota[s] = "reserved" => s \in markers
    /\ ReservedJobs \subseteq markers

(* What squeue told is still enough when the markers are counted. *)
CountedInv ==
    Trusted => \A s \in Splits : pc[s] = "markers" => Cardinality(outlived) <= seen[s]

(* Before the first stop no reserved job has lost its launcher. *)
NoStopInv == stops = 0 => outlived = {} /\ \A s \in Splits : pc[s] # "down"

(* Nor has any section. *)
AloneInv == stops = 0 => alone = {}

IInv ==
    /\ TypeOK /\ LockInv /\ IdleInv /\ MarkedInv
    /\ CountedInv /\ NoStopInv /\ AloneInv /\ QuotaBound

-----------------------------------------------------------------------------
LEMMA InitTypeOK == Init => TypeOK
<1> SUFFICES ASSUME Init PROVE TypeOK
  OBVIOUS
<1>1. 0 \in 0 .. MaxStops /\ DefaultQuota \in Quotas
  BY ConstantsAssumption DEF ConstantsAssumption
<1>2. blind \in BOOLEAN
  BY DEF Init
<1> QED
  BY <1>1, <1>2 DEF Init, TypeOK, Pcs

LEMMA CountType ==
    ASSUME TypeOK
    PROVE  /\ IsFiniteSet(ReservedJobs) /\ IsFiniteSet(markers) /\ IsFiniteSet(outlived)
           /\ IsFiniteSet(Claimed) /\ IsFiniteSet(Claimed \cup Chosen)
           /\ Cardinality(ReservedJobs) \in Nat /\ Cardinality(markers) \in Nat
           /\ Cardinality(outlived) \in Nat
<1>0. IsFiniteSet(Splits) /\ IsFiniteSet(0 .. MaxStops)
  BY ConstantsAssumption, FS_Interval DEF ConstantsAssumption
<1>1. IsFiniteSet(Splits \X (0 .. MaxStops))
  BY <1>0, FS_Product
<1>2. markers \subseteq Splits /\ ReservedJobs \subseteq Splits
      /\ Claimed \subseteq Splits /\ Claimed \cup Chosen \subseteq Splits
  BY DEF TypeOK, ReservedJobs, Claimed, Chosen
<1>3. outlived \subseteq Splits \X (0 .. MaxStops)
  BY DEF TypeOK
<1> QED
  BY <1>0, <1>1, <1>2, <1>3, FS_Subset, FS_CardinalityType

LEMMA NextTypeOK == TypeOK /\ [Next]_vars => TypeOK'
<1> SUFFICES ASSUME TypeOK, [Next]_vars PROVE TypeOK'
  OBVIOUS
<1> USE DEF lockVars, pickVars, jobVars, bounds
<1>1. CASE UNCHANGED vars
  BY <1>1 DEF TypeOK, vars
<1>2. ASSUME NEW s \in Splits, LauncherStep(s) PROVE TypeOK'
  <2>1. CASE TestFlagAndCleanup(s)
    BY <2>1 DEF TypeOK, TestFlagAndCleanup, Goto, Pcs
  <2>2. CASE TakeLock(s)
    BY <2>2 DEF TypeOK, TakeLock, Goto, Pcs, Section
  <2>3. CASE CountJobs(s)
    <3>1. Cardinality(ReservedJobs) + Cardinality(outlived) \in Nat
      BY CountType
    <3>2. seen' \in [Splits -> Nat]
      BY <2>3, <3>1 DEF TypeOK, CountJobs
    <3> QED
      BY <2>3, <3>2 DEF TypeOK, CountJobs, Goto, Pcs, Section
  <2>4. CASE CountMarkersAndPick(s)
    <3>1. PickQuota(s) \in Quotas
      BY ConstantsAssumption DEF ConstantsAssumption, PickQuota
    <3> QED
      BY <2>4, <3>1 DEF TypeOK, CountMarkersAndPick, Goto, Pcs, Section
  <2>5. CASE MarkAndUnlock(s)
    BY <2>5 DEF TypeOK, MarkAndUnlock, Mark, Pcs
  <2>6. CASE Submit(s)
    BY <2>6 DEF TypeOK, Submit, Goto, Pcs
  <2>7. CASE SrunReturns(s)
    BY <2>7 DEF TypeOK, SrunReturns, Goto, Pcs
  <2> QED
    BY <1>2, <2>1, <2>2, <2>3, <2>4, <2>5, <2>6, <2>7 DEF LauncherStep
<1>3. ASSUME NEW s \in Splits, JobEnds(s) PROVE TypeOK'
  BY <1>3 DEF TypeOK, JobEnds
<1>4. ASSUME NEW s \in Splits, LauncherDies(s) PROVE TypeOK'
  <2>1. stops' \in 0 .. MaxStops
    BY <1>4, ConstantsAssumption DEF ConstantsAssumption, TypeOK, LauncherDies
  <2>2. leaked' \in BOOLEAN
    BY <1>4, Zenon DEF TypeOK, LauncherDies
  <2> QED
    BY <1>4, <2>1, <2>2 DEF TypeOK, LauncherDies, Pcs
<1>5. CASE StopAll
  <2>1. stops' \in 0 .. MaxStops
    BY <1>5, ConstantsAssumption DEF ConstantsAssumption, TypeOK, StopAll
  <2>2. leaked' \in BOOLEAN
    BY <1>5, Zenon DEF TypeOK, StopAll
  <2>3. job' \in [Splits -> Quotas \cup {"none"}]
    BY <1>5 DEF TypeOK, StopAll
  <2> QED
    BY <1>5, <2>1, <2>2, <2>3 DEF TypeOK, StopAll, Pcs
<1>6. CASE Launch
  <2>1. {<<s, stops>> : s \in ReservedJobs} \subseteq Splits \X (0 .. MaxStops)
    BY DEF TypeOK, ReservedJobs
  <2> QED
    BY <1>6, <2>1 DEF TypeOK, Launch, Pcs
<1>7. CASE OldJobEnds
  BY <1>7 DEF TypeOK, OldJobEnds
<1>8. CASE ChildEnds
  BY <1>8 DEF TypeOK, ChildEnds
<1> QED
  BY <1>1, <1>2, <1>3, <1>4, <1>5, <1>6, <1>7, <1>8 DEF Next

(* Type correctness of the launchers. *)
THEOREM TypeCorrect == Spec => []TypeOK
<1> QED
  BY InitTypeOK, NextTypeOK, PTL DEF Spec

-----------------------------------------------------------------------------
(* One launcher at a time counts, chooses and marks. *)
LEMMA LockStep ==
    ASSUME Locked, TypeOK, LockInv, [Next]_vars
    PROVE  LockInv'
<1> USE DEF LockInv, Section
<1>1. CASE UNCHANGED vars
  BY <1>1 DEF vars, lockVars
<1>2. ASSUME NEW s \in Splits, LauncherStep(s) \/ JobEnds(s) \/ LauncherDies(s) PROVE LockInv'
  <2>1. CASE TakeLock(s)
    BY <2>1 DEF TakeLock, Goto, TypeOK
  <2>2. CASE CountJobs(s) \/ CountMarkersAndPick(s)
    BY <2>2 DEF CountJobs, CountMarkersAndPick, Goto, TypeOK, lockVars
  <2>3. CASE MarkAndUnlock(s)
    BY <2>3 DEF MarkAndUnlock, Mark, TypeOK
  <2>4. CASE TestFlagAndCleanup(s) \/ Submit(s) \/ SrunReturns(s) \/ JobEnds(s)
    BY <2>4 DEF TestFlagAndCleanup, Submit, SrunReturns, JobEnds, Goto, TypeOK, lockVars
  <2>5. CASE LauncherDies(s)
    BY <2>5 DEF LauncherDies, TypeOK
  <2> QED
    BY <1>2, <2>1, <2>2, <2>3, <2>4, <2>5 DEF LauncherStep
<1>3. CASE StopAll
  BY <1>3 DEF StopAll
<1>4. CASE Launch
  BY <1>4 DEF Launch, TypeOK, lockVars
<1>5. CASE OldJobEnds \/ ChildEnds
  BY <1>5 DEF OldJobEnds, ChildEnds, lockVars
<1> QED
  BY <1>1, <1>2, <1>3, <1>4, <1>5 DEF Next

LEMMA IdleStep ==
    ASSUME TypeOK, IdleInv, [Next]_vars
    PROVE  IdleInv'
<1> USE DEF IdleInv, Section, jobVars
<1>1. CASE UNCHANGED vars
  BY <1>1 DEF vars
<1>2. ASSUME NEW s \in Splits, LauncherStep(s) PROVE IdleInv'
  BY <1>2 DEF LauncherStep, TestFlagAndCleanup, TakeLock, CountJobs, CountMarkersAndPick,
              MarkAndUnlock, Mark, Submit, SrunReturns, Goto, TypeOK
<1>3. ASSUME NEW s \in Splits, JobEnds(s) \/ LauncherDies(s) PROVE IdleInv'
  BY <1>3 DEF JobEnds, LauncherDies, TypeOK
<1>4. CASE StopAll \/ Launch
  BY <1>4 DEF StopAll, Launch
<1>5. CASE OldJobEnds \/ ChildEnds
  BY <1>5 DEF OldJobEnds, ChildEnds
<1> QED
  BY <1>1, <1>2, <1>3, <1>4, <1>5 DEF Next

LEMMA MarkedStep ==
    ASSUME TypeOK, IdleInv, MarkedInv, [Next]_vars
    PROVE  MarkedInv'
<1> USE DEF MarkedInv, ReservedJobs, jobVars, pickVars
<1>1. CASE UNCHANGED vars
  BY <1>1 DEF vars
<1>2. ASSUME NEW s \in Splits, LauncherStep(s) PROVE MarkedInv'
  <2>1. CASE TestFlagAndCleanup(s) \/ TakeLock(s) \/ CountJobs(s) \/ CountMarkersAndPick(s)
    BY <2>1 DEF TestFlagAndCleanup, TakeLock, CountJobs, CountMarkersAndPick, Goto, TypeOK
  <2>2. CASE MarkAndUnlock(s)
    <3>1. job[s] = "none" /\ UNCHANGED <<job, quota>>
      BY <2>2 DEF MarkAndUnlock, Mark, IdleInv, Section
    <3> QED
      BY <2>2, <3>1 DEF MarkAndUnlock, Mark, TypeOK
  <2>3. CASE Submit(s)
    BY <2>3 DEF Submit, Goto, TypeOK
  <2>4. CASE SrunReturns(s)
    BY <2>4 DEF SrunReturns, Goto, TypeOK
  <2> QED
    BY <1>2, <2>1, <2>2, <2>3, <2>4 DEF LauncherStep
<1>3. ASSUME NEW s \in Splits, JobEnds(s) \/ LauncherDies(s) PROVE MarkedInv'
  BY <1>3 DEF JobEnds, LauncherDies, TypeOK
<1>4. CASE StopAll
  BY <1>4 DEF StopAll
<1>5. CASE Launch
  BY <1>5 DEF Launch
<1>6. CASE OldJobEnds \/ ChildEnds
  BY <1>6 DEF OldJobEnds, ChildEnds
<1> QED
  BY <1>1, <1>2, <1>3, <1>4, <1>5, <1>6 DEF Next

-----------------------------------------------------------------------------
(* Only launch.sh, which runs when no launcher does, leaves reserved jobs  *)
(* to squeue alone.                                                        *)
LEMMA OutlivedShrinks ==
    ASSUME [Next]_vars, ~Launch
    PROVE  outlived' \subseteq outlived
BY DEF Next, vars, LauncherStep, TestFlagAndCleanup, TakeLock, CountJobs, CountMarkersAndPick,
   MarkAndUnlock, Mark, Submit, SrunReturns, JobEnds, OldJobEnds, ChildEnds, LauncherDies, StopAll,
   jobVars

(* Stops are never taken back, and what squeue failed to say stays unsaid. *)
LEMMA TrustShrinks ==
    ASSUME TypeOK, [Next]_vars
    PROVE  (stops' = 0 => stops = 0) /\ (Trusted' => Trusted)
<1>1. stops \in Nat
  BY ConstantsAssumption DEF ConstantsAssumption, TypeOK
<1>2. CASE UNCHANGED vars
  BY <1>2 DEF vars, bounds, Trusted
<1>3. ASSUME OldJobEnds \/ ChildEnds \/ Launch \/ \E s \in Splits : LauncherStep(s) \/ JobEnds(s)
      PROVE  UNCHANGED stops /\ (blind => blind')
  BY <1>3 DEF LauncherStep, TestFlagAndCleanup, TakeLock, CountJobs, CountMarkersAndPick,
              MarkAndUnlock, Mark, Submit, SrunReturns, JobEnds, OldJobEnds, ChildEnds, Launch, bounds
<1>4. ASSUME StopAll \/ \E s \in Splits : LauncherDies(s)
      PROVE  stops' = stops + 1 /\ UNCHANGED blind
  BY <1>4 DEF StopAll, LauncherDies
<1> QED
  BY <1>1, <1>2, <1>3, <1>4 DEF Next, Trusted

LEMMA NoStopStep ==
    ASSUME IInv, [Next]_vars
    PROVE  NoStopInv'
<1> SUFFICES ASSUME stops' = 0
             PROVE  outlived' = {} /\ \A s \in Splits : pc'[s] # "down"
  BY DEF NoStopInv
<1>1. stops = 0
  BY TrustShrinks DEF IInv
<1>2. outlived = {} /\ \A s \in Splits : pc[s] # "down"
  BY <1>1 DEF IInv, NoStopInv
<1>3. CASE Launch
  <2>1. Splits = {}
    BY <1>2, <1>3 DEF Launch
  <2> QED
    BY <1>2, <1>3, <2>1 DEF Launch, ReservedJobs
<1>4. CASE ~Launch
  <2>1. outlived' = {}
    BY <1>2, <1>4, OutlivedShrinks
  <2>2. CASE UNCHANGED vars
    BY <1>2, <2>1, <2>2 DEF vars
  <2>3. ASSUME NEW s \in Splits, LauncherStep(s) \/ JobEnds(s)
        PROVE  \A t \in Splits : pc'[t] # "down"
    <3>1. CASE MarkAndUnlock(s)
      <4>1. s \notin alone
        BY <1>1 DEF IInv, AloneInv
      <4> QED
        BY <1>2, <3>1, <4>1 DEF MarkAndUnlock, Mark, IInv, TypeOK
    <3>2. CASE ~MarkAndUnlock(s)
      BY <1>2, <2>3, <3>2 DEF LauncherStep, TestFlagAndCleanup, TakeLock, CountJobs,
                        CountMarkersAndPick, Submit, SrunReturns, JobEnds, Goto, IInv, TypeOK
    <3> QED
      BY <3>1, <3>2
  <2>4. ~StopAll /\ \A s \in Splits : ~LauncherDies(s)
    BY <1>1 DEF StopAll, LauncherDies, IInv, TypeOK
  <2>5. CASE OldJobEnds \/ ChildEnds
    BY <1>2, <2>1, <2>5 DEF OldJobEnds, ChildEnds
  <2> QED
    BY <1>4, <2>1, <2>2, <2>3, <2>4, <2>5 DEF Next
<1> QED
  BY <1>3, <1>4

LEMMA AloneStep ==
    ASSUME TypeOK, AloneInv, [Next]_vars
    PROVE  AloneInv'
<1> SUFFICES ASSUME stops' = 0 PROVE alone' = {}
  BY DEF AloneInv
<1>1. stops = 0 /\ alone = {}
  BY TrustShrinks DEF AloneInv
<1>2. ~StopAll /\ \A s \in Splits : ~LauncherDies(s)
  BY <1>1 DEF StopAll, LauncherDies, TypeOK
<1> QED
  BY <1>1, <1>2 DEF Next, vars, LauncherStep, TestFlagAndCleanup, TakeLock, CountJobs,
     CountMarkersAndPick, MarkAndUnlock, Mark, Submit, SrunReturns, JobEnds, OldJobEnds, ChildEnds,
     Launch, lockVars

LEMMA CountedStep ==
    ASSUME IInv, [Next]_vars
    PROVE  CountedInv'
<1> SUFFICES ASSUME Trusted', NEW t \in Splits, pc'[t] = "markers"
             PROVE  Cardinality(outlived') <= seen'[t]
  BY DEF CountedInv
<1>0. Trusted
  BY TrustShrinks DEF IInv
<1>1. ~Launch
  BY DEF Launch
<1>2. outlived' \subseteq outlived
  BY <1>1, OutlivedShrinks
<1>3. Cardinality(outlived') \in Nat /\ Cardinality(outlived') <= Cardinality(outlived)
      /\ Cardinality(outlived) \in Nat
  BY <1>2, CountType, FS_Subset, FS_CardinalityType DEF IInv
<1>4. CASE pc[t] = "markers" /\ seen'[t] = seen[t]
  BY <1>0, <1>3, <1>4 DEF IInv, CountedInv, TypeOK
<1>5. CASE CountJobs(t)
  <2>1. CASE seen' = [seen EXCEPT ![t] = Cardinality(ReservedJobs) + Cardinality(outlived)]
    <3>1. Cardinality(ReservedJobs) \in Nat
      BY CountType DEF IInv
    <3>2. seen'[t] = Cardinality(ReservedJobs) + Cardinality(outlived)
      BY <2>1 DEF IInv, TypeOK
    <3> QED
      BY <1>3, <3>1, <3>2
  <2>2. CASE seen' = [seen EXCEPT ![t] = 0] /\ blind'
    <3>1. stops' = 0
      BY <2>2 DEF Trusted
    <3>2. outlived = {}
      BY <3>1, TrustShrinks DEF IInv, NoStopInv
    <3>3. outlived' = {}
      BY <1>2, <3>2
    <3>4. Cardinality(outlived') = 0
      BY <3>3, FS_EmptySet
    <3>5. seen'[t] = 0
      BY <2>2 DEF IInv, TypeOK
    <3> QED
      BY <3>4, <3>5
  <2> QED
    BY <1>5, <2>1, <2>2 DEF CountJobs
<1>6. CASE UNCHANGED vars
  BY <1>4, <1>6 DEF vars, pickVars
<1>7. ASSUME NEW s \in Splits, LauncherStep(s) \/ JobEnds(s) \/ LauncherDies(s)
      PROVE  CountJobs(t) \/ (pc[t] = "markers" /\ seen'[t] = seen[t])
  <2>1. CASE CountMarkersAndPick(s)
    <3>1. t # s /\ pc'[t] = pc[t] /\ seen'[t] = seen[t]
      BY <2>1 DEF CountMarkersAndPick, Goto, IInv, TypeOK
    <3> QED
      BY <3>1
  <2>2. CASE ~CountMarkersAndPick(s)
    BY <1>7, <2>2 DEF LauncherStep, TestFlagAndCleanup, TakeLock, CountJobs,
                MarkAndUnlock, Mark, Submit, SrunReturns, JobEnds, LauncherDies, Goto,
                IInv, TypeOK, pickVars
  <2> QED
    BY <2>1, <2>2
<1>8. ~StopAll
  BY DEF StopAll
<1>9. CASE OldJobEnds \/ ChildEnds
  BY <1>4, <1>9 DEF OldJobEnds, ChildEnds, pickVars
<1> QED
  BY <1>1, <1>4, <1>5, <1>6, <1>7, <1>8, <1>9 DEF Next

-----------------------------------------------------------------------------
(* Only a choice made under the lock adds a claim on the reserved quota,   *)
(* and launch.sh turns claims into jobs that have lost their launchers.    *)
LEMMA ClaimsShrink ==
    ASSUME IInv, [Next]_vars, ~Launch, \A s \in Splits : ~CountMarkersAndPick(s)
    PROVE  (Claimed \cup Chosen)' \subseteq Claimed \cup Chosen
<1> USE DEF Claimed, Chosen, ReservedJobs, jobVars, pickVars
<1>1. CASE UNCHANGED vars
  BY <1>1 DEF vars
<1>2. ASSUME NEW s \in Splits, LauncherStep(s)
      PROVE  (Claimed \cup Chosen)' \subseteq Claimed \cup Chosen
  <2>1. CASE TestFlagAndCleanup(s)
    BY <2>1 DEF TestFlagAndCleanup, Goto, IInv, TypeOK
  <2>2. CASE TakeLock(s) \/ CountJobs(s)
    BY <2>2 DEF TakeLock, CountJobs, Goto, IInv, TypeOK
  <2>3. CASE MarkAndUnlock(s)
    BY <2>3 DEF MarkAndUnlock, Mark, IInv, TypeOK
  <2>4. CASE Submit(s)
    <3>1. quota[s] = "reserved" => s \in markers
      BY <2>4 DEF Submit, Goto, IInv, MarkedInv
    <3> QED
      BY <2>4, <3>1 DEF Submit, Goto, IInv, TypeOK
  <2>5. CASE SrunReturns(s)
    BY <2>5 DEF SrunReturns, Goto, IInv, TypeOK
  <2> QED
    BY <1>2, <2>1, <2>2, <2>3, <2>4, <2>5 DEF LauncherStep
<1>3. ASSUME NEW s \in Splits, JobEnds(s) \/ LauncherDies(s)
      PROVE  (Claimed \cup Chosen)' \subseteq Claimed \cup Chosen
  BY <1>3 DEF JobEnds, LauncherDies, IInv, TypeOK
<1>4. CASE StopAll
  BY <1>4 DEF StopAll
<1>5. CASE OldJobEnds \/ ChildEnds
  BY <1>5 DEF OldJobEnds, ChildEnds
<1> QED
  BY <1>1, <1>2, <1>3, <1>4, <1>5 DEF Next

(* The same number of things, each with the same tag. *)
LEMMA Tagged ==
    ASSUME NEW S, IsFiniteSet(S), NEW tag
    PROVE  /\ IsFiniteSet({<<x, tag>> : x \in S})
           /\ Cardinality({<<x, tag>> : x \in S}) <= Cardinality(S)
<1> DEFINE T == {<<x, tag>> : x \in S}
           f == [x \in S |-> <<x, tag>>]
<1>1. f \in [S -> T]
  OBVIOUS
<1>2. f \in Surjection(S, T)
  BY <1>1 DEF Surjection
<1> QED
  BY <1>2, FS_Surjection

(* What launch.sh adds to the jobs without launchers it takes from the     *)
(* claims, of which it leaves none.                                        *)
LEMMA LaunchBound ==
    ASSUME IInv, Launch
    PROVE  /\ (Claimed \cup Chosen)' = {}
           /\ IsFiniteSet(outlived')
           /\ Cardinality(outlived') <= Cardinality(outlived) + Cardinality(Claimed \cup Chosen)
<1> DEFINE new == {<<s, stops>> : s \in ReservedJobs}
<1>1. (Claimed \cup Chosen)' = {}
  BY DEF Launch, Claimed, Chosen, ReservedJobs
<1>2. outlived' = outlived \cup new
  BY DEF Launch
<1>3. IsFiniteSet(new) /\ Cardinality(new) <= Cardinality(ReservedJobs)
  BY CountType, Tagged DEF IInv
<1>4. Cardinality(ReservedJobs) <= Cardinality(Claimed \cup Chosen)
  BY CountType, FS_Subset DEF IInv, Claimed
<1>5. IsFiniteSet(outlived)
  BY CountType DEF IInv
<1> HIDE DEF new
<1>6. /\ IsFiniteSet(outlived \cup new)
      /\ Cardinality(outlived \cup new)
            = Cardinality(outlived) + Cardinality(new) - Cardinality(outlived \cap new)
  BY <1>3, <1>5, FS_Union
<1>7. IsFiniteSet(outlived \cap new)
  BY <1>5, FS_Intersection
<1>8. Cardinality(outlived \cap new) \in Nat /\ Cardinality(new) \in Nat
      /\ Cardinality(outlived) \in Nat /\ Cardinality(ReservedJobs) \in Nat
      /\ Cardinality(Claimed \cup Chosen) \in Nat
  BY <1>3, <1>5, <1>7, CountType, FS_CardinalityType DEF IInv
<1> QED
  BY <1>1, <1>2, <1>3, <1>4, <1>6, <1>8

LEMMA BoundStep ==
    ASSUME Locked, IInv, [Next]_vars
    PROVE  QuotaBound'
<1> DEFINE claims == Claimed \cup Chosen
<1> SUFFICES ASSUME ReservedMin > 0, Trusted'
             PROVE  Cardinality(outlived') + Cardinality(claims') <= ReservedMin
  BY DEF QuotaBound
<1>0. ReservedMin \in Nat /\ Trusted
  BY ConstantsAssumption, TrustShrinks DEF ConstantsAssumption, IInv
<1>1. /\ IsFiniteSet(claims) /\ IsFiniteSet(outlived)
      /\ Cardinality(claims) \in Nat /\ Cardinality(outlived) \in Nat
      /\ Cardinality(outlived) + Cardinality(claims) <= ReservedMin
  BY <1>0, CountType, FS_CardinalityType DEF IInv, QuotaBound
<1>2. ASSUME ~Launch, claims' \subseteq claims
      PROVE  Cardinality(outlived') + Cardinality(claims') <= ReservedMin
  <2>1. Cardinality(claims') <= Cardinality(claims) /\ IsFiniteSet(claims')
    BY <1>1, <1>2, FS_Subset
  <2>2. Cardinality(outlived') <= Cardinality(outlived) /\ IsFiniteSet(outlived')
    BY <1>1, <1>2, OutlivedShrinks, FS_Subset
  <2>3. Cardinality(claims') \in Nat /\ Cardinality(outlived') \in Nat
    BY <2>1, <2>2, FS_CardinalityType
  <2> HIDE DEF claims
  <2> QED
    BY <1>0, <1>1, <2>1, <2>2, <2>3
<1>3. ASSUME NEW s \in Splits, CountMarkersAndPick(s)
      PROVE  Cardinality(outlived') + Cardinality(claims') <= ReservedMin
  <2>1. \A t \in Splits : pc[t] = "mark" => t = s
    BY <1>3 DEF CountMarkersAndPick, Goto, IInv, LockInv, Section
  <2>2. pc[s] = "markers" /\ \A t \in Splits : pc'[t] = "mark" => t = s
    BY <1>3, <2>1 DEF CountMarkersAndPick, Goto, IInv, TypeOK
  <2>3. Claimed' = Claimed /\ outlived' = outlived /\ ~Launch
    BY <1>3, <2>2 DEF CountMarkersAndPick, Claimed, ReservedJobs, jobVars, Launch
  <2>4. CASE quota'[s] # "reserved"
    <3>1. Chosen' = {}
      BY <2>2, <2>4 DEF Chosen
    <3> QED
      BY <1>2, <2>3, <3>1
  <2>5. CASE quota'[s] = "reserved"
    <3>1. PickQuota(s) = "reserved"
      BY <1>3, <2>5 DEF CountMarkersAndPick, IInv, TypeOK
    <3>2. seen[s] + Cardinality(markers) < ReservedMin
      BY <3>1 DEF PickQuota, BelowMin, ReservedCount
    <3>3. Cardinality(outlived) <= seen[s]
      BY <1>0, <2>2 DEF IInv, CountedInv
    <3>4. Claimed = markers
      BY DEF Claimed, IInv, MarkedInv
    <3>5. claims' \subseteq markers \cup {s}
      BY <2>2, <2>3, <3>4 DEF Chosen
    <3>6. IsFiniteSet(markers) /\ Cardinality(markers) \in Nat /\ seen[s] \in Nat
      BY CountType DEF IInv, TypeOK
    <3>7. Cardinality(markers \cup {s}) <= Cardinality(markers) + 1 /\ IsFiniteSet(markers \cup {s})
      <4>1. CASE s \in markers
        <5>1. markers \cup {s} = markers
          BY <4>1
        <5>2. Cardinality(markers) <= Cardinality(markers) + 1
          BY <3>6
        <5> QED
          BY <3>6, <5>1, <5>2, Zenon
      <4>2. CASE s \notin markers
        <5>1. /\ IsFiniteSet(markers \cup {s})
              /\ Cardinality(markers \cup {s}) = Cardinality(markers) + 1
          BY <3>6, <4>2, FS_AddElement, Zenon
        <5> QED
          BY <3>6, <5>1
      <4> QED
        BY <4>1, <4>2
    <3>8. Cardinality(claims') <= Cardinality(markers \cup {s}) /\ IsFiniteSet(claims')
      BY <3>5, <3>7, FS_Subset
    <3>9. Cardinality(claims') \in Nat /\ Cardinality(markers \cup {s}) \in Nat
      BY <3>7, <3>8, FS_CardinalityType
    <3> HIDE DEF claims
    <3> QED
      BY <1>0, <1>1, <2>3, <3>2, <3>3, <3>6, <3>7, <3>8, <3>9
  <2> QED
    BY <2>4, <2>5
<1>4. CASE Launch
  <2>1. claims' = {} /\ Cardinality(claims') = 0
    BY <1>4, LaunchBound, FS_EmptySet
  <2>2. Cardinality(outlived') <= Cardinality(outlived) + Cardinality(claims)
        /\ Cardinality(outlived') \in Nat
    BY <1>4, LaunchBound, FS_CardinalityType
  <2> HIDE DEF claims
  <2> QED
    BY <1>0, <1>1, <2>1, <2>2
<1>5. CASE ~Launch /\ \A s \in Splits : ~CountMarkersAndPick(s)
  BY <1>2, <1>5, ClaimsShrink
<1> QED
  BY <1>3, <1>4, <1>5

-----------------------------------------------------------------------------
LEMMA InitIInv == Init => IInv
<1> SUFFICES ASSUME Init PROVE IInv
  OBVIOUS
<1>1. TypeOK
  BY InitTypeOK
<1>2. Claimed \cup Chosen = {} /\ ReservedJobs = {} /\ outlived = {}
  BY DEF Init, Claimed, Chosen, ReservedJobs
<1>3. Cardinality({}) = 0
  BY FS_EmptySet
<1>4. QuotaBound
  <2>1. ReservedMin \in Nat
    BY ConstantsAssumption DEF ConstantsAssumption
  <2>2. Cardinality(Claimed \cup Chosen) = 0 /\ Cardinality(outlived) = 0
    BY <1>2, <1>3
  <2> QED
    BY <2>1, <2>2 DEF QuotaBound
<1>5. LockInv /\ IdleInv /\ MarkedInv /\ CountedInv /\ NoStopInv /\ AloneInv
  BY <1>2 DEF Init, LockInv, AloneInv, IdleInv, MarkedInv, CountedInv, NoStopInv, Section
<1> QED
  BY <1>1, <1>4, <1>5 DEF IInv

(* The lock, the idle, marked and counted jobs and the bound, together. *)
LEMMA Invariance == ASSUME Locked PROVE Spec => []IInv
<1>1. IInv /\ [Next]_vars => IInv'
  <2> SUFFICES ASSUME IInv, [Next]_vars PROVE IInv'
    OBVIOUS
  <2>1. TypeOK'
    BY NextTypeOK DEF IInv
  <2>2. LockInv' /\ IdleInv' /\ MarkedInv'
    BY LockStep, IdleStep, MarkedStep DEF IInv
  <2>3. CountedInv' /\ NoStopInv' /\ AloneInv' /\ QuotaBound'
    BY CountedStep, NoStopStep, AloneStep, BoundStep DEF IInv
  <2> QED
    BY <2>1, <2>2, <2>3 DEF IInv
<1> QED
  BY <1>1, InitIInv, PTL DEF Spec

(* Under the lock, at most reserved_min_running splits use or are about to *)
(* use the reserved quota: squeue may fail until the first launcher is     *)
(* killed, and launchers may be killed as long as squeue has answered.     *)
THEOREM QuotaIsBounded == ASSUME Locked PROVE Spec => []QuotaBound
<1>1. IInv => QuotaBound
  BY DEF IInv
<1> QED
  BY <1>1, Invariance, PTL

-----------------------------------------------------------------------------
LEMMA MarkerStep ==
    ASSUME TypeOK, AloneInv, NoStaleMarker, [Next]_vars
    PROVE  NoStaleMarker'
<1> SUFFICES ASSUME stops' = 0, NEW m \in markers'
             PROVE  quota'[m] = "reserved" /\ pc'[m] \in {"submit", "wait"}
  BY DEF NoStaleMarker
<1>0. alone = {}
  BY TrustShrinks DEF AloneInv
<1>1. \A t \in markers : t \in Splits /\ quota[t] = "reserved" /\ pc[t] \in {"submit", "wait"}
  BY TrustShrinks DEF NoStaleMarker, TypeOK
<1>2. CASE UNCHANGED vars
  BY <1>1, <1>2 DEF vars, pickVars
<1>3. ASSUME NEW s \in Splits, LauncherStep(s)
      PROVE  quota'[m] = "reserved" /\ pc'[m] \in {"submit", "wait"}
  <2>1. CASE MarkAndUnlock(s)
    BY <1>1, <2>1, <1>0 DEF MarkAndUnlock, Mark, TypeOK
  <2>2. CASE SrunReturns(s)
    BY <1>1, <2>2 DEF SrunReturns, Goto, TypeOK
  <2>3. CASE TestFlagAndCleanup(s) \/ TakeLock(s) \/ CountJobs(s) \/ CountMarkersAndPick(s)
    <3>1. s \notin markers /\ markers' = markers
      BY <1>1, <2>3 DEF TestFlagAndCleanup, TakeLock, CountJobs, CountMarkersAndPick, Goto, pickVars
    <3>2. \A t \in Splits \ {s} : pc'[t] = pc[t] /\ quota'[t] = quota[t]
      BY <2>3 DEF TestFlagAndCleanup, TakeLock, CountJobs, CountMarkersAndPick, Goto, TypeOK, pickVars
    <3> QED
      BY <1>1, <3>1, <3>2
  <2>4. CASE Submit(s)
    BY <1>1, <2>4 DEF Submit, Goto, TypeOK, pickVars
  <2> QED
    BY <1>3, <2>1, <2>2, <2>3, <2>4 DEF LauncherStep
<1>4. ASSUME NEW s \in Splits, JobEnds(s)
      PROVE  quota'[m] = "reserved" /\ pc'[m] \in {"submit", "wait"}
  BY <1>1, <1>4 DEF JobEnds, pickVars
<1>5. ~StopAll /\ \A s \in Splits : ~LauncherDies(s)
  BY ConstantsAssumption DEF StopAll, LauncherDies, TypeOK, ConstantsAssumption
<1>6. ~Launch
  BY DEF Launch
<1>7. CASE OldJobEnds \/ ChildEnds
  BY <1>1, <1>7 DEF OldJobEnds, ChildEnds, pickVars
<1> QED
  BY <1>2, <1>3, <1>4, <1>5, <1>6, <1>7 DEF Next

(* Until a launcher is killed a marker stands for a launcher between its   *)
(* choice of the reserved quota and the end of its srun, with the lock or  *)
(* without it: no place in the quota is held by nobody.                    *)
THEOREM MarkersAreMeant == Spec => []NoStaleMarker
<1>1. Init => AloneInv /\ NoStaleMarker
  BY DEF Init, AloneInv, NoStaleMarker
<1>2. TypeOK /\ AloneInv /\ NoStaleMarker /\ [Next]_vars => AloneInv' /\ NoStaleMarker'
  BY AloneStep, MarkerStep
<1> QED
  BY <1>1, <1>2, TypeCorrect, PTL DEF Spec
=============================================================================
