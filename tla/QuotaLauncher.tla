---------------------------- MODULE QuotaLauncher ----------------------------
(***************************************************************************)
(* All the launchers of one stage, one single_job.sh per split, sharing    *)
(* the reserved quota.  Before each srun a launcher counts the experiment's *)
(* reserved jobs in squeue, adds the marker files of the launchers that    *)
(* chose reserved quota, takes reserved quota while the sum is below       *)
(* reserved_min_running and leaves its own marker; the marker goes when    *)
(* srun returns.  Counting, choosing and marking are meant to be one       *)
(* critical section under flock.                                           *)
(*                                                                         *)
(* Locked is TRUE for the scripts that open the lock file before flock     *)
(* (122b_distill, sft_model_rollout, compass_verify_122b and               *)
(* compassverify_sft_rollouts) and FALSE for the ones whose redirection is *)
(* a command of its own after the section, so that flock fails on a closed *)
(* descriptor and the section runs unprotected (4b_difficulty, 9b_distill, *)
(* 27b_distill, 27b_verify, compass_verify_9b, compass_verify_27b).        *)
(* What a job does while it runs is SplitJob's.                            *)
(***************************************************************************)
EXTENDS Naturals, FiniteSets

CONSTANTS
    Splits,        \* the splits, one launcher each
    ReservedMin,   \* slurm.reserved_min_running
    DefaultQuota,  \* slurm.quota_type, used when ReservedMin is 0
    Locked,        \* whether flock has a descriptor to lock
    SqueueFails,   \* whether squeue or scontrol may print nothing
    MaxStops       \* bound: launchers killed, and full stops

ASSUME ConstantsAssumption ==
    /\ IsFiniteSet(Splits)
    /\ ReservedMin \in Nat
    /\ DefaultQuota \in {"reserved", "spot"}
    /\ Locked \in BOOLEAN /\ SqueueFails \in BOOLEAN
    /\ MaxStops \in Nat

VARIABLES
    pc,        \* split -> where its launcher is in the loop
    holder,    \* the launchers whose section holds the submit lock
    leaked,    \* a squeue, scontrol or find of a killed section still holds it
    alone,     \* launchers that are dead while their section, a subshell, goes on
    seen,      \* split -> reserved_count of its launcher's pick_quota
    quota,     \* split -> QUOTA_TO_USE of its launcher
    markers,   \* splits with a marker file
    job,       \* split -> quota of the job squeue lists as R or PD since this launch, or "none"
    outlived,  \* reserved jobs still listed since an earlier launch: split, time of launch
    blind,     \* squeue or scontrol has printed nothing to some launcher
    stops

bounds   == <<blind, stops>>
lockVars == <<holder, leaked, alone>>
pickVars == <<seen, quota, markers>>
jobVars  == <<job, outlived>>
vars     == <<pc, lockVars, pickVars, jobVars, bounds>>

Quotas == {"reserved", "spot"}
Section == {"squeue", "markers", "mark"}
Pcs == {"down", "exited", "test", "lock", "submit", "wait"} \cup Section

ReservedJobs == {s \in Splits : job[s] = "reserved"}

TypeOK ==
    /\ pc \in [Splits -> Pcs]
    /\ holder \subseteq Splits /\ leaked \in BOOLEAN /\ alone \subseteq Splits
    /\ seen \in [Splits -> Nat]
    /\ quota \in [Splits -> Quotas]
    /\ markers \subseteq Splits
    /\ job \in [Splits -> Quotas \cup {"none"}]
    /\ outlived \subseteq Splits \X (0 .. MaxStops)
    /\ blind \in BOOLEAN
    /\ stops \in 0 .. MaxStops

(* launch.sh has just cleared the marker directory. *)
Init ==
    /\ pc = [s \in Splits |-> "test"]
    /\ holder = {} /\ leaked = FALSE /\ alone = {}
    /\ seen = [s \in Splits |-> 0]
    /\ quota = [s \in Splits |-> DefaultQuota]
    /\ markers = {}
    /\ job = [s \in Splits |-> "none"]
    /\ outlived = {}
    /\ blind = FALSE
    /\ stops = 0

Goto(s, from, to) == pc[s] = from /\ pc' = [pc EXCEPT ![s] = to]

-----------------------------------------------------------------------------
(* The stop flag is there or not; either way cleanup_old_jobs cancels what *)
(* an earlier launch left of the split, as far as squeue and scancel,      *)
(* whose failures are silenced, succeed.                                   *)
TestFlagAndCleanup(s) ==
    /\ Goto(s, "test", "exited") \/ Goto(s, "test", "lock")
    /\ \E cancelled \in SUBSET {j \in outlived : j[1] = s} : outlived' = outlived \ cancelled
    /\ UNCHANGED <<lockVars, pickVars, job, bounds>>

TakeLock(s) ==
    /\ Goto(s, "lock", "squeue")
    /\ IF Locked THEN holder = {} /\ ~leaked /\ holder' = {s} ELSE UNCHANGED holder
    /\ UNCHANGED <<leaked, alone, pickVars, jobVars, bounds>>

(* count_reserved_active_jobs; an empty answer counts as no job at all. *)
CountJobs(s) ==
    /\ Goto(s, "squeue", "markers")
    /\ \/ /\ seen' = [seen EXCEPT ![s] = Cardinality(ReservedJobs) + Cardinality(outlived)]
          /\ UNCHANGED blind
       \/ SqueueFails /\ seen' = [seen EXCEPT ![s] = 0] /\ blind' = TRUE
    /\ UNCHANGED <<lockVars, quota, markers, jobVars, stops>>

(* Mutant: only markers count, jobs that outlived theirs are forgotten. *)
OnlyMarkers(s) == Cardinality(markers)

(* reserved_count: the jobs seen in squeue plus the marker files. *)
ReservedCount(s) == seen[s] + Cardinality(markers)

BelowMin(n) == n < ReservedMin

(* Mutant: nothing is echoed when the reserved quota is used up. *)
PickNothing(s) ==
    IF ReservedMin = 0 THEN DefaultQuota
    ELSE IF BelowMin(ReservedCount(s)) THEN "reserved" ELSE ""

PickQuota(s) ==
    IF ReservedMin = 0 THEN DefaultQuota
    ELSE IF BelowMin(ReservedCount(s)) THEN "reserved" ELSE "spot"

CountMarkersAndPick(s) ==
    /\ Goto(s, "markers", "mark")
    /\ quota' = [quota EXCEPT ![s] = PickQuota(s)]
    /\ seen' = [seen EXCEPT ![s] = 0]  \* a local of pick_quota
    /\ UNCHANGED <<lockVars, markers, jobVars, bounds>>

Mark(s) ==
    /\ pc[s] = "mark"
    /\ pc' = [pc EXCEPT ![s] = IF s \in alone THEN "down" ELSE "submit"]
    /\ alone' = alone \ {s}
    /\ markers' = IF quota[s] = "reserved" THEN markers \cup {s} ELSE markers \ {s}
    /\ UNCHANGED <<seen, quota, jobVars, bounds>>

(* Mutant: the descriptor, and the lock with it, stays open. *)
MarkAndKeepLock(s) == Mark(s) /\ UNCHANGED <<holder, leaked>>

(* The subshell ends with the marker, and lets go of the lock. *)
MarkAndUnlock(s) == Mark(s) /\ holder' = holder \ {s} /\ UNCHANGED leaked

Submit(s) ==
    /\ Goto(s, "submit", "wait")
    /\ job' = [job EXCEPT ![s] = quota[s]]
    /\ UNCHANGED <<lockVars, pickVars, outlived, bounds>>

(* A job completes, fails, is preempted or cancelled. *)
JobEnds(s) ==
    /\ job[s] # "none"
    /\ job' = [job EXCEPT ![s] = "none"]
    /\ UNCHANGED <<pc, lockVars, pickVars, outlived, bounds>>

OldJobEnds ==
    /\ \E j \in outlived : outlived' = outlived \ {j}
    /\ UNCHANGED <<pc, lockVars, pickVars, job, bounds>>

(* Mutant: the marker is left for the next round to overwrite. *)
SrunReturnsKeepingMarker(s) ==
    /\ Goto(s, "wait", "test")
    /\ job[s] = "none"
    /\ UNCHANGED <<lockVars, pickVars, jobVars, bounds>>

SrunReturns(s) ==
    /\ Goto(s, "wait", "test")
    /\ job[s] = "none"
    /\ markers' = IF quota[s] = "reserved" THEN markers \ {s} ELSE markers
    /\ UNCHANGED <<lockVars, seen, quota, jobVars, bounds>>

(* A squeue, scontrol or find that inherited descriptor 9 ends. *)
ChildEnds ==
    /\ leaked /\ leaked' = FALSE
    /\ UNCHANGED <<pc, holder, alone, pickVars, jobVars, bounds>>

(* One launcher is killed; its marker stays.  Its section is a subshell,   *)
(* which goes on alone, or is killed too (pkill -f meets both), when the   *)
(* program it was waiting for may keep the lock a little longer.           *)
LauncherDies(s) ==
    /\ stops < MaxStops
    /\ pc[s] \notin {"down", "exited"} /\ s \notin alone
    /\ \/ /\ pc' = [pc EXCEPT ![s] = "down"]
          /\ holder' = holder \ {s}
          /\ leaked' \in {leaked, leaked \/ s \in holder}
          /\ UNCHANGED alone
       \/ /\ pc[s] \in {"lock"} \cup Section
          /\ alone' = alone \cup {s}
          /\ UNCHANGED <<pc, holder, leaked>>
    /\ stops' = stops + 1
    /\ UNCHANGED <<pickVars, jobVars, blind>>

(* The operator's "Stop": every launcher and section is killed, then the   *)
(* jobs that squeue lists are cancelled; a job may be missed or outlive    *)
(* its scancel.                                                            *)
StopAll ==
    /\ stops < MaxStops
    /\ pc' = [s \in Splits |-> "down"]
    /\ holder' = {} /\ alone' = {}
    /\ leaked' \in {leaked, leaked \/ holder # {}}
    /\ \E left \in SUBSET Splits : job' = [s \in Splits |-> IF s \in left THEN job[s] ELSE "none"]
    /\ outlived' \in SUBSET outlived
    /\ stops' = stops + 1
    /\ UNCHANGED <<pickVars, blind>>

(* launch.sh, when no launcher or section is left: rm -rf of the marker    *)
(* directory, then one launcher per split.  Reserved jobs that still run   *)
(* have lost their launchers; spot jobs are never counted.                 *)
Launch ==
    /\ \A s \in Splits : pc[s] = "down"
    /\ pc' = [s \in Splits |-> "test"]
    /\ markers' = {}
    /\ outlived' = outlived \cup {<<s, stops>> : s \in ReservedJobs}
    /\ job' = [s \in Splits |-> "none"]
    /\ UNCHANGED <<lockVars, seen, quota, bounds>>

LauncherStep(s) ==
    \/ TestFlagAndCleanup(s)
    \/ TakeLock(s) \/ CountJobs(s) \/ CountMarkersAndPick(s) \/ MarkAndUnlock(s)
    \/ Submit(s) \/ SrunReturns(s)

Next ==
    \/ \E s \in Splits : LauncherStep(s) \/ JobEnds(s) \/ LauncherDies(s)
    \/ OldJobEnds \/ ChildEnds
    \/ StopAll
    \/ Launch

Spec == Init /\ [][Next]_vars

(* A launcher that is not killed goes on, and so does a section that has   *)
(* lost its launcher; what a killed section started ends; flock passes     *)
(* nobody over for ever.                                                   *)
FairSpec ==
    /\ Spec
    /\ WF_vars(ChildEnds)
    /\ \A s \in Splits : WF_vars(LauncherStep(s)) /\ SF_vars(TakeLock(s))

-----------------------------------------------------------------------------
(* Splits that use the reserved quota or have decided to. *)
Claimed == ReservedJobs \cup markers
Chosen == {s \in Splits : pc[s] = "mark" /\ quota[s] = "reserved"}

(* No more than reserved_min_running splits use the reserved quota, or are *)
(* about to, at any time: the rest are submitted with spot quota.  Jobs    *)
(* that outlived the markers of killed launchers are counted by squeue,    *)
(* markers make up for a squeue that says nothing; not both at once.       *)
Trusted == stops = 0 \/ ~blind
QuotaBound ==
    ReservedMin > 0 /\ Trusted =>
        Cardinality(outlived) + Cardinality(Claimed \cup Chosen) <= ReservedMin

(* Until a launcher is killed, a marker always stands for a launcher       *)
(* between its choice and the end of its srun: none is left behind to take *)
(* a place in the reserved quota.                                          *)
NoStaleMarker ==
    stops = 0 => \A s \in markers : quota[s] = "reserved" /\ pc[s] \in {"submit", "wait"}

(* Whoever waits for the submit lock submits its job in the end, unless it *)
(* is killed: a launcher killed inside the section, alone or with all the  *)
(* others, and the programs it leaves behind, do not keep the lock.        *)
EveryoneSubmits ==
    \A s \in Splits : pc[s] = "lock" ~> pc[s] \in {"wait", "down"}
=============================================================================
