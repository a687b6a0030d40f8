---------------------------- MODULE SampleRollouts ----------------------------
(***************************************************************************)
(* The requests behind the samples of one running worker (run_rollout.py): *)
(* a sample asks the vLLM server for all its rollouts at once, each request *)
(* is tried max_retries times with a pause between tries, and when the     *)
(* last of them is over the sample becomes a record, valid or not.  What   *)
(* happens to the record is SplitJob's.                                    *)
(*                                                                         *)
(* keepFailed is FALSE for the scripts that drop a sample as soon as one   *)
(* rollout failed for good (4b_difficulty, 9b_distill, 27b_distill,        *)
(* sft_model_rollout) and TRUE for 122b_distill, which drops it only when  *)
(* all of them failed, and keeps the failed ones in the record.            *)
(*                                                                         *)
(* The aiohttp session has a bounded number of connections; a request that *)
(* waits for one is already running against request_timeout.               *)
(***************************************************************************)
EXTENDS Naturals, FiniteSets

CONSTANTS
    Samples,      \* the rows to be done
    Rollouts,     \* rollout ids: 0 .. rollouts_per_sample - 1
    MaxRetries,   \* max_retries
    MaxPending,   \* max_concurrent * max_pending_multiplier
    Connections   \* connection limit of the aiohttp session

ASSUME ConstantsAssumption ==
    /\ IsFiniteSet(Samples) /\ IsFiniteSet(Rollouts)
    /\ Rollouts # {}
    /\ MaxRetries \in Nat
    /\ MaxPending \in Nat \ {0} /\ Connections \in Nat \ {0}

VARIABLES
    todo,    \* samples the iterator has not handed out yet
    active,  \* samples with a task in flight
    req,     \* sample -> rollout -> state of its request
    tries,   \* sample -> rollout -> attempts that have failed
    record,  \* sample -> what its task returned
    keepFailed  \* the script's policy on samples with failed rollouts

vars == <<todo, active, req, tries, record, keepFailed>>

ReqStates == {"none", "queued", "sent", "backoff", "answered", "failed"}
NoRecord == [made |-> FALSE, valid |-> FALSE, rollouts |-> {}]
Records == [made : BOOLEAN, valid : BOOLEAN, rollouts : SUBSET Rollouts]

TypeOK ==
    /\ todo \subseteq Samples
    /\ active \subseteq Samples
    /\ req \in [Samples -> [Rollouts -> ReqStates]]
    /\ tries \in [Samples -> [Rollouts -> 0 .. MaxRetries]]
    /\ record \in [Samples -> Records]
    /\ keepFailed \in BOOLEAN

(* for attempt in range(max_retries): nothing is sent when there is none. *)
FirstState == IF MaxRetries = 0 THEN "failed" ELSE "queued"
Requests(S) == [s \in Samples |-> [r \in Rollouts |-> IF s \in S THEN FirstState ELSE "none"]]

Init ==
    /\ active \in SUBSET Samples
    /\ Cardinality(active) = IF Cardinality(Samples) < MaxPending THEN Cardinality(Samples) ELSE MaxPending
    /\ todo = Samples \ active
    /\ req = Requests(active)
    /\ tries = [s \in Samples |-> [r \in Rollouts |-> 0]]
    /\ record = [s \in Samples |-> NoRecord]
    /\ keepFailed \in BOOLEAN

Sent == {p \in Samples \X Rollouts : req[p[1]][p[2]] = "sent"}

Connect(s, r) ==
    /\ req[s][r] = "queued"
    /\ Cardinality(Sent) < Connections
    /\ req' = [req EXCEPT ![s][r] = "sent"]
    /\ UNCHANGED <<todo, active, tries, record, keepFailed>>

(* A response with status < 400 that parses and has a first choice. *)
Answer(s, r) ==
    /\ req[s][r] = "sent"
    /\ req' = [req EXCEPT ![s][r] = "answered"]
    /\ UNCHANGED <<todo, active, tries, record, keepFailed>>

(* Mutant: "<=" where the last attempt has no successor. *)
AttemptFailsOnceMore(s, r) ==
    /\ req[s][r] \in {"queued", "sent"}
    /\ tries' = [tries EXCEPT ![s][r] = @ + 1]
    /\ req' = [req EXCEPT ![s][r] = IF tries[s][r] < MaxRetries THEN "backoff" ELSE "failed"]
    /\ UNCHANGED <<todo, active, record, keepFailed>>

(* request_timeout, a refused connection, HTTP >= 400, a malformed body. *)
AttemptFails(s, r) ==
    /\ req[s][r] \in {"queued", "sent"}
    /\ tries' = [tries EXCEPT ![s][r] = @ + 1]
    /\ req' = [req EXCEPT ![s][r] = IF tries[s][r] + 1 < MaxRetries THEN "backoff" ELSE "failed"]
    /\ UNCHANGED <<todo, active, record, keepFailed>>

Retry(s, r) ==
    /\ req[s][r] = "backoff"
    /\ req' = [req EXCEPT ![s][r] = "queued"]
    /\ UNCHANGED <<todo, active, tries, record, keepFailed>>

-----------------------------------------------------------------------------
(* item.get("error"): the text of the last exception, empty if none was raised. *)
Erroneous(s) == {r \in Rollouts : req[s][r] = "failed" /\ tries[s][r] > 0}

IsValid(s) == IF keepFailed THEN Erroneous(s) # Rollouts ELSE Erroneous(s) = {}
Kept(s)    == IF keepFailed THEN Rollouts ELSE Rollouts \ Erroneous(s)

(* Mutant: "any" for "all" on one side, the filter on the other. *)
RecordGoodOnes(s) ==
    [made |-> TRUE, valid |-> Erroneous(s) # Rollouts, rollouts |-> Rollouts \ Erroneous(s)]

(* Mutant: the sample is valid whatever became of its rollouts. *)
RecordAll(s) == [made |-> TRUE, valid |-> TRUE, rollouts |-> Rollouts]

RecordOf(s) == [made |-> TRUE, valid |-> IsValid(s), rollouts |-> Kept(s)]

AllAreOver(s) == \A r \in Rollouts : req[s][r] \in {"answered", "failed"}

(* Mutant: the next sample is not scheduled when one is done. *)
GatherOnly(s) ==
    /\ s \in active /\ AllAreOver(s)
    /\ record' = [record EXCEPT ![s] = RecordOf(s)]
    /\ active' = active \ {s}
    /\ UNCHANGED <<todo, req, tries, keepFailed>>

(* gather returns, the record is taken, and the next sample is scheduled. *)
Gather(s) ==
    /\ s \in active /\ AllAreOver(s)
    /\ record' = [record EXCEPT ![s] = RecordOf(s)]
    /\ \/ /\ todo = {}
          /\ active' = active \ {s}
          /\ UNCHANGED <<todo, req>>
       \/ \E n \in todo :
          /\ todo' = todo \ {n}
          /\ active' = (active \ {s}) \cup {n}
          /\ req' = [req EXCEPT ![n] = [r \in Rollouts |-> FirstState]]
    /\ UNCHANGED <<tries, keepFailed>>

Next ==
    \/ \E s \in Samples, r \in Rollouts :
          Connect(s, r) \/ Answer(s, r) \/ AttemptFails(s, r) \/ Retry(s, r)
    \/ \E s \in Samples : Gather(s)

Spec == Init /\ [][Next]_vars

(* Every attempt ends, by request_timeout at the latest; the event loop    *)
(* wakes every sleeping task and every finished gather.                    *)
Fairness ==
    /\ \A s \in Samples, r \in Rollouts :
          WF_vars(Answer(s, r) \/ AttemptFails(s, r)) /\ WF_vars(Retry(s, r))
    /\ \A s \in Samples : WF_vars(Gather(s))

FairSpec == Spec /\ Fairness

-----------------------------------------------------------------------------
(***************************************************************************)
(* Properties                                                              *)
(***************************************************************************)

(* What load_existing_indexes counts when it reads a record back. *)
Counted(rec) == rec.valid /\ Cardinality(rec.rollouts) = Cardinality(Rollouts)

(* A record that is appended as valid is counted when the file is read     *)
(* back: were it not, every later job would request the sample again and   *)
(* append another copy, and the split would never complete.                *)
ValidIsCounted == \A s \in Samples : record[s].valid => Counted(record[s])

(* Provided requests are tried at all, a valid record has an answer for    *)
(* every rollout, or for one of them at least where failed ones are kept.  *)
ValidIsAnswered ==
    MaxRetries > 0 =>
        \A s \in Samples : record[s].valid =>
            IF keepFailed THEN \E r \in Rollouts : req[s][r] = "answered"
                          ELSE \A r \in Rollouts : req[s][r] = "answered"

(* A sample is given up only for a rollout that failed max_retries times:  *)
(* no passing trouble of the server sends a sample to failed_rollouts.     *)
InvalidIsExhausted ==
    \A s \in Samples : record[s].made /\ ~record[s].valid =>
        \E r \in Rollouts : tries[s][r] = MaxRetries /\ req[s][r] = "failed"

(* When a sample's record is made none of its requests is left behind to   *)
(* load the server on behalf of nobody.                                    *)
NothingLeftBehind ==
    \A s \in Samples, r \in Rollouts :
        req[s][r] \in {"queued", "sent", "backoff"} => s \in active /\ ~record[s].made

(* Whatever the server does, every sample gets its record. *)
EverySampleRecorded == \A s \in Samples : <>record[s].made
=============================================================================
