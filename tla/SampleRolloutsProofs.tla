------------------------- MODULE SampleRolloutsProofs -------------------------
(* Proofs about SampleRollouts, for any number of samples, rollouts,       *)
(* retries and connections and for both policies.                          *)
EXTENDS SampleRollouts, TLAPS

(* A failed request has used up its attempts, a live one has some left. *)
TriesInv ==
    \A s \in Samples, r \in Rollouts :
        /\ req[s][r] = "failed" => tries[s][r] = MaxRetries
        /\ req[s][r] \in {"queued", "sent", "backoff"} => tries[s][r] < MaxRetries
        /\ req[s][r] = "none" => tries[s][r] = 0

(* A sample waits, is in flight, or has its record. *)
StageInv ==
    /\ active \cap todo = {}
    /\ \A s \in todo : \A r \in Rollouts : req[s][r] = "none"
    /\ \A s \in active \cup todo : record[s] = NoRecord
    /\ \A s \in Samples \ (active \cup todo) : record[s].made

(* A record is what the sample's requests, all over, still say it is. *)
RecordInv ==
    \A s \in Samples : record[s].made => AllAreOver(s) /\ record[s] = RecordOf(s)

IInv == TypeOK /\ TriesInv /\ StageInv /\ RecordInv

-----------------------------------------------------------------------------
LEMMA RecordType == \A s \in Samples : RecordOf(s) \in Records
<1> SUFFICES ASSUME NEW s \in Samples PROVE RecordOf(s) \in Records
  OBVIOUS
<1>1. IsValid(s) \in BOOLEAN
  BY DEF IsValid
<1>2. Kept(s) \subseteq Rollouts
  BY DEF Kept
<1> QED
  BY <1>1, <1>2 DEF RecordOf, Records

LEMMA RecordFields ==
    ASSUME NEW s \in Samples
    PROVE  RecordOf(s).made /\ RecordOf(s).valid = IsValid(s) /\ RecordOf(s).rollouts = Kept(s)
  BY DEF RecordOf

LEMMA InitIInv == Init => IInv
<1> SUFFICES ASSUME Init PROVE IInv
  OBVIOUS
<1> USE ConstantsAssumption DEF ConstantsAssumption
<1>1. TypeOK
  BY DEF Init, TypeOK, Requests, FirstState, ReqStates, NoRecord, Records
<1>2. TriesInv
  BY DEF Init, TriesInv, Requests, FirstState
<1>3. StageInv
  BY DEF Init, StageInv, Requests
<1>4. RecordInv
  BY DEF Init, RecordInv, NoRecord
<1> QED
  BY <1>1, <1>2, <1>3, <1>4 DEF IInv

(* A step of one request of a sample in flight. *)
RequestStep(s, r) == Connect(s, r) \/ Answer(s, r) \/ AttemptFails(s, r) \/ Retry(s, r)

(* What the four steps of a request have in common. *)
LEMMA RequestStepShape ==
    ASSUME IInv, NEW s \in Samples, NEW r \in Rollouts, RequestStep(s, r)
    PROVE  /\ s \in active
           /\ UNCHANGED <<todo, active, record, keepFailed>>
           /\ \E q \in ReqStates \ {"none"}, n \in 0 .. MaxRetries :
                 /\ req' = [req EXCEPT ![s][r] = q]
                 /\ tries' = [tries EXCEPT ![s][r] = n]
                 /\ q = "failed" => n = MaxRetries
                 /\ q \in {"queued", "sent", "backoff"} => n < MaxRetries
<1> USE ConstantsAssumption DEF ConstantsAssumption
<1>1. req[s][r] \in {"queued", "sent", "backoff"} /\ UNCHANGED <<todo, active, record, keepFailed>>
  BY DEF RequestStep, Connect, Answer, AttemptFails, Retry
<1>2. s \in active
  BY <1>1 DEF IInv, StageInv, RecordInv, AllAreOver
<1>3. tries[s][r] \in 0 .. MaxRetries /\ tries[s][r] < MaxRetries
  BY <1>1 DEF IInv, TypeOK, TriesInv
<1>4. tries = [tries EXCEPT ![s][r] = tries[s][r]]
  BY DEF IInv, TypeOK
<1>5. CASE Connect(s, r) \/ Answer(s, r) \/ Retry(s, r)
  <2>1. \E q \in {"sent", "answered", "queued"} : req' = [req EXCEPT ![s][r] = q]
    BY <1>5 DEF Connect, Answer, Retry
  <2>2. tries' = [tries EXCEPT ![s][r] = tries[s][r]]
    BY <1>4, <1>5 DEF Connect, Answer, Retry
  <2> QED
    BY <1>1, <1>2, <1>3, <2>1, <2>2 DEF ReqStates
<1>6. CASE AttemptFails(s, r)
  <2> DEFINE n == tries[s][r] + 1
             q == IF n < MaxRetries THEN "backoff" ELSE "failed"
  <2>1. req' = [req EXCEPT ![s][r] = q] /\ tries' = [tries EXCEPT ![s][r] = n]
    BY <1>6 DEF AttemptFails
  <2>2. n \in 0 .. MaxRetries /\ q \in ReqStates \ {"none"}
    BY <1>3 DEF ReqStates
  <2>3. (q = "failed" => n = MaxRetries) /\ (q \in {"queued", "sent", "backoff"} => n < MaxRetries)
    BY <1>3
  <2> HIDE DEF n, q
  <2> QED
    BY <1>1, <1>2, <2>1, <2>2, <2>3
<1> QED
  BY <1>5, <1>6 DEF RequestStep

LEMMA RequestStepIInv ==
    ASSUME IInv, NEW s \in Samples, NEW r \in Rollouts, RequestStep(s, r)
    PROVE  IInv'
<1>1. s \in active /\ UNCHANGED <<todo, active, record, keepFailed>>
  BY RequestStepShape
<1>2. PICK q \in ReqStates \ {"none"}, n \in 0 .. MaxRetries :
        /\ req' = [req EXCEPT ![s][r] = q]
        /\ tries' = [tries EXCEPT ![s][r] = n]
        /\ q = "failed" => n = MaxRetries
        /\ q \in {"queued", "sent", "backoff"} => n < MaxRetries
  BY RequestStepShape
<1>3. /\ req \in [Samples -> [Rollouts -> ReqStates]]
      /\ tries \in [Samples -> [Rollouts -> 0 .. MaxRetries]]
  BY DEF IInv, TypeOK
<1>4. /\ req' \in [Samples -> [Rollouts -> ReqStates]]
      /\ tries' \in [Samples -> [Rollouts -> 0 .. MaxRetries]]
  BY <1>2, <1>3
<1>5. \A t \in Samples \ {s} : req'[t] = req[t] /\ tries'[t] = tries[t]
  BY <1>2, <1>3
<1>6. \A p \in Rollouts :
        /\ req'[s][p] = IF p = r THEN q ELSE req[s][p]
        /\ tries'[s][p] = IF p = r THEN n ELSE tries[s][p]
  BY <1>2, <1>3
<1>7. TypeOK'
  BY <1>1, <1>4 DEF IInv, TypeOK
<1>8. TriesInv'
  <2> SUFFICES ASSUME NEW t \in Samples, NEW p \in Rollouts
               PROVE  /\ req'[t][p] = "failed" => tries'[t][p] = MaxRetries
                      /\ req'[t][p] \in {"queued", "sent", "backoff"} => tries'[t][p] < MaxRetries
                      /\ req'[t][p] = "none" => tries'[t][p] = 0
    BY DEF TriesInv
  <2>1. CASE t = s /\ p = r
    BY <1>2, <1>6, <2>1
  <2>2. CASE ~(t = s /\ p = r)
    BY <1>5, <1>6, <2>2 DEF IInv, TriesInv
  <2> QED
    BY <2>1, <2>2
<1>9. s \notin todo /\ ~record[s].made
  BY <1>1 DEF IInv, StageInv, NoRecord
<1>10. StageInv'
  BY <1>1, <1>5, <1>9 DEF IInv, TypeOK, StageInv
<1>11. RecordInv'
  BY <1>1, <1>5, <1>9 DEF IInv, RecordInv, AllAreOver, RecordOf, IsValid, Kept, Erroneous
<1> QED
  BY <1>7, <1>8, <1>10, <1>11 DEF IInv

LEMMA GatherIInv ==
    ASSUME IInv, NEW s \in Samples, Gather(s)
    PROVE  IInv'
<1> USE ConstantsAssumption DEF ConstantsAssumption
<1>1. PICK N \in SUBSET todo :
        /\ todo' = todo \ N
        /\ active' = (active \ {s}) \cup N
        /\ \A t \in Samples : req'[t] = IF t \in N THEN [r \in Rollouts |-> FirstState] ELSE req[t]
        /\ req' \in [Samples -> [Rollouts -> ReqStates]]
  <2> DEFINE Refilled(N) ==
               /\ todo' = todo \ N
               /\ active' = (active \ {s}) \cup N
               /\ \A t \in Samples : req'[t] = IF t \in N THEN [r \in Rollouts |-> FirstState] ELSE req[t]
               /\ req' \in [Samples -> [Rollouts -> ReqStates]]
  <2> SUFFICES \E N \in SUBSET todo : Refilled(N)
    OBVIOUS
  <2>1. CASE todo = {} /\ active' = active \ {s} /\ UNCHANGED <<todo, req>>
    <3>1. Refilled({})
      BY <2>1 DEF IInv, TypeOK
    <3>2. {} \in SUBSET todo
      OBVIOUS
    <3> HIDE DEF Refilled
    <3> QED
      BY <3>1, <3>2
  <2>2. ASSUME NEW n \in todo, todo' = todo \ {n}, active' = (active \ {s}) \cup {n},
               req' = [req EXCEPT ![n] = [r \in Rollouts |-> FirstState]]
        PROVE  \E N \in SUBSET todo : Refilled(N)
    <3>1. [r \in Rollouts |-> FirstState] \in [Rollouts -> ReqStates]
      BY DEF FirstState, ReqStates
    <3>2. n \in Samples /\ req \in [Samples -> [Rollouts -> ReqStates]]
      BY DEF IInv, TypeOK
    <3>3. Refilled({n})
      BY <2>2, <3>1, <3>2
    <3>4. {n} \in SUBSET todo
      OBVIOUS
    <3> HIDE DEF Refilled
    <3> QED
      BY <3>3, <3>4
  <2> QED
    BY <2>1, <2>2 DEF Gather
<1>2. /\ s \in active /\ AllAreOver(s)
      /\ record' = [record EXCEPT ![s] = RecordOf(s)]
      /\ UNCHANGED <<tries, keepFailed>>
  BY DEF Gather
<1>3. N \subseteq Samples /\ s \notin N /\ s \notin todo
  BY <1>1, <1>2 DEF IInv, TypeOK, StageInv
<1>4. record'[s] = RecordOf(s) /\ \A t \in Samples \ {s} : record'[t] = record[t]
  BY <1>2 DEF IInv, TypeOK
<1>5. RecordOf(s).made
  BY DEF RecordOf
<1>6. TypeOK'
  BY <1>1, <1>2, <1>3, RecordType DEF IInv, TypeOK
<1>7. TriesInv'
  <2>1. \A t \in N : \A r \in Rollouts : tries[t][r] = 0
    BY <1>1, <1>3 DEF IInv, StageInv, TriesInv
  <2> QED
    BY <1>1, <1>2, <1>3, <2>1 DEF IInv, TriesInv, FirstState
<1>8. StageInv'
  <2>1. (active \cap todo)' = {}
    BY <1>1, <1>3 DEF IInv, StageInv
  <2>2. \A t \in todo' : \A r \in Rollouts : req'[t][r] = "none"
    BY <1>1 DEF IInv, TypeOK, StageInv
  <2>3. (active \cup todo)' = (active \cup todo) \ {s}
    BY <1>1, <1>3
  <2>4. \A t \in (active \cup todo)' : record'[t] = NoRecord
    BY <1>4, <2>3 DEF IInv, TypeOK, StageInv
  <2>5. \A t \in Samples \ (active \cup todo)' : record'[t].made
    BY <1>4, <1>5, <2>3 DEF IInv, StageInv
  <2> QED
    BY <2>1, <2>2, <2>4, <2>5 DEF StageInv
<1>9. RecordInv'
  <2> SUFFICES ASSUME NEW t \in Samples, record'[t].made
               PROVE  AllAreOver(t)' /\ record'[t] = RecordOf(t)'
    BY DEF RecordInv
  <2>1. t \notin N
    BY <1>1, <1>3, <1>4 DEF IInv, StageInv, NoRecord
  <2>2. AllAreOver(t) /\ record'[t] = RecordOf(t)
    BY <1>2, <1>4 DEF IInv, RecordInv
  <2>3. req'[t] = req[t] /\ tries'[t] = tries[t] /\ keepFailed' = keepFailed
    BY <1>1, <1>2, <2>1
  <2> QED
    BY <2>2, <2>3 DEF AllAreOver, RecordOf, IsValid, Kept, Erroneous
<1> QED
  BY <1>6, <1>7, <1>8, <1>9 DEF IInv

LEMMA Invariance == Spec => []IInv
<1>1. IInv /\ [Next]_vars => IInv'
  <2> SUFFICES ASSUME IInv, [Next]_vars PROVE IInv'
    OBVIOUS
  <2>1. CASE \E s \in Samples, r \in Rollouts : RequestStep(s, r)
    BY <2>1, RequestStepIInv
  <2>2. CASE \E s \in Samples : Gather(s)
    BY <2>2, GatherIInv
  <2>3. CASE UNCHANGED vars
    BY <2>3 DEF vars, IInv, TypeOK, TriesInv, StageInv, RecordInv, AllAreOver, RecordOf, IsValid, Kept, Erroneous
  <2> QED
    BY <2>1, <2>2, <2>3 DEF Next, RequestStep
<1> QED
  BY <1>1, InitIInv, PTL DEF Spec

-----------------------------------------------------------------------------
(* The variables keep their types, whatever the server does. *)
THEOREM TypeCorrect == Spec => []TypeOK
<1>1. IInv => TypeOK
  BY DEF IInv
<1> QED
  BY <1>1, Invariance, PTL

(* Every record appended as valid is one that the reader counts. *)
THEOREM ValidRecordsCount == Spec => []ValidIsCounted
<1>1. IInv => ValidIsCounted
  <2> SUFFICES ASSUME IInv, NEW s \in Samples, record[s].valid PROVE Counted(record[s])
    BY DEF ValidIsCounted
  <2>1. record[s] = RecordOf(s)
    BY DEF IInv, StageInv, RecordInv, NoRecord
  <2>2. IsValid(s) /\ record[s].rollouts = Kept(s)
    BY <2>1, RecordFields
  <2>3. Kept(s) = Rollouts
    <3>1. CASE keepFailed
      BY <3>1 DEF Kept
    <3>2. CASE ~keepFailed
      BY <2>2, <3>2 DEF Kept, IsValid
    <3> QED
      BY <3>1, <3>2
  <2> QED
    BY <2>2, <2>3 DEF Counted
<1> QED
  BY <1>1, Invariance, PTL

(* A valid record is answered, in full or, where failures are kept, in part. *)
THEOREM ValidRecordsAnswered == Spec => []ValidIsAnswered
<1>1. IInv => ValidIsAnswered
  <2> SUFFICES ASSUME IInv, MaxRetries > 0, NEW s \in Samples, record[s].valid
               PROVE  IF keepFailed THEN \E r \in Rollouts : req[s][r] = "answered"
                                    ELSE \A r \in Rollouts : req[s][r] = "answered"
    BY DEF ValidIsAnswered
  <2>1. AllAreOver(s) /\ record[s] = RecordOf(s)
    BY DEF IInv, StageInv, RecordInv, NoRecord
  <2>2. \A r \in Rollouts : req[s][r] = "answered" \/ r \in Erroneous(s)
    BY <2>1 DEF IInv, TriesInv, AllAreOver, Erroneous
  <2>3. Erroneous(s) \subseteq Rollouts
    BY DEF Erroneous
  <2>4. IsValid(s)
    BY <2>1, RecordFields
  <2>5. CASE keepFailed
    <3>1. Erroneous(s) # Rollouts
      BY <2>4, <2>5 DEF IsValid
    <3>2. PICK r \in Rollouts : r \notin Erroneous(s)
      BY <2>3, <3>1
    <3> QED
      BY <2>2, <2>5, <3>2
  <2>6. CASE ~keepFailed
    <3>1. Erroneous(s) = {}
      BY <2>4, <2>6 DEF IsValid
    <3> QED
      BY <2>2, <2>6, <3>1
  <2> QED
    BY <2>5, <2>6
<1> QED
  BY <1>1, Invariance, PTL

(* A sample is given up only when a request has used up its attempts. *)
THEOREM InvalidRecordsExhausted == Spec => []InvalidIsExhausted
<1>1. IInv => InvalidIsExhausted
  <2> SUFFICES ASSUME IInv, NEW s \in Samples, record[s].made, ~record[s].valid
               PROVE  \E r \in Rollouts : tries[s][r] = MaxRetries /\ req[s][r] = "failed"
    BY DEF InvalidIsExhausted
  <2>1. record[s] = RecordOf(s)
    BY DEF IInv, RecordInv
  <2>2. ~IsValid(s)
    BY <2>1, RecordFields
  <2>3. Erroneous(s) # {} /\ Erroneous(s) \subseteq Rollouts
    BY <2>2, ConstantsAssumption DEF IsValid, Erroneous, ConstantsAssumption
  <2> QED
    BY <2>3 DEF IInv, TriesInv, Erroneous
<1> QED
  BY <1>1, Invariance, PTL

(* No request outlives its sample's task. *)
THEOREM NoOrphanRequest == Spec => []NothingLeftBehind
<1>1. IInv => NothingLeftBehind
  <2> SUFFICES ASSUME IInv, NEW s \in Samples, NEW r \in Rollouts,
                      req[s][r] \in {"queued", "sent", "backoff"}
               PROVE  s \in active /\ ~record[s].made
    BY DEF NothingLeftBehind
  <2>1. ~record[s].made
    BY DEF IInv, RecordInv, AllAreOver
  <2>2. s \in active \cup todo
    BY <2>1 DEF IInv, StageInv
  <2>3. s \notin todo
    BY DEF IInv, StageInv
  <2> QED
    BY <2>1, <2>2, <2>3
<1> QED
  BY <1>1, Invariance, PTL
=============================================================================
