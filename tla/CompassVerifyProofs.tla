------------------------- MODULE CompassVerifyProofs -------------------------
(***************************************************************************)
(* What holds of a CompassVerifier split for every rollout file, batch     *)
(* size and number of jobs, losses and failures.                           *)
(***************************************************************************)
EXTENDS CompassVerify, FiniteSetTheorems, TLAPS

-----------------------------------------------------------------------------
(* The rollout file. *)

LEMMA RolloutFacts ==
    ASSUME rollout \in Rollouts
    PROVE  /\ Input \in Seq(Keys) /\ Len(Input) \in Nat
           /\ Responses \in [Keys -> Seq(Formats)]
           /\ \A n \in 1 .. Len(Input) : Input[n] \in Recorded
           /\ \A k \in Recorded : \E n \in 1 .. Len(Input) : Input[n] = k
           /\ Recorded \subseteq Keys
<1>1. Input \in Seq(Keys) /\ Responses \in [Keys -> Seq(Formats)]
  BY ConstantsAssumption DEF ConstantsAssumption, RolloutFile, Input, Responses
<1>2. Len(Input) \in Nat /\ DOMAIN Input = 1 .. Len(Input)
  BY <1>1
<1>3. Recorded = {Input[n] : n \in 1 .. Len(Input)}
  BY <1>2 DEF Recorded, Range
<1>4. \A n \in 1 .. Len(Input) : Input[n] \in Keys
  BY <1>1
<1> HIDE DEF Input, Responses
<1> QED
  BY <1>1, <1>2, <1>3, <1>4

(* A set of lines has a first one. *)
LEMMA FirstLine ==
    ASSUME NEW S \in SUBSET Nat, S # {}
    PROVE  FirstOf(S) \in S
<1>1. PICK n \in S : \A m \in S : ~(<<m, n>> \in OpToRel(<, Nat))
  BY NatLessThanWellFounded, WFMin
<1>2. ASSUME NEW m \in S PROVE n <= m
  <2>1. n \in Nat /\ m \in Nat
    OBVIOUS
  <2>2. ~(m < n)
    BY <1>1, <2>1 DEF OpToRel
  <2> QED
    BY <2>1, <2>2
<1> QED
  BY <1>2 DEF FirstOf

-----------------------------------------------------------------------------
(* The verdicts of one record. *)

LEMMA PromptedFacts ==
    ASSUME rollout \in Rollouts, NEW k \in Keys
    PROVE  /\ Len(Responses[k]) \in Nat
           /\ Prompted(k) \subseteq 1 .. Len(Responses[k])
           /\ IsFiniteSet(Prompted(k)) /\ Prompts(k) \in Nat
           /\ \A i \in Nat : IsFiniteSet(Prompted(k) \cap (1 .. i)) /\ PlaceOf(k, i) \in Nat
<1>1. Len(Responses[k]) \in Nat
  BY RolloutFacts
<1>2. Prompted(k) \subseteq 1 .. Len(Responses[k])
  BY DEF Prompted
<1>3. IsFiniteSet(Prompted(k))
  <2>1. IsFiniteSet(1 .. Len(Responses[k]))
    BY <1>1, FS_Interval
  <2> QED
    BY <1>2, <2>1, FS_Subset
<1>4. ASSUME NEW i \in Nat PROVE IsFiniteSet(Prompted(k) \cap (1 .. i))
  BY <1>3, FS_Subset
<1> QED
  BY <1>1, <1>2, <1>3, <1>4, FS_CardinalityType DEF Prompts, PlaceOf

(* The places of the responses that are sent are the positions in prompts, *)
(* in the same order.                                                      *)
LEMMA PlacesGrow ==
    ASSUME rollout \in Rollouts, NEW k \in Keys,
           NEW g \in Prompted(k), NEW i \in Prompted(k), g < i
    PROVE  PlaceOf(k, g) < PlaceOf(k, i)
<1> DEFINE A == Prompted(k) \cap (1 .. g)
           B == Prompted(k) \cap (1 .. i)
<1>1. g \in Nat /\ i \in Nat /\ 1 <= i
  BY PromptedFacts
<1>2. IsFiniteSet(A) /\ IsFiniteSet(B) /\ Cardinality(A) \in Nat /\ Cardinality(B) \in Nat
  BY <1>1, PromptedFacts, FS_CardinalityType
<1>3. A \subseteq B
  BY <1>1
<1>4. i \in B /\ i \notin A
  BY <1>1
<1>5. Cardinality(A) <= Cardinality(B) /\ (Cardinality(B) = Cardinality(A) => B = A)
  BY <1>2, <1>3, FS_Subset
<1> QED
  BY <1>2, <1>4, <1>5 DEF PlaceOf

LEMMA PlacesAreAll ==
    ASSUME rollout \in Rollouts, NEW k \in Keys
    PROVE  /\ \A i \in Prompted(k) : PlaceOf(k, i) \in 1 .. Prompts(k)
           /\ \A g, i \in Prompted(k) : PlaceOf(k, g) = PlaceOf(k, i) => g = i
           /\ \A p \in 1 .. Prompts(k) : \E i \in Prompted(k) : PlaceOf(k, i) = p
<1> DEFINE f == [i \in Prompted(k) |-> PlaceOf(k, i)]
<1>0. IsFiniteSet(Prompted(k)) /\ Prompts(k) \in Nat /\ Prompted(k) \subseteq Nat
  BY PromptedFacts
<1>1. ASSUME NEW i \in Prompted(k) PROVE PlaceOf(k, i) \in 1 .. Prompts(k)
  <2>1. i \in Nat /\ 1 <= i
    BY PromptedFacts
  <2>2. IsFiniteSet(Prompted(k) \cap (1 .. i)) /\ PlaceOf(k, i) \in Nat
    BY <2>1, PromptedFacts
  <2>3. PlaceOf(k, i) <= Prompts(k)
    BY <1>0, FS_Subset DEF PlaceOf, Prompts
  <2>4. i \in Prompted(k) \cap (1 .. i)
    BY <2>1
  <2>5. PlaceOf(k, i) # 0
    BY <2>2, <2>4, FS_EmptySet DEF PlaceOf
  <2> QED
    BY <1>0, <2>2, <2>3, <2>5
<1>2. ASSUME NEW g \in Prompted(k), NEW i \in Prompted(k), PlaceOf(k, g) = PlaceOf(k, i)
      PROVE  g = i
  <2>1. g \in Nat /\ i \in Nat /\ PlaceOf(k, g) \in Nat /\ PlaceOf(k, i) \in Nat
    BY <1>0, <1>1
  <2>2. ~(g < i) /\ ~(i < g)
    BY <1>2, <2>1, PlacesGrow
  <2> QED
    BY <2>1, <2>2
<1>3. f \in Injection(Prompted(k), 1 .. Prompts(k))
  BY <1>1, <1>2 DEF Injection, IsInjective
<1>4. IsFiniteSet(1 .. Prompts(k)) /\ Cardinality(1 .. Prompts(k)) = Prompts(k)
  BY <1>0, FS_Interval
<1>5. f \in Surjection(Prompted(k), 1 .. Prompts(k))
  BY <1>3, <1>4, FS_Injection DEF Prompts
<1>6. ASSUME NEW p \in 1 .. Prompts(k) PROVE \E i \in Prompted(k) : PlaceOf(k, i) = p
  BY <1>5 DEF Surjection
<1> QED
  BY <1>1, <1>2, <1>6

(* Batches and offsets find the response that a prompt was made of.        *)
LEMMA TaskOfPlace ==
    ASSUME rollout \in Rollouts, NEW k \in Keys, NEW p \in 1 .. Prompts(k)
    PROVE  TaskOf(k, p) \in Prompted(k) /\ PlaceOf(k, TaskOf(k, p)) = p
<1> DEFINE start == ((p - 1) \div BatchSize) * BatchSize
<1>1. p \in Nat /\ BatchSize \in Nat /\ BatchSize > 0
  BY PromptedFacts, ConstantsAssumption DEF ConstantsAssumption
<1>2. start \in Int
  BY <1>1
<1>3. TaskOf(k, p) = CHOOSE i \in Prompted(k) : PlaceOf(k, i) = start + (p - 1 - start) + 1
  BY DEF TaskOf
<1> HIDE DEF start
<1>4. start + (p - 1 - start) + 1 = p
  BY <1>1, <1>2
<1>5. TaskOf(k, p) = CHOOSE i \in Prompted(k) : PlaceOf(k, i) = p
  BY <1>3, <1>4
<1>6. \E i \in Prompted(k) : PlaceOf(k, i) = p
  BY PlacesAreAll
<1> QED
  BY <1>5, <1>6

(* What is looked up for a response is the text at its own place.          *)
LEMMA TextOfPlace ==
    ASSUME rollout \in Rollouts, NEW k \in Keys,
           NEW texts \in [1 .. Prompts(k) -> Texts], NEW i \in Prompted(k)
    PROVE  TextFor(VerifierTexts(k, texts), i) = texts[PlaceOf(k, i)]
<1> DEFINE said == VerifierTexts(k, texts)
           q == PlaceOf(k, i)
<1>1. q \in 1 .. Prompts(k)
  BY PlacesAreAll
<1>2. TaskOf(k, q) = i
  BY <1>1, TaskOfPlace, PlacesAreAll
<1>3. <<i, texts[q]>> \in said
  BY <1>1, <1>2 DEF VerifierTexts
<1>4. ASSUME NEW e \in said, e[1] = i PROVE e[2] = texts[q]
  <2>1. PICK p \in 1 .. Prompts(k) : e = <<TaskOf(k, p), texts[p]>>
    BY DEF VerifierTexts
  <2>2. PlaceOf(k, TaskOf(k, p)) = p
    BY TaskOfPlace
  <2>3. p = q
    BY <1>4, <2>1, <2>2
  <2> QED
    BY <2>1, <2>3
<1> HIDE DEF said, q
<1>5. \E e \in said : e[1] = i
  BY <1>3
<1>6. TextFor(said, i) = (CHOOSE e \in said : e[1] = i)[2]
  BY <1>5 DEF TextFor
<1>7. (CHOOSE e \in said : e[1] = i)[2] = texts[q]
  BY <1>4, <1>5
<1> QED
  BY <1>6, <1>7 DEF said, q

LEMMA FiledUnderItsOwn ==
    ASSUME rollout \in Rollouts, NEW k \in Keys,
           NEW texts \in [1 .. Prompts(k) -> Texts], NEW i \in 1 .. Len(Responses[k])
    PROVE  LabelOf(k, texts, i) = "A" <=>
               /\ FormatValid(Responses[k][i])
               /\ texts[Cardinality({h \in 1 .. i : FormatValid(Responses[k][h])})] = "A"
<1>1. Len(Responses[k]) \in Nat /\ i \in Nat
  BY PromptedFacts
<1>2. {h \in 1 .. i : FormatValid(Responses[k][h])} = Prompted(k) \cap (1 .. i)
  BY <1>1 DEF Prompted
<1>3. Cardinality({h \in 1 .. i : FormatValid(Responses[k][h])}) = PlaceOf(k, i)
  BY <1>2 DEF PlaceOf
<1>4. CASE FormatValid(Responses[k][i])
  <2>1. i \in Prompted(k)
    BY <1>4 DEF Prompted
  <2>2. TextFor(VerifierTexts(k, texts), i) = texts[PlaceOf(k, i)]
    BY <2>1, TextOfPlace
  <2>3. LabelOf(k, texts, i) = "A" <=> texts[PlaceOf(k, i)] = "A"
    BY <1>4, <2>2 DEF LabelOf
  <2> QED
    BY <1>3, <1>4, <2>3
<1>5. CASE ~FormatValid(Responses[k][i])
  BY <1>5 DEF LabelOf
<1> QED
  BY <1>4, <1>5

-----------------------------------------------------------------------------
(* Types. *)

AnswerType == [key : Keys \cup {"none"}, texts : Seq(Texts)]

LEMMA BegunFile ==
    ASSUME NEW f \in F!File, NEW j \in Jobs, NEW c \in BOOLEAN
    PROVE  /\ F!BeginLine(f, j, c) \in F!File
           /\ F!BeginLine(f, j, c).keys = f.keys /\ F!BeginLine(f, j, c).repeated = f.repeated
BY DEF F!File, F!BeginLine

(* What finishing a line does to the records of a file. *)
Same(f, g) == g.keys = f.keys /\ g.repeated = f.repeated

RecordsOne(f, g, k) ==
    /\ g.keys = f.keys \cup {k}
    /\ g.repeated = IF k \in f.keys THEN f.repeated \cup {k} ELSE f.repeated

LEMMA EndedFile ==
    ASSUME NEW f \in F!File, NEW j \in Jobs, NEW k \in Keys \X BOOLEAN
    PROVE  /\ F!EndLine(f, j, k) \in F!File
           /\ Same(f, F!EndLine(f, j, k)) \/ RecordsOne(f, F!EndLine(f, j, k), k)
<1> DEFINE g == F!EndLine(f, j, k)
<1>1. g \in F!File
  <2>1. /\ g.keys \subseteq Keys \X BOOLEAN /\ g.repeated \subseteq Keys \X BOOLEAN
        /\ g.tail = "clean" /\ g.cut = "none" /\ g.junk \in BOOLEAN /\ g.garbled \in BOOLEAN
    BY DEF F!EndLine, F!File
  <2>2. g = [keys |-> g.keys, repeated |-> g.repeated, tail |-> g.tail,
             cut |-> g.cut, junk |-> g.junk, garbled |-> g.garbled]
    BY DEF F!EndLine
  <2> HIDE DEF g
  <2> QED
    BY <2>1, <2>2 DEF F!File
<1>2. Same(f, g) \/ RecordsOne(f, g, k)
  BY DEF F!EndLine, Same, RecordsOne
<1> QED
  BY <1>1, <1>2

LEMMA AbandonedFile ==
    ASSUME NEW f \in F!File, NEW j \in Jobs
    PROVE  /\ F!Abandon(f, j) \in F!File
           /\ F!Abandon(f, j).keys = f.keys /\ F!Abandon(f, j).repeated = f.repeated
BY DEF F!File, F!Abandon

LEMMA CutsBoolean == Cuts \subseteq BOOLEAN
BY DEF Cuts

LEMMA AnswerTypes ==
    /\ NoAnswer \in AnswerType
    /\ \A k \in Keys, n \in Nat : \A t \in [1 .. n -> Texts] : [key |-> k, texts |-> t] \in AnswerType
<1>1. NoAnswer \in AnswerType
  BY DEF NoAnswer, AnswerType
<1>2. ASSUME NEW k \in Keys, NEW n \in Nat, NEW t \in [1 .. n -> Texts]
      PROVE  [key |-> k, texts |-> t] \in AnswerType
  BY DEF AnswerType
<1> QED
  BY <1>1, <1>2

LEMMA InitTypeOK == Init => TypeOK
<1> SUFFICES ASSUME Init PROVE TypeOK
  OBVIOUS
<1>1. F!FileWith({}) \in F!File
  BY DEF F!FileWith, F!File
<1>2. 0 \in 0 .. MaxLosses /\ 0 \in 0 .. MaxRaises
  BY ConstantsAssumption DEF ConstantsAssumption
<1>3. answer \in [Jobs -> AnswerType]
  BY AnswerTypes DEF Init
<1> QED
  BY <1>1, <1>2, <1>3 DEF Init, TypeOK, Pcs, AnswerType

LEMMA SameRollout ==
    ASSUME [Next]_vars
    PROVE  rollout' = rollout /\ Input' = Input /\ Responses' = Responses /\ Recorded' = Recorded
<1>1. rollout' = rollout
  BY DEF Next, vars, StartJob, JobStep, ItemRaises, Cancel, JobKilled, FlagThere, LoadRaises,
         NothingLeft, Load, Judge, EndResult, CloseFiles, Count
<1> QED
  BY <1>1 DEF Input, Responses, Recorded

LEMMA JobEndsTypes ==
    ASSUME TypeOK, NEW j \in Jobs, JobEnds(j)
    PROVE  /\ pc' \in [Jobs -> Pcs] /\ dying' \subseteq Jobs
           /\ todo' \in [Jobs -> SUBSET (1 .. Len(Input))]
           /\ answer' \in [Jobs -> AnswerType]
<1>1. answer' \in [Jobs -> AnswerType]
  BY AnswerTypes DEF TypeOK, JobEnds, AnswerType
<1> QED
  BY <1>1 DEF TypeOK, JobEnds, Pcs

LEMMA NextLineTypes ==
    ASSUME TypeOK, NEW j \in Jobs, NextLine(j)
    PROVE  /\ todo' \in [Jobs -> SUBSET (1 .. Len(Input))]
           /\ todo'[j] = todo[j] \ {FirstOf(todo[j])}
           /\ \A k \in Jobs \ {j} : todo'[k] = todo[k]
BY DEF TypeOK, NextLine

LEMMA AtLine ==
    ASSUME TypeOK, NEW j \in Jobs, todo[j] # {}
    PROVE  /\ FirstOf(todo[j]) \in todo[j] /\ FirstOf(todo[j]) \in 1 .. Len(Input)
           /\ RecordAt(j) \in Recorded /\ RecordAt(j) \in Keys
<1>1. todo[j] \subseteq 1 .. Len(Input) /\ todo[j] \subseteq Nat
  BY DEF TypeOK
<1>2. FirstOf(todo[j]) \in todo[j]
  BY <1>1, FirstLine
<1> QED
  BY <1>1, <1>2, RolloutFacts DEF RecordAt, TypeOK

(* While it writes a result, a job is still at the record it is about.     *)
WriterInv ==
    \A j \in Jobs : pc[j] = "write" =>
        /\ todo[j] # {} /\ answer[j].key = RecordAt(j)
        /\ answer[j].texts \in [1 .. Prompts(answer[j].key) -> Texts]

LEMMA WriterKey ==
    ASSUME TypeOK, WriterInv, NEW j \in Jobs, pc[j] = "write"
    PROVE  /\ answer[j].key \in Recorded /\ answer[j].key \in Keys
           /\ <<answer[j].key, Valid(j)>> \in Keys \X BOOLEAN
<1>1. answer[j].key \in Recorded /\ answer[j].key \in Keys
  BY AtLine DEF WriterInv
<1>2. Valid(j) \in BOOLEAN
  BY DEF Valid, VerifyValid
<1> QED
  BY <1>1, <1>2

LEMMA JudgeAnswers ==
    ASSUME NEW j \in Jobs, Judge(j)
    PROVE  \E texts \in [1 .. Prompts(RecordAt(j)) -> Texts] :
              answer' = [answer EXCEPT ![j] = [key |-> RecordAt(j), texts |-> texts]]
<1> DEFINE k == RecordAt(j)
<1>1. PICK texts \in [1 .. Prompts(k) -> IF k \in Unparsable THEN {""} ELSE Texts] :
          answer' = [answer EXCEPT ![j] = [key |-> k, texts |-> texts]]
  BY DEF Judge
<1> HIDE DEF k
<1>2. (IF k \in Unparsable THEN {""} ELSE Texts) \subseteq Texts
  BY DEF Texts
<1>3. texts \in [1 .. Prompts(k) -> Texts]
  BY <1>2
<1> QED
  BY <1>1, <1>3 DEF k

LEMMA NextTypeOK ==
    ASSUME TypeOK, WriterInv, [Next]_vars
    PROVE  TypeOK'
<1> USE DEF AnswerType
<1>0. rollout' = rollout /\ Input' = Input
  BY SameRollout
<1>1. CASE UNCHANGED vars
  BY <1>0, <1>1 DEF TypeOK, vars, bounds
<1>2. ASSUME NEW j \in Jobs,
             StartJob(j) \/ JobStep(j) \/ ItemRaises(j) \/ Cancel(j) \/ JobKilled(j)
      PROVE  TypeOK'
  <2>1. CASE StartJob(j)
    <3>1. losses' \in 0 .. MaxLosses
      BY <2>1, ConstantsAssumption DEF TypeOK, StartJob, ConstantsAssumption
    <3> QED
      BY <1>0, <2>1, <3>1 DEF TypeOK, StartJob, Pcs
  <2>2. CASE ItemRaises(j)
    <3>1. raises' \in 0 .. MaxRaises
      BY <2>2, ConstantsAssumption DEF TypeOK, ItemRaises, ConstantsAssumption
    <3>2. todo' \in [Jobs -> SUBSET (1 .. Len(Input))]
      BY <2>2, NextLineTypes DEF ItemRaises
    <3> QED
      BY <1>0, <2>2, <3>1, <3>2 DEF TypeOK, ItemRaises
  <2>3. CASE Cancel(j)
    <3>1. losses' \in 0 .. MaxLosses
      BY <2>3, ConstantsAssumption DEF TypeOK, Cancel, ConstantsAssumption
    <3> QED
      BY <1>0, <2>3, <3>1 DEF TypeOK, Cancel
  <2>4. CASE JobKilled(j)
    <3>1. losses' \in 0 .. MaxLosses
      BY <2>4, ConstantsAssumption DEF TypeOK, JobKilled, ConstantsAssumption
    <3>2. out' \in F!File
      BY <2>4, AbandonedFile DEF TypeOK, JobKilled
    <3> QED
      BY <1>0, <2>4, <3>1, <3>2, JobEndsTypes DEF TypeOK, JobKilled
  <2>5. CASE FlagThere(j) \/ LoadRaises(j) \/ NothingLeft(j) \/ Count(j)
    <3>1. JobEnds(j) /\ out' = out /\ flag' \in BOOLEAN /\ UNCHANGED bounds
      BY <2>5 DEF TypeOK, FlagThere, LoadRaises, NothingLeft, Count, EnoughKeys
    <3> QED
      BY <1>0, <3>1, JobEndsTypes DEF TypeOK, bounds
  <2>6. CASE Load(j)
    <3>1. Remaining \subseteq 1 .. Len(Input)
      BY DEF Remaining
    <3> QED
      BY <1>0, <2>6, <3>1 DEF TypeOK, Load, Pcs, bounds
  <2>7. CASE Judge(j)
    <3>1. PICK texts \in [1 .. Prompts(RecordAt(j)) -> Texts] :
             answer' = [answer EXCEPT ![j] = [key |-> RecordAt(j), texts |-> texts]]
      BY <2>7, JudgeAnswers
    <3>2. RecordAt(j) \in Keys /\ Prompts(RecordAt(j)) \in Nat
      BY <2>7, AtLine, PromptedFacts DEF Judge, TypeOK
    <3>3. [key |-> RecordAt(j), texts |-> texts] \in AnswerType
      BY <3>2, AnswerTypes
    <3>4. answer' \in [Jobs -> AnswerType]
      BY <3>1, <3>3 DEF TypeOK
    <3>5. out' \in F!File
      <4>1. PICK c \in Cuts : out' = F!BeginLine(out, j, c)
        BY <2>7 DEF Judge
      <4>2. out \in F!File /\ c \in BOOLEAN
        BY CutsBoolean DEF TypeOK
      <4> QED
        BY <4>1, <4>2, BegunFile
    <3> QED
      BY <1>0, <2>7, <3>4, <3>5 DEF TypeOK, Judge, Pcs, bounds
  <2>8. CASE EndResult(j)
    <3>1. out' \in F!File
      <4>1. out' = F!EndLine(out, j, <<answer[j].key, Valid(j)>>)
        BY <2>8 DEF EndResult
      <4>2. <<answer[j].key, Valid(j)>> \in Keys \X BOOLEAN /\ out \in F!File
        BY <2>8, WriterKey DEF EndResult, TypeOK
      <4> QED
        BY <4>1, <4>2, EndedFile
    <3>2. answer' \in [Jobs -> AnswerType]
      BY <2>8, AnswerTypes DEF TypeOK, EndResult
    <3>3. todo' \in [Jobs -> SUBSET (1 .. Len(Input))]
      BY <2>8, NextLineTypes DEF EndResult
    <3> QED
      BY <1>0, <2>8, <3>1, <3>2, <3>3 DEF TypeOK, EndResult, Pcs, bounds
  <2>9. CASE CloseFiles(j)
    BY <1>0, <2>9 DEF TypeOK, CloseFiles, Pcs, bounds
  <2> QED
    BY <1>2, <2>1, <2>2, <2>3, <2>4, <2>5, <2>6, <2>7, <2>8, <2>9 DEF JobStep
<1> QED
  BY <1>1, <1>2 DEF Next

JobMoves(j) == StartJob(j) \/ JobStep(j) \/ ItemRaises(j) \/ Cancel(j) \/ JobKilled(j)

LEMMA OthersUntouched ==
    ASSUME TypeOK, NEW j \in Jobs, JobMoves(j), NEW h \in Jobs \ {j}
    PROVE  pc'[h] = pc[h] /\ todo'[h] = todo[h] /\ answer'[h] = answer[h]
<1>1. CASE StartJob(j) \/ Cancel(j) \/ Load(j) \/ CloseFiles(j) \/ ItemRaises(j)
  BY <1>1 DEF TypeOK, StartJob, Cancel, Load, CloseFiles, ItemRaises, NextLine
<1>2. CASE JobEnds(j)
  BY <1>2 DEF TypeOK, JobEnds
<1>3. CASE Judge(j) \/ EndResult(j)
  <2>1. todo'[h] = todo[h] /\ pc'[h] = pc[h]
    BY <1>3 DEF TypeOK, Judge, EndResult, NextLine
  <2>2. \E v : answer' = [answer EXCEPT ![j] = v]
    BY <1>3 DEF Judge, EndResult
  <2>3. answer'[h] = answer[h]
    BY <2>2 DEF TypeOK
  <2> QED
    BY <2>1, <2>3
<1> QED
  BY <1>1, <1>2, <1>3 DEF JobMoves, JobStep, JobKilled, FlagThere, LoadRaises, NothingLeft, Count

LEMMA WriterStep ==
    ASSUME TypeOK, WriterInv, [Next]_vars
    PROVE  WriterInv'
<1> SUFFICES ASSUME NEW h \in Jobs, pc'[h] = "write"
             PROVE  (/\ todo[h] # {} /\ answer[h].key = RecordAt(h)
                     /\ answer[h].texts \in [1 .. Prompts(answer[h].key) -> Texts])'
  BY DEF WriterInv
<1>0. Input' = Input /\ Responses' = Responses
  BY SameRollout
<1>1. CASE pc[h] = "write" /\ todo'[h] = todo[h] /\ answer'[h] = answer[h]
  <2>1. /\ todo[h] # {} /\ answer[h].key = RecordAt(h)
        /\ answer[h].texts \in [1 .. Prompts(answer[h].key) -> Texts]
    BY <1>1 DEF WriterInv
  <2>2. RecordAt(h)' = RecordAt(h)
    BY <1>0, <1>1 DEF RecordAt
  <2>3. Prompts(answer[h].key)' = Prompts(answer[h].key)
    BY <1>0, <1>1 DEF Prompts, Prompted
  <2> QED
    BY <1>1, <2>1, <2>2, <2>3
<1>2. CASE UNCHANGED vars
  BY <1>1, <1>2 DEF vars
<1>3. ASSUME NEW j \in Jobs, JobMoves(j)
      PROVE  (/\ todo[h] # {} /\ answer[h].key = RecordAt(h)
              /\ answer[h].texts \in [1 .. Prompts(answer[h].key) -> Texts])'
  <2>1. CASE h # j
    BY <1>1, <1>3, <2>1, OthersUntouched
  <2>2. CASE h = j /\ Judge(j)
    <3>1. PICK texts \in [1 .. Prompts(RecordAt(j)) -> Texts] :
             answer' = [answer EXCEPT ![j] = [key |-> RecordAt(j), texts |-> texts]]
      BY <2>2, JudgeAnswers
    <3>2. answer'[j] = [key |-> RecordAt(j), texts |-> texts]
      BY <3>1 DEF TypeOK
    <3>3. todo' = todo /\ todo[j] # {}
      BY <2>2 DEF Judge
    <3>4. RecordAt(j)' = RecordAt(j)
      BY <1>0, <3>3 DEF RecordAt
    <3>5. answer'[j].key = RecordAt(j) /\ answer'[j].texts = texts
      BY <3>2
    <3>6. Prompts(answer[j].key)' = Prompts(RecordAt(j))
      BY <1>0, <3>5 DEF Prompts, Prompted
    <3> QED
      BY <2>2, <3>3, <3>4, <3>5, <3>6
  <2>3. CASE h = j /\ Cancel(j)
    BY <1>1, <2>3 DEF Cancel
  <2>4. CASE h = j /\ ~Judge(j) /\ ~Cancel(j)
    <3>1. pc'[j] # "write"
      BY <1>3, <2>4 DEF TypeOK, JobMoves, JobStep, StartJob, ItemRaises, JobKilled, FlagThere,
         LoadRaises, NothingLeft, Load, EndResult, CloseFiles, Count, JobEnds
    <3> QED
      BY <2>4, <3>1
  <2> QED
    BY <2>1, <2>2, <2>3, <2>4
<1> QED
  BY <1>2, <1>3 DEF Next, JobMoves

TInv == TypeOK /\ WriterInv

LEMMA TInvariance == Spec => []TInv
<1>1. Init => TInv
  BY InitTypeOK DEF Init, TInv, WriterInv
<1>2. TInv /\ [Next]_vars => TInv'
  BY NextTypeOK, WriterStep DEF TInv
<1> QED
  BY <1>1, <1>2, PTL DEF Spec

(* The variables keep their types, with any number of overlapping jobs. *)
THEOREM TypeCorrect == Spec => []TypeOK
<1>1. TInv => TypeOK
  BY DEF TInv
<1> QED
  BY <1>1, TInvariance, PTL

(* Every verdict is filed under the response it was given for, for any     *)
(* batch size and any mixture of response formats.                         *)
THEOREM VerdictsAreFiled == Spec => []JudgedOnItsOwn
<1>1. ASSUME TInv, NEW j \in Jobs, pc[j] = "write", NEW i \in 1 .. Len(Responses[answer[j].key])
      PROVE  LabelOf(answer[j].key, answer[j].texts, i) = "A" <=>
                /\ FormatValid(Responses[answer[j].key][i])
                /\ answer[j].texts[Cardinality({h \in 1 .. i : FormatValid(Responses[answer[j].key][h])})] = "A"
  <2>1. /\ rollout \in Rollouts /\ answer[j].key \in Keys
        /\ answer[j].texts \in [1 .. Prompts(answer[j].key) -> Texts]
    BY <1>1, WriterKey DEF TInv, TypeOK, WriterInv
  <2> QED
    BY <1>1, <2>1, FiledUnderItsOwn
<1>2. TInv => JudgedOnItsOwn
  BY <1>1 DEF JudgedOnItsOwn
<1> QED
  BY <1>2, TInvariance, PTL

-----------------------------------------------------------------------------
(* What one step may do to the output file and to the flag. *)

SameRecords == out'.keys = out.keys /\ out'.repeated = out.repeated

Adds(k, v) == RecordsOne(out, out', <<k, v>>)

LEMMA ResultStep ==
    ASSUME TInv, NEW j \in Jobs, EndResult(j)
    PROVE  SameRecords \/ Adds(answer[j].key, Valid(j))
<1>1. out' = F!EndLine(out, j, <<answer[j].key, Valid(j)>>)
  BY DEF EndResult
<1>2. <<answer[j].key, Valid(j)>> \in Keys \X BOOLEAN /\ out \in F!File
  BY WriterKey DEF EndResult, TInv, TypeOK
<1>3. Same(out, out') \/ RecordsOne(out, out', <<answer[j].key, Valid(j)>>)
  BY <1>1, <1>2, EndedFile
<1> QED
  BY <1>3 DEF Same, SameRecords, Adds

LEMMA OtherSteps ==
    ASSUME TInv, NEW j \in Jobs, JobMoves(j), ~EndResult(j)
    PROVE  SameRecords
<1>0. out \in F!File
  BY DEF TInv, TypeOK
<1>1. CASE out' = out
  BY <1>1 DEF SameRecords
<1>2. CASE JobKilled(j)
  BY <1>0, <1>2, AbandonedFile DEF JobKilled, SameRecords
<1>3. CASE Judge(j)
  <2>1. PICK c \in Cuts : out' = F!BeginLine(out, j, c)
    BY <1>3 DEF Judge
  <2> QED
    <3>1. c \in BOOLEAN
      BY CutsBoolean
    <3> QED
      BY <1>0, <2>1, <3>1, BegunFile DEF SameRecords
<1> QED
  BY <1>1, <1>2, <1>3 DEF JobMoves, JobStep, StartJob, ItemRaises, Cancel, FlagThere, LoadRaises,
     NothingLeft, Load, CloseFiles, Count

FlagFromFile == flag' = flag \/ (flag' /\ out' = out /\ (Remaining = {} \/ EnoughKeys))

LEMMA FlagStep ==
    ASSUME TInv, NEW j \in Jobs, JobMoves(j)
    PROVE  FlagFromFile
<1>1. CASE Count(j)
  BY <1>1 DEF Count, FlagFromFile, TInv, TypeOK, EnoughKeys
<1>2. CASE NothingLeft(j)
  BY <1>2 DEF NothingLeft, FlagFromFile
<1>3. CASE flag' = flag
  BY <1>3 DEF FlagFromFile
<1> QED
  BY <1>1, <1>2, <1>3 DEF JobMoves, JobStep, StartJob, ItemRaises, Cancel, JobKilled, FlagThere,
     LoadRaises, Load, Judge, EndResult, CloseFiles

-----------------------------------------------------------------------------
(***************************************************************************)
(* The flag.  It is raised on a count of keys against rows: the keys are   *)
(* never more than the different records among the rows, so as many keys   *)
(* as rows are all of them.                                                *)
(***************************************************************************)

(* Nothing is recorded but records of the rollout file. *)
KeysFromInput == \A e \in out.keys : e[1] \in Recorded

FInv == TInv /\ KeysFromInput /\ FlagMeansVerified

LEMMA CountingIsEnough ==
    ASSUME TInv, KeysFromInput, EnoughKeys
    PROVE  \A k \in Recorded : <<k, TRUE>> \in out.keys
<1> DEFINE N == Len(Input)
           rows == [n \in 1 .. N |-> Input[n]]
<1>1. N \in Nat /\ \A n \in 1 .. N : Input[n] \in Recorded
  BY RolloutFacts DEF TInv, TypeOK
<1>2. rows \in Surjection(1 .. N, Recorded)
  BY <1>1, RolloutFacts DEF Surjection, TInv, TypeOK
<1>3. IsFiniteSet(1 .. N) /\ Cardinality(1 .. N) = N
  <2> HIDE DEF N
  <2> QED
    BY <1>1, FS_Interval
<1>4. IsFiniteSet(Recorded) /\ Cardinality(Recorded) <= N
  BY <1>2, <1>3, FS_Surjection
<1>5. Done \subseteq Recorded
  <2> SUFFICES ASSUME NEW k \in Done PROVE k \in Recorded
    OBVIOUS
  <2>1. <<k, TRUE>> \in out.keys
    BY DEF Done
  <2>2. <<k, TRUE>>[1] \in Recorded
    BY <2>1 DEF KeysFromInput
  <2> QED
    BY <2>2
<1>6. Cardinality(Done) >= N
  BY DEF EnoughKeys
<1>7. /\ IsFiniteSet(Done) /\ Cardinality(Done) <= Cardinality(Recorded)
      /\ Cardinality(Recorded) = Cardinality(Done) => Recorded = Done
  BY <1>4, <1>5, FS_Subset
<1>8. Cardinality(Done) \in Nat /\ Cardinality(Recorded) \in Nat
  BY <1>4, <1>7, FS_CardinalityType
<1> HIDE DEF N
<1>9. Recorded = Done
  BY <1>1, <1>4, <1>6, <1>7, <1>8
<1> QED
  BY <1>9 DEF Done

LEMMA NothingRemains ==
    ASSUME TInv, Remaining = {}
    PROVE  \A k \in Recorded : <<k, TRUE>> \in out.keys
<1>1. ASSUME NEW n \in 1 .. Len(Input) PROVE Input[n] \in Done
  <2>1. ~(n \in Remaining)
    OBVIOUS
  <2> QED
    BY <2>1 DEF Remaining
<1>2. ASSUME NEW k \in Recorded PROVE k \in Done
  <2>1. PICK n \in 1 .. Len(Input) : Input[n] = k
    BY RolloutFacts DEF TInv, TypeOK
  <2> QED
    BY <1>1, <2>1
<1> QED
  BY <1>2 DEF Done

LEMMA FlagInvStep ==
    ASSUME FInv, [Next]_vars
    PROVE  KeysFromInput' /\ FlagMeansVerified'
<1>0. Recorded' = Recorded
  BY SameRollout
<1>1. CASE UNCHANGED vars
  BY <1>0, <1>1 DEF FInv, vars, KeysFromInput, FlagMeansVerified
<1>2. ASSUME NEW j \in Jobs, JobMoves(j)
      PROVE  KeysFromInput' /\ FlagMeansVerified'
  <2>1. out'.keys = out.keys \/ (EndResult(j) /\ out'.keys = out.keys \cup {<<answer[j].key, Valid(j)>>})
    BY <1>2, ResultStep, OtherSteps DEF FInv, SameRecords, Adds, RecordsOne
  <2>2. KeysFromInput'
    <3>1. EndResult(j) => answer[j].key \in Recorded
      BY WriterKey DEF EndResult, FInv, TInv
    <3> QED
      BY <1>0, <2>1, <3>1 DEF FInv, KeysFromInput
  <2>3. FlagMeansVerified'
    <3> SUFFICES ASSUME flag', NEW k \in Recorded PROVE <<k, TRUE>> \in out'.keys
      BY <1>0 DEF FlagMeansVerified
    <3>1. CASE flag
      BY <2>1, <3>1 DEF FInv, FlagMeansVerified
    <3>2. CASE ~flag
      <4>1. out' = out /\ (Remaining = {} \/ EnoughKeys)
        BY <1>2, <3>2, FlagStep DEF FInv, FlagFromFile
      <4> QED
        BY <4>1, NothingRemains, CountingIsEnough DEF FInv
    <3> QED
      BY <3>1, <3>2
  <2> QED
    BY <2>2, <2>3
<1> QED
  BY <1>1, <1>2 DEF Next, JobMoves

(* A stop flag is only ever written for a split each of whose records has  *)
(* a valid verdict, also when records or results are repeated.             *)
THEOREM FlagIsSound == Spec => []FlagMeansVerified
<1>1. Init => KeysFromInput /\ FlagMeansVerified
  BY DEF Init, KeysFromInput, FlagMeansVerified, F!FileWith
<1>2. TInv /\ TInv' /\ KeysFromInput /\ FlagMeansVerified /\ [Next]_vars
         => KeysFromInput' /\ FlagMeansVerified'
  BY FlagInvStep DEF FInv
<1> QED
  BY <1>1, <1>2, TInvariance, PTL DEF Spec

-----------------------------------------------------------------------------
(***************************************************************************)
(* No verdict twice.  Until a job is started beside another one there is   *)
(* one job at a time, and a line that it still has to verify holds a record that   *)
(* has no valid verdict, or one that another line of the input repeats.    *)
(***************************************************************************)
IdleInv == \A j \in Jobs : pc[j] \notin {"verify", "write"} => todo[j] = {}

SoleJob ==
    ~beside => \A g, h \in Jobs : pc[g] # "free" /\ pc[h] # "free" => g = h

Repeats(k) == Cardinality({n \in 1 .. Len(Input) : Input[n] = k}) > 1

OnceOrRepeated ==
    ~beside => \A j \in Jobs : \A n \in todo[j] :
        <<Input[n], TRUE>> \in out.keys => Repeats(Input[n])

RInv == TInv /\ IdleInv /\ SoleJob /\ OnceOrRepeated /\ NoRepeatedVerdict

LEMMA TwoLines ==
    ASSUME rollout \in Rollouts, NEW m \in 1 .. Len(Input), NEW n \in 1 .. Len(Input),
           m # n, Input[m] = Input[n]
    PROVE  Repeats(Input[n])
<1> DEFINE L == {l \in 1 .. Len(Input) : Input[l] = Input[n]}
<1>1. IsFiniteSet(1 .. Len(Input))
  BY RolloutFacts, FS_Interval
<1>2. IsFiniteSet(L)
  BY <1>1, FS_Subset
<1>3. m \in L /\ n \in L
  OBVIOUS
<1>4. IsFiniteSet({m, n}) /\ Cardinality({m, n}) = 2
  <2>1. IsFiniteSet({m}) /\ Cardinality({m}) = 1
    BY FS_Singleton
  <2>2. {m, n} = {m} \cup {n} /\ n \notin {m}
    OBVIOUS
  <2>3. IsFiniteSet({m} \cup {n}) /\ Cardinality({m} \cup {n}) = Cardinality({m}) + 1
    <3>1. IsFiniteSet({m} \cup {n})
      BY <2>1, FS_AddElement
    <3>2. Cardinality({m} \cup {n}) = IF n \in {m} THEN Cardinality({m}) ELSE Cardinality({m}) + 1
      BY <2>1, FS_AddElement, Zenon
    <3>3. Cardinality({m} \cup {n}) = Cardinality({m}) + 1
      BY <2>2, <3>2, Zenon
    <3> QED
      BY <3>1, <3>3
  <2>4. Cardinality({m, n}) = 1 + 1
    BY <2>1, <2>2, <2>3, Zenon
  <2>5. IsFiniteSet({m, n})
    BY <2>2, <2>3, Zenon
  <2> QED
    BY <2>4, <2>5
<1>5. {m, n} \subseteq L
  BY <1>3
<1>6. Cardinality({m, n}) <= Cardinality(L) /\ Cardinality(L) \in Nat
  BY <1>2, <1>5, FS_Subset, FS_CardinalityType
<1> HIDE DEF L
<1>7. Cardinality(L) > 1
  BY <1>4, <1>6
<1> QED
  BY <1>7 DEF Repeats, L

LEMMA IdleStep ==
    ASSUME TInv, IdleInv, NEW j \in Jobs, JobMoves(j)
    PROVE  IdleInv'
<1> SUFFICES ASSUME NEW h \in Jobs, pc'[h] \notin {"verify", "write"} PROVE todo'[h] = {}
  BY DEF IdleInv
<1>1. CASE h # j
  BY <1>1, OthersUntouched DEF IdleInv, TInv
<1>2. CASE h = j /\ JobEnds(j)
  BY <1>2 DEF TInv, TypeOK, JobEnds
<1>3. CASE h = j /\ (StartJob(j) \/ Cancel(j) \/ CloseFiles(j))
  BY <1>3 DEF TInv, TypeOK, IdleInv, StartJob, Cancel, CloseFiles
<1>4. CASE h = j /\ (Load(j) \/ Judge(j) \/ EndResult(j) \/ ItemRaises(j))
  BY <1>4 DEF TInv, TypeOK, Load, Judge, EndResult, ItemRaises
<1> QED
  BY <1>1, <1>2, <1>3, <1>4 DEF JobMoves, JobStep, JobKilled, FlagThere, LoadRaises, NothingLeft, Count

(* That jobs were once beside each other is not forgotten. *)
LEMMA BesideStays ==
    ASSUME TInv, NEW j \in Jobs, JobMoves(j), ~beside'
    PROVE  ~beside /\ (StartJob(j) => \A h \in Jobs : pc[h] = "free")
BY DEF TInv, TypeOK, JobMoves, JobStep, StartJob, ItemRaises, Cancel, JobKilled, FlagThere,
   LoadRaises, NothingLeft, Load, Judge, EndResult, CloseFiles, Count, Alive, bounds

LEMMA SoleStep ==
    ASSUME TInv, SoleJob, NEW j \in Jobs, JobMoves(j)
    PROVE  SoleJob'
<1> SUFFICES ASSUME ~beside'
             PROVE  \A g, h \in Jobs : pc'[g] # "free" /\ pc'[h] # "free" => g = h
  BY DEF SoleJob
<1>1. ~beside /\ \A g, h \in Jobs : pc[g] # "free" /\ pc[h] # "free" => g = h
  BY BesideStays DEF SoleJob
<1>2. \A h \in Jobs \ {j} : pc'[h] = pc[h]
  BY OthersUntouched DEF TInv
<1>3. CASE StartJob(j)
  BY <1>2, <1>3, BesideStays
<1>4. CASE ~StartJob(j)
  <2>1. pc[j] # "free"
    BY <1>4 DEF TInv, TypeOK, JobMoves, JobStep, ItemRaises, Cancel, JobKilled, FlagThere,
       LoadRaises, NothingLeft, Load, Judge, EndResult, CloseFiles, Count
  <2> QED
    BY <1>1, <1>2, <2>1
<1> QED
  BY <1>3, <1>4

(* Which lines a job still has to verify after a step of it. *)
LEMMA LinesLeft ==
    ASSUME TInv, NEW j \in Jobs, JobMoves(j)
    PROVE  \/ todo'[j] = Remaining /\ out' = out
           \/ todo'[j] \subseteq todo[j]
<1>1. CASE Load(j)
  BY <1>1 DEF TInv, TypeOK, Load
<1>2. CASE JobEnds(j)
  BY <1>2 DEF TInv, TypeOK, JobEnds
<1>3. CASE EndResult(j) \/ ItemRaises(j)
  BY <1>3 DEF TInv, TypeOK, EndResult, ItemRaises, NextLine
<1>4. CASE todo' = todo
  BY <1>4
<1> QED
  BY <1>1, <1>2, <1>3, <1>4 DEF JobMoves, JobStep, StartJob, Cancel, JobKilled, FlagThere, LoadRaises,
     NothingLeft, Judge, CloseFiles, Count

LEMMA LinesStep ==
    ASSUME RInv, NEW j \in Jobs, JobMoves(j)
    PROVE  OnceOrRepeated'
<1> SUFFICES ASSUME ~beside', NEW h \in Jobs, NEW n \in todo'[h], <<Input[n], TRUE>> \in out'.keys
             PROVE  Repeats(Input[n])
  <2>1. Input' = Input
    BY SameRollout DEF JobMoves, Next
  <2>2. \A k : Repeats(k)' = Repeats(k)
    BY <2>1 DEF Repeats
  <2> QED
    BY <2>1, <2>2 DEF OnceOrRepeated
<1>1. ~beside
  BY BesideStays DEF RInv
<1>2. \A g \in Jobs : \A m \in todo[g] : <<Input[m], TRUE>> \in out.keys => Repeats(Input[m])
  BY <1>1 DEF RInv, OnceOrRepeated
<1>3. rollout \in Rollouts /\ \A g \in Jobs : todo[g] \subseteq 1 .. Len(Input)
  BY DEF RInv, TInv, TypeOK
<1>4. CASE EndResult(j)
  <2>1. pc[j] = "write" /\ todo[j] # {} /\ answer[j].key = RecordAt(j)
    BY <1>4 DEF EndResult, RInv, TInv, WriterInv
  <2>2. h = j
    <3>1. ASSUME h # j PROVE FALSE
      <4>1. pc'[h] = pc[h] /\ todo'[h] = todo[h]
        BY <3>1, OthersUntouched DEF RInv, TInv
      <4>2. pc[h] = "free"
        BY <1>1, <2>1, <3>1 DEF RInv, SoleJob
      <4>3. todo[h] = {}
        BY <4>2 DEF RInv, IdleInv
      <4> QED
        BY <4>1, <4>3
    <3> QED
      BY <3>1
  <2>3. todo'[j] = todo[j] \ {FirstOf(todo[j])}
    BY <1>4 DEF EndResult, NextLine, RInv, TInv, TypeOK
  <2>4. n \in todo[j] /\ n # FirstOf(todo[j])
    BY <2>2, <2>3
  <2>5. FirstOf(todo[j]) \in todo[j]
    BY <1>3, <2>1, FirstLine
  <2>6. CASE Input[n] = RecordAt(j)
    BY <1>3, <2>4, <2>5, <2>6, TwoLines DEF RecordAt
  <2>7. CASE Input[n] # RecordAt(j)
    <3>1. SameRecords \/ Adds(RecordAt(j), Valid(j))
      BY <1>4, <2>1, ResultStep DEF RInv
    <3>2. <<Input[n], TRUE>> # <<RecordAt(j), Valid(j)>>
      BY <2>7
    <3>3. <<Input[n], TRUE>> \in out.keys
      BY <3>1, <3>2 DEF SameRecords, Adds, RecordsOne
    <3> QED
      BY <1>2, <2>4, <3>3
  <2> QED
    BY <2>6, <2>7
<1>5. CASE ~EndResult(j)
  <2>1. out'.keys = out.keys
    BY <1>5, OtherSteps DEF RInv, SameRecords
  <2>2. CASE n \in todo[h]
    BY <1>2, <2>1, <2>2
  <2>3. CASE n \notin todo[h]
    <3>1. h = j
      BY <2>3, OthersUntouched DEF RInv, TInv
    <3>2. n \in Remaining
      BY <2>3, <3>1, LinesLeft DEF RInv
    <3>3. Input[n] \in Keys
      BY <1>3, <3>2, RolloutFacts DEF Remaining
    <3> QED
      BY <2>1, <3>2, <3>3 DEF Remaining, Done
  <2> QED
    BY <2>2, <2>3
<1> QED
  BY <1>4, <1>5

LEMMA VerdictStep ==
    ASSUME RInv, NEW j \in Jobs, JobMoves(j)
    PROVE  NoRepeatedVerdict'
<1> SUFFICES ASSUME ~beside', NEW k \in Keys, <<k, TRUE>> \in out'.repeated
             PROVE  Repeats(k)
  <2>1. Input' = Input
    BY SameRollout DEF JobMoves, Next
  <2> QED
    BY <2>1 DEF NoRepeatedVerdict, Repeats
<1>1. ~beside
  BY BesideStays DEF RInv
<1>2. CASE <<k, TRUE>> \in out.repeated
  BY <1>1, <1>2 DEF RInv, NoRepeatedVerdict, Repeats
<1>3. CASE <<k, TRUE>> \notin out.repeated
  <2>1. EndResult(j) /\ Adds(answer[j].key, Valid(j))
    <3>1. TInv /\ ~SameRecords
      BY <1>3 DEF RInv, SameRecords
    <3> QED
      BY <3>1, OtherSteps, ResultStep
  <2>2. <<k, TRUE>> = <<answer[j].key, Valid(j)>> /\ <<k, TRUE>> \in out.keys
    <3> DEFINE r == <<answer[j].key, Valid(j)>>
    <3>1. out'.repeated = IF r \in out.keys THEN out.repeated \cup {r} ELSE out.repeated
      BY <2>1 DEF Adds, RecordsOne
    <3> HIDE DEF r
    <3>2. r \in out.keys /\ <<k, TRUE>> = r
      BY <1>3, <3>1
    <3> QED
      BY <3>2 DEF r
  <2>3. todo[j] # {} /\ k = Input[FirstOf(todo[j])]
    BY <2>1, <2>2 DEF EndResult, RInv, TInv, WriterInv, RecordAt
  <2>4. FirstOf(todo[j]) \in todo[j]
    BY <2>3, AtLine DEF RInv, TInv
  <2> QED
    BY <1>1, <2>2, <2>3, <2>4 DEF RInv, OnceOrRepeated
<1> QED
  BY <1>2, <1>3

LEMMA RInvStep ==
    ASSUME RInv, [Next]_vars
    PROVE  IdleInv' /\ SoleJob' /\ OnceOrRepeated' /\ NoRepeatedVerdict'
<1>1. CASE UNCHANGED vars
  <2>1. Input' = Input
    BY SameRollout
  <2> QED
    BY <1>1, <2>1 DEF RInv, vars, bounds, IdleInv, SoleJob, OnceOrRepeated, NoRepeatedVerdict, Repeats
<1>2. ASSUME NEW j \in Jobs, JobMoves(j)
      PROVE  IdleInv' /\ SoleJob' /\ OnceOrRepeated' /\ NoRepeatedVerdict'
  BY <1>2, IdleStep, SoleStep, LinesStep, VerdictStep DEF RInv
<1> QED
  BY <1>1, <1>2 DEF Next, JobMoves

(* Until a job is started beside another one, no record gets two valid     *)
(* verdicts unless the rollout file repeats it, however many jobs were     *)
(* killed and whatever they left in the file.                              *)
THEOREM VerdictsAreNotRepeated == Spec => []NoRepeatedVerdict
<1>1. Init => IdleInv /\ SoleJob /\ OnceOrRepeated /\ NoRepeatedVerdict
  BY DEF Init, IdleInv, SoleJob, OnceOrRepeated, NoRepeatedVerdict, F!FileWith
<1>2. TInv /\ TInv' /\ IdleInv /\ SoleJob /\ OnceOrRepeated /\ NoRepeatedVerdict /\ [Next]_vars
         => IdleInv' /\ SoleJob' /\ OnceOrRepeated' /\ NoRepeatedVerdict'
  <2>1. TInv /\ IdleInv /\ SoleJob /\ OnceOrRepeated /\ NoRepeatedVerdict => RInv
    BY DEF RInv
  <2> QED
    BY <2>1, RInvStep
<1> QED
  BY <1>1, <1>2, TInvariance, PTL DEF Spec
=============================================================================
