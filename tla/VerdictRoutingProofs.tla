------------------------- MODULE VerdictRoutingProofs -------------------------
(* Proofs about VerdictRouting, for any number of samples, rollouts, jobs  *)
(* and lines.                                                              *)
EXTENDS VerdictRouting, FiniteSetTheorems, WellFoundedInduction, TLAPS

(* A sample has a valid verdict with a correct rollout, or with none. *)
HasGood(k) == \E n \in ValidLines(k) : verify[n].good # {}
HasBad(k)  == \E n \in ValidLines(k) : verify[n].good = {}

(* What a program has written, or is about to write, has its verdict; no   *)
(* later line of the verify file takes that away.                          *)
SourceInv ==
    /\ \A k \in Content(wrong) : HasBad(k)
    /\ \A k \in Content(correctSplit) : HasGood(k)
    /\ \A p \in Content(correctRollouts) : HasGood(p[1])
    /\ prog.name \in {"extract", "rollouts"} => \A p \in prog.rollouts : HasGood(p[1])
    /\ prog.name \in {"all wrong", "chosen"} => \A k \in prog.keys : HasBad(k)

(* A total that was checked is that of the rows that are there. *)
TotalInv ==
    /\ stage = "9b" => checked = NoFile /\ prog.name \notin Building
    /\ prog.name \in Building => checked = NoFile
    /\ checked # NoFile => stage = "27b" /\ wrong # NoFile /\ checked[1] = Cardinality(wrong[1])
    /\ prog.name = "all wrong" => stage = "9b"

IInv == TypeOK /\ SourceInv /\ TotalInv

-----------------------------------------------------------------------------
LEMMA LineIndexes ==
    ASSUME verify \in Seq(Line), NEW k
    PROVE  /\ LinesOf(k) \subseteq 1 .. Len(verify)
           /\ IsFiniteSet(LinesOf(k)) /\ IsFiniteSet(ValidLines(k))
           /\ ValidLines(k) \subseteq LinesOf(k)
<1>1. LinesOf(k) \subseteq 1 .. Len(verify) /\ ValidLines(k) \subseteq LinesOf(k)
  BY DEF LinesOf, ValidLines, Lines
<1>2. IsFiniteSet(1 .. Len(verify))
  BY FS_Interval
<1> QED
  BY <1>1, <1>2, FS_Subset

LEMMA KeyOfLine ==
    ASSUME verify \in Seq(Line), NEW k, ValidLines(k) # {}
    PROVE  k \in Keys
<1>1. PICK n \in ValidLines(k) : TRUE
  OBVIOUS
<1>2. n \in DOMAIN verify /\ verify[n].key = k
  BY <1>1 DEF ValidLines, LinesOf, Lines
<1>3. verify[n] \in Line
  BY <1>2
<1> QED
  BY <1>2, <1>3 DEF Line

(* Two different valid lines of a sample are what JudgedTwice means. *)
LEMMA TwoLinesTwice ==
    ASSUME verify \in Seq(Line), NEW k, NEW n \in ValidLines(k), NEW m \in ValidLines(k), n # m
    PROVE  JudgedTwice
<1>1. IsFiniteSet(ValidLines(k)) /\ k \in Keys
  BY LineIndexes, KeyOfLine
<1>2. {n, m} \subseteq ValidLines(k) /\ Cardinality({n, m}) = 2
  <2>1. Cardinality({n}) = 1 /\ IsFiniteSet({n}) /\ m \notin {n}
    BY FS_Singleton
  <2>2. Cardinality({n} \cup {m}) = Cardinality({n}) + 1
    BY <2>1, FS_AddElement
  <2>3. {n, m} = {n} \cup {m} /\ {n, m} \subseteq ValidLines(k)
    OBVIOUS
  <2>4. Cardinality({n} \cup {m}) = 2
    BY <2>1, <2>2
  <2> QED
    BY <2>3, <2>4, Zenon
<1>3. Cardinality({n, m}) <= Cardinality(ValidLines(k)) /\ Cardinality(ValidLines(k)) \in Nat
  BY <1>1, <1>2, FS_Subset, FS_CardinalityType
<1> QED
  BY <1>1, <1>2, <1>3 DEF JudgedTwice

LEMMA GoodAndBadTwice ==
    ASSUME verify \in Seq(Line), NEW k, HasGood(k), HasBad(k)
    PROVE  JudgedTwice
<1>1. PICK n \in ValidLines(k) : verify[n].good # {}
  BY DEF HasGood
<1>2. PICK m \in ValidLines(k) : verify[m].good = {}
  BY DEF HasBad
<1> QED
  BY <1>1, <1>2, TwoLinesTwice

(* The verify file only grows, and a verdict stays where it is. *)
LEMMA VerdictsStay ==
    ASSUME verify \in Seq(Line), NEW j, NEW k, Result(j, k), NEW i
    PROVE  (HasGood(i) => HasGood(i)') /\ (HasBad(i) => HasBad(i)')
<1>1. PICK line : verify' = Append(verify, line)
  BY DEF Result
<1>2. DOMAIN verify \subseteq DOMAIN verify' /\ \A n \in DOMAIN verify : verify'[n] = verify[n]
  BY <1>1
<1>3. \A n \in ValidLines(i) : n \in DOMAIN verify /\ n \in ValidLines(i)'
  BY <1>2 DEF ValidLines, LinesOf, Lines
<1> QED
  BY <1>2, <1>3 DEF HasGood, HasBad

LEMMA VerdictsSame ==
    ASSUME UNCHANGED verify, NEW i
    PROVE  HasGood(i)' = HasGood(i) /\ HasBad(i)' = HasBad(i)
  BY DEF HasGood, HasBad, ValidLines, LinesOf, Lines

LEMMA KeysAreNat == Cardinality(Keys) \in Nat
  BY RoutingAssumption, FS_CardinalityType DEF RoutingAssumption

LEMMA AllWrongHasBad == AllWrong \in SUBSET Keys /\ \A k \in AllWrong : HasBad(k)
  BY DEF AllWrong, LatestIsWrong, HasBad

(* What a program in its several stages has. *)
LEMMA ProgType ==
    ASSUME TypeOK
    PROVE  /\ prog.name \in {"extract", "rollouts"} => \A p \in prog.rollouts : p[1] \in Keys
           /\ prog.name \in {"all wrong", "chosen"} => prog.keys \subseteq Keys
           /\ prog.name \in Building => prog.total \in Totals
           /\ prog.name = "built" => wrong # NoFile
BY DEF TypeOK, ProgOK

-----------------------------------------------------------------------------
LEMMA InitIInv == Init => IInv
<1> SUFFICES ASSUME Init PROVE IInv
  OBVIOUS
<1>1. TypeOK
  BY RoutingAssumption DEF RoutingAssumption, Init, TypeOK, NoFile, Content, FileOf, Idle, ProgOK, Building
<1>2. SourceInv
  BY DEF Init, SourceInv, NoFile, Content, Idle
<1>3. TotalInv
  BY DEF Init, TotalInv, NoFile, Idle, Building
<1> QED
  BY <1>1, <1>2, <1>3 DEF IInv

(* A step that leaves the program and the split for the next model alone. *)
LEMMA ProgSame == ProgOK /\ UNCHANGED <<prog, wrong>> => ProgOK'
  BY DEF ProgOK

LEMMA ProgIdle == prog' = Idle => ProgOK'
  BY DEF ProgOK, Idle, Building

LEMMA TypeStep == TypeOK /\ [Next]_vars => TypeOK'
<1> SUFFICES ASSUME TypeOK, [Next]_vars PROVE TypeOK'
  OBVIOUS
<1>a. ProgOK /\ verify \in Seq(Line) /\ Len(verify) <= MaxLines
  BY DEF TypeOK
<1>1. ASSUME NEW j \in Jobs, Load(j) \/ JobDies(j) PROVE TypeOK'
  <2>1. UNCHANGED <<stage, verify, results>> /\ ProgOK'
    BY <1>1, <1>a, ProgSame DEF Load, JobDies, results
  <2>2. todo' \in [Jobs -> SUBSET Keys]
    BY <1>1 DEF Load, JobDies, TypeOK
  <2> QED
    BY <2>1, <2>2 DEF results, TypeOK, Content
<1>2. ASSUME NEW j \in Jobs, NEW k \in Keys, Result(j, k) PROVE TypeOK'
  <2>1. PICK line \in Line : verify' = Append(verify, line)
    BY <1>2 DEF Result, Line
  <2>2. verify' \in Seq(Line) /\ Len(verify') <= MaxLines
    <3>1. Len(verify) < MaxLines /\ MaxLines \in Nat
      BY <1>2, RoutingAssumption DEF Result, RoutingAssumption
    <3> QED
      BY <1>a, <2>1, <3>1
  <2>3. todo' \in [Jobs -> SUBSET Keys] /\ UNCHANGED <<stage, results>>
    BY <1>2 DEF Result, TypeOK
  <2>4. ProgOK'
    BY <1>a, <2>3, ProgSame DEF results
  <2> QED
    BY <2>2, <2>3, <2>4 DEF results, TypeOK, Content
<1>3. ASSUME NEW o \in BOOLEAN, Extract(o) PROVE TypeOK'
  <2>1. \A p \in {<<k, GoodIds(k)>> : k \in CorrectKeys} : p[1] \in Keys
    BY DEF CorrectKeys
  <2>2. ProgOK'
    BY <1>3, <2>1 DEF Extract, ProgOK, Building
  <2> QED
    BY <1>3, <2>2 DEF Extract, TypeOK, Content
<1>4. CASE WriteCorrect
  <2>1. \A p \in prog.rollouts : p[1] \in Keys
    BY <1>4, ProgType DEF WriteCorrect
  <2>2. ProgOK'
    BY <1>4, <2>1 DEF WriteCorrect, ProgOK, Building
  <2>3. correctSplit' \in FileOf(SUBSET Keys)
    BY <1>4, <2>1 DEF WriteCorrect, FileOf
  <2> QED
    BY <1>4, <2>2, <2>3 DEF WriteCorrect, TypeOK, Content
<1>5. CASE WriteRollouts
  <2>1. ProgOK' /\ Content(correctRollouts)' = prog.rollouts
    BY <1>5, ProgIdle DEF WriteRollouts, Content, NoFile
  <2>2. \A p \in prog.rollouts : p[1] \in Keys
    BY <1>5, ProgType DEF WriteRollouts
  <2> QED
    BY <1>5, <2>1, <2>2 DEF WriteRollouts, TypeOK
<1>6. ASSUME NEW o \in BOOLEAN, ExtractAllWrong(o) PROVE TypeOK'
  <2>1. ProgOK'
    BY <1>6, AllWrongHasBad DEF ExtractAllWrong, ProgOK, Building
  <2> QED
    BY <1>6, <2>1 DEF ExtractAllWrong, TypeOK, Content
<1>7. CASE WriteAllWrong
  <2>1. wrong' \in FileOf(SUBSET Keys) /\ ProgOK'
    BY <1>7, ProgType, ProgIdle DEF WriteAllWrong, FileOf
  <2> QED
    BY <1>7, <2>1 DEF WriteAllWrong, TypeOK, Content
<1>8. ASSUME NEW o \in BOOLEAN, NEW t \in Totals, BuildStarts(o, t) PROVE TypeOK'
  <2>1. ProgOK'
    BY <1>8 DEF BuildStarts, ProgOK, Building
  <2> QED
    BY <1>8, <2>1 DEF BuildStarts, TypeOK, FileOf, NoFile, Content
<1>9. CASE BuildReads
  <2>1. prog.total \in Totals
    BY <1>9, ProgType DEF BuildReads, Building
  <2>2. ProgOK'
    BY <1>9, <2>1, AllWrongHasBad DEF BuildReads, ProgOK, Building
  <2> QED
    BY <1>9, <2>2 DEF BuildReads, TypeOK, Content
<1>10. CASE BuildWrites
  <2>1. prog.total \in Totals /\ prog.keys \in SUBSET Keys
    BY <1>10, ProgType DEF BuildWrites, Building
  <2>2. wrong' \in FileOf(SUBSET Keys) /\ wrong' # NoFile
    BY <1>10, <2>1 DEF BuildWrites, FileOf, NoFile
  <2>3. ProgOK'
    BY <1>10, <2>1, <2>2 DEF BuildWrites, ProgOK, Building
  <2> QED
    BY <1>10, <2>2, <2>3 DEF BuildWrites, TypeOK, Content
<1>11. CASE BuildEnds
  <2>1. prog.total \in Totals
    BY <1>11, ProgType DEF BuildEnds, Building
  <2>2. prog.total >= 0 => prog.total \in 0 .. Cardinality(Keys)
    BY <2>1, KeysAreNat DEF Totals
  <2>3. checked' \in FileOf(0 .. Cardinality(Keys)) /\ ProgOK'
    BY <1>11, <2>2, ProgIdle DEF BuildEnds, FileOf
  <2> QED
    BY <1>11, <2>3 DEF BuildEnds, TypeOK, Content
<1>12. CASE Killed
  BY <1>12, ProgIdle DEF Killed, TypeOK, Content
<1>13. CASE UNCHANGED vars
  BY <1>13, <1>a, ProgSame DEF vars, TypeOK, Content
<1> QED
  BY <1>1, <1>2, <1>3, <1>4, <1>5, <1>6, <1>7, <1>8, <1>9, <1>10, <1>11, <1>12, <1>13 DEF Next

LEMMA SourceStep == TypeOK /\ SourceInv /\ [Next]_vars => SourceInv'
<1> SUFFICES ASSUME TypeOK, SourceInv, [Next]_vars PROVE SourceInv'
  OBVIOUS
<1>a. verify \in Seq(Line)
  BY DEF TypeOK
<1>1. ASSUME NEW j \in Jobs, NEW k \in Keys, Result(j, k) PROVE SourceInv'
  <2>1. \A i : (HasGood(i) => HasGood(i)') /\ (HasBad(i) => HasBad(i)')
    BY <1>1, <1>a, VerdictsStay
  <2>2. UNCHANGED results
    BY <1>1 DEF Result
  <2> QED
    BY <2>1, <2>2 DEF SourceInv, results, Content
<1>2. ASSUME UNCHANGED verify PROVE \A i : HasGood(i)' = HasGood(i) /\ HasBad(i)' = HasBad(i)
  BY <1>2, VerdictsSame
<1>3. ASSUME NEW j \in Jobs, Load(j) \/ JobDies(j) PROVE SourceInv'
  BY <1>2, <1>3 DEF Load, JobDies, results, SourceInv, Content
<1>4. ASSUME NEW o \in BOOLEAN, Extract(o) PROVE SourceInv'
  <2>1. \A k \in CorrectKeys : HasGood(k)
    BY DEF CorrectKeys, PositiveLines, HasGood
  <2>2. prog'.name = "extract" /\ \A p \in prog'.rollouts : p[1] \in CorrectKeys
    BY <1>4 DEF Extract
  <2> QED
    BY <1>2, <1>4, <2>1, <2>2 DEF Extract, SourceInv, Content
<1>5. CASE WriteCorrect
  <2>1. \A p \in prog.rollouts : HasGood(p[1])
    BY <1>5 DEF WriteCorrect, SourceInv
  <2>2. Content(correctSplit)' = {p[1] : p \in prog.rollouts}
    BY <1>5 DEF WriteCorrect, Content, NoFile
  <2>3. prog'.name = "rollouts" /\ prog'.rollouts = prog.rollouts
    BY <1>5 DEF WriteCorrect
  <2> QED
    BY <1>2, <1>5, <2>1, <2>2, <2>3 DEF WriteCorrect, SourceInv, Content
<1>6. CASE WriteRollouts
  <2>1. Content(correctRollouts)' = prog.rollouts /\ prog'.name = "idle"
    BY <1>6 DEF WriteRollouts, Content, NoFile, Idle
  <2> QED
    BY <1>2, <1>6, <2>1 DEF WriteRollouts, SourceInv, Content
<1>7. ASSUME NEW o \in BOOLEAN, ExtractAllWrong(o) PROVE SourceInv'
  <2>1. prog'.name = "all wrong" /\ prog'.keys = AllWrong
    BY <1>7 DEF ExtractAllWrong
  <2> QED
    BY <1>2, <1>7, <2>1, AllWrongHasBad DEF ExtractAllWrong, SourceInv, Content
<1>8. CASE WriteAllWrong
  <2>1. Content(wrong)' = prog.keys /\ prog'.name = "idle"
    BY <1>8 DEF WriteAllWrong, Content, NoFile, Idle
  <2> QED
    BY <1>2, <1>8, <2>1 DEF WriteAllWrong, SourceInv, Content
<1>9. ASSUME NEW o \in BOOLEAN, NEW t \in Totals, BuildStarts(o, t) PROVE SourceInv'
  BY <1>2, <1>9 DEF BuildStarts, SourceInv, Content
<1>10. CASE BuildReads
  <2>1. prog'.name = "chosen" /\ prog'.keys = AllWrong
    BY <1>10 DEF BuildReads
  <2> QED
    BY <1>2, <1>10, <2>1, AllWrongHasBad DEF BuildReads, SourceInv, Content
<1>11. CASE BuildWrites
  <2>1. Content(wrong)' = prog.keys /\ prog'.name = "built"
    BY <1>11 DEF BuildWrites, Content, NoFile
  <2> QED
    BY <1>2, <1>11, <2>1 DEF BuildWrites, SourceInv, Content
<1>12. CASE BuildEnds \/ Killed
  <2>1. prog'.name = "idle" /\ UNCHANGED <<verify, wrong, correctSplit, correctRollouts>>
    BY <1>12 DEF BuildEnds, Killed, Idle
  <2> QED
    BY <1>2, <2>1 DEF SourceInv, Content
<1>13. CASE UNCHANGED vars
  BY <1>2, <1>13 DEF vars, SourceInv, Content
<1> QED
  BY <1>1, <1>3, <1>4, <1>5, <1>6, <1>7, <1>8, <1>9, <1>10, <1>11, <1>12, <1>13 DEF Next

(* The name of the program after its steps. *)
LEMMA ExtractNames ==
    ASSUME NEW o \in BOOLEAN, Extract(o) \/ ExtractAllWrong(o)
    PROVE  /\ prog.name = "idle" /\ UNCHANGED <<stage, wrong, checked>>
           /\ prog'.name = "extract" \/ (prog'.name = "all wrong" /\ stage = "9b")
<1>1. CASE Extract(o)
  BY <1>1 DEF Extract, Idle
<1>2. CASE ExtractAllWrong(o)
  BY <1>2 DEF ExtractAllWrong, Idle
<1> QED
  BY <1>1, <1>2

LEMMA BuildNames ==
    ASSUME BuildReads \/ BuildWrites
    PROVE  prog'.name \in {"chosen", "built"}
<1>1. CASE BuildReads
  BY <1>1 DEF BuildReads
<1>2. CASE BuildWrites
  BY <1>2 DEF BuildWrites
<1> QED
  BY <1>1, <1>2

LEMMA WriteNames ==
    ASSUME WriteCorrect \/ WriteRollouts \/ Killed
    PROVE  prog'.name \in {"rollouts", "idle"} /\ UNCHANGED <<stage, wrong, checked>>
<1>1. CASE WriteCorrect
  BY <1>1 DEF WriteCorrect
<1>2. CASE WriteRollouts \/ Killed
  BY <1>2 DEF WriteRollouts, Killed, Idle
<1> QED
  BY <1>1, <1>2

LEMMA TotalStep == TypeOK /\ TotalInv /\ [Next]_vars => TotalInv'
<1> SUFFICES ASSUME TypeOK, TotalInv, [Next]_vars PROVE TotalInv'
  OBVIOUS
<1> USE DEF TotalInv, Building
<1>1. ASSUME NEW j \in Jobs, Load(j) \/ JobDies(j) \/ \E k \in Keys : Result(j, k) PROVE TotalInv'
  BY <1>1 DEF Load, JobDies, Result, results
<1>2. ASSUME NEW o \in BOOLEAN, Extract(o) \/ ExtractAllWrong(o) PROVE TotalInv'
  BY <1>2, ExtractNames
<1>3. ASSUME NEW o \in BOOLEAN, NEW t \in Totals, BuildStarts(o, t) PROVE TotalInv'
  BY <1>3 DEF BuildStarts
<1>4. CASE WriteAllWrong
  <2>1. checked = NoFile /\ stage = "9b"
    BY <1>4 DEF WriteAllWrong
  <2> QED
    BY <1>4, <2>1 DEF WriteAllWrong, Idle
<1>5. CASE BuildReads \/ BuildWrites
  <2>1. checked = NoFile /\ stage # "9b" /\ UNCHANGED <<stage, checked>>
    BY <1>5 DEF BuildReads, BuildWrites
  <2> QED
    BY <2>1, <1>5, BuildNames
<1>6. CASE BuildEnds
  <2>1. wrong # NoFile /\ stage = "27b"
    BY <1>6, ProgType DEF BuildEnds, TypeOK
  <2>2. checked' # NoFile => checked'[1] = Cardinality(wrong[1])
    BY <1>6 DEF BuildEnds, TotalMatches, NoFile
  <2> QED
    BY <1>6, <2>1, <2>2 DEF BuildEnds, Idle
<1>7. CASE WriteCorrect \/ WriteRollouts \/ Killed
  BY <1>7, WriteNames
<1>8. CASE UNCHANGED vars
  BY <1>8 DEF vars
<1> QED
  BY <1>1, <1>2, <1>3, <1>4, <1>5, <1>6, <1>7, <1>8 DEF Next

LEMMA Invariance == Spec => []IInv
<1>1. IInv /\ [Next]_vars => IInv'
  BY TypeStep, SourceStep, TotalStep DEF IInv
<1> QED
  BY InitIInv, <1>1, PTL DEF Spec

(* The latest valid line exists. *)
LEMMA LastLine ==
    ASSUME verify \in Seq(Line), NEW k, ValidLines(k) # {}
    PROVE  \E n \in ValidLines(k) : IsLast(n, ValidLines(k))
<1> DEFINE N == Len(verify)
           T == {N - n : n \in ValidLines(k)}
<1>1. N \in Nat /\ ValidLines(k) \subseteq 1 .. N
  BY LineIndexes
<1>2. T \subseteq Nat /\ T # {}
  BY <1>1
<1> HIDE DEF N, T
<1>3. PICK x \in T : \A y \in T : ~(<<y, x>> \in OpToRel(<, Nat))
  BY <1>2, NatLessThanWellFounded, WFMin
<1>4. \A y \in T : ~(y < x)
  BY <1>2, <1>3 DEF OpToRel
<1>5. PICK n \in ValidLines(k) : x = N - n
  BY <1>3 DEF T
<1>6. ASSUME NEW m \in ValidLines(k) PROVE m <= n
  <2>1. N - m \in T
    BY DEF T
  <2>2. ~(N - m < N - n)
    BY <1>4, <1>5, <2>1
  <2>3. m \in 1 .. N /\ n \in 1 .. N
    BY <1>1
  <2> QED
    BY <1>1, <2>2, <2>3
<1> QED
  BY <1>6 DEF IsLast

-----------------------------------------------------------------------------
(* The variables keep their types. *)
THEOREM TypeCorrect == Spec => []TypeOK
<1>1. IInv => TypeOK
  BY DEF IInv
<1> QED
  BY Invariance, <1>1, PTL

(* Without two valid verdicts on it, no sample is both taken into the      *)
(* final data and sent to the next model.                                  *)
THEOREM RoutedOnceHolds == Spec => []RoutedOnce
<1>1. IInv => RoutedOnce
  <2> SUFFICES ASSUME IInv, ~JudgedTwice, NEW k \in Content(wrong)
               PROVE  ~HasGood(k) /\ HasBad(k)
    BY DEF RoutedOnce, IInv, SourceInv
  <2>1. HasBad(k) /\ verify \in Seq(Line)
    BY DEF IInv, SourceInv, TypeOK
  <2> QED
    BY <2>1, GoodAndBadTwice
<1> QED
  BY Invariance, <1>1, PTL

(* Between them the two readers route every sample of a verified split.    *)
THEOREM NobodyLeftOutHolds == Spec => []NobodyLeftOut
<1>1. IInv => NobodyLeftOut
  <2> SUFFICES ASSUME IInv, Verified, NEW k \in Keys, ~LatestIsWrong(k)
               PROVE  k \in CorrectKeys
    BY DEF NobodyLeftOut
  <2>1. verify \in Seq(Line) /\ ValidLines(k) # {}
    BY DEF IInv, TypeOK, Verified, Done
  <2>2. PICK n \in ValidLines(k) : IsLast(n, ValidLines(k))
    BY <2>1, LastLine
  <2>3. verify[n].good # {}
    BY <2>2 DEF LatestIsWrong
  <2> QED
    BY <2>2, <2>3 DEF CorrectKeys, PositiveLines
<1> QED
  BY Invariance, <1>1, PTL

(* The total alone tells a build that ran too early from one that did not. *)
THEOREM TotalIsEnoughHolds == Spec => []TotalIsEnough
<1>1. IInv => TotalIsEnough
  <2> SUFFICES ASSUME IInv, Verified, ~JudgedTwice, checked = <<Cardinality(AllWrong)>>
               PROVE  wrong = <<AllWrong>>
    BY DEF TotalIsEnough
  <2>1. verify \in Seq(Line)
    BY DEF IInv, TypeOK
  <2>2. PICK w \in SUBSET Keys : wrong = <<w>>
    BY DEF IInv, TypeOK, TotalInv, FileOf, NoFile
  <2>3. Cardinality(w) = Cardinality(AllWrong)
    BY <2>2 DEF IInv, TotalInv, NoFile
  <2>4. w \subseteq AllWrong
    <3> SUFFICES ASSUME NEW k \in w PROVE k \in AllWrong
      OBVIOUS
    <3>1. HasBad(k)
      BY <2>2 DEF IInv, SourceInv, Content, NoFile
    <3>2. PICK n \in ValidLines(k) : verify[n].good = {}
      BY <3>1 DEF HasBad
    <3>3. \A m \in ValidLines(k) : m = n
      BY <2>1, <3>2, TwoLinesTwice
    <3>4. n \in Nat
      BY <2>1, <3>2, LineIndexes
    <3>5. k \in Keys
      BY <2>1, <3>2, KeyOfLine
    <3> QED
      BY <3>2, <3>3, <3>4, <3>5 DEF AllWrong, LatestIsWrong, IsLast
  <2>5. IsFiniteSet(AllWrong)
    BY RoutingAssumption, AllWrongHasBad, FS_Subset DEF RoutingAssumption
  <2>6. w = AllWrong
    BY <2>3, <2>4, <2>5, FS_Subset
  <2> QED
    BY <2>2, <2>6
<1> QED
  BY Invariance, <1>1, PTL

(* With two lines for one sample no build passes its reading any more, so  *)
(* that the 122B split is written at most by one that was past it.         *)
THEOREM RetryBlocksBuildHolds == Spec => RetryBlocksBuild
<1>1. Spec => [](TypeOK /\ TotalInv)
  BY Invariance, PTL DEF IInv
<1>2. TypeOK /\ TotalInv /\ [Next]_vars
        => [Retried /\ ~MayWrite => ~MayWrite' /\ wrong' \in {wrong, NoFile}]_vars
  <2> SUFFICES ASSUME TypeOK, TotalInv, Next, Retried, ~MayWrite
               PROVE  ~MayWrite' /\ wrong' \in {wrong, NoFile}
    OBVIOUS
  <2>1. ~OneLineEach /\ stage = "27b"
    BY DEF OneLineEach, Retried
  <2>2. ~BuildReads /\ ~BuildWrites /\ ~WriteAllWrong
    BY <2>1 DEF BuildReads, BuildWrites, WriteAllWrong, MayWrite, TotalInv
  <2> QED
    BY <2>1, <2>2 DEF Next, Load, JobDies, Result, results, Extract, ExtractAllWrong, BuildStarts,
               WriteCorrect, WriteRollouts, BuildEnds, Killed, MayWrite, Idle
<1> QED
  BY <1>1, <1>2, PTL DEF Spec, RetryBlocksBuild
=============================================================================
