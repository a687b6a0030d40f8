--------------------------- MODULE JudgeCascadeProofs ---------------------------
(***************************************************************************)
(* Proofs about JudgeJob and JudgeCascade, for every rollout file, window  *)
(* and number of rollouts, every number of splits on either side, and      *)
(* programs killed and run again without a bound.                          *)
(***************************************************************************)
EXTENDS JudgeCascade, FiniteSetTheorems, SequenceTheorems, WellFoundedInduction, TLAPS

(***************************************************************************)
(* The judge's jobs                                                        *)
(***************************************************************************)
GoodLines == {n \in Lines : input[n].kind = "good"}

(* What a job is writing is the verdict on a usable record. *)
WriteInv ==
    \A j \in Jobs : pc[j] = "write" =>
        writing[j] \in Lines \X Counts /\ input[writing[j][1]].kind = "good"

JudgeInv == JudgeTypeOK /\ WriteInv /\ VerdictsAreEarned /\ FlagMeansJudged

-----------------------------------------------------------------------------
(* If what is recorded (E) comes from some of the rows (G) and is as much  *)
(* as all the rows (S), then it comes from all of them, and what each of   *)
(* them records (f) is there.                                              *)
LEMMA CountIsEnough ==
    ASSUME NEW S, IsFiniteSet(S), NEW f, NEW G \in SUBSET S,
           NEW E, \A e \in E : \E x \in G : e = f[x], Cardinality(E) >= Cardinality(S)
    PROVE  G = S /\ \A x \in S : f[x] \in E
<1> DEFINE T == {f[x] : x \in G}
           g == [x \in G |-> f[x]]
<1>0. E \subseteq T
  OBVIOUS
<1>1. IsFiniteSet(G) /\ Cardinality(G) <= Cardinality(S) /\ (Cardinality(G) = Cardinality(S) => G = S)
  BY FS_Subset
<1>2. g \in Surjection(G, T)
  BY DEF Surjection
<1>3. IsFiniteSet(T) /\ Cardinality(T) <= Cardinality(G)
  BY <1>1, <1>2, FS_Surjection
<1>4. IsFiniteSet(E) /\ Cardinality(E) <= Cardinality(T) /\ (Cardinality(E) = Cardinality(T) => E = T)
  BY <1>0, <1>3, FS_Subset
<1>5. /\ Cardinality(S) \in Nat /\ Cardinality(G) \in Nat
      /\ Cardinality(T) \in Nat /\ Cardinality(E) \in Nat
  BY <1>1, <1>3, <1>4, FS_CardinalityType
<1> QED
  BY <1>1, <1>3, <1>4, <1>5

(* Appending keeps the file well formed and forgets no verdict.            *)
LEMMA BegunFile ==
    ASSUME NEW f \in F!File, NEW j \in Jobs, NEW c \in BOOLEAN
    PROVE  F!BeginLine(f, j, c) \in F!File /\ F!BeginLine(f, j, c).keys = f.keys
BY DEF F!File, F!BeginLine

LEMMA EndedFile ==
    ASSUME NEW f \in F!File, NEW j \in Jobs, NEW k \in Indexes \X Counts
    PROVE  F!EndLine(f, j, k) \in F!File /\ F!EndLine(f, j, k).keys \in {f.keys, f.keys \cup {k}}
<1> DEFINE g == F!EndLine(f, j, k)
<1>1. /\ g.keys \subseteq Indexes \X Counts /\ g.repeated \subseteq Indexes \X Counts
      /\ g.tail = "clean" /\ g.cut = "none" /\ g.junk \in BOOLEAN /\ g.garbled \in BOOLEAN
  BY DEF F!EndLine, F!File
<1>2. g = [keys |-> g.keys, repeated |-> g.repeated, tail |-> g.tail,
           cut |-> g.cut, junk |-> g.junk, garbled |-> g.garbled]
  BY DEF F!EndLine
<1>3. g.keys \in {f.keys, f.keys \cup {k}}
  BY DEF F!EndLine
<1> HIDE DEF g
<1>4. g \in F!File
  BY <1>1, <1>2 DEF F!File
<1> QED
  BY <1>3, <1>4 DEF g

LEMMA AbandonedFile ==
    ASSUME NEW f \in F!File, NEW j \in Jobs
    PROVE  F!Abandon(f, j) \in F!File /\ F!Abandon(f, j).keys = f.keys
BY DEF F!File, F!Abandon

LEMMA CutsBoolean == Cuts \subseteq BOOLEAN
BY DEF Cuts

LEMMA LinesFacts ==
    ASSUME JudgeTypeOK
    PROVE  /\ Lines = 1 .. Len(input) /\ IsFiniteSet(Lines)
           /\ Len(input) \in Nat /\ Cardinality(Lines) = Len(input)
           /\ \A n \in Lines : input[n] \in Line /\ input[n].index \in Indexes /\ n \in Nat \ {0}
<1>1. input \in Seq(Line)
  BY JudgeAssumption DEF JudgeAssumption, JudgeTypeOK
<1>2. Lines = 1 .. Len(input) /\ Len(input) \in Nat
  BY <1>1 DEF Lines
<1>3. IsFiniteSet(Lines) /\ Cardinality(Lines) = Len(input)
  <2> DEFINE n == Len(input)
  <2>1. n \in Nat /\ Lines = 1 .. n
    BY <1>2
  <2> HIDE DEF n
  <2>2. IsFiniteSet(1 .. n) /\ Cardinality(1 .. n) = n
    BY <2>1, FS_Interval
  <2> QED
    BY <2>1, <2>2 DEF n
<1>4. \A n \in Lines : input[n] \in Line
  BY <1>1, <1>2
<1> QED
  BY <1>2, <1>3, <1>4 DEF Line

LEMMA ExistingFollowsKeys ==
    ASSUME out.keys \subseteq out'.keys
    PROVE  Existing \subseteq Existing'
  BY DEF Existing, Counts

(* A job that finds nothing to do, or as many verdicts as lines, is right. *)
LEMMA NoWorkMeansJudged ==
    ASSUME JudgeTypeOK, Work = {}
    PROVE  \A n \in Lines : input[n].kind # "torn" /\ input[n].index \in Existing
<1> SUFFICES ASSUME NEW n \in Lines
             PROVE  input[n].kind # "torn" /\ input[n].index \in Existing
  OBVIOUS
<1>1. IndexOf(n) \in Existing /\ Existing \subseteq Nat
  BY JudgeAssumption DEF Work, Existing, JudgeAssumption
<1>2. n \in Nat \ {0}
  BY LinesFacts
<1>3. input[n].kind # "torn"
  BY <1>1, <1>2 DEF IndexOf
<1> QED
  BY <1>1, <1>3 DEF IndexOf

LEMMA EnoughMeansJudged ==
    ASSUME JudgeTypeOK, VerdictsAreEarned, EnoughIndexes
    PROVE  \A n \in Lines : input[n].kind # "torn" /\ input[n].index \in Existing
<1> DEFINE index == [n \in Lines |-> input[n].index]
<1>1. \A i \in Existing : \E n \in GoodLines : i = index[n]
  BY DEF VerdictsAreEarned, GoodLines
<1>2. Cardinality(Existing) >= Cardinality(Lines) /\ IsFiniteSet(Lines)
  BY LinesFacts DEF EnoughIndexes
<1>3. GoodLines \in SUBSET Lines
  BY DEF GoodLines
<1>4. GoodLines = Lines /\ \A n \in Lines : index[n] \in Existing
  <2> HIDE DEF index
  <2> QED
    BY <1>1, <1>2, <1>3, CountIsEnough
<1> QED
  BY <1>4 DEF GoodLines

-----------------------------------------------------------------------------
LEMMA InitJudgeInv == JudgeInit => JudgeInv
<1> SUFFICES ASSUME JudgeInit PROVE JudgeInv
  OBVIOUS
<1>1. F!FileWith({}) \in F!File /\ F!FileWith({}).keys = {}
  BY DEF F!FileWith, F!File
<1>2. JudgeTypeOK
  BY <1>1 DEF JudgeInit, JudgeTypeOK
<1>3. Existing = {}
  BY <1>1 DEF JudgeInit, Existing
<1>4. WriteInv
  BY DEF JudgeInit, WriteInv
<1> QED
  BY <1>2, <1>3, <1>4 DEF JudgeInit, JudgeInv, VerdictsAreEarned, FlagMeansJudged

(* The verdict that a job ends to write. *)
LEMMA WrittenVerdict ==
    ASSUME JudgeTypeOK, WriteInv, NEW j \in Jobs, EndVerdict(j)
    PROVE  /\ writing[j][1] \in GoodLines /\ writing[j][2] \in Counts
           /\ IndexOf(writing[j][1]) = input[writing[j][1]].index
           /\ <<IndexOf(writing[j][1]), writing[j][2]>> \in Indexes \X Counts
<1>1. writing[j] \in Lines \X Counts /\ input[writing[j][1]].kind = "good"
  BY DEF EndVerdict, WriteInv
<1>2. writing[j][1] \in GoodLines /\ writing[j][2] \in Counts
  BY <1>1 DEF GoodLines
<1>3. IndexOf(writing[j][1]) = input[writing[j][1]].index
  BY <1>1 DEF IndexOf
<1> QED
  BY <1>2, <1>3, LinesFacts DEF GoodLines

LEMMA OutStep ==
    ASSUME JudgeTypeOK, WriteInv, [JudgeNext]_judgeVars
    PROVE  /\ out' \in F!File /\ input' = input
           /\ \/ out'.keys = out.keys
              \/ \E n \in GoodLines, c \in Counts : out'.keys = out.keys \cup {<<input[n].index, c>>}
<1>1. out \in F!File
  BY DEF JudgeTypeOK
<1>2. ASSUME NEW j \in Jobs, EndVerdict(j)
      PROVE  /\ out' \in F!File /\ input' = input
             /\ \/ out'.keys = out.keys
                \/ \E n \in GoodLines, c \in Counts : out'.keys = out.keys \cup {<<input[n].index, c>>}
  <2> DEFINE k == <<IndexOf(writing[j][1]), writing[j][2]>>
  <2>1. k \in Indexes \X Counts /\ k = <<input[writing[j][1]].index, writing[j][2]>>
    BY <1>2, WrittenVerdict
  <2>2. out' = F!EndLine(out, j, k) /\ input' = input
    BY <1>2 DEF EndVerdict
  <2> HIDE DEF k
  <2>3. out' \in F!File /\ out'.keys \in {out.keys, out.keys \cup {k}}
    BY <1>1, <2>1, <2>2, EndedFile
  <2> QED
    BY <1>2, <2>1, <2>2, <2>3, WrittenVerdict
<1>3. ASSUME NEW j \in Jobs, NEW n \in Lines, Judge(j, n)
      PROVE  out' \in F!File /\ input' = input /\ out'.keys = out.keys
  <2>1. PICK c \in BOOLEAN : out' = F!BeginLine(out, j, c)
    BY <1>3, CutsBoolean DEF Judge
  <2> QED
    BY <1>1, <1>3, <2>1, BegunFile DEF Judge
<1>4. ASSUME NEW j \in Jobs, JobEndsEarly(j)
      PROVE  out' \in F!File /\ input' = input /\ out'.keys = out.keys
  BY <1>1, <1>4, AbandonedFile DEF JobEndsEarly
<1>5. ASSUME NEW j \in Jobs, NothingLeft(j) \/ Load(j) \/ Count(j) \/ \E n \in Lines : Fail(j, n)
      PROVE  out' = out /\ input' = input
  BY <1>5 DEF NothingLeft, Load, Count, Fail
<1>6. CASE UNCHANGED judgeVars
  BY <1>1, <1>6 DEF judgeVars
<1> QED
  BY <1>1, <1>2, <1>3, <1>4, <1>5, <1>6 DEF JudgeNext

LEMMA JudgeTypeStep ==
    ASSUME JudgeTypeOK, WriteInv, [JudgeNext]_judgeVars
    PROVE  JudgeTypeOK'
<1>1. out' \in F!File /\ input' = input /\ Lines' = Lines
  BY OutStep DEF Lines
<1>2. /\ input \in Inputs /\ opened \in BOOLEAN /\ flag \in BOOLEAN
      /\ pc \in [Jobs -> {"free", "work", "write"}] /\ todo \in [Jobs -> SUBSET Lines]
      /\ writing \in [Jobs -> {<<>>} \cup (Lines \X Counts)]
  BY DEF JudgeTypeOK
<1> DEFINE Typed == /\ opened' \in BOOLEAN /\ flag' \in BOOLEAN
                    /\ pc' \in [Jobs -> {"free", "work", "write"}] /\ todo' \in [Jobs -> SUBSET Lines]
                    /\ writing' \in [Jobs -> {<<>>} \cup (Lines \X Counts)]
<1>3. Typed
  <2>1. ASSUME NEW j \in Jobs, NothingLeft(j) \/ Load(j) PROVE Typed
    BY <1>2, <2>1 DEF NothingLeft, Load, Work
  <2>2. ASSUME NEW j \in Jobs, NEW n \in Lines, Judge(j, n) PROVE Typed
    <3>1. PICK c \in Counts : writing' = [writing EXCEPT ![j] = <<n, c>>]
      BY <2>2 DEF Judge
    <3> QED
      BY <1>2, <2>2, <3>1 DEF Judge
  <2>3. ASSUME NEW j \in Jobs, EndVerdict(j) PROVE Typed
    BY <1>2, <2>3 DEF EndVerdict
  <2>4. ASSUME NEW j \in Jobs, NEW n \in Lines, Fail(j, n) PROVE Typed
    BY <1>2, <2>4 DEF Fail
  <2>5. ASSUME NEW j \in Jobs, Count(j) \/ JobEndsEarly(j) PROVE Typed
    <3>1. flag' \in BOOLEAN /\ opened' = opened /\ JobEnds(j)
      BY <1>2, <2>5 DEF Count, JobEndsEarly, EnoughIndexes
    <3> QED
      BY <1>2, <3>1 DEF JobEnds
  <2>6. CASE UNCHANGED judgeVars
    BY <1>2, <2>6 DEF judgeVars
  <2> QED
    BY <2>1, <2>2, <2>3, <2>4, <2>5, <2>6 DEF JudgeNext
<1> QED
  BY <1>1, <1>2, <1>3 DEF JudgeTypeOK

LEMMA WriteStep ==
    ASSUME JudgeTypeOK, WriteInv, [JudgeNext]_judgeVars
    PROVE  WriteInv'
<1>1. input' = input /\ Lines' = Lines
  BY OutStep DEF Lines
<1>2. pc \in [Jobs -> {"free", "work", "write"}] /\ writing \in [Jobs -> {<<>>} \cup (Lines \X Counts)]
  BY DEF JudgeTypeOK
<1> DEFINE Earned(i) == \/ pc[i] = "write" /\ writing'[i] = writing[i]
                        \/ writing'[i] \in Lines \X Counts /\ input[writing'[i][1]].kind = "good"
<1>3. ASSUME NEW i \in Jobs, pc'[i] = "write"
      PROVE  Earned(i)
  <2>1. ASSUME NEW j \in Jobs, NEW n \in Lines, Judge(j, n) PROVE Earned(i)
    <3>1. PICK c \in Counts : writing' = [writing EXCEPT ![j] = <<n, c>>]
      BY <2>1 DEF Judge
    <3>2. pc' = [pc EXCEPT ![j] = "write"] /\ input[n].kind = "good"
      BY <2>1 DEF Judge
    <3>3. CASE i = j
      BY <1>2, <3>1, <3>2, <3>3
    <3>4. CASE i # j
      BY <1>2, <1>3, <3>1, <3>2, <3>4
    <3> QED
      BY <3>3, <3>4
  <2>2. ASSUME NEW j \in Jobs, EndVerdict(j) PROVE Earned(i)
    <3>1. i # j
      BY <1>2, <1>3, <2>2 DEF EndVerdict
    <3> QED
      BY <1>2, <1>3, <2>2, <3>1 DEF EndVerdict
  <2>3. ASSUME NEW j \in Jobs, NEW n \in Lines, Fail(j, n) PROVE Earned(i)
    BY <1>3, <2>3 DEF Fail
  <2>4. ASSUME NEW j \in Jobs, Count(j) \/ JobEndsEarly(j) PROVE Earned(i)
    <3>1. JobEnds(j)
      BY <2>4 DEF Count, JobEndsEarly
    <3>2. i # j
      BY <1>2, <1>3, <3>1 DEF JobEnds
    <3> QED
      BY <1>2, <1>3, <3>1, <3>2 DEF JobEnds
  <2>5. ASSUME NEW j \in Jobs, NothingLeft(j) PROVE Earned(i)
    BY <1>3, <2>5 DEF NothingLeft
  <2>6. ASSUME NEW j \in Jobs, Load(j) PROVE Earned(i)
    <3>1. i # j
      BY <1>2, <1>3, <2>6 DEF Load
    <3> QED
      BY <1>2, <1>3, <2>6, <3>1 DEF Load
  <2>7. CASE UNCHANGED judgeVars
    BY <1>3, <2>7 DEF judgeVars
  <2> QED
    BY <2>1, <2>2, <2>3, <2>4, <2>5, <2>6, <2>7 DEF JudgeNext
<1> QED
  BY <1>1, <1>3 DEF WriteInv

LEMMA EarnedStep ==
    ASSUME JudgeTypeOK, WriteInv, VerdictsAreEarned, [JudgeNext]_judgeVars
    PROVE  VerdictsAreEarned'
<1>1. input' = input /\ Lines' = Lines
  BY OutStep DEF Lines
<1>2. CASE out'.keys = out.keys
  BY <1>1, <1>2 DEF VerdictsAreEarned, Existing, Counts
<1>3. ASSUME NEW n \in GoodLines, NEW c \in Counts, out'.keys = out.keys \cup {<<input[n].index, c>>}
      PROVE  VerdictsAreEarned'
  <2>1. Existing' \subseteq Existing \cup {input[n].index}
    BY <1>3 DEF Existing, Counts
  <2> QED
    BY <1>1, <2>1 DEF VerdictsAreEarned, GoodLines
<1> QED
  BY <1>2, <1>3, OutStep

LEMMA FlagStep ==
    ASSUME JudgeInv, [JudgeNext]_judgeVars
    PROVE  FlagMeansJudged'
<1> DEFINE Judged == \A n \in Lines : input[n].kind # "torn" /\ input[n].index \in Existing
<1>1. input' = input /\ Lines' = Lines /\ Existing \subseteq Existing'
  <2>1. out.keys \subseteq out'.keys
    BY OutStep DEF JudgeInv
  <2> QED
    BY <2>1, OutStep, ExistingFollowsKeys DEF JudgeInv, Lines
<1>2. Judged => FlagMeansJudged'
  BY <1>1 DEF FlagMeansJudged
<1>3. CASE flag
  BY <1>2, <1>3 DEF JudgeInv, FlagMeansJudged
<1>4. ASSUME NEW j \in Jobs, NothingLeft(j) PROVE FlagMeansJudged'
  BY <1>2, <1>4, NoWorkMeansJudged DEF NothingLeft, JudgeInv
<1>5. ASSUME NEW j \in Jobs, Count(j), EnoughIndexes PROVE FlagMeansJudged'
  BY <1>2, <1>5, EnoughMeansJudged DEF JudgeInv
<1>6. CASE flag' = flag
  BY <1>3, <1>6 DEF FlagMeansJudged
<1>7. flag' = flag \/ \E j \in Jobs : NothingLeft(j) \/ (Count(j) /\ EnoughIndexes)
  BY DEF JudgeInv, JudgeTypeOK, JudgeNext, judgeVars, Load, Judge, EndVerdict, Fail, Count, JobEndsEarly
<1> QED
  BY <1>4, <1>5, <1>6, <1>7

LEMMA JudgeInvariance == JudgeSpec => []JudgeInv
<1>1. JudgeInv /\ [JudgeNext]_judgeVars => JudgeInv'
  BY JudgeTypeStep, WriteStep, EarnedStep, FlagStep DEF JudgeInv
<1> QED
  BY InitJudgeInv, <1>1, PTL DEF JudgeSpec

-----------------------------------------------------------------------------
(* The variables keep their types. *)
THEOREM JudgeTypeCorrect == JudgeSpec => []JudgeTypeOK
<1>1. JudgeInv => JudgeTypeOK
  BY DEF JudgeInv
<1> QED
  BY JudgeInvariance, <1>1, PTL

(* The stop flag of a split means that all of its rollout file is judged.  *)
THEOREM FlagMeansJudgedHolds == JudgeSpec => []FlagMeansJudged
<1>1. JudgeInv => FlagMeansJudged
  BY DEF JudgeInv
<1> QED
  BY JudgeInvariance, <1>1, PTL

-----------------------------------------------------------------------------
(***************************************************************************)
(* Joined                                                                  *)
(***************************************************************************)
(* Induction, over a set of numbers. *)
LEMMA Induction ==
    ASSUME NEW S, 0 \in S, \A n \in Nat : n \in S => n + 1 \in S
    PROVE  Nat \subseteq S
<1> SUFFICES ASSUME Nat \ S # {} PROVE FALSE
  OBVIOUS
<1>1. PICK n \in Nat \ S : \A m \in Nat \ S : ~(<<m, n>> \in OpToRel(<, Nat))
  BY NatLessThanWellFounded, WFMin
<1>2. n \in Nat /\ n # 0
  OBVIOUS
<1>3. n - 1 \in Nat /\ n - 1 < n /\ (n - 1) + 1 = n
  BY <1>2
<1>4. n - 1 \in S
  BY <1>1, <1>2, <1>3 DEF OpToRel
<1> QED
  BY <1>3, <1>4

(* There is such a table: each of its initial parts exists and is unique.  *)
LEMMA JoinedTable ==
    ASSUME NEW rowsOf
    PROVE  \E g : g = [k \in Nat |-> IF k = 0 THEN <<>> ELSE g[k - 1] \o rowsOf[k - 1]]
<1> DEFINE Part(g, n) == g = [k \in 0 .. n |-> IF k = 0 THEN <<>> ELSE g[k - 1] \o rowsOf[k - 1]]
           Parts == {n \in Nat : \E g : Part(g, n)}
           part(n) == CHOOSE g : Part(g, n)
<1>1. ASSUME NEW n \in Nat, NEW g, Part(g, n)
      PROVE  g[0] = <<>> /\ \A k \in Nat : k < n => g[k + 1] = g[k] \o rowsOf[k]
  <2>1. g[0] = <<>>
    BY <1>1
  <2>2. ASSUME NEW k \in Nat, k < n PROVE g[k + 1] = g[k] \o rowsOf[k]
    <3>1. k + 1 \in 0 .. n /\ k + 1 # 0 /\ (k + 1) - 1 = k
      BY <2>2
    <3>2. g[k + 1] = IF k + 1 = 0 THEN <<>> ELSE g[(k + 1) - 1] \o rowsOf[(k + 1) - 1]
      BY <1>1, <3>1
    <3> QED
      BY <3>1, <3>2
  <2> QED
    BY <2>1, <2>2
<1>2. Nat \subseteq Parts
  <2>1. 0 \in Parts
    <3>1. Part([k \in 0 .. 0 |-> <<>>], 0)
      OBVIOUS
    <3> QED
      BY <3>1
  <2>2. ASSUME NEW n \in Nat, n \in Parts PROVE n + 1 \in Parts
    <3>1. PICK g : Part(g, n)
      BY <2>2
    <3> DEFINE h == [k \in 0 .. n + 1 |-> IF k = n + 1 THEN g[n] \o rowsOf[n] ELSE g[k]]
    <3>2. ASSUME NEW k \in 0 .. n + 1
          PROVE  h[k] = IF k = 0 THEN <<>> ELSE h[k - 1] \o rowsOf[k - 1]
      <4>1. CASE k = 0
        <5>1. h[k] = g[0]
          BY <4>1
        <5> QED
          BY <1>1, <3>1, <4>1, <5>1
      <4>2. CASE k = n + 1
        <5>1. h[k] = g[n] \o rowsOf[n] /\ h[k - 1] = g[n] /\ k - 1 = n /\ k # 0
          BY <4>2
        <5> QED
          BY <5>1
      <4>3. CASE k # 0 /\ k # n + 1
        <5>1. k - 1 \in Nat /\ k - 1 < n /\ (k - 1) + 1 = k
          BY <4>3
        <5>2. g[(k - 1) + 1] = g[k - 1] \o rowsOf[k - 1]
          BY <1>1, <3>1, <5>1
        <5>3. h[k] = g[k] /\ h[k - 1] = g[k - 1]
          BY <4>3
        <5> QED
          BY <4>3, <5>1, <5>2, <5>3
      <4> QED
        BY <4>1, <4>2, <4>3
    <3>3. Part(h, n + 1)
      BY <3>2
    <3> HIDE DEF h, Part
    <3> QED
      BY <3>3
  <2> HIDE DEF Parts
  <2> QED
    BY <2>1, <2>2, Induction
<1>3. \A n \in Nat : Part(part(n), n)
  BY <1>2
<1>4. ASSUME NEW n \in Nat PROVE part(n + 1)[n] = part(n)[n]
  <2> DEFINE Same == {k \in Nat : k <= n => part(n + 1)[k] = part(n)[k]}
  <2> HIDE DEF part, Part
  <2>0. Part(part(n), n) /\ Part(part(n + 1), n + 1)
    BY <1>3
  <2>1. 0 \in Same
    <3>1. n + 1 \in Nat
      OBVIOUS
    <3>2. part(n)[0] = <<>> /\ part(n + 1)[0] = <<>>
      BY <1>1, <2>0, <3>1
    <3> QED
      BY <3>2
  <2>2. ASSUME NEW k \in Nat, k \in Same PROVE k + 1 \in Same
    <3> SUFFICES ASSUME k + 1 <= n PROVE part(n + 1)[k + 1] = part(n)[k + 1]
      OBVIOUS
    <3>1. part(n + 1)[k + 1] = part(n + 1)[k] \o rowsOf[k]
      <4>1. k < n + 1 /\ n + 1 \in Nat
        OBVIOUS
      <4> QED
        BY <1>1, <2>0, <4>1
    <3>2. part(n)[k + 1] = part(n)[k] \o rowsOf[k]
      <4>1. k < n
        OBVIOUS
      <4> QED
        BY <1>1, <2>0, <4>1
    <3>3. part(n + 1)[k] = part(n)[k]
      BY <2>2
    <3> QED
      BY <3>1, <3>2, <3>3
  <2>3. Nat \subseteq Same
    <3> HIDE DEF Same
    <3> QED
      BY <2>1, <2>2, Induction
  <2> QED
    BY <2>3
<1> DEFINE table == [n \in Nat |-> part(n)[n]]
<1>5. ASSUME NEW k \in Nat
      PROVE  table[k] = IF k = 0 THEN <<>> ELSE table[k - 1] \o rowsOf[k - 1]
  <2> HIDE DEF part, Part
  <2>0. Part(part(k), k)
    BY <1>3
  <2>1. CASE k = 0
    BY <1>1, <2>0, <2>1
  <2>2. CASE k # 0
    <3>1. k - 1 \in Nat /\ (k - 1) + 1 = k /\ k - 1 < k
      BY <2>2
    <3>2. part(k)[(k - 1) + 1] = part(k)[k - 1] \o rowsOf[k - 1]
      BY <1>1, <2>0, <3>1
    <3>3. part((k - 1) + 1)[k - 1] = part(k - 1)[k - 1]
      BY <1>4, <3>1
    <3>4. table[k] = part(k)[k] /\ table[k - 1] = part(k - 1)[k - 1]
      BY <3>1
    <3> QED
      BY <2>2, <3>1, <3>2, <3>3, <3>4
  <2> QED
    BY <2>1, <2>2
<1>6. table = [k \in Nat |-> IF k = 0 THEN <<>> ELSE table[k - 1] \o rowsOf[k - 1]]
  <2> HIDE DEF part
  <2>1. table = [k \in Nat |-> table[k]]
    OBVIOUS
  <2> HIDE DEF table
  <2> QED
    BY <1>5, <2>1
<1> QED
  BY <1>6

LEMMA JoinedSteps ==
    ASSUME NEW rowsOf
    PROVE  /\ Joined(rowsOf, 0) = <<>>
           /\ \A n \in Nat : Joined(rowsOf, n + 1) = Joined(rowsOf, n) \o rowsOf[n]
<1> DEFINE table == CHOOSE g : g = [k \in Nat |-> IF k = 0 THEN <<>> ELSE g[k - 1] \o rowsOf[k - 1]]
<1>1. \A n : Joined(rowsOf, n) = table[n]
  BY DEF Joined
<1>2. table = [k \in Nat |-> IF k = 0 THEN <<>> ELSE table[k - 1] \o rowsOf[k - 1]]
  BY JoinedTable
<1> HIDE DEF table
<1>3. table[0] = <<>>
  BY <1>2
<1>4. ASSUME NEW n \in Nat PROVE table[n + 1] = table[n] \o rowsOf[n]
  <2>1. n + 1 \in Nat /\ n + 1 # 0 /\ (n + 1) - 1 = n
    OBVIOUS
  <2>2. table[n + 1] = IF n + 1 = 0 THEN <<>> ELSE table[(n + 1) - 1] \o rowsOf[(n + 1) - 1]
    BY <1>2, <2>1
  <2> QED
    BY <2>1, <2>2
<1> QED
  BY <1>1, <1>3, <1>4

LEMMA JoinedIsSeq ==
    ASSUME NEW E, NEW rowsOf, NEW N \in Nat, \A k \in 0 .. N - 1 : rowsOf[k] \in Seq(E)
    PROVE  \A n \in 0 .. N : Joined(rowsOf, n) \in Seq(E)
<1> DEFINE S == {n \in Nat : n <= N => Joined(rowsOf, n) \in Seq(E)}
<1>1. 0 \in S
  <2>1. <<>> \in Seq(E)
    BY EmptySeq
  <2> QED
    BY <2>1, JoinedSteps
<1>2. ASSUME NEW n \in Nat, n \in S PROVE n + 1 \in S
  <2> SUFFICES ASSUME n + 1 <= N PROVE Joined(rowsOf, n + 1) \in Seq(E)
    OBVIOUS
  <2>1. Joined(rowsOf, n) \in Seq(E) /\ rowsOf[n] \in Seq(E)
    BY <1>2
  <2>2. Joined(rowsOf, n + 1) = Joined(rowsOf, n) \o rowsOf[n]
    BY JoinedSteps
  <2> QED
    BY <2>1, <2>2, ConcatProperties, Zenon
<1>3. Nat \subseteq S
  <2> HIDE DEF S
  <2> QED
    BY <1>1, <1>2, Induction
<1> QED
  BY <1>3

(* Files with the same rows join to the same rows. *)
LEMMA JoinedSame ==
    ASSUME NEW a, NEW b, NEW N \in Nat, \A k \in 0 .. N - 1 : a[k] = b[k]
    PROVE  \A n \in 0 .. N : Joined(a, n) = Joined(b, n)
<1> DEFINE S == {n \in Nat : n <= N => Joined(a, n) = Joined(b, n)}
<1>1. 0 \in S
  BY JoinedSteps
<1>2. ASSUME NEW n \in Nat, n \in S PROVE n + 1 \in S
  <2> SUFFICES ASSUME n + 1 <= N PROVE Joined(a, n + 1) = Joined(b, n + 1)
    OBVIOUS
  <2>1. Joined(a, n) = Joined(b, n) /\ a[n] = b[n]
    BY <1>2
  <2>2. Joined(a, n + 1) = Joined(a, n) \o a[n] /\ Joined(b, n + 1) = Joined(b, n) \o b[n]
    BY JoinedSteps
  <2> QED
    BY <2>1, <2>2
<1>3. Nat \subseteq S
  <2> HIDE DEF S
  <2> QED
    BY <1>1, <1>2, Induction
<1> QED
  BY <1>3

(* A list cut at the increasing places at[0] = 0, at[1], ... is joined     *)
(* again from its pieces.                                                  *)
IsCut(q, N, at, pieces) ==
    /\ at \in [0 .. N -> 0 .. Len(q)] /\ at[0] = 0 /\ at[N] = Len(q)
    /\ \A k \in 0 .. N - 1 : at[k] <= at[k + 1] /\ pieces[k] = SubSeq(q, at[k] + 1, at[k + 1])

LEMMA JoinedCut ==
    ASSUME NEW E, NEW q \in Seq(E), NEW N \in Nat, NEW at, NEW pieces, IsCut(q, N, at, pieces)
    PROVE  Joined(pieces, N) = q
<1>0. /\ at \in [0 .. N -> 0 .. Len(q)] /\ at[0] = 0 /\ at[N] = Len(q)
      /\ \A k \in 0 .. N - 1 : at[k] <= at[k + 1] /\ pieces[k] = SubSeq(q, at[k] + 1, at[k + 1])
  BY DEF IsCut
<1> DEFINE S == {n \in Nat : n <= N => Joined(pieces, n) = SubSeq(q, 1, at[n])}
<1>1. 0 \in S
  <2>1. SubSeq(q, 1, 0) = <<>>
    OBVIOUS
  <2> QED
    BY <1>0, <2>1, JoinedSteps
<1>2. ASSUME NEW n \in Nat, n \in S PROVE n + 1 \in S
  <2> SUFFICES ASSUME n + 1 <= N PROVE Joined(pieces, n + 1) = SubSeq(q, 1, at[n + 1])
    OBVIOUS
  <2>1. n \in 0 .. N - 1 /\ n \in 0 .. N /\ n + 1 \in 0 .. N
    OBVIOUS
  <2>2. Joined(pieces, n + 1) = SubSeq(q, 1, at[n]) \o SubSeq(q, at[n] + 1, at[n + 1])
    <3>1. Joined(pieces, n) = SubSeq(q, 1, at[n])
      BY <1>2
    <3>2. pieces[n] = SubSeq(q, at[n] + 1, at[n + 1])
      BY <1>0, <2>1
    <3>3. Joined(pieces, n + 1) = Joined(pieces, n) \o pieces[n]
      BY JoinedSteps
    <3> QED
      BY <3>1, <3>2, <3>3, Zenon
  <2> DEFINE a == at[n]
             b == at[n + 1]
  <2>3. a \in 0 .. Len(q) /\ b \in 0 .. Len(q) /\ a <= b /\ Len(q) \in Nat
    BY <1>0, <2>1
  <2> HIDE DEF a, b
  <2>4. SubSeq(q, 1, a) \o SubSeq(q, a + 1, b) = SubSeq(q, 1, b)
    BY <2>3
  <2> QED
    BY <2>2, <2>4 DEF a, b
<1>3. Nat \subseteq S
  <2> HIDE DEF S
  <2> QED
    BY <1>1, <1>2, Induction
<1>4. Joined(pieces, N) = SubSeq(q, 1, Len(q))
  BY <1>0, <1>3
<1>5. SubSeq(q, 1, Len(q)) = q
  OBVIOUS
<1> QED
  BY <1>4, <1>5

-----------------------------------------------------------------------------
(***************************************************************************)
(* The cascade                                                             *)
(***************************************************************************)
RowsChosen == [s \in Splits |-> chosen[s].rows]
Right(s) == filtered[s] = chosen[s]
AllRight == \A s \in Splits : Right(s)

(* What the filter has written is what it chose; it chooses nothing of     *)
(* split 0 before the judge has opened its file.                           *)
FileInv ==
    /\ \A s \in Splits :
          /\ chosen[s] = NoFile \/ Whole(chosen[s])
          /\ filtered[s] = NoFile \/ Exists(chosen[s])
          /\ Whole(filtered[s]) => Right(s)
    /\ Exists(chosen[0]) => opened

(* The filter has written, or kept, the splits before the one it is at.    *)
FilterInv ==
    prog.name = "filter" =>
       /\ prog.step \in {"open", "choose", "write"} /\ reached = "none"
       /\ prog.step # "open" => prog.at \in Splits
       /\ prog.step = "write" => chosen[prog.at] = FileOf(prog.rows)
       /\ prog.at = 0 => opened
       /\ \A s \in Splits : s < prog.at => Right(s)

(* The merge holds what it has read; it starts with every split there.     *)
MergeInv ==
    /\ reached # "none" =>
          /\ \A s \in Splits : Exists(filtered[s]) => Right(s)
          /\ final = FileOf(ChosenRows) \/ AllRight
    /\ prog.name = "merge" =>
          /\ prog.step \in {"read", "delete"}
          /\ reached \in {"none", "filtered"}
    /\ prog.name = "merge" /\ reached # "none" =>
          /\ prog.step = "read" => /\ AllRight /\ \A s \in Splits : Exists(filtered[s])
                                   /\ prog.at <= Cardinality(Splits)
                                   /\ final.rows = Joined(RowsChosen, prog.at)
          /\ prog.step = "delete" => final = FileOf(ChosenRows)
    /\ reached \in {"merged", "cut"} => final = FileOf(ChosenRows)

(* The cut has written the shares of the splits before the one it is at.   *)
CutInv ==
    /\ prog.name = "cut" =>
          /\ prog.step \in {"open", "write"} /\ reached # "cut" /\ Whole(final)
          /\ prog.step = "write" => prog.at \in Nine
          /\ \A i \in Nine : i < prog.at => nine[i] = FileOf(Share(i))
    /\ reached = "cut" => \A i \in Nine : nine[i] = FileOf(Share(i))

(* What the filter has read of split 0 when the judge was done with it     *)
(* stays all that there is to read.                                        *)
Settles(rows) == JudgeDone /\ ~F!Malformed(out) /\ rows = FilteredRows(0)

SettledInv ==
    /\ settled => Exists(chosen[0]) /\ chosen[0] = FileOf(chosen[0].rows) /\ Settles(chosen[0].rows)
    /\ At("filter", "choose") /\ prog.at = 0 /\ prog.late => Settles(prog.rows)

OrderInv == FileInv /\ FilterInv /\ MergeInv /\ CutInv

CascadeInv == OrderInv /\ SettledInv

-----------------------------------------------------------------------------
LEMMA SplitsFacts ==
    /\ Cardinality(Splits) \in Nat \ {0} /\ Splits = 0 .. Cardinality(Splits) - 1
    /\ 0 \in Splits /\ Splits \subseteq Nat
    /\ NumNine \in Nat \ {0} /\ Nine = 0 .. NumNine - 1
    /\ \A s \in Splits : Source[s] \in Seq(Nat)
<1>1. IsFiniteSet(Splits) /\ Splits = 0 .. Cardinality(Splits) - 1 /\ 0 \in Splits
  BY CascadeAssumption DEF CascadeAssumption, Splits
<1>2. Cardinality(Splits) \in Nat
  BY <1>1, FS_CardinalityType
<1>3. Cardinality(Splits) # 0
  BY <1>1, FS_EmptySet
<1>4. NumNine \in Nat \ {0} /\ \A s \in Splits : Source[s] \in Seq(Nat)
  BY CascadeAssumption DEF CascadeAssumption, Splits
<1> HIDE DEF Splits
<1> QED
  BY <1>1, <1>2, <1>3, <1>4 DEF Nine

LEMMA KeptIsSeq ==
    ASSUME NEW rows \in Seq(Nat), NEW keep
    PROVE  Kept(rows, keep) \in Seq(Nat)
<1> DEFINE N == Len(rows)
           one == [k \in 0 .. N - 1 |-> IF rows[k + 1] \in keep THEN <<rows[k + 1]>> ELSE <<>>]
<1>1. N \in Nat /\ N \in 0 .. N
  OBVIOUS
<1>2. \A k \in 0 .. N - 1 : one[k] \in Seq(Nat)
  <2> SUFFICES ASSUME NEW k \in 0 .. N - 1 PROVE one[k] \in Seq(Nat)
    OBVIOUS
  <2>1. rows[k + 1] \in Nat
    OBVIOUS
  <2>2. <<rows[k + 1]>> \in Seq(Nat) /\ <<>> \in Seq(Nat)
    BY <2>1
  <2> QED
    BY <2>2
<1> HIDE DEF one, N
<1>3. Joined(one, N) \in Seq(Nat)
  BY <1>1, <1>2, JoinedIsSeq
<1> QED
  BY <1>3 DEF Kept, one, N

LEMMA FilteredIsSeq == \A s \in Splits : FilteredRows(s) \in Seq(Nat)
BY SplitsFacts, KeptIsSeq DEF FilteredRows

(* Division with remainder, and the places where the splits begin: the      *)
(* first r of the N splits have one row more than the others.              *)
LEMMA Division ==
    ASSUME NEW L \in Nat, NEW N \in Nat \ {0}
    PROVE  /\ L \div N \in Nat /\ L % N \in 0 .. N - 1
           /\ L = N * (L \div N) + (L % N)
<1>1. L \div N \in Nat
  BY Z3
<1>2. L % N \in 0 .. N - 1
  BY Z3
<1>3. L - N * (L \div N) = L % N
  BY SMT
<1> DEFINE q == N * (L \div N)
           r == L % N
<1>4. q \in Nat /\ r \in Nat /\ L - q = r
  BY <1>1, <1>2, <1>3
<1>5. L = q + r
  <2> HIDE DEF q, r
  <2> QED
    BY <1>4
<1> QED
  BY <1>1, <1>2, <1>5

Starting(N, b, r) == [k \in 0 .. N |-> k * b + (IF k < r THEN k ELSE r)]

LEMMA StartsOfSplits ==
    ASSUME NEW N \in Nat \ {0}, NEW b \in Nat, NEW r \in 0 .. N - 1
    PROVE  /\ Starting(N, b, r)[0] = 0 /\ Starting(N, b, r)[N] = N * b + r
           /\ \A k \in 0 .. N - 1 :
                 Starting(N, b, r)[k + 1] = Starting(N, b, r)[k] + b + (IF k < r THEN 1 ELSE 0)
           /\ \A k \in 0 .. N : Starting(N, b, r)[k] \in 0 .. N * b + r
<1> DEFINE start == Starting(N, b, r)
<1> USE DEF Starting
<1>1. start[0] = 0
  OBVIOUS
<1>2. start[N] = N * b + r
  OBVIOUS
<1>3. ASSUME NEW k \in 0 .. N - 1
      PROVE  start[k + 1] = start[k] + b + (IF k < r THEN 1 ELSE 0)
  <2>1. (k + 1) * b = k * b + b /\ k * b \in Nat
    OBVIOUS
  <2>2. k \in 0 .. N /\ k + 1 \in 0 .. N
    OBVIOUS
  <2>3. start[k] = k * b + (IF k < r THEN k ELSE r) /\ start[k + 1] = (k + 1) * b + (IF k + 1 < r THEN k + 1 ELSE r)
    BY <2>2
  <2> DEFINE p == k * b
  <2>4. p \in Nat /\ (k + 1) * b = p + b
    BY <2>1
  <2> HIDE DEF p, start
  <2>5. start[k] = p + (IF k < r THEN k ELSE r) /\ start[k + 1] = p + b + (IF k + 1 < r THEN k + 1 ELSE r)
    BY <2>3, <2>4 DEF p
  <2>6. k \in Nat /\ r \in Nat
    OBVIOUS
  <2>7. CASE k < r
    BY <2>4, <2>5, <2>6, <2>7
  <2>8. CASE ~(k < r)
    BY <2>4, <2>5, <2>6, <2>8
  <2> QED
    BY <2>7, <2>8
<1>4. ASSUME NEW k \in 0 .. N
      PROVE  start[k] \in 0 .. N * b + r
  <2>1. N * b = k * b + (N - k) * b /\ (N - k) * b \in Nat /\ k * b \in Nat /\ N * b \in Nat
    OBVIOUS
  <2>2. start[k] = k * b + (IF k < r THEN k ELSE r)
    OBVIOUS
  <2> DEFINE p == k * b  q == N * b
  <2>3. p \in Nat /\ q \in Nat /\ p <= q
    BY <2>1
  <2>4. start[k] = p + (IF k < r THEN k ELSE r)
    BY <2>2
  <2> HIDE DEF p, q, start
  <2>5. start[k] \in 0 .. q + r
    BY <2>3, <2>4
  <2> QED
    BY <2>5 DEF q
<1> QED
  BY <1>1, <1>2, <1>3, <1>4

(* The splits are cut at increasing places, from the first row to the last. *)
LEMMA SharesMeet ==
    ASSUME final \in Parquet
    PROVE  \E at : \A pieces :
               (\A i \in Nine : pieces[i] = Share(i)) => IsCut(final.rows, NumNine, at, pieces)
<1> DEFINE L == Len(final.rows)
           at == Starting(NumNine, Base, Rem)
<1>1. NumNine \in Nat \ {0} /\ Nine = 0 .. NumNine - 1
  BY SplitsFacts
<1>2. L \in Nat
  BY DEF Parquet
<1>3. Base \in Nat /\ Rem \in 0 .. NumNine - 1 /\ L = NumNine * Base + Rem
  <2> HIDE DEF L
  <2> QED
    BY <1>1, <1>2, Division DEF Base, Rem, L
<1>4. /\ at[0] = 0 /\ at[NumNine] = L
      /\ \A k \in Nine : at[k + 1] = at[k] + Base + (IF k < Rem THEN 1 ELSE 0)
      /\ \A k \in 0 .. NumNine : at[k] \in 0 .. L
  <2> HIDE DEF L, Base, Rem
  <2>2. /\ at[0] = 0 /\ at[NumNine] = NumNine * Base + Rem
        /\ \A k \in 0 .. NumNine - 1 : at[k + 1] = at[k] + Base + (IF k < Rem THEN 1 ELSE 0)
        /\ \A k \in 0 .. NumNine : at[k] \in 0 .. NumNine * Base + Rem
    BY <1>1, <1>3, StartsOfSplits
  <2> QED
    BY <1>1, <1>3, <2>2, Zenon
<1>5. at \in [0 .. NumNine -> 0 .. L]
  <2>1. at = [k \in 0 .. NumNine |-> at[k]]
    BY DEF Starting
  <2> HIDE DEF at, L
  <2> QED
    BY <1>4, <2>1
<1>6. ASSUME NEW k \in Nine
      PROVE  at[k] <= at[k + 1] /\ Share(k) = SubSeq(final.rows, at[k] + 1, at[k + 1])
  <2>1. k \in 0 .. NumNine
    BY <1>1
  <2>2. SplitStart(k) = at[k]
    BY <2>1 DEF SplitStart, Starting
  <2>3. at[k] \in Nat /\ at[k + 1] = at[k] + SplitSize(k) /\ SplitSize(k) \in Nat
    <3> HIDE DEF at, L, Base, Rem
    <3>1. at[k] \in 0 .. L
      BY <1>4, <2>1
    <3>2. SplitSize(k) = Base + (IF k < Rem THEN 1 ELSE 0) /\ SplitSize(k) \in Nat
      BY <1>3 DEF SplitSize
    <3>3. at[k + 1] = at[k] + Base + (IF k < Rem THEN 1 ELSE 0)
      BY <1>4
    <3> QED
      BY <1>2, <1>3, <3>1, <3>2, <3>3
  <2> HIDE DEF at, L
  <2> QED
    BY <2>2, <2>3 DEF Share
<1>7. ASSUME NEW pieces, \A i \in Nine : pieces[i] = Share(i)
      PROVE  IsCut(final.rows, NumNine, at, pieces)
  <2>1. \A k \in 0 .. NumNine - 1 : at[k] <= at[k + 1] /\ pieces[k] = SubSeq(final.rows, at[k] + 1, at[k + 1])
    <3> HIDE DEF at
    <3> QED
      BY <1>1, <1>6, <1>7
  <2> HIDE DEF at
  <2> QED
    BY <1>4, <1>5, <2>1 DEF IsCut
<1> HIDE DEF at
<1> QED
  BY <1>7

LEMMA ShareIsSeq ==
    ASSUME final \in Parquet, NEW i \in Nine
    PROVE  Share(i) \in Seq(Nat)
<1> DEFINE pieces == [k \in Nine |-> Share(k)]
<1>1. PICK at : IsCut(final.rows, NumNine, at, pieces)
  BY SharesMeet
<1>2. i \in 0 .. NumNine - 1 /\ i \in 0 .. NumNine /\ i + 1 \in 0 .. NumNine
  BY SplitsFacts
<1> DEFINE a == at[i]
           b == at[i + 1]
<1>3. final.rows \in Seq(Nat) /\ a \in 0 .. Len(final.rows) /\ b \in 0 .. Len(final.rows)
  BY <1>1, <1>2 DEF Parquet, IsCut
<1>4. pieces[i] = SubSeq(final.rows, a + 1, b)
  <2> HIDE DEF pieces
  <2> QED
    BY <1>1, <1>2 DEF IsCut
<1> HIDE DEF a, b
<1>5. SubSeq(final.rows, a + 1, b) \in Seq(Nat)
  BY <1>3
<1> QED
  BY <1>4, <1>5

(* The shares are the rows again, once each and in order. *)
LEMMA SharesJoin ==
    ASSUME final \in Parquet, NEW pieces, \A i \in Nine : pieces[i] = Share(i)
    PROVE  Joined(pieces, NumNine) = final.rows
<1>1. PICK at : IsCut(final.rows, NumNine, at, pieces)
  BY SharesMeet
<1>2. NumNine \in Nat /\ final.rows \in Seq(Nat)
  BY SplitsFacts DEF Parquet
<1> QED
  BY <1>1, <1>2, JoinedCut

-----------------------------------------------------------------------------
(***************************************************************************)
(* The programs                                                            *)
(***************************************************************************)
LEMMA Files ==
    /\ NoFile \in Parquet /\ ~Exists(NoFile) /\ ~Whole(NoFile) /\ NoFile.rows = <<>>
    /\ \A rows \in Seq(Nat) : FileOf(rows) \in Parquet /\ TornFile(rows) \in Parquet
    /\ \A rows : /\ FileOf(rows).rows = rows /\ Whole(FileOf(rows)) /\ Exists(FileOf(rows))
                 /\ TornFile(rows).rows = rows /\ ~Whole(TornFile(rows)) /\ Exists(TornFile(rows))
BY DEF NoFile, FileOf, TornFile, Exists, Whole, Parquet

LEMMA ProgramSteps ==
    ASSUME prog \in Program
    PROVE  /\ prog.name \in {"idle", "filter", "merge", "cut"} /\ prog.at \in Nat
           /\ prog.step \in {"none", "open", "choose", "write", "read", "delete"}
           /\ prog.rows \in Seq(Nat)
           /\ \A step \in {"open", "write", "read", "delete"}, at \in Nat :
                 GoTo(step, at) => /\ prog' \in Program /\ prog'.name = prog.name
                                   /\ prog'.step = step /\ prog'.at = at
           /\ \A name \in {"filter", "merge", "cut"}, step \in {"open", "read"}, at \in Nat :
              \A opts \in SUBSET {"overwrite", "resume", "keep"} :
                 Starts(name, step, at, opts) => /\ prog' \in Program /\ prog'.name = name
                                                 /\ prog'.step = step /\ prog'.at = at
           /\ Idle \in Program /\ Idle.name = "idle"
<1>1. ASSUME NEW step \in {"open", "write", "read", "delete"}, NEW at \in Nat, GoTo(step, at)
      PROVE  /\ prog' \in Program /\ prog'.name = prog.name
             /\ prog'.step = step /\ prog'.at = at
  BY <1>1, EmptySeq DEF GoTo, Program
<1>3. Idle \in Program /\ Idle.name = "idle"
  BY EmptySeq DEF Idle, Program
<1>2. ASSUME NEW name \in {"filter", "merge", "cut"}, NEW step \in {"open", "read"}, NEW at \in Nat,
             NEW opts \in SUBSET {"overwrite", "resume", "keep"}, Starts(name, step, at, opts)
      PROVE  /\ prog' \in Program /\ prog'.name = name
             /\ prog'.step = step /\ prog'.at = at
  BY <1>2, EmptySeq DEF Starts, Program, Idle
<1>4. /\ prog.name \in {"idle", "filter", "merge", "cut"} /\ prog.at \in Nat
      /\ prog.step \in {"none", "open", "choose", "write", "read", "delete"}
      /\ prog.rows \in Seq(Nat)
  BY DEF Program
<1> QED
  BY <1>1, <1>2, <1>3, <1>4

LEMMA ReadStep ==
    ASSUME TypeOK, FilterReads
    PROVE  /\ prog.at \in Splits /\ prog.name = "filter" /\ prog.step = "open"
           /\ prog' \in Program /\ prog'.name = "filter" /\ prog'.step = "choose"
           /\ prog'.at = prog.at /\ prog'.rows = FilteredRows(prog.at) /\ prog'.late = JudgeDone
<1>1. prog \in Program /\ prog.at \in Splits /\ prog.name = "filter" /\ prog.step = "open"
  BY DEF TypeOK, FilterReads, At
<1> DEFINE rows == FilteredRows(prog.at)
<1>2. rows \in Seq(Nat) /\ JudgeDone \in BOOLEAN
  BY <1>1, FilteredIsSeq DEF JudgeDone, TypeOK, JudgeTypeOK
<1>3. prog' = [prog EXCEPT !.step = "choose", !.rows = rows, !.late = JudgeDone]
  BY DEF FilterReads
<1> HIDE DEF rows
<1>4. /\ prog' \in Program /\ prog'.name = "filter" /\ prog'.step = "choose"
      /\ prog'.at = prog.at /\ prog'.rows = rows /\ prog'.late = JudgeDone
  BY <1>1, <1>2, <1>3 DEF Program
<1> QED
  BY <1>1, <1>4 DEF rows

(* It begins to write what it has read. *)
LEMMA OpenStep ==
    ASSUME TypeOK, FilterOpens
    PROVE  /\ prog.name = "filter" /\ prog.step = "choose"
           /\ prog' \in Program /\ prog'.name = "filter" /\ prog'.step = "write"
           /\ prog'.at = prog.at /\ prog'.rows = prog.rows
<1>1. prog \in Program /\ prog' = [prog EXCEPT !.step = "write"] /\ At("filter", "choose")
  BY DEF TypeOK, FilterOpens
<1> QED
  BY <1>1 DEF Program, At

(* While what was chosen does not change, neither do its rows. *)
LEMMA RowsStay ==
    ASSUME UNCHANGED chosen
    PROVE  RowsChosen' = RowsChosen /\ ChosenRows' = ChosenRows
<1>1. RowsChosen' = RowsChosen
  BY DEF RowsChosen
<1>2. ChosenRows = Joined(RowsChosen, Cardinality(Splits))
  BY DEF ChosenRows, RowsChosen
<1>3. ChosenRows' = Joined(RowsChosen', Cardinality(Splits))
  BY DEF ChosenRows, RowsChosen
<1> QED
  BY <1>1, <1>2, <1>3

LEMMA SharesStay ==
    ASSUME UNCHANGED final
    PROVE  \A i \in Nine : Share(i)' = Share(i)
BY DEF Share, SplitStart, SplitSize, Base, Rem

LEMMA FilesStay ==
    ASSUME UNCHANGED filtered, UNCHANGED chosen
    PROVE  \A s \in Splits : /\ Right(s)' <=> Right(s)
                             /\ Exists(filtered[s])' <=> Exists(filtered[s])
                             /\ Whole(filtered[s])' <=> Whole(filtered[s])
BY DEF Right, Exists, Whole

(* With the flag there and no job left, a job that starts finds nothing    *)
(* to do.                                                                  *)
LEMMA DoneStays ==
    ASSUME JudgeInv, JudgeDone, [JudgeNext]_judgeVars
    PROVE  JudgeDone' /\ out' = out
<1>1. Work = {}
  BY DEF JudgeInv, FlagMeansJudged, JudgeDone, Work, IndexOf
<1>2. \A j \in Jobs : pc[j] = "free"
  BY DEF JudgeDone
<1>3. CASE JudgeNext
  <2>1. PICK j \in Jobs : \/ NothingLeft(j) \/ Load(j) \/ EndVerdict(j) \/ Count(j) \/ JobEndsEarly(j)
                          \/ \E n \in Lines : Judge(j, n) \/ Fail(j, n)
    BY <1>3 DEF JudgeNext
  <2>2. NothingLeft(j)
    BY <1>1, <1>2, <2>1 DEF Load, EndVerdict, Count, JobEndsEarly, Judge, Fail
  <2> QED
    BY <1>2, <2>2 DEF NothingLeft, JudgeDone
<1>4. CASE UNCHANGED judgeVars
  BY <1>4 DEF judgeVars, JudgeDone
<1> QED
  BY <1>3, <1>4

LEMMA SettlesOn ==
    ASSUME NEW rows, Settles(rows), JudgeDone', out' = out
    PROVE  JudgeDone' /\ ~F!Malformed(out') /\ rows = FilteredRows(0)'
BY DEF Settles, FilteredRows, KeepIndexes

LEMMA SettledJudge ==
    ASSUME JudgeInv, SettledInv, [JudgeNext]_judgeVars, UNCHANGED cascadeVars
    PROVE  SettledInv'
<1>1. chosen' = chosen /\ settled' = settled /\ prog' = prog
  BY DEF cascadeVars, history
<1>2. \A rows : Settles(rows) => JudgeDone' /\ out' = out
  BY DoneStays DEF Settles
<1>3. \A rows : Settles(rows) => JudgeDone' /\ ~F!Malformed(out') /\ rows = FilteredRows(0)'
  BY <1>2, SettlesOn
<1>4. settled' => /\ Exists(chosen'[0]) /\ chosen'[0] = FileOf(chosen'[0].rows)
                  /\ JudgeDone' /\ ~F!Malformed(out') /\ chosen'[0].rows = FilteredRows(0)'
  BY <1>1, <1>3 DEF SettledInv
<1>5. prog'.name = "filter" /\ prog'.step = "choose" /\ prog'.at = 0 /\ prog'.late =>
         JudgeDone' /\ ~F!Malformed(out') /\ prog'.rows = FilteredRows(0)'
  BY <1>1, <1>3 DEF SettledInv, At
<1> QED
  BY <1>4, <1>5 DEF SettledInv, Settles, At, Exists, FileOf

LEMMA JudgeKeeps ==
    ASSUME TypeOK, JudgeInv, CascadeInv, JudgeNext, UNCHANGED cascadeVars
    PROVE  CascadeInv'
<1>1. /\ filtered' = filtered /\ final' = final /\ nine' = nine /\ prog' = prog
      /\ reached' = reached /\ chosen' = chosen
  BY DEF cascadeVars, files, history
<1>2. FileInv /\ FilterInv /\ MergeInv /\ CutInv /\ SettledInv
  BY DEF CascadeInv, OrderInv
<1>3. opened => opened'
  BY DEF JudgeNext, NothingLeft, Load, Judge, EndVerdict, Fail, Count, JobEndsEarly
<1>4. FileInv'
  BY <1>1, <1>2, <1>3 DEF FileInv, Right, Exists, Whole
<1>5. FilterInv'
  BY <1>1, <1>2, <1>3 DEF FilterInv, Right, FileOf
<1>6. MergeInv'
  BY <1>1, <1>2, RowsStay DEF MergeInv, AllRight, Right, Exists, FileOf
<1>7. CutInv'
  BY <1>1, <1>2, SharesStay DEF CutInv, Whole, FileOf
<1>8. SettledInv'
  BY <1>2, SettledJudge
<1> QED
  BY <1>4, <1>5, <1>6, <1>7, <1>8 DEF CascadeInv, OrderInv

(* The programs leave the judge alone, and only the filter chooses. *)
LEMMA SettledCascade ==
    ASSUME TypeOK, FileInv, SettledInv, CascadeNext
    PROVE  SettledInv'
<1>1. UNCHANGED judgeVars
  BY DEF CascadeNext, FilterStarts, FilterSkips, FilterRaises, FilterReads, FilterOpens, FilterWrites,
         FilterEnds, MergeStarts, MergeReads, MergeRaises, MergeCloses, MergeDeletes, MergeEnds,
         CutStarts, CutOpens, CutWrites, CutEnds, Killed
<1>2. /\ out' = out /\ (JudgeDone' <=> JudgeDone) /\ FilteredRows(0)' = FilteredRows(0)
      /\ F!Malformed(out') <=> F!Malformed(out)
  BY <1>1 DEF judgeVars, JudgeDone, FilteredRows, KeepIndexes
<1>3. /\ prog \in Program /\ 0 \in Splits /\ chosen \in [Splits -> Parquet]
      /\ prog.at \in Nat /\ Cardinality(Splits) \in Nat
  BY ProgramSteps, SplitsFacts DEF TypeOK
<1> DEFINE Chosen == settled' => /\ Exists(chosen'[0]) /\ chosen'[0] = FileOf(chosen'[0].rows)
                                 /\ JudgeDone' /\ ~F!Malformed(out') /\ chosen'[0].rows = FilteredRows(0)'
           Chooses == prog'.name = "filter" /\ prog'.step = "choose" /\ prog'.at = 0 /\ prog'.late =>
                         JudgeDone' /\ ~F!Malformed(out') /\ prog'.rows = FilteredRows(0)'
<1>4. Chosen /\ Chooses => SettledInv'
  BY DEF SettledInv, Settles, At, Exists, FileOf
<1>5. chosen' = chosen /\ settled' = settled => Chosen
  BY <1>2 DEF SettledInv, Settles
<1>6. prog'.name # "filter" \/ prog'.step # "choose" => Chooses
  OBVIOUS
<1> HIDE DEF Chosen, Chooses
<1>7. CASE FilterReads
  <2>1. chosen' = chosen /\ settled' = settled
    BY <1>7 DEF FilterReads, history
  <2>2. /\ prog'.at = prog.at /\ prog'.rows = FilteredRows(prog.at) /\ prog'.late = JudgeDone
    BY <1>7, ReadStep
  <2>3. prog.at = 0 => ~F!Malformed(out)
    BY <1>7 DEF FilterReads, Parses
  <2>4. Chooses
    BY <1>2, <2>2, <2>3 DEF Chooses
  <2> QED
    BY <1>4, <1>5, <2>1, <2>4
<1>8. CASE FilterOpens
  <2>1. Chooses
    BY <1>6, <1>8, OpenStep
  <2>2. CASE prog.at = 0
    <3>1. settled' = prog.late /\ At("filter", "choose")
      BY <1>8, <2>2 DEF FilterOpens
    <3>2. chosen'[0] = FileOf(prog.rows)
      BY <1>3, <1>8, <2>2 DEF FilterOpens
    <3>3. Exists(chosen'[0]) /\ chosen'[0].rows = prog.rows
      BY <3>2, Files
    <3>4. prog.late => Settles(prog.rows)
      BY <2>2, <3>1 DEF SettledInv
    <3> QED
      BY <1>2, <1>4, <2>1, <3>1, <3>2, <3>3, <3>4 DEF Chosen, Settles
  <2>3. CASE prog.at # 0
    <3>1. settled' = settled /\ chosen'[0] = chosen[0]
      BY <1>3, <1>8, <2>3 DEF FilterOpens
    <3> QED
      BY <1>2, <1>4, <2>1, <3>1 DEF Chosen, SettledInv, Settles
  <2> QED
    BY <2>2, <2>3
<1>9. CASE ~FilterReads /\ ~FilterOpens
  <2>1. chosen' = chosen /\ settled' = settled
    BY <1>9 DEF CascadeNext, FilterStarts, FilterSkips, FilterRaises, FilterWrites,
         FilterEnds, MergeStarts, MergeReads, MergeRaises, MergeCloses, MergeDeletes, MergeEnds,
         CutStarts, CutOpens, CutWrites, CutEnds, Killed, history
  <2>2. CASE \E step \in {"open", "write", "read", "delete"}, at \in Nat : GoTo(step, at)
    BY <1>3, <1>4, <1>5, <1>6, <2>1, <2>2, ProgramSteps
  <2>3. CASE \E name \in {"filter", "merge", "cut"}, step \in {"open", "read"}, at \in Nat :
             \E opts \in SUBSET {"overwrite", "resume", "keep"} : Starts(name, step, at, opts)
    BY <1>3, <1>4, <1>5, <1>6, <2>1, <2>3, ProgramSteps
  <2>4. CASE prog' = Idle
    BY <1>3, <1>4, <1>5, <1>6, <2>1, <2>4, ProgramSteps
  <2>5. \A opts \in SUBSET {"overwrite", "resume"} : FilterStarts(opts) => Starts("filter", "open", First, opts) /\ First \in Nat
    BY DEF FilterStarts, First
  <2>6. \A opts \in SUBSET {"overwrite", "resume"} : CutStarts(opts) => Starts("cut", "open", 0, opts) \/ prog' = Idle
    BY DEF CutStarts
  <2>7. \A opts \in SUBSET {"overwrite", "keep"} : MergeStarts(opts) => Starts("merge", "read", 0, opts)
    BY DEF MergeStarts
  <2>8. FilterSkips \/ FilterWrites \/ MergeReads \/ MergeDeletes \/ CutWrites =>
           \E step \in {"open", "write", "read", "delete"} : GoTo(step, prog.at + 1)
    BY DEF FilterSkips, FilterWrites, MergeReads, MergeDeletes, CutWrites
  <2>9. CutOpens => GoTo("write", prog.at)
    BY DEF CutOpens
  <2>10. MergeCloses => \E at \in Nat : GoTo("delete", at)
    BY <1>3 DEF MergeCloses
  <2>11. FilterRaises \/ FilterEnds \/ MergeRaises \/ MergeEnds \/ CutEnds \/ Killed => prog' = Idle
    BY DEF FilterRaises, FilterEnds, MergeRaises, MergeEnds, CutEnds, Killed
  <2>12. prog.at + 1 \in Nat /\ prog.at \in Nat /\ 0 \in Nat
    BY <1>3
  <2> QED
    BY <1>9, <2>2, <2>3, <2>4, <2>5, <2>6, <2>7, <2>8, <2>9, <2>10, <2>11, <2>12 DEF CascadeNext
<1> QED
  BY <1>7, <1>8, <1>9

(* The filter passes a split only when its file is what it chose. *)
LEMMA FilterKeeps ==
    ASSUME TypeOK, OrderInv,
           \/ \E opts \in SUBSET {"overwrite", "resume"} : FilterStarts(opts)
           \/ FilterSkips \/ FilterRaises \/ FilterReads \/ FilterOpens \/ FilterWrites \/ FilterEnds
    PROVE  OrderInv'
<1> DEFINE at == prog.at
<1>1. /\ prog \in Program /\ at \in Nat /\ at + 1 \in Nat
      /\ filtered \in [Splits -> Parquet] /\ chosen \in [Splits -> Parquet]
      /\ FileInv /\ FilterInv /\ MergeInv /\ CutInv
  BY ProgramSteps DEF TypeOK, OrderInv
<1>2. opened' = opened
  BY DEF FilterStarts, FilterSkips, FilterRaises, FilterReads, FilterOpens, FilterWrites, FilterEnds,
         judgeVars
<1>3. Splits \subseteq Nat /\ 0 \in Splits
  BY SplitsFacts
<1>4. ASSUME UNCHANGED filtered, UNCHANGED chosen
      PROVE  FileInv' /\ \A s \in Splits : Right(s)' <=> Right(s)
  BY <1>1, <1>2, <1>4 DEF FileInv, Right, Exists, Whole
<1>5. ASSUME prog'.name # "cut", reached' = "none" \/ reached' = "filtered"
      PROVE  CutInv'
  BY <1>5 DEF CutInv
<1>6. ASSUME prog'.name # "merge", reached' = "none"
      PROVE  MergeInv'
  BY <1>6 DEF MergeInv
<1>7. ASSUME prog'.name # "filter"
      PROVE  FilterInv'
  BY <1>7 DEF FilterInv
<1>8. prog.name = "filter" =>
         /\ reached = "none" /\ (at = 0 => opened)
         /\ prog.step # "open" => at \in Splits
         /\ prog.step = "write" => chosen[at] = FileOf(prog.rows)
         /\ \A s \in Splits : s < at => Right(s)
  BY <1>1 DEF FilterInv
<1>9. ASSUME NEW opts \in SUBSET {"overwrite", "resume"}, FilterStarts(opts)
      PROVE  OrderInv'
  <2>1. First \in {0, 1} /\ (First = 0 <=> opened)
    BY DEF First
  <2>2. prog'.name = "filter" /\ prog'.step = "open" /\ prog'.at = First
    <3>1. Starts("filter", "open", First, opts) /\ First \in Nat
      BY <1>9, <2>1 DEF FilterStarts
    <3> QED
      BY <1>1, <3>1, ProgramSteps
  <2>3. reached' = "none" /\ UNCHANGED filtered /\ UNCHANGED chosen
    BY <1>9 DEF FilterStarts, files
  <2>4. ~opened => Right(0)
    <3>1. ~opened => ~Exists(chosen[0]) /\ chosen[0] = NoFile /\ filtered[0] = NoFile
      BY <1>1, <1>3, Files DEF FileInv, Exists, Whole
    <3> QED
      BY <3>1 DEF Right
  <2>5. \A s \in Splits : s < First => Right(s)
    BY <1>3, <2>1, <2>4
  <2>6. FilterInv'
    BY <1>2, <1>4, <2>1, <2>2, <2>3, <2>5 DEF FilterInv
  <2> QED
    BY <1>4, <1>5, <1>6, <2>2, <2>3, <2>6 DEF OrderInv
<1>10. CASE FilterSkips
  <2>1. /\ prog.name = "filter" /\ at \in Splits /\ Whole(filtered[at])
        /\ UNCHANGED filtered /\ UNCHANGED chosen /\ UNCHANGED reached
    BY <1>10 DEF FilterSkips, At, files, history
  <2>2. prog'.name = "filter" /\ prog'.step = "open" /\ prog'.at = at + 1
    <3>1. GoTo("open", at + 1)
      BY <1>10 DEF FilterSkips
    <3> QED
      BY <1>1, <2>1, <3>1, ProgramSteps
  <2>3. Right(at)
    BY <1>1, <2>1 DEF FileInv
  <2>4. \A s \in Splits : s < at + 1 => Right(s)
    <3> HIDE DEF at
    <3> QED
      BY <1>1, <1>3, <1>8, <2>1, <2>3
  <2>5. FilterInv'
    <3> HIDE DEF at
    <3> QED
      BY <1>1, <1>4, <1>8, <2>1, <2>2, <2>4 DEF FilterInv
  <2> QED
    BY <1>4, <1>5, <1>6, <1>8, <2>1, <2>2, <2>5 DEF OrderInv
<1>11. CASE FilterRaises
  <2>1. /\ prog.name = "filter" /\ prog'.name = "idle"
        /\ UNCHANGED filtered /\ UNCHANGED chosen /\ UNCHANGED reached
    BY <1>1, <1>11, ProgramSteps DEF FilterRaises, At, files, history
  <2> QED
    BY <1>4, <1>5, <1>6, <1>7, <1>8, <2>1 DEF OrderInv
<1>12. CASE FilterReads
  <2>1. /\ prog.name = "filter" /\ at \in Splits
        /\ prog'.name = "filter" /\ prog'.step = "choose" /\ prog'.at = at
    BY <1>12, ReadStep
  <2>2. UNCHANGED filtered /\ UNCHANGED chosen /\ UNCHANGED reached
    BY <1>12 DEF FilterReads, files, history
  <2>3. FilterInv'
    <3> HIDE DEF at
    <3> QED
      BY <1>2, <1>4, <1>8, <2>1, <2>2 DEF FilterInv
  <2> QED
    BY <1>4, <1>5, <1>6, <1>8, <2>1, <2>2, <2>3 DEF OrderInv
<1>13. CASE FilterOpens
  <2>1. /\ prog.name = "filter" /\ prog.step = "choose" /\ at \in Splits
        /\ prog'.name = "filter" /\ prog'.step = "write" /\ prog'.at = at /\ prog'.rows = prog.rows
    BY <1>8, <1>13, OpenStep
  <2>2. /\ filtered' = [filtered EXCEPT ![at] = TornFile(<<>>)]
        /\ chosen' = [chosen EXCEPT ![at] = FileOf(prog.rows)] /\ UNCHANGED reached
    BY <1>13 DEF FilterOpens
  <2>3. /\ filtered'[at] = TornFile(<<>>) /\ chosen'[at] = FileOf(prog.rows)
        /\ \A s \in Splits : s # at => filtered'[s] = filtered[s] /\ chosen'[s] = chosen[s]
    BY <1>1, <2>1, <2>2
  <2>4. FileInv'
    <3>1. ASSUME NEW s \in Splits
          PROVE  /\ chosen'[s] = NoFile \/ Whole(chosen'[s])
                 /\ filtered'[s] = NoFile \/ Exists(chosen'[s])
                 /\ Whole(filtered'[s]) => filtered'[s] = chosen'[s]
      <4>1. CASE s = at
        BY <2>3, <4>1, Files
      <4>2. CASE s # at
        BY <1>1, <2>3, <4>2 DEF FileInv, Right
      <4> QED
        BY <4>1, <4>2
    <3>2. Exists(chosen'[0]) => opened'
      <4>1. CASE at = 0
        BY <1>2, <1>8, <2>1, <4>1
      <4>2. CASE at # 0
        BY <1>1, <1>2, <1>3, <2>3, <4>2 DEF FileInv
      <4> QED
        BY <4>1, <4>2
    <3> QED
      BY <3>1, <3>2 DEF FileInv, Right, Whole, Exists, NoFile
  <2>5. \A s \in Splits : s < at => filtered'[s] = chosen'[s]
    <3> HIDE DEF at
    <3> QED
      BY <1>1, <1>3, <1>8, <2>1, <2>3 DEF Right
  <2>6. FilterInv'
    <3> HIDE DEF at
    <3> QED
      BY <1>2, <1>8, <2>1, <2>2, <2>3, <2>5 DEF FilterInv, Right, FileOf
  <2> QED
    BY <1>5, <1>6, <1>8, <2>1, <2>2, <2>4, <2>6 DEF OrderInv
<1>14. CASE FilterWrites
  <2>1. /\ prog.name = "filter" /\ prog.step = "write" /\ at \in Splits
        /\ filtered' = [filtered EXCEPT ![at] = FileOf(prog.rows)]
        /\ UNCHANGED chosen /\ UNCHANGED reached
    BY <1>8, <1>14 DEF FilterWrites, At, history
  <2>2. prog'.name = "filter" /\ prog'.step = "open" /\ prog'.at = at + 1
    <3>1. GoTo("open", at + 1)
      BY <1>14 DEF FilterWrites
    <3> QED
      BY <1>1, <2>1, <3>1, ProgramSteps
  <2>3. /\ filtered'[at] = FileOf(prog.rows) /\ chosen[at] = FileOf(prog.rows)
        /\ \A s \in Splits : s # at => filtered'[s] = filtered[s]
    BY <1>1, <1>8, <2>1
  <2>4. FileInv'
    <3>1. ASSUME NEW s \in Splits
          PROVE  /\ chosen[s] = NoFile \/ Whole(chosen[s])
                 /\ filtered'[s] = NoFile \/ Exists(chosen[s])
                 /\ Whole(filtered'[s]) => filtered'[s] = chosen[s]
      <4>1. CASE s = at
        BY <2>3, <4>1, Files
      <4>2. CASE s # at
        BY <1>1, <2>3, <4>2 DEF FileInv, Right
      <4> QED
        BY <4>1, <4>2
    <3>2. Exists(chosen[0]) => opened'
      BY <1>1, <1>2 DEF FileInv
    <3> QED
      BY <2>1, <3>1, <3>2 DEF FileInv, Right, Whole, Exists, NoFile
  <2>5. \A s \in Splits : s < at + 1 => filtered'[s] = chosen[s]
    <3>1. ASSUME NEW s \in Splits, s < at + 1
          PROVE  filtered'[s] = chosen[s]
      <4>1. CASE s = at
        BY <2>3, <4>1
      <4>2. CASE s # at
        <5>1. s < at
          <6> HIDE DEF at
          <6> QED
            BY <1>1, <1>3, <3>1, <4>2
        <5> QED
          BY <1>8, <2>1, <2>3, <4>2, <5>1 DEF Right
      <4> QED
        BY <4>1, <4>2
    <3> QED
      BY <3>1
  <2>6. FilterInv'
    <3> HIDE DEF at
    <3> QED
      BY <1>1, <1>8, <2>1, <2>2, <2>5 DEF FilterInv, Right
  <2> QED
    BY <1>5, <1>6, <1>8, <2>1, <2>2, <2>4, <2>6 DEF OrderInv
<1>15. CASE FilterEnds
  <2>1. /\ prog.name = "filter" /\ at \notin Splits /\ prog'.name = "idle"
        /\ UNCHANGED filtered /\ UNCHANGED chosen /\ reached' = "filtered"
    BY <1>1, <1>15, ProgramSteps DEF FilterEnds, At, files
  <2>2. \A s \in Splits : s < at
    <3> HIDE DEF at
    <3> QED
      BY <1>1, <2>1, SplitsFacts
  <2>3. AllRight'
    BY <1>4, <1>8, <2>1, <2>2 DEF AllRight
  <2>4. MergeInv'
    BY <2>1, <2>3 DEF MergeInv, AllRight
  <2> QED
    BY <1>4, <1>5, <1>7, <2>1, <2>4 DEF OrderInv
<1> QED
  BY <1>9, <1>10, <1>11, <1>12, <1>13, <1>14, <1>15

(* The merge has every split there before it removes the old file, and a   *)
(* whole new one before it removes a split.                                *)
LEMMA MergeKeeps ==
    ASSUME TypeOK, OrderInv,
           \/ \E opts \in SUBSET {"overwrite", "keep"} : MergeStarts(opts)
           \/ MergeReads \/ MergeRaises \/ MergeCloses \/ MergeDeletes \/ MergeEnds
    PROVE  OrderInv'
<1> DEFINE at == prog.at
           N == Cardinality(Splits)
<1>1. /\ prog \in Program /\ at \in Nat /\ at + 1 \in Nat
      /\ filtered \in [Splits -> Parquet] /\ final \in Parquet
      /\ FileInv /\ MergeInv
  BY ProgramSteps DEF TypeOK, OrderInv
<1>2. /\ prog.name \in {"idle", "merge"} /\ UNCHANGED chosen /\ opened' = opened
  BY DEF MergeStarts, MergeReads, MergeRaises, MergeCloses, MergeDeletes, MergeEnds, At, Idle,
         history, judgeVars
<1>3. RowsChosen' = RowsChosen /\ ChosenRows' = ChosenRows
  BY <1>2, RowsStay
<1>4. ASSUME UNCHANGED filtered
      PROVE  /\ FileInv'
             /\ \A s \in Splits : /\ Right(s)' <=> Right(s)
                                  /\ Exists(filtered[s])' <=> Exists(filtered[s])
  BY <1>1, <1>2, <1>4 DEF FileInv, Right, Exists, Whole
<1>5. ASSUME prog'.name \in {"idle", "merge"}, reached' # "cut"
      PROVE  CutInv'
  BY <1>5 DEF CutInv
<1>6. ASSUME prog'.name \in {"idle", "merge"}
      PROVE  FilterInv'
  BY <1>6 DEF FilterInv
<1>7. reached # "none" => \A s \in Splits : Exists(filtered[s]) => Right(s)
  BY <1>1 DEF MergeInv
<1>8. N \in Nat /\ Splits = 0 .. N - 1 /\ Splits \subseteq Nat
  BY SplitsFacts
<1> HIDE DEF N
<1>9. ASSUME NEW opts \in SUBSET {"overwrite", "keep"}, MergeStarts(opts)
      PROVE  OrderInv'
  <2>1. prog'.name = "merge" /\ prog'.step = "read" /\ prog'.at = 0
    <3>1. Starts("merge", "read", 0, opts)
      BY <1>9 DEF MergeStarts
    <3> QED
      BY <1>1, <3>1, ProgramSteps
  <2>2. /\ UNCHANGED filtered /\ final' = NoFile
        /\ reached' = (IF reached = "none" THEN "none" ELSE "filtered")
        /\ \A s \in Splits : Exists(filtered[s])
    BY <1>9 DEF MergeStarts, MissingSplits
  <2>3. reached' # "none" => AllRight'
    BY <1>4, <1>7, <2>2 DEF AllRight
  <2>4. final'.rows = Joined(RowsChosen', 0)
    BY <2>2, Files, JoinedSteps
  <2>5. 0 <= N
    BY <1>8
  <2>6. MergeInv'
    BY <1>4, <2>1, <2>2, <2>3, <2>4, <2>5 DEF MergeInv, AllRight, N
  <2> QED
    BY <1>4, <1>5, <1>6, <2>1, <2>2, <2>6 DEF OrderInv
<1>10. CASE MergeReads
  <2>1. /\ prog.name = "merge" /\ prog.step = "read" /\ at \in Splits
        /\ final' = TornFile(final.rows \o filtered[at].rows)
        /\ UNCHANGED filtered /\ UNCHANGED reached
    BY <1>10 DEF MergeReads, At, history
  <2>2. prog'.name = "merge" /\ prog'.step = "read" /\ prog'.at = at + 1
    <3>1. GoTo("read", at + 1)
      BY <1>10 DEF MergeReads
    <3> QED
      BY <1>1, <2>1, <3>1, ProgramSteps
  <2>3. reached \in {"none", "filtered"}
    BY <1>1, <2>1 DEF MergeInv
  <2>4. ASSUME reached # "none"
        PROVE  /\ AllRight' /\ \A s \in Splits : Exists(filtered[s])'
               /\ at + 1 <= N /\ final'.rows = Joined(RowsChosen', at + 1)
    <3>1. AllRight /\ final.rows = Joined(RowsChosen, at) /\ \A s \in Splits : Exists(filtered[s])
      BY <1>1, <2>1, <2>4 DEF MergeInv
    <3>2. filtered[at].rows = RowsChosen[at]
      BY <2>1, <3>1 DEF AllRight, Right, RowsChosen
    <3>3. final'.rows = Joined(RowsChosen, at) \o RowsChosen[at]
      BY <2>1, <3>1, <3>2, Files
    <3>4. Joined(RowsChosen, at + 1) = Joined(RowsChosen, at) \o RowsChosen[at]
      BY <1>1, JoinedSteps
    <3>5. at + 1 <= N
      <4> HIDE DEF at
      <4> QED
        BY <1>8, <2>1
    <3> QED
      BY <1>3, <1>4, <2>1, <3>1, <3>3, <3>4, <3>5 DEF AllRight
  <2>5. MergeInv'
    BY <2>1, <2>2, <2>3, <2>4 DEF MergeInv, AllRight, N
  <2> QED
    BY <1>4, <1>5, <1>6, <2>1, <2>2, <2>3, <2>5 DEF OrderInv
<1>11. CASE MergeRaises
  <2>1. /\ prog.name = "merge" /\ prog.step = "read" /\ at \in Splits /\ ~Whole(filtered[at])
        /\ UNCHANGED filtered /\ UNCHANGED reached /\ prog'.name = "idle"
    BY <1>1, <1>11, ProgramSteps DEF MergeRaises, At, history
  <2>2. reached = "none"
    <3>1. reached # "none" => Right(at) /\ Exists(filtered[at])
      BY <1>1, <2>1 DEF MergeInv, AllRight
    <3>2. Exists(filtered[at]) => Whole(chosen[at])
      BY <1>1, <2>1, Files DEF FileInv
    <3> QED
      BY <2>1, <3>1, <3>2 DEF Right
  <2>3. MergeInv'
    BY <2>1, <2>2 DEF MergeInv
  <2> QED
    BY <1>4, <1>5, <1>6, <2>1, <2>2, <2>3 DEF OrderInv
<1>12. CASE MergeCloses
  <2>1. /\ prog.name = "merge" /\ prog.step = "read" /\ at \notin Splits
        /\ final' = FileOf(final.rows) /\ UNCHANGED filtered /\ UNCHANGED reached
    BY <1>12 DEF MergeCloses, At, history
  <2>2. prog'.name = "merge" /\ prog'.step = "delete"
    <3>1. PICK n \in Nat : GoTo("delete", n)
      BY <1>8, <1>12 DEF MergeCloses, N
    <3> QED
      BY <1>1, <2>1, <3>1, ProgramSteps
  <2>3. reached \in {"none", "filtered"}
    BY <1>1, <2>1 DEF MergeInv
  <2>4. ASSUME reached # "none"
        PROVE  final' = FileOf(ChosenRows')
    <3>1. at <= N /\ final.rows = Joined(RowsChosen, at)
      BY <1>1, <2>1, <2>4 DEF MergeInv, N
    <3>2. at = N
      <4> HIDE DEF at
      <4> QED
        BY <1>1, <1>8, <2>1, <3>1
    <3>3. final.rows = ChosenRows
      BY <3>1, <3>2 DEF ChosenRows, RowsChosen, N
    <3> QED
      BY <1>3, <2>1, <3>3
  <2>5. MergeInv'
    BY <1>3, <1>4, <1>7, <2>1, <2>2, <2>3, <2>4 DEF MergeInv
  <2> QED
    BY <1>4, <1>5, <1>6, <2>1, <2>2, <2>3, <2>5 DEF OrderInv
<1>13. CASE MergeDeletes
  <2>1. /\ prog.name = "merge" /\ prog.step = "delete" /\ at \in Splits
        /\ filtered' = [filtered EXCEPT ![at] = NoFile]
        /\ UNCHANGED final /\ UNCHANGED reached
    BY <1>13 DEF MergeDeletes, At, history
  <2>2. prog'.name = "merge" /\ prog'.step = "delete"
    <3>1. GoTo("delete", at + 1)
      BY <1>13 DEF MergeDeletes
    <3> QED
      BY <1>1, <2>1, <3>1, ProgramSteps
  <2>3. /\ reached \in {"none", "filtered"}
        /\ reached # "none" => final = FileOf(ChosenRows)
    BY <1>1, <2>1 DEF MergeInv
  <2>4. /\ filtered'[at] = NoFile
        /\ \A s \in Splits : s # at => filtered'[s] = filtered[s]
    BY <1>1, <2>1
  <2>5. ASSUME NEW s \in Splits
        PROVE  /\ chosen[s] = NoFile \/ Whole(chosen[s])
               /\ filtered'[s] = NoFile \/ Exists(chosen[s])
               /\ Whole(filtered'[s]) => filtered'[s] = chosen[s]
               /\ reached # "none" /\ Exists(filtered'[s]) => filtered'[s] = chosen[s]
    <3>1. CASE s = at
      BY <1>1, <2>4, <3>1, Files DEF FileInv
    <3>2. CASE s # at
      BY <1>1, <1>7, <2>4, <3>2 DEF FileInv, Right
    <3> QED
      BY <3>1, <3>2
  <2>6. FileInv'
    BY <1>1, <1>2, <2>5 DEF FileInv, Right, Whole, Exists, NoFile
  <2>7. MergeInv'
    <3>1. \A s \in Splits : reached # "none" /\ Exists(filtered[s])' => Right(s)'
      BY <1>2, <2>5 DEF Right, Exists
    <3>2. final' = FileOf(ChosenRows') <=> final = FileOf(ChosenRows)
      BY <1>3, <2>1
    <3> QED
      BY <2>1, <2>2, <2>3, <3>1, <3>2 DEF MergeInv
  <2> QED
    BY <1>5, <1>6, <2>1, <2>2, <2>3, <2>6, <2>7 DEF OrderInv
<1>14. CASE MergeEnds
  <2>1. /\ prog.name = "merge" /\ prog.step = "delete" /\ prog'.name = "idle"
        /\ UNCHANGED filtered /\ UNCHANGED final
        /\ reached' = (IF reached = "none" THEN "none" ELSE "merged")
    BY <1>1, <1>14, ProgramSteps DEF MergeEnds, At, files
  <2>2. reached # "none" => final = FileOf(ChosenRows)
    BY <1>1, <2>1 DEF MergeInv
  <2>3. MergeInv'
    BY <1>3, <1>4, <1>7, <2>1, <2>2 DEF MergeInv
  <2> QED
    BY <1>4, <1>5, <1>6, <2>1, <2>3 DEF OrderInv
<1> QED
  BY <1>9, <1>10, <1>11, <1>12, <1>13, <1>14

(* The cut writes the shares of a whole final file over what was there. *)
LEMMA CutKeeps ==
    ASSUME TypeOK, OrderInv,
           \/ \E opts \in SUBSET {"overwrite", "resume"} : CutStarts(opts)
           \/ CutOpens \/ CutWrites \/ CutEnds \/ Killed
    PROVE  OrderInv'
<1> DEFINE at == prog.at
<1>1. /\ prog \in Program /\ at \in Nat /\ at + 1 \in Nat /\ nine \in [Nine -> Parquet]
      /\ FileInv /\ FilterInv /\ MergeInv /\ CutInv
  BY ProgramSteps DEF TypeOK, OrderInv
<1>2. /\ UNCHANGED filtered /\ UNCHANGED final /\ UNCHANGED chosen /\ opened' = opened
  BY DEF CutStarts, CutOpens, CutWrites, CutEnds, Killed, files, history, judgeVars
<1>3. ChosenRows' = ChosenRows /\ \A i \in Nine : Share(i)' = Share(i)
  BY <1>2, RowsStay, SharesStay
<1>4. /\ FileInv'
      /\ \A s \in Splits : /\ Right(s)' <=> Right(s)
                           /\ Exists(filtered[s])' <=> Exists(filtered[s])
  BY <1>1, <1>2 DEF FileInv, Right, Exists, Whole
<1>5. ASSUME prog'.name # "filter"
      PROVE  FilterInv'
  BY <1>5 DEF FilterInv
<1>6. ASSUME prog'.name # "merge", reached' = "none" <=> reached = "none",
             reached' \in {"merged", "cut"} => reached \in {"merged", "cut"}
      PROVE  MergeInv'
  BY <1>1, <1>2, <1>3, <1>4, <1>6 DEF MergeInv, AllRight
<1>7. Nine = 0 .. NumNine - 1 /\ NumNine \in Nat \ {0} /\ Nine \subseteq Nat
  BY SplitsFacts
<1>8. ASSUME NEW opts \in SUBSET {"overwrite", "resume"}, CutStarts(opts)
      PROVE  OrderInv'
  <2>1. /\ prog = Idle /\ reached' = (IF reached = "cut" THEN "merged" ELSE reached)
        /\ IF Whole(final) THEN Starts("cut", "open", 0, opts) ELSE UNCHANGED prog
    BY <1>8 DEF CutStarts
  <2>2. /\ Whole(final) /\ prog'.name = "cut" /\ prog'.step = "open" /\ prog'.at = 0
        \/ prog'.name = "idle"
    BY <1>1, <2>1, ProgramSteps
  <2>3. CutInv'
    BY <1>2, <1>7, <2>1, <2>2 DEF CutInv, Whole
  <2> QED
    BY <1>4, <1>5, <1>6, <2>1, <2>2, <2>3 DEF OrderInv
<1>9. CASE CutOpens
  <2>1. /\ prog.name = "cut" /\ prog.step = "open" /\ at \in Nine
        /\ nine' = [nine EXCEPT ![at] = TornFile(<<>>)] /\ UNCHANGED reached
    BY <1>9 DEF CutOpens, At, history
  <2>2. prog'.name = "cut" /\ prog'.step = "write" /\ prog'.at = at
    BY <1>1, <1>9, <2>1, ProgramSteps DEF CutOpens
  <2>3. /\ reached # "cut" /\ Whole(final)
        /\ \A i \in Nine : i < at => nine[i] = FileOf(Share(i))
    BY <1>1, <2>1 DEF CutInv
  <2>4. ASSUME NEW i \in Nine, i < at
        PROVE  nine'[i] = FileOf(Share(i)')
    <3>1. i # at
      BY <1>1, <1>7, <2>4
    <3>2. nine'[i] = nine[i]
      BY <1>1, <2>1, <3>1
    <3> QED
      BY <1>3, <2>3, <2>4, <3>2
  <2>5. CutInv'
    BY <1>2, <2>1, <2>2, <2>3, <2>4 DEF CutInv, Whole, FileOf
  <2> QED
    BY <1>4, <1>5, <1>6, <2>1, <2>2, <2>5 DEF OrderInv
<1>10. CASE CutWrites
  <2>1. /\ prog.name = "cut" /\ prog.step = "write"
        /\ nine' = [nine EXCEPT ![at] = FileOf(Share(at))] /\ UNCHANGED reached
    BY <1>10 DEF CutWrites, At, history
  <2>2. prog'.name = "cut" /\ prog'.step = "open" /\ prog'.at = at + 1
    BY <1>1, <1>10, <2>1, ProgramSteps DEF CutWrites
  <2>3. /\ reached # "cut" /\ Whole(final) /\ at \in Nine
        /\ \A i \in Nine : i < at => nine[i] = FileOf(Share(i))
    BY <1>1, <2>1 DEF CutInv
  <2>4. ASSUME NEW i \in Nine, i < at + 1
        PROVE  nine'[i] = FileOf(Share(i)')
    <3>1. CASE i = at
      BY <1>1, <1>3, <2>1, <2>3, <3>1
    <3>2. CASE i # at
      <4>1. i < at
        BY <1>1, <1>7, <2>4, <3>2
      <4>2. nine'[i] = nine[i]
        BY <1>1, <2>1, <3>2
      <4> QED
        BY <1>3, <2>3, <4>1, <4>2
    <3> QED
      BY <3>1, <3>2
  <2>5. CutInv'
    BY <1>2, <2>1, <2>2, <2>3, <2>4 DEF CutInv, Whole, FileOf
  <2> QED
    BY <1>4, <1>5, <1>6, <2>1, <2>2, <2>5 DEF OrderInv
<1>11. CASE CutEnds
  <2>1. /\ prog.name = "cut" /\ prog.step = "open" /\ at \notin Nine /\ prog'.name = "idle"
        /\ UNCHANGED nine /\ reached' = (IF reached = "merged" THEN "cut" ELSE reached)
    BY <1>1, <1>11, ProgramSteps DEF CutEnds, At, files
  <2>2. \A i \in Nine : i < at
    <3> HIDE DEF at
    <3> QED
      BY <1>1, <1>7, <2>1
  <2>3. \A i \in Nine : nine[i] = FileOf(Share(i))
    BY <1>1, <2>1, <2>2 DEF CutInv
  <2>4. \A i \in Nine : nine'[i] = FileOf(Share(i)')
    BY <1>3, <2>1, <2>3
  <2>5. CutInv'
    BY <2>1, <2>4 DEF CutInv, FileOf
  <2> QED
    BY <1>4, <1>5, <1>6, <2>1, <2>5 DEF OrderInv
<1>12. CASE Killed
  <2>1. prog'.name = "idle" /\ UNCHANGED nine /\ UNCHANGED reached
    BY <1>1, <1>12, ProgramSteps DEF Killed, files, history
  <2>2. \A i \in Nine : nine'[i] = FileOf(Share(i))' <=> nine[i] = FileOf(Share(i))
    BY <1>3, <2>1 DEF FileOf
  <2>3. CutInv'
    BY <1>1, <2>1, <2>2 DEF CutInv
  <2> QED
    BY <1>4, <1>5, <1>6, <2>1, <2>3 DEF OrderInv
<1> QED
  BY <1>8, <1>9, <1>10, <1>11, <1>12

LEMMA InitCascade == Init => TypeOK /\ CascadeInv
<1> SUFFICES ASSUME Init PROVE TypeOK /\ CascadeInv
  OBVIOUS
<1>1. /\ JudgeInit /\ filtered = [s \in Splits |-> NoFile] /\ final = NoFile
      /\ nine = [i \in Nine |-> NoFile] /\ prog = Idle /\ reached = "none"
      /\ chosen = [s \in Splits |-> NoFile] /\ settled = FALSE
  BY DEF Init, CascadeInit
<1>2. JudgeTypeOK
  BY <1>1, InitJudgeInv DEF JudgeInv
<1>3. Idle \in Program
  BY EmptySeq DEF Idle, Program
<1>4. TypeOK
  BY <1>1, <1>2, <1>3, Files DEF TypeOK
<1>5. prog.name = "idle" /\ \A s \in Splits : filtered[s] = NoFile /\ chosen[s] = NoFile
  BY <1>1 DEF Idle
<1>6. FileInv
  BY <1>5, SplitsFacts, Files DEF FileInv, Right
<1>7. FilterInv /\ MergeInv /\ CutInv
  BY <1>1, <1>5 DEF FilterInv, MergeInv, CutInv
<1>8. SettledInv
  BY <1>1, <1>5 DEF SettledInv, At
<1> QED
  BY <1>4, <1>6, <1>7, <1>8 DEF CascadeInv, OrderInv

-----------------------------------------------------------------------------
(***************************************************************************)
(* The theorems                                                            *)
(***************************************************************************)
(* Every step of the cascade is a step of the judge, or lets it stand. *)
LEMMA JudgeOrCascade ==
    ASSUME [Next]_vars
    PROVE  /\ [JudgeNext]_judgeVars
           /\ \/ JudgeNext /\ UNCHANGED cascadeVars
              \/ CascadeNext
              \/ UNCHANGED vars
<1>1. CASE Next
  <2>1. CascadeNext => UNCHANGED judgeVars
    BY DEF CascadeNext, FilterStarts, FilterSkips, FilterRaises, FilterReads, FilterOpens,
           FilterWrites, FilterEnds, MergeStarts, MergeReads, MergeRaises, MergeCloses,
           MergeDeletes, MergeEnds, CutStarts, CutOpens, CutWrites, CutEnds, Killed
  <2> QED
    BY <1>1, <2>1 DEF Next
<1>2. CASE UNCHANGED vars
  BY <1>2 DEF vars
<1> QED
  BY <1>1, <1>2

LEMMA CascadeTypeStep ==
    ASSUME TypeOK, CascadeInv, CascadeNext
    PROVE  /\ filtered' \in [Splits -> Parquet] /\ final' \in Parquet /\ nine' \in [Nine -> Parquet]
           /\ prog' \in Program /\ reached' \in {"none", "filtered", "merged", "cut"}
           /\ chosen' \in [Splits -> Parquet] /\ settled' \in BOOLEAN
<1>1. /\ filtered \in [Splits -> Parquet] /\ final \in Parquet /\ nine \in [Nine -> Parquet]
      /\ prog \in Program /\ reached \in {"none", "filtered", "merged", "cut"}
      /\ chosen \in [Splits -> Parquet] /\ settled \in BOOLEAN
      /\ prog.rows \in Seq(Nat) /\ prog.late \in BOOLEAN
  BY DEF TypeOK, Program
<1>3. prog.name = "cut" /\ prog.step = "write" => prog.at \in Nine
  BY DEF CascadeInv, OrderInv, CutInv
<1>4. Cardinality(Splits) \in Nat
  BY SplitsFacts
<1>5. reached' \in {"none", "filtered", "merged", "cut"}
  BY <1>1 DEF CascadeNext, FilterStarts, FilterSkips, FilterRaises, FilterReads, FilterOpens,
              FilterWrites, FilterEnds, MergeStarts, MergeReads, MergeRaises, MergeCloses,
              MergeDeletes, MergeEnds, CutStarts, CutOpens, CutWrites, CutEnds, Killed, history
<1>6. prog' \in Program
  <2>1. /\ prog.at + 1 \in Nat /\ prog.at \in Nat /\ Idle \in Program
        /\ \A step \in {"open", "write", "read", "delete"}, at \in Nat : GoTo(step, at) => prog' \in Program
        /\ \A name \in {"filter", "merge", "cut"}, step \in {"open", "read"}, at \in Nat :
           \A opts \in SUBSET {"overwrite", "resume", "keep"} :
              Starts(name, step, at, opts) => prog' \in Program
    BY <1>1, ProgramSteps
  <2>2. ASSUME NEW opts \in SUBSET {"overwrite", "resume"}, FilterStarts(opts) \/ CutStarts(opts)
        PROVE  prog' \in Program
    <3>1. First \in Nat
      BY DEF First
    <3> QED
      BY <1>1, <2>1, <2>2, <3>1 DEF FilterStarts, CutStarts
  <2>3. ASSUME NEW opts \in SUBSET {"overwrite", "keep"}, MergeStarts(opts)
        PROVE  prog' \in Program
    BY <1>1, <2>1, <2>3 DEF MergeStarts
  <2>4. FilterSkips \/ FilterRaises \/ FilterWrites \/ FilterEnds => prog' \in Program
    BY <2>1 DEF FilterSkips, FilterRaises, FilterWrites, FilterEnds
  <2>7. FilterReads \/ FilterOpens => prog' \in Program
    BY ReadStep, OpenStep
  <2>5. MergeReads \/ MergeRaises \/ MergeCloses \/ MergeDeletes \/ MergeEnds => prog' \in Program
    <3>1. MergeCloses => \E n \in Nat : GoTo("delete", n)
      BY <1>4 DEF MergeCloses
    <3> QED
      BY <2>1, <3>1 DEF MergeReads, MergeRaises, MergeDeletes, MergeEnds
  <2>6. CutOpens \/ CutWrites \/ CutEnds \/ Killed => prog' \in Program
    BY <2>1 DEF CutOpens, CutWrites, CutEnds, Killed
  <2> QED
    BY <2>2, <2>3, <2>4, <2>5, <2>6, <2>7 DEF CascadeNext
<1>7. filtered' \in [Splits -> Parquet]
  <2>1. CASE UNCHANGED filtered
    BY <1>1, <2>1
  <2>2. CASE FilterOpens \/ FilterWrites \/ MergeDeletes
    <3>1. PICK f \in Parquet : filtered' = [filtered EXCEPT ![prog.at] = f]
      <4>1. CASE FilterOpens
        BY <4>1, EmptySeq, Files DEF FilterOpens
      <4>2. CASE FilterWrites
        BY <1>1, <4>2, Files DEF FilterWrites
      <4>3. CASE MergeDeletes
        BY <4>3, Files DEF MergeDeletes
      <4> QED
        BY <2>2, <4>1, <4>2, <4>3
    <3> QED
      BY <1>1, <3>1
  <2> QED
    BY <2>1, <2>2 DEF CascadeNext, FilterStarts, FilterSkips, FilterRaises, FilterReads, FilterEnds,
              MergeStarts, MergeReads, MergeRaises, MergeCloses, MergeEnds,
              CutStarts, CutOpens, CutWrites, CutEnds, Killed, files
<1>8. final' \in Parquet
  <2>1. final.rows \in Seq(Nat)
    BY <1>1 DEF Parquet
  <2>2. CASE MergeReads
    <3>1. filtered[prog.at].rows \in Seq(Nat)
      BY <1>1, <2>2 DEF MergeReads, Parquet
    <3>2. final.rows \o filtered[prog.at].rows \in Seq(Nat)
      BY <2>1, <3>1, ConcatProperties, Zenon
    <3> QED
      BY <2>2, <3>2, Files DEF MergeReads
  <2>3. final' \in {final, NoFile, FileOf(final.rows)} => final' \in Parquet
    BY <1>1, <2>1, Files
  <2>4. ~MergeReads => final' \in {final, NoFile, FileOf(final.rows)}
    BY DEF CascadeNext, FilterStarts, FilterSkips, FilterRaises, FilterReads, FilterOpens,
           FilterWrites, FilterEnds, MergeStarts, MergeRaises, MergeCloses, MergeDeletes, MergeEnds,
           CutStarts, CutOpens, CutWrites, CutEnds, Killed, files
  <2> QED
    BY <2>2, <2>3, <2>4
<1>9. nine' \in [Nine -> Parquet]
  <2>1. CASE UNCHANGED nine \/ nine' = [i \in Nine |-> NoFile]
    BY <1>1, <2>1, Files
  <2>2. CASE CutOpens \/ CutWrites
    <3>1. PICK f \in Parquet : nine' = [nine EXCEPT ![prog.at] = f]
      <4>1. CASE CutOpens
        BY <4>1, EmptySeq, Files DEF CutOpens
      <4>2. CASE CutWrites
        <5>1. FileOf(Share(prog.at)) \in Parquet
          BY <1>1, <1>3, <4>2, ShareIsSeq, Files DEF CutWrites, At
        <5> QED
          BY <4>2, <5>1 DEF CutWrites
      <4> QED
        BY <2>2, <4>1, <4>2
    <3> QED
      BY <1>1, <3>1
  <2> QED
    BY <2>1, <2>2 DEF CascadeNext, FilterStarts, FilterSkips, FilterRaises, FilterReads, FilterOpens,
              FilterWrites, FilterEnds, MergeStarts, MergeReads, MergeRaises, MergeCloses, MergeDeletes, MergeEnds,
              CutStarts, CutEnds, Killed, files
<1>10. chosen' \in [Splits -> Parquet] /\ settled' \in BOOLEAN
  <2>1. CASE FilterOpens
    <3>1. FileOf(prog.rows) \in Parquet
      BY <1>1, Files
    <3>2. chosen' \in [Splits -> Parquet]
      BY <1>1, <2>1, <3>1 DEF FilterOpens
    <3>3. settled' \in BOOLEAN
      BY <1>1, <2>1 DEF FilterOpens
    <3> QED
      BY <3>2, <3>3
  <2>2. CASE ~FilterOpens
    BY <1>1, <2>2 DEF CascadeNext, FilterStarts, FilterSkips, FilterRaises, FilterReads,
              FilterWrites, FilterEnds, MergeStarts, MergeReads, MergeRaises, MergeCloses,
              MergeDeletes, MergeEnds, CutStarts, CutOpens, CutWrites, CutEnds, Killed, history
  <2> QED
    BY <2>1, <2>2
<1> QED
  BY <1>5, <1>6, <1>7, <1>8, <1>9, <1>10

(* The judge's invariant is needed for what stays settled. *)
AllInv == TypeOK /\ JudgeInv /\ CascadeInv

LEMMA CascadeStep == AllInv /\ [Next]_vars => AllInv'
<1> SUFFICES ASSUME AllInv, [Next]_vars PROVE TypeOK' /\ JudgeInv' /\ CascadeInv'
  BY DEF AllInv
<1>1. TypeOK /\ JudgeInv /\ CascadeInv /\ OrderInv /\ SettledInv /\ FileInv
  BY DEF AllInv, CascadeInv, OrderInv
<1>2. [JudgeNext]_judgeVars
  BY JudgeOrCascade
<1>3. JudgeInv' /\ JudgeTypeOK'
  BY <1>1, <1>2, JudgeTypeStep, WriteStep, EarnedStep, FlagStep DEF JudgeInv
<1>4. CASE JudgeNext /\ UNCHANGED cascadeVars
  <2>1. CascadeInv'
    BY <1>1, <1>4, JudgeKeeps
  <2>2. TypeOK'
    BY <1>1, <1>3, <1>4 DEF TypeOK, cascadeVars, files, history
  <2> QED
    BY <1>3, <2>1, <2>2
<1>5. CASE CascadeNext
  <2>1. TypeOK'
    BY <1>1, <1>3, <1>5, CascadeTypeStep DEF TypeOK
  <2>2. OrderInv'
    BY <1>1, <1>5, FilterKeeps, MergeKeeps, CutKeeps DEF CascadeNext
  <2>3. SettledInv'
    BY <1>1, <1>5, SettledCascade
  <2> QED
    BY <1>3, <2>1, <2>2, <2>3 DEF CascadeInv
<1>6. CASE UNCHANGED vars
  <2>1. UNCHANGED judgeVars /\ UNCHANGED cascadeVars
    BY <1>6 DEF vars
  <2>2. /\ filtered' = filtered /\ final' = final /\ nine' = nine /\ prog' = prog
        /\ reached' = reached /\ chosen' = chosen /\ settled' = settled /\ opened' = opened
    BY <2>1 DEF cascadeVars, files, history, judgeVars
  <2>3. TypeOK'
    BY <1>1, <1>3, <2>2 DEF TypeOK
  <2>4. SettledInv'
    BY <1>1, <1>2, <2>1, SettledJudge
  <2>5. FileInv' /\ FilterInv'
    BY <1>1, <2>2 DEF OrderInv, FileInv, FilterInv, Right, Exists, Whole, FileOf
  <2>6. MergeInv'
    BY <1>1, <2>2, RowsStay DEF OrderInv, MergeInv, AllRight, Right, Exists, FileOf
  <2>7. CutInv'
    BY <1>1, <2>2, SharesStay DEF OrderInv, CutInv, Whole, FileOf
  <2> QED
    BY <1>3, <2>3, <2>4, <2>5, <2>6, <2>7 DEF CascadeInv, OrderInv
<1> QED
  BY <1>4, <1>5, <1>6, JudgeOrCascade

LEMMA CascadeInvariance == Spec => []AllInv
<1>1. Init => AllInv
  BY InitCascade, InitJudgeInv DEF Init, AllInv
<1> QED
  BY <1>1, CascadeStep, PTL DEF Spec

(* The variables keep their types. *)
THEOREM CascadeTypeCorrect == Spec => []TypeOK
<1>1. AllInv => TypeOK
  BY DEF AllInv
<1> QED
  BY <1>1, CascadeInvariance, PTL

(* The judge of the cascade is the judge on its own: what JudgeSpec        *)
(* promises of run_verify.py's flag holds whatever the later programs do.  *)
THEOREM JudgeRunsFreely == Spec => JudgeSpec
<1>1. Init => JudgeInit
  BY DEF Init
<1>2. [Next]_vars => [JudgeNext]_judgeVars
  BY JudgeOrCascade
<1> QED
  BY <1>1, <1>2, PTL DEF Spec, JudgeSpec

(* What filter_parquet_by_verify.py selects of a split when its flag is    *)
(* there and no judge job is left is final, and is taken from a verify     *)
(* file without a torn line, however jobs and earlier filters overlapped.  *)
THEOREM DoneSplitIsFinalHolds == Spec => []DoneSplitIsFinal
<1>1. AllInv => DoneSplitIsFinal
  BY DEF AllInv, CascadeInv, SettledInv, Settles, DoneSplitIsFinal
<1> QED
  BY <1>1, CascadeInvariance, PTL

(* From the time the filter has ended well every row it has selected is in *)
(* a whole file, whichever of the programs is killed and started again.    *)
THEOREM RowsSurviveHolds == Spec => []RowsSurvive
<1>1. AllInv => RowsSurvive
  BY DEF AllInv, CascadeInv, OrderInv, MergeInv, RowsSurvive, AllRight, Right
<1> QED
  BY <1>1, CascadeInvariance, PTL

(* Filtered, merged and cut, the splits of the 9B stage hold the selected  *)
(* rows once each and in order, for every number of rows and of splits.    *)
THEOREM NineInOrderHolds == Spec => []NineInOrder
<1>1. AllInv => NineInOrder
  <2> SUFFICES ASSUME AllInv, reached = "cut"
               PROVE  /\ \A i \in Nine : Whole(nine[i])
                      /\ Joined([i \in Nine |-> nine[i].rows], NumNine) = ChosenRows
    BY DEF NineInOrder
  <2>1. final = FileOf(ChosenRows) /\ \A i \in Nine : nine[i] = FileOf(Share(i))
    BY DEF AllInv, CascadeInv, OrderInv, MergeInv, CutInv
  <2>2. \A i \in Nine : Whole(nine[i]) /\ [j \in Nine |-> nine[j].rows][i] = Share(i)
    BY <2>1, Files
  <2>3. final \in Parquet /\ final.rows = ChosenRows
    BY <2>1, Files DEF AllInv, TypeOK
  <2>4. Joined([i \in Nine |-> nine[i].rows], NumNine) = ChosenRows
    BY <2>2, <2>3, SharesJoin
  <2> QED
    BY <2>2, <2>4
<1> QED
  BY <1>1, CascadeInvariance, PTL
=============================================================================
