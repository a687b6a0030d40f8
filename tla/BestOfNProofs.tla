----------------------------- MODULE BestOfNProofs -----------------------------
(* Proofs about BestOfN, for every number of splits, shards, ids, rollouts *)
(* and jobs.                                                               *)
EXTENDS BestOfN, FiniteSetTheorems, TLAPS

(* The rows of a shard are of samples of its splits, and nothing touches   *)
(* the shards that the configuration does not use.                         *)
RowFrom(h, row) == \E p \in Samples(h) : row[1] = SampleAt(p)

JobFrom(r) ==
    /\ r.pc # "free" => /\ r.shard < input.num_shards /\ r.todo \subseteq Samples(r.shard)
                        /\ \A p \in r.todo : SampleAt(p) \in DOMAIN input.rollouts
    /\ r.pc = "write" => r.row \in Ids \X RolloutIds /\ RowFrom(r.shard, r.row)

SourceInv ==
    /\ \A h \in Shards : \A row \in shard[h].keys : RowFrom(h, row)
    /\ \A h \in Shards : h >= input.num_shards => shard[h] = F!FileWith({})
    /\ \A j \in Jobs : JobFrom(job[j])

(* What a program that was started over spoiled shards has yet to read: a  *)
(* bad line, or a row whose id another row has, read already or not.       *)
Unread == {h \in Shards : prog.at <= h /\ h < input.num_shards}
RowsSeen(h) == IF h < prog.at THEN prog.rows ELSE shard[h].keys
Trap ==
    \/ \E h \in Unread : BadLine(h)
    \/ \E g \in Unread, h \in Shards :
          /\ h < input.num_shards
          /\ \E a \in shard[g].keys, b \in RowsSeen(h) : a[1] = b[1] /\ (g # h \/ a # b)

DoomInv == prog.doomed => prog.step # "write" /\ (prog.step = "load" => Trap)

IInv == TypeOK /\ SourceInv /\ FlagMeansScored /\ DoomInv

-----------------------------------------------------------------------------
(* If what is recorded (E) comes from some of the rows (G) and is as much  *)
(* as all the rows (S), then it comes from all of them, and what each of   *)
(* them records (f) is there.                                              *)
LEMMA CountIsEnough ==
    ASSUME NEW S, IsFiniteSet(S), NEW f, NEW G \in SUBSET S,
           NEW E, \A e \in E : \E x \in G : e = f[x], Cardinality(E) >= Cardinality(S)
    PROVE  G = S /\ \A x \in S : f[x] \in E
<1> DEFINE T == {f[x] : x \in G}
           g == [x \in G |-> f[x]]
<1>0. E \subseteq T
  OBVIOUS
<1>1. IsFiniteSet(G) /\ Cardinality(G) <= Cardinality(S) /\ (Cardinality(G) = Cardinality(S) => G = S)
  BY FS_Subset
<1>2. g \in Surjection(G, T)
  BY DEF Surjection
<1>3. IsFiniteSet(T) /\ Cardinality(T) <= Cardinality(G)
  BY <1>1, <1>2, FS_Surjection
<1>4. IsFiniteSet(E) /\ Cardinality(E) <= Cardinality(T) /\ (Cardinality(E) = Cardinality(T) => E = T)
  BY <1>0, <1>3, FS_Subset
<1>5. /\ Cardinality(S) \in Nat /\ Cardinality(G) \in Nat
      /\ Cardinality(T) \in Nat /\ Cardinality(E) \in Nat
  BY <1>1, <1>3, <1>4, FS_CardinalityType
<1> QED
  BY <1>1, <1>3, <1>4, <1>5

LEMMA InputFacts ==
    ASSUME TypeOK
    PROVE  /\ input.num_shards \in Nat \ {0} /\ input.num_shards <= MaxShards /\ MaxShards \in Nat
           /\ input.source \in [Splits -> Seq(Ids)]
           /\ DOMAIN input.rollouts \subseteq Ids
           /\ \A x \in DOMAIN input.rollouts : input.rollouts[x] \subseteq RolloutIds
           /\ Splits \subseteq Nat /\ Shards \subseteq Nat /\ Shards = 0 .. MaxShards - 1
  BY BestOfNAssumption DEF BestOfNAssumption, TypeOK, Splits, Shards

LEMMA SamplesFacts ==
    ASSUME TypeOK, NEW h \in Shards
    PROVE  /\ Samples(h) \subseteq Splits \X Nat /\ IsFiniteSet(Samples(h))
           /\ \A p \in Samples(h) : SampleAt(p) \in Ids
<1> DEFINE Places(s) == {s} \X DOMAIN input.source[s]
           All == {Places(s) : s \in numeric_split_paths(h)}
<1>1. Samples(h) = UNION All
  BY DEF Samples
<1>2. \A s \in Splits : DOMAIN input.source[s] = 1 .. Len(input.source[s]) /\ Len(input.source[s]) \in Nat
  BY InputFacts
<1>3. numeric_split_paths(h) \subseteq Splits /\ IsFiniteSet(numeric_split_paths(h))
  <2>1. IsFiniteSet(Splits)
    BY BestOfNAssumption, FS_Interval DEF BestOfNAssumption, Splits
  <2> QED
    BY <2>1, FS_Subset DEF numeric_split_paths
<1>4. \A s \in numeric_split_paths(h) : Places(s) \subseteq Splits \X Nat
  BY <1>2, <1>3
<1>5. \A s \in numeric_split_paths(h) : IsFiniteSet(Places(s))
  <2> SUFFICES ASSUME NEW s \in numeric_split_paths(h) PROVE IsFiniteSet(Places(s))
    OBVIOUS
  <2>1. IsFiniteSet(DOMAIN input.source[s])
    <3> DEFINE n == Len(input.source[s])
    <3>1. DOMAIN input.source[s] = 1 .. n /\ n \in Nat
      BY <1>2, <1>3
    <3> HIDE DEF n
    <3> QED
      BY <3>1, FS_Interval
  <2>2. IsFiniteSet({s})
    BY FS_Singleton
  <2> QED
    BY <2>1, <2>2, FS_Product
<1>6. IsFiniteSet(All)
  <2> DEFINE f == [s \in numeric_split_paths(h) |-> Places(s)]
  <2>1. f \in Surjection(numeric_split_paths(h), All)
    BY DEF Surjection
  <2> QED
    BY <1>3, <2>1, FS_Surjection
<1>7. IsFiniteSet(UNION All)
  <2>1. \A T \in All : IsFiniteSet(T)
    BY <1>5
  <2> QED
    BY <1>6, <2>1, FS_UNION
<1>8. \A p \in Samples(h) : SampleAt(p) \in Ids
  <2> SUFFICES ASSUME NEW p \in Samples(h) PROVE SampleAt(p) \in Ids
    OBVIOUS
  <2>1. PICK s \in numeric_split_paths(h) : p \in Places(s)
    BY <1>1
  <2>2. p[1] \in Splits /\ p[2] \in DOMAIN input.source[p[1]]
    BY <1>3, <2>1
  <2> QED
    BY <2>2, InputFacts DEF SampleAt
<1> QED
  BY <1>1, <1>4, <1>7, <1>8

(* Appending keeps a shard well formed and forgets neither rows nor bad    *)
(* lines.                                                                  *)
Keeps(f, g) ==
    /\ g \in F!File /\ f.keys \subseteq g.keys
    /\ (f.junk \/ f.tail = "torn" \/ f.repeated # {}) => (g.junk \/ g.tail = "torn" \/ g.repeated # {})

LEMMA FileOperators ==
    ASSUME NEW f \in F!File, NEW j \in Jobs, NEW c \in BOOLEAN
    PROVE  /\ Keeps(f, F!BeginLine(f, j, c)) /\ F!BeginLine(f, j, c).keys = f.keys
           /\ Keeps(f, F!Abandon(f, j)) /\ F!Abandon(f, j).keys = f.keys
<1> USE DEF F!File, Keeps
<1>1. Keeps(f, F!BeginLine(f, j, c)) /\ F!BeginLine(f, j, c).keys = f.keys
  <2> DEFINE g == F!BeginLine(f, j, c)
             tail == IF f.tail = "clean" THEN j ELSE "torn"
             cut == IF c THEN j ELSE "none"
             garbled == f.garbled \/ f.cut # "none"
  <2>1. g = [f EXCEPT !.tail = tail, !.cut = cut, !.garbled = garbled]
    BY DEF F!BeginLine
  <2>2. /\ tail \in Jobs \cup {"clean", "torn"} /\ cut \in Jobs \cup {"none", "torn"}
        /\ garbled \in BOOLEAN /\ (f.tail = "torn" => tail = "torn")
    OBVIOUS
  <2> HIDE DEF tail, cut, garbled
  <2>3. g \in F!File /\ g.keys = f.keys /\ g.repeated = f.repeated /\ g.junk = f.junk /\ g.tail = tail
    BY <2>1, <2>2
  <2> QED
    BY <2>2, <2>3
<1>2. Keeps(f, F!Abandon(f, j)) /\ F!Abandon(f, j).keys = f.keys
  BY DEF F!Abandon
<1> QED
  BY <1>1, <1>2

LEMMA EndedFile ==
    ASSUME NEW f \in F!File, NEW j \in Jobs, NEW k \in Ids \X RolloutIds
    PROVE  Keeps(f, F!EndLine(f, j, k)) /\ F!EndLine(f, j, k).keys \subseteq f.keys \cup {k}
<1> DEFINE g == F!EndLine(f, j, k)
<1>1. j # "torn"
  BY BestOfNAssumption DEF BestOfNAssumption
<1>2. /\ g.keys \subseteq Ids \X RolloutIds /\ g.repeated \subseteq Ids \X RolloutIds
      /\ g.tail = "clean" /\ g.cut = "none" /\ g.junk \in BOOLEAN /\ g.garbled \in BOOLEAN
  BY DEF F!EndLine, F!File
<1>3. /\ f.keys \subseteq g.keys /\ g.keys \subseteq f.keys \cup {k} /\ f.repeated \subseteq g.repeated
      /\ f.junk \/ f.tail = "torn" => g.junk
  BY <1>1 DEF F!EndLine
<1>4. g = [keys |-> g.keys, repeated |-> g.repeated, tail |-> g.tail,
           cut |-> g.cut, junk |-> g.junk, garbled |-> g.garbled]
  BY DEF F!EndLine
<1> HIDE DEF g
<1>5. g \in F!File
  BY <1>2, <1>4 DEF F!File
<1>6. Keeps(f, g) /\ g.keys \subseteq f.keys \cup {k}
  BY <1>3, <1>5 DEF Keeps
<1> QED
  BY <1>6 DEF g

-----------------------------------------------------------------------------
LEMMA InitIInv == Init => IInv
<1> SUFFICES ASSUME Init PROVE IInv
  OBVIOUS
<1> USE DEF Init
<1>1. TypeOK
  BY BestOfNAssumption DEF BestOfNAssumption, TypeOK, F!FileWith, F!File, NoJob, Idle, Shards
<1>2. SourceInv
  BY DEF SourceInv, JobFrom, F!FileWith, NoJob
<1> QED
  BY <1>1, <1>2 DEF IInv, FlagMeansScored, DoomInv, Idle

(* A row that a job begins or ends is of its shard. *)
LEMMA RowFacts ==
    ASSUME TypeOK, SourceInv, NEW j \in Jobs, job[j].pc # "free", NEW p \in job[j].todo
    PROVE  /\ job[j].shard \in Shards /\ p \in Samples(job[j].shard) /\ SampleAt(p) \in Ids
           /\ input.rollouts[SampleAt(p)] \subseteq RolloutIds
<1>1. /\ job[j].shard \in Shards /\ p \in Samples(job[j].shard)
      /\ SampleAt(p) \in DOMAIN input.rollouts
  BY DEF TypeOK, SourceInv, JobFrom
<1> QED
  BY <1>1, SamplesFacts, InputFacts

LEMMA UnusedShard ==
    ASSUME TypeOK, SourceInv, NEW j \in Jobs, job[j].pc # "free", NEW h \in Shards, h >= input.num_shards
    PROVE  h # job[j].shard
<1>1. job[j].shard \in Shards /\ job[j].shard < input.num_shards
  BY DEF TypeOK, SourceInv, JobFrom
<1> QED
  BY <1>1, InputFacts

LEMMA JobStep ==
    ASSUME TypeOK, SourceInv, [Next]_vars
    PROVE  /\ input' = input
           /\ \A h \in Shards : Keeps(shard[h], shard'[h])
           /\ shard' \in [Shards -> F!File]
<1> USE DEF TypeOK, jobVars, progVars
<1>0. Cuts \subseteq BOOLEAN
  BY DEF Cuts
<1>k. ASSUME NEW j \in Jobs, NEW f, Keeps(shard[job[j].shard], f), shard' = [shard EXCEPT ![job[j].shard] = f]
      PROVE  shard' \in [Shards -> F!File] /\ \A h \in Shards : Keeps(shard[h], shard'[h])
  BY <1>k DEF Keeps
<1>1. ASSUME NEW j \in Jobs, NEW p \in job[j].todo, Select(j, p)
      PROVE  shard' \in [Shards -> F!File] /\ \A h \in Shards : Keeps(shard[h], shard'[h])
  <2>1. PICK c \in Cuts : shard' = [shard EXCEPT ![job[j].shard] = F!BeginLine(@, j, c)]
    BY <1>1 DEF Select
  <2>2. Keeps(shard[job[j].shard], F!BeginLine(shard[job[j].shard], j, c))
    BY <1>0, FileOperators
  <2> QED
    BY <1>k, <2>1, <2>2
<1>2. ASSUME NEW j \in Jobs, EndRow(j)
      PROVE  shard' \in [Shards -> F!File] /\ \A h \in Shards : Keeps(shard[h], shard'[h])
  <2>1. shard' = [shard EXCEPT ![job[j].shard] = F!EndLine(@, j, job[j].row)]
    BY <1>2 DEF EndRow
  <2>2. job[j].row \in Ids \X RolloutIds
    BY <1>2 DEF EndRow, SourceInv, JobFrom
  <2>3. Keeps(shard[job[j].shard], F!EndLine(shard[job[j].shard], j, job[j].row))
    BY <2>2, EndedFile
  <2> QED
    BY <1>k, <2>1, <2>3
<1>3. ASSUME NEW j \in Jobs, JobKilled(j)
      PROVE  shard' \in [Shards -> F!File] /\ \A h \in Shards : Keeps(shard[h], shard'[h])
  <2>1. Keeps(shard[job[j].shard], F!Abandon(shard[job[j].shard], j))
    BY FileOperators
  <2> QED
    BY <1>k, <1>3, <2>1 DEF JobKilled
<1>4. ASSUME shard' = shard
      PROVE  shard' \in [Shards -> F!File] /\ \A h \in Shards : Keeps(shard[h], shard'[h])
  BY <1>4 DEF Keeps
<1>5. input' = input
  BY DEF Next, vars, NothingLeft, Start, Select, EndRow, Fail, Finish, JobKilled, Run, LoadShard, WriteSplit, Ends
<1>6. \/ shard' = shard
      \/ \E j \in Jobs : EndRow(j) \/ JobKilled(j) \/ \E p \in job[j].todo : Select(j, p)
  BY DEF Next, vars, NothingLeft, Start, Fail, Finish, Run, LoadShard, WriteSplit, Ends
<1> QED
  BY <1>1, <1>2, <1>3, <1>4, <1>5, <1>6

JobType ==
    [pc : {"free", "score", "write"}, shard : Shards, todo : SUBSET (Splits \X Nat),
     failed : BOOLEAN, row : (Ids \X RolloutIds) \cup {<<>>}]

(* Where the rows of a shard come from, and what jobs may hold.            *)
LEMMA SourceStep ==
    ASSUME TypeOK, SourceInv, [Next]_vars
    PROVE  SourceInv'
<1> USE DEF jobVars, progVars
<1>t. job \in [Jobs -> JobType] /\ shard \in [Shards -> F!File] /\ Cuts \subseteq BOOLEAN
  BY DEF TypeOK, JobType, Cuts
<1>f. \A j \in Jobs : JobFrom(job[j]) /\ job[j].shard \in Shards
  BY <1>t DEF SourceInv, JobType
(* It is enough to look at the shards and the jobs that changed.           *)
<1>q. ASSUME \A h \in Shards : \A row \in shard'[h].keys : RowFrom(h, row),
             \A h \in Shards : h >= input.num_shards => shard'[h] = shard[h],
             \A j \in Jobs : JobFrom(job'[j])
      PROVE  SourceInv'
  <2>1. input' = input
    BY JobStep
  <2>2. (\A h \in Shards : \A row \in shard[h].keys : RowFrom(h, row))'
    BY <1>q, <2>1 DEF RowFrom, Samples, numeric_split_paths, SampleAt
  <2>3. (\A h \in Shards : h >= input.num_shards => shard[h] = F!FileWith({}))'
    BY <1>q, <2>1 DEF SourceInv
  <2>4. (\A j \in Jobs : JobFrom(job[j]))'
    BY <1>q, <2>1 DEF JobFrom, RowFrom, Samples, numeric_split_paths, SampleAt
  <2> QED
    BY <2>2, <2>3, <2>4 DEF SourceInv
<1>1. ASSUME NEW j \in Jobs, NEW p \in job[j].todo, Select(j, p) PROVE SourceInv'
  <2>1. PICK r \in input.rollouts[SampleAt(p)] :
            job' = [job EXCEPT ![j].pc = "write", ![j].todo = @ \ {p}, ![j].row = <<SampleAt(p), r>>]
    BY <1>1 DEF Select
  <2>2. PICK c \in Cuts : shard' = [shard EXCEPT ![job[j].shard] = F!BeginLine(@, j, c)]
    BY <1>1 DEF Select
  <2>3. job[j].pc = "score"
    BY <1>1 DEF Select
  <2>4. <<SampleAt(p), r>> \in Ids \X RolloutIds /\ RowFrom(job[j].shard, <<SampleAt(p), r>>)
    BY <2>3, RowFacts DEF RowFrom
  <2>5. \A h \in Shards : shard'[h].keys = shard[h].keys
    BY <1>t, <1>f, <2>2, FileOperators
  <2>6. \A h \in Shards : h >= input.num_shards => shard'[h] = shard[h]
    BY <1>t, <1>f, <2>2, <2>3, UnusedShard
  <2>7. JobFrom(job'[j]) /\ \A i \in Jobs \ {j} : job'[i] = job[i]
    <3>1. /\ job'[j].shard = job[j].shard /\ job'[j].todo \subseteq job[j].todo
          /\ job'[j].row = <<SampleAt(p), r>> /\ \A i \in Jobs \ {j} : job'[i] = job[i]
      BY <1>t, <2>1 DEF JobType
    <3> QED
      BY <1>f, <2>3, <2>4, <3>1 DEF JobFrom
  <2> QED
    BY <1>f, <1>q, <2>5, <2>6, <2>7 DEF SourceInv
<1>2. ASSUME NEW j \in Jobs, EndRow(j) PROVE SourceInv'
  <2>1. shard' = [shard EXCEPT ![job[j].shard] = F!EndLine(@, j, job[j].row)]
    BY <1>2 DEF EndRow
  <2>2. job[j].pc = "write" /\ job[j].row \in Ids \X RolloutIds /\ RowFrom(job[j].shard, job[j].row)
    BY <1>2, <1>f DEF EndRow, JobFrom
  <2>3. \A h \in Shards : \A row \in shard'[h].keys : row \in shard[h].keys \/ (h = job[j].shard /\ row = job[j].row)
    <3>1. F!EndLine(shard[job[j].shard], j, job[j].row).keys \subseteq shard[job[j].shard].keys \cup {job[j].row}
      BY <1>t, <1>f, <2>2, EndedFile
    <3> QED
      BY <1>t, <1>f, <2>1, <3>1
  <2>4. \A h \in Shards : h >= input.num_shards => shard'[h] = shard[h]
    BY <1>t, <1>f, <2>1, <2>2, UnusedShard
  <2>5. JobFrom(job'[j]) /\ \A i \in Jobs \ {j} : job'[i] = job[i]
    <3>1. /\ job'[j].shard = job[j].shard /\ job'[j].todo = job[j].todo /\ job'[j].pc = "score"
          /\ \A i \in Jobs \ {j} : job'[i] = job[i]
      BY <1>t, <1>2 DEF EndRow, JobType
    <3> QED
      BY <1>f, <2>2, <3>1 DEF JobFrom
  <2> QED
    BY <1>f, <1>q, <2>2, <2>3, <2>4, <2>5 DEF SourceInv
<1>3. ASSUME NEW j \in Jobs, JobKilled(j) PROVE SourceInv'
  <2>1. /\ job[j].pc # "free" /\ job' = [job EXCEPT ![j] = NoJob]
        /\ shard' = [shard EXCEPT ![job[j].shard] = F!Abandon(@, j)]
    BY <1>3 DEF JobKilled
  <2>2. F!Abandon(shard[job[j].shard], j).keys = shard[job[j].shard].keys
    BY <1>t, <1>f, FileOperators
  <2>3. \A h \in Shards : shard'[h].keys = shard[h].keys
    BY <1>t, <2>1, <2>2
  <2>4. \A h \in Shards : h >= input.num_shards => shard'[h] = shard[h]
    BY <1>t, <2>1, UnusedShard
  <2>5. \A i \in Jobs : job'[i] = job[i] \/ job'[i] = NoJob
    BY <1>t, <2>1
  <2> QED
    BY <1>f, <1>q, <2>3, <2>4, <2>5 DEF SourceInv, JobFrom, NoJob
<1>4. ASSUME shard' = shard,
             \A i \in Jobs : \/ job'[i] \in {job[i], NoJob}
                            \/ /\ job'[i].pc \in {"score", job[i].pc} /\ job'[i].shard < input.num_shards
                               /\ job'[i].todo \subseteq Samples(job'[i].shard)
                               /\ \A p \in job'[i].todo : SampleAt(p) \in DOMAIN input.rollouts
                               /\ job'[i].pc # "write"
      PROVE  SourceInv'
  <2>1. \A i \in Jobs : JobFrom(job'[i])
    BY <1>f, <1>4 DEF JobFrom, NoJob
  <2> QED
    BY <1>q, <1>4, <2>1 DEF SourceInv
<1>5. ASSUME NEW j \in Jobs, NEW h \in Shards, Start(j, h) PROVE SourceInv'
  <2>1. /\ shard' = shard /\ h < input.num_shards /\ Work(h) \subseteq Samples(h)
        /\ \A p \in Work(h) : SampleAt(p) \in DOMAIN input.rollouts
        /\ job' = [job EXCEPT ![j] = [NoJob EXCEPT !.pc = "score", !.shard = h, !.todo = Work(h)]]
    BY <1>5 DEF Start, Starts, Work
  <2>2. /\ \A i \in Jobs \ {j} : job'[i] = job[i]
        /\ job'[j].pc = "score" /\ job'[j].shard = h /\ job'[j].todo = Work(h)
    BY <1>t, <2>1 DEF NoJob
  <2> QED
    BY <1>4, <2>1, <2>2
<1>6. ASSUME NEW j \in Jobs, NEW p \in job[j].todo, Fail(j, p) PROVE SourceInv'
  <2>1. shard' = shard /\ job[j].pc = "score" /\ job' = [job EXCEPT ![j].todo = @ \ {p}, ![j].failed = TRUE]
    BY <1>6 DEF Fail
  <2>2. /\ \A i \in Jobs \ {j} : job'[i] = job[i]
        /\ job'[j].pc = "score" /\ job'[j].shard = job[j].shard /\ job'[j].todo \subseteq job[j].todo
    BY <1>t, <2>1 DEF JobType
  <2> QED
    BY <1>4, <1>f, <2>1, <2>2 DEF JobFrom
<1>7. ASSUME NEW j \in Jobs, Finish(j) PROVE SourceInv'
  BY <1>t, <1>4, <1>7 DEF Finish
<1>8. CASE shard' = shard /\ job' = job
  BY <1>4, <1>8
<1>9. \/ shard' = shard /\ job' = job
      \/ \E j \in Jobs : \/ EndRow(j) \/ JobKilled(j) \/ Finish(j) \/ \E h \in Shards : Start(j, h)
                        \/ \E p \in job[j].todo : Select(j, p) \/ Fail(j, p)
  BY DEF Next, vars, NothingLeft, Run, LoadShard, WriteSplit, Ends
<1> QED
  BY <1>1, <1>2, <1>3, <1>5, <1>6, <1>7, <1>8, <1>9

-----------------------------------------------------------------------------
-----------------------------------------------------------------------------
LEMMA JobTypeStep ==
    ASSUME TypeOK, SourceInv, [Next]_vars
    PROVE  job' \in [Jobs -> JobType]
<1>0. job \in [Jobs -> JobType]
  BY DEF TypeOK, JobType
<1>1. ASSUME NEW j \in Jobs, NEW p \in job[j].todo, Select(j, p) PROVE job' \in [Jobs -> JobType]
  <2>1. PICK r \in input.rollouts[SampleAt(p)] :
            job' = [job EXCEPT ![j].pc = "write", ![j].todo = @ \ {p}, ![j].row = <<SampleAt(p), r>>]
    BY <1>1 DEF Select
  <2>2. <<SampleAt(p), r>> \in Ids \X RolloutIds
    <3>1. job[j].pc # "free"
      BY <1>1 DEF Select
    <3> QED
      BY <3>1, RowFacts
  <2>3. [job[j] EXCEPT !.pc = "write", !.todo = @ \ {p}, !.row = <<SampleAt(p), r>>] \in JobType
    <3> DEFINE todo == job[j].todo \ {p}
               row == <<SampleAt(p), r>>
    <3>1. todo \in SUBSET (Splits \X Nat) /\ job[j] \in JobType
      BY <1>0 DEF JobType
    <3>2. row \in (Ids \X RolloutIds) \cup {<<>>}
      BY <2>2
    <3> HIDE DEF todo, row
    <3>3. [job[j] EXCEPT !.pc = "write", !.todo = todo, !.row = row] \in JobType
      BY <3>1, <3>2 DEF JobType
    <3> QED
      BY <3>3 DEF todo, row
  <2> QED
    BY <1>0, <2>1, <2>3
<1>2. ASSUME NEW j \in Jobs, EndRow(j) PROVE job' \in [Jobs -> JobType]
  <2>1. [job[j] EXCEPT !.pc = "score", !.row = <<>>] \in JobType
    BY <1>0 DEF JobType
  <2> QED
    BY <1>0, <1>2, <2>1 DEF EndRow
<1>3. ASSUME NEW j \in Jobs, NEW p \in job[j].todo, Fail(j, p) PROVE job' \in [Jobs -> JobType]
  <2>1. [job[j] EXCEPT !.todo = @ \ {p}, !.failed = TRUE] \in JobType
    BY <1>0 DEF JobType
  <2> QED
    BY <1>0, <1>3, <2>1 DEF Fail
<1>4. ASSUME NEW j \in Jobs, NEW h \in Shards, Start(j, h) PROVE job' \in [Jobs -> JobType]
  <2>1. Work(h) \subseteq Splits \X Nat
    BY SamplesFacts DEF Work
  <2> QED
    BY <1>0, <1>4, <2>1 DEF Start, NoJob, JobType
<1>5. ASSUME NEW j \in Jobs, Finish(j) \/ JobKilled(j) PROVE job' \in [Jobs -> JobType]
  <2>1. 0 \in Shards
    BY BestOfNAssumption DEF BestOfNAssumption, Shards
  <2> QED
    <3>1. NoJob \in JobType
      BY <2>1 DEF NoJob, JobType
    <3> QED
      BY <1>0, <1>5, <3>1 DEF Finish, JobKilled
<1>6. \/ job' = job
      \/ \E j \in Jobs : \/ EndRow(j) \/ Finish(j) \/ JobKilled(j) \/ \E h \in Shards : Start(j, h)
                        \/ \E p \in job[j].todo : Select(j, p) \/ Fail(j, p)
  BY DEF Next, vars, jobVars, progVars, NothingLeft, Run, LoadShard, WriteSplit, Ends
<1> QED
  BY <1>0, <1>1, <1>2, <1>3, <1>4, <1>5, <1>6

LEMMA FileTypeStep ==
    ASSUME TypeOK, SourceInv, [Next]_vars
    PROVE  file' \in [Programs -> [Splits -> Seq(Ids \X RolloutIds)]]
<1> DEFINE s == prog.at
           content == [i \in DOMAIN input.source[s] |-> RowOf(input.source[s][i])]
<1>1. CASE WriteSplit
  <2>1. s \in Splits /\ SplitIds(s) \subseteq IdsOf(prog.rows) /\ prog.rows \subseteq Ids \X RolloutIds
    BY <1>1, BestOfNAssumption DEF BestOfNAssumption, WriteSplit, MayWrite, Splits, TypeOK
  <2>2. \A id \in IdsOf(prog.rows) : RowOf(id) \in prog.rows
    BY DEF RowOf, IdsOf
  <2>3. input.source[s] \in Seq(Ids)
    BY <2>1, InputFacts
  <2>4. \A i \in DOMAIN input.source[s] : RowOf(input.source[s][i]) \in Ids \X RolloutIds
    <3> SUFFICES ASSUME NEW i \in DOMAIN input.source[s]
                 PROVE  RowOf(input.source[s][i]) \in Ids \X RolloutIds
      OBVIOUS
    <3>1. input.source[s][i] \in SplitIds(s)
      BY DEF SplitIds, ToSet
    <3> QED
      BY <2>1, <2>2, <3>1
  <2>5. content \in Seq(Ids \X RolloutIds)
    <3> DEFINE n == Len(input.source[s])
    <3>1. DOMAIN input.source[s] = 1 .. n /\ n \in Nat
      BY <2>3
    <3>2. content \in [1 .. n -> Ids \X RolloutIds]
      BY <2>4, <3>1
    <3> HIDE DEF n, content
    <3> QED
      BY <3>1, <3>2
  <2>6. file' = [file EXCEPT ![prog.name][s] = content] /\ file \in [Programs -> [Splits -> Seq(Ids \X RolloutIds)]]
    BY <1>1 DEF WriteSplit, TypeOK
  <2> HIDE DEF content, s
  <2> QED
    BY <2>1, <2>5, <2>6
<1>2. file' = file \/ WriteSplit
  BY DEF Next, vars, jobVars, progVars, NothingLeft, Start, Select, EndRow, Fail, Finish, JobKilled, Run, LoadShard, Ends
<1> QED
  BY <1>1, <1>2 DEF TypeOK

ProgType ==
    [name : Programs \cup {"none"}, step : {"idle", "load", "write"}, at : Nat,
     rows : SUBSET (Ids \X RolloutIds), overwrite : BOOLEAN, doomed : BOOLEAN]

LEMMA ProgTypeStep ==
    ASSUME TypeOK, SourceInv, [Next]_vars
    PROVE  prog' \in ProgType
<1>0. prog \in ProgType
  BY DEF TypeOK, ProgType
<1>1. ASSUME NEW p \in Programs, NEW o \in BOOLEAN, Run(p, o) PROVE prog' \in ProgType
  <2>1. Spoiled \in BOOLEAN
    BY DEF Spoiled
  <2> QED
    BY <1>1, <2>1 DEF Run, Idle, ProgType
<1>2. CASE LoadShard
  <2>1. prog.at \in Shards
    BY <1>2 DEF LoadShard, Loads, TypeOK
  <2>2. prog.rows \cup shard[prog.at].keys \subseteq Ids \X RolloutIds
    BY <1>0, <2>1 DEF F!File, TypeOK, ProgType
  <2> DEFINE rows == prog.rows \cup shard[prog.at].keys
  <2>3. \/ prog' = [prog EXCEPT !.rows = rows, !.at = @ + 1]
        \/ prog' = [prog EXCEPT !.rows = rows, !.at = 0, !.step = "write"]
    BY <1>2 DEF LoadShard
  <2> HIDE DEF rows
  <2>4. rows \in SUBSET (Ids \X RolloutIds)
    BY <2>2 DEF rows
  <2>5. prog.at + 1 \in Nat
    BY <1>0 DEF ProgType
  <2>6. [prog EXCEPT !.rows = rows, !.at = @ + 1] \in ProgType
    BY <1>0, <2>4, <2>5 DEF ProgType
  <2>7. [prog EXCEPT !.rows = rows, !.at = 0, !.step = "write"] \in ProgType
    BY <1>0, <2>4 DEF ProgType
  <2> QED
    BY <2>3, <2>6, <2>7
<1>3. CASE WriteSplit
  BY <1>0, <1>3 DEF WriteSplit, ProgType
<1>4. CASE Ends
  BY <1>4 DEF Ends, Idle, ProgType
<1>5. \/ prog' = prog \/ LoadShard \/ WriteSplit \/ Ends
      \/ \E p \in Programs, o \in BOOLEAN : Run(p, o)
  BY DEF Next, vars, jobVars, progVars, NothingLeft, Start, Select, EndRow, Fail, Finish, JobKilled
<1> QED
  BY <1>0, <1>1, <1>2, <1>3, <1>4, <1>5

LEMMA TypeStep ==
    ASSUME TypeOK, SourceInv, [Next]_vars
    PROVE  TypeOK'
<1>1. flag' \in [Shards -> BOOLEAN] /\ made' \subseteq Shards
  <2>1. ASSUME NEW h \in Shards, NothingLeft(h) PROVE flag' \in [Shards -> BOOLEAN] /\ made' \subseteq Shards
    BY <2>1 DEF NothingLeft, TypeOK
  <2>2. ASSUME NEW j \in Jobs, Finish(j) PROVE flag' \in [Shards -> BOOLEAN] /\ made' \subseteq Shards
    <3>1. Complete(j, job[j].shard) \in BOOLEAN
      BY DEF Complete
    <3> QED
      BY <2>2, <3>1 DEF Finish, TypeOK
  <2>3. ASSUME NEW j \in Jobs, NEW h \in Shards, Start(j, h) PROVE flag' \in [Shards -> BOOLEAN] /\ made' \subseteq Shards
    BY <2>3 DEF Start, TypeOK
  <2>4. \/ flag' = flag /\ made' = made
        \/ \E h \in Shards : NothingLeft(h) \/ \E j \in Jobs : Start(j, h)
        \/ \E j \in Jobs : Finish(j)
    BY DEF Next, vars, jobVars, progVars, Select, EndRow, Fail, JobKilled, Run, LoadShard, WriteSplit, Ends
  <2> QED
    BY <2>1, <2>2, <2>3, <2>4 DEF TypeOK
<1> QED
  BY <1>1, JobStep, JobTypeStep, FileTypeStep, ProgTypeStep DEF TypeOK, JobType, ProgType

(* A shard's flag over the ids that it holds. *)
LEMMA FlagStep ==
    ASSUME TypeOK, SourceInv, FlagMeansScored, [Next]_vars
    PROVE  FlagMeansScored'
<1> DEFINE Scored(h) == \A p \in Samples(h) : SampleAt(p) \in load_existing_ids(h)
<1>1. \A h \in Shards : Scored(h) => Scored(h)'
  BY JobStep DEF Keeps, Samples, numeric_split_paths, SampleAt, load_existing_ids, IdsOf
<1>2. ASSUME NEW h \in Shards, NEW j \in Jobs, Complete(j, h) PROVE Scored(h)
  <2> DEFINE name == [p \in Samples(h) |-> SampleAt(p)]
  <2>1. \A e \in load_existing_ids(h) : \E p \in Samples(h) : e = name[p]
    BY DEF SourceInv, RowFrom, load_existing_ids, IdsOf
  <2>2. IsFiniteSet(Samples(h)) /\ Cardinality(load_existing_ids(h)) >= Cardinality(Samples(h))
    BY <1>2, SamplesFacts DEF Complete
  <2>3. \A p \in Samples(h) : name[p] \in load_existing_ids(h)
    <3> HIDE DEF name
    <3>1. Samples(h) \in SUBSET Samples(h)
      OBVIOUS
    <3> QED
      BY <2>1, <2>2, <3>1, CountIsEnough
  <2> QED
    BY <2>3
<1>3. ASSUME NEW h \in Shards, Work(h) = {} PROVE Scored(h)
  BY <1>3 DEF Work
<1>4. \A h \in Shards : flag'[h] => flag[h] \/ Work(h) = {} \/ \E j \in Jobs : Complete(j, h)
  <2>1. ASSUME NEW h \in Shards, NothingLeft(h)
        PROVE  \A g \in Shards : flag'[g] => flag[g] \/ Work(g) = {}
    BY <2>1 DEF NothingLeft, TypeOK
  <2>2. ASSUME NEW j \in Jobs, Finish(j)
        PROVE  \A g \in Shards : flag'[g] => flag[g] \/ Complete(j, g)
    BY <2>2 DEF Finish, TypeOK
  <2>3. flag' = flag \/ (\E h \in Shards : NothingLeft(h)) \/ (\E j \in Jobs : Finish(j))
    BY DEF Next, vars, jobVars, progVars, Start, Select, EndRow, Fail, JobKilled, Run, LoadShard, WriteSplit, Ends
  <2> QED
    BY <2>1, <2>2, <2>3
<1>5. \A h \in Shards : flag'[h] => Scored(h)'
  BY <1>1, <1>2, <1>3, <1>4 DEF FlagMeansScored
<1> QED
  BY <1>5 DEF FlagMeansScored

(* A program over spoiled shards meets what spoils them before it writes. *)
LEMMA SpoiledIsTrapped ==
    ASSUME TypeOK, SourceInv, Spoiled, prog'.at = 0, shard' = shard, input' = input
    PROVE  Trap'
<1>1. \A h \in Shards : h < input.num_shards \/ (shard[h].keys = {} /\ ~BadLine(h))
  BY InputFacts DEF SourceInv, BadLine, F!FileWith
<1>2. \A h \in Shards : h \in Unread' <=> h < input.num_shards
  BY InputFacts DEF Unread
<1>3. \A h \in Shards : RowsSeen(h)' = shard[h].keys
  BY InputFacts DEF RowsSeen
<1>4. \A h \in Shards : BadLine(h)' <=> BadLine(h)
  BY DEF BadLine
<1>5. ASSUME NEW h \in Shards, BadLine(h) PROVE Trap'
  BY <1>1, <1>2, <1>4, <1>5 DEF Trap
<1>6. ASSUME NEW g \in Shards, NEW h \in Shards, NEW a \in shard[g].keys, NEW b \in shard[h].keys,
             a[1] = b[1], <<g, a>> # <<h, b>>
      PROVE  Trap'
  <2>1. g \in Unread' /\ h < input.num_shards
    BY <1>1, <1>2, <1>6
  <2>2. b \in RowsSeen(h)' /\ (g # h \/ a # b)
    BY <1>3, <1>6
  <2> QED
    BY <1>6, <2>1, <2>2 DEF Trap
<1> QED
  BY <1>5, <1>6 DEF Spoiled

(* What jobs append leaves a trap where it is. *)
LEMMA TrapStays ==
    ASSUME TypeOK, SourceInv, [Next]_vars, Trap, prog' = prog
    PROVE  Trap'
<1>1. input' = input /\ \A h \in Shards : Keeps(shard[h], shard'[h])
  BY JobStep
<1>2. /\ Unread' = Unread /\ \A h \in Shards : BadLine(h) => BadLine(h)'
      /\ \A h \in Shards : RowsSeen(h) \subseteq RowsSeen(h)' /\ shard[h].keys \subseteq shard'[h].keys
  BY <1>1 DEF Unread, BadLine, Keeps, RowsSeen
<1>3. ASSUME NEW h \in Unread, BadLine(h) PROVE Trap'
  BY <1>2, <1>3 DEF Trap, Unread
<1>4. ASSUME NEW g \in Unread, NEW h \in Shards, h < input.num_shards,
             NEW a \in shard[g].keys, NEW b \in RowsSeen(h), a[1] = b[1], g # h \/ a # b
      PROVE  Trap'
  <2>1. g \in Unread' /\ a \in shard'[g].keys /\ b \in RowsSeen(h)' /\ h < input'.num_shards
    BY <1>1, <1>2, <1>4 DEF Unread
  <2> QED
    BY <1>4, <2>1 DEF Trap
<1> QED
  BY <1>3, <1>4 DEF Trap

(* A shard that loads is not the one with the trap, or leaves the trap to  *)
(* the other shard that it needs; so the last shard does not load.         *)
LEMMA TrapAhead ==
    ASSUME TypeOK, SourceInv, [Next]_vars, LoadShard, Trap
    PROVE  prog.at + 1 < input.num_shards /\ Trap'
<1> DEFINE rows == prog.rows \cup shard[prog.at].keys
<1>1. /\ prog.at \in Shards /\ Shards \subseteq Nat /\ input.num_shards \in Nat
      /\ Loads(prog.at, prog.rows) /\ input' = input /\ shard' = shard
  BY InputFacts DEF TypeOK, LoadShard, Loads, jobVars
<1>2. /\ ~BadLine(prog.at)
      /\ \A a, b \in prog.rows \cup shard[prog.at].keys : a[1] = b[1] => a = b
      /\ prog.rows \cap shard[prog.at].keys = {}
  BY <1>1 DEF Loads, BadLine, F!Malformed
<1>n. prog.at \in Nat /\ input.num_shards \in Nat /\ \A h \in Shards : h \in Nat
  BY <1>1
<1>r. /\ rows = prog.rows \cup shard[prog.at].keys
      /\ \A h \in Shards : RowsSeen(h) = IF h < prog.at THEN prog.rows ELSE shard[h].keys
  BY DEF RowsSeen
<1>3. prog.at + 1 < input.num_shards => prog'.at = prog.at + 1 /\ prog'.rows = rows
  BY DEF LoadShard, TypeOK
<1> HIDE DEF rows
<1>4. ASSUME NEW h \in Unread, BadLine(h) PROVE prog.at + 1 < input.num_shards /\ Trap'
  <2>1. h \in Shards /\ prog.at <= h /\ h < input.num_shards /\ h # prog.at
    BY <1>2, <1>4 DEF Unread
  <2>2. prog.at + 1 <= h /\ prog.at + 1 < input.num_shards
    BY <1>n, <2>1
  <2>3. prog'.at = prog.at + 1
    BY <1>3, <2>2
  <2>4. h \in Unread' /\ BadLine(h)'
    BY <1>1, <1>4, <2>1, <2>2, <2>3 DEF Unread, BadLine
  <2> QED
    BY <2>2, <2>4 DEF Trap
(* The trap is set by a row of g that is not read yet; after this step the *)
(* other row, of h, has been read or has not.                              *)
<1>5. ASSUME NEW g \in Shards, prog.at < g, g < input.num_shards, NEW h \in Shards, h < input.num_shards,
             NEW a \in shard[g].keys, NEW b, a[1] = b[1], g # h \/ a # b,
             b \in (IF h <= prog.at THEN rows ELSE shard[h].keys)
      PROVE  prog.at + 1 < input.num_shards /\ Trap'
  <2>1. prog.at + 1 <= g /\ prog.at + 1 < input.num_shards
    BY <1>n, <1>5
  <2>2. prog'.at = prog.at + 1 /\ prog'.rows = rows
    BY <1>3, <2>1
  <2>3. g \in Unread'
    BY <1>1, <1>5, <2>1, <2>2 DEF Unread
  <2>4. b \in RowsSeen(h)'
    <3>1. h < prog.at + 1 <=> h <= prog.at
      BY <1>n
    <3> QED
      BY <1>1, <1>5, <2>2, <3>1 DEF RowsSeen
  <2>5. a \in shard'[g].keys /\ h < input'.num_shards
    BY <1>1, <1>5
  <2> QED
    BY <1>5, <2>1, <2>3, <2>4, <2>5 DEF Trap
<1>6. ASSUME NEW g \in Unread, NEW h \in Shards, h < input.num_shards,
             NEW a \in shard[g].keys, NEW b \in RowsSeen(h), a[1] = b[1], g # h \/ a # b
      PROVE  prog.at + 1 < input.num_shards /\ Trap'
  <2>1. g \in Shards /\ prog.at <= g /\ g < input.num_shards
    BY <1>6 DEF Unread
  <2>2. CASE prog.at < g
    <3>1. h < prog.at \/ h = prog.at \/ prog.at < h
      BY <1>n
    <3>2. b \in (IF h <= prog.at THEN rows ELSE shard[h].keys)
      BY <1>n, <1>r, <1>6, <3>1
    <3> QED
      BY <1>5, <1>6, <2>1, <2>2, <3>2
  <2>3. CASE prog.at = g /\ h < prog.at
    <3>1. b \in prog.rows
      BY <2>3 DEF RowsSeen
    <3>2. a = b
      BY <1>2, <1>6, <2>3, <3>1
    <3> QED
      BY <1>2, <2>3, <3>1, <3>2
  <2>4. CASE prog.at = g /\ h = prog.at
    <3>1. b \in shard[prog.at].keys
      BY <1>1, <2>4 DEF RowsSeen
    <3> QED
      BY <1>2, <1>6, <2>4, <3>1
  <2>5. CASE prog.at = g /\ prog.at < h
    <3>1. b \in shard[h].keys
      BY <1>n, <1>r, <2>5
    <3>2. a \in (IF g <= prog.at THEN rows ELSE shard[g].keys) /\ b[1] = a[1] /\ (h # g \/ b # a)
      BY <1>n, <1>r, <1>6, <2>5
    <3> QED
      BY <1>5, <1>6, <2>1, <2>5, <3>1, <3>2
  <2>6. prog.at = g \/ prog.at < g
    BY <1>n, <2>1
  <2>7. h < prog.at \/ h = prog.at \/ prog.at < h
    BY <1>n
  <2> QED
    BY <2>2, <2>3, <2>4, <2>5, <2>6, <2>7
<1> QED
  BY <1>4, <1>6 DEF Trap

LEMMA DoomStep ==
    ASSUME TypeOK, SourceInv, DoomInv, [Next]_vars
    PROVE  DoomInv'
<1>1. ASSUME NEW p \in Programs, NEW o \in BOOLEAN, Run(p, o) PROVE DoomInv'
  <2>1. /\ prog'.step = "load" /\ prog'.at = 0 /\ prog'.doomed = Spoiled
        /\ shard' = shard /\ input' = input
    BY <1>1 DEF Run, Idle, jobVars
  <2> QED
    BY <2>1, SpoiledIsTrapped DEF DoomInv
<1>2. CASE LoadShard
  <2>1. CASE prog.doomed
    <3>1. Trap
      BY <1>2, <2>1 DEF DoomInv, LoadShard
    <3>2. prog.at + 1 < input.num_shards /\ Trap'
      BY <1>2, <3>1, TrapAhead
    <3>3. prog'.step = "load"
      BY <1>2, <3>2 DEF LoadShard, TypeOK
    <3> QED
      BY <3>2, <3>3 DEF DoomInv
  <2>2. CASE ~prog.doomed
    <3>1. prog'.doomed = prog.doomed
      BY <1>2 DEF LoadShard, TypeOK
    <3> QED
      BY <2>2, <3>1 DEF DoomInv
  <2> QED
    BY <2>1, <2>2
<1>3. CASE WriteSplit
  BY <1>3 DEF WriteSplit, DoomInv, TypeOK
<1>4. CASE Ends
  BY <1>4 DEF Ends, Idle, DoomInv
<1>5. CASE prog' = prog
  BY <1>5, TrapStays DEF DoomInv
<1>6. \/ prog' = prog \/ LoadShard \/ WriteSplit \/ Ends
      \/ \E p \in Programs, o \in BOOLEAN : Run(p, o)
  BY DEF Next, vars, jobVars, progVars, NothingLeft, Start, Select, EndRow, Fail, Finish, JobKilled
<1> QED
  BY <1>1, <1>2, <1>3, <1>4, <1>5, <1>6

LEMMA Invariance == Spec => []IInv
<1>1. IInv /\ [Next]_vars => IInv'
  BY TypeStep, SourceStep, FlagStep, DoomStep DEF IInv
<1> QED
  BY InitIInv, <1>1, PTL DEF Spec

-----------------------------------------------------------------------------
(* The variables keep their types. *)
THEOREM TypeCorrect == Spec => []TypeOK
<1>1. IInv => TypeOK
  BY DEF IInv
<1> QED
  BY Invariance, <1>1, PTL

(* The flag of a shard means that every sample of its splits has a row.    *)
THEOREM FlagMeansScoredHolds == Spec => []FlagMeansScored
<1>1. IInv => FlagMeansScored
  BY DEF IInv
<1> QED
  BY Invariance, <1>1, PTL

(* No program that is started over a spoiled shard ever writes.            *)
THEOREM SpoiledNeverMergesHolds == Spec => []SpoiledNeverMerges
<1>1. IInv => SpoiledNeverMerges
  BY DEF IInv, DoomInv, SpoiledNeverMerges
<1> QED
  BY Invariance, <1>1, PTL

-----------------------------------------------------------------------------
(***************************************************************************)
(* The two programs agree.  A row in a split file is in its shard for      *)
(* ever, so a program that gets through all shards has read it again, and  *)
(* it has read no other row for that id.                                   *)
(***************************************************************************)
InShards(row, first) ==
    \E h \in Shards : first <= h /\ h < input.num_shards /\ row \in shard[h].keys

Chosen == UNION {ToSet(file[p][s]) : p \in Programs, s \in Splits}
OneRowEach(rows) == \A a, b \in rows : a[1] = b[1] => a = b

ChosenInv ==
    /\ OneRowEach(Chosen) /\ OneRowEach(prog.rows)
    /\ \A row \in Chosen \cup prog.rows : InShards(row, 0)
    /\ prog.step = "load" => /\ prog.at < input.num_shards
                             /\ \A row \in Chosen : row \in prog.rows \/ InShards(row, prog.at)
    /\ prog.step = "write" => Chosen \subseteq prog.rows

LEMMA ChosenStep ==
    ASSUME TypeOK, SourceInv, ChosenInv, [Next]_vars
    PROVE  ChosenInv'
<1>0. input' = input /\ Programs' = Programs /\ Splits' = Splits
  BY JobStep DEF Programs, Splits
<1>a. \A row, n : InShards(row, n) => InShards(row, n)'
  BY <1>0, JobStep DEF InShards, Keeps
<1>b. prog \in ProgType /\ input.num_shards \in Nat \ {0} /\ Shards \subseteq Nat
  BY InputFacts DEF TypeOK, ProgType
<1>1. CASE file' = file /\ prog' = prog
  <2>1. Chosen' = Chosen
    BY <1>1 DEF Chosen
  <2> QED
    BY <1>0, <1>1, <1>a, <2>1 DEF ChosenInv, OneRowEach
<1>2. CASE file' = file /\ prog'.rows = {} /\ prog'.step \in {"idle", "load"} /\ prog'.at = 0
  <2>1. Chosen' = Chosen
    BY <1>2 DEF Chosen
  <2> QED
    BY <1>0, <1>2, <1>a, <1>b, <2>1 DEF ChosenInv, OneRowEach
<1>3. CASE LoadShard
  <2> DEFINE rows == prog.rows \cup shard[prog.at].keys
  <2>1. /\ prog.step = "load" /\ Loads(prog.at, prog.rows) /\ file' = file /\ shard' = shard
        /\ \/ /\ prog.at + 1 < input.num_shards
              /\ prog' = [prog EXCEPT !.rows = rows, !.at = @ + 1]
           \/ /\ ~(prog.at + 1 < input.num_shards)
              /\ prog' = [prog EXCEPT !.rows = rows, !.at = 0, !.step = "write"]
    BY <1>3 DEF LoadShard, jobVars
  <2>2. Chosen' = Chosen
    BY <2>1 DEF Chosen
  <2>3. OneRowEach(rows)
    BY <2>1 DEF Loads, OneRowEach
  <2>4. prog.at \in Nat /\ prog.at < input.num_shards /\ prog.at \in Shards
    BY <1>b, <2>1, InputFacts DEF ProgType, ChosenInv
  <2>5. \A row \in rows : InShards(row, 0)
    BY <1>b, <2>4 DEF ChosenInv, InShards
  <2>6. \A row \in Chosen : row \in rows \/ InShards(row, prog.at + 1)
    <3> SUFFICES ASSUME NEW row \in Chosen, row \notin rows PROVE InShards(row, prog.at + 1)
      OBVIOUS
    <3>1. PICK h \in Shards : prog.at <= h /\ h < input.num_shards /\ row \in shard[h].keys
      BY <2>1 DEF ChosenInv, InShards
    <3>2. h # prog.at /\ h \in Nat
      BY <1>b, <3>1
    <3> QED
      BY <2>4, <3>1, <3>2 DEF InShards
  <2> HIDE DEF rows
  <2>7. prog'.rows = rows
    BY <1>b, <2>1 DEF ProgType
  <2>8. CASE prog.at + 1 < input.num_shards
    <3>1. prog'.step = "load" /\ prog'.at = prog.at + 1
      BY <1>b, <2>1, <2>8 DEF ProgType
    <3> QED
      BY <1>0, <1>a, <2>2, <2>3, <2>5, <2>6, <2>7, <2>8, <3>1 DEF ChosenInv, OneRowEach
  <2>9. CASE ~(prog.at + 1 < input.num_shards)
    <3>1. prog'.step = "write"
      BY <1>b, <2>1, <2>9 DEF ProgType
    <3>2. Chosen \subseteq rows
      BY <1>b, <2>4, <2>6, <2>9 DEF InShards
    <3> QED
      BY <1>0, <1>a, <2>2, <2>3, <2>5, <2>7, <3>1, <3>2 DEF ChosenInv, OneRowEach
  <2> QED
    BY <2>8, <2>9
<1>4. CASE WriteSplit
  <2> DEFINE source == input.source[prog.at]
             written == [i \in DOMAIN source |-> RowOf(source[i])]
  <2>1. /\ prog.step = "write" /\ SplitIds(prog.at) \subseteq IdsOf(prog.rows)
        /\ file' = [file EXCEPT ![prog.name][prog.at] = written]
        /\ prog' = [prog EXCEPT !.at = @ + 1]
    BY <1>4 DEF WriteSplit, MayWrite
  <2>2. ASSUME NEW i \in DOMAIN source PROVE RowOf(source[i]) \in prog.rows
    <3>1. source[i] \in IdsOf(prog.rows)
      BY <2>1 DEF SplitIds, ToSet
    <3>2. \E row \in prog.rows : row[1] = source[i]
      BY <3>1 DEF IdsOf
    <3> QED
      BY <3>2 DEF RowOf
  <2>3. ToSet(written) \subseteq prog.rows
    BY <2>2 DEF ToSet
  <2> HIDE DEF written
  <2>4. Chosen \subseteq prog.rows
    BY <2>1 DEF ChosenInv
  <2>5. \A p \in Programs, s \in Splits : file'[p][s] = file[p][s] \/ file'[p][s] = written
    BY <2>1 DEF TypeOK
  <2>6. Chosen' \subseteq prog.rows
    <3> SUFFICES ASSUME NEW p \in Programs, NEW s \in Splits, NEW row \in ToSet(file'[p][s])
                 PROVE  row \in prog.rows
      BY <1>0 DEF Chosen
    <3>1. ToSet(file[p][s]) \subseteq Chosen
      BY DEF Chosen
    <3> QED
      BY <2>3, <2>4, <2>5, <3>1
  <2>7. prog'.rows = prog.rows /\ prog'.step = "write"
    BY <1>b, <2>1 DEF ProgType
  <2> QED
    BY <1>0, <1>a, <2>1, <2>6, <2>7 DEF ChosenInv, OneRowEach
<1>5. CASE Ends
  BY <1>2, <1>5 DEF Ends, Idle
<1>6. ASSUME NEW p \in Programs, NEW o \in BOOLEAN, Run(p, o) PROVE ChosenInv'
  BY <1>2, <1>6 DEF Run, Idle
<1>7. \/ file' = file /\ prog' = prog
      \/ LoadShard \/ WriteSplit \/ Ends
      \/ \E p \in Programs, o \in BOOLEAN : Run(p, o)
  BY ZenonT(40) DEF Next, vars, jobVars, progVars, NothingLeft, Start, Select, EndRow, Fail, Finish, JobKilled
<1> QED
  BY <1>1, <1>3, <1>4, <1>5, <1>6, <1>7

(* The split files of the two programs never disagree about the rollout    *)
(* that was selected, however often they are run, and although jobs that   *)
(* overlap may append another choice at any time.                          *)
THEOREM ChoicesAgreeHolds == Spec => []ChoicesAgree
<1>1. Init => ChosenInv
  <2> SUFFICES ASSUME Init PROVE ChosenInv
    OBVIOUS
  <2>1. \A p \in Programs, s \in Splits : ToSet(file[p][s]) = {}
    BY DEF Init, ToSet
  <2>2. Chosen = {}
    BY <2>1 DEF Chosen
  <2> QED
    BY <2>2 DEF Init, Idle, ChosenInv, OneRowEach
<1>2. IInv /\ ChosenInv /\ [Next]_vars => ChosenInv'
  BY ChosenStep DEF IInv
<1>3. ChosenInv => ChoicesAgree
  BY DEF ChosenInv, ChoicesAgree, OneRowEach, Chosen
<1> QED
  BY <1>1, <1>2, <1>3, Invariance, PTL DEF Spec
=============================================================================
