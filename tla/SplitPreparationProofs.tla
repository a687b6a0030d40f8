------------------------- MODULE SplitPreparationProofs -------------------------
(***************************************************************************)
(* What holds of the split preparation for every number of splits and      *)
(* workers, every source and every leftover of earlier runs, however often *)
(* it is run and killed (SplitBuild); and of the cut of one parquet file,  *)
(* however it is stored, into any number of splits (SplitPlan).            *)
(***************************************************************************)
EXTENDS SplitBuild, SplitPlan, FiniteSetTheorems, SequenceTheorems, WellFoundedInduction, TLAPS

Copied  == setup.kind = "copied"
InPlace == setup.kind = "inplace"

(* The source stays as it is; splits without rows are never written; one   *)
(* file at a time is copied, and none is linked or written in place.       *)
FilesInv ==
    /\ src = [s \in Splits |-> "whole"]
    /\ \A s \in setup.empty : dst[s] \notin {"whole", "lookalike"}
    /\ ~FileMode /\ ~Copied => busy = {}
    /\ InPlace => \A s \in Splits : dst[s] \in {"absent", "whole"}
    /\ ~FileMode => \A s, t \in busy : s = t

(* What is left to unlink.  Only --resume alone keeps what was there.      *)
ClearInv ==
    pc = "clear" =>
        /\ pool = {} /\ busy = {}
        /\ opts # {"resume"} => Numeric(dst) \subseteq todo
        /\ "overwrite" \notin opts => todo = {}

(* A split cut from a file is waiting, being written or there, unless a    *)
(* worker raised or an old file has as many rows, which only --resume      *)
(* alone finds.                                                            *)
FileInv ==
    FileMode /\ pc = "work" =>
        /\ todo \cap (pool \cup busy) = {}
        /\ opts # {"resume"} => \A s \in todo : dst[s] = "absent"
        /\ \A s \in Splits : s \in todo \cup pool \cup busy \/ broken \/ dst[s] = "whole" \/ Trusted(s)

(* So is a split linked or copied, unless an old file was trusted, which   *)
(* only --resume alone does; otherwise what is left to do is absent; in    *)
(* place, everything is there and skipped.                                 *)
DirectoryInv ==
    ~FileMode /\ pc = "work" =>
        /\ todo \cap busy = {}
        /\ \A s \in Splits : s \in todo \cup busy \/ dst[s] = "whole" \/ Trusted(s)
        /\ opts # {"resume"} => \A s \in todo : dst[s] = "absent"
        /\ setup.kind = "inplace" /\ Splits # {} =>
              "overwrite" \notin opts /\ \A s \in todo : Skipped(s)

IInv == TypeOK /\ FilesInv /\ ClearInv /\ FileInv /\ DirectoryInv

-----------------------------------------------------------------------------
(* The first of some splits is one of them. *)
LEMMA FirstSplit ==
    ASSUME NEW S \in SUBSET Splits, S # {}
    PROVE  Min(S) \in S
<1>0. S \subseteq Nat
  BY ConstantsAssumption DEF ConstantsAssumption
<1>1. PICK n \in S : \A m \in S : ~(<<m, n>> \in OpToRel(<, Nat))
  BY <1>0, NatLessThanWellFounded, WFMin
<1>2. ASSUME NEW m \in S PROVE n <= m
  <2>1. n \in Nat /\ m \in Nat
    BY <1>0
  <2>2. ~(m < n)
    BY <1>1, <2>1 DEF OpToRel
  <2> QED
    BY <2>1, <2>2
<1> QED
  BY <1>2 DEF Min

LEMMA SetupFacts ==
    ASSUME TypeOK
    PROVE  /\ setup.kind \in {"file", "linked", "copied", "inplace"}
           /\ setup.empty \subseteq Splits
           /\ ~FileMode => setup.empty = {}
BY ConstantsAssumption DEF TypeOK, ConstantsAssumption, FileSetups, DirSetups, FileMode

LEMMA InitIInv == Init => IInv
<1> SUFFICES ASSUME Init PROVE IInv
  OBVIOUS
<1>1. dst \in [Splits -> Contents]
  <2>1. dst \in [Splits -> Leftovers] \/ dst \in [Splits -> {"whole"}]
    BY DEF Init
  <2>2. Leftovers \subseteq Contents /\ "whole" \in Contents
    BY ConstantsAssumption DEF ConstantsAssumption, Contents
  <2> QED
    BY <2>1, <2>2
<1>2. TypeOK
  BY <1>1 DEF Init, TypeOK, Contents
<1>3. FilesInv
  <2>1. InPlace => \A s \in Splits : dst[s] \in {"absent", "whole"}
    BY DEF Init, InPlace
  <2> QED
    BY <2>1 DEF Init, FilesInv
<1> QED
  BY <1>2, <1>3 DEF Init, IInv, ClearInv, FileInv, DirectoryInv

-----------------------------------------------------------------------------
(* Types. *)

LEMMA TypeStep == TypeOK /\ [Next]_vars => TypeOK'
<1> SUFFICES ASSUME TypeOK, [Next]_vars PROVE TypeOK'
  OBVIOUS
<1> USE DEF run, work, bounds
<1>0. "absent" \in Contents /\ "whole" \in Contents /\ "torn" \in Contents
  BY DEF Contents
<1>a. \A s \in Splits : \A v \in Contents : [dst EXCEPT ![s] = v] \in [Splits -> Contents]
  BY DEF TypeOK
<1>b. \A s \in Splits : Source[s] \in Contents
  BY DEF TypeOK, Source
<1>c. todo # {} => Min(todo) \in Splits
  BY FirstSplit DEF TypeOK
<1>1. CASE UNCHANGED vars
  BY <1>1 DEF TypeOK, vars
<1>2. CASE Start
  <2>1. opts' \subseteq {"resume", "overwrite"}
    BY <1>2 DEF Start
  <2>2. pc' \in {"failed", "clear"}
    BY <1>2, Zenon DEF Start
  <2>3. todo' \subseteq Splits
    BY <1>2 DEF Start, Numeric
  <2>4. runs' \in Nat
    BY <1>2 DEF TypeOK, Start
  <2> QED
    BY <1>2, <2>1, <2>2, <2>3, <2>4 DEF TypeOK, Start
<1>3. CASE Unlink
  BY <1>3, <1>0, <1>a, <1>c DEF TypeOK, Unlink
<1>4. CASE Open
  BY <1>4 DEF TypeOK, Open
<1>5. CASE Skip
  BY <1>5, <1>c DEF TypeOK, Skip
<1>6. CASE Place
  <2>1. dst' \in [Splits -> Contents] /\ busy' \subseteq Splits
    BY <1>6, <1>0, <1>a, <1>b, <1>c DEF TypeOK, Place, LinkOrCopy
  <2> QED
    BY <1>6, <2>1 DEF TypeOK, Place
<1>7. CASE CopyEnds
  <2>1. dst' \in [Splits -> Contents]
    BY <1>7, <1>a, <1>b DEF TypeOK, CopyEnds
  <2> QED
    BY <1>7, <2>1 DEF TypeOK, CopyEnds
<1>8. CASE Submit
  <2>1. dst' \in [Splits -> Contents] /\ pool' \subseteq Splits /\ kept' \subseteq Splits
    BY <1>8, <1>0, <1>a, <1>c DEF TypeOK, Submit
  <2> QED
    BY <1>8, <2>1 DEF TypeOK, Submit
<1>9. CASE BeginWrite
  BY <1>9 DEF TypeOK, BeginWrite
<1>10. CASE EndWrite
  <2>1. dst' \in [Splits -> Contents]
    BY <1>10, <1>0, <1>a DEF TypeOK, EndWrite
  <2> QED
    BY <1>10, <2>1 DEF TypeOK, EndWrite
<1>11. CASE WriteFails
  BY <1>11 DEF TypeOK, WriteFails
<1>12. CASE Finish
  BY <1>12 DEF TypeOK, Finish
<1>13. CASE Killed
  BY <1>13 DEF TypeOK, Killed
<1> QED
  BY <1>1, <1>2, <1>3, <1>4, <1>5, <1>6, <1>7, <1>8, <1>9, <1>10, <1>11, <1>12, <1>13 DEF Next

-----------------------------------------------------------------------------
(* The files. *)

(* What is placed or copied in the directory is whole, and nothing is      *)
(* placed in the source directory itself.                                  *)
LEMMA PlacedFile ==
    ASSUME IInv, Place
    PROVE  \E s \in todo :
              /\ ~Skipped(s) /\ todo' = todo \ {s} /\ busy = {}
              /\ setup.kind # "inplace" /\ ~FileMode /\ pc = "work"
              /\ \/ ~Copied /\ dst' = [dst EXCEPT ![s] = "whole"] /\ busy' = {}
                 \/ Copied /\ dst' = [dst EXCEPT ![s] = "torn"] /\ busy' = {s}
<1> DEFINE s == Min(todo)
<1>1. s \in todo /\ s \in Splits
  BY FirstSplit DEF Place, IInv, TypeOK
<1>2. ~Skipped(s) /\ todo' = todo \ {s} /\ busy = {} /\ ~FileMode /\ pc = "work"
  BY DEF Place
<1>3. setup.kind # "inplace"
  BY <1>1, <1>2 DEF IInv, DirectoryInv
<1>4. setup.kind \in {"linked", "copied"}
  BY <1>2, <1>3, SetupFacts DEF IInv, FileMode
<1>5. Source[s] = "whole"
  BY <1>1, <1>3 DEF IInv, FilesInv, Source
<1>6. \/ ~Copied /\ dst' = [dst EXCEPT ![s] = "whole"] /\ busy' = {}
      \/ Copied /\ dst' = [dst EXCEPT ![s] = "torn"] /\ busy' = {s}
  BY <1>2, <1>4, <1>5 DEF Place, LinkOrCopy, Copied
<1> QED
  BY <1>1, <1>2, <1>3, <1>6

LEMMA CopiedFile ==
    ASSUME IInv, CopyEnds
    PROVE  \E s \in busy :
              /\ busy = {s} /\ busy' = {} /\ Copied /\ ~FileMode /\ pc = "work"
              /\ dst' = [dst EXCEPT ![s] = "whole"]
<1>1. PICK s \in busy : dst' = [dst EXCEPT ![s] = Source[s]]
  BY DEF CopyEnds
<1>2. ~FileMode /\ busy' = {} /\ pc = "work"
  BY DEF CopyEnds
<1>3. Copied /\ busy = {s}
  BY <1>2 DEF IInv, FilesInv
<1>4. Source[s] = "whole"
  BY <1>3 DEF IInv, FilesInv, Source, Copied, TypeOK
<1> QED
  BY <1>1, <1>2, <1>3, <1>4

LEMMA SubmittedFile ==
    ASSUME IInv, Submit
    PROVE  \E s \in todo :
              /\ todo' = todo \ {s} /\ FileMode /\ pc = "work"
              /\ \/ /\ "resume" \in opts /\ dst[s] \in {"whole", "lookalike"}
                    /\ dst' = dst /\ pool' = pool /\ kept' = kept \cup {s}
                 \/ pool' = pool \cup {s} /\ dst' = dst /\ kept' = kept
                 \/ /\ pool' = pool \cup {s} /\ kept' = kept
                    /\ dst[s] # "whole" /\ dst' = [dst EXCEPT ![s] = "absent"]
<1> DEFINE s == Min(todo)
<1>1. s \in todo
  BY FirstSplit DEF Submit, IInv, TypeOK
<1> QED
  BY <1>1 DEF Submit, ValidSplit

(* The source, and what the program writes. *)
LEMMA FilesStep == IInv /\ [Next]_vars => FilesInv'
<1> SUFFICES ASSUME IInv, [Next]_vars PROVE FilesInv'
  OBVIOUS
<1> USE DEF run, work, bounds
<1>0. setup' = setup /\ src' = src
  BY DEF Next, vars, Start, Unlink, Open, Skip, Place, CopyEnds, Submit, BeginWrite, EndWrite,
     WriteFails, Finish, Killed
<1>a. FileMode' = FileMode /\ Copied' = Copied /\ InPlace' = InPlace
  BY <1>0 DEF FileMode, Copied, InPlace
<1>c. InPlace => ~FileMode /\ ~Copied /\ setup.kind = "inplace"
  BY DEF FileMode, Copied, InPlace
<1>b. dst \in [Splits -> Contents] /\ setup.empty \subseteq Splits /\ (~FileMode => setup.empty = {})
  BY SetupFacts DEF IInv, TypeOK
<1>1. CASE dst' = dst /\ busy' \subseteq busy
  BY <1>1, <1>0, <1>a, <1>c DEF IInv, FilesInv
<1>2. CASE dst' = dst /\ FileMode
  BY <1>2, <1>0, <1>a, <1>c DEF IInv, FilesInv
<1>3. CASE Unlink
  BY <1>3, <1>0, <1>a, <1>b, <1>c DEF IInv, FilesInv, Unlink
<1>4. CASE Place
  BY <1>4, <1>0, <1>a, <1>b, <1>c, PlacedFile DEF IInv, FilesInv
<1>5. CASE CopyEnds
  BY <1>5, <1>0, <1>a, <1>b, <1>c, CopiedFile DEF IInv, FilesInv
<1>6. CASE Submit
  BY <1>6, <1>0, <1>a, <1>b, <1>c, SubmittedFile DEF IInv, FilesInv
<1>7. CASE EndWrite
  BY <1>7, <1>0, <1>a, <1>b, <1>c DEF IInv, FilesInv, EndWrite
<1> QED
  BY <1>1, <1>2, <1>3, <1>4, <1>5, <1>6, <1>7 DEF Next, vars, Start, Open, Skip, BeginWrite,
     WriteFails, Finish, Killed

(* What a run has cleared away. *)
LEMMA ClearStep == IInv /\ [Next]_vars => ClearInv'
<1> SUFFICES ASSUME IInv, [Next]_vars, pc' = "clear"
             PROVE  /\ pool' = {} /\ busy' = {}
                    /\ opts' # {"resume"} => Numeric(dst') \subseteq todo'
                    /\ "overwrite" \notin opts' => todo' = {}
  BY DEF ClearInv
<1>1. CASE UNCHANGED vars
  BY <1>1 DEF vars, run, work, IInv, ClearInv
<1>2. CASE Start
  <2>1. opts' \subseteq {"resume", "overwrite"} /\ dst' = dst /\ pool' = {} /\ busy' = {}
    BY <1>2 DEF Start
  <2>2. Numeric(dst) = {} \/ opts' # {}
    BY <1>2 DEF Start
  <2>3. CASE "overwrite" \in opts'
    BY <1>2, <2>1, <2>3 DEF Start
  <2>4. CASE "overwrite" \notin opts'
    <3>1. todo' = {}
      BY <1>2, <2>4 DEF Start
    <3>2. opts' = {} \/ opts' = {"resume"}
      BY <2>1, <2>4
    <3> QED
      BY <2>1, <2>2, <3>1, <3>2
  <2> QED
    BY <2>3, <2>4
<1>3. CASE Unlink
  <2>1. pc = "clear" /\ pool' = pool /\ busy' = busy /\ opts' = opts
    BY <1>3 DEF Unlink, run
  <2>2. todo' = todo \ {Min(todo)} /\ dst' = [dst EXCEPT ![Min(todo)] = "absent"]
    BY <1>3 DEF Unlink
  <2>3. Numeric(dst) \subseteq todo => Numeric(dst') \subseteq todo'
    BY <2>2 DEF Numeric, IInv, TypeOK
  <2> QED
    BY <2>1, <2>2, <2>3 DEF IInv, ClearInv
<1> QED
  BY <1>1, <1>2, <1>3 DEF Next, Open, Skip, Place, CopyEnds, Submit, BeginWrite, EndWrite,
     WriteFails, Finish, Killed, run

(* The program goes on to its splits. *)
LEMMA OpenStep ==
    ASSUME IInv, Open, pc' = "work"
    PROVE  /\ todo' = Splits /\ dst' = dst /\ opts' = opts /\ setup' = setup
           /\ ~FileMode => Numeric(Source) = Splits
           /\ opts # {"resume"} => \A s \in Splits : dst[s] = "absent"
<1>1. todo = {} /\ pc = "clear"
  BY DEF Open
<1>2. opts # {"resume"} => Numeric(dst) = {}
  BY <1>1 DEF IInv, ClearInv
<1> QED
  BY <1>2 DEF Open, Numeric

LEMMA FileStep == IInv /\ [Next]_vars => FileInv'
<1> SUFFICES ASSUME IInv, [Next]_vars, FileMode', pc' = "work"
             PROVE  /\ todo' \cap (pool' \cup busy') = {}
                    /\ opts' # {"resume"} => \A s \in todo' : dst'[s] = "absent"
                    /\ \A s \in Splits : s \in todo' \cup pool' \cup busy' \/ broken' \/ dst'[s] = "whole"
                                          \/ (opts' = {"resume"} /\ s \in kept' /\ dst'[s] = "lookalike")
  BY DEF FileInv, Trusted, FileMode
<1> USE DEF run, work, bounds
<1>0. setup' = setup
  BY DEF Next, vars, Start, Unlink, Open, Skip, Place, CopyEnds, Submit, BeginWrite, EndWrite,
     WriteFails, Finish, Killed
<1>a. FileMode
  BY <1>0 DEF FileMode
<1>b. pc = "work" =>
        /\ todo \cap (pool \cup busy) = {}
        /\ opts # {"resume"} => \A s \in todo : dst[s] = "absent"
        /\ \A s \in Splits : s \in todo \cup pool \cup busy \/ broken \/ dst[s] = "whole"
                              \/ (opts = {"resume"} /\ s \in kept /\ dst[s] = "lookalike")
  BY <1>a DEF IInv, FileInv, Trusted, FileMode
<1>c. dst \in [Splits -> Contents] /\ todo \subseteq Splits
  BY DEF IInv, TypeOK
<1>1. CASE UNCHANGED vars
  BY <1>1, <1>b DEF vars
<1>2. CASE Open
  <2>1. pool' = {} /\ busy' = {}
    BY <1>2 DEF Open, IInv, ClearInv
  <2> QED
    BY <1>2, <2>1, OpenStep
<1>3. CASE Submit
  <2>1. PICK r \in todo :
           /\ todo' = todo \ {r} /\ pc = "work"
           /\ \/ /\ "resume" \in opts /\ dst[r] \in {"whole", "lookalike"}
                 /\ dst' = dst /\ pool' = pool /\ kept' = kept \cup {r}
              \/ pool' = pool \cup {r} /\ dst' = dst /\ kept' = kept
              \/ /\ pool' = pool \cup {r} /\ kept' = kept
                 /\ dst[r] # "whole" /\ dst' = [dst EXCEPT ![r] = "absent"]
    BY <1>3, SubmittedFile
  <2>2. busy' = busy /\ broken' = broken /\ opts' = opts
    BY <1>3 DEF Submit
  <2>3. \A s \in Splits : s # r => dst'[s] = dst[s]
    BY <2>1, <1>c
  <2>4. pool' = pool => dst'[r] = "whole" \/ (opts = {"resume"} /\ r \in kept' /\ dst'[r] = "lookalike")
    <3>1. r \notin pool
      BY <1>b, <2>1
    <3> QED
      BY <1>b, <2>1, <3>1
  <2>5. todo' \cap (pool' \cup busy') = {}
    BY <1>b, <2>1, <2>2
  <2>6. opts' # {"resume"} => \A s \in todo' : dst'[s] = "absent"
    BY <1>b, <1>c, <2>1, <2>2, <2>3
  <2>7. ASSUME NEW s \in Splits
        PROVE  s \in todo' \cup pool' \cup busy' \/ broken' \/ dst'[s] = "whole"
                  \/ (opts' = {"resume"} /\ s \in kept' /\ dst'[s] = "lookalike")
    <3>1. CASE s = r
      BY <2>1, <2>2, <2>4, <3>1
    <3>2. CASE s # r
      BY <1>b, <2>1, <2>2, <2>3, <3>2
    <3> QED
      BY <3>1, <3>2
  <2> QED
    BY <2>5, <2>6, <2>7
<1>4. CASE BeginWrite
  BY <1>4, <1>b DEF BeginWrite
<1>5. CASE EndWrite
  <2>1. PICK r \in busy :
           /\ busy' = busy \ {r} /\ pc = "work"
           /\ \/ dst' = [dst EXCEPT ![r] = "whole"] /\ broken' = broken
              \/ broken' = TRUE /\ dst' = dst
    BY <1>5 DEF EndWrite
  <2>2. todo' = todo /\ pool' = pool /\ opts' = opts /\ kept' = kept
    BY <1>5 DEF EndWrite
  <2>3. \A s \in Splits : s # r => dst'[s] = dst[s]
    BY <2>1, <1>c
  <2>4. broken' \/ (r \in Splits => dst'[r] = "whole")
    BY <2>1, <1>c
  <2> QED
    BY <1>b, <1>c, <2>1, <2>2, <2>3, <2>4
<1>6. CASE WriteFails
  BY <1>6, <1>b DEF WriteFails
<1> QED
  BY <1>a, <1>1, <1>2, <1>3, <1>4, <1>5, <1>6 DEF Next, Start, Unlink, Skip, Place, CopyEnds,
     Finish, Killed

LEMMA DirectoryStep == IInv /\ [Next]_vars => DirectoryInv'
<1> DEFINE Placed == setup.kind \in {"linked", "copied"}
<1> SUFFICES ASSUME IInv, [Next]_vars, ~FileMode', pc' = "work"
             PROVE  /\ todo' \cap busy' = {}
                    /\ \A s \in Splits : s \in todo' \cup busy' \/ dst'[s] = "whole"
                                            \/ (Placed' /\ opts' = {"resume"} /\ s \in kept')
                    /\ opts' # {"resume"} => \A s \in todo' : dst'[s] = "absent"
                    /\ setup'.kind = "inplace" /\ Splits # {} =>
                          /\ "overwrite" \notin opts'
                          /\ \A s \in todo' : "resume" \in opts' /\ dst'[s] # "absent"
  BY DEF DirectoryInv, Skipped, Trusted, FileMode
<1> USE DEF run, work, bounds
<1>0. setup' = setup
  BY DEF Next, vars, Start, Unlink, Open, Skip, Place, CopyEnds, Submit, BeginWrite, EndWrite,
     WriteFails, Finish, Killed
<1>a. ~FileMode /\ Placed' = Placed
  BY <1>0 DEF FileMode
<1>b. pc = "work" =>
        /\ todo \cap busy = {}
        /\ \A s \in Splits : s \in todo \cup busy \/ dst[s] = "whole"
                                \/ (Placed /\ opts = {"resume"} /\ s \in kept)
        /\ opts # {"resume"} => \A s \in todo : dst[s] = "absent"
        /\ setup.kind = "inplace" /\ Splits # {} =>
              "overwrite" \notin opts /\ \A s \in todo : "resume" \in opts /\ dst[s] # "absent"
  BY <1>a, SetupFacts DEF IInv, DirectoryInv, Skipped, Trusted, FileMode
<1> HIDE DEF Placed
<1>1. CASE UNCHANGED vars
  BY <1>0, <1>a, <1>1, <1>b DEF vars
<1>2. CASE Open
  <2>1. /\ todo' = Splits /\ dst' = dst /\ opts' = opts
        /\ Numeric(Source) = Splits
        /\ opts # {"resume"} => \A s \in Splits : dst[s] = "absent"
    BY <1>2, <1>a, OpenStep
  <2>3. busy' = {}
    BY <1>2 DEF Open, IInv, ClearInv
  <2>2. setup.kind = "inplace" /\ Splits # {} => opts = {"resume"} /\ \A s \in Splits : dst[s] # "absent"
    BY <2>1 DEF Numeric, Source
  <2> QED
    BY <1>0, <2>1, <2>2, <2>3
<1>3. CASE Skip
  <2>1. Min(todo) \in todo
    BY <1>3, FirstSplit DEF Skip, IInv, TypeOK
  <2>2. dst[Min(todo)] # "absent" /\ "resume" \in opts /\ busy = {} /\ pc = "work"
    BY <1>3 DEF Skip, Skipped
  <2>3. Placed \/ dst[Min(todo)] = "whole"
    <3>1. Placed \/ InPlace
      BY <1>a, SetupFacts DEF Placed, InPlace, FileMode, IInv
    <3> QED
      BY <3>1, <2>1, <2>2 DEF IInv, FilesInv, TypeOK
  <2>4. opts = {"resume"}
    BY <1>b, <2>1, <2>2
  <2> QED
    BY <1>0, <1>3, <1>a, <1>b, <2>1, <2>2, <2>3, <2>4 DEF Skip
<1>4. CASE Place
  <2>1. PICK s \in todo :
           /\ todo' = todo \ {s} /\ busy = {} /\ setup.kind # "inplace" /\ pc = "work"
           /\ \/ ~Copied /\ dst' = [dst EXCEPT ![s] = "whole"] /\ busy' = {}
              \/ Copied /\ dst' = [dst EXCEPT ![s] = "torn"] /\ busy' = {s}
    BY <1>4, PlacedFile
  <2>2. \A t \in Splits \ {s} : dst'[t] = dst[t]
    BY <2>1 DEF IInv, TypeOK
  <2>3. dst'[s] = "whole" \/ s \in busy'
    BY <2>1 DEF IInv, TypeOK
  <2>4. opts' = opts /\ kept' = kept /\ todo \subseteq Splits
    BY <1>4 DEF Place, IInv, TypeOK
  <2> QED
    BY <1>0, <1>a, <1>b, <2>1, <2>2, <2>3, <2>4
<1>5. CASE CopyEnds
  <2>1. PICK s \in busy :
           busy = {s} /\ busy' = {} /\ Copied /\ pc = "work" /\ dst' = [dst EXCEPT ![s] = "whole"]
    BY <1>5, CopiedFile
  <2>2. dst'[s] = "whole" /\ \A t \in Splits \ {s} : dst'[t] = dst[t]
    BY <2>1 DEF IInv, TypeOK
  <2>3. opts' = opts /\ kept' = kept /\ todo' = todo /\ todo \subseteq Splits /\ setup.kind = "copied"
    BY <1>5, <2>1 DEF CopyEnds, IInv, TypeOK, Copied
  <2> QED
    BY <1>0, <1>a, <1>b, <2>1, <2>2, <2>3
<1> QED
  BY <1>a, <1>1, <1>2, <1>3, <1>4, <1>5 DEF Next, Start, Unlink, Submit, BeginWrite, EndWrite,
     WriteFails, Finish, Killed

-----------------------------------------------------------------------------
LEMMA Invariance == Spec => []IInv
<1>1. IInv /\ [Next]_vars => IInv'
  BY TypeStep, FilesStep, ClearStep, FileStep, DirectoryStep DEF IInv
<1> QED
  BY <1>1, InitIInv, PTL DEF Spec

(* Variables stay within the values that the other proofs rely on.         *)
THEOREM TypeCorrect == Spec => []TypeOK
<1>1. IInv => TypeOK
  BY DEF IInv
<1> QED
  BY <1>1, Invariance, PTL

(* A run that ends well has prepared every split, whatever was there       *)
(* before it and whatever happened to the runs before it; only a file that *)
(* --resume alone has passed over may be another than it takes it for.     *)
THEOREM DoneMeansPreparedHolds == Spec => []DoneMeansPrepared
<1>1. Init => DoneMeansPrepared
  BY DEF Init, DoneMeansPrepared
<1>2. IInv /\ DoneMeansPrepared /\ [Next]_vars => DoneMeansPrepared'
  <2> SUFFICES ASSUME IInv, DoneMeansPrepared, [Next]_vars, pc' = "done",
                      NEW s \in Splits
               PROVE  dst'[s] = "whole" \/ Trusted(s)'
    BY DEF DoneMeansPrepared
  <2>1. CASE UNCHANGED vars
    BY <2>1 DEF vars, run, work, DoneMeansPrepared, Trusted, FileMode
  <2>2. CASE Finish
    <3>1. /\ pc = "work" /\ todo = {} /\ pool = {} /\ busy = {} /\ ~broken
          /\ dst' = dst /\ setup' = setup /\ opts' = opts /\ kept' = kept
      BY <2>2 DEF Finish, work
    <3> QED
      BY <3>1 DEF IInv, FileInv, DirectoryInv, Trusted, FileMode
  <2> QED
    BY <2>1, <2>2 DEF Next, Start, Unlink, Open, Skip, Place, CopyEnds, Submit, BeginWrite, EndWrite,
       WriteFails, Killed, run
<1> QED
  BY <1>1, <1>2, Invariance, PTL DEF Spec

(* A source with fewer rows than splits is never prepared, nor is one that *)
(* is overwritten in place; with no splits at all there is nothing to do.  *)
THEOREM HopelessIsNeverDoneHolds ==
    ASSUME Splits # {}
    PROVE  Spec => []HopelessIsNeverDone
<1>1. Init => HopelessIsNeverDone
  BY DEF Init, HopelessIsNeverDone
<1>2. IInv /\ HopelessIsNeverDone /\ [Next]_vars => HopelessIsNeverDone'
  <2> SUFFICES ASSUME IInv, HopelessIsNeverDone, [Next]_vars, pc' = "done",
                      setup'.empty # {} \/ (setup'.kind = "inplace" /\ "overwrite" \in opts')
               PROVE  FALSE
    BY DEF HopelessIsNeverDone
  <2>1. CASE UNCHANGED vars
    BY <2>1 DEF vars, run, HopelessIsNeverDone
  <2>2. CASE Finish
    <3>1. /\ pc = "work" /\ todo = {} /\ pool = {} /\ busy = {} /\ ~broken
          /\ setup' = setup /\ opts' = opts
      BY <2>2 DEF Finish
    <3>2. CASE setup.empty # {}
      <4>1. PICK s \in setup.empty : s \in Splits /\ FileMode
        BY <3>2, SetupFacts DEF IInv
      <4> QED
        BY <3>1, <4>1 DEF IInv, FileInv, FilesInv, Trusted
    <3>3. CASE setup.kind = "inplace" /\ "overwrite" \in opts
      BY <3>1, <3>3 DEF IInv, DirectoryInv, FileMode
    <3> QED
      BY <3>1, <3>2, <3>3
  <2> QED
    BY <2>1, <2>2 DEF Next, Start, Unlink, Open, Skip, Place, CopyEnds, Submit, BeginWrite, EndWrite,
       WriteFails, Killed, run
<1> QED
  BY <1>1, <1>2, Invariance, PTL DEF Spec

(* Only a copy is ever half-written under its final name.                  *)
THEOREM NeverTornHolds == Spec => NeverTorn
<1>1. IInv /\ [Next]_vars =>
        [setup.kind # "copied" => \A s \in Splits : dst'[s] = "torn" => dst[s] = "torn"]_vars
  <2> SUFFICES ASSUME IInv, [Next]_vars, setup.kind # "copied", NEW s \in Splits, dst'[s] = "torn"
               PROVE  dst[s] = "torn"
    OBVIOUS
  <2>0. dst \in [Splits -> Contents]
    BY DEF IInv, TypeOK
  <2>1. CASE dst' = dst
    BY <2>1
  <2>2. CASE Unlink
    BY <2>0, <2>2 DEF Unlink
  <2>3. CASE Place
    BY <2>0, <2>3, PlacedFile DEF Copied
  <2>4. CASE CopyEnds
    BY <2>4, CopiedFile DEF Copied
  <2>5. CASE Submit
    BY <2>0, <2>5, SubmittedFile
  <2>6. CASE EndWrite
    BY <2>0, <2>6 DEF EndWrite
  <2> QED
    BY <2>1, <2>2, <2>3, <2>4, <2>5, <2>6 DEF Next, vars, Start, Open, Skip, BeginWrite, WriteFails,
       Finish, Killed
<1> QED
  BY <1>1, Invariance, PTL DEF Spec, NeverTorn

(* Without --overwrite, what is complete stays complete. *)
THEOREM ResumeKeepsWholeHolds == Spec => ResumeKeepsWhole
<1>1. IInv /\ [Next]_vars =>
        [\A s \in Splits : dst[s] = "whole" /\ "overwrite" \notin opts => dst'[s] = "whole"]_vars
  <2> SUFFICES ASSUME IInv, [Next]_vars, NEW s \in Splits, dst[s] = "whole", "overwrite" \notin opts
               PROVE  dst'[s] = "whole"
    OBVIOUS
  <2>0. dst \in [Splits -> Contents] /\ opts \subseteq {"resume", "overwrite"}
    BY DEF IInv, TypeOK
  <2>1. CASE dst' = dst
    BY <2>1
  <2>2. CASE Unlink
    BY <2>2 DEF Unlink, IInv, ClearInv
  <2>3. CASE Place
    <3>1. PICK r \in todo :
             /\ ~Skipped(r) /\ ~FileMode /\ pc = "work"
             /\ dst' = [dst EXCEPT ![r] = "whole"] \/ dst' = [dst EXCEPT ![r] = "torn"]
      BY <2>3, PlacedFile
    <3>2. dst[r] # "whole"
      <4>1. CASE "resume" \in opts
        BY <3>1, <4>1 DEF Skipped
      <4>2. CASE opts = {}
        BY <3>1, <4>2 DEF IInv, DirectoryInv
      <4> QED
        BY <2>0, <4>1, <4>2
    <3> QED
      BY <2>0, <3>1, <3>2
  <2>4. CASE CopyEnds
    BY <2>0, <2>4, CopiedFile
  <2>5. CASE Submit
    BY <2>0, <2>5, SubmittedFile
  <2>6. CASE EndWrite
    BY <2>0, <2>6 DEF EndWrite
  <2> QED
    BY <2>1, <2>2, <2>3, <2>4, <2>5, <2>6 DEF Next, vars, Start, Open, Skip, BeginWrite, WriteFails,
       Finish, Killed
<1> QED
  BY <1>1, Invariance, PTL DEF Spec, ResumeKeepsWhole

-----------------------------------------------------------------------------
(***************************************************************************)
(* Cursors                                                                 *)
(***************************************************************************)
(* Induction, over a set of numbers. *)
LEMMA Induction ==
    ASSUME NEW S, 0 \in S, \A n \in Nat : n \in S => n + 1 \in S
    PROVE  Nat \subseteq S
<1> SUFFICES ASSUME Nat \ S # {} PROVE FALSE
  OBVIOUS
<1>1. PICK n \in Nat \ S : \A m \in Nat \ S : ~(<<m, n>> \in OpToRel(<, Nat))
  BY NatLessThanWellFounded, WFMin
<1>2. n \in Nat /\ n # 0
  OBVIOUS
<1>3. n - 1 \in Nat /\ n - 1 < n /\ (n - 1) + 1 = n
  BY <1>2
<1>4. n - 1 \in S
  BY <1>1, <1>2, <1>3 DEF OpToRel
<1> QED
  BY <1>3, <1>4

(* There is a table of cursors: each initial part of it exists, and they   *)
(* agree with each other.                                                  *)
Upto(f, g, n) == g[0] = 0 /\ \A k \in Nat : k < n => g[k + 1] = g[k] + f[k + 1]

LEMMA CursorTable ==
    ASSUME NEW f
    PROVE  \E g : g = [k \in Nat |-> IF k = 0 THEN 0 ELSE g[k - 1] + f[k]]
<1> DEFINE Parts == {n \in Nat : \E g : Upto(f, g, n)}
           part(n) == CHOOSE g : Upto(f, g, n)
<1>1. Nat \subseteq Parts
  <2>1. 0 \in Parts
    <3>1. Upto(f, [k \in Nat |-> 0], 0)
      BY DEF Upto
    <3> QED
      BY <3>1
  <2>2. ASSUME NEW n \in Nat, n \in Parts PROVE n + 1 \in Parts
    <3>1. PICK g : Upto(f, g, n)
      BY <2>2
    <3> DEFINE h == [k \in Nat |-> IF k = n + 1 THEN g[n] + f[n + 1] ELSE g[k]]
    <3>2. h[0] = 0
      BY <3>1 DEF Upto
    <3>3. ASSUME NEW k \in Nat, k < n + 1 PROVE h[k + 1] = h[k] + f[k + 1]
      <4>1. CASE k = n
        BY <4>1
      <4>2. CASE k # n
        <5>1. k < n /\ k # n + 1 /\ k + 1 # n + 1 /\ k + 1 \in Nat
          BY <3>3, <4>2
        <5>2. h[k] = g[k] /\ h[k + 1] = g[k + 1]
          BY <5>1
        <5>3. g[k + 1] = g[k] + f[k + 1]
          BY <3>1, <5>1 DEF Upto
        <5> QED
          BY <5>2, <5>3
      <4> QED
        BY <4>1, <4>2
    <3>4. Upto(f, h, n + 1)
      <4> HIDE DEF h
      <4> QED
        BY <3>2, <3>3 DEF Upto
    <3> HIDE DEF h
    <3> QED
      BY <3>4
  <2> HIDE DEF Parts
  <2> QED
    BY <2>1, <2>2, Induction
<1>2. \A n \in Nat : Upto(f, part(n), n)
  BY <1>1
<1> HIDE DEF part
<1>3. ASSUME NEW n \in Nat PROVE part(n + 1)[n] = part(n)[n]
  <2> DEFINE Same == {k \in Nat : k <= n => part(n + 1)[k] = part(n)[k]}
  <2>0. Upto(f, part(n), n) /\ Upto(f, part(n + 1), n + 1)
    BY <1>2
  <2>1. 0 \in Same
    BY <2>0 DEF Upto
  <2>2. ASSUME NEW k \in Nat, k \in Same PROVE k + 1 \in Same
    <3> SUFFICES ASSUME k + 1 <= n PROVE part(n + 1)[k + 1] = part(n)[k + 1]
      OBVIOUS
    <3>1. k < n /\ k < n + 1
      OBVIOUS
    <3>2. part(n + 1)[k + 1] = part(n + 1)[k] + f[k + 1]
      BY <2>0, <3>1 DEF Upto
    <3>3. part(n)[k + 1] = part(n)[k] + f[k + 1]
      BY <2>0, <3>1 DEF Upto
    <3>4. part(n + 1)[k] = part(n)[k]
      BY <2>2
    <3> QED
      BY <3>2, <3>3, <3>4
  <2>3. Nat \subseteq Same
    <3> HIDE DEF Same
    <3> QED
      BY <2>1, <2>2, Induction
  <2> QED
    BY <2>3
<1> DEFINE table == [n \in Nat |-> part(n)[n]]
<1>4. ASSUME NEW k \in Nat
      PROVE  table[k] = IF k = 0 THEN 0 ELSE table[k - 1] + f[k]
  <2>0. Upto(f, part(k), k)
    BY <1>2
  <2>1. CASE k = 0
    BY <2>0, <2>1 DEF Upto
  <2>2. CASE k # 0
    <3>1. k - 1 \in Nat /\ (k - 1) + 1 = k /\ k - 1 < k
      BY <2>2
    <3>2. part(k)[(k - 1) + 1] = part(k)[k - 1] + f[(k - 1) + 1]
      BY <2>0, <3>1 DEF Upto
    <3>3. part((k - 1) + 1)[k - 1] = part(k - 1)[k - 1]
      BY <1>3, <3>1
    <3>4. table[k] = part(k)[k] /\ table[k - 1] = part(k - 1)[k - 1]
      BY <3>1
    <3> QED
      BY <2>2, <3>1, <3>2, <3>3, <3>4
  <2> QED
    BY <2>1, <2>2
<1>5. table = [k \in Nat |-> IF k = 0 THEN 0 ELSE table[k - 1] + f[k]]
  <2>1. table = [k \in Nat |-> table[k]]
    OBVIOUS
  <2> HIDE DEF table
  <2> QED
    BY <1>4, <2>1
<1> QED
  BY <1>5

LEMMA CursorSteps ==
    ASSUME NEW f
    PROVE  Cursor(f, 0) = 0 /\ \A n \in Nat : Cursor(f, n + 1) = Cursor(f, n) + f[n + 1]
<1> DEFINE table == CHOOSE g : g = [k \in Nat |-> IF k = 0 THEN 0 ELSE g[k - 1] + f[k]]
<1>1. \A n : Cursor(f, n) = table[n]
  BY DEF Cursor
<1>2. table = [k \in Nat |-> IF k = 0 THEN 0 ELSE table[k - 1] + f[k]]
  BY CursorTable
<1> HIDE DEF table
<1>3. table[0] = 0
  BY <1>2
<1>4. ASSUME NEW n \in Nat PROVE table[n + 1] = table[n] + f[n + 1]
  <2>1. n + 1 \in Nat /\ n + 1 # 0 /\ (n + 1) - 1 = n
    OBVIOUS
  <2>2. table[n + 1] = IF n + 1 = 0 THEN 0 ELSE table[(n + 1) - 1] + f[n + 1]
    BY <1>2, <2>1
  <2> QED
    BY <2>1, <2>2
<1> QED
  BY <1>1, <1>3, <1>4

(* A cursor over numbers of rows never moves back. *)
LEMMA CursorMoves ==
    ASSUME NEW N \in Nat, NEW f, \A k \in 1 .. N : f[k] \in Nat
    PROVE  /\ \A n \in 0 .. N : Cursor(f, n) \in Nat
           /\ \A m, n \in 0 .. N : m <= n => Cursor(f, m) <= Cursor(f, n)
<1> DEFINE S == {n \in Nat : n <= N => \A m \in 0 .. n : Cursor(f, m) \in Nat /\ Cursor(f, m) <= Cursor(f, n)}
<1>1. 0 \in S
  <2>1. \A m \in 0 .. 0 : m = 0
    OBVIOUS
  <2> QED
    BY <2>1, CursorSteps
<1>2. ASSUME NEW n \in Nat, n \in S PROVE n + 1 \in S
  <2> SUFFICES ASSUME n + 1 <= N, NEW m \in 0 .. n + 1
               PROVE  Cursor(f, m) \in Nat /\ Cursor(f, m) <= Cursor(f, n + 1)
    OBVIOUS
  <2> DEFINE a == Cursor(f, n)
             b == f[n + 1]
  <2>1. b \in Nat /\ a \in Nat /\ \A k \in 0 .. n : Cursor(f, k) \in Nat /\ Cursor(f, k) <= a
    BY <1>2
  <2>2. Cursor(f, n + 1) = a + b
    BY CursorSteps
  <2> HIDE DEF a, b
  <2>3. CASE m = n + 1
    BY <2>1, <2>2, <2>3
  <2>4. CASE m # n + 1
    <3>1. m \in 0 .. n
      BY <2>4
    <3> DEFINE c == Cursor(f, m)
    <3>2. c \in Nat /\ c <= a
      BY <2>1, <3>1
    <3> HIDE DEF c
    <3>3. c <= a + b
      BY <2>1, <3>2
    <3> QED
      BY <2>2, <3>2, <3>3 DEF c
  <2> QED
    BY <2>3, <2>4
<1>3. Nat \subseteq S
  <2> HIDE DEF S
  <2> QED
    BY <1>1, <1>2, Induction
<1>4. ASSUME NEW n \in 0 .. N, NEW m \in 0 .. n
      PROVE  Cursor(f, m) \in Nat /\ Cursor(f, m) <= Cursor(f, n)
  <2>1. n \in S /\ n <= N
    BY <1>3
  <2> QED
    BY <2>1
<1> HIDE DEF S
<1>5. ASSUME NEW n \in 0 .. N PROVE Cursor(f, n) \in Nat
  <2>1. n \in 0 .. n
    OBVIOUS
  <2> QED
    BY <1>4, <2>1
<1>6. ASSUME NEW m \in 0 .. N, NEW n \in 0 .. N, m <= n PROVE Cursor(f, m) <= Cursor(f, n)
  <2>1. m \in 0 .. n
    BY <1>6
  <2> QED
    BY <1>4, <2>1
<1> QED
  BY <1>5, <1>6

-----------------------------------------------------------------------------
(***************************************************************************)
(* The sizes of the splits                                                 *)
(***************************************************************************)
(* Division with remainder, and the places where the splits begin: the     *)
(* first r of the N splits have one row more than the others.              *)
LEMMA Division ==
    ASSUME NEW L \in Nat, NEW N \in Nat \ {0}
    PROVE  /\ L \div N \in Nat /\ L % N \in 0 .. N - 1
           /\ L = N * (L \div N) + (L % N)
<1>1. L \div N \in Nat
  BY Z3
<1>2. L % N \in 0 .. N - 1
  BY Z3
<1>3. L - N * (L \div N) = L % N
  BY SMT
<1> DEFINE q == N * (L \div N)
           r == L % N
<1>4. q \in Nat /\ r \in Nat /\ L - q = r
  BY <1>1, <1>2, <1>3
<1>5. L = q + r
  <2> HIDE DEF q, r
  <2> QED
    BY <1>4
<1> QED
  BY <1>1, <1>2, <1>5

(* Splits of b rows, and of b + 1 for the first r of them. *)
LEMMA CursorOfCounts ==
    ASSUME NEW N \in Nat \ {0}, NEW b \in Nat, NEW r \in 0 .. N - 1, NEW f,
           \A k \in 1 .. N : f[k] = b + (IF k - 1 < r THEN 1 ELSE 0)
    PROVE  Cursor(f, N) = N * b + r
<1> DEFINE S == {n \in Nat : n <= N => Cursor(f, n) = n * b + (IF n < r THEN n ELSE r)}
<1>1. 0 \in S
  <2>1. 0 * b = 0
    OBVIOUS
  <2> QED
    BY <2>1, CursorSteps
<1>2. ASSUME NEW n \in Nat, n \in S PROVE n + 1 \in S
  <2> SUFFICES ASSUME n + 1 <= N
               PROVE  Cursor(f, n + 1) = (n + 1) * b + (IF n + 1 < r THEN n + 1 ELSE r)
    OBVIOUS
  <2> DEFINE p == n * b
             c == Cursor(f, n)
  <2>1. p \in Nat /\ (n + 1) * b = p + b
    OBVIOUS
  <2>2. c = p + (IF n < r THEN n ELSE r)
    BY <1>2
  <2>3. Cursor(f, n + 1) = c + f[n + 1]
    BY CursorSteps
  <2>4. f[n + 1] = b + (IF n < r THEN 1 ELSE 0)
    <3>1. n + 1 \in 1 .. N /\ (n + 1) - 1 = n
      OBVIOUS
    <3> QED
      BY <3>1
  <2> HIDE DEF p, c
  <2>5. n \in Nat /\ r \in Nat
    OBVIOUS
  <2>6. CASE n < r
    BY <2>1, <2>2, <2>3, <2>4, <2>5, <2>6
  <2>7. CASE ~(n < r)
    BY <2>1, <2>2, <2>3, <2>4, <2>5, <2>7
  <2> QED
    BY <2>6, <2>7
<1>3. Nat \subseteq S
  <2> HIDE DEF S
  <2> QED
    BY <1>1, <1>2, Induction
<1>4. N \in S
  BY <1>3
<1> QED
  BY <1>4

LEMMA OfTwo ==
    ASSUME NEW a \in Int, NEW b \in Int
    PROVE  /\ Max({a, b}) = IF a >= b THEN a ELSE b
           /\ Min({a, b}) = IF a <= b THEN a ELSE b
<1>1. \A x \in {a, b} : (\A y \in {a, b} : x >= y) <=> x = (IF a >= b THEN a ELSE b)
  OBVIOUS
<1>2. \A x \in {a, b} : (\A y \in {a, b} : x <= y) <=> x = (IF a <= b THEN a ELSE b)
  OBVIOUS
<1> QED
  BY <1>1, <1>2 DEF Max, Min

(* A set of the first groups is known by how many they are. *)
LEMMA FirstOnes ==
    ASSUME NEW N \in Nat, NEW D \in SUBSET (1 .. N), \A k \in D : \A m \in 1 .. N : m < k => m \in D
    PROVE  Cardinality(D) \in 0 .. N /\ D = 1 .. Cardinality(D)
<1> DEFINE Out == {n \in 1 .. N + 1 : n \notin D}
<1>1. Out \subseteq Nat /\ N + 1 \in Out /\ Out # {}
  OBVIOUS
<1>2. PICK n \in Out : \A m \in Out : ~(<<m, n>> \in OpToRel(<, Nat))
  <2> HIDE DEF Out
  <2> QED
    BY <1>1, NatLessThanWellFounded, WFMin, Zenon
<1>3. n \in 1 .. N + 1 /\ n \notin D /\ \A m \in 1 .. N + 1 : m < n => m \in D
  BY <1>1, <1>2 DEF OpToRel
<1>4. D = 1 .. n - 1
  <2>1. ASSUME NEW k \in D PROVE k \in 1 .. n - 1
    <3>1. k \in 1 .. N /\ n \in Nat
      BY <1>3
    <3>2. ~(n < k)
      BY <1>3, <2>1, <3>1
    <3> QED
      BY <1>3, <2>1, <3>1, <3>2
  <2>2. ASSUME NEW k \in 1 .. n - 1 PROVE k \in D
    BY <1>3
  <2> QED
    BY <2>1, <2>2
<1>5. n - 1 \in 0 .. N
  BY <1>3
<1>6. Cardinality(1 .. n - 1) = n - 1
  <2>1. 1 \in Int /\ n - 1 \in Int
    BY <1>5
  <2>2. Cardinality(1 .. n - 1) = IF 1 > n - 1 THEN 0 ELSE (n - 1) - 1 + 1
    BY <2>1, FS_Interval
  <2> QED
    BY <1>5, <2>2
<1> QED
  BY <1>4, <1>5, <1>6

-----------------------------------------------------------------------------
(***************************************************************************)
(* The plan of one source                                                  *)
(***************************************************************************)
(* The row groups of a source follow each other, and so do its splits,     *)
(* from the first row to the last; only with fewer rows than splits are    *)
(* some of them empty.                                                     *)
LEMMA GroupsMeet ==
    ASSUME sizes \in Sources
    PROVE  /\ Len(sizes) \in Nat /\ Groups = 1 .. Len(sizes) /\ TotalRows \in Nat
           /\ \A k \in Groups : sizes[k] \in Nat /\ k - 1 \in 0 .. Len(sizes) /\ k \in 0 .. Len(sizes)
           /\ \A k \in 0 .. Len(sizes) : RowEnd(k) \in Nat
           /\ \A j, k \in 0 .. Len(sizes) : j <= k => RowEnd(j) <= RowEnd(k)
           /\ RowEnd(0) = 0 /\ RowEnd(Len(sizes)) = TotalRows
           /\ \A k \in Groups : RowStart(k) = RowEnd(k - 1) /\ RowEnd(k) = RowStart(k) + sizes[k]
<1>1. PICK n \in 0 .. MaxGroups : sizes \in [1 .. n -> 0 .. MaxRows]
  BY DEF Sources
<1>2. n \in Nat /\ sizes \in Seq(0 .. MaxRows) /\ Len(sizes) = n
  BY <1>1, PlanAssumption DEF PlanAssumption
<1>3. Len(sizes) \in Nat /\ \A k \in 1 .. Len(sizes) : sizes[k] \in Nat
  BY <1>1, <1>2, PlanAssumption DEF PlanAssumption
<1> HIDE DEF Sources
<1>4. /\ \A k \in 0 .. Len(sizes) : RowEnd(k) \in Nat
      /\ \A j, k \in 0 .. Len(sizes) : j <= k => RowEnd(j) <= RowEnd(k)
  BY <1>3, CursorMoves DEF RowEnd
<1>5. RowEnd(0) = 0
  BY CursorSteps DEF RowEnd
<1>6. ASSUME NEW k \in Groups
      PROVE  RowStart(k) = RowEnd(k - 1) /\ RowEnd(k) = RowStart(k) + sizes[k]
  <2>1. k - 1 \in Nat /\ (k - 1) + 1 = k
    BY <1>3 DEF Groups
  <2>2. Cursor(sizes, (k - 1) + 1) = Cursor(sizes, k - 1) + sizes[(k - 1) + 1]
    BY <2>1, CursorSteps
  <2> QED
    BY <2>1, <2>2 DEF RowStart, RowEnd
<1>7. Len(sizes) \in 0 .. Len(sizes)
  BY <1>3
<1> QED
  BY <1>3, <1>4, <1>5, <1>6, <1>7 DEF Groups, TotalRows

LEMMA SplitsMeet ==
    ASSUME TotalRows \in Nat, num \in Nat \ {0}
    PROVE  /\ \A i \in 0 .. num - 1 : SplitCount(i) \in Nat /\ i \in 0 .. num /\ i + 1 \in 0 .. num
           /\ \A i \in 0 .. num - 1 : SplitCount(i) = 0 <=> i >= TotalRows
           /\ \A i \in 0 .. num : SplitStart(i) \in Nat
           /\ \A i, j \in 0 .. num : i <= j => SplitStart(i) <= SplitStart(j)
           /\ SplitStart(0) = 0 /\ SplitStart(num) = TotalRows
           /\ \A i \in 0 .. num - 1 : /\ SplitEnd(i) = SplitStart(i) + SplitCount(i)
                                      /\ SplitStart(i + 1) = SplitEnd(i)
<1> DEFINE b == TotalRows \div num
           r == TotalRows % num
           counts == [j \in 1 .. num |-> SplitCount(j - 1)]
<1>1. b \in Nat /\ r \in 0 .. num - 1 /\ TotalRows = num * b + r
  BY Division
<1>2. \A i \in 0 .. num - 1 : SplitCount(i) = b + (IF i < r THEN 1 ELSE 0)
  BY DEF SplitCount
<1> HIDE DEF b, r
<1>3. ASSUME NEW i \in 0 .. num - 1
      PROVE  SplitCount(i) \in Nat /\ i \in 0 .. num /\ i + 1 \in 0 .. num
  BY <1>1, <1>2
<1>4. ASSUME NEW i \in 0 .. num - 1
      PROVE  SplitCount(i) = 0 <=> i >= TotalRows
  <2>1. SplitCount(i) = b + (IF i < r THEN 1 ELSE 0) /\ i \in Nat /\ r \in Nat
    BY <1>1, <1>2
  <2>2. CASE b = 0
    <3>1. num * b = 0
      BY <2>2
    <3>2. TotalRows = r
      BY <1>1, <2>1, <3>1
    <3> QED
      BY <2>1, <2>2, <3>2
  <2>3. CASE b # 0
    <3>1. b - 1 \in Nat
      BY <1>1, <2>3
    <3>2. num * b = num + num * (b - 1) /\ num * (b - 1) \in Nat
      BY <1>1, <3>1
    <3> DEFINE p == num * (b - 1)
    <3>3. p \in Nat /\ TotalRows = num + p + r
      BY <1>1, <3>2
    <3> HIDE DEF p
    <3>4. ~(i >= TotalRows)
      BY <2>1, <3>3
    <3> QED
      BY <1>1, <2>1, <2>3, <3>4
  <2> QED
    BY <2>2, <2>3
<1>5. \A k \in 1 .. num : counts[k] = SplitCount(k - 1) /\ k - 1 \in 0 .. num - 1
  OBVIOUS
<1> HIDE DEF counts
<1>6. \A i : SplitStart(i) = Cursor(counts, i)
  BY DEF SplitStart, counts
<1>7. \A k \in 1 .. num : counts[k] \in Nat
  BY <1>3, <1>5
<1>8. /\ \A i \in 0 .. num : SplitStart(i) \in Nat
      /\ \A i, j \in 0 .. num : i <= j => SplitStart(i) <= SplitStart(j)
  BY <1>6, <1>7, CursorMoves
<1>9. SplitStart(0) = 0
  BY <1>6, CursorSteps
<1>10. SplitStart(num) = TotalRows
  <2>1. \A k \in 1 .. num : counts[k] = b + (IF k - 1 < r THEN 1 ELSE 0)
    BY <1>2, <1>5
  <2>2. Cursor(counts, num) = num * b + r
    BY <1>1, <2>1, CursorOfCounts
  <2> QED
    BY <1>1, <1>6, <2>2
<1>11. ASSUME NEW i \in 0 .. num - 1
       PROVE  SplitEnd(i) = SplitStart(i) + SplitCount(i) /\ SplitStart(i + 1) = SplitEnd(i)
  <2>1. i \in Nat /\ i + 1 \in 1 .. num /\ (i + 1) - 1 = i
    OBVIOUS
  <2>2. Cursor(counts, i + 1) = Cursor(counts, i) + counts[i + 1]
    BY <2>1, CursorSteps
  <2> QED
    BY <1>5, <1>6, <2>1, <2>2 DEF SplitEnd
<1> QED
  BY <1>3, <1>4, <1>8, <1>9, <1>10, <1>11

(* The window of row groups of a split, which bisect finds: the groups     *)
(* before it end where the split begins or earlier, the groups after it    *)
(* begin where the split ends or later.                                    *)
LEMMA WindowOfSplit ==
    ASSUME sizes \in Sources, num \in Nat \ {0}, NEW i \in 0 .. num - 1
    PROVE  /\ FirstGroup(i) \in 0 .. Len(sizes) /\ LastGroup(i) \in 0 .. Len(sizes)
           /\ RowEnd(FirstGroup(i)) <= SplitStart(i)
           /\ \A k \in Groups : k > FirstGroup(i) => RowEnd(k) > SplitStart(i)
           /\ \A k \in Groups : k <= LastGroup(i) => RowEnd(k - 1) < SplitEnd(i)
           /\ \A k \in 0 .. Len(sizes) : k >= LastGroup(i) => RowEnd(k) >= SplitEnd(i)
<1> DEFINE N == Len(sizes)
           x == SplitStart(i)
           y == SplitEnd(i)
           before == {k \in 1 .. N : RowEnd(k) <= x}
           upto == {k \in 1 .. N : RowEnd(k - 1) < y}
<1>1. /\ N \in Nat /\ Groups = 1 .. N /\ TotalRows \in Nat
      /\ \A k \in 1 .. N : k - 1 \in 0 .. N /\ k \in 0 .. N /\ RowStart(k) = RowEnd(k - 1)
      /\ \A k \in 0 .. N : RowEnd(k) \in Nat
      /\ \A j, k \in 0 .. N : j <= k => RowEnd(j) <= RowEnd(k)
      /\ RowEnd(0) = 0 /\ RowEnd(N) = TotalRows
  BY GroupsMeet
<1>2. x \in Nat /\ y \in Nat /\ y <= TotalRows
  <2>1. i \in 0 .. num /\ i + 1 \in 0 .. num /\ num \in 0 .. num /\ i + 1 <= num
    OBVIOUS
  <2>2. SplitStart(i + 1) = y /\ SplitStart(num) = TotalRows /\ SplitStart(i + 1) <= SplitStart(num)
    BY <1>1, <2>1, SplitsMeet
  <2> QED
    BY <1>1, <2>1, <2>2, SplitsMeet
<1>3. FirstGroup(i) = Cardinality(before) /\ LastGroup(i) = Cardinality(upto)
  <2>1. {k \in DOMAIN Ends : Ends[k] <= x} = before
    BY <1>1 DEF Ends
  <2>2. {k \in DOMAIN Starts : Starts[k] < y} = upto
    BY <1>1 DEF Starts
  <2> QED
    BY <2>1, <2>2 DEF FirstGroup, LastGroup, BisectRight, BisectLeft
<1> HIDE DEF x, y, N
<1>4. Cardinality(before) \in 0 .. N /\ before = 1 .. Cardinality(before)
  <2>1. ASSUME NEW k \in before, NEW m \in 1 .. N, m < k PROVE m \in before
    <3>1. m \in 0 .. N /\ k \in 0 .. N /\ m <= k
      BY <1>1, <2>1
    <3>2. RowEnd(m) <= RowEnd(k) /\ RowEnd(k) <= x /\ RowEnd(m) \in Nat /\ RowEnd(k) \in Nat
      BY <1>1, <3>1
    <3> QED
      BY <1>2, <3>2
  <2>2. before \in SUBSET (1 .. N)
    OBVIOUS
  <2> HIDE DEF before
  <2> QED
    BY <1>1, <2>1, <2>2, FirstOnes
<1>5. Cardinality(upto) \in 0 .. N /\ upto = 1 .. Cardinality(upto)
  <2>1. ASSUME NEW k \in upto, NEW m \in 1 .. N, m < k PROVE m \in upto
    <3>1. m - 1 \in 0 .. N /\ k - 1 \in 0 .. N /\ m - 1 <= k - 1
      BY <1>1, <2>1
    <3>2. RowEnd(m - 1) <= RowEnd(k - 1) /\ RowEnd(k - 1) < y /\ RowEnd(m - 1) \in Nat /\ RowEnd(k - 1) \in Nat
      BY <1>1, <3>1
    <3> QED
      BY <1>2, <3>2
  <2>2. upto \in SUBSET (1 .. N)
    OBVIOUS
  <2> HIDE DEF upto
  <2> QED
    BY <1>1, <2>1, <2>2, FirstOnes
<1> DEFINE f == FirstGroup(i)
           l == LastGroup(i)
<1>6. f \in 0 .. N /\ l \in 0 .. N /\ before = 1 .. f /\ upto = 1 .. l
  BY <1>3, <1>4, <1>5
<1>7. \A k \in 1 .. N : k \in before <=> RowEnd(k) <= x
  OBVIOUS
<1>8. \A k \in 1 .. N : k \in upto <=> RowEnd(k - 1) < y
  OBVIOUS
<1> HIDE DEF f, l, before, upto
<1>9. RowEnd(f) <= x
  <2>1. CASE f = 0
    BY <1>1, <1>2, <2>1
  <2>2. CASE f # 0
    <3>1. f \in 1 .. N /\ f \in 1 .. f
      BY <1>6, <2>2
    <3> QED
      BY <1>6, <1>7, <3>1
  <2> QED
    BY <2>1, <2>2
<1>10. ASSUME NEW k \in 1 .. N, k > f PROVE RowEnd(k) > x
  <2>1. k \notin before
    BY <1>6, <1>10
  <2>2. RowEnd(k) \in Nat
    BY <1>1
  <2> QED
    BY <1>2, <1>7, <2>1, <2>2
<1>11. ASSUME NEW k \in 1 .. N, k <= l PROVE RowEnd(k - 1) < y
  <2>1. k \in upto
    BY <1>6, <1>11
  <2> QED
    BY <1>8, <2>1
<1>12. ASSUME NEW k \in 0 .. N, k >= l PROVE RowEnd(k) >= y
  <2>1. CASE k = N
    BY <1>1, <1>2, <2>1
  <2>2. CASE k # N
    <3>1. k + 1 \in 1 .. N /\ (k + 1) - 1 = k
      BY <1>1, <2>2
    <3>2. k + 1 \notin upto
      BY <1>6, <1>12
    <3>3. ~(RowEnd(k) < y)
      BY <1>8, <3>1, <3>2
    <3>4. RowEnd(k) \in Nat
      BY <1>1
    <3> QED
      BY <1>2, <3>3, <3>4
  <2> QED
    BY <2>1, <2>2
<1> QED
  BY <1>1, <1>6, <1>9, <1>10, <1>11, <1>12 DEF f, l, x, y, N

(* A place of the source, or the nearest one in split i. *)
Clip(i, k) == IF RowEnd(k) < SplitStart(i) THEN SplitStart(i)
              ELSE IF RowEnd(k) > SplitEnd(i) THEN SplitEnd(i) ELSE RowEnd(k)

(* What the loop slices out of a row group is its part of the split. *)
LEMMA SliceOfGroup ==
    ASSUME sizes \in Sources, num \in Nat \ {0}, split \in 0 .. num - 1,
           NEW k \in Groups, k > FirstGroup(split), k <= LastGroup(split)
    PROVE  /\ Clip(split, k - 1) \in Nat /\ Clip(split, k) \in Nat
           /\ Clip(split, k - 1) <= Clip(split, k)
           /\ SplitStart(split) <= Clip(split, k - 1) /\ Clip(split, k) <= SplitEnd(split)
           /\ RowStart(k) + LocalStart(k) = Clip(split, k - 1)
           /\ LocalEnd(k) - LocalStart(k) = Clip(split, k) - Clip(split, k - 1)
<1> DEFINE x == SplitStart(split)
           y == SplitEnd(split)
           s == RowEnd(k - 1)
           e == RowEnd(k)
<1>1. /\ s \in Nat /\ e \in Nat /\ s <= e /\ sizes[k] \in Nat /\ RowStart(k) = s /\ e = s + sizes[k]
  <2>1. k - 1 \in 0 .. Len(sizes) /\ k \in 0 .. Len(sizes) /\ k - 1 <= k
    BY GroupsMeet
  <2> QED
    BY <2>1, GroupsMeet
<1>2. x \in Nat /\ y \in Nat /\ x <= y
  <2>1. TotalRows \in Nat
    BY GroupsMeet
  <2>2. /\ split \in 0 .. num /\ SplitStart(split) \in Nat /\ SplitCount(split) \in Nat
        /\ SplitEnd(split) = SplitStart(split) + SplitCount(split)
    BY <2>1, SplitsMeet
  <2> QED
    BY <2>2
<1>3. e > x /\ s < y
  BY WindowOfSplit
<1>4. LocalStart(k) = IF 0 >= x - s THEN 0 ELSE x - s
  <2> DEFINE b == x - s
  <2>1. b \in Int /\ 0 \in Int
    BY <1>1, <1>2
  <2>2. LocalStart(k) = Max({0, b})
    BY <1>1 DEF LocalStart
  <2> HIDE DEF b
  <2>3. LocalStart(k) = IF 0 >= b THEN 0 ELSE b
    BY <2>1, <2>2, OfTwo
  <2> QED
    BY <2>3 DEF b
<1>5. LocalEnd(k) = IF sizes[k] <= y - s THEN sizes[k] ELSE y - s
  <2> DEFINE a == sizes[k]
             b == y - s
  <2>1. a \in Int /\ b \in Int
    BY <1>1, <1>2
  <2>2. LocalEnd(k) = Min({a, b})
    BY <1>1 DEF LocalEnd
  <2> HIDE DEF a, b
  <2>3. LocalEnd(k) = IF a <= b THEN a ELSE b
    BY <2>1, <2>2, OfTwo
  <2> QED
    BY <2>3 DEF a, b
<1>6. /\ Clip(split, k - 1) = IF s < x THEN x ELSE IF s > y THEN y ELSE s
      /\ Clip(split, k) = IF e < x THEN x ELSE IF e > y THEN y ELSE e
  BY DEF Clip
<1> HIDE DEF x, y, s, e
<1>7. Clip(split, k - 1) = (IF s < x THEN x ELSE s) /\ Clip(split, k) = (IF e > y THEN y ELSE e)
  BY <1>1, <1>2, <1>3, <1>6
<1>8. s + LocalStart(k) = IF s < x THEN x ELSE s
  BY <1>1, <1>2, <1>4
<1>9. s + LocalEnd(k) = IF e > y THEN y ELSE e
  BY <1>1, <1>2, <1>5
<1>10. LocalStart(k) \in Int /\ LocalEnd(k) \in Int
  BY <1>1, <1>2, <1>4, <1>5
<1>11. LocalEnd(k) - LocalStart(k) = Clip(split, k) - Clip(split, k - 1)
  BY <1>1, <1>7, <1>8, <1>9, <1>10
<1> QED
  BY <1>1, <1>2, <1>3, <1>7, <1>8, <1>11 DEF x, y

-----------------------------------------------------------------------------
(***************************************************************************)
(* The cut                                                                 *)
(***************************************************************************)
(* A row with its place in the source as its index, in the split that has  *)
(* that place.                                                             *)
Placed(t) ==
    \E s \in 0 .. num - 1 :
       \E p \in Nat : t = <<p, p, s>> /\ SplitStart(s) <= p /\ p < SplitEnd(s)

(* The rows before the cursor are written, each in its place; the cursor   *)
(* is as far as the row groups that were read, and a split that is through *)
(* is written unless it is empty.                                          *)
Progress ==
    /\ split < num => /\ rg \in FirstGroup(split) .. Len(sizes)
                      /\ current = Clip(split, rg)
                      /\ written = current - SplitStart(split)
    /\ split = num => current = TotalRows

RowsInPlace ==
    /\ \A t \in rows : Placed(t) /\ t[2] < current
    /\ \A p \in 0 .. current - 1 : \E t \in rows : t[2] = p

Results ==
    \A i \in 0 .. split - 1 : result[i] = IF SplitCount(i) > 0 THEN "written" ELSE "raised"

PlanInv == PlanTypeOK /\ Progress /\ RowsInPlace /\ Results

(* The plan does not change while it is carried out. *)
LEMMA PlanStays ==
    ASSUME UNCHANGED source
    PROVE  /\ sizes' = sizes /\ num' = num /\ Sources' = Sources
           /\ TotalRows' = TotalRows /\ Len(sizes)' = Len(sizes)
           /\ \A k : RowEnd(k)' = RowEnd(k)
           /\ \A i : /\ SplitCount(i)' = SplitCount(i) /\ SplitStart(i)' = SplitStart(i)
                     /\ SplitEnd(i)' = SplitEnd(i) /\ FirstGroup(i)' = FirstGroup(i)
           /\ \A i, k : Clip(i, k)' = Clip(i, k)
           /\ \A t : Placed(t)' <=> Placed(t)
<1>1. sizes' = sizes /\ num' = num
  BY DEF source
<1>2. \A k : RowEnd(k)' = RowEnd(k)
  BY <1>1 DEF RowEnd
<1>3. TotalRows' = TotalRows
  BY <1>1 DEF TotalRows, RowEnd
<1>4. \A i : SplitCount(i)' = SplitCount(i)
  BY <1>1, <1>3 DEF SplitCount
<1>5. \A i : SplitStart(i)' = SplitStart(i)
  <2>1. [j \in 1 .. num |-> SplitCount(j - 1)]' = [j \in 1 .. num |-> SplitCount(j - 1)]
    BY <1>1, <1>4
  <2> QED
    BY <2>1 DEF SplitStart
<1>6. \A i : SplitEnd(i)' = SplitEnd(i)
  BY <1>4, <1>5 DEF SplitEnd
<1>7. Ends' = Ends
  BY <1>1, <1>2 DEF Ends, Groups
<1>8. \A i : FirstGroup(i)' = FirstGroup(i)
  BY <1>5, <1>7 DEF FirstGroup
<1>9. \A i, k : Clip(i, k)' = Clip(i, k)
  BY <1>2, <1>5, <1>6 DEF Clip
<1>10. \A t : Placed(t)' <=> Placed(t)
  BY <1>1, <1>5, <1>6 DEF Placed
<1> QED
  BY <1>1, <1>2, <1>3, <1>4, <1>5, <1>6, <1>8, <1>9, <1>10 DEF Sources

(* A worker begins where its split begins. *)
LEMMA BeginsThere ==
    ASSUME sizes \in Sources, num \in Nat \ {0}, NEW i \in 0 .. num - 1
    PROVE  /\ FirstGroup(i) \in FirstGroup(i) .. Len(sizes) /\ FirstGroup(i) \in Nat
           /\ Clip(i, FirstGroup(i)) = SplitStart(i) /\ SplitStart(i) \in Nat
<1>1. FirstGroup(i) \in 0 .. Len(sizes) /\ Len(sizes) \in Nat /\ TotalRows \in Nat
  BY WindowOfSplit, GroupsMeet
<1>2. /\ SplitStart(i) \in Nat /\ SplitCount(i) \in Nat /\ SplitEnd(i) = SplitStart(i) + SplitCount(i)
  BY <1>1, SplitsMeet
<1>3. RowEnd(FirstGroup(i)) \in Nat /\ RowEnd(FirstGroup(i)) <= SplitStart(i)
  BY <1>1, WindowOfSplit, GroupsMeet
<1>4. Clip(i, FirstGroup(i)) = SplitStart(i)
  BY <1>2, <1>3 DEF Clip
<1> QED
  BY <1>1, <1>2, <1>4

LEMMA InitPlan == PlanInit => PlanInv
<1> SUFFICES ASSUME PlanInit PROVE PlanInv
  OBVIOUS
<1>1. /\ sizes \in Sources /\ num \in 1 .. MaxSplits /\ split = 0
      /\ rg = FirstGroup(0) /\ current = SplitStart(0)
      /\ rows = {} /\ written = 0 /\ result = [i \in 0 .. num - 1 |-> "todo"]
  BY DEF PlanInit, Begin
<1>2. num \in Nat \ {0} /\ 0 \in 0 .. num - 1
  BY <1>1, PlanAssumption DEF PlanAssumption
<1>3. /\ FirstGroup(0) \in FirstGroup(0) .. Len(sizes) /\ FirstGroup(0) \in Nat
      /\ Clip(0, FirstGroup(0)) = SplitStart(0) /\ SplitStart(0) = 0
  BY <1>1, <1>2, BeginsThere, GroupsMeet, SplitsMeet
<1>4. PlanTypeOK
  BY <1>1, <1>2, <1>3 DEF PlanTypeOK
<1>5. Progress
  BY <1>1, <1>2, <1>3 DEF Progress
<1>6. RowsInPlace
  BY <1>1, <1>3 DEF RowsInPlace
<1>7. Results
  BY <1>1 DEF Results
<1> QED
  BY <1>4, <1>5, <1>6, <1>7 DEF PlanInv

LEMMA ReadGroupStep ==
    ASSUME PlanInv, ReadGroup
    PROVE  PlanInv'
<1> DEFINE k == rg + 1
           n == LocalEnd(k) - LocalStart(k)
           next == current + n
<1>1. /\ split < num /\ rg < LastGroup(split) /\ rg' = k
      /\ rows' = rows \cup {<<current + j, RowStart(k) + LocalStart(k) + j, split>> : j \in 0 .. n - 1}
      /\ current' = next /\ written' = written + n
      /\ UNCHANGED source /\ split' = split /\ result' = result
  BY DEF ReadGroup
<1>2. /\ sizes \in Sources /\ num \in 1 .. MaxSplits /\ split \in 0 .. num /\ rg \in Nat
      /\ current \in Nat /\ written \in Nat /\ rows \subseteq Nat \X Nat \X Nat
      /\ result \in [0 .. num - 1 -> {"todo", "written", "raised"}]
      /\ Progress /\ RowsInPlace /\ Results
  BY DEF PlanInv, PlanTypeOK
<1>3. num \in Nat \ {0} /\ split \in 0 .. num - 1 /\ Len(sizes) \in Nat
  BY <1>1, <1>2, GroupsMeet, PlanAssumption DEF PlanAssumption
<1>4. /\ rg \in FirstGroup(split) .. Len(sizes) /\ current = Clip(split, rg)
      /\ written = current - SplitStart(split)
  BY <1>1, <1>2 DEF Progress
<1>5. /\ k \in Groups /\ k > FirstGroup(split) /\ k <= LastGroup(split)
      /\ k \in FirstGroup(split) .. Len(sizes) /\ k \in Nat /\ k - 1 = rg
  <2> DEFINE f == FirstGroup(split)
             l == LastGroup(split)
             N == Len(sizes)
  <2>1. f \in 0 .. N /\ l \in 0 .. N
    BY <1>2, <1>3, WindowOfSplit
  <2>2. Groups = 1 .. N /\ N \in Nat
    BY <1>2, GroupsMeet
  <2>3. rg \in f .. N /\ rg < l /\ rg \in Nat
    BY <1>1, <1>2, <1>4
  <2> HIDE DEF f, l, N
  <2>4. k \in 1 .. N /\ k > f /\ k <= l /\ k \in f .. N /\ k \in Nat /\ k - 1 = rg
    BY <2>1, <2>2, <2>3
  <2> QED
    BY <2>2, <2>4 DEF f, l, N
<1>6. /\ Clip(split, k) \in Nat /\ current <= Clip(split, k)
      /\ SplitStart(split) <= current /\ Clip(split, k) <= SplitEnd(split)
      /\ RowStart(k) + LocalStart(k) = current /\ n = Clip(split, k) - current
  <2>1. k - 1 = rg
    BY <1>5
  <2> HIDE DEF k
  <2> QED
    BY <1>2, <1>3, <1>4, <1>5, <2>1, SliceOfGroup
<1> HIDE DEF k, n
<1>7. n \in Nat /\ next = Clip(split, k) /\ next \in Nat /\ next = current + n
  BY <1>2, <1>6
<1>8. rows' = rows \cup {<<current + j, current + j, split>> : j \in 0 .. n - 1}
  BY <1>1, <1>6
<1>9. /\ SplitStart(split) \in Nat /\ SplitEnd(split) \in Nat
  <2>1. TotalRows \in Nat
    BY <1>2, GroupsMeet
  <2>2. /\ split \in 0 .. num /\ SplitStart(split) \in Nat /\ SplitCount(split) \in Nat
        /\ SplitEnd(split) = SplitStart(split) + SplitCount(split)
    BY <1>3, <2>1, SplitsMeet
  <2> QED
    BY <2>2
<1> HIDE DEF next
<1>10. /\ \A t \in rows : Placed(t) /\ t[2] < current
       /\ \A p \in 0 .. current - 1 : \E t \in rows : t[2] = p
  BY <1>2 DEF RowsInPlace
<1>11. ASSUME NEW t \in rows' PROVE Placed(t) /\ t[2] < next /\ t \in Nat \X Nat \X Nat
  <2>1. CASE t \in rows
    <3>1. t \in Nat \X Nat \X Nat /\ t[2] \in Nat
      BY <1>2, <2>1
    <3>2. Placed(t) /\ t[2] < current
      BY <1>10, <2>1
    <3> QED
      BY <1>2, <1>6, <1>7, <3>1, <3>2
  <2>2. CASE t \notin rows
    <3>1. PICK j \in 0 .. n - 1 : t = <<current + j, current + j, split>>
      BY <1>8, <2>2
    <3> DEFINE p == current + j
    <3>2. p \in Nat /\ SplitStart(split) <= p /\ p < next /\ p < SplitEnd(split)
      <4> DEFINE x == SplitStart(split)
                 y == SplitEnd(split)
      <4>1. x \in Nat /\ y \in Nat /\ x <= current /\ next <= y
        BY <1>6, <1>7, <1>9
      <4>2. current \in Nat /\ n \in Nat /\ next = current + n
        BY <1>2, <1>7
      <4> HIDE DEF x, y
      <4>3. p \in Nat /\ x <= p /\ p < next /\ p < y
        BY <4>1, <4>2
      <4> QED
        BY <4>3 DEF x, y
    <3>3. t = <<p, p, split>> /\ t[2] = p
      BY <3>1
    <3> HIDE DEF p
    <3>4. Placed(t)
      BY <1>3, <3>2, <3>3 DEF Placed
    <3> QED
      BY <1>3, <3>2, <3>3, <3>4
  <2> QED
    BY <2>1, <2>2
<1>12. ASSUME NEW p \in 0 .. next - 1 PROVE \E t \in rows' : t[2] = p
  <2>1. CASE p < current
    <3>1. p \in 0 .. current - 1
      BY <1>2, <2>1
    <3> QED
      BY <1>8, <1>10, <3>1
  <2>2. CASE p >= current
    <3>1. p - current \in 0 .. n - 1 /\ current + (p - current) = p
      <4>1. current \in Nat /\ n \in Nat /\ next = current + n
        BY <1>2, <1>7
      <4> QED
        BY <2>2, <4>1
    <3>2. <<p, p, split>> \in rows'
      BY <1>8, <3>1
    <3> QED
      BY <3>2
  <2> QED
    BY <1>2, <2>1, <2>2
<1>13. /\ sizes' = sizes /\ num' = num /\ Sources' = Sources /\ Len(sizes)' = Len(sizes)
       /\ \A i : /\ SplitCount(i)' = SplitCount(i) /\ SplitStart(i)' = SplitStart(i)
                 /\ FirstGroup(i)' = FirstGroup(i)
       /\ \A i, m : Clip(i, m)' = Clip(i, m)
       /\ \A t : Placed(t)' <=> Placed(t)
  BY <1>1, PlanStays
<1>14. PlanTypeOK'
  <2>1. written' \in Nat
    BY <1>1, <1>2, <1>7
  <2>2. rows' \subseteq Nat \X Nat \X Nat
    BY <1>11
  <2> QED
    BY <1>1, <1>2, <1>5, <1>7, <1>13, <2>1, <2>2 DEF PlanTypeOK
<1>15. Progress'
  <2>1. written' = next - SplitStart(split)
    <3> DEFINE x == SplitStart(split)
    <3>1. x \in Nat /\ written = current - x /\ written' = written + n
      BY <1>1, <1>4, <1>9
    <3> HIDE DEF x
    <3>2. written' = next - x
      BY <1>2, <1>7, <3>1
    <3> QED
      BY <3>2 DEF x
  <2>2. split' < num' /\ rg' \in FirstGroup(split') .. Len(sizes') /\ current' = Clip(split', rg')
    BY <1>1, <1>5, <1>7, <1>13
  <2>3. (rg \in FirstGroup(split) .. Len(sizes) /\ current = Clip(split, rg)
         /\ written = current - SplitStart(split))'
    BY <1>1, <1>5, <1>7, <1>13, <2>1
  <2> QED
    BY <1>1, <1>2, <1>13, <2>2, <2>3 DEF Progress
<1>16. RowsInPlace'
  BY <1>1, <1>11, <1>12, <1>13 DEF RowsInPlace
<1>17. Results'
  BY <1>1, <1>2, <1>13 DEF Results
<1> QED
  BY <1>14, <1>15, <1>16, <1>17 DEF PlanInv

LEMMA EndSplitStep ==
    ASSUME PlanInv, EndSplit
    PROVE  PlanInv'
<1> DEFINE next == split + 1
<1>1. /\ split < num /\ rg >= LastGroup(split) /\ split' = next /\ written' = 0 /\ rows' = rows
      /\ result' = [result EXCEPT ![split] =
                       IF written = SplitCount(split) /\ written > 0 THEN "written" ELSE "raised"]
      /\ next < num => rg' = FirstGroup(next) /\ current' = SplitStart(next)
      /\ ~(next < num) => rg' = rg /\ current' = current
      /\ UNCHANGED source
  BY DEF EndSplit, Begin
<1>2. /\ sizes \in Sources /\ num \in 1 .. MaxSplits /\ split \in 0 .. num /\ rg \in Nat
      /\ current \in Nat /\ written \in Nat /\ rows \subseteq Nat \X Nat \X Nat
      /\ result \in [0 .. num - 1 -> {"todo", "written", "raised"}]
      /\ Progress /\ RowsInPlace /\ Results
  BY DEF PlanInv, PlanTypeOK
<1>3. num \in Nat \ {0} /\ split \in 0 .. num - 1 /\ Len(sizes) \in Nat
  BY <1>1, <1>2, GroupsMeet, PlanAssumption DEF PlanAssumption
<1>4. /\ rg \in FirstGroup(split) .. Len(sizes) /\ current = Clip(split, rg)
      /\ written = current - SplitStart(split)
  BY <1>1, <1>2 DEF Progress
<1>5. /\ TotalRows \in Nat /\ SplitStart(split) \in Nat /\ SplitCount(split) \in Nat
      /\ SplitEnd(split) = SplitStart(split) + SplitCount(split)
      /\ SplitStart(next) = SplitEnd(split) /\ SplitStart(num) = TotalRows
  <2>1. TotalRows \in Nat
    BY <1>2, GroupsMeet
  <2>2. split \in 0 .. num
    BY <1>2
  <2> QED
    BY <1>3, <2>1, <2>2, SplitsMeet
(* All of the split has been read: *)
<1>6. current = SplitEnd(split) /\ written = SplitCount(split)
  <2> DEFINE x == SplitStart(split)
             y == SplitEnd(split)
             e == RowEnd(rg)
             c == SplitCount(split)
  <2>1. rg \in 0 .. Len(sizes)
    BY <1>2, <1>3, <1>4
  <2>2. e \in Nat /\ e >= y
    BY <1>1, <1>2, <1>3, <2>1, WindowOfSplit, GroupsMeet
  <2>3. current = IF e < x THEN x ELSE IF e > y THEN y ELSE e
    BY <1>4 DEF Clip
  <2>4. x \in Nat /\ c \in Nat /\ y = x + c /\ written = current - x
    BY <1>4, <1>5
  <2> HIDE DEF x, y, e, c
  <2>5. current = y /\ written = c
    BY <2>2, <2>3, <2>4
  <2> QED
    BY <2>5 DEF y, c
<1>7. next \in 0 .. num /\ next \in Nat /\ (next < num => next \in 0 .. num - 1) /\ (~(next < num) => next = num)
  BY <1>3
<1>8. /\ sizes' = sizes /\ num' = num /\ Sources' = Sources /\ Len(sizes)' = Len(sizes) /\ TotalRows' = TotalRows
      /\ \A i : /\ SplitCount(i)' = SplitCount(i) /\ SplitStart(i)' = SplitStart(i)
                /\ FirstGroup(i)' = FirstGroup(i)
      /\ \A i, m : Clip(i, m)' = Clip(i, m)
      /\ \A t : Placed(t)' <=> Placed(t)
  BY <1>1, PlanStays
<1>9. current' = current
  BY <1>1, <1>5, <1>6
<1>10. next < num => /\ FirstGroup(next) \in FirstGroup(next) .. Len(sizes) /\ FirstGroup(next) \in Nat
                     /\ Clip(next, FirstGroup(next)) = SplitStart(next) /\ SplitStart(next) \in Nat
  <2> HIDE DEF next
  <2> QED
    BY <1>2, <1>3, <1>7, BeginsThere
<1> HIDE DEF next
<1>11. PlanTypeOK'
  <2>1. rg' \in Nat
    BY <1>1, <1>2, <1>10
  <2>2. result' \in [0 .. num - 1 -> {"todo", "written", "raised"}]
    BY <1>1, <1>2
  <2> QED
    BY <1>1, <1>2, <1>7, <1>8, <1>9, <2>1, <2>2 DEF PlanTypeOK
<1>12. Progress'
  <2>1. CASE next < num
    <3>1. (rg \in FirstGroup(split) .. Len(sizes))'
      BY <1>1, <1>8, <1>10, <2>1
    <3>2. (current = Clip(split, rg))'
      BY <1>1, <1>8, <1>10, <2>1
    <3>3. (written = current - SplitStart(split))'
      <4>1. current' = SplitStart(next) /\ SplitStart(next) \in Nat
        BY <1>1, <1>10, <2>1
      <4>2. SplitStart(next) - SplitStart(next) = 0
        BY <4>1
      <4>3. SplitStart(split)' = SplitStart(next)
        BY <1>1, <1>8
      <4> QED
        BY <1>1, <4>1, <4>2, <4>3
    <3>4. next # num
      BY <1>2, <1>7, <2>1
    <3> QED
      BY <1>1, <1>8, <3>1, <3>2, <3>3, <3>4 DEF Progress
  <2>2. CASE ~(next < num)
    <3>1. next = num /\ current' = TotalRows
      BY <1>5, <1>6, <1>7, <1>9, <2>2
    <3> QED
      BY <1>1, <1>8, <2>2, <3>1 DEF Progress
  <2> QED
    BY <2>1, <2>2
<1>13. RowsInPlace'
  BY <1>1, <1>2, <1>8, <1>9 DEF RowsInPlace
<1>14. Results'
  <2> SUFFICES ASSUME NEW i \in 0 .. next - 1
               PROVE  result'[i] = IF SplitCount(i) > 0 THEN "written" ELSE "raised"
    BY <1>1, <1>8 DEF Results
  <2>1. i \in 0 .. num - 1 /\ next = split + 1
    BY <1>3, <1>7 DEF next
  <2>2. CASE i = split
    BY <1>1, <1>2, <1>6, <2>1, <2>2
  <2>3. CASE i # split
    <3>1. i \in 0 .. split - 1
      BY <1>3, <2>1, <2>3
    <3>2. result'[i] = result[i]
      BY <1>1, <1>2, <2>1, <2>3
    <3> QED
      BY <1>2, <3>1, <3>2 DEF Results
  <2> QED
    BY <2>2, <2>3
<1> QED
  BY <1>11, <1>12, <1>13, <1>14 DEF PlanInv

LEMMA IdlePlan == PlanInv /\ UNCHANGED planVars => PlanInv'
<1> SUFFICES ASSUME PlanInv, UNCHANGED planVars PROVE PlanInv'
  OBVIOUS
<1>1. /\ sizes' = sizes /\ num' = num /\ split' = split /\ rg' = rg /\ current' = current
      /\ rows' = rows /\ written' = written /\ result' = result /\ UNCHANGED source
  BY DEF planVars, source
<1>2. /\ Sources' = Sources /\ Len(sizes)' = Len(sizes) /\ TotalRows' = TotalRows
      /\ \A i : /\ SplitCount(i)' = SplitCount(i) /\ SplitStart(i)' = SplitStart(i)
                /\ FirstGroup(i)' = FirstGroup(i)
      /\ \A i, m : Clip(i, m)' = Clip(i, m)
      /\ \A t : Placed(t)' <=> Placed(t)
  BY <1>1, PlanStays
<1>3. PlanTypeOK'
  BY <1>1, <1>2 DEF PlanInv, PlanTypeOK
<1>4. Progress'
  BY <1>1, <1>2 DEF PlanInv, Progress
<1>5. RowsInPlace'
  BY <1>1, <1>2 DEF PlanInv, RowsInPlace
<1>6. Results'
  BY <1>1, <1>2 DEF PlanInv, Results
<1> QED
  BY <1>3, <1>4, <1>5, <1>6 DEF PlanInv

LEMMA PlanInvariance == PlanSpec => []PlanInv
<1>1. PlanInit => PlanInv
  BY InitPlan
<1>2. PlanInv /\ [PlanNext]_planVars => PlanInv'
  BY ReadGroupStep, EndSplitStep, IdlePlan DEF PlanNext
<1> QED
  BY <1>1, <1>2, PTL DEF PlanSpec

(* The variables of SplitPlan keep their types, for every source and every *)
(* number of splits.                                                       *)
THEOREM PlanTypeCorrect == PlanSpec => []PlanTypeOK
<1>1. PlanInv => PlanTypeOK
  BY DEF PlanInv
<1> QED
  BY <1>1, PlanInvariance, PTL

(* The index of a row is its place in the source: build_split_worker       *)
(* numbers the rows of a split from its start, over all the row groups of  *)
(* its window.                                                             *)
THEOREM IndexIsSourceRowHolds == PlanSpec => []IndexIsSourceRow
<1>1. ASSUME PlanInv, NEW t \in rows PROVE t[1] = t[2]
  <2>1. Placed(t)
    BY <1>1 DEF PlanInv, RowsInPlace
  <2> QED
    BY <2>1 DEF Placed
<1>2. PlanInv => IndexIsSourceRow
  BY <1>1 DEF IndexIsSourceRow
<1> QED
  BY <1>2, PlanInvariance, PTL

(* The splits partition the source: together they hold every row, and in   *)
(* the order of the source.                                                *)
THEOREM PartitionInOrderHolds == PlanSpec => []PartitionInOrder
<1>1. ASSUME PlanInv, split = num PROVE PartitionInOrder
  <2>1. /\ sizes \in Sources /\ num \in Nat \ {0} /\ current = TotalRows /\ TotalRows \in Nat
        /\ RowsInPlace
    BY <1>1, GroupsMeet, PlanAssumption DEF PlanInv, PlanTypeOK, Progress, PlanAssumption
  <2>2. ASSUME NEW t \in rows PROVE t[2] \in 0 .. TotalRows - 1
    <3>1. Placed(t) /\ t[2] < TotalRows
      BY <2>1 DEF RowsInPlace
    <3> QED
      BY <2>1, <3>1 DEF Placed
  <2>3. ASSUME NEW p \in 0 .. TotalRows - 1 PROVE \E t \in rows : t[2] = p
    BY <2>1 DEF RowsInPlace
  <2>4. ASSUME NEW t \in rows, NEW u \in rows, t[2] <= u[2] PROVE t[3] <= u[3]
    <3>1. PICK a \in 0 .. num - 1, p \in Nat : t = <<p, p, a>> /\ SplitStart(a) <= p
      BY <2>1 DEF RowsInPlace, Placed
    <3>2. PICK b \in 0 .. num - 1, q \in Nat : u = <<q, q, b>> /\ q < SplitEnd(b)
      BY <2>1 DEF RowsInPlace, Placed
    <3>3. p <= q /\ t[3] = a /\ u[3] = b
      BY <2>4, <3>1, <3>2
    <3> SUFFICES ASSUME ~(a <= b) PROVE FALSE
      BY <3>3
    <3>4. a \in 0 .. num /\ b + 1 \in 0 .. num /\ b + 1 <= a
      BY <2>1
    <3>5. /\ SplitStart(b + 1) = SplitEnd(b) /\ SplitStart(b + 1) <= SplitStart(a)
          /\ SplitStart(a) \in Nat /\ SplitStart(b + 1) \in Nat
      BY <2>1, <3>4, SplitsMeet
    <3> QED
      BY <3>1, <3>2, <3>3, <3>5
  <2>5. {t[2] : t \in rows} = 0 .. TotalRows - 1
    BY <2>2, <2>3
  <2> QED
    BY <2>4, <2>5 DEF PartitionInOrder
<1>2. PlanInv => PartitionInOrder
  BY <1>1 DEF PartitionInOrder
<1> QED
  BY <1>2, PlanInvariance, PTL

(* The check of the row count never fires on a split that has rows: a      *)
(* split raises if and only if the source has too few rows to reach it.    *)
THEOREM RaisesOnlyWhenEmptyHolds == PlanSpec => []RaisesOnlyWhenEmpty
<1>1. ASSUME PlanInv, NEW i \in 0 .. split - 1 PROVE result[i] = "raised" <=> i >= TotalRows
  <2>1. /\ sizes \in Sources /\ num \in Nat \ {0} /\ split \in 0 .. num /\ TotalRows \in Nat
        /\ Results
    BY <1>1, GroupsMeet, PlanAssumption DEF PlanInv, PlanTypeOK, PlanAssumption
  <2>2. i \in 0 .. num - 1
    BY <2>1
  <2>3. SplitCount(i) \in Nat /\ (SplitCount(i) = 0 <=> i >= TotalRows)
    BY <2>1, <2>2, SplitsMeet
  <2>4. result[i] = IF SplitCount(i) > 0 THEN "written" ELSE "raised"
    BY <2>1 DEF Results
  <2> DEFINE c == SplitCount(i)
  <2> HIDE DEF c
  <2>5. c > 0 <=> c # 0
    BY <2>3 DEF c
  <2> QED
    BY <2>3, <2>4, <2>5 DEF c
<1>2. PlanInv => RaisesOnlyWhenEmpty
  BY <1>1 DEF RaisesOnlyWhenEmpty
<1> QED
  BY <1>2, PlanInvariance, PTL
=============================================================================
