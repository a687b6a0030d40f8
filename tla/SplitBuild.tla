------------------------------ MODULE SplitBuild ------------------------------
(***************************************************************************)
(* split.py, which prepares the numeric parquet files of a stage, run      *)
(* again and again by the operator with --resume, --overwrite, both or     *)
(* neither, over whatever an earlier run left behind, and possibly killed. *)
(*   "file"       one source file is cut (SplitPlan) by a pool of          *)
(*                processes; each writes a temporary file and renames it.  *)
(*   "directory"  the source is a directory of numeric files, each of which *)
(*                is hard-linked or, on another file system, copied.       *)
(* A kill ends the program with its pool.  SPLIT_SUMMARY.txt is read by no *)
(* program of the pipeline and left out.                                   *)
(***************************************************************************)
EXTENDS Naturals, FiniteSets, FiniteSetsExt

CONSTANTS
    Splits,      \* 0 .. num_splits - 1
    Setups,      \* what the configuration may say of the source
    Leftovers,   \* what earlier runs may have left: subset of Contents
    Workers,     \* processes of the pool
    MaxRuns,     \* bound: starts of the program
    MaxFailures  \* bound: kills, and writes that fail

(* A source file, with the splits that get no row of it; a source          *)
(* directory that os.link can link from, or cannot, being on another file  *)
(* system; splits_dir itself as the source directory.                      *)
FileSetups == [kind : {"file"}, empty : SUBSET Splits]
DirSetups  == [kind : {"linked", "copied", "inplace"}, empty : {{}}]

(* whole: the right rows, complete.  lookalike: as many rows, but others,  *)
(* of another source.  othercut: a readable file with another number of    *)
(* rows.  torn: not a parquet file.                                        *)
Contents == {"absent", "whole", "lookalike", "othercut", "torn"}

ASSUME ConstantsAssumption ==
    /\ Splits \subseteq Nat /\ IsFiniteSet(Splits)
    /\ Setups \subseteq FileSetups \cup DirSetups
    /\ Leftovers \subseteq Contents
    /\ Workers \in Nat \ {0}

VARIABLES
    setup,     \* the configuration, which does not change
    pc,        \* "idle", "clear", "work", "failed", "done"
    opts,      \* the options of the current run
    dst,       \* split -> what is at splits_dir/<split>.parquet
    src,       \* split -> what is in the source directory
    todo,      \* splits the loop has not come to yet
    pool,      \* splits submitted to the pool and not begun
    busy,      \* splits being written, or the split being copied
    broken,    \* some worker raised
    kept,      \* splits that this run found complete and passed over
    runs, failures

run    == <<setup, pc, opts>>
work   == <<todo, pool, busy, broken, kept>>
bounds == <<runs, failures>>
vars   == <<run, dst, src, work, bounds>>

FileMode == setup.kind = "file"
Source == IF setup.kind = "inplace" THEN dst ELSE src

TypeOK ==
    /\ setup \in Setups
    /\ pc \in {"idle", "clear", "work", "failed", "done"}
    /\ opts \subseteq {"resume", "overwrite"}
    /\ dst \in [Splits -> Contents] /\ src \in [Splits -> Contents]
    /\ todo \subseteq Splits /\ pool \subseteq Splits /\ busy \subseteq Splits
    /\ broken \in BOOLEAN /\ kept \subseteq Splits
    /\ runs \in Nat /\ failures \in Nat

Init ==
    /\ pc = "idle" /\ opts = {}
    /\ setup \in Setups
    /\ dst \in [Splits -> IF setup.kind = "inplace" THEN {"whole"} ELSE Leftovers]
    /\ \A s \in setup.empty : dst[s] \notin {"whole", "lookalike"}  \* no file without rows is written
    /\ src = [s \in Splits |-> "whole"]
    /\ todo = {} /\ pool = {} /\ busy = {} /\ broken = FALSE /\ kept = {}
    /\ runs = 0 /\ failures = 0

Numeric(files) == {s \in Splits : files[s] # "absent"}

-----------------------------------------------------------------------------
(* Files that are there already need --resume or --overwrite. *)
Start ==
    /\ pc \in {"idle", "failed", "done"} /\ runs < MaxRuns
    /\ opts' \in SUBSET {"resume", "overwrite"}
    /\ pc' = IF Numeric(dst) # {} /\ opts' = {} THEN "failed" ELSE "clear"
    /\ todo' = IF "overwrite" \in opts' THEN Numeric(dst) ELSE {}
    /\ pool' = {} /\ busy' = {} /\ broken' = FALSE /\ kept' = {}
    /\ runs' = runs + 1
    /\ UNCHANGED <<setup, dst, src, failures>>

(* --overwrite unlinks the numeric files one after the other. *)
Unlink ==
    /\ pc = "clear" /\ todo # {}
    /\ dst' = [dst EXCEPT ![Min(todo)] = "absent"]
    /\ todo' = todo \ {Min(todo)}
    /\ UNCHANGED <<run, src, pool, busy, broken, kept, bounds>>

(* A source directory has to hold num_splits numeric files. *)
Open ==
    /\ pc = "clear" /\ todo = {}
    /\ IF ~FileMode /\ Numeric(Source) # Splits
       THEN pc' = "failed" /\ UNCHANGED todo
       ELSE pc' = "work" /\ todo' = Splits
    /\ UNCHANGED <<setup, opts, dst, src, pool, busy, broken, kept, bounds>>

(***************************************************************************)
(* Directory mode                                                          *)
(***************************************************************************)
(* --resume takes every file that exists for complete: it is not opened. *)
Skipped(s) == "resume" \in opts /\ dst[s] # "absent"

Skip ==
    /\ ~FileMode /\ pc = "work" /\ busy = {}
    /\ todo # {} /\ Skipped(Min(todo))
    /\ todo' = todo \ {Min(todo)} /\ kept' = kept \cup {Min(todo)}
    /\ UNCHANGED <<run, dst, src, pool, busy, broken, bounds>>

(* os.link is atomic; shutil.copy2 begins with a truncated file. *)
LinkOrCopy ==
    LET s == Min(todo) IN
    \/ setup.kind = "linked" /\ dst' = [dst EXCEPT ![s] = Source[s]] /\ UNCHANGED busy
    \/ setup.kind # "linked" /\ dst' = [dst EXCEPT ![s] = "torn"]    /\ busy' = {s}

Place ==
    /\ ~FileMode /\ pc = "work" /\ busy = {}
    /\ todo # {} /\ ~Skipped(Min(todo))
    /\ LinkOrCopy
    /\ todo' = todo \ {Min(todo)}
    /\ UNCHANGED <<run, src, pool, broken, kept, bounds>>

CopyEnds ==
    /\ ~FileMode /\ pc = "work"
    /\ \E s \in busy : dst' = [dst EXCEPT ![s] = Source[s]]
    /\ busy' = {}
    /\ UNCHANGED <<run, src, todo, pool, broken, kept, bounds>>

(***************************************************************************)
(* File mode                                                               *)
(***************************************************************************)
(* Mutants: any readable file is good; nothing is. *)
ValidIfReadable(s) == dst[s] \in {"whole", "lookalike", "othercut"}
NeverValid(s) == FALSE

(* valid_split: the file can be opened and has the expected number of rows. *)
ValidSplit(s) == dst[s] \in {"whole", "lookalike"}

Submit ==
    /\ FileMode /\ pc = "work" /\ todo # {}
    /\ LET s == Min(todo) IN
       /\ todo' = todo \ {s}
       /\ \/ /\ "resume" \in opts /\ ValidSplit(s)
             /\ kept' = kept \cup {s}
             /\ UNCHANGED <<dst, pool>>
          \/ /\ ~("resume" \in opts /\ ValidSplit(s))
             /\ pool' = pool \cup {s}
             /\ dst' = IF "resume" \in opts THEN [dst EXCEPT ![s] = "absent"] ELSE dst
             /\ UNCHANGED kept
    /\ UNCHANGED <<run, src, busy, broken, bounds>>

(* Mutant: the worker writes to the final path. *)
BeginWriteInPlace ==
    /\ FileMode /\ pc = "work" /\ Cardinality(busy) < Workers
    /\ \E s \in pool : /\ pool' = pool \ {s} /\ busy' = busy \cup {s}
                       /\ dst' = [dst EXCEPT ![s] = "torn"]
    /\ UNCHANGED <<run, src, todo, broken, kept, bounds>>

(* Mutant: the pool takes no more work once a worker has raised. *)
BeginWriteUnlessBroken ==
    /\ FileMode /\ pc = "work" /\ Cardinality(busy) < Workers /\ ~broken
    /\ \E s \in pool : pool' = pool \ {s} /\ busy' = busy \cup {s}
    /\ UNCHANGED <<run, dst, src, todo, broken, kept, bounds>>

BeginWrite ==
    /\ FileMode /\ pc = "work" /\ Cardinality(busy) < Workers
    /\ \E s \in pool : pool' = pool \ {s} /\ busy' = busy \cup {s}
    /\ UNCHANGED <<run, dst, src, todo, broken, kept, bounds>>

(* Mutant: the temporary file is touched first, so that it always exists. *)
EndWriteTouched ==
    /\ FileMode /\ pc = "work"
    /\ \E s \in busy : busy' = busy \ {s} /\ dst' = [dst EXCEPT ![s] = "whole"]
    /\ UNCHANGED <<run, src, todo, pool, broken, kept, bounds>>

(* The temporary file is renamed; there is none if no row was written. *)
EndWrite ==
    /\ FileMode /\ pc = "work"
    /\ \E s \in busy :
          /\ busy' = busy \ {s}
          /\ \/ s \notin setup.empty /\ dst' = [dst EXCEPT ![s] = "whole"] /\ UNCHANGED broken
             \/ s \in setup.empty /\ broken' = TRUE /\ UNCHANGED dst
    /\ UNCHANGED <<run, src, todo, pool, kept, bounds>>

WriteFails ==
    /\ FileMode /\ pc = "work" /\ failures < MaxFailures
    /\ \E s \in busy : busy' = busy \ {s}
    /\ broken' = TRUE /\ failures' = failures + 1
    /\ UNCHANGED <<run, dst, src, todo, pool, kept, runs>>

(* fut.result() raises, but leaving the pool waits for every other split. *)
Finish ==
    /\ pc = "work" /\ todo = {} /\ pool = {} /\ busy = {}
    /\ pc' = IF broken THEN "failed" ELSE "done"
    /\ UNCHANGED <<setup, opts, dst, src, work, bounds>>

Killed ==
    /\ pc \in {"clear", "work"} /\ failures < MaxFailures
    /\ pc' = "idle" /\ todo' = {} /\ pool' = {} /\ busy' = {}
    /\ failures' = failures + 1
    /\ UNCHANGED <<setup, opts, dst, src, broken, kept, runs>>

Next ==
    \/ Start \/ Unlink \/ Open
    \/ Skip \/ Place \/ CopyEnds
    \/ Submit \/ BeginWrite \/ EndWrite \/ WriteFails
    \/ Finish \/ Killed

Spec == Init /\ [][Next]_vars

(* A run that is not killed goes on. *)
FairSpec ==
    /\ Spec
    /\ WF_vars(Unlink \/ Open \/ Skip \/ Place \/ CopyEnds \/ Submit \/ BeginWrite \/ EndWrite \/ Finish)

-----------------------------------------------------------------------------
(* A run that ends well leaves every numeric file whole, whatever options  *)
(* and leftovers it started from and however the runs before it ended.     *)
(* The one exception is what --resume alone passed over.  Where the source *)
(* is a directory, a file that was there is trusted unread, be it another  *)
(* cut, another source's or torn by an interrupted copy; where it is a     *)
(* file, only one with as many rows as this split.                         *)
Trusted(s) ==
    /\ opts = {"resume"} /\ s \in kept
    /\ setup.kind # "inplace" /\ (FileMode => dst[s] = "lookalike")

DoneMeansPrepared ==
    pc = "done" => \A s \in Splits : dst[s] = "whole" \/ Trusted(s)

(* No launcher started meanwhile ever meets a half-written numeric file    *)
(* of this program's making, unless it is being copied.                    *)
NeverTorn ==
    [][setup.kind # "copied" => \A s \in Splits : dst'[s] = "torn" => dst[s] = "torn"]_vars

(* --resume alone never gives up a split that is complete. *)
ResumeKeepsWhole ==
    [][\A s \in Splits : dst[s] = "whole" /\ "overwrite" \notin opts => dst'[s] = "whole"]_vars

(* Two configurations never end well, however often they are run: a source *)
(* with fewer rows than splits, and --overwrite in place, which unlinks    *)
(* its own source before it looks for it.                                  *)
HopelessIsNeverDone ==
    setup.empty # {} \/ (setup.kind = "inplace" /\ "overwrite" \in opts) => pc # "done"

(* A run comes to an end. *)
RunsEnd == pc \in {"clear", "work"} ~> pc \in {"idle", "failed", "done"}
=============================================================================
