------------------------------ MODULE JsonlFile ------------------------------
(***************************************************************************)
(* An append-only JSONL result file, as every stage of the pipeline keeps  *)
(* one per split: opened in mode "a", one json.dumps(...) + "\n" and one   *)
(* flush per record, read back line by line.                               *)
(*                                                                         *)
(* A record of several rollouts is longer than the write buffer, so it     *)
(* reaches the file in two pieces (BeginLine, EndLine).  A process that    *)
(* dies between them leaves a torn last line; a second process that        *)
(* appends meanwhile mixes its bytes into the line.  The file keeps only   *)
(* what its readers can tell apart:                                        *)
(*   keys      the keys that some well-formed line records                 *)
(*   repeated  the keys that two or more well-formed lines record          *)
(*   tail      the bytes after the last newline: none ("clean"), the first *)
(*             piece of one living writer's record, or anything else       *)
(*             ("torn")                                                    *)
(*   cut       whose first piece ends the file inside a multi-byte          *)
(*             character ("torn": of a writer that is gone), or "none"     *)
(*   junk      some finished line does not parse as JSON                   *)
(*   garbled   some bytes were put behind a cut character that are not its *)
(*             rest: the file is not UTF-8                                 *)
(***************************************************************************)

CONSTANTS Keys,     \* what the lines record: row indexes or sample ids
          Writers   \* the processes that may append; not "clean", "torn", "none"

File == [keys : SUBSET Keys, repeated : SUBSET Keys,
         tail : Writers \cup {"clean", "torn"},
         cut : Writers \cup {"none", "torn"}, junk : BOOLEAN, garbled : BOOLEAN]

FileWith(k) == [keys |-> k, repeated |-> {}, tail |-> "clean",
                cut |-> "none", junk |-> FALSE, garbled |-> FALSE]

(* The first piece of a record of writer w; c: it ends inside a character. *)
BeginLine(f, w, c) ==
    [f EXCEPT !.tail    = IF f.tail = "clean" THEN w ELSE "torn",
              !.cut     = IF c THEN w ELSE "none",
              !.garbled = f.garbled \/ f.cut # "none"]

(* The rest of w's record for key k and the newline.  The record is on a   *)
(* line of its own only if nothing else touched that line since BeginLine. *)
(* If w's own piece is the last one, the rest completes its character.     *)
EndLine(f, w, k) ==
    LET whole == f.tail = w
    IN  [keys     |-> IF whole THEN f.keys \cup {k} ELSE f.keys,
         repeated |-> IF whole /\ k \in f.keys THEN f.repeated \cup {k} ELSE f.repeated,
         tail     |-> "clean",
         cut      |-> "none",
         junk     |-> f.junk \/ ~whole,
         garbled  |-> f.garbled \/ f.cut \notin {"none", w}]

(* Writer w is gone: what it has left unfinished stays so. *)
Abandon(f, w) ==
    [f EXCEPT !.tail = IF f.tail = w THEN "torn" ELSE f.tail,
              !.cut  = IF f.cut = w THEN "torn" ELSE f.cut]

(* A text-mode reader that iterates over the lines meets a UnicodeDecodeError, *)
(* which "except json.JSONDecodeError" around json.loads does not catch.       *)
Undecodable(f) == f.cut # "none" \/ f.garbled

(* A reader that does not skip malformed lines fails on these as well. *)
Malformed(f) == Undecodable(f) \/ f.junk \/ f.tail # "clean"
=============================================================================
