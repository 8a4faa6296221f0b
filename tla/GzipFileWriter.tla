--------------------------- MODULE GzipFileWriter ---------------------------
(***************************************************************************)
(* What the igzip command promises of its output files when it compresses  *)
(* with several threads: each file is written in argument order, as the    *)
(* gzip header, every block of the input compressed once, in input order,  *)
(* the last one and no other closing the deflate stream, and then the      *)
(* trailer with the length of the whole input.  A file may not be opened,  *)
(* and it may be abandoned with an error; it is then never reported as a   *)
(* success, and nor is any file opened after an abandoned one.             *)
(*                                                                         *)
(* This is the abstract specification that ThreadPool implements.          *)
(***************************************************************************)
EXTENDS Integers, Sequences

CONSTANTS
  NumFiles,         (* Input files on the command line.                    *)
  MaxBlocks         (* Most blocks one file is split into.                 *)

VARIABLES
  blocks,           (* Blocks each input file holds, its short last read   *)
                    (* included.                                           *)
  out,              (* Chunks written to each output file.                 *)
  reported          (* What compress_file returned for each file.          *)

vars == <<blocks, out, reported>>

FileIds == 1..NumFiles

Header(f)     == [kind |-> "header",  file |-> f, block |-> 0, last |-> FALSE]
Block(f, b)   == [kind |-> "block",   file |-> f, block |-> b, last |-> b = blocks[f]]
Trailer(f, n) == [kind |-> "trailer", file |-> f, block |-> n, last |-> TRUE]

Init ==
  /\ blocks \in [FileIds -> 1..MaxBlocks]
  /\ out = [f \in FileIds |-> <<>>]
  /\ reported = [f \in FileIds |-> "none"]

(* No file has been abandoned.                                             *)
Intact == \A g \in FileIds : reported[g] # "error"

(* The file being compressed: all earlier ones have been reported.         *)
Current(f) ==
  /\ reported[f] = "none"
  /\ \A g \in 1..(f - 1) : reported[g] # "none"

Emit(f, chunk) == out' = [out EXCEPT ![f] = Append(@, chunk)]

(* A thread left on a job of an abandoned file may still write where the   *)
(* header is put together: what a later file begins with is left open.     *)
Open(f) ==
  /\ Current(f)
  /\ out[f] = <<>>
  /\ out'[f] # <<>> /\ Emit(f, IF Intact THEN Header(f) ELSE out'[f][1])
  /\ UNCHANGED <<blocks, reported>>

NotOpened(f) ==
  /\ Current(f)
  /\ out[f] = <<>>
  /\ reported' = [reported EXCEPT ![f] = "unopened"]
  /\ UNCHANGED <<blocks, out>>

Write(f) ==
  /\ Current(f) /\ Intact
  /\ Len(out[f]) \in 1..blocks[f]
  /\ Emit(f, Block(f, Len(out[f])))
  /\ UNCHANGED <<blocks, reported>>

Close(f) ==
  /\ Current(f) /\ Intact
  /\ Len(out[f]) = blocks[f] + 1
  /\ Emit(f, Trailer(f, blocks[f]))
  /\ reported' = [reported EXCEPT ![f] = "ok"]
  /\ UNCHANGED blocks

Abandon(f) ==
  /\ Current(f)
  /\ out[f] # <<>>
  /\ reported' = [reported EXCEPT ![f] = "error"]
  /\ UNCHANGED <<blocks, out>>

Next == \E f \in FileIds : Open(f) \/ NotOpened(f) \/ Write(f) \/ Close(f) \/ Abandon(f)

Spec == Init /\ [][Next]_vars
=============================================================================
