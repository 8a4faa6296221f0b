--------------------------- MODULE DeflateFormat ---------------------------
(***************************************************************************)
(* What a decoder needs of the bytes isal_deflate produces: the wrapper    *)
(* comes first, every input byte is coded once and inside a block, exactly *)
(* one block has its final bit set and it is the last, nothing but a flush *)
(* marker or the padding after the last block breaks the bit stream, and   *)
(* the trailer comes at the end, over a checksum of the whole input.       *)
(*                                                                         *)
(* This is the abstract specification that DeflateStream implements.       *)
(***************************************************************************)
EXTENDS Integers

CONSTANTS
  MaxIn             (* Most bytes one stream is given.                     *)

VARIABLES
  given,            (* Bytes of input accepted.                            *)
  coded,            (* Bytes of input coded.                               *)
  summed,           (* Bytes of input in the checksum.                     *)
  phase,            (* Where the output stands.                            *)
  final,            (* Has the block with the final bit been started?      *)
  checked           (* Does the trailer hold a checksum?                   *)

vars == <<given, coded, summed, phase, final, checked>>

Between == phase \in {"between", "aligned"}
Restart ==
  /\ given' = 0 /\ coded' = 0 /\ summed' = 0
  /\ phase' \in {"wrapper", "between"} /\ final' = FALSE
  /\ UNCHANGED checked

Init ==
  /\ given = 0 /\ coded = 0 /\ summed = 0
  /\ phase \in {"wrapper", "between"} /\ final = FALSE
  /\ checked \in BOOLEAN

Give ==
  /\ phase # "done"
  /\ given' \in given..MaxIn
  /\ UNCHANGED <<coded, summed, phase, final, checked>>

Wrapper ==
  /\ phase = "wrapper"
  /\ phase' = "between"
  /\ UNCHANGED <<given, coded, summed, final, checked>>

(* A block's header begins, and carries the final bit.  A header of a few  *)
(* bits begins and ends at once.                                           *)
OpenBlock ==
  /\ Between /\ ~final
  /\ phase' \in {"header", "block"}
  /\ final' \in BOOLEAN
  /\ UNCHANGED <<given, coded, summed, checked>>

EndHeader ==
  /\ phase = "header"
  /\ phase' = "block"
  /\ UNCHANGED <<given, coded, summed, final, checked>>

Code ==
  /\ phase = "block"
  /\ coded' \in (coded + 1)..given
  /\ UNCHANGED <<given, summed, phase, final, checked>>

CloseBlock ==
  /\ phase = "block"
  /\ phase' = "between"
  /\ UNCHANGED <<given, coded, summed, final, checked>>

(* An empty stored block, which ends on a byte boundary.                   *)
Marker ==
  /\ Between /\ ~final
  /\ phase' = "aligned"
  /\ UNCHANGED <<given, coded, summed, final, checked>>

EmptyFinalBlock ==
  /\ Between /\ ~final
  /\ final' = TRUE
  /\ phase' = "between"
  /\ UNCHANGED <<given, coded, summed, checked>>

Pad ==
  /\ Between /\ final
  /\ phase' = "padded"
  /\ UNCHANGED <<given, coded, summed, final, checked>>

Sum ==
  /\ phase # "done"
  /\ summed' \in (summed + 1)..coded
  /\ UNCHANGED <<given, coded, phase, final, checked>>

(* The stream ends; a raw stream's trailer is empty.                       *)
Trailer ==
  /\ final /\ (Between \/ phase = "padded")
  /\ coded = given
  /\ (checked => summed = given)
  /\ phase' = "done"
  /\ UNCHANGED <<given, coded, summed, final, checked>>

Next ==
  \/ Give \/ Wrapper \/ OpenBlock \/ EndHeader \/ Code \/ CloseBlock
  \/ Marker \/ EmptyFinalBlock \/ Pad \/ Sum \/ Trailer \/ Restart

Spec == Init /\ [][Next]_vars
=============================================================================
