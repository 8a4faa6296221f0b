------------------------------- MODULE Codes -------------------------------
(***************************************************************************)
(* The codes and the stateless compression share nothing but the field,    *)
(* and no call waits for another: a behaviour is that of one of them.      *)
(***************************************************************************)
EXTENDS ErasureCode, Raid, Checksums, ZeroDetect, DeflateStateless

VARIABLE subject        \* the code that is called

vars == <<subject, fieldVars, erasureVars, raidVars, sumVars, zeroVars, statelessVars>>

Init ==
  /\ subject \in {"field", "erasure", "raid", "sums", "zero", "stateless"}
  /\ InitField /\ InitErasure /\ InitRaid /\ InitSums /\ InitZero
  /\ InitStateless

Field   == subject = "field" /\ PrepareTable
           /\ UNCHANGED <<erasureVars, raidVars, sumVars, zeroVars, statelessVars>>
Erasure == subject = "erasure" /\ ErasureNext
           /\ UNCHANGED <<fieldVars, raidVars, sumVars, zeroVars, statelessVars>>
Stripe  == subject = "raid" /\ RaidNext
           /\ UNCHANGED <<fieldVars, erasureVars, sumVars, zeroVars, statelessVars>>
Sums    == subject = "sums" /\ SumsNext
           /\ UNCHANGED <<fieldVars, erasureVars, raidVars, zeroVars, statelessVars>>
Zero    == subject = "zero" /\ Detect
           /\ UNCHANGED <<fieldVars, erasureVars, raidVars, sumVars, statelessVars>>
Stateless == subject = "stateless" /\ StatelessNext
             /\ UNCHANGED <<fieldVars, erasureVars, raidVars, sumVars, zeroVars>>

Next == (Field \/ Erasure \/ Stripe \/ Sums \/ Zero \/ Stateless) /\ UNCHANGED subject

Spec == Init /\ [][Next]_vars
=============================================================================
