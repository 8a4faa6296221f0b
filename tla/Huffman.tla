------------------------------ MODULE Huffman ------------------------------
(***************************************************************************)
(* A Huffman code on its way from the histogram to the decoder's tables:   *)
(* HuffmanTree makes the code, HuffmanHeader writes its lengths and reads  *)
(* them, HuffmanDecode builds the tables (isal_create_hufftables and       *)
(* create_hufftables_icf on one side, setup_dynamic_header on the other).  *)
(* Reading may also begin at a header of another writer, and the tables at *)
(* any code lengths; HuffmanHeader can be given any tables to write.       *)
(***************************************************************************)
EXTENDS HuffmanTree, HuffmanHeader, HuffmanDecode

(* Code lengths of the table that is not made from a histogram.             *)
OtherLit  == [s \in 0..(LIT_LEN - 1)  |-> IF s \in {0, LITERALS} THEN 1 ELSE 0]
OtherDist == [s \in 0..(DIST_LEN - 1) |-> IF s \in {0, DIST_LEN - 1} THEN 1 ELSE 0]

vars == <<codeVars, headerVars, decodeVars>>

Init == InitCode /\ InitHeader /\ InitTables

-----------------------------------------------------------------------------
(* isal_create_hufftables: a code of a histogram goes into the header, with *)
(* one for the other table.  The end of block has a code in all histograms  *)
(* (isal_update_histogram counts one).                                      *)
MakeCode ==
  /\ reading = "idle" /\ tabling = "idle"
  /\ Generate
  /\ UNCHANGED <<headerVars, decodeVars>>

WriteMade ==
  /\ making = "done" /\ Return
  /\ \/ DOMAIN lens = 0..(LIT_LEN - 1) /\ lens[LITERALS] # 0 /\ Write(lens, OtherDist)
     \/ DOMAIN lens = 0..(DIST_LEN - 1) /\ Write(OtherLit, lens)
  /\ UNCHANGED decodeVars

Fresh == making = "idle" /\ reading = "idle" /\ tabling = "idle"

WriteAny ==
  /\ Fresh
  /\ \E lit \in AnyLit, dist \in AnyDist : Write(lit, dist)
  /\ UNCHANGED <<codeVars, decodeVars>>

WriteOther ==
  /\ Fresh
  /\ \E len \in 0..(LIT_LEN - LIT_TABLE_SIZE + 1), dist \in 0..DIST_LEN : WriteForeign(len, dist)
  /\ UNCHANGED <<codeVars, decodeVars>>

ReadHeader == setup_dynamic_header /\ UNCHANGED <<codeVars, decodeVars>>

(* setup_dynamic_header goes on with the tables of lengths it has read: of  *)
(* igzip's headers only here, SetupAny stands for all tables there are.     *)
LitLengths  == [s \in 0..(LIT_LEN - 1)  |-> table[s]]
DistLengths == [s \in 0..(DIST_LEN - 1) |-> table[LIT_LEN + s]]

SetupRead ==
  /\ making = "returned" /\ reading = "tables"
  /\ \/ \E multi \in SymFlags : SetupLit(LitLengths, multi)
     \/ \E max \in MaxDists : SetupDist(DistLengths, max)
  /\ UNCHANGED <<codeVars, headerVars>>

SetupAny ==
  /\ Fresh
  /\ \/ \E l \in EveryLit, multi \in SymFlags : SetupLit(l, multi)
     \/ \E l \in EveryDist, max \in MaxDists : SetupDist(l, max)
  /\ UNCHANGED <<codeVars, headerVars>>

FillTables == make_inflate_huff_code /\ UNCHANGED <<codeVars, headerVars>>

Next ==
  MakeCode \/ WriteMade \/ WriteAny \/ WriteOther \/ ReadHeader \/ SetupRead \/ SetupAny \/ FillTables

Spec == Init /\ [][Next]_vars

-----------------------------------------------------------------------------
(* Properties.                                                             *)

(* From end to end: the code of each symbol that the writer assigned        *)
(* (huff_codes.c) is looked up as that symbol in the reader's tables        *)
(* (igzip_inflate.c), with any bits behind it and with every value of the   *)
(* extra bits of a length.  Only the lengths of the codes went between.     *)
RoundTrip ==
  making = "returned" /\ tabling = "done"
      /\ DOMAIN lens = (IF kind = "lit" THEN 0..(LIT_LEN - 1) ELSE 0..(DIST_LEN - 1)) =>
    \A s \in DOMAIN code :
      \A extra \in 0..(2^ExtraOf(s) - 1), behind \in 0..(2^(MostBits - lens[s] - ExtraOf(s)) - 1) :
        LET e == Lookup(code[s] + 2^lens[s] * (extra + 2^ExtraOf(s) * behind))
        IN IF kind = "dist" /\ s >= max_symbol THEN e = Entry(<<>>, lens[s])
           ELSE e.syms # <<>> /\ e.syms[1] = index_to_sym(ExpandNext(s) + extra)
=============================================================================
