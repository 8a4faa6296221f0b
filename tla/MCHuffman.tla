----------------------------- MODULE MCHuffman -----------------------------
(* A small instance of Huffman.                                            *)
EXTENDS Huffman

(* Three length symbols, of which one has an extra bit.                    *)
MCLenExtra  == <<0, 1, 0>>
(* A repetition or a run of zeros is one of two lengths.                   *)
MCExtraBits == [c \in 16..18 |-> 1]
=============================================================================
