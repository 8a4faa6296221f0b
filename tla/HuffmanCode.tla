---------------------------- MODULE HuffmanCode ----------------------------
(* What the writer and the reader of Huffman codes share: codes are         *)
(* numbers whose lowest bit is the first one sent, assigned to symbols in   *)
(* order of length and then of symbol (RFC 1951, 3.2.2).                    *)
EXTENDS Integers, Sequences, FiniteSets

CONSTANTS
  LITERALS,           (* Literals; the end of block is the next symbol.     *)
  LenExtra,           (* <<...>>: len_extra_bit_count of the length symbols, *)
                      (* the last giving the same length as the one before. *)
  DIST_LEN,           (* Symbols for distances.                             *)
  MAX_HUFF_TREE_DEPTH (* The longest code.                                  *)

EndOfBlock     == LITERALS
LIT_TABLE_SIZE == LITERALS + 1
LIT_LEN        == LIT_TABLE_SIZE + Len(LenExtra)

ASSUME CodeAssumption ==
  /\ LITERALS \in Nat \ {0} /\ DIST_LEN \in Nat \ {0} /\ MAX_HUFF_TREE_DEPTH \in 1..15
  /\ LenExtra \in Seq(Nat) /\ LenExtra # <<>> /\ LenExtra[Len(LenExtra)] = 0

(* Extra bits of a symbol of the literal/length code.                       *)
LitExtra(s) == IF s < LIT_TABLE_SIZE THEN 0 ELSE LenExtra[s - LIT_TABLE_SIZE + 1]

Least(S)   == CHOOSE x \in S : \A y \in S : x <= y
Largest(S) == CHOOSE x \in S : \A y \in S : y <= x

MostExtra == Largest({LenExtra[i] : i \in DOMAIN LenExtra})

(* f(1) + ... + f(n)                                                        *)
SumTo(n, f(_)) ==
  LET Sum[i \in Nat] == IF i = 0 THEN 0 ELSE f(i) + Sum[i - 1] IN Sum[n]

(* bit_reverse and bit_reverse2: the low bits of code, back to front.       *)
bit_reverse(code, length) ==
  LET Rev[c \in Nat, l \in Nat] ==
        IF l = 0 THEN 0 ELSE 2^(l - 1) * (c % 2) + Rev[c \div 2, l - 1]
  IN Rev[code, length]

(* next_code before any code of a length is assigned.                       *)
FirstCode(count) ==
  LET next_code[l \in Nat] ==
        IF l <= 1 THEN 0 ELSE 2 * (next_code[l - 1] + count[l - 1])
  IN next_code

Coded(lens) == {s \in DOMAIN lens : lens[s] # 0}
WithLength(lens, l) == {s \in DOMAIN lens : lens[s] = l}

(* The loops of set_huff_codes and set_codes: each code of a length is one  *)
(* more than that of the symbol before it with that length.                 *)
AssignCodes(lens, count) ==
  LET first == FirstCode(count)
  IN [s \in Coded(lens) |->
        bit_reverse(first[lens[s]] + Cardinality({t \in WithLength(lens, lens[s]) : t < s}),
                    lens[s])]

-----------------------------------------------------------------------------
(* For the properties.                                                     *)

(* The bits of a code of length l begin the string of bits.                 *)
Begins(code, l, bits) == bits % 2^l = code

PrefixFree(lens, code) ==
  \A s, t \in Coded(lens) :
    s # t /\ lens[s] <= lens[t] => ~Begins(code[s], lens[s], code[t])

(* Kraft's sum, in units of 2^-unit.                                        *)
Kraft(lens, unit) == SumTo(unit, LAMBDA l : Cardinality(WithLength(lens, l)) * 2^(unit - l))
=============================================================================
