---------------------------- MODULE GaloisField ----------------------------
(***************************************************************************)
(* The field GF(2^8) of erasure_code/ec_base.c: a product is a sum of      *)
(* logarithms, or one lookup when built with large tables, and the vector  *)
(* routines multiply by a constant with a table of 32 products, which      *)
(* gf_vect_mul_init fills eight bytes at a time.  The machine fills the    *)
(* table of one coefficient; the others are the field itself, at full      *)
(* size.                                                                   *)
(***************************************************************************)
EXTENDS Words, Sequences

VARIABLES coefficient,  \* the constant being prepared, or -1
          words         \* the four 64 bit words of its table, by lane

fieldVars == <<coefficient, words>>

\* (c << 1) ^ ((c & 0x80) ? 0x1d : 0), kept in an unsigned char.
Times2 == [c \in Byte |-> IF c >= 128 THEN Xor[(2 * c) % 256][29] ELSE 2 * c]

gff_base == LET power[i \in 0 .. 255] == IF i = 0 THEN 1 ELSE Times2[power[i - 1]]
            IN  [i \in 0 .. 255 |-> power[i]]

gflog_base == [a \in Byte |-> IF a = 0 THEN 0
                              ELSE CHOOSE i \in 1 .. 255 : gff_base[i] = a]

Exponent_Mut(i) == i % 256
Exponent(i) == IF i > 254 THEN i - 255 ELSE i

gf_mul == [a \in Byte |-> [b \in Byte |->
            IF a = 0 \/ b = 0 THEN 0
            ELSE gff_base[Exponent(gflog_base[a] + gflog_base[b])]]]

gf_inv == [a \in Byte |-> IF a = 0 THEN 0 ELSE gff_base[255 - gflog_base[a]]]

\* The product of two polynomials, reduced: what the large tables hold.
gf_mul_table_base ==
  LET product[a \in Byte, b \in Byte] ==
        IF b = 0 THEN 0
        ELSE Xor[Times2[product[a, b \div 2]]][IF b % 2 = 1 THEN a ELSE 0]
  IN [b \in Byte |-> [a \in Byte |-> product[a, b]]]

gf_inv_table_base ==
  [a \in Byte |-> IF a = 0 THEN 0 ELSE CHOOSE b \in Byte : gf_mul_table_base[b][a] = 1]

-----------------------------------------------------------------------------
\* The bytes of a 64 bit word, the least significant first, and the masks:
\* a byte times a mask of ones is that byte in the lanes of the mask.
TableLanes == 0 .. 7
Spread(c, mask) == [i \in TableLanes |-> IF i \in mask THEN c ELSE 0]
XorLanes(v, w)  == [i \in TableLanes |-> Xor[v[i]][w[i]]]
Odd      == {1, 3, 5, 7}
Pairs2   == {2, 3, 6, 7}
High     == {4, 5, 6, 7}

\* Entries 0..7 and 8..15 of a half of the table, from c and its doubles.
HalfTable(c) ==
  LET c2 == Times2[c]
      c4 == Times2[c2]
      c8 == Times2[c4]
      low == XorLanes(XorLanes(Spread(c, Odd), Spread(c2, Pairs2)), Spread(c4, High))
  IN <<low, XorLanes(Spread(c8, TableLanes), low)>>

gf_vect_mul_init(c) ==
  HalfTable(c) \o HalfTable(Times2[Times2[Times2[Times2[c]]]])

\* The table read as bytes, and the product that a vector routine makes of
\* its two halves.
TableByte(w, i) == w[1 + i \div 8][i % 8]
ByNibbles(w, x) == Xor[TableByte(w, x % 16)][TableByte(w, 16 + x \div 16)]

InitField == coefficient = -1 /\ words = <<>>

PrepareTable == \E c \in Byte :
  /\ coefficient = -1
  /\ coefficient' = c
  /\ words' = gf_vect_mul_init(c)

-----------------------------------------------------------------------------
\* The logarithm tables and the large tables are two builds of one field:
\* gf_mul and gf_inv return the same in both, the ends of the tables (the
\* logarithm of one is 255) and zero included.
BuildsAgree ==
  coefficient # -1 =>
    /\ gf_inv[coefficient] = gf_inv_table_base[coefficient]
    /\ \A x \in Byte : gf_mul[coefficient][x] = gf_mul_table_base[x][coefficient]

\* A lookup of the low and of the high four bits in the table that
\* gf_vect_mul_init fills by words gives the product that gf_mul gives, and
\* the second byte is the coefficient, from which the base routines read it.
TablesMultiply ==
  coefficient # -1 =>
    /\ TableByte(words, 1) = coefficient
    /\ \A x \in Byte : ByNibbles(words, x) = gf_mul[coefficient][x]

\* One field, whichever build or table a product is taken from.
FieldIsRight == BuildsAgree /\ TablesMultiply
=============================================================================
