------------------------------- MODULE Words -------------------------------
(***************************************************************************)
(* Bytes, and words of WORD_BYTES bytes: the bit operations of C on them.  *)
(***************************************************************************)
EXTENDS Integers

CONSTANT WORD_BYTES     \* 8 in the code; two lanes are enough for a carry

Byte == 0 .. 255

BitTable(bit(_, _)) ==
  LET bits[a \in Byte, b \in Byte] ==
        IF a = 0 /\ b = 0 THEN 0
        ELSE 2 * bits[a \div 2, b \div 2] + bit(a % 2, b % 2)
  IN [a \in Byte |-> [b \in Byte |-> bits[a, b]]]

Xor == BitTable(LAMBDA a, b : (a + b) % 2)
And == BitTable(LAMBDA a, b : a * b)

Power == LET power[n \in 0 .. 8 * WORD_BYTES] == IF n = 0 THEN 1 ELSE 2 * power[n - 1]
         IN  [n \in 0 .. 8 * WORD_BYTES |-> power[n]]
Lanes    == 0 .. WORD_BYTES - 1
Lane(w, i) == (w \div Power[8 * i]) % 256
Join(lane(_)) == LET word[n \in 0 .. WORD_BYTES] ==
                       IF n = 0 THEN 0 ELSE word[n - 1] + Power[8 * (n - 1)] * lane(n - 1)
                 IN  word[WORD_BYTES]

InWord(n)     == n % Power[8 * WORD_BYTES]
XorWord(v, w) == Join(LAMBDA i : Xor[Lane(v, i)][Lane(w, i)])
AndWord(v, w) == Join(LAMBDA i : And[Lane(v, i)][Lane(w, i)])
Repeat(b)     == Join(LAMBDA i : b)
=============================================================================
