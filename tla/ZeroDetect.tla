----------------------------- MODULE ZeroDetect -----------------------------
(***************************************************************************)
(* mem_zero_detect: eight bytes at a time, then the one to seven that are  *)
(* left by at most three single bytes and one wider load.  The machine     *)
(* looks at one buffer; what matters of it is where it is not zero.        *)
(***************************************************************************)
EXTENDS Integers

CONSTANTS MaxLength

VARIABLES length,   \* of the buffer, or -1
          nonzero,  \* offsets of the bytes that are not zero
          offsets,  \* offsets that were loaded
          answer    \* 0 or -1

zeroVars == <<length, nonzero, offsets, answer>>

UINTMAX == 8            \* sizeof(uintmax_t)

Load(at, width) == at .. at + width - 1

\* The loads of the n bytes, n < 8, that begin at c: single bytes, then the
\* widest load at the byte they reached.
Wide(n)    == IF n >= 4 THEN 4 ELSE IF n >= 2 THEN 2 ELSE n
Rest_Mut(c, n) == Load(c, n - Wide(n)) \cup Load(c, Wide(n))
Rest(c, n) == Load(c, n - Wide(n)) \cup Load(c + n - Wide(n), Wide(n))

\* The first word that is not zero ends the search.
WordAt(i) == Load(UINTMAX * i, UINTMAX)
mem_zero_detect(n, set) ==
  LET words == n \div UINTMAX
      hits == {i \in 0 .. words - 1 : WordAt(i) \cap set # {}}
      rest == Rest(UINTMAX * words, n % UINTMAX)
  IN  IF hits # {}
      THEN [answer |-> -1, offsets |-> UNION {WordAt(i) : i \in {j \in 0 .. words - 1 :
                                                \A h \in hits : j <= h}}]
      ELSE [answer |-> IF rest \cap set = {} THEN 0 ELSE -1,
            offsets |-> rest \cup UNION {WordAt(i) : i \in 0 .. words - 1}]

InitZero == length = -1 /\ nonzero = {} /\ offsets = {} /\ answer = 0

Detect == \E n \in 0 .. MaxLength : \E p, q \in -1 .. n - 1 :
  /\ length = -1
  /\ length' = n /\ nonzero' = {p, q} \ {-1}
  /\ \E found \in {mem_zero_detect(n, {p, q} \ {-1})} :
       answer' = found.answer /\ offsets' = found.offsets

-----------------------------------------------------------------------------
\* The answer is zero exactly when every byte is, whatever the length leaves
\* after whole words, and no load reaches past the buffer.
ZeroIffAllZero ==
  length # -1 =>
    /\ answer = 0 <=> nonzero = {}
    /\ offsets \subseteq 0 .. length - 1
=============================================================================
