-------------------------------- MODULE Raid --------------------------------
(***************************************************************************)
(* RAID parity: xor_gen and pq_gen write the parity of some vectors,       *)
(* xor_check and pq_check look for a difference.  The generator of P and Q *)
(* doubles all the bytes of a word at once, the check takes them one by    *)
(* one.  The machine writes a stripe of one word, changes some vectors and *)
(* checks it.                                                              *)
(***************************************************************************)
EXTENDS Words, Sequences, FiniteSets

CONSTANTS StripeWords,  \* the words that data vectors hold
          MaxVects,     \* of a stripe, with its parity
          Errors        \* what a byte is changed by

VARIABLES parityOf,  \* "none" | "xor" | "pq"
          array,     \* the vectors, a word each
          genRet,    \* what the generator returned
          damaged,   \* vectors with a changed byte
          place      \* the byte that is changed in them

raidVars == <<parityOf, array, genRet, damaged, place>>

notbit0 == Repeat(254)
bit7    == Repeat(128)
gf8poly == Repeat(29)

\* q times two in every byte.
Mask_Mut(q) == InWord(2 * AndWord(q, bit7))
Mask(q)       == InWord(InWord(2 * AndWord(q, bit7)) - (AndWord(q, bit7) \div 128))
TimesTwo(q)   == XorWord(AndWord(InWord(2 * q), notbit0), AndWord(Mask(q), gf8poly))

\* Vectors are numbered from 0; the sums run from the last data vector down.
Vector(a, j) == a[j + 1]
Parity(a, sources) ==
  LET p[j \in 0 .. sources] == IF j = 0 THEN 0 ELSE XorWord(p[j - 1], Vector(a, j - 1))
  IN  p[sources]

pq_gen(a) ==
  LET vects == Len(a)
      last == vects - 3
      q[j \in 0 .. last] ==
        IF j = last THEN Vector(a, last) ELSE XorWord(Vector(a, j), TimesTwo(q[j + 1]))
  IN  IF vects < 4 THEN [ret |-> 1, array |-> a]
      ELSE [ret |-> 0, array |-> [a EXCEPT ![vects - 1] = Parity(a, vects - 2), ![vects] = q[0]]]

xor_gen(a) ==
  LET vects == Len(a)
  IN  IF vects < 3 THEN [ret |-> 1, array |-> a]
      ELSE [ret |-> 0, array |-> [a EXCEPT ![vects] = Parity(a, vects - 1)]]

-----------------------------------------------------------------------------
ByteAt(a, i, j) == Lane(Vector(a, j), i)
DoubleByte(q)   == Xor[(2 * q) % 256][IF q >= 128 THEN 29 ELSE 0]

PByte(a, i, sources) ==
  LET p[j \in 0 .. sources] == IF j = 0 THEN 0 ELSE Xor[p[j - 1]][ByteAt(a, i, j - 1)]
  IN  p[sources]
QByte(a, i) ==
  LET last == Len(a) - 3
      q[j \in 0 .. last] ==
        IF j = last THEN ByteAt(a, i, last) ELSE Xor[ByteAt(a, i, j)][DoubleByte(q[j + 1])]
  IN  q[0]

BadP(a, i) == ByteAt(a, i, Len(a) - 2) # PByte(a, i, Len(a) - 2)
BadQ(a, i) == ByteAt(a, i, Len(a) - 1) # QByte(a, i)
OrBit(i, bit) == IF (i \div bit) % 2 = 1 THEN i ELSE i + bit
First(S) == CHOOSE i \in S : \A h \in S : i <= h

pq_check(a) ==
  LET bad == {i \in Lanes : BadP(a, i) \/ BadQ(a, i)}
  IN  IF Len(a) < 4 THEN 1
      ELSE IF bad = {} THEN 0
      ELSE IF BadP(a, First(bad)) THEN OrBit(First(bad), 1) ELSE OrBit(First(bad), 2)

xor_check(a) ==
  IF Len(a) < 2 \/ \E i \in Lanes : PByte(a, i, Len(a)) # 0 THEN 1 ELSE 0

-----------------------------------------------------------------------------
InitRaid == parityOf = "none" /\ array = <<>> /\ genRet = 0 /\ damaged = {} /\ place = 0

\* A stripe, whose parity is not there yet.
Generate == \E n \in 2 .. MaxVects, kind \in {"xor", "pq"} :
  /\ parityOf = "none"
  /\ parityOf' = kind
  /\ \E data \in [1 .. n - (IF kind = "pq" THEN 2 ELSE 1) -> StripeWords] :
       LET blank == data \o (IF kind = "pq" THEN <<0, 0>> ELSE <<0>>)
           gen == IF kind = "pq" THEN pq_gen(blank) ELSE xor_gen(blank)
       IN  array' = gen.array /\ genRet' = gen.ret
  /\ UNCHANGED <<damaged, place>>

\* A byte of one more vector is changed, data or parity.
Damage == \E v \in DOMAIN array, i \in Lanes, e \in Errors :
  /\ parityOf # "none" /\ genRet = 0
  /\ v \notin damaged /\ Cardinality(damaged) < 2
  /\ damaged # {} => i = place
  /\ array' = [array EXCEPT ![v] = XorWord(array[v], Power[8 * i] * e)]
  /\ damaged' = damaged \cup {v} /\ place' = i
  /\ UNCHANGED <<parityOf, genRet>>

RaidNext == Generate \/ Damage

-----------------------------------------------------------------------------
\* What the generators write by words the checks accept by bytes: no carry
\* or borrow passes from one byte of a word to the next.
ChecksAcceptParity ==
  parityOf # "none" /\ genRet = 0 /\ damaged = {} =>
    IF parityOf = "pq" THEN pq_check(array) = 0 ELSE xor_check(array) = 0

\* P and Q show any change of one or two vectors, data or parity, and name
\* P unless the two changes cancel in it; the xor shows one.
ChecksFindDamage ==
  /\ parityOf = "pq" /\ damaged # {} =>
       /\ pq_check(array) # 0
       /\ Cardinality(damaged) = 1 /\ damaged # {Len(array)} => pq_check(array) = OrBit(place, 1)
  /\ parityOf = "xor" /\ Cardinality(damaged) = 1 => xor_check(array) # 0

\* The checks accept what the generators write and nothing near it.
ChecksAreRight == ChecksAcceptParity /\ ChecksFindDamage
=============================================================================
