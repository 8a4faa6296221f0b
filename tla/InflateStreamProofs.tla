------------------------- MODULE InflateStreamProofs -------------------------
(***************************************************************************)
(* That isal_inflate and isal_inflate_stateless account for every bit of   *)
(* their input, and write and save only where they have room, for any      *)
(* sizes of the calls, of the buffers and of the parts of a stream that    *)
(* InflateAssumption and StreamAssumption allow.  The proof goes step by   *)
(* step: readers of bits, headers, groups, the trailer; then one lemma for *)
(* each action.                                                            *)
(***************************************************************************)
EXTENDS InflateStream, SequenceTheorems, TLAPS

(* The sizes, and their products.                                          *)
LEMMA Sizes ==
  /\ Byte \in Nat /\ Byte >= 1 /\ Word \in Nat /\ Word >= 1 /\ HistSize \in Nat /\ HistSize >= 1
  /\ LookAhead \in Nat /\ MaxHdr \in Nat /\ LenBytes \in Nat /\ LenBytes >= 1
  /\ StoreSize \in Nat /\ StoreSize >= 1 /\ MaxCodeLen \in Nat
  /\ Byte * Word \in Nat /\ Byte * (Word - 1) \in Nat /\ Byte * LenBytes \in Nat
  /\ Byte * MaxHdr \in Nat
  BY InflateAssumption

(* Products with the size of a byte.                                       *)
LEMMA Times ==
  ASSUME NEW x \in Int, NEW y \in Int, x <= y
  PROVE  Byte * x <= Byte * y
  <1>1. Byte \in Nat
    BY Sizes
  <1>2. y - x \in Nat /\ Byte * y = Byte * x + Byte * (y - x)
    BY <1>1
  <1>3. Byte * (y - x) \in Nat
    BY <1>1, <1>2
  <1>4. QED
    BY <1>1, <1>2, <1>3

(* What is less by whole bytes is less.                                    *)
LEMMA TimesLess ==
  ASSUME NEW x \in Int, NEW y \in Int, Byte * x < Byte * y
  PROVE  x < y
  <1>1. Byte \in Nat
    BY Sizes
  <1>2. SUFFICES ASSUME y <= x PROVE FALSE
    OBVIOUS
  <1>3. Byte * y <= Byte * x
    BY <1>2, Times
  <1>4. QED
    BY <1>1, <1>3

(* Sums and differences of whole bytes.                                    *)
LEMMA TimesPlus ==
  ASSUME NEW x \in Int, NEW y \in Int
  PROVE  /\ Byte * (x + y) = Byte * x + Byte * y
         /\ Byte * (x - y) = Byte * x - Byte * y
         /\ Byte * x \in Int
         /\ x \in Nat => Byte * x \in Nat
  BY Sizes

(* Division with a remainder.                                              *)
LEMMA Divided ==
  ASSUME NEW b \in Nat \ {0}, NEW n \in Int, NEW q \in Int, NEW r \in 0..(b - 1), n = b * q + r
  PROVE  n \div b = q /\ n % b = r
  OBVIOUS

(* Every division leaves a remainder.                                      *)
LEMMA Division ==
  ASSUME NEW b \in Nat \ {0}, NEW n \in Int
  PROVE  \E q \in Int, r \in 0..(b - 1) : n = b * q + r /\ n \div b = q /\ n % b = r
  <1> DEFINE q == n \div b
  <1>1. q \in Int /\ b * q <= n /\ n < b * q + b
    OBVIOUS
  <1>2. n = b * q + (n - b * q) /\ n - b * q \in 0..(b - 1)
    BY <1>1
  <1>3. n % b = n - b * q
    BY <1>1, <1>2, Divided
  <1>4. QED
    BY <1>1, <1>2, <1>3

(* Whole bytes, and the bits left over.                                    *)
LEMMA Bytes ==
  ASSUME NEW n \in Int
  PROVE  \E q \in Int, r \in 0..(Byte - 1) :
           n = Byte * q + r /\ WholeBytes(n) = q /\ n % Byte = r /\ (n >= 0 => q >= 0)
  <1>1. Byte \in Nat \ {0}
    BY Sizes
  <1>2. PICK q \in Int, r \in 0..(Byte - 1) : n = Byte * q + r /\ n \div Byte = q /\ n % Byte = r
    BY <1>1, Division
  <1>3. WholeBytes(n) = q
    BY <1>2 DEF WholeBytes
  <1>4. n >= 0 => q >= 0
    <2>1. SUFFICES ASSUME n >= 0, q <= -1 PROVE FALSE
      OBVIOUS
    <2>2. Byte * q <= Byte * (-1)
      BY <2>1, Times
    <2>3. Byte * (-1) = -Byte /\ Byte * q \in Int
      BY <1>1
    <2>4. QED
      BY <1>1, <1>2, <2>1, <2>2, <2>3
  <1>5. QED
    BY <1>2, <1>3, <1>4

(* Division by the size of a byte.                                         *)
LEMMA Quotient ==
  ASSUME NEW k \in Int, NEW r \in 0..(Byte - 1), NEW n \in Int, n = Byte * k + r
  PROVE  n \div Byte = k /\ n % Byte = r
  <1>1. Byte \in Nat \ {0}
    BY Sizes
  <1>2. QED
    BY <1>1, Divided

(* Rounding up to a byte.                                                  *)
LEMMA RoundUp ==
  ASSUME NEW n \in Int, NEW k \in Int, NEW r \in 0..(Byte - 1), n + r = Byte * k
  PROVE  (n + Byte - 1) \div Byte = k
  <1>1. Byte \in Nat \ {0} /\ Byte * k \in Int
    BY Sizes, TimesPlus
  <1>2. PICK s \in 0..(Byte - 1) : s = Byte - 1 - r
    BY <1>1
  <1>3. PICK m \in Int : m = n + Byte - 1
    BY <1>1
  <1>4. m = Byte * k + s
    BY <1>1, <1>2, <1>3
  <1>5. QED
    BY <1>1, <1>3, <1>4, Divided

(* What rounding up to a byte adds is less than a byte.                    *)
LEMMA RoundedUp ==
  ASSUME NEW n \in Int
  PROVE  \E c \in Int : /\ (n + Byte - 1) \div Byte = c
                        /\ n <= Byte * c /\ Byte * c <= n + Byte - 1
  <1>1. Byte \in Nat \ {0}
    BY Sizes
  <1>2. PICK m \in Int : m = n + Byte - 1
    BY <1>1
  <1>3. PICK q \in Int, s \in 0..(Byte - 1) : m = Byte * q + s /\ m \div Byte = q
    BY <1>1, Division
  <1>4. Byte * q \in Int
    BY TimesPlus
  <1>5. QED
    BY <1>1, <1>2, <1>3, <1>4

-----------------------------------------------------------------------------
(* Readers.                                                                *)

Good == [bits : 0..(Byte * Word), avail : Nat]
Holds(r) == r.bits + Byte * r.avail

(* A load takes bytes only of the input, into the room read_in has, and    *)
(* leaves room for none or takes them all.                                 *)
LEMMA LoadedBytes ==
  ASSUME NEW b \in 0..(Byte * Word), NEW a \in Nat
  PROVE  \E n \in Nat :
           /\ n = Most(0, Least(a, Word - (b + Byte - 1) \div Byte)) /\ n <= a
           /\ b + Byte * n \in 0..(Byte * Word)
           /\ (b + Byte * n) + Byte * (a - n) = b + Byte * a
           /\ n = a \/ b + Byte * n >= Loaded
  <1>1. b \in Nat /\ Byte \in Nat \ {0} /\ Word \in Nat /\ Byte * Word \in Nat /\ b <= Byte * Word
    BY Sizes
  <1>2. PICK c \in Int : /\ (b + Byte - 1) \div Byte = c
                         /\ b <= Byte * c /\ Byte * c <= b + Byte - 1
    BY <1>1, RoundedUp
  <1>3. c <= Word
    <2>1. SUFFICES ASSUME Word + 1 <= c PROVE FALSE
      BY <1>1
    <2>2. Byte * (Word + 1) <= Byte * c
      BY <1>1, <2>1, Times
    <2>3. Byte * (Word + 1) = Byte * Word + Byte
      BY <1>1
    <2>4. Byte * c \in Int
      BY TimesPlus
    <2>5. QED
      BY <1>1, <1>2, <2>2, <2>3, <2>4
  <1>4. PICK n \in Nat : n = Most(0, Least(a, Word - c)) /\ n <= a /\ n <= Word - c /\ (n = a \/ n = Word - c)
    BY <1>1, <1>3 DEF Least, Most
  <1>5. /\ Byte * n \in Nat /\ Byte * (a - n) = Byte * a - Byte * n /\ Byte * a \in Int
        /\ Byte * (Word - c) = Byte * Word - Byte * c /\ Byte * c \in Int
        /\ Byte * (Word - 1) = Byte * Word - Byte
    BY <1>1
  <1>6. Byte * n <= Byte * (Word - c)
    BY <1>1, <1>4, Times
  <1>7. b + Byte * n \in 0..(Byte * Word)
    BY <1>1, <1>2, <1>5, <1>6
  <1>8. n = a \/ b + Byte * n >= Loaded
    BY <1>1, <1>2, <1>4, <1>5 DEF Loaded
  <1>9. n = Most(0, Least(a, Word - (b + Byte - 1) \div Byte))
    BY <1>2, <1>4
  <1>10. (b + Byte * n) + Byte * (a - n) = b + Byte * a
    BY <1>1, <1>5
  <1>11. QED
    BY <1>4, <1>7, <1>8, <1>9, <1>10

(* inflate_in_load moves bytes from the input to read_in: none is lost, and*)
(* if any are left read_in holds at least Loaded bits.                     *)
LEMMA Load ==
  ASSUME NEW r \in Good
  PROVE  LET l == inflate_in_load[r]
         IN /\ l \in Good /\ Holds(l) = Holds(r) /\ l.avail <= r.avail
            /\ l.avail = 0 \/ l.bits >= Loaded
  <1>1. PICK b \in 0..(Byte * Word), a \in Nat : r = [bits |-> b, avail |-> a]
    BY DEF Good
  <1>2. PICK n \in Nat :
          /\ n = Most(0, Least(a, Word - (b + Byte - 1) \div Byte)) /\ n <= a
          /\ b + Byte * n \in 0..(Byte * Word)
          /\ (b + Byte * n) + Byte * (a - n) = b + Byte * a
          /\ n = a \/ b + Byte * n >= Loaded
    BY LoadedBytes
  <1>3. inflate_in_load[r] = [bits |-> b + Byte * n, avail |-> a - n]
    <2>1. r \in Readers
      BY <1>1 DEF Readers
    <2>2. QED
      BY <1>1, <1>2, <2>1 DEF inflate_in_load
  <1>4. QED
    BY <1>1, <1>2, <1>3 DEF Good, Holds

(* A reader that has not failed.                                           *)
LEMMA GoodType ==
  ASSUME NEW r \in Good
  PROVE  r.bits \in Nat /\ r.avail \in Nat /\ Holds(r) \in Nat /\ r \in Readers
  <1>1. PICK b \in 0..(Byte * Word), a \in Nat : r = [bits |-> b, avail |-> a]
    BY DEF Good
  <1>2. Byte * a \in Nat /\ b \in Nat
    BY TimesPlus, Sizes
  <1>3. QED
    BY <1>1, <1>2 DEF Holds, Readers

(* What StreamAssumption says of the sizes.                                *)
LEMMA StreamSizes ==
  /\ Loaded \in Nat /\ LenBytes < Word /\ StoreSize <= LookAhead
  BY Sizes, StreamAssumption DEF Loaded

(* inflate_in_read_bits takes the n bits, or the length it leaves is below *)
(* zero: which it is depends on what the reader holds.                     *)
LEMMA Read ==
  ASSUME NEW r \in Good, NEW n \in 0..Loaded
  PROVE  LET e == inflate_in_read_bits(r, n)
         IN /\ e \in Readers /\ e.bits <= Byte * Word /\ e.avail <= r.avail
            /\ Holds(e) = Holds(r) - n
            /\ IF Holds(r) < n THEN e.bits < 0 ELSE e \in Good
  <1> DEFINE l == inflate_in_load[r]
             e == inflate_in_read_bits(r, n)
  <1>1. PICK b \in 0..(Byte * Word), a \in Nat : l = [bits |-> b, avail |-> a]
    BY Load DEF Good
  <1>2. Holds(l) = Holds(r) /\ a <= r.avail /\ (a = 0 \/ b >= Loaded)
    BY Load, <1>1
  <1>3. n \in Nat /\ n <= Loaded /\ Loaded \in Nat /\ Byte * Word \in Nat /\ Byte * 0 = 0 /\ Byte * a \in Nat
    BY StreamSizes, Sizes, TimesPlus
  <1>4. l \in Readers /\ n \in Nat
    BY <1>1, <1>3, Sizes DEF Readers
  <1>5. e = [bits |-> b - n, avail |-> a]
    BY <1>1, <1>4 DEF inflate_in_read_bits, ReadBitsUnsafe
  <1>6. Holds(r) = b + Byte * a /\ Holds(e) = b - n + Byte * a
    BY <1>1, <1>2, <1>5 DEF Holds
  <1>7. e \in Readers /\ e.bits <= Byte * Word /\ e.avail <= r.avail
    BY <1>2, <1>3, <1>5 DEF Readers
  <1>8. Holds(e) = Holds(r) - n
    BY <1>3, <1>6
  <1>9. ASSUME Holds(r) < n PROVE e.bits < 0
    BY <1>3, <1>5, <1>6, <1>9
  <1>10. ASSUME ~ (Holds(r) < n) PROVE e \in Good
    <2>1. b - n >= 0
      BY <1>2, <1>3, <1>6, <1>10
    <2>2. QED
      BY <1>3, <1>5, <2>1 DEF Good
  <1>11. QED
    BY <1>7, <1>8, <1>9, <1>10

(* What a block header may be.                                             *)
LEMMA HeaderType ==
  ASSUME NEW h \in Headers
  PROVE  /\ h.kind \in {"bad", "coded", "stored"} /\ h.final \in BOOLEAN /\ h.len \in Nat
         /\ h.first \in Nat /\ h.last \in Nat /\ h.first \in 0..Loaded /\ h.last \in 0..Loaded
         /\ HeaderNeeds(h) \in 1..(Byte * MaxHdr)
  <1>1. Loaded \in Nat
    BY StreamSizes
  <1>2. QED
    BY <1>1, StreamAssumption

(* LEN and NLEN of a stored block.                                         *)
LEMMA ReadLength ==
  ASSUME NEW r \in Good
  PROVE  LET e == ReadLen[inflate_in_load[r]]
         IN /\ e.avail \in Nat /\ e.avail <= r.avail
            /\ IF Holds(r) < Byte * LenBytes
               THEN e.ret = ISAL_END_INPUT /\ e.bits \in Int
               ELSE /\ e.ret = ISAL_DECOMP_OK /\ e.bits \in 0..(Byte * Word)
                    /\ \E k \in Nat : e.bits = Byte * k
                    /\ \E s \in 0..(Byte - 1) : Holds(e) = Holds(r) - (s + Byte * LenBytes)
  <1> DEFINE l == inflate_in_load[r]
             e == ReadLen[l]
  <1>1. PICK b \in 0..(Byte * Word), a \in Nat : l = [bits |-> b, avail |-> a]
    BY Load DEF Good
  <1>2. Holds(r) = b + Byte * a /\ a <= r.avail /\ (a = 0 \/ b >= Loaded)
    BY Load, <1>1 DEF Holds
  <1>3. Byte \in Nat \ {0} /\ LenBytes \in Nat /\ Byte * Word \in Nat /\ b \in Nat /\ Byte * LenBytes \in Nat
        /\ b <= Byte * Word /\ Byte * 0 = 0 /\ Byte * a \in Nat /\ Word \in Nat
    BY Sizes, TimesPlus
  <1>4. PICK q \in Int, s \in 0..(Byte - 1) : b = Byte * q + s /\ WholeBytes(b) = q /\ q >= 0
    BY <1>3, Bytes
  <1>5. l \in Readers
    BY <1>1, <1>3 DEF Readers
  <1>6. e = IF q < LenBytes THEN Failed(l, ISAL_END_INPUT)
            ELSE [ret |-> ISAL_DECOMP_OK, bits |-> Byte * (q - LenBytes), avail |-> a]
    BY <1>1, <1>4, <1>5 DEF ReadLen
  <1>7. e.avail = a
    BY <1>1, <1>6 DEF Failed
  <1>8. CASE q < LenBytes
    <2>1. Byte * (q + 1) <= Byte * LenBytes /\ Byte * (q + 1) = Byte * q + Byte /\ Byte * q \in Int
      BY <1>3, <1>4, <1>8, Times, TimesPlus
    <2>2. b < Byte * LenBytes
      BY <1>3, <1>4, <2>1
    <2>3. a = 0
      <3>1. SUFFICES ASSUME b >= Loaded PROVE FALSE
        BY <1>2
      <3>2. Byte * LenBytes <= Byte * (Word - 1)
        BY <1>3, StreamSizes, Times
      <3>3. QED
        BY <1>3, <2>2, <3>1, <3>2, Sizes DEF Loaded
    <2>4. Holds(r) < Byte * LenBytes
      BY <1>2, <1>3, <2>2, <2>3
    <2>5. e.ret = ISAL_END_INPUT /\ e.bits \in Int
      BY <1>1, <1>3, <1>6, <1>8 DEF Failed
    <2>6. QED
      BY <1>2, <1>7, <2>4, <2>5
  <1>9. CASE q >= LenBytes
    <2>1. PICK k \in Nat : k = q - LenBytes
      BY <1>3, <1>9
    <2>2. e = [ret |-> ISAL_DECOMP_OK, bits |-> Byte * k, avail |-> a]
      BY <1>3, <1>4, <1>6, <1>9, <2>1
    <2>3. Byte * k = Byte * q - Byte * LenBytes /\ Byte * k \in Nat /\ Byte * q \in Int
      BY <1>3, <2>1, TimesPlus
    <2>4. ~ (Holds(r) < Byte * LenBytes)
      BY <1>2, <1>3, <1>4, <2>3
    <2>5. Byte * k \in 0..(Byte * Word)
      BY <1>3, <1>4, <2>3
    <2>6. Holds(e) = Holds(r) - (s + Byte * LenBytes)
      <3>1. Holds(e) = Byte * k + Byte * a
        BY <2>2 DEF Holds
      <3>2. QED
        BY <1>2, <1>3, <1>4, <2>3, <3>1
    <2>7. QED
      BY <1>2, <1>7, <2>2, <2>4, <2>5, <2>6
  <1>10. QED
    BY <1>3, <1>4, <1>8, <1>9

(* The two pieces of a header, each read after a load.                     *)
LEMMA ReadHeaderPieces ==
  ASSUME NEW r \in Good, NEW h \in Headers
  PROVE  LET p == ReadPieces(h)[inflate_in_read_bits(r, h.first)]
         IN /\ p \in Readers /\ p.avail <= r.avail
            /\ IF Holds(r) < h.first + h.last THEN p.bits < 0
               ELSE p \in Good /\ Holds(p) = Holds(r) - (h.first + h.last)
  <1> DEFINE a == inflate_in_read_bits(r, h.first)
             p == ReadPieces(h)[a]
             b == inflate_in_read_bits(a, h.last)
  <1>1. /\ a \in Readers /\ a.avail <= r.avail /\ Holds(a) = Holds(r) - h.first
        /\ IF Holds(r) < h.first THEN a.bits < 0 ELSE a \in Good
    BY HeaderType, Read
  <1>2. p = IF a.bits < 0 THEN a ELSE b
    BY <1>1 DEF ReadPieces
  <1>3. h.first \in Nat /\ h.last \in Nat /\ r.avail \in Nat
    BY HeaderType DEF Good
  <1>4. Holds(r) \in Nat
    BY GoodType
  <1>5. CASE Holds(r) < h.first
    BY <1>1, <1>2, <1>3, <1>4, <1>5
  <1>6. CASE ~ (Holds(r) < h.first)
    <2>1. a \in Good
      BY <1>1, <1>6
    <2>2. /\ b \in Readers /\ b.avail <= a.avail /\ Holds(b) = Holds(a) - h.last
          /\ IF Holds(a) < h.last THEN b.bits < 0 ELSE b \in Good
      BY <2>1, HeaderType, Read
    <2>3. p = b
      BY <1>2, <2>1, Sizes DEF Good
    <2>4. a.avail \in Nat /\ b.avail \in Nat
      BY <2>1, <2>2 DEF Good, Readers
    <2>5. p \in Readers /\ p.avail <= r.avail
      BY <1>1, <1>3, <2>2, <2>3, <2>4
    <2>6. QED
      BY <1>1, <1>3, <1>4, <2>2, <2>3, <2>5
  <1>7. QED
    BY <1>5, <1>6

(* A header is read if the input holds it, whatever of it read_in holds.   *)
LEMMA ReadHeaderBits ==
  ASSUME NEW r \in Good, NEW h \in Headers
  PROVE  LET e == read_header(r, h)
         IN /\ e.avail \in Nat /\ e.avail <= r.avail
            /\ IF Holds(r) < HeaderNeeds(h)
               THEN e.ret = ISAL_END_INPUT /\ e.bits \in Int
               ELSE /\ e.ret = IF h.kind = "bad" THEN ISAL_INVALID_BLOCK ELSE ISAL_DECOMP_OK
                    /\ e.bits \in 0..(Byte * Word)
                    /\ h.kind # "stored" => Holds(e) = Holds(r) - (h.first + h.last)
                    /\ h.kind = "stored" =>
                         /\ \E k \in Nat : e.bits = Byte * k
                         /\ \E s \in 0..(Byte - 1) :
                              Holds(e) = Holds(r) - (h.first + h.last) - (s + Byte * LenBytes)
  <1> DEFINE p == ReadPieces(h)[inflate_in_read_bits(r, h.first)]
             n == h.first + h.last
             e == read_header(r, h)
  <1>1. /\ p \in Readers /\ p.avail <= r.avail
        /\ IF Holds(r) < n THEN p.bits < 0 ELSE p \in Good /\ Holds(p) = Holds(r) - n
    BY ReadHeaderPieces
  <1>2. e = IF p.bits < 0 THEN Failed(p, ISAL_END_INPUT)
            ELSE CASE h.kind = "bad"    -> Failed(p, ISAL_INVALID_BLOCK)
                   [] h.kind = "coded"  -> Failed(p, ISAL_DECOMP_OK)
                   [] h.kind = "stored" -> ReadLen[inflate_in_load[p]]
    BY <1>1 DEF read_header, HeaderRead
  <1> HIDE DEF p, e
  <1>3. /\ n \in Nat /\ p.bits \in Int /\ p.avail \in Nat /\ r.avail \in Nat /\ Byte * LenBytes \in Nat
        /\ Holds(r) \in Nat /\ h.kind \in {"bad", "coded", "stored"}
    BY <1>1, GoodType, HeaderType, Sizes DEF Readers
  <1>4. HeaderNeeds(h) = n + IF h.kind = "stored" THEN Byte * LenBytes ELSE 0
    BY DEF HeaderNeeds
  <1>5. CASE Holds(r) < n
    <2>1. e = Failed(p, ISAL_END_INPUT)
      BY <1>1, <1>2, <1>5
    <2>2. Holds(r) < HeaderNeeds(h)
      BY <1>3, <1>4, <1>5
    <2>3. e.ret = ISAL_END_INPUT /\ e.avail = p.avail /\ e.bits \in Int
      BY <1>3, <2>1 DEF Failed
    <2>4. QED
      BY <1>1, <1>3, <2>2, <2>3 DEF e
  <1>6. CASE ~ (Holds(r) < n)
    <2>1. p \in Good /\ Holds(p) = Holds(r) - n /\ p.bits \in 0..(Byte * Word) /\ ~ (p.bits < 0)
      BY <1>1, <1>6, Sizes DEF Good
    <2>2. CASE h.kind # "stored"
      <3>1. e = Failed(p, IF h.kind = "bad" THEN ISAL_INVALID_BLOCK ELSE ISAL_DECOMP_OK)
        BY <1>2, <1>3, <2>1, <2>2
      <3>2. /\ e.ret = IF h.kind = "bad" THEN ISAL_INVALID_BLOCK ELSE ISAL_DECOMP_OK
            /\ e.bits = p.bits /\ e.avail = p.avail
        BY <3>1 DEF Failed
      <3>3. ~ (Holds(r) < HeaderNeeds(h))
        BY <1>3, <1>4, <1>6, <2>2
      <3>4. Holds(e) = Holds(r) - n
        BY <2>1, <3>2 DEF Holds
      <3>5. QED
        BY <1>1, <1>3, <2>1, <2>2, <3>2, <3>3, <3>4 DEF e
    <2>3. CASE h.kind = "stored"
      <3>1. e = ReadLen[inflate_in_load[p]]
        BY <1>2, <2>1, <2>3
      <3>2. /\ e.avail \in Nat /\ e.avail <= p.avail
            /\ IF Holds(p) < Byte * LenBytes
               THEN e.ret = ISAL_END_INPUT /\ e.bits \in Int
               ELSE /\ e.ret = ISAL_DECOMP_OK /\ e.bits \in 0..(Byte * Word)
                    /\ \E k \in Nat : e.bits = Byte * k
                    /\ \E s \in 0..(Byte - 1) : Holds(e) = Holds(p) - (s + Byte * LenBytes)
        BY <2>1, <3>1, ReadLength
      <3>3. (Holds(p) < Byte * LenBytes) <=> (Holds(r) < HeaderNeeds(h))
        BY <1>3, <1>4, <2>1, <2>3
      <3>4. e.avail <= r.avail
        BY <1>1, <1>3, <3>2
      <3>5. QED
        BY <1>3, <2>1, <2>3, <3>2, <3>3, <3>4 DEF e
    <2>4. QED
      BY <2>2, <2>3
  <1>7. QED
    BY <1>5, <1>6

(* A group of symbols and the match that ends it.                          *)
IsMatch(g) == g.tail \notin {"none", "eob", "bad"}
MatchOf(g) ==
  IF IsMatch(g) THEN Matches[g.tail] ELSE [len |-> 0, dist |-> 1, code |-> 0, extra |-> 0]
GroupNeeds(g) == g.bits + MatchOf(g).code + MatchOf(g).extra
ReadGroup(r, g) ==
  LET s == inflate_in_read_bits(r, g.bits)
  IN IF IsMatch(g) /\ s.bits >= 0 THEN ReadDistance(s, MatchOf(g)) ELSE s

(* What a group may be, with its match or without.                         *)
LEMMA GroupType ==
  ASSUME NEW g \in Groups
  PROVE  LET m == MatchOf(g)
         IN /\ g.bits \in Nat /\ g.bits \in 0..Loaded /\ g.lits \in Nat
            /\ m.len \in Nat /\ m.dist \in Nat /\ m.dist >= 1 /\ m.dist <= HistSize
            /\ m.code \in Nat /\ m.code \in 0..Loaded /\ m.code <= MaxCodeLen
            /\ m.extra \in Nat /\ m.extra \in 0..Loaded
            /\ g.lits + m.len + StoreSize <= LookAhead
            /\ IsMatch(g) => g.tail \in DOMAIN Matches /\ m = Matches[g.tail]
            /\ ~IsMatch(g) => m.len = 0 /\ m.code = 0 /\ m.extra = 0
  <1>1. Loaded \in Nat /\ HistSize \in Nat /\ HistSize >= 1 /\ MaxCodeLen \in Nat /\ StoreSize \in Nat /\ LookAhead \in Nat
    BY StreamSizes, Sizes
  <1>2. /\ g.tail \in DOMAIN Matches \cup {"none", "eob", "bad"} /\ g.bits \in 0..Loaded
        /\ g.lits \in Nat /\ g.lits + StoreSize <= LookAhead
        /\ g.tail \in DOMAIN Matches => g.lits + Matches[g.tail].len + StoreSize <= LookAhead
    BY StreamAssumption
  <1>3. CASE IsMatch(g)
    <2>1. g.tail \in DOMAIN Matches /\ MatchOf(g) = Matches[g.tail]
      BY <1>2, <1>3 DEF IsMatch, MatchOf
    <2>2. PICK m : m = Matches[g.tail]
      OBVIOUS
    <2>3. /\ m.len \in Nat /\ m.dist \in 1..HistSize
          /\ m.code \in 0..MaxCodeLen /\ {m.code, m.extra} \subseteq 0..Loaded
      BY <2>1, <2>2, StreamAssumption
    <2>4. QED
      BY <1>1, <1>2, <1>3, <2>1, <2>2, <2>3
  <1>4. CASE ~IsMatch(g)
    BY <1>1, <1>2, <1>4 DEF MatchOf
  <1>5. QED
    BY <1>3, <1>4

(* A distance's code and its extra bits: with enough of read_in left no    *)
(* load is needed for the code.                                            *)
LEMMA ReadDistanceBits ==
  ASSUME NEW r \in Good, NEW g \in Groups
  PROVE  LET m == MatchOf(g)
             e == ReadDistance(r, m)
         IN /\ e \in Readers /\ e.avail <= r.avail
            /\ IF Holds(r) < m.code + m.extra THEN e.bits < 0
               ELSE e \in Good /\ Holds(e) = Holds(r) - (m.code + m.extra)
  <1> DEFINE m == MatchOf(g)
             a == IF r.bits <= MaxCodeLen THEN inflate_in_read_bits(r, m.code)
                                          ELSE ReadBitsUnsafe(m.code)[r]
             b == inflate_in_read_bits(a, m.extra)
             e == ReadDistance(r, m)
  <1>1. /\ m.code \in Nat /\ m.code \in 0..Loaded /\ m.code <= MaxCodeLen /\ MaxCodeLen \in Nat
        /\ m.extra \in Nat /\ m.extra \in 0..Loaded
    BY GroupType, Sizes
  <1>2. r.bits \in Nat /\ r.avail \in Nat /\ Holds(r) \in Nat
    BY GoodType
  <1> HIDE DEF m
  <1>3. /\ a \in Readers /\ a.avail <= r.avail /\ Holds(a) = Holds(r) - m.code
        /\ IF Holds(r) < m.code THEN a.bits < 0 ELSE a \in Good
    <2>1. CASE r.bits <= MaxCodeLen
      BY <1>1, <2>1, Read
    <2>2. CASE ~ (r.bits <= MaxCodeLen)
      <3>1. PICK x \in 0..(Byte * Word), y \in Nat : r = [bits |-> x, avail |-> y]
        BY DEF Good
      <3>2. a = [bits |-> x - m.code, avail |-> y]
        BY <1>1, <2>2, <3>1, GoodType DEF ReadBitsUnsafe
      <3>3. x - m.code \in 0..(Byte * Word) /\ Byte * Word \in Nat /\ Byte * y \in Nat
        BY <1>1, <2>2, <3>1, TimesPlus, Sizes
      <3>4. Holds(r) = x + Byte * y /\ Holds(a) = x - m.code + Byte * y
        BY <3>1, <3>2 DEF Holds
      <3>5. a \in Good /\ a.avail <= r.avail
        BY <3>1, <3>2, <3>3 DEF Good
      <3>6. Holds(a) = Holds(r) - m.code /\ ~ (Holds(r) < m.code)
        BY <1>1, <3>3, <3>4
      <3>7. QED
        BY <3>5, <3>6, GoodType
    <2>3. QED
      BY <2>1, <2>2
  <1>4. e = IF a.bits < 0 THEN a ELSE b
    BY <1>3 DEF ReadDistance, ReadExtra
  <1> HIDE DEF a, e
  <1>5. CASE Holds(r) < m.code
    BY <1>1, <1>2, <1>3, <1>4, <1>5 DEF m, e
  <1>6. CASE ~ (Holds(r) < m.code)
    <2>1. a \in Good /\ a.bits \in Nat /\ a.avail \in Nat
      BY <1>3, <1>6, GoodType
    <2>2. /\ b \in Readers /\ b.avail <= a.avail /\ Holds(b) = Holds(a) - m.extra
          /\ IF Holds(a) < m.extra THEN b.bits < 0 ELSE b \in Good
      BY <1>1, <2>1, Read
    <2>3. e = b
      BY <1>4, <2>1
    <2>4. b.avail \in Nat
      BY <2>2 DEF Readers
    <2>5. e \in Readers /\ e.avail <= r.avail
      BY <1>2, <1>3, <2>1, <2>2, <2>3, <2>4
    <2>6. QED
      BY <1>1, <1>2, <1>3, <2>2, <2>3, <2>5 DEF m, e
  <1>7. QED
    BY <1>5, <1>6

(* A group is decoded if the input holds all of it.                        *)
LEMMA ReadGroupBits ==
  ASSUME NEW r \in Good, NEW g \in Groups
  PROVE  LET e == ReadGroup(r, g)
         IN /\ e \in Readers /\ e.avail <= r.avail
            /\ IF Holds(r) < GroupNeeds(g) THEN e.bits < 0
               ELSE e \in Good /\ Holds(e) = Holds(r) - GroupNeeds(g)
  <1> DEFINE m == MatchOf(g)
             s == inflate_in_read_bits(r, g.bits)
             d == ReadDistance(s, m)
             e == ReadGroup(r, g)
  <1>1. /\ g.bits \in Nat /\ g.bits \in 0..Loaded /\ m.code \in Nat /\ m.extra \in Nat
        /\ ~IsMatch(g) => m.code = 0 /\ m.extra = 0
    BY GroupType
  <1>2. r.bits \in Nat /\ r.avail \in Nat /\ Holds(r) \in Nat
    BY GoodType
  <1>3. GroupNeeds(g) = g.bits + m.code + m.extra
    BY DEF GroupNeeds
  <1>4. /\ s \in Readers /\ s.avail <= r.avail /\ Holds(s) = Holds(r) - g.bits
        /\ IF Holds(r) < g.bits THEN s.bits < 0 ELSE s \in Good
    BY <1>1, Read
  <1>5. e = IF IsMatch(g) /\ s.bits >= 0 THEN d ELSE s
    BY DEF ReadGroup
  <1> HIDE DEF m, s, e
  <1>6. CASE Holds(r) < g.bits
    <2>1. s.bits \in Int
      BY <1>4 DEF Readers
    <2>2. e = s /\ s.bits < 0
      BY <1>4, <1>5, <1>6, <2>1
    <2>3. QED
      BY <1>1, <1>2, <1>3, <1>4, <1>6, <2>2 DEF e
  <1>7. CASE ~ (Holds(r) < g.bits) /\ ~IsMatch(g)
    BY <1>1, <1>2, <1>3, <1>4, <1>5, <1>7 DEF e
  <1>8. CASE ~ (Holds(r) < g.bits) /\ IsMatch(g)
    <2>1. s \in Good /\ s.bits \in Nat /\ s.avail \in Nat
      BY <1>4, <1>8, GoodType
    <2>2. /\ d \in Readers /\ d.avail <= s.avail
          /\ IF Holds(s) < m.code + m.extra THEN d.bits < 0
             ELSE d \in Good /\ Holds(d) = Holds(s) - (m.code + m.extra)
      BY <2>1, ReadDistanceBits DEF m
    <2>3. e = d
      BY <1>5, <1>8, <2>1
    <2>4. d.avail \in Nat
      BY <2>2 DEF Readers
    <2>5. e \in Readers /\ e.avail <= r.avail
      BY <1>2, <1>4, <2>1, <2>2, <2>3, <2>4
    <2>6. QED
      BY <1>1, <1>2, <1>3, <1>4, <2>2, <2>3, <2>5 DEF e
  <1>9. QED
    BY <1>6, <1>7, <1>8

-----------------------------------------------------------------------------
(* The invariant: types, where a call stands, what of the input is where.  *)

Working == {"NEW_HDR", "HDR", "TYPE0", "CODED"}
Live    == block_state \in Working
Trusted == phase = 0 => ret = ISAL_DECOMP_OK
Unread  == read_in_length + Byte * avail_in + Byte * tmp_in_size
Rets    == {ISAL_DECOMP_OK, ISAL_END_INPUT, ISAL_OUT_OVERFLOW, ISAL_INVALID_BLOCK,
            ISAL_INVALID_SYMBOL, ISAL_INVALID_LOOKBACK, ISAL_INCORRECT_CHECKSUM}
States  == Working \cup {"INPUT_DONE", "CHECKSUM_CHECK", "FINISH"}

Types ==
  /\ avail_in \in Int /\ read_in_length \in Int /\ tmp_in_size \in Nat
  /\ pos \in Int /\ taken \in Int /\ buf_start \in Int
  /\ tmp_out \in Seq(Int) /\ out \in Seq(Int) /\ got \in Seq(Int)
  /\ plain \in Seq(Int) /\ write_overflow \in Seq(Int)
  /\ copy_overflow \in [len : Nat, dist : Nat]
  /\ tmp_out_processed \in Nat /\ total_out \in Nat /\ crc \in Nat
  /\ type0_block_len \in Nat /\ items \in Nat /\ room \in Nat /\ dict \in Nat
  /\ bfinal \in BOOLEAN /\ crc_flag \in DOMAIN TrailerLen
  /\ phase \in 0..2 /\ ret \in Rets

Control ==
  /\ pc \in {"user", "decode", "deliver", "save", "end", "stopped"} /\ block_state \in States
  /\ AtUser \/ Live \/ block_state = "INPUT_DONE"
  /\ pc = "decode" => ~Invalid(ret) /\ Live /\ (phase # 2 => ret = ISAL_DECOMP_OK)
  /\ phase = 0 => /\ pc \in {"user", "decode", "end", "stopped"} /\ block_state # "HDR"
                  /\ pc = "user" => ret = ISAL_DECOMP_OK /\ block_state = "NEW_HDR"
                  /\ pc = "end" /\ ret = ISAL_DECOMP_OK => block_state = "INPUT_DONE"
  /\ pc = "end" => phase = 0
  /\ pc = "save" => phase = 2
  /\ pc = "deliver" /\ phase = 2 => ret = ISAL_DECOMP_OK
  /\ phase # 0 /\ pc = "user" => ~Invalid(ret)
  /\ phase # 0 /\ pc = "stopped" => Invalid(ret)

Coming ==
  /\ block_state \in {"NEW_HDR", "HDR"} => upcoming \in Headers \cup {None}
  /\ block_state = "CODED" => upcoming \in Groups \cup {None}
  /\ block_state = "TYPE0" => upcoming = None
  /\ block_state = "HDR" /\ ~Invalid(ret) =>
       /\ upcoming \in Headers
       /\ read_in_length + Byte * tmp_in_size < HeaderNeeds(upcoming)

InputInv ==
  /\ Trusted => /\ avail_in \in Nat /\ read_in_length \in 0..(Byte * Word)
                /\ Byte * taken = pos + read_in_length + Byte * tmp_in_size
  /\ tmp_in_size <= MaxHdr
  /\ block_state \notin {"HDR", "CHECKSUM_CHECK"} => tmp_in_size = 0
  /\ block_state = "TYPE0" /\ Trusted => \E k \in Nat : read_in_length = Byte * k
  /\ block_state = "CHECKSUM_CHECK" => read_in_length = 0 /\ tmp_in_size < Trailer
  /\ block_state = "FINISH" => Byte * taken = pos

-----------------------------------------------------------------------------
(* Reading a header.                                                       *)

(* x is where the reader's input ends, in bytes of the stream.             *)
LEMMA HeaderTaken ==
  ASSUME NEW r \in Good, NEW h \in Headers, NEW x \in Int, pos \in Int,
         Byte * x = pos + Holds(r), ~ (Holds(r) < HeaderNeeds(h))
  PROVE  LET e == read_header(r, h)
         IN /\ e.avail \in Nat /\ e.avail <= r.avail /\ e.bits \in 0..(Byte * Word) /\ e.bits \in Nat
            /\ e.ret = IF h.kind = "bad" THEN ISAL_INVALID_BLOCK ELSE ISAL_DECOMP_OK
            /\ HeaderBits(h) \in Int
            /\ Byte * (x - e.avail) = pos + HeaderBits(h) + e.bits
            /\ Byte * (r.avail - e.avail) + r.bits >= HeaderNeeds(h)
            /\ h.kind = "stored" => \E k \in Nat : e.bits = Byte * k
  <1>0. PICK n \in Nat : n = h.first + h.last
    BY HeaderType
  <1>1. PICK e : e = read_header(r, h)
    OBVIOUS
  <1>2. /\ e.avail \in Nat /\ e.avail <= r.avail /\ e.bits \in 0..(Byte * Word)
        /\ e.ret = IF h.kind = "bad" THEN ISAL_INVALID_BLOCK ELSE ISAL_DECOMP_OK
        /\ h.kind # "stored" => Holds(e) = Holds(r) - n
        /\ h.kind = "stored" =>
             /\ \E k \in Nat : e.bits = Byte * k
             /\ \E s \in 0..(Byte - 1) : Holds(e) = Holds(r) - n - (s + Byte * LenBytes)
    BY <1>0, <1>1, ReadHeaderBits
  <1>3. PICK b \in Nat, a \in Nat : e.bits = b /\ e.avail = a /\ Holds(e) = b + Byte * a
    BY <1>2, Sizes DEF Holds
  <1>4. PICK rb \in Nat, ra \in Nat : r.bits = rb /\ r.avail = ra /\ Holds(r) = rb + Byte * ra
    BY GoodType DEF Holds
  <1>10. Byte \in Nat /\ LenBytes \in Nat
    BY Sizes
  <1>5. /\ n \in Nat /\ Byte * LenBytes \in Nat /\ Byte * a \in Nat /\ Byte * ra \in Nat /\ Byte * x \in Int
        /\ Byte * (x - a) = Byte * x - Byte * a /\ Byte * (ra - a) = Byte * ra - Byte * a /\ Byte \in Nat
        /\ LenBytes \in Nat
    BY <1>10
  <1>6. HeaderNeeds(h) = n + IF h.kind = "stored" THEN Byte * LenBytes ELSE 0
    BY <1>0 DEF HeaderNeeds
  <1>7. CASE h.kind # "stored"
    <2>1. HeaderBits(h) = n
      BY <1>0, <1>7 DEF HeaderBits
    <2>2. b + Byte * a = rb + Byte * ra - n
      BY <1>2, <1>3, <1>4, <1>5, <1>7
    <2>3. Byte * (x - a) = pos + HeaderBits(h) + b /\ HeaderBits(h) \in Int
      BY <1>4, <1>5, <2>1, <2>2
    <2>4. Byte * (ra - a) + rb >= HeaderNeeds(h)
      BY <1>5, <1>6, <1>7, <2>2
    <2>5. Byte * (x - e.avail) = pos + HeaderBits(h) + e.bits
      BY <1>3, <2>3
    <2>6. Byte * (r.avail - e.avail) + r.bits >= HeaderNeeds(h)
      BY <1>3, <1>4, <2>4
    <2>7. QED
      BY <1>1, <1>2, <1>3, <1>7, <2>3, <2>5, <2>6
  <1>8. CASE h.kind = "stored"
    <2>1. PICK k \in Nat : b = Byte * k
      BY <1>2, <1>3, <1>8
    <2>2. PICK s \in 0..(Byte - 1) : b + Byte * a = rb + Byte * ra - n - (s + Byte * LenBytes)
      BY <1>2, <1>3, <1>4, <1>5, <1>8
    <2>3. PICK q \in Int : q = x - a - k - LenBytes
      BY <1>5
    <2>4. Byte * q = Byte * x - Byte * a - Byte * k - Byte * LenBytes /\ Byte * q \in Int
      BY <1>5, <2>3
    <2>5. (pos + n) + s = Byte * q
      <3>1. Byte * x = pos + rb + Byte * ra
        BY <1>4, <1>5
      <3>2. s \in Nat /\ Byte * k \in Nat
        BY <1>10
      <3>3. QED
        BY <1>5, <2>1, <2>2, <2>4, <3>1, <3>2
    <2>6. (pos + n + Byte - 1) \div Byte = q
      <3>1. PICK m \in Int : m = pos + n
        OBVIOUS
      <3>2. m + s = Byte * q
        BY <2>5, <3>1
      <3>3. (m + Byte - 1) \div Byte = q
        BY <3>2, RoundUp
      <3>4. QED
        BY <3>1, <3>3
    <2>7. HeaderBits(h) = (q + LenBytes) * Byte - pos
      BY <1>0, <1>8, <2>6 DEF HeaderBits
    <2>8. (q + LenBytes) * Byte = Byte * q + Byte * LenBytes
      BY <1>5
    <2>9. HeaderBits(h) = n + s + Byte * LenBytes
      BY <1>5, <2>4, <2>5, <2>7, <2>8
    <2>10. Byte * (x - a) = pos + HeaderBits(h) + b
      BY <1>4, <1>5, <2>2, <2>9
    <2>11. Byte * (ra - a) + rb >= HeaderNeeds(h)
      BY <1>5, <1>6, <1>8, <2>2
    <2>12. HeaderBits(h) \in Int
      BY <1>5, <2>9
    <2>13. Byte * (x - e.avail) = pos + HeaderBits(h) + e.bits
      BY <1>3, <2>10
    <2>14. Byte * (r.avail - e.avail) + r.bits >= HeaderNeeds(h)
      BY <1>3, <1>4, <2>11
    <2>15. QED
      BY <1>1, <1>2, <1>3, <1>8, <2>12, <2>13, <2>14
  <1>9. QED
    BY <1>7, <1>8

-----------------------------------------------------------------------------
Codes == /\ ISAL_DECOMP_OK = 0 /\ ISAL_END_INPUT = 1 /\ ISAL_OUT_OVERFLOW = 2
         /\ ISAL_INVALID_BLOCK = -1 /\ ISAL_INVALID_SYMBOL = -2 /\ ISAL_INVALID_LOOKBACK = -3
         /\ ISAL_INCORRECT_CHECKSUM = -6

(* The codes that isal_inflate returns.                                    *)
LEMMA CodesAre == Codes
  BY DEF Codes, ISAL_DECOMP_OK, ISAL_END_INPUT, ISAL_OUT_OVERFLOW, ISAL_INVALID_BLOCK,
         ISAL_INVALID_SYMBOL, ISAL_INVALID_LOOKBACK, ISAL_INCORRECT_CHECKSUM

(* What the decoding loop starts from, with state or without.              *)
LEMMA Decoding ==
  ASSUME Types, Control, InputInv, pc = "decode"
  PROVE  /\ Trusted /\ Live /\ avail_in \in Nat /\ read_in_length \in Nat
         /\ read_in_length \in 0..(Byte * Word) /\ taken \in Int /\ pos \in Int
         /\ Byte * taken = pos + read_in_length + Byte * tmp_in_size
         /\ tmp_in_size \in Nat /\ Reader \in Good /\ Reader = [bits |-> read_in_length, avail |-> avail_in]
         /\ Byte * avail_in \in Nat /\ Byte * taken \in Int /\ Byte * tmp_in_size \in Nat
         /\ Holds(Reader) = read_in_length + Byte * avail_in
  <1>1. Trusted /\ Live
    BY DEF Control, Trusted
  <1>2. /\ avail_in \in Nat /\ read_in_length \in 0..(Byte * Word)
        /\ Byte * taken = pos + read_in_length + Byte * tmp_in_size
    BY <1>1 DEF InputInv
  <1>3. tmp_in_size \in Nat /\ taken \in Int /\ pos \in Int
    BY DEF Types
  <1>4. read_in_length \in Nat
    BY <1>2, Sizes
  <1>5. Byte * avail_in \in Nat /\ Byte * taken \in Int /\ Byte * tmp_in_size \in Nat
    BY <1>2, <1>3, Sizes
  <1>6. Reader \in Good /\ Holds(Reader) = read_in_length + Byte * avail_in
    BY <1>2 DEF Reader, Good, Holds
  <1>7. QED
    BY <1>1, <1>2, <1>3, <1>4, <1>5, <1>6 DEF Reader

(* The header to read, whether some of it was seen or not.                 *)
LEMMA HeaderChosen ==
  ASSUME Coming, block_state \in {"NEW_HDR", "HDR"}, NEW h \in HeaderChoices
  PROVE  h \in Headers /\ (upcoming \in Headers => h = upcoming)
  <1>1. upcoming \in Headers => upcoming # None
    BY HeaderType DEF None
  <1>2. QED
    BY <1>1 DEF Coming, HeaderChoices

(* A header that the input does not hold all of is saved in tmp_in_buffer, *)
(* which has the room; any other is read, and the input it took is gone.   *)
HeaderSaved(h) ==
  /\ tmp_in_size' = tmp_in_size + avail_in /\ tmp_in_size' <= MaxHdr
  /\ avail_in' = 0 /\ taken' = taken + avail_in /\ upcoming' = h
  /\ UNCHANGED <<read_in_length, pos, items>>
  /\ block_state' = "HDR" /\ ret' = ISAL_END_INPUT /\ UNCHANGED type0_block_len
  /\ read_in_length' + Byte * tmp_in_size' < HeaderNeeds(h)

HeaderTook(h) ==
  /\ tmp_in_size' = 0 /\ avail_in' \in Nat /\ read_in_length' \in 0..(Byte * Word)
  /\ taken' \in Int /\ pos' \in Int
  /\ Byte * taken' = pos' + read_in_length'
  /\ upcoming' = None /\ items' = items + 1
  /\ h.kind = "stored" => \E k \in Nat : read_in_length' = Byte * k
  /\ ret' = IF h.kind = "bad" THEN ISAL_INVALID_BLOCK ELSE ISAL_DECOMP_OK
  /\ block_state' = IF h.kind = "bad" THEN block_state
                    ELSE IF h.kind = "stored" THEN "TYPE0" ELSE "CODED"
  /\ type0_block_len' = IF h.kind = "stored" THEN h.len ELSE type0_block_len

(* Where the header is read from, and how far next_in is moved for it.     *)
LEMMA HeaderStart ==
  ASSUME Types, Control, Coming, InputInv, pc = "decode", NEW h \in Headers,
         block_state \in {"NEW_HDR", "HDR"}, upcoming \in Headers => h = upcoming,
         NEW copied, copied = Least(MaxHdr - tmp_in_size, avail_in),
         NEW start, start = IF block_state = "HDR"
                            THEN [Reader EXCEPT !.avail = tmp_in_size + copied] ELSE Reader
  PROVE  /\ start \in Good
         /\ (Holds(start) < HeaderNeeds(h)) <=> (Unread < HeaderNeeds(h))
         /\ \E x \in Int :
              /\ Byte * x = pos + Holds(start)
              /\ ~ (Unread < HeaderNeeds(h)) =>
                   LET e == read_header(start, h)
                       b == IF block_state = "HDR" THEN Most(0, start.avail - e.avail - tmp_in_size)
                                                   ELSE avail_in - e.avail
                   IN avail_in - b \in Nat /\ b \in Int /\ x - e.avail = taken + b
  <1> USE Decoding
  <1>1. PICK d \in Int : d = HeaderNeeds(h) /\ d <= Byte * MaxHdr /\ d >= 1
    BY HeaderType, Sizes
  <1>2. Byte * MaxHdr \in Nat /\ MaxHdr \in Nat /\ tmp_in_size <= MaxHdr
    BY Sizes DEF InputInv
  <1>3. Unread \in Nat /\ Unread = read_in_length + Byte * avail_in + Byte * tmp_in_size
    BY DEF Unread
  <1>4. CASE block_state = "NEW_HDR"
    <2>1. start = Reader /\ tmp_in_size = 0 /\ Byte * tmp_in_size = 0
      BY <1>4, Sizes DEF InputInv
    <2>2. Holds(start) = Unread
      BY <1>3, <2>1
    <2>3. PICK x \in Int : x = taken + avail_in
      OBVIOUS
    <2>4. Byte * x = Byte * taken + Byte * avail_in
      BY <2>3, TimesPlus
    <2>5. Byte * x = pos + Holds(start)
      BY <2>1, <2>4
    <2>6. ASSUME ~ (Unread < HeaderNeeds(h))
          PROVE  LET e == read_header(start, h)
                     b == avail_in - e.avail
                 IN avail_in - b \in Nat /\ b \in Int /\ x - e.avail = taken + b
      <3>1. PICK e : e = read_header(start, h)
        OBVIOUS
      <3>2. e.avail \in Nat
        BY <2>1, <3>1, ReadHeaderBits
      <3>3. QED
        BY <2>3, <3>1, <3>2
    <2>7. QED
      BY <1>4, <2>1, <2>2, <2>5, <2>6
  <1>5. CASE block_state = "HDR"
    <2>1. h = upcoming /\ read_in_length + Byte * tmp_in_size < d
      BY <1>1, <1>5 DEF Coming, Control
    <2>2. copied \in Nat /\ copied <= avail_in /\ tmp_in_size + copied <= MaxHdr
          /\ (copied = avail_in \/ tmp_in_size + copied = MaxHdr)
      BY <1>2 DEF Least
    <2>3. PICK a \in Nat : a = tmp_in_size + copied
      BY <2>2
    <2>4. start = [bits |-> read_in_length, avail |-> a]
      BY <1>5, <2>3
    <2>5. Byte * a = Byte * tmp_in_size + Byte * copied /\ Byte * a \in Nat /\ Byte * copied \in Nat
          /\ Byte * copied <= Byte * avail_in
      BY <2>2, <2>3, TimesPlus, Times
    <2>6. Holds(start) = read_in_length + Byte * a /\ start \in Good
      BY <2>4 DEF Holds, Good
    <2>7. (Holds(start) < d) <=> (Unread < d)
      <3>1. CASE copied = avail_in
        BY <1>3, <2>5, <2>6, <3>1
      <3>2. CASE a = MaxHdr
        BY <1>1, <1>2, <1>3, <2>5, <2>6, <3>2
      <3>3. QED
        BY <2>2, <2>3, <3>1, <3>2
    <2>8. PICK x \in Int : x = taken + copied
      BY <2>2
    <2>9. Byte * x = Byte * taken + Byte * copied
      BY <2>2, <2>8, TimesPlus
    <2>10. Byte * x = pos + Holds(start)
      BY <2>5, <2>6, <2>9
    <2>11. ASSUME ~ (Unread < HeaderNeeds(h))
           PROVE  LET e == read_header(start, h)
                      b == Most(0, start.avail - e.avail - tmp_in_size)
                  IN avail_in - b \in Nat /\ b \in Int /\ x - e.avail = taken + b
      <3>1. PICK e : e = read_header(start, h)
        OBVIOUS
      <3>2. ~ (Holds(start) < HeaderNeeds(h))
        BY <1>1, <2>7, <2>11
      <3>3. e.avail \in Nat /\ e.avail <= start.avail /\ Byte * (start.avail - e.avail) + start.bits >= HeaderNeeds(h)
        BY <2>6, <2>10, <3>1, <3>2, HeaderTaken
      <3>4. PICK c \in Nat : c = e.avail
        BY <3>3
      <3>5. c <= a /\ Byte * (a - c) + read_in_length >= d
        BY <1>1, <2>4, <3>3, <3>4
      <3>6. Byte * tmp_in_size < Byte * (a - c) /\ Byte * (a - c) \in Int
        BY <2>1, <3>5, TimesPlus
      <3>7. tmp_in_size < a - c
        BY <3>6, TimesLess
      <3>8. start.avail - e.avail - tmp_in_size = copied - c
        BY <2>2, <2>3, <2>4, <3>4
      <3>9. Most(0, copied - c) = copied - c
        BY <2>2, <2>3, <3>7 DEF Most
      <3>10. avail_in - (copied - c) \in Nat /\ copied - c \in Int /\ x - c = taken + (copied - c)
        BY <2>2, <2>8
      <3>11. QED
        BY <3>1, <3>4, <3>8, <3>9, <3>10
    <2>12. QED
      BY <1>1, <1>5, <2>6, <2>7, <2>10, <2>11
  <1>6. QED
    BY <1>4, <1>5

(* read_header_stateful saves the header, or takes it, as the input holds  *)
(* enough of it or not.                                                    *)
LEMMA HeaderStep ==
  ASSUME Types, Control, Coming, InputInv, ReadHeader
  PROVE  \E h \in Headers :
           /\ upcoming \in Headers => h = upcoming
           /\ IF Unread < HeaderNeeds(h) THEN HeaderSaved(h) ELSE HeaderTook(h)
           /\ bfinal' = h.final
           /\ pc' = IF ret' = ISAL_DECOMP_OK THEN "decode" ELSE AfterLoop
  <1>1. pc = "decode" /\ phase # 0 /\ block_state \in {"NEW_HDR", "HDR"}
    BY DEF ReadHeader
  <1>2. PICK h \in HeaderChoices :
       LET again == block_state = "HDR"
           copied == Least(MaxHdr - tmp_in_size, avail_in)
           start == IF again THEN [Reader EXCEPT !.avail = tmp_in_size + copied] ELSE Reader
           r == read_header(start, h)
           bytes_read == IF again THEN Most(0, start.avail - r.avail - tmp_in_size)
                                  ELSE avail_in - r.avail
           stop == r.ret = ISAL_END_INPUT
           st == IF stop THEN "HDR" ELSE IF h.kind = "stored" THEN "TYPE0" ELSE "CODED"
       IN /\ IF stop
             THEN /\ tmp_in_size' = tmp_in_size + avail_in
                  /\ avail_in' = 0 /\ taken' = taken + avail_in
                  /\ upcoming' = h
                  /\ UNCHANGED <<read_in_length, pos, items>>
             ELSE /\ tmp_in_size' = 0
                  /\ avail_in' = avail_in - bytes_read /\ taken' = taken + bytes_read
                  /\ read_in_length' = r.bits
                  /\ Accept(HeaderBits(h))
          /\ block_state' = IF Invalid(r.ret) THEN block_state ELSE st
          /\ bfinal' = h.final
          /\ type0_block_len' = IF ~stop /\ h.kind = "stored" THEN h.len ELSE type0_block_len
          /\ Continue(r.ret, st)
    BY DEF ReadHeader
  <1>3. h \in Headers /\ (upcoming \in Headers => h = upcoming)
    BY <1>1, HeaderChosen
  <1>4. PICK copied : copied = Least(MaxHdr - tmp_in_size, avail_in)
    OBVIOUS
  <1>5. PICK start : start = IF block_state = "HDR"
                             THEN [Reader EXCEPT !.avail = tmp_in_size + copied] ELSE Reader
    OBVIOUS
  <1>6. PICK r : r = read_header(start, h)
    OBVIOUS
  <1>7. PICK b : b = IF block_state = "HDR" THEN Most(0, start.avail - r.avail - tmp_in_size)
                                            ELSE avail_in - r.avail
    OBVIOUS
  <1>8. PICK x \in Int :
          /\ start \in Good
          /\ (Holds(start) < HeaderNeeds(h)) <=> (Unread < HeaderNeeds(h))
          /\ Byte * x = pos + Holds(start)
          /\ ~ (Unread < HeaderNeeds(h)) => avail_in - b \in Nat /\ b \in Int /\ x - r.avail = taken + b
    <2>1. /\ start \in Good
          /\ (Holds(start) < HeaderNeeds(h)) <=> (Unread < HeaderNeeds(h))
          /\ \E x \in Int :
               /\ Byte * x = pos + Holds(start)
               /\ ~ (Unread < HeaderNeeds(h)) =>
                    LET e == read_header(start, h)
                        c == IF block_state = "HDR" THEN Most(0, start.avail - e.avail - tmp_in_size)
                                                    ELSE avail_in - e.avail
                    IN avail_in - c \in Nat /\ c \in Int /\ x - e.avail = taken + c
      <3>1. pc = "decode" /\ block_state \in {"NEW_HDR", "HDR"} /\ h \in Headers
            /\ (upcoming \in Headers => h = upcoming)
        BY <1>1, <1>3
      <3>2. QED
        BY ONLY Types, Control, Coming, InputInv, <3>1, <1>4, <1>5, HeaderStart, Zenon
    <2>2. QED
      BY <1>6, <1>7, <2>1
  <1>9. LET stop == r.ret = ISAL_END_INPUT
            st == IF stop THEN "HDR" ELSE IF h.kind = "stored" THEN "TYPE0" ELSE "CODED"
        IN /\ IF stop
              THEN /\ tmp_in_size' = tmp_in_size + avail_in
                   /\ avail_in' = 0 /\ taken' = taken + avail_in
                   /\ upcoming' = h
                   /\ UNCHANGED <<read_in_length, pos, items>>
              ELSE /\ tmp_in_size' = 0
                   /\ avail_in' = avail_in - b /\ taken' = taken + b
                   /\ read_in_length' = r.bits
                   /\ Accept(HeaderBits(h))
           /\ block_state' = IF Invalid(r.ret) THEN block_state ELSE st
           /\ bfinal' = h.final
           /\ type0_block_len' = IF ~stop /\ h.kind = "stored" THEN h.len ELSE type0_block_len
           /\ Continue(r.ret, st)
    BY <1>2, <1>4, <1>5, <1>6, <1>7
  <1>10. Codes /\ pc' = IF ret' = ISAL_DECOMP_OK THEN "decode" ELSE AfterLoop
    BY <1>9, CodesAre DEF Continue
  <1>11. CASE Unread < HeaderNeeds(h)
    <2>1. r.ret = ISAL_END_INPUT
      BY <1>3, <1>6, <1>8, <1>11, ReadHeaderBits
    <2>2. /\ tmp_in_size' = tmp_in_size + avail_in /\ avail_in' = 0 /\ taken' = taken + avail_in
          /\ upcoming' = h /\ UNCHANGED <<read_in_length, pos, items>>
          /\ block_state' = "HDR" /\ ret' = ISAL_END_INPUT /\ UNCHANGED type0_block_len
      BY <1>9, <1>10, <2>1 DEF Invalid, Continue, Codes
    <2>3. PICK d \in Int : d = HeaderNeeds(h) /\ d <= Byte * MaxHdr
      BY <1>3, HeaderType, Sizes
    <2>4. /\ read_in_length \in Nat /\ Byte * avail_in \in Nat /\ Byte * tmp_in_size \in Nat
          /\ avail_in \in Nat /\ tmp_in_size \in Nat /\ Byte * MaxHdr \in Nat /\ MaxHdr \in Nat
      BY <1>1, Decoding, Sizes
    <2>5. Byte * (tmp_in_size + avail_in) = Byte * tmp_in_size + Byte * avail_in
      BY <2>4, TimesPlus
    <2>6. read_in_length + (Byte * tmp_in_size + Byte * avail_in) < d
      BY <1>11, <2>3, <2>4 DEF Unread
    <2>7. tmp_in_size + avail_in < MaxHdr
      <3>1. Byte * (tmp_in_size + avail_in) < Byte * MaxHdr
        BY <2>3, <2>4, <2>5, <2>6
      <3>2. QED
        BY <2>4, <3>1, TimesLess
    <2>8. tmp_in_size' <= MaxHdr /\ read_in_length' + Byte * tmp_in_size' < HeaderNeeds(h)
      BY <2>2, <2>3, <2>4, <2>5, <2>6, <2>7
    <2>9. HeaderSaved(h)
      BY <2>2, <2>8 DEF HeaderSaved
    <2>10. QED
      BY <1>3, <1>9, <1>10, <1>11, <2>9
  <1>12. CASE ~ (Unread < HeaderNeeds(h))
    <2>1. /\ r.avail \in Nat /\ r.bits \in 0..(Byte * Word) /\ r.bits \in Nat
          /\ r.ret = IF h.kind = "bad" THEN ISAL_INVALID_BLOCK ELSE ISAL_DECOMP_OK
          /\ HeaderBits(h) \in Int
          /\ Byte * (x - r.avail) = pos + HeaderBits(h) + r.bits
          /\ h.kind = "stored" => \E k \in Nat : r.bits = Byte * k
      BY <1>1, <1>3, <1>6, <1>8, <1>12, Decoding, HeaderTaken
    <2>2. r.ret # ISAL_END_INPUT
      BY <1>10, <2>1 DEF Codes
    <2>3. /\ tmp_in_size' = 0 /\ avail_in' = avail_in - b /\ taken' = taken + b
          /\ read_in_length' = r.bits /\ Accept(HeaderBits(h))
          /\ block_state' = IF Invalid(r.ret) THEN block_state
                            ELSE IF h.kind = "stored" THEN "TYPE0" ELSE "CODED"
          /\ type0_block_len' = IF h.kind = "stored" THEN h.len ELSE type0_block_len
          /\ ret' = r.ret
      BY <1>9, <2>2 DEF Continue
    <2>4. block_state' = IF h.kind = "bad" THEN block_state
                         ELSE IF h.kind = "stored" THEN "TYPE0" ELSE "CODED"
      BY <1>10, <2>1, <2>3 DEF Invalid, Codes
    <2>5. avail_in' \in Nat /\ taken' \in Int /\ taken' = x - r.avail
      BY <1>1, <1>8, <1>12, <2>3, Decoding
    <2>6. pos' \in Int /\ Byte * taken' = pos' + read_in_length'
      BY <1>1, <2>1, <2>3, <2>5, Decoding DEF Accept
    <2>7. HeaderTook(h)
      BY <2>1, <2>3, <2>4, <2>5, <2>6 DEF HeaderTook, Accept
    <2>8. QED
      BY <1>3, <1>9, <1>10, <1>12, <2>7
  <1>13. QED
    BY <1>11, <1>12

-----------------------------------------------------------------------------
(* The room for output, and what is written to it.                         *)
Space ==
  /\ tmp_out_processed <= Len(tmp_out) /\ Len(tmp_out) <= TmpSize
  /\ phase = 0 => Len(out) <= room /\ (pc = "user" => out = <<>>)
  /\ phase # 0 =>
       /\ pc \in {"user", "decode", "stopped"} => Overflowed = 0
       /\ Overflowed > 0 => Overflowed + StoreSize <= LookAhead
       /\ Live /\ (pc \in {"user", "save"} \/ phase = 2) => Len(tmp_out) + StoreSize <= TmpSize
       /\ pc = "decode" => IF phase = 1 THEN out = <<>> /\ Len(tmp_out) <= 2 * HistSize
                           ELSE Pending = 0 /\ Len(out) <= room
       /\ pc = "deliver" => /\ out = <<>>
                            /\ phase = 1 => /\ Len(tmp_out) <= 2 * HistSize
                                            /\ Overflowed > 0 => Len(tmp_out) = 2 * HistSize
                            /\ phase = 2 => Overflowed = 0
       /\ pc = "save" => /\ Len(out) <= room
                         /\ Overflowed > 0 => Pending = 0 /\ Len(tmp_out) + StoreSize <= TmpSize
       /\ total_out = Len(got) + IF AtUser THEN 0 ELSE Len(out) + Pending

(* The lengths of the buffers.                                             *)
LEMMA Lengths ==
  ASSUME Types
  PROVE  /\ Len(tmp_out) \in Nat /\ Len(out) \in Nat /\ Len(got) \in Nat /\ Len(plain) \in Nat
         /\ Len(write_overflow) \in Nat /\ Overflowed \in Nat /\ TmpSize \in Nat
         /\ TmpSize = 2 * HistSize + LookAhead /\ 2 * HistSize \in Nat
         /\ Pending = Len(tmp_out) - tmp_out_processed /\ Pending \in Int
         /\ copy_overflow.len \in Nat /\ copy_overflow.dist \in Nat
         /\ Overflowed = Len(write_overflow) + copy_overflow.len
  BY Sizes DEF Types, Overflowed, Pending, TmpSize

(* The room a step of the loop has for output.                             *)
LEMMA Room ==
  ASSUME Types, Control, Space, pc = "decode"
  PROVE  /\ AvailOut \in Nat
         /\ phase = 1 => AvailOut = 2 * HistSize - Len(tmp_out) /\ out = <<>>
         /\ phase # 1 => AvailOut = room - Len(out)
         /\ phase # 0 => Overflowed = 0
  <1>1. room \in Nat /\ phase \in 0..2
    BY DEF Types
  <1>2. CASE phase = 1
    <2>1. out = <<>> /\ Len(tmp_out) <= 2 * HistSize /\ Overflowed = 0
      BY <1>2 DEF Space
    <2>2. 2 * HistSize - Len(tmp_out) \in Nat
      BY <2>1, Lengths
    <2>3. AvailOut = 2 * HistSize - Len(tmp_out)
      BY <1>2, <2>2 DEF AvailOut, Most
    <2>4. QED
      BY <1>2, <2>1, <2>2, <2>3
  <1>3. CASE phase # 1
    BY <1>1, <1>3, Lengths DEF Space, AvailOut
  <1>4. QED
    BY <1>2, <1>3

(* n literals are n bytes.                                                 *)
LEMMA LiteralsType ==
  ASSUME Types, NEW n \in Nat
  PROVE  Literals(n) \in Seq(Int) /\ Len(Literals(n)) = n
  <1>1. Len(plain) \in Nat /\ dict \in Nat
    BY DEF Types
  <1>2. \A i \in 1..n : Len(plain) - dict + i \in Int
    BY <1>1
  <1>3. Literals(n) \in [1..n -> Int]
    BY <1>2 DEF Literals
  <1>4. QED
    BY <1>3

(* A match of n bytes adds n bytes.                                        *)
LEMMA CopyType ==
  ASSUME NEW buf \in Seq(Int), NEW d \in Nat \ {0}, NEW n \in Nat
  PROVE  byte_copy(buf, d, n) \in Seq(Int) /\ Len(byte_copy(buf, d, n)) = Len(buf) + n
  <1>1. \A i : Cell(buf, i) \in Int
    BY DEF Cell, Junk
  <1> DEFINE c == [i \in 1..n |-> Cell(buf, (Len(buf) - d + 1) + ((i - 1) % d))]
  <1>2. c \in [1..n -> Int]
    BY <1>1
  <1>3. c \in Seq(Int) /\ Len(c) = n
    BY <1>2
  <1> HIDE DEF c
  <1>4. buf \o c \in Seq(Int) /\ Len(buf \o c) = Len(buf) + n
    BY <1>3
  <1>5. QED
    BY <1>4 DEF byte_copy, c

(* A part of a buffer.                                                     *)
LEMMA PartType ==
  ASSUME NEW s \in Seq(Int), NEW m \in 1..(Len(s) + 1), NEW n \in 0..Len(s)
  PROVE  SubSeq(s, m, n) \in Seq(Int) /\ Len(SubSeq(s, m, n)) = IF m <= n THEN n - m + 1 ELSE 0
  <1>1. Len(s) \in Nat /\ m \in Nat /\ n \in Nat
    OBVIOUS
  <1>2. \A i \in m..n : s[i] \in Int
    BY <1>1
  <1>3. QED
    BY <1>1, <1>2, SubSeqProperties

(* What overflowed is added to a buffer's end.                             *)
LEMMA OverflowType ==
  ASSUME Types, NEW b \in Seq(Int)
  PROVE  WithOverflow(b) \in Seq(Int) /\ Len(WithOverflow(b)) = Len(b) + Overflowed
  <1>1. write_overflow \in Seq(Int) /\ copy_overflow.len \in Nat /\ copy_overflow.dist \in Nat
    BY DEF Types
  <1>2. Most(1, copy_overflow.dist) \in Nat \ {0}
    BY <1>1 DEF Most
  <1>3. b \o write_overflow \in Seq(Int) /\ Len(b \o write_overflow) = Len(b) + Len(write_overflow)
    BY <1>1
  <1>4. PICK c, d, n : c = b \o write_overflow /\ d = Most(1, copy_overflow.dist) /\ n = copy_overflow.len
    OBVIOUS
  <1>5. byte_copy(c, d, n) \in Seq(Int) /\ Len(byte_copy(c, d, n)) = Len(c) + n
    BY <1>1, <1>2, <1>3, <1>4, CopyType
  <1>6. Len(b) \in Nat /\ Len(write_overflow) \in Nat
    BY <1>1
  <1>7. QED
    BY <1>1, <1>3, <1>4, <1>5, <1>6 DEF WithOverflow, Overflowed

-----------------------------------------------------------------------------
(* Where a step of the loop leaves the input, if it did not fail.          *)
InputKept ==
  /\ avail_in' \in Nat /\ read_in_length' \in 0..(Byte * Word) /\ taken' \in Int /\ pos' \in Int
  /\ Byte * taken' = pos' + read_in_length' + Byte * tmp_in_size'

(* Without state nothing is put back of a header that is refused.          *)
LEMMA StatelessHeaderStep ==
  ASSUME Types, Control, Coming, InputInv, ReadHeaderStateless
  PROVE  \E h \in Headers :
           /\ avail_in' \in Int /\ read_in_length' \in Int /\ taken' \in Int /\ pos' \in Int /\ items' \in Nat
           /\ tmp_in_size' = 0 /\ bfinal' = h.final /\ upcoming' \in {h, None}
           /\ type0_block_len' \in Nat
           /\ ret' \in Rets /\ ret' \in {ISAL_DECOMP_OK, ISAL_END_INPUT, ISAL_INVALID_BLOCK}
           /\ pc' = IF ret' = ISAL_DECOMP_OK THEN "decode" ELSE AfterLoop
           /\ ret' = ISAL_DECOMP_OK =>
                /\ InputKept /\ upcoming' = None
                /\ block_state' = IF h.kind = "stored" THEN "TYPE0" ELSE "CODED"
                /\ h.kind = "stored" => \E k \in Nat : read_in_length' = Byte * k
           /\ ret' # ISAL_DECOMP_OK => block_state' = "NEW_HDR"
  <1>1. pc = "decode" /\ phase = 0 /\ block_state = "NEW_HDR" /\ tmp_in_size' = tmp_in_size
    BY DEF ReadHeaderStateless
  <1>2. PICK h \in HeaderChoices :
       LET r == read_header(Reader, h)
           ok == r.ret = ISAL_DECOMP_OK
       IN /\ read_in_length' = r.bits
          /\ avail_in' = r.avail /\ taken' = taken + avail_in - r.avail
          /\ IF ok THEN Accept(HeaderBits(h)) ELSE upcoming' = h /\ UNCHANGED <<pos, items>>
          /\ block_state' = IF ~ok THEN block_state
                            ELSE IF h.kind = "stored" THEN "TYPE0" ELSE "CODED"
          /\ bfinal' = h.final
          /\ type0_block_len' = IF ok /\ h.kind = "stored" THEN h.len ELSE type0_block_len
          /\ Continue(r.ret, block_state')
    BY DEF ReadHeaderStateless
  <1>3. h \in Headers
    BY <1>1, HeaderChosen
  <1>4. PICK r : r = read_header(Reader, h)
    OBVIOUS
  <1>5. /\ read_in_length' = r.bits
        /\ avail_in' = r.avail /\ taken' = taken + avail_in - r.avail
        /\ IF r.ret = ISAL_DECOMP_OK THEN Accept(HeaderBits(h)) ELSE upcoming' = h /\ UNCHANGED <<pos, items>>
        /\ block_state' = IF r.ret # ISAL_DECOMP_OK THEN block_state
                          ELSE IF h.kind = "stored" THEN "TYPE0" ELSE "CODED"
        /\ bfinal' = h.final
        /\ type0_block_len' = IF r.ret = ISAL_DECOMP_OK /\ h.kind = "stored" THEN h.len ELSE type0_block_len
        /\ Continue(r.ret, block_state')
    BY <1>2, <1>4
  <1>6. Codes
    BY CodesAre
  <1>7. ret' = r.ret /\ pc' = IF ret' = ISAL_DECOMP_OK THEN "decode" ELSE AfterLoop
    BY <1>1, <1>5 DEF Continue
  <1>8. /\ tmp_in_size = 0 /\ avail_in \in Nat /\ read_in_length \in Nat /\ taken \in Int /\ pos \in Int
        /\ Reader \in Good /\ Holds(Reader) = read_in_length + Byte * avail_in
        /\ Byte * taken = pos + read_in_length + Byte * tmp_in_size
        /\ items \in Nat /\ type0_block_len \in Nat /\ Byte * tmp_in_size = 0
    BY <1>1, Decoding, Sizes DEF InputInv, Types
  <1>9. h.len \in Nat
    BY <1>3, HeaderType
  <1>10. PICK x \in Int : x = taken + avail_in
    BY <1>8
  <1>11. Byte * x = pos + Holds(Reader)
    <2>1. avail_in \in Int
      BY <1>8
    <2>2. Byte * x = Byte * taken + Byte * avail_in
      BY <1>8, <1>10, <2>1, TimesPlus
    <2>3. Byte * taken \in Int /\ Byte * avail_in \in Nat
      BY <1>8, Sizes
    <2>4. QED
      BY <1>8, <2>2, <2>3
  <1>12. CASE Holds(Reader) < HeaderNeeds(h)
    <2>1. r.avail \in Nat /\ r.ret = ISAL_END_INPUT /\ r.bits \in Int
      BY <1>3, <1>4, <1>8, <1>12, ReadHeaderBits
    <2>2. /\ ret' # ISAL_DECOMP_OK
          /\ ret' \in Rets /\ ret' \in {ISAL_DECOMP_OK, ISAL_END_INPUT, ISAL_INVALID_BLOCK}
      BY <1>6, <1>7, <2>1 DEF Codes, Rets
    <2>3. /\ avail_in' \in Int /\ read_in_length' \in Int /\ taken' \in Int /\ pos' \in Int /\ items' \in Nat
          /\ tmp_in_size' = 0 /\ bfinal' = h.final /\ upcoming' = h /\ type0_block_len' \in Nat
          /\ block_state' = "NEW_HDR"
      BY <1>1, <1>5, <1>7, <1>8, <2>1, <2>2
    <2>4. QED
      BY <1>3, <1>7, <2>2, <2>3
  <1>13. CASE ~ (Holds(Reader) < HeaderNeeds(h))
    <2>1. /\ r.avail \in Nat /\ r.bits \in 0..(Byte * Word) /\ r.bits \in Nat
          /\ r.ret = IF h.kind = "bad" THEN ISAL_INVALID_BLOCK ELSE ISAL_DECOMP_OK
          /\ HeaderBits(h) \in Int
          /\ Byte * (x - r.avail) = pos + HeaderBits(h) + r.bits
          /\ h.kind = "stored" => \E k \in Nat : r.bits = Byte * k
      BY <1>3, <1>4, <1>8, <1>11, <1>13, HeaderTaken
    <2>2. /\ avail_in' \in Int /\ read_in_length' \in Int /\ taken' \in Int /\ taken' = x - r.avail
          /\ pos' \in Int /\ items' \in Nat
          /\ tmp_in_size' = 0 /\ bfinal' = h.final /\ upcoming' \in {h, None} /\ type0_block_len' \in Nat
          /\ avail_in' \in Nat /\ read_in_length' \in 0..(Byte * Word)
      BY <1>1, <1>5, <1>8, <1>9, <1>10, <2>1 DEF Accept
    <2>3. ret' \in Rets /\ ret' \in {ISAL_DECOMP_OK, ISAL_END_INPUT, ISAL_INVALID_BLOCK}
      BY <1>7, <2>1 DEF Rets
    <2>4. ASSUME ret' = ISAL_DECOMP_OK
          PROVE  /\ InputKept /\ upcoming' = None
                 /\ block_state' = IF h.kind = "stored" THEN "TYPE0" ELSE "CODED"
                 /\ h.kind = "stored" => \E k \in Nat : read_in_length' = Byte * k
      <3>1. /\ pos' = pos + HeaderBits(h) /\ upcoming' = None /\ read_in_length' = r.bits
            /\ block_state' = IF h.kind = "stored" THEN "TYPE0" ELSE "CODED"
        BY <1>5, <1>7, <2>4 DEF Accept
      <3>2. Byte * taken' = pos' + read_in_length' + Byte * tmp_in_size'
        BY <1>1, <1>8, <2>1, <2>2, <3>1
      <3>3. InputKept
        BY <2>2, <3>2 DEF InputKept
      <3>4. QED
        BY <2>1, <3>1, <3>3
    <2>5. ret' # ISAL_DECOMP_OK => block_state' = "NEW_HDR"
      BY <1>1, <1>5, <1>7
    <2>6. QED
      BY <1>3, <1>7, <2>2, <2>3, <2>4, <2>5
  <1>14. QED
    BY <1>12, <1>13

(* What a step of the loop adds to the output.                             *)
Wrote(s) ==
  /\ s \in Seq(Int)
  /\ IF phase = 1 THEN tmp_out' = tmp_out \o s /\ out' = out ELSE out' = out \o s /\ tmp_out' = tmp_out

(* decode_literal_block copies what there is of the block, and has room;   *)
(* its bytes are taken from read_in first, then from the input.            *)
LEMMA StoredStep ==
  ASSUME Types, Control, Coming, InputInv, Space, StoredBlock
  PROVE  \E len \in Nat :
           /\ len <= AvailOut /\ len <= type0_block_len
           /\ Wrote(Literals(len)) /\ Len(Literals(len)) = len
           /\ plain' = plain \o Literals(len)
           /\ total_out' = total_out + len
           /\ type0_block_len' = type0_block_len - len
           /\ InputKept
           /\ \E k \in Nat : read_in_length' = Byte * k
           /\ block_state' = IF len = type0_block_len THEN BlockDone ELSE "TYPE0"
           /\ ret' \in {ISAL_DECOMP_OK, ISAL_END_INPUT, ISAL_OUT_OVERFLOW}
           /\ ret' = ISAL_DECOMP_OK =>
                len = type0_block_len \/ (len < AvailOut /\ len < Unread)
           /\ ret' = ISAL_END_INPUT => Unread' = 0 /\ block_state' # "INPUT_DONE"
           /\ ret' = ISAL_OUT_OVERFLOW => len = AvailOut /\ len < type0_block_len
           /\ pc' = IF ret' # ISAL_DECOMP_OK \/ block_state' = "INPUT_DONE" THEN AfterLoop ELSE "decode"
           /\ UNCHANGED <<tmp_in_size, write_overflow, copy_overflow, bfinal, upcoming, items, call, sent>>
  <1>1. pc = "decode" /\ block_state = "TYPE0"
    BY DEF StoredBlock
  <1>2. /\ Trusted /\ avail_in \in Nat /\ taken \in Int /\ pos \in Int /\ tmp_in_size = 0
        /\ Byte * taken = pos + read_in_length + Byte * tmp_in_size /\ Byte * tmp_in_size = 0
        /\ read_in_length \in 0..(Byte * Word)
    BY <1>1, Decoding, Sizes DEF InputInv
  <1>3. PICK k \in Nat : read_in_length = Byte * k
    BY <1>1, <1>2 DEF InputInv
  <1>4. WholeBytes(read_in_length) = k
    <2>1. Byte * k \in Int /\ 0 \in 0..(Byte - 1) /\ Byte * k = Byte * k + 0
      BY Sizes
    <2>2. (Byte * k) \div Byte = k
      BY <2>1, Quotient
    <2>3. QED
      BY <1>3, <2>2 DEF WholeBytes
  <1>5. AvailOut \in Nat /\ type0_block_len \in Nat
    BY <1>1, Room DEF Types
  <1>6. PICK len : len = Least(type0_block_len, Least(AvailOut, avail_in + k))
    OBVIOUS
  <1>7. PICK held : held = Least(k, len)
    OBVIOUS
  <1>8. /\ len \in Nat /\ len <= type0_block_len /\ len <= AvailOut /\ len <= avail_in + k
        /\ len = type0_block_len \/ len = AvailOut \/ len = avail_in + k
        /\ held \in Nat /\ held <= k /\ held <= len /\ (held = k \/ held = len)
    BY <1>2, <1>5, <1>6, <1>7 DEF Least
  <1>9. LET st == IF len = type0_block_len THEN BlockDone ELSE "TYPE0"
            empty == avail_in + k = len /\ st # "INPUT_DONE"
            full  == AvailOut = len /\ len < type0_block_len
            r     == IF empty THEN ISAL_END_INPUT
                     ELSE IF full THEN ISAL_OUT_OVERFLOW ELSE ISAL_DECOMP_OK
        IN /\ SetTarget(Target \o Literals(len))
           /\ plain' = plain \o Literals(len)
           /\ total_out' = total_out + len
           /\ type0_block_len' = type0_block_len - len
           /\ read_in_length' = IF held = k THEN 0 ELSE read_in_length - Byte * held
           /\ avail_in' = avail_in - (len - held) /\ taken' = taken + (len - held)
           /\ pos' = pos + Byte * len
           /\ block_state' = st
           /\ Continue(r, st)
    BY <1>4, <1>6, <1>7 DEF StoredBlock
  <1>10. Literals(len) \in Seq(Int) /\ Len(Literals(len)) = len
    BY <1>8, LiteralsType
  <1>11. Wrote(Literals(len))
    BY <1>9, <1>10 DEF SetTarget, Target, Wrote
  <1>12. PICK j \in Nat : j = k - held
    BY <1>8
  <1>13. /\ Byte * j = Byte * k - Byte * held /\ Byte * (len - held) = Byte * len - Byte * held
         /\ Byte * (taken + (len - held)) = Byte * taken + Byte * (len - held)
         /\ Byte * held \in Nat /\ Byte * k \in Nat /\ Byte * len \in Nat /\ Byte * j \in Nat /\ Byte * taken \in Int
         /\ len - held \in Int
    <2>1. k \in Int /\ held \in Int /\ len \in Int /\ len - held \in Int /\ j = k - held
      BY <1>8, <1>12
    <2>2. Byte * j = Byte * k - Byte * held
      BY <2>1, TimesPlus
    <2>3. Byte * (len - held) = Byte * len - Byte * held
      BY <2>1, TimesPlus
    <2>4. Byte * (taken + (len - held)) = Byte * taken + Byte * (len - held)
      BY <1>2, <2>1, TimesPlus
    <2>5. Byte * held \in Nat /\ Byte * k \in Nat /\ Byte * len \in Nat /\ Byte * j \in Nat /\ Byte * taken \in Int
      BY <1>2, <1>8, <1>12, Sizes
    <2>6. QED
      BY <2>1, <2>2, <2>3, <2>4, <2>5
  <1>14. read_in_length' = Byte * j
    <2>1. CASE held = k
      BY <1>9, <1>12, <2>1, Sizes
    <2>2. CASE held # k
      BY <1>3, <1>9, <1>13, <2>2
    <2>3. QED
      BY <2>1, <2>2
  <1>15. InputKept
    <2>1. avail_in' \in Nat /\ taken' \in Int /\ pos' \in Int
      <3>1. avail_in' = avail_in - (len - held) /\ taken' = taken + (len - held) /\ pos' = pos + Byte * len
        BY <1>9
      <3>2. avail_in - (len - held) \in Nat
        BY <1>2, <1>8
      <3>3. QED
        BY <1>2, <1>13, <3>1, <3>2
    <2>2. read_in_length' \in 0..(Byte * Word)
      BY <1>2, <1>3, <1>13, <1>14, Sizes
    <2>3. Byte * taken' = pos' + read_in_length'
      <3>1. taken' = taken + (len - held) /\ pos' = pos + Byte * len
        BY <1>9
      <3>2. Byte * taken' = Byte * taken + (Byte * len - Byte * held)
        BY <1>13, <3>1
      <3>3. Byte * taken = pos + Byte * k
        BY <1>2, <1>3, <1>13
      <3>4. QED
        BY <1>2, <1>13, <1>14, <3>1, <3>2, <3>3
    <2>4. tmp_in_size' = tmp_in_size
      BY DEF StoredBlock
    <2>5. Byte * taken' = pos' + read_in_length' + Byte * tmp_in_size'
      BY <1>2, <2>1, <2>3, <2>4, <1>13, <1>14
    <2>6. QED
      BY <2>1, <2>2, <2>5 DEF InputKept
  <1>16. /\ ret' \in {ISAL_DECOMP_OK, ISAL_END_INPUT, ISAL_OUT_OVERFLOW}
         /\ pc' = IF ret' # ISAL_DECOMP_OK \/ block_state' = "INPUT_DONE" THEN AfterLoop ELSE "decode"
         /\ block_state' = IF len = type0_block_len THEN BlockDone ELSE "TYPE0"
    BY <1>9 DEF Continue
  <1>17. Codes
    BY CodesAre
  <1>18. ret' = ISAL_DECOMP_OK => len = type0_block_len \/ (len < AvailOut /\ len < Unread)
    <2>1. SUFFICES ASSUME ret' = ISAL_DECOMP_OK, len # type0_block_len
                   PROVE  len < AvailOut /\ len < Unread
      OBVIOUS
    <2>2. avail_in + k # len /\ AvailOut # len
      BY <1>5, <1>8, <1>9, <1>17, <2>1 DEF Continue, Codes
    <2>3. len < AvailOut /\ len < avail_in + k
      BY <1>2, <1>5, <1>8, <2>2
    <2>4. avail_in + k <= Byte * (avail_in + k)
      BY <1>2, Sizes
    <2>5. Byte * (avail_in + k) = Byte * avail_in + Byte * k /\ Byte * avail_in \in Nat
      <3>1. avail_in \in Int /\ k \in Int
        BY <1>2
      <3>2. QED
        BY <1>2, <3>1, TimesPlus
    <2>6. QED
      BY <1>2, <1>3, <1>8, <1>13, <2>3, <2>4, <2>5 DEF Unread
  <1>19. ret' = ISAL_END_INPUT => Unread' = 0 /\ block_state' # "INPUT_DONE"
    <2>1. SUFFICES ASSUME ret' = ISAL_END_INPUT PROVE Unread' = 0 /\ block_state' # "INPUT_DONE"
      OBVIOUS
    <2>2. avail_in + k = len /\ block_state' # "INPUT_DONE"
      BY <1>9, <1>17, <2>1 DEF Continue, Codes
    <2>3. held = k /\ avail_in' = 0 /\ j = 0
      BY <1>2, <1>8, <1>9, <1>12, <2>2
    <2>4. Unread' = Byte * 0 + Byte * 0 + Byte * 0
      BY <1>2, <1>14, <2>3 DEF Unread, StoredBlock
    <2>5. QED
      BY <2>2, <2>4, Sizes
  <1>20. ret' = ISAL_OUT_OVERFLOW => len = AvailOut /\ len < type0_block_len
    BY <1>9, <1>17 DEF Continue, Codes
  <1>21. UNCHANGED <<tmp_in_size, write_overflow, copy_overflow, bfinal, upcoming, items, call, sent>>
    BY DEF StoredBlock
  <1>22. QED
    BY <1>8, <1>9, <1>10, <1>11, <1>14, <1>12, <1>15, <1>16, <1>18, <1>19, <1>20, <1>21

-----------------------------------------------------------------------------
(* A group: what of its literals and its match finds room, and what not.   *)

Fits(g)   == Least(g.lits, AvailOut)
Spill(g)  == g.lits - Fits(g)
Before(g) == Target \o SubSeq(Literals(g.lits), 1, Fits(g))
Far(g)    == IsMatch(g) /\ MatchOf(g).dist > Len(Before(g))
Taken(g)  == IF IsMatch(g) /\ ~Far(g) THEN Least(MatchOf(g).len, AvailOut - Fits(g)) ELSE 0
Left(g)   == IF IsMatch(g) /\ ~Far(g) THEN MatchOf(g).len - Taken(g) ELSE 0
After(g)  == byte_copy(Before(g), MatchOf(g).dist, Taken(g))

GroupUndone(g) ==
  /\ ret' = ISAL_END_INPUT /\ upcoming' = g /\ block_state' = "CODED"
  /\ Unread' < GroupNeeds(g)
  /\ write_overflow' = NoLits /\ copy_overflow' = NoCopy
  /\ UNCHANGED <<tmp_out, out, total_out, pos, items, plain>>

GroupDone(g) ==
  /\ ret' = IF g.tail = "bad" THEN ISAL_INVALID_SYMBOL
            ELSE IF Far(g) THEN ISAL_INVALID_LOOKBACK
            ELSE IF Spill(g) > 0 \/ Left(g) > 0 THEN ISAL_OUT_OVERFLOW
            ELSE ISAL_DECOMP_OK
  /\ upcoming' = IF Invalid(ret') THEN g ELSE None
  /\ block_state' = IF g.tail = "eob" THEN BlockDone ELSE "CODED"
  /\ items' = items + 1
  /\ SetTarget(After(g))
  /\ total_out' = total_out + Fits(g) + Taken(g)
  /\ write_overflow' = SubSeq(Literals(g.lits), Fits(g) + 1, g.lits)
  /\ copy_overflow' = IF Left(g) > 0 THEN [len |-> Left(g), dist |-> MatchOf(g).dist] ELSE NoCopy
  /\ plain' = byte_copy(plain \o Literals(g.lits), MatchOf(g).dist, IF Far(g) THEN 0 ELSE MatchOf(g).len)

(* What of a group fits, spills, or is left of its match.                  *)
LEMMA GroupRoom ==
  ASSUME Types, Control, Space, pc = "decode", NEW g \in Groups
  PROVE  /\ Fits(g) \in Nat /\ Fits(g) <= g.lits /\ Taken(g) \in Nat /\ Left(g) \in Nat /\ Spill(g) \in Nat
         /\ Fits(g) + Taken(g) <= AvailOut
         /\ Spill(g) > 0 \/ Left(g) > 0 => Fits(g) + Taken(g) = AvailOut
         /\ Spill(g) > 0 => Taken(g) = 0
         /\ Spill(g) + Left(g) + StoreSize <= LookAhead
         /\ Spill(g) = g.lits - Fits(g)
         /\ ~Far(g) => Taken(g) + Left(g) = MatchOf(g).len
         /\ Far(g) => Taken(g) = 0 /\ Left(g) = 0
         /\ Literals(g.lits) \in Seq(Int) /\ Len(Literals(g.lits)) = g.lits
         /\ Target \in Seq(Int)
         /\ Before(g) \in Seq(Int) /\ Len(Before(g)) = Len(Target) + Fits(g)
         /\ After(g) \in Seq(Int) /\ Len(After(g)) = Len(Target) + (Fits(g) + Taken(g))
  <1>1. AvailOut \in Nat
    BY Room
  <1>2. PICK m : m = MatchOf(g)
    OBVIOUS
  <1>3. /\ g.lits \in Nat /\ m.len \in Nat /\ m.dist \in Nat \ {0} /\ g.lits + m.len + StoreSize <= LookAhead
        /\ ~IsMatch(g) => m.len = 0
    BY <1>2, GroupType
  <1>4. StoreSize \in Nat /\ LookAhead \in Nat
    BY Sizes
  <1>5. PICK f \in Nat : /\ f = Fits(g) /\ f <= g.lits /\ f <= AvailOut /\ (f = g.lits \/ f = AvailOut)
    BY <1>1, <1>3 DEF Fits, Least
  <1>6. PICK t \in Nat, l \in Nat :
          /\ t = Taken(g) /\ l = Left(g) /\ f + t <= AvailOut /\ (l > 0 => f + t = AvailOut)
          /\ IF Far(g) THEN t = 0 /\ l = 0 ELSE t + l = m.len
    <2>1. Far(g) => IsMatch(g)
      BY DEF Far
    <2>2. CASE IsMatch(g) /\ ~Far(g)
      <3>1. PICK t \in Nat : t = Least(m.len, AvailOut - f) /\ t <= m.len /\ f + t <= AvailOut
                             /\ (t = m.len \/ f + t = AvailOut)
        BY <1>1, <1>3, <1>5 DEF Least
      <3>2. t = Taken(g) /\ Left(g) = m.len - t
        BY <1>2, <1>5, <2>2, <3>1 DEF Taken, Left
      <3>3. PICK l \in Nat : l = m.len - t
        BY <1>3, <3>1
      <3>4. t + l = m.len /\ (l > 0 => f + t = AvailOut)
        BY <1>1, <1>3, <3>1, <3>3
      <3>5. QED
        BY <2>2, <3>1, <3>2, <3>3, <3>4
    <2>3. CASE ~ (IsMatch(g) /\ ~Far(g))
      <3>1. Taken(g) = 0 /\ Left(g) = 0
        BY <2>3 DEF Taken, Left
      <3>2. ~Far(g) => m.len = 0
        BY <1>3, <2>3
      <3>3. QED
        BY <1>1, <1>5, <3>1, <3>2
    <2>4. QED
      BY <2>2, <2>3
  <1>7. PICK s \in Nat : s = Spill(g) /\ s = g.lits - f
    BY <1>3, <1>5 DEF Spill
  <1>8. s > 0 => f = AvailOut /\ t = 0
    BY <1>1, <1>3, <1>5, <1>6, <1>7
  <1>9. s + l + StoreSize <= LookAhead
    BY <1>3, <1>4, <1>5, <1>6, <1>7
  <1>10. Literals(g.lits) \in Seq(Int) /\ Len(Literals(g.lits)) = g.lits
    BY <1>3, LiteralsType
  <1>11. Target \in Seq(Int) /\ Len(Target) \in Nat
    BY DEF Target, Types
  <1>12. SubSeq(Literals(g.lits), 1, f) \in Seq(Int) /\ Len(SubSeq(Literals(g.lits), 1, f)) = f
    <2>1. PICK q : q = Literals(g.lits)
      OBVIOUS
    <2>2. q \in Seq(Int) /\ 1 \in 1..(Len(q) + 1) /\ f \in 0..Len(q) /\ Len(q) \in Nat
      BY <1>3, <1>5, <1>10, <2>1
    <2>3. SubSeq(q, 1, f) \in Seq(Int) /\ Len(SubSeq(q, 1, f)) = IF 1 <= f THEN f - 1 + 1 ELSE 0
      BY <2>2, PartType
    <2>4. QED
      BY <1>5, <2>1, <2>3
  <1>13. Before(g) \in Seq(Int) /\ Len(Before(g)) = Len(Target) + f
    BY <1>5, <1>11, <1>12 DEF Before
  <1>14. After(g) \in Seq(Int) /\ Len(After(g)) = Len(Before(g)) + t
    <2>1. PICK b, d : b = Before(g) /\ d = m.dist
      OBVIOUS
    <2>2. byte_copy(b, d, t) \in Seq(Int) /\ Len(byte_copy(b, d, t)) = Len(b) + t
      BY <1>3, <1>6, <1>13, <2>1, CopyType
    <2>3. QED
      BY <1>2, <1>6, <2>1, <2>2 DEF After
  <1>15. Len(After(g)) = Len(Target) + (f + t)
    BY <1>5, <1>6, <1>11, <1>13, <1>14
  <1>16. s > 0 \/ l > 0 => f + t = AvailOut
    BY <1>5, <1>6, <1>8
  <1>17. QED
    BY <1>2, <1>5, <1>6, <1>7, <1>8, <1>9, <1>10, <1>11, <1>13, <1>14, <1>15, <1>16

(* A group whose bits the input does not hold is undone, and next_in is    *)
(* where it was; any other is decoded.                                     *)
LEMMA GroupStep ==
  ASSUME Types, Control, Coming, InputInv, Space, Group
  PROVE  \E g \in Groups :
           /\ upcoming \in Groups => g = upcoming
           /\ IF Unread < GroupNeeds(g) THEN GroupUndone(g) ELSE GroupDone(g)
           /\ InputKept
           /\ pc' = IF ret' # ISAL_DECOMP_OK \/ block_state' = "INPUT_DONE" THEN AfterLoop ELSE "decode"
           /\ UNCHANGED <<tmp_in_size, bfinal, type0_block_len, call, sent>>
  <1>1. pc = "decode" /\ block_state = "CODED" /\ UNCHANGED <<tmp_in_size, bfinal, type0_block_len, call, sent>>
    BY DEF Group
  <1>2. /\ Trusted /\ avail_in \in Nat /\ taken \in Int /\ pos \in Int /\ tmp_in_size = 0
        /\ Byte * taken = pos + read_in_length + Byte * tmp_in_size /\ Byte * tmp_in_size = 0
        /\ read_in_length \in 0..(Byte * Word) /\ read_in_length \in Nat
        /\ Reader \in Good /\ Holds(Reader) = read_in_length + Byte * avail_in
    BY <1>1, Decoding, Sizes DEF InputInv
  <1>3. PICK g \in GroupChoices :
       LET l == inflate_in_load[Reader]
           s == ReadBitsUnsafe(g.bits)[l]
           match == g.tail \notin {"none", "eob", "bad"}
           m == IF match THEN Matches[g.tail] ELSE [len |-> 0, dist |-> 1, code |-> 0, extra |-> 0]
           e == IF match /\ s.bits >= 0 THEN ReadDistance(s, m) ELSE s
           fits  == Least(g.lits, AvailOut)
           spill == g.lits - fits
           lits  == Literals(g.lits)
           buf   == Target \o SubSeq(lits, 1, fits)
           far   == match /\ m.dist > Len(buf)
           copied == IF match /\ ~far THEN Least(m.len, AvailOut - fits) ELSE 0
           left   == IF match /\ ~far THEN m.len - copied ELSE 0
           r == IF e.bits < 0 THEN ISAL_END_INPUT
                ELSE IF g.tail = "bad" THEN ISAL_INVALID_SYMBOL
                ELSE IF far THEN ISAL_INVALID_LOOKBACK
                ELSE IF spill > 0 \/ left > 0 THEN ISAL_OUT_OVERFLOW
                ELSE ISAL_DECOMP_OK
           stop == r = ISAL_END_INPUT
           kept == IF stop THEN l ELSE e
           st == IF ~stop /\ g.tail = "eob" THEN BlockDone ELSE "CODED"
       IN /\ read_in_length' = kept.bits
          /\ avail_in' = kept.avail /\ taken' = taken + avail_in - kept.avail
          /\ block_state' = st
          /\ Continue(r, st)
          /\ IF stop
             THEN /\ upcoming' = g
                  /\ write_overflow' = NoLits /\ copy_overflow' = NoCopy
                  /\ UNCHANGED <<tmp_out, out, total_out, pos, items, plain>>
             ELSE /\ pos' = pos + g.bits + m.code + m.extra /\ items' = items + 1
                  /\ upcoming' = IF Invalid(r) THEN g ELSE None
                  /\ SetTarget(byte_copy(buf, m.dist, copied))
                  /\ total_out' = total_out + fits + copied
                  /\ write_overflow' = SubSeq(lits, fits + 1, g.lits)
                  /\ copy_overflow' = IF left > 0 THEN [len |-> left, dist |-> m.dist] ELSE NoCopy
                  /\ plain' = byte_copy(plain \o lits, m.dist, IF far THEN 0 ELSE m.len)
    BY <1>1 DEF Group
  <1>4. g \in Groups /\ (upcoming \in Groups => g = upcoming)
    <2>1. upcoming \in Groups => upcoming # None
      BY StreamAssumption DEF None
    <2>2. QED
      BY <1>1, <1>3, <2>1 DEF Coming, GroupChoices
  <1>5. PICK l, e : l = inflate_in_load[Reader] /\ e = ReadGroup(Reader, g)
    OBVIOUS
  <1>6. PICK r : r = IF e.bits < 0 THEN ISAL_END_INPUT
                     ELSE IF g.tail = "bad" THEN ISAL_INVALID_SYMBOL
                     ELSE IF Far(g) THEN ISAL_INVALID_LOOKBACK
                     ELSE IF Spill(g) > 0 \/ Left(g) > 0 THEN ISAL_OUT_OVERFLOW
                     ELSE ISAL_DECOMP_OK
    OBVIOUS
  <1>7. LET stop == r = ISAL_END_INPUT
            kept == IF stop THEN l ELSE e
            st == IF ~stop /\ g.tail = "eob" THEN BlockDone ELSE "CODED"
        IN /\ read_in_length' = kept.bits
           /\ avail_in' = kept.avail /\ taken' = taken + avail_in - kept.avail
           /\ block_state' = st
           /\ Continue(r, st)
           /\ IF stop
              THEN /\ upcoming' = g
                   /\ write_overflow' = NoLits /\ copy_overflow' = NoCopy
                   /\ UNCHANGED <<tmp_out, out, total_out, pos, items, plain>>
              ELSE /\ pos' = pos + g.bits + MatchOf(g).code + MatchOf(g).extra /\ items' = items + 1
                   /\ upcoming' = IF Invalid(r) THEN g ELSE None
                   /\ SetTarget(After(g))
                   /\ total_out' = total_out + Fits(g) + Taken(g)
                   /\ write_overflow' = SubSeq(Literals(g.lits), Fits(g) + 1, g.lits)
                   /\ copy_overflow' = IF Left(g) > 0 THEN [len |-> Left(g), dist |-> MatchOf(g).dist] ELSE NoCopy
                   /\ plain' = byte_copy(plain \o Literals(g.lits), MatchOf(g).dist, IF Far(g) THEN 0 ELSE MatchOf(g).len)
    BY <1>3, <1>5, <1>6 DEF IsMatch, MatchOf, ReadGroup, inflate_in_read_bits, Fits, Spill, Before, Far, Taken, Left, After
  <1>8. Codes
    BY CodesAre
  <1>9. /\ l \in Good /\ Holds(l) = Holds(Reader)
        /\ e \in Readers /\ IF Holds(Reader) < GroupNeeds(g) THEN e.bits < 0
                           ELSE e \in Good /\ Holds(e) = Holds(Reader) - GroupNeeds(g)
    <2>1. l \in Good /\ Holds(l) = Holds(Reader)
      BY <1>2, <1>5, Load
    <2>2. e \in Readers /\ IF Holds(Reader) < GroupNeeds(g) THEN e.bits < 0
                          ELSE e \in Good /\ Holds(e) = Holds(Reader) - GroupNeeds(g)
      BY <1>2, <1>4, <1>5, ReadGroupBits
    <2>3. QED
      BY <2>1, <2>2
  <1>10. Unread = Holds(Reader)
    BY <1>1, <1>2, Decoding DEF Unread
  <1>11. PICK x \in Int : x = taken + avail_in
    BY <1>2
  <1>12. Byte * x = pos + Holds(Reader)
    <2>1. avail_in \in Int
      BY <1>2
    <2>2. Byte * x = Byte * taken + Byte * avail_in
      BY <1>2, <1>11, <2>1, TimesPlus
    <2>3. Byte * taken \in Int /\ Byte * avail_in \in Nat
      BY <1>2, Sizes
    <2>4. QED
      BY <1>2, <2>2, <2>3
  <1>13. ASSUME NEW c \in Good, taken' = taken + avail_in - c.avail, read_in_length' = c.bits, avail_in' = c.avail,
                pos' \in Int, Byte * x = pos' + Holds(c)
         PROVE  InputKept /\ Unread' = Holds(c)
    <2>1. PICK b \in 0..(Byte * Word), a \in Nat : c = [bits |-> b, avail |-> a]
      BY DEF Good
    <2>2. avail_in' = a /\ read_in_length' = b /\ taken' = x - a /\ taken' \in Int
      BY <1>2, <1>11, <1>13, <2>1
    <2>3. Holds(c) = b + Byte * a
      BY <2>1 DEF Holds
    <2>4. Byte * (x - a) = Byte * x - Byte * a /\ Byte * a \in Nat /\ Byte * x \in Int /\ b \in Nat
      BY <2>1, Sizes
    <2>5. tmp_in_size' = 0 /\ Byte * tmp_in_size' = 0
      BY <1>1, <1>2
    <2>6. Byte * taken' = pos' + read_in_length' + Byte * tmp_in_size'
      BY <1>13, <2>2, <2>3, <2>4, <2>5
    <2>7. Unread' = Holds(c)
      BY <2>2, <2>3, <2>4, <2>5 DEF Unread
    <2>8. QED
      BY <1>13, <2>1, <2>2, <2>6, <2>7 DEF InputKept
  <1>14. CASE Holds(Reader) < GroupNeeds(g)
    <2>1. r = ISAL_END_INPUT
      BY <1>6, <1>9, <1>14
    <2>2. /\ read_in_length' = l.bits /\ avail_in' = l.avail /\ taken' = taken + avail_in - l.avail
          /\ block_state' = "CODED" /\ Continue(r, "CODED")
          /\ upcoming' = g /\ write_overflow' = NoLits /\ copy_overflow' = NoCopy
          /\ UNCHANGED <<tmp_out, out, total_out, pos, items, plain>>
      BY <1>7, <2>1
    <2>3. InputKept /\ Unread' = Holds(l)
      BY <1>2, <1>9, <1>12, <1>13, <2>2
    <2>4. GroupUndone(g)
      BY <1>9, <1>14, <2>1, <2>2, <2>3 DEF GroupUndone, Continue
    <2>5. pc' = IF ret' # ISAL_DECOMP_OK \/ block_state' = "INPUT_DONE" THEN AfterLoop ELSE "decode"
      BY <2>2 DEF Continue
    <2>6. QED
      BY <1>1, <1>4, <1>10, <1>14, <2>3, <2>4, <2>5
  <1>15. CASE ~ (Holds(Reader) < GroupNeeds(g))
    <2>1. e \in Good /\ Holds(e) = Holds(Reader) - GroupNeeds(g) /\ ~ (e.bits < 0)
      <3>1. e \in Good /\ Holds(e) = Holds(Reader) - GroupNeeds(g)
        BY <1>9, <1>15
      <3>2. QED
        BY <3>1, GoodType
    <2>2. r = IF g.tail = "bad" THEN ISAL_INVALID_SYMBOL
              ELSE IF Far(g) THEN ISAL_INVALID_LOOKBACK
              ELSE IF Spill(g) > 0 \/ Left(g) > 0 THEN ISAL_OUT_OVERFLOW
              ELSE ISAL_DECOMP_OK
      BY <1>6, <2>1
    <2>3. r # ISAL_END_INPUT
      BY <1>8, <2>2 DEF Codes
    <2>4. /\ read_in_length' = e.bits
          /\ avail_in' = e.avail /\ taken' = taken + avail_in - e.avail
          /\ block_state' = IF g.tail = "eob" THEN BlockDone ELSE "CODED"
          /\ Continue(r, block_state')
          /\ pos' = pos + g.bits + MatchOf(g).code + MatchOf(g).extra /\ items' = items + 1
          /\ upcoming' = IF Invalid(r) THEN g ELSE None
          /\ SetTarget(After(g))
          /\ total_out' = total_out + Fits(g) + Taken(g)
          /\ write_overflow' = SubSeq(Literals(g.lits), Fits(g) + 1, g.lits)
          /\ copy_overflow' = IF Left(g) > 0 THEN [len |-> Left(g), dist |-> MatchOf(g).dist] ELSE NoCopy
          /\ plain' = byte_copy(plain \o Literals(g.lits), MatchOf(g).dist, IF Far(g) THEN 0 ELSE MatchOf(g).len)
      BY <1>7, <2>3
    <2>5. PICK n \in Nat : n = GroupNeeds(g) /\ n = g.bits + MatchOf(g).code + MatchOf(g).extra
                           /\ pos + g.bits + MatchOf(g).code + MatchOf(g).extra = pos + n
      <3>1. g.bits \in Nat /\ MatchOf(g).code \in Nat /\ MatchOf(g).extra \in Nat
        BY <1>4, GroupType
      <3>2. QED
        BY <1>2, <3>1 DEF GroupNeeds
    <2>6. pos' = pos + n /\ pos' \in Int
      BY <1>2, <2>4, <2>5
    <2>7. Byte * x = pos' + Holds(e)
      <3>1. Holds(Reader) \in Nat
        BY <1>2, GoodType
      <3>2. QED
        BY <1>2, <1>12, <2>1, <2>5, <2>6, <3>1
    <2>8. InputKept
      BY <1>13, <2>1, <2>4, <2>6, <2>7
    <2>9. ret' = r
      BY <2>4 DEF Continue
    <2>10. GroupDone(g)
      BY <2>2, <2>4, <2>9 DEF GroupDone
    <2>11. pc' = IF ret' # ISAL_DECOMP_OK \/ block_state' = "INPUT_DONE" THEN AfterLoop ELSE "decode"
      BY <2>4 DEF Continue
    <2>12. QED
      BY <1>1, <1>4, <1>10, <1>15, <2>8, <2>10, <2>11
  <1>16. QED
    BY <1>14, <1>15

-----------------------------------------------------------------------------
(* The trailer fits tmp_in_buffer, and read_in.                            *)
LEMMA TrailerType ==
  ASSUME Types
  PROVE  Trailer \in Nat /\ Trailer <= MaxHdr /\ Trailer <= Word /\ (crc_flag = "raw" => Trailer = 0)
  <1>1. crc_flag \in DOMAIN TrailerLen
    BY DEF Types
  <1>2. TrailerLen[crc_flag] \in 0..Word /\ TrailerLen[crc_flag] <= MaxHdr
    BY <1>1, InflateAssumption, StreamAssumption
  <1>3. crc_flag = "raw" => TrailerLen[crc_flag] = 0
    BY <1>1, StreamAssumption
  <1>4. QED
    BY <1>2, <1>3, Sizes DEF Trailer

(* The trailer is read, and the rest of the input handed back, or all of   *)
(* the input is saved in tmp_in_buffer, which has the room.                *)
LEMMA TrailerRead ==
  ASSUME Types, NEW q \in Nat, NEW s \in 0..(Byte - 1), NEW b, b = Byte * q + s, NEW a \in Nat,
         tmp_in_size = 0 \/ (q = 0 /\ tmp_in_size < Trailer)
  PROVE  LET c == CheckTrailer(b, a)
             u == Undo(c)
             has == q + a + tmp_in_size
         IN /\ u.bits = 0
            /\ has < Trailer  => /\ c.ret = ISAL_END_INPUT /\ c.tmp_in = has /\ u.avail = 0
            /\ has >= Trailer => /\ c.ret = ISAL_DECOMP_OK /\ c.tmp_in = 0 /\ u.avail = has - Trailer
            /\ b = 0 => c.bits = 0 /\ c.avail = u.avail
  <1>1. PICK t \in Nat, m \in Nat : t = Trailer /\ m = tmp_in_size
    BY TrailerType DEF Types
  <1>2. b \in Int /\ Byte * q \in Nat /\ s \in Nat
    BY Sizes
  <1>3. WholeBytes(b) = q /\ WholeBytes(0) = 0
    <2>1. b \div Byte = q
      BY <1>2, Quotient
    <2>2. 0 = Byte * 0 + 0 /\ 0 \in 0..(Byte - 1) /\ 0 \in Int
      BY Sizes
    <2>3. 0 \div Byte = 0
      BY <2>2, Quotient
    <2>4. QED
      BY <2>1, <2>3 DEF WholeBytes
  <1>4. PICK c : c = CheckTrailer(b, a)
    OBVIOUS
  <1>5. PICK f : f = fixed_size_read(m + q, a, t)
    OBVIOUS
  <1>6. c = IF t = 0
            THEN [ret |-> ISAL_DECOMP_OK, bits |-> b, tmp_in |-> m, avail |-> a]
            ELSE IF q >= t
            THEN [ret |-> ISAL_DECOMP_OK, bits |-> Byte * (q - t), tmp_in |-> m, avail |-> a]
            ELSE [ret |-> f.ret, bits |-> IF q > 0 THEN 0 ELSE b, tmp_in |-> f.tmp_in, avail |-> f.avail]
    BY <1>1, <1>3, <1>4, <1>5 DEF CheckTrailer
  <1>7. b = 0 => q = 0
    <2>1. q <= Byte * q
      BY Sizes
    <2>2. QED
      BY <1>2, <2>1
  <1>8. PICK u : u = Undo(c)
    OBVIOUS
  <1>9. CASE t = 0
    <2>1. m = 0
      BY <1>1, <1>9
    <2>2. c = [ret |-> ISAL_DECOMP_OK, bits |-> b, tmp_in |-> 0, avail |-> a]
      BY <1>6, <1>9, <2>1
    <2>3. u = [ret |-> ISAL_DECOMP_OK, bits |-> 0, tmp_in |-> 0, avail |-> a + q]
      BY <1>3, <1>8, <2>2 DEF Undo
    <2>4. QED
      BY <1>1, <1>4, <1>7, <1>8, <1>9, <2>1, <2>2, <2>3
  <1>10. CASE t # 0 /\ q >= t
    <2>1. m = 0 /\ q # 0
      BY <1>1, <1>10
    <2>2. PICK k \in Nat : k = q - t
      BY <1>1, <1>10
    <2>3. c = [ret |-> ISAL_DECOMP_OK, bits |-> Byte * k, tmp_in |-> 0, avail |-> a]
      BY <1>6, <1>10, <2>1, <2>2
    <2>4. WholeBytes(Byte * k) = k
      <3>1. Byte * k \in Int /\ Byte * k = Byte * k + 0 /\ 0 \in 0..(Byte - 1) /\ k \in Int
        BY Sizes
      <3>2. (Byte * k) \div Byte = k
        BY <3>1, Quotient
      <3>3. QED
        BY <3>2 DEF WholeBytes
    <2>5. u = [ret |-> ISAL_DECOMP_OK, bits |-> 0, tmp_in |-> 0, avail |-> a + k]
      BY <1>8, <2>3, <2>4 DEF Undo
    <2>6. u.bits = 0 /\ c.ret = ISAL_DECOMP_OK /\ c.tmp_in = 0 /\ u.avail = q + a + m - t
      BY <1>1, <2>1, <2>2, <2>3, <2>5
    <2>7. ~ (b = 0) /\ q + a + m >= t /\ ~ (q + a + m < t)
      BY <1>1, <1>7, <1>10, <2>1
    <2>8. QED
      BY <1>1, <1>4, <1>8, <2>6, <2>7
  <1>11. CASE t # 0 /\ q < t
    <2>1. PICK d \in Int : d = (IF q > 0 THEN 0 ELSE b) /\ WholeBytes(d) = 0 /\ (b = 0 => d = 0)
      <3>1. CASE q > 0
        BY <1>3, <3>1
      <3>2. CASE ~ (q > 0)
        BY <1>2, <1>3, <3>2
      <3>3. QED
        BY <3>1, <3>2
    <2>2. c = [ret |-> f.ret, bits |-> d, tmp_in |-> f.tmp_in, avail |-> f.avail]
      BY <1>6, <1>11, <2>1
    <2>3. CASE a + (m + q) < t
      <3>1. f = [ret |-> ISAL_END_INPUT, tmp_in |-> m + q + a, avail |-> 0]
        BY <1>5, <2>3 DEF fixed_size_read
      <3>2. c = [ret |-> ISAL_END_INPUT, bits |-> d, tmp_in |-> m + q + a, avail |-> 0]
        BY <2>2, <3>1
      <3>3. u = [ret |-> ISAL_END_INPUT, bits |-> 0, tmp_in |-> m + q + a, avail |-> 0]
        <4>1. u = [c EXCEPT !.avail = c.avail + WholeBytes(c.bits), !.bits = 0]
          BY <1>8 DEF Undo
        <4>2. c.avail + WholeBytes(c.bits) = 0
          BY <2>1, <3>2
        <4>3. QED
          BY <3>2, <4>1, <4>2
      <3>4. q + a + m < t /\ ~ (q + a + m >= t) /\ q + a + m = m + q + a
        BY <1>1, <2>3
      <3>5. QED
        BY <1>1, <1>4, <1>8, <2>1, <3>2, <3>3, <3>4
    <2>4. CASE ~ (a + (m + q) < t)
      <3>1. PICK v \in Nat : v = q + a + m - t
        BY <1>1, <2>4
      <3>2. f = [ret |-> ISAL_DECOMP_OK, tmp_in |-> 0, avail |-> a - (t - (m + q))]
        BY <1>5, <2>4 DEF fixed_size_read
      <3>3. c = [ret |-> ISAL_DECOMP_OK, bits |-> d, tmp_in |-> 0, avail |-> v]
        BY <1>1, <2>2, <3>1, <3>2
      <3>4. u = [ret |-> ISAL_DECOMP_OK, bits |-> 0, tmp_in |-> 0, avail |-> v]
        <4>1. u = [c EXCEPT !.avail = c.avail + WholeBytes(c.bits), !.bits = 0]
          BY <1>8 DEF Undo
        <4>2. c.avail + WholeBytes(c.bits) = v
          BY <2>1, <3>1, <3>3
        <4>3. QED
          BY <3>3, <4>1, <4>2
      <3>5. q + a + m >= t /\ ~ (q + a + m < t)
        BY <1>1, <2>4
      <3>6. QED
        BY <1>1, <1>4, <1>8, <2>1, <3>1, <3>3, <3>4, <3>5
    <2>5. QED
      BY <2>3, <2>4
  <1>12. QED
    BY <1>1, <1>9, <1>10, <1>11

(* What Save keeps has the room for what overflowed.                       *)
LEMMA HistoryRoom ==
  ASSUME Types, Control, Space, pc = "save"
  PROVE  LET s == SaveHistory
         IN /\ s.tmp \in Seq(Int) /\ s.processed \in Nat /\ s.processed <= Len(s.tmp)
            /\ Len(s.tmp) - s.processed = Pending
            /\ Len(s.tmp) + Overflowed <= TmpSize
            /\ Overflowed > 0 => Len(s.tmp) + StoreSize <= TmpSize
            /\ Live => Len(s.tmp) + Overflowed + StoreSize <= TmpSize
  <1>1. PICK n \in Nat, p \in Nat, v \in Nat, h \in Nat, l \in Nat, st \in Nat, o \in Nat :
          /\ n = Len(tmp_out) /\ p = tmp_out_processed /\ v = Overflowed /\ h = HistSize
          /\ l = LookAhead /\ st = StoreSize /\ o = Len(out) /\ TmpSize = 2 * h + l
    BY Lengths, Sizes DEF Types
  <1>2. /\ p <= n /\ n <= 2 * h + l /\ h >= 1 /\ st <= l
        /\ v > 0 => v + st <= l /\ p = n /\ n + st <= 2 * h + l
        /\ Live => n + st <= 2 * h + l
        /\ Pending = n - p
    <2>1. phase # 0
      BY DEF Control
    <2>2. Pending = n - p
      BY <1>1 DEF Pending
    <2>3. v > 0 => Pending = 0
      BY <1>1, <2>1 DEF Space
    <2>4. QED
      BY <1>1, <2>1, <2>2, <2>3, Sizes, StreamSizes DEF Space
  <1>3. tmp_out \in Seq(Int) /\ out \in Seq(Int) /\ h = HistSize /\ n = Len(tmp_out) /\ p = tmp_out_processed
    BY <1>1 DEF Types
  <1>4. PICK f \in Int : f = Least(n - h, p) /\ f <= p /\ f <= n - h /\ (f = p \/ f = n - h)
    BY <1>1 DEF Least
  <1>5. PICK s : s = SaveHistory
    OBVIOUS
  <1>6. s = IF block_state = "INPUT_DONE" /\ v + n <= TmpSize
            THEN [tmp |-> tmp_out, processed |-> p]
            ELSE IF n = p /\ o >= h
            THEN [tmp |-> SubSeq(out, o - h + 1, o), processed |-> h]
            ELSE IF p >= h
            THEN [tmp |-> SubSeq(tmp_out, f + 1, n), processed |-> p - f]
            ELSE [tmp |-> tmp_out, processed |-> p]
    BY <1>1, <1>4, <1>5 DEF SaveHistory
  <1>7. SUFFICES /\ s.tmp \in Seq(Int) /\ s.processed \in Nat /\ s.processed <= Len(s.tmp)
                 /\ Len(s.tmp) - s.processed = n - p
                 /\ Len(s.tmp) + v <= 2 * h + l
                 /\ v > 0 => Len(s.tmp) + st <= 2 * h + l
                 /\ Live => Len(s.tmp) + v + st <= 2 * h + l
    BY <1>1, <1>2, <1>5
  <1>8. CASE block_state = "INPUT_DONE" /\ v + n <= TmpSize
    <2>1. s.tmp = tmp_out /\ s.processed = p
      BY <1>6, <1>8
    <2>2. ~Live
      BY <1>8 DEF Live, Working
    <2>3. QED
      BY <1>1, <1>2, <1>3, <1>8, <2>1, <2>2
  <1>9. CASE ~ (block_state = "INPUT_DONE" /\ v + n <= TmpSize) /\ n = p /\ o >= h
    <2>1. s.tmp = SubSeq(out, o - h + 1, o) /\ s.processed = h
      BY <1>6, <1>9
    <2>2. o - h + 1 \in 1..(Len(out) + 1) /\ o \in 0..Len(out) /\ o - h + 1 <= o
      BY <1>1, <1>2, <1>9
    <2>3. s.tmp \in Seq(Int) /\ Len(s.tmp) = h
      BY <1>1, <1>3, <1>9, <2>1, <2>2, PartType
    <2>4. QED
      BY <1>2, <1>9, <2>1, <2>3
  <1>10. CASE ~ (block_state = "INPUT_DONE" /\ v + n <= TmpSize) /\ ~ (n = p /\ o >= h) /\ p >= h
    <2>1. s.tmp = SubSeq(tmp_out, f + 1, n) /\ s.processed = p - f
      BY <1>6, <1>10
    <2>2. f \in Nat /\ f + 1 \in 1..(n + 1) /\ n \in 0..n
      BY <1>2, <1>4, <1>10
    <2>3. s.tmp \in Seq(Int) /\ Len(s.tmp) = n - f
      <3>1. SubSeq(tmp_out, f + 1, n) \in Seq(Int)
            /\ Len(SubSeq(tmp_out, f + 1, n)) = IF f + 1 <= n THEN n - (f + 1) + 1 ELSE 0
        BY <1>3, <2>2, PartType
      <3>2. QED
        BY <1>2, <1>4, <2>1, <2>2, <3>1
    <2>4. v > 0 => n - f = h
      BY <1>2, <1>4, <1>10
    <2>5. PICK e \in Nat, r \in Nat : e = Len(s.tmp) /\ r = s.processed /\ e = n - f /\ r = p - f
      BY <1>2, <1>4, <2>1, <2>2, <2>3
    <2>6. CASE v > 0
      <3>1. e = h
        BY <2>4, <2>5, <2>6
      <3>2. QED
        BY <1>2, <2>3, <2>5, <2>6, <3>1
    <2>7. CASE ~ (v > 0)
      <3>1. v = 0 /\ e <= n
        BY <2>2, <2>5, <2>7
      <3>2. QED
        BY <1>2, <2>3, <2>5, <2>7, <3>1
    <2>8. QED
      BY <2>6, <2>7
  <1>11. CASE ~ (block_state = "INPUT_DONE" /\ v + n <= TmpSize) /\ ~ (n = p /\ o >= h) /\ ~ (p >= h)
    <2>1. s.tmp = tmp_out /\ s.processed = p
      BY <1>6, <1>11
    <2>2. Len(s.tmp) = n /\ s.processed = p /\ p < h
      BY <1>1, <1>11, <2>1
    <2>3. CASE v > 0
      BY <1>2, <1>3, <2>1, <2>2, <2>3
    <2>4. CASE ~ (v > 0)
      BY <1>2, <1>3, <2>1, <2>2, <2>4
    <2>5. QED
      BY <2>3, <2>4
  <1>12. QED
    BY <1>8, <1>9, <1>10, <1>11

IInv == Types /\ Control /\ Coming /\ InputInv /\ Space

-----------------------------------------------------------------------------
(* A step of the loop writes n bytes.                                      *)

Grew(n) ==
  IF phase = 1
  THEN tmp_out' \in Seq(Int) /\ Len(tmp_out') = Len(tmp_out) + n /\ out' = out
  ELSE out' \in Seq(Int) /\ Len(out') = Len(out) + n /\ tmp_out' = tmp_out

(* A step of the loop writes into the room it has, and leaves the rest     *)
(* behind it only when it is full.                                         *)
LEMMA LoopSpace ==
  ASSUME Types, Control, Space, pc = "decode", Types', NEW n \in Nat, n <= AvailOut, Grew(n),
         phase' = phase, room' = room, got' = got, tmp_out_processed' = tmp_out_processed,
         total_out' = total_out + n,
         pc' \in {"decode", AfterLoop},
         phase # 0 /\ Overflowed' > 0 => /\ Overflowed' + StoreSize <= LookAhead /\ n = AvailOut
                                         /\ pc' # "decode"
  PROVE  Space'
  <1>1. PICK t \in Nat, o \in Nat, g \in Nat, p \in Nat, h \in Nat, l \in Nat, st \in Nat, v \in Nat :
          /\ t = Len(tmp_out) /\ o = Len(out) /\ g = Len(got) /\ p = tmp_out_processed
          /\ h = HistSize /\ l = LookAhead /\ st = StoreSize /\ v = Overflowed
          /\ TmpSize = 2 * h + l /\ st <= l /\ Pending = t - p /\ h >= 1
    BY Lengths, Sizes, StreamSizes DEF Types
  <1>20. phase \in 0..2 /\ room \in Nat /\ total_out \in Nat
    BY DEF Types
  <1>21. write_overflow' \in Seq(Int) /\ copy_overflow' \in [len : Nat, dist : Nat]
    BY DEF Types
  <1>2. PICK w \in Nat : w = Overflowed'
    <2>1. Len(write_overflow') \in Nat /\ copy_overflow'.len \in Nat
      BY <1>21
    <2>2. QED
      BY <2>1 DEF Overflowed
  <1>22. LookAhead = l /\ StoreSize = st /\ Overflowed' = w /\ l \in Nat /\ st \in Nat
    BY <1>1, <1>2
  <1>23. ASSUME phase # 0, w > 0
         PROVE  w + st <= l /\ n = AvailOut /\ pc' # "decode"
    <2>1. Overflowed' > 0
      BY <1>22, <1>23
    <2>2. Overflowed' + StoreSize <= LookAhead /\ n = AvailOut /\ pc' # "decode"
      BY <1>23, <2>1, Zenon
    <2>3. QED
      BY <1>22, <2>2
  <1>3. TmpSize' = TmpSize /\ Pending' = Len(tmp_out') - p /\ got' = got
    BY <1>1 DEF TmpSize, Pending
  <1>4. /\ p <= t /\ t <= 2 * h + l /\ ~AtUser /\ Live
        /\ phase # 0 => total_out = g + (o + (t - p))
    <2>1. ~AtUser /\ Live
      BY DEF AtUser, Control
    <2>2. QED
      BY <1>1, <2>1 DEF Space
  <1>5. pc' = "decode" \/ (phase = 0 /\ pc' = "end") \/ (phase = 1 /\ pc' = "deliver") \/ (phase = 2 /\ pc' = "save")
    BY <1>20 DEF AfterLoop
  <1>6. ~AtUser' /\ room \in Nat /\ phase \in 0..2 /\ total_out \in Int
    BY <1>5, <1>20 DEF AtUser
  <1>7. CASE phase = 1
    <2>1. AvailOut = 2 * h - t /\ out = <<>> /\ t <= 2 * h
      BY <1>1, <1>7, Room DEF Space
    <2>2. out' = <<>> /\ out' = out /\ Len(tmp_out') = t + n
      BY <1>1, <1>7, <2>1 DEF Grew
    <2>3. t + n <= 2 * h
      BY <2>1
    <2>4. o = 0 /\ Len(out') = 0
      BY <1>1, <2>1, <2>2
    <2>5. tmp_out_processed' <= Len(tmp_out') /\ Len(tmp_out') <= TmpSize'
      BY <1>1, <1>3, <1>4, <2>2, <2>3
    <2>6. Live' /\ (pc' \in {"user", "save"} \/ phase' = 2) => Len(tmp_out') + StoreSize <= TmpSize'
      BY <1>5, <1>7
    <2>7. total_out' = Len(got') + (Len(out') + Pending')
      BY <1>1, <1>3, <1>4, <1>7, <2>2, <2>4
    <2>8. w > 0 => w + st <= l /\ Len(tmp_out') = 2 * h /\ pc' # "decode"
      <3>1. SUFFICES ASSUME w > 0 PROVE w + st <= l /\ Len(tmp_out') = 2 * h /\ pc' # "decode"
        OBVIOUS
      <3>2. w + st <= l /\ n = AvailOut /\ pc' # "decode"
        BY <1>7, <1>23, <3>1
      <3>3. QED
        BY <2>1, <2>2, <3>2
    <2>9. Len(tmp_out') <= 2 * h /\ phase' = 1
      BY <1>7, <2>2, <2>3
    <2>10. pc' = "decode" \/ pc' = "deliver"
      BY <1>5, <1>7
    <2>11. pc' = "decode" => w = 0
      BY <2>8
    <2>12. /\ phase' # 0 /\ phase' = 1 /\ pc' # "save" /\ pc' # "user" /\ pc' # "stopped" /\ (pc' = "decode" => Overflowed' = 0)
           /\ Overflowed' > 0 => Overflowed' + StoreSize <= LookAhead /\ Len(tmp_out') = 2 * HistSize
           /\ Len(tmp_out') <= 2 * HistSize
      BY <1>7, <1>22, <1>1, <2>8, <2>9, <2>10, <2>11
    <2>13. QED
      BY <1>6, <2>2, <2>5, <2>6, <2>7, <2>12 DEF Space
  <1>8. CASE phase = 2
    <2>1. AvailOut = room - o /\ Len(out') = o + n /\ tmp_out' = tmp_out /\ p = t /\ t + st <= 2 * h + l
      <3>1. Pending = 0 /\ t + st <= 2 * h + l
        BY <1>1, <1>4, <1>8 DEF Space
      <3>2. QED
        BY <1>1, <1>8, <3>1, Room DEF Grew
    <2>2. o + n <= room
      BY <1>1, <1>6, <2>1
    <2>3. Pending' = 0 /\ Len(tmp_out') = t
      BY <1>1, <1>3, <2>1
    <2>4. total_out' = Len(got') + (Len(out') + Pending')
      BY <1>1, <1>3, <1>4, <1>8, <2>1, <2>3
    <2>5. w > 0 => w + st <= l /\ pc' # "decode"
      BY <1>8, <1>23
    <2>6. tmp_out_processed' <= Len(tmp_out') /\ Len(tmp_out') <= TmpSize' /\ Len(tmp_out') + StoreSize <= TmpSize'
      BY <1>1, <1>3, <1>4, <2>1, <2>3
    <2>7. Len(out') <= room' /\ phase' = 2 /\ (pc' = "decode" \/ pc' = "save") /\ (pc' = "decode" => w = 0)
      BY <1>5, <1>8, <2>1, <2>2, <2>5
    <2>8. /\ phase' # 0 /\ phase' # 1 /\ pc' # "deliver" /\ pc' # "user" /\ pc' # "stopped" /\ (pc' = "decode" => Overflowed' = 0)
          /\ Overflowed' > 0 => Overflowed' + StoreSize <= LookAhead
      BY <1>8, <1>22, <2>5, <2>7
    <2>9. QED
      BY <1>6, <2>3, <2>4, <2>6, <2>7, <2>8 DEF Space
  <1>9. CASE phase = 0
    <2>1. AvailOut = room - o /\ Len(out') = o + n /\ tmp_out' = tmp_out
      BY <1>1, <1>9, Room DEF Grew
    <2>2. Len(out') <= room' /\ pc' # "user" /\ phase' = 0
      BY <1>1, <1>5, <1>6, <1>9, <2>1
    <2>3. tmp_out_processed' <= Len(tmp_out') /\ Len(tmp_out') <= TmpSize'
      BY <1>1, <1>3, <1>4, <2>1
    <2>4. QED
      BY <2>2, <2>3 DEF Space
  <1>10. QED
    BY <1>6, <1>7, <1>8, <1>9

(* The loop is left with an error, an end or a full output.                *)
LEMMA LoopControl ==
  ASSUME Types, Control, pc = "decode", phase' = phase, block_state' \in Working \cup {"INPUT_DONE"},
         pc' = IF ret' # ISAL_DECOMP_OK \/ block_state' = "INPUT_DONE" THEN AfterLoop ELSE "decode",
         phase = 0 => block_state' # "HDR" /\ (ret' = ISAL_DECOMP_OK /\ pc' # "decode" => block_state' = "INPUT_DONE")
  PROVE  Control' /\ pc' \in {"decode", AfterLoop}
  <1>1. pc' = "decode" \/ (phase = 0 /\ pc' = "end") \/ (phase = 1 /\ pc' = "deliver") \/ (phase = 2 /\ pc' = "save")
    BY DEF AfterLoop, Types
  <1>2. pc' = "decode" => ret' = ISAL_DECOMP_OK /\ block_state' # "INPUT_DONE"
    BY DEF AfterLoop
  <1>3. Codes
    BY CodesAre
  <1>4. pc' = "decode" => Live' /\ ~Invalid(ret')
    BY <1>2, <1>3 DEF Live, Working, Codes, Invalid
  <1>5. block_state' \in States /\ (Live' \/ block_state' = "INPUT_DONE")
    BY DEF States, Live, Working
  <1>6. QED
    BY <1>1, <1>2, <1>4, <1>5 DEF Control, AtUser

-----------------------------------------------------------------------------
(* ReadHeader keeps the invariant.                                         *)
LEMMA HeaderKeeps ==
  ASSUME IInv, ReadHeader
  PROVE  IInv'
  <1>1. /\ Types /\ Control /\ Coming /\ InputInv /\ Space /\ pc = "decode" /\ phase # 0
        /\ block_state \in {"NEW_HDR", "HDR"}
        /\ UNCHANGED <<output, plain, call, sent>>
    BY DEF IInv, ReadHeader
  <1>2. PICK h \in Headers :
           /\ IF Unread < HeaderNeeds(h) THEN HeaderSaved(h) ELSE HeaderTook(h)
           /\ bfinal' = h.final
           /\ pc' = IF ret' = ISAL_DECOMP_OK THEN "decode" ELSE AfterLoop
    BY <1>1, HeaderStep
  <1>3. /\ tmp_out' = tmp_out /\ out' = out /\ total_out' = total_out /\ write_overflow' = write_overflow
        /\ copy_overflow' = copy_overflow /\ plain' = plain /\ phase' = phase /\ room' = room /\ dict' = dict
        /\ crc_flag' = crc_flag /\ buf_start' = buf_start /\ tmp_out_processed' = tmp_out_processed
        /\ got' = got /\ crc' = crc
    BY <1>1 DEF output, call, sent
  <1>4. Codes /\ h.final \in BOOLEAN /\ h.len \in Nat /\ h.kind \in {"bad", "coded", "stored"}
    BY CodesAre, HeaderType
  <1>5. /\ Trusted /\ avail_in \in Nat /\ taken \in Int /\ pos \in Int /\ tmp_in_size \in Nat
        /\ read_in_length \in 0..(Byte * Word)
        /\ Byte * taken = pos + read_in_length + Byte * tmp_in_size
    BY <1>1, Decoding
  <1>6. ASSUME HeaderSaved(h)
        PROVE  Types' /\ Control' /\ pc' \in {"decode", AfterLoop} /\ Coming' /\ InputInv'
    <2>1. /\ tmp_in_size' = tmp_in_size + avail_in /\ tmp_in_size' <= MaxHdr
          /\ avail_in' = 0 /\ taken' = taken + avail_in /\ upcoming' = h
          /\ read_in_length' = read_in_length /\ pos' = pos /\ items' = items
          /\ block_state' = "HDR" /\ ret' = ISAL_END_INPUT /\ type0_block_len' = type0_block_len
          /\ read_in_length' + Byte * tmp_in_size' < HeaderNeeds(h)
      BY <1>6 DEF HeaderSaved
    <2>2. ret' \in Rets /\ pc' = AfterLoop /\ ret' # ISAL_DECOMP_OK
      BY <1>2, <1>4, <2>1 DEF Rets, Codes
    <2>3. Types'
      BY <1>1, <1>3, <1>4, <1>5, <1>2, <2>1, <2>2 DEF Types
    <2>4. Control' /\ pc' \in {"decode", AfterLoop}
      <3>1. block_state' \in Working \cup {"INPUT_DONE"} /\ block_state' # "INPUT_DONE"
        BY <2>1 DEF Working
      <3>2. QED
        BY <1>1, <1>3, <2>2, <3>1, LoopControl
    <2>5. Coming'
      BY <1>2, <2>1 DEF Coming
    <2>6. InputInv'
      <3>1. Byte * taken' = pos' + read_in_length' + Byte * tmp_in_size'
        <4>1. PICK a \in Int, x \in Int, m \in Int : a = avail_in /\ x = taken /\ m = tmp_in_size
          BY <1>5
        <4>2. Byte * (x + a) = Byte * x + Byte * a /\ Byte * (m + a) = Byte * m + Byte * a
              /\ Byte * x \in Int /\ Byte * a \in Int /\ Byte * m \in Int
          BY TimesPlus
        <4>3. read_in_length \in Int
          BY <1>5, Sizes
        <4>4. QED
          BY <1>5, <2>1, <4>1, <4>2, <4>3
      <3>2. avail_in' \in Nat /\ read_in_length' \in 0..(Byte * Word)
        BY <1>5, <2>1
      <3>3. QED
        BY <2>1, <3>1, <3>2 DEF InputInv
    <2>7. QED
      BY <2>3, <2>4, <2>5, <2>6
  <1>7. ASSUME HeaderTook(h)
        PROVE  Types' /\ Control' /\ pc' \in {"decode", AfterLoop} /\ Coming' /\ InputInv'
    <2>1. /\ tmp_in_size' = 0 /\ avail_in' \in Nat /\ read_in_length' \in 0..(Byte * Word)
          /\ taken' \in Int /\ pos' \in Int
          /\ Byte * taken' = pos' + read_in_length'
          /\ upcoming' = None /\ items' = items + 1
          /\ h.kind = "stored" => \E k \in Nat : read_in_length' = Byte * k
          /\ ret' = IF h.kind = "bad" THEN ISAL_INVALID_BLOCK ELSE ISAL_DECOMP_OK
          /\ block_state' = IF h.kind = "bad" THEN block_state
                            ELSE IF h.kind = "stored" THEN "TYPE0" ELSE "CODED"
          /\ type0_block_len' = IF h.kind = "stored" THEN h.len ELSE type0_block_len
      BY <1>7 DEF HeaderTook
    <2>2. ret' \in Rets /\ read_in_length' \in Int /\ read_in_length' \in Nat
      BY <1>4, <2>1, Sizes DEF Rets
    <2>3. Types'
      <3>1. items' \in Nat /\ type0_block_len' \in Nat
        BY <1>1, <1>4, <2>1 DEF Types
      <3>2. QED
        BY <1>1, <1>3, <1>4, <1>2, <2>1, <2>2, <3>1 DEF Types
    <2>4. block_state' \in Working /\ block_state' \in Working \cup {"INPUT_DONE"} /\ block_state' # "INPUT_DONE"
      BY <1>1, <2>1 DEF Working
    <2>5. Control' /\ pc' \in {"decode", AfterLoop}
      <3>1. pc' = IF ret' # ISAL_DECOMP_OK \/ block_state' = "INPUT_DONE" THEN AfterLoop ELSE "decode"
        BY <1>2, <2>4
      <3>2. QED
        BY <1>1, <1>3, <2>4, <3>1, LoopControl
    <2>6. block_state' = "HDR" => Invalid(ret')
      BY <1>4, <2>1 DEF Invalid, Codes
    <2>7. Coming'
      BY <2>1, <2>6 DEF Coming
    <2>8. InputInv'
      <3>1. Byte * tmp_in_size' = 0 /\ 0 <= MaxHdr
        BY <2>1, Sizes
      <3>2. Byte * taken' = pos' + read_in_length' + Byte * tmp_in_size'
        BY <2>1, <2>2, <3>1
      <3>3. block_state' = "TYPE0" => \E k \in Nat : read_in_length' = Byte * k
        BY <1>1, <1>4, <2>1
      <3>4. block_state' \notin {"CHECKSUM_CHECK", "FINISH"}
        BY <2>4 DEF Working
      <3>5. QED
        BY <2>1, <3>1, <3>2, <3>3, <3>4 DEF InputInv
    <2>9. QED
      BY <2>3, <2>5, <2>7, <2>8
  <1>8. Types' /\ Control' /\ pc' \in {"decode", AfterLoop} /\ Coming' /\ InputInv'
    BY <1>2, <1>6, <1>7
  <1>9. Space'
    <2>1. Overflowed = 0 /\ AvailOut \in Nat
      BY <1>1, Room
    <2>2. Overflowed' = 0
      BY <1>3, <2>1 DEF Overflowed
    <2>3. 0 <= AvailOut /\ 0 \in Nat
      BY <2>1
    <2>4. Grew(0) /\ total_out' = total_out + 0
      BY <1>1, <1>3, Lengths DEF Grew, Types
    <2>5. QED
      BY <1>1, <1>3, <1>8, <2>2, <2>3, <2>4, LoopSpace
  <1>10. QED
    BY <1>8, <1>9 DEF IInv

(* ReadHeaderStateless keeps the invariant.                                *)
LEMMA StatelessHeaderKeeps ==
  ASSUME IInv, ReadHeaderStateless
  PROVE  IInv'
  <1>1. /\ Types /\ Control /\ Coming /\ InputInv /\ Space /\ pc = "decode" /\ phase = 0
        /\ UNCHANGED <<output, plain, call, sent>>
    BY DEF IInv, ReadHeaderStateless
  <1>2. PICK h \in Headers :
           /\ avail_in' \in Int /\ read_in_length' \in Int /\ taken' \in Int /\ pos' \in Int /\ items' \in Nat
           /\ tmp_in_size' = 0 /\ bfinal' = h.final /\ upcoming' \in {h, None}
           /\ type0_block_len' \in Nat /\ ret' \in Rets
           /\ pc' = IF ret' = ISAL_DECOMP_OK THEN "decode" ELSE AfterLoop
           /\ ret' = ISAL_DECOMP_OK =>
                /\ InputKept /\ upcoming' = None
                /\ block_state' = IF h.kind = "stored" THEN "TYPE0" ELSE "CODED"
                /\ h.kind = "stored" => \E k \in Nat : read_in_length' = Byte * k
           /\ ret' # ISAL_DECOMP_OK => block_state' = "NEW_HDR"
    BY <1>1, StatelessHeaderStep
  <1>3. /\ tmp_out' = tmp_out /\ out' = out /\ total_out' = total_out /\ write_overflow' = write_overflow
        /\ copy_overflow' = copy_overflow /\ plain' = plain /\ phase' = phase /\ room' = room /\ dict' = dict
        /\ crc_flag' = crc_flag /\ buf_start' = buf_start /\ tmp_out_processed' = tmp_out_processed
        /\ got' = got /\ crc' = crc
    BY <1>1 DEF output, call, sent
  <1>4. Codes /\ h.final \in BOOLEAN /\ h.kind \in {"bad", "coded", "stored"}
    BY CodesAre, HeaderType
  <1>5. block_state' \in {"NEW_HDR", "TYPE0", "CODED"} /\ (block_state' = "NEW_HDR" <=> ret' # ISAL_DECOMP_OK)
    BY <1>2
  <1>6. Types'
    BY <1>1, <1>2, <1>3, <1>4 DEF Types
  <1>7. Control' /\ pc' \in {"decode", AfterLoop}
    <2>1. block_state' \in Working \cup {"INPUT_DONE"} /\ block_state' # "INPUT_DONE" /\ block_state' # "HDR"
      BY <1>5 DEF Working
    <2>2. pc' = IF ret' # ISAL_DECOMP_OK \/ block_state' = "INPUT_DONE" THEN AfterLoop ELSE "decode"
      BY <1>2, <2>1
    <2>3. ret' = ISAL_DECOMP_OK => pc' = "decode"
      BY <1>2
    <2>4. QED
      BY <1>1, <1>3, <2>1, <2>2, <2>3, LoopControl
  <1>8. Coming'
    BY <1>2, <1>5 DEF Coming
  <1>9. InputInv'
    <2>1. ret' = ISAL_DECOMP_OK =>
            /\ avail_in' \in Nat /\ read_in_length' \in 0..(Byte * Word)
            /\ Byte * taken' = pos' + read_in_length' + Byte * tmp_in_size'
      BY <1>2 DEF InputKept
    <2>2. block_state' = "TYPE0" => \E k \in Nat : read_in_length' = Byte * k
      BY <1>2, <1>5
    <2>3. tmp_in_size' <= MaxHdr
      BY <1>2, Sizes
    <2>4. Trusted' => ret' = ISAL_DECOMP_OK
      BY <1>1, <1>3 DEF Trusted
    <2>5. QED
      BY <1>2, <1>5, <2>1, <2>2, <2>3, <2>4 DEF InputInv
  <1>10. Space'
    <2>1. AvailOut \in Nat
      BY <1>1, Room
    <2>2. 0 <= AvailOut /\ 0 \in Nat
      BY <2>1
    <2>3. Grew(0) /\ total_out' = total_out + 0
      BY <1>1, <1>3, Lengths DEF Grew, Types
    <2>4. QED
      BY <1>1, <1>3, <1>6, <1>7, <2>2, <2>3, LoopSpace
  <1>11. QED
    BY <1>6, <1>7, <1>8, <1>9, <1>10 DEF IInv

(* What Wrote adds has its length.                                         *)
LEMMA GrewBy ==
  ASSUME Types, NEW s, Wrote(s)
  PROVE  Grew(Len(s)) /\ tmp_out' \in Seq(Int) /\ out' \in Seq(Int) /\ Len(s) \in Nat
  <1>1. s \in Seq(Int) /\ tmp_out \in Seq(Int) /\ out \in Seq(Int)
    BY DEF Wrote, Types
  <1>2. tmp_out \o s \in Seq(Int) /\ Len(tmp_out \o s) = Len(tmp_out) + Len(s)
        /\ out \o s \in Seq(Int) /\ Len(out \o s) = Len(out) + Len(s) /\ Len(s) \in Nat
    BY <1>1
  <1>3. QED
    BY <1>1, <1>2 DEF Wrote, Grew

(* StoredBlock keeps the invariant.                                        *)
LEMMA StoredKeeps ==
  ASSUME IInv, StoredBlock
  PROVE  IInv'
  <1>1. /\ Types /\ Control /\ Coming /\ InputInv /\ Space /\ pc = "decode" /\ block_state = "TYPE0"
    BY DEF IInv, StoredBlock
  <1>2. PICK len \in Nat :
           /\ len <= AvailOut /\ len <= type0_block_len
           /\ Wrote(Literals(len)) /\ Len(Literals(len)) = len
           /\ plain' = plain \o Literals(len)
           /\ total_out' = total_out + len
           /\ type0_block_len' = type0_block_len - len
           /\ InputKept
           /\ \E k \in Nat : read_in_length' = Byte * k
           /\ block_state' = IF len = type0_block_len THEN BlockDone ELSE "TYPE0"
           /\ ret' \in {ISAL_DECOMP_OK, ISAL_END_INPUT, ISAL_OUT_OVERFLOW}
           /\ ret' = ISAL_DECOMP_OK =>
                len = type0_block_len \/ (len < AvailOut /\ len < Unread)
           /\ ret' = ISAL_END_INPUT => Unread' = 0 /\ block_state' # "INPUT_DONE"
           /\ ret' = ISAL_OUT_OVERFLOW => len = AvailOut /\ len < type0_block_len
           /\ pc' = IF ret' # ISAL_DECOMP_OK \/ block_state' = "INPUT_DONE" THEN AfterLoop ELSE "decode"
           /\ UNCHANGED <<tmp_in_size, write_overflow, copy_overflow, bfinal, upcoming, items, call, sent>>
    BY <1>1, StoredStep
  <1>3. /\ write_overflow' = write_overflow
        /\ copy_overflow' = copy_overflow /\ phase' = phase /\ room' = room /\ dict' = dict
        /\ crc_flag' = crc_flag /\ buf_start' = buf_start /\ tmp_out_processed' = tmp_out_processed
        /\ got' = got /\ crc' = crc /\ tmp_in_size' = tmp_in_size /\ bfinal' = bfinal
        /\ upcoming' = upcoming /\ items' = items
    BY <1>2 DEF call, sent
  <1>4. block_state' \in {"TYPE0", "INPUT_DONE", "NEW_HDR"}
    BY <1>2 DEF BlockDone
  <1>5. upcoming = None /\ tmp_in_size = 0
    BY <1>1 DEF Coming, InputInv
  <1>6. Grew(len) /\ tmp_out' \in Seq(Int) /\ out' \in Seq(Int)
    BY <1>1, <1>2, GrewBy
  <1>7. Types'
    <2>1. plain' \in Seq(Int)
      <3>1. plain \in Seq(Int) /\ Literals(len) \in Seq(Int)
        BY <1>1, <1>2, LiteralsType DEF Types
      <3>2. QED
        BY <1>2, <3>1
    <2>2. avail_in' \in Int /\ read_in_length' \in Int /\ taken' \in Int /\ pos' \in Int
      BY <1>2, Sizes DEF InputKept
    <2>3. total_out' \in Nat /\ type0_block_len' \in Nat
      <3>1. total_out \in Nat /\ type0_block_len \in Nat
        BY <1>1 DEF Types
      <3>2. QED
        BY <1>2, <3>1
    <2>4. ret' \in Rets
      BY <1>2 DEF Rets
    <2>5. QED
      BY <1>1, <1>3, <1>6, <2>1, <2>2, <2>3, <2>4 DEF Types
  <1>8. Control' /\ pc' \in {"decode", AfterLoop}
    <2>1. block_state' \in Working \cup {"INPUT_DONE"} /\ block_state' # "HDR"
      BY <1>4 DEF Working
    <2>2. ret' = ISAL_DECOMP_OK /\ pc' # "decode" => block_state' = "INPUT_DONE"
      BY <1>2
    <2>3. QED
      BY <1>1, <1>2, <1>3, <2>1, <2>2, LoopControl
  <1>9. Coming'
    BY <1>3, <1>4, <1>5 DEF Coming
  <1>10. InputInv'
    <2>1. 0 <= MaxHdr
      BY Sizes
    <2>2. QED
      BY <1>2, <1>3, <1>4, <1>5, <2>1 DEF InputInv, InputKept
  <1>11. Space'
    <2>1. phase # 0 => Overflowed = 0
      BY <1>1, Room
    <2>2. phase # 0 => Overflowed' = 0
      BY <1>3, <2>1 DEF Overflowed
    <2>3. phase # 0 /\ Overflowed' > 0 => FALSE
      BY <2>2
    <2>4. QED
      BY <1>1, <1>2, <1>3, <1>6, <1>7, <1>8, <2>3, LoopSpace
  <1>12. QED
    BY <1>7, <1>8, <1>9, <1>10, <1>11 DEF IInv

(* What a group leaves in the buffers, and what overflows.                 *)
LEMMA GroupOutput ==
  ASSUME Types, Control, Space, pc = "decode", NEW g \in Groups, GroupDone(g)
  PROVE  /\ Grew(Fits(g) + Taken(g)) /\ tmp_out' \in Seq(Int) /\ out' \in Seq(Int) /\ plain' \in Seq(Int)
         /\ write_overflow' \in Seq(Int) /\ Len(write_overflow') = Spill(g)
         /\ copy_overflow' \in [len : Nat, dist : Nat] /\ copy_overflow'.len = Left(g)
         /\ Overflowed' = Spill(g) + Left(g)
  <1>1. PICK f \in Nat, t \in Nat, l \in Nat, s \in Nat, n \in Nat :
          /\ f = Fits(g) /\ t = Taken(g) /\ l = Left(g) /\ s = Spill(g) /\ n = g.lits /\ s = n - f /\ f <= n
    BY GroupRoom, GroupType
  <1>2. PICK a, q : a = After(g) /\ q = Literals(g.lits)
    OBVIOUS
  <1>3. a \in Seq(Int) /\ Len(a) = Len(Target) + (f + t) /\ q \in Seq(Int) /\ Len(q) = n
    BY <1>1, <1>2, GroupRoom
  <1>4. MatchOf(g).dist \in Nat \ {0} /\ MatchOf(g).len \in Nat
    BY GroupType
  <1>5. Grew(f + t) /\ tmp_out' \in Seq(Int) /\ out' \in Seq(Int)
    <2>1. tmp_out \in Seq(Int) /\ out \in Seq(Int)
      BY DEF Types
    <2>2. SetTarget(a)
      BY <1>2 DEF GroupDone
    <2>3. QED
      BY <1>3, <2>1, <2>2 DEF SetTarget, Target, Grew
  <1>6. plain' \in Seq(Int)
    <2>1. plain \o q \in Seq(Int)
      BY <1>3 DEF Types
    <2>2. PICK b, d, m : b = plain \o q /\ d = MatchOf(g).dist /\ m = IF Far(g) THEN 0 ELSE MatchOf(g).len
      OBVIOUS
    <2>3. byte_copy(b, d, m) \in Seq(Int)
      BY <1>4, <2>1, <2>2, CopyType
    <2>4. QED
      BY <1>2, <2>2, <2>3 DEF GroupDone
  <1>7. write_overflow' \in Seq(Int) /\ Len(write_overflow') = s
    <2>1. f + 1 \in 1..(Len(q) + 1) /\ n \in 0..Len(q)
      <3>1. Len(q) = n /\ f <= n
        BY <1>1, <1>3
      <3>2. f + 1 \in 1..(n + 1) /\ n \in 0..n
        BY <3>1
      <3>3. QED
        BY <3>1, <3>2
    <2>2. SubSeq(q, f + 1, n) \in Seq(Int) /\ Len(SubSeq(q, f + 1, n)) = IF f + 1 <= n THEN n - (f + 1) + 1 ELSE 0
      BY <1>3, <2>1, PartType
    <2>3. write_overflow' = SubSeq(q, f + 1, n)
      BY <1>1, <1>2 DEF GroupDone
    <2>4. CASE f + 1 <= n
      BY <1>1, <2>2, <2>3, <2>4
    <2>5. CASE ~ (f + 1 <= n)
      <3>1. s = 0
        BY <1>1, <2>5
      <3>2. QED
        BY <2>2, <2>3, <2>5, <3>1
    <2>6. QED
      BY <2>4, <2>5
  <1>8. copy_overflow' \in [len : Nat, dist : Nat] /\ copy_overflow'.len = l
    <2>1. PICK d \in Nat : d = MatchOf(g).dist
      BY <1>4
    <2>2. copy_overflow' = IF l > 0 THEN [len |-> l, dist |-> d] ELSE [len |-> 0, dist |-> 0]
      BY <1>1, <2>1 DEF GroupDone, NoCopy
    <2>3. CASE l > 0
      <3>1. copy_overflow' = [len |-> l, dist |-> d]
        BY <2>2, <2>3
      <3>2. QED
        BY <3>1
    <2>4. CASE ~ (l > 0)
      <3>1. copy_overflow' = [len |-> 0, dist |-> 0] /\ l = 0
        BY <2>2, <2>4
      <3>2. QED
        BY <3>1
    <2>5. QED
      BY <2>3, <2>4
  <1>9. Overflowed' = s + l
    BY <1>7, <1>8 DEF Overflowed
  <1>10. QED
    BY <1>1, <1>5, <1>6, <1>7, <1>8, <1>9

(* Group keeps the invariant.                                              *)
LEMMA GroupKeeps ==
  ASSUME IInv, Group
  PROVE  IInv'
  <1>1. Types /\ Control /\ Coming /\ InputInv /\ Space /\ pc = "decode" /\ block_state = "CODED"
    BY DEF IInv, Group
  <1>2. PICK g \in Groups :
           /\ upcoming \in Groups => g = upcoming
           /\ IF Unread < GroupNeeds(g) THEN GroupUndone(g) ELSE GroupDone(g)
           /\ InputKept
           /\ pc' = IF ret' # ISAL_DECOMP_OK \/ block_state' = "INPUT_DONE" THEN AfterLoop ELSE "decode"
           /\ UNCHANGED <<tmp_in_size, bfinal, type0_block_len, call, sent>>
    BY <1>1, GroupStep
  <1>3. /\ phase' = phase /\ room' = room /\ dict' = dict /\ crc_flag' = crc_flag /\ buf_start' = buf_start
        /\ tmp_out_processed' = tmp_out_processed /\ got' = got /\ crc' = crc
        /\ tmp_in_size' = tmp_in_size /\ bfinal' = bfinal /\ type0_block_len' = type0_block_len
    BY <1>2 DEF call, sent
  <1>4. Codes /\ tmp_in_size = 0 /\ 0 <= MaxHdr
    BY <1>1, CodesAre, Sizes DEF InputInv
  <1>5. avail_in' \in Int /\ read_in_length' \in Int /\ taken' \in Int /\ pos' \in Int
    BY <1>2, Sizes DEF InputKept
  <1>6. PICK n \in Nat :
          /\ n <= AvailOut /\ Grew(n) /\ total_out' = total_out + n
          /\ tmp_out' \in Seq(Int) /\ out' \in Seq(Int) /\ plain' \in Seq(Int)
          /\ write_overflow' \in Seq(Int) /\ copy_overflow' \in [len : Nat, dist : Nat]
          /\ Overflowed' > 0 => Overflowed' + StoreSize <= LookAhead /\ n = AvailOut /\ ret' # ISAL_DECOMP_OK
          /\ items' \in Nat /\ ret' \in Rets /\ block_state' \in {"CODED", "INPUT_DONE", "NEW_HDR"}
          /\ upcoming' \in {g, None} /\ (block_state' # "CODED" => ret' # ISAL_END_INPUT)
          /\ (block_state' = "NEW_HDR" => upcoming' = None)
    <2>1. CASE GroupUndone(g)
      <3>1. /\ ret' = ISAL_END_INPUT /\ upcoming' = g /\ block_state' = "CODED"
            /\ write_overflow' = <<>> /\ copy_overflow' = [len |-> 0, dist |-> 0]
            /\ tmp_out' = tmp_out /\ out' = out /\ total_out' = total_out /\ items' = items /\ plain' = plain
        BY <2>1 DEF GroupUndone, NoLits, NoCopy
      <3>2. Overflowed' = 0
        BY <3>1 DEF Overflowed
      <3>3. AvailOut \in Nat
        BY <1>1, Room
      <3>4. Grew(0) /\ total_out' = total_out + 0 /\ 0 <= AvailOut
        BY <1>1, <3>1, <3>3, Lengths DEF Grew, Types
      <3>5. items' \in Nat /\ tmp_out' \in Seq(Int) /\ out' \in Seq(Int) /\ plain' \in Seq(Int)
        BY <1>1, <3>1 DEF Types
      <3>6. write_overflow' \in Seq(Int) /\ copy_overflow' \in [len : Nat, dist : Nat] /\ ret' \in Rets
        BY <3>1 DEF Rets
      <3>7. QED
        BY <3>1, <3>2, <3>4, <3>5, <3>6
    <2>2. CASE GroupDone(g)
      <3>1. PICK f \in Nat, t \in Nat, l \in Nat, s \in Nat :
              /\ f = Fits(g) /\ t = Taken(g) /\ l = Left(g) /\ s = Spill(g)
              /\ f + t <= AvailOut /\ (s > 0 \/ l > 0 => f + t = AvailOut)
              /\ s + l + StoreSize <= LookAhead /\ (Far(g) => l = 0)
        BY <1>1, GroupRoom
      <3>2. /\ Grew(f + t) /\ tmp_out' \in Seq(Int) /\ out' \in Seq(Int) /\ plain' \in Seq(Int)
            /\ write_overflow' \in Seq(Int) /\ copy_overflow' \in [len : Nat, dist : Nat]
            /\ Overflowed' = s + l
        BY <1>1, <2>2, <3>1, GroupOutput
      <3>3. /\ ret' = IF g.tail = "bad" THEN ISAL_INVALID_SYMBOL
                      ELSE IF Far(g) THEN ISAL_INVALID_LOOKBACK
                      ELSE IF s > 0 \/ l > 0 THEN ISAL_OUT_OVERFLOW
                      ELSE ISAL_DECOMP_OK
            /\ upcoming' = IF Invalid(ret') THEN g ELSE None
            /\ block_state' = IF g.tail = "eob" THEN BlockDone ELSE "CODED"
            /\ items' = items + 1
            /\ total_out' = total_out + Fits(g) + Taken(g)
        BY <2>2, <3>1 DEF GroupDone
      <3>4. items' \in Nat /\ total_out' = total_out + (f + t)
        BY <1>1, <3>1, <3>3 DEF Types
      <3>5. ret' \in Rets /\ ret' # ISAL_END_INPUT
        BY <1>4, <3>3 DEF Rets, Codes
      <3>6. s + l > 0 => ret' # ISAL_DECOMP_OK
        <4>1. s + l > 0 => s > 0 \/ l > 0
          OBVIOUS
        <4>2. QED
          BY <1>4, <3>3, <4>1 DEF Codes
      <3>7. s + l > 0 => f + t = AvailOut
        BY <3>1
      <3>8. block_state' \in {"CODED", "INPUT_DONE", "NEW_HDR"} /\ upcoming' \in {g, None}
            /\ (block_state' = "NEW_HDR" => upcoming' = None)
        <4>1. Far(g) => g.tail # "eob"
          BY DEF Far, IsMatch
        <4>2. g.tail = "eob" => ~Invalid(ret')
          BY <1>4, <3>3, <4>1 DEF Invalid, Codes
        <4>3. QED
          BY <3>3, <4>2 DEF BlockDone
      <3>9. Overflowed' > 0 => Overflowed' + StoreSize <= LookAhead /\ f + t = AvailOut /\ ret' # ISAL_DECOMP_OK
        BY <3>1, <3>2, <3>6, <3>7
      <3>10. f + t \in Nat
        OBVIOUS
      <3>11. QED
        BY <3>1, <3>2, <3>4, <3>5, <3>8, <3>9, <3>10
    <2>3. QED
      BY <1>2, <2>1, <2>2
  <1>7. Types'
    <2>1. total_out' \in Nat
      BY <1>1, <1>6 DEF Types
    <2>2. QED
      BY <1>1, <1>3, <1>5, <1>6, <2>1 DEF Types
  <1>8. Control' /\ pc' \in {"decode", AfterLoop}
    <2>1. block_state' \in Working \cup {"INPUT_DONE"} /\ block_state' # "HDR"
      BY <1>6 DEF Working
    <2>2. ret' = ISAL_DECOMP_OK /\ pc' # "decode" => block_state' = "INPUT_DONE"
      BY <1>2
    <2>3. QED
      BY <1>1, <1>2, <1>3, <2>1, <2>2, LoopControl
  <1>9. Coming'
    BY <1>6 DEF Coming
  <1>10. InputInv'
    BY <1>2, <1>3, <1>4, <1>6 DEF InputInv, InputKept
  <1>11. Space'
    <2>1. phase # 0 /\ Overflowed' > 0 => Overflowed' + StoreSize <= LookAhead /\ n = AvailOut /\ pc' # "decode"
      <3>1. ret' # ISAL_DECOMP_OK => pc' # "decode"
        BY <1>2 DEF AfterLoop
      <3>2. QED
        BY <1>6, <3>1, Zenon
    <2>2. QED
      BY <1>1, <1>3, <1>6, <1>7, <1>8, <2>1, LoopSpace
  <1>12. QED
    BY <1>7, <1>8, <1>9, <1>10, <1>11 DEF IInv

-----------------------------------------------------------------------------
(* A dictionary of n bytes.                                                *)
LEMMA DictType ==
  ASSUME NEW n \in Nat
  PROVE  DictCells(n) \in Seq(Int) /\ Len(DictCells(n)) = n
  <1>1. \A i \in 1..n : i - n - 1 \in Int
    OBVIOUS
  <1>2. DictCells(n) \in [1..n -> Int]
    BY <1>1 DEF DictCells
  <1>3. QED
    BY <1>2

(* The invariant holds in a state that isal_inflate_init and               *)
(* isal_inflate_set_dict leave.                                            *)
LEMMA InitHolds ==
  ASSUME Init
  PROVE  IInv
  <1>1. /\ avail_in = 0 /\ read_in_length = 0 /\ tmp_in_size = 0 /\ pos = 0 /\ taken = 0
        /\ crc_flag \in DOMAIN TrailerLen /\ crc = 0
        /\ tmp_out = DictCells(dict) /\ tmp_out_processed = dict /\ plain = DictCells(dict)
        /\ out = <<>> /\ total_out = 0 /\ write_overflow = <<>> /\ copy_overflow = [len |-> 0, dist |-> 0]
        /\ block_state = "NEW_HDR" /\ bfinal = FALSE /\ type0_block_len = 0
        /\ upcoming = None /\ items = 0
        /\ room = 0 /\ got = <<>> /\ buf_start = 0
        /\ pc = "user" /\ ret = ISAL_DECOMP_OK
    BY DEF Init, NoLits, NoCopy
  <1>2. phase \in {0, 1} /\ dict \in 0..HistSize
    <2>1. phase \in {0, 1}
      BY DEF Init
    <2>2. dict \in {0} \/ dict \in DictSizes[crc_flag]
      BY DEF Init
    <2>3. DictSizes[crc_flag] \subseteq 0..HistSize /\ 0 \in 0..HistSize
      BY <1>1, InflateAssumption, Sizes
    <2>4. QED
      BY <2>1, <2>2, <2>3
  <1>3. dict \in Nat /\ dict <= HistSize
    BY <1>2, Sizes
  <1>4. tmp_out \in Seq(Int) /\ Len(tmp_out) = dict /\ plain \in Seq(Int)
    BY <1>1, <1>3, DictType
  <1>5. Codes
    BY CodesAre
  <1>6. Types
    <2>1. /\ out \in Seq(Int) /\ got \in Seq(Int) /\ write_overflow \in Seq(Int) /\ phase \in 0..2
          /\ copy_overflow \in [len : Nat, dist : Nat] /\ ret \in Rets
      <3>1. [len |-> 0, dist |-> 0] \in [len : Nat, dist : Nat] /\ <<>> \in Seq(Int)
        OBVIOUS
      <3>2. QED
        BY <1>1, <1>2, <3>1 DEF Rets
    <2>2. /\ avail_in \in Int /\ read_in_length \in Int /\ tmp_in_size \in Nat
          /\ pos \in Int /\ taken \in Int /\ buf_start \in Int
          /\ tmp_out_processed \in Nat /\ total_out \in Nat /\ crc \in Nat
          /\ type0_block_len \in Nat /\ items \in Nat /\ room \in Nat /\ dict \in Nat
          /\ bfinal \in BOOLEAN /\ crc_flag \in DOMAIN TrailerLen
      <3>1. 0 \in Nat /\ 0 \in Int /\ FALSE \in BOOLEAN
        OBVIOUS
      <3>2. QED
        BY <1>1, <1>3, <3>1, Zenon
    <2>3. QED
      BY <1>4, <2>1, <2>2 DEF Types
  <1>7. Control
    <2>1. ~Invalid(ret) /\ block_state \in States /\ phase # 2 /\ AtUser
      BY <1>1, <1>2, <1>5 DEF Invalid, Codes, States, Working, AtUser
    <2>2. QED
      BY <1>1, <2>1 DEF Control
  <1>8. Coming
    BY <1>1 DEF Coming
  <1>9. InputInv
    <2>1. Byte * 0 = 0 /\ 0 \in 0..(Byte * Word) /\ 0 <= MaxHdr /\ 0 \in Nat
      BY Sizes
    <2>2. Byte * taken = pos + read_in_length + Byte * tmp_in_size
      BY <1>1, <2>1
    <2>3. QED
      BY <1>1, <2>1, <2>2 DEF InputInv
  <1>10. Space
    <2>1. Overflowed = 0 /\ Len(got) = 0 /\ AtUser /\ Len(out) = 0 /\ Len(write_overflow) = 0
      BY <1>1 DEF Overflowed, AtUser
    <2>2. Len(tmp_out) + StoreSize <= TmpSize /\ Len(tmp_out) <= TmpSize /\ tmp_out_processed <= Len(tmp_out)
      BY <1>1, <1>3, <1>4, Sizes, StreamSizes DEF TmpSize
    <2>3. QED
      BY <1>1, <2>1, <2>2 DEF Space
  <1>11. QED
    BY <1>6, <1>7, <1>8, <1>9, <1>10 DEF IInv

(* A step of something else keeps the invariant.                           *)
LEMMA StutterKeeps ==
  ASSUME IInv, UNCHANGED vars
  PROVE  IInv'
  <1>1. /\ avail_in' = avail_in /\ read_in_length' = read_in_length /\ tmp_in_size' = tmp_in_size
        /\ pos' = pos /\ taken' = taken /\ tmp_out' = tmp_out /\ out' = out /\ total_out' = total_out
        /\ write_overflow' = write_overflow /\ copy_overflow' = copy_overflow
        /\ block_state' = block_state /\ bfinal' = bfinal /\ type0_block_len' = type0_block_len
        /\ upcoming' = upcoming /\ items' = items /\ plain' = plain
        /\ phase' = phase /\ room' = room /\ dict' = dict /\ crc_flag' = crc_flag /\ buf_start' = buf_start
        /\ tmp_out_processed' = tmp_out_processed /\ got' = got /\ crc' = crc /\ pc' = pc /\ ret' = ret
    BY DEF vars, input, output, block, call, sent
  <1>2. Types'
    BY <1>1 DEF IInv, Types
  <1>3. Control'
    BY <1>1 DEF IInv, Control, AtUser, Live
  <1>4. Coming'
    BY <1>1 DEF IInv, Coming
  <1>5. InputInv'
    BY <1>1 DEF IInv, InputInv, Trusted, Trailer
  <1>6. Space'
    BY <1>1 DEF IInv, Space, Overflowed, Live, Pending, AtUser, TmpSize
  <1>7. QED
    BY <1>2, <1>3, <1>4, <1>5, <1>6 DEF IInv

(* Call keeps the invariant.                                               *)
LEMMA CallKeeps ==
  ASSUME IInv, Call
  PROVE  IInv'
  <1>1. /\ Types /\ Control /\ Coming /\ InputInv /\ Space /\ pc = "user" /\ phase # 0
        /\ block_state \notin {"FINISH", "CHECKSUM_CHECK"}
    BY DEF IInv, Call
  <1>2. PICK n \in Chunks \cup {0}, s \in Rooms : NewInput(n) /\ room' = s
    BY DEF Call
  <1>3. /\ out' = <<>> /\ ret' = ISAL_DECOMP_OK /\ total_out' = total_out + Pending
        /\ IF Len(tmp_out) < 2 * HistSize
           THEN phase' = 1 /\ pc' = IF block_state = "INPUT_DONE" THEN "deliver" ELSE "decode"
           ELSE phase' = 2 /\ pc' = "deliver"
        /\ read_in_length' = read_in_length /\ pos' = pos /\ taken' = taken
        /\ tmp_out' = tmp_out /\ write_overflow' = write_overflow /\ copy_overflow' = copy_overflow
        /\ block_state' = block_state /\ bfinal' = bfinal /\ type0_block_len' = type0_block_len
        /\ upcoming' = upcoming /\ items' = items /\ plain' = plain /\ tmp_in_size' = tmp_in_size
        /\ dict' = dict /\ crc_flag' = crc_flag /\ tmp_out_processed' = tmp_out_processed
        /\ got' = got /\ crc' = crc
    BY DEF Call, block, sent
  <1>4. n \in Nat /\ s \in Nat /\ avail_in \in Nat /\ Trusted
    <2>1. Chunks \subseteq Nat /\ Rooms \subseteq Nat
      BY InflateAssumption
    <2>2. Trusted
      BY <1>1 DEF Trusted
    <2>3. QED
      BY <1>1, <2>1, <2>2 DEF InputInv
  <1>5. avail_in' \in Nat /\ buf_start' \in Int /\ room' \in Nat
    <2>1. taken \in Int /\ buf_start \in Int
      BY <1>1 DEF Types
    <2>2. QED
      BY <1>2, <1>4, <2>1 DEF NewInput
  <1>6. Codes /\ (Live \/ block_state = "INPUT_DONE") /\ ~Invalid(ret)
    <2>1. block_state \in States /\ ~Invalid(ret)
      BY <1>1 DEF Control
    <2>2. QED
      BY <1>1, <2>1, CodesAre DEF States, Live, Working
  <1>7. /\ AtUser /\ Overflowed = 0 /\ tmp_out_processed <= Len(tmp_out) /\ Len(tmp_out) <= TmpSize
        /\ Live => Len(tmp_out) + StoreSize <= TmpSize
        /\ total_out = Len(got)
    <2>1. AtUser
      BY <1>1 DEF AtUser
    <2>2. total_out = Len(got) + 0
      BY <1>1, <2>1 DEF Space
    <2>3. QED
      BY <1>1, <2>1, <2>2, Lengths DEF Space
  <1>8. Pending \in Nat
    BY <1>1, <1>7, Lengths DEF Types
  <1>9. phase' \in 1..2 /\ phase' \in 0..2 /\ phase' # 0 /\ ret' \in Rets
    BY <1>3 DEF Rets
  <1>10. Types'
    <2>1. total_out' \in Nat
      BY <1>1, <1>3, <1>8 DEF Types
    <2>2. out' \in Seq(Int) /\ avail_in' \in Int
      BY <1>3, <1>5
    <2>3. QED
      BY <1>1, <1>3, <1>5, <1>9, <2>1, <2>2 DEF Types
  <1>11. Control'
    <2>1. ~Invalid(ret') /\ ret' = ISAL_DECOMP_OK
      BY <1>3, <1>6 DEF Invalid, Codes
    <2>2. block_state' \in States /\ (Live' \/ block_state' = "INPUT_DONE")
      BY <1>1, <1>3, <1>6 DEF Control, Live
    <2>3. (pc' = "decode" /\ Live') \/ pc' = "deliver"
      BY <1>3, <1>6 DEF Live, Working
    <2>4. QED
      BY <1>9, <2>1, <2>2, <2>3 DEF Control
  <1>12. Coming'
    BY <1>1, <1>3, <1>6 DEF Coming
  <1>13. InputInv'
    BY <1>1, <1>3, <1>4, <1>5 DEF InputInv, Trailer
  <1>14. Space'
    <2>1. Overflowed' = 0 /\ Overflowed' = Overflowed /\ TmpSize' = TmpSize /\ Pending' = Pending /\ ~AtUser' /\ Live' = Live
      BY <1>3, <1>7 DEF Overflowed, TmpSize, Pending, AtUser, Live
    <2>2. Len(out') = 0
      BY <1>3
    <2>3. total_out' = Len(got') + (Len(out') + Pending')
      BY <1>1, <1>3, <1>7, <1>8, <2>1, <2>2, Lengths
    <2>4. pc' = "decode" => phase' = 1 /\ Len(tmp_out') <= 2 * HistSize
      BY <1>1, <1>3, Lengths
    <2>5. pc' = "deliver" /\ phase' = 1 => Len(tmp_out') <= 2 * HistSize
      BY <1>1, <1>3, Lengths
    <2>6. pc' \notin {"user", "stopped", "save"} /\ ~ (Overflowed' > 0)
      BY <1>3, <2>1
    <2>7. tmp_out_processed' <= Len(tmp_out') /\ Len(tmp_out') <= TmpSize'
          /\ (Live' => Len(tmp_out') + StoreSize <= TmpSize')
      BY <1>3, <1>7, <2>1
    <2>8. QED
      BY <1>3, <1>9, <2>1, <2>3, <2>4, <2>5, <2>6, <2>7 DEF Space
  <1>15. QED
    BY <1>10, <1>11, <1>12, <1>13, <1>14 DEF IInv

(* CallStateless keeps the invariant.                                      *)
LEMMA CallStatelessKeeps ==
  ASSUME IInv, CallStateless
  PROVE  IInv'
  <1>1. /\ Types /\ Control /\ Coming /\ InputInv /\ Space /\ pc = "user" /\ phase = 0 /\ pc' = "decode"
    BY DEF IInv, CallStateless
  <1>2. PICK n \in Chunks, s \in Rooms : NewInput(n) /\ room' = s
    BY DEF CallStateless
  <1>3. /\ read_in_length' = read_in_length /\ tmp_in_size' = tmp_in_size
        /\ pos' = pos /\ taken' = taken /\ tmp_out' = tmp_out /\ out' = out /\ total_out' = total_out
        /\ write_overflow' = write_overflow /\ copy_overflow' = copy_overflow
        /\ block_state' = block_state /\ bfinal' = bfinal /\ type0_block_len' = type0_block_len
        /\ upcoming' = upcoming /\ items' = items /\ plain' = plain
        /\ phase' = phase /\ dict' = dict /\ crc_flag' = crc_flag
        /\ tmp_out_processed' = tmp_out_processed /\ got' = got /\ crc' = crc /\ ret' = ret
    BY DEF CallStateless, output, block, sent
  <1>4. Codes /\ ret = ISAL_DECOMP_OK /\ block_state = "NEW_HDR" /\ Trusted /\ out = <<>>
    BY <1>1, CodesAre DEF Control, Trusted, Space
  <1>5. n \in Nat /\ s \in Nat /\ avail_in \in Nat
    <2>1. Chunks \subseteq Nat /\ Rooms \subseteq Nat
      BY InflateAssumption
    <2>2. QED
      BY <1>1, <1>4, <2>1 DEF InputInv
  <1>6. avail_in' \in Nat /\ buf_start' \in Int /\ room' \in Nat
    <2>1. taken \in Int /\ buf_start \in Int
      BY <1>1 DEF Types
    <2>2. QED
      BY <1>2, <1>5, <2>1 DEF NewInput
  <1>7. Types'
    BY <1>1, <1>3, <1>6 DEF Types
  <1>8. Control'
    <2>1. ~Invalid(ret') /\ Live' /\ block_state' \in States /\ block_state' # "HDR"
      BY <1>3, <1>4 DEF Invalid, Codes, Live, Working, States
    <2>2. QED
      BY <1>1, <1>3, <1>4, <2>1 DEF Control
  <1>9. Coming'
    BY <1>1, <1>3, <1>4 DEF Coming
  <1>10. InputInv'
    BY <1>1, <1>3, <1>4, <1>6 DEF InputInv
  <1>11. Space'
    <2>1. Len(out') = 0 /\ TmpSize' = TmpSize
      BY <1>3, <1>4 DEF TmpSize
    <2>2. Len(out') <= room'
      BY <1>6, <2>1
    <2>3. QED
      BY <1>1, <1>3, <2>1, <2>2 DEF Space
  <1>12. QED
    BY <1>7, <1>8, <1>9, <1>10, <1>11 DEF IInv

(* Deliver keeps the invariant: what overflowed has its room behind the    *)
(* limit of tmp_out_buffer.                                                *)
LEMMA DeliverKeeps ==
  ASSUME IInv, Deliver
  PROVE  IInv'
  <1>1. /\ Types /\ Control /\ Coming /\ InputInv /\ Space /\ pc = "deliver"
    BY DEF IInv, Deliver
  <1>2. phase # 0 /\ phase \in 0..2 /\ Trusted /\ ~AtUser /\ (Live \/ block_state = "INPUT_DONE")
        /\ block_state \in States
    BY <1>1 DEF Control, Types, Trusted, AtUser
  <1>3. PICK b : b = WithOverflow(tmp_out)
    OBVIOUS
  <1>4. PICK n : n = Least(Len(b) - tmp_out_processed, room)
    OBVIOUS
  <1>5. PICK now : now = SubSeq(b, tmp_out_processed + 1, tmp_out_processed + n)
    OBVIOUS
  <1>6. /\ tmp_out' = b /\ out' = now /\ tmp_out_processed' = tmp_out_processed + n
        /\ IF Invalid(ret)
           THEN /\ total_out' = (total_out + Overflowed) - (Len(b) - tmp_out_processed')
                /\ crc' = crc + IF crc_flag = "raw" THEN 0 ELSE n
                /\ got' = got \o now
                /\ Return(ret) /\ phase' = phase
           ELSE /\ total_out' = total_out + Overflowed
                /\ phase' = 2
                /\ pc' = IF tmp_out_processed + n = Len(b) /\ block_state # "INPUT_DONE" THEN "decode" ELSE "save"
                /\ crc' = crc /\ got' = got /\ ret' = ret
        /\ write_overflow' = <<>> /\ copy_overflow' = [len |-> 0, dist |-> 0]
    BY <1>3, <1>4, <1>5 DEF Deliver, NoOverflow, NoLits, NoCopy
  <1>7. /\ avail_in' = avail_in /\ read_in_length' = read_in_length /\ tmp_in_size' = tmp_in_size
        /\ pos' = pos /\ taken' = taken
        /\ block_state' = block_state /\ bfinal' = bfinal /\ type0_block_len' = type0_block_len
        /\ upcoming' = upcoming /\ items' = items /\ plain' = plain
        /\ room' = room /\ dict' = dict /\ crc_flag' = crc_flag /\ buf_start' = buf_start
    BY DEF Deliver, input, block
  <1>8. b \in Seq(Int) /\ Len(b) = Len(tmp_out) + Overflowed
    <2>1. tmp_out \in Seq(Int)
      BY <1>1 DEF Types
    <2>2. QED
      BY <1>1, <1>3, <2>1, OverflowType
  <1>9. PICK t \in Nat, v \in Nat, p \in Nat, h \in Nat, l \in Nat, st \in Nat, r \in Nat, g \in Nat, tot \in Nat :
          /\ t = Len(tmp_out) /\ v = Overflowed /\ p = tmp_out_processed /\ h = HistSize /\ l = LookAhead
          /\ st = StoreSize /\ r = room /\ g = Len(got) /\ tot = total_out
          /\ TmpSize = 2 * h + l /\ st <= l /\ Pending = t - p
    BY <1>1, Lengths, Sizes, StreamSizes DEF Types
  <1>10. /\ p <= t /\ t <= 2 * h + l /\ tot = g + (t - p)
         /\ v > 0 => v + st <= l /\ t = 2 * h
         /\ phase = 1 => t <= 2 * h
         /\ phase = 2 => v = 0 /\ (Live => t + st <= 2 * h + l)
    <2>1. Len(out) = 0
      BY <1>1, <1>2 DEF Space
    <2>2. tot = g + (0 + (t - p))
      BY <1>1, <1>2, <1>9, <2>1 DEF Space
    <2>3. phase = 1 \/ phase = 2
      BY <1>2
    <2>4. QED
      BY <1>1, <1>2, <1>9, <2>2, <2>3 DEF Space
  <1>11. Len(b) = t + v /\ t + v <= 2 * h + l /\ (Live => t + v + st <= 2 * h + l)
    <2>1. phase = 1 \/ phase = 2
      BY <1>2
    <2>2. CASE v > 0
      BY <1>8, <1>9, <1>10, <2>2
    <2>3. CASE ~ (v > 0)
      BY <1>8, <1>9, <1>10, <2>1, <2>3
    <2>4. QED
      BY <2>2, <2>3
  <1>12. n \in Nat /\ n <= r /\ p + n <= t + v
    BY <1>4, <1>9, <1>10, <1>11 DEF Least
  <1>13. now \in Seq(Int) /\ Len(now) = n
    <2>1. p + 1 \in 1..(Len(b) + 1) /\ p + n \in 0..Len(b)
      BY <1>11, <1>12, <1>10
    <2>2. SubSeq(b, p + 1, p + n) \in Seq(Int)
          /\ Len(SubSeq(b, p + 1, p + n)) = IF p + 1 <= p + n THEN (p + n) - (p + 1) + 1 ELSE 0
      BY <1>8, <2>1, PartType
    <2>3. now = SubSeq(b, p + 1, p + n)
      BY <1>5, <1>9
    <2>4. QED
      BY <1>12, <2>2, <2>3
  <1>14. got \in Seq(Int) /\ got \o now \in Seq(Int) /\ Len(got \o now) = g + n
    <2>1. got \in Seq(Int)
      BY <1>1 DEF Types
    <2>2. got \o now \in Seq(Int) /\ Len(got \o now) = Len(got) + Len(now)
      BY <1>13, <2>1
    <2>3. QED
      BY <1>9, <1>13, <2>1, <2>2
  <1>15. /\ Overflowed' = 0 /\ Pending' = t + v - (p + n) /\ TmpSize' = TmpSize /\ Live' = Live
         /\ Len(tmp_out') = t + v /\ Len(out') = n /\ tmp_out_processed' = p + n
    BY <1>6, <1>7, <1>9, <1>11, <1>13 DEF Overflowed, Pending, TmpSize, Live
  <1>16. tmp_out_processed' <= Len(tmp_out') /\ Len(tmp_out') <= TmpSize'
         /\ (Live' => Len(tmp_out') + StoreSize <= TmpSize')
    BY <1>9, <1>11, <1>12, <1>15
  <1>17. InputInv'
    <2>1. Trusted
      BY <1>2
    <2>2. QED
      BY <1>1, <1>7, <2>1 DEF InputInv, Trailer
  <1>18. /\ avail_in' \in Int /\ read_in_length' \in Int /\ tmp_in_size' \in Nat
         /\ pos' \in Int /\ taken' \in Int /\ buf_start' \in Int
         /\ plain' \in Seq(Int) /\ type0_block_len' \in Nat /\ items' \in Nat /\ room' \in Nat /\ dict' \in Nat
         /\ bfinal' \in BOOLEAN /\ crc_flag' \in DOMAIN TrailerLen /\ ret \in Rets /\ crc \in Nat
    BY <1>1, <1>7 DEF Types
  <1>19. CASE Invalid(ret)
    <2>1. /\ total_out' = (tot + v) - ((t + v) - (p + n))
          /\ crc' = crc + IF crc_flag = "raw" THEN 0 ELSE n
          /\ got' = got \o now /\ pc' = "stopped" /\ ret' = ret /\ phase' = phase
      BY <1>6, <1>9, <1>11, <1>19 DEF Return
    <2>2. total_out' = g + n /\ total_out' \in Nat /\ crc' \in Nat
      BY <1>10, <1>12, <1>18, <2>1
    <2>3. Types'
      <3>1. phase' \in 0..2 /\ ret' \in Rets /\ got' \in Seq(Int) /\ tmp_out' \in Seq(Int) /\ out' \in Seq(Int)
        BY <1>2, <1>6, <1>8, <1>13, <1>14, <1>18, <2>1
      <3>2. tmp_out_processed' \in Nat
        BY <1>12, <1>15
      <3>3. write_overflow' \in Seq(Int) /\ copy_overflow' \in [len : Nat, dist : Nat]
        BY <1>6
      <3>4. QED
        BY <1>18, <2>2, <3>1, <3>2, <3>3 DEF Types
    <2>4. Control'
      BY <1>1, <1>2, <1>7, <1>19, <2>1 DEF Control, AtUser, States
    <2>5. Coming'
      BY <1>1, <1>7, <2>1 DEF Coming
    <2>6. Space'
      <3>1. AtUser' /\ total_out' = Len(got') + 0
        BY <1>14, <2>1, <2>2 DEF AtUser
      <3>2. ~ (Live' /\ (pc' \in {"user", "save"} \/ phase' = 2)) \/ Len(tmp_out') + StoreSize <= TmpSize'
        BY <1>16
      <3>3. QED
        <4>1. phase' # 0 /\ pc' = "stopped" /\ ~ (Overflowed' > 0)
          BY <1>2, <1>15, <2>1
        <4>2. QED
          BY <1>15, <1>16, <3>1, <3>2, <4>1 DEF Space
    <2>7. QED
      BY <1>17, <2>3, <2>4, <2>5, <2>6 DEF IInv
  <1>20. CASE ~Invalid(ret)
    <2>1. /\ total_out' = tot + v
          /\ pc' = IF p + n = t + v /\ block_state # "INPUT_DONE" THEN "decode" ELSE "save"
          /\ crc' = crc /\ got' = got /\ ret' = ret /\ phase' = 2
      BY <1>6, <1>9, <1>11, <1>20
    <2>2. Types'
      <3>1. total_out' \in Nat /\ phase' \in 0..2 /\ got \in Seq(Int)
        BY <1>14, <2>1
      <3>2. QED
        <4>1. tmp_out' \in Seq(Int) /\ out' \in Seq(Int) /\ tmp_out_processed' \in Nat
          BY <1>6, <1>8, <1>12, <1>13, <1>15
        <4>2. write_overflow' \in Seq(Int) /\ copy_overflow' \in [len : Nat, dist : Nat]
          BY <1>6
        <4>3. got' \in Seq(Int) /\ crc' \in Nat /\ ret' \in Rets
          BY <1>18, <2>1, <3>1
        <4>4. QED
          BY <1>18, <3>1, <4>1, <4>2, <4>3 DEF Types
    <2>3. ~AtUser' /\ (pc' = "decode" \/ pc' = "save")
      BY <2>1 DEF AtUser
    <2>4. Control'
      <3>1. pc' = "decode" => Live'
        BY <1>2, <1>15, <2>1
      <3>2. (Live' \/ block_state' = "INPUT_DONE") /\ block_state' \in States
        BY <1>2, <1>7, <1>15
      <3>3. QED
        BY <1>20, <2>1, <2>3, <3>1, <3>2 DEF Control
    <2>5. Coming'
      BY <1>1, <1>7, <2>1 DEF Coming
    <2>6. Space'
      <3>1. total_out' = Len(got') + (Len(out') + Pending')
        BY <1>9, <1>10, <1>12, <1>15, <2>1
      <3>2. pc' = "decode" => Pending' = 0
        BY <1>9, <1>15, <2>1
      <3>3. Len(out') <= room'
        BY <1>7, <1>9, <1>12, <1>15
      <3>4. ~ (Overflowed' > 0)
        BY <1>15
      <3>5. QED
        <4>1. phase' # 0 /\ phase' # 1 /\ pc' \notin {"user", "stopped", "deliver"}
          BY <2>1, <2>3
        <4>2. QED
          BY <1>15, <1>16, <2>3, <3>1, <3>2, <3>3, <3>4, <4>1 DEF Space
    <2>7. QED
      BY <1>17, <2>2, <2>4, <2>5, <2>6 DEF IInv
  <1>21. QED
    BY <1>19, <1>20

(* A trailer that is there is accepted or refused.                         *)
LEMMA VerdictType ==
  ASSUME NEW r, NEW sum, NEW total
  PROVE  LET v == Verdict(r, sum, total)
         IN v = r \/ (r = ISAL_DECOMP_OK /\ v = ISAL_INCORRECT_CHECKSUM)
  BY DEF Verdict

(* A call that ends at a trailer: its verdict, where it stands, and what   *)
(* it returns to.                                                          *)
LEMMA TrailerControl ==
  ASSUME NEW r \in {ISAL_DECOMP_OK, ISAL_END_INPUT}, NEW sum, NEW total, phase' = phase,
         block_state' = Finished(r), Return(Verdict(r, sum, total)), phase \in 0..2
  PROVE  /\ Control' /\ Coming' /\ ret' \in Rets /\ AtUser' /\ pc' \in {"user", "stopped"}
         /\ block_state' = IF r = ISAL_END_INPUT THEN "CHECKSUM_CHECK" ELSE "FINISH"
         /\ ~Live' /\ (phase = 0 => pc' = "stopped")
  <1>1. PICK v : v = Verdict(r, sum, total)
    OBVIOUS
  <1>2. Codes /\ (v = r \/ (r = ISAL_DECOMP_OK /\ v = ISAL_INCORRECT_CHECKSUM))
    BY <1>1, CodesAre, VerdictType
  <1>3. ret' = v /\ pc' = IF Invalid(v) \/ phase = 0 THEN "stopped" ELSE "user"
    BY <1>1 DEF Return
  <1>4. block_state' = IF r = ISAL_END_INPUT THEN "CHECKSUM_CHECK" ELSE "FINISH"
    BY DEF Finished
  <1>5. block_state' \in {"CHECKSUM_CHECK", "FINISH"}
    BY <1>4
  <1>6. ~Live' /\ block_state' \in States /\ block_state' \notin {"NEW_HDR", "HDR", "CODED", "TYPE0"}
    BY <1>5 DEF Live, Working, States
  <1>7. pc' \in {"user", "stopped"} /\ AtUser' /\ (phase = 0 => pc' = "stopped")
    BY <1>3 DEF AtUser
  <1>8. ret' \in Rets
    BY <1>2, <1>3 DEF Rets
  <1>9. phase # 0 /\ pc' = "user" => ~Invalid(ret')
    BY <1>3
  <1>10. phase # 0 /\ pc' = "stopped" => Invalid(ret')
    BY <1>3
  <1>11. Control'
    BY <1>6, <1>7, <1>9, <1>10 DEF Control
  <1>12. Coming'
    BY <1>6 DEF Coming
  <1>13. QED
    BY <1>4, <1>6, <1>7, <1>8, <1>11, <1>12

(* CallForTrailer keeps the invariant: byte by byte, the trailer is saved  *)
(* in tmp_in_buffer until it is there.                                     *)
LEMMA CallForTrailerKeeps ==
  ASSUME IInv, CallForTrailer
  PROVE  IInv'
  <1>1. /\ Types /\ Control /\ Coming /\ InputInv /\ Space /\ pc = "user" /\ block_state = "CHECKSUM_CHECK"
    BY DEF IInv, CallForTrailer
  <1>2. phase # 0 /\ phase \in 0..2 /\ Trusted /\ AtUser
    BY <1>1 DEF Control, Types, Trusted, AtUser
  <1>3. PICK n \in Chunks :
          /\ MayBring(n)
          /\ buf_start' = IF MovesBuffer THEN taken ELSE buf_start
          /\ LET c == CheckTrailer(read_in_length, n)
             IN /\ avail_in' = c.avail /\ taken' = taken + n - c.avail
                /\ tmp_in_size' = c.tmp_in /\ read_in_length' = c.bits
                /\ block_state' = Finished(c.ret)
                /\ pos' = IF c.ret = ISAL_DECOMP_OK THEN pos + Byte * Trailer ELSE pos
                /\ Return(Verdict(c.ret, crc, total_out))
    BY DEF CallForTrailer
  <1>4. /\ out' = <<>> /\ tmp_out' = tmp_out /\ total_out' = total_out /\ write_overflow' = write_overflow
        /\ copy_overflow' = copy_overflow /\ bfinal' = bfinal /\ type0_block_len' = type0_block_len
        /\ upcoming' = upcoming /\ items' = items /\ plain' = plain /\ phase' = phase /\ room' = room
        /\ dict' = dict /\ crc_flag' = crc_flag
        /\ tmp_out_processed' = tmp_out_processed /\ got' = got /\ crc' = crc
    BY DEF CallForTrailer, sent
  <1>5. n \in Nat /\ n # 0 /\ avail_in = 0
    BY <1>3, InflateAssumption DEF MayBring
  <1>6. read_in_length = 0 /\ tmp_in_size < Trailer
    BY <1>1 DEF InputInv
  <1>7. PICK t \in Nat, m \in Nat, x \in Int, p \in Int :
          t = Trailer /\ m = tmp_in_size /\ x = taken /\ p = pos /\ m < t /\ t <= MaxHdr
    BY <1>1, <1>6, TrailerType DEF Types
  <1>8. PICK c : c = CheckTrailer(read_in_length, n)
    OBVIOUS
  <1>9. /\ c.bits = 0
        /\ n + m < t  => c.ret = ISAL_END_INPUT /\ c.tmp_in = n + m /\ c.avail = 0
        /\ n + m >= t => c.ret = ISAL_DECOMP_OK /\ c.tmp_in = 0 /\ c.avail = n + m - t
    <2>1. PICK z \in Nat : z = 0
      OBVIOUS
    <2>2. z \in 0..(Byte - 1) /\ z = Byte * z + z
      BY <2>1, Sizes
    <2>3. z = 0 /\ tmp_in_size < Trailer /\ c = CheckTrailer(z, n)
      BY <1>6, <1>8, <2>1
    <2>4. PICK u : u = Undo(c)
      OBVIOUS
    <2>5. PICK has : has = z + n + tmp_in_size
      OBVIOUS
    <2>6. /\ has < Trailer  => c.ret = ISAL_END_INPUT /\ c.tmp_in = has /\ u.avail = 0
          /\ has >= Trailer => c.ret = ISAL_DECOMP_OK /\ c.tmp_in = 0 /\ u.avail = has - Trailer
          /\ z = 0 => c.bits = 0 /\ c.avail = u.avail
      <3>1. LET d == CheckTrailer(z, n)
                v == Undo(d)
                w == z + n + tmp_in_size
            IN /\ v.bits = 0
               /\ w < Trailer  => /\ d.ret = ISAL_END_INPUT /\ d.tmp_in = w /\ v.avail = 0
               /\ w >= Trailer => /\ d.ret = ISAL_DECOMP_OK /\ d.tmp_in = 0 /\ v.avail = w - Trailer
               /\ z = 0 => d.bits = 0 /\ d.avail = v.avail
        BY <1>1, <1>5, <2>2, <2>3, TrailerRead
      <3>2. QED
        BY <2>3, <2>4, <2>5, <3>1
    <2>7. has = n + m /\ Trailer = t
      BY <1>5, <1>7, <2>1, <2>5
    <2>8. /\ n + m < t  => c.ret = ISAL_END_INPUT /\ c.tmp_in = n + m /\ u.avail = 0
          /\ n + m >= t => c.ret = ISAL_DECOMP_OK /\ c.tmp_in = 0 /\ u.avail = n + m - t
          /\ c.bits = 0 /\ c.avail = u.avail
      BY <1>5, <2>1, <2>6, <2>7
    <2>9. QED
      BY <2>8
  <1>10. /\ avail_in' = c.avail /\ taken' = x + n - c.avail
         /\ tmp_in_size' = c.tmp_in /\ read_in_length' = 0
         /\ block_state' = Finished(c.ret)
         /\ pos' = IF c.ret = ISAL_DECOMP_OK THEN p + Byte * t ELSE p
         /\ Return(Verdict(c.ret, crc, total_out))
    BY <1>3, <1>7, <1>8, <1>9
  <1>11. c.ret \in {ISAL_DECOMP_OK, ISAL_END_INPUT}
    BY <1>5, <1>7, <1>9
  <1>12. /\ Control' /\ Coming' /\ ret' \in Rets /\ AtUser' /\ pc' \in {"user", "stopped"}
         /\ block_state' = IF c.ret = ISAL_END_INPUT THEN "CHECKSUM_CHECK" ELSE "FINISH"
         /\ ~Live'
    BY <1>2, <1>4, <1>10, <1>11, TrailerControl
  <1>13. Byte * x = p + Byte * m /\ Byte * x \in Int /\ Byte * m \in Int /\ Byte * n \in Int /\ Byte * t \in Int
    <2>1. Byte * taken = pos + read_in_length + Byte * tmp_in_size
      BY <1>1, <1>2 DEF InputInv
    <2>2. Byte * x \in Int /\ Byte * m \in Int /\ Byte * n \in Int /\ Byte * t \in Int
      <3>1. x \in Int /\ n \in Int /\ m \in Int /\ t \in Int
        BY <1>5
      <3>2. QED
        BY <3>1, TimesPlus
    <2>3. QED
      BY <1>6, <1>7, <2>1, <2>2
  <1>14. InputInv' /\ avail_in' \in Nat /\ taken' \in Int /\ pos' \in Int /\ tmp_in_size' \in Nat
    <2>1. Codes /\ 0 \in 0..(Byte * Word) /\ Byte * 0 = 0 /\ 0 <= MaxHdr /\ MaxHdr \in Nat
      <3>1. Byte * Word \in Nat /\ MaxHdr \in Nat /\ Byte \in Nat
        BY Sizes
      <3>2. 0 \in 0..(Byte * Word) /\ Byte * 0 = 0 /\ 0 <= MaxHdr
        BY <3>1
      <3>3. QED
        BY <3>1, <3>2, CodesAre
    <2>2. CASE n + m < t
      <3>1. /\ avail_in' = 0 /\ taken' = x + n /\ tmp_in_size' = n + m /\ pos' = p
            /\ block_state' = "CHECKSUM_CHECK"
        BY <1>5, <1>9, <1>10, <1>12, <2>1, <2>2 DEF Codes
      <3>2. Byte * (x + n) = Byte * x + Byte * n /\ Byte * (n + m) = Byte * n + Byte * m
        <4>1. x \in Int /\ n \in Int /\ m \in Int
          BY <1>5
        <4>2. QED
          BY <4>1, TimesPlus
      <3>3. Byte * taken' = pos' + read_in_length' + Byte * tmp_in_size'
        BY <1>10, <1>13, <3>1, <3>2
      <3>4. tmp_in_size' <= MaxHdr /\ tmp_in_size' < Trailer' /\ read_in_length' \in 0..(Byte * Word)
        <4>1. Trailer' = t
          BY <1>4, <1>7 DEF Trailer
        <4>2. QED
          BY <1>5, <1>7, <1>10, <2>1, <2>2, <3>1, <4>1
      <3>5. avail_in' \in Nat /\ taken' \in Int /\ pos' \in Int /\ tmp_in_size' \in Nat
        BY <1>5, <3>1
      <3>6. avail_in' \in Nat /\ block_state' \notin {"HDR", "TYPE0", "FINISH"} /\ read_in_length' = 0
        BY <1>10, <3>1
      <3>7. InputInv'
        BY <3>1, <3>3, <3>4, <3>6 DEF InputInv
      <3>8. QED
        BY <3>5, <3>7
    <2>3. CASE n + m >= t
      <3>1. PICK a \in Nat : a = n + m - t
        BY <1>5, <2>3
      <3>2. c.ret = ISAL_DECOMP_OK /\ c.tmp_in = 0 /\ c.avail = a
        BY <1>9, <2>3, <3>1
      <3>3. /\ avail_in' = a /\ taken' = x + n - a /\ tmp_in_size' = 0 /\ pos' = p + Byte * t
            /\ block_state' = "FINISH"
        <4>1. c.ret # ISAL_END_INPUT
          BY <2>1, <3>2 DEF Codes
        <4>2. QED
          BY <1>10, <1>12, <3>2, <4>1
      <3>4. x + n - a = (x - m) + t
        BY <1>5, <3>1
      <3>5. Byte * ((x - m) + t) = Byte * (x - m) + Byte * t /\ Byte * (x - m) = Byte * x - Byte * m
        <4>1. x \in Int /\ m \in Int /\ t \in Int /\ x - m \in Int
          OBVIOUS
        <4>2. QED
          BY <4>1, TimesPlus
      <3>6. Byte * taken' = pos'
        BY <1>13, <3>3, <3>4, <3>5
      <3>7. pos' \in Int /\ taken' \in Int
        BY <1>5, <1>13, <3>3
      <3>8. Byte * taken' = pos' + read_in_length' + Byte * tmp_in_size'
        BY <1>10, <2>1, <3>3, <3>6, <3>7
      <3>9. read_in_length' \in 0..(Byte * Word)
        BY <1>10, <2>1
      <3>10. QED
        BY <2>1, <3>3, <3>6, <3>7, <3>8, <3>9 DEF InputInv
    <2>4. QED
      BY <1>5, <2>2, <2>3
  <1>15. Types'
    <2>1. out' \in Seq(Int) /\ buf_start' \in Int
      BY <1>1, <1>3, <1>4 DEF Types
    <2>2. QED
      BY <1>1, <1>4, <1>10, <1>12, <1>14, <2>1 DEF Types
  <1>16. Space'
    <2>1. Overflowed' = Overflowed /\ TmpSize' = TmpSize /\ Overflowed = 0 /\ Len(out') = 0
      BY <1>1, <1>2, <1>4 DEF Overflowed, TmpSize, Space
    <2>2. total_out' = Len(got') + 0
      BY <1>1, <1>2, <1>4 DEF Space
    <2>3. tmp_out_processed' <= Len(tmp_out') /\ Len(tmp_out') <= TmpSize'
      BY <1>1, <1>4, <2>1 DEF Space
    <2>4. phase' # 0 /\ ~ (Overflowed' > 0) /\ Overflowed' = 0 /\ pc' \notin {"decode", "deliver", "save"}
      BY <1>2, <1>4, <1>12, <2>1
    <2>5. QED
      BY <1>12, <2>2, <2>3, <2>4 DEF Space
  <1>17. QED
    BY <1>12, <1>14, <1>15, <1>16 DEF IInv

(* Where the input stands once Save has read the trailer, or what there is *)
(* of it.                                                                  *)
LEMMA SaveInput ==
  ASSUME Types, InputInv, Trusted, block_state = "INPUT_DONE",
         NEW c, c = CheckTrailer(read_in_length, avail_in), NEW u, u = Undo(c),
         read_in_length' = u.bits, avail_in' = u.avail, taken' = taken + avail_in - u.avail,
         tmp_in_size' = c.tmp_in, crc_flag' = crc_flag,
         pos' = IF c.ret = ISAL_DECOMP_OK
                THEN Byte * ((pos + Byte - 1) \div Byte + Trailer)
                ELSE pos + (read_in_length % Byte),
         block_state' = IF c.ret = ISAL_END_INPUT THEN "CHECKSUM_CHECK" ELSE "FINISH"
  PROVE  /\ c.ret \in {ISAL_DECOMP_OK, ISAL_END_INPUT} /\ InputInv'
         /\ avail_in' \in Int /\ read_in_length' \in Int /\ tmp_in_size' \in Nat
         /\ pos' \in Int /\ taken' \in Int
  <1>1. /\ tmp_in_size = 0 /\ read_in_length \in 0..(Byte * Word) /\ avail_in \in Nat
        /\ Byte * taken = pos + read_in_length + Byte * tmp_in_size
    BY DEF InputInv
  <1>2. PICK t \in Nat, x \in Int, p \in Int, a \in Nat, b \in Nat :
          t = Trailer /\ x = taken /\ p = pos /\ a = avail_in /\ b = read_in_length /\ t <= MaxHdr
    BY <1>1, TrailerType, Sizes DEF Types
  <1>3. PICK q \in Nat, s \in 0..(Byte - 1) : b = Byte * q + s /\ b % Byte = s
    <2>1. \E q \in Int, s \in 0..(Byte - 1) :
             b = Byte * q + s /\ WholeBytes(b) = q /\ b % Byte = s /\ (b >= 0 => q >= 0)
      <3>1. b \in Int
        OBVIOUS
      <3>2. QED
        BY <3>1, Bytes
    <2>2. QED
      BY <2>1
  <1>4. PICK has \in Nat : has = q + a /\ has = q + a + tmp_in_size
    BY <1>1
  <1>5. /\ u.bits = 0
        /\ has < Trailer  => c.ret = ISAL_END_INPUT /\ c.tmp_in = has /\ u.avail = 0
        /\ has >= Trailer => c.ret = ISAL_DECOMP_OK /\ c.tmp_in = 0 /\ u.avail = has - Trailer
    <2>1. c = CheckTrailer(b, a)
      BY <1>2
    <2>2. LET d == CheckTrailer(b, a)
              v == Undo(d)
              w == q + a + tmp_in_size
          IN /\ v.bits = 0
             /\ w < Trailer  => /\ d.ret = ISAL_END_INPUT /\ d.tmp_in = w /\ v.avail = 0
             /\ w >= Trailer => /\ d.ret = ISAL_DECOMP_OK /\ d.tmp_in = 0 /\ v.avail = w - Trailer
             /\ b = 0 => d.bits = 0 /\ d.avail = v.avail
      BY <1>1, <1>3, TrailerRead
    <2>3. QED
      BY <1>4, <2>1, <2>2
  <1>6. /\ has < t  => c.ret = ISAL_END_INPUT /\ c.tmp_in = has /\ u.avail = 0
        /\ has >= t => c.ret = ISAL_DECOMP_OK /\ c.tmp_in = 0 /\ u.avail = has - t
    BY <1>2, <1>5
  <1>7. /\ read_in_length' = 0 /\ avail_in' = u.avail /\ taken' = x + a - u.avail
        /\ tmp_in_size' = c.tmp_in
        /\ pos' = IF c.ret = ISAL_DECOMP_OK THEN Byte * ((p + Byte - 1) \div Byte + t) ELSE p + s
    BY <1>2, <1>3, <1>5
  <1>8. /\ Codes /\ 0 \in 0..(Byte * Word) /\ Byte * 0 = 0 /\ 0 <= MaxHdr /\ MaxHdr \in Nat /\ Byte \in Nat
    <2>1. Byte * Word \in Nat /\ MaxHdr \in Nat /\ Byte \in Nat
      BY Sizes
    <2>2. 0 \in 0..(Byte * Word) /\ Byte * 0 = 0 /\ 0 <= MaxHdr
      BY <2>1
    <2>3. QED
      BY <2>1, <2>2, CodesAre
  <1>9. s \in Nat /\ s \in Int /\ x \in Int /\ a \in Int /\ q \in Int /\ t \in Int
    BY <1>8
  <1>10. /\ Byte * x \in Int /\ Byte * a \in Int /\ Byte * q \in Int
         /\ Byte * x = p + (Byte * q + s)
    <2>1. Byte * x \in Int /\ Byte * a \in Int /\ Byte * q \in Int
      BY <1>9, TimesPlus
    <2>2. Byte * x = p + b
      BY <1>1, <1>2, <1>8
    <2>3. QED
      BY <1>3, <2>1, <2>2
  <1>11. CASE has < t
    <2>1. /\ avail_in' = 0 /\ taken' = x + a /\ tmp_in_size' = has /\ pos' = p + s
          /\ block_state' = "CHECKSUM_CHECK"
      BY <1>6, <1>7, <1>8, <1>9, <1>11 DEF Codes
    <2>2. Byte * (x + a) = Byte * x + Byte * a /\ Byte * (q + a) = Byte * q + Byte * a
      BY <1>9, TimesPlus
    <2>3. Byte * taken' = pos' + read_in_length' + Byte * tmp_in_size'
      <3>1. Byte * taken' = Byte * x + Byte * a /\ Byte * tmp_in_size' = Byte * q + Byte * a
        BY <1>4, <2>1, <2>2
      <3>2. pos' = p + s /\ read_in_length' = 0
        BY <1>7, <2>1
      <3>3. QED
        BY <1>9, <1>10, <3>1, <3>2
    <2>4. tmp_in_size' <= MaxHdr /\ tmp_in_size' < Trailer' /\ read_in_length' \in 0..(Byte * Word)
      <3>1. Trailer' = t
        BY <1>2 DEF Trailer
      <3>2. QED
        BY <1>2, <1>7, <1>8, <1>11, <2>1, <3>1
    <2>5. avail_in' \in Nat /\ taken' \in Int /\ pos' \in Int /\ tmp_in_size' \in Nat /\ read_in_length' \in Int
      BY <1>7, <1>9, <2>1
    <2>6. avail_in' \in Nat /\ block_state' \notin {"HDR", "TYPE0", "FINISH"} /\ read_in_length' = 0
      BY <1>7, <2>1
    <2>7. InputInv'
      BY <2>1, <2>3, <2>4, <2>6 DEF InputInv
    <2>8. QED
      BY <1>6, <1>11, <2>5, <2>7
  <1>12. CASE has >= t
    <2>1. PICK v \in Nat : v = has - t
      BY <1>12
    <2>2. c.ret = ISAL_DECOMP_OK /\ c.tmp_in = 0 /\ u.avail = v
      BY <1>6, <1>12, <2>1
    <2>3. c.ret # ISAL_END_INPUT
      BY <1>8, <2>2 DEF Codes
    <2>4. PICK k \in Int : k = x - q
      BY <1>9
    <2>5. p + s = Byte * k
      <3>1. Byte * (x - q) = Byte * x - Byte * q
        BY <1>9, TimesPlus
      <3>2. QED
        BY <1>9, <1>10, <2>4, <3>1
    <2>6. (p + Byte - 1) \div Byte = k
      BY <2>5, RoundUp
    <2>7. taken' = k + t /\ k + t \in Int
      BY <1>4, <1>7, <1>9, <2>1, <2>2, <2>4
    <2>8. /\ avail_in' = v /\ tmp_in_size' = 0 /\ pos' = Byte * (k + t) /\ block_state' = "FINISH"
          /\ read_in_length' = 0
      BY <1>7, <2>2, <2>3, <2>6
    <2>9. pos' \in Int /\ Byte * taken' = pos'
      BY <2>7, <2>8, TimesPlus
    <2>10. Byte * taken' = pos' + read_in_length' + Byte * tmp_in_size'
      BY <1>8, <2>8, <2>9
    <2>11. /\ read_in_length' \in 0..(Byte * Word) /\ avail_in' \in Nat /\ tmp_in_size' <= MaxHdr
           /\ block_state' \notin {"TYPE0", "CHECKSUM_CHECK"}
      BY <1>8, <2>8
    <2>12. InputInv'
      BY <2>8, <2>9, <2>10, <2>11 DEF InputInv
    <2>13. avail_in' \in Int /\ read_in_length' \in Int /\ tmp_in_size' \in Nat /\ pos' \in Int /\ taken' \in Int
      BY <2>7, <2>8, <2>9
    <2>14. QED
      BY <2>2, <2>12, <2>13
  <1>13. QED
    BY <1>2, <1>11, <1>12

(* Save keeps the invariant, at the stream's end and before.               *)
LEMMA SaveKeeps ==
  ASSUME IInv, Save
  PROVE  IInv'
  <1>1. /\ Types /\ Control /\ Coming /\ InputInv /\ Space /\ pc = "save"
    BY DEF IInv, Save
  <1>2. /\ phase # 0 /\ phase = 2 /\ phase \in 0..2 /\ Trusted /\ ~AtUser /\ (Live \/ block_state = "INPUT_DONE")
        /\ block_state \in States /\ block_state \notin {"CHECKSUM_CHECK", "FINISH"}
    <2>1. phase = 2 /\ ~AtUser /\ block_state \in States
      BY <1>1 DEF Control, AtUser
    <2>2. Live \/ block_state = "INPUT_DONE"
      BY <1>1, <2>1 DEF Control
    <2>3. QED
      BY <2>1, <2>2 DEF Trusted, Live, Working
  <1>3. PICK s : s = SaveHistory
    OBVIOUS
  <1>4. PICK b : b = WithOverflow(s.tmp)
    OBVIOUS
  <1>5. PICK c : c = CheckTrailer(read_in_length, avail_in)
    OBVIOUS
  <1>6. PICK u : u = Undo(c)
    OBVIOUS
  <1>7. PICK pend : pend = Len(b) - s.processed
    OBVIOUS
  <1>8. PICK total : total = total_out + Overflowed
    OBVIOUS
  <1>9. /\ tmp_out' = b /\ tmp_out_processed' = s.processed
        /\ crc' = SummedOutput /\ got' = got \o out /\ total_out' = total - pend
        /\ IF ~Invalid(ret) /\ block_state = "INPUT_DONE" /\ pend = 0
           THEN /\ read_in_length' = u.bits /\ avail_in' = u.avail
                /\ taken' = taken + avail_in - u.avail
                /\ tmp_in_size' = c.tmp_in
                /\ pos' = IF c.ret = ISAL_DECOMP_OK
                          THEN Byte * ((pos + Byte - 1) \div Byte + Trailer)
                          ELSE pos + (read_in_length % Byte)
                /\ block_state' = Finished(c.ret)
                /\ Return(Verdict(c.ret, SummedOutput, total))
           ELSE Return(ret) /\ UNCHANGED <<input, block_state>>
    BY <1>3, <1>4, <1>5, <1>6, <1>7, <1>8 DEF Save
  <1>10. /\ out' = <<>> /\ write_overflow' = <<>> /\ copy_overflow' = [len |-> 0, dist |-> 0]
         /\ bfinal' = bfinal /\ type0_block_len' = type0_block_len
         /\ upcoming' = upcoming /\ items' = items /\ plain' = plain /\ phase' = phase
         /\ room' = room /\ dict' = dict /\ crc_flag' = crc_flag /\ buf_start' = buf_start
    BY DEF Save, NoOverflow, NoLits, NoCopy, call
  <1>11. /\ s.tmp \in Seq(Int) /\ s.processed \in Nat /\ s.processed <= Len(s.tmp)
         /\ Len(s.tmp) - s.processed = Pending
         /\ Len(s.tmp) + Overflowed <= TmpSize
         /\ Live => Len(s.tmp) + Overflowed + StoreSize <= TmpSize
    BY <1>1, <1>3, HistoryRoom
  <1>12. b \in Seq(Int) /\ Len(b) = Len(s.tmp) + Overflowed
    BY <1>1, <1>4, <1>11, OverflowType
  <1>13. PICK n \in Nat, v \in Nat, r \in Nat, g \in Nat, o \in Nat, tot \in Nat, e \in Int, sz \in Nat, st \in Nat :
           /\ n = Len(s.tmp) /\ v = Overflowed /\ r = s.processed /\ g = Len(got) /\ o = Len(out)
           /\ tot = total_out /\ e = Pending /\ sz = TmpSize /\ st = StoreSize
    <2>1. Len(s.tmp) \in Nat
      BY <1>11
    <2>2. /\ Overflowed \in Nat /\ Len(got) \in Nat /\ Len(out) \in Nat /\ Pending \in Int /\ TmpSize \in Nat
          /\ total_out \in Nat /\ StoreSize \in Nat
      BY <1>1, Lengths, Sizes DEF Types
    <2>3. QED
      BY <1>11, <2>1, <2>2
  <1>14. r <= n /\ n - r = e /\ n + v <= sz /\ (Live => n + v + st <= sz) /\ Len(b) = n + v /\ tot = g + (o + e)
    <2>1. total_out = Len(got) + (Len(out) + Pending)
      BY <1>1, <1>2 DEF Space
    <2>2. QED
      BY <1>11, <1>12, <1>13, <2>1
  <1>15. total_out' = g + o /\ total_out' \in Nat
    <2>1. pend = (n + v) - r /\ total = tot + v /\ total_out' = total - pend
      BY <1>7, <1>8, <1>9, <1>13, <1>14
    <2>2. QED
      BY <1>14, <2>1
  <1>16. got' \in Seq(Int) /\ Len(got') = g + o
    <2>1. got \in Seq(Int) /\ out \in Seq(Int)
      BY <1>1 DEF Types
    <2>2. got \o out \in Seq(Int) /\ Len(got \o out) = Len(got) + Len(out)
      BY <2>1
    <2>3. QED
      BY <1>9, <1>13, <2>2
  <1>17. crc' \in Nat
    <2>1. crc \in Nat
      BY <1>1 DEF Types
    <2>2. QED
      BY <1>9, <1>13, <2>1 DEF SummedOutput
  <1>18. /\ plain' \in Seq(Int) /\ type0_block_len' \in Nat /\ items' \in Nat /\ room' \in Nat /\ dict' \in Nat
         /\ bfinal' \in BOOLEAN /\ crc_flag' \in DOMAIN TrailerLen /\ ret \in Rets /\ buf_start' \in Int
         /\ write_overflow' \in Seq(Int) /\ copy_overflow' \in [len : Nat, dist : Nat]
         /\ tmp_out' \in Seq(Int) /\ tmp_out_processed' \in Nat /\ out' \in Seq(Int) /\ phase' \in 0..2
    <2>1. <<>> \in Seq(Int) /\ [len |-> 0, dist |-> 0] \in [len : Nat, dist : Nat]
      OBVIOUS
    <2>2. QED
      BY <1>1, <1>9, <1>10, <1>11, <1>12, <2>1 DEF Types
  <1>19. ASSUME /\ avail_in' \in Int /\ read_in_length' \in Int /\ tmp_in_size' \in Nat
                /\ pos' \in Int /\ taken' \in Int /\ ret' \in Rets
         PROVE  Types'
    BY <1>15, <1>16, <1>17, <1>18, <1>19 DEF Types
  <1>20. ASSUME AtUser', pc' \in {"user", "stopped"}, Live' => Live
         PROVE  Space'
    <2>1. Overflowed' = 0 /\ TmpSize' = sz /\ phase' # 0 /\ phase' = 2 /\ ~ (Overflowed' > 0)
      BY <1>2, <1>10, <1>13 DEF Overflowed, TmpSize
    <2>2. Len(tmp_out') = n + v /\ tmp_out_processed' = r
      BY <1>9, <1>13, <1>14
    <2>3. tmp_out_processed' <= Len(tmp_out') /\ Len(tmp_out') <= TmpSize'
      BY <1>14, <2>1, <2>2
    <2>4. Live' => Len(tmp_out') + StoreSize <= TmpSize'
      BY <1>13, <1>14, <1>20, <2>1, <2>2
    <2>5. total_out' = Len(got') + 0
      BY <1>15, <1>16
    <2>6. QED
      BY <1>20, <2>1, <2>3, <2>4, <2>5 DEF Space
  <1>21. CASE ~Invalid(ret) /\ block_state = "INPUT_DONE" /\ pend = 0
    <2>1. /\ read_in_length' = u.bits /\ avail_in' = u.avail
          /\ taken' = taken + avail_in - u.avail
          /\ tmp_in_size' = c.tmp_in
          /\ pos' = IF c.ret = ISAL_DECOMP_OK
                    THEN Byte * ((pos + Byte - 1) \div Byte + Trailer)
                    ELSE pos + (read_in_length % Byte)
          /\ block_state' = Finished(c.ret)
          /\ Return(Verdict(c.ret, SummedOutput, total))
      BY <1>9, <1>21
    <2>2. block_state' = IF c.ret = ISAL_END_INPUT THEN "CHECKSUM_CHECK" ELSE "FINISH"
      BY <2>1 DEF Finished
    <2>3. /\ c.ret \in {ISAL_DECOMP_OK, ISAL_END_INPUT} /\ InputInv'
          /\ avail_in' \in Int /\ read_in_length' \in Int /\ tmp_in_size' \in Nat
          /\ pos' \in Int /\ taken' \in Int
      BY <1>1, <1>2, <1>5, <1>6, <1>10, <1>21, <2>1, <2>2, SaveInput
    <2>4. Control' /\ Coming' /\ ret' \in Rets /\ AtUser' /\ pc' \in {"user", "stopped"} /\ ~Live'
      BY <1>2, <1>10, <2>1, <2>3, TrailerControl
    <2>5. Types' /\ Space'
      BY <1>19, <1>20, <2>3, <2>4
    <2>6. QED
      BY <2>3, <2>4, <2>5 DEF IInv
  <1>22. CASE ~(~Invalid(ret) /\ block_state = "INPUT_DONE" /\ pend = 0)
    <2>1. Return(ret) /\ UNCHANGED <<input, block_state>>
      BY <1>9, <1>22
    <2>2. /\ avail_in' = avail_in /\ read_in_length' = read_in_length /\ tmp_in_size' = tmp_in_size
          /\ pos' = pos /\ taken' = taken /\ block_state' = block_state
      BY <2>1 DEF input
    <2>3. ret' = ret /\ pc' = IF Invalid(ret) THEN "stopped" ELSE "user"
      BY <1>2, <2>1 DEF Return
    <2>4. AtUser' /\ pc' \in {"user", "stopped"} /\ (Live' => Live)
      BY <2>2, <2>3 DEF AtUser, Live
    <2>5. Control'
      BY <1>2, <1>10, <2>2, <2>3, <2>4 DEF Control
    <2>6. Coming'
      BY <1>1, <1>10, <2>2, <2>3 DEF Coming
    <2>7. InputInv'
      BY <1>1, <1>2, <1>10, <2>2 DEF InputInv
    <2>8. /\ avail_in' \in Int /\ read_in_length' \in Int /\ tmp_in_size' \in Nat
          /\ pos' \in Int /\ taken' \in Int /\ ret' \in Rets
      BY <1>1, <1>18, <2>2, <2>3 DEF Types
    <2>9. Types' /\ Space'
      BY <1>19, <1>20, <2>4, <2>8
    <2>10. QED
      BY <2>5, <2>6, <2>7, <2>9 DEF IInv
  <1>23. QED
    BY <1>21, <1>22

(* Where the input stands once isal_inflate_stateless has handed back what *)
(* it had loaded, and read the trailer.                                    *)
LEMMA EndInput ==
  ASSUME Types, InputInv, Trusted, block_state = "INPUT_DONE", phase = 0, phase' = phase,
         NEW c, c = CheckTrailer(0, avail_in + TowardsZero(read_in_length)),
         read_in_length' = 0, avail_in' = c.avail, taken' = taken + avail_in - c.avail,
         tmp_in_size' = c.tmp_in, crc_flag' = crc_flag,
         pos' = Byte * ((pos + Byte - 1) \div Byte) + Byte * Trailer,
         block_state' = IF c.ret = ISAL_END_INPUT THEN "CHECKSUM_CHECK" ELSE "FINISH",
         c.ret = ISAL_END_INPUT => ret' # ISAL_DECOMP_OK
  PROVE  /\ c.ret \in {ISAL_DECOMP_OK, ISAL_END_INPUT} /\ InputInv'
         /\ avail_in' \in Int /\ tmp_in_size' \in Nat /\ pos' \in Int /\ taken' \in Int
  <1>1. /\ tmp_in_size = 0 /\ read_in_length \in 0..(Byte * Word) /\ avail_in \in Nat
        /\ Byte * taken = pos + read_in_length + Byte * tmp_in_size
    BY DEF InputInv
  <1>2. PICK t \in Nat, x \in Int, p \in Int, a \in Nat, b \in Nat :
          t = Trailer /\ x = taken /\ p = pos /\ a = avail_in /\ b = read_in_length /\ t <= MaxHdr
    BY <1>1, TrailerType, Sizes DEF Types
  <1>3. PICK q \in Nat, s \in 0..(Byte - 1) : b = Byte * q + s /\ TowardsZero(b) = q
    <2>1. \E q \in Int, s \in 0..(Byte - 1) :
             b = Byte * q + s /\ WholeBytes(b) = q /\ b % Byte = s /\ (b >= 0 => q >= 0)
      <3>1. b \in Int
        OBVIOUS
      <3>2. QED
        BY <3>1, Bytes
    <2>2. TowardsZero(b) = WholeBytes(b)
      BY DEF TowardsZero
    <2>3. QED
      BY <2>1, <2>2
  <1>4. PICK k \in Nat : k = a + q
    OBVIOUS
  <1>5. PICK z \in Nat : z = 0 /\ z = Byte * z + z /\ z \in 0..(Byte - 1)
    BY Sizes
  <1>6. PICK has \in Nat : has = k /\ has = z + k + tmp_in_size
    BY <1>1, <1>5
  <1>7. /\ has < t  => c.ret = ISAL_END_INPUT /\ c.tmp_in = has /\ c.avail = 0
        /\ has >= t => c.ret = ISAL_DECOMP_OK /\ c.tmp_in = 0 /\ c.avail = has - t
    <2>1. c = CheckTrailer(z, k)
      BY <1>2, <1>3, <1>4, <1>5
    <2>2. LET d == CheckTrailer(z, k)
              v == Undo(d)
              w == z + k + tmp_in_size
          IN /\ v.bits = 0
             /\ w < Trailer  => /\ d.ret = ISAL_END_INPUT /\ d.tmp_in = w /\ v.avail = 0
             /\ w >= Trailer => /\ d.ret = ISAL_DECOMP_OK /\ d.tmp_in = 0 /\ v.avail = w - Trailer
             /\ z = 0 => d.bits = 0 /\ d.avail = v.avail
      BY <1>1, <1>5, TrailerRead
    <2>3. QED
      BY <1>2, <1>5, <1>6, <2>1, <2>2
  <1>8. /\ Codes /\ 0 \in 0..(Byte * Word) /\ Byte * 0 = 0 /\ 0 <= MaxHdr /\ MaxHdr \in Nat /\ Byte \in Nat
    <2>1. Byte * Word \in Nat /\ MaxHdr \in Nat /\ Byte \in Nat
      BY Sizes
    <2>2. 0 \in 0..(Byte * Word) /\ Byte * 0 = 0 /\ 0 <= MaxHdr
      BY <2>1
    <2>3. QED
      BY <2>1, <2>2, CodesAre
  <1>9. s \in Nat /\ s \in Int /\ x \in Int /\ a \in Int /\ q \in Int /\ t \in Int
    BY <1>8
  <1>10. /\ Byte * x \in Int /\ Byte * q \in Int /\ Byte * t \in Int
         /\ Byte * x = p + (Byte * q + s)
    <2>1. Byte * x \in Int /\ Byte * q \in Int /\ Byte * t \in Int
      BY <1>9, TimesPlus
    <2>2. Byte * x = p + b
      BY <1>1, <1>2, <1>8
    <2>3. QED
      BY <1>3, <2>1, <2>2
  <1>11. PICK m \in Int : m = x - q
    BY <1>9
  <1>12. pos' = Byte * m + Byte * t /\ pos' = Byte * (m + t) /\ pos' \in Int
    <2>1. Byte * (x - q) = Byte * x - Byte * q
      BY <1>9, TimesPlus
    <2>2. p + s = Byte * m
      BY <1>9, <1>10, <1>11, <2>1
    <2>3. (p + Byte - 1) \div Byte = m
      BY <2>2, RoundUp
    <2>4. pos' = Byte * m + Byte * t
      BY <1>2, <2>3
    <2>5. Byte * (m + t) = Byte * m + Byte * t /\ Byte * m \in Int
      BY <1>9, TimesPlus
    <2>6. QED
      BY <1>10, <2>4, <2>5
  <1>13. avail_in' = c.avail /\ taken' = x + a - c.avail /\ tmp_in_size' = c.tmp_in /\ read_in_length' = 0
    BY <1>2
  <1>14. CASE has < t
    <2>1. c.ret = ISAL_END_INPUT /\ c.tmp_in = has /\ c.avail = 0
      BY <1>7, <1>14
    <2>2. avail_in' = 0 /\ taken' = x + a /\ tmp_in_size' = has /\ block_state' = "CHECKSUM_CHECK"
      BY <1>9, <1>13, <2>1
    <2>3. ~Trusted'
      BY <2>1 DEF Trusted
    <2>4. tmp_in_size' <= MaxHdr /\ tmp_in_size' < Trailer'
      <3>1. Trailer' = t
        BY <1>2 DEF Trailer
      <3>2. QED
        BY <1>2, <1>8, <1>14, <2>2, <3>1
    <2>5. InputInv'
      BY <1>13, <2>2, <2>3, <2>4 DEF InputInv
    <2>6. avail_in' \in Int /\ tmp_in_size' \in Nat /\ taken' \in Int
      BY <1>9, <2>2
    <2>7. QED
      BY <1>12, <2>1, <2>5, <2>6
  <1>15. CASE has >= t
    <2>1. PICK v \in Nat : v = has - t
      BY <1>15
    <2>2. c.ret = ISAL_DECOMP_OK /\ c.tmp_in = 0 /\ c.avail = v
      BY <1>7, <1>15, <2>1
    <2>3. c.ret # ISAL_END_INPUT
      BY <1>8, <2>2 DEF Codes
    <2>4. taken' = m + t /\ m + t \in Int
      BY <1>4, <1>6, <1>9, <1>11, <1>13, <2>1, <2>2
    <2>5. avail_in' = v /\ tmp_in_size' = 0 /\ block_state' = "FINISH"
      BY <1>13, <2>2, <2>3
    <2>6. Byte * taken' = pos'
      BY <1>12, <2>4
    <2>7. Byte * taken' = pos' + read_in_length' + Byte * tmp_in_size'
      BY <1>8, <1>12, <1>13, <2>5, <2>6
    <2>8. /\ read_in_length' \in 0..(Byte * Word) /\ avail_in' \in Nat /\ tmp_in_size' <= MaxHdr
          /\ block_state' \notin {"TYPE0", "CHECKSUM_CHECK"}
      BY <1>8, <1>13, <2>5
    <2>9. InputInv'
      BY <2>5, <2>6, <2>7, <2>8 DEF InputInv
    <2>10. avail_in' \in Int /\ tmp_in_size' \in Nat /\ taken' \in Int
      BY <2>4, <2>5
    <2>11. QED
      BY <1>12, <2>2, <2>9, <2>10
  <1>16. QED
    BY <1>2, <1>14, <1>15

(* EndStateless keeps the invariant.                                       *)
LEMMA EndStatelessKeeps ==
  ASSUME IInv, EndStateless
  PROVE  IInv'
  <1>1. /\ Types /\ Control /\ Coming /\ InputInv /\ Space /\ pc = "end"
    BY DEF IInv, EndStateless
  <1>2. /\ phase = 0 /\ phase \in 0..2 /\ (Live \/ block_state = "INPUT_DONE") /\ block_state \in States
        /\ block_state \notin {"HDR", "CHECKSUM_CHECK", "FINISH"}
        /\ ret = ISAL_DECOMP_OK => block_state = "INPUT_DONE"
    <2>1. phase = 0 /\ block_state \in States /\ ~AtUser
      BY <1>1 DEF Control, AtUser
    <2>2. (Live \/ block_state = "INPUT_DONE") /\ block_state # "HDR"
          /\ (ret = ISAL_DECOMP_OK => block_state = "INPUT_DONE")
      BY <1>1, <2>1 DEF Control
    <2>3. QED
      BY <2>1, <2>2 DEF Live, Working
  <1>3. PICK n : n = TowardsZero(read_in_length)
    OBVIOUS
  <1>4. PICK c : c = CheckTrailer(0, avail_in + n)
    OBVIOUS
  <1>5. /\ read_in_length' = 0
        /\ crc' = IF ret = ISAL_DECOMP_OK THEN SummedOutput ELSE crc
        /\ IF ret = ISAL_DECOMP_OK
           THEN /\ avail_in' = c.avail /\ tmp_in_size' = c.tmp_in
                /\ taken' = taken + avail_in - c.avail
                /\ pos' = Byte * ((pos + Byte - 1) \div Byte) + Byte * Trailer
                /\ block_state' = Finished(c.ret)
                /\ Return(Verdict(c.ret, SummedOutput, total_out))
           ELSE /\ avail_in' = avail_in + n /\ taken' = taken - n
                /\ Return(ret)
                /\ tmp_in_size' = tmp_in_size /\ pos' = pos /\ block_state' = block_state
        /\ got' = out
    BY <1>3, <1>4 DEF EndStateless
  <1>6. /\ tmp_out' = tmp_out /\ out' = out /\ total_out' = total_out /\ write_overflow' = write_overflow
        /\ copy_overflow' = copy_overflow /\ bfinal' = bfinal /\ type0_block_len' = type0_block_len
        /\ upcoming' = upcoming /\ items' = items /\ plain' = plain /\ phase' = phase /\ room' = room
        /\ dict' = dict /\ crc_flag' = crc_flag /\ buf_start' = buf_start
        /\ tmp_out_processed' = tmp_out_processed
    BY DEF EndStateless, output, call
  <1>7. crc' \in Nat /\ got' \in Seq(Int) /\ read_in_length' \in Int
    <2>1. crc \in Nat /\ Len(out) \in Nat /\ out \in Seq(Int)
      BY <1>1, Lengths DEF Types
    <2>2. SummedOutput \in Nat
      BY <2>1 DEF SummedOutput
    <2>3. QED
      BY <1>5, <2>1, <2>2
  <1>8. n \in Int
    <2>1. read_in_length \in Int
      BY <1>1 DEF Types
    <2>2. Byte \in Nat \ {0} /\ -read_in_length \in Int
      BY <2>1, Sizes
    <2>3. WholeBytes(read_in_length) \in Int /\ WholeBytes(-read_in_length) \in Int
      BY <2>1, <2>2 DEF WholeBytes
    <2>4. QED
      BY <1>3, <2>1, <2>3 DEF TowardsZero
  <1>9. ASSUME /\ avail_in' \in Int /\ tmp_in_size' \in Nat /\ pos' \in Int /\ taken' \in Int /\ ret' \in Rets
        PROVE  Types'
    BY <1>1, <1>6, <1>7, <1>9 DEF Types
  <1>10. ASSUME pc' = "stopped"
         PROVE  Space'
    <2>1. /\ tmp_out_processed <= Len(tmp_out) /\ Len(tmp_out) <= TmpSize /\ TmpSize' = TmpSize
          /\ Len(out) <= room
      BY <1>1, <1>2 DEF Space, TmpSize
    <2>2. QED
      BY <1>2, <1>6, <1>10, <2>1 DEF Space
  <1>11. CASE ret = ISAL_DECOMP_OK
    <2>1. /\ avail_in' = c.avail /\ tmp_in_size' = c.tmp_in
          /\ taken' = taken + avail_in - c.avail
          /\ pos' = Byte * ((pos + Byte - 1) \div Byte) + Byte * Trailer
          /\ block_state' = Finished(c.ret)
          /\ Return(Verdict(c.ret, SummedOutput, total_out))
      BY <1>5, <1>11
    <2>2. block_state' = IF c.ret = ISAL_END_INPUT THEN "CHECKSUM_CHECK" ELSE "FINISH"
      BY <2>1 DEF Finished
    <2>3. Trusted /\ block_state = "INPUT_DONE"
      BY <1>2, <1>11 DEF Trusted
    <2>4. c.ret = ISAL_END_INPUT => ret' # ISAL_DECOMP_OK
      <3>1. PICK v : v = Verdict(c.ret, SummedOutput, total_out)
        OBVIOUS
      <3>2. ret' = v /\ (v = c.ret \/ c.ret = ISAL_DECOMP_OK)
        BY <2>1, <3>1, VerdictType DEF Return
      <3>3. QED
        BY <3>2, CodesAre DEF Codes
    <2>5. /\ c.ret \in {ISAL_DECOMP_OK, ISAL_END_INPUT} /\ InputInv'
          /\ avail_in' \in Int /\ tmp_in_size' \in Nat /\ pos' \in Int /\ taken' \in Int
      BY <1>1, <1>2, <1>3, <1>4, <1>5, <1>6, <2>1, <2>2, <2>3, <2>4, EndInput
    <2>6. Control' /\ Coming' /\ ret' \in Rets /\ pc' = "stopped"
      BY <1>2, <1>6, <2>1, <2>5, TrailerControl
    <2>7. QED
      BY <1>9, <1>10, <2>5, <2>6 DEF IInv
  <1>12. CASE ret # ISAL_DECOMP_OK
    <2>1. /\ avail_in' = avail_in + n /\ taken' = taken - n /\ ret' = ret /\ pc' = "stopped"
          /\ tmp_in_size' = tmp_in_size /\ pos' = pos /\ block_state' = block_state
      BY <1>2, <1>5, <1>12 DEF Return
    <2>2. avail_in' \in Int /\ tmp_in_size' \in Nat /\ pos' \in Int /\ taken' \in Int /\ ret' \in Rets
      BY <1>1, <1>8, <2>1 DEF Types
    <2>3. Control'
      BY <1>2, <1>6, <2>1 DEF Control, AtUser
    <2>4. Coming'
      BY <1>1, <1>2, <1>6, <2>1 DEF Coming
    <2>5. InputInv'
      <3>1. ~Trusted'
        BY <1>2, <1>6, <1>12, <2>1 DEF Trusted
      <3>2. tmp_in_size' <= MaxHdr /\ (block_state' \notin {"HDR", "CHECKSUM_CHECK"} => tmp_in_size' = 0)
        BY <1>1, <2>1 DEF InputInv
      <3>3. QED
        BY <1>2, <2>1, <3>1, <3>2 DEF InputInv
    <2>6. QED
      BY <1>9, <1>10, <2>1, <2>2, <2>3, <2>4, <2>5 DEF IInv
  <1>13. QED
    BY <1>11, <1>12

-----------------------------------------------------------------------------
(* Every step keeps the invariant.                                         *)
LEMMA Inductive ==
  ASSUME IInv, [Next]_vars
  PROVE  IInv'
  <1>1. CASE Call
    BY <1>1, CallKeeps
  <1>2. CASE CallForTrailer
    BY <1>2, CallForTrailerKeeps
  <1>3. CASE ReadHeader
    BY <1>3, HeaderKeeps
  <1>4. CASE StoredBlock
    BY <1>4, StoredKeeps
  <1>5. CASE Group
    BY <1>5, GroupKeeps
  <1>6. CASE Deliver
    BY <1>6, DeliverKeeps
  <1>7. CASE Save
    BY <1>7, SaveKeeps
  <1>8. CASE CallStateless
    BY <1>8, CallStatelessKeeps
  <1>9. CASE ReadHeaderStateless
    BY <1>9, StatelessHeaderKeeps
  <1>10. CASE EndStateless
    BY <1>10, EndStatelessKeeps
  <1>11. CASE UNCHANGED vars
    BY <1>11, StutterKeeps
  <1>12. QED
    BY <1>1, <1>2, <1>3, <1>4, <1>5, <1>6, <1>7, <1>8, <1>9, <1>10, <1>11
       DEF Next, isal_inflate, isal_inflate_stateless

(* The inductive invariant: types, where a call stands, what is seen of the*)
(* stream, where its input is, and the room for its output.                *)
THEOREM InvHolds == Spec => []IInv
  <1>1. Init => IInv
    BY InitHolds
  <1>2. IInv /\ [Next]_vars => IInv'
    BY Inductive
  <1>3. QED
    BY <1>1, <1>2, PTL DEF Spec

(* No bit of the input is lost or decoded twice, and at the end of the     *)
(* stream next_in is just behind it: what inflate_in_load has taken ahead, *)
(* what read_header_stateful and the trailer save in tmp_in_buffer, and    *)
(* what is handed back are one count, however the calls cut the input.     *)
THEOREM InputAccountedHolds == Spec => []InputAccounted
  <1>1. IInv => InputAccounted
    BY DEF IInv, InputInv, Trusted, InputAccounted
  <1>2. QED
    BY <1>1, InvHolds, PTL

(* What overflows fits tmp_out_buffer behind its limit, with what          *)
(* store_le_u32 writes, and header and trailer bytes fit tmp_in_buffer;    *)
(* every count keeps its range: whatever the sizes of the calls, of the    *)
(* history and of the groups.                                              *)
THEOREM BuffersHoldHolds == Spec => []BuffersHold
  <1>1. ASSUME IInv
        PROVE  BuffersHold
    <2>1. Types /\ Control /\ InputInv /\ Space
      BY <1>1 DEF IInv
    <2>2. TypeOK
      <3>1. {tmp_in_size, tmp_out_processed, total_out, type0_block_len, room, items, dict, crc} \subseteq Nat
            /\ {pos, taken, buf_start} \subseteq Int
            /\ bfinal \in BOOLEAN /\ crc_flag \in DOMAIN TrailerLen /\ phase \in 0..2
        BY <2>1 DEF Types
      <3>2. IF phase = 0 THEN {avail_in, read_in_length} \subseteq Int
            ELSE avail_in \in Nat /\ read_in_length \in 0..(Byte * Word)
        BY <2>1 DEF Types, InputInv, Trusted
      <3>3. block_state \in {"NEW_HDR", "HDR", "TYPE0", "CODED", "INPUT_DONE", "CHECKSUM_CHECK", "FINISH"}
            /\ pc \in {"user", "decode", "deliver", "save", "end", "stopped"}
        BY <2>1 DEF Control, States, Working
      <3>4. ret \in {ISAL_DECOMP_OK, ISAL_END_INPUT, ISAL_OUT_OVERFLOW, ISAL_INVALID_BLOCK,
                     ISAL_INVALID_SYMBOL, ISAL_INVALID_LOOKBACK, ISAL_INCORRECT_CHECKSUM}
        BY <2>1 DEF Types, Rets
      <3>5. tmp_out_processed <= Len(tmp_out)
        BY <2>1 DEF Space
      <3>6. \A b \in {tmp_out, out, got, plain, write_overflow} : \A i \in DOMAIN b : b[i] \in Int
        <4>1. \A b \in Seq(Int) : \A i \in DOMAIN b : b[i] \in Int
          OBVIOUS
        <4>2. {tmp_out, out, got, plain, write_overflow} \subseteq Seq(Int)
          BY <2>1 DEF Types
        <4>3. QED
          BY <4>1, <4>2
      <3>7. QED
        BY <3>1, <3>2, <3>3, <3>4, <3>5, <3>6 DEF TypeOK
    <2>3. tmp_in_size <= MaxHdr /\ Len(tmp_out) <= TmpSize
      BY <2>1 DEF InputInv, Space
    <2>4. PICK t \in Nat, v \in Nat, h \in Nat, l \in Nat, st \in Nat :
            /\ t = Len(tmp_out) /\ v = Overflowed /\ h = HistSize /\ l = LookAhead /\ st = StoreSize
            /\ TmpSize = 2 * h + l /\ st <= l
      BY <2>1, Lengths, Sizes, StreamSizes
    <2>5. write_overflow # NoLits => Overflowed > 0
      <3>1. write_overflow \in Seq(Int) /\ copy_overflow.len \in Nat
        BY <2>1 DEF Types
      <3>2. write_overflow # <<>> => Len(write_overflow) > 0
        BY <3>1
      <3>3. Len(write_overflow) \in Nat
        BY <3>1
      <3>4. QED
        BY <3>1, <3>2, <3>3 DEF Overflowed, NoLits
    <2>6. ASSUME pc = "deliver"
          PROVE  /\ write_overflow # NoLits => Len(tmp_out) + StoreSize <= TmpSize
                 /\ Len(tmp_out) + Overflowed <= TmpSize
      <3>1. phase = 1 \/ phase = 2
        BY <2>1, <2>6 DEF Control, Types
      <3>2. /\ v > 0 => v + st <= l /\ t = 2 * h
            /\ t <= 2 * h + l
        BY <2>1, <2>3, <2>4, <2>6, <3>1 DEF Space
      <3>3. t + v <= 2 * h + l /\ (v > 0 => t + st <= 2 * h + l)
        BY <3>2
      <3>4. QED
        BY <2>4, <2>5, <3>3
    <2>7. ASSUME pc = "save"
          PROVE  /\ write_overflow # NoLits => Len(SaveHistory.tmp) + StoreSize <= TmpSize
                 /\ Len(SaveHistory.tmp) + Overflowed <= TmpSize
      BY <2>1, <2>5, <2>7, HistoryRoom
    <2>8. QED
      <3>1. pc \in {"deliver", "save"} =>
              LET b == IF pc = "deliver" THEN tmp_out ELSE SaveHistory.tmp
              IN /\ write_overflow # NoLits => Len(b) + StoreSize <= TmpSize
                 /\ Len(b) + Overflowed <= TmpSize
        BY <2>6, <2>7
      <3>2. QED
        BY <2>2, <2>3, <3>1 DEF BuffersHold
  <1>2. QED
    BY <1>1, InvHolds, PTL
==============================================================================
