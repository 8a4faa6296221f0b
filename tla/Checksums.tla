----------------------------- MODULE Checksums -----------------------------
(***************************************************************************)
(* The checksums of crc/ and of igzip: CRCs by a table of 256 remainders,  *)
(* most or least significant bit first, with or without the complement of  *)
(* the seed and of the result, and Adler-32 in blocks, in the form with    *)
(* A - 1 that the streams keep.  A caller gives a text piece by piece.     *)
(* A CRC is the sequence of its two, four or eight bytes, the most         *)
(* significant first, at its width in the code.                            *)
(***************************************************************************)
EXTENDS Words, Sequences

CONSTANTS Seeds,         \* the byte that a caller's seed consists of
          CrcBytes, AdlerBytes,
          MaxText, Pieces,
          ADLER_MOD,     \* 65521 in the code
          MAX_ADLER_BUF  \* 2^28 in the code: B then stays below 2^64

VARIABLES sum,     \* "none" | "crc" | "adler": what is computed
          crc,     \* the member of Crcs
          seed,    \* what it started from
          text,    \* the bytes given so far
          value    \* the value that the last call returned

sumVars == <<sum, crc, seed, text, value>>

\* The polynomial of each CRC without its leading term.  The tables of the
\* code, two for a polynomial that is used in both directions, are Table.
Crc(poly, refl, invert) == [poly |-> poly, refl |-> refl, invert |-> invert]
IEEE     == <<4, 193, 29, 183>>
CASTAGNOLI == <<30, 220, 111, 65>>
ECMA     == <<66, 240, 225, 235, 169, 234, 54, 147>>
ISO      == <<0, 0, 0, 0, 0, 0, 0, 27>>
JONES    == <<173, 147, 210, 53, 148, 201, 53, 169>>
ROCKSOFT == <<173, 147, 210, 53, 148, 201, 54, 89>>

crc16_t10dif        == Crc(<<139, 183>>, FALSE, FALSE)
crc32_iscsi         == Crc(CASTAGNOLI, TRUE, FALSE)
crc32_ieee          == Crc(IEEE, FALSE, TRUE)
crc32_gzip_refl     == Crc(IEEE, TRUE, TRUE)
crc64_ecma_refl     == Crc(ECMA, TRUE, TRUE)
crc64_ecma_norm     == Crc(ECMA, FALSE, TRUE)
crc64_iso_refl      == Crc(ISO, TRUE, TRUE)
crc64_iso_norm      == Crc(ISO, FALSE, TRUE)
crc64_jones_refl    == Crc(JONES, TRUE, TRUE)
crc64_jones_norm    == Crc(JONES, FALSE, TRUE)
crc64_rocksoft_refl == Crc(ROCKSOFT, TRUE, TRUE)
crc64_rocksoft_norm == Crc(ROCKSOFT, FALSE, TRUE)

Crcs == {crc16_t10dif, crc32_iscsi, crc32_ieee, crc32_gzip_refl,
         crc64_ecma_refl, crc64_ecma_norm, crc64_iso_refl, crc64_iso_norm,
         crc64_jones_refl, crc64_jones_norm, crc64_rocksoft_refl, crc64_rocksoft_norm}

\* A concatenation makes TLC compute the bytes once and for all.
OfBytes(w)     == <<>> \o w
Complement(w)  == OfBytes([i \in DOMAIN w |-> 255 - w[i]])
XorBytes(v, w) == OfBytes([i \in DOMAIN v |-> Xor[v[i]][w[i]]])
Double(w) == OfBytes([i \in DOMAIN w |->
  ((2 * w[i]) % 256) + (IF i < Len(w) THEN w[i + 1] \div 128 ELSE 0)])
Half(w)   == OfBytes([i \in DOMAIN w |->
  (w[i] \div 2) + (IF i > 1 THEN 128 * (w[i - 1] % 2) ELSE 0)])
ReversedByte == [b \in Byte |->
  LET bits[n \in 0 .. 8] == IF n = 0 THEN 0 ELSE 2 * bits[n - 1] + ((b \div Power[n - 1]) % 2)
  IN  bits[8]]
Reversed(w) == OfBytes([i \in DOMAIN w |-> ReversedByte[w[Len(w) + 1 - i]]])

\* One bit of a division, from the top and from the bottom.
DivideNorm(poly, w) == IF w[1] >= 128 THEN XorBytes(Double(w), poly) ELSE Double(w)
DivideRefl(poly, w) == IF w[Len(w)] % 2 = 1 THEN XorBytes(Half(w), Reversed(poly)) ELSE Half(w)

\* The tables: the remainder of each byte.
Table(c) == [b \in Byte |->
  LET width == Len(c.poly)
      bits[n \in 0 .. 8] ==
        IF n = 0 THEN OfBytes([i \in 1 .. width |-> IF i = (IF c.refl THEN width ELSE 1) THEN b ELSE 0])
        ELSE IF c.refl THEN DivideRefl(c.poly, bits[n - 1]) ELSE DivideNorm(c.poly, bits[n - 1])
  IN  bits[8]]
Tables == [c \in Crcs |-> Table(c)]

NextNorm(c, w, b) == XorBytes(Append(Tail(w), 0), Tables[c][Xor[w[1]][b]])
NextRefl(c, w, b) ==
  XorBytes(<<0>> \o SubSeq(w, 1, Len(w) - 1), Tables[c][Xor[w[Len(w)]][b]])

CrcOf(c, init, buf) ==
  LET start == IF c.invert THEN Complement(init) ELSE init
      step[n \in 0 .. Len(buf)] ==
        IF n = 0 THEN start
        ELSE IF c.refl THEN NextRefl(c, step[n - 1], buf[n]) ELSE NextNorm(c, step[n - 1], buf[n])
  IN  IF c.invert THEN Complement(step[Len(buf)]) ELSE step[Len(buf)]

-----------------------------------------------------------------------------
\* A checksum is the pair of its halves, B above A.
AddByte(ab, byte) == [a |-> ab.a + byte, b |-> ab.b + ab.a + byte]
AddBytes(ab, bytes) ==
  LET step[n \in 0 .. Len(bytes)] == IF n = 0 THEN ab ELSE AddByte(step[n - 1], bytes[n])
      end == step[Len(bytes)]
  IN  [a |-> end.a % ADLER_MOD, b |-> end.b % ADLER_MOD]

adler32(ab, buf) ==
  LET blocks == IF buf = <<>> THEN 0 ELSE (Len(buf) - 1) \div MAX_ADLER_BUF
      step[n \in 0 .. blocks] ==
        IF n = 0 THEN ab
        ELSE AddBytes(step[n - 1], SubSeq(buf, (n - 1) * MAX_ADLER_BUF + 1, n * MAX_ADLER_BUF))
  IN  AddBytes(step[blocks], SubSeq(buf, blocks * MAX_ADLER_BUF + 1, Len(buf)))

isal_adler32_bam1(ab, buf) ==
  LET a   == IF ab.a = ADLER_MOD - 1 THEN 0 ELSE ab.a + 1
      new == adler32([ab EXCEPT !.a = a], buf)
  IN  [new EXCEPT !.a = IF new.a = 0 THEN ADLER_MOD - 1 ELSE new.a - 1]

finalize_adler32_Mut(ab) == [ab EXCEPT !.a = ab.a + 1]
finalize_adler32(ab) == [ab EXCEPT !.a = (ab.a + 1) % ADLER_MOD]

-----------------------------------------------------------------------------
InitSums == sum = "none" /\ crc = <<>> /\ seed = <<>> /\ text = <<>> /\ value = <<>>

StartCrc == \E c \in Crcs, s \in Seeds :
  /\ sum = "none"
  /\ sum' = "crc" /\ crc' = c
  /\ seed' = OfBytes([i \in DOMAIN c.poly |-> s]) /\ value' = seed'
  /\ UNCHANGED text

StartAdler ==
  /\ sum = "none"
  /\ sum' = "adler" /\ value' = [a |-> 0, b |-> 0]
  /\ UNCHANGED <<crc, seed, text>>

\* One call with the next piece, from what the last call returned.
GivePiece(bytes, f(_)) == \E n \in Pieces : \E piece \in [1 .. n -> bytes] :
  /\ Len(text) + n <= MaxText
  /\ text' = text \o piece
  /\ value' = f(piece)
  /\ UNCHANGED <<sum, crc, seed>>

UpdateCrc   == sum = "crc" /\ GivePiece(CrcBytes, LAMBDA piece : CrcOf(crc, value, piece))
UpdateAdler == sum = "adler" /\ GivePiece(AdlerBytes, LAMBDA piece : isal_adler32_bam1(value, piece))

SumsNext == StartCrc \/ StartAdler \/ UpdateCrc \/ UpdateAdler

-----------------------------------------------------------------------------
\* The bits of the text in the order of transmission, divided one by one.
BitOf(c, n) == LET b == text[1 + n \div 8]
               IN  IF c.refl THEN (b \div Power[n % 8]) % 2 ELSE (b \div Power[7 - (n % 8)]) % 2
DivideBit(c, rest, bit) ==
  IF (rest[1] >= 128) = (bit = 1) THEN Double(rest) ELSE XorBytes(Double(rest), c.poly)
LongDivision(c) ==
  LET plain == IF c.invert THEN Complement(seed) ELSE seed
      rest[n \in 0 .. 8 * Len(text)] ==
        IF n = 0 THEN IF c.refl THEN Reversed(plain) ELSE plain
        ELSE DivideBit(c, rest[n - 1], BitOf(c, n - 1))
      end == rest[8 * Len(text)]
      result == IF c.refl THEN Reversed(end) ELSE end
  IN  IF c.invert THEN Complement(result) ELSE result

\* However a text is cut into calls, each started from the last result, the
\* tables give the remainder of the whole text divided bit by bit: the
\* complements at the two ends of a call cancel between two calls.
CrcOfAllPieces == sum = "crc" => value = LongDivision(crc)

\* However a text is cut into calls, and a call into blocks, the sums kept
\* with A - 1 give the Adler-32 of the whole text when the stream ends, and
\* start from zero as a CRC does.
AdlerOfAllPieces ==
  sum = "adler" =>
    LET a[n \in 0 .. Len(text)] == IF n = 0 THEN 1 ELSE a[n - 1] + text[n]
        b[n \in 0 .. Len(text)] == IF n = 0 THEN 0 ELSE b[n - 1] + a[n]
    IN  finalize_adler32(value) = [a |-> a[Len(text)] % ADLER_MOD, b |-> b[Len(text)] % ADLER_MOD]

\* Both kinds of sums do not depend on how a text is cut into calls.
SumsOfAllPieces == CrcOfAllPieces /\ AdlerOfAllPieces
=============================================================================
