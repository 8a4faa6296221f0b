--------------------------- MODULE InflateStream ---------------------------
(***************************************************************************)
(* isal_inflate over calls that bring any amount of input and of room for  *)
(* output.  A call decodes ahead of its user into tmp_out_buffer (phase 1) *)
(* as far as that goes, copies to the user what fits, and if that was all, *)
(* goes on decoding straight into the user's memory (phase 2).  A match    *)
(* finds its history in the buffer it is decoded into, so each call leaves *)
(* the last HistSize bytes in tmp_out_buffer for the next:                 *)
(*                                                                         *)
(*   Call -> (ReadHeader | StoredBlock | Group)* -> Deliver                *)
(*        -> (ReadHeader | StoredBlock | Group)* -> Save                   *)
(*                                                                         *)
(* isal_inflate_stateless decodes into the user's memory in one call.      *)
(*                                                                         *)
(* The compressed stream is made up as it is decoded: upcoming is what the *)
(* decoder has looked at and not accepted yet.  Input is counted: a byte   *)
(* has Byte bits, and read_in holds up to Word bytes.  Output bytes are    *)
(* known by where they come from: literal n > 0 is the n-th byte of the    *)
(* output, -n the n-th byte from the end of the dictionary, and 0 memory   *)
(* that holds neither.  The wrapper's header is in GzipHeader.             *)
(***************************************************************************)
EXTENDS Integers, SequencesExt

CONSTANTS
  Byte,             (* Bits in a byte.                                     *)
  Word,             (* Bytes read_in can hold.                             *)
  HistSize,         (* ISAL_DEF_HIST_SIZE.                                 *)
  LookAhead,        (* ISAL_LOOK_AHEAD.                                    *)
  MaxHdr,           (* ISAL_DEF_MAX_HDR_SIZE.                              *)
  LenBytes,         (* Bytes of LEN and NLEN in a stored block's header.   *)
  StoreSize,        (* Bytes store_le_u32 writes.                          *)
  TrailerLen,       (* crc_flag -> bytes of the trailer it asks for.       *)
  MaxCodeLen,       (* ISAL_DEF_MAX_CODE_LEN.                              *)
  Headers,          (* The block headers a stream may have.                *)
  Groups,           (* The groups of symbols one table lookup may find.    *)
  Matches,          (* The matches a group may end with.                   *)
  DictSizes,        (* crc_flag -> sizes of the dictionaries a user sets.  *)
  MaxItems,         (* Most headers and groups in a stream.                *)
  Chunks,           (* Sizes of the input a call may bring.                *)
  Rooms,            (* Sizes of the output buffer of a call.               *)
  Users,            (* Those who call isal_inflate, and those who call     *)
                    (* isal_inflate_stateless.                             *)
  MovesBuffer       (* Has each refill of the input another address?       *)

ISAL_DECOMP_OK        == 0
ISAL_END_INPUT        == 1
ISAL_OUT_OVERFLOW     == 2
ISAL_INVALID_BLOCK    == -1
ISAL_INVALID_SYMBOL   == -2
ISAL_INVALID_LOOKBACK == -3
ISAL_INCORRECT_CHECKSUM == -6

Junk   == 0
None   == [kind |-> "none"]
NoCopy == [len |-> 0, dist |-> 0]
NoLits == <<>>
TmpSize == 2 * HistSize + LookAhead        (* sizeof(state->tmp_out_buffer) *)

ASSUME InflateAssumption ==
  /\ {Byte, Word, HistSize, LookAhead, MaxHdr, LenBytes, StoreSize} \subseteq Nat \ {0}
  /\ MaxCodeLen \in Nat /\ MaxItems \in Nat \ {0}
  /\ \A f \in DOMAIN TrailerLen : TrailerLen[f] \in 0..Word
  /\ \A f \in DOMAIN TrailerLen : DictSizes[f] \subseteq 0..HistSize
  /\ Chunks \subseteq Nat \ {0} /\ Rooms \subseteq Nat \ {0}
  /\ Users \subseteq {"stream", "stateless"} /\ MovesBuffer \in BOOLEAN

(* The bits one load of read_in brings at least, if the input has them,    *)
(* and those a header takes.                                               *)
Loaded == Byte * (Word - 1) + 1
HeaderNeeds(h) == h.first + h.last + IF h.kind = "stored" THEN Byte * LenBytes ELSE 0

(* What the decoder relies on: no piece it reads is longer than what one   *)
(* load brings, every block header takes some bits and fits tmp_in_buffer, *)
(* as a trailer does, no distance is longer than the history, and a group, *)
(* its match, and what store_le_u32 writes fit behind the buffer's limit.  *)
ASSUME StreamAssumption ==
  /\ LenBytes < Word /\ StoreSize <= LookAhead /\ None \notin Groups
  /\ \A h \in Headers :
       /\ h.kind \in {"bad", "coded", "stored"} /\ h.final \in BOOLEAN /\ h.len \in Nat
       /\ {h.first, h.last} \subseteq 0..Loaded
       /\ HeaderNeeds(h) \in 1..(Byte * MaxHdr)
  /\ \A t \in DOMAIN Matches :
       LET m == Matches[t]
       IN /\ m.len \in Nat /\ m.dist \in 1..HistSize
          /\ m.code \in 0..MaxCodeLen /\ {m.code, m.extra} \subseteq 0..Loaded
  /\ \A g \in Groups :
       /\ g.tail \in DOMAIN Matches \cup {"none", "eob", "bad"} /\ g.bits \in 0..Loaded
       /\ g.lits \in Nat /\ g.lits + StoreSize <= LookAhead
       /\ g.tail \in DOMAIN Matches => g.lits + Matches[g.tail].len + StoreSize <= LookAhead
  /\ \A f \in DOMAIN TrailerLen :
       /\ TrailerLen[f] <= MaxHdr
       /\ f = "raw" => TrailerLen[f] = 0

VARIABLES
  (* struct inflate_state *)
  avail_in,         (* Below zero where C's wraps around.                  *)
  read_in_length,
  tmp_in_size,
  tmp_out,          (* tmp_out_buffer[0 .. tmp_out_valid - 1]              *)
  tmp_out_processed,
  total_out,
  block_state,
  bfinal,
  type0_block_len,
  write_overflow,   (* write_overflow_lits, write_overflow_len of them.    *)
  copy_overflow,
  crc,              (* Bytes of output in the checksum.                    *)
  crc_flag,
  (* locals of the call *)
  pc,
  phase,            (* Decoding into tmp_out_buffer (1) or user memory (2, *)
                    (* and 0 without state).                               *)
  room,             (* avail_out as the call began.                        *)
  out,              (* What the call has written to the user's memory.     *)
  ret,
  (* the stream, and history for the properties *)
  upcoming,
  items,            (* Headers and groups accepted.                        *)
  plain,            (* What the stream accepted so far decodes to.         *)
  dict,             (* Bytes of dictionary before it.                      *)
  got,              (* What the user has received.                         *)
  pos,              (* Bits of the stream accepted.                        *)
  taken,            (* next_in, counted from the start of the stream.      *)
  buf_start         (* Where the user's input buffer begins.               *)

input  == <<avail_in, read_in_length, tmp_in_size, pos, taken>>
output == <<tmp_out, out, total_out, write_overflow, copy_overflow>>
block  == <<block_state, bfinal, type0_block_len, upcoming, items, plain>>
call   == <<phase, room, dict, crc_flag, buf_start>>
sent   == <<tmp_out_processed, got, crc>>
vars   == <<input, output, block, call, sent, pc, ret>>

-----------------------------------------------------------------------------
(* Input.                                                                  *)

Least(a, b) == IF a < b THEN a ELSE b
Most(a, b)  == IF a > b THEN a ELSE b
WholeBytes(n) == n \div Byte

(* A reader: read_in_length, below zero once the input did not last, and   *)
(* avail_in.                                                               *)
Readers == [bits : Int, avail : Nat]

(* read_in is filled with all the whole bytes it has room for.             *)
inflate_in_load[r \in Readers] ==
  LET n == Most(0, Least(r.avail, Word - (r.bits + Byte - 1) \div Byte))
  IN [bits |-> r.bits + Byte * n, avail |-> r.avail - n]

(* The length is negative afterwards if the input did not last.            *)
ReadBitsUnsafe(n) == [r \in Readers |-> [r EXCEPT !.bits = @ - n]]
inflate_in_read_bits(r, n) == ReadBitsUnsafe(n)[inflate_in_load[r]]

(* What a header's bits turn out to be, and the reader after it.  They are *)
(* read in two pieces, each after a load; only at the end of one is it     *)
(* seen that there were not enough.                                        *)
ReadPieces(h) ==
  [r \in Readers |-> IF r.bits < 0 THEN r ELSE inflate_in_read_bits(r, h.last)]

Failed(r, why) == [ret |-> why, bits |-> r.bits, avail |-> r.avail]

(* LEN and NLEN begin on a byte boundary.                                  *)
ReadLen[r \in Readers] ==
  LET n == WholeBytes(r.bits)
  IN IF n < LenBytes THEN Failed(r, ISAL_END_INPUT)
     ELSE [ret |-> ISAL_DECOMP_OK, bits |-> Byte * (n - LenBytes), avail |-> r.avail]

HeaderRead(h) ==
  [r \in Readers |->
     IF r.bits < 0 THEN Failed(r, ISAL_END_INPUT)
     ELSE CASE h.kind = "bad"    -> Failed(r, ISAL_INVALID_BLOCK)
            [] h.kind = "coded"  -> Failed(r, ISAL_DECOMP_OK)
            [] h.kind = "stored" -> ReadLen[inflate_in_load[r]]]

read_header(r, h) == HeaderRead(h)[ReadPieces(h)[inflate_in_read_bits(r, h.first)]]

Reader == [bits |-> read_in_length, avail |-> avail_in]

(* Takes n bytes of the input through tmp_in_buffer, or saves there what   *)
(* there is of them.                                                       *)
fixed_size_read(tmp_in, avail, n) ==
  IF avail + tmp_in < n
  THEN [ret |-> ISAL_END_INPUT, tmp_in |-> tmp_in + avail, avail |-> 0]
  ELSE [ret |-> ISAL_DECOMP_OK, tmp_in |-> 0, avail |-> avail - (n - tmp_in)]

-----------------------------------------------------------------------------
(* Output.                                                                 *)

Cell(buf, i) == IF i \in 1..Len(buf) THEN buf[i] ELSE Junk

(* Copies n bytes from d bytes back, those it has just written too.        *)
byte_copy(buf, d, n) ==
  buf \o [i \in 1..n |-> Cell(buf, (Len(buf) - d + 1) + ((i - 1) % d))]

(* The bytes of literals: each is known by its place in the output.        *)
Literals(n) == [i \in 1..n |-> Len(plain) - dict + i]

Target == IF phase = 1 THEN tmp_out ELSE out
(* Mutant: the room for what overflows is decoded into as well.            *)
AvailOut_Mut == IF phase = 1 THEN Most(0, TmpSize - Len(tmp_out)) ELSE room - Len(out)

AvailOut == IF phase = 1 THEN Most(0, 2 * HistSize - Len(tmp_out)) ELSE room - Len(out)
SetTarget(b) ==
  IF phase = 1 THEN tmp_out' = b /\ UNCHANGED out ELSE out' = b /\ UNCHANGED tmp_out

BlockDone == IF bfinal THEN "INPUT_DONE" ELSE "NEW_HDR"
AfterLoop == CASE phase = 1 -> "deliver" [] phase = 2 -> "save" [] OTHER -> "end"

(* Mutant: the loop is left at the end of a block.                         *)
Continue_Mut(r, st) ==
  /\ ret' = r
  /\ pc' = IF r # ISAL_DECOMP_OK \/ st \in {"INPUT_DONE", "NEW_HDR"} THEN AfterLoop ELSE "decode"

(* The decoding loop goes on while nothing stops it.                       *)
Continue(r, st) ==
  /\ ret' = r
  /\ pc' = IF r # ISAL_DECOMP_OK \/ st = "INPUT_DONE" THEN AfterLoop ELSE "decode"

Invalid(r) == r < 0
Pending == Len(tmp_out) - tmp_out_processed

-----------------------------------------------------------------------------
(* The stream: a final block's header must come, and an end of block.      *)

LastItem == items >= MaxItems

HeaderChoices ==
  IF upcoming # None THEN {upcoming}
  ELSE {h \in Headers : LastItem => h.final}

GroupChoices ==
  IF upcoming # None THEN {upcoming}
  ELSE {g \in Groups : LastItem => g.tail = "eob"}

-----------------------------------------------------------------------------
(* The decoding loop.                                                      *)

Accept(bits) == pos' = pos + bits /\ upcoming' = None /\ items' = items + 1

(* An aligned header also drops the rest of its last byte.                 *)
HeaderBits(h) ==
  LET n == h.first + h.last
      aligned == ((pos + n + Byte - 1) \div Byte + LenBytes) * Byte
  IN IF h.kind = "stored" THEN aligned - pos ELSE n

(* read_header_stateful: with block_state HDR the header is read from      *)
(* tmp_in_buffer, which is filled from the input first.  If it does not    *)
(* end there, all the input is saved there for the next call.              *)
ReadHeader ==
  /\ pc = "decode" /\ phase # 0 /\ block_state \in {"NEW_HDR", "HDR"}
  /\ \E h \in HeaderChoices :
       LET again == block_state = "HDR"
           copied == Least(MaxHdr - tmp_in_size, avail_in)
           start == IF again THEN [Reader EXCEPT !.avail = tmp_in_size + copied] ELSE Reader
           r == read_header(start, h)
           bytes_read == IF again THEN Most(0, start.avail - r.avail - tmp_in_size)
                                  ELSE avail_in - r.avail
           stop == r.ret = ISAL_END_INPUT
           st == IF stop THEN "HDR" ELSE IF h.kind = "stored" THEN "TYPE0" ELSE "CODED"
       IN /\ IF stop
             THEN /\ tmp_in_size' = tmp_in_size + avail_in
                  /\ avail_in' = 0 /\ taken' = taken + avail_in
                  /\ upcoming' = h
                  /\ UNCHANGED <<read_in_length, pos, items>>
             ELSE /\ tmp_in_size' = 0
                  /\ avail_in' = avail_in - bytes_read /\ taken' = taken + bytes_read
                  /\ read_in_length' = r.bits
                  /\ Accept(HeaderBits(h))
          /\ block_state' = IF Invalid(r.ret) THEN block_state ELSE st
          /\ bfinal' = h.final
          /\ type0_block_len' = IF ~stop /\ h.kind = "stored" THEN h.len ELSE type0_block_len
          /\ Continue(r.ret, st)
  /\ UNCHANGED <<output, plain, call, sent>>

(* read_header in isal_inflate_stateless: nothing is put back.             *)
ReadHeaderStateless ==
  /\ pc = "decode" /\ phase = 0 /\ block_state = "NEW_HDR"
  /\ \E h \in HeaderChoices :
       LET r == read_header(Reader, h)
           ok == r.ret = ISAL_DECOMP_OK
       IN /\ read_in_length' = r.bits
          /\ avail_in' = r.avail /\ taken' = taken + avail_in - r.avail
          /\ IF ok THEN Accept(HeaderBits(h)) ELSE upcoming' = h /\ UNCHANGED <<pos, items>>
          /\ block_state' = IF ~ok THEN block_state
                            ELSE IF h.kind = "stored" THEN "TYPE0" ELSE "CODED"
          /\ bfinal' = h.final
          /\ type0_block_len' = IF ok /\ h.kind = "stored" THEN h.len ELSE type0_block_len
          /\ Continue(r.ret, block_state')
  /\ UNCHANGED <<tmp_in_size, output, plain, call, sent>>

(* decode_literal_block: the bytes in read_in come before the input's.     *)
StoredBlock ==
  /\ pc = "decode" /\ block_state = "TYPE0"
  /\ LET bytes == WholeBytes(read_in_length)
         len   == Least(type0_block_len, Least(AvailOut, avail_in + bytes))
         held  == Least(bytes, len)
         st    == IF len = type0_block_len THEN BlockDone ELSE "TYPE0"
         empty == avail_in + bytes = len /\ st # "INPUT_DONE"
         full  == AvailOut = len /\ len < type0_block_len
         r     == IF empty THEN ISAL_END_INPUT
                  ELSE IF full THEN ISAL_OUT_OVERFLOW ELSE ISAL_DECOMP_OK
     IN /\ SetTarget(Target \o Literals(len))
        /\ plain' = plain \o Literals(len)
        /\ total_out' = total_out + len
        /\ type0_block_len' = type0_block_len - len
        /\ read_in_length' = IF held = bytes THEN 0 ELSE read_in_length - Byte * held
        /\ avail_in' = avail_in - (len - held) /\ taken' = taken + (len - held)
        /\ pos' = pos + Byte * len
        /\ block_state' = st
        /\ Continue(r, st)
  /\ UNCHANGED <<tmp_in_size, write_overflow, copy_overflow, bfinal, upcoming, items, call, sent>>

(* The match that ends a group: the distance's code, then its extra bits.  *)
ReadExtra(m) ==
  [r \in Readers |-> IF r.bits < 0 THEN r ELSE inflate_in_read_bits(r, m.extra)]

ReadDistance(r, m) ==
  ReadExtra(m)[IF r.bits <= MaxCodeLen THEN inflate_in_read_bits(r, m.code)
                                       ELSE ReadBitsUnsafe(m.code)[r]]

(* One turn of decode_huffman_code_block_stateless: a group of literals    *)
(* and what ends it.  What does not fit is remembered; if the input does   *)
(* not hold all of it, everything but the loading of read_in is undone.    *)
Group ==
  /\ pc = "decode" /\ block_state = "CODED"
  /\ \E g \in GroupChoices :
       LET l == inflate_in_load[Reader]
           s == ReadBitsUnsafe(g.bits)[l]
           match == g.tail \notin {"none", "eob", "bad"}
           m == IF match THEN Matches[g.tail] ELSE [len |-> 0, dist |-> 1, code |-> 0, extra |-> 0]
           e == IF match /\ s.bits >= 0 THEN ReadDistance(s, m) ELSE s
           fits  == Least(g.lits, AvailOut)
           spill == g.lits - fits
           lits  == Literals(g.lits)
           buf   == Target \o SubSeq(lits, 1, fits)
           far   == match /\ m.dist > Len(buf)
           copied == IF match /\ ~far THEN Least(m.len, AvailOut - fits) ELSE 0
           left   == IF match /\ ~far THEN m.len - copied ELSE 0
           r == IF e.bits < 0 THEN ISAL_END_INPUT
                ELSE IF g.tail = "bad" THEN ISAL_INVALID_SYMBOL
                ELSE IF far THEN ISAL_INVALID_LOOKBACK
                ELSE IF spill > 0 \/ left > 0 THEN ISAL_OUT_OVERFLOW
                ELSE ISAL_DECOMP_OK
           stop == r = ISAL_END_INPUT
           kept == IF stop THEN l ELSE e
           st == IF ~stop /\ g.tail = "eob" THEN BlockDone ELSE "CODED"
       IN /\ read_in_length' = kept.bits
          /\ avail_in' = kept.avail /\ taken' = taken + avail_in - kept.avail
          /\ block_state' = st
          /\ Continue(r, st)
          /\ IF stop
             THEN /\ upcoming' = g
                  /\ write_overflow' = NoLits /\ copy_overflow' = NoCopy
                  /\ UNCHANGED <<tmp_out, out, total_out, pos, items, plain>>
             ELSE /\ pos' = pos + g.bits + m.code + m.extra /\ items' = items + 1
                  /\ upcoming' = IF Invalid(r) THEN g ELSE None
                  /\ SetTarget(byte_copy(buf, m.dist, copied))
                  /\ total_out' = total_out + fits + copied
                  /\ write_overflow' = SubSeq(lits, fits + 1, g.lits)
                  /\ copy_overflow' = IF left > 0 THEN [len |-> left, dist |-> m.dist] ELSE NoCopy
                  /\ plain' = byte_copy(plain \o lits, m.dist, IF far THEN 0 ELSE m.len)
  /\ UNCHANGED <<tmp_in_size, bfinal, type0_block_len, call, sent>>

-----------------------------------------------------------------------------
(* The call.                                                               *)

SummedOutput == crc + IF crc_flag = "raw" THEN 0 ELSE Len(out)

(* What did not fit is written behind the buffer's end, which has room.    *)
WithOverflow(b) == byte_copy(b \o write_overflow, Most(1, copy_overflow.dist), copy_overflow.len)
Overflowed == Len(write_overflow) + copy_overflow.len

NoOverflow == write_overflow' = NoLits /\ copy_overflow' = NoCopy

(* The trailer, from what is left of the input.                            *)
Trailer == TrailerLen[crc_flag]

(* check_gzip_checksum and check_zlib_checksum: whole bytes of read_in     *)
(* come first, and the rest of a byte is dropped.                          *)
CheckTrailer(bits, avail) ==
  LET n == WholeBytes(bits)
      f == fixed_size_read(tmp_in_size + n, avail, Trailer)
  IN IF Trailer = 0
     THEN [ret |-> ISAL_DECOMP_OK, bits |-> bits, tmp_in |-> tmp_in_size, avail |-> avail]
     ELSE IF n >= Trailer
     THEN [ret |-> ISAL_DECOMP_OK, bits |-> Byte * (n - Trailer), tmp_in |-> tmp_in_size, avail |-> avail]
     ELSE [ret |-> f.ret, bits |-> IF n > 0 THEN 0 ELSE bits, tmp_in |-> f.tmp_in, avail |-> f.avail]

(* The checksum covers the bytes crc counts.                               *)
Verdict(r, sum, total) ==
  IF r = ISAL_DECOMP_OK /\ Trailer > 0
     /\ (sum # Len(plain) - dict \/ (crc_flag = "gzip" /\ total # Len(plain) - dict))
  THEN ISAL_INCORRECT_CHECKSUM ELSE r

(* Mutant: the bytes left in read_in are not handed back.                  *)
Undo_Mut(c) == [c EXCEPT !.bits = 0]

(* After the trailer the whole bytes left in read_in are handed back.      *)
Undo(c) == [c EXCEPT !.avail = @ + WholeBytes(c.bits), !.bits = 0]

(* Mutant: without a trailer the end is not noted.                         *)
Finished_Mut(r) ==
  IF r = ISAL_END_INPUT THEN "CHECKSUM_CHECK" ELSE IF Trailer = 0 THEN "INPUT_DONE" ELSE "FINISH"

Finished(r) ==
  IF r = ISAL_END_INPUT THEN "CHECKSUM_CHECK" ELSE "FINISH"

Return(r) ==
  /\ pc' = IF Invalid(r) \/ phase = 0 THEN "stopped" ELSE "user"
  /\ ret' = r

(* The user brings input when the last is used up, and room for output.    *)
NewInput(n) ==
  /\ avail_in' = avail_in + n
  /\ buf_start' = IF MovesBuffer /\ n > 0 THEN taken ELSE buf_start

MayBring(n) == IF avail_in = 0 THEN n > 0 ELSE n = 0

Call ==
  /\ pc = "user" /\ phase # 0 /\ block_state \notin {"FINISH", "CHECKSUM_CHECK"}
  /\ \E n \in Chunks \cup {0}, s \in Rooms :
       /\ MayBring(n) \/ (n = 0 /\ Pending > 0)
       /\ NewInput(n)
       /\ room' = s
  /\ out' = <<>> /\ ret' = ISAL_DECOMP_OK
  /\ total_out' = total_out + Pending
  /\ IF Len(tmp_out) < 2 * HistSize
     THEN phase' = 1 /\ pc' = IF block_state = "INPUT_DONE" THEN "deliver" ELSE "decode"
     ELSE phase' = 2 /\ pc' = "deliver"
  /\ UNCHANGED <<read_in_length, tmp_in_size, pos, taken, tmp_out, write_overflow,
                 copy_overflow, block, dict, crc_flag, sent>>

(* A call that finds block_state CHECKSUM_CHECK only reads the trailer.    *)
CallForTrailer ==
  /\ pc = "user" /\ block_state = "CHECKSUM_CHECK"
  /\ \E n \in Chunks :
       /\ MayBring(n)
       /\ buf_start' = IF MovesBuffer THEN taken ELSE buf_start
       /\ LET c == CheckTrailer(read_in_length, n)
          IN /\ avail_in' = c.avail /\ taken' = taken + n - c.avail
             /\ tmp_in_size' = c.tmp_in /\ read_in_length' = c.bits
             /\ block_state' = Finished(c.ret)
             /\ pos' = IF c.ret = ISAL_DECOMP_OK THEN pos + Byte * Trailer ELSE pos
             /\ Return(Verdict(c.ret, crc, total_out))
  /\ out' = <<>>
  /\ UNCHANGED <<tmp_out, total_out, write_overflow, copy_overflow, bfinal, type0_block_len,
                 upcoming, items, plain, phase, room, dict, crc_flag, sent>>

(* Phase 1 is over: the user gets what fits of tmp_out_buffer.             *)
Deliver ==
  /\ pc = "deliver"
  /\ LET ahead == WithOverflow(tmp_out)
         n     == Least(Len(ahead) - tmp_out_processed, room)
         total == total_out + Overflowed
         now   == SubSeq(ahead, tmp_out_processed + 1, tmp_out_processed + n)
         all   == tmp_out_processed + n = Len(ahead)
     IN /\ tmp_out' = ahead
        /\ out' = now
        /\ tmp_out_processed' = tmp_out_processed + n
        /\ IF Invalid(ret)
           THEN /\ total_out' = total - (Len(ahead) - tmp_out_processed')
                /\ crc' = crc + IF crc_flag = "raw" THEN 0 ELSE n
                /\ got' = got \o now
                /\ Return(ret) /\ UNCHANGED phase
           ELSE /\ total_out' = total
                /\ phase' = 2
                /\ pc' = IF all /\ block_state # "INPUT_DONE" THEN "decode" ELSE "save"
                /\ UNCHANGED <<crc, got, ret>>
  /\ NoOverflow
  /\ UNCHANGED <<input, block, room, dict, crc_flag, buf_start>>

(* Mutant: what was decoded straight into the user's memory is forgotten.  *)
SaveHistory_Mut2 ==
  LET shift == Least(Len(tmp_out) - HistSize, tmp_out_processed)
  IN IF tmp_out_processed >= HistSize /\ block_state # "INPUT_DONE"
     THEN [tmp |-> SubSeq(tmp_out, shift + 1, Len(tmp_out)), processed |-> tmp_out_processed - shift]
     ELSE [tmp |-> tmp_out, processed |-> tmp_out_processed]

(* The history the next call needs: the end of the user's output, or what  *)
(* tmp_out_buffer has of it and the bytes the user has not got.            *)
SaveHistory ==
  LET valid == Len(tmp_out)
      shift == Least(valid - HistSize, tmp_out_processed)
  IN IF block_state = "INPUT_DONE" /\ Overflowed + valid <= TmpSize
     THEN [tmp |-> tmp_out, processed |-> tmp_out_processed]
     ELSE IF valid = tmp_out_processed /\ Len(out) >= HistSize
     THEN [tmp |-> SubSeq(out, Len(out) - HistSize + 1, Len(out)), processed |-> HistSize]
     ELSE IF tmp_out_processed >= HistSize
     THEN [tmp |-> SubSeq(tmp_out, shift + 1, valid), processed |-> tmp_out_processed - shift]
     ELSE [tmp |-> tmp_out, processed |-> tmp_out_processed]

(* The call ends; with all its output delivered, so does the stream.       *)
Save ==
  /\ pc = "save"
  /\ LET s == SaveHistory
         buf == WithOverflow(s.tmp)
         total == total_out + Overflowed
         pending == Len(buf) - s.processed
         ends == ~Invalid(ret) /\ block_state = "INPUT_DONE" /\ pending = 0
         c == CheckTrailer(read_in_length, avail_in)
         u == Undo(c)
     IN /\ tmp_out' = buf /\ tmp_out_processed' = s.processed
        /\ crc' = SummedOutput
        /\ got' = got \o out
        /\ total_out' = total - pending
        /\ IF ends
           THEN /\ read_in_length' = u.bits /\ avail_in' = u.avail
                /\ taken' = taken + avail_in - u.avail
                /\ tmp_in_size' = c.tmp_in
                /\ pos' = IF c.ret = ISAL_DECOMP_OK
                          THEN Byte * ((pos + Byte - 1) \div Byte + Trailer)
                          ELSE pos + (read_in_length % Byte)
                /\ block_state' = Finished(c.ret)
                /\ Return(Verdict(c.ret, SummedOutput, total))
           ELSE Return(ret) /\ UNCHANGED <<input, block_state>>
  /\ out' = <<>>
  /\ NoOverflow
  /\ UNCHANGED <<bfinal, type0_block_len, upcoming, items, plain, call>>

-----------------------------------------------------------------------------
(* isal_inflate_stateless.                                                 *)

CallStateless ==
  /\ pc = "user" /\ phase = 0
  /\ \E n \in Chunks, s \in Rooms : NewInput(n) /\ room' = s
  /\ pc' = "decode"
  /\ UNCHANGED <<read_in_length, tmp_in_size, pos, taken, output, block, phase, dict,
                 crc_flag, sent, ret>>

(* C's division: towards zero, of a length that may be negative.           *)
TowardsZero(n) == IF n >= 0 THEN WholeBytes(n) ELSE -WholeBytes(-n)

EndStateless ==
  /\ pc = "end"
  /\ LET n == TowardsZero(read_in_length)
         ok == ret = ISAL_DECOMP_OK
         c == CheckTrailer(0, avail_in + n)
     IN /\ read_in_length' = 0
        /\ crc' = IF ok THEN SummedOutput ELSE crc
        /\ IF ok
           THEN /\ avail_in' = c.avail /\ tmp_in_size' = c.tmp_in
                /\ taken' = taken + avail_in - c.avail
                /\ pos' = Byte * ((pos + Byte - 1) \div Byte) + Byte * Trailer
                /\ block_state' = Finished(c.ret)
                /\ Return(Verdict(c.ret, SummedOutput, total_out))
           ELSE /\ avail_in' = avail_in + n /\ taken' = taken - n
                /\ Return(ret)
                /\ UNCHANGED <<tmp_in_size, pos, block_state>>
  /\ got' = out
  /\ UNCHANGED <<output, bfinal, type0_block_len, upcoming, items, plain, tmp_out_processed, call>>

-----------------------------------------------------------------------------
DictCells(n) == [i \in 1..n |-> i - n - 1]

(* isal_inflate_init, isal_inflate_set_dict.                               *)
Init ==
  /\ avail_in = 0 /\ read_in_length = 0 /\ tmp_in_size = 0 /\ pos = 0 /\ taken = 0
  /\ crc_flag \in DOMAIN TrailerLen /\ crc = 0
  /\ \E u \in Users : phase = IF u = "stateless" THEN 0 ELSE 1
  /\ dict \in IF phase = 0 THEN {0} ELSE DictSizes[crc_flag]
  /\ tmp_out = DictCells(dict) /\ tmp_out_processed = dict /\ plain = DictCells(dict)
  /\ out = <<>> /\ total_out = 0 /\ write_overflow = NoLits /\ copy_overflow = NoCopy
  /\ block_state = "NEW_HDR" /\ bfinal = FALSE /\ type0_block_len = 0
  /\ upcoming = None /\ items = 0
  /\ room = 0 /\ got = <<>> /\ buf_start = 0
  /\ pc = "user" /\ ret = ISAL_DECOMP_OK

isal_inflate == Call \/ CallForTrailer \/ ReadHeader \/ StoredBlock \/ Group \/ Deliver \/ Save
isal_inflate_stateless == CallStateless \/ ReadHeaderStateless \/ EndStateless
Next == isal_inflate \/ isal_inflate_stateless

Spec == Init /\ [][Next]_vars /\ WF_vars(Next)

-----------------------------------------------------------------------------
(* Properties.                                                             *)

AtUser == pc \in {"user", "stopped"}
Received == IF phase = 0 THEN out ELSE IF AtUser THEN got ELSE got \o out

(* Every variable keeps its type.                                          *)
TypeOK ==
  /\ {tmp_in_size, tmp_out_processed, total_out, type0_block_len, room, items,
      dict, crc} \subseteq Nat
  /\ IF phase = 0 THEN {avail_in, read_in_length} \subseteq Int
     ELSE avail_in \in Nat /\ read_in_length \in 0..(Byte * Word)
  /\ {pos, taken, buf_start} \subseteq Int
  /\ block_state \in {"NEW_HDR", "HDR", "TYPE0", "CODED", "INPUT_DONE", "CHECKSUM_CHECK", "FINISH"}
  /\ bfinal \in BOOLEAN /\ crc_flag \in DOMAIN TrailerLen
  /\ pc \in {"user", "decode", "deliver", "save", "end", "stopped"} /\ phase \in 0..2
  /\ ret \in {ISAL_DECOMP_OK, ISAL_END_INPUT, ISAL_OUT_OVERFLOW, ISAL_INVALID_BLOCK,
             ISAL_INVALID_SYMBOL, ISAL_INVALID_LOOKBACK, ISAL_INCORRECT_CHECKSUM}
  /\ tmp_out_processed <= Len(tmp_out)
  /\ \A b \in {tmp_out, out, got, plain, write_overflow} : \A i \in DOMAIN b : b[i] \in Int

(* The user gets what the stream decodes to, each byte once and in order,  *)
(* whatever the calls bring: no match reads memory that is not history,    *)
(* and none the history that tmp_out_buffer was to keep has lost.          *)
OutputInOrder ==
  /\ IsPrefix(DictCells(dict) \o Received, plain)
  /\ \A i \in DOMAIN plain : plain[i] # Junk

(* Between calls total_out is what the user has received, not what was     *)
(* decoded ahead, after an error too; and all of it is in the checksum.    *)
TotalOutCounts ==
  AtUser => /\ total_out = Len(got)
            /\ (ret = ISAL_DECOMP_OK /\ crc_flag # "raw") => crc = Len(got)

(* No bit of the input is lost, or decoded twice: what next_in has passed  *)
(* is decoded, in read_in or in tmp_in_buffer.  At the end of the stream   *)
(* next_in is just behind it.                                              *)
InputAccounted ==
  /\ (phase = 0 => ret = ISAL_DECOMP_OK) =>
       Byte * taken = pos + read_in_length + Byte * tmp_in_size
  /\ block_state = "FINISH" => Byte * taken = pos

(* A stream is refused for what is wrong with it: a match farther back     *)
(* than all that was decoded, an unused code, a bad header.  A trailer     *)
(* that is right is not refused.  Without state a user's buffer that is    *)
(* too small is refused too, at times as a match too far back.             *)
TooSmall == phase = 0 /\ Len(plain) + type0_block_len > room

ErrorsAreReal ==
  pc = "stopped" =>
    CASE ret = ISAL_INVALID_LOOKBACK   -> Matches[upcoming.tail].dist > Len(plain) \/ TooSmall
      [] ret = ISAL_INVALID_SYMBOL     -> upcoming.tail = "bad"
      [] ret = ISAL_INCORRECT_CHECKSUM -> FALSE
      [] ret = ISAL_OUT_OVERFLOW       -> TooSmall
      [] OTHER -> TRUE

(* Output, its count and its checksum, and the verdict on the stream, are  *)
(* right whichever way the calls cut input and output.                     *)
DecodesStream == OutputInOrder /\ TotalOutCounts /\ ErrorsAreReal

(* Symbols of a group and a match that do not fit the output are put into  *)
(* tmp_out_buffer behind its limit, and header bytes into tmp_in_buffer:   *)
(* both have the room, and no count of what is left goes below zero.       *)
BuffersHold ==
  /\ TypeOK
  /\ tmp_in_size <= MaxHdr /\ Len(tmp_out) <= TmpSize
  /\ pc \in {"deliver", "save"} =>
       LET b == IF pc = "deliver" THEN tmp_out ELSE SaveHistory.tmp
       IN /\ write_overflow # NoLits => Len(b) + StoreSize <= TmpSize
          /\ Len(b) + Overflowed <= TmpSize

(* A call returns with its input used up or its output full (or the stream *)
(* at its end, or an error): the user who brings more is served.           *)
ReturnsForAReason ==
  [][pc = "save" /\ pc' = "user" =>
       avail_in' = 0 \/ Len(out) = room \/ block_state' = "FINISH"]_vars

(* A user who brings input and room while the stream is not at its end     *)
(* gets there, or learns what is wrong with it.                            *)
StreamEnds == <>(block_state = "FINISH" \/ pc = "stopped")

(* next_in and avail_in stay in the buffer the user gave.                  *)
InputInBuffer == AtUser => taken >= buf_start /\ avail_in >= 0
=============================================================================
