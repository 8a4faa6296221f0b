--------------------------- MODULE DeflateStream ---------------------------
(***************************************************************************)
(* isal_deflate at level 0: the streaming state machine of igzip.c and     *)
(* igzip_base.c, called again and again with whatever output room the user *)
(* has.  One call of isal_deflate is the sequence                          *)
(*                                                                         *)
(*   Call -> Drain -> a pass -> (a second pass into tmp_out_buff) -> Return *)
(*                                                                         *)
(* and a pass runs write_header, isal_deflate_body, isal_deflate_finish,   *)
(* sync_flush, the checksum and write_trailer in that order, each if       *)
(* internal_state.state asks for it.  A library call is sequential; pc     *)
(* says which of these comes next.                                         *)
(*                                                                         *)
(* Bytes and bits are counted, not spelled out.  Input is smaller than     *)
(* IGZIP_HIST_SIZE, so internal_state.buffer always has room for it.       *)
(***************************************************************************)
EXTENDS Integers

CONSTANTS
  GzipFlags,        (* Values of gzip_flag the user may choose.            *)
  HuffTables,       (* Tables for isal_deflate_set_hufftables: bytes and   *)
                    (* then bits of the block header, bits of the code of  *)
                    (* end of block.                                       *)
  LitBits,          (* Lengths of a literal's code.                        *)
  MatchBits,        (* Lengths of a match's code.                          *)
  MatchLen,         (* Input bytes a match stands for.                     *)
  LookAhead,        (* ISAL_LOOK_AHEAD.                                    *)
  OutSizes,         (* Output room a call may come with.                   *)
  Flushes,          (* Values of stream->flush the user may choose.        *)
  MaxIn,            (* Most bytes one stream is given.                     *)
  FeedMidFlush,     (* May the user add input, or ask for something else,  *)
                    (* before a flush it asked for is complete?            *)
  AllowReset

NO_FLUSH   == 0
SYNC_FLUSH == 1
FULL_FLUSH == 2

TmpSize == 16       (* sizeof(tmp_out_buff)                                *)
Slop    == 8        (* The bit buffer stores 8 bytes wherever it stands.   *)

(* A code is stored whole: with up to 7 bits waiting it fits in m_bits.    *)
CodeBits == 1..56

ASSUME DeflateAssumption ==
  /\ GzipFlags \subseteq {"raw", "gzip", "gzip_no_hdr", "zlib", "zlib_no_hdr"}
  /\ HuffTables \subseteq [hdr : Nat, extra : 0..7, eob : 1..15]
  /\ LitBits \subseteq CodeBits /\ MatchBits \subseteq CodeBits
  /\ MatchLen \in Nat \ {0} /\ LookAhead \in Nat /\ LookAhead >= MatchLen
  /\ OutSizes \subseteq Nat /\ MaxIn \in Nat
  /\ Flushes \subseteq {NO_FLUSH, SYNC_FLUSH, FULL_FLUSH}
  /\ FeedMidFlush \in BOOLEAN /\ AllowReset \in BOOLEAN

VARIABLES
  (* struct isal_zstream *)
  avail_in,
  avail_out,
  flush,
  end_of_stream,
  hufftables,
  gzip_flag,
  (* struct isal_zstate *)
  state,            (* Without its TMP_ prefix.                            *)
  tmp,              (* state >= ZSTATE_TMP_OFFSET: tmp_out_buff holds      *)
                    (* output of an earlier call.                          *)
  count,            (* Bytes of a header written so far.                   *)
  bitcount,         (* bitbuf.m_bit_count                                  *)
  has_wrap_hdr,
  has_eob_hdr,
  has_hist,
  tmp_out_start, tmp_out_end,
  crc,              (* Input bytes the checksum covers.                    *)
  buffered,         (* b_bytes_valid - b_bytes_processed                   *)
  kept,             (* b_bytes_processed > 0: history in the buffer.       *)
  (* locals of the call *)
  pc,
  internal,         (* Is the input read from the buffer?                  *)
  took,             (* Has this call coded any input?                      *)
  start_in,         (* coded, when the pass began.                         *)
  second,           (* Is this the pass into tmp_out_buff?                 *)
  user_out,         (* avail_out, saved during that pass.                  *)
  (* history, for the properties *)
  coded,            (* Input bytes coded.                                  *)
  phase, final,     (* As in DeflateFormat.                                *)
  undelivered,      (* Bytes produced that the user has not got.           *)
  sealed,           (* A full flush is complete, and the matches that      *)
                    (* could reach behind it have not been forgotten yet.  *)
  overrun           (* A store went past the end of the output.            *)

userVars == <<flush, end_of_stream, hufftables, gzip_flag>>
hdrVars  == <<count, has_wrap_hdr, has_eob_hdr>>
tmpVars  == <<tmp, tmp_out_start, tmp_out_end>>
inVars   == <<avail_in, has_hist, took, coded>>
bufVars  == <<buffered, kept, internal, sealed>>
passVars == <<start_in, second, user_out>>
fmtVars  == <<phase, final>>
outVars  == <<avail_out, bitcount, undelivered, overrun>>
vars == <<userVars, hdrVars, tmpVars, inVars, bufVars, passVars, fmtVars,
          outVars, state, crc, pc>>

Least(a, b) == IF a <= b THEN a ELSE b

WrapBytes == CASE gzip_flag = "gzip" -> 10 [] gzip_flag = "zlib" -> 2 [] OTHER -> 0
TrailerBytes ==
  CASE gzip_flag \in {"gzip", "gzip_no_hdr"} -> 8
    [] gzip_flag \in {"zlib", "zlib_no_hdr"} -> 4
    [] OTHER -> 0

(* Output: n bytes copied, or bits put through the bit buffer, which       *)
(* stores 8 bytes and keeps the last incomplete one.                       *)
Copy(n) ==
  /\ avail_out' = avail_out - n
  /\ undelivered' = IF second THEN undelivered + n ELSE undelivered

Store(bytes, bits) ==
  /\ Copy(bytes)
  /\ bitcount' = bits
  /\ overrun' = (overrun \/ avail_out < Slop)

write_bits(n) == Store((bitcount + n) \div 8, (bitcount + n) % 8)
flush_bitbuf  == Store(1, 0)

(* The room of write_bits: set_buf puts m_out_end 8 bytes before the end.  *)
is_full_Mut == avail_out = 0

is_full == avail_out < Slop

-----------------------------------------------------------------------------
(* Init: isal_deflate_init, after which the user has set gzip_flag and the *)
(* tables.                                                                 *)
FreshStream ==
  /\ state' = "NEW_HDR" /\ count' = 0 /\ bitcount' = 0
  /\ has_wrap_hdr' = FALSE /\ has_eob_hdr' = FALSE /\ has_hist' = FALSE
  /\ tmp' = FALSE /\ tmp_out_start' = 0 /\ tmp_out_end' = 0
  /\ crc' = 0 /\ buffered' = 0 /\ kept' = FALSE
  /\ coded' = 0 /\ phase' = (IF WrapBytes > 0 THEN "wrapper" ELSE "between")
  /\ final' = FALSE /\ undelivered' = 0 /\ sealed' = FALSE

Init ==
  /\ avail_in = 0 /\ avail_out = 0
  /\ flush = NO_FLUSH /\ end_of_stream = FALSE
  /\ hufftables \in HuffTables /\ gzip_flag \in GzipFlags
  /\ state = "NEW_HDR" /\ count = 0 /\ bitcount = 0
  /\ has_wrap_hdr = FALSE /\ has_eob_hdr = FALSE /\ has_hist = FALSE
  /\ tmp = FALSE /\ tmp_out_start = 0 /\ tmp_out_end = 0
  /\ crc = 0 /\ buffered = 0 /\ kept = FALSE
  /\ pc = "idle" /\ internal = FALSE /\ took = FALSE
  /\ start_in = 0 /\ second = FALSE /\ user_out = 0
  /\ coded = 0 /\ phase = (IF WrapBytes > 0 THEN "wrapper" ELSE "between")
  /\ final = FALSE /\ undelivered = 0 /\ sealed = FALSE /\ overrun = FALSE

(* The first step of a pass in this state.                                 *)
Stage(st) ==
  CASE st \in {"NEW_HDR", "HDR"}  -> "header"
    [] st = "BODY"                -> "body"
    [] st = "FLUSH_READ_BUFFER"   -> "finish"
    [] st = "SYNC_FLUSH"          -> "sync"
    [] st \in {"TRL", "END"}      -> "sum"

-----------------------------------------------------------------------------
(* The user, between calls.                                                *)

Unprocessed == avail_in + buffered
given == coded + Unprocessed

(* What igzip_lib.h says shows that a flush is complete: output room is    *)
(* left, or the state is ZSTATE_NEW_HDR.                                   *)
Ended == state = "END" /\ ~tmp

FlushComplete == avail_out # 0 \/ (state = "NEW_HDR" /\ ~tmp)

MayAsk(n, f, eos) ==
  /\ end_of_stream => n = 0 /\ eos
  /\ FeedMidFlush \/ flush = NO_FLUSH \/ FlushComplete \/
     (n = 0 /\ f = flush /\ eos = end_of_stream)

(* Entry of isal_deflate.  With no history it forgets the hash table       *)
(* (reset_match_history), and what history the buffer kept.  Input goes to *)
(* the buffer if anything of use is there already (hist_size or            *)
(* buffered_size is not 0); if nothing is to be flushed, that is all.      *)
WithHistory(n, f, eos) ==
  /\ kept /\ has_hist
  /\ Unprocessed + n > 0 \/ ~(eos \/ f = FULL_FLUSH)

BufferOnly_Mut(n, f, eos) == (buffered > 0 \/ WithHistory(n, f, eos)) /\ ~eos

BufferOnly(n, f, eos) ==
  (buffered > 0 \/ WithHistory(n, f, eos)) /\ ~eos /\ f = NO_FLUSH

reset_match_history == sealed' = (sealed /\ has_hist)

Call ==
  /\ pc = "idle" /\ ~Ended
  /\ \E n \in 0..(MaxIn - given), room \in OutSizes, f \in Flushes, eos \in BOOLEAN :
       /\ MayAsk(n, f, eos)
       /\ flush' = f /\ end_of_stream' = eos
       /\ avail_out' = room
       /\ kept' = WithHistory(n, f, eos)
       /\ internal' = (~BufferOnly(n, f, eos) /\ (buffered > 0 \/ WithHistory(n, f, eos)))
       /\ IF BufferOnly(n, f, eos)
            THEN buffered' = Unprocessed + n /\ avail_in' = 0 /\ pc' = "idle"
            ELSE avail_in' = Unprocessed + n /\ buffered' = 0 /\ pc' = "drain"
  /\ reset_match_history
  /\ UNCHANGED <<hdrVars, tmpVars, passVars, fmtVars, hufftables, gzip_flag,
                 state, bitcount, crc, has_hist, took, coded, undelivered, overrun>>

isal_deflate_set_hufftables ==
  /\ pc = "idle" /\ state = "NEW_HDR" /\ ~tmp
  /\ hufftables' \in HuffTables
  /\ UNCHANGED <<flush, end_of_stream, gzip_flag, hdrVars, tmpVars, inVars, bufVars,
                 passVars, fmtVars, outVars, state, crc, pc>>

(* The user starts over, with new buffers.                                 *)
isal_deflate_reset ==
  /\ AllowReset /\ pc = "idle"
  /\ FreshStream
  /\ avail_in' = 0 /\ avail_out' = 0
  /\ flush' = NO_FLUSH /\ end_of_stream' = FALSE
  /\ UNCHANGED <<hufftables, gzip_flag, passVars, took, internal, overrun, pc>>

-----------------------------------------------------------------------------
(* isal_deflate_int, before the pass: output of an earlier call that is    *)
(* still in tmp_out_buff goes first.                                       *)

StartPass == pc' = Stage(state) /\ start_in' = coded

DrainReturns_Mut(room, left) == state = "END" /\ left = 0

DrainReturns(room, left) == room = 0 \/ (state = "END" /\ left = 0)

Drain ==
  /\ pc = "drain"
  /\ IF tmp
       THEN LET size == Least(tmp_out_end - tmp_out_start, avail_out)
                left == tmp_out_end - tmp_out_start - size
            IN /\ avail_out' = avail_out - size
               /\ undelivered' = undelivered - size
               /\ tmp_out_start' = tmp_out_start + size
               /\ tmp' = (left > 0)
               /\ IF DrainReturns(avail_out - size, left)
                    THEN pc' = "return" /\ UNCHANGED start_in
                    ELSE StartPass
       ELSE StartPass /\ UNCHANGED <<avail_out, undelivered, tmp_out_start, tmp>>
  /\ UNCHANGED <<userVars, hdrVars, inVars, bufVars, fmtVars, tmp_out_end, second,
                 user_out, bitcount, overrun, state, crc>>

-----------------------------------------------------------------------------
(* write_header, in four steps.  It returns in ZSTATE_HDR while its work   *)
(* is unfinished, and the rest of the pass has nothing to do.              *)

WriteHeaderAlign ==
  /\ pc = "header"
  /\ has_eob_hdr' = (has_eob_hdr \/ count = 0)
  /\ state' = "HDR"
  /\ \/ /\ bitcount # 0 /\ avail_out < 8
        /\ pc' = "sum"
        /\ UNCHANGED <<outVars, phase>>
     \/ /\ bitcount # 0 /\ avail_out >= 8
        /\ flush_bitbuf
        /\ phase' = "padded"
        /\ pc' = "wrap"
     \/ /\ bitcount = 0
        /\ pc' = "wrap"
        /\ UNCHANGED <<outVars, phase>>
  /\ UNCHANGED <<userVars, tmpVars, inVars, bufVars, passVars, final, count,
                 has_wrap_hdr, crc>>

write_stream_header ==
  /\ pc = "wrap"
  /\ IF WrapBytes > 0 /\ ~has_wrap_hdr
       THEN LET n == Least(WrapBytes - count, avail_out)
                done == count + n = WrapBytes
            IN /\ Copy(n)
               /\ count' = (IF done THEN 0 ELSE count + n)
               /\ has_wrap_hdr' = done
               /\ phase' = (IF done THEN "between" ELSE phase)
       ELSE UNCHANGED <<avail_out, undelivered, count, has_wrap_hdr, phase>>
  /\ pc' = "hdr"
  /\ UNCHANGED <<userVars, tmpVars, inVars, bufVars, passVars, final, bitcount,
                 overrun, has_eob_hdr, state, crc>>

(* hufftables holds a final block's header; its first bit is toggled       *)
(* unless the input ends here.  What is left is unsigned: with the wrapper *)
(* unfinished, count may exceed the header.                                *)
HeaderRest == hufftables.hdr - count
HeaderCopy ==
  IF HeaderRest < 0 THEN avail_out ELSE Least(HeaderRest, avail_out)
FirstByte == count = 0 /\ HeaderCopy > 0
TogglesFinal_Mut == ~end_of_stream /\ (HeaderCopy > 0 \/ hufftables.hdr = 0)

TogglesFinal ==
  ~end_of_stream /\ (FirstByte \/ (HeaderRest = 0 /\ hufftables.hdr = 0))

WriteDeflateHeader ==
  /\ pc = "hdr"
  /\ Copy(HeaderCopy)
  /\ count' = count + HeaderCopy
  /\ has_eob_hdr' = IF TogglesFinal THEN ~has_eob_hdr ELSE has_eob_hdr
  /\ IF FirstByte
       THEN phase' = "header" /\ final' = ~TogglesFinal
       ELSE UNCHANGED fmtVars
  /\ pc' = IF HeaderRest = HeaderCopy /\ avail_out' >= 8 THEN "hdrbits" ELSE "sum"
  /\ UNCHANGED <<userVars, tmpVars, inVars, bufVars, passVars, bitcount, overrun,
                 has_wrap_hdr, state, crc>>

WriteHeaderBits ==
  /\ pc = "hdrbits"
  /\ write_bits(hufftables.extra)
  /\ state' = "BODY" /\ count' = 0
  /\ phase' = "block"
  /\ final' = IF hufftables.hdr = 0 THEN end_of_stream ELSE final
  /\ pc' = "body"
  /\ UNCHANGED <<userVars, tmpVars, inVars, bufVars, passVars, has_wrap_hdr,
                 has_eob_hdr, crc>>

-----------------------------------------------------------------------------
(* isal_deflate_body and isal_deflate_finish.                              *)

Flushing == end_of_stream \/ flush # NO_FLUSH

(* A literal, or a match with input coded since history was last reset.    *)
Symbols ==
  {<<1, bits>> : bits \in LitBits} \cup
  {<<MatchLen, bits>> : bits \in IF has_hist /\ avail_in >= MatchLen THEN MatchBits ELSE {}}

Encode(symbol) ==
  /\ avail_in' = avail_in - symbol[1]
  /\ coded' = coded + symbol[1]
  /\ has_hist' = TRUE /\ took' = TRUE
  /\ write_bits(symbol[2])

BodySymbol ==
  /\ pc = "body" /\ avail_in > LookAhead /\ ~is_full
  /\ \E symbol \in Symbols : Encode(symbol)
  /\ UNCHANGED <<userVars, hdrVars, tmpVars, bufVars, passVars, fmtVars, state, crc, pc>>

BodyFull ==
  /\ pc = "body" /\ avail_in > LookAhead /\ is_full
  /\ pc' = "sum"
  /\ UNCHANGED <<userVars, hdrVars, tmpVars, inVars, bufVars, passVars, fmtVars,
                 outVars, state, crc>>

BodyDone ==
  /\ pc = "body" /\ avail_in <= LookAhead
  /\ state' = IF Flushing THEN "FLUSH_READ_BUFFER" ELSE "BODY"
  /\ pc' = IF Flushing THEN "finish" ELSE "sum"
  /\ UNCHANGED <<userVars, hdrVars, tmpVars, inVars, bufVars, passVars, fmtVars,
                 outVars, crc>>

FinishSymbol ==
  /\ pc = "finish" /\ avail_in > 0 /\ ~is_full
  /\ \E symbol \in Symbols : Encode(symbol)
  /\ UNCHANGED <<userVars, hdrVars, tmpVars, bufVars, passVars, fmtVars, state, crc, pc>>

FinishFull ==
  /\ pc = "finish" /\ is_full
  /\ pc' = "sum"
  /\ UNCHANGED <<userVars, hdrVars, tmpVars, inVars, bufVars, passVars, fmtVars,
                 outVars, state, crc>>

FinishEob ==
  /\ pc = "finish" /\ avail_in = 0 /\ ~is_full
  /\ write_bits(hufftables.eob)
  /\ phase' = "between"
  /\ state' = IF end_of_stream THEN "TRL" ELSE "SYNC_FLUSH"
  /\ pc' = Stage(state')
  /\ UNCHANGED <<userVars, hdrVars, tmpVars, inVars, bufVars, passVars, final, crc>>

-----------------------------------------------------------------------------
(* sync_flush: an empty stored block, 3 bits of header, padding to a byte, *)
(* and its length twice.                                                   *)

MarkerPad == (8 - ((bitcount + 3) % 8)) % 8

KeepsHistory_Mut == has_hist

KeepsHistory == has_hist /\ flush # FULL_FLUSH

sync_flush ==
  /\ pc = "sync"
  /\ IF avail_out >= 8
       THEN /\ write_bits(3 + MarkerPad + 32)
            /\ phase' = IF bitcount' = 0 THEN "aligned" ELSE "garbage"
            /\ state' = "NEW_HDR"
            /\ has_hist' = KeepsHistory
       ELSE UNCHANGED <<outVars, phase, state, has_hist>>
  /\ pc' = "sum"
  /\ UNCHANGED <<userVars, hdrVars, tmpVars, avail_in, took, coded, bufVars,
                 passVars, final, crc>>

update_checksum ==
  /\ pc = "sum"
  /\ crc' = IF gzip_flag = "raw" THEN crc ELSE crc + (coded - start_in)
  /\ pc' = IF state = "TRL" THEN "final" ELSE "passed"
  /\ UNCHANGED <<userVars, hdrVars, tmpVars, inVars, bufVars, passVars, fmtVars,
                 outVars, state>>

-----------------------------------------------------------------------------
(* write_trailer, in three steps: a final block if the last one was not    *)
(* marked so, padding, and the trailer.                                    *)

WriteFinalBlock ==
  /\ pc = "final"
  /\ \/ /\ has_eob_hdr
        /\ pc' = "pad"
        /\ UNCHANGED <<outVars, fmtVars, has_eob_hdr>>
     \/ /\ ~has_eob_hdr /\ avail_out < 8
        /\ pc' = "passed"
        /\ UNCHANGED <<outVars, fmtVars, has_eob_hdr>>
     \/ /\ ~has_eob_hdr /\ avail_out >= 8
        /\ write_bits(10)
        /\ has_eob_hdr' = TRUE
        /\ final' = TRUE
        /\ phase' = IF final THEN "garbage" ELSE "between"
        /\ pc' = IF avail_out' < Slop THEN "passed" ELSE "pad"
  /\ UNCHANGED <<userVars, tmpVars, inVars, bufVars, passVars, count,
                 has_wrap_hdr, state, crc>>

WritePadding ==
  /\ pc = "pad"
  /\ \/ /\ bitcount = 0
        /\ pc' = "trailer"
        /\ UNCHANGED <<outVars, phase>>
     \/ /\ bitcount # 0 /\ avail_out < 8
        /\ pc' = "passed"
        /\ UNCHANGED <<outVars, phase>>
     \/ /\ bitcount # 0 /\ avail_out >= 8
        /\ flush_bitbuf
        /\ phase' = "padded"
        /\ pc' = "trailer"
  /\ UNCHANGED <<userVars, hdrVars, tmpVars, inVars, bufVars, passVars, final,
                 state, crc>>

WriteTrailer ==
  /\ pc = "trailer"
  /\ IF avail_out >= TrailerBytes
       THEN /\ Copy(TrailerBytes)
            /\ phase' = "done"
            /\ state' = "END"
       ELSE UNCHANGED <<avail_out, undelivered, phase, state>>
  /\ pc' = "passed"
  /\ UNCHANGED <<userVars, hdrVars, tmpVars, inVars, bufVars, passVars, final,
                 bitcount, overrun, crc>>

-----------------------------------------------------------------------------
(* isal_deflate_int, after the pass: where too little room is left for the *)
(* bit buffer, a second pass writes to tmp_out_buff and what fits of that  *)
(* is copied.                                                              *)

NeedsSecondPass_Mut == ~second /\ avail_out > 0 /\ avail_out < 8 /\ state = "TRL"

NeedsSecondPass ==
  ~second /\ avail_out > 0 /\ avail_out < 8 /\ state # "NEW_HDR"

EndPass ==
  /\ pc = "passed" /\ ~second /\ ~NeedsSecondPass
  /\ pc' = "return"
  /\ UNCHANGED <<userVars, hdrVars, tmpVars, inVars, bufVars, passVars, fmtVars,
                 outVars, state, crc>>

SecondPass ==
  /\ pc = "passed" /\ NeedsSecondPass
  /\ second' = TRUE
  /\ user_out' = avail_out
  /\ avail_out' = TmpSize
  /\ StartPass
  /\ UNCHANGED <<userVars, hdrVars, tmpVars, inVars, bufVars, fmtVars, bitcount,
                 undelivered, overrun, state, crc>>

EndSecondPass ==
  /\ pc = "passed" /\ second
  /\ LET total_out == TmpSize - avail_out
         size == Least(total_out, user_out)
     IN /\ tmp_out_start' = size /\ tmp_out_end' = total_out
        /\ tmp' = (size # total_out)
        /\ avail_out' = user_out - size
        /\ undelivered' = undelivered - size
  /\ second' = FALSE /\ user_out' = 0
  /\ pc' = "return"
  /\ UNCHANGED <<userVars, hdrVars, inVars, bufVars, fmtVars, start_in, bitcount,
                 overrun, state, crc>>

(* The end of isal_deflate: what was not coded goes back to the buffer, or *)
(* stays with the user while the output is full.  History of input read    *)
(* from the user's memory is copied to the buffer.                         *)
Return ==
  /\ pc = "return"
  /\ IF internal \/ avail_out > 0
       THEN buffered' = avail_in /\ avail_in' = 0
       ELSE UNCHANGED <<buffered, avail_in>>
  /\ kept' = IF internal THEN kept \/ took
             ELSE took /\ (avail_in > 0 \/ ~(end_of_stream \/ flush = FULL_FLUSH))
  /\ sealed' = (sealed \/ (flush = FULL_FLUSH /\ FlushComplete))
  /\ start_in' = 0 /\ took' = FALSE /\ internal' = FALSE
  /\ pc' = "idle"
  /\ UNCHANGED <<userVars, hdrVars, tmpVars, has_hist, coded, second, user_out,
                 fmtVars, outVars, state, crc>>

-----------------------------------------------------------------------------
isal_deflate ==
  \/ Drain
  \/ WriteHeaderAlign \/ write_stream_header \/ WriteDeflateHeader \/ WriteHeaderBits
  \/ BodySymbol \/ BodyFull \/ BodyDone
  \/ FinishSymbol \/ FinishFull \/ FinishEob
  \/ sync_flush \/ update_checksum
  \/ WriteFinalBlock \/ WritePadding \/ WriteTrailer
  \/ EndPass \/ SecondPass \/ EndSecondPass \/ Return

Next == Call \/ isal_deflate \/ isal_deflate_set_hufftables \/ isal_deflate_reset

Spec == Init /\ [][Next]_vars

(* A call returns, and a user that has set end_of_stream calls until the   *)
(* state is ZSTATE_END, with some room every time.                         *)
CallToFinish == end_of_stream /\ Call

FairSpec == Spec /\ WF_vars(isal_deflate) /\ WF_vars(CallToFinish)

-----------------------------------------------------------------------------
(* Properties.                                                             *)

PassSteps == {"header", "wrap", "hdr", "hdrbits", "body", "finish", "sync", "sum",
              "final", "pad", "trailer", "passed"}

(* Every field keeps its range; in particular no count of bytes goes below *)
(* zero and the bit buffer never holds a whole byte between writes.        *)
TypeOK ==
  /\ avail_in \in 0..MaxIn /\ buffered \in 0..MaxIn /\ coded \in 0..MaxIn
  /\ crc \in 0..MaxIn /\ start_in \in 0..MaxIn
  /\ avail_out \in Nat /\ user_out \in 0..7 /\ undelivered \in 0..TmpSize
  /\ flush \in Flushes \cup {NO_FLUSH}
  /\ hufftables \in HuffTables /\ gzip_flag \in GzipFlags
  /\ state \in {"NEW_HDR", "HDR", "BODY", "FLUSH_READ_BUFFER", "SYNC_FLUSH", "TRL", "END"}
  /\ count \in Nat /\ bitcount \in 0..7
  /\ tmp_out_start \in 0..TmpSize /\ tmp_out_end \in 0..TmpSize
  /\ end_of_stream \in BOOLEAN /\ tmp \in BOOLEAN /\ has_wrap_hdr \in BOOLEAN
  /\ has_eob_hdr \in BOOLEAN /\ has_hist \in BOOLEAN /\ kept \in BOOLEAN
  /\ internal \in BOOLEAN /\ took \in BOOLEAN /\ second \in BOOLEAN
  /\ final \in BOOLEAN /\ sealed \in BOOLEAN /\ overrun \in BOOLEAN
  /\ phase \in {"wrapper", "between", "aligned", "header", "block", "padded", "done", "garbage"}
  /\ pc \in {"idle", "drain", "return"} \cup PassSteps

(* The bit buffer stores 8 bytes at a time without looking: no sequence of *)
(* calls, whatever the output sizes, makes it store past the end of the    *)
(* user's buffer or of tmp_out_buff (the tests of avail_out in igzip.c and *)
(* is_full in igzip_base.c).                                               *)
NoOverrun == ~overrun

(* Between calls, what was produced and not delivered is exactly what      *)
(* tmp_out_buff holds, and it is empty whenever a pass writes to the       *)
(* user's buffer: output is neither lost nor out of order (isal_deflate_int *)
(* asserts it before the pass).                                            *)
OutputInOrder ==
  /\ pc = "idle" => undelivered = (IF tmp THEN tmp_out_end - tmp_out_start ELSE 0)
  /\ pc \in PassSteps /\ ~second => undelivered = 0

(* Whatever output sizes, flushes and tables the calls come with, the      *)
(* bytes are a well-formed stream: one final block and that the last,      *)
(* markers on byte boundaries, headers whole, the trailer over everything  *)
(* (write_header's toggling of the final bit, write_trailer, sync_flush).  *)
Format == INSTANCE DeflateFormat WITH
  summed <- crc, checked <- (gzip_flag # "raw")
RightFormat == Format!Spec

(* When a call has returned with its flush complete in the sense of        *)
(* igzip_lib.h, all input given has been coded and delivered, up to the    *)
(* last bit; when it has with end_of_stream and room left, the stream has  *)
(* ended.                                                                  *)
Returned == pc = "idle" /\ FlushComplete
FlushGuarantee ==
  /\ Returned /\ flush # NO_FLUSH => Unprocessed = 0 /\ undelivered = 0 /\ bitcount = 0
  /\ Returned /\ end_of_stream /\ avail_out # 0 => Ended

(* The promise of igzip_lib.h as it stands there, for a user that may add  *)
(* input before an earlier flush is complete: room left, or the state      *)
(* ZSTATE_NEW_HDR, and nothing of the user's own left in avail_in, means   *)
(* that nothing is left in the buffer either.                              *)
FlushedAsDocumented ==
  Returned /\ flush # NO_FLUSH /\ avail_in = 0 => buffered = 0

(* And for the end of the stream: with output room left the compression is *)
(* complete.                                                               *)
EndsAsDocumented ==
  Returned /\ end_of_stream /\ avail_out # 0 => Ended

(* What the comment in isal_deflate_int says of the drain: a call that has *)
(* written to the output buffer does not go on to an empty block.          *)
NoEmptyBlockAfterDrain ==
  [][pc = "drain" /\ tmp /\ ~tmp' /\ state = "NEW_HDR" /\ avail_in = 0
     => pc' = "return"]_vars

(* Once a FULL_FLUSH is complete nothing is coded before the match history *)
(* has been forgotten, so no later match reaches behind the flush.         *)
FullFlushIndependent == [][coded' > coded => ~sealed]_vars

(* A stream whose end the user has announced ends, whatever the room of    *)
(* each call, unless it is reset before.                                   *)
StreamEnds == end_of_stream ~> (Ended \/ ~end_of_stream)
=============================================================================
