--------------------------- MODULE DeflateBuffer ---------------------------
(***************************************************************************)
(* The internal buffer of isal_deflate: where history and input are read   *)
(* from.  A call compresses straight from the user's memory if what it has *)
(* taken from there in this call includes all the history matches may      *)
(* need, and otherwise in rounds through internal_state.buffer, which      *)
(* keeps history (the first b_bytes_processed bytes) and input not coded   *)
(* yet:                                                                    *)
(*                                                                         *)
(*   Call -> (Round -> Drain -> the steps of a pass -> Settle)* -> Return  *)
(*                                                                         *)
(* Dictionaries are put in that buffer too.  From level 1 on a block's     *)
(* symbols are collected first, and a block that does not compress is      *)
(* stored: its bytes are read a second time, in later calls too.  Level 3  *)
(* looks for matches of a whole piece of input, and keeps those that the   *)
(* block has no room for to the next block or call.                        *)
(*                                                                         *)
(* Bytes are known by where they come from: n > 0 is the n-th byte of the  *)
(* input, -n the n-th byte from the end of the dictionary, and 0 memory    *)
(* that holds neither.  Output is counted in units; DeflateStream has its  *)
(* detail.  Streams are shorter than 2^16, where the hash table's indices  *)
(* wrap.                                                                   *)
(***************************************************************************)
EXTENDS Integers, Sequences

CONSTANTS
  Levels,           (* stream->level, one for the stream: 0, 1 or 3 (2 is  *)
                    (* as 1).                                              *)
  HistSize,         (* IGZIP_HIST_SIZE.                                    *)
  LookAhead,        (* ISAL_LOOK_AHEAD.                                    *)
  MaxStored,        (* TYPE0_MAX_BLK_LEN.                                  *)
  MapSize,          (* MATCH_BUF_SIZE.                                     *)
  MaxIn,            (* Most bytes one stream is given.                     *)
  Chunks,           (* Sizes of the input a call may bring.                *)
  Rooms,            (* Output room a call may come with.                   *)
  Flushes,          (* Values of stream->flush the user may choose.        *)
  DictSizes,        (* Sizes of the dictionaries a user may set.           *)
  DictAfterFlush,   (* May a dictionary be set after a flush?              *)
  FeedMidFlush,     (* As in DeflateStream.                                *)
  AllowReset

NO_FLUSH   == 0
SYNC_FLUSH == 1
FULL_FLUSH == 2

BufSize   == 2 * HistSize + LookAhead      (* sizeof(state->buffer)        *)
dist_mask == HistSize - 1                  (* The greatest match distance. *)

ASSUME BufferAssumption ==
  /\ Levels \subseteq {0, 1, 3}
  /\ HistSize \in Nat \ {0} /\ LookAhead \in Nat \ {0} /\ MaxStored \in Nat \ {0}
  /\ MapSize \in Nat /\ MapSize > LookAhead
  /\ MaxIn \in Nat /\ Chunks \subseteq Nat /\ Rooms \subseteq Nat
  /\ Flushes \subseteq {NO_FLUSH, SYNC_FLUSH, FULL_FLUSH}
  /\ DictSizes \subseteq 1..HistSize
  /\ DictAfterFlush \in BOOLEAN /\ FeedMidFlush \in BOOLEAN /\ AllowReset \in BOOLEAN

VARIABLES
  (* struct isal_zstream, as the user sees it *)
  level,
  avail_in,
  total_in,         (* Bytes taken from the user, the buffered ones too.   *)
  room,             (* avail_out, and what tmp_out_buff took beyond it.    *)
  flush, end_of_stream,
  (* struct isal_zstate *)
  state,            (* Without its TMP_ prefix.                            *)
  tmp,              (* It has it: the user has still output to get.        *)
  has_hist,
  buffer,           (* buffer[0 .. b_bytes_valid - 1]                      *)
  b_bytes_processed,
  block_next, block_end,
  has_eob_hdr,
  count,            (* Bytes left of the stored block being written.       *)
  held,             (* matches_end - matches_next: bytes that have matches *)
                    (* and are taken, but in no block yet.                 *)
  (* locals of the call *)
  pc,
  total_start,
  hist_size,
  buf_hist_start,
  internal,
  masked,           (* flush and end_of_stream are hidden from the pass.   *)
  done,             (* next_in - next_in_pre: bytes the round has coded.   *)
  wrote,            (* Has the round produced output?                      *)
  (* history, for the properties *)
  oldest,           (* Index of the oldest entry of the hash table.        *)
  base, dict,       (* A decoder has the input from base on, and before it *)
                    (* dict bytes of dictionary.                           *)
  written           (* Input bytes whose codes or copies are in the output. *)

userVars  == <<flush, end_of_stream>>
bufVars   == <<buffer, b_bytes_processed>>
blockVars == <<block_next, block_end, has_eob_hdr, count, held>>
callVars  == <<total_start, hist_size, buf_hist_start, internal, masked>>
winVars   == <<oldest, base, dict>>
vars == <<level, avail_in, total_in, room, userVars, state, tmp, has_hist, bufVars,
          blockVars, callVars, pc, done, wrote, winVars, written>>

Least(a, b) == IF a <= b THEN a ELSE b
Greatest(a, b) == IF a >= b THEN a ELSE b

b_bytes_valid == Len(buffer)
buffered_size == b_bytes_valid - b_bytes_processed

(* What the pass sees: stream->avail_in, total_in and the byte at next_in  *)
(* + i, in the buffer or in the memory the user passed to this call.       *)
Seen == (IF internal THEN buffered_size ELSE avail_in) - done
Pos  == total_in - buffered_size + done

At(i) ==
  IF internal
    THEN LET at == b_bytes_processed + done + i + 1
         IN IF at \in 1..b_bytes_valid THEN buffer[at] ELSE 0
    ELSE LET n == Pos + i + 1
         IN IF total_start < n /\ n <= total_in + avail_in THEN n ELSE 0

FlushSeen == IF masked THEN NO_FLUSH ELSE flush
EndSeen   == end_of_stream /\ ~masked
Flushing  == EndSeen \/ FlushSeen # NO_FLUSH

-----------------------------------------------------------------------------
(* isal_deflate_init.                                                      *)
Init ==
  /\ level \in Levels
  /\ avail_in = 0 /\ total_in = 0 /\ room = 0
  /\ flush = NO_FLUSH /\ end_of_stream = FALSE
  /\ state = "NEW_HDR" /\ tmp = FALSE /\ has_hist = "NO_HIST"
  /\ buffer = <<>> /\ b_bytes_processed = 0
  /\ block_next = 0 /\ block_end = 0 /\ has_eob_hdr = FALSE /\ count = 0
  /\ held = 0
  /\ pc = "idle" /\ total_start = 0 /\ hist_size = 0 /\ buf_hist_start = 0
  /\ internal = FALSE /\ masked = FALSE /\ done = 0 /\ wrote = FALSE
  /\ oldest = 0 /\ base = 0 /\ dict = 0 /\ written = 0

isal_deflate_reset ==
  /\ AllowReset /\ pc = "idle"
  /\ avail_in' = 0 /\ total_in' = 0 /\ room' = 0
  /\ flush' = NO_FLUSH /\ end_of_stream' = FALSE
  /\ state' = "NEW_HDR" /\ tmp' = FALSE /\ has_hist' = "NO_HIST"
  /\ buffer' = <<>> /\ b_bytes_processed' = 0
  /\ block_next' = 0 /\ block_end' = 0 /\ has_eob_hdr' = FALSE /\ count' = 0
  /\ held' = 0            (* has_level_buf_init is cleared *)
  /\ total_start' = 0 /\ hist_size' = 0 /\ buf_hist_start' = 0
  /\ base' = 0 /\ dict' = 0 /\ written' = 0
  /\ UNCHANGED <<level, pc, internal, masked, done, wrote, oldest>>

(* The user, between calls.                                                *)
Ended == state = "END" /\ ~tmp
Given == total_in + avail_in
FlushComplete == room > 0 \/ (state = "NEW_HDR" /\ ~tmp)

MayAsk(n, f, eos) ==
  /\ end_of_stream => n = 0 /\ eos
  /\ FeedMidFlush \/ flush = NO_FLUSH \/ FlushComplete \/
     (n = 0 /\ f = flush /\ eos = end_of_stream)

(* A dictionary may be set at the start of a stream, or when a flush is    *)
(* complete; the decoder is given it at the same place.                    *)
MayReplaceHistory ==
  /\ pc = "idle" /\ state = "NEW_HDR" /\ ~tmp /\ buffered_size = 0
  /\ avail_in = 0 /\ ~end_of_stream
  /\ total_in = 0 \/ (DictAfterFlush /\ flush # NO_FLUSH /\ FlushComplete)

SetHistory(n) ==
  /\ buffer' = [i \in 1..n |-> i - n - 1]
  /\ b_bytes_processed' = n
  /\ base' = total_in /\ dict' = n
  /\ UNCHANGED <<level, avail_in, total_in, room, userVars, state, tmp, blockVars, callVars,
                 pc, done, wrote, written>>

isal_deflate_set_dict ==
  /\ MayReplaceHistory
  /\ has_hist' = "DICT_HIST"
  /\ \E n \in DictSizes : SetHistory(n)
  /\ UNCHANGED oldest

(* The table comes ready from isal_deflate_process_dict, which indexes the *)
(* dictionary as if it ended at the start of a stream.                     *)
isal_deflate_reset_dict ==
  /\ MayReplaceHistory
  /\ has_hist' = "DICT_HASH_SET"
  /\ \E n \in DictSizes : SetHistory(n) /\ oldest' = -n

-----------------------------------------------------------------------------
(* get_hist_size: how much before next_in has to stay readable, for        *)
(* matches and for a stored block that is still being written.             *)
Type0 == {"TYPE0_HDR", "TYPE0_BODY"}

NothingToCome(left, f, eos) == left = 0 /\ (eos \/ f = FULL_FLUSH)

get_hist_size(left, f, eos, input_history, here) ==
  LET buffered_history ==
        IF has_hist # "NO_HIST" THEN b_bytes_processed - buf_hist_start ELSE 0
      history_size == Least(HistSize, Greatest(buffered_history, input_history))
  IN IF state \in Type0 THEN Greatest(history_size, here - block_next)
     ELSE IF NothingToCome(left, f, eos) THEN 0
     ELSE history_size

(* Entry of isal_deflate.  No history: the whole hash table points here.   *)
(* A dictionary: it is indexed before the input, over a table filled with  *)
(* -1.                                                                     *)
Call ==
  /\ pc = "idle" /\ ~Ended
  /\ \E n \in Chunks, r \in Rooms, f \in Flushes, eos \in BOOLEAN :
       /\ Given + n <= MaxIn /\ MayAsk(n, f, eos)
       /\ avail_in' = avail_in + n /\ room' = r
       /\ flush' = f /\ end_of_stream' = eos
       /\ hist_size' = get_hist_size(avail_in + n + buffered_size, f, eos, 0, total_in)
  /\ total_start' = total_in
  /\ CASE has_hist = "NO_HIST" ->
            /\ oldest' = Pos
            /\ buf_hist_start' = b_bytes_processed
            /\ UNCHANGED has_hist
       [] has_hist = "DICT_HIST" ->
            /\ oldest' = Least(-1, total_in - b_bytes_processed)
            /\ has_hist' = "HIST"
            /\ UNCHANGED buf_hist_start
       [] OTHER -> UNCHANGED <<oldest, buf_hist_start, has_hist>>
  /\ pc' = "round"
  /\ UNCHANGED <<level, total_in, state, tmp, bufVars, blockVars, internal, masked, done,
                 wrote, base, dict, written>>

(* A round through the buffer: it slides down to the history needed and    *)
(* takes what input fits.  With little in it and nothing to flush, that is *)
(* all for this call.  The flush waits for the last round.                 *)
NeedsBuffer_Mut == total_in - total_start < hist_size

NeedsBuffer == total_in - total_start < hist_size + buffered_size

Slide == Greatest(0, b_bytes_processed - hist_size)
Taken == Least(avail_in, BufSize - (b_bytes_valid - Slide))
EnoughBuffered ==
  \/ Taken < avail_in \/ buffered_size + Taken > HistSize
  \/ total_in - buffered_size - block_next > HistSize
  \/ end_of_stream \/ flush # NO_FLUSH
Masks_Mut == FALSE

Masks == Taken < avail_in

RoundInternal ==
  /\ pc = "round" /\ NeedsBuffer
  /\ internal' = TRUE
  /\ buffer' = SubSeq(buffer, Slide + 1, b_bytes_valid)
                 \o [i \in 1..Taken |-> total_in + i]
  /\ b_bytes_processed' = b_bytes_processed - Slide
  /\ buf_hist_start' = Greatest(0, buf_hist_start - Slide)
  /\ avail_in' = avail_in - Taken /\ total_in' = total_in + Taken
  /\ masked' = (EnoughBuffered /\ Masks)
  /\ pc' = IF EnoughBuffered THEN "drain" ELSE "return"
  /\ done' = 0 /\ wrote' = FALSE
  /\ UNCHANGED <<level, room, userVars, state, tmp, has_hist, blockVars, total_start,
                 hist_size, winVars, written>>

(* A round in the user's memory, from the first byte not coded.            *)
RoundExternal ==
  /\ pc = "round" /\ ~NeedsBuffer
  /\ internal' = FALSE /\ masked' = FALSE
  /\ IF buffered_size > 0
       THEN /\ avail_in' = avail_in + buffered_size
            /\ total_in' = total_in - buffered_size
            /\ buffer' = <<>> /\ b_bytes_processed' = 0
       ELSE UNCHANGED <<avail_in, total_in, bufVars>>
  /\ pc' = "drain"
  /\ done' = 0 /\ wrote' = FALSE
  /\ UNCHANGED <<level, room, userVars, state, tmp, has_hist, blockVars, total_start,
                 hist_size, buf_hist_start, winVars, written>>

-----------------------------------------------------------------------------
(* isal_deflate_int.  A step that finds the output full ends the pass; the *)
(* output may then be ahead of the user, in tmp_out_buff.                  *)
Produce ==
  /\ room > 0 /\ wrote' = TRUE
  /\ room' \in 0..room

MayBeAhead(produced) ==
  tmp' \in IF room' = 0 /\ produced THEN BOOLEAN ELSE {FALSE}

OutputFull ==
  /\ room' = 0 /\ wrote' = (wrote \/ room > 0)
  /\ MayBeAhead(wrote')
  /\ pc' = "settle"

EndPass == pc' = "settle" /\ UNCHANGED <<room, wrote, tmp>>

Drain ==
  /\ pc = "drain"
  /\ \/ ~tmp /\ pc' = "pass" /\ UNCHANGED <<room, tmp, wrote>>
     \/ tmp /\ room' = 0 /\ wrote' = (room > 0) /\ pc' = "settle" /\ UNCHANGED tmp
     \/ /\ tmp /\ Produce /\ tmp' = FALSE
        /\ pc' = IF room' = 0 \/ state = "END" THEN "settle" ELSE "pass"
  /\ UNCHANGED <<level, avail_in, total_in, userVars, state, has_hist, bufVars, blockVars,
                 callVars, done, winVars, written>>

(* Level 0 writes the block's header first; the others start to collect.   *)
NewBlock ==
  /\ pc = "pass" /\ state \in {"NEW_HDR", "HDR"}
  /\ IF level = 0
       THEN /\ \/ Produce /\ state' = "BODY" /\ UNCHANGED <<tmp, pc>>
               \/ OutputFull /\ state' = "HDR"
            /\ UNCHANGED block_next
       ELSE state' = "BODY" /\ block_next' = block_end /\ UNCHANGED <<room, wrote, tmp, pc>>
  /\ UNCHANGED <<level, avail_in, total_in, userVars, has_hist, bufVars, block_end,
                 has_eob_hdr, count, held, callVars, done, winVars, written>>

(* n more bytes are coded: at level 0 into the output, at the others into  *)
(* the block's symbols (update_state).                                     *)
Code(n) ==
  /\ done' = done + n
  /\ has_hist' = IF n > 0 THEN "HIST" ELSE has_hist
  /\ IF level = 0
       THEN written' = written + n /\ UNCHANGED block_end
       ELSE block_end' = Pos + n /\ UNCHANGED written

(* isal_deflate_body: a match may go on into the last LookAhead bytes.     *)
Body ==
  /\ pc = "pass" /\ state = "BODY" /\ level # 3
  /\ \/ /\ Seen = 0
        /\ IF Flushing THEN state' = "FLUSH_READ_BUFFER" /\ UNCHANGED <<room, wrote, tmp, pc>>
                       ELSE EndPass /\ UNCHANGED state
        /\ UNCHANGED <<done, has_hist, written, block_end>>
     \/ /\ Seen \in 1..LookAhead
        /\ Code(0)
        /\ IF Flushing THEN state' = "FLUSH_READ_BUFFER" /\ UNCHANGED <<room, wrote, tmp, pc>>
                       ELSE EndPass /\ UNCHANGED state
     \/ /\ Seen > LookAhead
        /\ \E left \in 1..LookAhead : Code(Seen - left)
        /\ IF level = 0 THEN Produce ELSE UNCHANGED <<room, wrote>>
        /\ state' = IF Flushing THEN "FLUSH_READ_BUFFER" ELSE "BODY"
        /\ IF Flushing THEN UNCHANGED <<tmp, pc>> ELSE pc' = "settle" /\ MayBeAhead(TRUE)
     \/ /\ Seen > LookAhead
        /\ \E n \in 0..(Seen - LookAhead - 1) :
             /\ Code(n)
             /\ level = 0 /\ room = 0 => n = 0
        /\ IF level = 0 THEN OutputFull /\ UNCHANGED state
           ELSE state' = "CREATE_HDR" /\ UNCHANGED <<room, wrote, tmp, pc>>
  /\ UNCHANGED <<level, avail_in, total_in, userVars, bufVars, block_next, has_eob_hdr,
                 count, held, callVars, winVars>>

(* The body at level 3 (icf_body_hash1_fillgreedy_lazy): matches are made  *)
(* for all bytes but the look-ahead, and put into the block until it is    *)
(* full.  The last match may go on into the look-ahead, of which the       *)
(* length of the map is all that is known when it is put into a block.     *)
MapLength_Mut == Least(Seen, MapSize)

MapLength == Least(Seen, MapSize) - LookAhead

gen_icf_map ==
  /\ pc = "pass" /\ state = "BODY" /\ level = 3
  /\ held = 0 /\ Seen > LookAhead
  /\ held' = MapLength /\ done' = done + MapLength
  /\ has_hist' = IF has_hist = "NO_HIST" THEN "HIST" ELSE has_hist
  /\ UNCHANGED <<level, avail_in, total_in, room, userVars, state, tmp, bufVars, block_next,
                 block_end, has_eob_hdr, count, callVars, pc, wrote, winVars, written>>

compress_icf_map ==
  /\ pc = "pass" /\ state = "BODY" /\ level = 3 /\ held > 0
  /\ \/ \E n \in 0..(held - 1) :
          /\ n > 0 \/ block_end > block_next
          /\ held' = held - n /\ block_end' = block_end + n
          /\ state' = "CREATE_HDR" /\ UNCHANGED done
     \/ \E over \in 0..LookAhead :
          /\ held' = 0 /\ block_end' = block_end + held + over
          /\ done' = done + over /\ UNCHANGED state
  /\ UNCHANGED <<level, avail_in, total_in, room, userVars, tmp, has_hist, bufVars,
                 block_next, has_eob_hdr, count, callVars, pc, wrote, winVars, written>>

icf_body_next_state ==
  /\ pc = "pass" /\ state = "BODY" /\ level = 3
  /\ held = 0 /\ Seen <= LookAhead
  /\ \/ block_end > block_next /\ state' = "CREATE_HDR" /\ UNCHANGED <<room, wrote, tmp, pc>>
     \/ Flushing /\ state' = "FLUSH_READ_BUFFER" /\ UNCHANGED <<room, wrote, tmp, pc>>
     \/ ~Flushing /\ EndPass /\ UNCHANGED state
  /\ UNCHANGED <<level, avail_in, total_in, userVars, has_hist, bufVars, blockVars, callVars,
                 done, winVars, written>>

(* isal_deflate_finish: the last bytes and, at level 0, the end of block.  *)
Finish ==
  /\ pc = "pass" /\ state = "FLUSH_READ_BUFFER"
  /\ \/ /\ level = 0
        /\ Produce /\ Code(Seen)
        /\ state' = IF EndSeen THEN "TRL" ELSE "SYNC_FLUSH"
        /\ UNCHANGED <<tmp, pc>>
     \/ /\ level = 0
        /\ \E n \in 0..Seen : Code(n) /\ (room = 0 => n = 0)
        /\ OutputFull /\ UNCHANGED state
     \/ /\ level # 0
        /\ IF Seen = 0 THEN UNCHANGED <<done, has_hist, written, block_end>>
                       ELSE \E n \in 0..Seen : Code(n)
        /\ state' = "CREATE_HDR"
        /\ UNCHANGED <<room, wrote, tmp, pc>>
  /\ UNCHANGED <<level, avail_in, total_in, userVars, bufVars, block_next, has_eob_hdr,
                 count, held, callVars, winVars>>

(* sync_flush: after a full flush a decoder may start here.                *)
Forgets_Mut == FALSE

Forgets == FlushSeen = FULL_FLUSH

sync_flush ==
  /\ pc = "pass" /\ state = "SYNC_FLUSH"
  /\ \/ OutputFull /\ UNCHANGED <<state, has_hist, base, dict>>
     \/ /\ Produce /\ MayBeAhead(TRUE) /\ pc' = "settle"
        /\ state' = "NEW_HDR"
        /\ has_hist' = IF Forgets THEN "NO_HIST" ELSE has_hist
        /\ IF FlushSeen = FULL_FLUSH THEN base' = Pos /\ dict' = 0
                                     ELSE UNCHANGED <<base, dict>>
  /\ UNCHANGED <<level, avail_in, total_in, userVars, bufVars, blockVars, callVars, done,
                 oldest, written>>

write_trailer ==
  /\ pc = "pass" /\ state \in {"TRL", "END"}
  /\ \/ state = "END" /\ EndPass /\ UNCHANGED state
     \/ state = "TRL" /\ OutputFull /\ UNCHANGED state
     \/ /\ state = "TRL" /\ Produce /\ MayBeAhead(TRUE) /\ pc' = "settle"
        /\ state' = "END"
  /\ UNCHANGED <<level, avail_in, total_in, userVars, has_hist, bufVars, blockVars, callVars,
                 done, winVars, written>>

-----------------------------------------------------------------------------
(* From level 1 on the block's symbols are written as codes, or the block  *)
(* is stored if it does not compress, is still readable, and what does not *)
(* go to the output now will fit the buffer.                               *)
BuffersEmpty == Seen = 0 /\ held = 0

block_in_size == block_end - block_next
block_start_offset == Pos - block_next
cur_in_processed == IF internal THEN b_bytes_processed + done ELSE Pos - total_start
block_size == (block_in_size + MaxStored - 1) \div MaxStored + block_in_size

Readable == cur_in_processed >= block_start_offset
FitsBuffer_Mut == TRUE

FitsBuffer == block_size <= room + BufSize - (Pos - block_end)

create_icf_block_hdr ==
  /\ pc = "pass" /\ state = "CREATE_HDR"
  /\ \/ /\ block_in_size > 0 /\ Readable /\ FitsBuffer
        /\ state' = "TYPE0_HDR" /\ has_eob_hdr' = FALSE
     \/ state' = "FLUSH_ICF_BUFFER" /\ has_eob_hdr' = (EndSeen /\ BuffersEmpty)
  /\ UNCHANGED <<level, avail_in, total_in, room, userVars, tmp, has_hist, bufVars,
                 block_next, block_end, count, held, callVars, pc, done, wrote, winVars, written>>

(* The header and the codes (ZSTATE_HDR, write_header, flush_icf_block).   *)
flush_icf_block ==
  /\ pc = "pass" /\ state = "FLUSH_ICF_BUFFER"
  /\ \/ OutputFull /\ UNCHANGED <<state, written>>
     \/ /\ Produce /\ UNCHANGED <<tmp, pc>>
        /\ written' = written + block_in_size
        /\ state' = IF Seen = 0 /\ EndSeen THEN "TRL"
                    ELSE IF Seen = 0 /\ FlushSeen # NO_FLUSH THEN "SYNC_FLUSH"
                    ELSE "NEW_HDR"
  /\ UNCHANGED <<level, avail_in, total_in, userVars, has_hist, bufVars, blockVars, callVars,
                 done, winVars>>

write_type0_header ==
  /\ pc = "pass" /\ state = "TYPE0_HDR"
  /\ LET final == /\ block_in_size <= MaxStored
                  /\ EndSeen /\ Seen + block_start_offset = block_in_size
     IN IF room > 0
          THEN /\ room' = room - 1 /\ wrote' = TRUE
               /\ count' = Least(block_in_size, MaxStored)
               /\ has_eob_hdr' = (has_eob_hdr \/ final)
               /\ state' = "TYPE0_BODY"
               /\ UNCHANGED <<tmp, pc>>
          ELSE has_eob_hdr' = FALSE /\ OutputFull /\ UNCHANGED <<count, state>>
  /\ UNCHANGED <<level, avail_in, total_in, userVars, has_hist, bufVars, block_next,
                 block_end, held, callVars, done, winVars, written>>

(* The copy: count bytes from block_start_offset before next_in.           *)
StoredEnds(next) == next = block_end

write_stored_block ==
  /\ pc = "pass" /\ state = "TYPE0_BODY"
  /\ LET copy_size == Least(count, Least(room, Seen + block_start_offset))
         next == block_next + copy_size
         forgets == FlushSeen = FULL_FLUSH /\ ~has_eob_hdr /\ BuffersEmpty
     IN /\ block_next' = next /\ count' = count - copy_size
        /\ room' = room - copy_size /\ written' = written + copy_size
        /\ wrote' = (wrote \/ copy_size > 0)
        /\ IF copy_size < count
             THEN pc' = "settle" /\ MayBeAhead(wrote') /\ UNCHANGED <<state, has_hist, oldest>>
             ELSE /\ UNCHANGED <<tmp, pc>>
                  /\ IF StoredEnds(next)
                       THEN /\ state' = IF has_eob_hdr THEN "TRL" ELSE "NEW_HDR"
                            /\ has_hist' = IF forgets THEN "NO_HIST" ELSE has_hist
                            /\ oldest' = IF forgets THEN Pos ELSE oldest
                       ELSE state' = "TYPE0_HDR" /\ UNCHANGED <<has_hist, oldest>>
  /\ UNCHANGED <<level, avail_in, total_in, userVars, bufVars, block_end, has_eob_hdr,
                 held, callVars, done, base, dict>>

-----------------------------------------------------------------------------
(* After isal_deflate_int: what was coded is accounted for, in the buffer  *)
(* or in the user's memory, and a round through the buffer is followed by  *)
(* another while there is input, room and progress.                        *)
Settle ==
  /\ pc = "settle"
  /\ hist_size' =
       LET left == IF internal THEN Seen + buffered_size ELSE Seen
       IN get_hist_size(left, FlushSeen, EndSeen, cur_in_processed, Pos)
  /\ IF internal
       THEN b_bytes_processed' = b_bytes_processed + done /\ UNCHANGED <<avail_in, total_in>>
       ELSE avail_in' = Seen /\ total_in' = Pos /\ UNCHANGED b_bytes_processed
  /\ pc' = IF internal /\ avail_in > 0 /\ room > 0 /\ (done > 0 \/ wrote)
             THEN "round" ELSE "return"
  /\ done' = 0 /\ masked' = FALSE
  /\ UNCHANGED <<level, room, userVars, state, tmp, has_hist, buffer, blockVars, total_start,
                 buf_hist_start, internal, wrote, winVars, written>>

(* The end of the call: history is copied out of the user's memory, and    *)
(* the input held back as look-ahead goes to the buffer too.               *)
CopiesHistory == ~internal /\ (state \notin {"END", "TRL"} \/ tmp)

future_size(space) ==
  IF avail_in = 0 \/ (room = 0 /\ level # 3) THEN 0
  ELSE IF avail_in < space THEN avail_in
  ELSE Least(LookAhead, space)

Return ==
  /\ pc = "return"
  /\ LET hist == IF CopiesHistory
                   THEN [i \in 1..hist_size |-> At(i - 1 - hist_size)]
                   ELSE buffer
         n == future_size(BufSize - Len(hist))
     IN /\ buffer' = hist \o [i \in 1..n |-> total_in + i]
        /\ b_bytes_processed' = IF CopiesHistory THEN hist_size ELSE b_bytes_processed
        /\ avail_in' = avail_in - n /\ total_in' = total_in + n
  /\ pc' = "idle"
  /\ total_start' = 0 /\ hist_size' = 0 /\ buf_hist_start' = 0
  /\ internal' = FALSE /\ wrote' = FALSE
  /\ UNCHANGED <<level, room, userVars, state, tmp, has_hist, blockVars, masked, done,
                 winVars, written>>

-----------------------------------------------------------------------------
isal_deflate ==
  \/ RoundInternal \/ RoundExternal \/ Drain
  \/ NewBlock \/ Body \/ Finish \/ sync_flush \/ write_trailer
  \/ gen_icf_map \/ compress_icf_map \/ icf_body_next_state
  \/ create_icf_block_hdr \/ flush_icf_block \/ write_type0_header \/ write_stored_block
  \/ Settle \/ Return

Next ==
  \/ Call \/ isal_deflate
  \/ isal_deflate_set_dict \/ isal_deflate_reset_dict \/ isal_deflate_reset

Spec == Init /\ [][Next]_vars

-----------------------------------------------------------------------------
(* Properties.                                                             *)

(* The buffer and the history kept in it never outgrow its array, whatever *)
(* block has still to be stored (the memmove and memcpy of isal_deflate),  *)
(* and no count goes below zero.                                           *)
TypeOK ==
  /\ avail_in \in 0..MaxIn /\ total_in \in 0..MaxIn /\ room \in Nat
  /\ written \in 0..MaxIn /\ Len(buffer) <= BufSize
  /\ b_bytes_processed \in 0..Len(buffer) /\ hist_size \in 0..BufSize
  /\ Seen \in 0..MaxIn /\ count \in 0..MaxStored /\ held \in 0..MapSize
  /\ flush \in Flushes \cup {NO_FLUSH} /\ end_of_stream \in BOOLEAN
  /\ has_hist \in {"NO_HIST", "HIST", "DICT_HIST", "DICT_HASH_SET"}
  /\ level \in Levels
  /\ state \in {"NEW_HDR", "HDR", "BODY", "FLUSH_READ_BUFFER", "CREATE_HDR",
                "FLUSH_ICF_BUFFER", "SYNC_FLUSH", "TRL", "END"} \cup Type0
  /\ pc \in {"idle", "round", "drain", "pass", "settle", "return"}

(* When bytes are coded, every distance the hash table and dist_mask allow *)
(* leads, in the memory the match is compared with, to the byte a decoder  *)
(* finds at that distance: over all calls, slides of the buffer, full      *)
(* flushes and dictionaries.  The map of level 3 masks the distance less   *)
(* one and so goes back one byte further.                                  *)
Coding == pc = "pass" /\ state \in {"BODY", "FLUSH_READ_BUFFER"} /\ Seen > 0
Farthest == IF level = 3 /\ state = "BODY" THEN HistSize ELSE dist_mask
Distances == 1..Least(Farthest, Pos - oldest)
Decoder(d) ==
  IF d <= Pos - base THEN Pos - d + 1
  ELSE IF d <= Pos - base + dict THEN Pos - base - d
  ELSE 0

MatchesInWindow ==
  Coding => \A d \in Distances : Decoder(d) # 0 /\ At(-d) = Decoder(d)

(* What is coded next is the input not coded yet, from its first byte on,  *)
(* wherever its parts were kept since the user passed them: none is read   *)
(* twice, skipped, or read from memory that is no longer the user's.       *)
CodedInOrder == Coding => \A i \in 0..(Seen - 1) : At(i) = Pos + i + 1

(* write_stored_block copies the block's own bytes, which were coded in    *)
(* this round, an earlier one or an earlier call, and not more than it has *)
(* (its assertion).                                                        *)
StoredInOrder ==
  pc = "pass" /\ state = "TYPE0_BODY" =>
    /\ count <= block_in_size
    /\ \A i \in 0..(Least(count, Seen + block_start_offset) - 1) :
         At(i - block_start_offset) = block_next + i + 1

(* Nothing else is read in a pass than the input, in order.                *)
InputInOrder == CodedInOrder /\ StoredInOrder

(* Between blocks all input taken is in the output, once, but for the      *)
(* bytes whose matches wait for the next block; when a flush or the end of *)
(* the stream is written none wait (the blocks' bounds, over icf and       *)
(* stored blocks, and flush_icf_block, which looks at avail_in only).      *)
WholeBlocks ==
  /\ state \in {"NEW_HDR", "SYNC_FLUSH", "TRL", "END"} => written = Pos - held
  /\ state \in {"SYNC_FLUSH", "TRL", "END"} => held = 0

(* Level 3 keeps matches for a later call to put into a block, of which    *)
(* the last may go on into the bytes behind them: isal_deflate buffers "a  *)
(* minimum look ahead required for level 3" (igzip.c:1701), so the pass    *)
(* that takes up these matches has those bytes.                            *)
LookAheadThere == pc = "pass" /\ state = "BODY" /\ held > 0 => Seen >= LookAhead

(* A call returns when the input is taken or the output is full, as        *)
(* igzip_lib.h says: with room left nothing stays in avail_in.  A flush or *)
(* the end of the stream that it reports as complete covers all input      *)
(* given, though rounds through the buffer hide it from the pass until the *)
(* last.                                                                   *)
CallIsWhole ==
  pc = "idle" =>
    /\ room > 0 /\ ~tmp => avail_in = 0
    /\ FlushComplete /\ flush # NO_FLUSH => written = Given
    /\ end_of_stream /\ room > 0 => Ended /\ written = Given
=============================================================================
