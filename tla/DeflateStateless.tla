-------------------------- MODULE DeflateStateless --------------------------
(***************************************************************************)
(* isal_deflate_stateless: one call compresses all its input, or stores it *)
(* if that is shorter.  What a compressed block takes is open, and so is   *)
(* where an attempt runs out of room; sizes are the real ones.  Input is   *)
(* known by its position in the call, output by its blocks and their bits. *)
(* A stream may be made by several calls, with FULL_FLUSH.                 *)
(***************************************************************************)
EXTENDS Integers, Sequences

CONSTANTS
  FirstCalls,       \* the calls that may be made: input, bytes 0 or 255 that
  LaterCalls,       \* it begins with, room, table, wrapper, flush, end, level
  MaxBlocks,        \* written before an attempt codes all the input it has
  MaxCalls

TYPE0_BLK_HDR_LEN == 5
TYPE0_MAX_BLK_LEN == 65535
MIN_REPEAT_LEN    == 4 * 1024
HEADER_LENGTH     == 16
MAX_FIXUP_CODE_LENGTH == 8
HeaderBytes  == [gzip |-> 10, gzip_no_hdr |-> 0, zlib |-> 2, zlib_no_hdr |-> 0, raw |-> 0]
TrailerBytes == [gzip |-> 8, gzip_no_hdr |-> 8, zlib |-> 4, zlib_no_hdr |-> 4, raw |-> 0]

VARIABLES
  doing,            \* what the call is at; "user" between calls
  zreturn,          \* what it returned
  asked,            \* its parameters, with end_of_stream after its start
  avail,            \* avail_in
  zstate,           \* state->state where it decides what the call returns
  zblock,           \* block_next, block_end
  total_in,
  bound,            \* avail_out at the start, or what it was lowered to
  blocks,           \* what the call has written, in order
  has_wrap_hdr, has_eob_hdr,
  summed,           \* bytes of the call that are in state->crc
  before,           \* total_in and has_wrap_hdr at entry
  calls

statelessVars == <<doing, zreturn, asked, avail, zstate, zblock, total_in, bound, blocks,
                   has_wrap_hdr, has_eob_hdr, summed, before, calls>>

Smaller(a, b) == IF a < b THEN a ELSE b

\* Output: the blocks' bits, whole bytes of which are delivered.
BitsOf(s)   == LET n[i \in 0 .. Len(s)] == IF i = 0 THEN 0 ELSE n[i - 1] + s[i].bits IN n[Len(s)]
m_bit_count == BitsOf(blocks) % 8
avail_out   == bound - BitsOf(blocks) \div 8
Out(kind, from, to, bits, last) ==
  [kind |-> kind, from |-> from, to |-> to, bits |-> bits, last |-> last]
Put(b)      == blocks' = Append(blocks, b)

next      == asked.size - avail                 \* next_in, as a position
end_of_stream == asked.end

InitStateless ==
  /\ doing = "user" /\ zreturn = "none" /\ zstate = "NEW_HDR"
  /\ asked = [size |-> 0, run |-> 0, room |-> 0, header |-> 0, format |-> "raw", flush |-> FALSE,
              end |-> FALSE, level |-> 0]
  /\ avail = 0 /\ zblock = [next |-> 0, end |-> 0] /\ total_in = 0 /\ bound = 0 /\ blocks = <<>>
  /\ has_wrap_hdr = FALSE /\ has_eob_hdr = FALSE /\ summed = 0
  /\ before = [total_in |-> 0, wrapped |-> FALSE] /\ calls = 0

\* The room in which any input can be stored.
StoredBlocks_Mut(n) == n \div TYPE0_MAX_BLK_LEN
StoredBlocks(n) == (n + TYPE0_MAX_BLK_LEN - 1) \div TYPE0_MAX_BLK_LEN
stored_len(n, format) ==
  (IF n = 0 THEN TYPE0_BLK_HDR_LEN ELSE TYPE0_BLK_HDR_LEN * StoredBlocks(n) + n)
    + HeaderBytes[format] + TrailerBytes[format]
StoredLen == stored_len(asked.size, asked.format)

CallStateless ==
  /\ doing = "user"
  /\ calls = 0 \/ (calls < MaxCalls /\ zreturn = "COMP_OK" /\ ~end_of_stream)
  /\ \E c \in IF calls = 0 THEN FirstCalls ELSE LaterCalls :
       /\ calls > 0 => c.format = asked.format
       /\ asked' = [c EXCEPT !.end = @ \/ ~c.flush]
       /\ avail' = c.size
       /\ bound' = Smaller(c.room, stored_len(c.size, c.format))
  /\ zblock' = [next |-> total_in, end |-> total_in]
  /\ before' = [total_in |-> total_in, wrapped |-> has_wrap_hdr]
  /\ blocks' = <<>> /\ has_eob_hdr' = FALSE /\ summed' = 0 /\ zstate' = "NEW_HDR"
  /\ calls' = calls + 1 /\ doing' = "header" /\ zreturn' = "none"
  /\ UNCHANGED <<total_in, has_wrap_hdr>>

-----------------------------------------------------------------------------
\* isal_deflate_int_stateless
inputVars == <<asked, before, calls, bound, zreturn>>
Wrapped == HeaderBytes[asked.format] > 0

GiveUp == /\ doing' = "settle" /\ zstate' = "none"
          /\ UNCHANGED <<avail, zblock, total_in, blocks, has_wrap_hdr, has_eob_hdr, summed>>

write_stream_header_stateless ==
  /\ doing = "header"
  /\ IF Wrapped /\ ~has_wrap_hdr /\ HeaderBytes[asked.format] >= avail_out
     THEN GiveUp
     ELSE /\ doing' = "repeat"
          /\ IF Wrapped /\ ~has_wrap_hdr
               THEN Put(Out("wrap", 0, 0, 8 * HeaderBytes[asked.format], FALSE)) /\ has_wrap_hdr' = TRUE
               ELSE UNCHANGED <<blocks, has_wrap_hdr>>
          /\ UNCHANGED <<avail, zstate, zblock, total_in, has_eob_hdr, summed>>
  /\ UNCHANGED inputVars

\* A run at the start is a block with a header of its own: a literal, then
\* two bits for every 258 bytes, and the rest as codes for 10, for 115 to 130
\* and for one byte.
Tens(n) == IF n <= 115 THEN n \div 10 ELSE IF 130 < n /\ n < 230 THEN (n - 121) \div 10 ELSE 0

Fixup(n) ==
  LET rest == n - 10 * Tens(n)
  IN  [i \in 1 .. Tens(n) |-> 10] \o
      (IF n <= 115 THEN [i \in 1 .. rest |-> 1]
       ELSE IF rest >= 230 THEN <<rest \div 2, rest - rest \div 2>> ELSE <<rest>>)
CodeBits(c) == CASE c = 1 -> 2 [] c = 10 -> 4 [] OTHER -> 9
Decoded(c)  == IF c \in {1, 10} THEN c ELSE 115 + ((c - 115) % 16)
SumOf(f(_), s) == LET n[i \in 0 .. Len(s)] == IF i = 0 THEN 0 ELSE n[i - 1] + f(s[i]) IN n[Len(s)]

RepBits(n)  == ((n - 1) \div 258) * 2
RepExtra(n) == (n - 1) % 258
ConstantRoom(n) == HEADER_LENGTH + MAX_FIXUP_CODE_LENGTH + RepBits(n) \div 8 + 8
ConstantBits(n) == 8 * HEADER_LENGTH + RepBits(n) + SumOf(CodeBits, Fixup(RepExtra(n))) + 4
ConstantBytes(n) == 1 + 258 * ((n - 1) \div 258) + SumOf(Decoded, Fixup(RepExtra(n)))

Repeats == asked.run >= 8 /\ (avail = asked.run \/ asked.run >= MIN_REPEAT_LEN)

write_constant_compressed_stateless ==
  /\ doing = "repeat"
  /\ IF ~Repeats \/ avail_out < ConstantRoom(asked.run)
     THEN /\ doing' = "block"
          /\ UNCHANGED <<avail, zstate, zblock, total_in, blocks, has_eob_hdr, summed>>
     ELSE LET all == avail = asked.run /\ end_of_stream
          IN  /\ Put(Out("codes", next, next + ConstantBytes(asked.run), ConstantBits(asked.run), all))
              /\ has_eob_hdr' = all
              /\ doing' = IF all THEN "trailer" ELSE "block"
              /\ avail' = avail - asked.run /\ total_in' = total_in + asked.run
              /\ zblock' = [zblock EXCEPT !.end = @ + asked.run]
              /\ summed' = summed + asked.run
              /\ UNCHANGED zstate
  /\ UNCHANGED <<inputVars, has_wrap_hdr>>

\* Level 0: the table's header, which starts on any bit, and one block.
WriteHeader ==
  /\ doing = "block" /\ asked.level = 0
  /\ asked.header + (IF m_bit_count = 0 THEN 8 ELSE 16) < avail_out
  /\ doing' = "body" /\ zstate' = "BODY"
  /\ has_eob_hdr' = end_of_stream
  /\ UNCHANGED <<inputVars, avail, zblock, total_in, blocks, has_wrap_hdr, summed>>

NoRoomForHeader ==
  /\ doing = "block" /\ asked.level = 0
  /\ asked.header + (IF m_bit_count = 0 THEN 8 ELSE 16) >= avail_out
  /\ GiveUp /\ UNCHANGED inputVars

Take(n) == avail' = avail - n /\ total_in' = total_in + n /\ summed' = summed + n

\* Coded input takes about as much as it has, or very little.
SizesOf(n) == {8 * asked.header + 10, 8 * asked.header + 8 * n + 10}

\* Where a pass leaves a block, all of its input being coded.
AfterBlock ==
  IF avail' > 0 THEN "block" ELSE IF end_of_stream THEN "trailer" ELSE "sync"

isal_deflate_pass ==
  /\ doing = "body"
  /\ \E bits \in SizesOf(avail) :
       /\ (BitsOf(blocks) + bits) \div 8 <= bound
       /\ Put(Out("codes", next, asked.size, bits, has_eob_hdr))
  /\ Take(avail) /\ doing' = AfterBlock
  /\ zblock' = [zblock EXCEPT !.end = @ + avail]
  /\ UNCHANGED <<inputVars, zstate, has_wrap_hdr, has_eob_hdr>>

\* Level 1: blocks of any length, coded or stored.
Splits == IF avail < 2 \/ Len(blocks) >= MaxBlocks THEN {avail} ELSE {avail, avail \div 2}

isal_deflate_icf_pass ==
  /\ doing = "block" /\ asked.level = 1
  /\ \E n \in Splits :
       \/ /\ Take(n)
          /\ has_eob_hdr' = (end_of_stream /\ avail' = 0)
          /\ \E bits \in SizesOf(n) :
               /\ (BitsOf(blocks) + bits) \div 8 <= bound
               /\ Put(Out("codes", next, next + n, bits, has_eob_hdr'))
          /\ zblock' = [next |-> zblock.end + n, end |-> zblock.end + n]
          /\ doing' = AfterBlock /\ UNCHANGED zstate
       \/ /\ n > 0 /\ Take(n) /\ doing' = "icf_stored"
          /\ zblock' = [next |-> zblock.end, end |-> zblock.end + n]
          /\ has_eob_hdr' = FALSE
          /\ zstate' = "TYPE0_HDR" /\ UNCHANGED blocks
  /\ UNCHANGED <<inputVars, has_wrap_hdr>>

\* The output is full somewhere in a block.
RunOut ==
  /\ doing = "body" \/ (doing = "block" /\ asked.level = 1)
  /\ doing' = "settle" /\ zstate' = "BODY"
  /\ \E n \in Splits : Take(n) /\ zblock' = [zblock EXCEPT !.end = @ + n]
  /\ has_eob_hdr' \in {has_eob_hdr, end_of_stream}
  /\ UNCHANGED <<inputVars, blocks, has_wrap_hdr>>

\* write_stored_block with write_type0_header, a piece at a time: its bytes
\* are found by how far they are behind next_in.
StoredSize == zblock.end - zblock.next
Behind     == total_in - zblock.next
Final      == StoredSize <= TYPE0_MAX_BLK_LEN /\ end_of_stream /\ avail + Behind = StoredSize
Leave(then) == doing' = IF doing = "storing" THEN "stored" ELSE then
Bits(n)    == n + ((8 - ((m_bit_count + n) % 8)) % 8)     \* up to a byte's end

write_stored_block ==
  /\ doing \in {"icf_stored", "storing"}
  /\ LET piece == Smaller(StoredSize, TYPE0_MAX_BLK_LEN)
         head  == Bits(3) + 32
         copy  == Smaller(piece, avail_out - (m_bit_count + head) \div 8)
         eob   == has_eob_hdr \/ Final
     IN IF avail_out < (IF m_bit_count = 0 THEN TYPE0_BLK_HDR_LEN ELSE 8)
        THEN Leave("settle") /\ has_eob_hdr' = FALSE /\ UNCHANGED <<blocks, zblock, zstate>>
        ELSE /\ has_eob_hdr' = eob
             /\ Put(Out("stored", next - Behind, next - Behind + copy, head + 8 * copy, eob))
             /\ zblock' = [zblock EXCEPT !.next = @ + copy]
             /\ IF copy < piece THEN zstate' = "TYPE0_BODY" /\ Leave("settle")
                ELSE IF copy < StoredSize THEN UNCHANGED <<zstate, doing>>
                ELSE IF eob THEN zstate' = "TRL" /\ Leave("trailer")
                ELSE zstate' = "NEW_HDR" /\ Leave("block")
  /\ UNCHANGED <<inputVars, avail, total_in, has_wrap_hdr, summed>>

\* sync_flush: an empty stored block, on a byte's end.
MarkBlock ==
  /\ doing = "sync"
  /\ IF avail_out < 8 THEN zstate' = "SYNC_FLUSH" /\ UNCHANGED blocks
     ELSE /\ Put(Out("marker", 0, 0, Bits(3) + 32, FALSE))
          /\ zstate' = "NEW_HDR"
  /\ doing' = "settle"
  /\ UNCHANGED <<inputVars, avail, zblock, total_in, has_wrap_hdr, has_eob_hdr, summed>>

\* write_trailer, of an attempt and of stored input.  Without a last block
\* it writes an empty one.
LastBlock == IF has_eob_hdr THEN 0 ELSE 10

WriteTrailer(crc, len) ==
  LET end  == Bits(LastBlock) - LastBlock
      used == (m_bit_count + Bits(LastBlock)) \div 8
  IN IF \/ avail_out < 8 /\ (~has_eob_hdr \/ end > 0)
        \/ avail_out - used < TrailerBytes[asked.format]
     THEN zstate' = "TRL" /\ UNCHANGED <<blocks, has_eob_hdr>>
     ELSE /\ zstate' = "END" /\ has_eob_hdr' = TRUE
          /\ blocks' = blocks
               \o (IF has_eob_hdr THEN <<>> ELSE <<Out("codes", next, next, 10, TRUE)>>)
               \o <<Out("trailer", crc, len, end + 8 * TrailerBytes[asked.format], FALSE)>>

write_trailer_stateless ==
  /\ doing = "trailer" /\ WriteTrailer(summed, total_in) /\ doing' = "settle"
  /\ UNCHANGED <<inputVars, avail, zblock, total_in, has_wrap_hdr, summed>>

-----------------------------------------------------------------------------
\* What isal_deflate_stateless makes of an attempt.
Compressed == zstate = "END" \/ (zstate = "NEW_HDR" /\ asked.flush)

ReturnCompressed ==
  /\ doing = "settle" /\ Compressed
  /\ doing' = "user" /\ zreturn' = "COMP_OK"
  /\ UNCHANGED <<asked, before, calls, bound, avail, zstate, zblock, total_in, blocks, has_wrap_hdr, has_eob_hdr, summed>>

ReturnOverflow ==
  /\ doing = "settle" /\ ~Compressed /\ asked.room < StoredLen
  /\ doing' = "user" /\ zreturn' = "STATELESS_OVERFLOW" /\ has_eob_hdr' = FALSE
  /\ UNCHANGED <<asked, before, calls, bound, avail, zstate, zblock, total_in, blocks, has_wrap_hdr, summed>>

\* Everything is taken back, and the input is stored: total_in is that of
\* this call alone, as block_next is.
WrapHdr_Mut == has_wrap_hdr
WrapHdr     == before.wrapped

StoreInput ==
  /\ doing = "settle" /\ ~Compressed /\ asked.room >= StoredLen
  /\ avail' = 0 /\ total_in' = asked.size
  /\ zblock' = [next |-> 0, end |-> asked.size]
  /\ bound' = asked.room /\ has_eob_hdr' = FALSE
  /\ LET wrap == Wrapped /\ ~WrapHdr /\ HeaderBytes[asked.format] < asked.room
     IN  /\ blocks' = IF wrap THEN <<Out("wrap", 0, 0, 8 * HeaderBytes[asked.format], FALSE)>> ELSE <<>>
         /\ has_wrap_hdr' = (WrapHdr \/ wrap)
  /\ zstate' = "TYPE0_HDR" /\ doing' = "storing"
  /\ UNCHANGED <<asked, before, calls, zreturn, summed>>

ReturnStored ==
  /\ doing = "stored"
  /\ total_in' = before.total_in + asked.size
  /\ summed' = IF asked.format = "raw" THEN summed ELSE asked.size
  /\ IF end_of_stream THEN WriteTrailer(summed', total_in')
     ELSE UNCHANGED <<blocks, zstate, has_eob_hdr>>
  /\ doing' = "user" /\ zreturn' = "COMP_OK"
  /\ UNCHANGED <<asked, before, calls, bound, avail, zblock, has_wrap_hdr>>

StatelessNext ==
  \/ CallStateless \/ write_stream_header_stateless \/ write_constant_compressed_stateless
  \/ WriteHeader \/ NoRoomForHeader \/ isal_deflate_pass \/ isal_deflate_icf_pass \/ RunOut
  \/ write_stored_block \/ MarkBlock \/ write_trailer_stateless
  \/ ReturnCompressed \/ ReturnOverflow \/ StoreInput \/ ReturnStored

-----------------------------------------------------------------------------
\* An output of stored_len bytes is always enough, and no call writes more
\* than that or than its room, whatever its attempt at compression did: the
\* code lengths of a run, the blocks, the header and the trailer included.
StatelessFits ==
  /\ doing # "user" \/ zreturn = "COMP_OK" => BitsOf(blocks) \div 8 <= Smaller(asked.room, StoredLen)
  /\ doing = "user" /\ calls > 0 /\ asked.room >= StoredLen => zreturn = "COMP_OK"

\* What a call returns with COMP_OK: the stream's header if it is the first,
\* blocks for the input of the call, each byte once and in order, the last
\* one marked as the last of the stream if and only if the stream ends, then
\* the checksum of the input and the length of the stream; nothing of an
\* attempt that was given up, and a whole number of bytes.
IsBlock(b) == b.kind \in {"codes", "stored"}
StatelessWhole ==
  doing = "user" /\ zreturn = "COMP_OK" =>
    LET data == SelectSeq(blocks, IsBlock)
        Ends(i) == IF i = 0 THEN 0 ELSE data[i].to
    IN /\ BitsOf(blocks) % 8 = 0
       /\ \A i \in DOMAIN data : data[i].from = Ends(i - 1) /\ data[i].last = (end_of_stream /\ i = Len(data))
       /\ data # <<>> /\ Ends(Len(data)) = asked.size
       /\ \A i \in DOMAIN blocks : blocks[i].kind = "wrap" <=> i = 1 /\ Wrapped /\ calls = 1
       /\ \A i \in DOMAIN blocks : blocks[i].kind = "trailer" <=> i = Len(blocks) /\ end_of_stream
       /\ end_of_stream /\ asked.format # "raw" =>
            blocks[Len(blocks)].from = asked.size /\ blocks[Len(blocks)].to = before.total_in + asked.size
=============================================================================
