------------------------ MODULE DeflateBufferProofs ------------------------
(***************************************************************************)
(* That isal_deflate reads its input once and in order, from the user's    *)
(* memory or through the internal buffer, at levels 0, 1 and 2: for any    *)
(* size of the buffer, of the calls and of stored blocks.                  *)
(***************************************************************************)
EXTENDS DeflateBuffer, SequenceTheorems, TLAPS

InRound  == pc \in {"drain", "pass", "settle"}
InBlock  == {"BODY", "FLUSH_READ_BUFFER", "CREATE_HDR", "FLUSH_ICF_BUFFER"} \cup Type0
External == ~internal /\ pc \in {"drain", "pass", "settle", "return"}
Headers(n) == (n + MaxStored - 1) \div MaxStored

(* The byte a decoder has at place n; from where on it has any.            *)
Source(n) == IF n > base \/ n <= base - dict THEN n ELSE n - base - 1

(* What is not said of the types by TypeOK.                                *)
Types ==
  /\ buffer \in Seq(Int) /\ b_bytes_processed \in Nat /\ hist_size \in Nat
  /\ avail_in \in Nat /\ total_in \in Nat /\ room \in Nat /\ written \in Nat
  /\ done \in Nat /\ total_start \in Nat /\ buf_hist_start \in Nat
  /\ block_next \in Nat /\ block_end \in Nat /\ count \in 0..MaxStored /\ held = 0
  /\ base \in Nat /\ dict \in Nat /\ oldest \in Int
  /\ internal \in BOOLEAN /\ masked \in BOOLEAN /\ tmp \in BOOLEAN
  /\ end_of_stream \in BOOLEAN /\ flush \in Flushes \cup {NO_FLUSH}

Control ==
  /\ level \in Levels
  /\ has_hist \in {"NO_HIST", "HIST", "DICT_HIST", "DICT_HASH_SET"}
  /\ state \in {"NEW_HDR", "HDR", "BODY", "FLUSH_READ_BUFFER", "CREATE_HDR",
                "FLUSH_ICF_BUFFER", "SYNC_FLUSH", "TRL", "END"} \cup Type0
  /\ pc \in {"idle", "round", "drain", "pass", "settle", "return"}
  /\ IF level = 0 THEN state \notin {"CREATE_HDR", "FLUSH_ICF_BUFFER"} \cup Type0
                  ELSE state # "HDR"

(* Bytes coded by the round come from what it sees; a round in the user's  *)
(* memory has nothing buffered, and starts where the call did or later.    *)
CountInv ==
  /\ b_bytes_processed <= b_bytes_valid /\ b_bytes_valid <= BufSize
  /\ hist_size <= BufSize
  /\ total_in + avail_in <= MaxIn
  /\ base <= Pos
  /\ pc \notin {"pass", "settle"} => done = 0
  /\ InRound => done <= (IF internal THEN buffered_size ELSE avail_in)
  /\ total_start <= total_in
  /\ External => buffered_size = 0
  /\ pc = "idle" => ~internal /\ buf_hist_start = 0

(* The bounds of the block and what is written of it, or of all input.     *)
BlockInv ==
  /\ level = 0 => written = Pos /\ block_next = 0 /\ block_end = 0
  /\ level # 0 =>
       /\ block_end = Pos
       /\ state \in InBlock => written = block_next /\ block_next <= block_end /\ base <= block_next
       /\ state \notin InBlock => written = block_end

(* The buffer has the bytes a decoder has, up to the last one taken.       *)
ContentInv ==
  /\ dict > 0 /\ pc # "idle" => base <= total_start
  /\ ~External /\ state \notin {"TRL", "END"} =>
       \A i \in 1..b_bytes_valid :
         LET n == total_in - b_bytes_valid + i
         IN n > base - dict => buffer[i] = Source(n)

(* The bytes of a stored block can still be read, and what of it does not  *)
(* go to the output now fits the buffer.                                   *)
StoredInv ==
  state \in Type0 =>
    /\ block_next < block_end
    /\ state = "TYPE0_BODY" => 0 < count /\ count <= block_in_size
    /\ IF External THEN total_start <= block_next
                   ELSE total_in - b_bytes_valid <= block_next
    /\ pc \in {"round", "return"} => total_in - buffered_size - hist_size <= block_next
    /\ Pos - block_next + Headers(block_in_size - (IF state = "TYPE0_BODY" THEN count ELSE 0))
         <= BufSize + (IF pc = "pass" THEN room ELSE 0)

(* A round in the user's memory has the history that get_hist_size asks    *)
(* for, or no input.                                                       *)
HistInv ==
  /\ internal /\ InRound => (masked <=> avail_in > 0)
  /\ ~internal /\ InRound => ~masked
  /\ pc = "round" =>
       \/ Least(HistSize, b_bytes_processed - buf_hist_start) <= hist_size
       \/ NothingToCome(avail_in + buffered_size, flush, end_of_stream)
            /\ total_in = total_start
  /\ ~internal /\ InRound =>
       \/ Least(HistSize, b_bytes_processed - buf_hist_start) <= Pos - total_start
       \/ NothingToCome(Seen, flush, end_of_stream) /\ Pos = total_start
  /\ pc = "return" /\ CopiesHistory => hist_size <= total_in - total_start

IInv ==
  /\ Types /\ Control /\ CountInv /\ BlockInv /\ ContentInv /\ StoredInv /\ HistInv

-----------------------------------------------------------------------------
(* What one step of a pass leaves alone, whichever it is.                  *)
PassStep ==
  \/ Drain \/ NewBlock \/ Body \/ Finish \/ sync_flush \/ write_trailer
  \/ create_icf_block_hdr \/ flush_icf_block \/ write_type0_header \/ write_stored_block

PassKeeps ==
  /\ UNCHANGED <<level, avail_in, total_in, flush, end_of_stream, buffer, b_bytes_processed,
                 total_start, hist_size, buf_hist_start, internal, masked, held>>
  /\ pc \in {"drain", "pass"} /\ pc' \in {"pass", "settle"}
  /\ done' \in Nat /\ done <= done' /\ done' <= done + Seen
  /\ room' \in Nat

LEMMA LeastGreatest ==
  ASSUME NEW a \in Int, NEW b \in Int
  PROVE  /\ Least(a, b) \in Int /\ Least(a, b) <= a /\ Least(a, b) <= b
         /\ Least(a, b) = a \/ Least(a, b) = b
         /\ Greatest(a, b) \in Int /\ Greatest(a, b) >= a /\ Greatest(a, b) >= b
         /\ Greatest(a, b) = a \/ Greatest(a, b) = b
BY DEF Least, Greatest

LEMMA Moves ==
  ASSUME NEW p \in Nat, NEW s \in Nat, NEW d \in Nat, NEW e \in Nat, d <= e, e <= d + s
  PROVE  /\ p + (e - d) \in Nat /\ p <= p + (e - d) /\ p + (e - d) <= p + s
         /\ s - (e - d) \in Nat
OBVIOUS

LEMMA Adds ==
  ASSUME NEW p \in Nat, NEW d \in Nat
  PROVE  p + (d - d) = p /\ p - (d - d) = p /\ \A n \in Nat : p + ((d + n) - d) = p + n
OBVIOUS

LEMMA Within ==
  ASSUME NEW a \in Nat, NEW b \in Nat, a - b \in Nat
  PROVE  b <= a
OBVIOUS

LEMMA BufLen == buffer \in Seq(Int) => Len(buffer) \in Nat
BY LenProperties

LEMMA SeenType ==
  ASSUME Types, CountInv, InRound
  PROVE  Seen \in Nat /\ Pos \in Int /\ buffered_size \in Nat
BY BufLen DEF Types, CountInv, Seen, Pos, buffered_size, b_bytes_valid, InRound

LEMMA StepOfPass ==
  ASSUME Types, Control, CountInv, level # 3, PassStep
  PROVE  PassKeeps
<1>1. UNCHANGED <<level, avail_in, total_in, flush, end_of_stream, buffer, b_bytes_processed,
                  total_start, hist_size, buf_hist_start, internal, masked, held>>
  BY DEF PassStep, Drain, NewBlock, Body, Finish, sync_flush, write_trailer,
         create_icf_block_hdr, flush_icf_block, write_type0_header, write_stored_block,
         userVars, bufVars, blockVars, callVars
<1>2. pc \in {"drain", "pass"} /\ pc' \in {"pass", "settle"}
  BY DEF PassStep, Drain, NewBlock, Body, Finish, sync_flush, write_trailer,
         create_icf_block_hdr, flush_icf_block, write_type0_header, write_stored_block,
         OutputFull, EndPass
<1>3. done \in Nat /\ Seen \in Nat
  BY <1>2, SeenType DEF Types, InRound
<1>4. done' = done \/ \E n \in 0..Seen : done' = done + n
  <2>1. CASE Body
    <3>1. CASE Seen > LookAhead /\ \E left \in 1..LookAhead : Code(Seen - left)
      BY <1>3, <3>1, BufferAssumption DEF Code
    <3>2. CASE Seen > LookAhead /\ \E n \in 0..(Seen - LookAhead - 1) : Code(n)
      BY <1>3, <3>2, BufferAssumption DEF Code
    <3>3. CASE done' = done \/ Code(0)
      BY <1>3, <3>3 DEF Code
    <3>4. QED
      BY <2>1, <3>1, <3>2, <3>3 DEF Body
  <2>2. CASE Finish
    <3>1. \/ done' = done \/ Code(Seen) \/ \E n \in 0..Seen : Code(n)
      BY <2>2 DEF Finish
    <3>2. QED
      BY <1>3, <3>1 DEF Code
  <2>3. CASE ~Body /\ ~Finish
    BY <2>3 DEF PassStep, Drain, NewBlock, sync_flush, write_trailer, create_icf_block_hdr,
         flush_icf_block, write_type0_header, write_stored_block
  <2>4. QED
    BY <2>1, <2>2, <2>3
<1>5. room' \in Nat
  <2>1. room \in Nat /\ count \in Nat
    BY DEF Types
  <2>2. CASE write_stored_block
    <3>1. Seen + block_start_offset \in Int
      BY <1>2, <1>3, SeenType DEF Types, block_start_offset, InRound
    <3>2. PICK c \in Int : c <= room /\ room' = room - c
      BY <2>1, <2>2, <3>1 DEF write_stored_block, Least
    <3>3. QED
      BY <2>1, <3>2
  <2>3. CASE ~write_stored_block
    <3>1. room' = room \/ room' = 0 \/ room' \in 0..room \/ (room > 0 /\ room' = room - 1)
      BY <2>3 DEF PassStep, Drain, NewBlock, Body, Finish, sync_flush, write_trailer,
           create_icf_block_hdr, flush_icf_block, write_type0_header, Produce, OutputFull, EndPass
    <3>2. QED
      BY <2>1, <3>1
  <2>4. QED
    BY <2>2, <2>3
<1>6. QED
  <2>1. done' \in Nat /\ done <= done' /\ done' <= done + Seen
    BY <1>3, <1>4
  <2>2. QED
    BY <1>1, <1>2, <1>5, <2>1 DEF PassKeeps

(* What the pass sees moves on by what it codes.                           *)
LEMMA PosStep ==
  ASSUME Types, CountInv, PassKeeps
  PROVE  /\ Seen \in Nat /\ Pos \in Nat /\ Pos' \in Nat
         /\ Pos' = Pos + (done' - done) /\ Pos <= Pos' /\ Pos' <= Pos + Seen
         /\ Seen' = Seen - (done' - done) /\ Seen' \in Nat
         /\ buffered_size' = buffered_size
         /\ done' = done => Pos' = Pos /\ Seen' = Seen
         /\ \A n \in Nat : done' = done + n => Pos' = Pos + n
<1>1. Seen \in Nat /\ Pos \in Int /\ buffered_size \in Nat
  BY SeenType DEF PassKeeps, InRound
<1>2. buffered_size' = buffered_size
  BY DEF PassKeeps, buffered_size, b_bytes_valid
<1>3. done \in Nat /\ done' \in Nat /\ done <= done' /\ done' <= done + Seen
  BY DEF PassKeeps, Types
<1>4. Pos \in Nat
  BY <1>1 DEF CountInv, Types
<1>5. total_in \in Nat /\ avail_in \in Nat
  BY DEF Types
<1>6. Pos' = Pos + (done' - done)
  BY <1>1, <1>2, <1>3, <1>5 DEF Pos, PassKeeps
<1>7. Seen' = Seen - (done' - done)
  <2>1. CASE internal
    BY <1>1, <1>2, <1>3, <2>1 DEF Seen, PassKeeps
  <2>2. CASE ~internal
    <3>1. ~internal' /\ avail_in' = avail_in
      BY <2>2 DEF PassKeeps
    <3>2. Seen = avail_in - done /\ Seen' = avail_in - done'
      BY <2>2, <3>1 DEF Seen
    <3>3. QED
      BY <1>3, <1>5, <3>2
  <2>3. QED
    BY <2>1, <2>2
<1>8. Pos' \in Nat /\ Pos <= Pos' /\ Pos' <= Pos + Seen
  BY <1>1, <1>3, <1>4, <1>6, Moves
<1>9. Seen' \in Nat
  BY <1>1, <1>3, <1>7, Moves
<1>10. done' = done => Pos' = Pos /\ Seen' = Seen
  BY <1>1, <1>3, <1>4, <1>6, <1>7, Adds
<1>11. \A n \in Nat : done' = done + n => Pos' = Pos + n
  BY <1>1, <1>3, <1>4, <1>6, Adds
<1>12. QED
  BY <1>1, <1>2, <1>4, <1>6, <1>7, <1>8, <1>9, <1>10, <1>11

(* A full flush is where a decoder may start; all other steps leave its    *)
(* window alone.                                                           *)
LEMMA WindowStep ==
  ASSUME PassStep
  PROVE  \/ base' = base /\ dict' = dict
         \/ base' = Pos /\ dict' = 0 /\ done' = done /\ state = "SYNC_FLUSH"
<1>1. CASE sync_flush
  BY <1>1 DEF sync_flush
<1>2. CASE ~sync_flush
  BY <1>2 DEF PassStep, Drain, NewBlock, Body, Finish, write_trailer, create_icf_block_hdr,
     flush_icf_block, write_type0_header, write_stored_block, winVars
<1>3. QED
  BY <1>1, <1>2

LEMMA CountOfPass ==
  ASSUME Types, CountInv, PassStep, PassKeeps
  PROVE  CountInv'
<1>1. Pos' \in Nat /\ Pos <= Pos' /\ Seen' \in Nat /\ buffered_size' = buffered_size
  BY PosStep
<1>2. base' <= Pos'
  <2>1. base \in Nat /\ Pos \in Nat /\ base <= Pos
    BY PosStep DEF CountInv, Types
  <2>2. QED
    BY <1>1, <2>1, WindowStep
<1>3. done' <= (IF internal' THEN buffered_size' ELSE avail_in')
  <2>1. avail_in' \in Nat /\ buffered_size' \in Nat /\ done' \in Nat
    BY <1>1, SeenType DEF Types, InRound, PassKeeps
  <2>2. CASE internal'
    <3>1. Seen' = buffered_size' - done'
      BY <2>2 DEF Seen
    <3>2. done' <= buffered_size'
      BY <1>1, <2>1, <3>1, Within
    <3>3. QED
      BY <2>2, <3>2
  <2>3. CASE ~internal'
    <3>1. Seen' = avail_in' - done'
      BY <2>3 DEF Seen
    <3>2. done' <= avail_in'
      BY <1>1, <2>1, <3>1, Within
    <3>3. QED
      BY <2>3, <3>2
  <2>4. QED
    BY <2>2, <2>3
<1>4. External' => External
  BY DEF External, PassKeeps
<1>5. b_bytes_valid' = b_bytes_valid
  BY DEF b_bytes_valid, PassKeeps
<1>6. QED
  BY <1>1, <1>2, <1>3, <1>4, <1>5 DEF CountInv, InRound, PassKeeps

LEMMA ContentOfPass ==
  ASSUME Types, CountInv, ContentInv, PassStep, PassKeeps
  PROVE  ContentInv'
<1> USE DEF PassKeeps
<1>1. state' \notin {"TRL", "END"} => state \notin {"TRL", "END"}
  BY DEF PassStep, Drain, NewBlock, Body, Finish, sync_flush, write_trailer,
     create_icf_block_hdr, flush_icf_block, write_type0_header, write_stored_block
<1>2. External <=> External'
  BY DEF External
<1>3. pc # "idle" /\ pc' # "idle" /\ total_start' = total_start
  OBVIOUS
<1>4. base \in Nat /\ dict \in Nat /\ Pos \in Nat /\ base <= Pos
  BY PosStep DEF Types, CountInv
<1>5. Len(buffer) \in Nat /\ total_in \in Nat
  BY BufLen DEF Types
<1>6. CASE base' = base /\ dict' = dict
  BY <1>1, <1>2, <1>3, <1>6 DEF ContentInv, b_bytes_valid, Source
<1>7. CASE base' = Pos /\ dict' = 0
  <2>1. ASSUME ~External, state \notin {"TRL", "END"}, NEW i \in 1..Len(buffer),
               total_in - Len(buffer) + i > Pos
        PROVE  buffer[i] = total_in - Len(buffer) + i
    <3> DEFINE n == total_in - Len(buffer) + i
    <3>1. n > base - dict /\ n > base
      BY <1>4, <1>5, <2>1
    <3>2. buffer[i] = Source(n)
      BY <2>1, <3>1 DEF ContentInv, b_bytes_valid
    <3>3. QED
      BY <3>1, <3>2 DEF Source
  <2>2. QED
    BY <1>1, <1>2, <1>4, <1>5, <1>7, <2>1 DEF ContentInv, b_bytes_valid, Source
<1>8. QED
  BY <1>6, <1>7, WindowStep

(* How a step of a pass changes what is in the output and in the block: not *)
(* at all, by input that is coded, or where a block starts, ends or is     *)
(* stored.                                                                 *)
Steady ==
  /\ UNCHANGED <<done, written, block_next, block_end>>
  /\ level = 0 \/ (state \in InBlock <=> state' \in InBlock)
  /\ base' = base \/ (base' = Pos /\ state \notin InBlock)

Coded ==
  /\ \E n \in Nat : done' = done + n /\
       IF level = 0 THEN written' = written + n /\ block_end' = block_end
                    ELSE block_end' = Pos + n /\ written' = written
  /\ UNCHANGED <<block_next, base>>
  /\ state \in InBlock /\ (level = 0 \/ state' \in InBlock)

StartsBlock ==
  /\ level # 0 /\ state = "NEW_HDR" /\ state' = "BODY" /\ block_next' = block_end
  /\ UNCHANGED <<done, written, block_end, base>>

EndsBlock ==
  /\ state = "FLUSH_ICF_BUFFER" /\ state' \notin InBlock
  /\ written' = written + block_in_size
  /\ UNCHANGED <<done, block_next, block_end, base>>

LEMMA KindOfStep ==
  ASSUME Types, Control, CountInv, PassStep, PassKeeps
  PROVE  Steady \/ Coded \/ StartsBlock \/ EndsBlock \/ write_stored_block
<1>1. Seen \in Nat
  BY PosStep
<1>2. CASE Drain
  BY <1>2 DEF Drain, Steady, blockVars, winVars
<1>3. CASE NewBlock
  <2>1. CASE level = 0
    BY <1>3, <2>1 DEF NewBlock, Steady, winVars
  <2>2. CASE level # 0
    BY <1>3, <2>2 DEF NewBlock, StartsBlock, winVars, Control
  <2>3. QED
    BY <2>1, <2>2
<1>4. CASE Body
  <2>1. state \in InBlock /\ state' \in InBlock /\ UNCHANGED <<block_next, base>>
    BY <1>4 DEF Body, InBlock, winVars, EndPass
  <2>2. CASE UNCHANGED <<done, written, block_end>>
    BY <2>1, <2>2 DEF Steady
  <2>3. CASE \E n \in Nat : Code(n)
    BY <2>1, <2>3 DEF Coded, Code
  <2>4. UNCHANGED <<done, written, block_end>> \/ \E n \in Nat : Code(n)
    <3>1. \A left \in 1..LookAhead : Seen > LookAhead => Seen - left \in Nat
      BY <1>1, BufferAssumption
    <3>2. \A n \in 0..(Seen - LookAhead - 1) : n \in Nat
      OBVIOUS
    <3>3. QED
      BY <1>4, <3>1, <3>2 DEF Body
  <2>5. QED
    BY <2>2, <2>3, <2>4
<1>5. CASE Finish
  <2>1. state \in InBlock /\ (level = 0 \/ state' \in InBlock) /\ UNCHANGED <<block_next, base>>
    BY <1>5 DEF Finish, InBlock, winVars
  <2>2. CASE UNCHANGED <<done, written, block_end>>
    BY <2>1, <2>2 DEF Steady
  <2>3. CASE \E n \in Nat : Code(n)
    BY <2>1, <2>3 DEF Coded, Code
  <2>4. UNCHANGED <<done, written, block_end>> \/ \E n \in Nat : Code(n)
    BY <1>1, <1>5 DEF Finish
  <2>5. QED
    BY <2>2, <2>3, <2>4
<1>6. CASE sync_flush
  BY <1>6 DEF sync_flush, Steady, blockVars, InBlock, Type0
<1>7. CASE write_trailer
  BY <1>7 DEF write_trailer, Steady, blockVars, winVars, InBlock, Type0
<1>8. CASE create_icf_block_hdr
  BY <1>8 DEF create_icf_block_hdr, Steady, winVars, InBlock, Type0
<1>9. CASE flush_icf_block
  <2>1. CASE UNCHANGED <<state, written>>
    BY <1>9, <2>1 DEF flush_icf_block, Steady, blockVars, winVars, InBlock, Type0
  <2>2. CASE ~UNCHANGED <<state, written>>
    BY <1>9, <2>2 DEF flush_icf_block, EndsBlock, blockVars, winVars, InBlock, Type0
  <2>3. QED
    BY <2>1, <2>2
<1>10. CASE write_type0_header
  BY <1>10 DEF write_type0_header, Steady, winVars, InBlock, Type0
<1>11. QED
  BY <1>2, <1>3, <1>4, <1>5, <1>6, <1>7, <1>8, <1>9, <1>10 DEF PassStep

(* What write_stored_block copies is no more than the block has left.      *)
LEMMA CopySize ==
  ASSUME Types, CountInv, BlockInv, StoredInv, write_stored_block, level # 0
  PROVE  \E c \in 0..count :
           /\ block_next' = block_next + c /\ written' = written + c /\ count' = count - c
           /\ room' = room - c /\ c <= room /\ (c = count \/ c = room)
           /\ block_next + c <= block_end
           /\ (c = count) <=> (state' # "TYPE0_BODY")
           /\ state' \in InBlock => state' \in Type0 /\ (state' = "TYPE0_HDR" => block_next + c # block_end)
           /\ state' \notin InBlock => block_next + c = block_end
           /\ UNCHANGED <<block_end, base, dict, done>>
<1>1. state = "TYPE0_BODY" /\ pc = "pass" /\ state \in Type0 /\ state \in InBlock
  BY DEF write_stored_block, Type0, InBlock
<1>2. /\ count \in Nat /\ room \in Nat /\ block_next \in Nat /\ block_end \in Nat
      /\ count <= block_end - block_next /\ 0 < count
  BY <1>1 DEF Types, StoredInv, block_in_size
<1>3. Seen \in Nat /\ block_end = Pos
  BY <1>1, SeenType DEF BlockInv, InRound
<1>4. count <= Seen + block_start_offset /\ Seen + block_start_offset \in Int
  <2>1. block_start_offset = block_end - block_next
    BY <1>3 DEF block_start_offset
  <2>2. QED
    BY <1>2, <1>3, <2>1
<1> DEFINE c == Least(count, Least(room, Seen + block_start_offset))
<1>5. c \in 0..count /\ c <= room /\ (c = count \/ c = room) /\ block_next + c <= block_end
  <2>1. \A x \in Int : count <= x => Least(count, Least(room, x)) = Least(count, room)
    BY <1>2 DEF Least
  <2>2. c = Least(count, room)
    BY <1>4, <2>1
  <2>3. Least(count, room) \in 0..count /\ Least(count, room) <= room
        /\ (Least(count, room) = count \/ Least(count, room) = room)
    BY <1>2 DEF Least
  <2>4. \A x \in 0..count : block_next + x <= block_end
    BY <1>2
  <2>5. QED
    BY <2>2, <2>3, <2>4
<1> HIDE DEF c
<1>6. /\ block_next' = block_next + c /\ written' = written + c /\ count' = count - c
      /\ room' = room - c
  BY DEF write_stored_block, c
<1>7. UNCHANGED <<block_end, base, dict, done>>
  BY DEF write_stored_block
<1>8. /\ (c = count) <=> (state' # "TYPE0_BODY")
      /\ state' \in InBlock => state' \in Type0 /\ (state' = "TYPE0_HDR" => block_next + c # block_end)
      /\ state' \notin InBlock => block_next + c = block_end
  <2>1. CASE c < count
    <3>1. state' = state
      BY <2>1 DEF write_stored_block, c
    <3>2. c # count
      BY <1>2, <1>5, <2>1
    <3>3. QED
      BY <1>1, <3>1, <3>2
  <2>2. CASE ~(c < count)
    <3>1. c = count
      BY <1>2, <1>5, <2>2
    <3>2. \/ state' \in {"TRL", "NEW_HDR"} /\ block_next + c = block_end
          \/ state' = "TYPE0_HDR" /\ block_next + c # block_end
      BY <2>2 DEF write_stored_block, StoredEnds, c
    <3>3. QED
      BY <3>1, <3>2 DEF InBlock, Type0
  <2>3. QED
    BY <2>1, <2>2
<1>9. QED
  BY <1>5, <1>6, <1>7, <1>8

LEMMA BlockOfPass ==
  ASSUME Types, Control, CountInv, BlockInv, StoredInv, PassStep, PassKeeps, level # 3
  PROVE  BlockInv' /\ block_next' \in Nat /\ block_end' \in Nat /\ written' \in Nat
<1>1. Seen \in Nat /\ Pos \in Nat /\ Pos' \in Nat /\ level' = level /\ base <= Pos
  BY PosStep DEF PassKeeps, CountInv
<1>2. block_next \in Nat /\ block_end \in Nat /\ written \in Nat /\ base \in Nat
  BY DEF Types
<1>3. CASE Steady
  <2>1. Pos' = Pos
    BY <1>3, PosStep DEF Steady
  <2>2. CASE level = 0
    BY <1>1, <1>2, <1>3, <2>1, <2>2 DEF Steady, BlockInv
  <2>3. CASE level # 0 /\ base' = base
    BY <1>1, <1>2, <1>3, <2>1, <2>3 DEF Steady, BlockInv
  <2>4. CASE level # 0 /\ state \notin InBlock
    BY <1>1, <1>2, <1>3, <2>1, <2>4 DEF Steady, BlockInv
  <2>5. QED
    BY <1>3, <2>2, <2>3, <2>4 DEF Steady
<1>4. CASE Coded
  <2>1. PICK n \in Nat : done' = done + n /\
               IF level = 0 THEN written' = written + n /\ block_end' = block_end
                            ELSE block_end' = Pos + n /\ written' = written
    BY <1>4 DEF Coded
  <2>2. Pos' = Pos + n
    BY <2>1, PosStep
  <2>3. CASE level = 0
    BY <1>1, <1>2, <1>4, <2>1, <2>2, <2>3 DEF Coded, BlockInv
  <2>4. CASE level # 0
    <3>1. /\ block_end' = Pos' /\ written' = block_next /\ block_next' = block_next
          /\ block_end = Pos /\ block_next <= block_end /\ base <= block_next /\ base' = base
          /\ state' \in InBlock
      BY <1>4, <2>1, <2>2, <2>4 DEF Coded, BlockInv
    <3>2. block_next <= Pos + n
      BY <1>1, <1>2, <3>1
    <3>3. QED
      BY <1>1, <1>2, <2>2, <2>4, <3>1, <3>2 DEF BlockInv
  <2>5. QED
    BY <2>3, <2>4
<1>5. CASE StartsBlock
  <2>1. Pos' = Pos
    BY <1>5, PosStep DEF StartsBlock
  <2>2. level # 0 /\ state \notin InBlock
    BY <1>5 DEF StartsBlock, InBlock, Type0
  <2>3. written = block_end /\ block_end = Pos
    BY <2>2 DEF BlockInv
  <2>4. QED
    BY <1>1, <1>2, <1>5, <2>1, <2>2, <2>3 DEF StartsBlock, BlockInv
<1>6. CASE EndsBlock
  <2>1. Pos' = Pos
    BY <1>6, PosStep DEF EndsBlock
  <2>2. level # 0 /\ state \in InBlock
    BY <1>6 DEF EndsBlock, InBlock, Control
  <2>3. written = block_next /\ block_end = Pos /\ written' = written + (block_end - block_next)
    BY <1>6, <2>2 DEF BlockInv, EndsBlock, block_in_size
  <2>4. written' = block_end
    BY <1>2, <2>3
  <2>5. QED
    BY <1>1, <1>2, <1>6, <2>1, <2>2, <2>3, <2>4 DEF EndsBlock, BlockInv
<1>7. CASE write_stored_block
  <2>1. level # 0 /\ state \in InBlock
    BY <1>7 DEF write_stored_block, Control, InBlock, Type0
  <2>2. PICK c \in 0..count :
           /\ block_next' = block_next + c /\ written' = written + c
           /\ block_next + c <= block_end
           /\ state' \notin InBlock => block_next + c = block_end
           /\ UNCHANGED <<block_end, base, done>>
    BY <1>7, <2>1, CopySize
  <2>3. Pos' = Pos
    BY <2>2, PosStep
  <2>4. written = block_next /\ block_end = Pos /\ base <= block_next
    BY <2>1 DEF BlockInv
  <2>5. block_next + c \in Nat /\ base <= block_next + c
    BY <1>2, <2>4 DEF Types
  <2>6. QED
    BY <1>1, <1>2, <2>1, <2>2, <2>3, <2>4, <2>5 DEF BlockInv
<1>8. QED
  BY <1>3, <1>4, <1>5, <1>6, <1>7, KindOfStep

LEMMA TypesOfPass ==
  ASSUME Types, Control, CountInv, BlockInv, StoredInv, PassStep, PassKeeps, level # 3
  PROVE  Types'
<1>1. block_next' \in Nat /\ block_end' \in Nat /\ written' \in Nat
  BY BlockOfPass
<1>2. tmp' \in BOOLEAN
  <2>1. tmp' = tmp \/ tmp' = FALSE \/ tmp' \in BOOLEAN
    BY DEF PassStep, Drain, NewBlock, Body, Finish, sync_flush, write_trailer,
       create_icf_block_hdr, flush_icf_block, write_type0_header, write_stored_block,
       OutputFull, EndPass, MayBeAhead
  <2>2. QED
    BY <2>1 DEF Types
<1>3. Pos \in Nat /\ done' \in Nat /\ room' \in Nat
  BY PosStep DEF PassKeeps
<1>4. base' \in Nat /\ dict' \in Nat
  BY <1>3, WindowStep DEF Types
<1>5. oldest' \in Int
  <2>1. oldest' = oldest \/ oldest' = Pos
    BY DEF PassStep, Drain, NewBlock, Body, Finish, sync_flush, write_trailer,
       create_icf_block_hdr, flush_icf_block, write_type0_header, write_stored_block, winVars
  <2>2. QED
    BY <1>3, <2>1 DEF Types
<1>6. count' \in 0..MaxStored
  <2>1. CASE write_type0_header
    <3>1. block_in_size \in Nat
      BY <2>1 DEF write_type0_header, StoredInv, Type0, Types, block_in_size
    <3>2. Least(block_in_size, MaxStored) \in 0..MaxStored
      BY <3>1, BufferAssumption DEF Least
    <3>3. count' = count \/ count' = Least(block_in_size, MaxStored)
      BY <2>1 DEF write_type0_header
    <3>4. QED
      BY <3>2, <3>3 DEF Types
  <2>2. CASE write_stored_block
    <3>1. level # 0
      BY <2>2 DEF write_stored_block, Control, Type0
    <3>2. PICK c \in 0..count : count' = count - c
      BY <2>2, <3>1, CopySize
    <3>3. QED
      BY <3>2, BufferAssumption DEF Types
  <2>3. CASE ~write_type0_header /\ ~write_stored_block
    <3>1. count' = count
      BY <2>3 DEF PassStep, Drain, NewBlock, Body, Finish, sync_flush, write_trailer,
       create_icf_block_hdr, flush_icf_block, blockVars
    <3>2. QED
      BY <3>1 DEF Types
  <2>4. QED
    BY <2>1, <2>2, <2>3
<1>7. QED
  BY <1>1, <1>2, <1>3, <1>4, <1>5, <1>6 DEF Types, PassKeeps

LEMMA ControlOfPass ==
  ASSUME Types, Control, PassStep, PassKeeps, level # 3
  PROVE  Control'
<1>1. level' \in Levels /\ level' = level
  BY DEF Control, PassKeeps
<1>2. pc' \in {"idle", "round", "drain", "pass", "settle", "return"}
  BY DEF PassKeeps
<1>3. has_hist' \in {"NO_HIST", "HIST", "DICT_HIST", "DICT_HASH_SET"}
  <2>1. has_hist' = has_hist \/ has_hist' = "HIST" \/ has_hist' = "NO_HIST"
    BY DEF PassStep, Drain, NewBlock, Body, Finish, sync_flush, write_trailer, Code,
       create_icf_block_hdr, flush_icf_block, write_type0_header, write_stored_block
  <2>2. QED
    BY <2>1 DEF Control
<1>4. \/ state' = state
      \/ state' \in {"NEW_HDR", "BODY", "FLUSH_READ_BUFFER", "SYNC_FLUSH", "TRL", "END"}
      \/ level = 0 /\ state' = "HDR"
      \/ level # 0 /\ state' \in {"CREATE_HDR", "FLUSH_ICF_BUFFER"} \cup Type0
  <2>1. CASE Drain \/ sync_flush \/ write_trailer
    BY <2>1 DEF Drain, sync_flush, write_trailer
  <2>2. CASE NewBlock
    <3>1. state' = "BODY" \/ (level = 0 /\ state' = "HDR")
      BY <2>2 DEF NewBlock
    <3>2. QED
      BY <3>1
  <2>6. CASE Body \/ Finish
    <3>1. \/ state' \in {state, "FLUSH_READ_BUFFER", "BODY", "TRL", "SYNC_FLUSH"}
          \/ level # 0 /\ state' = "CREATE_HDR"
      BY <2>6 DEF Body, Finish
    <3>2. QED
      BY <3>1
  <2>3. CASE create_icf_block_hdr \/ flush_icf_block \/ write_type0_header \/ write_stored_block
    <3>1. level # 0
      BY <2>3 DEF Control, Type0, create_icf_block_hdr, flush_icf_block, write_type0_header,
         write_stored_block
    <3>2. state' \in {state, "TRL", "SYNC_FLUSH", "NEW_HDR", "FLUSH_ICF_BUFFER"} \cup Type0
      BY <2>3, <3>1 DEF create_icf_block_hdr, flush_icf_block, write_type0_header,
         write_stored_block, Type0, OutputFull
    <3>3. QED
      BY <3>1, <3>2
  <2>4. QED
    BY <2>1, <2>2, <2>3, <2>6 DEF PassStep
<1>5. /\ state' \in {"NEW_HDR", "HDR", "BODY", "FLUSH_READ_BUFFER", "CREATE_HDR",
                     "FLUSH_ICF_BUFFER", "SYNC_FLUSH", "TRL", "END"} \cup Type0
      /\ IF level = 0 THEN state' \notin {"CREATE_HDR", "FLUSH_ICF_BUFFER"} \cup Type0
                      ELSE state' # "HDR"
  BY <1>4 DEF Control, Type0
<1>6. QED
  BY <1>1, <1>2, <1>3, <1>5 DEF Control

LEMMA HistOfPass ==
  ASSUME Types, CountInv, HistInv, PassStep, PassKeeps
  PROVE  HistInv'
<1>1. Pos \in Nat /\ Pos' \in Nat /\ Pos <= Pos' /\ Seen \in Nat /\ Seen' \in Nat
      /\ (Seen = 0 => done' = done)
  BY PosStep DEF PassKeeps, Types
<1>2. /\ InRound /\ InRound' /\ pc' # "round" /\ pc' # "return"
      /\ internal' = internal /\ masked' = masked /\ avail_in' = avail_in
  BY DEF PassKeeps, InRound
<1>3. ASSUME ~internal
      PROVE  \/ Least(HistSize, b_bytes_processed - buf_hist_start) <= Pos' - total_start
             \/ NothingToCome(Seen', flush, end_of_stream) /\ Pos' = total_start
  <2>1. CASE Least(HistSize, b_bytes_processed - buf_hist_start) <= Pos - total_start
    <3>1. Least(HistSize, b_bytes_processed - buf_hist_start) \in Int /\ total_start \in Nat
      BY BufferAssumption, LeastGreatest DEF Types
    <3>2. QED
      BY <1>1, <2>1, <3>1
  <2>2. CASE NothingToCome(Seen, flush, end_of_stream) /\ Pos = total_start
    <3>1. Seen' = Seen /\ Pos' = Pos
      BY <1>1, <2>2, PosStep DEF NothingToCome
    <3>2. QED
      BY <2>2, <3>1
  <2>3. QED
    BY <1>2, <1>3, <2>1, <2>2 DEF HistInv
<1>4. QED
  BY <1>2, <1>3 DEF HistInv, PassKeeps

(* Rounding up to whole headers: a stored block of n bytes takes one for  *)
(* each piece.                                                             *)
LEMMA DivUnique ==
  ASSUME NEW x \in Nat, NEW m \in Nat \ {0}, NEW q \in Nat, m * q <= x, x < m * q + m
  PROVE  x \div m = q
OBVIOUS

LEMMA DivBounds ==
  ASSUME NEW x \in Nat, NEW m \in Nat \ {0}
  PROVE  x \div m \in Nat /\ m * (x \div m) <= x /\ x < m * (x \div m) + m
OBVIOUS

LEMMA HeadersOfBlock ==
  ASSUME NEW n \in Nat
  PROVE  /\ Headers(n) \in Nat
         /\ n > 0 => Headers(n) = 1 + Headers(n - Least(n, MaxStored))
<1>1. MaxStored \in Nat \ {0} /\ n + MaxStored - 1 \in Nat
  BY BufferAssumption
<1>2. Headers(n) \in Nat
  BY <1>1, DivBounds DEF Headers
<1>3. ASSUME n > 0, n <= MaxStored
      PROVE  Headers(n) = 1 + Headers(n - Least(n, MaxStored))
  <2>1. n - Least(n, MaxStored) = 0
    BY <1>3, <1>1 DEF Least
  <2>2. (0 + MaxStored - 1) \div MaxStored = 0
    BY <1>1, DivUnique
  <2>3. (n + MaxStored - 1) \div MaxStored = 1
    <3>1. MaxStored * 1 <= n + MaxStored - 1 /\ n + MaxStored - 1 < MaxStored * 1 + MaxStored
      BY <1>1, <1>3
    <3>2. QED
      BY <1>1, <3>1, DivUnique
  <2>4. QED
    BY <2>1, <2>2, <2>3 DEF Headers
<1>4. ASSUME n > MaxStored
      PROVE  Headers(n) = 1 + Headers(n - Least(n, MaxStored))
  <2>1. n - Least(n, MaxStored) = n - MaxStored /\ n - MaxStored \in Nat
    BY <1>1, <1>4 DEF Least
  <2>2. PICK q \in Nat : Headers(n - MaxStored) = q /\ MaxStored * q <= n - MaxStored + MaxStored - 1
                         /\ n - MaxStored + MaxStored - 1 < MaxStored * q + MaxStored
    <3>1. n - MaxStored + MaxStored - 1 \in Nat
      BY <1>1, <2>1
    <3>2. QED
      BY <1>1, <3>1, DivBounds DEF Headers
  <2>3. MaxStored * (q + 1) = MaxStored * q + MaxStored
    BY <1>1
  <2>4. MaxStored * q \in Nat
    BY <1>1
  <2>5. MaxStored * (q + 1) <= n + MaxStored - 1 /\ n + MaxStored - 1 < MaxStored * (q + 1) + MaxStored
    BY <1>1, <2>2, <2>3, <2>4
  <2>6. (n + MaxStored - 1) \div MaxStored = q + 1
    BY <1>1, <2>5, DivUnique
  <2>7. QED
    BY <2>1, <2>2, <2>6 DEF Headers
<1>5. QED
  BY <1>1, <1>2, <1>3, <1>4

LEMMA StoredOfPass ==
  ASSUME Types, Control, CountInv, BlockInv, StoredInv, PassStep, PassKeeps, level # 3,
         state' \in Type0
  PROVE  StoredInv'
<1>1. /\ block_next \in Nat /\ block_end \in Nat /\ count \in Nat /\ room \in Nat
      /\ done \in Nat /\ total_start \in Nat /\ total_in \in Nat /\ Pos \in Nat
      /\ b_bytes_processed \in Nat /\ b_bytes_valid \in Nat /\ BufSize \in Nat
      /\ MaxStored \in Nat \ {0}
  BY PosStep, BufLen, BufferAssumption DEF Types, b_bytes_valid, BufSize
<1>2. level # 0 /\ block_end = Pos
  <2>1. level # 0
    BY ControlOfPass DEF Control, PassKeeps
  <2>2. QED
    BY <2>1 DEF BlockInv
<1>3. pc' \in {"pass", "settle"} /\ (External' <=> ~internal) /\ b_bytes_valid' = b_bytes_valid
      /\ (External <=> ~internal) /\ total_start' = total_start /\ total_in' = total_in
  BY DEF PassKeeps, External, b_bytes_valid
<1>4. CASE Drain
  <2>1. UNCHANGED <<state, block_next, block_end, count, done>> /\ pc = "drain"
    BY <1>4 DEF Drain, blockVars
  <2>2. Pos' = Pos /\ block_in_size' = block_in_size /\ room' \in Nat
    BY <2>1, PosStep DEF block_in_size, PassKeeps
  <2>3. Pos - block_next + Headers(block_in_size - (IF state = "TYPE0_BODY" THEN count ELSE 0))
          <= BufSize
    BY <1>1, <2>1 DEF StoredInv
  <2>4. block_in_size - (IF state = "TYPE0_BODY" THEN count ELSE 0) \in Nat
    BY <1>1, <2>1 DEF StoredInv, block_in_size
  <2>5. Headers(block_in_size - (IF state = "TYPE0_BODY" THEN count ELSE 0)) \in Nat
    BY <2>4, HeadersOfBlock
  <2>6. Pos - block_next + Headers(block_in_size - (IF state = "TYPE0_BODY" THEN count ELSE 0))
          <= BufSize + (IF pc' = "pass" THEN room' ELSE 0)
    BY <1>1, <2>2, <2>3, <2>5
  <2>7. QED
    BY <1>3, <2>1, <2>2, <2>6 DEF StoredInv
<1>5. CASE create_icf_block_hdr
  <2>1. /\ block_in_size > 0 /\ Readable /\ FitsBuffer /\ state' = "TYPE0_HDR"
        /\ UNCHANGED <<block_next, block_end, count, done, room, pc>> /\ pc = "pass"
    BY <1>5 DEF create_icf_block_hdr, Type0
  <2>2. Pos' = Pos /\ block_in_size' = block_in_size
    BY <2>1, PosStep DEF block_in_size
  <2>3. block_next < block_end /\ block_in_size \in Nat /\ block_in_size = Pos - block_next
    BY <1>1, <1>2, <2>1 DEF block_in_size
  <2>4. Headers(block_in_size) \in Nat
    BY <2>3, HeadersOfBlock
  <2>5. Pos - block_next + Headers(block_in_size) <= BufSize + room
    <3>1. Headers(block_in_size) + block_in_size <= room + BufSize - (Pos - block_end)
      BY <2>1 DEF FitsBuffer, block_size, Headers
    <3>2. QED
      BY <1>1, <1>2, <2>3, <2>4, <3>1
  <2>6. IF internal THEN total_in - b_bytes_valid <= block_next ELSE total_start <= block_next
    <3>1. CASE internal
      <4>1. b_bytes_processed + done >= Pos - block_next
        BY <2>1, <3>1 DEF Readable, cur_in_processed, block_start_offset
      <4>2. Pos = total_in - (b_bytes_valid - b_bytes_processed) + done
        BY DEF Pos, buffered_size
      <4>3. QED
        BY <1>1, <3>1, <4>1, <4>2
    <3>2. CASE ~internal
      <4>1. Pos - total_start >= Pos - block_next
        BY <2>1, <3>2 DEF Readable, cur_in_processed, block_start_offset
      <4>2. QED
        BY <1>1, <3>2, <4>1
    <3>3. QED
      BY <3>1, <3>2
  <2>7. block_in_size - 0 = block_in_size
    BY <2>3
  <2>8. QED
    BY <1>3, <2>1, <2>2, <2>3, <2>5, <2>6, <2>7 DEF StoredInv
<1>6. CASE write_type0_header
  <2>1. /\ state = "TYPE0_HDR" /\ pc = "pass" /\ state \in Type0
        /\ UNCHANGED <<block_next, block_end, done>>
    BY <1>6 DEF write_type0_header, Type0
  <2>2. Pos' = Pos /\ block_in_size' = block_in_size
    BY <2>1, PosStep DEF block_in_size
  <2>3. /\ block_next < block_end /\ block_in_size \in Nat /\ block_in_size > 0
        /\ block_in_size - 0 = block_in_size
    BY <1>1, <2>1 DEF block_in_size, StoredInv
  <2>4. IF internal THEN total_in - b_bytes_valid <= block_next ELSE total_start <= block_next
    BY <1>3, <2>1 DEF StoredInv
  <2>5. Pos - block_next + Headers(block_in_size) <= BufSize + room
    BY <2>1, <2>3 DEF StoredInv
  <2>6. CASE room > 0
    <3>1. /\ room' = room - 1 /\ count' = Least(block_in_size, MaxStored)
          /\ state' = "TYPE0_BODY" /\ pc' = "pass"
      BY <1>6, <2>1, <2>6 DEF write_type0_header
    <3>2. 0 < Least(block_in_size, MaxStored) /\ Least(block_in_size, MaxStored) <= block_in_size
      BY <1>1, <2>3 DEF Least
    <3>3. /\ Headers(block_in_size) = 1 + Headers(block_in_size - Least(block_in_size, MaxStored))
          /\ block_in_size - Least(block_in_size, MaxStored) \in Nat
      BY <1>1, <2>3, HeadersOfBlock DEF Least
    <3>4. Headers(block_in_size - Least(block_in_size, MaxStored)) \in Nat
      BY <3>3, HeadersOfBlock
    <3>5. Pos - block_next + Headers(block_in_size - Least(block_in_size, MaxStored))
            <= BufSize + (room - 1)
      BY <1>1, <2>5, <3>3, <3>4
    <3>6. QED
      BY <1>3, <2>1, <2>2, <2>3, <2>4, <3>1, <3>2, <3>5 DEF StoredInv
  <2>7. CASE ~(room > 0)
    <3>1. room = 0 /\ state' = "TYPE0_HDR" /\ UNCHANGED count /\ pc' = "settle"
      BY <1>1, <1>6, <2>1, <2>7 DEF write_type0_header, OutputFull
    <3>2. Headers(block_in_size) \in Nat
      BY <2>3, HeadersOfBlock
    <3>3. Pos - block_next + Headers(block_in_size) <= BufSize
      BY <1>1, <2>5, <3>1, <3>2
    <3>4. Pos - block_next + Headers(block_in_size) <= BufSize + 0
      BY <1>1, <3>3
    <3>5. QED
      BY <1>3, <2>1, <2>2, <2>3, <2>4, <3>1, <3>4 DEF StoredInv
  <2>8. QED
    BY <2>6, <2>7
<1>7. CASE write_stored_block
  <2>1. PICK c \in 0..count :
           /\ block_next' = block_next + c /\ count' = count - c
           /\ room' = room - c /\ c <= room /\ (c = count \/ c = room)
           /\ block_next + c <= block_end
           /\ (c = count) <=> (state' # "TYPE0_BODY")
           /\ state' = "TYPE0_HDR" => block_next + c # block_end
           /\ UNCHANGED <<block_end, done>>
    BY <1>2, <1>7, CopySize DEF InBlock
  <2>2. state = "TYPE0_BODY" /\ pc = "pass" /\ state \in Type0
    BY <1>7 DEF write_stored_block, Type0
  <2>3. Pos' = Pos /\ block_in_size' = block_end - (block_next + c)
    BY <2>1, PosStep DEF block_in_size
  <2>4. block_next < block_end /\ 0 < count /\ count <= block_end - block_next
    BY <2>2 DEF StoredInv, block_in_size
  <2>5. IF internal THEN total_in - b_bytes_valid <= block_next ELSE total_start <= block_next
    BY <1>3, <2>2 DEF StoredInv
  <2>6. IF internal THEN total_in - b_bytes_valid <= block_next + c ELSE total_start <= block_next + c
    BY <1>1, <2>5
  <2>7. Pos - block_next + Headers(block_end - block_next - count) <= BufSize + room
    BY <2>2 DEF StoredInv, block_in_size
  <2>8. Headers(block_end - block_next - count) \in Nat
    <3>1. block_end - block_next - count \in Nat
      BY <1>1, <2>4
    <3>2. QED
      BY <3>1, HeadersOfBlock
  <2>9. Pos - (block_next + c) + Headers(block_end - block_next - count) <= BufSize + (room - c)
    BY <1>1, <2>7, <2>8
  <2>10. CASE c = count
    <3>1. state' = "TYPE0_HDR" /\ block_next + c < block_end
      BY <1>1, <2>1, <2>10 DEF Type0
    <3>2. block_end - (block_next + c) - 0 = block_end - block_next - count
      BY <1>1, <2>10
    <3>3. pc' = "pass"
      BY <1>7, <2>2, <3>1 DEF write_stored_block
    <3>4. QED
      BY <1>3, <2>1, <2>3, <2>6, <2>9, <3>1, <3>2, <3>3 DEF StoredInv
  <2>11. CASE c # count
    <3>1. state' = "TYPE0_BODY" /\ c = room /\ c < count
      BY <1>1, <2>1, <2>11
    <3>2. block_end - (block_next + c) - (count - c) = block_end - block_next - count
      BY <1>1
    <3>3. block_next + c < block_end /\ 0 < count - c /\ count - c <= block_end - (block_next + c)
      BY <1>1, <2>4, <3>1
    <3>4. Pos - (block_next + c) + Headers(block_end - block_next - count)
            <= BufSize + (IF pc' = "pass" THEN room - c ELSE 0)
      BY <1>1, <2>8, <2>9, <3>1
    <3>5. QED
      BY <1>3, <2>1, <2>3, <2>6, <3>1, <3>2, <3>3, <3>4 DEF StoredInv
  <2>12. QED
    BY <2>10, <2>11
<1>8. QED
  <2>1. CASE NewBlock \/ Body \/ Finish \/ sync_flush \/ write_trailer \/ flush_icf_block
    BY <2>1 DEF NewBlock, Body, Finish, sync_flush, write_trailer, flush_icf_block, Type0
  <2>2. QED
    BY <1>4, <1>5, <1>6, <1>7, <2>1 DEF PassStep

-----------------------------------------------------------------------------
(* Numbered bytes behind a sequence, and a sequence without its first.     *)
LEMMA Numbers ==
  ASSUME NEW x \in Int, NEW t \in Nat
  PROVE  /\ [i \in 1..t |-> x + i] \in Seq(Int)
         /\ Len([i \in 1..t |-> x + i]) = t
         /\ \A j \in 1..t : [i \in 1..t |-> x + i][j] = x + j
<1>1. [i \in 1..t |-> x + i] \in [1..t -> Int]
  OBVIOUS
<1>2. [i \in 1..t |-> x + i] \in Seq(Int)
  BY <1>1, SeqDef
<1>3. Len([i \in 1..t |-> x + i]) \in Nat /\ DOMAIN [i \in 1..t |-> x + i] = 1..Len([i \in 1..t |-> x + i])
  BY <1>2, LenProperties
<1>4. Len([i \in 1..t |-> x + i]) = t
  BY <1>1, <1>2, LenProperties
<1>5. QED
  BY <1>2, <1>4

LEMMA Appended ==
  ASSUME NEW s \in Seq(Int), NEW x \in Int, NEW t \in Nat, NEW r,
         r = s \o [i \in 1..t |-> x + i]
  PROVE  /\ r \in Seq(Int) /\ Len(r) = Len(s) + t
         /\ \A i \in 1..Len(s) : r[i] = s[i]
         /\ \A i \in 1..Len(r) : i > Len(s) => r[i] = x + (i - Len(s))
<1> DEFINE q == [i \in 1..t |-> x + i]
<1>1. q \in Seq(Int) /\ Len(q) = t /\ \A j \in 1..t : q[j] = x + j
  BY Numbers
<1> HIDE DEF q
<1>2. r = s \o q
  BY DEF q
<1>3. r \in Seq(Int) /\ Len(r) = Len(s) + t
      /\ \A i \in 1..(Len(s) + t) : r[i] = IF i <= Len(s) THEN s[i] ELSE q[i - Len(s)]
  BY <1>1, <1>2, ConcatProperties
<1>4. Len(s) \in Nat
  BY LenProperties
<1>5. \A i \in 1..Len(s) : r[i] = s[i]
  BY <1>3, <1>4
<1>6. \A i \in 1..Len(r) : i > Len(s) => i - Len(s) \in 1..t
  <2>1. SUFFICES ASSUME NEW i \in 1..(Len(s) + t), i > Len(s)  PROVE i - Len(s) \in 1..t
    BY <1>3
  <2>2. QED
    BY <1>4, <2>1
<1>7. \A i \in 1..Len(r) : i > Len(s) => r[i] = q[i - Len(s)]
  <2>1. SUFFICES ASSUME NEW i \in 1..Len(r), i > Len(s)  PROVE r[i] = q[i - Len(s)]
    OBVIOUS
  <2>2. i \in 1..(Len(s) + t) /\ ~(i <= Len(s))
    BY <1>3, <1>4, <2>1
  <2>3. QED
    BY <1>3, <2>2
<1>8. QED
  BY <1>1, <1>3, <1>5, <1>6, <1>7

LEMMA Dropped ==
  ASSUME NEW s \in Seq(Int), NEW k \in 0..Len(s)
  PROVE  /\ SubSeq(s, k + 1, Len(s)) \in Seq(Int)
         /\ Len(SubSeq(s, k + 1, Len(s))) = Len(s) - k
         /\ \A i \in 1..(Len(s) - k) : SubSeq(s, k + 1, Len(s))[i] = s[k + i]
<1>1. Len(s) \in Nat
  BY LenProperties
<1>2. k + 1 \in 1..(Len(s) + 1) /\ Len(s) \in k..Len(s)
  BY <1>1
<1> DEFINE r == SubSeq(s, k + 1, Len(s))
<1>3. r \in Seq(Int) /\ Len(r) = (IF k + 1 <= Len(s) THEN Len(s) - (k + 1) + 1 ELSE 0)
      /\ \A i \in 1..(Len(s) - (k + 1) + 1) : r[i] = s[k + 1 + i - 1]
  BY <1>1, <1>2, SubSeqProperties
<1>4. Len(r) = Len(s) - k
  BY <1>1, <1>3
<1>5. Len(s) - (k + 1) + 1 = Len(s) - k /\ \A i \in 1..(Len(s) - k) : k + 1 + i - 1 = k + i
  BY <1>1
<1>6. QED
  BY <1>3, <1>4, <1>5

(* The buffer slides by k bytes and takes t bytes of input.                *)
Slides(k, t) ==
  /\ k \in 0..b_bytes_processed /\ k <= b_bytes_valid /\ (k = 0 \/ k = b_bytes_processed - hist_size)
  /\ t \in Nat /\ t <= avail_in /\ b_bytes_valid - k + t <= BufSize
  /\ buffer' \in Seq(Int) /\ b_bytes_valid' = b_bytes_valid - k + t
  /\ \A i \in 1..(b_bytes_valid - k) : buffer'[i] = buffer[k + i]
  /\ \A i \in 1..b_bytes_valid' :
       i > b_bytes_valid - k => buffer'[i] = total_in + (i - (b_bytes_valid - k))
  /\ b_bytes_processed' = b_bytes_processed - k
  /\ avail_in' = avail_in - t /\ total_in' = total_in + t

LEMMA SlideOfRound ==
  ASSUME Types, CountInv, RoundInternal
  PROVE  Slides(Slide, Taken)
<1> DEFINE k == Slide
           t == Taken
<1>1. /\ b_bytes_processed \in Nat /\ hist_size \in Nat /\ avail_in \in Nat /\ total_in \in Nat
      /\ b_bytes_valid \in Nat /\ BufSize \in Nat
      /\ b_bytes_processed <= b_bytes_valid /\ b_bytes_valid <= BufSize
  BY BufLen, BufferAssumption DEF Types, CountInv, b_bytes_valid, BufSize
<1>2. k \in 0..b_bytes_processed /\ (k = 0 \/ k = b_bytes_processed - hist_size) /\ k <= b_bytes_valid
  BY <1>1 DEF Slide, Greatest
<1>3. t \in Nat /\ t <= avail_in /\ b_bytes_valid - k + t <= BufSize
  <2>1. t = Least(avail_in, BufSize - (b_bytes_valid - k))
    BY DEF Taken
  <2> HIDE DEF t, k
  <2>2. QED
    BY <1>1, <1>2, <2>1 DEF Least
<1>4. /\ buffer' = SubSeq(buffer, k + 1, b_bytes_valid) \o [i \in 1..t |-> total_in + i]
      /\ b_bytes_processed' = b_bytes_processed - k
      /\ avail_in' = avail_in - t /\ total_in' = total_in + t
  BY DEF RoundInternal
<1> HIDE DEF t, k
<1> DEFINE kept == SubSeq(buffer, k + 1, b_bytes_valid)
<1>5. buffer \in Seq(Int) /\ k \in 0..Len(buffer) /\ b_bytes_valid = Len(buffer)
  BY <1>1, <1>2 DEF Types, b_bytes_valid
<1>6. /\ kept \in Seq(Int) /\ Len(kept) = b_bytes_valid - k
      /\ \A i \in 1..(b_bytes_valid - k) : kept[i] = buffer[k + i]
  BY <1>5, Dropped
<1> HIDE DEF kept
<1>7. buffer' = kept \o [i \in 1..t |-> total_in + i]
  BY <1>4 DEF kept
<1>8. /\ buffer' \in Seq(Int) /\ Len(buffer') = Len(kept) + t
      /\ \A i \in 1..Len(kept) : buffer'[i] = kept[i]
      /\ \A i \in 1..Len(buffer') : i > Len(kept) => buffer'[i] = total_in + (i - Len(kept))
  <2> DEFINE r == buffer'
  <2>1. r = kept \o [i \in 1..t |-> total_in + i]
    BY <1>7
  <2> HIDE DEF r
  <2>2. total_in \in Int
    BY <1>1
  <2>3. kept \in Seq(Int) /\ t \in Nat
    BY <1>3, <1>6
  <2>4. /\ r \in Seq(Int) /\ Len(r) = Len(kept) + t
        /\ \A i \in 1..Len(kept) : r[i] = kept[i]
        /\ \A i \in 1..Len(r) : i > Len(kept) => r[i] = total_in + (i - Len(kept))
    BY <2>1, <2>2, <2>3, Appended
  <2>5. QED
    BY <2>4 DEF r
<1>9. b_bytes_valid' = Len(buffer')
  BY DEF b_bytes_valid
<1>10. QED
  <2>1. /\ \A i \in 1..(b_bytes_valid - k) : buffer'[i] = buffer[k + i]
        /\ b_bytes_valid' = b_bytes_valid - k + t
    BY <1>6, <1>8, <1>9
  <2>2. \A i \in 1..b_bytes_valid' :
          i > b_bytes_valid - k => buffer'[i] = total_in + (i - (b_bytes_valid - k))
    BY <1>6, <1>8, <1>9
  <2>3. Slides(k, t)
    BY <1>2, <1>3, <1>4, <1>8, <2>1, <2>2 DEF Slides
  <2>4. QED
    BY <2>3 DEF k, t

LEMMA RoundInternalKeeps ==
  ASSUME IInv, RoundInternal
  PROVE  IInv'
<1> DEFINE V == b_bytes_valid
           P == b_bytes_processed
<1>1. /\ P \in Nat /\ hist_size \in Nat /\ avail_in \in Nat /\ total_in \in Nat
      /\ V \in Nat /\ BufSize \in Nat /\ P <= V /\ V <= BufSize /\ base \in Nat
      /\ total_start \in Nat /\ total_in + avail_in <= MaxIn
  BY BufLen, BufferAssumption DEF IInv, Types, CountInv, b_bytes_valid, BufSize
<1>2. PICK k \in Int, t \in Int : Slides(k, t) /\ k = Slide /\ t = Taken
  <2>1. Slides(Slide, Taken)
    BY SlideOfRound DEF IInv
  <2>2. Slide \in Int /\ Taken \in Int
    BY <2>1, <1>1 DEF Slides
  <2>3. QED
    BY <2>1, <2>2
<1>3. /\ k \in Nat /\ k <= P /\ k <= V /\ (k = 0 \/ k = P - hist_size)
      /\ t \in Nat /\ t <= avail_in /\ V - k + t <= BufSize
      /\ b_bytes_valid' = V - k + t /\ b_bytes_processed' = P - k
      /\ avail_in' = avail_in - t /\ total_in' = total_in + t
  <2>1. /\ k \in 0..P /\ k <= V /\ (k = 0 \/ k = P - hist_size)
        /\ t \in Nat /\ t <= avail_in /\ V - k + t <= BufSize
        /\ b_bytes_valid' = V - k + t
    BY <1>2 DEF Slides
  <2>2. /\ b_bytes_processed' = P - k
        /\ avail_in' = avail_in - t /\ total_in' = total_in + t
    BY <1>2 DEF Slides
  <2>3. k \in Nat /\ k <= P
    BY <1>1, <2>1
  <2>4. QED
    BY <2>1, <2>2, <2>3
<1>4. /\ pc = "round" /\ internal' = TRUE /\ done' = 0 /\ done = 0
      /\ pc' \in {"drain", "return"}
      /\ UNCHANGED <<level, room, flush, end_of_stream, state, tmp, has_hist, block_next,
                     block_end, count, held, total_start, hist_size, oldest, base, dict, written>>
      /\ ~External /\ ~External'
  BY DEF RoundInternal, IInv, CountInv, External, userVars, blockVars, winVars
<1> HIDE DEF V, P
<1>5. V = b_bytes_valid /\ P = b_bytes_processed
  BY DEF V, P
<1>6. buffered_size = V - P /\ buffered_size' = (V - k + t) - (P - k)
  BY <1>3, <1>5 DEF buffered_size
<1>7. buffered_size' = (V - P) + t /\ buffered_size' \in Nat /\ V - P \in Nat
  BY <1>1, <1>3, <1>6
<1>8. Pos' = Pos
  <2>1. Pos = total_in - (V - P) + 0 /\ Pos' = (total_in + t) - ((V - P) + t) + 0
    BY <1>3, <1>4, <1>6, <1>7 DEF Pos
  <2>2. QED
    BY <1>1, <1>3, <1>7, <2>1
<1>9. Types'
  <2>1. buffer' \in Seq(Int)
    BY <1>2 DEF Slides
  <2>2. P - k \in Nat /\ avail_in - t \in Nat /\ total_in + t \in Nat
    BY <1>1, <1>3
  <2>3. buf_hist_start' \in Nat
    <3>1. buf_hist_start' = Greatest(0, buf_hist_start - k)
      BY <1>2 DEF RoundInternal
    <3>2. QED
      BY <1>3, <3>1 DEF Greatest, IInv, Types
  <2>4. masked' \in BOOLEAN
    BY DEF RoundInternal, EnoughBuffered, Masks
  <2>5. QED
    BY <1>3, <1>4, <2>1, <2>2, <2>3, <2>4 DEF IInv, Types
<1>10. Control'
  BY <1>4 DEF IInv, Control
<1>11. CountInv'
  <2>1. P - k <= V - k + t
    BY <1>1, <1>3
  <2>2. (total_in + t) + (avail_in - t) <= MaxIn /\ total_start <= total_in + t
    <3>1. total_start <= total_in
      BY <1>4 DEF IInv, CountInv
    <3>2. (total_in + t) + (avail_in - t) = total_in + avail_in
      BY <1>1, <1>3
    <3>3. QED
      BY <1>1, <1>3, <3>1, <3>2
  <2>3. base' <= Pos' /\ hist_size' <= BufSize
    BY <1>4, <1>8 DEF IInv, CountInv
  <2>4. done' <= (IF internal' THEN buffered_size' ELSE avail_in')
    <3>1. done' <= buffered_size'
      BY <1>4, <1>7
    <3>2. QED
      BY <1>4, <3>1
  <2>5. QED
    BY <1>3, <1>4, <2>1, <2>2, <2>3, <2>4 DEF CountInv
<1>12. BlockInv'
  BY <1>4, <1>8 DEF IInv, BlockInv
<1>13. ContentInv'
  <2>1. ASSUME state \notin {"TRL", "END"}, NEW i \in 1..b_bytes_valid',
               total_in' - b_bytes_valid' + i > base - dict
        PROVE  buffer'[i] = Source(total_in' - b_bytes_valid' + i)
    <3>1. i \in Nat /\ i >= 1 /\ i <= V - k + t /\ i \in Int
      BY <1>1, <1>3, <2>1
    <3>2. total_in' - b_bytes_valid' + i = (total_in + t) - (V - k + t) + i
      BY <1>3
    <3>3. total_in' - b_bytes_valid' + i = total_in - V + (k + i)
      BY <1>1, <1>3, <3>1, <3>2
    <3>4. CASE i <= V - k
      <4>1. i \in 1..(V - k) /\ k + i \in 1..V
        BY <1>1, <1>3, <3>1, <3>4
      <4>2. buffer'[i] = buffer[k + i]
        BY <1>2, <1>5, <4>1 DEF Slides
      <4>3. total_in - V + (k + i) > base - dict
        BY <2>1, <3>3
      <4>4. buffer[k + i] = Source(total_in - V + (k + i))
        BY <1>4, <1>5, <2>1, <4>1, <4>3 DEF IInv, ContentInv
      <4>5. QED
        BY <3>3, <4>2, <4>4
    <3>5. CASE ~(i <= V - k)
      <4>1. buffer'[i] = total_in + (i - (V - k))
        BY <1>1, <1>2, <1>3, <1>5, <3>1, <3>5 DEF Slides
      <4>2. total_in + (i - (V - k)) = total_in - V + (k + i)
        BY <1>1, <1>3, <3>1
      <4>3. base <= Pos /\ Pos = total_in - (V - P) + 0
        BY <1>4, <1>6 DEF IInv, CountInv, Pos
      <4>4. total_in - V + (k + i) > base
        BY <1>1, <1>3, <1>7, <3>1, <3>5, <4>3
      <4>5. QED
        BY <3>3, <4>1, <4>2, <4>4 DEF Source
    <3>6. QED
      BY <3>4, <3>5
  <2>2. dict > 0 => base <= total_start
    BY <1>4 DEF IInv, ContentInv
  <2>3. Source(total_in)' = Source(total_in') /\ base' = base /\ dict' = dict /\ state' = state
    BY <1>4 DEF Source
  <2>4. QED
    BY <1>4, <2>1, <2>2 DEF ContentInv, Source
<1>14. StoredInv'
  <2>1. SUFFICES ASSUME state \in Type0 PROVE StoredInv'
    BY <1>4 DEF StoredInv
  <2>2. /\ block_next < block_end /\ block_next \in Nat
        /\ state = "TYPE0_BODY" => 0 < count /\ count <= block_in_size
        /\ total_in - V <= block_next
        /\ total_in - (V - P) - hist_size <= block_next
        /\ Pos - block_next + Headers(block_in_size - (IF state = "TYPE0_BODY" THEN count ELSE 0))
             <= BufSize + 0
    BY <1>4, <1>5, <1>6, <2>1 DEF IInv, StoredInv, Types
  <2>3. (total_in + t) - (V - k + t) <= block_next
    BY <1>1, <1>3, <2>2
  <2>4. (total_in + t) - ((V - P) + t) - hist_size <= block_next
    BY <1>1, <1>3, <1>7, <2>2
  <2>5. block_in_size' = block_in_size
    BY <1>4 DEF block_in_size
  <2>6. QED
    BY <1>3, <1>4, <1>7, <1>8, <2>1, <2>2, <2>3, <2>4, <2>5 DEF StoredInv
<1>15. HistInv'
  <2>1. pc' = "drain" => (masked' <=> t < avail_in)
    BY <1>2 DEF RoundInternal, Masks
  <2>2. t < avail_in <=> avail_in - t > 0
    BY <1>1, <1>3
  <2>3. ~CopiesHistory'
    BY <1>4 DEF CopiesHistory
  <2>4. pc' = "drain" => (masked' <=> avail_in' > 0)
    BY <1>3, <2>1, <2>2
  <2>5. QED
    BY <1>4, <2>3, <2>4 DEF HistInv, InRound
<1>16. QED
  BY <1>9, <1>10, <1>11, <1>12, <1>13, <1>14, <1>15 DEF IInv

LEMMA RoundExternalKeeps ==
  ASSUME IInv, RoundExternal
  PROVE  IInv'
<1> DEFINE V == b_bytes_valid
           P == b_bytes_processed
           B == buffered_size
<1>1. /\ P \in Nat /\ hist_size \in Nat /\ avail_in \in Nat /\ total_in \in Nat
      /\ V \in Nat /\ BufSize \in Nat /\ P <= V /\ V <= BufSize /\ base \in Nat
      /\ total_start \in Nat /\ total_in + avail_in <= MaxIn /\ buf_hist_start \in Nat
      /\ B = V - P /\ HistSize \in Nat
  BY BufLen, BufferAssumption
     DEF IInv, Types, CountInv, b_bytes_valid, BufSize, buffered_size
<1>2. /\ pc = "round" /\ pc' = "drain" /\ done = 0 /\ done' = 0
      /\ internal' = FALSE /\ masked' = FALSE
      /\ UNCHANGED <<level, room, flush, end_of_stream, state, tmp, has_hist, block_next,
                     block_end, count, held, total_start, hist_size, buf_hist_start,
                     oldest, base, dict, written>>
      /\ ~External /\ External'
  BY DEF RoundExternal, IInv, CountInv, External, userVars, blockVars, winVars
<1>3. total_in - total_start >= hist_size + B
  BY <1>1 DEF RoundExternal, NeedsBuffer, IInv, CountInv
<1>4. /\ avail_in' = avail_in + B /\ total_in' = total_in - B
      /\ buffer' \in Seq(Int) /\ b_bytes_valid' \in Nat /\ b_bytes_processed' = b_bytes_valid'
      /\ b_bytes_valid' <= BufSize
      /\ b_bytes_processed' = P \/ b_bytes_processed' = 0
  <2>1. CASE B > 0
    <3>1. /\ avail_in' = avail_in + B /\ total_in' = total_in - B
          /\ buffer' = <<>> /\ b_bytes_processed' = 0
      BY <2>1 DEF RoundExternal
    <3>2. <<>> \in Seq(Int) /\ Len(<<>>) = 0
      BY EmptySeq
    <3>3. QED
      BY <1>1, <3>1, <3>2 DEF b_bytes_valid
  <2>2. CASE ~(B > 0)
    <3>1. B = 0
      BY <1>1, <2>2
    <3>2. UNCHANGED <<avail_in, total_in, buffer, b_bytes_processed>>
      BY <2>2 DEF RoundExternal, bufVars
    <3>3. avail_in + 0 = avail_in /\ total_in - 0 = total_in /\ P = V
      BY <1>1, <3>1
    <3>4. buffer \in Seq(Int)
      BY DEF IInv, Types
    <3>5. QED
      BY <1>1, <3>1, <3>2, <3>3, <3>4 DEF b_bytes_valid
  <2>3. QED
    BY <2>1, <2>2
<1> HIDE DEF V, P, B
<1>5. V = b_bytes_valid /\ P = b_bytes_processed /\ B = buffered_size
  BY DEF V, P, B
<1>6. B \in Nat /\ total_in - B \in Nat /\ avail_in + B \in Nat
      /\ total_in - B - total_start >= hist_size
  BY <1>1, <1>3
<1>7. buffered_size' = 0
  <2> DEFINE v == b_bytes_valid'
  <2>1. v \in Nat /\ buffered_size' = v - v
    BY <1>4 DEF buffered_size
  <2> HIDE DEF v
  <2>2. QED
    BY <2>1
<1>8. Pos = total_in - B /\ Pos' = Pos /\ total_in' = Pos /\ Seen' = avail_in + B
  <2>1. Pos = total_in - B + 0 /\ Pos' = (total_in - B) - 0 + 0
    BY <1>2, <1>4, <1>5, <1>7 DEF Pos
  <2>2. Seen' = (avail_in + B) - 0
    BY <1>2, <1>4 DEF Seen
  <2>3. QED
    BY <1>4, <1>6, <2>1, <2>2
<1>9. Types'
  <2>1. b_bytes_processed' \in Nat
    BY <1>4
  <2>2. QED
    BY <1>2, <1>4, <1>6, <2>1 DEF IInv, Types
<1>10. Control'
  BY <1>2 DEF IInv, Control
<1>11. CountInv'
  <2>1. b_bytes_processed' <= b_bytes_valid'
    <3> DEFINE v == b_bytes_valid'
    <3>1. v \in Nat /\ b_bytes_processed' = v
      BY <1>4
    <3> HIDE DEF v
    <3>2. v <= v
      BY <3>1
    <3>3. QED
      BY <3>1, <3>2 DEF v
  <2>2. (total_in - B) + (avail_in + B) <= MaxIn /\ total_start <= total_in - B
    <3>1. (total_in - B) + (avail_in + B) = total_in + avail_in
      BY <1>1, <1>6
    <3>2. QED
      BY <1>1, <1>6, <3>1
  <2>3. base' <= Pos' /\ hist_size' <= BufSize
    BY <1>2, <1>8 DEF IInv, CountInv
  <2>4. done' <= (IF internal' THEN buffered_size' ELSE avail_in')
    <3>1. 0 <= avail_in + B
      BY <1>6
    <3>2. QED
      BY <1>2, <1>4, <3>1
  <2>5. QED
    BY <1>2, <1>4, <1>7, <2>1, <2>2, <2>3, <2>4 DEF CountInv
<1>12. BlockInv'
  BY <1>2, <1>8 DEF IInv, BlockInv
<1>13. ContentInv'
  BY <1>2 DEF IInv, ContentInv
<1>14. StoredInv'
  <2>1. SUFFICES ASSUME state \in Type0 PROVE StoredInv'
    BY <1>2 DEF StoredInv
  <2>2. /\ block_next < block_end /\ block_next \in Nat
        /\ state = "TYPE0_BODY" => 0 < count /\ count <= block_in_size
        /\ total_in - B - hist_size <= block_next
        /\ Pos - block_next + Headers(block_in_size - (IF state = "TYPE0_BODY" THEN count ELSE 0))
             <= BufSize + 0
    BY <1>2, <1>5, <2>1 DEF IInv, StoredInv, Types
  <2>3. total_start <= block_next
    BY <1>1, <1>6, <2>2
  <2>4. block_in_size' = block_in_size
    BY <1>2 DEF block_in_size
  <2>5. QED
    BY <1>2, <1>8, <2>1, <2>2, <2>3, <2>4 DEF StoredInv
<1>15. HistInv'
  <2>1. \/ Least(HistSize, b_bytes_processed' - buf_hist_start) <= Pos - total_start
        \/ NothingToCome(avail_in + B, flush, end_of_stream) /\ Pos = total_start
    <3>1. CASE Least(HistSize, P - buf_hist_start) <= hist_size
      <4>1. hist_size <= Pos - total_start /\ 0 <= Pos - total_start
        BY <1>1, <1>6, <1>8
      <4>2. Least(HistSize, P - buf_hist_start) <= Pos - total_start
        BY <1>1, <1>6, <1>8, <3>1, <4>1 DEF Least
      <4>3. Least(HistSize, 0 - buf_hist_start) <= Pos - total_start
        BY <1>1, <1>6, <1>8, <4>1 DEF Least
      <4>4. QED
        BY <1>4, <4>2, <4>3
    <3>2. CASE NothingToCome(avail_in + B, flush, end_of_stream) /\ total_in = total_start
      <4>1. B = 0
        BY <1>1, <1>6, <3>2 DEF NothingToCome
      <4>2. Pos = total_start
        BY <1>1, <1>8, <3>2, <4>1
      <4>3. QED
        BY <3>2, <4>2
    <3>3. QED
      BY <1>2, <1>5, <3>1, <3>2 DEF IInv, HistInv
  <2>2. QED
    BY <1>2, <1>8, <2>1 DEF HistInv, InRound
<1>16. QED
  BY <1>9, <1>10, <1>11, <1>12, <1>13, <1>14, <1>15 DEF IInv

(* What get_hist_size answers, between what is needed and what there is.   *)
LEMMA HistSizeBounds ==
  ASSUME Types, NEW left \in Int, NEW f, NEW eos, NEW here \in Int, NEW hist \in Nat
  PROVE  LET h == get_hist_size(left, f, eos, hist, here)
             had == IF has_hist # "NO_HIST" THEN b_bytes_processed - buf_hist_start ELSE 0
         IN /\ h \in Nat
            /\ h <= HistSize \/ (state \in Type0 /\ h = here - block_next)
            /\ state \in Type0 => h >= here - block_next
            /\ state \in Type0 \/ ~NothingToCome(left, f, eos)
                 => h >= Least(HistSize, hist) /\ h >= Least(HistSize, had)
            /\ state \notin Type0 /\ NothingToCome(left, f, eos) => h = 0
            /\ h <= Greatest(had, hist) \/ h = 0 \/ (state \in Type0 /\ h = here - block_next)
<1> DEFINE had == IF has_hist # "NO_HIST" THEN b_bytes_processed - buf_hist_start ELSE 0
           size == Least(HistSize, Greatest(had, hist))
           h == get_hist_size(left, f, eos, hist, here)
<1>1. had \in Int /\ HistSize \in Nat /\ block_next \in Nat
  BY BufferAssumption DEF Types
<1>2. h = IF state \in Type0 THEN Greatest(size, here - block_next)
          ELSE IF NothingToCome(left, f, eos) THEN 0 ELSE size
  BY DEF get_hist_size
<1> HIDE DEF had, h
<1>3. size \in Nat /\ size <= HistSize /\ size <= Greatest(had, hist)
      /\ size >= Least(HistSize, hist) /\ size >= Least(HistSize, had)
  BY <1>1 DEF Least, Greatest
<1> HIDE DEF size
<1>4. CASE state \in Type0
  <2>1. \/ h = size /\ size >= here - block_next
        \/ h = here - block_next /\ size <= here - block_next
    <3> DEFINE x == here - block_next
    <3>1. x \in Int /\ size \in Int
      BY <1>1, <1>3
    <3>2. h = Greatest(size, x)
      BY <1>2, <1>4
    <3> HIDE DEF x
    <3>3. \/ h = size /\ size >= x
          \/ h = x /\ size <= x
      BY <3>1, <3>2 DEF Greatest
    <3>4. QED
      BY <3>3 DEF x
  <2>2. h \in Nat /\ h >= here - block_next /\ h >= size
    BY <1>1, <1>3, <2>1
  <2>3. Least(HistSize, hist) \in Int /\ Least(HistSize, had) \in Int
    BY <1>1, LeastGreatest
  <2>4. h >= Least(HistSize, hist) /\ h >= Least(HistSize, had)
    BY <1>3, <2>2, <2>3
  <2>5. QED
    BY <1>3, <1>4, <2>1, <2>2, <2>4 DEF h, had
<1>5. CASE state \notin Type0 /\ NothingToCome(left, f, eos)
  BY <1>1, <1>2, <1>5 DEF h, had
<1>6. CASE state \notin Type0 /\ ~NothingToCome(left, f, eos)
  BY <1>1, <1>2, <1>3, <1>6 DEF h, had
<1>7. QED
  BY <1>4, <1>5, <1>6

LEMMA CallKeeps ==
  ASSUME IInv, Call
  PROVE  IInv'
<1> DEFINE V == b_bytes_valid
           P == b_bytes_processed
           B == buffered_size
<1>1. /\ P \in Nat /\ avail_in \in Nat /\ total_in \in Nat
      /\ V \in Nat /\ P <= V /\ V <= BufSize /\ base \in Nat
      /\ block_next \in Nat /\ HistSize \in Nat /\ HistSize <= BufSize /\ BufSize \in Nat
      /\ B = V - P
  BY BufLen, BufferAssumption
     DEF IInv, Types, CountInv, b_bytes_valid, BufSize, buffered_size
<1>2. /\ pc = "idle" /\ pc' = "round" /\ done = 0 /\ done' = 0
      /\ internal = FALSE /\ internal' = FALSE /\ total_start' = total_in /\ buf_hist_start = 0
      /\ UNCHANGED <<level, total_in, state, tmp, buffer, b_bytes_processed, block_next,
                     block_end, count, held, masked, base, dict, written>>
      /\ ~External /\ ~External'
  BY DEF Call, IInv, Types, CountInv, External, bufVars, blockVars
<1>3. PICK n \in Chunks, r \in Rooms, f \in Flushes, eos \in BOOLEAN :
        /\ Given + n <= MaxIn /\ avail_in' = avail_in + n /\ room' = r
        /\ flush' = f /\ end_of_stream' = eos
        /\ hist_size' = get_hist_size(avail_in + n + B, f, eos, 0, total_in)
  BY DEF Call
<1>4. n \in Nat /\ r \in Nat /\ avail_in + n \in Nat
  BY <1>1, BufferAssumption
<1>5. V' = V /\ B' = B /\ Pos' = Pos /\ Pos = total_in - B + 0 /\ B \in Nat
  BY <1>1, <1>2 DEF b_bytes_valid, buffered_size, Pos
<1> HIDE DEF V, P, B
<1>6. base <= total_in
  <2>1. base <= Pos
    BY DEF IInv, CountInv
  <2>2. QED
    BY <1>1, <1>5, <2>1
<1>7. state \in Type0 => total_in - V <= block_next
  BY <1>2 DEF IInv, StoredInv, V
<1> DEFINE h == get_hist_size(avail_in + n + B, f, eos, 0, total_in)
           had == IF has_hist # "NO_HIST" THEN P - buf_hist_start ELSE 0
<1>8. /\ h \in Nat
      /\ h <= HistSize \/ (state \in Type0 /\ h = total_in - block_next)
      /\ state \in Type0 => h >= total_in - block_next
      /\ state \in Type0 \/ ~NothingToCome(avail_in + n + B, f, eos) => h >= Least(HistSize, had)
  <2>1. avail_in + n + B \in Int /\ total_in \in Int /\ 0 \in Nat
    BY <1>1, <1>4, <1>5
  <2>2. QED
    BY <2>1, HistSizeBounds DEF IInv, P
<1> HIDE DEF h
<1>9. hist_size' = h
  BY <1>3 DEF h
<1>10. h <= BufSize
  BY <1>1, <1>7, <1>8
<1>11. Least(HistSize, b_bytes_processed' - buf_hist_start') <= Least(HistSize, had)
       /\ buf_hist_start' \in Nat /\ 0 <= h
  <2>1. CASE has_hist = "NO_HIST"
    <3>1. b_bytes_processed' = P /\ buf_hist_start' = P /\ had = 0
      BY <1>2, <2>1 DEF Call, P
    <3>2. P - P = 0 /\ Least(HistSize, 0) <= Least(HistSize, 0)
      BY <1>1 DEF Least
    <3>3. QED
      BY <1>1, <1>8, <3>1, <3>2
  <2>2. CASE has_hist # "NO_HIST"
    <3>1. b_bytes_processed' = P /\ buf_hist_start' = 0 /\ had = P - 0
      BY <1>2, <2>2 DEF Call, P
    <3>2. Least(HistSize, P - 0) <= Least(HistSize, P - 0)
      BY <1>1 DEF Least
    <3>3. QED
      BY <1>8, <3>1, <3>2
  <2>3. QED
    BY <2>1, <2>2
<1>12. has_hist' \in {"NO_HIST", "HIST", "DICT_HIST", "DICT_HASH_SET"} /\ oldest' \in Int
  <2>1. has_hist' = has_hist \/ has_hist' = "HIST"
    BY DEF Call
  <2>2. Pos \in Int /\ Least(-1, total_in - P) \in Int
    <3>1. -1 \in Int /\ total_in - P \in Int
      BY <1>1
    <3>2. QED
      BY <1>1, <1>5, <3>1, LeastGreatest
  <2>3. oldest' = oldest \/ oldest' = Pos \/ oldest' = Least(-1, total_in - P)
    BY DEF Call, P
  <2>4. QED
    BY <2>1, <2>2, <2>3 DEF IInv, Types, Control
<1>13. Types'
  BY <1>1, <1>2, <1>3, <1>4, <1>8, <1>9, <1>11, <1>12 DEF IInv, Types
<1>14. Control'
  BY <1>2, <1>12 DEF IInv, Control
<1>15. CountInv'
  <2>1. total_in + (avail_in + n) <= MaxIn
    <3>1. total_in + avail_in + n <= MaxIn
      BY <1>3 DEF Given
    <3>2. QED
      BY <1>1, <1>4, <3>1
  <2>2. total_in <= total_in
    BY <1>1
  <2>3. QED
    BY <1>2, <1>3, <1>5, <1>9, <1>10, <2>1, <2>2 DEF IInv, CountInv, V, InRound
<1>16. BlockInv'
  BY <1>2, <1>5 DEF IInv, BlockInv
<1>17. ContentInv'
  BY <1>2, <1>5, <1>6 DEF IInv, ContentInv, Source, V
<1>18. StoredInv'
  <2>1. SUFFICES ASSUME state \in Type0 PROVE StoredInv'
    BY <1>2 DEF StoredInv
  <2>2. total_in - B - h <= block_next
    BY <1>1, <1>5, <1>8, <2>1
  <2>3. block_in_size' = block_in_size
    BY <1>2 DEF block_in_size
  <2>4. QED
    BY <1>2, <1>5, <1>9, <2>1, <2>2, <2>3 DEF IInv, StoredInv, V, B
<1>19. HistInv'
  <2>1. \/ Least(HistSize, b_bytes_processed' - buf_hist_start') <= h
        \/ NothingToCome(avail_in + n + B, f, eos)
    <3>1. Least(HistSize, had) \in Int /\ Least(HistSize, b_bytes_processed' - buf_hist_start') \in Int
      <4>1. had \in Int
        BY <1>1, <1>2
      <4>2. b_bytes_processed' = P
        BY <1>2 DEF P
      <4>3. \A x \in Nat : P - x \in Int /\ Least(HistSize, P - x) \in Int
        BY <1>1 DEF Least
      <4>4. Least(HistSize, b_bytes_processed' - buf_hist_start') \in Int
        BY <1>11, <4>2, <4>3
      <4>5. HistSize \in Int
        BY <1>1
      <4>6. QED
        BY <4>1, <4>4, <4>5, LeastGreatest
    <3>2. QED
      BY <1>8, <1>11, <3>1
  <2>2. QED
    BY <1>2, <1>3, <1>5, <1>9, <2>1 DEF HistInv, InRound, B
<1>20. QED
  BY <1>13, <1>14, <1>15, <1>16, <1>17, <1>18, <1>19 DEF IInv

LEMMA HadBounds ==
  ASSUME NEW s \in Nat, NEW p \in Int, NEW x \in Nat, NEW q \in {p, 0}, NEW h \in Nat,
         Least(s, p) <= x, h <= s
  PROVE  h <= Greatest(q, x) => h <= x
BY DEF Least, Greatest

LEMMA SettleKeeps ==
  ASSUME IInv, Settle
  PROVE  IInv'
<1> DEFINE V == b_bytes_valid
           P == b_bytes_processed
           B == buffered_size
           X == Pos - total_start
           left == IF internal THEN Seen + B ELSE Seen
           h == get_hist_size(left, FlushSeen, EndSeen, cur_in_processed, Pos)
           had == IF has_hist # "NO_HIST" THEN P - buf_hist_start ELSE 0
<1>1. pc = "settle" /\ InRound
  BY DEF Settle, InRound
<1>2. /\ P \in Nat /\ avail_in \in Nat /\ total_in \in Nat /\ total_start \in Nat
      /\ V \in Nat /\ P <= V /\ V <= BufSize /\ base \in Nat /\ done \in Nat
      /\ block_next \in Nat /\ block_end \in Nat /\ count \in Nat /\ MaxStored \in Nat \ {0}
      /\ HistSize \in Nat /\ HistSize <= BufSize /\ BufSize \in Nat
      /\ buf_hist_start \in Nat /\ B = V - P /\ B \in Nat /\ total_start <= total_in
      /\ total_in + avail_in <= MaxIn
  BY BufLen, BufferAssumption
     DEF IInv, Types, CountInv, b_bytes_valid, BufSize, buffered_size
<1>3. /\ hist_size' = h /\ done' = 0 /\ masked' = FALSE /\ pc' \in {"round", "return"}
      /\ pc' = "round" => internal /\ avail_in > 0
      /\ UNCHANGED <<level, room, flush, end_of_stream, state, tmp, has_hist, buffer,
                     block_next, block_end, count, held, total_start, buf_hist_start, internal,
                     oldest, base, dict, written>>
  BY DEF Settle, userVars, blockVars, winVars
<1>4. Seen \in Nat /\ Pos \in Int /\ Pos = total_in - B + done
  BY <1>1, SeenType DEF IInv, Pos
<1>5. base <= Pos /\ Pos \in Nat
  BY <1>2, <1>4 DEF IInv, CountInv
<1>6. V' = V
  BY <1>3 DEF b_bytes_valid
<1>7. CASE internal
  <2>1. /\ b_bytes_processed' = P + done /\ avail_in' = avail_in /\ total_in' = total_in
    BY <1>7 DEF Settle
  <2>2. Seen = B - done /\ cur_in_processed = P + done
    BY <1>7 DEF Seen, cur_in_processed
  <2>3. B - done \in Nat /\ P + done \in Nat /\ P + done <= V
    BY <1>2, <1>4, <2>2
  <2>4. buffered_size' = B - done
    <3>1. buffered_size' = V - (P + done)
      BY <1>6, <2>1 DEF buffered_size
    <3>2. QED
      BY <1>2, <3>1
  <2>5. Pos' = Pos /\ ~External /\ ~External'
    <3>1. Pos' = total_in - (B - done) + 0
      BY <1>3, <2>1, <2>4 DEF Pos
    <3>2. QED
      BY <1>2, <1>3, <1>4, <1>7, <2>3, <3>1 DEF External
  <2>6. total_in' = total_in /\ total_in - buffered_size' = Pos
    BY <1>2, <1>4, <2>1, <2>3, <2>4
  <2> DEFINE cur == P + done
  <2>7. /\ h \in Nat
        /\ h <= HistSize \/ (state \in Type0 /\ h = Pos - block_next)
        /\ state \in Type0 => h >= Pos - block_next
        /\ state \in Type0 \/ ~NothingToCome(left, FlushSeen, EndSeen) => h >= Least(HistSize, cur)
    <3>1. left \in Int /\ cur_in_processed \in Nat /\ cur_in_processed = cur
      BY <1>2, <1>4, <2>2, <2>3
    <3>2. QED
      BY <1>4, <3>1, HistSizeBounds DEF IInv
  <2> HIDE DEF V, P, B, h
  <2>8. state \in Type0 => Pos - block_next <= BufSize /\ total_in - V <= block_next
    <3>1. SUFFICES ASSUME state \in Type0
                   PROVE  Pos - block_next <= BufSize /\ total_in - V <= block_next
      OBVIOUS
    <3>2. block_in_size - (IF state = "TYPE0_BODY" THEN count ELSE 0) \in Nat
      BY <1>2, <3>1 DEF IInv, StoredInv, block_in_size
    <3>3. Headers(block_in_size - (IF state = "TYPE0_BODY" THEN count ELSE 0)) \in Nat
      BY <3>2, HeadersOfBlock
    <3>4. Pos - block_next + Headers(block_in_size - (IF state = "TYPE0_BODY" THEN count ELSE 0))
            <= BufSize + 0
      BY <1>1, <3>1 DEF IInv, StoredInv
    <3>5. total_in - V <= block_next
      BY <2>5, <3>1 DEF IInv, StoredInv, V
    <3>6. QED
      BY <1>2, <1>4, <3>3, <3>4, <3>5
  <2>9. h <= BufSize
    BY <1>2, <2>7, <2>8
  <2>10. Types'
    BY <1>3, <2>1, <2>3, <2>7 DEF IInv, Types
  <2>11. CountInv'
    <3>1. b_bytes_processed' <= V' /\ V' <= BufSize /\ hist_size' <= BufSize
      BY <1>2, <1>3, <1>6, <2>1, <2>3, <2>9
    <3>2. base' <= Pos'
      BY <1>3, <1>5, <2>5
    <3>3. total_start' <= total_in' /\ total_in' + avail_in' <= MaxIn
      BY <1>2, <1>3, <2>1
    <3>4. QED
      BY <1>3, <2>5, <3>1, <3>2, <3>3 DEF CountInv, InRound, V
  <2>12. ContentInv'
    <3>1. state \notin {"TRL", "END"} =>
       \A i \in 1..b_bytes_valid :
         LET n == total_in - b_bytes_valid + i
         IN n > base - dict => buffer[i] = Source(n)
      BY <2>5 DEF IInv, ContentInv
    <3>2. dict > 0 => base <= total_start
      BY <1>1 DEF IInv, ContentInv
    <3>3. QED
      BY <1>3, <1>6, <2>1, <3>1, <3>2 DEF ContentInv, Source, V
  <2>13. StoredInv'
    <3>1. SUFFICES ASSUME state \in Type0 PROVE StoredInv'
      BY <1>3 DEF StoredInv
    <3>2. Pos - h <= block_next
      BY <1>2, <1>4, <2>7, <3>1
    <3>3. /\ block_next < block_end
          /\ state = "TYPE0_BODY" => 0 < count /\ count <= block_in_size
          /\ Pos - block_next + Headers(block_in_size - (IF state = "TYPE0_BODY" THEN count ELSE 0))
              <= BufSize + 0
      BY <1>1, <3>1 DEF IInv, StoredInv
    <3>4. block_in_size' = block_in_size
      BY <1>3 DEF block_in_size
    <3>5. pc' # "pass"
      BY <1>3
    <3>6. total_in' - b_bytes_valid' <= block_next
      BY <1>6, <2>1, <2>8, <3>1 DEF V
    <3>7. total_in' - buffered_size' - hist_size' <= block_next'
      BY <1>3, <2>6, <3>2
    <3>8. QED
      BY <1>3, <2>5, <3>1, <3>3, <3>4, <3>5, <3>6, <3>7 DEF StoredInv
  <2>14. HistInv'
    <3>1. ASSUME pc' = "round"
          PROVE  Least(HistSize, b_bytes_processed' - buf_hist_start') <= hist_size'
      <4>1. masked
        BY <1>1, <1>3, <1>7, <3>1 DEF IInv, HistInv
      <4>2. ~NothingToCome(left, FlushSeen, EndSeen)
        BY <4>1 DEF NothingToCome, FlushSeen, EndSeen, NO_FLUSH, FULL_FLUSH
      <4>3. h >= Least(HistSize, cur)
        BY <2>7, <4>2
      <4> HIDE DEF cur
      <4>4. cur \in Nat
        BY <2>3 DEF cur
      <4>5. Least(HistSize, cur - buf_hist_start) <= Least(HistSize, cur)
        BY <1>2, <4>4 DEF Least
      <4>6. Least(HistSize, cur - buf_hist_start) \in Int /\ Least(HistSize, cur) \in Int
        BY <1>2, <4>4 DEF Least
      <4>7. Least(HistSize, cur - buf_hist_start) <= h
        BY <2>7, <4>3, <4>5, <4>6
      <4>8. b_bytes_processed' = cur
        BY <2>1 DEF cur
      <4>9. QED
        BY <1>3, <4>7, <4>8
    <3>2. ~CopiesHistory'
      BY <1>3, <1>7 DEF CopiesHistory
    <3>3. QED
      BY <1>3, <3>1, <3>2 DEF HistInv, InRound
  <2>15. Control' /\ BlockInv'
    BY <1>3, <2>5 DEF IInv, Control, BlockInv
  <2>16. QED
    BY <2>10, <2>11, <2>12, <2>13, <2>14, <2>15 DEF IInv
<1>8. CASE ~internal
  <2>1. External /\ pc' = "return" /\ External'
    BY <1>1, <1>3, <1>8 DEF External
  <2>2. /\ b_bytes_processed' = P /\ avail_in' = Seen /\ total_in' = Pos /\ B = 0
    BY <1>8, <2>1 DEF Settle, IInv, CountInv
  <2>3. Seen = avail_in - done /\ cur_in_processed = X /\ Pos = total_in + done /\ X \in Nat
    <3>1. Seen = avail_in - done /\ cur_in_processed = X /\ Pos = total_in - 0 + done
      BY <1>4, <1>8, <2>2 DEF Seen, cur_in_processed
    <3>2. QED
      BY <1>2, <1>4, <3>1
  <2>4. buffered_size' = 0
    BY <1>6, <2>2 DEF buffered_size
  <2>5. Pos' = Pos
    <3>1. Pos' = Pos - 0 + 0
      BY <1>3, <2>2, <2>4 DEF Pos
    <3>2. QED
      BY <1>4, <3>1
  <2>6. /\ h \in Nat
        /\ h <= HistSize \/ (state \in Type0 /\ h = Pos - block_next)
        /\ state \in Type0 => h >= Pos - block_next
        /\ state \notin Type0 /\ NothingToCome(left, FlushSeen, EndSeen) => h = 0
        /\ h <= Greatest(had, X) \/ h = 0 \/ (state \in Type0 /\ h = Pos - block_next)
    <3>1. left \in Int /\ cur_in_processed \in Nat /\ cur_in_processed = X
      BY <1>4, <1>8, <2>3
    <3>2. QED
      BY <1>4, <3>1, HistSizeBounds DEF IInv
  <2> HIDE DEF V, P, B, h, X
  <2>7. state \in Type0 => Pos - block_next <= BufSize /\ total_start <= block_next
    <3>1. SUFFICES ASSUME state \in Type0
                   PROVE  Pos - block_next <= BufSize /\ total_start <= block_next
      OBVIOUS
    <3>2. block_in_size - (IF state = "TYPE0_BODY" THEN count ELSE 0) \in Nat
      BY <1>2, <3>1 DEF IInv, StoredInv, block_in_size
    <3>3. Headers(block_in_size - (IF state = "TYPE0_BODY" THEN count ELSE 0)) \in Nat
      BY <3>2, HeadersOfBlock
    <3>4. Pos - block_next + Headers(block_in_size - (IF state = "TYPE0_BODY" THEN count ELSE 0))
            <= BufSize + 0
      BY <1>1, <3>1 DEF IInv, StoredInv
    <3>5. total_start <= block_next
      BY <2>1, <3>1 DEF IInv, StoredInv
    <3>6. QED
      BY <1>2, <1>4, <3>3, <3>4, <3>5
  <2>8. h <= BufSize
    BY <1>2, <2>6, <2>7
  <2>9. Types'
    BY <1>2, <1>3, <1>4, <1>5, <2>2, <2>6 DEF IInv, Types
  <2>10. CountInv'
    <3>1. b_bytes_processed' <= V' /\ V' <= BufSize /\ hist_size' <= BufSize
      BY <1>2, <1>3, <1>6, <2>2, <2>8
    <3>2. base' <= Pos'
      BY <1>3, <1>5, <2>5
    <3>3. total_start <= Pos
      BY <1>2, <2>3
    <3>4. Pos + Seen <= MaxIn
      <4>1. Pos + Seen = total_in + avail_in
        BY <1>2, <2>3
      <4>2. QED
        BY <1>2, <4>1
    <3>5. total_start' <= total_in' /\ total_in' + avail_in' <= MaxIn
      BY <1>3, <2>2, <3>3, <3>4
    <3>6. QED
      BY <1>3, <2>1, <2>4, <3>1, <3>2, <3>5 DEF CountInv, InRound, V
  <2>11. ContentInv'
    BY <1>1, <1>3, <2>1 DEF IInv, ContentInv
  <2>12. StoredInv'
    <3>1. SUFFICES ASSUME state \in Type0 PROVE StoredInv'
      BY <1>3 DEF StoredInv
    <3>2. Pos - 0 - h <= block_next
      BY <1>2, <1>4, <2>6, <3>1
    <3>3. /\ block_next < block_end
          /\ state = "TYPE0_BODY" => 0 < count /\ count <= block_in_size
          /\ Pos - block_next + Headers(block_in_size - (IF state = "TYPE0_BODY" THEN count ELSE 0))
              <= BufSize + 0
      BY <1>1, <3>1 DEF IInv, StoredInv
    <3>4. block_in_size' = block_in_size
      BY <1>3 DEF block_in_size
    <3>5. total_in' - buffered_size' - hist_size' <= block_next'
      BY <1>3, <2>2, <2>4, <3>2
    <3>6. QED
      BY <1>3, <2>1, <2>5, <2>7, <3>1, <3>3, <3>4, <3>5 DEF StoredInv
  <2>13. HistInv'
    <3>1. h <= X
      <4>1. X \in Nat /\ X = Pos - total_start
        BY <2>3 DEF X
      <4>2. CASE state \in Type0
        <5>1. Pos - block_next <= X
          BY <1>2, <1>4, <2>7, <4>1, <4>2
        <5>2. level # 0 /\ block_end = Pos /\ block_next < Pos /\ total_start <= block_next
          BY <2>1, <4>2 DEF IInv, Control, BlockInv, StoredInv
        <5>3. Pos # total_start
          BY <1>2, <1>4, <5>2
        <5>4. Least(HistSize, P - buf_hist_start) <= X
          BY <1>1, <1>8, <5>3 DEF IInv, HistInv, P, X
        <5>5. h <= HistSize => h <= X
          BY <1>2, <2>6, <4>1, <5>1, <5>4, HadBounds
        <5>6. QED
          BY <1>4, <1>2, <2>6, <5>1, <5>5
      <4>3. CASE state \notin Type0 /\ Least(HistSize, P - buf_hist_start) <= X
        BY <1>2, <2>6, <4>1, <4>3, HadBounds
      <4>4. CASE state \notin Type0 /\ NothingToCome(Seen, flush, end_of_stream) /\ Pos = total_start
        <5>1. ~masked
          BY <1>1, <1>8 DEF IInv, HistInv
        <5>2. FlushSeen = flush /\ (EndSeen <=> end_of_stream) /\ left = Seen
          BY <1>8, <5>1 DEF FlushSeen, EndSeen
        <5>3. NothingToCome(left, FlushSeen, EndSeen)
          BY <4>4, <5>2 DEF NothingToCome
        <5>4. QED
          BY <2>6, <4>1, <4>4, <5>3
      <4>5. QED
        BY <1>1, <1>8, <4>2, <4>3, <4>4 DEF IInv, HistInv, P, X
    <3>2. hist_size' <= total_in' - total_start'
      BY <1>3, <2>2, <3>1 DEF X
    <3>3. QED
      BY <2>1, <3>2 DEF HistInv, InRound
  <2>14. Control' /\ BlockInv'
    BY <1>3, <2>5 DEF IInv, Control, BlockInv
  <2>15. QED
    BY <2>9, <2>10, <2>11, <2>12, <2>13, <2>14 DEF IInv
<1>9. QED
  BY <1>7, <1>8

LEMMA LenOfFunction ==
  ASSUME NEW k \in Nat, NEW s \in [1..k -> Int]
  PROVE  Len(s) = k
<1>1. s \in Seq(Int)
  BY SeqDef
<1>2. QED
  BY <1>1, LenProperties

(* What Return leaves in the buffer in front of the look-ahead it takes.   *)
LEMMA HistoryKept ==
  ASSUME IInv, Return,
         NEW hist, hist = IF CopiesHistory THEN [i \in 1..hist_size |-> At(i - 1 - hist_size)]
                          ELSE buffer
  PROVE  /\ hist \in Seq(Int) /\ Len(hist) \in Nat /\ Len(hist) <= BufSize
         /\ CopiesHistory => Len(hist) = hist_size
         /\ ~CopiesHistory => hist = buffer
         /\ state \notin {"TRL", "END"} =>
              \A i \in 1..Len(hist) :
                total_in - Len(hist) + i > base - dict => hist[i] = Source(total_in - Len(hist) + i)
<1>1. /\ hist_size \in Nat /\ total_in \in Nat /\ avail_in \in Nat /\ total_start \in Nat
      /\ base \in Nat /\ dict \in Nat /\ buffer \in Seq(Int) /\ Len(buffer) \in Nat
      /\ Len(buffer) <= BufSize /\ hist_size <= BufSize /\ pc = "return" /\ done = 0
      /\ b_bytes_valid = Len(buffer)
  BY BufLen DEF IInv, Types, CountInv, b_bytes_valid, Return
<1>2. CASE CopiesHistory
  <2>1. ~internal /\ External /\ hist_size <= total_in - total_start /\ buffered_size = 0
    BY <1>1, <1>2 DEF CopiesHistory, External, IInv, HistInv, CountInv
  <2>2. Pos = total_in
    <3>1. Pos = total_in - 0 + 0
      BY <1>1, <2>1 DEF Pos
    <3>2. QED
      BY <1>1, <3>1
  <2> DEFINE k == hist_size
  <2>3. hist = [i \in 1..k |-> At(i - 1 - k)]
    BY <1>2
  <2>4. ASSUME NEW i \in 1..k
        PROVE  At(i - 1 - k) = total_in - k + i /\ total_in - k + i \in Int
    <3>1. /\ total_in + (i - 1 - k) + 1 = total_in - k + i
          /\ total_start < total_in - k + i /\ total_in - k + i <= total_in + avail_in
          /\ total_in - k + i \in Int
      BY <1>1, <2>1
    <3>2. QED
      BY <2>1, <2>2, <3>1 DEF At
  <2>5. k \in Nat
    BY <1>1
  <2> HIDE DEF k
  <2>6. hist \in [1..k -> Int] /\ \A i \in 1..k : hist[i] = total_in - k + i
    BY <2>3, <2>4
  <2>7. hist \in Seq(Int)
    BY <2>5, <2>6, SeqDef
  <2>8. Len(hist) = k
    BY <2>5, <2>6, LenOfFunction
  <2>9. ASSUME NEW i \in 1..k, total_in - k + i > base - dict
        PROVE  total_in - k + i = Source(total_in - k + i)
    <3>1. k <= total_in - total_start /\ (dict > 0 => base <= total_start)
      BY <1>1, <2>1 DEF IInv, ContentInv, k
    <3>2. total_in - k + i > total_start
      BY <1>1, <2>5, <3>1
    <3>3. total_in - k + i > base
      BY <1>1, <2>5, <2>9, <3>1, <3>2
    <3>4. QED
      BY <3>3 DEF Source
  <2>10. QED
    BY <1>1, <1>2, <2>5, <2>6, <2>7, <2>8, <2>9 DEF k
<1>3. CASE ~CopiesHistory
  <2>1. state \notin {"TRL", "END"} => ~External
    BY <1>3 DEF CopiesHistory, External
  <2>2. hist = buffer
    BY <1>3
  <2>3. QED
    BY <1>1, <1>3, <2>1, <2>2 DEF IInv, ContentInv
<1>4. QED
  BY <1>2, <1>3

LEMMA ReturnKeeps ==
  ASSUME IInv, Return
  PROVE  IInv'
<1> DEFINE hist == IF CopiesHistory THEN [i \in 1..hist_size |-> At(i - 1 - hist_size)]
                   ELSE buffer
           n == future_size(BufSize - Len(hist))
           L == Len(hist)
           P == b_bytes_processed
           V == b_bytes_valid
           B == buffered_size
           K == IF CopiesHistory THEN hist_size ELSE P
<1>1. /\ hist_size \in Nat /\ total_in \in Nat /\ avail_in \in Nat /\ base \in Nat /\ dict \in Nat
      /\ block_next \in Nat /\ P \in Nat /\ V \in Nat /\ P <= V /\ BufSize \in Nat
      /\ LookAhead \in Nat /\ B = V - P /\ total_start <= total_in /\ total_start \in Nat
      /\ total_in + avail_in <= MaxIn
  BY BufLen, BufferAssumption
     DEF IInv, Types, CountInv, b_bytes_valid, BufSize, buffered_size
<1>2. /\ pc = "return" /\ pc' = "idle" /\ done = 0 /\ done' = 0
      /\ total_start' = 0 /\ hist_size' = 0 /\ buf_hist_start' = 0 /\ internal' = FALSE
      /\ UNCHANGED <<level, room, flush, end_of_stream, state, tmp, has_hist, block_next,
                     block_end, count, held, masked, oldest, base, dict, written>>
      /\ ~External'
  BY DEF Return, IInv, CountInv, External, userVars, blockVars, winVars
<1>3. /\ hist \in Seq(Int) /\ L \in Nat /\ L <= BufSize
      /\ CopiesHistory => L = hist_size
      /\ ~CopiesHistory => hist = buffer
      /\ state \notin {"TRL", "END"} =>
           \A i \in 1..L : total_in - L + i > base - dict => hist[i] = Source(total_in - L + i)
  BY HistoryKept
<1>4. /\ buffer' = hist \o [i \in 1..n |-> total_in + i]
      /\ b_bytes_processed' = K /\ avail_in' = avail_in - n /\ total_in' = total_in + n
  BY DEF Return
<1>5. n \in Nat /\ n <= avail_in /\ L + n <= BufSize
  <2> DEFINE s == BufSize - L
  <2>1. s \in Nat
    BY <1>1, <1>3
  <2>2. n = future_size(s)
    OBVIOUS
  <2> HIDE DEF s, n
  <2>3. n \in Nat /\ n <= avail_in /\ n <= s
    BY <1>1, <2>1, <2>2 DEF future_size, Least
  <2> HIDE DEF L
  <2>4. QED
    BY <1>1, <1>3, <2>3 DEF s
<1> HIDE DEF n
<1>6. K \in Nat /\ K <= L /\ L - K = B
  <2>1. CASE CopiesHistory
    <3>1. External /\ B = 0
      BY <1>2, <2>1 DEF CopiesHistory, External, IInv, CountInv
    <3>2. K = hist_size /\ L = hist_size
      BY <1>3, <2>1
    <3>3. L - K = 0 /\ K <= L
      BY <1>1, <3>2
    <3>4. QED
      BY <1>1, <3>1, <3>2, <3>3
  <2>2. CASE ~CopiesHistory
    <3>1. K = P /\ L = V
      BY <2>2 DEF b_bytes_valid
    <3>2. QED
      BY <1>1, <3>1
  <2>3. QED
    BY <2>1, <2>2
<1> HIDE DEF hist, L, K, V, P, B
<1>7. L = Len(hist)
  BY DEF L
<1>8. /\ buffer' \in Seq(Int) /\ b_bytes_valid' = L + n
      /\ \A i \in 1..L : buffer'[i] = hist[i]
      /\ \A i \in 1..(L + n) : i > L => buffer'[i] = total_in + (i - L)
  <2> DEFINE r == buffer'
  <2>1. r = hist \o [i \in 1..n |-> total_in + i] /\ b_bytes_valid' = Len(r)
    BY <1>4 DEF b_bytes_valid
  <2> HIDE DEF r
  <2>2. total_in \in Int
    BY <1>1
  <2>3. /\ r \in Seq(Int) /\ Len(r) = L + n
        /\ \A i \in 1..L : r[i] = hist[i]
        /\ \A i \in 1..Len(r) : i > L => r[i] = total_in + (i - L)
    BY <1>3, <1>5, <1>7, <2>1, <2>2, Appended
  <2>4. QED
    BY <2>1, <2>3 DEF r
<1>9. buffered_size' = B + n /\ B \in Nat
  <2>1. buffered_size' = (L + n) - K
    BY <1>4, <1>8 DEF buffered_size
  <2>2. QED
    BY <1>1, <1>3, <1>5, <1>6, <2>1
<1>10. Pos' = Pos
  <2>1. Pos = total_in - B + 0 /\ Pos' = (total_in + n) - (B + n) + 0
    BY <1>2, <1>4, <1>9 DEF Pos, B
  <2>2. QED
    BY <1>1, <1>5, <1>9, <2>1
<1>11. base <= Pos /\ Pos <= total_in
  <2>1. Pos = total_in - B + 0
    BY <1>2 DEF Pos, B
  <2>2. QED
    BY <1>1, <1>9, <2>1 DEF IInv, CountInv
<1>12. Types'
  <2>1. avail_in - n \in Nat /\ total_in + n \in Nat
    BY <1>1, <1>5
  <2>2. QED
    BY <1>2, <1>4, <1>6, <1>8, <2>1 DEF IInv, Types
<1>13. CountInv'
  <2>1. K <= L + n /\ 0 <= BufSize /\ 0 <= total_in + n
    BY <1>1, <1>3, <1>5, <1>6
  <2>2. (total_in + n) + (avail_in - n) <= MaxIn
    <3>1. (total_in + n) + (avail_in - n) = total_in + avail_in
      BY <1>1, <1>5
    <3>2. QED
      BY <1>1, <3>1
  <2>3. QED
    BY <1>2, <1>4, <1>5, <1>8, <1>10, <1>11, <2>1, <2>2 DEF CountInv, InRound
<1>14. ContentInv'
  <2>1. ASSUME state \notin {"TRL", "END"}, NEW i \in 1..(L + n),
               (total_in + n) - (L + n) + i > base - dict
        PROVE  buffer'[i] = Source((total_in + n) - (L + n) + i)
    <3>1. (total_in + n) - (L + n) + i = total_in - L + i /\ i \in Nat /\ i > 0
      BY <1>1, <1>3, <1>5
    <3>2. CASE i <= L
      <4>1. i \in 1..L
        BY <1>3, <3>1, <3>2
      <4>2. QED
        BY <1>3, <1>8, <2>1, <3>1, <4>1
    <3>3. CASE ~(i <= L)
      <4>1. buffer'[i] = total_in + (i - L)
        BY <1>3, <1>8, <3>1, <3>3
      <4>2. total_in + (i - L) = total_in - L + i
        BY <1>1, <1>3, <3>1
      <4>3. Pos \in Int
        BY <1>1, <1>2, <1>9 DEF Pos, B
      <4>4. total_in - L + i > base
        BY <1>1, <1>3, <1>11, <3>1, <3>3, <4>3
      <4>5. QED
        BY <3>1, <4>1, <4>2, <4>4 DEF Source
    <3>4. QED
      BY <3>2, <3>3
  <2>2. QED
    BY <1>2, <1>4, <1>8, <2>1 DEF ContentInv, Source
<1>15. StoredInv'
  <2>1. SUFFICES ASSUME state \in Type0 PROVE StoredInv'
    BY <1>2 DEF StoredInv
  <2>2. total_in - L <= block_next
    <3>1. CASE CopiesHistory
      <4>1. External /\ B = 0
        BY <1>2, <3>1 DEF CopiesHistory, External, IInv, CountInv, B
      <4>2. total_in - B - hist_size <= block_next /\ L = hist_size
        BY <1>2, <1>3, <2>1, <3>1 DEF IInv, StoredInv, B, L
      <4>3. QED
        BY <1>1, <4>1, <4>2
    <3>2. CASE ~CopiesHistory
      <4>1. ~External /\ L = V
        BY <1>2, <1>3, <1>7, <2>1, <3>2 DEF CopiesHistory, External, Type0, V, b_bytes_valid
      <4>2. QED
        BY <2>1, <4>1 DEF IInv, StoredInv, V
    <3>3. QED
      BY <3>1, <3>2
  <2>3. (total_in + n) - (L + n) <= block_next
    BY <1>1, <1>3, <1>5, <2>2
  <2>4. block_in_size' = block_in_size
    BY <1>2 DEF block_in_size
  <2>5. /\ block_next < block_end
        /\ state = "TYPE0_BODY" => 0 < count /\ count <= block_in_size
        /\ Pos - block_next + Headers(block_in_size - (IF state = "TYPE0_BODY" THEN count ELSE 0))
            <= BufSize + 0
    BY <1>2, <2>1 DEF IInv, StoredInv
  <2>6. QED
    BY <1>2, <1>4, <1>8, <1>10, <2>1, <2>3, <2>4, <2>5 DEF StoredInv
<1>16. Control' /\ BlockInv' /\ HistInv'
  BY <1>2, <1>10 DEF IInv, Control, BlockInv, HistInv, InRound
<1>17. QED
  BY <1>12, <1>13, <1>14, <1>15, <1>16 DEF IInv

-----------------------------------------------------------------------------
(* Between calls: a dictionary, or another stream.                         *)
LEMMA DictKeeps ==
  ASSUME IInv, isal_deflate_set_dict \/ isal_deflate_reset_dict
  PROVE  IInv'
<1>1. PICK k \in DictSizes : SetHistory(k) /\ (oldest' = oldest \/ oldest' = -k)
  BY DEF isal_deflate_set_dict, isal_deflate_reset_dict
<1>2. k \in Nat /\ k <= HistSize /\ HistSize \in Nat /\ LookAhead \in Nat /\ k <= BufSize
  BY BufferAssumption DEF BufSize
<1>3. /\ pc = "idle" /\ state = "NEW_HDR" /\ buffered_size = 0 /\ done = 0
      /\ has_hist' \in {"DICT_HIST", "DICT_HASH_SET"}
  BY DEF isal_deflate_set_dict, isal_deflate_reset_dict, MayReplaceHistory, IInv, CountInv
<1>4. /\ buffer' = [i \in 1..k |-> i - k - 1] /\ b_bytes_processed' = k
      /\ base' = total_in /\ dict' = k
      /\ UNCHANGED <<level, avail_in, total_in, room, flush, end_of_stream, state, tmp,
                     block_next, block_end, count, held, total_start, hist_size,
                     buf_hist_start, internal, masked, pc, done, written>>
  BY <1>1 DEF SetHistory, userVars, blockVars, callVars
<1>5. /\ buffer' \in Seq(Int) /\ b_bytes_valid' = k /\ \A i \in 1..k : buffer'[i] = i - k - 1
  <2> DEFINE r == buffer'
  <2>1. r \in [1..k -> Int] /\ (\A i \in 1..k : r[i] = i - k - 1) /\ b_bytes_valid' = Len(r)
    BY <1>2, <1>4 DEF b_bytes_valid
  <2> HIDE DEF r
  <2>2. r \in Seq(Int)
    BY <1>2, <2>1, SeqDef
  <2>3. Len(r) = k
    BY <1>2, <2>1, <2>2, LenProperties
  <2>4. QED
    BY <2>1, <2>2, <2>3 DEF r
<1>6. buffered_size' = 0
  <2>1. buffered_size' = k - k
    BY <1>4, <1>5 DEF buffered_size
  <2>2. QED
    BY <1>2, <2>1
<1>7. Pos' = Pos /\ Pos = total_in /\ total_in \in Nat
  <2>1. Pos = total_in - 0 + 0 /\ Pos' = total_in - 0 + 0 /\ total_in \in Nat
    BY <1>3, <1>4, <1>6 DEF Pos, IInv, Types
  <2>2. QED
    BY <2>1
<1>8. Types'
  <2>1. oldest' \in Int
    BY <1>1, <1>2 DEF IInv, Types
  <2>2. QED
    BY <1>2, <1>4, <1>5, <1>7, <2>1 DEF IInv, Types
<1>9. CountInv'
  <2>1. k <= k /\ total_in <= total_in
    BY <1>2, <1>7
  <2>2. QED
    BY <1>2, <1>3, <1>4, <1>5, <1>6, <1>7, <2>1 DEF IInv, CountInv, InRound, External
<1>10. ContentInv'
  <2>1. ASSUME NEW i \in 1..k, total_in - k + i > total_in - k
        PROVE  i - k - 1 = IF total_in - k + i > total_in \/ total_in - k + i <= total_in - k
                             THEN total_in - k + i ELSE total_in - k + i - total_in - 1
    BY <1>2, <1>7
  <2>2. pc' = "idle"
    BY <1>3, <1>4
  <2>3. base' = total_in /\ total_in' = total_in /\ dict' = k /\ b_bytes_valid' = k
    BY <1>4, <1>5
  <2>4. \A i \in 1..k : total_in - k + i > total_in - k =>
          buffer'[i] = IF total_in - k + i > total_in \/ total_in - k + i <= total_in - k
                         THEN total_in - k + i ELSE total_in - k + i - total_in - 1
    BY <1>5, <2>1
  <2>5. QED
    BY <1>2, <1>7, <2>2, <2>3, <2>4 DEF ContentInv, Source
<1>11. Control' /\ BlockInv' /\ StoredInv' /\ HistInv'
  BY <1>3, <1>4, <1>7
     DEF IInv, Control, BlockInv, StoredInv, HistInv, InRound, InBlock, Type0
<1>12. QED
  BY <1>8, <1>9, <1>10, <1>11 DEF IInv

(* A stream at its start, the first or one after a reset.                  *)
Fresh ==
  /\ avail_in = 0 /\ total_in = 0 /\ room = 0
  /\ flush = NO_FLUSH /\ end_of_stream = FALSE
  /\ state = "NEW_HDR" /\ tmp = FALSE /\ has_hist = "NO_HIST"
  /\ buffer = <<>> /\ b_bytes_processed = 0
  /\ block_next = 0 /\ block_end = 0 /\ count = 0 /\ held = 0
  /\ total_start = 0 /\ hist_size = 0 /\ buf_hist_start = 0
  /\ base = 0 /\ dict = 0 /\ written = 0
  /\ pc = "idle" /\ internal = FALSE /\ done = 0
  /\ level \in Levels /\ masked \in BOOLEAN /\ oldest \in Int

LEMMA FreshIsGood == Fresh => IInv
<1> SUFFICES ASSUME Fresh PROVE IInv
  OBVIOUS
<1> USE DEF Fresh
<1>1. buffer \in Seq(Int) /\ b_bytes_valid = 0
  <2>1. <<>> \in Seq(Int) /\ Len(<<>>) = 0
    BY EmptySeq
  <2>2. QED
    BY <2>1 DEF b_bytes_valid
<1>2. buffered_size = 0 /\ Pos = 0
  <2>1. buffered_size = 0
    BY <1>1 DEF buffered_size
  <2>2. QED
    BY <2>1 DEF Pos
<1>3. BufSize \in Nat /\ MaxIn \in Nat /\ MaxStored \in Nat
  BY BufferAssumption DEF BufSize
<1>4. Types
  <2>1. internal \in BOOLEAN /\ tmp \in BOOLEAN /\ end_of_stream \in BOOLEAN
    OBVIOUS
  <2>2. QED
    BY <1>1, <1>3, <2>1 DEF Types
<1>5. Control
  BY DEF Control, Type0
<1>6. CountInv
  BY <1>1, <1>2, <1>3 DEF CountInv, InRound, External
<1>7. BlockInv
  BY <1>2 DEF BlockInv, InBlock, Type0
<1>8. ContentInv
  BY <1>1 DEF ContentInv
<1>9. StoredInv /\ HistInv
  BY DEF StoredInv, HistInv, Type0, InRound
<1>10. QED
  BY <1>4, <1>5, <1>6, <1>7, <1>8, <1>9 DEF IInv

-----------------------------------------------------------------------------
LEMMA PassKeepsAll ==
  ASSUME IInv, PassStep, level # 3
  PROVE  IInv'
<1>1. PassKeeps
  BY StepOfPass DEF IInv
<1>2. Types' /\ BlockInv' /\ Control' /\ CountInv' /\ ContentInv' /\ HistInv'
  BY <1>1, TypesOfPass, BlockOfPass, ControlOfPass, CountOfPass, ContentOfPass, HistOfPass
     DEF IInv
<1>3. StoredInv'
  <2>1. CASE state' \in Type0
    BY <1>1, <2>1, StoredOfPass DEF IInv
  <2>2. CASE state' \notin Type0
    BY <2>2 DEF StoredInv
  <2>3. QED
    BY <2>1, <2>2
<1>4. QED
  BY <1>2, <1>3 DEF IInv

LEMMA NextKeeps ==
  ASSUME 3 \notin Levels, IInv, [Next]_vars
  PROVE  IInv'
<1>1. level # 3
  BY DEF IInv, Control
<1>2. CASE Call
  BY <1>2, CallKeeps
<1>3. CASE RoundInternal
  BY <1>3, RoundInternalKeeps
<1>4. CASE RoundExternal
  BY <1>4, RoundExternalKeeps
<1>5. CASE PassStep
  BY <1>1, <1>5, PassKeepsAll
<1>6. CASE gen_icf_map \/ compress_icf_map \/ icf_body_next_state
  BY <1>1, <1>6 DEF gen_icf_map, compress_icf_map, icf_body_next_state
<1>7. CASE Settle
  BY <1>7, SettleKeeps
<1>8. CASE Return
  BY <1>8, ReturnKeeps
<1>9. CASE isal_deflate_set_dict \/ isal_deflate_reset_dict
  BY <1>9, DictKeeps
<1>10. CASE isal_deflate_reset
  <2>1. Fresh'
    BY <1>10 DEF isal_deflate_reset, Fresh, IInv, Types, Control, CountInv
  <2>2. QED
    BY <2>1, FreshIsGood, PTL
<1>11. CASE UNCHANGED vars
  <2>1. UNCHANGED <<level, avail_in, total_in, room, flush, end_of_stream, state, tmp, has_hist,
          buffer, b_bytes_processed, block_next, block_end, has_eob_hdr, count, held,
          total_start, hist_size, buf_hist_start, internal, masked, pc, done, wrote,
          oldest, base, dict, written>>
    BY <1>11 DEF vars, userVars, bufVars, blockVars, callVars, winVars
  <2>2. QED
    BY <2>1 DEF IInv, Types, Control, CountInv, BlockInv, ContentInv, StoredInv, HistInv,
       InRound, External, Pos, Seen, buffered_size, b_bytes_valid, Source, block_in_size,
       CopiesHistory
<1>12. QED
  BY <1>2, <1>3, <1>4, <1>5, <1>6, <1>7, <1>8, <1>9, <1>10, <1>11
     DEF Next, isal_deflate, PassStep

LEMMA InitIsGood == Init => IInv
<1>1. Init => Fresh
  <2>1. Init => masked \in BOOLEAN
    BY DEF Init
  <2>2. QED
    BY <2>1 DEF Init, Fresh
<1>2. QED
  BY <1>1, FreshIsGood

-----------------------------------------------------------------------------
(* What a pass reads at next_in + j is the input, wherever it lies.        *)
LEMMA ReadsInput ==
  ASSUME IInv, pc = "pass", state \notin {"TRL", "END"}, NEW j \in Int, j < Seen,
         base < Pos + j + 1,
         IF internal THEN total_in - b_bytes_valid < Pos + j + 1 ELSE total_start < Pos + j + 1
  PROVE  At(j) = Pos + j + 1
<1>1. /\ b_bytes_processed \in Nat /\ avail_in \in Nat /\ total_in \in Nat
      /\ total_start \in Nat /\ b_bytes_valid \in Nat /\ done \in Nat /\ base \in Nat
  BY BufLen DEF IInv, Types, b_bytes_valid
<1>2. Seen \in Nat /\ Pos \in Int /\ buffered_size \in Nat
  BY SeenType DEF IInv, InRound
<1>3. Pos = total_in - buffered_size + done /\ buffered_size = b_bytes_valid - b_bytes_processed
  BY DEF Pos, buffered_size
<1>4. CASE internal
  <2> DEFINE at == b_bytes_processed + done + j + 1
  <2>1. Seen = buffered_size - done
    BY <1>4 DEF Seen
  <2>2. at \in 1..b_bytes_valid /\ total_in - b_bytes_valid + at = Pos + j + 1
    BY <1>1, <1>2, <1>3, <1>4, <2>1
  <2>3. At(j) = buffer[at]
    BY <1>4, <2>2 DEF At
  <2>4. Pos + j + 1 > base - dict
    BY <1>1, <1>2 DEF IInv, Types
  <2>5. ~External
    BY <1>4 DEF External
  <2> HIDE DEF at
  <2>6. buffer[at] = Source(Pos + j + 1)
    BY <2>2, <2>4, <2>5 DEF IInv, ContentInv
  <2>7. Source(Pos + j + 1) = Pos + j + 1
    BY <1>1, <1>2 DEF Source
  <2>8. QED
    BY <2>3, <2>6, <2>7
<1>5. CASE ~internal
  <2>1. Seen = avail_in - done /\ buffered_size = 0
    BY <1>5 DEF Seen, External, IInv, CountInv
  <2>2. Pos + j + 1 <= total_in + avail_in
    BY <1>1, <1>2, <1>3, <2>1
  <2>3. QED
    BY <1>5, <2>2 DEF At
<1>6. QED
  BY <1>4, <1>5

LEMMA InvIsInOrder == IInv => InputInOrder
<1> SUFFICES ASSUME IInv PROVE InputInOrder
  OBVIOUS
<1>1. /\ avail_in \in Nat /\ total_in \in Nat /\ total_start \in Nat /\ b_bytes_valid \in Nat
      /\ b_bytes_processed \in Nat /\ b_bytes_processed <= b_bytes_valid
      /\ done \in Nat /\ base \in Nat /\ total_start <= total_in /\ base <= Pos
  BY BufLen DEF IInv, Types, CountInv, b_bytes_valid
<1>2. CodedInOrder
  <2> SUFFICES ASSUME Coding, NEW i \in 0..(Seen - 1) PROVE At(i) = Pos + i + 1
    BY DEF CodedInOrder
  <2>1. pc = "pass" /\ state \notin {"TRL", "END"}
    BY DEF Coding
  <2>2. Seen \in Nat /\ Pos \in Int /\ buffered_size \in Nat
    BY <2>1, SeenType DEF IInv, InRound
  <2>3. i \in Int /\ i >= 0 /\ i < Seen /\ base < Pos + i + 1
    BY <1>1, <2>2
  <2>4. Pos = total_in - buffered_size + done /\ buffered_size = b_bytes_valid - b_bytes_processed
    BY DEF Pos, buffered_size
  <2>5. CASE internal
    <3>1. total_in - b_bytes_valid < Pos + i + 1
      BY <1>1, <2>2, <2>3, <2>4
    <3>2. QED
      BY <2>1, <2>3, <2>5, <3>1, ReadsInput
  <2>6. CASE ~internal
    <3>1. buffered_size = 0
      BY <2>1, <2>6 DEF External, IInv, CountInv
    <3>2. total_start < Pos + i + 1
      BY <1>1, <2>2, <2>3, <2>4, <3>1
    <3>3. QED
      BY <2>1, <2>3, <2>6, <3>2, ReadsInput
  <2>7. QED
    BY <2>5, <2>6
<1>3. StoredInOrder
  <2> SUFFICES ASSUME pc = "pass", state = "TYPE0_BODY"
               PROVE  /\ count <= block_in_size
                      /\ \A i \in 0..(Least(count, Seen + block_start_offset) - 1) :
                           At(i - block_start_offset) = block_next + i + 1
    BY DEF StoredInOrder
  <2>1. state \in Type0 /\ state \in InBlock /\ state \notin {"TRL", "END"}
    BY DEF Type0, InBlock
  <2>2. Seen \in Nat /\ Pos \in Int
    BY SeenType DEF IInv, InRound
  <2>3. level # 0
    BY <2>1 DEF IInv, Control
  <2>4. /\ base <= block_next /\ block_next \in Nat /\ count <= block_in_size /\ count \in Nat
        /\ External \/ total_in - b_bytes_valid <= block_next
        /\ ~External \/ total_start <= block_next
    BY <2>1, <2>3 DEF IInv, BlockInv, StoredInv, Types
  <2>5. ASSUME NEW i \in 0..(Least(count, Seen + block_start_offset) - 1)
        PROVE  At(i - block_start_offset) = block_next + i + 1
    <3> DEFINE j == i - block_start_offset
    <3>1. block_start_offset = Pos - block_next
      BY DEF block_start_offset
    <3>2. i \in Nat /\ i < Seen + (Pos - block_next)
      BY <2>2, <2>4, <3>1 DEF Least
    <3>3. j \in Int /\ j < Seen /\ Pos + j + 1 = block_next + i + 1
      BY <2>2, <2>4, <3>1, <3>2
    <3> HIDE DEF j
    <3>4. base < Pos + j + 1
      BY <1>1, <2>4, <3>2, <3>3
    <3>5. IF internal THEN total_in - b_bytes_valid < Pos + j + 1 ELSE total_start < Pos + j + 1
      <4>1. CASE internal
        <5>1. total_in - b_bytes_valid < block_next + i + 1
          BY <1>1, <2>4, <3>2, <4>1 DEF External
        <5>2. QED
          BY <3>3, <4>1, <5>1
      <4>2. CASE ~internal
        <5>1. total_start < block_next + i + 1
          BY <1>1, <2>4, <3>2, <4>2 DEF External
        <5>2. QED
          BY <3>3, <4>2, <5>1
      <4>3. QED
        BY <4>1, <4>2
    <3>6. At(j) = Pos + j + 1
      BY <2>1, <3>3, <3>4, <3>5, ReadsInput
    <3>7. QED
      BY <3>3, <3>6 DEF j
  <2>6. QED
    BY <2>4, <2>5
<1>4. QED
  BY <1>2, <1>3 DEF InputInOrder

LEMMA InvIsTyped == IInv => TypeOK
<1> SUFFICES ASSUME IInv PROVE TypeOK
  OBVIOUS
<1>1. /\ avail_in \in Nat /\ total_in \in Nat /\ b_bytes_valid \in Nat
      /\ b_bytes_processed \in Nat /\ b_bytes_processed <= b_bytes_valid
      /\ done \in Nat /\ base \in Nat /\ base <= Pos /\ total_in + avail_in <= MaxIn
      /\ block_next \in Nat /\ block_end \in Nat /\ written \in Nat /\ MaxIn \in Nat
  BY BufLen, BufferAssumption DEF IInv, Types, CountInv, b_bytes_valid
<1>2. Pos = total_in - buffered_size + done /\ buffered_size = b_bytes_valid - b_bytes_processed
  BY DEF Pos, buffered_size
<1>3. buffered_size \in Nat /\ Pos \in Int
  BY <1>1, <1>2
<1>4. done <= (IF internal THEN buffered_size ELSE avail_in)
  <2>1. CASE InRound
    BY <2>1 DEF IInv, CountInv
  <2>2. CASE ~InRound
    <3>1. done = 0
      BY <2>2 DEF IInv, CountInv, Control, InRound
    <3>2. 0 <= (IF internal THEN buffered_size ELSE avail_in)
      BY <1>1, <1>3
    <3>3. QED
      BY <3>1, <3>2
  <2>3. QED
    BY <2>1, <2>2
<1>5. Seen \in 0..MaxIn /\ Pos <= MaxIn
  <2>1. CASE internal
    <3>1. Seen = buffered_size - done /\ done <= buffered_size
      BY <1>4, <2>1 DEF Seen
    <3>2. QED
      BY <1>1, <1>2, <1>3, <3>1
  <2>2. CASE ~internal
    <3>1. Seen = avail_in - done /\ done <= avail_in
      BY <1>4, <2>2 DEF Seen
    <3>2. QED
      BY <1>1, <1>2, <1>3, <3>1
  <2>3. QED
    BY <2>1, <2>2
<1>6. written <= Pos
  <2>1. CASE level = 0
    <3>1. written = Pos
      BY <2>1 DEF IInv, BlockInv
    <3>2. QED
      BY <1>3, <3>1
  <2>2. CASE level # 0
    <3>1. (written = block_next /\ block_next <= Pos) \/ written = Pos
      BY <2>2 DEF IInv, BlockInv
    <3>2. QED
      BY <1>3, <3>1
  <2>3. QED
    BY <2>1, <2>2
<1>7. written \in 0..MaxIn /\ avail_in \in 0..MaxIn /\ total_in \in 0..MaxIn
  BY <1>1, <1>3, <1>5, <1>6
<1>8. /\ Len(buffer) <= BufSize /\ b_bytes_processed \in 0..Len(buffer)
      /\ hist_size \in 0..BufSize /\ held \in 0..MapSize /\ room \in Nat
      /\ count \in 0..MaxStored
  <2>1. /\ b_bytes_valid <= BufSize /\ hist_size \in Nat /\ hist_size <= BufSize /\ held = 0
        /\ room \in Nat /\ count \in 0..MaxStored /\ BufSize \in Nat /\ MapSize \in Nat
        /\ b_bytes_valid = Len(buffer)
    BY BufferAssumption DEF IInv, Types, CountInv, BufSize, b_bytes_valid
  <2>2. QED
    BY <1>1, <2>1
<1>9. flush \in Flushes \cup {NO_FLUSH} /\ end_of_stream \in BOOLEAN
  BY DEF IInv, Types
<1>10. QED
  BY <1>5, <1>7, <1>8, <1>9 DEF IInv, Control, TypeOK

LEMMA InvIsWhole == IInv => WholeBlocks
<1> SUFFICES ASSUME IInv, state \in {"NEW_HDR", "SYNC_FLUSH", "TRL", "END"}
             PROVE  written = Pos - held /\ held = 0
  BY DEF WholeBlocks
<1>1. state \notin InBlock
  BY DEF InBlock, Type0
<1>2. written = Pos /\ held = 0 /\ written \in Nat
  BY <1>1 DEF IInv, BlockInv, Types
<1>3. QED
  BY <1>2

-----------------------------------------------------------------------------
(* The strengthened invariant holds at levels 0, 1 and 2.                  *)
LEMMA AlwaysIInv ==
  ASSUME 3 \notin Levels
  PROVE  Spec => []IInv
<1>1. Init => IInv
  BY InitIsGood
<1>2. IInv /\ [Next]_vars => IInv'
  BY NextKeeps
<1>3. QED
  BY <1>1, <1>2, PTL DEF Spec

(* The internal buffer and the history in it never outgrow their array,    *)
(* whatever the sizes of calls, flushes, dictionaries and stored blocks;   *)
(* no count of isal_deflate goes below zero.                               *)
THEOREM BufferNeverOverruns ==
  ASSUME 3 \notin Levels
  PROVE  Spec => []TypeOK
<1>1. Spec => []IInv
  BY AlwaysIInv
<1>2. QED
  BY <1>1, InvIsTyped, PTL

(* What the body codes and write_stored_block copies is the input, each    *)
(* byte at its place, though it is read from the user's memory in one call *)
(* and from the buffer in the next.                                        *)
THEOREM InputIsReadInOrder ==
  ASSUME 3 \notin Levels
  PROVE  Spec => []InputInOrder
<1>1. Spec => []IInv
  BY AlwaysIInv
<1>2. QED
  BY <1>1, InvIsInOrder, PTL

(* Between blocks everything taken is in the output, once.                 *)
THEOREM BlocksAreWhole ==
  ASSUME 3 \notin Levels
  PROVE  Spec => []WholeBlocks
<1>1. Spec => []IInv
  BY AlwaysIInv
<1>2. QED
  BY <1>1, InvIsWhole, PTL
=============================================================================
