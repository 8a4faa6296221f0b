------------------------ MODULE DeflateWindowProofs ------------------------
(***************************************************************************)
(* That matches reach only what the memory they are compared with and a    *)
(* decoder both have, at levels 0, 1 and 2, for any size of the buffer and *)
(* of the calls: if the user adds no input while a flush is delivered and  *)
(* sets dictionaries only at the start of a stream.  And that a call of    *)
(* isal_deflate does all that it was asked for, or fills the output, if    *)
(* the user adds no input while a flush is delivered.                      *)
(***************************************************************************)
EXTENDS DeflateBufferProofs

Between == {"settle", "return", "idle"}
AllCoded == total_in + avail_in = Pos
Delivered == room > 0 \/ (state = "NEW_HDR" /\ ~tmp)

(* The table's indices go back no further than a decoder and the memory of *)
(* the next bytes, or than a match may.                                    *)
Reach == Least(HistSize, Pos - oldest)
InReach ==
  /\ oldest >= base - dict
  /\ Reach <= IF External
                THEN IF pc = "return" THEN hist_size ELSE Pos - total_start
                ELSE b_bytes_processed + done - buf_hist_start

(* The next call starts with an empty table, or indexes a dictionary.      *)
Forgotten ==
  \/ has_hist = "NO_HIST" /\ pc \in Between /\ (internal /\ pc # "idle" => avail_in = 0)
  \/ has_hist = "DICT_HIST"

(* History was given up for the last byte of the stream, or before a full  *)
(* flush that is not delivered yet: nothing is coded before it is.         *)
NothingLeft ==
  /\ AllCoded
  /\ \/ end_of_stream
     \/ flush = FULL_FLUSH /\ (pc \in {"return", "idle"} => ~Delivered)

WindowInv == state \in {"TRL", "END"} \/ InReach \/ Forgotten \/ NothingLeft

(* How far a flush is: it is asked for until it is delivered, and a full   *)
(* one, when it is, has made the next call forget.                         *)
FlushInv ==
  /\ pc = "pass" => ~tmp
  /\ state \in {"FLUSH_READ_BUFFER", "SYNC_FLUSH"} =>
       /\ flush # NO_FLUSH \/ end_of_stream
       /\ pc \in Between => room = 0
  /\ tmp /\ state = "NEW_HDR" =>
       /\ flush # NO_FLUSH \/ end_of_stream
       /\ pc \in Between => room = 0
       /\ AllCoded /\ flush = FULL_FLUSH /\ ~end_of_stream => has_hist = "NO_HIST"
  /\ pc = "settle" /\ AllCoded /\ flush = FULL_FLUSH /\ ~end_of_stream =>
       state \in {"TRL", "END"} \/ has_hist = "NO_HIST" \/ ~Delivered

DictInv ==
  /\ has_hist = "DICT_HIST" =>
       /\ pc = "idle" /\ total_in = 0 /\ base = 0 /\ buffered_size = 0
       /\ dict = b_bytes_processed /\ b_bytes_processed > 0
  /\ ~External => buf_hist_start <= b_bytes_processed

WInv == IInv /\ WindowInv /\ FlushInv /\ DictInv

-----------------------------------------------------------------------------
LEMMA ReachGrows ==
  ASSUME NEW h \in Nat, NEW x \in Int, NEW e \in Nat
  PROVE  Least(h, x + e) <= Least(h, x) + e
BY DEF Least

LEMMA Grows ==
  ASSUME NEW p \in Int, NEW d \in Nat, NEW e \in Nat, d <= e, NEW x \in Int
  PROVE  /\ e - d \in Nat /\ (p + (e - d)) - x = (p - x) + (e - d)
         /\ (x + d) + (e - d) = x + e
OBVIOUS

(* When all input is coded the pass has nothing in front of it, and a      *)
(* round through the buffer shows it the user's flush.                     *)
LEMMA AllCodedSeen ==
  ASSUME IInv, InRound, AllCoded
  PROVE  Seen = 0 /\ ~masked /\ (internal => avail_in = 0)
<1>1. /\ Seen \in Nat /\ Pos \in Int /\ buffered_size \in Nat /\ avail_in \in Nat
      /\ total_in \in Nat /\ done \in Nat
  BY SeenType DEF IInv, Types
<1>2. total_in + avail_in = total_in - buffered_size + done
  BY DEF AllCoded, Pos
<1>3. CASE internal
  <2>1. Seen = buffered_size - done
    BY <1>3 DEF Seen
  <2>2. Seen = 0 /\ avail_in = 0
    BY <1>1, <1>2, <2>1
  <2>3. QED
    BY <1>3, <2>2 DEF IInv, HistInv
<1>4. CASE ~internal
  <2>1. Seen = avail_in - done /\ buffered_size = 0
    BY <1>4 DEF Seen, IInv, CountInv, External, InRound
  <2>2. Seen = 0
    BY <1>1, <1>2, <2>1
  <2>3. QED
    BY <1>4, <2>2 DEF IInv, HistInv
<1>5. QED
  BY <1>3, <1>4

(* What a step of a pass does to the window: nothing, or it forgets.       *)
LEMMA TableStep ==
  ASSUME PassStep
  PROVE  \/ UNCHANGED <<oldest, base, dict>>
         \/ oldest' = Pos /\ UNCHANGED <<base, dict, done>>
         \/ /\ base' = Pos /\ dict' = 0 /\ UNCHANGED <<oldest, done>>
            /\ has_hist' = "NO_HIST" /\ pc' = "settle" /\ FlushSeen = FULL_FLUSH
<1>1. CASE sync_flush
  BY <1>1 DEF sync_flush, Forgets
<1>2. CASE write_stored_block
  BY <1>2 DEF write_stored_block
<1>3. CASE ~sync_flush /\ ~write_stored_block
  BY <1>3 DEF PassStep, Drain, NewBlock, Body, Finish, write_trailer, create_icf_block_hdr,
     flush_icf_block, write_type0_header, winVars
<1>4. QED
  BY <1>1, <1>2, <1>3

(* How a pass goes on, and what ends it.                                   *)
Early == {"FLUSH_READ_BUFFER", "SYNC_FLUSH"}

GoesOn ==
  /\ pc = "pass" /\ pc' = "pass" /\ tmp' = tmp
  /\ state' \in Early => state \in Early \/ Flushing

RunsOut ==
  /\ pc' = "settle" /\ room' = 0 /\ state' # "NEW_HDR"
  /\ state' \in Early => state \in Early

FlushEnds ==
  /\ pc' = "settle" /\ state = "SYNC_FLUSH" /\ state' = "NEW_HDR" /\ done' = done
  /\ tmp' => room' = 0
  /\ FlushSeen = FULL_FLUSH => has_hist' = "NO_HIST"

Waits ==
  /\ pc' = "settle" /\ ~Flushing /\ state' = "BODY"
  /\ done' = done \/ done' < done + Seen

Ends == pc' = "settle" /\ state' = "END"

LEMMA EndOfStep ==
  ASSUME IInv, PassStep, level # 3
  PROVE  Drain \/ GoesOn \/ RunsOut \/ FlushEnds \/ Waits \/ Ends
<1>1. PassKeeps /\ room \in Nat
  BY StepOfPass DEF IInv, Types
<1>2. Seen \in Nat /\ done \in Nat
  BY <1>1, PosStep DEF IInv, Types
<1>3. CASE NewBlock
  <2>1. \/ pc' = "settle" /\ room' = 0 /\ state' = "HDR"
        \/ pc = "pass" /\ pc' = pc /\ tmp' = tmp /\ state' = "BODY"
    BY <1>3 DEF NewBlock, OutputFull
  <2>2. QED
    BY <2>1 DEF RunsOut, GoesOn, Early
<1>4. CASE Body
  <2>1. \/ /\ pc = "pass" /\ pc' = pc /\ tmp' = tmp
           /\ Flushing \/ state' = "CREATE_HDR"
        \/ pc' = "settle" /\ ~Flushing /\ state' = "BODY" /\ (done' = done \/ Code(0))
        \/ /\ pc' = "settle" /\ ~Flushing /\ state' = "BODY"
           /\ \E left \in 1..LookAhead : Code(Seen - left)
        \/ pc' = "settle" /\ room' = 0 /\ state' = "BODY"
    BY <1>4 DEF Body, OutputFull, EndPass
  <2>2. CASE /\ pc = "pass" /\ pc' = pc /\ tmp' = tmp
             /\ Flushing \/ state' = "CREATE_HDR"
    BY <2>2 DEF GoesOn, Early
  <2>3. CASE pc' = "settle" /\ ~Flushing /\ state' = "BODY" /\ (done' = done \/ Code(0))
    <3>1. Code(0) => done' = done
      BY <1>2 DEF Code
    <3>2. QED
      BY <2>3, <3>1 DEF Waits
  <2>4. CASE /\ pc' = "settle" /\ ~Flushing /\ state' = "BODY"
             /\ \E left \in 1..LookAhead : Code(Seen - left)
    <3>1. PICK left \in 1..LookAhead : done' = done + (Seen - left)
      BY <2>4 DEF Code
    <3>2. done + (Seen - left) < done + Seen
      BY <1>2, BufferAssumption
    <3>3. QED
      BY <2>4, <3>1, <3>2 DEF Waits
  <2>5. CASE pc' = "settle" /\ room' = 0 /\ state' = "BODY"
    BY <2>5 DEF RunsOut, Early
  <2>6. QED
    BY <2>1, <2>2, <2>3, <2>4, <2>5
<1>5. CASE Finish
  <2>1. \/ pc = "pass" /\ pc' = pc /\ tmp' = tmp /\ state \in Early
        \/ pc' = "settle" /\ room' = 0 /\ state' = state /\ state \in Early
    BY <1>5 DEF Finish, OutputFull, Early
  <2>2. QED
    BY <2>1 DEF RunsOut, GoesOn, Early
<1>6. CASE sync_flush
  <2>1. \/ pc' = "settle" /\ room' = 0 /\ state' = state /\ state = "SYNC_FLUSH"
        \/ /\ pc' = "settle" /\ state = "SYNC_FLUSH" /\ state' = "NEW_HDR" /\ done' = done
           /\ MayBeAhead(TRUE)
           /\ has_hist' = IF Forgets THEN "NO_HIST" ELSE has_hist
    BY <1>6 DEF sync_flush, OutputFull
  <2>2. MayBeAhead(TRUE) => (tmp' => room' = 0)
    BY DEF MayBeAhead
  <2>3. QED
    BY <2>1, <2>2 DEF RunsOut, FlushEnds, Early, Forgets
<1>7. CASE write_trailer
  BY <1>7 DEF write_trailer, OutputFull, EndPass, RunsOut, Ends, Early
<1>8. CASE create_icf_block_hdr
  BY <1>8 DEF create_icf_block_hdr, GoesOn, Early
<1>9. CASE flush_icf_block
  <2>1. \/ pc' = "settle" /\ room' = 0 /\ state' = state /\ state = "FLUSH_ICF_BUFFER"
        \/ /\ pc = "pass" /\ pc' = pc /\ tmp' = tmp
           /\ state' \in {"TRL", "NEW_HDR"} \/ (FlushSeen # NO_FLUSH /\ state' = "SYNC_FLUSH")
    BY <1>9 DEF flush_icf_block, OutputFull
  <2>2. QED
    BY <2>1 DEF RunsOut, GoesOn, Early, Flushing
<1>10. CASE write_type0_header
  <2>1. \/ pc' = "settle" /\ room' = 0 /\ state' = state /\ state = "TYPE0_HDR"
        \/ pc = "pass" /\ pc' = pc /\ tmp' = tmp /\ state' = "TYPE0_BODY"
    BY <1>10 DEF write_type0_header, OutputFull
  <2>2. QED
    BY <2>1 DEF RunsOut, GoesOn, Early
<1>11. CASE write_stored_block
  <2>1. level # 0
    BY <1>11 DEF write_stored_block, IInv, Control, Type0
  <2>2. PICK c \in 0..count : /\ room' = room - c /\ c <= room /\ (c = count \/ c = room)
                              /\ (c = count) <=> (state' # "TYPE0_BODY")
    BY <1>11, <2>1, CopySize DEF IInv
  <2>3. CASE state' = "TYPE0_BODY"
    <3>1. room' = 0
      BY <1>1, <2>2, <2>3
    <3>2. pc' \in {"pass", "settle"}
      BY <1>1 DEF PassKeeps
    <3>3. pc' = "pass" => pc = "pass" /\ tmp' = tmp
      BY <1>11 DEF write_stored_block
    <3>4. QED
      BY <2>3, <3>1, <3>2, <3>3 DEF RunsOut, GoesOn, Early
  <2>4. CASE state' # "TYPE0_BODY"
    <3>1. pc = "pass" /\ pc' = pc /\ tmp' = tmp /\ state' \in {"TRL", "NEW_HDR", "TYPE0_HDR"}
      BY <1>11, <2>4 DEF write_stored_block
    <3>2. QED
      BY <3>1 DEF GoesOn, Early
  <2>5. QED
    BY <2>3, <2>4
<1>12. QED
  BY <1>3, <1>4, <1>5, <1>6, <1>7, <1>8, <1>9, <1>10, <1>11 DEF PassStep

-----------------------------------------------------------------------------
(* A pass keeps the invariant.                                             *)
LEMMA PassHas ==
  ASSUME IInv, PassStep, level # 3
  PROVE  /\ PassKeeps /\ InRound /\ pc \in {"drain", "pass"} /\ pc' \in {"pass", "settle"}
         /\ Seen \in Nat /\ Pos \in Nat /\ Pos' = Pos + (done' - done)
         /\ done \in Nat /\ done' \in Nat /\ done <= done'
         /\ done' = done => Pos' = Pos
         /\ (External' <=> External)
<1>1. PassKeeps
  BY StepOfPass DEF IInv
<1>2. External' <=> External
  BY <1>1 DEF PassKeeps, External
<1>3. QED
  BY <1>1, <1>2, PosStep DEF IInv, PassKeeps, InRound, Types

LEMMA InReachOfPass ==
  ASSUME IInv, DictInv, InReach, PassStep, level # 3, UNCHANGED <<oldest, base, dict>>
  PROVE  InReach'
<1> DEFINE e == done' - done
           x == Pos - oldest
<1>1. /\ PassKeeps /\ pc # "return" /\ pc' # "return" /\ (External' <=> External)
      /\ Pos \in Nat /\ Pos' = Pos + e /\ done \in Nat /\ done' \in Nat /\ done <= done'
  BY PassHas
<1>2. oldest \in Int /\ HistSize \in Nat /\ total_start \in Nat /\ b_bytes_processed \in Nat
      /\ buf_hist_start \in Nat
  BY BufferAssumption DEF IInv, Types
<1>3. e \in Nat /\ x \in Int /\ Pos' - oldest = x + e
  <2>1. e \in Nat /\ x \in Int
    <3>1. done \in Nat /\ done' \in Nat /\ done <= done' /\ Pos \in Nat /\ oldest \in Int
      BY <1>1, <1>2
    <3>2. done' - done \in Nat
      BY <3>1, Grows
    <3>3. Pos - oldest \in Int
      BY <3>1
    <3>4. QED
      BY <3>2, <3>3
  <2>2. (Pos + e) - oldest = x + e
    BY <1>1, <1>2, Grows
  <2>3. QED
    BY <1>1, <2>1, <2>2
<1>4. Reach = Least(HistSize, x) /\ Reach' = Least(HistSize, x + e)
  BY <1>3 DEF Reach
<1>5. Reach' <= Reach + e /\ Reach \in Int /\ Reach' \in Int
  <2>1. x + e \in Int /\ HistSize \in Int
    BY <1>2, <1>3
  <2>2. Least(HistSize, x) \in Int /\ Least(HistSize, x + e) \in Int
    <3> HIDE DEF e, x
    <3>1. QED
      BY <1>3, <2>1, LeastGreatest
  <2>3. QED
    BY <1>2, <1>3, <1>4, <2>2, ReachGrows
<1>6. CASE External
  <2>1. Reach <= Pos - total_start
    BY <1>1, <1>6 DEF InReach
  <2>2. Pos' - total_start = (Pos - total_start) + e
    BY <1>1, <1>2, Grows
  <2>3. Reach' <= Pos' - total_start
    <3>1. Pos - total_start \in Int
      BY <1>1, <1>2
    <3> HIDE DEF e, x
    <3>2. Reach + e <= (Pos - total_start) + e
      BY <1>3, <1>5, <2>1, <3>1
    <3>3. QED
      BY <1>3, <1>5, <2>2, <3>1, <3>2
  <2>4. total_start' = total_start /\ External'
    BY <1>1, <1>6 DEF PassKeeps
  <2>5. QED
    BY <1>1, <2>3, <2>4 DEF InReach
<1>7. CASE ~External
  <2>1. Reach <= b_bytes_processed + done - buf_hist_start
    BY <1>1, <1>7 DEF InReach
  <2>2. b_bytes_processed + done' - buf_hist_start = (b_bytes_processed + done - buf_hist_start) + e
    BY <1>1, <1>2
  <2>3. Reach' <= b_bytes_processed + done' - buf_hist_start
    <3>1. b_bytes_processed + done - buf_hist_start \in Int
      BY <1>1, <1>2
    <3> HIDE DEF e, x
    <3>2. Reach + e <= (b_bytes_processed + done - buf_hist_start) + e
      BY <1>3, <1>5, <2>1, <3>1
    <3>3. QED
      BY <1>3, <1>5, <2>2, <3>1, <3>2
  <2>4. b_bytes_processed' = b_bytes_processed /\ buf_hist_start' = buf_hist_start /\ ~External'
    BY <1>1, <1>7 DEF PassKeeps
  <2>5. QED
    BY <1>1, <2>3, <2>4 DEF InReach
<1>8. QED
  BY <1>6, <1>7

LEMMA ForgetsAll ==
  ASSUME NEW h \in Nat, NEW p \in Int
  PROVE  Least(h, p - p) = 0
BY DEF Least

LEMMA WindowOfPass ==
  ASSUME IInv, WindowInv, DictInv, PassStep, level # 3
  PROVE  WindowInv'
<1>1. /\ PassKeeps /\ InRound /\ pc \in {"drain", "pass"} /\ pc' \in {"pass", "settle"}
      /\ Pos \in Nat /\ done \in Nat /\ (External' <=> External)
      /\ done' = done => Pos' = Pos
  BY PassHas
<1>2. HistSize \in Nat /\ total_start \in Nat /\ b_bytes_processed \in Nat
      /\ buf_hist_start \in Nat /\ base \in Nat /\ dict \in Nat /\ avail_in \in Nat
      /\ total_in \in Nat
  BY BufferAssumption DEF IInv, Types
<1>3. CASE state \in {"TRL", "END"}
  <2>1. state' \in {"TRL", "END"}
    BY <1>3 DEF PassStep, Drain, NewBlock, Body, Finish, sync_flush, write_trailer,
       create_icf_block_hdr, flush_icf_block, write_type0_header, write_stored_block, Type0
  <2>2. QED
    BY <2>1 DEF WindowInv
<1>4. CASE InReach /\ UNCHANGED <<oldest, base, dict>>
  BY <1>4, InReachOfPass DEF WindowInv
<1>5. CASE oldest' = Pos /\ UNCHANGED <<base, dict, done>>
  <2>1. Pos' = Pos
    BY <1>1, <1>5
  <2>2. Reach' = 0
    BY <1>1, <1>2, <1>5, <2>1, ForgetsAll DEF Reach
  <2>3. oldest' >= base' - dict'
    <3>1. base <= Pos
      BY DEF IInv, CountInv
    <3>2. QED
      BY <1>1, <1>2, <1>5, <3>1
  <2>4. CASE External
    <3>1. total_start <= total_in /\ buffered_size = 0
      BY <2>4 DEF IInv, CountInv
    <3>2. Pos = total_in - 0 + done
      BY <3>1 DEF Pos
    <3>3. 0 <= Pos - total_start
      BY <1>1, <1>2, <3>1, <3>2
    <3>4. total_start' = total_start
      BY <1>1 DEF PassKeeps
    <3>5. External' /\ pc' # "return" /\ 0 <= Pos' - total_start'
      BY <1>1, <2>1, <2>4, <3>3, <3>4
    <3>6. QED
      BY <2>2, <2>3, <3>5 DEF InReach, WindowInv
  <2>5. CASE ~External
    <3>1. buf_hist_start <= b_bytes_processed
      BY <2>5 DEF DictInv
    <3>2. 0 <= b_bytes_processed + done - buf_hist_start
      BY <1>1, <1>2, <3>1
    <3>3. UNCHANGED <<b_bytes_processed, buf_hist_start, done>> /\ ~External'
      BY <1>1, <1>5, <2>5 DEF PassKeeps
    <3>4. QED
      BY <2>2, <2>3, <3>2, <3>3 DEF InReach, WindowInv
  <2>6. QED
    BY <2>4, <2>5
<1>6. CASE has_hist' = "NO_HIST" /\ pc' = "settle" /\ FlushSeen = FULL_FLUSH
  <2>1. ~masked
    BY <1>6 DEF FlushSeen, NO_FLUSH, FULL_FLUSH
  <2>2. internal => avail_in = 0
    BY <1>1, <1>2, <2>1 DEF IInv, HistInv
  <2>3. internal' = internal /\ avail_in' = avail_in
    BY <1>1 DEF PassKeeps
  <2>4. QED
    BY <1>6, <2>2, <2>3 DEF WindowInv, Forgotten, Between
<1>7. CASE NothingLeft
  <2>1. AllCoded /\ Seen = 0
    BY <1>1, <1>7, AllCodedSeen DEF NothingLeft
  <2>2. done' = done
    BY <1>1, <2>1 DEF PassKeeps
  <2>3. AllCoded'
    BY <1>1, <2>1, <2>2 DEF AllCoded, PassKeeps
  <2>4. pc' \notin {"return", "idle"} /\ flush' = flush /\ end_of_stream' = end_of_stream
    BY <1>1 DEF PassKeeps
  <2>5. QED
    BY <1>7, <2>3, <2>4 DEF NothingLeft, WindowInv
<1>8. CASE Forgotten
  BY <1>1, <1>8 DEF Forgotten, Between, DictInv
<1>9. \/ state \in {"TRL", "END"} \/ InReach \/ NothingLeft \/ Forgotten
  BY DEF WindowInv
<1>10. QED
  BY <1>3, <1>4, <1>5, <1>6, <1>7, <1>8, <1>9, TableStep

LEMMA DictOfPass ==
  ASSUME IInv, DictInv, PassStep, level # 3
  PROVE  DictInv'
<1>1. PassKeeps /\ pc \in {"drain", "pass"} /\ (External' <=> External)
  BY PassHas
<1>2. has_hist' = has_hist \/ has_hist' \in {"HIST", "NO_HIST"}
  BY DEF PassStep, Drain, NewBlock, Body, Code, Finish, sync_flush, write_trailer,
     create_icf_block_hdr, flush_icf_block, write_type0_header, write_stored_block
<1>3. has_hist' # "DICT_HIST"
  BY <1>1, <1>2 DEF DictInv
<1>4. ~External' => buf_hist_start' <= b_bytes_processed'
  BY <1>1 DEF DictInv, PassKeeps
<1>5. QED
  BY <1>3, <1>4 DEF DictInv

LEMMA Furthest ==
  ASSUME IInv, InRound
  PROVE  Pos + Seen <= total_in + avail_in
<1>1. Seen \in Nat /\ Pos \in Int /\ buffered_size \in Nat /\ total_in \in Nat
      /\ avail_in \in Nat /\ done \in Nat
  BY SeenType DEF IInv, Types
<1>2. CASE internal
  <2>1. Seen = buffered_size - done
    BY <1>2 DEF Seen
  <2>2. QED
    BY <1>1, <2>1 DEF Pos
<1>3. CASE ~internal
  <2>1. Seen = avail_in - done /\ buffered_size = 0
    BY <1>3 DEF Seen, IInv, CountInv, External, InRound
  <2>2. QED
    BY <1>1, <2>1 DEF Pos
<1>4. QED
  BY <1>2, <1>3

LEMMA CodedMeans ==
  ASSUME NEW t \in Int, NEW p \in Nat, NEW s \in Nat, NEW d \in Nat, NEW e \in Nat,
         p + s <= t, e < d + s
  PROVE  p + (e - d) # t
OBVIOUS

LEMMA FlushOfPass ==
  ASSUME IInv, FlushInv, PassStep, level # 3
  PROVE  FlushInv'
<1>1. /\ PassKeeps /\ InRound /\ pc \in {"drain", "pass"} /\ pc' \in {"pass", "settle"}
      /\ Seen \in Nat /\ Pos \in Nat /\ Pos' = Pos + (done' - done)
      /\ done \in Nat /\ done' \in Nat
      /\ done' = done => Pos' = Pos
  BY PassHas
<1>2. flush' = flush /\ end_of_stream' = end_of_stream /\ total_in' + avail_in' = total_in + avail_in
  BY <1>1 DEF PassKeeps
<1>3. done' = done => (AllCoded' <=> AllCoded)
  BY <1>1, <1>2 DEF AllCoded
<1>4. Flushing => flush # NO_FLUSH \/ end_of_stream
  BY DEF Flushing, EndSeen, FlushSeen
<1>5. CASE Drain
  <2>1. done' = done /\ state' = state /\ has_hist' = has_hist
    BY <1>5 DEF Drain
  <2>2. \/ ~tmp /\ pc' = "pass" /\ tmp' = tmp
        \/ tmp /\ room' = 0 /\ pc' = "settle" /\ tmp' = tmp
        \/ tmp /\ ~tmp' /\ (pc' = "pass" \/ (pc' = "settle" /\ (room' = 0 \/ state = "END")))
    BY <1>5 DEF Drain
  <2>3. pc' = "pass" => ~tmp'
    BY <2>2
  <2>4. state' \in Early => /\ flush' # NO_FLUSH \/ end_of_stream'
                            /\ pc' \in Between => room' = 0
    BY <1>2, <2>1, <2>2 DEF FlushInv, Between, Early
  <2>5. tmp' /\ state' = "NEW_HDR" =>
          /\ flush' # NO_FLUSH \/ end_of_stream'
          /\ pc' \in Between => room' = 0
          /\ AllCoded' /\ flush' = FULL_FLUSH /\ ~end_of_stream' => has_hist' = "NO_HIST"
    BY <1>2, <1>3, <2>1, <2>2 DEF FlushInv, Between
  <2>6. ASSUME pc' = "settle", AllCoded', flush' = FULL_FLUSH, ~end_of_stream'
        PROVE  state' \in {"TRL", "END"} \/ has_hist' = "NO_HIST" \/ ~Delivered'
    <3>1. CASE state = "END"
      BY <2>1, <3>1
    <3>2. CASE state # "END"
      <4>1. tmp /\ room' = 0
        BY <2>2, <2>6, <3>2
      <4>2. CASE state = "NEW_HDR"
        BY <1>2, <1>3, <2>1, <2>6, <4>1, <4>2 DEF FlushInv
      <4>3. CASE state # "NEW_HDR"
        BY <2>1, <4>1, <4>3 DEF Delivered
      <4>4. QED
        BY <4>2, <4>3
    <3>3. QED
      BY <3>1, <3>2
  <2>7. QED
    BY <2>3, <2>4, <2>5, <2>6 DEF FlushInv, Early
<1>6. CASE GoesOn
  <2>1. pc' = "pass" /\ ~tmp'
    BY <1>6 DEF GoesOn, FlushInv
  <2>2. state' \in Early => flush' # NO_FLUSH \/ end_of_stream'
    BY <1>2, <1>4, <1>6 DEF GoesOn, FlushInv, Early
  <2>3. QED
    BY <2>1, <2>2 DEF FlushInv, Between, Early
<1>7. CASE RunsOut
  <2>1. pc' = "settle" /\ room' = 0 /\ state' # "NEW_HDR" /\ ~Delivered'
    BY <1>7 DEF RunsOut, Delivered
  <2>2. state' \in Early => flush' # NO_FLUSH \/ end_of_stream'
    BY <1>2, <1>7 DEF RunsOut, FlushInv, Early
  <2>3. QED
    BY <2>1, <2>2 DEF FlushInv, Early
<1>8. CASE FlushEnds
  <2>1. pc' = "settle" /\ state' = "NEW_HDR" /\ (tmp' => room' = 0)
        /\ (flush' # NO_FLUSH \/ end_of_stream')
    BY <1>2, <1>8 DEF FlushEnds, FlushInv
  <2>2. ASSUME AllCoded', flush' = FULL_FLUSH
        PROVE  has_hist' = "NO_HIST"
    <3>1. ~masked
      BY <1>1, <1>3, <1>8, <2>2, AllCodedSeen DEF FlushEnds
    <3>2. FlushSeen = FULL_FLUSH
      BY <1>2, <2>2, <3>1 DEF FlushSeen
    <3>3. QED
      BY <1>8, <3>2 DEF FlushEnds
  <2>3. QED
    BY <2>1, <2>2 DEF FlushInv
<1>9. CASE Waits
  <2>1. pc' = "settle" /\ state' = "BODY"
    BY <1>9 DEF Waits
  <2>2. ~(AllCoded' /\ flush' = FULL_FLUSH)
    <3>1. SUFFICES ASSUME AllCoded', flush' = FULL_FLUSH PROVE FALSE
      OBVIOUS
    <3>2. CASE done' = done
      <4>1. ~masked
        BY <1>1, <1>3, <3>1, <3>2, AllCodedSeen
      <4>2. Flushing
        BY <1>2, <3>1, <4>1 DEF Flushing, FlushSeen, NO_FLUSH, FULL_FLUSH
      <4>3. QED
        BY <1>9, <4>2 DEF Waits
    <3>3. CASE done' < done + Seen
      <4>1. Pos + Seen <= total_in + avail_in /\ total_in + avail_in \in Int
        BY <1>1, Furthest DEF IInv, Types
      <4>2. Pos' # total_in + avail_in
        BY <1>1, <3>3, <4>1, CodedMeans
      <4>3. QED
        BY <1>2, <3>1, <4>2 DEF AllCoded
    <3>4. QED
      BY <1>9, <3>2, <3>3 DEF Waits
  <2>3. QED
    BY <2>1, <2>2 DEF FlushInv
<1>10. CASE Ends
  BY <1>10 DEF Ends, FlushInv
<1>11. QED
  BY <1>5, <1>6, <1>7, <1>8, <1>9, <1>10, EndOfStep

-----------------------------------------------------------------------------
(* A round starts with history enough for what the table reaches, or has   *)
(* nothing to code.                                                        *)
LEMMA SlideReach ==
  ASSUME NEW p \in Nat, NEW b \in Nat, NEW k \in Nat, NEW h \in Nat, b <= p, k <= p,
         k = 0 \/ k = p - h
  PROVE  /\ Greatest(0, b - k) \in Nat /\ Greatest(0, b - k) <= p - k
         /\ \A r \in Int : r <= p - b /\ r <= h => r <= (p - k) + 0 - Greatest(0, b - k)
BY DEF Greatest

LEMMA ReachType ==
  ASSUME IInv, NEW p \in Nat, p = Pos
  PROVE  Reach \in Int /\ Reach <= HistSize
<1>1. HistSize \in Nat /\ oldest \in Int
  BY BufferAssumption DEF IInv, Types
<1>2. Reach = Least(HistSize, p - oldest) /\ p - oldest \in Int
  BY <1>1 DEF Reach
<1>3. QED
  BY <1>1, <1>2 DEF Least

LEMMA RoundHas ==
  ASSUME IInv, InReach, pc = "round"
  PROVE  \/ Reach <= hist_size /\ Reach <= b_bytes_processed - buf_hist_start
         \/ /\ NothingToCome(avail_in + buffered_size, flush, end_of_stream)
            /\ AllCoded
<1>1. /\ done = 0 /\ ~External /\ Pos \in Int /\ hist_size \in Nat /\ HistSize \in Nat
      /\ b_bytes_processed \in Nat /\ buf_hist_start \in Nat /\ buffered_size \in Nat
      /\ avail_in \in Nat /\ total_in \in Nat
  BY BufLen, BufferAssumption
     DEF IInv, Types, CountInv, External, Pos, buffered_size, b_bytes_valid
<1>2. Pos = total_in - buffered_size /\ Pos \in Nat
  <2>1. Pos = total_in - buffered_size + 0
    BY <1>1 DEF Pos
  <2>2. base <= Pos /\ base \in Nat
    BY DEF IInv, CountInv, Types
  <2>3. QED
    BY <1>1, <2>1, <2>2
<1> DEFINE x == b_bytes_processed - buf_hist_start
<1>3. x \in Int
  BY <1>1
<1>4. Reach \in Int /\ Reach <= HistSize /\ Reach <= x
  <2>1. Reach <= b_bytes_processed + 0 - buf_hist_start
    BY <1>1 DEF InReach
  <2>2. b_bytes_processed + 0 - buf_hist_start = x
    BY <1>1
  <2>3. QED
    BY <1>2, <2>1, <2>2, ReachType
<1>5. CASE Least(HistSize, x) <= hist_size
  <2> HIDE DEF x
  <2>1. Reach <= hist_size
    BY <1>1, <1>3, <1>4, <1>5 DEF Least
  <2>2. QED
    BY <1>4, <2>1 DEF x
<1>6. CASE NothingToCome(avail_in + buffered_size, flush, end_of_stream)
  <2>1. avail_in + buffered_size = 0
    BY <1>6 DEF NothingToCome
  <2>2. AllCoded
    BY <1>1, <1>2, <2>1 DEF AllCoded
  <2>3. QED
    BY <1>6, <2>2
<1>7. QED
  BY <1>5, <1>6 DEF IInv, HistInv

LEMMA RoundInternalReaches ==
  ASSUME WInv, RoundInternal
  PROVE  WindowInv' /\ FlushInv' /\ DictInv'
<1> DEFINE P == b_bytes_processed
           V == b_bytes_valid
           B == buffered_size
           S == buf_hist_start
<1>1. IInv /\ WindowInv /\ FlushInv /\ DictInv
  BY DEF WInv
<1>2. /\ P \in Nat /\ V \in Nat /\ P <= V /\ hist_size \in Nat /\ S \in Nat /\ B \in Nat
      /\ total_in \in Nat /\ avail_in \in Nat /\ done = 0 /\ B = V - P
      /\ total_in - B \in Int
  BY <1>1, BufLen DEF RoundInternal, IInv, Types, CountInv, b_bytes_valid, buffered_size
<1>3. /\ pc = "round" /\ internal' = TRUE /\ done' = 0
      /\ pc' = "drain" \/ (pc' = "return" /\ flush = NO_FLUSH /\ ~end_of_stream)
      /\ UNCHANGED <<flush, end_of_stream, state, tmp, has_hist, room, oldest, base, dict,
                     hist_size>>
      /\ ~External /\ ~External'
  BY DEF RoundInternal, EnoughBuffered, External, userVars, winVars
<1>4. S <= P
  BY <1>1, <1>3 DEF DictInv
<1>5. PICK k \in Int, t \in Int : Slides(k, t) /\ k = Slide
  <2>1. Slides(Slide, Taken)
    BY <1>1, SlideOfRound DEF IInv
  <2>2. Slide \in Int /\ Taken \in Int
    BY <1>2, <2>1 DEF Slides
  <2>3. QED
    BY <2>1, <2>2
<1>6. /\ k \in Nat /\ k <= P /\ (k = 0 \/ k = P - hist_size) /\ t \in Nat
      /\ b_bytes_valid' = V - k + t /\ b_bytes_processed' = P - k
      /\ avail_in' = avail_in - t /\ total_in' = total_in + t
      /\ buf_hist_start' = Greatest(0, S - k)
  <2>1. /\ k \in 0..P /\ (k = 0 \/ k = P - hist_size) /\ t \in Nat
        /\ b_bytes_valid' = V - k + t
        /\ avail_in' = avail_in - t /\ total_in' = total_in + t
    BY <1>5 DEF Slides
  <2>2. b_bytes_processed' = P - k
    BY <1>5 DEF Slides
  <2>3. buf_hist_start' = Greatest(0, S - k)
    BY <1>5 DEF RoundInternal
  <2>4. k \in Nat /\ k <= P
    BY <1>2, <2>1
  <2>5. QED
    BY <2>1, <2>2, <2>3, <2>4
<1>7. Pos = total_in - B
  <2>1. Pos = total_in - B + 0
    BY <1>2 DEF Pos
  <2>2. QED
    BY <1>2, <2>1
<1>8. buffered_size' = (V - k + t) - (P - k)
  BY <1>6 DEF buffered_size
<1>9. Pos' = (total_in + t) - ((V - k + t) - (P - k)) + 0
  BY <1>3, <1>6, <1>8 DEF Pos
<1> HIDE DEF V, P, B, S
<1>10. Pos' = Pos /\ total_in' + avail_in' = total_in + avail_in
  BY <1>2, <1>6, <1>7, <1>9
<1>11. AllCoded' <=> AllCoded
  BY <1>10 DEF AllCoded
<1>12. NothingLeft => NothingLeft'
  BY <1>3, <1>11 DEF NothingLeft, NO_FLUSH, FULL_FLUSH
<1>13. DictInv'
  <2>1. buf_hist_start' <= b_bytes_processed'
    BY <1>2, <1>4, <1>6, SlideReach
  <2>2. has_hist' # "DICT_HIST"
    BY <1>1, <1>3 DEF DictInv
  <2>3. QED
    BY <2>1, <2>2 DEF DictInv
<1>14. FlushInv'
  BY <1>1, <1>3, <1>11 DEF FlushInv, Between
<1>15. WindowInv'
  <2>1. CASE state \in {"TRL", "END"}
    BY <1>3, <2>1 DEF WindowInv
  <2>2. CASE Forgotten
    BY <1>1, <1>3, <2>2 DEF Forgotten, Between, DictInv
  <2>3. CASE NothingLeft
    BY <1>12, <2>3 DEF WindowInv
  <2>4. CASE InReach
    <3>1. CASE Reach <= hist_size /\ Reach <= b_bytes_processed - buf_hist_start
      <4>1. Pos \in Nat
        <5>1. base <= Pos /\ base \in Nat
          BY <1>1 DEF IInv, CountInv, Types
        <5>2. QED
          BY <1>2, <1>7, <5>1
      <4>2. Reach \in Int /\ Reach <= P - S /\ Reach <= hist_size
        BY <1>1, <3>1, <4>1, ReachType DEF P, S
      <4>3. Reach' = Reach
        BY <1>3, <1>10 DEF Reach
      <4>4. Reach <= (P - k) + 0 - Greatest(0, S - k)
        BY <1>2, <1>4, <1>6, <4>2, SlideReach
      <4>5. oldest' >= base' - dict'
        BY <1>3, <2>4 DEF InReach
      <4>6. InReach'
        BY <1>3, <1>6, <4>3, <4>4, <4>5 DEF InReach
      <4>7. QED
        BY <4>6 DEF WindowInv
    <3>2. CASE /\ NothingToCome(avail_in + buffered_size, flush, end_of_stream)
               /\ AllCoded
      <4>1. end_of_stream \/ flush = FULL_FLUSH
        BY <3>2 DEF NothingToCome
      <4>2. NothingLeft
        BY <1>3, <3>2, <4>1 DEF NothingLeft
      <4>3. QED
        BY <1>12, <4>2 DEF WindowInv
    <3>3. QED
      BY <1>1, <1>3, <2>4, <3>1, <3>2, RoundHas
  <2>5. QED
    BY <1>1, <2>1, <2>2, <2>3, <2>4 DEF WindowInv
<1>16. QED
  BY <1>13, <1>14, <1>15

LEMMA RoundExternalReaches ==
  ASSUME WInv, RoundExternal
  PROVE  WindowInv' /\ FlushInv' /\ DictInv'
<1> DEFINE B == buffered_size
<1>1. IInv /\ WindowInv /\ FlushInv /\ DictInv
  BY DEF WInv
<1>2. /\ hist_size \in Nat /\ B \in Nat /\ total_start \in Nat
      /\ total_in \in Nat /\ avail_in \in Nat /\ done = 0
  BY <1>1, BufLen DEF RoundExternal, IInv, Types, CountInv, b_bytes_valid, buffered_size
<1>3. /\ pc = "round" /\ pc' = "drain" /\ done' = 0
      /\ UNCHANGED <<flush, end_of_stream, state, tmp, has_hist, oldest, base, dict, total_start>>
      /\ External'
  BY DEF RoundExternal, External, userVars, winVars
<1>4. Pos = total_in - B
  <2>1. Pos = total_in - B + 0
    BY <1>2 DEF Pos
  <2>2. QED
    BY <1>2, <2>1
<1>5. /\ avail_in' = avail_in + B /\ total_in' = total_in - B /\ buffered_size' = 0
  <2>1. CASE B > 0
    <3>1. avail_in' = avail_in + B /\ total_in' = total_in - B
          /\ buffer' = <<>> /\ b_bytes_processed' = 0
      BY <2>1 DEF RoundExternal
    <3>2. Len(<<>>) = 0
      BY EmptySeq
    <3>3. QED
      BY <3>1, <3>2 DEF buffered_size, b_bytes_valid
  <2>2. CASE ~(B > 0)
    <3>1. B = 0 /\ UNCHANGED <<avail_in, total_in, buffer, b_bytes_processed>>
      BY <1>2, <2>2 DEF RoundExternal, bufVars
    <3>2. buffered_size' = buffered_size
      BY <3>1 DEF buffered_size, b_bytes_valid
    <3>3. avail_in + 0 = avail_in /\ total_in - 0 = total_in
      BY <1>2
    <3>4. QED
      BY <3>1, <3>2, <3>3
  <2>3. QED
    BY <2>1, <2>2
<1>6. total_in - total_start >= hist_size + B
  BY <1>2 DEF RoundExternal, NeedsBuffer
<1>7. Pos' = (total_in - B) - 0 + 0
  BY <1>3, <1>5 DEF Pos
<1> HIDE DEF B
<1>8. Pos' = Pos /\ total_in' + avail_in' = total_in + avail_in /\ hist_size <= Pos - total_start
      /\ Pos \in Nat
  BY <1>2, <1>4, <1>5, <1>6, <1>7
<1>9. AllCoded' <=> AllCoded
  BY <1>8 DEF AllCoded
<1>10. NothingLeft => NothingLeft'
  BY <1>3, <1>9 DEF NothingLeft
<1>11. DictInv'
  BY <1>1, <1>3 DEF DictInv
<1>12. FlushInv'
  BY <1>1, <1>3, <1>9 DEF FlushInv, Between
<1>13. WindowInv'
  <2>1. CASE state \in {"TRL", "END"}
    BY <1>3, <2>1 DEF WindowInv
  <2>2. CASE Forgotten
    BY <1>1, <1>3, <2>2 DEF Forgotten, Between, DictInv
  <2>3. CASE NothingLeft
    BY <1>10, <2>3 DEF WindowInv
  <2>4. CASE InReach
    <3>1. CASE Reach <= hist_size
      <4>1. Reach \in Int /\ Reach' = Reach
        BY <1>1, <1>3, <1>8, ReachType DEF Reach
      <4>2. Pos - total_start \in Int
        BY <1>2, <1>8
      <4>3. Reach <= Pos - total_start
        BY <1>2, <1>8, <3>1, <4>1, <4>2
      <4>4. InReach'
        BY <1>3, <1>8, <2>4, <4>1, <4>3 DEF InReach
      <4>5. QED
        BY <4>4 DEF WindowInv
    <3>2. CASE /\ NothingToCome(avail_in + buffered_size, flush, end_of_stream)
               /\ AllCoded
      <4>1. end_of_stream \/ flush = FULL_FLUSH
        BY <3>2 DEF NothingToCome
      <4>2. NothingLeft
        BY <1>3, <3>2, <4>1 DEF NothingLeft
      <4>3. QED
        BY <1>10, <4>2 DEF WindowInv
    <3>3. QED
      BY <1>1, <1>3, <2>4, <3>1, <3>2, RoundHas
  <2>5. QED
    BY <1>1, <2>1, <2>2, <2>3, <2>4 DEF WindowInv
<1>14. QED
  BY <1>11, <1>12, <1>13

-----------------------------------------------------------------------------
(* A round's end: what its pass has coded is history now.                  *)
LEMMA SettleMoves ==
  ASSUME IInv, Settle
  PROVE  /\ pc = "settle" /\ InRound /\ done' = 0 /\ Pos' = Pos /\ Pos \in Nat
         /\ pc' = "return" \/ (pc' = "round" /\ internal /\ avail_in > 0)
         /\ UNCHANGED <<flush, end_of_stream, state, tmp, has_hist, room, oldest, base, dict,
                        total_start, buf_hist_start, internal>>
         /\ External' <=> External
         /\ AllCoded' <=> AllCoded
         /\ internal => avail_in' = avail_in /\ b_bytes_processed' = b_bytes_processed + done
<1>1. /\ pc = "settle" /\ InRound /\ done' = 0
      /\ pc' = "return" \/ (pc' = "round" /\ internal /\ avail_in > 0)
      /\ UNCHANGED <<level, written, block_end, flush, end_of_stream, state, tmp, has_hist, room,
                     oldest, base, dict, total_start, buf_hist_start, internal>>
      /\ internal => /\ avail_in' = avail_in /\ total_in' = total_in
                     /\ b_bytes_processed' = b_bytes_processed + done
      /\ ~internal => avail_in' = Seen /\ total_in' = Pos
  BY DEF Settle, InRound, userVars, blockVars, winVars
<1>2. IInv'
  BY SettleKeeps
<1>3. Pos' = Pos
  BY <1>1, <1>2 DEF IInv, BlockInv
<1>4. Pos \in Nat
  <2>1. base <= Pos /\ base \in Nat /\ Pos \in Int
    BY <1>1, SeenType DEF IInv, CountInv, Types
  <2>2. QED
    BY <2>1
<1>5. External' <=> External
  BY <1>1 DEF External
<1>6. total_in' + avail_in' = total_in + avail_in
  <2>1. CASE internal
    BY <1>1, <2>1
  <2>2. CASE ~internal
    <3>1. Seen = avail_in - done /\ buffered_size = 0
      BY <1>1, <2>2 DEF Seen, IInv, CountInv, External
    <3>2. Pos = total_in - 0 + done
      BY <3>1 DEF Pos
    <3>3. total_in \in Nat /\ avail_in \in Nat /\ done \in Nat
      BY DEF IInv, Types
    <3>4. Pos + Seen = total_in + avail_in
      BY <3>1, <3>2, <3>3
    <3>5. QED
      BY <1>1, <2>2, <3>4
  <2>3. QED
    BY <2>1, <2>2
<1>7. AllCoded' <=> AllCoded
  BY <1>3, <1>6 DEF AllCoded
<1>8. QED
  BY <1>1, <1>3, <1>4, <1>5, <1>7

LEMMA SettleEnds ==
  ASSUME WInv, Settle, AllCoded, end_of_stream \/ flush = FULL_FLUSH
  PROVE  WindowInv'
<1>1. IInv /\ FlushInv
  BY DEF WInv
<1>2. /\ pc = "settle" /\ InRound
      /\ pc' = "return" \/ (pc' = "round" /\ internal /\ avail_in > 0)
      /\ UNCHANGED <<flush, end_of_stream, state, tmp, has_hist, room, internal>>
      /\ AllCoded' <=> AllCoded
      /\ internal => avail_in' = avail_in
  BY <1>1, SettleMoves
<1>3. internal => avail_in = 0
  BY <1>1, <1>2, AllCodedSeen
<1>4. pc' = "return" /\ (internal' => avail_in' = 0)
  BY <1>2, <1>3
<1>5. CASE end_of_stream
  BY <1>2, <1>5 DEF WindowInv, NothingLeft
<1>6. CASE ~end_of_stream
  <2>1. state \in {"TRL", "END"} \/ has_hist = "NO_HIST" \/ ~Delivered
    BY <1>1, <1>2, <1>6 DEF FlushInv
  <2>2. CASE has_hist = "NO_HIST"
    BY <1>2, <1>4, <2>2 DEF WindowInv, Forgotten, Between
  <2>3. CASE ~Delivered
    BY <1>2, <1>6, <2>3 DEF WindowInv, NothingLeft, Delivered
  <2>4. QED
    BY <1>2, <2>1, <2>2, <2>3 DEF WindowInv
<1>7. QED
  BY <1>5, <1>6

LEMMA SettleReaches ==
  ASSUME WInv, Settle
  PROVE  WindowInv' /\ FlushInv' /\ DictInv'
<1>1. IInv /\ WindowInv /\ FlushInv /\ DictInv
  BY DEF WInv
<1>2. /\ pc = "settle" /\ InRound /\ done' = 0 /\ Pos' = Pos /\ Pos \in Nat
      /\ pc' = "return" \/ (pc' = "round" /\ internal /\ avail_in > 0)
      /\ UNCHANGED <<flush, end_of_stream, state, tmp, has_hist, room, oldest, base, dict,
                     total_start, buf_hist_start, internal>>
      /\ External' <=> External
      /\ AllCoded' <=> AllCoded
      /\ internal => avail_in' = avail_in /\ b_bytes_processed' = b_bytes_processed + done
  BY <1>1, SettleMoves
<1>3. /\ done \in Nat /\ b_bytes_processed \in Nat /\ buf_hist_start \in Nat
      /\ total_start \in Nat /\ total_in \in Nat /\ avail_in \in Nat /\ HistSize \in Nat
  BY <1>1, BufferAssumption DEF IInv, Types
<1>4. DictInv'
  <2>1. has_hist' # "DICT_HIST"
    BY <1>1, <1>2 DEF DictInv
  <2>2. ~External' => internal /\ buf_hist_start <= b_bytes_processed
    BY <1>1, <1>2 DEF External, DictInv
  <2>3. buf_hist_start <= b_bytes_processed => buf_hist_start <= b_bytes_processed + done
    BY <1>3
  <2>4. QED
    BY <1>2, <2>1, <2>2, <2>3 DEF DictInv
<1>5. FlushInv'
  BY <1>1, <1>2 DEF FlushInv, Between
<1>6. WindowInv'
  <2>1. CASE state \in {"TRL", "END"}
    BY <1>2, <2>1 DEF WindowInv
  <2>2. CASE Forgotten
    <3>1. has_hist = "NO_HIST" /\ (internal => avail_in = 0)
      BY <1>1, <1>2, <2>2 DEF Forgotten, DictInv
    <3>2. pc' = "return"
      BY <1>2, <3>1
    <3>3. QED
      BY <1>2, <3>1, <3>2 DEF Forgotten, Between, WindowInv
  <2>3. CASE NothingLeft
    BY <2>3, SettleEnds DEF NothingLeft
  <2>4. CASE InReach /\ internal
    <3>1. Reach <= b_bytes_processed + done - buf_hist_start /\ oldest >= base - dict
      BY <2>4 DEF InReach, External
    <3>2. b_bytes_processed + done - buf_hist_start = (b_bytes_processed + done) + 0 - buf_hist_start
      BY <1>3
    <3>3. Reach' = Reach /\ ~External'
      BY <1>2, <2>4 DEF Reach, External
    <3>4. QED
      BY <1>2, <2>4, <3>1, <3>2, <3>3 DEF InReach, WindowInv
  <2>5. CASE InReach /\ ~internal
    <3> DEFINE cur == Pos - total_start
               h == get_hist_size(Seen, FlushSeen, EndSeen, cur, Pos)
    <3>1. External /\ buffered_size = 0 /\ Seen = avail_in - done /\ total_start <= total_in
      BY <1>1, <1>2, <2>5 DEF External, InRound, IInv, CountInv, Seen
    <3>2. Pos = total_in - 0 + done
      BY <3>1 DEF Pos
    <3>3. cur \in Nat /\ Seen \in Nat
      BY <1>1, <1>2, <1>3, <3>1, <3>2, SeenType DEF IInv
    <3>4. hist_size' = h /\ pc' = "return" /\ External'
      BY <1>2, <2>5, <3>1 DEF Settle, cur_in_processed
    <3>5. Reach \in Int /\ Reach <= HistSize /\ Reach <= cur
      <4>1. Reach <= cur
        BY <1>2, <2>5, <3>1 DEF InReach
      <4>2. QED
        BY <1>1, <1>2, <4>1, ReachType
    <3>6. /\ h \in Nat
          /\ state \in Type0 \/ ~NothingToCome(Seen, FlushSeen, EndSeen) => h >= Least(HistSize, cur)
      BY <1>1, <1>2, <3>3, HistSizeBounds DEF IInv
    <3> HIDE DEF cur, h
    <3>7. CASE state \in Type0 \/ ~NothingToCome(Seen, FlushSeen, EndSeen)
      <4>1. Reach <= h
        BY <1>3, <3>3, <3>5, <3>6, <3>7 DEF Least
      <4>2. Reach' = Reach
        BY <1>2 DEF Reach
      <4>3. QED
        BY <1>2, <2>5, <3>4, <4>1, <4>2 DEF InReach, WindowInv
    <3>8. CASE NothingToCome(Seen, FlushSeen, EndSeen)
      <4>1. Seen = 0 /\ (end_of_stream \/ flush = FULL_FLUSH)
        BY <3>8 DEF NothingToCome, EndSeen, FlushSeen, NO_FLUSH, FULL_FLUSH
      <4>2. AllCoded
        <5>1. total_in + avail_in = Pos
          BY <1>3, <3>1, <3>2, <4>1
        <5>2. QED
          BY <5>1 DEF AllCoded
      <4>3. QED
        BY <4>1, <4>2, SettleEnds
    <3>9. QED
      BY <3>7, <3>8
  <2>6. QED
    BY <1>1, <2>1, <2>2, <2>3, <2>4, <2>5 DEF WindowInv
<1>7. QED
  BY <1>4, <1>5, <1>6

(* The history that a call leaves in the buffer.                           *)
LEMMA ReturnReaches ==
  ASSUME WInv, Return
  PROVE  WindowInv' /\ FlushInv' /\ DictInv'
<1>1. IInv /\ WindowInv /\ FlushInv /\ DictInv
  BY DEF WInv
<1>2. IInv'
  BY <1>1, ReturnKeeps
<1>3. /\ pc = "return" /\ pc' = "idle" /\ done = 0 /\ done' = 0
      /\ buf_hist_start' = 0 /\ internal' = FALSE
      /\ UNCHANGED <<level, written, block_end, room, flush, end_of_stream, state, tmp, has_hist,
                     oldest, base, dict>>
      /\ b_bytes_processed' = (IF CopiesHistory THEN hist_size ELSE b_bytes_processed)
      /\ ~External'
  BY <1>1 DEF Return, IInv, CountInv, External, userVars, blockVars, winVars
<1>4. Pos' = Pos
  BY <1>1, <1>2, <1>3 DEF IInv, BlockInv
<1>5. b_bytes_processed' \in Nat /\ b_bytes_processed \in Nat /\ buf_hist_start \in Nat
      /\ hist_size \in Nat /\ avail_in \in Nat /\ total_in \in Nat
  BY <1>1, <1>2 DEF IInv, Types
<1>6. total_in' + avail_in' = total_in + avail_in
  <2> DEFINE hist == IF CopiesHistory THEN [i \in 1..hist_size |-> At(i - 1 - hist_size)]
                     ELSE buffer
             k == future_size(BufSize - Len(hist))
  <2>1. avail_in' = avail_in - k /\ total_in' = total_in + k
    BY DEF Return
  <2>2. Len(hist) \in Nat
    BY <1>1, HistoryKept
  <2> HIDE DEF hist
  <2>3. k \in Int
    <3> DEFINE s == BufSize - Len(hist)
    <3>1. s \in Int /\ LookAhead \in Int
      BY <2>2, BufferAssumption DEF BufSize
    <3>2. k = future_size(s)
      OBVIOUS
    <3> HIDE DEF s, k
    <3>3. QED
      BY <1>5, <3>1, <3>2 DEF future_size, Least
  <2> HIDE DEF k
  <2>4. QED
    BY <1>5, <2>1, <2>3
<1>7. AllCoded' <=> AllCoded
  BY <1>4, <1>6 DEF AllCoded
<1>8. DictInv'
  <2>1. has_hist' # "DICT_HIST"
    BY <1>1, <1>3 DEF DictInv
  <2>2. QED
    BY <1>3, <1>5, <2>1 DEF DictInv
<1>9. FlushInv'
  BY <1>1, <1>3, <1>7 DEF FlushInv, Between
<1>10. WindowInv'
  <2>1. CASE state \in {"TRL", "END"}
    BY <1>3, <2>1 DEF WindowInv
  <2>2. CASE Forgotten
    BY <1>1, <1>3, <2>2 DEF Forgotten, Between, WindowInv, DictInv
  <2>3. CASE NothingLeft
    BY <1>3, <1>7, <2>3 DEF NothingLeft, WindowInv, Delivered
  <2>4. CASE InReach /\ state \notin {"TRL", "END"}
    <3>1. Reach' = Reach /\ Reach \in Int
      <4>1. Pos \in Nat
        BY <1>2, <1>4 DEF IInv, CountInv, BlockInv, Types
      <4>2. QED
        BY <1>1, <1>3, <1>4, <4>1, ReachType DEF Reach
    <3>2. Reach <= b_bytes_processed'
      <4>1. CASE internal
        <5>1. Reach <= b_bytes_processed + 0 - buf_hist_start
          BY <1>3, <2>4, <4>1 DEF InReach, External
        <5>2. Reach <= b_bytes_processed
          BY <1>5, <3>1, <5>1
        <5>3. QED
          BY <1>3, <4>1, <5>2 DEF CopiesHistory
      <4>2. CASE ~internal
        <5>1. Reach <= hist_size
          BY <1>3, <2>4, <4>2 DEF InReach, External
        <5>2. CopiesHistory
          BY <2>4, <4>2 DEF CopiesHistory
        <5>3. QED
          BY <1>3, <5>1, <5>2
      <4>3. QED
        BY <4>1, <4>2
    <3>3. b_bytes_processed' + 0 - 0 = b_bytes_processed'
      <4> DEFINE q == b_bytes_processed'
      <4>1. q \in Nat
        BY <1>5
      <4> HIDE DEF q
      <4>2. q + 0 - 0 = q
        BY <4>1
      <4>3. QED
        BY <4>2 DEF q
    <3>4. InReach'
      BY <1>3, <2>4, <3>1, <3>2, <3>3 DEF InReach
    <3>5. QED
      BY <3>4 DEF WindowInv
  <2>5. QED
    BY <1>1, <2>1, <2>2, <2>3, <2>4 DEF WindowInv
<1>11. QED
  BY <1>8, <1>9, <1>10

-----------------------------------------------------------------------------
(* A call, with an empty table, a dictionary, or the table as it was.      *)
LEMMA CallReaches ==
  ASSUME WInv, Call, ~FeedMidFlush
  PROVE  WindowInv' /\ FlushInv' /\ DictInv'
<1> DEFINE P == b_bytes_processed
<1>1. IInv /\ WindowInv /\ FlushInv /\ DictInv
  BY DEF WInv
<1>2. /\ pc = "idle" /\ pc' = "round" /\ done = 0 /\ internal = FALSE /\ buf_hist_start = 0
      /\ UNCHANGED <<total_in, state, tmp, buffer, b_bytes_processed, internal, done, base, dict>>
      /\ ~External /\ ~External'
  BY <1>1 DEF Call, IInv, CountInv, External, bufVars
<1>3. P \in Nat /\ Pos \in Int /\ total_in \in Nat /\ avail_in \in Nat /\ HistSize \in Nat
      /\ base \in Nat /\ dict \in Nat /\ base <= Pos
  BY <1>1, <1>2, BufLen, BufferAssumption
     DEF IInv, Types, CountInv, Pos, buffered_size, b_bytes_valid
<1>4. Pos' = Pos
  BY <1>2 DEF Pos, buffered_size, b_bytes_valid
<1>5. PICK n \in Chunks, r \in Rooms, f \in Flushes, eos \in BOOLEAN :
        /\ MayAsk(n, f, eos) /\ avail_in' = avail_in + n /\ room' = r
        /\ flush' = f /\ end_of_stream' = eos
  BY DEF Call
<1>6. ASSUME flush = NO_FLUSH => end_of_stream, ~FlushComplete \/ end_of_stream
      PROVE  /\ end_of_stream' \/ (~end_of_stream /\ ~end_of_stream' /\ flush' = flush)
             /\ AllCoded' <=> AllCoded
  <2>1. n = 0 /\ (end_of_stream' \/ (~end_of_stream /\ ~end_of_stream' /\ flush' = flush))
    BY <1>5, <1>6 DEF MayAsk
  <2>2. avail_in' = avail_in
    BY <1>3, <1>5, <2>1
  <2>3. QED
    BY <1>2, <1>4, <2>1, <2>2 DEF AllCoded
<1>7. has_hist' # "DICT_HIST" /\ (has_hist # "DICT_HIST" => has_hist' = has_hist)
  BY DEF Call
<1>8. DictInv'
  <2>1. buf_hist_start' = P \/ buf_hist_start' = 0
    BY <1>2 DEF Call
  <2>2. QED
    BY <1>2, <1>3, <1>7, <2>1 DEF DictInv
<1>9. FlushInv'
  <2>1. ASSUME state \in {"FLUSH_READ_BUFFER", "SYNC_FLUSH"} \/ (tmp /\ state = "NEW_HDR")
        PROVE  /\ end_of_stream' \/ (~end_of_stream /\ ~end_of_stream' /\ flush' = flush)
               /\ AllCoded' <=> AllCoded
               /\ flush # NO_FLUSH \/ end_of_stream
    <3>1. room = 0 /\ (flush # NO_FLUSH \/ end_of_stream)
      BY <1>1, <1>2, <2>1 DEF FlushInv, Between
    <3>2. ~FlushComplete
      BY <2>1, <3>1 DEF FlushComplete
    <3>3. QED
      BY <1>6, <3>1, <3>2
  <2>2. state' \in {"FLUSH_READ_BUFFER", "SYNC_FLUSH"} => flush' # NO_FLUSH \/ end_of_stream'
    BY <1>2, <2>1
  <2>3. ASSUME tmp', state' = "NEW_HDR"
        PROVE  /\ flush' # NO_FLUSH \/ end_of_stream'
               /\ AllCoded' /\ flush' = FULL_FLUSH /\ ~end_of_stream' => has_hist' = "NO_HIST"
    <3>1. tmp /\ state = "NEW_HDR"
      BY <1>2, <2>3
    <3>2. AllCoded' /\ flush' = FULL_FLUSH /\ ~end_of_stream' => has_hist = "NO_HIST"
      BY <1>1, <2>1, <3>1 DEF FlushInv
    <3>3. QED
      BY <1>7, <2>1, <3>1, <3>2
  <2>4. QED
    BY <1>2, <2>2, <2>3 DEF FlushInv, Between
<1>10. WindowInv'
  <2>1. CASE state \in {"TRL", "END"}
    BY <1>2, <2>1 DEF WindowInv
  <2>2. CASE has_hist = "NO_HIST"
    <3>1. oldest' = Pos /\ buf_hist_start' = P
      BY <2>2 DEF Call
    <3>2. Reach' = 0
      BY <1>3, <1>4, <3>1, ForgetsAll DEF Reach
    <3>3. P + 0 - P = 0 /\ Pos >= base - dict
      BY <1>3
    <3>4. InReach'
      BY <1>2, <3>1, <3>2, <3>3 DEF InReach
    <3>5. QED
      BY <3>4 DEF WindowInv
  <2>3. CASE has_hist = "DICT_HIST"
    <3>1. /\ total_in = 0 /\ base = 0 /\ buffered_size = 0 /\ dict = P /\ P > 0
          /\ oldest' = Least(-1, total_in - P) /\ buf_hist_start' = 0
      BY <1>1, <1>2, <2>3 DEF DictInv, Call
    <3>2. Pos = 0 - 0 + 0
      BY <1>2, <3>1 DEF Pos
    <3>3. oldest' = 0 - P
      BY <1>3, <3>1 DEF Least
    <3>4. 0 - P >= base - dict
      BY <1>3, <3>1
    <3>5. Reach' = Least(HistSize, 0 - (0 - P))
      <4>1. Pos' = 0
        BY <1>4, <3>2
      <4>2. QED
        BY <3>3, <4>1 DEF Reach
    <3>6. Reach' <= P + 0 - 0
      BY <1>3, <3>5 DEF Least
    <3>7. InReach'
      BY <1>2, <3>1, <3>3, <3>4, <3>6 DEF InReach
    <3>8. QED
      BY <3>7 DEF WindowInv
  <2>4. CASE has_hist \notin {"NO_HIST", "DICT_HIST"}
    <3>1. UNCHANGED <<oldest, buf_hist_start, has_hist>>
      BY <2>4 DEF Call
    <3>2. CASE InReach
      BY <1>2, <1>4, <3>1, <3>2 DEF InReach, Reach, WindowInv
    <3>3. CASE NothingLeft
      <4>1. flush = NO_FLUSH => end_of_stream
        BY <3>3 DEF NothingLeft, NO_FLUSH, FULL_FLUSH
      <4>2. ~FlushComplete \/ end_of_stream
        BY <1>2, <3>3 DEF NothingLeft, Delivered, FlushComplete
      <4>3. /\ end_of_stream' \/ (~end_of_stream /\ ~end_of_stream' /\ flush' = flush)
            /\ AllCoded' <=> AllCoded
        BY <1>6, <4>1, <4>2
      <4>4. QED
        BY <1>2, <3>3, <4>3 DEF NothingLeft, WindowInv
    <3>4. CASE Forgotten
      BY <2>4, <3>4 DEF Forgotten
    <3>5. CASE state \in {"TRL", "END"}
      BY <2>1, <3>5
    <3>6. QED
      BY <1>1, <3>2, <3>3, <3>4, <3>5 DEF WindowInv
  <2>5. QED
    BY <2>2, <2>3, <2>4
<1>11. QED
  BY <1>8, <1>9, <1>10

LEMMA DictReaches ==
  ASSUME WInv, isal_deflate_set_dict \/ isal_deflate_reset_dict, ~DictAfterFlush
  PROVE  WindowInv' /\ FlushInv' /\ DictInv'
<1>1. IInv /\ IInv'
  BY DictKeeps DEF WInv
<1>2. /\ pc = "idle" /\ state = "NEW_HDR" /\ ~tmp /\ total_in = 0 /\ done = 0 /\ buf_hist_start = 0
      /\ buffered_size = 0
  BY <1>1 DEF isal_deflate_set_dict, isal_deflate_reset_dict, MayReplaceHistory, IInv, CountInv
<1>3. PICK k \in DictSizes :
        /\ SetHistory(k)
        /\ \/ has_hist' = "DICT_HIST"
           \/ has_hist' = "DICT_HASH_SET" /\ oldest' = -k
  BY DEF isal_deflate_set_dict, isal_deflate_reset_dict
<1>4. k \in Nat /\ k > 0 /\ HistSize \in Nat
  BY BufferAssumption
<1>5. /\ buffer' = [i \in 1..k |-> i - k - 1] /\ b_bytes_processed' = k
      /\ base' = 0 /\ dict' = k /\ total_in' = 0 /\ state' = "NEW_HDR" /\ ~tmp' /\ pc' = "idle"
      /\ done' = 0 /\ buf_hist_start' = 0 /\ ~External'
  BY <1>2, <1>3 DEF SetHistory, blockVars, callVars, External
<1>6. buffered_size' = 0
  <2> DEFINE r == buffer'
  <2>1. r \in [1..k -> Int]
    BY <1>4, <1>5
  <2> HIDE DEF r
  <2>2. Len(r) = k
    BY <1>4, <2>1, LenOfFunction
  <2>3. buffered_size' = Len(r) - k
    BY <1>5 DEF buffered_size, b_bytes_valid, r
  <2>4. k - k = 0
    BY <1>4
  <2>5. QED
    BY <2>2, <2>3, <2>4
<1>7. Pos' = 0
  <2>1. Pos' = 0 - 0 + 0
    BY <1>5, <1>6 DEF Pos
  <2>2. QED
    BY <2>1
<1>8. FlushInv'
  BY <1>5 DEF FlushInv
<1>9. DictInv'
  BY <1>4, <1>5, <1>6 DEF DictInv
<1>10. WindowInv'
  <2>1. CASE has_hist' = "DICT_HIST"
    BY <2>1 DEF WindowInv, Forgotten
  <2>2. CASE oldest' = -k
    <3>1. Reach' = Least(HistSize, 0 - (-k))
      BY <1>7, <2>2 DEF Reach
    <3>2. Least(HistSize, 0 - (-k)) <= k + 0 - 0 /\ -k >= 0 - k
      BY <1>4 DEF Least
    <3>3. InReach'
      BY <1>5, <2>2, <3>1, <3>2 DEF InReach
    <3>4. QED
      BY <3>3 DEF WindowInv
  <2>3. QED
    BY <1>3, <2>1, <2>2
<1>11. QED
  BY <1>8, <1>9, <1>10

LEMMA FreshReaches == Fresh => WInv
<1> SUFFICES ASSUME Fresh PROVE WInv
  OBVIOUS
<1>1. IInv
  BY FreshIsGood
<1>2. WindowInv
  BY DEF Fresh, WindowInv, Forgotten, Between
<1>3. FlushInv
  BY DEF Fresh, FlushInv
<1>4. DictInv
  BY DEF Fresh, DictInv
<1>5. QED
  BY <1>1, <1>2, <1>3, <1>4 DEF WInv

LEMMA WindowKept ==
  ASSUME 3 \notin Levels, ~DictAfterFlush, ~FeedMidFlush, WInv, [Next]_vars
  PROVE  WInv'
<1>1. IInv /\ WindowInv /\ FlushInv /\ DictInv /\ level # 3
  BY DEF WInv, IInv, Control
<1>2. IInv'
  BY <1>1, NextKeeps
<1>3. CASE Call
  BY <1>2, <1>3, CallReaches DEF WInv
<1>4. CASE RoundInternal
  BY <1>2, <1>4, RoundInternalReaches DEF WInv
<1>5. CASE RoundExternal
  BY <1>2, <1>5, RoundExternalReaches DEF WInv
<1>6. CASE PassStep
  BY <1>1, <1>2, <1>6, WindowOfPass, FlushOfPass, DictOfPass DEF WInv
<1>7. CASE gen_icf_map \/ compress_icf_map \/ icf_body_next_state
  BY <1>1, <1>7 DEF gen_icf_map, compress_icf_map, icf_body_next_state
<1>8. CASE Settle
  BY <1>2, <1>8, SettleReaches DEF WInv
<1>9. CASE Return
  BY <1>2, <1>9, ReturnReaches DEF WInv
<1>10. CASE isal_deflate_set_dict \/ isal_deflate_reset_dict
  BY <1>2, <1>10, DictReaches DEF WInv
<1>11. CASE isal_deflate_reset
  <2>1. Fresh'
    BY <1>1, <1>11 DEF isal_deflate_reset, Fresh, IInv, Types, Control, CountInv
  <2>2. QED
    BY <2>1, FreshReaches, PTL
<1>12. CASE UNCHANGED vars
  <2>1. UNCHANGED <<avail_in, total_in, room, flush, end_of_stream, state, tmp, has_hist,
          buffer, b_bytes_processed, total_start, hist_size, buf_hist_start, internal, pc, done,
          oldest, base, dict>>
    BY <1>12 DEF vars, userVars, bufVars, callVars, winVars
  <2>2. UNCHANGED <<Pos, External, buffered_size>>
    BY <2>1 DEF Pos, External, buffered_size, b_bytes_valid
  <2>3. UNCHANGED <<AllCoded, Delivered, Reach>>
    BY <2>1, <2>2 DEF AllCoded, Delivered, Reach
  <2>4. WindowInv'
    BY <1>1, <2>1, <2>2, <2>3 DEF WindowInv, InReach, Forgotten, NothingLeft
  <2>5. FlushInv'
    BY <1>1, <2>1, <2>3 DEF FlushInv
  <2>6. DictInv'
    BY <1>1, <2>1, <2>2 DEF DictInv
  <2>7. QED
    BY <1>2, <2>4, <2>5, <2>6 DEF WInv
<1>13. QED
  BY <1>3, <1>4, <1>5, <1>6, <1>7, <1>8, <1>9, <1>10, <1>11, <1>12
     DEF Next, isal_deflate, PassStep

-----------------------------------------------------------------------------
LEMMA InDictionary ==
  ASSUME NEW k \in Int, base \in Nat, dict \in Nat, k <= base, k > base - dict
  PROVE  Source(k) = k - base - 1
BY DEF Source

(* Where a match looks: at the byte a decoder has at that distance.        *)
LEMMA DecoderHas ==
  ASSUME IInv, Pos \in Nat, NEW d \in Nat \ {0}, d <= Pos - base + dict
  PROVE  /\ Decoder(d) # 0 /\ Decoder(d) = Source(Pos - d + 1)
         /\ Pos - d + 1 > base - dict
         /\ Pos - d + 1 > base => Decoder(d) = Pos - d + 1
<1> DEFINE p == Pos
<1>1. base \in Nat /\ dict \in Nat /\ p \in Nat /\ base <= p /\ d <= p - base + dict
  BY DEF IInv, Types, CountInv
<1>2. Decoder(d) = IF d <= p - base THEN p - d + 1 ELSE IF d <= p - base + dict THEN p - base - d ELSE 0
  BY DEF Decoder
<1> HIDE DEF p
<1>3. p - d + 1 > base - dict
  BY <1>1
<1>4. CASE d <= p - base
  <2>1. Decoder(d) = p - d + 1 /\ p - d + 1 > base
    BY <1>1, <1>2, <1>4
  <2>2. Decoder(d) # 0 /\ Source(p - d + 1) = p - d + 1
    BY <1>1, <2>1 DEF Source
  <2>3. QED
    BY <1>3, <2>1, <2>2 DEF p
<1>5. CASE ~(d <= p - base)
  <2>1. Decoder(d) = p - base - d /\ p - d + 1 <= base /\ ~(p - d + 1 > base)
    BY <1>1, <1>2, <1>5
  <2>2. p - base - d # 0 /\ p - d + 1 - base - 1 = p - base - d
    BY <1>1, <1>5
  <2>3. Source(p - d + 1) = p - d + 1 - base - 1
    <3>1. p - d + 1 \in Int
      BY <1>1
    <3>2. QED
      BY <1>1, <1>3, <2>1, <3>1, InDictionary
  <2>4. QED
    BY <1>3, <2>1, <2>2, <2>3 DEF p
<1>6. QED
  BY <1>4, <1>5

LEMMA InvMatches ==
  ASSUME WInv, level # 3
  PROVE  MatchesInWindow
<1>1. SUFFICES ASSUME Coding, NEW d \in Distances
               PROVE  Decoder(d) # 0 /\ At(-d) = Decoder(d)
  BY DEF MatchesInWindow
<1>2. IInv /\ WindowInv /\ DictInv
  BY DEF WInv
<1>3. pc = "pass" /\ InRound /\ state \notin {"TRL", "END"} /\ Seen > 0
  BY <1>1 DEF Coding, InRound
<1>4. /\ HistSize \in Nat /\ base \in Nat /\ dict \in Nat /\ oldest \in Int /\ total_in \in Nat
      /\ avail_in \in Nat /\ done \in Nat /\ total_start \in Nat /\ b_bytes_processed \in Nat
      /\ buf_hist_start \in Nat /\ b_bytes_valid \in Nat
  BY <1>2, BufLen, BufferAssumption DEF IInv, Types, b_bytes_valid
<1>5. Pos \in Nat /\ Seen \in Nat /\ buffered_size \in Nat
  <2>1. Pos \in Int /\ Seen \in Nat /\ base <= Pos /\ buffered_size \in Nat
    BY <1>2, <1>3, SeenType DEF IInv, CountInv
  <2>2. QED
    BY <1>4, <2>1
<1>6. InReach
  <2>1. ~NothingLeft
    <3>1. Seen # 0
      BY <1>3, <1>5
    <3>2. QED
      BY <1>2, <1>3, <3>1, AllCodedSeen DEF NothingLeft
  <2>2. ~Forgotten
    BY <1>2, <1>3 DEF Forgotten, Between, DictInv
  <2>3. QED
    BY <1>2, <1>3, <2>1, <2>2 DEF WindowInv
<1>7. d \in Nat \ {0} /\ d <= Reach /\ d <= Pos - oldest /\ Reach \in Int
  <2> DEFINE x == Pos - oldest
  <2>1. x \in Int
    BY <1>4, <1>5
  <2>2. d \in 1..Least(HistSize - 1, x) /\ Reach = Least(HistSize, x)
    BY DEF Distances, Farthest, dist_mask, Reach
  <2> HIDE DEF x
  <2>3. d \in Nat \ {0} /\ d <= Reach /\ d <= x /\ Reach \in Int
    BY <1>4, <2>1, <2>2 DEF Least
  <2>4. QED
    BY <2>3 DEF x
<1>8. d <= Pos - base + dict
  <2>1. oldest >= base - dict
    BY <1>6 DEF InReach
  <2>2. QED
    BY <1>4, <1>5, <1>7, <2>1
<1>9. /\ Decoder(d) # 0 /\ Decoder(d) = Source(Pos - d + 1)
      /\ Pos - d + 1 > base - dict
      /\ Pos - d + 1 > base => Decoder(d) = Pos - d + 1
  BY <1>2, <1>5, <1>7, <1>8, DecoderHas
<1>10. CASE internal
  <2> DEFINE at == b_bytes_processed + done + (-d) + 1
  <2>1. /\ Reach <= b_bytes_processed + done - buf_hist_start
        /\ done <= buffered_size /\ buffered_size = b_bytes_valid - b_bytes_processed
        /\ ~External
    BY <1>2, <1>3, <1>6, <1>10 DEF InReach, External, IInv, CountInv, buffered_size
  <2>2. Pos = total_in - (b_bytes_valid - b_bytes_processed) + done
    BY <2>1 DEF Pos
  <2>3. at \in 1..b_bytes_valid /\ total_in - b_bytes_valid + at = Pos - d + 1
    BY <1>4, <1>7, <2>1, <2>2
  <2>4. At(-d) = buffer[at]
    BY <1>10, <2>3 DEF At
  <2> HIDE DEF at
  <2>5. buffer[at] = Source(Pos - d + 1)
    BY <1>2, <1>3, <1>9, <2>1, <2>3 DEF IInv, ContentInv
  <2>6. QED
    BY <1>9, <2>4, <2>5
<1>11. CASE ~internal
  <2>1. External /\ Reach <= Pos - total_start
    BY <1>3, <1>6, <1>11 DEF InReach, External
  <2>2. Pos + Seen <= total_in + avail_in
    BY <1>2, <1>3, Furthest
  <2>3. total_start < Pos - d + 1 /\ Pos - d + 1 <= total_in + avail_in /\ Pos + (-d) + 1 = Pos - d + 1
    BY <1>4, <1>5, <1>7, <2>1, <2>2
  <2>4. At(-d) = Pos - d + 1
    BY <1>11, <2>3 DEF At
  <2>5. Pos - d + 1 > base
    <3>1. CASE dict = 0
      BY <1>4, <1>9, <3>1
    <3>2. CASE dict > 0
      <4>1. base <= total_start
        BY <1>2, <1>3, <3>2 DEF IInv, ContentInv
      <4>2. QED
        BY <1>4, <1>5, <1>7, <2>3, <4>1
    <3>3. QED
      BY <1>4, <3>1, <3>2
  <2>6. QED
    BY <1>9, <2>4, <2>5
<1>12. QED
  BY <1>10, <1>11

-----------------------------------------------------------------------------
(* At levels 0, 1 and 2 a match never goes back to a byte that a decoder   *)
(* does not have at that distance, or that the memory it is compared with  *)
(* does not hold (get_hist_size, the slides of the buffer, reset_match_    *)
(* history and isal_deflate_process_dict against dist_mask): if the user   *)
(* adds no input while a flush is delivered, and sets dictionaries only at *)
(* the start of a stream.                                                  *)
THEOREM MatchesReachWindow ==
  ASSUME 3 \notin Levels, ~DictAfterFlush, ~FeedMidFlush
  PROVE  Spec => []MatchesInWindow
<1>1. Init => WInv
  <2>1. Init => Fresh
    <3>1. Init => masked \in BOOLEAN
      BY DEF Init
    <3>2. QED
      BY <3>1 DEF Init, Fresh
  <2>2. QED
    BY <2>1, FreshReaches
<1>2. WInv /\ [Next]_vars => WInv'
  BY WindowKept
<1>3. WInv => MatchesInWindow
  <2>1. WInv => level # 3
    BY DEF WInv, IInv, Control
  <2>2. QED
    BY <2>1, InvMatches
<1>4. QED
  BY <1>1, <1>2, <1>3, PTL DEF Spec

-----------------------------------------------------------------------------
(* What a call leaves undone.                                              *)

(* Input given and not coded.                                              *)
Rest == avail_in + buffered_size - done

(* The pass reached the end of what was asked.                             *)
AllDone == Rest = 0 /\ state \in {"NEW_HDR", "END"} /\ (end_of_stream => state = "END")
NothingAsked == flush = NO_FLUSH /\ ~end_of_stream

(* From the flush's last bytes on the flush is still asked for, and seen.  *)
AskInv ==
  /\ state = "FLUSH_READ_BUFFER" =>
       /\ ~NothingAsked /\ Rest <= LookAhead
       /\ pc \in Between => room = 0
  /\ state = "SYNC_FLUSH" =>
       /\ flush # NO_FLUSH /\ ~end_of_stream /\ Rest = 0
       /\ pc \in Between => room = 0
  /\ state \in {"TRL", "END"} => end_of_stream /\ Rest = 0
  /\ state = "TRL" /\ pc \in Between => room = 0
  /\ state \in Type0 /\ has_eob_hdr => end_of_stream /\ Rest = 0

(* Output is ahead of the user only when it is full, after a flush too.    *)
AheadInv ==
  /\ pc = "pass" => ~tmp
  /\ tmp /\ pc \in Between => room = 0 \/ (NothingAsked /\ pc # "settle")
  /\ tmp /\ state = "NEW_HDR" => Rest = 0 /\ flush # NO_FLUSH
  /\ pc \in Between /\ state = "NEW_HDR" => Rest = 0 \/ NothingAsked

(* A round that hides the flush has input to code or a block to store.     *)
ProgressInv ==
  /\ pc \in {"round", "return"} /\ state \notin Type0 => hist_size <= HistSize
  /\ InRound /\ masked => wrote \/ state \in Type0 \/ buffered_size > LookAhead
  /\ state = "FLUSH_READ_BUFFER" /\ InRound => ~masked
  /\ pc = "drain" => ~wrote

(* With room left a pass has met the end of its input.                     *)
EndInv ==
  /\ pc = "settle" /\ room > 0 =>
       AllDone \/ (state = "BODY" /\ ~Flushing /\ Seen <= LookAhead)
  /\ pc = "return" /\ room > 0 =>
       /\ AllDone \/ (NothingAsked /\ avail_in <= LookAhead)
       /\ internal => avail_in = 0
       /\ External => state \notin Type0
  /\ pc = "idle" /\ room > 0 => avail_in = 0 /\ (AllDone \/ NothingAsked)

CallInv == AskInv /\ AheadInv /\ ProgressInv /\ EndInv
CInv == IInv /\ CallInv

-----------------------------------------------------------------------------
(* Where the bytes not coded yet are.                                      *)
LEMMA RestType ==
  ASSUME IInv
  PROVE  /\ Rest \in Int /\ Rest = total_in + avail_in - Pos
         /\ avail_in \in Nat /\ buffered_size \in Nat /\ done \in Nat /\ total_in \in Nat
         /\ LookAhead \in Nat \ {0} /\ HistSize \in Nat \ {0} /\ room \in Nat /\ Pos \in Int
         /\ pc \notin {"pass", "settle"} => done = 0 /\ Rest = avail_in + buffered_size
<1>1. /\ avail_in \in Nat /\ buffered_size \in Nat /\ done \in Nat /\ total_in \in Nat
      /\ LookAhead \in Nat \ {0} /\ HistSize \in Nat \ {0} /\ room \in Nat
  BY BufLen, BufferAssumption DEF IInv, Types, CountInv, buffered_size, b_bytes_valid
<1>2. pc \notin {"pass", "settle"} => done = 0
  BY DEF IInv, CountInv
<1>3. QED
  BY <1>1, <1>2 DEF Rest, Pos

LEMMA RestInRound ==
  ASSUME IInv, InRound
  PROVE  /\ Seen \in Nat /\ Rest \in Nat /\ Seen <= Rest
         /\ internal => Rest = Seen + avail_in
         /\ ~internal => Rest = Seen
         /\ ~masked => Rest = Seen
<1>1. /\ avail_in \in Nat /\ buffered_size \in Nat /\ done \in Nat
  BY RestType
<1>2. Seen \in Nat
  BY SeenType DEF IInv
<1>3. internal => Rest = Seen + avail_in
  BY <1>1 DEF Rest, Seen
<1>4. ~internal => Rest = Seen
  <2>1. ~internal => buffered_size = 0
    BY DEF IInv, CountInv, External, InRound
  <2>2. QED
    BY <1>1, <2>1 DEF Rest, Seen
<1>5. ~masked /\ internal => avail_in = 0
  BY <1>1 DEF IInv, HistInv
<1>6. QED
  BY <1>1, <1>2, <1>3, <1>4, <1>5

LEMMA Shrinks ==
  ASSUME NEW r \in Nat, NEW s \in Nat, NEW d \in Nat, NEW e \in Nat, d <= e, e <= d + s, s <= r
  PROVE  /\ r - (e - d) \in Nat /\ r - (e - d) <= r
         /\ e = d => r - (e - d) = r
         /\ e = d + s => s - (e - d) = 0
OBVIOUS

(* A step of a pass leaves no more than there was.                         *)
LEMMA RestOfPass ==
  ASSUME IInv, PassStep, level # 3
  PROVE  /\ Rest' \in Nat /\ Rest \in Nat /\ Rest' <= Rest
         /\ done' = done => Rest' = Rest
         /\ UNCHANGED <<flush, end_of_stream, masked, avail_in, internal, buffered_size>>
         /\ (NothingAsked' <=> NothingAsked) /\ (Flushing' <=> Flushing)
         /\ ~masked => Rest = Seen /\ Rest' = Seen'
<1>1. PassKeeps /\ InRound /\ done \in Nat /\ done' \in Nat /\ done <= done'
  BY PassHas
<1>2. /\ Seen' = Seen - (done' - done) /\ buffered_size' = buffered_size
  BY <1>1, PosStep DEF IInv
<1>3. /\ Seen \in Nat /\ Rest \in Nat /\ Seen <= Rest /\ (~masked => Rest = Seen)
  BY <1>1, RestInRound
<1>4. /\ UNCHANGED <<flush, end_of_stream, masked, avail_in, internal>>
      /\ done' <= done + Seen
  BY <1>1 DEF PassKeeps
<1>5. Rest' = Rest - (done' - done)
  BY <1>1, <1>2, <1>4, RestType DEF Rest
<1>6. /\ Rest' \in Nat /\ Rest' <= Rest /\ (done' = done => Rest' = Rest)
  <2> DEFINE r == Rest
             e == done'
  <2> HIDE DEF r, e
  <2>1. r \in Nat /\ e \in Nat /\ done <= e /\ e <= done + Seen /\ Seen <= r
    BY <1>1, <1>3, <1>4 DEF r, e
  <2>2. r - (e - done) \in Nat /\ r - (e - done) <= r /\ (e = done => r - (e - done) = r)
    BY <1>1, <1>3, <2>1, Shrinks
  <2>3. QED
    BY <1>5, <2>2 DEF r, e
<1>7. (NothingAsked' <=> NothingAsked) /\ (Flushing' <=> Flushing)
  BY <1>4 DEF NothingAsked, Flushing, EndSeen, FlushSeen
<1>8. ~masked => Rest' = Seen'
  BY <1>2, <1>3, <1>5
<1>9. QED
  BY <1>2, <1>3, <1>4, <1>6, <1>7, <1>8

(* A pass shown the flush or the end is shown all there is to code.        *)
LEMMA FlushingShows ==
  ASSUME Flushing
  PROVE  ~masked /\ ~NothingAsked
BY DEF Flushing, EndSeen, FlushSeen, NothingAsked

LEMMA NotMaskedShows ==
  ASSUME ~masked
  PROVE  /\ FlushSeen = flush /\ (EndSeen <=> end_of_stream) /\ (Flushing <=> ~NothingAsked)
BY DEF Flushing, EndSeen, FlushSeen, NothingAsked

(* What the body has left to code when it stops before the output is full. *)
LEMMA BodyLeaves ==
  ASSUME IInv, Body, level # 3, pc' # "settle" \/ room' > 0, state' # "CREATE_HDR"
  PROVE  /\ Seen' \in Nat /\ Seen' <= LookAhead
         /\ state' = (IF Flushing THEN "FLUSH_READ_BUFFER" ELSE "BODY")
         /\ Flushing => pc' = "pass"
<1>1. PassKeeps /\ InRound /\ done \in Nat /\ done' \in Nat /\ done <= done'
  BY PassHas DEF PassStep
<1>2. /\ Seen' = Seen - (done' - done) /\ Seen' \in Nat /\ Seen \in Nat
      /\ LookAhead \in Nat
  BY <1>1, PosStep, RestType DEF IInv
<1>3. pc = "pass" /\ pc' \in {"pass", "settle"}
  BY <1>1 DEF PassKeeps, Body
<1>4. CASE Seen <= LookAhead
  <2>1. Seen = 0 \/ Seen \in 1..LookAhead
    BY <1>2, <1>4
  <2>2. ~(Seen > LookAhead)
    BY <1>2, <1>4
  <2>3. /\ done' = done \/ Code(0)
        /\ state' = (IF Flushing THEN "FLUSH_READ_BUFFER" ELSE "BODY")
        /\ Flushing => pc' = pc
    BY <2>1, <2>2 DEF Body
  <2>4. done' = done
    BY <1>1, <2>3 DEF Code
  <2>5. Seen' = Seen
    BY <1>1, <2>4, PosStep DEF IInv
  <2>6. QED
    BY <1>2, <1>3, <1>4, <2>3, <2>5
<1>5. CASE Seen > LookAhead
  <2>1. \/ level = 0 /\ OutputFull
        \/ state' = "CREATE_HDR"
        \/ /\ \E left \in 1..LookAhead : Code(Seen - left)
           /\ state' = (IF Flushing THEN "FLUSH_READ_BUFFER" ELSE "BODY")
           /\ Flushing => pc' = "pass"
    <3>1. Seen # 0 /\ ~(Seen \in 1..LookAhead)
      BY <1>2, <1>5
    <3>2. QED
      BY <1>3, <1>5, <3>1 DEF Body
  <2>2. ~OutputFull
    BY DEF OutputFull
  <2>3. /\ \E left \in 1..LookAhead : Code(Seen - left)
        /\ state' = (IF Flushing THEN "FLUSH_READ_BUFFER" ELSE "BODY")
        /\ Flushing => pc' = "pass"
    BY <2>1, <2>2
  <2>4. PICK left \in 1..LookAhead : done' = done + (Seen - left)
    BY <2>3 DEF Code
  <2>5. Seen' <= LookAhead
    BY <1>1, <1>2, <2>4
  <2>6. QED
    BY <1>2, <2>3, <2>5
<1>6. QED
  BY <1>2, <1>4, <1>5

-----------------------------------------------------------------------------
(* A pass keeps the invariant.                                             *)
(* What a finish, a flushed block or a last stored block leads to.         *)
LEMMA AllWritten ==
  ASSUME IInv, AskInv, ProgressInv, PassStep, level # 3,
         state' \in {"SYNC_FLUSH", "TRL"}, state # state'
  PROVE  /\ Rest' = 0 /\ pc' = "pass"
         /\ IF state' = "TRL" THEN end_of_stream ELSE flush # NO_FLUSH /\ ~end_of_stream
<1>1. /\ PassKeeps /\ InRound /\ Seen \in Nat /\ done \in Nat /\ done' \in Nat
      /\ Rest \in Nat /\ Rest' \in Nat /\ Rest' <= Rest /\ (done' = done => Rest' = Rest)
      /\ ~masked => Rest = Seen /\ Rest' = Seen'
  BY PassHas, RestOfPass
<1>2. CASE Finish
  <2>1. ~masked /\ ~NothingAsked
    BY <1>1, <1>2 DEF Finish, AskInv, ProgressInv
  <2>2. /\ level = 0 /\ Code(Seen) /\ pc' = "pass"
        /\ state' = (IF EndSeen THEN "TRL" ELSE "SYNC_FLUSH")
    BY <1>2 DEF Finish
  <2>3. done' = done + Seen
    BY <2>2 DEF Code
  <2>4. Seen' = Seen - (done' - done)
    BY <1>1, PosStep DEF IInv
  <2>5. Seen' = 0
    BY <1>1, <2>3, <2>4
  <2>6. QED
    BY <1>1, <2>1, <2>2, <2>5, NotMaskedShows DEF NothingAsked
<1>3. CASE flush_icf_block
  <2>1. /\ Seen = 0 /\ pc' = "pass" /\ done' = done
        /\ IF state' = "TRL" THEN EndSeen ELSE FlushSeen # NO_FLUSH /\ ~EndSeen
    BY <1>3 DEF flush_icf_block, OutputFull
  <2>2. Flushing
    BY <2>1 DEF Flushing
  <2>3. QED
    BY <1>1, <2>1, <2>2, FlushingShows, NotMaskedShows
<1>4. CASE write_stored_block
  <2>1. state' = "TRL" /\ has_eob_hdr /\ state \in Type0 /\ pc' = "pass" /\ done' = done
    BY <1>4 DEF write_stored_block, Type0
  <2>2. QED
    BY <1>1, <2>1 DEF AskInv
<1>5. CASE ~Finish /\ ~flush_icf_block /\ ~write_stored_block
  BY <1>5 DEF PassStep, Drain, NewBlock, Body, sync_flush, write_trailer, create_icf_block_hdr,
     write_type0_header, OutputFull, EndPass
<1>6. QED
  BY <1>2, <1>3, <1>4, <1>5

(* A step that ends the pass early finds the output full.                  *)
LEMMA EarlyEnds ==
  ASSUME PassStep, pc' = "settle", state' \in {"FLUSH_READ_BUFFER", "SYNC_FLUSH", "TRL"},
         state' = state
  PROVE  room' = 0
BY DEF PassStep, Drain, NewBlock, Body, Finish, sync_flush, write_trailer,
   create_icf_block_hdr, flush_icf_block, write_type0_header, write_stored_block, OutputFull,
   EndPass, Type0

(* A stored block marked as the last one has all input in it.              *)
LEMMA LastStored ==
  ASSUME IInv, AskInv, PassStep, level # 3, state' \in Type0, has_eob_hdr'
  PROVE  end_of_stream /\ Rest' = 0
<1>1. /\ PassKeeps /\ InRound /\ Seen \in Nat /\ Pos \in Nat
      /\ Rest \in Nat /\ Rest' \in Nat /\ (done' = done => Rest' = Rest)
      /\ ~masked => Rest = Seen
  BY PassHas, RestOfPass
<1>2. done' = done /\ (state \in Type0 \/ create_icf_block_hdr)
  BY DEF PassStep, Drain, NewBlock, Body, Finish, sync_flush, write_trailer,
     create_icf_block_hdr, flush_icf_block, write_type0_header, write_stored_block, Type0
<1>3. CASE create_icf_block_hdr
  BY <1>3 DEF create_icf_block_hdr, Type0
<1>4. CASE state \in Type0 /\ has_eob_hdr
  BY <1>1, <1>2, <1>4 DEF AskInv
<1>5. CASE state \in Type0 /\ ~has_eob_hdr
  <2>1. write_type0_header /\ room > 0
    BY <1>5 DEF PassStep, Drain, NewBlock, Body, Finish, sync_flush, write_trailer,
     create_icf_block_hdr, flush_icf_block, write_type0_header, write_stored_block, blockVars, Type0
  <2>2. EndSeen /\ Seen + block_start_offset = block_in_size
    BY <1>5, <2>1 DEF write_type0_header
  <2>3. /\ block_end = Pos /\ block_next \in Nat /\ block_end \in Nat
    BY <1>5 DEF IInv, BlockInv, Control, Types, Type0
  <2>4. Seen = 0
    BY <1>1, <2>2, <2>3 DEF block_start_offset, block_in_size
  <2>5. Flushing
    BY <2>2 DEF Flushing
  <2>6. QED
    BY <1>1, <1>2, <2>2, <2>4, <2>5, FlushingShows DEF EndSeen
<1>6. QED
  BY <1>2, <1>3, <1>4, <1>5

LEMMA AskOfPass ==
  ASSUME IInv, AskInv, ProgressInv, PassStep, level # 3
  PROVE  AskInv'
<1>1. /\ PassKeeps /\ InRound /\ Seen \in Nat /\ pc' \in {"pass", "settle"}
      /\ Rest \in Nat /\ Rest' \in Nat /\ Rest' <= Rest
      /\ (NothingAsked' <=> NothingAsked) /\ UNCHANGED <<flush, end_of_stream>>
      /\ ~masked => Rest = Seen /\ Rest' = Seen'
  BY PassHas, RestOfPass
<1>2. pc' \in Between => pc' = "settle"
  BY <1>1 DEF Between
<1>3. Rest = 0 => Rest' = 0
  BY <1>1
<1>4. ASSUME state' = "FLUSH_READ_BUFFER"
      PROVE  /\ ~NothingAsked' /\ Rest' <= LookAhead
             /\ pc' \in Between => room' = 0
  <2>1. CASE state = "FLUSH_READ_BUFFER"
    <3>1. Rest <= LookAhead /\ LookAhead \in Nat /\ ~NothingAsked
      BY <2>1, RestType DEF AskInv
    <3>2. Rest' <= LookAhead
      BY <1>1, <3>1
    <3>3. QED
      BY <1>1, <1>2, <1>4, <2>1, <3>1, <3>2, EarlyEnds
  <2>2. CASE state # "FLUSH_READ_BUFFER"
    <3>1. Body
      BY <1>4, <2>2 DEF PassStep, Drain, NewBlock, Finish, sync_flush, write_trailer,
         create_icf_block_hdr, flush_icf_block, write_type0_header, write_stored_block
    <3>2. Flushing /\ pc' = "pass"
      BY <1>4, <3>1, <2>2 DEF Body, OutputFull
    <3>3. Seen' <= LookAhead
      BY <1>4, <3>1, <3>2, BodyLeaves
    <3>4. QED
      BY <1>1, <1>2, <3>2, <3>3, FlushingShows
  <2>3. QED
    BY <2>1, <2>2
<1>5. ASSUME state' = "SYNC_FLUSH"
      PROVE  /\ flush' # NO_FLUSH /\ ~end_of_stream' /\ Rest' = 0
             /\ pc' \in Between => room' = 0
  <2>1. CASE state = "SYNC_FLUSH"
    BY <1>1, <1>2, <1>3, <1>5, <2>1, EarlyEnds DEF AskInv
  <2>2. CASE state # "SYNC_FLUSH"
    BY <1>1, <1>2, <1>5, <2>2, AllWritten
  <2>3. QED
    BY <2>1, <2>2
<1>6. ASSUME state' \in {"TRL", "END"}
      PROVE  /\ end_of_stream' /\ Rest' = 0
             /\ state' = "TRL" /\ pc' \in Between => room' = 0
  <2>1. CASE state \in {"TRL", "END"}
    <3>1. end_of_stream /\ Rest = 0
      BY <2>1 DEF AskInv
    <3>2. state' = "TRL" => state = "TRL"
      BY <1>6, <2>1 DEF PassStep, Drain, NewBlock, Body, Finish, sync_flush, write_trailer,
         create_icf_block_hdr, flush_icf_block, write_type0_header, write_stored_block
    <3>3. QED
      BY <1>1, <1>2, <1>3, <3>1, <3>2, EarlyEnds
  <2>2. CASE state \notin {"TRL", "END"}
    <3>1. state' = "TRL"
      BY <1>6, <2>2 DEF PassStep, Drain, NewBlock, Body, Finish, sync_flush, write_trailer,
         create_icf_block_hdr, flush_icf_block, write_type0_header, write_stored_block
    <3>2. QED
      BY <1>1, <1>2, <2>2, <3>1, AllWritten
  <2>3. QED
    BY <2>1, <2>2
<1>7. state' \in Type0 /\ has_eob_hdr' => end_of_stream' /\ Rest' = 0
  BY <1>1, LastStored
<1>8. QED
  BY <1>4, <1>5, <1>6, <1>7 DEF AskInv

(* What is written ahead of the user is written where the output is full.  *)
LEMMA AheadOfStep ==
  ASSUME PassStep, pc = "pass" => ~tmp
  PROVE  /\ pc' = "pass" => ~tmp'
         /\ tmp' /\ pc' = "settle" => room' = 0
<1>1. CASE Drain
  BY <1>1 DEF Drain
<1>2. CASE write_stored_block
  BY <1>2 DEF write_stored_block, MayBeAhead
<1>3. CASE NewBlock \/ Body
  BY <1>3 DEF NewBlock, Body, OutputFull, EndPass, MayBeAhead
<1>4. CASE Finish \/ flush_icf_block \/ write_type0_header \/ create_icf_block_hdr
  <2>1. \/ pc = "pass" /\ UNCHANGED <<tmp, pc>>
        \/ pc' = "settle" /\ room' = 0
    BY <1>4 DEF Finish, flush_icf_block, write_type0_header, create_icf_block_hdr, OutputFull
  <2>2. QED
    BY <2>1
<1>5. CASE sync_flush \/ write_trailer
  <2>1. \/ pc = "pass" /\ pc' = "settle" /\ tmp' = tmp
        \/ pc' = "settle" /\ room' = 0
        \/ pc' = "settle" /\ MayBeAhead(TRUE)
    BY <1>5 DEF sync_flush, write_trailer, OutputFull, EndPass
  <2>2. MayBeAhead(TRUE) => (tmp' => room' = 0)
    BY DEF MayBeAhead
  <2>3. pc' = "settle"
    BY <2>1
  <2>4. pc = "pass" /\ tmp' = tmp => ~tmp'
    OBVIOUS
  <2>5. tmp' => room' = 0
    BY <2>1, <2>2, <2>4
  <2>6. QED
    BY <2>3, <2>5
<1>6. QED
  BY <1>1, <1>2, <1>3, <1>4, <1>5 DEF PassStep

(* Only a flush ends a pass between two blocks.                            *)
LEMMA BetweenBlocks ==
  ASSUME PassStep, state' = "NEW_HDR", pc = "pass" => ~tmp
  PROVE  \/ pc' = "pass" /\ ~tmp'
         \/ sync_flush /\ state = "SYNC_FLUSH" /\ done' = done
         \/ Drain /\ state = "NEW_HDR" /\ tmp /\ done' = done
BY DEF PassStep, Drain, NewBlock, Body, Finish, sync_flush, write_trailer,
   create_icf_block_hdr, flush_icf_block, write_type0_header, write_stored_block, OutputFull,
   EndPass

LEMMA AheadOfPass ==
  ASSUME IInv, AskInv, AheadInv, PassStep, level # 3
  PROVE  AheadInv'
<1>1. /\ PassKeeps /\ pc' \in {"pass", "settle"} /\ (done' = done => Rest' = Rest)
      /\ (NothingAsked' <=> NothingAsked) /\ UNCHANGED <<flush, end_of_stream>>
  BY PassHas, RestOfPass
<1>2. pc = "pass" => ~tmp
  BY DEF AheadInv
<1>3. (pc' = "pass" => ~tmp') /\ (tmp' /\ pc' = "settle" => room' = 0)
  BY <1>2, AheadOfStep
<1>4. state' = "NEW_HDR" => (pc' = "pass" /\ ~tmp') \/ (Rest' = 0 /\ flush # NO_FLUSH)
  BY <1>1, <1>2, BetweenBlocks DEF AskInv, AheadInv
<1>5. QED
  BY <1>1, <1>3, <1>4 DEF AheadInv, Between

(* A stored block that is done has produced output.                        *)
LEMMA StoredWrote ==
  ASSUME IInv, PassStep, level # 3, state \in Type0, state' \notin Type0
  PROVE  wrote'
<1>1. write_stored_block
  BY DEF PassStep, Drain, NewBlock, Body, Finish, sync_flush, write_trailer,
     create_icf_block_hdr, flush_icf_block, write_type0_header, Type0
<1>2. level # 0 /\ count \in Nat /\ 0 < count
  BY <1>1 DEF write_stored_block, IInv, Control, StoredInv, Types, Type0
<1> DEFINE c == Least(count, Least(room, Seen + block_start_offset))
<1>3. /\ count' = count - c /\ wrote' = (wrote \/ c > 0)
      /\ c < count => state' = state
  BY <1>1 DEF write_stored_block
<1>4. c \in Int /\ ~(c < count)
  <2>1. Seen \in Nat /\ Pos \in Int /\ block_next \in Nat /\ room \in Nat
    BY PassHas DEF IInv, Types
  <2>2. Seen + block_start_offset \in Int
    BY <2>1 DEF block_start_offset
  <2>3. c \in Int
    BY <1>2, <2>1, <2>2 DEF Least
  <2>4. QED
    BY <1>3, <2>3
<1> HIDE DEF c
<1>5. c > 0
  BY <1>2, <1>4
<1>6. QED
  BY <1>3, <1>5

LEMMA ProgressOfPass ==
  ASSUME IInv, AskInv, ProgressInv, PassStep, level # 3
  PROVE  ProgressInv'
<1>1. /\ PassKeeps /\ InRound /\ pc' \in {"pass", "settle"}
      /\ UNCHANGED <<masked, buffered_size>>
  BY PassHas, RestOfPass
<1>2. ASSUME masked'
      PROVE  wrote' \/ state' \in Type0 \/ buffered_size' > LookAhead
  <2>1. wrote \/ state \in Type0 \/ buffered_size > LookAhead
    BY <1>1, <1>2 DEF ProgressInv
  <2>2. CASE wrote
    <3>1. pc # "drain"
      BY <2>2 DEF ProgressInv
    <3>2. QED
      BY <2>2, <3>1 DEF PassStep, Drain, NewBlock, Body, Finish, sync_flush, write_trailer,
         create_icf_block_hdr, flush_icf_block, write_type0_header, write_stored_block, Produce,
         OutputFull, EndPass
  <2>3. QED
    BY <1>1, <2>1, <2>2, StoredWrote
<1>3. ASSUME state' = "FLUSH_READ_BUFFER"
      PROVE  ~masked'
  <2>1. CASE state = "FLUSH_READ_BUFFER"
    BY <1>1, <2>1 DEF ProgressInv
  <2>2. CASE state # "FLUSH_READ_BUFFER"
    <3>1. Flushing
      BY <1>3, <2>2 DEF PassStep, Drain, NewBlock, Body, Finish, sync_flush, write_trailer,
         create_icf_block_hdr, flush_icf_block, write_type0_header, write_stored_block,
         OutputFull
    <3>2. QED
      BY <1>1, <3>1, FlushingShows
  <2>3. QED
    BY <2>1, <2>2
<1>4. QED
  BY <1>1, <1>2, <1>3 DEF ProgressInv

LEMMA EndOfPass ==
  ASSUME IInv, CallInv, PassStep, level # 3
  PROVE  EndInv'
<1>1. /\ PassKeeps /\ pc' \in {"pass", "settle"} /\ (Flushing' <=> Flushing)
      /\ UNCHANGED <<flush, end_of_stream>> /\ (done' = done => Rest' = Rest) /\ room' \in Nat
  BY PassHas, RestOfPass DEF PassKeeps
<1>2. AskInv'
  BY AskOfPass DEF CallInv
<1>3. ASSUME pc' = "settle", room' > 0
      PROVE  AllDone' \/ (state' = "BODY" /\ ~Flushing' /\ Seen' <= LookAhead)
  <2>1. room' # 0
    BY <1>1, <1>3
  <2>2. CASE state' = "END"
    BY <1>2, <2>2 DEF AskInv, AllDone
  <2>3. CASE state' # "END"
    <3>1. CASE Drain
      BY <1>3, <2>1, <2>3, <3>1 DEF Drain
    <3>2. CASE GoesOn
      BY <1>3, <3>2 DEF GoesOn
    <3>3. CASE RunsOut
      BY <2>1, <3>3 DEF RunsOut
    <3>4. CASE FlushEnds
      <4>1. Rest = 0 /\ ~end_of_stream /\ state' = "NEW_HDR" /\ done' = done
        BY <3>4 DEF FlushEnds, CallInv, AskInv
      <4>2. QED
        BY <1>1, <4>1 DEF AllDone
    <3>5. CASE Waits
      <4>1. Body
        BY <2>1, <3>5 DEF Waits, PassStep, Drain, NewBlock, Finish, sync_flush, write_trailer,
           create_icf_block_hdr, flush_icf_block, write_type0_header, write_stored_block,
           OutputFull, EndPass, Type0
      <4>2. QED
        BY <1>1, <1>3, <3>5, <4>1, BodyLeaves DEF Waits
    <3>6. CASE Ends
      BY <2>3, <3>6 DEF Ends
    <3>7. QED
      BY <3>1, <3>2, <3>3, <3>4, <3>5, <3>6, EndOfStep
  <2>4. QED
    BY <2>2, <2>3
<1>4. QED
  BY <1>1, <1>3 DEF EndInv

-----------------------------------------------------------------------------
(* A round hides the flush only when it fills the buffer, and then it has  *)
(* more than the look-ahead to code, or a block to store.                  *)
LEMMA RoundInternalAsks ==
  ASSUME CInv, RoundInternal
  PROVE  CallInv'
<1>1. IInv /\ AskInv /\ AheadInv /\ ProgressInv /\ EndInv
  BY DEF CInv, CallInv
<1>2. /\ pc = "round" /\ pc' = (IF EnoughBuffered THEN "drain" ELSE "return")
      /\ internal' = TRUE /\ wrote' = FALSE /\ done' = 0
      /\ masked' = (EnoughBuffered /\ Taken < avail_in)
      /\ UNCHANGED <<flush, end_of_stream, state, tmp, room, has_eob_hdr, hist_size>>
  BY DEF RoundInternal, userVars, blockVars, Masks
<1>3. Slides(Slide, Taken)
  BY <1>1, SlideOfRound DEF IInv
<1> DEFINE k == Slide
           t == Taken
<1>4. /\ avail_in' = avail_in - t /\ t \in Nat /\ t <= avail_in
      /\ b_bytes_valid' = b_bytes_valid - k + t /\ b_bytes_processed' = b_bytes_processed - k
      /\ k \in 0..b_bytes_processed
  BY <1>3 DEF Slides
<1>5. /\ avail_in \in Nat /\ b_bytes_valid \in Nat /\ b_bytes_processed \in Nat
      /\ hist_size \in Nat /\ LookAhead \in Nat \ {0} /\ HistSize \in Nat \ {0}
      /\ done = 0 /\ Rest = avail_in + buffered_size /\ Rest \in Int
      /\ buffered_size = b_bytes_valid - b_bytes_processed
  BY <1>1, <1>2, RestType, BufLen DEF IInv, Types, b_bytes_valid, buffered_size
<1>6. k = b_bytes_processed - hist_size \/ (k = 0 /\ b_bytes_processed <= hist_size)
  BY <1>5 DEF Slide, Greatest
<1>7. t = Least(avail_in, BufSize - (b_bytes_valid - k))
  BY DEF Taken
<1>8. masked' = (EnoughBuffered /\ t < avail_in)
  BY <1>2
<1>9. ~EnoughBuffered => NothingAsked /\ ~(t < avail_in)
  BY DEF EnoughBuffered, NothingAsked
<1> HIDE DEF k, t
<1>10. buffered_size' = b_bytes_valid' - b_bytes_processed'
  BY DEF buffered_size
<1>11. Rest' = Rest /\ (NothingAsked' <=> NothingAsked)
  <2>1. Rest' = avail_in' + buffered_size' - done'
    BY DEF Rest
  <2>2. QED
    BY <1>2, <1>4, <1>5, <1>10, <2>1 DEF NothingAsked
<1>12. ASSUME masked', state \notin Type0
       PROVE  buffered_size' > LookAhead /\ avail_in' > 0
  <2>1. hist_size <= HistSize
    BY <1>1, <1>2, <1>12 DEF ProgressInv
  <2>2. t < avail_in
    BY <1>8, <1>12
  <2>3. BufSize = 2 * HistSize + LookAhead
    BY DEF BufSize
  <2>4. b_bytes_valid - k + t = BufSize
    BY <1>4, <1>5, <1>7, <2>2, <2>3 DEF Least
  <2>5. b_bytes_processed - k <= hist_size
    BY <1>4, <1>5, <1>6
  <2>6. (b_bytes_valid - k + t) - (b_bytes_processed - k) > LookAhead
    BY <1>4, <1>5, <2>1, <2>3, <2>4, <2>5
  <2>7. QED
    BY <1>4, <1>5, <1>10, <2>2, <2>6
<1>13. pc' = "return" => NothingAsked /\ avail_in' = 0
  BY <1>2, <1>4, <1>5, <1>9
<1>14. AskInv'
  <2>1. pc' \in Between => NothingAsked
    BY <1>2, <1>13 DEF Between
  <2>2. state \in Early \cup {"TRL"} => ~NothingAsked
    BY <1>1 DEF AskInv, Early, NothingAsked
  <2>3. QED
    BY <1>1, <1>2, <1>11, <2>1, <2>2 DEF AskInv, Early
<1>15. AheadInv'
  <2>1. pc' \in Between => NothingAsked /\ pc' # "settle"
    BY <1>2, <1>13 DEF Between
  <2>2. QED
    BY <1>1, <1>2, <1>11, <2>1 DEF AheadInv
<1>16. ProgressInv'
  <2>1. state = "FLUSH_READ_BUFFER" => ~masked'
    <3>1. SUFFICES ASSUME state = "FLUSH_READ_BUFFER", masked' PROVE FALSE
      OBVIOUS
    <3>2. state \notin Type0
      BY <3>1 DEF Type0
    <3>3. buffered_size' > LookAhead /\ avail_in' > 0
      BY <1>12, <3>1, <3>2
    <3>4. Rest' = avail_in' + buffered_size' /\ buffered_size' \in Int /\ avail_in' \in Int
      BY <1>2, <1>4, <1>5, <1>10 DEF Rest
    <3>5. Rest <= LookAhead
      BY <1>1, <3>1 DEF AskInv
    <3> DEFINE a == avail_in'
               b == buffered_size'
    <3>6. a \in Int /\ b \in Int /\ b > LookAhead /\ a > 0 /\ a + b <= LookAhead
      BY <1>11, <3>3, <3>4, <3>5
    <3> HIDE DEF a, b
    <3>7. QED
      BY <1>5, <3>6
  <2>2. pc' \in {"round", "return"} /\ state \notin Type0 => hist_size <= HistSize
    BY <1>1, <1>2 DEF ProgressInv
  <2>3. QED
    BY <1>2, <1>12, <2>1, <2>2 DEF ProgressInv
<1>17. EndInv'
  <2>1. pc' \notin {"settle", "idle"} /\ ~External'
    BY <1>2 DEF External
  <2>2. pc' = "return" => NothingAsked' /\ avail_in' = 0 /\ avail_in' <= LookAhead
    BY <1>5, <1>11, <1>13
  <2>3. QED
    BY <2>1, <2>2 DEF EndInv
<1>18. QED
  BY <1>14, <1>15, <1>16, <1>17 DEF CallInv

LEMMA RoundExternalAsks ==
  ASSUME CInv, RoundExternal
  PROVE  CallInv'
<1>1. IInv /\ AskInv /\ AheadInv /\ ProgressInv /\ EndInv
  BY DEF CInv, CallInv
<1>2. /\ pc = "round" /\ pc' = "drain" /\ wrote' = FALSE /\ done' = 0 /\ masked' = FALSE
      /\ UNCHANGED <<flush, end_of_stream, state, tmp, room, has_eob_hdr>>
  BY DEF RoundExternal, userVars, blockVars
<1>3. avail_in \in Nat /\ buffered_size \in Nat /\ Rest = avail_in + buffered_size
  BY <1>1, <1>2, RestType
<1>4. Rest' = Rest
  <2>1. CASE buffered_size > 0
    <3>1. avail_in' = avail_in + buffered_size /\ buffer' = <<>> /\ b_bytes_processed' = 0
      BY <2>1 DEF RoundExternal
    <3>2. buffered_size' = 0
      BY <3>1, EmptySeq DEF buffered_size, b_bytes_valid
    <3>3. Rest' = avail_in' + 0 - 0
      BY <1>2, <3>2 DEF Rest
    <3>4. QED
      BY <1>3, <3>1, <3>3
  <2>2. CASE ~(buffered_size > 0)
    <3>1. UNCHANGED <<avail_in, buffer, b_bytes_processed>>
      BY <2>2 DEF RoundExternal, bufVars
    <3>2. buffered_size' = buffered_size
      BY <3>1 DEF buffered_size, b_bytes_valid
    <3>3. Rest' = avail_in + buffered_size - 0
      BY <1>2, <3>1, <3>2 DEF Rest
    <3>4. QED
      BY <1>3, <3>3
  <2>3. QED
    BY <2>1, <2>2
<1>5. NothingAsked' <=> NothingAsked
  BY <1>2 DEF NothingAsked
<1>6. AskInv' /\ AheadInv'
  BY <1>1, <1>2, <1>4, <1>5 DEF AskInv, AheadInv, Between
<1>7. ProgressInv' /\ EndInv'
  BY <1>2 DEF ProgressInv, EndInv
<1>8. QED
  BY <1>6, <1>7 DEF CallInv

LEMMA SettleAsks ==
  ASSUME CInv, Settle
  PROVE  CallInv'
<1>1. IInv /\ AskInv /\ AheadInv /\ ProgressInv /\ EndInv
  BY DEF CInv, CallInv
<1>2. /\ pc = "settle" /\ InRound /\ done' = 0
      /\ pc' = "return" \/ (pc' = "round" /\ internal /\ avail_in > 0)
      /\ pc' = (IF internal /\ avail_in > 0 /\ room > 0 /\ (done > 0 \/ wrote)
                  THEN "round" ELSE "return")
      /\ UNCHANGED <<flush, end_of_stream, state, tmp, room, internal, has_eob_hdr, wrote,
                     buffer>>
      /\ IF internal THEN b_bytes_processed' = b_bytes_processed + done /\ avail_in' = avail_in
                     ELSE b_bytes_processed' = b_bytes_processed /\ avail_in' = Seen
  BY <1>1 DEF Settle, InRound, userVars, blockVars
<1>3. /\ avail_in \in Nat /\ buffered_size \in Nat /\ done \in Nat /\ LookAhead \in Nat
      /\ room \in Nat /\ Seen \in Nat /\ Rest \in Nat
      /\ internal => Rest = Seen + avail_in
      /\ ~internal => Rest = Seen
  BY <1>1, <1>2, RestType, RestInRound
<1>4. Rest' = Rest
  <2>1. CASE internal
    <3>1. /\ buffered_size' = b_bytes_valid - (b_bytes_processed + done)
          /\ b_bytes_valid \in Nat /\ b_bytes_processed \in Nat
      BY <1>1, <1>2, <2>1, BufLen DEF buffered_size, b_bytes_valid, IInv, Types
    <3>2. Rest' = avail_in + buffered_size' - 0
      BY <1>2, <2>1 DEF Rest
    <3>3. QED
      BY <1>3, <3>1, <3>2 DEF Rest, buffered_size
  <2>2. CASE ~internal
    <3>1. buffered_size' = buffered_size /\ buffered_size = 0
      BY <1>1, <1>2, <2>2 DEF buffered_size, b_bytes_valid, IInv, CountInv, External
    <3>2. Rest' = Seen + 0 - 0
      BY <1>2, <2>2, <3>1 DEF Rest
    <3>3. QED
      BY <1>3, <2>2, <3>2
  <2>3. QED
    BY <2>1, <2>2
<1>5. NothingAsked' <=> NothingAsked
  BY <1>2 DEF NothingAsked
<1>6. AllDone' <=> AllDone
  BY <1>2, <1>4 DEF AllDone
<1>7. AskInv' /\ AheadInv'
  BY <1>1, <1>2, <1>4, <1>5 DEF AskInv, AheadInv, Between
<1>8. ProgressInv'
  <2>1. ASSUME state \notin Type0
        PROVE  hist_size' <= HistSize
    <3>1. PICK left \in Int, hist \in Nat :
            hist_size' = get_hist_size(left, FlushSeen, EndSeen, hist, Pos)
      <4>1. cur_in_processed \in Nat
        BY <1>1, <1>2, <1>3, RestType DEF cur_in_processed, IInv, Types, CountInv, External, Pos
      <4>2. (IF internal THEN Seen + buffered_size ELSE Seen) \in Int
        BY <1>3
      <4>3. QED
        BY <4>1, <4>2 DEF Settle
    <3>2. Pos \in Int
      BY <1>1, RestType
    <3>3. QED
      BY <1>1, <2>1, <3>1, <3>2, HistSizeBounds DEF IInv
  <2>2. pc' \notin {"drain", "pass", "settle"}
    BY <1>2
  <2>3. QED
    BY <1>2, <2>1, <2>2 DEF ProgressInv, InRound
<1>9. ASSUME pc' = "return", room > 0
      PROVE  /\ AllDone \/ (NothingAsked /\ avail_in' <= LookAhead)
             /\ internal => avail_in' = 0
             /\ ~internal => state \notin Type0
  <2>1. CASE AllDone
    <3>1. Rest = 0 /\ state \notin Type0
      BY <2>1 DEF AllDone, Type0
    <3>2. internal => avail_in' = 0
      BY <1>2, <1>3, <3>1
    <3>3. QED
      BY <2>1, <3>1, <3>2
  <2>2. CASE state = "BODY" /\ ~Flushing /\ Seen <= LookAhead
    <3>1. state \notin Type0
      BY <2>2 DEF Type0
    <3>2. CASE ~internal
      <4>1. ~masked
        BY <1>1, <1>2, <3>2 DEF IInv, HistInv
      <4>2. QED
        BY <1>2, <2>2, <3>1, <3>2, <4>1, NotMaskedShows
    <3>3. CASE internal
      <4>1. ~(avail_in > 0)
        <5>1. SUFFICES ASSUME avail_in > 0 PROVE FALSE
          OBVIOUS
        <5>2. ~(done > 0) /\ ~wrote
          BY <1>2, <1>9, <3>3, <5>1
        <5>3. masked
          BY <1>1, <1>2, <3>3, <5>1 DEF IInv, HistInv
        <5>4. buffered_size > LookAhead
          BY <1>1, <1>2, <3>1, <5>2, <5>3 DEF ProgressInv
        <5>5. Seen = buffered_size - done
          BY <3>3 DEF Seen
        <5>6. QED
          BY <1>3, <2>2, <5>2, <5>4, <5>5
      <4>2. avail_in = 0
        BY <1>3, <4>1
      <4>3. ~masked
        BY <1>1, <1>2, <3>3, <4>1 DEF IInv, HistInv
      <4>4. avail_in' = 0
        BY <1>2, <3>3, <4>2
      <4>5. QED
        BY <1>3, <2>2, <3>3, <4>3, <4>4, NotMaskedShows
    <3>4. QED
      BY <3>2, <3>3
  <2>3. QED
    BY <1>1, <1>2, <1>9, <2>1, <2>2 DEF EndInv
<1>10. EndInv'
  BY <1>2, <1>5, <1>6, <1>9 DEF EndInv, External
<1>11. QED
  BY <1>7, <1>8, <1>10 DEF CallInv

LEMMA Balance ==
  ASSUME NEW t \in Int, NEW b \in Int, NEW c \in Int, NEW k \in Int, NEW a \in Int,
         t - b + 0 = (t + k) - c + 0
  PROVE  (a - k) + c - 0 = a + b
OBVIOUS

LEMMA ReturnAsks ==
  ASSUME CInv, Return
  PROVE  CallInv'
<1>1. IInv /\ AskInv /\ AheadInv /\ ProgressInv /\ EndInv
  BY DEF CInv, CallInv
<1>2. IInv'
  BY <1>1, ReturnKeeps
<1>3. /\ pc = "return" /\ pc' = "idle" /\ done = 0 /\ done' = 0
      /\ UNCHANGED <<level, written, block_end, room, flush, end_of_stream, state, tmp,
                     has_eob_hdr>>
  BY <1>1 DEF Return, IInv, CountInv, userVars, blockVars
<1>4. /\ hist_size \in Nat /\ avail_in \in Nat /\ total_in \in Nat /\ buffered_size \in Nat
      /\ LookAhead \in Nat \ {0} /\ HistSize \in Nat \ {0} /\ room \in Nat
      /\ Rest = avail_in + buffered_size
  BY <1>1, <1>3, RestType DEF IInv, Types
<1>5. Pos' = Pos
  BY <1>1, <1>2, <1>3 DEF IInv, BlockInv
<1> DEFINE hist == IF CopiesHistory THEN [i \in 1..hist_size |-> At(i - 1 - hist_size)]
                   ELSE buffer
           k == future_size(BufSize - Len(hist))
<1>6. avail_in' = avail_in - k /\ total_in' = total_in + k
  BY DEF Return
<1>7. Len(hist) \in Nat /\ (CopiesHistory => Len(hist) = hist_size) /\ Len(hist) <= BufSize
  BY <1>1, HistoryKept
<1> HIDE DEF hist
<1>8. BufSize = 2 * HistSize + LookAhead
  BY DEF BufSize
<1>9. /\ k \in Nat
      /\ room > 0 /\ avail_in < BufSize - Len(hist) => k = avail_in
      /\ avail_in = 0 => k = 0
  <2> DEFINE s == BufSize - Len(hist)
  <2>1. s \in Nat
    BY <1>4, <1>7, <1>8
  <2>2. k = future_size(s)
    OBVIOUS
  <2> HIDE DEF s, k
  <2>3. k \in Nat /\ (room > 0 /\ avail_in < s => k = avail_in) /\ (avail_in = 0 => k = 0)
    BY <1>4, <2>1, <2>2 DEF future_size, Least
  <2>4. QED
    BY <2>3 DEF s
<1> HIDE DEF k
<1>10. Rest' = Rest
  <2> DEFINE c == buffered_size'
  <2>1. c \in Int
    <3>1. /\ buffer' \in Seq(Int) /\ b_bytes_processed' \in Nat
      BY <1>2 DEF IInv, Types
    <3>2. Len(buffer') \in Nat
      BY <3>1, LenProperties
    <3>3. QED
      BY <3>1, <3>2 DEF buffered_size, b_bytes_valid
  <2>2. Pos = total_in - buffered_size + 0 /\ Pos' = (total_in + k) - c + 0
    BY <1>3, <1>6 DEF Pos
  <2>3. Rest' = (avail_in - k) + c - 0
    BY <1>3, <1>6 DEF Rest
  <2> HIDE DEF c
  <2>4. (avail_in - k) + c - 0 = avail_in + buffered_size
    BY <1>4, <1>5, <1>9, <2>1, <2>2, Balance
  <2>5. QED
    BY <1>4, <2>3, <2>4
<1>11. (NothingAsked' <=> NothingAsked) /\ (AllDone' <=> AllDone)
  BY <1>3, <1>10 DEF NothingAsked, AllDone
<1>12. AskInv' /\ AheadInv'
  BY <1>1, <1>3, <1>10, <1>11 DEF AskInv, AheadInv, Between
<1>13. ProgressInv'
  BY <1>3 DEF ProgressInv, InRound
<1>14. ASSUME room > 0
       PROVE  avail_in' = 0 /\ (AllDone \/ NothingAsked)
  <2>1. /\ AllDone \/ (NothingAsked /\ avail_in <= LookAhead)
        /\ internal => avail_in = 0
        /\ External => state \notin Type0
    BY <1>1, <1>3, <1>14 DEF EndInv
  <2>2. avail_in = 0 => avail_in' = 0
    <3>1. SUFFICES ASSUME avail_in = 0 PROVE avail_in' = 0
      OBVIOUS
    <3>2. k = 0
      BY <1>9, <3>1
    <3>3. avail_in' = 0 - 0
      BY <1>6, <3>1, <3>2
    <3>4. QED
      BY <3>3
  <2>3. AllDone => avail_in = 0
    BY <1>4 DEF AllDone
  <2>4. ASSUME avail_in # 0, CopiesHistory
        PROVE  avail_in' = 0
    <3>1. External
      BY <1>3, <2>4 DEF CopiesHistory, External
    <3>2. hist_size <= HistSize
      BY <1>1, <1>3, <2>1, <3>1 DEF ProgressInv
    <3>3. avail_in <= LookAhead
      BY <2>1, <2>3, <2>4
    <3>4. avail_in < BufSize - Len(hist)
      BY <1>4, <1>7, <1>8, <2>4, <3>2, <3>3
    <3>5. QED
      BY <1>4, <1>6, <1>9, <1>14, <3>4
  <2>5. ~CopiesHistory => avail_in = 0
    <3>1. CASE internal
      BY <2>1, <3>1
    <3>2. CASE ~internal /\ state \in {"TRL", "END"}
      <4>1. Rest = 0
        BY <1>1, <3>2 DEF AskInv
      <4>2. QED
        BY <1>4, <4>1
    <3>3. QED
      BY <3>1, <3>2 DEF CopiesHistory
  <2>6. QED
    BY <2>1, <2>2, <2>4, <2>5
<1>15. EndInv'
  BY <1>3, <1>11, <1>14 DEF EndInv
<1>16. QED
  BY <1>12, <1>13, <1>15 DEF CallInv

(* A call that comes while a flush or the end is written asks for it on.   *)
LEMMA CallAsks ==
  ASSUME CInv, Call, ~FeedMidFlush
  PROVE  CallInv'
<1>1. IInv /\ AskInv /\ AheadInv /\ ProgressInv /\ EndInv
  BY DEF CInv, CallInv
<1>2. /\ pc = "idle" /\ pc' = "round" /\ done = 0 /\ done' = 0
      /\ UNCHANGED <<total_in, state, tmp, buffer, b_bytes_processed, has_eob_hdr>>
  BY <1>1 DEF Call, IInv, CountInv, bufVars, blockVars
<1>3. PICK n \in Chunks, r \in Rooms, f \in Flushes, eos \in BOOLEAN :
        /\ MayAsk(n, f, eos) /\ avail_in' = avail_in + n /\ room' = r
        /\ flush' = f /\ end_of_stream' = eos
        /\ hist_size' = get_hist_size(avail_in + n + buffered_size, f, eos, 0, total_in)
  BY DEF Call
<1>4. /\ n \in Nat /\ avail_in \in Nat /\ buffered_size \in Nat /\ total_in \in Nat
      /\ Rest = avail_in + buffered_size /\ LookAhead \in Nat /\ room \in Nat
  BY <1>1, <1>2, RestType, BufferAssumption
<1>5. buffered_size' = buffered_size
  BY <1>2 DEF buffered_size, b_bytes_valid
<1>6. Rest' = (avail_in + n) + buffered_size - 0
  BY <1>2, <1>3, <1>5 DEF Rest
<1>7. n = 0 => Rest' = Rest
  BY <1>4, <1>6
<1>8. end_of_stream => n = 0 /\ end_of_stream'
  BY <1>3 DEF MayAsk
<1>9. flush # NO_FLUSH /\ ~FlushComplete => n = 0 /\ flush' = flush /\ end_of_stream' = end_of_stream
  BY <1>3 DEF MayAsk
<1>10. AskInv'
  <2>1. ASSUME state = "FLUSH_READ_BUFFER"
        PROVE  ~NothingAsked' /\ Rest' <= LookAhead
    <3>1. room = 0 /\ ~NothingAsked /\ Rest <= LookAhead
      BY <1>1, <1>2, <2>1 DEF AskInv, Between
    <3>2. ~FlushComplete
      BY <2>1, <3>1 DEF FlushComplete
    <3>3. n = 0 /\ ~NothingAsked'
      BY <1>8, <1>9, <3>1, <3>2 DEF NothingAsked
    <3>4. QED
      BY <1>7, <3>1, <3>3
  <2>2. ASSUME state = "SYNC_FLUSH"
        PROVE  flush' # NO_FLUSH /\ ~end_of_stream' /\ Rest' = 0
    <3>1. room = 0 /\ flush # NO_FLUSH /\ ~end_of_stream /\ Rest = 0
      BY <1>1, <1>2, <2>2 DEF AskInv, Between
    <3>2. ~FlushComplete
      BY <2>2, <3>1 DEF FlushComplete
    <3>3. QED
      BY <1>7, <1>9, <3>1, <3>2
  <2>3. state \in {"TRL", "END"} \/ (state \in Type0 /\ has_eob_hdr) => end_of_stream' /\ Rest' = 0
    BY <1>1, <1>7, <1>8 DEF AskInv
  <2>4. QED
    BY <1>2, <2>1, <2>2, <2>3 DEF AskInv, Between
<1>11. AheadInv'
  <2>1. ASSUME tmp, state = "NEW_HDR"
        PROVE  Rest' = 0 /\ flush' # NO_FLUSH
    <3>1. Rest = 0 /\ flush # NO_FLUSH /\ room = 0
      BY <1>1, <1>2, <2>1 DEF AheadInv, NothingAsked, Between
    <3>2. ~FlushComplete
      BY <2>1, <3>1 DEF FlushComplete
    <3>3. QED
      BY <1>7, <1>9, <3>1, <3>2
  <2>2. QED
    BY <1>2, <2>1 DEF AheadInv, Between
<1>12. ProgressInv'
  <2>1. avail_in + n + buffered_size \in Int /\ total_in \in Int /\ 0 \in Nat
    BY <1>4
  <2>2. state \notin Type0 => hist_size' <= HistSize
    BY <1>1, <1>3, <2>1, HistSizeBounds DEF IInv
  <2>3. QED
    BY <1>2, <2>2 DEF ProgressInv, InRound
<1>13. EndInv'
  BY <1>2 DEF EndInv
<1>14. QED
  BY <1>10, <1>11, <1>12, <1>13 DEF CallInv

LEMMA DictAsks ==
  ASSUME CInv, isal_deflate_set_dict \/ isal_deflate_reset_dict
  PROVE  CallInv'
<1>1. IInv /\ AskInv /\ AheadInv /\ ProgressInv /\ EndInv
  BY DEF CInv, CallInv
<1>2. /\ pc = "idle" /\ state = "NEW_HDR" /\ ~tmp /\ avail_in = 0 /\ ~end_of_stream /\ done = 0
  BY <1>1 DEF isal_deflate_set_dict, isal_deflate_reset_dict, MayReplaceHistory, IInv, CountInv
<1>3. PICK k \in DictSizes : SetHistory(k)
  BY DEF isal_deflate_set_dict, isal_deflate_reset_dict
<1>4. k \in Nat
  BY <1>3, BufferAssumption
<1>5. /\ buffer' = [i \in 1..k |-> i - k - 1] /\ b_bytes_processed' = k
      /\ state' = "NEW_HDR" /\ ~tmp' /\ pc' = "idle" /\ avail_in' = 0 /\ ~end_of_stream'
      /\ done' = 0
  BY <1>2, <1>3 DEF SetHistory, userVars
<1>6. Rest' = 0
  <2> DEFINE b == buffer'
  <2>1. b \in [1..k -> Int]
    BY <1>4, <1>5
  <2> HIDE DEF b
  <2>2. Len(b) = k
    BY <1>4, <2>1, LenOfFunction
  <2>3. Rest' = 0 + (Len(b) - k) - 0
    BY <1>5 DEF Rest, buffered_size, b_bytes_valid, b
  <2>4. QED
    BY <1>4, <2>2, <2>3
<1>7. AllDone'
  BY <1>5, <1>6 DEF AllDone
<1>8. AskInv' /\ AheadInv' /\ ProgressInv' /\ EndInv'
  BY <1>5, <1>6, <1>7 DEF AskInv, AheadInv, ProgressInv, EndInv, InRound, Type0
<1>9. QED
  BY <1>8 DEF CallInv

LEMMA FreshAsks == Fresh => CInv
<1> SUFFICES ASSUME Fresh PROVE CInv
  OBVIOUS
<1>1. IInv
  BY FreshIsGood
<1>2. /\ pc = "idle" /\ state = "NEW_HDR" /\ ~tmp /\ avail_in = 0 /\ ~end_of_stream
      /\ done = 0 /\ room = 0 /\ buffer = <<>> /\ b_bytes_processed = 0
  BY DEF Fresh
<1>3. Rest = 0
  BY <1>2, EmptySeq DEF Rest, buffered_size, b_bytes_valid
<1>4. AskInv /\ AheadInv /\ ProgressInv /\ EndInv
  BY <1>2, <1>3 DEF AskInv, AheadInv, ProgressInv, EndInv, InRound, Type0
<1>5. QED
  BY <1>1, <1>4 DEF CInv, CallInv

LEMMA CallKept ==
  ASSUME 3 \notin Levels, ~FeedMidFlush, CInv, [Next]_vars
  PROVE  CInv'
<1>1. IInv /\ CallInv /\ AskInv /\ AheadInv /\ ProgressInv /\ EndInv /\ level # 3
  BY DEF CInv, CallInv, IInv, Control
<1>2. IInv'
  BY <1>1, NextKeeps
<1>3. CASE Call
  BY <1>2, <1>3, CallAsks DEF CInv
<1>4. CASE RoundInternal
  BY <1>2, <1>4, RoundInternalAsks DEF CInv
<1>5. CASE RoundExternal
  BY <1>2, <1>5, RoundExternalAsks DEF CInv
<1>6. CASE PassStep
  BY <1>1, <1>2, <1>6, AskOfPass, AheadOfPass, ProgressOfPass, EndOfPass DEF CInv, CallInv
<1>7. CASE gen_icf_map \/ compress_icf_map \/ icf_body_next_state
  BY <1>1, <1>7 DEF gen_icf_map, compress_icf_map, icf_body_next_state
<1>8. CASE Settle
  BY <1>2, <1>8, SettleAsks DEF CInv
<1>9. CASE Return
  BY <1>2, <1>9, ReturnAsks DEF CInv
<1>10. CASE isal_deflate_set_dict \/ isal_deflate_reset_dict
  BY <1>2, <1>10, DictAsks DEF CInv
<1>11. CASE isal_deflate_reset
  <2>1. Fresh'
    BY <1>1, <1>11 DEF isal_deflate_reset, Fresh, IInv, Types, Control, CountInv
  <2>2. QED
    BY <2>1, FreshAsks, PTL
<1>12. CASE UNCHANGED vars
  <2>1. UNCHANGED <<avail_in, room, flush, end_of_stream, state, tmp, buffer, b_bytes_processed,
          has_eob_hdr, hist_size, internal, masked, pc, done, wrote>>
    BY <1>12 DEF vars, userVars, bufVars, blockVars, callVars
  <2>2. UNCHANGED <<External, buffered_size, Flushing, Seen>>
    BY <2>1 DEF External, buffered_size, b_bytes_valid, Flushing, EndSeen, FlushSeen, Seen
  <2>3. UNCHANGED <<Rest, NothingAsked>>
    BY <2>1, <2>2 DEF Rest, NothingAsked
  <2>4. AskInv' /\ AheadInv'
    BY <1>1, <2>1, <2>3 DEF AskInv, AheadInv
  <2>5. ProgressInv' /\ EndInv'
    BY <1>1, <2>1, <2>2, <2>3 DEF ProgressInv, EndInv, InRound, AllDone
  <2>6. QED
    BY <1>2, <2>4, <2>5 DEF CInv, CallInv
<1>13. QED
  BY <1>3, <1>4, <1>5, <1>6, <1>7, <1>8, <1>9, <1>10, <1>11, <1>12
     DEF Next, isal_deflate, PassStep

-----------------------------------------------------------------------------
LEMMA InvCallIsWhole == CInv => CallIsWhole
<1> SUFFICES ASSUME CInv, pc = "idle"
             PROVE  /\ room > 0 /\ ~tmp => avail_in = 0
                    /\ FlushComplete /\ flush # NO_FLUSH => written = Given
                    /\ end_of_stream /\ room > 0 => Ended /\ written = Given
  BY DEF CallIsWhole
<1>1. IInv /\ AskInv /\ AheadInv /\ ProgressInv /\ EndInv
  BY DEF CInv, CallInv
<1>2. /\ Rest = total_in + avail_in - Pos /\ Pos \in Int /\ total_in \in Nat /\ avail_in \in Nat
      /\ room \in Nat
  BY <1>1, RestType
<1>3. state \in {"NEW_HDR", "END"} /\ Rest = 0 => written = Given
  <2>1. state \in {"NEW_HDR", "END"} => written = Pos
    <3>1. WholeBlocks /\ held = 0
      BY <1>1, InvIsWhole DEF IInv, Types
    <3>2. Pos - 0 = Pos
      BY <1>2
    <3>3. QED
      BY <3>1, <3>2 DEF WholeBlocks
  <2>2. Rest = 0 => Pos = total_in + avail_in
    BY <1>2
  <2>3. QED
    BY <2>1, <2>2 DEF Given
<1>4. room > 0 => avail_in = 0 /\ (AllDone \/ NothingAsked)
  BY <1>1 DEF EndInv
<1>5. ASSUME FlushComplete, flush # NO_FLUSH
      PROVE  written = Given
  <2>1. CASE room > 0
    BY <1>3, <1>4, <1>5, <2>1 DEF AllDone, NothingAsked
  <2>2. CASE state = "NEW_HDR"
    <3>1. Rest = 0
      BY <1>1, <1>5, <2>2 DEF AheadInv, Between, NothingAsked
    <3>2. QED
      BY <1>3, <2>2, <3>1
  <2>3. QED
    BY <1>5, <2>1, <2>2 DEF FlushComplete
<1>6. ASSUME end_of_stream, room > 0
      PROVE  Ended /\ written = Given
  <2>1. AllDone
    BY <1>4, <1>6 DEF NothingAsked
  <2>2. state = "END" /\ Rest = 0
    BY <1>6, <2>1 DEF AllDone
  <2>3. ~tmp
    <3>1. room # 0
      BY <1>2, <1>6
    <3>2. QED
      BY <1>1, <1>6, <3>1 DEF AheadInv, NothingAsked, Between
  <2>4. QED
    BY <1>3, <2>2, <2>3 DEF Ended
<1>7. QED
  BY <1>4, <1>5, <1>6

(* At levels 0, 1 and 2 a call of isal_deflate that returns with room left *)
(* has taken all input and has done what was asked: all input given is in  *)
(* the output when it reports a flush or the end of the stream as          *)
(* complete, though rounds through the buffer hid it from the pass until   *)
(* the last; if the user adds no input while a flush is delivered.         *)
THEOREM CallsAreWhole ==
  ASSUME 3 \notin Levels, ~FeedMidFlush
  PROVE  Spec => []CallIsWhole
<1>1. Init => CInv
  <2>1. Init => Fresh
    <3>1. Init => masked \in BOOLEAN
      BY DEF Init
    <3>2. QED
      BY <3>1 DEF Init, Fresh
  <2>2. QED
    BY <2>1, FreshAsks
<1>2. CInv /\ [Next]_vars => CInv'
  BY CallKept
<1>3. QED
  BY <1>1, <1>2, InvCallIsWhole, PTL DEF Spec
=============================================================================
