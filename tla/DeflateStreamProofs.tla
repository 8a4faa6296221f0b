------------------------ MODULE DeflateStreamProofs ------------------------
(***************************************************************************)
(* That isal_deflate at level 0 never stores past the end of its output,   *)
(* and delivers what it produces in order and without loss: for any block  *)
(* header, any code lengths, any input and any sizes of the calls.         *)
(***************************************************************************)
EXTENDS DeflateStream, TLAPS

(* The steps of a pass up to its checksum.                                 *)
Unsummed == {"header", "wrap", "hdr", "hdrbits", "body", "finish", "sync", "sum"}

(* No byte is coded that was not given, and the checksum follows.          *)
InputInv ==
  /\ coded + avail_in + buffered <= MaxIn
  /\ start_in <= coded
  /\ pc = "idle" => start_in = 0
  /\ pc \in Unsummed => crc <= start_in
  /\ crc <= coded

(* count is below the wrapper's size while the wrapper is unfinished, and  *)
(* it is unfinished after write_stream_header only if the output is full.  *)
WrapperInv ==
  WrapBytes > 0 /\ ~has_wrap_hdr =>
    /\ count < WrapBytes
    /\ pc = "hdr" => avail_out = 0
    /\ pc # "hdrbits"

(* Who holds output that the user has not got: tmp_out_buff, between       *)
(* passes, or the second pass that is filling it.                          *)
OutputInv ==
  /\ ~overrun
  /\ pc = "hdrbits" => avail_out >= 8
  /\ second => pc \in PassSteps /\ user_out > 0 /\ undelivered = TmpSize - avail_out
  /\ pc \in PassSteps => ~tmp
  /\ pc \in PassSteps /\ ~second => undelivered = 0
  /\ pc \notin PassSteps => undelivered = (IF tmp THEN tmp_out_end - tmp_out_start ELSE 0)
  /\ tmp => tmp_out_start < tmp_out_end

(* The parts of TypeOK that go with these, and the rest of it.             *)
InputType ==
  /\ avail_in \in 0..MaxIn /\ buffered \in 0..MaxIn /\ coded \in 0..MaxIn
  /\ crc \in 0..MaxIn /\ start_in \in 0..MaxIn

OutputType ==
  /\ avail_out \in Nat /\ user_out \in 0..7 /\ undelivered \in 0..TmpSize
  /\ bitcount \in 0..7
  /\ tmp_out_start \in 0..TmpSize /\ tmp_out_end \in 0..TmpSize
  /\ tmp \in BOOLEAN /\ second \in BOOLEAN /\ overrun \in BOOLEAN

Flags ==
  /\ end_of_stream \in BOOLEAN /\ has_wrap_hdr \in BOOLEAN
  /\ has_eob_hdr \in BOOLEAN /\ has_hist \in BOOLEAN /\ kept \in BOOLEAN
  /\ internal \in BOOLEAN /\ took \in BOOLEAN
  /\ final \in BOOLEAN /\ sealed \in BOOLEAN

Control ==
  /\ flush \in Flushes \cup {NO_FLUSH}
  /\ hufftables \in HuffTables /\ gzip_flag \in GzipFlags
  /\ state \in {"NEW_HDR", "HDR", "BODY", "FLUSH_READ_BUFFER", "SYNC_FLUSH", "TRL", "END"}
  /\ phase \in {"wrapper", "between", "aligned", "header", "block", "padded", "done", "garbage"}
  /\ pc \in {"idle", "drain", "return"} \cup PassSteps

IInv == TypeOK /\ InputInv /\ WrapperInv /\ OutputInv

-----------------------------------------------------------------------------
(* Output                                                                  *)

(* A step that produces some output, none or up to the room there is.      *)
Writes ==
  /\ avail_out' \in 0..avail_out
  /\ undelivered' = IF second THEN undelivered + (avail_out - avail_out') ELSE undelivered
  /\ bitcount' \in 0..7
  /\ overrun' = overrun

(* Whole bytes, and bits left over, of what the bit buffer may hold.       *)
LEMMA BytesAndBits ==
  ASSUME NEW k \in 0..63
  PROVE  k \div 8 \in 0..7 /\ k % 8 \in 0..7
<1>1. k % 8 \in 0..7
  OBVIOUS
<1>2. k \div 8 \in Int /\ k \div 8 >= 0
  OBVIOUS
<1>3. k \div 8 <= 7
  OBVIOUS
<1>4. QED
  BY <1>1, <1>2, <1>3

(* The bit buffer, used where 8 bytes are left, produces at most these.    *)
LEMMA BitBuffer ==
  ASSUME OutputType, avail_out >= 8, NEW n \in 0..56, write_bits(n)
  PROVE  Writes
<1>1. bitcount + n \in 0..63
  BY DEF OutputType
<1>2. (bitcount + n) \div 8 \in 0..7 /\ (bitcount + n) % 8 \in 0..7
  BY <1>1, BytesAndBits
<1>3. QED
  BY <1>2 DEF write_bits, Store, Copy, Writes, Slop, OutputType

(* So does flush().                                                        *)
LEMMA FlushBitBuffer ==
  ASSUME OutputType, avail_out >= 8, flush_bitbuf
  PROVE  Writes
BY DEF flush_bitbuf, Store, Copy, Writes, Slop, OutputType

(* And so does a step that copies bytes, or none.                          *)
LEMMA CopyWrites ==
  ASSUME OutputType, NEW n \in 0..avail_out, Copy(n),
         UNCHANGED <<bitcount, overrun>>
  PROVE  Writes
BY DEF Copy, Writes, OutputType

LEMMA NoOutput ==
  ASSUME OutputType, UNCHANGED outVars
  PROVE  Writes
BY DEF outVars, Writes, OutputType

(* What is in tmp_out_buff and the room left add up to its size.           *)
LEMMA TmpRoom ==
  ASSUME NEW room \in 0..16
  PROVE  TmpSize - room \in 0..TmpSize
BY DEF TmpSize

(* Within a pass, output keeps the invariant whoever produces it.          *)
LEMMA PassKeepsOutput ==
  ASSUME OutputType, OutputInv, Writes, pc \in PassSteps, pc' \in PassSteps,
         UNCHANGED <<tmpVars, second, user_out>>,
         pc' = "hdrbits" => avail_out' >= 8
  PROVE  OutputType' /\ OutputInv'
<1>1. /\ avail_out \in Nat /\ undelivered \in 0..TmpSize /\ second \in BOOLEAN
      /\ tmp \in BOOLEAN /\ overrun \in BOOLEAN
  BY DEF OutputType
<1>2. second' = second /\ user_out' = user_out /\ tmp' = tmp
  BY DEF tmpVars
<1>3. tmp_out_start' = tmp_out_start /\ tmp_out_end' = tmp_out_end
  BY DEF tmpVars
<1>4. overrun' \in BOOLEAN /\ ~overrun'
  BY <1>1, Zenon DEF OutputInv, Writes
<1>5. avail_out' \in Nat /\ bitcount' \in 0..7
  BY <1>1 DEF Writes
<1>6. (second' <=> second) /\ (tmp' <=> tmp)
  BY <1>2
<1>7. ~tmp' /\ (second' => user_out' > 0)
  <2>1. ~tmp /\ (second => user_out > 0)
    BY Zenon DEF OutputInv
  <2>2. QED
    BY <1>2, <1>6, <2>1, Zenon
<1>8. undelivered' \in 0..TmpSize /\ (second' => undelivered' = TmpSize - avail_out')
  <2>1. CASE second
    <3>1. undelivered = TmpSize - avail_out
      BY <2>1, Zenon DEF OutputInv
    <3>2. undelivered' = undelivered + (avail_out - avail_out')
      BY <2>1, Zenon DEF Writes
    <3>3. avail_out' \in 0..avail_out
      BY DEF Writes
    <3>4. avail_out \in Nat /\ undelivered \in 0..TmpSize
      BY <1>1
    <3>5. undelivered' = TmpSize - avail_out'
      BY <3>1, <3>2, <3>3, <3>4 DEF TmpSize
    <3>6. undelivered' \in 0..TmpSize
      <4>1. avail_out \in 0..16
        BY <3>1, <3>4 DEF TmpSize
      <4>2. avail_out' \in 0..16
        BY <3>3, <4>1
      <4>3. QED
        BY <3>5, <4>2, TmpRoom, Zenon
    <3>7. QED
      BY <3>5, <3>6, Zenon
  <2>2. CASE ~second
    <3>1. undelivered' = undelivered
      BY <2>2, Zenon DEF Writes
    <3>2. QED
      BY <1>1, <1>6, <2>2, <3>1, Zenon
  <2>3. QED
    BY <2>1, <2>2, Zenon
<1>9. ~second' => undelivered' = 0
  BY <1>6, Zenon DEF OutputInv, Writes
<1>10. OutputInv'
  <2>1. pc' = "hdrbits" => avail_out' >= 8
    OBVIOUS
  <2>2. pc' \in PassSteps
    OBVIOUS
  <2>3. QED
    BY <1>4, <1>7, <1>8, <1>9, <2>1, <2>2, Zenon DEF OutputInv
<1>11. OutputType'
  BY <1>2, <1>3, <1>4, <1>5, <1>8 DEF OutputType
<1>12. QED
  BY <1>10, <1>11

(* TypeOK is these parts.                                                  *)
LEMMA TypeParts ==
  TypeOK <=> InputType /\ OutputType /\ (count \in Nat) /\ Flags /\ Control
BY Zenon DEF TypeOK, InputType, OutputType, Flags, Control

(* The first step of a pass is a step of a pass, and not in its middle.    *)
LEMMA StageOfPass ==
  ASSUME NEW st \in {"NEW_HDR", "HDR", "BODY", "FLUSH_READ_BUFFER", "SYNC_FLUSH", "TRL", "END"}
  PROVE  Stage(st) \in {"header", "body", "finish", "sync", "sum"}
BY DEF Stage
-----------------------------------------------------------------------------
(* Control                                                                 *)

LEMMA FlagsStep ==
  ASSUME Flags, Control, Next
  PROVE  Flags'
<1>1. CASE Call
  BY <1>1 DEF Call, Flags, Control, hdrVars, fmtVars, BufferOnly, WithHistory,
     reset_match_history
<1>2. CASE isal_deflate_set_hufftables
  BY <1>2 DEF isal_deflate_set_hufftables, Flags, hdrVars, inVars, bufVars, fmtVars
<1>3. CASE isal_deflate_reset
  BY <1>3 DEF isal_deflate_reset, FreshStream, Flags
<1>4. CASE Drain \/ EndPass \/ SecondPass \/ EndSecondPass
  BY <1>4 DEF Drain, EndPass, SecondPass, EndSecondPass, Flags, userVars, hdrVars,
     inVars, bufVars, fmtVars
<1>5. CASE WriteHeaderAlign \/ write_stream_header \/ WriteDeflateHeader \/ WriteHeaderBits
  <2>1. CASE WriteHeaderAlign
    BY <2>1 DEF WriteHeaderAlign, TogglesFinal, Flags, userVars, inVars, bufVars, hdrVars, fmtVars
  <2>2. CASE write_stream_header
    BY <2>2 DEF write_stream_header, Flags, userVars, inVars, bufVars, hdrVars, fmtVars
  <2>3. CASE WriteDeflateHeader
    BY <2>3 DEF WriteDeflateHeader, TogglesFinal, Flags, userVars, inVars, bufVars, hdrVars, fmtVars
  <2>4. CASE WriteHeaderBits
    BY <2>4 DEF WriteHeaderBits, TogglesFinal, Flags, userVars, inVars, bufVars, hdrVars, fmtVars
  <2>5. QED
    BY <1>5, <2>1, <2>2, <2>3, <2>4
<1>6. CASE BodySymbol \/ BodyFull \/ BodyDone \/ FinishSymbol \/ FinishFull \/ FinishEob
  <2>1. CASE BodySymbol \/ BodyFull \/ BodyDone
    BY <2>1 DEF BodySymbol, BodyFull, BodyDone, Encode, Flags, userVars, hdrVars, inVars, bufVars,
       fmtVars
  <2>2. CASE FinishSymbol \/ FinishFull
    BY <2>2 DEF FinishSymbol, FinishFull, Encode, Flags, userVars, hdrVars, inVars, bufVars, fmtVars
  <2>3. CASE FinishEob
    BY <2>3 DEF FinishEob, Encode, Flags, userVars, hdrVars, inVars, bufVars, fmtVars
  <2>4. QED
    BY <1>6, <2>1, <2>2, <2>3
<1>7. CASE sync_flush \/ update_checksum
  BY <1>7 DEF sync_flush, update_checksum, KeepsHistory, Flags, userVars, hdrVars,
     inVars, bufVars, fmtVars
<1>8. CASE WriteFinalBlock \/ WritePadding \/ WriteTrailer
  <2>1. CASE WriteFinalBlock
    BY <2>1 DEF WriteFinalBlock, Flags, userVars, hdrVars, inVars, bufVars, fmtVars
  <2>2. CASE WritePadding
    BY <2>2 DEF WritePadding, Flags, userVars, hdrVars, inVars, bufVars, fmtVars
  <2>3. CASE WriteTrailer
    BY <2>3 DEF WriteTrailer, Flags, userVars, hdrVars, inVars, bufVars, fmtVars
  <2>4. QED
    BY <1>8, <2>1, <2>2, <2>3
<1>9. CASE Return
  BY <1>9 DEF Return, FlushComplete, Flags, userVars, hdrVars, fmtVars
<1>10. QED
  BY <1>1, <1>2, <1>3, <1>4, <1>5, <1>6, <1>7, <1>8, <1>9 DEF Next, isal_deflate

LEMMA ControlStep ==
  ASSUME Control, Flags, Next
  PROVE  Control'
<1> USE DEF Control, PassSteps
<1>1. CASE Call
  BY <1>1 DEF Call, fmtVars
<1>2. CASE isal_deflate_set_hufftables
  BY <1>2 DEF isal_deflate_set_hufftables, fmtVars
<1>3. CASE isal_deflate_reset
  BY <1>3 DEF isal_deflate_reset, FreshStream
<1>4. CASE Drain \/ EndPass \/ SecondPass \/ EndSecondPass
  BY <1>4, StageOfPass DEF Drain, EndPass, SecondPass, EndSecondPass, StartPass, userVars,
     fmtVars
<1>5. CASE WriteHeaderAlign \/ write_stream_header \/ WriteDeflateHeader \/ WriteHeaderBits
  BY <1>5 DEF WriteHeaderAlign, write_stream_header, WriteDeflateHeader, WriteHeaderBits,
     userVars, fmtVars
<1>6. CASE BodySymbol \/ BodyFull \/ BodyDone \/ FinishSymbol \/ FinishFull
  BY <1>6 DEF BodySymbol, BodyFull, BodyDone, FinishSymbol, FinishFull, userVars, fmtVars
<1>7. CASE FinishEob
  BY <1>7, StageOfPass DEF FinishEob, userVars
<1>8. CASE sync_flush \/ update_checksum
  BY <1>8 DEF sync_flush, update_checksum, userVars, fmtVars
<1>9. CASE WriteFinalBlock \/ WritePadding \/ WriteTrailer
  BY <1>9 DEF WriteFinalBlock, WritePadding, WriteTrailer, userVars, fmtVars
<1>10. CASE Return
  BY <1>10 DEF Return, userVars, fmtVars
<1>11. QED
  BY <1>1, <1>2, <1>3, <1>4, <1>5, <1>6, <1>7, <1>8, <1>9, <1>10 DEF Next, isal_deflate
-----------------------------------------------------------------------------
(* Input                                                                   *)

(* A step that leaves the input alone and does not start a pass.           *)
LEMMA InputUntouched ==
  ASSUME InputType, InputInv,
         UNCHANGED <<avail_in, buffered, coded, crc, start_in>>,
         pc' \in Unsummed => pc \in Unsummed, pc' = "idle" => pc = "idle"
  PROVE  InputType' /\ InputInv'
BY DEF InputType, InputInv

(* A symbol is coded from input that is there.                             *)
LEMMA EncodeTakes ==
  ASSUME InputType, NEW symbol \in Symbols, Encode(symbol), avail_in > 0
  PROVE  \E n \in 1..avail_in : avail_in' = avail_in - n /\ coded' = coded + n
<1>1. symbol[1] \in 1..avail_in
  BY DeflateAssumption DEF Symbols, InputType
<1>2. QED
  BY <1>1 DEF Encode

LEMMA InputStep ==
  ASSUME InputType, InputInv, Control, Next
  PROVE  InputType' /\ InputInv'
<1>0. MaxIn \in Nat
  BY DeflateAssumption
<1>1. CASE Call
  BY <1>1, DeflateAssumption DEF Call, given, Unprocessed, InputType, InputInv, inVars,
     passVars, Unsummed
<1>2. CASE isal_deflate_set_hufftables
  BY <1>2, InputUntouched DEF isal_deflate_set_hufftables, inVars, bufVars, passVars
<1>3. CASE isal_deflate_reset
  <2>1. avail_in' = 0 /\ buffered' = 0 /\ coded' = 0 /\ crc' = 0
    BY <1>3 DEF isal_deflate_reset, FreshStream
  <2>2. pc' = "idle" /\ start_in' = 0
    BY <1>3 DEF isal_deflate_reset, InputInv, passVars
  <2>3. QED
    BY <2>1, <2>2, DeflateAssumption DEF InputType, InputInv, Unsummed
<1>4. CASE Drain \/ SecondPass
  <2>1. UNCHANGED <<avail_in, buffered, coded, crc>>
    BY <1>4 DEF Drain, SecondPass, inVars, bufVars
  <2>2. /\ start_in' = coded \/ start_in' = start_in
        /\ pc' \in Unsummed => start_in' = coded
        /\ pc' # "idle"
    BY <1>4, StageOfPass DEF Drain, SecondPass, StartPass, Control, Unsummed
  <2>3. QED
    BY <2>1, <2>2 DEF InputType, InputInv
<1>5. CASE EndPass \/ EndSecondPass
  BY <1>5, InputUntouched DEF EndPass, EndSecondPass, inVars, bufVars, passVars,
     Unsummed
<1>6. CASE WriteHeaderAlign \/ write_stream_header \/ WriteDeflateHeader \/ WriteHeaderBits
  BY <1>6, InputUntouched DEF WriteHeaderAlign, write_stream_header, WriteDeflateHeader,
     WriteHeaderBits, inVars, bufVars, passVars, Unsummed
<1>7. CASE BodySymbol \/ FinishSymbol
  <2>1. avail_in > 0
    BY <1>7, DeflateAssumption DEF BodySymbol, FinishSymbol, InputType
  <2>2. PICK symbol \in Symbols : Encode(symbol)
    BY <1>7, Zenon DEF BodySymbol, FinishSymbol
  <2>3. PICK n \in 1..avail_in : avail_in' = avail_in - n /\ coded' = coded + n
    BY <2>1, <2>2, EncodeTakes
  <2>4. UNCHANGED <<buffered, crc, start_in, pc>>
    BY <1>7 DEF BodySymbol, FinishSymbol, bufVars, passVars
  <2>5. avail_in' \in 0..MaxIn /\ coded' \in 0..MaxIn
    BY <1>0, <2>3 DEF InputType, InputInv
  <2>6. InputType'
    BY <2>4, <2>5 DEF InputType
  <2>7. InputInv'
    <3>1. coded' + avail_in' = coded + avail_in /\ coded' >= coded
      BY <1>0, <2>3 DEF InputType
    <3>2. coded' + avail_in' + buffered' <= MaxIn
      BY <2>4, <3>1 DEF InputInv
    <3>3. start_in' <= coded' /\ crc' <= coded'
      BY <1>0, <2>4, <2>5, <3>1 DEF InputType, InputInv
    <3>4. pc' \in Unsummed => crc' <= start_in'
      BY <2>4 DEF InputInv
    <3>5. pc' = "idle" => start_in' = 0
      BY <2>4 DEF InputInv
    <3>6. QED
      BY <3>2, <3>3, <3>4, <3>5, Zenon DEF InputInv
  <2>8. QED
    BY <2>6, <2>7
<1>8. CASE BodyFull \/ BodyDone \/ FinishFull
  BY <1>8, InputUntouched DEF BodyFull, BodyDone, FinishFull, inVars, bufVars, passVars,
     Unsummed
<1>9. CASE FinishEob
  BY <1>9, InputUntouched DEF FinishEob, Stage, inVars, bufVars, passVars, Unsummed
<1>10. CASE sync_flush
  BY <1>10, InputUntouched DEF sync_flush, inVars, bufVars, passVars, Unsummed
<1>11. CASE update_checksum
  <2>1. /\ UNCHANGED <<avail_in, buffered, coded, start_in>>
        /\ pc' \notin Unsummed /\ pc' # "idle"
    BY <1>11 DEF update_checksum, inVars, bufVars, passVars, Unsummed
  <2>2. crc' = crc \/ crc' = crc + (coded - start_in)
    BY <1>11 DEF update_checksum
  <2>3. crc <= start_in
    BY <1>11 DEF update_checksum, InputInv, Unsummed
  <2>4. crc' \in 0..coded
    BY <2>2, <2>3 DEF InputType, InputInv
  <2>5. crc' \in 0..MaxIn /\ crc' <= coded
    BY <2>4, DeflateAssumption DEF InputType
  <2>6. QED
    BY <2>1, <2>5 DEF InputType, InputInv
<1>12. CASE WriteFinalBlock \/ WritePadding \/ WriteTrailer
  BY <1>12, InputUntouched DEF WriteFinalBlock, WritePadding, WriteTrailer, inVars,
     bufVars, passVars, Unsummed
<1>13. CASE Return
  BY <1>13, DeflateAssumption DEF Return, InputType, InputInv, Unsummed
<1>14. QED
  BY <1>1, <1>2, <1>3, <1>4, <1>5, <1>6, <1>7, <1>8, <1>9, <1>10, <1>11, <1>12, <1>13
     DEF Next, isal_deflate
-----------------------------------------------------------------------------
(* The wrapper                                                             *)

LEMMA WrapBytesType == WrapBytes \in {0, 2, 10}
BY DEF WrapBytes

(* WriteDeflateHeader copies what there is room for.                       *)
LEMMA HeaderCopyType ==
  ASSUME Control, OutputType, count \in Nat
  PROVE  HeaderCopy \in 0..avail_out
<1>1. hufftables.hdr \in Nat
  BY DeflateAssumption DEF Control
<1>2. QED
  BY <1>1 DEF HeaderCopy, HeaderRest, Least, OutputType

(* A step that leaves the header alone, and does not go on in it.          *)
LEMMA WrapperUntouched ==
  ASSUME count \in Nat, WrapperInv, UNCHANGED <<count, has_wrap_hdr, gzip_flag>>,
         pc' \notin {"hdr", "hdrbits"}
  PROVE  count' \in Nat /\ WrapperInv'
BY DEF WrapperInv, WrapBytes

LEMMA WrapperStep ==
  ASSUME OutputType, Control, Flags, count \in Nat, WrapperInv, Next
  PROVE  count' \in Nat /\ WrapperInv'
<1>1. CASE Call \/ isal_deflate_set_hufftables
  BY <1>1, WrapperUntouched DEF Call, isal_deflate_set_hufftables, hdrVars
<1>2. CASE isal_deflate_reset
  BY <1>2, WrapBytesType DEF isal_deflate_reset, FreshStream, WrapperInv, WrapBytes
<1>3. CASE Drain \/ EndPass \/ SecondPass \/ EndSecondPass \/ Return
  BY <1>3, WrapperUntouched, StageOfPass DEF Drain, EndPass, SecondPass, EndSecondPass,
     Return, StartPass, Control, userVars, hdrVars
<1>4. CASE WriteHeaderAlign
  BY <1>4, WrapperUntouched DEF WriteHeaderAlign, userVars
<1>5. CASE BodySymbol \/ BodyFull \/ BodyDone \/ FinishSymbol \/ FinishFull
  BY <1>5, WrapperUntouched DEF BodySymbol, BodyFull, BodyDone, FinishSymbol, FinishFull,
     userVars, hdrVars
<1>6. CASE FinishEob
  BY <1>6, WrapperUntouched DEF FinishEob, Stage, userVars, hdrVars
<1>7. CASE sync_flush \/ update_checksum
  BY <1>7, WrapperUntouched DEF sync_flush, update_checksum, userVars, hdrVars
<1>8. CASE WriteFinalBlock \/ WritePadding \/ WriteTrailer
  BY <1>8, WrapperUntouched DEF WriteFinalBlock, WritePadding, WriteTrailer, userVars,
     hdrVars
<1>9. CASE write_stream_header
  <2>1. gzip_flag' = gzip_flag /\ WrapBytes' = WrapBytes
    BY <1>9 DEF write_stream_header, userVars, WrapBytes
  <2>2. pc' = "hdr"
    BY <1>9 DEF write_stream_header
  <2>3. CASE WrapBytes > 0 /\ ~has_wrap_hdr
    <3> DEFINE n == Least(WrapBytes - count, avail_out)
    <3>1. /\ avail_out' = avail_out - n
          /\ count' = (IF count + n = WrapBytes THEN 0 ELSE count + n)
          /\ has_wrap_hdr' = (count + n = WrapBytes)
      BY <1>9, <2>3 DEF write_stream_header, Copy
    <3>2. WrapBytes \in Nat /\ avail_out \in Nat /\ count < WrapBytes
      BY <2>3, WrapBytesType DEF WrapperInv, OutputType
    <3>3. /\ n \in Nat /\ count + n <= WrapBytes
          /\ count + n < WrapBytes => n = avail_out
      BY <3>2 DEF Least
    <3>4. count' \in Nat /\ (~has_wrap_hdr' => count' < WrapBytes /\ avail_out' = 0)
      <4> HIDE DEF n
      <4>1. CASE count + n = WrapBytes
        BY <3>1, <4>1
      <4>2. CASE count + n # WrapBytes
        <5>1. count' = count + n /\ count + n < WrapBytes
          BY <3>1, <3>2, <3>3, <4>2
        <5>2. avail_out' = 0
          BY <3>1, <3>2, <3>3, <5>1
        <5>3. QED
          BY <3>3, <5>1, <5>2
      <4>3. QED
        BY <4>1, <4>2
    <3>5. QED
      BY <2>1, <2>2, <3>4 DEF WrapperInv
  <2>4. CASE ~(WrapBytes > 0 /\ ~has_wrap_hdr)
    BY <1>9, <2>1, <2>2, <2>4 DEF write_stream_header, WrapperInv
  <2>5. QED
    BY <2>3, <2>4
<1>10. CASE WriteDeflateHeader
  <2>1. gzip_flag' = gzip_flag /\ WrapBytes' = WrapBytes /\ has_wrap_hdr' = has_wrap_hdr
    BY <1>10 DEF WriteDeflateHeader, userVars, WrapBytes
  <2>2. HeaderCopy \in 0..avail_out
    BY HeaderCopyType
  <2>3. count' \in Nat /\ avail_out' = avail_out - HeaderCopy /\ count' = count + HeaderCopy
    BY <1>10, <2>2 DEF WriteDeflateHeader, Copy, OutputType
  <2>4. WrapperInv'
    <3>1. SUFFICES ASSUME WrapBytes > 0, ~has_wrap_hdr
                   PROVE  count' < WrapBytes /\ pc' \notin {"hdr", "hdrbits"}
      BY <2>1, Zenon DEF WrapperInv
    <3>2. count < WrapBytes /\ avail_out = 0
      BY <1>10, <3>1, Zenon DEF WriteDeflateHeader, WrapperInv
    <3>3. HeaderCopy = 0
      BY <2>2, <3>2
    <3>4. count' = count /\ avail_out' = 0
      BY <2>3, <3>2, <3>3
    <3>5. QED
      BY <1>10, <3>2, <3>4 DEF WriteDeflateHeader
  <2>5. QED
    BY <2>3, <2>4
<1>11. CASE WriteHeaderBits
  BY <1>11, WrapBytesType DEF WriteHeaderBits, WrapperInv, WrapBytes, userVars
<1>12. QED
  BY <1>1, <1>2, <1>3, <1>4, <1>5, <1>6, <1>7, <1>8, <1>9, <1>10, <1>11
     DEF Next, isal_deflate
-----------------------------------------------------------------------------
(* The steps of a pass, and what they write                                *)

LEMMA HeaderWrites ==
  ASSUME OutputType, OutputInv, Control, count \in Nat, WrapperInv,
         \/ WriteHeaderAlign \/ write_stream_header
         \/ WriteDeflateHeader \/ WriteHeaderBits
  PROVE  Writes
<1>1. CASE WriteHeaderAlign
  BY <1>1, FlushBitBuffer, NoOutput DEF WriteHeaderAlign
<1>2. CASE write_stream_header
  <2>1. CASE WrapBytes > 0 /\ ~has_wrap_hdr
    <3>1. WrapBytes \in Nat /\ count < WrapBytes
      BY <2>1, WrapBytesType DEF WrapperInv
    <3>2. Least(WrapBytes - count, avail_out) \in 0..avail_out
      BY <3>1 DEF Least, OutputType
    <3>3. QED
      BY <1>2, <2>1, <3>2, CopyWrites DEF write_stream_header
  <2>2. CASE ~(WrapBytes > 0 /\ ~has_wrap_hdr)
    BY <1>2, <2>2, NoOutput DEF write_stream_header, outVars
  <2>3. QED
    BY <2>1, <2>2
<1>3. CASE WriteDeflateHeader
  BY <1>3, HeaderCopyType, CopyWrites DEF WriteDeflateHeader
<1>4. CASE WriteHeaderBits
  <2>1. hufftables.extra \in 0..56 /\ avail_out >= 8
    BY <1>4, DeflateAssumption DEF WriteHeaderBits, Control, OutputInv
  <2>2. QED
    BY <1>4, <2>1, BitBuffer DEF WriteHeaderBits
<1>5. QED
  BY <1>1, <1>2, <1>3, <1>4

LEMMA BodyWrites ==
  ASSUME OutputType, Control,
         \/ BodySymbol \/ BodyFull \/ BodyDone
         \/ FinishSymbol \/ FinishFull \/ FinishEob
  PROVE  Writes
<1>1. CASE BodySymbol \/ FinishSymbol
  <2>1. avail_out >= 8
    BY <1>1 DEF BodySymbol, FinishSymbol, is_full, Slop, OutputType
  <2>2. PICK symbol \in Symbols : Encode(symbol)
    BY <1>1, Zenon DEF BodySymbol, FinishSymbol
  <2>3. symbol[2] \in 0..56
    BY DeflateAssumption DEF Symbols, CodeBits
  <2>4. QED
    BY <2>1, <2>2, <2>3, BitBuffer DEF Encode
<1>2. CASE BodyFull \/ BodyDone \/ FinishFull
  BY <1>2, NoOutput DEF BodyFull, BodyDone, FinishFull
<1>3. CASE FinishEob
  <2>1. avail_out >= 8 /\ hufftables.eob \in 0..56
    BY <1>3, DeflateAssumption DEF FinishEob, is_full, Slop, OutputType, Control
  <2>2. QED
    BY <1>3, <2>1, BitBuffer DEF FinishEob
<1>4. QED
  BY <1>1, <1>2, <1>3

LEMMA RestWrites ==
  ASSUME OutputType, Control,
         \/ sync_flush \/ update_checksum
         \/ WriteFinalBlock \/ WritePadding \/ WriteTrailer
  PROVE  Writes
<1>1. CASE sync_flush
  <2>1. MarkerPad \in 0..7
    BY DEF MarkerPad, OutputType
  <2>2. 3 + MarkerPad + 32 \in 0..56
    BY <2>1
  <2>3. QED
    BY <1>1, <2>2, BitBuffer, NoOutput DEF sync_flush
<1>2. CASE update_checksum
  BY <1>2, NoOutput DEF update_checksum
<1>3. CASE WriteFinalBlock
  BY <1>3, BitBuffer, NoOutput DEF WriteFinalBlock
<1>4. CASE WritePadding
  BY <1>4, FlushBitBuffer, NoOutput DEF WritePadding
<1>5. CASE WriteTrailer
  <2>1. TrailerBytes \in Nat
    BY DEF TrailerBytes
  <2>2. CASE avail_out >= TrailerBytes
    <3>1. TrailerBytes \in 0..avail_out
      BY <2>1, <2>2 DEF OutputType
    <3>2. QED
      BY <1>5, <2>2, <3>1, CopyWrites DEF WriteTrailer
  <2>3. CASE ~(avail_out >= TrailerBytes)
    BY <1>5, <2>3, NoOutput DEF WriteTrailer, outVars
  <2>4. QED
    BY <2>2, <2>3
<1>6. QED
  BY <1>1, <1>2, <1>3, <1>4, <1>5
-----------------------------------------------------------------------------
(* Who holds the output, step by step                                      *)

(* Between calls, or before the first pass of one.                         *)
LEMMA OutputOutside ==
  ASSUME OutputType, OutputInv, avail_out' \in Nat,
         UNCHANGED <<tmpVars, second, user_out, undelivered, overrun, bitcount>>,
         pc \in {"idle", "return"}, pc' \in {"idle", "drain"}
  PROVE  OutputType' /\ OutputInv'
BY DEF OutputType, OutputInv, tmpVars, PassSteps

LEMMA Behind ==
  ASSUME NEW start \in 0..16, NEW end \in 0..16, end - start > 0
  PROVE  start < end
OBVIOUS

(* What tmp_out_buff holds goes out, and stays there if it does not fit.    *)
LEMMA DrainOutput ==
  ASSUME OutputType, OutputInv, Control, Drain
  PROVE  OutputType' /\ OutputInv'
<1>1. /\ ~second /\ pc \notin PassSteps
      /\ pc' = "return" \/ pc' \in PassSteps \ {"hdrbits"}
  BY StageOfPass DEF Drain, OutputInv, Control, StartPass, PassSteps
<1>2. UNCHANGED <<second, user_out, overrun, bitcount, tmp_out_end>>
  BY DEF Drain
<1>3. CASE tmp
  <2> DEFINE size == Least(tmp_out_end - tmp_out_start, avail_out)
  <2> DEFINE left == tmp_out_end - tmp_out_start - size
  <2>1. /\ avail_out' = avail_out - size /\ undelivered' = undelivered - size
        /\ tmp_out_start' = tmp_out_start + size /\ tmp' = (left > 0)
    BY <1>3 DEF Drain
  <2>2. pc' = "return" \/ avail_out - size # 0
    BY <1>3 DEF Drain, DrainReturns
  <2>3. /\ undelivered = tmp_out_end - tmp_out_start
        /\ tmp_out_start < tmp_out_end /\ ~overrun
    BY <1>1, <1>3, Zenon DEF OutputInv
  <2>4. /\ tmp_out_start \in 0..16 /\ tmp_out_end \in 0..16 /\ avail_out \in Nat
    BY DEF OutputType, TmpSize
  <2>5. /\ size \in 0..avail_out /\ size <= tmp_out_end - tmp_out_start
        /\ size = avail_out \/ left = 0
    BY <2>3, <2>4 DEF Least
  <2>6. left = tmp_out_end - tmp_out_start - size
    OBVIOUS
  <2>7. tmp' <=> left > 0
    BY <2>1
  <2> HIDE DEF size, left
  <2>8. /\ avail_out' \in Nat /\ tmp_out_start' \in 0..16 /\ tmp_out_end' \in 0..16
        /\ undelivered' \in 0..16 /\ undelivered' = left
        /\ left = tmp_out_end' - tmp_out_start'
    BY <1>2, <2>1, <2>3, <2>4, <2>5, <2>6
  <2>9. left \in 0..16
    BY <2>8, Zenon
  <2>10. OutputType'
    BY <1>2, <2>1, <2>8 DEF OutputType, TmpSize
  <2>11. tmp' => pc' = "return" /\ tmp_out_start' < tmp_out_end'
    <3>1. SUFFICES ASSUME left > 0
                   PROVE  pc' = "return" /\ tmp_out_start' < tmp_out_end'
      BY <2>7, Zenon
    <3>2. avail_out - size = 0
      BY <2>4, <2>5, <2>9, <3>1
    <3>3. tmp_out_start' < tmp_out_end'
      <4>1. tmp_out_end' - tmp_out_start' > 0
        BY <2>8, <3>1
      <4>2. tmp_out_start' \in 0..16 /\ tmp_out_end' \in 0..16
        BY <2>8
      <4>3. QED
        BY <4>1, <4>2, Behind
    <3>4. QED
      BY <2>2, <3>2, <3>3
  <2>12. ~tmp' => undelivered' = 0
    <3>1. ~(left > 0) => left = 0
      BY <2>9
    <3>2. QED
      BY <2>8, <2>7, <3>1, Zenon
  <2>13. pc' # "hdrbits" /\ (pc' = "return" => pc' \notin PassSteps)
    BY <1>1 DEF PassSteps
  <2>14. (second' <=> second) /\ (overrun' <=> overrun)
    BY <1>2
  <2>15. undelivered' = (IF tmp' THEN tmp_out_end' - tmp_out_start' ELSE 0)
    BY <2>8, <2>12, Zenon
  <2>16. OutputInv'
    BY <1>1, <2>3, <2>11, <2>12, <2>13, <2>14, <2>15, Zenon DEF OutputInv
  <2>17. QED
    BY <2>10, <2>16
<1>4. CASE ~tmp
  BY <1>1, <1>2, <1>4 DEF Drain, OutputType, OutputInv
<1>5. QED
  BY <1>3, <1>4

(* What does not fit goes to tmp_out_buff.                                 *)
LEMMA EndSecondPassOutput ==
  ASSUME OutputType, OutputInv, EndSecondPass
  PROVE  OutputType' /\ OutputInv'
<1> DEFINE total_out == TmpSize - avail_out
<1> DEFINE size == Least(total_out, user_out)
<1>1. /\ tmp_out_start' = size /\ tmp_out_end' = total_out
      /\ tmp' = (size # total_out)
      /\ avail_out' = user_out - size /\ undelivered' = undelivered - size
      /\ second' = FALSE /\ user_out' = 0 /\ pc' = "return"
      /\ bitcount' = bitcount /\ overrun' = overrun
  BY DEF EndSecondPass
<1>2. second /\ pc = "passed"
  BY DEF EndSecondPass
<1>3. undelivered = total_out /\ ~overrun
  BY <1>2, Zenon DEF OutputInv
<1>4. user_out \in 0..7 /\ undelivered \in 0..16
  BY DEF OutputType, TmpSize
<1>5. size \in 0..total_out /\ size <= user_out
  BY <1>3, <1>4 DEF Least
<1>6. tmp' \in BOOLEAN /\ second' \in BOOLEAN /\ overrun' \in BOOLEAN
  BY <1>1 DEF OutputType
<1> HIDE DEF size, total_out
<1>7. /\ avail_out' \in Nat /\ tmp_out_start' \in 0..16 /\ tmp_out_end' \in 0..16
      /\ undelivered' \in 0..16 /\ undelivered' = tmp_out_end' - tmp_out_start'
      /\ size # total_out => tmp_out_start' < tmp_out_end'
      /\ size = total_out => undelivered' = 0
  BY <1>1, <1>3, <1>4, <1>5
<1>8. OutputType'
  BY <1>1, <1>6, <1>7 DEF OutputType, TmpSize
<1>9. OutputInv'
  BY <1>1, <1>3, <1>7 DEF OutputInv, PassSteps, OutputType
<1>10. QED
  BY <1>8, <1>9

LEMMA OutputStep ==
  ASSUME OutputType, OutputInv, Control, count \in Nat, WrapperInv, Next
  PROVE  OutputType' /\ OutputInv'
<1>1. CASE Call
  BY <1>1, OutputOutside, DeflateAssumption DEF Call, passVars
<1>2. CASE isal_deflate_set_hufftables
  BY <1>2, OutputOutside DEF isal_deflate_set_hufftables, passVars, outVars, OutputType
<1>3. CASE isal_deflate_reset
  <2>1. /\ avail_out' = 0 /\ bitcount' = 0 /\ undelivered' = 0
        /\ tmp' = FALSE /\ tmp_out_start' = 0 /\ tmp_out_end' = 0
        /\ pc' = "idle" /\ pc = "idle"
        /\ second' = second /\ user_out' = user_out /\ overrun' = overrun
    BY <1>3 DEF isal_deflate_reset, FreshStream, passVars
  <2>2. ~second /\ ~overrun
    BY <2>1 DEF OutputInv, OutputType, PassSteps
  <2>3. OutputType'
    <3>1. tmp' \in BOOLEAN /\ second' \in BOOLEAN /\ overrun' \in BOOLEAN
      BY <2>1 DEF OutputType
    <3>2. user_out' \in 0..7
      BY <2>1 DEF OutputType
    <3>3. 0 \in 0..16 /\ 0 \in 0..7 /\ 0 \in Nat
      OBVIOUS
    <3>4. QED
      BY <2>1, <3>1, <3>2, <3>3, Zenon DEF OutputType, TmpSize
  <2>4. OutputInv'
    BY <2>1, <2>2 DEF OutputInv, OutputType, PassSteps
  <2>5. QED
    BY <2>3, <2>4
<1>4. CASE Drain
  BY <1>4, DrainOutput
<1>5. CASE \/ WriteHeaderAlign \/ write_stream_header
           \/ WriteDeflateHeader \/ WriteHeaderBits
  <2>1. Writes
    BY <1>5, HeaderWrites
  <2>2. /\ pc \in PassSteps /\ pc' \in PassSteps
        /\ pc' = "hdrbits" => avail_out' >= 8
        /\ UNCHANGED <<tmpVars, second, user_out>>
    BY <1>5 DEF WriteHeaderAlign, write_stream_header, WriteDeflateHeader,
       WriteHeaderBits, PassSteps, passVars
  <2>3. QED
    BY <2>1, <2>2, PassKeepsOutput
<1>6. CASE \/ BodySymbol \/ BodyFull \/ BodyDone
           \/ FinishSymbol \/ FinishFull \/ FinishEob
  <2>1. Writes
    BY <1>6, BodyWrites
  <2>2. /\ pc \in PassSteps /\ pc' \in PassSteps \ {"hdrbits"}
        /\ UNCHANGED <<tmpVars, second, user_out>>
    BY <1>6 DEF BodySymbol, BodyFull, BodyDone, FinishSymbol, FinishFull, FinishEob,
       Stage, PassSteps, passVars
  <2>3. QED
    BY <2>1, <2>2, PassKeepsOutput
<1>7. CASE \/ sync_flush \/ update_checksum
           \/ WriteFinalBlock \/ WritePadding \/ WriteTrailer
  <2>1. Writes
    BY <1>7, RestWrites
  <2>2. /\ pc \in PassSteps /\ pc' \in PassSteps \ {"hdrbits"}
        /\ UNCHANGED <<tmpVars, second, user_out>>
    BY <1>7 DEF sync_flush, update_checksum, WriteFinalBlock, WritePadding, WriteTrailer,
       PassSteps, passVars
  <2>3. QED
    BY <2>1, <2>2, PassKeepsOutput
<1>8. CASE EndPass
  BY <1>8 DEF EndPass, OutputType, OutputInv, tmpVars, passVars, outVars, PassSteps
<1>9. CASE SecondPass
  BY <1>9, StageOfPass DEF SecondPass, NeedsSecondPass, StartPass, Control, OutputType,
     OutputInv, TmpSize, tmpVars, PassSteps
<1>10. CASE EndSecondPass
  BY <1>10, EndSecondPassOutput
<1>11. CASE Return
  BY <1>11, OutputOutside DEF Return, outVars, OutputType
<1>12. QED
  BY <1>1, <1>2, <1>3, <1>4, <1>5, <1>6, <1>7, <1>8, <1>9, <1>10, <1>11
     DEF Next, isal_deflate
-----------------------------------------------------------------------------
(* The invariant                                                           *)

LEMMA InitIInv == Init => IInv
<1> SUFFICES ASSUME Init PROVE IInv
  OBVIOUS
<1>1. InputType /\ InputInv
  BY DeflateAssumption DEF Init, InputType, InputInv, Unsummed
<1>2. OutputType /\ OutputInv
  <2>1. /\ ~second /\ ~tmp /\ ~overrun /\ pc = "idle" /\ undelivered = 0
        /\ second \in BOOLEAN /\ tmp \in BOOLEAN /\ overrun \in BOOLEAN
    BY DEF Init
  <2>2. OutputType
    BY <2>1 DEF Init, OutputType, TmpSize
  <2>3. OutputInv
    BY <2>1, Zenon DEF OutputInv, PassSteps
  <2>4. QED
    BY <2>2, <2>3
<1>3. count \in Nat /\ WrapperInv
  BY WrapBytesType DEF Init, WrapperInv
<1>4. Flags /\ Control
  BY DEF Init, Flags, Control, PassSteps
<1>5. QED
  BY <1>1, <1>2, <1>3, <1>4, TypeParts DEF IInv

LEMMA NextIInv ==
  ASSUME IInv, [Next]_vars
  PROVE  IInv'
<1>1. InputType /\ OutputType /\ (count \in Nat) /\ Flags /\ Control
  BY TypeParts DEF IInv
<1>2. InputInv /\ WrapperInv /\ OutputInv
  BY DEF IInv
<1>3. CASE Next
  <2>1. InputType' /\ InputInv'
    BY <1>1, <1>2, <1>3, InputStep
  <2>2. OutputType' /\ OutputInv'
    BY <1>1, <1>2, <1>3, OutputStep
  <2>3. count' \in Nat /\ WrapperInv'
    BY <1>1, <1>2, <1>3, WrapperStep
  <2>4. Flags' /\ Control'
    BY <1>1, <1>3, FlagsStep, ControlStep
  <2>5. TypeOK'
    BY <2>1, <2>2, <2>3, <2>4, Zenon DEF TypeOK, InputType, OutputType, Flags, Control
  <2>6. QED
    BY <2>1, <2>2, <2>3, <2>5 DEF IInv
<1>4. CASE UNCHANGED vars
  <2>1. TypeOK'
    BY <1>4 DEF IInv, TypeOK, vars, userVars, hdrVars, tmpVars, inVars, bufVars,
       passVars, fmtVars, outVars
  <2>2. InputInv' /\ WrapperInv' /\ OutputInv'
    BY <1>2, <1>4 DEF InputInv, WrapperInv, WrapBytes, OutputInv, vars, userVars, hdrVars,
       tmpVars, inVars, bufVars, passVars, fmtVars, outVars
  <2>3. QED
    BY <2>1, <2>2 DEF IInv
<1>5. QED
  BY <1>3, <1>4

LEMMA Invariant == Spec => []IInv
BY InitIInv, NextIInv, PTL DEF Spec

(* isal_deflate keeps the type of its state, whatever calls it gets: no    *)
(* count of bytes becomes negative, in write_header least of all, where it *)
(* is unsigned; tmp_out_buff never holds more than its 16 bytes; and the   *)
(* bit buffer never keeps a whole byte.                                    *)
THEOREM DeflateTypeCorrect == Spec => []TypeOK
<1>1. IInv => TypeOK
  BY DEF IInv
<1>2. QED
  BY <1>1, Invariant, PTL

(* No store of the bit buffer, 8 bytes at a time, ever goes past the end   *)
(* of the user's output or of tmp_out_buff.                                *)
THEOREM DeflateNoOverrun == Spec => []NoOverrun
<1>1. IInv => NoOverrun
  BY Zenon DEF IInv, OutputInv, NoOverrun
<1>2. QED
  BY <1>1, Invariant, PTL

(* What isal_deflate_int produces in its second pass is delivered once and *)
(* before anything later.                                                  *)
THEOREM DeflateOutputInOrder == Spec => []OutputInOrder
<1>1. IInv => OutputInOrder
  <2>1. pc = "idle" => pc \notin PassSteps
    BY DEF PassSteps
  <2>2. QED
    BY <2>1, Zenon DEF IInv, OutputInv, OutputInOrder
<1>2. QED
  BY <1>1, Invariant, PTL
=============================================================================
