------------------------ MODULE DeflateFormatProofs ------------------------
(***************************************************************************)
(* That what isal_deflate writes at level 0 is one well-formed stream, for *)
(* any block header, any codes and any sizes of the calls, and what a call *)
(* promises of a flush and of the end, if the user lets flushes complete.  *)
(***************************************************************************)
EXTENDS DeflateStreamProofs

(* Does the trailer hold a checksum?                                       *)
checked == gzip_flag # "raw"
(* Where the output stands before a block.                                 *)
Before  == {"wrapper", "between", "aligned"}

(* Which functions of a pass run in which state, with the input in         *)
(* avail_in, and whose end has been seen.                                  *)
StageInv ==
  /\ pc = "header" => state \in {"NEW_HDR", "HDR"}
  /\ pc \in {"wrap", "hdr", "hdrbits"} => state = "HDR"
  /\ pc = "body" => state = "BODY"
  /\ pc = "finish" => state = "FLUSH_READ_BUFFER"
  /\ pc = "sync" => state = "SYNC_FLUSH"
  /\ pc \in {"final", "pad", "trailer"} => state = "TRL"
  /\ pc # "idle" => buffered = 0
  /\ state \in {"TRL", "END"} => end_of_stream /\ Unprocessed = 0

(* The checksum follows what is coded, pass by pass.                       *)
SumInv ==
  /\ checked => crc = IF pc \in Unsummed THEN start_in ELSE coded
  /\ pc = "sum" /\ state = "END" => start_in = coded

(* Between blocks the bit stream is at a byte boundary.                    *)
BitInv ==
  /\ state \in {"NEW_HDR", "HDR", "END"} => bitcount = 0
  /\ phase = "padded" \/ pc = "trailer" => bitcount = 0

(* Where the output stands, and whether the block that ends the stream has *)
(* been written, which has_eob_hdr says only from its header on.           *)
PhaseInv ==
  /\ final => end_of_stream
  /\ phase = "wrapper" <=> (WrapBytes > 0 /\ ~has_wrap_hdr)
  /\ state = "NEW_HDR" => phase \in Before /\ ~final /\ count = 0
  /\ state = "HDR" =>
       \/ phase = "wrapper" /\ ~final /\ (count > 0 => has_eob_hdr)
       \/ phase \in {"between", "aligned"} /\ ~final /\ count = 0
       \/ phase = "header" /\ count \in 1..hufftables.hdr /\ (has_eob_hdr <=> final)
  /\ pc \in {"wrap", "hdr"} /\ phase \in Before => has_eob_hdr
  /\ pc = "hdrbits" =>
       /\ count = hufftables.hdr /\ phase # "wrapper"
       /\ phase \in Before => (has_eob_hdr <=> end_of_stream)
  /\ state \in {"BODY", "FLUSH_READ_BUFFER"} =>
       phase = "block" /\ count = 0 /\ (has_eob_hdr <=> final)
  /\ state = "SYNC_FLUSH" => phase = "between" /\ ~final /\ count = 0
  /\ state = "TRL" =>
       /\ phase \in {"between", "padded"} /\ (has_eob_hdr <=> final)
       /\ phase = "padded" \/ pc \in {"pad", "trailer"} => final
  /\ state = "END" <=> phase = "done"

FInv == IInv /\ StageInv /\ SumInv /\ BitInv /\ PhaseInv

-----------------------------------------------------------------------------
(* What a flush has come to, if nothing is added while it is delivered.    *)
Whole == state = "NEW_HDR" /\ avail_in = 0 /\ flush # NO_FLUSH /\ ~end_of_stream

AskInv ==
  /\ state = "FLUSH_READ_BUFFER" => Flushing
  /\ state = "SYNC_FLUSH" => flush # NO_FLUSH /\ ~end_of_stream /\ Unprocessed = 0
  /\ state = "NEW_HDR" /\ (tmp \/ pc \in {"sum", "passed", "return"}) =>
       Whole /\ buffered = 0
  /\ pc = "idle" =>
       /\ tmp \/ state \in {"HDR", "FLUSH_READ_BUFFER", "SYNC_FLUSH", "TRL"} =>
            avail_out = 0 \/ ~Flushing
       /\ state \in {"FLUSH_READ_BUFFER", "SYNC_FLUSH", "TRL"} => avail_out = 0
       /\ state = "NEW_HDR" =>
            ~end_of_stream /\ (flush # NO_FLUSH => Unprocessed = 0)
       /\ state = "BODY" /\ avail_out # 0 => ~Flushing

(* A pass that stops with room for the bit buffer has done what was asked. *)
RoomInv ==
  /\ pc = "sum" /\ avail_out >= 8 =>
       Whole \/ (state = "BODY" /\ ~Flushing) \/ state \in {"TRL", "END"}
  /\ pc = "passed" /\ avail_out >= 8 =>
       Whole \/ (state = "BODY" /\ ~Flushing) \/ state = "END"
  /\ pc = "return" /\ avail_out # 0 =>
       /\ ~tmp
       /\ Whole \/ (state = "BODY" /\ ~Flushing) \/ state = "END"

(* After a full flush no history is left when something is coded again.    *)
SealInv ==
  /\ state = "NEW_HDR" /\ (tmp \/ pc \in {"sum", "passed", "return"}) =>
       flush # FULL_FLUSH \/ ~has_hist
  /\ sealed => state = "END" \/ (pc = "idle" /\ ~has_hist)

GInv == AskInv /\ RoomInv /\ SealInv

-----------------------------------------------------------------------------
(* Which functions run when                                                *)

(* The parts of the invariant of DeflateStreamProofs.                      *)
LEMMA Parts ==
  ASSUME IInv
  PROVE  /\ InputType /\ OutputType /\ (count \in Nat) /\ Flags /\ Control
         /\ InputInv /\ WrapperInv /\ OutputInv
BY TypeParts, Zenon DEF IInv

LEMMA StageIs ==
  /\ Stage("NEW_HDR") = "header" /\ Stage("HDR") = "header"
  /\ Stage("BODY") = "body" /\ Stage("FLUSH_READ_BUFFER") = "finish"
  /\ Stage("SYNC_FLUSH") = "sync" /\ Stage("TRL") = "sum" /\ Stage("END") = "sum"
BY DEF Stage

(* A pass starts where its state asks for it.                              *)
LEMMA PassStages ==
  ASSUME Control, StartPass
  PROVE  /\ pc' \in {"header", "body", "finish", "sync", "sum"}
         /\ start_in' = coded
         /\ pc' = "header" => state \in {"NEW_HDR", "HDR"}
         /\ pc' = "body" => state = "BODY"
         /\ pc' = "finish" => state = "FLUSH_READ_BUFFER"
         /\ pc' = "sync" => state = "SYNC_FLUSH"
         /\ pc' = "sum" => state \in {"TRL", "END"}
<1>1. state \in {"NEW_HDR", "HDR", "BODY", "FLUSH_READ_BUFFER", "SYNC_FLUSH", "TRL", "END"}
  BY DEF Control
<1>2. pc' = Stage(state) /\ start_in' = coded
  BY DEF StartPass
<1>3. QED
  BY <1>1, <1>2, StageIs

(* Nothing is left of the input at its end, and nothing comes.             *)
LEMMA CallAtEnd ==
  ASSUME InputType, Call, end_of_stream
  PROVE  /\ end_of_stream' /\ buffered' = 0 /\ avail_in' = Unprocessed
         /\ pc' = "drain" /\ given' = given
<1>1. PICK n \in 0..(MaxIn - given), f \in Flushes, eos \in BOOLEAN :
        /\ MayAsk(n, f, eos)
        /\ flush' = f /\ end_of_stream' = eos
        /\ IF BufferOnly(n, f, eos)
             THEN buffered' = Unprocessed + n /\ avail_in' = 0 /\ pc' = "idle"
             ELSE avail_in' = Unprocessed + n /\ buffered' = 0 /\ pc' = "drain"
  BY Zenon DEF Call
<1>2. n = 0 /\ eos
  BY <1>1, Zenon DEF MayAsk
<1>3. ~BufferOnly(n, f, eos)
  BY <1>2, Zenon DEF BufferOnly
<1>4. /\ end_of_stream' /\ avail_in' = Unprocessed + n /\ buffered' = 0
      /\ pc' = "drain"
  BY <1>1, <1>2, <1>3, Zenon
<1>5. coded' = coded
  BY DEF Call
<1>6. QED
  BY <1>2, <1>4, <1>5 DEF given, Unprocessed, InputType

LEMMA StageStep ==
  ASSUME IInv, StageInv, Next
  PROVE  StageInv'
<1>0. InputType /\ Control /\ Flags
  BY Parts
<1>1. CASE Call
  <2>1. state' = state /\ pc' \in {"idle", "drain"}
    BY <1>1 DEF Call
  <2>2. pc' = "drain" => buffered' = 0
    BY <1>1 DEF Call
  <2>3. state' \in {"TRL", "END"} => end_of_stream' /\ Unprocessed' = 0
    BY <1>0, <1>1, <2>1, CallAtEnd DEF StageInv, Unprocessed
  <2>4. QED
    BY <2>1, <2>2, <2>3 DEF StageInv
<1>2. CASE isal_deflate_set_hufftables
  BY <1>2 DEF isal_deflate_set_hufftables, StageInv, Unprocessed, inVars, bufVars
<1>3. CASE isal_deflate_reset
  BY <1>3 DEF isal_deflate_reset, FreshStream, StageInv
<1>4. CASE Drain \/ SecondPass
  <2>1. /\ UNCHANGED <<avail_in, buffered, end_of_stream, state>>
        /\ pc # "idle" /\ (StartPass \/ pc' = "return")
    BY <1>4 DEF Drain, SecondPass, userVars, inVars, bufVars
  <2>2. QED
    BY <1>0, <2>1, PassStages DEF StageInv, Unprocessed
<1>5. CASE EndPass \/ EndSecondPass
  BY <1>5 DEF EndPass, EndSecondPass, userVars, inVars, bufVars, StageInv, Unprocessed
<1>6. CASE Return
  BY <1>0, <1>6 DEF Return, userVars, StageInv, Unprocessed, InputType
<1>7. CASE WriteHeaderAlign \/ write_stream_header \/ WriteDeflateHeader \/ WriteHeaderBits
  BY <1>7 DEF WriteHeaderAlign, write_stream_header, WriteDeflateHeader, WriteHeaderBits,
     userVars, inVars, bufVars, StageInv, Unprocessed
<1>8. CASE BodySymbol \/ FinishSymbol
  BY <1>8 DEF BodySymbol, FinishSymbol, userVars, bufVars, StageInv
<1>9. CASE BodyFull \/ BodyDone \/ FinishFull
  BY <1>9 DEF BodyFull, BodyDone, FinishFull, userVars, inVars, bufVars, StageInv
<1>10. CASE FinishEob
  <2>1. /\ UNCHANGED <<avail_in, buffered, end_of_stream>>
        /\ avail_in = 0 /\ buffered = 0
        /\ \/ end_of_stream /\ state' = "TRL" /\ pc' = "sum"
           \/ ~end_of_stream /\ state' = "SYNC_FLUSH" /\ pc' = "sync"
    BY <1>10, StageIs DEF FinishEob, userVars, inVars, bufVars, StageInv
  <2>2. QED
    BY <2>1 DEF StageInv, Unprocessed
<1>11. CASE sync_flush \/ update_checksum
  BY <1>11 DEF sync_flush, update_checksum, userVars, inVars, bufVars, StageInv, Unprocessed
<1>12. CASE WriteFinalBlock \/ WritePadding \/ WriteTrailer
  BY <1>12 DEF WriteFinalBlock, WritePadding, WriteTrailer, userVars, inVars, bufVars,
     StageInv, Unprocessed
<1>13. QED
  BY <1>1, <1>2, <1>3, <1>4, <1>5, <1>6, <1>7, <1>8, <1>9, <1>10, <1>11, <1>12
     DEF Next, isal_deflate

(* The checksum                                                            *)

LEMMA SumStep ==
  ASSUME IInv, StageInv, SumInv, Next
  PROVE  SumInv'
<1>0. InputType /\ Control /\ InputInv
  BY Parts
<1>1. CASE Call \/ isal_deflate_set_hufftables
  BY <1>1 DEF Call, isal_deflate_set_hufftables, inVars, passVars, SumInv, checked, Unsummed
<1>2. CASE isal_deflate_reset
  BY <1>2 DEF isal_deflate_reset, FreshStream, SumInv, checked, Unsummed
<1>3. CASE Drain \/ SecondPass
  <2>1. /\ UNCHANGED <<coded, crc, gzip_flag>>
        /\ pc \notin Unsummed
        /\ StartPass \/ pc' = "return"
    BY <1>3 DEF Drain, SecondPass, userVars, inVars, Unsummed
  <2>2. start_in' = coded \/ pc' = "return"
    BY <2>1 DEF StartPass
  <2>3. checked => crc = coded
    BY <2>1, Zenon DEF SumInv
  <2>4. QED
    BY <2>1, <2>2, <2>3 DEF SumInv, checked, Unsummed
<1>4. CASE EndPass \/ EndSecondPass
  BY <1>4 DEF EndPass, EndSecondPass, userVars, inVars, passVars, SumInv, checked, Unsummed
<1>5. CASE Return
  BY <1>5 DEF Return, userVars, SumInv, checked, Unsummed
<1>6. CASE WriteHeaderAlign \/ write_stream_header \/ WriteDeflateHeader \/ WriteHeaderBits
  BY <1>6 DEF WriteHeaderAlign, write_stream_header, WriteDeflateHeader, WriteHeaderBits,
     userVars, inVars, passVars, SumInv, StageInv, checked, Unsummed
<1>7. CASE BodySymbol \/ FinishSymbol
  BY <1>7 DEF BodySymbol, FinishSymbol, userVars, passVars, SumInv, checked, Unsummed
<1>8. CASE BodyFull \/ BodyDone \/ FinishFull
  BY <1>8 DEF BodyFull, BodyDone, FinishFull, userVars, inVars, passVars, SumInv, StageInv,
     checked, Unsummed
<1>9. CASE FinishEob
  BY <1>9, StageIs DEF FinishEob, userVars, inVars, passVars, SumInv, checked, Unsummed
<1>10. CASE sync_flush
  BY <1>10 DEF sync_flush, userVars, passVars, SumInv, StageInv, checked, Unsummed
<1>11. CASE update_checksum
  <2>1. /\ UNCHANGED <<coded, gzip_flag>> /\ pc \in Unsummed /\ pc' \notin Unsummed
        /\ pc' # "sum"
    BY <1>11 DEF update_checksum, userVars, inVars, Unsummed
  <2>2. ASSUME checked
        PROVE  crc' = coded
    <3>1. crc = start_in
      BY <2>1, <2>2, Zenon DEF SumInv
    <3>2. crc' = crc + (coded - start_in)
      BY <1>11, <2>2 DEF update_checksum, checked
    <3>3. QED
      BY <1>0, <3>1, <3>2 DEF InputType
  <2>3. checked' <=> checked
    BY <2>1 DEF checked
  <2>4. QED
    BY <2>1, <2>2, <2>3, Zenon DEF SumInv
<1>12. CASE WriteFinalBlock \/ WritePadding \/ WriteTrailer
  BY <1>12 DEF WriteFinalBlock, WritePadding, WriteTrailer, userVars, inVars, passVars,
     SumInv, checked, Unsummed
<1>13. QED
  BY <1>1, <1>2, <1>3, <1>4, <1>5, <1>6, <1>7, <1>8, <1>9, <1>10, <1>11, <1>12
     DEF Next, isal_deflate

-----------------------------------------------------------------------------
(* Byte boundaries                                                         *)

(* The empty block of a flush ends on one.                                 *)
LEMMA MarkerAligns ==
  ASSUME NEW b \in 0..7
  PROVE  (b + (3 + ((8 - ((b + 3) % 8)) % 8) + 32)) % 8 = 0
<1>1. b \in {0, 1, 2, 3, 4, 5, 6, 7}
  OBVIOUS
<1>2. QED
  BY <1>1

LEMMA MarkerBits ==
  ASSUME OutputType, write_bits(3 + MarkerPad + 32)
  PROVE  bitcount' = 0
BY MarkerAligns DEF write_bits, Store, MarkerPad, OutputType

LEMMA BitStep ==
  ASSUME IInv, StageInv, BitInv, PhaseInv, Next
  PROVE  BitInv'
<1>0. OutputType /\ Control /\ Flags
  BY Parts
<1>1. CASE Call \/ isal_deflate_set_hufftables
  BY <1>1 DEF Call, isal_deflate_set_hufftables, fmtVars, outVars, BitInv
<1>2. CASE isal_deflate_reset
  BY <1>2 DEF isal_deflate_reset, FreshStream, BitInv
<1>3. CASE Drain \/ SecondPass
  <2>1. UNCHANGED <<bitcount, phase, state>> /\ (StartPass \/ pc' = "return")
    BY <1>3 DEF Drain, SecondPass, fmtVars
  <2>2. QED
    BY <1>0, <2>1, PassStages DEF BitInv
<1>4. CASE EndPass \/ EndSecondPass \/ Return
  BY <1>4 DEF EndPass, EndSecondPass, Return, fmtVars, outVars, BitInv
<1>5. CASE WriteHeaderAlign
  BY <1>5 DEF WriteHeaderAlign, outVars, BitInv, StageInv
<1>6. CASE write_stream_header \/ WriteDeflateHeader
  BY <1>6 DEF write_stream_header, WriteDeflateHeader, fmtVars, BitInv, StageInv
<1>7. CASE WriteHeaderBits
  BY <1>7 DEF WriteHeaderBits, BitInv
<1>8. CASE BodySymbol \/ FinishSymbol
  <2>1. state' \in {"BODY", "FLUSH_READ_BUFFER"} /\ phase' = "block" /\ pc' # "trailer"
    BY <1>8 DEF BodySymbol, FinishSymbol, fmtVars, StageInv, PhaseInv
  <2>2. QED
    BY <2>1 DEF BitInv
<1>9. CASE BodyFull \/ BodyDone \/ FinishFull
  BY <1>9 DEF BodyFull, BodyDone, FinishFull, fmtVars, outVars, BitInv, StageInv
<1>10. CASE FinishEob
  BY <1>10, StageIs DEF FinishEob, BitInv
<1>11. CASE sync_flush
  <2>1. pc' = "sum" /\ state = "SYNC_FLUSH"
    BY <1>11 DEF sync_flush, StageInv
  <2>2. bitcount' = 0 \/ UNCHANGED <<bitcount, phase, state>>
    BY <1>0, <1>11, MarkerBits DEF sync_flush, outVars
  <2>3. QED
    BY <2>1, <2>2 DEF BitInv
<1>12. CASE update_checksum
  BY <1>12 DEF update_checksum, fmtVars, outVars, BitInv
<1>13. CASE WriteFinalBlock
  <2>1. state' = "TRL" /\ pc' # "trailer"
    BY <1>13 DEF WriteFinalBlock, StageInv
  <2>2. phase' # "padded" \/ UNCHANGED <<bitcount, phase>>
    BY <1>13 DEF WriteFinalBlock, outVars, fmtVars
  <2>3. QED
    BY <2>1, <2>2 DEF BitInv
<1>14. CASE WritePadding \/ WriteTrailer
  BY <1>14 DEF WritePadding, WriteTrailer, flush_bitbuf, Store, outVars, BitInv, StageInv
<1>15. QED
  BY <1>1, <1>2, <1>3, <1>4, <1>5, <1>6, <1>7, <1>8, <1>9, <1>10, <1>11, <1>12, <1>13,
     <1>14 DEF Next, isal_deflate

-----------------------------------------------------------------------------
(* The blocks                                                              *)

(* With the wrapper unfinished no byte of a block's header is copied, and  *)
(* no more is than it has.                                                 *)
LEMMA HeaderCopied ==
  ASSUME OutputType, Control, count \in Nat, pc = "hdr", WrapperInv, PhaseInv, StageInv
  PROVE  /\ hufftables.hdr \in Nat /\ HeaderCopy \in 0..avail_out
         /\ phase = "wrapper" => HeaderCopy = 0 /\ avail_out = 0
         /\ phase # "wrapper" => count + HeaderCopy <= hufftables.hdr
         /\ HeaderRest = HeaderCopy \/ HeaderCopy = avail_out
<1>1. hufftables.hdr \in Nat
  BY DeflateAssumption DEF Control
<1>2. HeaderCopy \in 0..avail_out
  BY HeaderCopyType
<1>3. ASSUME phase = "wrapper"
      PROVE  HeaderCopy = 0 /\ avail_out = 0
  <2>1. avail_out = 0
    BY <1>3, Zenon DEF PhaseInv, WrapperInv
  <2>2. QED
    BY <1>2, <2>1
<1>4. ASSUME phase # "wrapper"
      PROVE  count + HeaderCopy <= hufftables.hdr
  <2>1. count \in 0..hufftables.hdr
    <3>1. state = "HDR"
      BY DEF StageInv
    <3>2. count = 0 \/ count \in 1..hufftables.hdr
      BY <1>4, <3>1, Zenon DEF PhaseInv
    <3>3. QED
      BY <1>1, <3>2
  <2>2. QED
    BY <1>1, <2>1 DEF HeaderCopy, HeaderRest, Least, OutputType
<1>5. HeaderRest = HeaderCopy \/ HeaderCopy = avail_out
  BY DEF HeaderCopy, Least
<1>6. QED
  BY <1>1, <1>2, <1>3, <1>4, <1>5

(* A step that leaves the output alone, in the same state.                 *)
LEMMA PhaseUntouched ==
  ASSUME PhaseInv, UNCHANGED <<fmtVars, hdrVars, hufftables, gzip_flag, state>>,
         end_of_stream => end_of_stream',
         pc' \notin {"wrap", "hdr", "hdrbits", "pad", "trailer"}
  PROVE  PhaseInv'
BY DEF PhaseInv, fmtVars, hdrVars, WrapBytes, Before

LEMMA PhaseStep ==
  ASSUME IInv, StageInv, BitInv, PhaseInv, Next
  PROVE  PhaseInv'
<1>0. OutputType /\ Control /\ Flags /\ InputType /\ count \in Nat /\ WrapperInv /\ OutputInv
  BY Parts
<1>1. CASE Call
  <2>1. end_of_stream => end_of_stream'
    BY <1>0, <1>1, CallAtEnd
  <2>2. QED
    BY <1>1, <2>1, PhaseUntouched DEF Call
<1>2. CASE isal_deflate_set_hufftables
  <2>1. pc = "idle" /\ state = "NEW_HDR" /\ pc' = "idle"
    BY <1>2 DEF isal_deflate_set_hufftables
  <2>2. UNCHANGED <<fmtVars, hdrVars, gzip_flag, state, end_of_stream>>
    BY <1>2 DEF isal_deflate_set_hufftables
  <2>3. QED
    BY <2>1, <2>2 DEF PhaseInv, fmtVars, hdrVars, WrapBytes, Before
<1>3. CASE isal_deflate_reset
  BY <1>3 DEF isal_deflate_reset, FreshStream, PhaseInv, WrapBytes, Before
<1>4. CASE Drain \/ SecondPass
  <2>1. UNCHANGED <<fmtVars, hdrVars, userVars, state>> /\ (StartPass \/ pc' = "return")
    BY <1>4 DEF Drain, SecondPass
  <2>2. pc' \notin {"wrap", "hdr", "hdrbits", "pad", "trailer"}
    BY <1>0, <2>1, PassStages
  <2>3. QED
    BY <2>1, <2>2, PhaseUntouched DEF userVars
<1>5. CASE EndPass \/ EndSecondPass \/ Return
  BY <1>5, PhaseUntouched DEF EndPass, EndSecondPass, Return, userVars
<1>6. CASE WriteHeaderAlign
  <2>1. /\ state' = "HDR" /\ state \in {"NEW_HDR", "HDR"} /\ pc' = "wrap"
        /\ UNCHANGED <<phase, final, count, has_wrap_hdr, userVars>>
        /\ has_eob_hdr' = (has_eob_hdr \/ count = 0)
    BY <1>6 DEF WriteHeaderAlign, StageInv, BitInv
  <2>2. WrapBytes' = WrapBytes /\ end_of_stream' = end_of_stream /\ hufftables' = hufftables
    BY <2>1 DEF WrapBytes, userVars
  <2>3. CASE count = 0
    <3>1. phase \in {"wrapper", "between", "aligned"} /\ ~final
      BY <1>0, <2>1, <2>3 DEF PhaseInv, Before
    <3>2. has_eob_hdr' = TRUE
      BY <2>1, <2>3
    <3>3. QED
      BY <2>1, <2>2, <2>3, <3>1, <3>2 DEF PhaseInv, Before
  <2>4. CASE count # 0
    <3>1. state = "HDR" /\ phase \notin {"between", "aligned"}
      BY <2>1, <2>4 DEF PhaseInv
    <3>2. has_eob_hdr' = has_eob_hdr
      BY <1>0, <2>1, <2>4 DEF Flags
    <3>3. phase = "wrapper" => has_eob_hdr
      BY <1>0, <2>4, <3>1 DEF PhaseInv
    <3>4. QED
      BY <2>1, <2>2, <3>1, <3>2, <3>3 DEF PhaseInv, Before
  <2>5. QED
    BY <2>3, <2>4
<1>7. CASE BodySymbol \/ BodyFull \/ FinishSymbol \/ FinishFull \/ update_checksum
  BY <1>7, PhaseUntouched DEF BodySymbol, BodyFull, FinishSymbol, FinishFull, update_checksum,
     userVars
<1>8. CASE BodyDone
  BY <1>8 DEF BodyDone, StageInv, PhaseInv, userVars, hdrVars, fmtVars, WrapBytes, Before
<1>9. CASE FinishEob
  <2>1. /\ UNCHANGED <<final, hdrVars, userVars>> /\ phase' = "between"
        /\ state = "FLUSH_READ_BUFFER"
        /\ \/ end_of_stream /\ state' = "TRL" /\ pc' = "sum"
           \/ ~end_of_stream /\ state' = "SYNC_FLUSH" /\ pc' = "sync"
    BY <1>9, StageIs DEF FinishEob, StageInv
  <2>2. QED
    BY <2>1 DEF PhaseInv, userVars, hdrVars, WrapBytes, Before
<1>10. CASE sync_flush
  <2>1. /\ UNCHANGED <<final, hdrVars, userVars>> /\ pc' = "sum" /\ state = "SYNC_FLUSH"
        /\ \/ state' = "NEW_HDR" /\ phase' = "aligned"
           \/ UNCHANGED <<state, phase>>
    BY <1>0, <1>10, MarkerBits DEF sync_flush, StageInv
  <2>2. QED
    BY <2>1 DEF PhaseInv, userVars, hdrVars, WrapBytes, Before
<1>11. CASE write_stream_header
  <2>1. /\ UNCHANGED <<final, has_eob_hdr, userVars, state>> /\ pc = "wrap" /\ pc' = "hdr"
        /\ state = "HDR"
    BY <1>11 DEF write_stream_header, StageInv
  <2>2. WrapBytes' = WrapBytes
    BY <2>1 DEF WrapBytes, userVars
  <2>3. CASE WrapBytes > 0 /\ ~has_wrap_hdr
    <3>1. has_wrap_hdr' \in BOOLEAN
      BY <1>11, <2>3 DEF write_stream_header
    <3>2. has_wrap_hdr' => phase' = "between" /\ count' = 0
      BY <1>11, <2>3 DEF write_stream_header
    <3>3. ~has_wrap_hdr' => phase' = phase
      BY <1>11, <2>3 DEF write_stream_header
    <3>4. phase = "wrapper" /\ ~final /\ has_eob_hdr
      BY <2>1, <2>3, Zenon DEF PhaseInv, Before
    <3>5. QED
      BY <2>1, <2>2, <2>3, <3>1, <3>2, <3>3, <3>4 DEF PhaseInv, userVars, Before
  <2>4. CASE ~(WrapBytes > 0 /\ ~has_wrap_hdr)
    <3>1. UNCHANGED <<count, has_wrap_hdr, phase>>
      BY <1>11, <2>4 DEF write_stream_header
    <3>2. QED
      BY <2>1, <2>2, <3>1 DEF PhaseInv, userVars, Before
  <2>5. QED
    BY <2>3, <2>4
<1>12. CASE WriteDeflateHeader
  <2>1. /\ UNCHANGED <<has_wrap_hdr, userVars, state>> /\ pc = "hdr" /\ state = "HDR"
        /\ count' = count + HeaderCopy
        /\ has_eob_hdr' = IF TogglesFinal THEN ~has_eob_hdr ELSE has_eob_hdr
        /\ IF FirstByte THEN phase' = "header" /\ final' = ~TogglesFinal
                        ELSE UNCHANGED <<phase, final>>
        /\ pc' \in {"hdrbits", "sum"}
        /\ pc' = "hdrbits" => HeaderRest = HeaderCopy /\ avail_out' >= 8
        /\ avail_out' = avail_out - HeaderCopy
    BY <1>12 DEF WriteDeflateHeader, StageInv, fmtVars, Copy
  <2>2. /\ hufftables.hdr \in Nat /\ HeaderCopy \in 0..avail_out
        /\ phase = "wrapper" => HeaderCopy = 0 /\ avail_out = 0
        /\ phase # "wrapper" => count + HeaderCopy <= hufftables.hdr
    BY <1>0, <2>1, HeaderCopied
  <2>3. /\ UNCHANGED <<hufftables, end_of_stream>> /\ WrapBytes' = WrapBytes
        /\ end_of_stream \in BOOLEAN /\ count \in Nat /\ avail_out \in Nat
    BY <1>0, <2>1 DEF userVars, WrapBytes, Flags, OutputType
  <2>4. CASE FirstByte
    <3>1. count = 0 /\ HeaderCopy > 0
      BY <2>4 DEF FirstByte
    <3>2. phase \in {"between", "aligned"}
      <4>1. phase # "wrapper"
        BY <2>2, <3>1
      <4>2. phase # "header"
        BY <2>1, <3>1 DEF PhaseInv
      <4>3. QED
        BY <2>1, <4>1, <4>2, Zenon DEF PhaseInv
    <3>3. has_eob_hdr
      BY <2>1, <3>2, Zenon DEF PhaseInv, Before
    <3>4. TogglesFinal <=> ~end_of_stream
      BY <2>4 DEF TogglesFinal
    <3>5. (has_eob_hdr' <=> end_of_stream) /\ (final' <=> end_of_stream) /\ phase' = "header"
      BY <2>1, <2>4, <3>3, <3>4, Zenon
    <3>6. count' \in 1..hufftables.hdr
      BY <2>1, <2>2, <3>1, <3>2
    <3>7. pc' = "hdrbits" => count' = hufftables.hdr
      BY <2>1, <2>2, <3>1 DEF HeaderRest
    <3>8. ~(WrapBytes > 0 /\ ~has_wrap_hdr)
      BY <3>2 DEF PhaseInv
    <3>9. QED
      BY <2>1, <2>3, <3>5, <3>6, <3>7, <3>8 DEF PhaseInv, Before
  <2>5. CASE ~FirstByte
    <3>1. UNCHANGED <<phase, final>>
      BY <2>1, <2>5, Zenon
    <3>2. phase = "wrapper" <=> (WrapBytes > 0 /\ ~has_wrap_hdr)
      BY DEF PhaseInv
    <3>3. CASE phase = "wrapper"
      <4>1. count' = count /\ pc' = "sum" /\ ~final
        BY <2>1, <2>2, <2>3, <3>3 DEF PhaseInv
      <4>2. count > 0 => ~TogglesFinal
        BY <2>2, <2>3, <2>5 DEF TogglesFinal, HeaderRest
      <4>3. count > 0 => has_eob_hdr'
        BY <2>1, <3>3, <4>2, Zenon DEF PhaseInv, Before
      <4>4. QED
        BY <2>1, <2>3, <3>1, <3>2, <3>3, <4>1, <4>3 DEF PhaseInv, Before
    <3>4. CASE phase \in {"between", "aligned"}
      <4>1. count = 0 /\ ~final
        BY <2>1, <3>4 DEF PhaseInv
      <4>2. count' = 0
        BY <2>1, <2>2, <2>5, <4>1 DEF FirstByte
      <4>3. has_eob_hdr
        BY <2>1, <3>4, Zenon DEF PhaseInv, Before
      <4>4. ASSUME pc' = "hdrbits"
            PROVE  hufftables.hdr = 0 /\ (has_eob_hdr' <=> end_of_stream)
        <5>1. hufftables.hdr = 0 /\ HeaderRest = 0
          BY <2>1, <2>2, <2>5, <4>1, <4>4 DEF FirstByte, HeaderRest
        <5>2. TogglesFinal <=> ~end_of_stream
          BY <5>1, Zenon DEF TogglesFinal
        <5>3. QED
          BY <2>1, <4>3, <5>1, <5>2, Zenon
      <4>5. QED
        BY <2>1, <2>3, <3>1, <3>2, <3>4, <4>1, <4>2, <4>4 DEF PhaseInv, Before
    <3>5. CASE phase = "header"
      <4>1. count \in 1..hufftables.hdr /\ (has_eob_hdr <=> final)
        BY <2>1, <3>5 DEF PhaseInv
      <4>2. ~TogglesFinal
        BY <2>2, <2>5, <4>1 DEF TogglesFinal
      <4>3. has_eob_hdr' <=> final
        BY <2>1, <4>1, <4>2, Zenon
      <4>4. count' \in 1..hufftables.hdr
        BY <2>1, <2>2, <3>5, <4>1
      <4>5. pc' = "hdrbits" => count' = hufftables.hdr
        BY <2>1, <2>2, <2>3 DEF HeaderRest
      <4>6. QED
        BY <2>1, <2>3, <3>1, <3>2, <3>5, <4>3, <4>4, <4>5 DEF PhaseInv, Before
    <3>6. phase \in {"wrapper", "between", "aligned", "header"}
      BY <2>1 DEF PhaseInv
    <3>7. QED
      BY <3>3, <3>4, <3>5, <3>6
  <2>6. QED
    BY <2>4, <2>5
<1>13. CASE WriteHeaderBits
  <2>1. /\ UNCHANGED <<has_wrap_hdr, has_eob_hdr, userVars>> /\ pc = "hdrbits" /\ state = "HDR"
        /\ state' = "BODY" /\ count' = 0 /\ phase' = "block" /\ pc' = "body"
        /\ final' = IF hufftables.hdr = 0 THEN end_of_stream ELSE final
    BY <1>13 DEF WriteHeaderBits, StageInv
  <2>2. /\ phase # "wrapper" /\ count = hufftables.hdr /\ hufftables.hdr \in Nat
        /\ phase \in Before => (has_eob_hdr <=> end_of_stream)
    BY <1>0, <2>1, DeflateAssumption DEF PhaseInv, Control
  <2>3. CASE hufftables.hdr = 0
    <3>1. phase \in {"between", "aligned"}
      BY <2>1, <2>2, <2>3 DEF PhaseInv
    <3>2. QED
      BY <1>0, <2>1, <2>2, <2>3, <3>1 DEF PhaseInv, userVars, WrapBytes, Before, Flags
  <2>4. CASE hufftables.hdr # 0
    <3>1. phase = "header" /\ (has_eob_hdr <=> final)
      BY <2>1, <2>2, <2>4 DEF PhaseInv
    <3>2. QED
      BY <1>0, <2>1, <2>2, <2>4, <3>1 DEF PhaseInv, userVars, WrapBytes, Before, Flags
  <2>5. QED
    BY <2>3, <2>4
<1>14. CASE WriteFinalBlock
  <2>1. /\ UNCHANGED <<count, has_wrap_hdr, userVars, state>> /\ pc = "final" /\ state = "TRL"
        /\ \/ has_eob_hdr /\ UNCHANGED <<final, phase, has_eob_hdr>>
           \/ ~has_eob_hdr /\ pc' = "passed" /\ UNCHANGED <<final, phase, has_eob_hdr>>
           \/ /\ ~has_eob_hdr /\ has_eob_hdr' = TRUE /\ final' = TRUE
              /\ phase' = IF final THEN "garbage" ELSE "between"
        /\ pc' \in {"pad", "passed"}
    BY <1>14 DEF WriteFinalBlock, fmtVars, StageInv
  <2>2. end_of_stream
    BY <2>1 DEF StageInv
  <2>3. QED
    BY <1>0, <2>1, <2>2 DEF PhaseInv, userVars, WrapBytes, Before, Flags
<1>15. CASE WritePadding
  <2>1. /\ UNCHANGED <<hdrVars, userVars, state, final>> /\ pc = "pad" /\ state = "TRL"
        /\ pc' \in {"trailer", "passed"}
        /\ phase' = phase \/ phase' = "padded"
    BY <1>15 DEF WritePadding, StageInv
  <2>2. QED
    BY <2>1 DEF PhaseInv, userVars, hdrVars, WrapBytes, Before
<1>16. CASE WriteTrailer
  <2>1. /\ UNCHANGED <<hdrVars, userVars, final>> /\ pc = "trailer" /\ state = "TRL"
        /\ pc' = "passed"
        /\ \/ UNCHANGED <<phase, state>>
           \/ phase' = "done" /\ state' = "END"
    BY <1>16 DEF WriteTrailer, StageInv
  <2>2. QED
    BY <2>1 DEF PhaseInv, userVars, hdrVars, WrapBytes, Before
<1>17. QED
  BY <1>1, <1>2, <1>3, <1>4, <1>5, <1>6, <1>7, <1>8, <1>9, <1>10, <1>11, <1>12, <1>13,
     <1>14, <1>15, <1>16 DEF Next, isal_deflate

LEMMA FormatInit == Init => FInv
<1> SUFFICES ASSUME Init PROVE FInv
  OBVIOUS
<1>1. IInv
  BY InitIInv
<1>2. StageInv /\ SumInv /\ BitInv
  BY DEF Init, StageInv, SumInv, BitInv, Unsummed, checked
<1>3. PhaseInv
  BY DEF Init, PhaseInv, WrapBytes, Before
<1>4. QED
  BY <1>1, <1>2, <1>3 DEF FInv

LEMMA FormatNext ==
  ASSUME FInv, [Next]_vars
  PROVE  FInv'
<1>1. IInv /\ StageInv /\ SumInv /\ BitInv /\ PhaseInv
  BY DEF FInv
<1>2. IInv'
  BY <1>1, NextIInv
<1>3. CASE Next
  BY <1>1, <1>2, <1>3, StageStep, SumStep, BitStep, PhaseStep DEF FInv
<1>4. CASE UNCHANGED vars
  <2>1. StageInv' /\ SumInv' /\ BitInv'
    BY <1>1, <1>4 DEF vars, userVars, hdrVars, tmpVars, inVars, bufVars, passVars, fmtVars,
       outVars, StageInv, SumInv, BitInv, checked, Unprocessed
  <2>2. PhaseInv'
    BY <1>1, <1>4 DEF vars, userVars, hdrVars, tmpVars, inVars, bufVars, passVars, fmtVars,
       outVars, PhaseInv, WrapBytes, Before
  <2>3. QED
    BY <1>2, <2>1, <2>2 DEF FInv
<1>5. QED
  BY <1>3, <1>4

LEMMA FormatInvariant == Spec => []FInv
BY FormatInit, FormatNext, PTL DEF Spec

-----------------------------------------------------------------------------
(* The refinement                                                          *)

(* What a step must leave alone to be none of DeflateFormat's.             *)
LEMMA Stutters ==
  ASSUME UNCHANGED <<avail_in, buffered, coded, crc, phase, final, gzip_flag>>
  PROVE  UNCHANGED Format!vars
BY DEF Format!vars, given, Unprocessed

(* The user's steps.                                                       *)
LEMMA UserFormat ==
  ASSUME FInv, Call \/ isal_deflate_set_hufftables \/ isal_deflate_reset
  PROVE  [Format!Next]_Format!vars
<1>0. InputType /\ StageInv /\ PhaseInv /\ Control /\ InputInv
  BY Parts DEF FInv
<1>1. CASE Call
  <2>1. UNCHANGED <<coded, crc, phase, final, gzip_flag>>
    BY <1>1 DEF Call, fmtVars
  <2>2. given' \in given..MaxIn
    BY <1>0, <1>1, DeflateAssumption DEF Call, given, Unprocessed, InputType, InputInv
  <2>3. CASE phase # "done"
    BY <2>1, <2>2, <2>3 DEF Format!Next, Format!Give
  <2>4. CASE phase = "done"
    <3>1. end_of_stream
      BY <1>0, <2>4 DEF StageInv, PhaseInv
    <3>2. given' = given
      BY <1>0, <1>1, <3>1, CallAtEnd
    <3>3. QED
      BY <2>1, <3>2 DEF Format!vars
  <2>5. QED
    BY <2>3, <2>4
<1>2. CASE isal_deflate_set_hufftables
  BY <1>2, Stutters DEF isal_deflate_set_hufftables, inVars, bufVars, fmtVars
<1>3. CASE isal_deflate_reset
  BY <1>3 DEF isal_deflate_reset, FreshStream, Format!Next, Format!Restart, given,
     Unprocessed
<1>4. QED
  BY <1>1, <1>2, <1>3

LEMMA HeaderFormat ==
  ASSUME FInv,
         \/ WriteHeaderAlign \/ write_stream_header
         \/ WriteDeflateHeader \/ WriteHeaderBits
  PROVE  [Format!Next]_Format!vars
<1>0. /\ StageInv /\ PhaseInv /\ BitInv /\ OutputType /\ Control /\ (count \in Nat)
      /\ WrapperInv /\ Flags
  BY Parts DEF FInv
<1>1. UNCHANGED <<avail_in, buffered, coded, crc, gzip_flag, given>>
  BY DEF WriteHeaderAlign, write_stream_header, WriteDeflateHeader, WriteHeaderBits,
     userVars, inVars, bufVars, given, Unprocessed
<1>2. CASE WriteHeaderAlign
  <2>1. UNCHANGED <<phase, final>>
    BY <1>0, <1>2 DEF WriteHeaderAlign, StageInv, BitInv
  <2>2. QED
    BY <1>1, <2>1, Stutters
<1>3. CASE write_stream_header
  <2>1. final' = final
    BY <1>3 DEF write_stream_header
  <2>2. phase' = phase \/ (phase = "wrapper" /\ phase' = "between")
    BY <1>0, <1>3 DEF write_stream_header, PhaseInv
  <2>3. QED
    BY <1>1, <2>1, <2>2, Stutters DEF Format!Next, Format!Wrapper
<1>4. CASE WriteDeflateHeader
  <2>1. CASE FirstByte
    <3>1. count = 0 /\ HeaderCopy > 0 /\ pc = "hdr"
      BY <1>4, <2>1 DEF FirstByte, WriteDeflateHeader
    <3>2. phase # "wrapper"
      BY <1>0, <3>1, HeaderCopied
    <3>3. phase \in {"between", "aligned"} /\ ~final
      BY <1>0, <3>1, <3>2 DEF StageInv, PhaseInv
    <3>4. phase' = "header" /\ final' \in BOOLEAN
      BY <1>4, <2>1 DEF WriteDeflateHeader
    <3>5. QED
      BY <1>1, <3>3, <3>4 DEF Format!Next, Format!OpenBlock, Format!Between
  <2>2. CASE ~FirstByte
    <3>1. UNCHANGED <<phase, final>>
      BY <1>4, <2>2 DEF WriteDeflateHeader, fmtVars
    <3>2. QED
      BY <1>1, <3>1, Stutters
  <2>3. QED
    BY <2>1, <2>2
<1>5. CASE WriteHeaderBits
  <2>1. /\ phase # "wrapper" /\ count = hufftables.hdr /\ state = "HDR" /\ phase' = "block"
        /\ final' = IF hufftables.hdr = 0 THEN end_of_stream ELSE final
    BY <1>0, <1>5 DEF WriteHeaderBits, StageInv, PhaseInv
  <2>2. CASE phase = "header"
    <3>1. hufftables.hdr # 0
      BY <1>0, <2>1, <2>2 DEF PhaseInv
    <3>2. QED
      BY <1>1, <2>1, <2>2, <3>1 DEF Format!Next, Format!EndHeader
  <2>3. CASE phase # "header"
    <3>1. phase \in {"between", "aligned"} /\ ~final
      BY <1>0, <2>1, <2>3 DEF PhaseInv
    <3>2. final' \in BOOLEAN
      BY <1>0, <2>1 DEF Flags
    <3>3. QED
      BY <1>1, <2>1, <3>1, <3>2 DEF Format!Next, Format!OpenBlock, Format!Between
  <2>4. QED
    BY <2>2, <2>3
<1>6. QED
  BY <1>2, <1>3, <1>4, <1>5

LEMMA BodyFormat ==
  ASSUME FInv,
         \/ BodySymbol \/ BodyFull \/ BodyDone
         \/ FinishSymbol \/ FinishFull \/ FinishEob
  PROVE  [Format!Next]_Format!vars
<1>0. StageInv /\ PhaseInv /\ InputType
  BY Parts DEF FInv
<1>1. UNCHANGED <<buffered, crc, gzip_flag, final>> /\ phase = "block"
  BY <1>0 DEF BodySymbol, BodyFull, BodyDone, FinishSymbol, FinishFull, FinishEob, userVars,
     bufVars, fmtVars, StageInv, PhaseInv
<1>2. CASE BodySymbol \/ FinishSymbol
  <2>1. avail_in > 0 /\ phase' = phase
    BY <1>0, <1>2, DeflateAssumption DEF BodySymbol, FinishSymbol, InputType, fmtVars
  <2>2. PICK symbol \in Symbols : Encode(symbol)
    BY <1>2, Zenon DEF BodySymbol, FinishSymbol
  <2>3. PICK n \in 1..avail_in : avail_in' = avail_in - n /\ coded' = coded + n
    BY <1>0, <2>1, <2>2, EncodeTakes
  <2>4. given' = given /\ coded' \in (coded + 1)..given
    BY <1>0, <1>1, <2>3 DEF given, Unprocessed, InputType
  <2>5. QED
    BY <1>1, <2>1, <2>4 DEF Format!Next, Format!Code
<1>3. CASE BodyFull \/ BodyDone \/ FinishFull
  BY <1>1, <1>3, Stutters DEF BodyFull, BodyDone, FinishFull, inVars, fmtVars
<1>4. CASE FinishEob
  <2>1. phase' = "between" /\ UNCHANGED <<avail_in, coded, given>>
    BY <1>1, <1>4 DEF FinishEob, inVars, given, Unprocessed
  <2>2. QED
    BY <1>1, <2>1 DEF Format!Next, Format!CloseBlock
<1>5. QED
  BY <1>2, <1>3, <1>4

LEMMA EndFormat ==
  ASSUME FInv,
         \/ sync_flush \/ update_checksum
         \/ WriteFinalBlock \/ WritePadding \/ WriteTrailer
  PROVE  [Format!Next]_Format!vars
<1>0. /\ StageInv /\ PhaseInv /\ BitInv /\ SumInv /\ OutputType /\ InputType /\ InputInv
      /\ Flags
  BY Parts DEF FInv
<1>1. UNCHANGED <<avail_in, buffered, coded, gzip_flag, given>>
  BY DEF sync_flush, update_checksum, WriteFinalBlock, WritePadding, WriteTrailer, userVars,
     inVars, bufVars, given, Unprocessed
<1>2. CASE sync_flush
  <2>1. phase = "between" /\ ~final /\ final' = final /\ crc' = crc
    BY <1>0, <1>2 DEF sync_flush, StageInv, PhaseInv
  <2>2. phase' = "aligned" \/ phase' = phase
    BY <1>0, <1>2, MarkerBits DEF sync_flush
  <2>3. QED
    BY <1>1, <2>1, <2>2, Stutters DEF Format!Next, Format!Marker, Format!Between
<1>3. CASE update_checksum
  <2>1. UNCHANGED <<phase, final>> /\ pc = "sum"
    BY <1>3 DEF update_checksum, fmtVars
  <2>2. CASE crc' = crc
    BY <1>1, <2>1, <2>2, Stutters
  <2>3. CASE crc' # crc
    <3>1. checked /\ crc' = crc + (coded - start_in)
      BY <1>3, <2>3 DEF update_checksum, checked
    <3>2. crc = start_in
      BY <1>0, <2>1, <3>1, Zenon DEF SumInv, Unsummed
    <3>3. crc' \in (crc + 1)..coded
      BY <1>0, <2>3, <3>1, <3>2 DEF InputType, InputInv
    <3>4. phase # "done"
      <4>1. start_in # coded
        BY <1>0, <2>3, <3>1 DEF InputType
      <4>2. QED
        BY <1>0, <2>1, <4>1 DEF SumInv, PhaseInv
    <3>5. QED
      BY <1>1, <2>1, <3>3, <3>4 DEF Format!Next, Format!Sum
  <2>4. QED
    BY <2>2, <2>3
<1>4. CASE WriteFinalBlock
  <2>1. crc' = crc /\ state = "TRL"
    BY <1>0, <1>4 DEF WriteFinalBlock, StageInv
  <2>2. CASE UNCHANGED fmtVars
    BY <1>1, <2>1, <2>2, Stutters DEF fmtVars
  <2>3. CASE ~UNCHANGED fmtVars
    <3>1. /\ ~has_eob_hdr /\ final' = TRUE
          /\ phase' = IF final THEN "garbage" ELSE "between"
      BY <1>4, <2>3 DEF WriteFinalBlock
    <3>2. ~final /\ phase = "between"
      BY <1>0, <2>1, <3>1 DEF PhaseInv
    <3>3. QED
      BY <1>1, <2>1, <3>1, <3>2 DEF Format!Next, Format!EmptyFinalBlock, Format!Between
  <2>4. QED
    BY <2>2, <2>3
<1>5. CASE WritePadding
  <2>1. crc' = crc /\ state = "TRL" /\ final /\ final' = final
    BY <1>0, <1>5 DEF WritePadding, StageInv, PhaseInv
  <2>2. CASE phase' = phase
    BY <1>1, <2>1, <2>2, Stutters
  <2>3. CASE phase' # phase
    <3>1. phase' = "padded" /\ phase = "between"
      BY <1>0, <1>5, <2>1, <2>3 DEF WritePadding, PhaseInv
    <3>2. QED
      BY <1>1, <2>1, <3>1 DEF Format!Next, Format!Pad, Format!Between
  <2>4. QED
    BY <2>2, <2>3
<1>6. CASE WriteTrailer
  <2>1. /\ crc' = crc /\ state = "TRL" /\ final /\ final' = final
        /\ phase \in {"between", "padded"} /\ pc = "trailer"
    BY <1>0, <1>6 DEF WriteTrailer, StageInv, PhaseInv
  <2>2. given = coded
    BY <1>0, <2>1 DEF StageInv, given, InputType
  <2>3. checked => crc = coded
    BY <1>0, <2>1, Zenon DEF SumInv, Unsummed
  <2>4. phase' = phase \/ phase' = "done"
    BY <1>6 DEF WriteTrailer
  <2>5. CASE phase' = phase
    BY <1>1, <2>1, <2>5, Stutters
  <2>6. CASE phase' = "done"
    BY <1>1, <2>1, <2>2, <2>3, <2>6 DEF Format!Next, Format!Trailer, Format!Between, checked
  <2>7. QED
    BY <2>4, <2>5, <2>6
<1>7. QED
  BY <1>2, <1>3, <1>4, <1>5, <1>6

LEMMA PassFormat ==
  ASSUME FInv, Drain \/ EndPass \/ SecondPass \/ EndSecondPass \/ Return
  PROVE  [Format!Next]_Format!vars
<1>0. InputType /\ StageInv
  BY Parts DEF FInv
<1>1. CASE Drain \/ EndPass \/ SecondPass \/ EndSecondPass
  BY <1>1, Stutters DEF Drain, EndPass, SecondPass, EndSecondPass, userVars, inVars, bufVars,
     fmtVars
<1>2. CASE Return
  <2>1. UNCHANGED <<coded, crc, phase, final, gzip_flag>>
    BY <1>2 DEF Return, userVars, fmtVars
  <2>2. Unprocessed' = Unprocessed
    BY <1>0, <1>2 DEF Return, Unprocessed, StageInv, InputType
  <2>3. QED
    BY <2>1, <2>2 DEF Format!vars, given
<1>3. QED
  BY <1>1, <1>2

(* The bytes isal_deflate writes at level 0 are one well-formed stream,    *)
(* whatever tables the blocks use, whatever room each call comes with and  *)
(* whatever is flushed: every step is one of DeflateFormat's or none.      *)
THEOREM DeflateRightFormat == Spec => RightFormat
<1>1. Init => Format!Init
  BY DEF Init, Format!Init, given, Unprocessed
<1>2. FInv /\ [Next]_vars => [Format!Next]_Format!vars
  <2> SUFFICES ASSUME FInv, [Next]_vars PROVE [Format!Next]_Format!vars
    OBVIOUS
  <2>1. CASE Next
    BY <2>1, UserFormat, HeaderFormat, BodyFormat, EndFormat, PassFormat, Zenon
       DEF Next, isal_deflate
  <2>2. CASE UNCHANGED vars
    BY <2>2, Stutters DEF vars, userVars, inVars, bufVars, fmtVars
  <2>3. QED
    BY <2>1, <2>2
<1>3. QED
  BY <1>1, <1>2, FormatInvariant, PTL DEF Spec, RightFormat, Format!Spec

-----------------------------------------------------------------------------
(* Flushes                                                                 *)

(* A call that leaves all input in the buffer asks for nothing.            *)
LEMMA CallBuffers ==
  ASSUME Call
  PROVE  /\ UNCHANGED <<state, tmp, has_hist>> /\ pc = "idle" /\ pc' \in {"idle", "drain"}
         /\ pc' = "idle" => flush' = NO_FLUSH /\ end_of_stream' = FALSE
<1>1. PICK n \in 0..(MaxIn - given), f \in Flushes, eos \in BOOLEAN :
        /\ flush' = f /\ end_of_stream' = eos
        /\ IF BufferOnly(n, f, eos)
             THEN buffered' = Unprocessed + n /\ avail_in' = 0 /\ pc' = "idle"
             ELSE avail_in' = Unprocessed + n /\ buffered' = 0 /\ pc' = "drain"
  BY Zenon DEF Call
<1>2. BufferOnly(n, f, eos) => f = NO_FLUSH /\ ~eos
  BY Zenon DEF BufferOnly
<1>3. UNCHANGED <<state, tmp, has_hist>> /\ pc = "idle"
  BY DEF Call, tmpVars
<1>4. CASE BufferOnly(n, f, eos)
  BY <1>1, <1>2, <1>3, <1>4
<1>5. CASE ~BufferOnly(n, f, eos)
  BY <1>1, <1>3, <1>5
<1>6. QED
  BY <1>4, <1>5

(* A user that lets a flush complete asks for the same until it is.        *)
LEMMA CallAgain ==
  ASSUME ~FeedMidFlush, InputType, Call, flush # NO_FLUSH, ~FlushComplete
  PROVE  /\ flush' = flush /\ end_of_stream' = end_of_stream
         /\ buffered' = 0 /\ avail_in' = Unprocessed /\ pc' = "drain"
<1>1. PICK n \in 0..(MaxIn - given), f \in Flushes, eos \in BOOLEAN :
        /\ MayAsk(n, f, eos)
        /\ flush' = f /\ end_of_stream' = eos
        /\ IF BufferOnly(n, f, eos)
             THEN buffered' = Unprocessed + n /\ avail_in' = 0 /\ pc' = "idle"
             ELSE avail_in' = Unprocessed + n /\ buffered' = 0 /\ pc' = "drain"
  BY Zenon DEF Call
<1>2. n = 0 /\ f = flush /\ eos = end_of_stream
  BY <1>1, Zenon DEF MayAsk
<1>3. ~BufferOnly(n, f, eos)
  BY <1>2, Zenon DEF BufferOnly
<1>4. /\ flush' = flush /\ end_of_stream' = end_of_stream
      /\ avail_in' = Unprocessed + n /\ buffered' = 0 /\ pc' = "drain"
  BY <1>1, <1>2, <1>3, Zenon
<1>5. QED
  BY <1>2, <1>4 DEF Unprocessed, InputType

(* A flush or an end that is still being written is not complete.          *)
LEMMA CallMidFlush ==
  ASSUME ~FeedMidFlush, InputType, StageInv, AskInv, Call,
         (tmp /\ state = "NEW_HDR") \/ state \in {"FLUSH_READ_BUFFER", "SYNC_FLUSH", "TRL"}
  PROVE  /\ Flushing' /\ pc' = "drain" /\ buffered' = 0 /\ avail_in' = Unprocessed
         /\ ~end_of_stream => flush' = flush /\ ~end_of_stream'
<1>1. pc = "idle"
  BY DEF Call
<1>2. CASE end_of_stream
  BY <1>2, CallAtEnd DEF Flushing
<1>3. CASE ~end_of_stream
  <2>1. state # "TRL"
    BY <1>3 DEF StageInv
  <2>2. flush # NO_FLUSH
    BY <1>3, <2>1 DEF AskInv, Flushing, Whole
  <2>3. avail_out = 0
    BY <1>1, <2>2 DEF AskInv, Flushing
  <2>4. ~FlushComplete
    BY <2>3 DEF FlushComplete
  <2>5. QED
    BY <1>3, <2>2, <2>4, CallAgain DEF Flushing
<1>4. QED
  BY <1>2, <1>3

LEMMA AskStep ==
  ASSUME ~FeedMidFlush, FInv, GInv, Next
  PROVE  AskInv'
<1>0. /\ StageInv /\ AskInv /\ RoomInv /\ OutputType /\ OutputInv /\ InputType /\ Control
      /\ Flags
  BY Parts DEF FInv, GInv
<1>1. CASE Call
  <2>1. /\ UNCHANGED <<state, tmp>> /\ pc' \in {"idle", "drain"}
        /\ pc' = "idle" => ~Flushing' /\ flush' = NO_FLUSH /\ ~end_of_stream'
    BY <1>1, CallBuffers DEF Flushing
  <2>2. CASE (tmp /\ state = "NEW_HDR") \/ state \in {"FLUSH_READ_BUFFER", "SYNC_FLUSH", "TRL"}
    <3>1. /\ Flushing' /\ pc' = "drain" /\ buffered' = 0 /\ avail_in' = Unprocessed
          /\ ~end_of_stream => flush' = flush /\ ~end_of_stream'
      BY <1>0, <1>1, <2>2, CallMidFlush
    <3>2. state = "SYNC_FLUSH" => flush' # NO_FLUSH /\ ~end_of_stream' /\ Unprocessed' = 0
      BY <1>0, <3>1 DEF AskInv, Unprocessed, InputType
    <3>3. state = "NEW_HDR" /\ tmp => flush' # NO_FLUSH /\ ~end_of_stream' /\ avail_in' = 0
      BY <1>0, <3>1 DEF AskInv, Whole, Unprocessed, InputType
    <3>4. QED
      BY <2>1, <3>1, <3>2, <3>3 DEF AskInv, Whole
  <2>3. CASE ~((tmp /\ state = "NEW_HDR") \/ state \in {"FLUSH_READ_BUFFER", "SYNC_FLUSH", "TRL"})
    BY <2>1, <2>3 DEF AskInv
  <2>4. QED
    BY <2>2, <2>3
<1>2. CASE isal_deflate_set_hufftables
  BY <1>0, <1>2 DEF isal_deflate_set_hufftables, tmpVars, inVars, bufVars, outVars, AskInv,
     Whole, Flushing, Unprocessed
<1>3. CASE isal_deflate_reset
  BY <1>3 DEF isal_deflate_reset, FreshStream, AskInv, Whole, Flushing
<1>4. CASE Drain
  <2>1. UNCHANGED <<flush, end_of_stream, state, avail_in, buffered>>
    BY <1>4 DEF Drain, userVars, inVars, bufVars
  <2>2. StartPass \/ (pc' = "return" /\ tmp)
    BY <1>4 DEF Drain
  <2>3. tmp' => tmp
    BY <1>4 DEF Drain
  <2>4. /\ pc' \notin {"idle", "passed"} /\ (pc' = "sum" => state # "NEW_HDR")
        /\ pc' = "return" => tmp
    BY <1>0, <2>2, PassStages
  <2>5. QED
    BY <1>0, <2>1, <2>3, <2>4 DEF AskInv, Whole, Flushing, Unprocessed
<1>5. CASE SecondPass
  <2>1. /\ UNCHANGED <<flush, end_of_stream, state, avail_in, buffered, tmp>> /\ StartPass
        /\ ~tmp
    BY <1>0, <1>5 DEF SecondPass, userVars, inVars, bufVars, tmpVars, OutputInv, PassSteps
  <2>2. pc' \in {"header", "body", "finish", "sync", "sum"} /\ (pc' = "sum" => state # "NEW_HDR")
    BY <1>0, <2>1, PassStages
  <2>3. QED
    BY <1>0, <2>1, <2>2 DEF AskInv, Whole, Flushing, Unprocessed
<1>6. CASE EndPass \/ EndSecondPass
  BY <1>0, <1>6 DEF EndPass, EndSecondPass, userVars, inVars, bufVars, AskInv, Whole,
     Flushing, Unprocessed
<1>7. CASE Return
  <2>1. /\ UNCHANGED <<flush, end_of_stream, state, tmp, avail_out>> /\ pc' = "idle"
        /\ pc = "return"
    BY <1>7 DEF Return, userVars, tmpVars, outVars
  <2>2. Unprocessed' = Unprocessed /\ (avail_in = 0 => buffered' = 0 /\ avail_in' = 0)
    BY <1>0, <1>7 DEF Return, Unprocessed, StageInv, InputType
  <2>3. state = "NEW_HDR" => Whole /\ buffered = 0
    BY <1>0, <2>1 DEF AskInv
  <2>4. state = "NEW_HDR" => Unprocessed = 0 /\ ~end_of_stream /\ Whole'
    BY <2>1, <2>2, <2>3 DEF Whole, Unprocessed
  <2>5. avail_out # 0 => ~tmp /\ (state = "NEW_HDR" \/ (state = "BODY" /\ ~Flushing) \/ state = "END")
    BY <1>0, <2>1 DEF RoomInv, Whole
  <2>6. state = "SYNC_FLUSH" => flush # NO_FLUSH /\ ~end_of_stream /\ Unprocessed = 0
    BY <1>0 DEF AskInv
  <2>7. state = "FLUSH_READ_BUFFER" => Flushing
    BY <1>0 DEF AskInv
  <2>8. Flushing' <=> Flushing
    BY <2>1 DEF Flushing
  <2>9. state = "NEW_HDR" => buffered' = 0
    BY <2>2, <2>3 DEF Whole
  <2>10. QED
    BY <2>1, <2>2, <2>4, <2>5, <2>6, <2>7, <2>8, <2>9 DEF AskInv
<1>8. CASE WriteHeaderAlign \/ write_stream_header \/ WriteDeflateHeader \/ WriteHeaderBits
  <2>1. state' \in {"HDR", "BODY"} /\ pc' # "idle"
    BY <1>0, <1>8 DEF WriteHeaderAlign, write_stream_header, WriteDeflateHeader,
       WriteHeaderBits, StageInv
  <2>2. QED
    BY <2>1 DEF AskInv
<1>9. CASE BodySymbol \/ BodyFull \/ BodyDone
  <2>1. /\ state' = "BODY" \/ (state' = "FLUSH_READ_BUFFER" /\ Flushing)
        /\ UNCHANGED <<flush, end_of_stream>> /\ pc' # "idle"
    BY <1>0, <1>9 DEF BodySymbol, BodyFull, BodyDone, StageInv, userVars
  <2>2. QED
    BY <2>1 DEF AskInv, Flushing
<1>10. CASE FinishSymbol \/ FinishFull
  <2>1. state' = "FLUSH_READ_BUFFER" /\ state = state' /\ UNCHANGED <<flush, end_of_stream>> /\ pc' # "idle"
    BY <1>0, <1>10 DEF FinishSymbol, FinishFull, StageInv, userVars
  <2>2. QED
    BY <1>0, <2>1 DEF AskInv, Flushing
<1>11. CASE FinishEob
  <2>1. /\ UNCHANGED <<avail_in, buffered, end_of_stream, flush>>
        /\ avail_in = 0 /\ buffered = 0 /\ Flushing
        /\ \/ end_of_stream /\ state' = "TRL" /\ pc' = "sum"
           \/ ~end_of_stream /\ state' = "SYNC_FLUSH" /\ pc' = "sync"
    BY <1>0, <1>11, StageIs DEF FinishEob, userVars, inVars, bufVars, StageInv, AskInv
  <2>2. QED
    BY <2>1 DEF AskInv, Unprocessed, Flushing
<1>12. CASE sync_flush
  <2>1. /\ UNCHANGED <<avail_in, buffered, end_of_stream, flush>> /\ pc' = "sum"
        /\ state = "SYNC_FLUSH" /\ state' \in {"NEW_HDR", "SYNC_FLUSH"}
    BY <1>0, <1>12 DEF sync_flush, userVars, bufVars, StageInv
  <2>2. flush # NO_FLUSH /\ ~end_of_stream /\ Unprocessed = 0 /\ buffered = 0
    BY <1>0, <1>12, <2>1 DEF AskInv, StageInv, sync_flush
  <2>3. avail_in = 0
    BY <1>0, <2>2 DEF Unprocessed, InputType
  <2>4. QED
    BY <2>1, <2>2, <2>3 DEF AskInv, Whole, Unprocessed
<1>13. CASE update_checksum
  BY <1>0, <1>13 DEF update_checksum, userVars, inVars, bufVars, AskInv, Whole,
     Flushing, Unprocessed
<1>14. CASE WriteFinalBlock \/ WritePadding \/ WriteTrailer
  <2>1. state' \in {"TRL", "END"} /\ pc' # "idle"
    BY <1>0, <1>14 DEF WriteFinalBlock, WritePadding, WriteTrailer, StageInv
  <2>2. QED
    BY <2>1 DEF AskInv
<1>15. QED
  BY <1>1, <1>2, <1>3, <1>4, <1>5, <1>6, <1>7, <1>8, <1>9, <1>10, <1>11, <1>12, <1>13,
     <1>14 DEF Next, isal_deflate

(* Where a pass stops, it has filled the output or done all it was asked.  *)
LEMMA RoomStep ==
  ASSUME FInv, GInv, Next
  PROVE  RoomInv'
<1>0. /\ StageInv /\ PhaseInv /\ AskInv /\ RoomInv /\ OutputType /\ OutputInv /\ Control
      /\ Flags /\ WrapperInv /\ (count \in Nat)
  BY Parts DEF FInv, GInv
<1>1. CASE Call \/ isal_deflate_set_hufftables \/ isal_deflate_reset \/ Return
  BY <1>1 DEF Call, isal_deflate_set_hufftables, isal_deflate_reset, Return, RoomInv
<1>2. CASE Drain
  <2>1. UNCHANGED state
    BY <1>2 DEF Drain
  <2>2. CASE StartPass
    BY <1>0, <2>1, <2>2, PassStages DEF RoomInv
  <2>3. CASE ~StartPass
    <3>1. tmp /\ pc' = "return"
      BY <1>2, <2>3 DEF Drain
    <3> DEFINE size == Least(tmp_out_end - tmp_out_start, avail_out)
    <3> DEFINE left == tmp_out_end - tmp_out_start - size
    <3>2. avail_out' = 0 \/ (state = "END" /\ ~tmp')
      <4>1. /\ avail_out' = avail_out - size /\ tmp' = (left > 0)
            /\ DrainReturns(avail_out - size, left)
        BY <1>2, <2>3, <3>1, Zenon DEF Drain
      <4>2. avail_out - size = 0 \/ (state = "END" /\ left = 0)
        BY <4>1, Zenon DEF DrainReturns
      <4> HIDE DEF size, left
      <4>3. avail_out - size = 0 => avail_out' = 0
        BY <4>1
      <4>4. left = 0 => ~(left > 0)
        OBVIOUS
      <4>5. ~(left > 0) => ~tmp'
        BY <4>1, Zenon
      <4>6. QED
        BY <4>2, <4>3, <4>4, <4>5, Zenon
    <3>3. QED
      BY <2>1, <3>1, <3>2 DEF RoomInv
  <2>4. QED
    BY <2>2, <2>3
<1>3. CASE SecondPass
  <2>1. StartPass /\ state' = state
    BY <1>3 DEF SecondPass
  <2>2. QED
    BY <1>0, <2>1, PassStages DEF RoomInv
<1>4. CASE EndPass
  <2>1. /\ UNCHANGED <<state, avail_in, avail_out, flush, end_of_stream, tmp>>
        /\ pc' = "return" /\ pc = "passed" /\ ~second /\ ~NeedsSecondPass
    BY <1>4 DEF EndPass, userVars, inVars, tmpVars, outVars
  <2>2. ~tmp
    BY <1>0, <2>1 DEF OutputInv, PassSteps
  <2>3. avail_out # 0 => avail_out >= 8 \/ state = "NEW_HDR"
    BY <1>0, <2>1 DEF NeedsSecondPass, OutputType
  <2>4. state = "NEW_HDR" => Whole
    BY <1>0, <2>1 DEF AskInv
  <2>5. avail_out # 0 => Whole \/ (state = "BODY" /\ ~Flushing) \/ state = "END"
    BY <1>0, <2>1, <2>3, <2>4 DEF RoomInv
  <2>6. QED
    BY <2>1, <2>2, <2>5 DEF RoomInv, Whole, Flushing
<1>5. CASE EndSecondPass
  <2> DEFINE total_out == TmpSize - avail_out
  <2> DEFINE size == Least(total_out, user_out)
  <2>1. /\ tmp' = (size # total_out) /\ avail_out' = user_out - size
        /\ UNCHANGED <<state, avail_in, flush, end_of_stream>>
        /\ pc = "passed" /\ pc' = "return"
    BY <1>5 DEF EndSecondPass, userVars, inVars
  <2>2. /\ avail_out \in Nat /\ user_out \in 0..7
        /\ total_out = 16 - avail_out /\ size = Least(total_out, user_out)
    BY <1>0 DEF OutputType, TmpSize
  <2> HIDE DEF total_out, size
  <2>3. avail_out' # 0 => size = total_out /\ avail_out >= 8
    BY <2>1, <2>2 DEF Least
  <2>4. avail_out' # 0 => Whole \/ (state = "BODY" /\ ~Flushing) \/ state = "END"
    BY <1>0, <2>1, <2>3 DEF RoomInv
  <2>5. QED
    BY <2>1, <2>3, <2>4 DEF RoomInv, Whole, Flushing
<1>6. CASE WriteHeaderAlign
  BY <1>0, <1>6 DEF WriteHeaderAlign, outVars, OutputType, RoomInv
<1>7. CASE write_stream_header \/ WriteHeaderBits
  BY <1>7 DEF write_stream_header, WriteHeaderBits, RoomInv
<1>8. CASE WriteDeflateHeader
  <2>1. /\ pc = "hdr" /\ avail_out' = avail_out - HeaderCopy
        /\ pc' = IF HeaderRest = HeaderCopy /\ avail_out' >= 8 THEN "hdrbits" ELSE "sum"
    BY <1>8 DEF WriteDeflateHeader, Copy
  <2>2. HeaderRest = HeaderCopy \/ avail_out' = 0
    BY <1>0, <2>1, HeaderCopied DEF OutputType
  <2>3. QED
    BY <2>1, <2>2 DEF RoomInv
<1>9. CASE BodySymbol \/ FinishSymbol
  BY <1>9 DEF BodySymbol, FinishSymbol, RoomInv
<1>10. CASE BodyFull \/ FinishFull
  <2>1. avail_out < 8 /\ avail_out' = avail_out /\ pc' = "sum"
    BY <1>10 DEF BodyFull, FinishFull, is_full, Slop, outVars
  <2>2. QED
    BY <1>0, <2>1 DEF RoomInv, OutputType
<1>11. CASE BodyDone
  <2>1. pc' = "sum" => state' = "BODY" /\ ~Flushing
    BY <1>11 DEF BodyDone
  <2>2. UNCHANGED <<flush, end_of_stream>> /\ pc' \notin {"passed", "return"}
    BY <1>11 DEF BodyDone, userVars
  <2>3. QED
    BY <2>1, <2>2 DEF RoomInv, Flushing
<1>12. CASE FinishEob
  BY <1>12, StageIs DEF FinishEob, RoomInv
<1>13. CASE sync_flush
  <2>1. state = "SYNC_FLUSH" /\ pc' = "sum" /\ UNCHANGED <<avail_in, flush, end_of_stream>>
    BY <1>0, <1>13 DEF sync_flush, StageInv, userVars
  <2>2. \/ state' = "NEW_HDR"
        \/ ~(avail_out >= 8) /\ avail_out' = avail_out
    BY <1>13 DEF sync_flush, outVars
  <2>3. flush # NO_FLUSH /\ ~end_of_stream /\ Unprocessed = 0
    BY <1>0, <2>1 DEF AskInv
  <2>4. avail_in = 0
    <3>1. avail_in \in 0..MaxIn /\ buffered \in 0..MaxIn
      BY Parts DEF FInv, InputType
    <3>2. QED
      BY <2>3, <3>1, DeflateAssumption DEF Unprocessed
  <2>5. QED
    BY <2>1, <2>2, <2>3, <2>4 DEF RoomInv, Whole
<1>14. CASE update_checksum
  <2>1. /\ UNCHANGED <<state, avail_in, avail_out, flush, end_of_stream>> /\ pc = "sum"
        /\ pc' = IF state = "TRL" THEN "final" ELSE "passed"
    BY <1>14 DEF update_checksum, userVars, inVars, outVars
  <2>2. QED
    BY <1>0, <2>1 DEF RoomInv, Whole, Flushing
<1>15. CASE WriteFinalBlock
  <2>1. pc' = "passed" => avail_out' < 8
    BY <1>15 DEF WriteFinalBlock, Slop, outVars
  <2>2. pc' \in {"pad", "passed"}
    BY <1>15 DEF WriteFinalBlock
  <2>3. avail_out' \in Nat
    BY <1>0, <1>15, RestWrites DEF Writes, OutputType
  <2>4. QED
    BY <2>1, <2>2, <2>3 DEF RoomInv
<1>16. CASE WritePadding
  <2>1. pc' = "passed" => avail_out' < 8
    BY <1>16 DEF WritePadding, outVars
  <2>2. pc' \in {"trailer", "passed"}
    BY <1>16 DEF WritePadding
  <2>3. avail_out' \in Nat
    BY <1>0, <1>16, RestWrites DEF Writes, OutputType
  <2>4. QED
    BY <2>1, <2>2, <2>3 DEF RoomInv
<1>17. CASE WriteTrailer
  <2>1. TrailerBytes \in {0, 4, 8} /\ pc' = "passed"
    BY <1>17 DEF TrailerBytes, WriteTrailer
  <2>2. state' = "END" \/ (~(avail_out >= TrailerBytes) /\ avail_out' = avail_out)
    BY <1>17 DEF WriteTrailer
  <2>3. state' = "END" \/ ~(avail_out' >= 8)
    BY <1>0, <2>1, <2>2 DEF OutputType
  <2>4. QED
    BY <2>1, <2>3 DEF RoomInv
<1>18. QED
  BY <1>1, <1>2, <1>3, <1>4, <1>5, <1>6, <1>7, <1>8, <1>9, <1>10, <1>11, <1>12, <1>13,
     <1>14, <1>15, <1>16, <1>17 DEF Next, isal_deflate

(* The history a full flush forgets stays forgotten until it is complete.  *)
LEMMA SealStep ==
  ASSUME ~FeedMidFlush, FInv, GInv, Next
  PROVE  SealInv'
<1>0. /\ StageInv /\ AskInv /\ RoomInv /\ SealInv /\ OutputType /\ OutputInv /\ InputType
      /\ Control /\ Flags
  BY Parts DEF FInv, GInv
<1>1. CASE Call
  <2>1. /\ UNCHANGED <<state, tmp, has_hist>> /\ pc = "idle" /\ pc' \in {"idle", "drain"}
    BY <1>1, CallBuffers
  <2>2. ASSUME state = "NEW_HDR", tmp
        PROVE  flush' # FULL_FLUSH \/ ~has_hist
    <3>1. ~end_of_stream
      BY <1>0, <2>2 DEF AskInv, Whole
    <3>2. flush' = flush
      BY <1>0, <1>1, <2>2, <3>1, CallMidFlush
    <3>3. QED
      BY <1>0, <2>2, <3>2 DEF SealInv
  <2>3. sealed' = (sealed /\ has_hist)
    BY <1>1 DEF Call, reset_match_history
  <2>4. sealed' => state = "END"
    BY <1>0, <2>1, <2>3, Zenon DEF SealInv
  <2>5. QED
    BY <2>1, <2>2, <2>4 DEF SealInv
<1>2. CASE isal_deflate_set_hufftables
  BY <1>0, <1>2 DEF isal_deflate_set_hufftables, tmpVars, inVars, bufVars, SealInv
<1>3. CASE isal_deflate_reset
  BY <1>3 DEF isal_deflate_reset, FreshStream, SealInv
<1>4. CASE Drain \/ SecondPass \/ EndPass \/ EndSecondPass
  <2>1. /\ UNCHANGED <<flush, state, has_hist, sealed>> /\ pc # "idle" /\ pc' # "idle"
    BY <1>0, <1>4, PassStages DEF Drain, SecondPass, EndPass, EndSecondPass, userVars, inVars,
       bufVars
  <2>2. tmp' \/ pc' \in {"sum", "passed", "return"} =>
          state # "NEW_HDR" \/ tmp \/ pc = "passed"
    <3>1. CASE Drain
      <4>1. StartPass \/ (pc' = "return" /\ tmp)
        BY <3>1 DEF Drain
      <4>2. tmp' => tmp
        BY <3>1 DEF Drain
      <4>3. QED
        BY <1>0, <4>1, <4>2, PassStages
    <3>2. CASE SecondPass \/ EndPass \/ EndSecondPass
      BY <3>2 DEF SecondPass, EndPass, EndSecondPass
    <3>3. QED
      BY <1>4, <3>1, <3>2
  <2>3. QED
    BY <1>0, <2>1, <2>2 DEF SealInv
<1>5. CASE Return
  <2>1. /\ UNCHANGED <<flush, state, has_hist, tmp>> /\ pc = "return" /\ pc' = "idle"
        /\ sealed' = (sealed \/ (flush = FULL_FLUSH /\ FlushComplete))
    BY <1>5 DEF Return, userVars, tmpVars
  <2>2. sealed => state = "END"
    BY <1>0, <2>1, Zenon DEF SealInv
  <2>3. ASSUME flush = FULL_FLUSH, FlushComplete
        PROVE  state = "END" \/ ~has_hist
    <3>1. Flushing
      BY <2>3 DEF Flushing, FULL_FLUSH, NO_FLUSH
    <3>2. state = "NEW_HDR" \/ state = "END"
      BY <1>0, <2>1, <2>3, <3>1 DEF RoomInv, FlushComplete, Whole
    <3>3. QED
      BY <1>0, <2>1, <2>3, <3>2 DEF SealInv
  <2>4. sealed' => state = "END" \/ ~has_hist
    BY <2>1, <2>2, <2>3, Zenon
  <2>5. state = "NEW_HDR" => flush # FULL_FLUSH \/ ~has_hist
    BY <1>0, <2>1 DEF SealInv
  <2>6. QED
    BY <2>1, <2>4, <2>5 DEF SealInv
<1>6. CASE \/ WriteHeaderAlign \/ write_stream_header
           \/ WriteDeflateHeader \/ WriteHeaderBits
           \/ BodySymbol \/ BodyFull \/ BodyDone
           \/ FinishSymbol \/ FinishFull \/ FinishEob
  <2>1. /\ sealed' = sealed /\ pc # "idle"
        /\ state \in {"NEW_HDR", "HDR", "BODY", "FLUSH_READ_BUFFER"}
        /\ state' # "NEW_HDR"
    BY <1>0, <1>6 DEF WriteHeaderAlign, write_stream_header, WriteDeflateHeader,
       WriteHeaderBits, BodySymbol, BodyFull, BodyDone, FinishSymbol, FinishFull, FinishEob,
       bufVars, StageInv
  <2>2. ~sealed
    BY <1>0, <2>1 DEF SealInv
  <2>3. QED
    BY <2>1, <2>2 DEF SealInv
<1>7. CASE sync_flush
  <2>1. /\ sealed' = sealed /\ pc # "idle" /\ state = "SYNC_FLUSH" /\ flush' = flush
        /\ state' = "NEW_HDR" => has_hist' = KeepsHistory
    BY <1>0, <1>7 DEF sync_flush, userVars, bufVars, StageInv
  <2>2. ~sealed
    BY <1>0, <2>1 DEF SealInv
  <2>3. flush = FULL_FLUSH => KeepsHistory = FALSE
    BY DEF KeepsHistory
  <2>4. QED
    BY <2>1, <2>2, <2>3 DEF SealInv
<1>8. CASE update_checksum
  BY <1>0, <1>8 DEF update_checksum, userVars, tmpVars, inVars, bufVars, SealInv
<1>9. CASE WriteFinalBlock \/ WritePadding \/ WriteTrailer
  <2>1. sealed' = sealed /\ pc # "idle" /\ state = "TRL" /\ state' # "NEW_HDR"
    BY <1>0, <1>9 DEF WriteFinalBlock, WritePadding, WriteTrailer, bufVars, StageInv
  <2>2. ~sealed
    BY <1>0, <2>1 DEF SealInv
  <2>3. QED
    BY <2>1, <2>2 DEF SealInv
<1>10. QED
  BY <1>1, <1>2, <1>3, <1>4, <1>5, <1>6, <1>7, <1>8, <1>9 DEF Next, isal_deflate

LEMMA FlushInvariant ==
  ASSUME ~FeedMidFlush
  PROVE  Spec => [](FInv /\ GInv)
<1>1. Init => FInv
  BY FormatInit
<1>2. Init => GInv
  BY DEF Init, GInv, AskInv, RoomInv, SealInv, Unprocessed
<1>3. (FInv /\ GInv) /\ [Next]_vars => (FInv /\ GInv)'
  <2> SUFFICES ASSUME FInv, GInv, [Next]_vars PROVE FInv' /\ GInv'
    OBVIOUS
  <2>1. FInv'
    BY FormatNext
  <2>2. CASE Next
    <3>1. AskInv' /\ RoomInv' /\ SealInv'
      BY <2>2, AskStep, RoomStep, SealStep
    <3>2. QED
      BY <2>1, <3>1 DEF GInv
  <2>3. CASE UNCHANGED vars
    <3>1. AskInv'
      BY <2>3 DEF vars, userVars, tmpVars, inVars, bufVars, outVars, GInv, AskInv, Whole,
         Flushing, Unprocessed
    <3>2. RoomInv'
      BY <2>3 DEF vars, userVars, tmpVars, inVars, outVars, GInv, RoomInv, Whole, Flushing
    <3>3. SealInv'
      BY <2>3 DEF vars, userVars, tmpVars, inVars, bufVars, GInv, SealInv
    <3>4. QED
      BY <2>1, <3>1, <3>2, <3>3 DEF GInv
  <2>4. QED
    BY <2>1, <2>2, <2>3
<1>4. QED
  BY <1>1, <1>2, <1>3, PTL DEF Spec

(* When a call has returned with a flush complete, in the sense of         *)
(* igzip_lib.h, nothing that was given is left uncoded or undelivered; and *)
(* with the end announced and room left the stream has ended.  The user    *)
(* lets a flush complete before it gives or asks for more: a user that     *)
(* does not is no part of this promise.                                    *)
THEOREM FlushIsComplete ==
  ASSUME ~FeedMidFlush
  PROVE  Spec => []FlushGuarantee
<1>1. FInv /\ GInv => FlushGuarantee
  <2> SUFFICES ASSUME FInv, GInv, Returned PROVE FlushGuarantee
    BY DEF FlushGuarantee
  <2>1. /\ StageInv /\ BitInv /\ AskInv /\ OutputInv /\ Control
    BY Parts DEF FInv, GInv
  <2>2. pc = "idle" /\ FlushComplete
    BY DEF Returned
  <2>3. ASSUME Flushing
        PROVE  ~tmp /\ (state = "NEW_HDR" \/ state = "END")
    BY <2>1, <2>2, <2>3 DEF AskInv, FlushComplete, Control
  <2>4. ~tmp => undelivered = 0
    BY <2>1, <2>2 DEF OutputInv, PassSteps
  <2>5. ASSUME flush # NO_FLUSH
        PROVE  Unprocessed = 0 /\ undelivered = 0 /\ bitcount = 0
    BY <2>1, <2>2, <2>3, <2>4, <2>5 DEF Flushing, AskInv, StageInv, BitInv
  <2>6. ASSUME end_of_stream, avail_out # 0
        PROVE  Ended
    BY <2>1, <2>2, <2>3, <2>6 DEF Flushing, AskInv, Ended
  <2>7. QED
    BY <2>5, <2>6 DEF FlushGuarantee
<1>2. QED
  BY <1>1, FlushInvariant, PTL

(* No match reaches behind a complete full flush: when it is complete, or  *)
(* before anything is coded after it, the match history has been dropped.  *)
THEOREM FullFlushForgets ==
  ASSUME ~FeedMidFlush
  PROVE  Spec => FullFlushIndependent
<1>1. FInv /\ GInv /\ [Next]_vars => [coded' > coded => ~sealed]_vars
  <2> SUFFICES ASSUME FInv, GInv, Next, coded' > coded PROVE ~sealed
    OBVIOUS
  <2>1. StageInv /\ SealInv /\ InputType
    BY Parts DEF FInv, GInv
  <2>2. BodySymbol \/ FinishSymbol
    <3>1. coded' # coded /\ coded' # 0
      BY <2>1 DEF InputType
    <3>2. QED
      BY <3>1 DEF Next, isal_deflate, Call, isal_deflate_set_hufftables, isal_deflate_reset,
         FreshStream, Drain, WriteHeaderAlign, write_stream_header, WriteDeflateHeader,
         WriteHeaderBits, BodyFull, BodyDone, FinishFull, FinishEob, sync_flush,
         update_checksum, WriteFinalBlock, WritePadding, WriteTrailer, EndPass, SecondPass,
         EndSecondPass, Return, inVars
  <2>3. QED
    BY <2>1, <2>2 DEF BodySymbol, FinishSymbol, StageInv, SealInv
<1>2. QED
  BY <1>1, FlushInvariant, PTL DEF Spec, FullFlushIndependent
=============================================================================
