----------------------------- MODULE GzipHeader -----------------------------
(* The headers of the gzip and zlib formats: isal_write_gzip_header and    *)
(* isal_write_zlib_header put one in front of the compressed data, and     *)
(* isal_read_gzip_header and isal_read_zlib_header take it off again, from *)
(* input that may be cut at any byte. A reader that runs out of input, or  *)
(* of room for a field, returns, and goes on where it stopped when it is   *)
(* called again.                                                           *)
(*                                                                         *)
(* A byte is its place in a field, <<field, i>>; what the bytes of a field *)
(* say is looked up in the header that was written. A CRC is the sequence  *)
(* of bytes it has been given.                                             *)
EXTENDS Integers, Sequences

CONSTANTS
  Headers,      (* the struct isal_gzip_header and isal_zlib_header given to
                   the writer: see Header                                  *)
  HdrBase,      (* GZIP_HDR_BASE, ZLIB_HDR_BASE                            *)
  MaxExtra,     (* UINT16_MAX: what two bytes of length can say            *)
  Rooms,        (* sizes of the writer's output buffer                     *)
  Chunks,       (* how many bytes a call of the reader may bring           *)
  BufLens,      (* sizes of the reader's buffers, Null for no buffer       *)
  DataLen,      (* bytes of compressed data behind the header              *)
  FreshHdr      (* the reader is isal_inflate, which has a new
                   isal_gzip_header in every call                          *)

Null == -1      (* no field, no buffer                                     *)

(* What the user asks the writer for, in a struct isal_gzip_header or an    *)
(* isal_zlib_header; intact: the header's checksum matches its bytes;      *)
(* ended: the strings with a NUL in their buffers, name_buf_len and        *)
(* comment_buf_len bytes long.                                             *)
GzipHdr == [format : {"gzip"}, extra : {Null} \cup Nat, name : {Null} \cup Nat,
            comment : {Null} \cup Nat, hcrc : BOOLEAN, dict : {FALSE}, intact : BOOLEAN,
            ended : {{"name", "comment"}}]
OpenHdr == [format : {"gzip"}, extra : {Null} \cup Nat, name : {Null} \cup Nat,
            comment : {Null} \cup Nat, hcrc : BOOLEAN, dict : {FALSE}, intact : BOOLEAN,
            ended : {{}, {"name"}, {"comment"}}]
ZlibHdr == [format : {"zlib"}, extra : {Null}, name : {Null}, comment : {Null},
            hcrc : {FALSE}, dict : BOOLEAN, intact : BOOLEAN, ended : {{"name", "comment"}}]
Header == GzipHdr \cup OpenHdr \cup ZlibHdr

ASSUME HeaderAssumption ==
  /\ Headers \subseteq Header
  /\ HdrBase \in Nat \ {0} /\ MaxExtra \in Nat /\ DataLen \in Nat
  /\ Rooms \subseteq Nat /\ Chunks \subseteq Nat /\ BufLens \subseteq {Null} \cup Nat
  /\ FreshHdr \in BOOLEAN

VARIABLES
  h,            (* the header asked for                                    *)
  file,         (* what has been written                                   *)
  wret,         (* what the writer returned: 0, or the size it needs       *)
  next_in, avail_in, block_state, tmp_in_buffer, count, wrapper_flag,
                (* of struct inflate_state                                 *)
  gz_hdr,       (* struct isal_gzip_header, or isal_zlib_header, of the
                   reader: what it has been told, and its buffers          *)
  ret           (* what the reader returned                                *)

vars == <<h, file, wret, next_in, avail_in, block_state, tmp_in_buffer, count,
          wrapper_flag, gz_hdr, ret>>

-----------------------------------------------------------------------------
(* The writers.                                                            *)

Field(f, n)  == [i \in 1..n |-> <<f, i>>]
NUL          == <<"nul", 1>>

(* A string that fills its buffer is written without a NUL.                *)
String(f, n) == IF n = Null THEN <<>>
                ELSE IF f \in h.ended THEN Append(Field(f, n), NUL) ELSE Field(f, n)

GZIP_EXTRA_LEN == 2
GZIP_HCRC_LEN  == 2
ZLIB_DICT_LEN  == 4
UINT32_MAX     == -1

HasExtra == h.extra # Null

(* Everything in front of the header's checksum.                           *)
HeaderBody ==
  Field("base", HdrBase)
  \o (IF HasExtra THEN Field("extra_len", GZIP_EXTRA_LEN) \o Field("extra", h.extra) ELSE <<>>)
  \o String("name", h.name) \o String("comment", h.comment)

GzipBytes == HeaderBody \o (IF h.hcrc THEN Field("hcrc", GZIP_HCRC_LEN) ELSE <<>>)
ZlibBytes == Field("base", HdrBase) \o (IF h.dict THEN Field("dict_id", ZLIB_DICT_LEN) ELSE <<>>)

(* hdr_size, as the writers add it up.                                     *)
SizeOf(f, n) == IF f = Null THEN 0 ELSE f + n
NulLen(f)    == IF f \in h.ended THEN 1 ELSE 0

HdrSize ==
  HdrBase + SizeOf(h.extra, GZIP_EXTRA_LEN)
  + SizeOf(h.name, NulLen("name")) + SizeOf(h.comment, NulLen("comment"))
  + (IF h.hcrc THEN GZIP_HCRC_LEN ELSE 0) + (IF h.dict THEN ZLIB_DICT_LEN ELSE 0)

isal_write_gzip_header(avail_out) ==
  /\ h.format = "gzip"
  /\ \/ /\ HasExtra /\ h.extra > MaxExtra
        /\ wret' = UINT32_MAX /\ UNCHANGED file
     \/ /\ ~ (HasExtra /\ h.extra > MaxExtra) /\ avail_out < HdrSize
        /\ wret' = HdrSize /\ UNCHANGED file
     \/ /\ ~ (HasExtra /\ h.extra > MaxExtra) /\ avail_out >= HdrSize
        /\ wret' = 0 /\ file' = GzipBytes

isal_write_zlib_header(avail_out) ==
  /\ h.format = "zlib"
  /\ \/ avail_out <  HdrSize /\ wret' = HdrSize /\ UNCHANGED file
     \/ avail_out >= HdrSize /\ wret' = 0 /\ file' = ZlibBytes

-----------------------------------------------------------------------------
(* The readers. A record s is the state in the course of a call.           *)

Flags == (IF HasExtra THEN {"extra"} ELSE {}) \cup (IF h.name # Null THEN {"name"} ELSE {})
         \cup (IF h.comment # Null THEN {"comment"} ELSE {})
         \cup (IF h.hcrc THEN {"hcrc"} ELSE {})
         \cup (IF h.dict THEN {"dict"} ELSE {})

(* -1, that is, every bit.                                                 *)
UNDEFINED_FLAG == {"extra", "name", "comment", "hcrc", "dict"}

(* isal_gzip_header_init and isal_zlib_header_init, with the buffers of    *)
(* the lengths that the user then gives it.                                *)
EmptyHdr(lens) ==
  [flags |-> {}, hcrc |-> <<>>, extra_len |-> 0, dict_id |-> FALSE,
   buf |-> [f \in {"extra", "name", "comment"} |-> <<>>], len |-> lens]

NoBuffers == [f \in {"extra", "name", "comment"} |-> Null]

Bytes(s, n) == SubSeq(file, s.next + 1, s.next + n)
Skip(s, n)  == [s EXCEPT !.next = @ + n, !.avail = @ - n]

(* Fields of a fixed size may be cut too: tmp_in_buffer collects them.     *)
TooShort(s, n) == s.avail + Len(s.tmp) < n

fixed_size_read(s, read_size) ==
  IF TooShort(s, read_size)
  THEN [Skip(s, s.avail) EXCEPT !.tmp = @ \o Bytes(s, s.avail), !.ret = "end_input"]
  ELSE [Skip(s, read_size - Len(s.tmp)) EXCEPT
          !.tmp = <<>>, !.buf = s.tmp \o Bytes(s, read_size - Len(s.tmp))]

(* A field whose length is known goes into a buffer of the user's, if it   *)
(* has one.                                                                *)
Capacity_Mut(s, f) == IF s.hdr.len[f] = Null THEN Null ELSE s.hdr.len[f] + 1
Capacity(s, f) == s.hdr.len[f]
Store(s, f, n) == IF Capacity(s, f) = Null THEN s
                  ELSE [s EXCEPT !.hdr.buf[f] = @ \o Bytes(s, n)]

Lesser(a, b) == IF a < b THEN a ELSE b

buffer_header_copy(s, in_len, f, offset) ==
  LET len     == Lesser(in_len, s.avail)
      buf_len == Capacity(s, f) - offset
  IN  IF Capacity(s, f) # Null /\ buf_len < len
      THEN [Skip(Store(s, f, buf_len), buf_len) EXCEPT
              !.count = in_len - buf_len, !.ret = "overflow"]
      ELSE [Skip(Store(s, f, len), len) EXCEPT
              !.count = in_len - len, !.ret = IF len = in_len THEN "ok" ELSE "end_input"]

(* strnlen: up to the first NUL, or all of max_len.                        *)
strnlen(s, max_len) ==
  CHOOSE n \in 0..max_len :
    /\ \A i \in 1..n : Bytes(s, max_len)[i] # NUL
    /\ n < max_len => Bytes(s, max_len)[n + 1] = NUL

string_header_copy(s, f) ==
  LET offset  == s.count
      left    == Capacity(s, f) - offset
      max_len == IF Capacity(s, f) = Null \/ left > s.avail THEN s.avail ELSE left
      len     == strnlen(s, max_len)
      t       == [Skip(Store(s, f, len), len) EXCEPT !.count = @ + len]
  IN  IF Capacity(s, f) # Null /\ len = left THEN [t EXCEPT !.ret = "overflow"]
      ELSE IF t.avail = 0 THEN [t EXCEPT !.ret = "end_input"]
      ELSE [Skip(t, 1) EXCEPT !.count = 0]

(* The jump table: a call enters the code at block_state, and takes each   *)
(* later stage whose flag is set; the extra field follows its length       *)
(* whatever the flag. A stage that cannot finish leaves its name in        *)
(* block_state.                                                            *)
Stages == <<"new_hdr", "extra_len", "extra", "name", "comment", "hcrc">>
Place(b) == CHOOSE i \in 1..Len(Stages) : Stages[i] = b

FlagOf(b) == IF b \in {"extra_len", "extra"} THEN "extra" ELSE b

Takes(s, b) == /\ s.ret = "ok"
               /\ \/ b = s.entry
                  \/ s.entry = "extra_len" /\ b = "extra"
                  \/ Place(b) > Place(s.entry) /\ FlagOf(b) \in s.flags

Stage_Mut(s, b, t) == IF Takes(s, b) THEN t ELSE s
Stage(s, b, t) == IF ~ Takes(s, b) THEN s
                  ELSE IF t.ret = "ok" THEN t ELSE [t EXCEPT !.bs = b]

ReadBase(s) ==
  LET t == fixed_size_read([s EXCEPT !.count = 0, !.flags = UNDEFINED_FLAG,
                                     !.hdr.hcrc = IF s.tmp = <<>> THEN <<>> ELSE @], HdrBase)
  IN  Stage(s, "new_hdr",
        IF t.ret # "ok" THEN t
        ELSE [t EXCEPT !.flags = Flags, !.hdr.flags = Flags,
                       !.hdr.extra_len = IF "extra" \in Flags THEN @ ELSE 0])

ReadExtraLen(s) ==
  LET t == fixed_size_read(s, GZIP_EXTRA_LEN)
  IN  Stage(s, "extra_len",
        IF t.ret # "ok" THEN t ELSE [t EXCEPT !.xcount = h.extra, !.hdr.extra_len = h.extra])

ReadExtra(s) ==
  Stage(s, "extra", buffer_header_copy(s, s.xcount, "extra", s.hdr.extra_len - s.xcount))

ReadName(s)    == Stage(s, "name", string_header_copy(s, "name"))
ReadComment(s) == Stage(s, "comment", string_header_copy(s, "comment"))

(* The CRC goes on over what this call has taken, unless it was entered    *)
(* at the checksum itself.                                                 *)
Summed_Mut(s) == IF "hcrc" \in s.hdr.flags
                 THEN [s EXCEPT !.hdr.hcrc = @ \o SubSeq(file, s.start + 1, s.next)] ELSE s
Summed(s) == IF "hcrc" \in s.flags
             THEN [s EXCEPT !.hdr.hcrc = @ \o SubSeq(file, s.start + 1, s.next)] ELSE s

Matches(s) == h.intact /\ s.hdr.hcrc = HeaderBody

ReadHcrc(s) ==
  LET t == IF s.entry = "hcrc" THEN s ELSE Summed(s)
      u == fixed_size_read(t, GZIP_HCRC_LEN)
  IN  IF ~ Takes(s, "hcrc") THEN (IF s.ret = "ok" THEN s ELSE Summed(s))
      ELSE IF u.ret # "ok" THEN [u EXCEPT !.bs = "hcrc"]
      ELSE IF Matches(u) THEN u ELSE [u EXCEPT !.ret = "incorrect_checksum"]

Done(s) == IF s.ret = "ok" THEN [s EXCEPT !.bs = "new_hdr", !.wrapper = TRUE] ELSE s


ReadZlibBase(s) ==
  LET t == fixed_size_read([s EXCEPT !.hdr.flags = {}], HdrBase)
  IN  IF s.entry # "new_hdr" THEN s
      ELSE IF t.ret # "ok" THEN t
      ELSE IF ~ h.intact THEN [t EXCEPT !.ret = "incorrect_checksum", !.hdr.flags = Flags]
      ELSE [t EXCEPT !.flags = Flags, !.hdr.flags = Flags]

ReadDict(s) ==
  LET t == fixed_size_read(s, ZLIB_DICT_LEN)
  IN  IF s.ret # "ok" \/ ~ (s.entry = "dict_id" \/ "dict" \in s.flags) THEN s
      ELSE IF t.ret # "ok" THEN [t EXCEPT !.bs = "dict_id"]
      ELSE [t EXCEPT !.hdr.dict_id = TRUE]


Entered(n) ==
  [entry |-> block_state, start |-> next_in, next |-> next_in, avail |-> n,
   bs |-> block_state, tmp |-> tmp_in_buffer, count |-> count, xcount |-> count,
   hdr |-> IF FreshHdr THEN EmptyHdr(NoBuffers) ELSE gz_hdr,
   flags |-> IF FreshHdr THEN {} ELSE gz_hdr.flags,
   wrapper |-> FALSE, buf |-> <<>>, ret |-> "ok"]

Leave(s) ==
  /\ next_in' = s.next /\ avail_in' = s.avail /\ block_state' = s.bs
  /\ tmp_in_buffer' = s.tmp /\ count' = s.count /\ wrapper_flag' = s.wrapper
  /\ gz_hdr' = s.hdr /\ ret' = s.ret

isal_read_gzip_header(n) ==
  /\ h.format = "gzip"
  /\ \E base \in {ReadBase(Entered(n))} : \E extra_len \in {ReadExtraLen(base)} :
     \E extra \in {ReadExtra(extra_len)} : \E name \in {ReadName(extra)} :
     \E comment \in {ReadComment(name)} : Leave(Done(ReadHcrc(comment)))

isal_read_zlib_header(n) ==
  /\ h.format = "zlib"
  /\ \E base \in {ReadZlibBase(Entered(n))} : Leave(Done(ReadDict(base)))

-----------------------------------------------------------------------------
(* The user: writes until there is room enough, then reads, bringing some  *)
(* bytes in each call, or a larger buffer if one was too small.            *)

Init ==
  /\ h \in Headers
  /\ file = <<>> /\ wret = UINT32_MAX
  /\ next_in = 0 /\ avail_in = 0 /\ block_state = "new_hdr" /\ tmp_in_buffer = <<>>
  /\ count = 0 /\ wrapper_flag = FALSE
  /\ \E lens \in [{"extra", "name", "comment"} -> BufLens] :
       gz_hdr = EmptyHdr(IF FreshHdr THEN NoBuffers ELSE lens)
  /\ ret = "none"

Data == Field("data", DataLen)

Write ==
  /\ ret = "none" /\ file = <<>>
  /\ \E avail_out \in Rooms \cup (IF wret > 0 THEN {wret} ELSE {}) :
       isal_write_gzip_header(avail_out) \/ isal_write_zlib_header(avail_out)
  /\ UNCHANGED <<h, next_in, avail_in, block_state, tmp_in_buffer, count, wrapper_flag,
                 gz_hdr, ret>>

Compress ==
  /\ wret = 0 /\ ret = "none"
  /\ file' = file \o Data /\ ret' = "end_input"
  /\ UNCHANGED <<h, wret, next_in, avail_in, block_state, tmp_in_buffer, count,
                 wrapper_flag, gz_hdr>>

Read ==
  /\ ret = "end_input"
  /\ \E n \in Chunks :
       /\ next_in + n <= Len(file)
       /\ isal_read_gzip_header(n) \/ isal_read_zlib_header(n)
  /\ UNCHANGED <<h, file, wret>>

(* The user can reallocate a larger buffer and call this function again.   *)
Grow ==
  /\ ret = "overflow"
  /\ gz_hdr' = [gz_hdr EXCEPT !.len[block_state] = @ + 1]
  /\ ret' = "regrown"
  /\ UNCHANGED <<h, file, wret, next_in, avail_in, block_state, tmp_in_buffer, count,
                 wrapper_flag>>

ReadOn ==
  /\ ret = "regrown"
  /\ isal_read_gzip_header(avail_in)
  /\ UNCHANGED <<h, file, wret>>

Over == /\ \/ ret \in {"ok", "incorrect_checksum"}
           \/ HasExtra /\ h.extra > MaxExtra
        /\ UNCHANGED vars

Next == Write \/ Compress \/ Read \/ Grow \/ ReadOn \/ Over

Spec == Init /\ [][Next]_vars

(* A user that has more of the header brings it: the last bytes, one at a  *)
(* time if need be.                                                        *)
FairSpec ==
  /\ Spec
  /\ WF_vars(Write /\ (wret > 0 => wret' = 0)) /\ WF_vars(Compress) /\ WF_vars(Grow) /\ WF_vars(ReadOn)
  /\ WF_vars(Read /\ (next_in' > next_in \/ ret' # "end_input"))
-----------------------------------------------------------------------------

TypeOK ==
  /\ next_in \in 0..Len(file) /\ avail_in \in 0..Len(file)
  /\ block_state \in {"new_hdr", "extra_len", "extra", "name", "comment", "hcrc", "dict_id"}
  /\ Len(tmp_in_buffer) < HdrBase + ZLIB_DICT_LEN /\ count \in Nat
  /\ ret \in {"none", "ok", "end_input", "overflow", "regrown", "incorrect_checksum"}

(* What the reader tells is what the writer was told, wherever the input   *)
(* was cut and however often a buffer was too small; the data behind the   *)
(* header is left for the decompressor, and a field without a buffer is    *)
(* passed over.  A header is not refused because of where it was cut. This *)
(* is said of a header whose strings end in the writer's buffers: of one   *)
(* that was written without its NUL nobody can tell where it ends.         *)
Holds(f, n) == gz_hdr.len[f] = Null \/ gz_hdr.buf[f] = Field(f, IF n = Null THEN 0 ELSE n)

StringsEnd == h.ended = {"name", "comment"}

HeaderComesBack ==
  /\ ret = "incorrect_checksum" /\ StringsEnd => ~ h.intact
  /\ ret = "ok" /\ StringsEnd =>
    /\ next_in = HdrSize /\ wrapper_flag /\ tmp_in_buffer = <<>>
    /\ ~ h.intact => h.format = "gzip" /\ ~ h.hcrc
    /\ gz_hdr.flags = Flags /\ gz_hdr.dict_id = h.dict
    /\ h.format = "gzip" => /\ Holds("extra", h.extra) /\ Holds("name", h.name)
                            /\ Holds("comment", h.comment)

(* Nothing is stored past the end of a buffer of the user's, a string      *)
(* leaves room for its terminator, and no count of what is left, of a      *)
(* field or of the input, goes below zero.                                 *)
BuffersHold ==
  /\ TypeOK
  /\ \A f \in {"extra", "name", "comment"} :
    gz_hdr.len[f] # Null =>
      /\ Len(gz_hdr.buf[f]) <= gz_hdr.len[f]
      /\ ret = "ok" /\ f # "extra" /\ f \in gz_hdr.flags => Len(gz_hdr.buf[f]) < gz_hdr.len[f]

(* What a header is worth to isal_inflate: all of it is taken, and a       *)
(* dictionary that it names is asked for. igzip_lib.h says that the gzip   *)
(* or zlib header is parsed, whatever the input of the calls.              *)
HeaderTakenWhole ==
  ret = "ok" => next_in = HdrSize /\ (h.dict => "dict" \in gz_hdr.flags)

(* A writer that says what room it needs, and a reader that is brought the *)
(* rest of the input, get to the end of the header.                        *)
HeaderEnds == [](wret = 0 /\ StringsEnd => <>(ret \in {"ok", "incorrect_checksum"}))
=============================================================================
