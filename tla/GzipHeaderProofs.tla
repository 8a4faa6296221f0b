-------------------------- MODULE GzipHeaderProofs --------------------------
(***************************************************************************)
(* That the readers of the gzip and zlib headers tell what the writers     *)
(* were told, whatever the header, wherever the input is cut, and however  *)
(* small the buffers are at first.                                         *)
(*                                                                         *)
(* A call of isal_read_gzip_header is followed from stage to stage: Ready  *)
(* says what holds in front of a stage, and one lemma for each stage that  *)
(* its function leads to the next. Between calls, Stands says where in its *)
(* stage a reader stopped, and what the buffers hold by then. HInv is the  *)
(* inductive invariant.                                                    *)
(***************************************************************************)
EXTENDS GzipHeader, SequenceTheorems, WellFoundedInduction, TLAPS

Fields  == {"extra", "name", "comment"}
Strings == {"name", "comment"}

(* The headers whose strings end in the writer's buffers: of the others,   *)
(* written without a NUL, nobody can tell where they end.                  *)
EndedHeaders == {x \in Headers : x.ended = {"name", "comment"}}

(* Where each stage of the gzip reader begins.                             *)
Start ==
  LET extra   == HdrBase + (IF HasExtra THEN GZIP_EXTRA_LEN ELSE 0)
      name    == HdrBase + SizeOf(h.extra, GZIP_EXTRA_LEN)
      comment == name + SizeOf(h.name, 1)
  IN  [new_hdr |-> 0, extra_len |-> HdrBase, extra |-> extra, name |-> name,
       comment |-> comment, hcrc |-> comment + SizeOf(h.comment, 1)]

FixedLen == [new_hdr |-> HdrBase, extra_len |-> GZIP_EXTRA_LEN, hcrc |-> GZIP_HCRC_LEN]

(* The fields in front of a stage, and how much of field f has been taken  *)
(* at stage b.                                                             *)
Passed == [new_hdr |-> {}, extra_len |-> {}, extra |-> {}, name |-> {"extra"},
           comment |-> {"extra", "name"}, hcrc |-> Fields]

Got(b, f, left) ==
  IF f \in Passed[b] THEN SizeOf(h[f], 0)
  ELSE IF b # f THEN 0
  ELSE IF f = "extra" THEN h.extra - left ELSE left

(* The buffers hold what has been taken, and a string leaves room.         *)
Kept(b, left, hdr) ==
  \A f \in Fields : hdr.len[f] # Null =>
    /\ hdr.buf[f] = Field(f, Got(b, f, left))
    /\ Got(b, f, left) <= hdr.len[f]
    /\ f \in Strings /\ f \in Passed[b] /\ h[f] # Null => h[f] < hdr.len[f]

(* A reader that stopped at stage b stands inside that stage.              *)
Stands(b, next, tmp, left, hdr) ==
  /\ Kept(b, left, hdr)
  /\ b # "new_hdr" => hdr.flags = Flags /\ FlagOf(b) \in Flags
  /\ b = "extra" => hdr.extra_len = h.extra
  /\ IF b \in Fields
     THEN tmp = <<>> /\ left \in 0..h[b] /\ next = Start[b] + Got(b, b, left)
     ELSE /\ b \in {"new_hdr", "extra_len", "hcrc"} /\ left = 0
          /\ Len(tmp) < FixedLen[b] /\ next = Start[b] + Len(tmp)

(* The checksum so far.                                                    *)
SumOf(b, next) == IF b = "hcrc" THEN HeaderBody ELSE SubSeq(file, 1, next)

-----------------------------------------------------------------------------
(* What the writers write.                                                 *)

Names  == {"base", "extra_len", "extra", "name", "comment", "hcrc", "dict_id", "data", "nul"}
Octets == Names \X Nat

LEMMA Difference == \A a \in Nat, b \in Int :
                      0 <= b /\ b <= a => a - b \in Nat /\ b + (a - b) = a
  OBVIOUS

LEMMA Regroup == \A x, k, m \in Nat : (x + k) + m = x + (k + m) /\ (x - k) - m = x - (k + m)
  OBVIOUS

LEMMA Shuffle == \A a, b, c \in Nat : (a + b) + (c + 1) = a + (b + c + 1)
  OBVIOUS

LEMMA FieldTyped ==
  ASSUME NEW f \in Names, NEW n \in Nat
  PROVE  /\ Field(f, n) \in Seq(Octets) /\ Len(Field(f, n)) = n
         /\ \A i \in 1..n : Field(f, n)[i] = <<f, i>>
  <1>1. \A i \in 1..n : <<f, i>> \in Octets
    BY DEF Octets
  <1>2. Field(f, n) \in [1..n -> Octets]
    BY <1>1 DEF Field
  <1> QED
    BY <1>2 DEF Field

LEMMA StringTyped ==
  ASSUME NEW f \in Names, f \in h.ended, NEW n \in {Null} \cup Nat
  PROVE  /\ String(f, n) \in Seq(Octets) /\ Len(String(f, n)) = SizeOf(n, 1)
         /\ n # Null => /\ \A i \in 1..n : String(f, n)[i] = <<f, i>>
                        /\ String(f, n)[n + 1] = NUL
  <1>1. CASE n = Null
    BY <1>1, EmptySeq DEF String, SizeOf
  <1>2. CASE n # Null
    <2> n \in Nat
      BY <1>2
    <2>1. NUL \in Octets
      BY DEF NUL, Octets, Names
    <2>2. String(f, n) = Append(Field(f, n), NUL)
      BY <1>2 DEF String
    <2>3. Append(Field(f, n), NUL) \in Seq(Octets) /\ Len(Append(Field(f, n), NUL)) = n + 1
      BY <2>1, FieldTyped, AppendProperties
    <2>4. \A i \in 1..n : Append(Field(f, n), NUL)[i] = <<f, i>>
      BY <2>1, FieldTyped, AppendProperties
    <2>5. Append(Field(f, n), NUL)[n + 1] = NUL
      BY <2>1, FieldTyped, AppendProperties
    <2> QED
      BY <2>2, <2>3, <2>4, <2>5, <1>2 DEF SizeOf
  <1> QED
    BY <1>1, <1>2

LEMMA Joined ==
  ASSUME NEW u \in Seq(Octets), NEW v \in Seq(Octets)
  PROVE  /\ u \o v \in Seq(Octets) /\ Len(u \o v) = Len(u) + Len(v)
         /\ Len(u) \in Nat /\ Len(v) \in Nat
         /\ \A i \in 1..Len(u) : (u \o v)[i] = u[i]
         /\ \A i \in 1..Len(v) : (u \o v)[Len(u) + i] = v[i]
  <1>1. /\ u \o v \in Seq(Octets) /\ Len(u \o v) = Len(u) + Len(v)
        /\ \A i \in 1..Len(u) + Len(v) : (u \o v)[i] = IF i <= Len(u) THEN u[i] ELSE v[i - Len(u)]
    BY ConcatProperties
  <1>2. Len(u) \in Nat /\ Len(v) \in Nat
    BY LenProperties
  <1>3. \A i \in 1..Len(u) : (u \o v)[i] = u[i]
    BY <1>1, <1>2
  <1>4. ASSUME NEW i \in 1..Len(v)
        PROVE  (u \o v)[Len(u) + i] = v[i]
    <2>1. Len(u) + i \in 1..Len(u) + Len(v) /\ ~ (Len(u) + i <= Len(u)) /\ (Len(u) + i) - Len(u) = i
      BY <1>2
    <2> QED
      BY <1>1, <2>1
  <1> QED
    BY <1>1, <1>2, <1>3, <1>4

(* Every part of a gzip header is where Start says.                        *)
LEMMA Placed ==
  ASSUME h \in GzipHdr, NEW q, q = GzipBytes \o Data
  PROVE  /\ HeaderBody \in Seq(Octets) /\ Len(HeaderBody) = Start["hcrc"]
         /\ GzipBytes \in Seq(Octets) /\ Len(GzipBytes) = HdrSize /\ HdrSize \in Nat \ {0}
         /\ q \in Seq(Octets) /\ Len(q) = HdrSize + DataLen
         /\ \A i \in 1..Len(HeaderBody) : q[i] = HeaderBody[i]
         /\ \A f \in Fields : h[f] # Null => \A i \in 1..h[f] : q[Start[f] + i] = <<f, i>>
         /\ \A f \in Strings : h[f] # Null => q[Start[f] + h[f] + 1] = NUL
  <1> DEFINE A == Field("base", HdrBase)
             E == IF HasExtra THEN Field("extra_len", GZIP_EXTRA_LEN) \o Field("extra", h.extra)
                              ELSE <<>>
             N == String("name", h.name)
             C == String("comment", h.comment)
             X == IF h.hcrc THEN Field("hcrc", GZIP_HCRC_LEN) ELSE <<>>
  <1>1. /\ h.extra \in {Null} \cup Nat /\ h.name \in {Null} \cup Nat
        /\ h.comment \in {Null} \cup Nat /\ h.hcrc \in BOOLEAN /\ h.dict = FALSE
        /\ "name" \in h.ended /\ "comment" \in h.ended
    BY DEF GzipHdr
  <1>2. A \in Seq(Octets) /\ Len(A) = HdrBase
    BY FieldTyped, HeaderAssumption DEF Names
  <1>3. /\ E \in Seq(Octets) /\ Len(E) = SizeOf(h.extra, GZIP_EXTRA_LEN)
        /\ HasExtra => \A i \in 1..h.extra : E[GZIP_EXTRA_LEN + i] = <<"extra", i>>
    <2>1. CASE ~ HasExtra
      BY <2>1, EmptySeq DEF HasExtra, SizeOf
    <2>2. CASE HasExtra
      <3>1. h.extra \in Nat
        BY <1>1, <2>2 DEF HasExtra
      <3> DEFINE L == Field("extra_len", GZIP_EXTRA_LEN)
                 F == Field("extra", h.extra)
      <3>2. L \in Seq(Octets) /\ Len(L) = 2
        BY FieldTyped DEF Names, GZIP_EXTRA_LEN
      <3>3. F \in Seq(Octets) /\ Len(F) = h.extra /\ \A i \in 1..h.extra : F[i] = <<"extra", i>>
        BY <3>1, FieldTyped DEF Names
      <3>4. E = L \o F
        BY <2>2
      <3> HIDE DEF L, F, E
      <3>5. L \o F \in Seq(Octets) /\ Len(L \o F) = 2 + h.extra
        <4>1. L \o F \in Seq(Octets) /\ Len(L \o F) = Len(L) + Len(F)
          BY <3>2, <3>3, ConcatProperties
        <4> QED
          BY <4>1, <3>2, <3>3
      <3>6. \A i \in 1..h.extra : (L \o F)[2 + i] = F[i]
        <4>1. \A i \in 1..Len(F) : (L \o F)[Len(L) + i] = F[i]
          BY <3>2, <3>3, Joined
        <4> QED
          BY <4>1, <3>2, <3>3
      <3>7. SizeOf(h.extra, GZIP_EXTRA_LEN) = 2 + h.extra
        BY <3>1, <2>2 DEF HasExtra, SizeOf, GZIP_EXTRA_LEN
      <3>8. \A i \in 1..h.extra : E[GZIP_EXTRA_LEN + i] = <<"extra", i>>
        BY <3>1, <3>3, <3>4, <3>6 DEF GZIP_EXTRA_LEN
      <3> QED
        BY <3>4, <3>5, <3>7, <3>8
    <2> QED
      BY <2>1, <2>2
  <1>4. /\ N \in Seq(Octets) /\ Len(N) = SizeOf(h.name, 1)
        /\ h.name # Null => /\ \A i \in 1..h.name : N[i] = <<"name", i>>
                            /\ N[h.name + 1] = NUL
    BY <1>1, StringTyped DEF Names
  <1>5. /\ C \in Seq(Octets) /\ Len(C) = SizeOf(h.comment, 1)
        /\ h.comment # Null => /\ \A i \in 1..h.comment : C[i] = <<"comment", i>>
                               /\ C[h.comment + 1] = NUL
    BY <1>1, StringTyped DEF Names
  <1>6. X \in Seq(Octets) /\ Len(X) = IF h.hcrc THEN GZIP_HCRC_LEN ELSE 0
    BY <1>1, FieldTyped, EmptySeq DEF Names, GZIP_HCRC_LEN
  <1>7. Data \in Seq(Octets) /\ Len(Data) = DataLen
    BY FieldTyped, HeaderAssumption DEF Names, Data
  <1> DEFINE AE == A \o E
             AN == AE \o N
             G  == AN \o C
             GX == G \o X
             F  == GX \o Data
  <1>8. HeaderBody = G /\ GzipBytes = GX /\ q = F
    BY DEF HeaderBody, GzipBytes
  <1> HIDE DEF A, E, N, C, X
  <1>9. /\ AE \in Seq(Octets) /\ Len(AE) = Len(A) + Len(E)
        /\ \A i \in 1..Len(E) : AE[Len(A) + i] = E[i]
    BY <1>2, <1>3, Joined
  <1> HIDE DEF AE
  <1>10. /\ AN \in Seq(Octets) /\ Len(AN) = Len(AE) + Len(N)
         /\ \A i \in 1..Len(AE) : AN[i] = AE[i]
         /\ \A i \in 1..Len(N) : AN[Len(AE) + i] = N[i]
    BY <1>9, <1>4, Joined
  <1> HIDE DEF AN
  <1>11. /\ G \in Seq(Octets) /\ Len(G) = Len(AN) + Len(C)
         /\ \A i \in 1..Len(AN) : G[i] = AN[i]
         /\ \A i \in 1..Len(C) : G[Len(AN) + i] = C[i]
    BY <1>10, <1>5, Joined
  <1> HIDE DEF G
  <1>12. /\ GX \in Seq(Octets) /\ Len(GX) = Len(G) + Len(X)
         /\ \A i \in 1..Len(G) : GX[i] = G[i]
    BY <1>11, <1>6, Joined
  <1> HIDE DEF GX
  <1>13. /\ F \in Seq(Octets) /\ Len(F) = Len(GX) + DataLen
         /\ \A i \in 1..Len(GX) : F[i] = GX[i]
    BY <1>12, <1>7, Joined
  <1> HIDE DEF F
  <1> DEFINE e == SizeOf(h.extra, GZIP_EXTRA_LEN)
             n == SizeOf(h.name, 1)
             c == SizeOf(h.comment, 1)
             x == IF h.hcrc THEN GZIP_HCRC_LEN ELSE 0
  <1>14. e \in Nat /\ n \in Nat /\ c \in Nat /\ x \in Nat
    BY <1>1 DEF SizeOf, GZIP_EXTRA_LEN, GZIP_HCRC_LEN
  <1>15. /\ HasExtra => Start["extra"] = HdrBase + GZIP_EXTRA_LEN
         /\ Start["name"] = HdrBase + e /\ Start["comment"] = HdrBase + e + n
         /\ Start["hcrc"] = HdrBase + e + n + c
    BY DEF Start
  <1>16. HdrSize = HdrBase + e + n + c + x
    BY <1>1, <1>14, HeaderAssumption DEF HdrSize, NulLen
  <1>17. /\ Len(A) = HdrBase /\ Len(AE) = HdrBase + e /\ Len(AN) = HdrBase + e + n
         /\ Len(G) = HdrBase + e + n + c /\ Len(GX) = HdrBase + e + n + c + x
    BY <1>2, <1>3, <1>4, <1>5, <1>6, <1>9, <1>10, <1>11, <1>12
  <1> HIDE DEF e, n, c, x
  <1>20. \A i \in 1..Len(G) : F[i] = G[i]
    <2> 1..Len(G) \subseteq 1..Len(GX)
      BY <1>14, <1>17, HeaderAssumption
    <2> QED
      BY <1>12, <1>13
  <1>21. \A i \in 1..Len(AN) : F[i] = AN[i]
    <2> 1..Len(AN) \subseteq 1..Len(G)
      BY <1>14, <1>17, HeaderAssumption
    <2> QED
      BY <1>20, <1>11
  <1>22. \A i \in 1..Len(AE) : F[i] = AE[i]
    <2> 1..Len(AE) \subseteq 1..Len(AN)
      BY <1>14, <1>17, HeaderAssumption
    <2> QED
      BY <1>21, <1>10
  <1>23. \A i \in 1..e : F[HdrBase + i] = E[i]
    <2>1. Len(E) = e
      BY <1>3 DEF e
    <2>2. \A i \in 1..e : HdrBase + i \in 1..Len(AE)
      BY <1>14, <1>17, HeaderAssumption
    <2> QED
      BY <2>1, <2>2, <1>22, <1>9, <1>2
  <1>24. \A i \in 1..n : F[HdrBase + e + i] = N[i]
    <2>1. Len(N) = n
      BY <1>4 DEF n
    <2>2. \A i \in 1..n : HdrBase + e + i \in 1..Len(AN)
      BY <1>14, <1>17, HeaderAssumption
    <2> QED
      BY <2>1, <2>2, <1>21, <1>10, <1>17
  <1>25. \A i \in 1..c : F[HdrBase + e + n + i] = C[i]
    <2>1. Len(C) = c
      BY <1>5 DEF c
    <2>2. \A i \in 1..c : HdrBase + e + n + i \in 1..Len(G)
      BY <1>14, <1>17, HeaderAssumption
    <2> QED
      BY <2>1, <2>2, <1>20, <1>11, <1>17
  <1>26. HasExtra => \A i \in 1..h.extra : F[Start["extra"] + i] = <<"extra", i>>
    <2> SUFFICES ASSUME HasExtra, NEW i \in 1..h.extra
                 PROVE  F[Start["extra"] + i] = <<"extra", i>>
      OBVIOUS
    <2>1. h.extra \in Nat /\ e = h.extra + 2
      BY <1>1 DEF HasExtra, e, SizeOf, GZIP_EXTRA_LEN
    <2> HdrBase \in Nat
      BY HeaderAssumption
    <2>2. 2 + i \in 1..e
      BY <2>1
    <2>3. HdrBase + (2 + i) = (HdrBase + 2) + i
      BY <2>1
    <2>4. Start["extra"] = HdrBase + 2
      BY <1>15 DEF GZIP_EXTRA_LEN
    <2> QED
      BY <2>2, <2>3, <2>4, <1>23, <1>3 DEF GZIP_EXTRA_LEN
  <1>27. h.name # Null => /\ \A i \in 1..h.name : F[Start["name"] + i] = <<"name", i>>
                          /\ F[Start["name"] + h.name + 1] = NUL
    <2> SUFFICES ASSUME h.name # Null
                 PROVE  /\ \A i \in 1..h.name : F[Start["name"] + i] = <<"name", i>>
                        /\ F[Start["name"] + h.name + 1] = NUL
      OBVIOUS
    <2>1. h.name \in Nat /\ n = h.name + 1
      BY <1>1 DEF n, SizeOf
    <2>2. \A i \in 1..h.name : F[HdrBase + e + i] = N[i]
      BY <2>1, <1>24
    <2>3. F[HdrBase + e + (h.name + 1)] = N[h.name + 1]
      BY <2>1, <1>24
    <2> HdrBase \in Nat
      BY HeaderAssumption
    <2>4. HdrBase + e + (h.name + 1) = (HdrBase + e) + h.name + 1
      BY <2>1, <1>14
    <2> QED
      BY <2>2, <2>3, <2>4, <1>4, <1>15
  <1>28. h.comment # Null => /\ \A i \in 1..h.comment : F[Start["comment"] + i] = <<"comment", i>>
                             /\ F[Start["comment"] + h.comment + 1] = NUL
    <2> SUFFICES ASSUME h.comment # Null
                 PROVE  /\ \A i \in 1..h.comment : F[Start["comment"] + i] = <<"comment", i>>
                        /\ F[Start["comment"] + h.comment + 1] = NUL
      OBVIOUS
    <2>1. h.comment \in Nat /\ c = h.comment + 1
      BY <1>1 DEF c, SizeOf
    <2>2. \A i \in 1..h.comment : F[HdrBase + e + n + i] = C[i]
      BY <2>1, <1>25
    <2>3. F[HdrBase + e + n + (h.comment + 1)] = C[h.comment + 1]
      BY <2>1, <1>25
    <2> HdrBase \in Nat
      BY HeaderAssumption
    <2>4. HdrBase + e + n + (h.comment + 1) = (HdrBase + e + n) + h.comment + 1
      BY <2>1, <1>14
    <2> QED
      BY <2>2, <2>3, <2>4, <1>5, <1>15
  <1>29. \A f \in Fields : h[f] # Null => \A i \in 1..h[f] : F[Start[f] + i] = <<f, i>>
    BY <1>26, <1>27, <1>28 DEF Fields, HasExtra
  <1>30. \A f \in Strings : h[f] # Null => F[Start[f] + h[f] + 1] = NUL
    BY <1>27, <1>28 DEF Strings
  <1>31. G \in Seq(Octets) /\ Len(G) = Start["hcrc"] /\ F \in Seq(Octets)
    BY <1>11, <1>13, <1>15, <1>17
  <1>32. Len(F) = HdrSize + DataLen
    BY <1>13, <1>16, <1>17
  <1>33. GX \in Seq(Octets) /\ Len(GX) = HdrSize
    BY <1>12, <1>16, <1>17
  <1>34. HdrSize \in Nat \ {0}
    <2>1. HdrBase \in Nat \ {0}
      BY HeaderAssumption
    <2> QED
      BY <1>14, <1>16, <2>1
  <1> QED
    BY <1>8, <1>20, <1>29, <1>30, <1>31, <1>32, <1>33, <1>34

LEMMA Layout ==
  ASSUME h \in GzipHdr, file = GzipBytes \o Data
  PROVE  /\ HeaderBody \in Seq(Octets) /\ Len(HeaderBody) = Start["hcrc"]
         /\ file \in Seq(Octets) /\ Len(file) = HdrSize + DataLen
         /\ \A i \in 1..Len(HeaderBody) : file[i] = HeaderBody[i]
         /\ \A f \in Fields : h[f] # Null => \A i \in 1..h[f] : file[Start[f] + i] = <<f, i>>
         /\ \A f \in Strings : h[f] # Null => file[Start[f] + h[f] + 1] = NUL
  BY Placed

LEMMA GzipTyped ==
  ASSUME h \in GzipHdr
  PROVE  GzipBytes \in Seq(Octets) /\ Len(GzipBytes) = HdrSize /\ HdrSize \in Nat \ {0}
  BY Placed

-----------------------------------------------------------------------------
(* What the readers are built from.                                        *)

Sites == {"new_hdr", "extra_len", "extra", "name", "comment", "hcrc", "dict_id"}

Hdr == [flags : SUBSET UNDEFINED_FLAG, hcrc : Seq(Octets), extra_len : Nat, dict_id : BOOLEAN,
        buf : [Fields -> Seq(Octets)], len : [Fields -> {Null} \cup Nat]]

Call == [entry : Sites, start : Nat, next : Nat, avail : Nat, bs : Sites, tmp : Seq(Octets),
         count : Nat, xcount : Nat, hdr : Hdr, flags : SUBSET UNDEFINED_FLAG,
         wrapper : BOOLEAN, buf : Seq(Octets),
         ret : {"ok", "end_input", "overflow", "incorrect_checksum"}]

InFile(s) == s.next + s.avail <= Len(file)

Same(s, t) ==
  /\ t.entry = s.entry /\ t.start = s.start /\ t.bs = s.bs /\ t.xcount = s.xcount
  /\ t.flags = s.flags /\ t.wrapper = s.wrapper

LEMMA Segment ==
  ASSUME NEW q \in Seq(Octets), NEW a \in Nat, NEW n \in Nat, a + n <= Len(q)
  PROVE  /\ SubSeq(q, a + 1, a + n) \in Seq(Octets) /\ Len(SubSeq(q, a + 1, a + n)) = n
         /\ \A i \in 1..n : SubSeq(q, a + 1, a + n)[i] = q[a + i]
  <1>1. Len(q) \in Nat
    BY LenProperties
  <1> DEFINE k == a + 1
             m == a + n
  <1>2. k \in Int /\ m \in Int /\ m - k + 1 = n /\ \A i \in 1..n : k + i - 1 = a + i
    BY <1>1
  <1>3. \A i \in k..m : q[i] \in Octets
    BY <1>1, ElementOfSeq
  <1>4. n = IF k <= m THEN m - k + 1 ELSE 0
    BY <1>1
  <1> HIDE DEF k, m
  <1>5. /\ SubSeq(q, k, m) \in Seq(Octets)
        /\ Len(SubSeq(q, k, m)) = IF k <= m THEN m - k + 1 ELSE 0
        /\ \A i \in 1..m - k + 1 : SubSeq(q, k, m)[i] = q[k + i - 1]
    BY <1>2, <1>3, SubSeqProperties
  <1>6. /\ SubSeq(q, k, m) \in Seq(Octets) /\ Len(SubSeq(q, k, m)) = n
        /\ \A i \in 1..n : SubSeq(q, k, m)[i] = q[a + i]
    BY <1>2, <1>4, <1>5
  <1> QED
    BY <1>6 DEF k, m

LEMMA CutBytes ==
  ASSUME file \in Seq(Octets), NEW s \in Call, InFile(s), NEW n \in 0..s.avail
  PROVE  /\ Bytes(s, n) \in Seq(Octets) /\ Len(Bytes(s, n)) = n
         /\ \A i \in 1..n : Bytes(s, n)[i] = file[s.next + i]
  <1>1. s.next \in Nat /\ s.avail \in Nat /\ Len(file) \in Nat
    BY LenProperties DEF Call
  <1>2. n \in Nat /\ s.next + n <= Len(file)
    BY <1>1 DEF InFile
  <1> QED
    BY <1>1, <1>2, Segment DEF Bytes

LEMMA FixedRead ==
  ASSUME file \in Seq(Octets), NEW s \in Call, InFile(s), NEW n \in Nat, Len(s.tmp) <= n,
         NEW t, t = fixed_size_read(s, n)
  PROVE  /\ t \in Call /\ Same(s, t) /\ t.hdr = s.hdr /\ t.count = s.count /\ InFile(t)
         /\ s.next <= t.next
         /\ \/ /\ t.ret = "end_input" /\ t.next = s.next + s.avail /\ t.avail = 0
               /\ Len(t.tmp) = Len(s.tmp) + s.avail /\ Len(t.tmp) < n
            \/ /\ t.ret = s.ret /\ t.tmp = <<>> /\ t.next = s.next + (n - Len(s.tmp))
  <1>1. /\ s.next \in Nat /\ s.avail \in Nat /\ Len(file) \in Nat /\ s.tmp \in Seq(Octets)
        /\ Len(s.tmp) \in Nat
    BY LenProperties DEF Call
  <1>2. CASE TooShort(s, n)
    <2> DEFINE b == Bytes(s, s.avail)
    <2>1. b \in Seq(Octets) /\ Len(b) = s.avail
      BY <1>1, CutBytes
    <2> HIDE DEF b
    <2> DEFINE q == s.tmp \o b
               p == s.next + s.avail
               a == s.avail - s.avail
    <2>2. q \in Seq(Octets) /\ Len(q) = Len(s.tmp) + Len(b)
      BY <1>1, <2>1, ConcatProperties
    <2>3. t = [s EXCEPT !.next = p, !.avail = a, !.tmp = q, !.ret = "end_input"]
      BY <1>2 DEF fixed_size_read, Skip, b, Call
    <2>4. p \in Nat /\ a \in Nat /\ a = 0
      BY <1>1
    <2> HIDE DEF p, q, a
    <2>5. /\ t.hdr = s.hdr /\ t.count = s.count
          /\ t.ret = "end_input" /\ t.next = p /\ t.avail = 0
          /\ t.tmp = q
      BY <2>3, <2>4 DEF Call
    <2>7. t \in Call
      BY <2>2, <2>3, <2>4 DEF Call
    <2>8. Same(s, t)
      BY <2>3 DEF Call, Same
    <2>6. p = s.next + s.avail
      BY DEF p
    <2> QED
      BY <1>1, <1>2, <2>1, <2>2, <2>4, <2>5, <2>6, <2>7, <2>8 DEF InFile, TooShort
  <1>3. CASE ~ TooShort(s, n)
    <2> DEFINE k == n - Len(s.tmp)
               b == s.tmp \o Bytes(s, k)
               p == s.next + k
               a == s.avail - k
    <2>1. k \in 0..s.avail /\ p \in Nat /\ a \in Nat /\ p + a = s.next + s.avail
      <3>1. PICK x \in Nat, v \in Nat, l \in Nat : x = s.next /\ v = s.avail /\ l = Len(s.tmp)
        BY <1>1, Zenon
      <3>2. ~ (v + l < n) /\ l <= n
        BY <1>3, <3>1, Zenon DEF TooShort
      <3>3. n - l \in 0..v /\ x + (n - l) \in Nat /\ v - (n - l) \in Nat
            /\ (x + (n - l)) + (v - (n - l)) = x + v
        BY <3>2
      <3>4. QED
        BY <3>1, <3>3, Zenon
    <2>2. b \in Seq(Octets)
      BY <1>1, <2>1, CutBytes, Joined
    <2>3. t = [s EXCEPT !.next = p, !.avail = a, !.tmp = <<>>, !.buf = b]
      BY <1>3 DEF fixed_size_read, Skip, Call
    <2>4. s.next <= p /\ p = s.next + (n - Len(s.tmp))
      BY <1>1, <2>1
    <2> HIDE DEF a, b, k, p
    <2>5. /\ t.hdr = s.hdr /\ t.count = s.count
          /\ t.ret = s.ret /\ t.next = p /\ t.avail = a /\ t.tmp = <<>>
      BY <2>3 DEF Call
    <2>6. t \in Call
      BY <2>1, <2>2, <2>3, EmptySeq DEF Call
    <2>7. Same(s, t)
      BY <2>3 DEF Call, Same
    <2> QED
      BY <2>1, <2>4, <2>5, <2>6, <2>7 DEF InFile
  <1> QED
    BY <1>2, <1>3

(* n bytes have gone into field f, of m taken.                             *)
Copied(s, t, f, n, m) ==
  /\ t \in Call /\ Same(s, t) /\ InFile(t) /\ t.tmp = s.tmp /\ t.next = s.next + m
  /\ t.avail = s.avail - m
  /\ t.hdr.flags = s.hdr.flags /\ t.hdr.hcrc = s.hdr.hcrc /\ t.hdr.len = s.hdr.len
  /\ t.hdr.extra_len = s.hdr.extra_len /\ t.hdr.dict_id = s.hdr.dict_id
  /\ \A g \in Fields : t.hdr.buf[g] = IF g = f /\ s.hdr.len[f] # Null
                                      THEN s.hdr.buf[g] \o Bytes(s, n) ELSE s.hdr.buf[g]

LEMMA Stored ==
  ASSUME file \in Seq(Octets), NEW s \in Call, InFile(s), NEW f \in Fields, NEW n \in 0..s.avail,
         NEW t, t = Store(s, f, n)
  PROVE  /\ Copied(s, t, f, n, 0) /\ t.count = s.count /\ t.ret = s.ret
  <1>1. /\ s.next \in Nat /\ s.avail \in Nat /\ s.hdr \in Hdr /\ s.next = s.next + 0
        /\ s.avail = s.avail - 0
    BY DEF Call
  <1>2. CASE s.hdr.len[f] = Null
    <2>1. t = s
      BY <1>2 DEF Store, Capacity
    <2> QED
      BY <1>1, <1>2, <2>1 DEF Copied, Same
  <1>3. CASE s.hdr.len[f] # Null
    <2> DEFINE b == s.hdr.buf[f] \o Bytes(s, n)
               d == [s.hdr EXCEPT !.buf[f] = b]
    <2>1. b \in Seq(Octets)
      <3>1. s.hdr.buf[f] \in Seq(Octets)
        BY <1>1 DEF Hdr
      <3> QED
        BY <3>1, CutBytes, Joined
    <2>2. t = [s EXCEPT !.hdr = d]
      BY <1>1, <1>3 DEF Store, Capacity, Call, Hdr
    <2> HIDE DEF b
    <2>3. d \in Hdr
      BY <1>1, <2>1 DEF Hdr
    <2>4. /\ d.flags = s.hdr.flags /\ d.hcrc = s.hdr.hcrc /\ d.len = s.hdr.len
          /\ d.extra_len = s.hdr.extra_len /\ d.dict_id = s.hdr.dict_id
      BY <1>1 DEF Hdr
    <2>5. \A g \in Fields : d.buf[g] = IF g = f THEN b ELSE s.hdr.buf[g]
      BY <1>1 DEF Hdr
    <2> HIDE DEF d
    <2>6. t \in Call
      BY <2>2, <2>3 DEF Call
    <2>7. Same(s, t)
      BY <2>2 DEF Same, Call
    <2>8. /\ t.hdr = d /\ t.count = s.count /\ t.ret = s.ret /\ t.tmp = s.tmp
          /\ t.next = s.next /\ t.avail = s.avail
      BY <2>2 DEF Call
    <2> QED
      BY <1>1, <1>3, <2>4, <2>5, <2>6, <2>7, <2>8 DEF Copied, InFile, b
  <1> QED
    BY <1>2, <1>3

LEMMA Skipped ==
  ASSUME file \in Seq(Octets), NEW s \in Call, NEW u, NEW f \in Fields, NEW n, NEW k \in Nat,
         Copied(s, u, f, n, k), NEW m \in 0..u.avail, NEW t, t = Skip(u, m)
  PROVE  /\ Copied(s, t, f, n, k + m) /\ t.count = u.count /\ t.ret = u.ret
  <1> DEFINE p == u.next + m
             a == u.avail - m
  <1>1. u \in Call /\ u.next = s.next + k /\ u.avail = s.avail - k /\ InFile(u)
    BY DEF Copied
  <1>2. u.next \in Nat /\ u.avail \in Nat /\ s.next \in Nat /\ s.avail \in Nat
    BY <1>1 DEF Call
  <1>3. p \in Nat /\ a \in Nat /\ p = s.next + (k + m) /\ a = s.avail - (k + m)
    <2>1. m \in Nat /\ m <= u.avail
      BY <1>2
    <2>2. p \in Nat /\ a \in Nat
      BY <1>2, <2>1
    <2>3. p = s.next + (k + m)
      BY <1>1, <1>2, <2>1, Regroup
    <2>4. a = s.avail - (k + m)
      BY <1>1, <1>2, <2>1, Regroup
    <2> QED
      BY <2>2, <2>3, <2>4
  <1>4. p + a <= Len(file)
    BY <1>1, <1>2 DEF InFile
  <1>5. t = [u EXCEPT !.next = p, !.avail = a]
    BY <1>1 DEF Skip, Call
  <1> HIDE DEF p, a
  <1>6. t \in Call
    BY <1>1, <1>3, <1>5 DEF Call
  <1>7. Same(u, t)
    BY <1>1, <1>5 DEF Call, Same
  <1>8. /\ t.hdr = u.hdr /\ t.count = u.count /\ t.ret = u.ret /\ t.tmp = u.tmp
        /\ t.next = p /\ t.avail = a
    BY <1>1, <1>5 DEF Call
  <1>9. Same(s, t)
    BY <1>7 DEF Copied, Same
  <1>10. InFile(t)
    BY <1>4, <1>8 DEF InFile
  <1> QED
    BY <1>3, <1>6, <1>8, <1>9, <1>10 DEF Copied

(* Nothing is copied but what there is, what is wanted, and what fits.     *)
PartCopied(s, t, f, in_len, offset, n) ==
  /\ n <= in_len /\ Copied(s, t, f, n, n) /\ t.count = in_len - n
  /\ s.hdr.len[f] # Null => offset + n <= s.hdr.len[f]
  /\ \/ t.ret = "ok" /\ n = in_len
     \/ t.ret = "end_input" /\ t.avail = 0
     \/ t.ret = "overflow" /\ s.hdr.len[f] # Null

LEMMA BufferCopied ==
  ASSUME file \in Seq(Octets), NEW s \in Call, InFile(s), NEW f \in Fields,
         NEW in_len \in Nat, NEW offset \in Int,
         s.hdr.len[f] # Null => 0 <= offset /\ offset <= s.hdr.len[f],
         NEW t, t = buffer_header_copy(s, in_len, f, offset)
  PROVE  \E n \in 0..s.avail : PartCopied(s, t, f, in_len, offset, n)
  <1> DEFINE len == Lesser(in_len, s.avail)
             buf_len == s.hdr.len[f] - offset
             over == s.hdr.len[f] # Null /\ buf_len < len
             n == IF over THEN buf_len ELSE len
             u == Store(s, f, n)
             v == Skip(u, n)
             r == IF over THEN "overflow" ELSE IF len = in_len THEN "ok" ELSE "end_input"
             c == in_len - n
  <1>1. s.avail \in Nat /\ s.hdr.len[f] \in {Null} \cup Nat
    BY DEF Call, Hdr
  <1>2. /\ n \in 0..s.avail /\ n <= in_len
        /\ s.hdr.len[f] # Null => offset + n <= s.hdr.len[f]
        /\ c \in Nat
    <2>1. len \in Nat /\ len <= in_len /\ len <= s.avail
      BY <1>1 DEF Lesser
    <2> HIDE DEF len
    <2>2. CASE over
      <3>1. /\ s.hdr.len[f] \in Nat /\ n = buf_len /\ buf_len < len
            /\ 0 <= offset /\ offset <= s.hdr.len[f]
        BY <1>1, <2>2
      <3>2. buf_len \in Nat /\ offset + buf_len = s.hdr.len[f]
        BY <3>1, Difference
      <3> HIDE DEF buf_len, over
      <3>3. buf_len \in 0..s.avail /\ buf_len <= in_len /\ in_len - buf_len \in Nat
        BY <1>1, <2>1, <3>1, <3>2
      <3> QED
        BY <3>1, <3>2, <3>3
    <2>3. CASE ~ over
      <3>1. n = len
        BY <2>3
      <3>2. ASSUME s.hdr.len[f] # Null
            PROVE  offset + len <= s.hdr.len[f]
        <4>1. s.hdr.len[f] \in Nat /\ ~ (buf_len < len)
          BY <1>1, <2>3, <3>2
        <4> QED
          BY <4>1, <2>1
      <3> QED
        BY <1>1, <2>1, <3>1, <3>2
    <2> QED
      BY <2>2, <2>3
  <1>3. \/ r = "ok" /\ n = in_len
        \/ r = "end_input" /\ n = s.avail
        \/ r = "overflow" /\ s.hdr.len[f] # Null
    BY <1>1 DEF Lesser
  <1>4. t = [v EXCEPT !.count = c, !.ret = r]
    BY DEF buffer_header_copy, Capacity
  <1> HIDE DEF n, u, v, r, c
  <1>5. Copied(s, u, f, n, 0) /\ u.count = s.count /\ u.ret = s.ret
    BY <1>2, Stored DEF u
  <1>6. u.avail = s.avail
    BY <1>5, <1>1 DEF Copied
  <1>7. Copied(s, v, f, n, 0 + n)
    BY <1>2, <1>5, <1>6, Skipped DEF v
  <1>8. 0 + n = n
    BY <1>2
  <1>9. v \in Call /\ v.avail = s.avail - n
    BY <1>7, <1>8 DEF Copied
  <1>10. r \in {"ok", "end_input", "overflow"}
    BY <1>3
  <1>11. t \in Call
    BY <1>2, <1>4, <1>9, <1>10 DEF Call
  <1>12. Same(v, t)
    BY <1>4, <1>9 DEF Call, Same
  <1>13. /\ t.hdr = v.hdr /\ t.tmp = v.tmp /\ t.next = v.next /\ t.avail = v.avail
         /\ t.count = c /\ t.ret = r
    BY <1>4, <1>9 DEF Call
  <1>14. Same(s, t)
    BY <1>7, <1>12 DEF Copied, Same
  <1>15. Copied(s, t, f, n, n)
    BY <1>7, <1>8, <1>11, <1>13, <1>14 DEF Copied, InFile
  <1>16. n = s.avail => t.avail = 0
    BY <1>1, <1>9, <1>13
  <1> QED
    BY <1>2, <1>3, <1>13, <1>15, <1>16 DEF c, PartCopied

(* strnlen: whatever the bytes are, up to the first NUL if there is one.   *)
LEMMA StringLength ==
  ASSUME NEW s, NEW m \in Nat
  PROVE  /\ strnlen(s, m) \in 0..m
         /\ \A i \in 1..strnlen(s, m) : Bytes(s, m)[i] # NUL
         /\ strnlen(s, m) < m => Bytes(s, m)[strnlen(s, m) + 1] = NUL
  <1> DEFINE b == Bytes(s, m)
             Ends == {n \in 0..m : n < m => b[n + 1] = NUL}
             First(n) == /\ \A i \in 1..n : b[i] # NUL
                         /\ n < m => b[n + 1] = NUL
  <1>1. Ends \subseteq Nat /\ Ends # {}
    BY m \in Ends
  <1>2. \E n \in Ends : \A k \in Ends : ~ (<<k, n>> \in OpToRel(<, Nat))
    BY <1>1, NatLessThanWellFounded, WFMin
  <1>3. PICK n \in Ends : \A k \in Ends : ~ (k < n)
    BY <1>1, <1>2 DEF OpToRel
  <1>4. First(n)
    <2>1. ASSUME NEW i \in 1..n, b[i] = NUL
          PROVE  FALSE
      <3>1. i - 1 \in 0..m /\ (i - 1) + 1 = i /\ i - 1 < n
        OBVIOUS
      <3>2. i - 1 \in Ends
        BY <2>1, <3>1
      <3> QED
        BY <3>1, <3>2, <1>3
    <2> QED
      BY <2>1
  <1>5. n \in 0..m
    OBVIOUS
  <1> HIDE DEF b, Ends
  <1>6. strnlen(s, m) = CHOOSE k \in 0..m : First(k)
    BY DEF strnlen, b
  <1> HIDE DEF First
  <1>7. strnlen(s, m) \in 0..m /\ First(strnlen(s, m))
    BY <1>4, <1>5, <1>6
  <1> QED
    BY <1>7 DEF First, b

(* A string is copied up to its end, and the NUL is skipped, unless there  *)
(* is no more input or no more room.                                       *)
LEMMA StringCopied ==
  ASSUME file \in Seq(Octets), NEW s \in Call, InFile(s), NEW f \in Fields, s.ret = "ok",
         s.hdr.len[f] # Null => s.count <= s.hdr.len[f],
         NEW t, t = string_header_copy(s, f)
  PROVE  \E n \in 0..s.avail :
           /\ \A i \in 1..n : file[s.next + i] # NUL
           /\ s.hdr.len[f] # Null => s.count + n <= s.hdr.len[f]
           /\ \/ /\ t.ret = "ok" /\ n < s.avail /\ file[s.next + (n + 1)] = NUL
                 /\ Copied(s, t, f, n, n + 1) /\ t.count = 0
                 /\ s.hdr.len[f] # Null => s.count + n < s.hdr.len[f]
              \/ /\ t.ret = "end_input" /\ t.avail = 0
                 /\ Copied(s, t, f, n, n) /\ t.count = s.count + n
              \/ /\ t.ret = "overflow" /\ s.hdr.len[f] # Null
                 /\ Copied(s, t, f, n, n) /\ t.count = s.count + n
  <1> DEFINE left == s.hdr.len[f] - s.count
             m == IF s.hdr.len[f] = Null \/ left > s.avail THEN s.avail ELSE left
             n == strnlen(s, m)
             u == Store(s, f, n)
             v == Skip(u, n)
             w == [v EXCEPT !.count = @ + n]
             full == s.hdr.len[f] # Null /\ n = left
             x == Skip(w, 1)
  <1>1. /\ s.avail \in Nat /\ s.hdr.len[f] \in {Null} \cup Nat /\ s.count \in Nat
        /\ s.next \in Nat
    BY DEF Call, Hdr
  <1>2. /\ m \in 0..s.avail
        /\ s.hdr.len[f] = Null => m = s.avail
        /\ s.hdr.len[f] # Null => m <= left /\ (m = left \/ m = s.avail) /\ left \in Nat
                                  /\ s.count + left = s.hdr.len[f]
    BY <1>1
  <1>3. t = IF full THEN [w EXCEPT !.ret = "overflow"]
            ELSE IF w.avail = 0 THEN [w EXCEPT !.ret = "end_input"]
            ELSE [x EXCEPT !.count = 0]
    BY DEF string_header_copy, Capacity
  <1> HIDE DEF left, m
  <1>4. /\ n \in 0..m /\ \A i \in 1..n : Bytes(s, m)[i] # NUL
        /\ n < m => Bytes(s, m)[n + 1] = NUL
    BY <1>2, StringLength
  <1> HIDE DEF n
  <1>5. \A i \in 1..m : Bytes(s, m)[i] = file[s.next + i]
    BY <1>2, CutBytes
  <1>6. n \in 0..s.avail /\ n \in Nat
    BY <1>1, <1>2, <1>4
  <1>7. \A i \in 1..n : file[s.next + i] # NUL
    <2> 1..n \subseteq 1..m
      BY <1>2, <1>4, <1>6
    <2> QED
      BY <1>4, <1>5
  <1>8. n < m => file[s.next + (n + 1)] = NUL
    <2> SUFFICES ASSUME n < m PROVE file[s.next + (n + 1)] = NUL
      OBVIOUS
    <2>1. n + 1 \in 1..m
      BY <1>2, <1>6
    <2> QED
      BY <2>1, <1>4, <1>5
  <1>9. s.hdr.len[f] # Null => n <= left /\ s.count + n <= s.hdr.len[f]
    BY <1>1, <1>2, <1>4
  <1>10. Copied(s, u, f, n, 0) /\ u.count = s.count /\ u.ret = s.ret
    BY <1>6, Stored DEF u
  <1> HIDE DEF u
  <1>11. u.avail = s.avail
    BY <1>10, <1>1 DEF Copied
  <1>12. Copied(s, v, f, n, 0 + n) /\ v.count = s.count /\ v.ret = "ok"
    BY <1>6, <1>10, <1>11, Skipped
  <1>13. 0 + n = n
    BY <1>6
  <1> HIDE DEF v
  <1>14. v \in Call /\ v.avail = s.avail - n
    BY <1>12, <1>13 DEF Copied
  <1>15. s.count + n \in Nat
    BY <1>1, <1>6
  <1>16. w = [v EXCEPT !.count = s.count + n]
    BY <1>12, <1>14 DEF Call
  <1>17. w \in Call
    BY <1>14, <1>15, <1>16 DEF Call
  <1>18. Same(v, w)
    BY <1>14, <1>16 DEF Call, Same
  <1>19. /\ w.hdr = v.hdr /\ w.tmp = v.tmp /\ w.next = v.next /\ w.avail = v.avail
         /\ w.count = s.count + n /\ w.ret = "ok"
    BY <1>12, <1>14, <1>16 DEF Call
  <1>20. Copied(s, w, f, n, n)
    BY <1>12, <1>13, <1>17, <1>18, <1>19 DEF Copied, InFile, Same
  <1> HIDE DEF w
  <1>21. ASSUME NEW r \in {"overflow", "end_input"}, t = [w EXCEPT !.ret = r]
         PROVE  /\ Copied(s, t, f, n, n) /\ t.count = s.count + n /\ t.ret = r
                /\ t.avail = w.avail
    <2>1. t \in Call
      BY <1>17, <1>21 DEF Call
    <2>2. Same(w, t)
      BY <1>17, <1>21 DEF Call, Same
    <2>3. /\ t.hdr = w.hdr /\ t.tmp = w.tmp /\ t.next = w.next /\ t.avail = w.avail
          /\ t.count = w.count /\ t.ret = r
      BY <1>17, <1>21 DEF Call
    <2> QED
      BY <1>19, <1>20, <2>1, <2>2, <2>3 DEF Copied, InFile, Same
  <1>22. CASE full
    <2>1. t.ret = "overflow" /\ Copied(s, t, f, n, n) /\ t.count = s.count + n
      BY <1>3, <1>21, <1>22
    <2> QED
      BY <2>1, <1>6, <1>7, <1>9, <1>22
  <1>23. CASE ~ full /\ w.avail = 0
    <2>1. t.ret = "end_input" /\ Copied(s, t, f, n, n) /\ t.count = s.count + n /\ t.avail = 0
      BY <1>3, <1>21, <1>23
    <2> QED
      BY <2>1, <1>6, <1>7, <1>9
  <1>24. CASE ~ full /\ w.avail # 0
    <2>1. w.avail = s.avail - n
      BY <1>14, <1>19
    <2>2. n < s.avail /\ 1 \in 0..w.avail
      BY <2>1, <1>1, <1>6, <1>24
    <2>3. n < m
      <3>1. CASE s.hdr.len[f] = Null
        BY <3>1, <1>2, <2>2
      <3>2. CASE s.hdr.len[f] # Null
        <4>1. n # left
          BY <3>2, <1>24
        <4> QED
          BY <3>2, <4>1, <1>2, <1>9, <2>2, <1>1, <1>6
      <3> QED
        BY <3>1, <3>2
    <2>4. s.hdr.len[f] # Null => s.count + n < s.hdr.len[f]
      BY <2>3, <1>1, <1>2, <1>6
    <2>5. Copied(s, x, f, n, n + 1) /\ x.count = w.count /\ x.ret = w.ret
      BY <1>6, <1>20, <2>2, Skipped
    <2> HIDE DEF x
    <2>6. x \in Call
      BY <2>5 DEF Copied
    <2>7. PICK z \in Nat : z = 0 /\ t = [x EXCEPT !.count = z]
      BY <1>3, <1>24
    <2>8. t \in Call
      BY <2>6, <2>7 DEF Call
    <2>9. Same(x, t)
      BY <2>6, <2>7 DEF Call, Same
    <2>10. /\ t.hdr = x.hdr /\ t.tmp = x.tmp /\ t.next = x.next /\ t.avail = x.avail
           /\ t.count = 0 /\ t.ret = x.ret
      BY <2>6, <2>7 DEF Call
    <2>11. Copied(s, t, f, n, n + 1)
      BY <2>5, <2>8, <2>9, <2>10 DEF Copied, InFile, Same
    <2> QED
      BY <1>6, <1>7, <1>8, <1>9, <1>19, <2>2, <2>3, <2>4, <2>5, <2>10, <2>11
  <1> QED
    BY <1>22, <1>23, <1>24

-----------------------------------------------------------------------------
(* The stages behind the first, and what one of them may find.             *)
Later == {"extra_len", "extra", "name", "comment", "hcrc"}
Entries == {"new_hdr"} \cup Later

(* A call of isal_read_gzip_header, from stage to stage. Before stage b it *)
(* has not come to the stage it enters at, or it has been stopped, or it   *)
(* is at the beginning of stage b.                                         *)
Shape(s) ==
  /\ s \in Call /\ s.entry \in Entries /\ InFile(s) /\ s.start <= s.next /\ ~ s.wrapper /\ ~ s.hdr.dict_id
  /\ h.hcrc => s.hdr.hcrc = SumOf(s.entry, s.start)
  /\ s.entry = "extra_len" => FlagOf(s.entry) \in Flags

Untouched(s, b) ==
  /\ s.ret = "ok" /\ Place(b) <= Place(s.entry) /\ s.bs = s.entry /\ s.xcount = s.count
  /\ Stands(s.entry, s.next, s.tmp, s.count, s.hdr)
  /\ s.entry # "new_hdr" => s.flags = Flags

Stopped(s, b) ==
  /\ s.ret \in {"end_input", "overflow"}
  /\ Place(s.entry) <= Place(s.bs) /\ Place(s.bs) < Place(b)
  /\ Stands(s.bs, s.next, s.tmp, s.count, s.hdr)
  /\ h.hcrc => "hcrc" \in s.flags
  /\ s.ret = "overflow" => s.bs \in Fields /\ s.hdr.len[s.bs] # Null

Fresh(s, b) ==
  /\ s.ret = "ok" /\ Place(s.entry) < Place(b)
  /\ s.next = Start[b] /\ s.tmp = <<>> /\ s.count = 0
  /\ s.flags = Flags /\ s.hdr.flags = Flags
  /\ b = "extra" /\ HasExtra => s.xcount = h.extra /\ s.hdr.extra_len = h.extra
  /\ Kept(b, IF b = "extra" THEN h.extra ELSE 0, s.hdr)

Ready(s, b) == Shape(s) /\ (Untouched(s, b) \/ Stopped(s, b) \/ Fresh(s, b))

(* The call takes stage b.                                                 *)
LeftOf(s, b) == IF b = "extra" THEN s.xcount ELSE s.count

Inside(s, b) ==
  /\ Shape(s) /\ s.ret = "ok" /\ FlagOf(b) \in Flags /\ s.flags = Flags
  /\ Stands(b, s.next, s.tmp, LeftOf(s, b), s.hdr) /\ Place(s.entry) <= Place(b)
  /\ s.entry # b => s.tmp = <<>>

Follower == [new_hdr |-> "extra_len", extra_len |-> "extra", extra |-> "name",
             name |-> "comment", comment |-> "hcrc"]

LEMMA Places ==
  /\ Place("new_hdr") = 1 /\ Place("extra_len") = 2 /\ Place("extra") = 3
  /\ Place("name") = 4 /\ Place("comment") = 5 /\ Place("hcrc") = 6
  BY DEF Place, Stages

LEMMA FlagsAre ==
  ASSUME h \in GzipHdr
  PROVE  /\ Flags \subseteq UNDEFINED_FLAG
         /\ FlagOf("extra_len") \in Flags <=> h["extra"] # Null
         /\ FlagOf("extra") \in Flags <=> h["extra"] # Null
         /\ FlagOf("name") \in Flags <=> h["name"] # Null
         /\ FlagOf("comment") \in Flags <=> h["comment"] # Null
         /\ FlagOf("hcrc") \in Flags <=> h.hcrc
         /\ "hcrc" \in Flags <=> h.hcrc
         /\ FlagOf("new_hdr") \notin Flags
         /\ "extra" \in Flags <=> HasExtra
  BY DEF Flags, FlagOf, HasExtra, UNDEFINED_FLAG, GzipHdr

LEMMA StageTaken ==
  ASSUME h \in GzipHdr, NEW s, NEW b \in Later, Ready(s, b), Takes(s, b)
  PROVE  Inside(s, b)
  <1>1. s.ret = "ok" /\ ~ Stopped(s, b)
    BY DEF Takes, Stopped
  <1>2. CASE Untouched(s, b)
    <2>2. s.entry = b
      BY <1>2, Places DEF Takes, Untouched, Later, Ready, Shape, Entries
    <2>3. Stands(b, s.next, s.tmp, LeftOf(s, b), s.hdr) /\ s.flags = Flags
      BY <1>2, <2>2 DEF Untouched, LeftOf, Later
    <2>4. FlagOf(b) \in Flags
      BY <2>3 DEF Stands, Later
    <2> QED
      BY <1>1, <2>2, <2>3, <2>4, Places DEF Inside, Ready, Later
  <1>3. CASE Fresh(s, b)
    <2>1. Place(s.entry) < Place(b) /\ Place(s.entry) <= Place(b) /\ s.entry # b
      BY <1>3, Places DEF Fresh, Later, Ready, Shape, Entries
    <2>2. FlagOf(b) \in Flags
      <3>1. CASE s.entry = "extra_len" /\ b = "extra"
        BY <3>1 DEF Ready, Shape, FlagOf
      <3> QED
        BY <1>3, <2>1, <3>1 DEF Takes, Fresh
    <2>3. b \in Fields => h[b] \in Nat
      BY <2>2, FlagsAre DEF Fields, GzipHdr
    <2>4. CASE b = "extra"
      <3>1. HasExtra /\ LeftOf(s, b) = h.extra /\ h.extra \in Nat
        BY <1>3, <2>3, <2>4 DEF LeftOf, HasExtra, Fresh, Fields, Null
      <3>2. Got(b, b, h.extra) = 0 /\ Start[b] + 0 = Start[b]
        BY <2>4, <3>1, HeaderAssumption DEF Got, Passed, Start, HasExtra, GZIP_EXTRA_LEN
      <3>3. Stands(b, s.next, s.tmp, h.extra, s.hdr)
        BY <1>3, <2>2, <2>4, <3>1, <3>2 DEF Stands, Fresh, Fields
      <3> QED
        BY <1>1, <1>3, <2>1, <2>2, <3>1, <3>3 DEF Inside, Ready, Fresh
    <2>5. CASE b \in Strings
      <3>1. LeftOf(s, b) = 0 /\ h[b] \in Nat
        BY <1>3, <2>3, <2>5 DEF LeftOf, Fresh, Fields, Strings
      <3>2. Got(b, b, 0) = 0 /\ Start[b] + 0 = Start[b]
        BY <2>5, HeaderAssumption DEF Got, Passed, Start, Strings, SizeOf, GZIP_EXTRA_LEN, GzipHdr
      <3>3. Stands(b, s.next, s.tmp, 0, s.hdr)
        BY <1>3, <2>2, <2>5, <3>1, <3>2 DEF Stands, Fresh, Fields, Strings
      <3> QED
        BY <1>1, <1>3, <2>1, <2>2, <3>1, <3>3 DEF Inside, Ready, Fresh
    <2>6. CASE b \in {"extra_len", "hcrc"}
      <3>1. LeftOf(s, b) = 0 /\ Len(<<>>) = 0 /\ 0 < FixedLen[b]
        BY <1>3, <2>6 DEF LeftOf, Fresh, FixedLen, GZIP_EXTRA_LEN, GZIP_HCRC_LEN
      <3>2. Start[b] + 0 = Start[b]
        BY <2>6, HeaderAssumption DEF Start, SizeOf, GZIP_EXTRA_LEN, GzipHdr
      <3>3. Stands(b, s.next, s.tmp, 0, s.hdr)
        BY <1>3, <2>2, <2>6, <3>1, <3>2 DEF Stands, Fresh, Fields
      <3> QED
        BY <1>1, <1>3, <2>1, <2>2, <3>1, <3>3 DEF Inside, Ready, Fresh
    <2> QED
      BY <2>4, <2>5, <2>6 DEF Later, Strings
  <1> QED
    BY <1>1, <1>2, <1>3 DEF Ready

LEMMA StartsAre ==
  ASSUME h \in GzipHdr
  PROVE  /\ \A b \in Entries : Start[b] \in Nat
         /\ Start["new_hdr"] = 0 /\ Start["extra_len"] = HdrBase
         /\ h.extra # Null => /\ Start["extra"] = HdrBase + GZIP_EXTRA_LEN
                             /\ Start["name"] = Start["extra"] + h.extra
         /\ h.extra = Null => Start["extra"] = HdrBase /\ Start["name"] = HdrBase
         /\ Start["comment"] = Start["name"] + SizeOf(h.name, 1)
         /\ Start["hcrc"] = Start["comment"] + SizeOf(h.comment, 1)
  <1>1. /\ SizeOf(h.extra, GZIP_EXTRA_LEN) \in Nat /\ SizeOf(h.name, 1) \in Nat
        /\ SizeOf(h.comment, 1) \in Nat /\ HdrBase \in Nat
    BY HeaderAssumption DEF SizeOf, GZIP_EXTRA_LEN, GzipHdr
  <1>2. \A b \in Entries : Start[b] \in Nat
    BY <1>1 DEF Start, Entries, Later, GZIP_EXTRA_LEN
  <1>3. /\ Start["new_hdr"] = 0 /\ Start["extra_len"] = HdrBase
        /\ Start["comment"] = Start["name"] + SizeOf(h.name, 1)
        /\ Start["hcrc"] = Start["comment"] + SizeOf(h.comment, 1)
    BY DEF Start
  <1>4. ASSUME h.extra # Null
        PROVE  /\ Start["extra"] = HdrBase + GZIP_EXTRA_LEN
               /\ Start["name"] = Start["extra"] + h.extra
    <2>1. /\ Start["extra"] = HdrBase + 2 /\ Start["name"] = HdrBase + (h.extra + 2)
          /\ h.extra \in Nat
      BY <1>4 DEF Start, HasExtra, SizeOf, GZIP_EXTRA_LEN, GzipHdr
    <2> QED
      BY <2>1, <1>1 DEF GZIP_EXTRA_LEN
  <1>5. h.extra = Null => Start["extra"] = HdrBase /\ Start["name"] = HdrBase
    BY <1>1 DEF Start, HasExtra, SizeOf
  <1> QED
    BY <1>2, <1>3, <1>4, <1>5

LEMMA StagePassed ==
  ASSUME h \in GzipHdr, NEW s, NEW b \in Later \ {"hcrc"}, Ready(s, b), ~ Takes(s, b)
  PROVE  Ready(s, Follower[b])
  <1> DEFINE g == Follower[b]
  <1>1. /\ Place(b) < Place(g) /\ Place(g) = Place(b) + 1 /\ Place(b) \in Nat /\ g \in Later
        /\ g # "extra_len" /\ (g = "extra" <=> b = "extra_len")
    BY Places DEF Follower, Later
  <1>2. Shape(s) /\ s.entry \in Entries /\ Place(s.entry) \in Nat
    BY Places DEF Ready, Shape, Entries, Later
  <1>3. CASE Untouched(s, b)
    <2>1. s.entry # b
      BY <1>3 DEF Takes, Untouched
    <2>2. Place(g) <= Place(s.entry)
      <3>1. Place(s.entry) # Place(b)
        BY <2>1, <1>2, Places DEF Entries, Later
      <3> QED
        BY <3>1, <1>1, <1>2, <1>3 DEF Untouched
    <2> QED
      BY <1>2, <1>3, <2>2 DEF Ready, Untouched
  <1>4. CASE Stopped(s, b)
    <2>1. s.bs \in Entries
      BY <1>4 DEF Stopped, Stands, Fields, Entries, Later
    <2>2. Place(s.bs) < Place(g)
      BY <1>1, <1>4, <2>1, Places DEF Stopped, Entries, Later
    <2> QED
      BY <1>2, <1>4, <2>2 DEF Ready, Stopped
  <1>5. CASE Fresh(s, b)
    <2>1. Place(s.entry) < Place(g)
      BY <1>1, <1>2, <1>5 DEF Fresh
    <2>2. FlagOf(b) \notin Flags
      BY <1>5 DEF Takes, Fresh
    <2>3. /\ b \in {"extra_len", "extra"} => h["extra"] = Null
          /\ b \in Fields => h[b] = Null
      BY <2>2, FlagsAre DEF Fields
    <2>4. Start[g] = Start[b] /\ ~ (g = "extra" /\ HasExtra)
      <3> h.extra = h["extra"] /\ h.name = h["name"] /\ h.comment = h["comment"]
        OBVIOUS
      <3>1. CASE b = "extra_len"
        BY <3>1, <2>3, StartsAre DEF Follower, HasExtra
      <3>2. CASE b = "extra"
        BY <3>2, <2>3, StartsAre DEF Follower, Fields
      <3>3. CASE b = "name"
        <4>1. SizeOf(h.name, 1) = 0 /\ Start["name"] \in Nat
          BY <3>3, <2>3, StartsAre DEF SizeOf, Fields, Entries, Later
        <4> QED
          BY <3>3, <4>1, StartsAre DEF Follower
      <3>4. CASE b = "comment"
        <4>1. SizeOf(h.comment, 1) = 0 /\ Start["comment"] \in Nat
          BY <3>4, <2>3, StartsAre DEF SizeOf, Fields, Entries, Later
        <4> QED
          BY <3>4, <4>1, StartsAre DEF Follower
      <3> QED
        BY <3>1, <3>2, <3>3, <3>4 DEF Later
    <2>5. Kept(g, IF g = "extra" THEN h.extra ELSE 0, s.hdr)
      <3> DEFINE l == IF b = "extra" THEN h.extra ELSE 0
                 k == IF g = "extra" THEN h.extra ELSE 0
      <3>1. \A f \in Fields : Got(g, f, k) = Got(b, f, l)
        BY <2>3 DEF Got, Passed, Follower, Later, Fields, SizeOf, Null
      <3>2. \A f \in Strings : f \in Passed[g] /\ h[f] # Null => f \in Passed[b]
        BY <2>3 DEF Passed, Follower, Later, Fields, Strings
      <3>3. Kept(b, l, s.hdr)
        BY <1>5 DEF Fresh
      <3> HIDE DEF k, l, g
      <3>4. Kept(g, k, s.hdr)
        BY <3>1, <3>2, <3>3 DEF Kept
      <3> QED
        BY <3>4 DEF k, g
    <2> QED
      BY <1>2, <1>5, <2>1, <2>4, <2>5 DEF Ready, Fresh
  <1> QED
    BY <1>3, <1>4, <1>5 DEF Ready

(* What is copied is the next part of the field.                           *)
LEMMA FieldGrows ==
  ASSUME h \in GzipHdr, file = GzipBytes \o Data, NEW f \in Fields, h[f] \in Nat,
         NEW s \in Call, InFile(s), NEW k \in Nat, NEW n \in 0..s.avail, k + n <= h[f],
         s.next = Start[f] + k
  PROVE  Field(f, k) \o Bytes(s, n) = Field(f, k + n)
  <1> DEFINE u == Field(f, k)
             v == Bytes(s, n)
             w == Field(f, k + n)
  <1>1. /\ f \in Names /\ s.avail \in Nat /\ n \in Nat /\ k + n \in Nat /\ h[f] # Null
        /\ Start[f] \in Nat
    <2>1. f \in Names /\ f \in Entries
      BY DEF Names, Fields, Entries, Later
    <2>2. s.avail \in Nat
      BY DEF Call
    <2>3. Start[f] \in Nat
      BY <2>1, StartsAre
    <2> QED
      BY <2>1, <2>2, <2>3 DEF Null
  <1>2. u \in Seq(Octets) /\ Len(u) = k /\ \A i \in 1..k : u[i] = <<f, i>>
    BY <1>1, FieldTyped
  <1>3. w \in Seq(Octets) /\ Len(w) = k + n /\ \A i \in 1..k + n : w[i] = <<f, i>>
    BY <1>1, FieldTyped
  <1>4. v \in Seq(Octets) /\ Len(v) = n /\ \A i \in 1..n : v[i] = file[s.next + i]
    BY CutBytes, Layout
  <1>5. \A i \in 1..n : v[i] = <<f, k + i>>
    <2> SUFFICES ASSUME NEW i \in 1..n PROVE v[i] = <<f, k + i>>
      OBVIOUS
    <2>1. k + i \in 1..h[f] /\ s.next + i = Start[f] + (k + i)
      BY <1>1
    <2>2. file[Start[f] + (k + i)] = <<f, k + i>>
      BY <1>1, <2>1, Layout
    <2> QED
      BY <1>4, <2>1, <2>2
  <1> HIDE DEF u, v, w
  <1>6. u \o v \in Seq(Octets) /\ Len(u \o v) = Len(u) + Len(v)
    BY <1>2, <1>4, Joined
  <1>7. \A i \in 1..k : (u \o v)[i] = <<f, i>>
    BY <1>2, <1>4, Joined
  <1>8. \A i \in 1..n : (u \o v)[k + i] = <<f, k + i>>
    BY <1>2, <1>4, <1>5, Joined
  <1>9. \A i \in 1..k + n : (u \o v)[i] = w[i]
    <2> SUFFICES ASSUME NEW i \in 1..k + n PROVE (u \o v)[i] = <<f, i>>
      BY <1>3
    <2>1. CASE i <= k
      <3>1. i \in 1..k
        BY <2>1
      <3> QED
        BY <3>1, <1>7
    <2>2. CASE ~ (i <= k)
      <3>1. i - k \in 1..n /\ k + (i - k) = i
        BY <2>2, <1>1
      <3> QED
        BY <3>1, <1>8
    <2> QED
      BY <2>1, <2>2
  <1>10. u \o v = w
    BY <1>2, <1>3, <1>4, <1>6, <1>9, SeqEqual
  <1> QED
    BY <1>10 DEF u, v, w

LEMMA KeptGrows ==
  ASSUME h \in GzipHdr, file = GzipBytes \o Data, NEW f \in Fields, h[f] \in Nat,
         NEW s \in Call, InFile(s), NEW l, NEW k \in Nat, k = Got(f, f, l),
         NEW n \in 0..s.avail, k + n <= h[f], s.next = Start[f] + k, Kept(f, l, s.hdr),
         NEW m, NEW t, Copied(s, t, f, n, m),
         s.hdr.len[f] # Null => k + n <= s.hdr.len[f],
         NEW b, b = f \/ b = Follower[f], NEW j, Got(b, f, j) = k + n,
         \A g \in Fields \ {f} : Got(b, g, j) = Got(f, g, l),
         b # f /\ f \in Strings /\ s.hdr.len[f] # Null => h[f] < s.hdr.len[f]
  PROVE  Kept(b, j, t.hdr)
  <1>1. \A g \in Fields : g \in Passed[b] /\ g # f => g \in Passed[f]
    BY DEF Passed, Follower, Fields
  <1>2. f \notin Passed[f]
    BY DEF Passed, Fields
  <1>3. t.hdr.len = s.hdr.len
    BY DEF Copied
  <1> SUFFICES ASSUME NEW g \in Fields, s.hdr.len[g] # Null
               PROVE  /\ t.hdr.buf[g] = Field(g, Got(b, g, j))
                      /\ Got(b, g, j) <= s.hdr.len[g]
                      /\ g \in Strings /\ g \in Passed[b] /\ h[g] # Null => h[g] < s.hdr.len[g]
    BY <1>3 DEF Kept
  <1>4. CASE g # f
    <2>1. t.hdr.buf[g] = s.hdr.buf[g] /\ Got(b, g, j) = Got(f, g, l)
      BY <1>4 DEF Copied
    <2> QED
      BY <1>1, <1>4, <2>1 DEF Kept
  <1>5. CASE g = f
    <2>1. t.hdr.buf[f] = s.hdr.buf[f] \o Bytes(s, n) /\ s.hdr.buf[f] = Field(f, k)
      BY <1>5 DEF Copied, Kept
    <2>2. t.hdr.buf[f] = Field(f, k + n)
      BY <2>1, FieldGrows
    <2> QED
      BY <1>2, <1>5, <2>2
  <1> QED
    BY <1>4, <1>5

LEMMA ShapeKept ==
  ASSUME NEW s, Shape(s), NEW t \in Call, Same(s, t), InFile(t), s.next <= t.next,
         t.hdr.dict_id = s.hdr.dict_id, h.hcrc => t.hdr.hcrc = s.hdr.hcrc
  PROVE  Shape(t)
  <1>1. s.start \in Nat /\ s.next \in Nat /\ t.next \in Nat
    BY DEF Shape, Call
  <1>2. t.start <= t.next
    BY <1>1 DEF Shape, Same
  <1> QED
    BY <1>2 DEF Shape, Same

(* A stage that cannot finish leaves its name in block_state.              *)
LEMMA StageStops ==
  ASSUME h \in GzipHdr, NEW t, Shape(t), t.ret \in {"end_input", "overflow"},
         NEW b \in Entries, Stands(b, t.next, t.tmp, t.count, t.hdr),
         h.hcrc => "hcrc" \in t.flags,
         t.ret = "overflow" => b \in Fields /\ t.hdr.len[b] # Null,
         Place(t.entry) <= Place(b),
         NEW u, u = [t EXCEPT !.bs = b], NEW g, Place(b) < Place(g)
  PROVE  Ready(u, g)
  <1>1. t \in Call
    BY DEF Shape
  <1>2. u \in Call
    BY <1>1 DEF Call, Entries, Later, Sites
  <1>3. /\ u.bs = b /\ u.hdr = t.hdr /\ u.next = t.next /\ u.avail = t.avail /\ u.tmp = t.tmp
        /\ u.count = t.count /\ u.ret = t.ret
    BY <1>1 DEF Call
  <1>4. /\ u.flags = t.flags /\ u.start = t.start /\ u.entry = t.entry /\ u.wrapper = t.wrapper
    BY <1>1 DEF Call
  <1>5. Shape(u)
    BY <1>2, <1>3, <1>4 DEF Shape, InFile
  <1>6. Stopped(u, g)
    BY <1>3, <1>4 DEF Stopped
  <1> QED
    BY <1>5, <1>6 DEF Ready

LEMMA BaseRead ==
  ASSUME h \in GzipHdr, file = GzipBytes \o Data, NEW s, Shape(s), Untouched(s, "new_hdr")
  PROVE  Ready(ReadBase(s), "extra_len")
  <1>1. s \in Call /\ s.entry \in Entries
    BY DEF Shape
  <1>2. CASE s.entry # "new_hdr"
    <2>1. ~ Takes(s, "new_hdr")
      BY <1>1, <1>2, Places DEF Takes, Entries, Later
    <2>2. ReadBase(s) = s
      BY <2>1 DEF ReadBase, Stage
    <2>3. Place("extra_len") <= Place(s.entry)
      BY <1>1, <1>2, Places DEF Entries, Later
    <2> QED
      BY <2>2, <2>3 DEF Ready, Untouched
  <1>3. CASE s.entry = "new_hdr"
    <2> DEFINE c == IF s.tmp = <<>> THEN <<>> ELSE s.hdr.hcrc
               d == [s.hdr EXCEPT !.hcrc = c]
               z == [s EXCEPT !.count = 0, !.flags = UNDEFINED_FLAG, !.hdr = d]
               t == fixed_size_read(z, HdrBase)
               x == IF "extra" \in Flags THEN t.hdr.extra_len ELSE 0
               e == [t.hdr EXCEPT !.flags = Flags, !.extra_len = x]
               w == [t EXCEPT !.flags = Flags, !.hdr = e]
               u == [t EXCEPT !.bs = "new_hdr"]
    <2>1. /\ Takes(s, "new_hdr") /\ s.ret = "ok"
          /\ Stands("new_hdr", s.next, s.tmp, s.count, s.hdr)
      BY <1>3 DEF Takes, Untouched
    <2>2. s.hdr \in Hdr /\ s.hdr.hcrc \in Seq(Octets) /\ s.count \in Nat
      BY <1>1 DEF Call, Hdr
    <2>3. c \in Seq(Octets)
      BY <2>2, EmptySeq
    <2>4. z = [s EXCEPT !.count = 0, !.flags = UNDEFINED_FLAG,
                        !.hdr.hcrc = IF s.tmp = <<>> THEN <<>> ELSE @]
      BY <1>1, <2>2 DEF Call, Hdr
    <2>5. s.tmp = <<>> => SubSeq(file, 1, s.start) = <<>>
      <3>1. s.start \in Nat /\ s.next \in Nat /\ s.start <= s.next
        BY <1>1 DEF Shape, Call
      <3>2. s.next = 0 + Len(s.tmp)
        BY <2>1, StartsAre DEF Stands, Fields
      <3>3. ASSUME s.tmp = <<>> PROVE s.start = 0
        BY <3>1, <3>2, <3>3
      <3> QED
        BY <3>3, SubSeqEmpty
    <2>6. h.hcrc => c = s.hdr.hcrc
      BY <1>3, <2>5 DEF Shape, SumOf
    <2> HIDE DEF c
    <2>7. /\ d \in Hdr /\ d.dict_id = s.hdr.dict_id /\ d.hcrc = c /\ d.buf = s.hdr.buf
          /\ d.len = s.hdr.len
      BY <2>2, <2>3 DEF Hdr
    <2> HIDE DEF d
    <2>8. z \in Call
      BY <1>1, <2>7 DEF Call
    <2>9. /\ z.entry = s.entry /\ z.start = s.start /\ z.bs = s.bs /\ z.xcount = s.xcount
          /\ z.wrapper = s.wrapper /\ z.flags = UNDEFINED_FLAG /\ z.count = 0
      BY <1>1 DEF Call
    <2>10. /\ z.hdr = d /\ z.next = s.next /\ z.avail = s.avail /\ z.tmp = s.tmp
           /\ z.ret = s.ret
      BY <1>1 DEF Call
    <2> HIDE DEF z
    <2>11. Shape(z)
      BY <2>6, <2>7, <2>8, <2>9, <2>10 DEF Shape, InFile
    <2>12. Len(z.tmp) < HdrBase /\ HdrBase \in Nat /\ Len(z.tmp) <= HdrBase /\ z.next = Len(z.tmp)
      <3>1. Len(s.tmp) \in Nat
        BY <1>1, LenProperties DEF Call
      <3>2. Len(s.tmp) < HdrBase /\ s.next = 0 + Len(s.tmp)
        BY <2>1, StartsAre DEF Stands, Fields, FixedLen
      <3> QED
        BY <3>1, <3>2, <2>10, HeaderAssumption
    <2>13. /\ t \in Call /\ Same(z, t) /\ t.hdr = d /\ t.count = 0 /\ InFile(t)
           /\ z.next <= t.next
           /\ \/ /\ t.ret = "end_input" /\ t.next = z.next + z.avail /\ t.avail = 0
                 /\ Len(t.tmp) = Len(z.tmp) + z.avail /\ Len(t.tmp) < HdrBase
              \/ /\ t.ret = "ok" /\ t.tmp = <<>> /\ t.next = z.next + (HdrBase - Len(z.tmp))
      BY <2>1, <2>8, <2>9, <2>10, <2>11, <2>12, Layout, FixedRead DEF Shape
    <2> HIDE DEF t
    <2>14. Shape(t)
      BY <2>10, <2>11, <2>13, ShapeKept
    <2>15. Kept("new_hdr", 0, d)
      <3>1. Kept("new_hdr", 0, s.hdr)
        BY <2>1 DEF Stands, Fields
      <3> QED
        BY <3>1, <2>7 DEF Kept
    <2>16. CASE t.ret # "ok"
      <3>1. t.next = Len(t.tmp) /\ Len(t.tmp) \in Nat
        <4>1. z.avail \in Nat /\ Len(z.tmp) \in Nat /\ Len(t.tmp) \in Nat
          BY <2>8, <2>13, LenProperties DEF Call
        <4> QED
          BY <4>1, <2>12, <2>13, <2>16
      <3>2. Stands("new_hdr", t.next, t.tmp, t.count, t.hdr)
        BY <3>1, <2>13, <2>15, <2>16, StartsAre DEF Stands, Fields, FixedLen
      <3>3. "hcrc" \in t.flags
        BY <2>9, <2>13 DEF Same, UNDEFINED_FLAG
      <3>4. Ready(u, "extra_len")
        <4>1. Place(t.entry) <= Place("new_hdr")
          BY <1>3, <2>9, <2>13, Places DEF Same
        <4> QED
          <5>1. t.ret = "end_input" /\ "new_hdr" \in Entries
            BY <2>13, <2>16 DEF Entries
          <5>2. Place("new_hdr") < Place("extra_len")
            BY Places
          <5> QED
            BY <2>14, <3>2, <3>3, <4>1, <5>1, <5>2, StageStops
      <3>5. ReadBase(s) = u
        BY <2>1, <2>4, <2>16 DEF ReadBase, Stage, t
      <3> QED
        BY <3>4, <3>5
    <2>17. CASE t.ret = "ok"
      <3>1. x \in Nat /\ Flags \subseteq UNDEFINED_FLAG
        BY <2>7, <2>13, FlagsAre DEF Hdr
      <3> HIDE DEF x
      <3>2. /\ e \in Hdr /\ e.flags = Flags /\ e.dict_id = d.dict_id /\ e.hcrc = d.hcrc
            /\ e.buf = d.buf /\ e.len = d.len
        BY <2>7, <2>13, <3>1 DEF Hdr
      <3>3. w = [t EXCEPT !.flags = Flags, !.hdr.flags = Flags,
                          !.hdr.extra_len = IF "extra" \in Flags THEN @ ELSE 0]
        BY <2>7, <2>13 DEF Call, Hdr, x
      <3> HIDE DEF e
      <3>4. w \in Call
        BY <2>13, <3>1, <3>2 DEF Call
      <3>5. /\ w.entry = t.entry /\ w.start = t.start /\ w.wrapper = t.wrapper /\ w.next = t.next
            /\ w.avail = t.avail
        BY <2>13 DEF Call
      <3>6. /\ w.hdr = e /\ w.flags = Flags /\ w.tmp = t.tmp /\ w.count = t.count /\ w.ret = "ok"
        BY <2>13, <2>17 DEF Call
      <3> HIDE DEF w
      <3>7. Shape(w)
        BY <2>13, <2>14, <3>2, <3>4, <3>5, <3>6 DEF Shape, InFile
      <3>8. w.next = Start["extra_len"]
        <4>1. Len(z.tmp) \in Nat
          BY <2>8, LenProperties DEF Call
        <4> QED
          BY <4>1, <2>12, <2>13, <2>17, <3>5, StartsAre
      <3>9. Kept("extra_len", 0, e)
        BY <2>15, <3>2 DEF Kept, Got, Passed, Fields
      <3>10. Place(w.entry) < Place("extra_len")
        BY <1>3, <2>9, <2>13, <3>5, Places DEF Same
      <3>11. Fresh(w, "extra_len")
        BY <2>13, <2>17, <3>2, <3>6, <3>8, <3>9, <3>10 DEF Fresh
      <3>12. ReadBase(s) = w
        <4>1. ReadBase(s) = Stage(s, "new_hdr", w)
          BY <2>4, <2>17, <3>3 DEF ReadBase, t
        <4>2. Stage(s, "new_hdr", w) = w
          BY <2>1, <3>6 DEF Stage
        <4> QED
          BY <4>1, <4>2
      <3> QED
        BY <3>7, <3>11, <3>12 DEF Ready
    <2> QED
      BY <2>16, <2>17
  <1> QED
    BY <1>2, <1>3

LEMMA ExtraLenRead ==
  ASSUME h \in GzipHdr, file = GzipBytes \o Data, NEW s, Ready(s, "extra_len")
  PROVE  Ready(ReadExtraLen(s), "extra")
  <1>1. CASE ~ Takes(s, "extra_len")
    <2>1. ReadExtraLen(s) = s
      BY <1>1 DEF ReadExtraLen, Stage
    <2> QED
      BY <1>1, <2>1, StagePassed DEF Later, Follower
  <1>2. CASE Takes(s, "extra_len")
    <2> DEFINE t == fixed_size_read(s, GZIP_EXTRA_LEN)
               d == [t.hdr EXCEPT !.extra_len = h.extra]
               w == [t EXCEPT !.xcount = h.extra, !.hdr = d]
               u == [t EXCEPT !.bs = "extra_len"]
    <2>1. Inside(s, "extra_len")
      BY <1>2, StageTaken DEF Later
    <2>2. /\ s \in Call /\ InFile(s) /\ s.ret = "ok" /\ s.flags = Flags /\ s.hdr.flags = Flags
          /\ h.extra \in Nat /\ HasExtra /\ Shape(s) /\ Place(s.entry) <= Place("extra_len")
      BY <2>1, FlagsAre DEF Inside, Shape, Stands, GzipHdr, HasExtra
    <2>3. /\ s.count = 0 /\ Len(s.tmp) < 2 /\ s.next = HdrBase + Len(s.tmp)
          /\ Kept("extra_len", 0, s.hdr) /\ FlagOf("extra_len") \in Flags
      BY <2>1, StartsAre DEF Inside, Stands, LeftOf, Fields, FixedLen, GZIP_EXTRA_LEN
    <2>4. Len(s.tmp) \in Nat /\ Len(s.tmp) <= 2 /\ s.avail \in Nat /\ HdrBase \in Nat /\ s.next \in Nat
      BY <2>2, <2>3, LenProperties, HeaderAssumption DEF Call
    <2>5. /\ t \in Call /\ Same(s, t) /\ t.hdr = s.hdr /\ t.count = 0 /\ InFile(t)
          /\ s.next <= t.next
          /\ \/ /\ t.ret = "end_input" /\ t.next = s.next + s.avail /\ t.avail = 0
                /\ Len(t.tmp) = Len(s.tmp) + s.avail /\ Len(t.tmp) < 2
             \/ /\ t.ret = "ok" /\ t.tmp = <<>> /\ t.next = s.next + (2 - Len(s.tmp))
      <3>1. file \in Seq(Octets)
        BY Layout
      <3>2. GZIP_EXTRA_LEN = 2 /\ 2 \in Nat /\ t = fixed_size_read(s, 2)
        BY DEF GZIP_EXTRA_LEN
      <3> HIDE DEF t
      <3>3. s \in Call /\ InFile(s) /\ Len(s.tmp) <= 2
        BY <2>2, <2>4, Zenon
      <3>4. /\ t \in Call /\ Same(s, t) /\ t.hdr = s.hdr /\ t.count = s.count /\ InFile(t)
            /\ s.next <= t.next
            /\ \/ /\ t.ret = "end_input" /\ t.next = s.next + s.avail /\ t.avail = 0
                  /\ Len(t.tmp) = Len(s.tmp) + s.avail /\ Len(t.tmp) < 2
               \/ /\ t.ret = s.ret /\ t.tmp = <<>> /\ t.next = s.next + (2 - Len(s.tmp))
        BY <3>1, <3>2, <3>3, FixedRead
      <3>5. s.ret = "ok" /\ s.count = 0
        BY <2>2, <2>3, Zenon
      <3>6. QED
        BY <3>4, <3>5, Zenon
    <2> HIDE DEF t
    <2>6. Shape(t)
      BY <2>2, <2>5, ShapeKept
    <2>7. CASE t.ret # "ok"
      <3>1. t.next = HdrBase + Len(t.tmp)
        <4>1. t.next = s.next + s.avail /\ Len(t.tmp) = Len(s.tmp) + s.avail
          BY <2>5, <2>7, Zenon
        <4>2. PICK x \in Nat, v \in Nat, b \in Nat : x = Len(s.tmp) /\ v = s.avail /\ b = HdrBase
          BY <2>4, Zenon
        <4>3. s.next = b + x
          BY <2>3, <4>2, Zenon
        <4>4. (b + x) + v = b + (x + v)
          OBVIOUS
        <4>5. QED
          BY <4>1, <4>2, <4>3, <4>4, Zenon
      <3>2. Stands("extra_len", t.next, t.tmp, t.count, t.hdr)
        BY <2>2, <2>3, <2>5, <2>7, <3>1, StartsAre DEF Stands, Fields, FixedLen, GZIP_EXTRA_LEN
      <3>3. h.hcrc => "hcrc" \in t.flags
        BY <2>2, <2>5, FlagsAre DEF Same
      <3>4. Ready(u, "extra")
        <4>1. Place(t.entry) <= Place("extra_len")
          BY <2>2, <2>5 DEF Same
        <4> QED
          BY <2>5, <2>6, <2>7, <3>2, <3>3, <4>1, Places, StageStops DEF Entries, Later
      <3>5. ReadExtraLen(s) = u
        BY <1>2, <2>7 DEF ReadExtraLen, Stage, t
      <3> QED
        BY <3>4, <3>5
    <2>8. CASE t.ret = "ok"
      <3>1. t.hdr \in Hdr
        BY <2>5 DEF Call
      <3>2. /\ d \in Hdr /\ d.flags = s.hdr.flags /\ d.dict_id = s.hdr.dict_id
            /\ d.hcrc = s.hdr.hcrc /\ d.extra_len = h.extra
            /\ d.buf = s.hdr.buf /\ d.len = s.hdr.len
        BY <2>2, <2>5, <3>1 DEF Hdr
      <3>3. w = [t EXCEPT !.xcount = h.extra, !.hdr.extra_len = h.extra]
        BY <2>5 DEF Call
      <3> HIDE DEF d
      <3>4. w \in Call
        BY <2>2, <2>5, <3>2 DEF Call
      <3>5. /\ w.entry = t.entry /\ w.start = t.start /\ w.wrapper = t.wrapper /\ w.next = t.next
            /\ w.avail = t.avail /\ w.flags = t.flags
        BY <2>5 DEF Call
      <3>6. /\ w.hdr = d /\ w.xcount = h.extra /\ w.tmp = t.tmp /\ w.count = t.count
            /\ w.ret = "ok"
        BY <2>5, <2>8 DEF Call
      <3> HIDE DEF w
      <3>7. Shape(w)
        BY <2>5, <2>6, <3>2, <3>4, <3>5, <3>6 DEF Shape, InFile
      <3>8. w.next = Start["extra"]
        BY <2>2, <2>3, <2>4, <2>5, <2>8, <3>5, StartsAre DEF HasExtra, GZIP_EXTRA_LEN
      <3>9. Kept("extra", h.extra, d)
        <4>1. \A f \in Fields : Got("extra", f, h.extra) = Got("extra_len", f, 0)
          BY <2>2 DEF Got, Passed, Fields
        <4>2. Passed["extra"] = {}
          BY DEF Passed
        <4> QED
          BY <2>3, <3>2, <4>1, <4>2 DEF Kept
      <3>10. Place(w.entry) < Place("extra")
        BY <2>2, <2>5, <3>5, <3>7, Places DEF Same, Shape, Entries, Later
      <3>11. Fresh(w, "extra")
        BY <2>2, <2>5, <2>8, <3>2, <3>5, <3>6, <3>8, <3>9, <3>10 DEF Fresh, Same
      <3>12. ReadExtraLen(s) = w
        BY <1>2, <2>8, <3>3, <3>6 DEF ReadExtraLen, Stage, t
      <3> QED
        BY <3>7, <3>11, <3>12 DEF Ready
    <2> QED
      BY <2>7, <2>8
  <1> QED
    BY <1>1, <1>2

LEMMA ExtraRead ==
  ASSUME h \in GzipHdr, file = GzipBytes \o Data, NEW s, Ready(s, "extra")
  PROVE  Ready(ReadExtra(s), "name")
  <1>1. CASE ~ Takes(s, "extra")
    <2>1. ReadExtra(s) = s
      BY <1>1 DEF ReadExtra, Stage
    <2> QED
      BY <1>1, <2>1, StagePassed DEF Later, Follower
  <1>2. CASE Takes(s, "extra")
    <2> DEFINE l == s.xcount
               k == h.extra - l
               t == buffer_header_copy(s, l, "extra", s.hdr.extra_len - l)
               u == [t EXCEPT !.bs = "extra"]
    <2>1. Inside(s, "extra")
      BY <1>2, StageTaken DEF Later
    <2>2. /\ s \in Call /\ InFile(s) /\ s.ret = "ok" /\ s.flags = Flags /\ s.hdr.flags = Flags
          /\ h.extra \in Nat /\ HasExtra /\ Shape(s) /\ Place(s.entry) <= Place("extra")
      BY <2>1, FlagsAre DEF Inside, Shape, Stands, GzipHdr, HasExtra
    <2>3. /\ l \in 0..h.extra /\ s.tmp = <<>> /\ s.next = Start["extra"] + k
          /\ Kept("extra", l, s.hdr) /\ FlagOf("extra") \in Flags /\ s.hdr.extra_len = h.extra
          /\ k = Got("extra", "extra", l)
      BY <2>1 DEF Inside, Stands, LeftOf, Fields, Got, Passed
    <2>4. k \in Nat /\ k + l = h.extra /\ l \in Nat
      BY <2>2, <2>3
    <2>5. s.hdr.len["extra"] # Null => 0 <= k /\ k <= s.hdr.len["extra"]
      BY <2>3, <2>4 DEF Kept, Fields
    <2>6. t = buffer_header_copy(s, l, "extra", k)
      BY <2>3
    <2> HIDE DEF k, l, t
    <2>7. PICK n \in 0..s.avail : PartCopied(s, t, "extra", l, k, n)
      <3> "extra" \in Fields /\ k \in Int /\ file \in Seq(Octets)
        BY <2>4, Layout DEF Fields
      <3>1. s \in Call /\ InFile(s) /\ l \in Nat
        BY <2>2, <2>4
      <3> QED
        BY <3>1, <2>5, <2>6, BufferCopied
    <2>8. /\ n <= l /\ Copied(s, t, "extra", n, n) /\ t.count = l - n
          /\ s.hdr.len["extra"] # Null => k + n <= s.hdr.len["extra"]
          /\ \/ t.ret = "ok" /\ n = l
             \/ t.ret = "end_input" /\ t.avail = 0
             \/ t.ret = "overflow" /\ s.hdr.len["extra"] # Null
      BY <2>7 DEF PartCopied
    <2>9. /\ n \in Nat /\ k + n <= h.extra /\ k + n \in Nat /\ l - n \in 0..h.extra
          /\ h.extra - (l - n) = k + n
      <3>1. s.avail \in Nat
        BY <2>2 DEF Call
      <3>2. n \in Nat
        BY <3>1
      <3>3. n <= l
        BY <2>8
      <3> QED
        BY <2>4, <3>2, <3>3
    <2>10. t \in Call /\ Same(s, t) /\ InFile(t) /\ t.next = s.next + n /\ t.tmp = <<>>
      BY <2>3, <2>8 DEF Copied
    <2>11. /\ t.hdr.flags = Flags /\ t.hdr.hcrc = s.hdr.hcrc /\ t.hdr.len = s.hdr.len
           /\ t.hdr.extra_len = h.extra /\ t.hdr.dict_id = s.hdr.dict_id
      BY <2>2, <2>3, <2>8 DEF Copied
    <2>12. s.next <= t.next /\ t.next = Start["extra"] + (k + n) /\ Start["extra"] \in Nat
      <3>1. Start["extra"] \in Nat
        BY StartsAre DEF Entries, Later
      <3> QED
        BY <2>3, <2>4, <2>9, <2>10, <3>1
    <2>13. Shape(t)
      BY <2>2, <2>10, <2>11, <2>12, ShapeKept
    <2>14. h["extra"] \in Nat /\ k + n <= h["extra"] /\ "extra" \notin Strings
      BY <2>2, <2>9 DEF Strings
    <2>15. CASE t.ret # "ok"
      <3>1. Got("extra", "extra", l - n) = k + n
        BY <2>9 DEF Got, Passed
      <3>2. \A g \in Fields \ {"extra"} : Got("extra", g, l - n) = Got("extra", g, l)
        BY DEF Got
      <3>3. Kept("extra", l - n, t.hdr)
        BY <2>2, <2>3, <2>4, <2>8, <2>14, <3>1, <3>2, KeptGrows DEF Fields
      <3>4. Stands("extra", t.next, t.tmp, t.count, t.hdr)
        BY <2>3, <2>8, <2>9, <2>10, <2>11, <2>12, <3>1, <3>3 DEF Stands, Fields
      <3>5. h.hcrc => "hcrc" \in t.flags
        BY <2>2, <2>10, FlagsAre DEF Same
      <3>6. Ready(u, "name")
        <4>1. Place(t.entry) <= Place("extra")
          BY <2>2, <2>10 DEF Same
        <4> QED
          <5>1. /\ t.ret \in {"end_input", "overflow"} /\ "extra" \in Entries
                /\ t.ret = "overflow" => "extra" \in Fields /\ t.hdr.len["extra"] # Null
            BY <2>8, <2>11, <2>15 DEF Entries, Later, Fields
          <5>2. Place("extra") < Place("name")
            BY Places
          <5> QED
            BY <2>13, <3>4, <3>5, <4>1, <5>1, <5>2, StageStops
      <3>7. ReadExtra(s) = u
        BY <1>2, <2>15 DEF ReadExtra, Stage, t, l
      <3> QED
        BY <3>6, <3>7
    <2>16. CASE t.ret = "ok"
      <3>1. k + n = h.extra /\ t.count = 0
        BY <2>4, <2>8, <2>16
      <3>2. t.next = Start["name"]
        BY <2>2, <2>12, <3>1, StartsAre DEF HasExtra
      <3>3. Got("name", "extra", 0) = k + n
        BY <2>2, <3>1 DEF Got, Passed, SizeOf, HasExtra
      <3>4. \A g \in Fields \ {"extra"} : Got("name", g, 0) = Got("extra", g, l)
        BY DEF Got, Passed, Fields
      <3>5. Kept("name", 0, t.hdr)
        BY <2>2, <2>3, <2>4, <2>8, <2>14, <3>3, <3>4, KeptGrows DEF Fields, Follower
      <3>6. Place(t.entry) < Place("name")
        BY <2>2, <2>10, <2>13, Places DEF Same, Shape, Entries, Later
      <3>7. Fresh(t, "name")
        BY <2>2, <2>10, <2>11, <2>16, <3>1, <3>2, <3>5, <3>6 DEF Fresh, Same
      <3>8. ReadExtra(s) = t
        BY <1>2, <2>16 DEF ReadExtra, Stage, t, l
      <3> QED
        BY <2>13, <3>7, <3>8 DEF Ready
    <2> QED
      BY <2>15, <2>16
  <1> QED
    BY <1>1, <1>2

LEMMA StringRead ==
  ASSUME h \in GzipHdr, file = GzipBytes \o Data, NEW s, NEW f \in Strings, Ready(s, f),
         NEW u, u = Stage(s, f, string_header_copy(s, f))
  PROVE  Ready(u, Follower[f])
  <1>1. CASE ~ Takes(s, f)
    <2>1. u = s
      BY <1>1 DEF Stage
    <2> QED
      BY <1>1, <2>1, StagePassed DEF Later, Strings
  <1>2. CASE Takes(s, f)
    <2> DEFINE k == s.count
               g == Follower[f]
               t == string_header_copy(s, f)
    <2>1. Inside(s, f)
      BY <1>2, StageTaken DEF Later, Strings
    <2>2. /\ s \in Call /\ InFile(s) /\ s.ret = "ok" /\ s.flags = Flags /\ s.hdr.flags = Flags
          /\ Shape(s) /\ Place(s.entry) <= Place(f)
      BY <2>1 DEF Inside, Shape, Stands, Strings
    <2>3. /\ f \in Fields /\ f \in Entries /\ f # "extra" /\ f # "new_hdr" /\ f # "nul" /\ f # g
          /\ g # "extra" /\ g \in Later
      BY DEF Fields, Strings, Entries, Later, Follower
    <2>4. /\ k \in 0..h[f] /\ s.tmp = <<>> /\ s.next = Start[f] + k
          /\ Kept(f, k, s.hdr) /\ FlagOf(f) \in Flags /\ k = Got(f, f, k)
      BY <2>1, <2>3 DEF Inside, Stands, LeftOf, Fields, Got, Passed, Strings
    <2>5. h[f] \in Nat /\ h[f] # Null
      BY <2>4, FlagsAre DEF Strings, GzipHdr
    <2>6. k \in Nat /\ Start[f] \in Nat /\ s.avail \in Nat
      BY <2>2, <2>3, <2>4, <2>5, StartsAre DEF Call
    <2>7. s.hdr.len[f] # Null => k <= s.hdr.len[f]
      BY <2>3, <2>4 DEF Kept
    <2> HIDE DEF t, g
    <2>8. PICK n \in 0..s.avail :
            /\ \A i \in 1..n : file[s.next + i] # NUL
            /\ s.hdr.len[f] # Null => k + n <= s.hdr.len[f]
            /\ \/ /\ t.ret = "ok" /\ n < s.avail /\ file[s.next + (n + 1)] = NUL
                  /\ Copied(s, t, f, n, n + 1) /\ t.count = 0
                  /\ s.hdr.len[f] # Null => k + n < s.hdr.len[f]
               \/ /\ t.ret = "end_input" /\ t.avail = 0
                  /\ Copied(s, t, f, n, n) /\ t.count = k + n
               \/ /\ t.ret = "overflow" /\ s.hdr.len[f] # Null
                  /\ Copied(s, t, f, n, n) /\ t.count = k + n
      <3> file \in Seq(Octets)
        BY Layout
      <3> QED
        BY <2>2, <2>3, <2>7, StringCopied DEF t
    <2>9. /\ file[Start[f] + h[f] + 1] = NUL
          /\ \A i \in 1..h[f] : file[Start[f] + i] # NUL
      <3>1. file[Start[f] + h[f] + 1] = NUL
        BY <2>5, Layout
      <3>2. \A i \in 1..h[f] : file[Start[f] + i] = <<f, i>>
        BY <2>3, <2>5, Layout
      <3>3. \A i \in 1..h[f] : <<f, i>> # NUL
        BY <2>3 DEF NUL
      <3> QED
        BY <3>1, <3>2, <3>3
    <2>10. n \in Nat /\ k + n <= h[f] /\ k + n \in Nat /\ k + n \in 0..h[f]
      <3>1. ASSUME k + n > h[f] PROVE FALSE
        <4>1. h[f] - k + 1 \in 1..n
          BY <2>4, <2>5, <2>6, <3>1
        <4>2. s.next + (h[f] - k + 1) = Start[f] + h[f] + 1
          BY <2>4, <2>5, <2>6
        <4> QED
          BY <2>8, <2>9, <4>1, <4>2
      <3> QED
        BY <2>5, <2>6, <3>1
    <2>11. ASSUME t.ret # "ok" PROVE Ready(u, g)
      <3>1. Copied(s, t, f, n, n) /\ t.count = k + n /\ t.ret \in {"end_input", "overflow"}
        BY <2>8, <2>11
      <3>2. t \in Call /\ Same(s, t) /\ InFile(t) /\ t.next = s.next + n /\ t.tmp = <<>>
        BY <2>4, <3>1 DEF Copied
      <3>3. /\ t.hdr.flags = Flags /\ t.hdr.hcrc = s.hdr.hcrc /\ t.hdr.len = s.hdr.len
            /\ t.hdr.dict_id = s.hdr.dict_id
        BY <2>2, <3>1 DEF Copied
      <3>4. s.next <= t.next /\ t.next = Start[f] + (k + n)
        BY <2>4, <2>6, <2>10, <3>2
      <3>5. Shape(t)
        BY <2>2, <3>2, <3>3, <3>4, ShapeKept
      <3>6. Got(f, f, k + n) = k + n
        <4>1. f \notin Passed[f]
          BY DEF Passed, Strings
        <4> QED
          BY <2>3, <4>1 DEF Got
      <3>7. \A e \in Fields \ {f} : Got(f, e, k + n) = Got(f, e, k)
        BY DEF Got
      <3>8. Kept(f, k + n, t.hdr)
        BY <2>2, <2>3, <2>4, <2>5, <2>6, <2>8, <2>10, <3>1, <3>6, <3>7, KeptGrows
      <3>9. Stands(f, t.next, t.tmp, t.count, t.hdr)
        BY <2>3, <2>4, <2>10, <3>1, <3>2, <3>3, <3>4, <3>6, <3>8 DEF Stands
      <3>10. h.hcrc => "hcrc" \in t.flags
        BY <2>2, <3>2, FlagsAre DEF Same
      <3>11. u = [t EXCEPT !.bs = f]
        BY <1>2, <2>11 DEF Stage, t
      <3>12. t.ret = "overflow" => t.hdr.len[f] # Null
        BY <2>8, <3>3
      <3>13. Place(f) < Place(g)
        BY Places DEF Strings, Follower, g
      <3> QED
        <4>1. Place(t.entry) <= Place(f)
          BY <2>2, <3>2 DEF Same
        <4> QED
          BY <2>3, <3>1, <3>5, <3>9, <3>10, <3>11, <3>12, <3>13, <4>1, StageStops
    <2>12. ASSUME t.ret = "ok" PROVE Ready(u, g)
      <3>1. /\ Copied(s, t, f, n, n + 1) /\ t.count = 0 /\ file[s.next + (n + 1)] = NUL
            /\ s.hdr.len[f] # Null => k + n < s.hdr.len[f]
        BY <2>8, <2>12
      <3>2. t \in Call /\ Same(s, t) /\ InFile(t) /\ t.next = s.next + (n + 1) /\ t.tmp = <<>>
        BY <2>4, <3>1 DEF Copied
      <3>3. /\ t.hdr.flags = Flags /\ t.hdr.hcrc = s.hdr.hcrc /\ t.hdr.len = s.hdr.len
            /\ t.hdr.dict_id = s.hdr.dict_id
        BY <2>2, <3>1 DEF Copied
      <3>4. k + n = h[f]
        <4>1. ASSUME k + n < h[f] PROVE FALSE
          <5>1. k + n + 1 \in 1..h[f]
            BY <2>5, <2>6, <2>10, <4>1
          <5>2. s.next + (n + 1) = Start[f] + (k + n + 1)
            <6>1. (Start[f] + k) + (n + 1) = Start[f] + (k + n + 1)
              BY <2>6, <2>10, Shuffle
            <6> QED
              BY <6>1, <2>4
          <5> QED
            BY <2>9, <3>1, <5>1, <5>2
        <4> QED
          BY <2>5, <2>6, <2>10, <4>1
      <3>5. s.next <= t.next /\ t.next = Start[f] + (h[f] + 1)
        <4>1. t.next = (Start[f] + k) + (n + 1)
          BY <2>4, <3>2
        <4>2. t.next = Start[f] + (k + n + 1)
          BY <4>1, <2>6, <2>10, Shuffle
        <4>3. s.next <= t.next
          BY <2>4, <2>6, <2>10, <4>1
        <4> QED
          BY <4>2, <4>3, <3>4
      <3>6. t.next = Start[g]
        <4>1. Start[g] = Start[f] + (h[f] + 1)
          BY <2>5, StartsAre DEF Strings, Follower, SizeOf, g
        <4> QED
          BY <3>5, <4>1
      <3>7. Shape(t)
        BY <2>2, <3>2, <3>3, <3>5, ShapeKept
      <3>8. Got(g, f, 0) = k + n
        <4>1. SizeOf(h[f], 0) = h[f]
          BY <2>5 DEF SizeOf
        <4> QED
          BY <3>4, <4>1 DEF Got, Passed, Strings, Follower, g, Fields
      <3>9. \A e \in Fields \ {f} : Got(g, e, 0) = Got(f, e, k)
        BY DEF Got, Passed, Strings, Follower, g, Fields
      <3>10. Kept(g, 0, t.hdr)
        <4>1. s.hdr.len[f] # Null => h[f] < s.hdr.len[f]
          BY <3>1, <3>4
        <4>2. g = Follower[f]
          BY DEF g
        <4>3. /\ s \in Call /\ InFile(s) /\ f \in Fields /\ h[f] \in Nat /\ k \in Nat
              /\ k = Got(f, f, k) /\ k + n <= h[f] /\ s.next = Start[f] + k /\ Kept(f, k, s.hdr)
          BY <2>2, <2>3, <2>4, <2>5, <2>6, <2>10
        <4>4. s.hdr.len[f] # Null => k + n <= s.hdr.len[f]
          BY <2>8
        <4>5. PICK m : Copied(s, t, f, n, m)
          BY <3>1
        <4> HIDE DEF k
        <4>6. PICK j : /\ j = 0 /\ Got(g, f, j) = k + n
                       /\ \A e \in Fields \ {f} : Got(g, e, j) = Got(f, e, k)
          BY <3>8, <3>9
        <4>7. Kept(g, j, t.hdr)
          BY <4>1, <4>2, <4>3, <4>4, <4>5, <4>6, KeptGrows
        <4> QED
          BY <4>6, <4>7
      <3>11. Place(t.entry) < Place(g)
        <4>1. Place(t.entry) \in Nat /\ Place(t.entry) <= Place(f)
          BY <2>2, <3>2, <3>7, Places DEF Same, Shape, Entries, Later
        <4> QED
          BY <4>1, Places DEF Strings, Follower, g
      <3>12. Fresh(t, g)
        BY <2>2, <2>3, <2>12, <3>1, <3>2, <3>3, <3>6, <3>10, <3>11 DEF Fresh, Same
      <3>13. u = t
        BY <1>2, <2>12 DEF Stage, t
      <3> QED
        BY <3>7, <3>12, <3>13 DEF Ready
    <2> QED
      BY <2>11, <2>12 DEF g
  <1> QED
    BY <1>1, <1>2

(* What a call leaves.                                                     *)
Left(s) ==
  /\ s \in Call /\ InFile(s) /\ ~ s.hdr.dict_id /\ ~ s.wrapper
  /\ \/ /\ s.ret \in {"end_input", "overflow"} /\ Stands(s.bs, s.next, s.tmp, s.count, s.hdr)
        /\ h.hcrc => s.hdr.hcrc = SumOf(s.bs, s.next)
        /\ s.ret = "overflow" => s.bs \in Fields /\ s.hdr.len[s.bs] # Null
     \/ /\ s.ret = "ok" /\ s.next = HdrSize /\ s.tmp = <<>> /\ Kept("hcrc", 0, s.hdr)
        /\ s.hdr.flags = Flags /\ (h.hcrc => h.intact)
     \/ /\ s.ret = "incorrect_checksum" /\ s.tmp = <<>> /\ Kept("hcrc", 0, s.hdr) /\ ~ h.intact

LEMMA SizeIs ==
  ASSUME h \in GzipHdr
  PROVE  HdrSize = Start["hcrc"] + (IF h.hcrc THEN GZIP_HCRC_LEN ELSE 0)
  <1>1. /\ SizeOf(h.extra, GZIP_EXTRA_LEN) \in Nat /\ SizeOf(h.name, 1) \in Nat
        /\ SizeOf(h.comment, 1) \in Nat /\ HdrBase \in Nat
    BY HeaderAssumption DEF SizeOf, GZIP_EXTRA_LEN, GzipHdr
  <1>2. Start["hcrc"] = HdrBase + SizeOf(h.extra, GZIP_EXTRA_LEN) + SizeOf(h.name, 1)
                        + SizeOf(h.comment, 1)
    BY DEF Start
  <1>3. h.dict = FALSE /\ h.hcrc \in BOOLEAN /\ "name" \in h.ended /\ "comment" \in h.ended
    BY DEF GzipHdr
  <1> QED
    BY <1>1, <1>2, <1>3 DEF HdrSize, NulLen, GZIP_HCRC_LEN

LEMMA WholeBody ==
  ASSUME h \in GzipHdr, file = GzipBytes \o Data
  PROVE  SubSeq(file, 1, Start["hcrc"]) = HeaderBody
  <1> DEFINE n == Start["hcrc"]
  <1>1. n \in Nat
    BY StartsAre DEF Entries, Later
  <1>2. /\ HeaderBody \in Seq(Octets) /\ Len(HeaderBody) = n /\ file \in Seq(Octets)
        /\ \A i \in 1..n : file[i] = HeaderBody[i]
    BY Layout
  <1> HIDE DEF n
  <1>3. PICK a \in Nat : a = 0
    OBVIOUS
  <1>4. n <= Len(file) /\ a + n = n /\ a + 1 = 1 /\ \A i \in 1..n : a + i = i
    BY <1>1, <1>3, Layout, SizeIs, HeaderAssumption DEF n, GZIP_HCRC_LEN
  <1>5. /\ SubSeq(file, a + 1, a + n) \in Seq(Octets) /\ Len(SubSeq(file, a + 1, a + n)) = n
        /\ \A i \in 1..n : SubSeq(file, a + 1, a + n)[i] = file[a + i]
    BY <1>1, <1>2, <1>4, Segment
  <1>6. SubSeq(file, a + 1, a + n) = HeaderBody
    BY <1>2, <1>4, <1>5, SeqEqual
  <1> QED
    BY <1>4, <1>6 DEF n

LEMMA Summing ==
  ASSUME h \in GzipHdr, file = GzipBytes \o Data, NEW s, Shape(s), s.entry # "hcrc",
         h.hcrc => "hcrc" \in s.flags, NEW t, t = Summed(s)
  PROVE  /\ t \in Call /\ Same(s, t) /\ t.next = s.next /\ t.avail = s.avail /\ t.tmp = s.tmp
         /\ t.count = s.count /\ t.ret = s.ret
         /\ t.hdr.flags = s.hdr.flags /\ t.hdr.len = s.hdr.len /\ t.hdr.buf = s.hdr.buf
         /\ t.hdr.extra_len = s.hdr.extra_len /\ t.hdr.dict_id = s.hdr.dict_id
         /\ h.hcrc => t.hdr.hcrc = SubSeq(file, 1, s.next)
  <1>1. /\ s \in Call /\ s.start \in Nat /\ s.next \in Nat /\ s.start <= s.next /\ s.avail \in Nat
        /\ s.next + s.avail <= Len(file) /\ s.hdr \in Hdr
    BY DEF Shape, Call, InFile
  <1>2. file \in Seq(Octets) /\ Len(file) \in Nat
    BY Layout, LenProperties
  <1>3. CASE "hcrc" \notin s.flags
    <2>1. t = s /\ ~ h.hcrc
      BY <1>3 DEF Summed
    <2> QED
      BY <1>1, <2>1 DEF Same
  <1>4. CASE "hcrc" \in s.flags
    <2> DEFINE v == SubSeq(file, s.start + 1, s.next)
               c == s.hdr.hcrc \o v
               d == [s.hdr EXCEPT !.hcrc = c]
    <2>1. v \in Seq(Octets)
      <3>1. \A i \in s.start + 1 .. s.next : file[i] \in Octets
        BY <1>1, <1>2, ElementOfSeq
      <3>2. s.start + 1 \in Int /\ s.next \in Int
        BY <1>1
      <3> QED
        BY <3>1, <3>2, SubSeqProperties
    <2>2. c \in Seq(Octets)
      <3>1. s.hdr.hcrc \in Seq(Octets)
        BY <1>1 DEF Hdr
      <3> QED
        BY <2>1, <3>1, Joined
    <2>3. h.hcrc => c = SubSeq(file, 1, s.next)
      <3>1. /\ 1 \in 1..Len(file) + 1 /\ s.start \in 1 - 1 .. Len(file)
            /\ s.next \in s.start..Len(file)
        BY <1>1, <1>2
      <3>2. SubSeq(file, 1, s.start) \o v = SubSeq(file, 1, s.next)
        BY <1>2, <3>1, ConcatAdjacentSubSeq
      <3> QED
        BY <3>2 DEF Shape, SumOf
    <2>4. t = [s EXCEPT !.hdr = d]
      BY <1>1, <1>4 DEF Summed, Call, Hdr
    <2> HIDE DEF c
    <2>5. /\ d \in Hdr /\ d.flags = s.hdr.flags /\ d.len = s.hdr.len /\ d.buf = s.hdr.buf
          /\ d.extra_len = s.hdr.extra_len /\ d.dict_id = s.hdr.dict_id /\ d.hcrc = c
      BY <1>1, <2>2 DEF Hdr
    <2> HIDE DEF d
    <2>6. t \in Call
      BY <1>1, <2>4, <2>5 DEF Call
    <2>7. Same(s, t)
      BY <1>1, <2>4 DEF Call, Same
    <2>8. /\ t.hdr = d /\ t.next = s.next /\ t.avail = s.avail /\ t.tmp = s.tmp
          /\ t.count = s.count /\ t.ret = s.ret
      BY <1>1, <2>4 DEF Call
    <2> QED
      BY <2>3, <2>5, <2>6, <2>7, <2>8
  <1> QED
    BY <1>3, <1>4

LEMMA HcrcRead ==
  ASSUME h \in GzipHdr, file = GzipBytes \o Data, NEW s, Ready(s, "hcrc")
  PROVE  Left(ReadHcrc(s))
  <1>1. Shape(s) /\ s \in Call /\ InFile(s) /\ s.entry \in Entries /\ ~ s.wrapper /\ ~ s.hdr.dict_id
    BY DEF Ready, Shape
  <1>2. CASE ~ Takes(s, "hcrc") /\ s.ret = "ok"
    <2>1. ReadHcrc(s) = s
      BY <1>2 DEF ReadHcrc
    <2>2. Fresh(s, "hcrc")
      <3>1. ~ Stopped(s, "hcrc")
        BY <1>2 DEF Stopped
      <3>2. ~ Untouched(s, "hcrc")
        BY <1>1, <1>2, Places DEF Takes, Untouched, Entries, Later
      <3> QED
        BY <3>1, <3>2 DEF Ready
    <2>3. FlagOf("hcrc") \notin Flags
      BY <1>2, <2>2 DEF Takes, Fresh
    <2>4. ~ h.hcrc /\ s.next = HdrSize
      <3>1. Start["hcrc"] \in Nat
        BY StartsAre DEF Entries, Later
      <3> QED
        BY <2>2, <2>3, <3>1, FlagsAre, SizeIs DEF Fresh
    <2> QED
      BY <1>1, <1>2, <2>1, <2>2, <2>4 DEF Left, Fresh
  <1>3. CASE ~ Takes(s, "hcrc") /\ s.ret # "ok"
    <2> DEFINE t == Summed(s)
    <2>1. ReadHcrc(s) = t
      BY <1>3 DEF ReadHcrc
    <2>2. Stopped(s, "hcrc")
      BY <1>3 DEF Ready, Untouched, Fresh
    <2>3. s.entry # "hcrc" /\ s.bs # "hcrc"
      <3>1. s.bs \in Entries
        BY <2>2 DEF Stopped, Stands, Fields, Entries, Later
      <3> QED
        BY <1>1, <2>2, <3>1, Places DEF Stopped, Entries, Later
    <2>4. h.hcrc => "hcrc" \in s.flags
      BY <2>2 DEF Stopped
    <2>5. /\ t \in Call /\ Same(s, t) /\ t.next = s.next /\ t.avail = s.avail /\ t.tmp = s.tmp
          /\ t.count = s.count /\ t.ret = s.ret
          /\ t.hdr.flags = s.hdr.flags /\ t.hdr.len = s.hdr.len /\ t.hdr.buf = s.hdr.buf
          /\ t.hdr.extra_len = s.hdr.extra_len /\ t.hdr.dict_id = s.hdr.dict_id
          /\ h.hcrc => t.hdr.hcrc = SubSeq(file, 1, s.next)
      BY <1>1, <2>3, <2>4, Summing
    <2> HIDE DEF t
    <2>6. InFile(t) /\ t.bs = s.bs /\ ~ t.wrapper
      BY <1>1, <2>5 DEF InFile, Same
    <2>7. Stands(t.bs, t.next, t.tmp, t.count, t.hdr)
      BY <2>2, <2>5, <2>6 DEF Stopped, Stands, Kept
    <2>8. h.hcrc => t.hdr.hcrc = SumOf(t.bs, t.next)
      BY <2>3, <2>5, <2>6 DEF SumOf
    <2> QED
      BY <1>1, <2>1, <2>2, <2>5, <2>6, <2>7, <2>8 DEF Left, Stopped
  <1>4. CASE Takes(s, "hcrc")
    <2> DEFINE t == IF s.entry = "hcrc" THEN s ELSE Summed(s)
               r == fixed_size_read(t, GZIP_HCRC_LEN)
    <2>1. Inside(s, "hcrc")
      BY <1>4, StageTaken DEF Later
    <2>2. /\ s.ret = "ok" /\ s.flags = Flags /\ s.hdr.flags = Flags /\ h.hcrc
          /\ FlagOf("hcrc") \in Flags
      BY <2>1, FlagsAre DEF Inside, Stands
    <2>3. /\ s.count = 0 /\ Len(s.tmp) < 2 /\ s.next = Start["hcrc"] + Len(s.tmp)
          /\ Kept("hcrc", 0, s.hdr)
      BY <2>1 DEF Inside, Stands, LeftOf, Fields, FixedLen, GZIP_HCRC_LEN
    <2>4. Len(s.tmp) \in Nat /\ s.avail \in Nat /\ Start["hcrc"] \in Nat /\ Len(s.tmp) <= 2
      BY <1>1, <2>3, LenProperties, StartsAre DEF Call, Entries, Later
    <2>5. ASSUME s.entry # "hcrc" PROVE s.next = Start["hcrc"]
      <3>1. s.tmp = <<>> /\ Len(<<>>) = 0
        BY <2>1, <2>5 DEF Inside
      <3> QED
        BY <2>3, <2>4, <3>1
    <2>6. /\ t \in Call /\ Same(s, t) /\ t.next = s.next /\ t.avail = s.avail /\ t.tmp = s.tmp
          /\ t.count = s.count /\ t.ret = s.ret
          /\ t.hdr.flags = s.hdr.flags /\ t.hdr.len = s.hdr.len /\ t.hdr.buf = s.hdr.buf
          /\ t.hdr.dict_id = s.hdr.dict_id /\ t.hdr.hcrc = HeaderBody
      <3>1. CASE s.entry = "hcrc"
        <4>1. t = s /\ s.hdr.hcrc = HeaderBody
          BY <1>1, <2>2, <3>1 DEF Shape, SumOf
        <4> QED
          BY <1>1, <4>1 DEF Same
      <3>2. CASE s.entry # "hcrc"
        <4>1. t = Summed(s) /\ "hcrc" \in s.flags
          BY <2>2, <3>2, FlagsAre
        <4> HIDE DEF t
        <4> QED
          <5>1. /\ t \in Call /\ Same(s, t) /\ t.next = s.next /\ t.avail = s.avail
                /\ t.tmp = s.tmp /\ t.count = s.count /\ t.ret = s.ret
                /\ t.hdr.flags = s.hdr.flags /\ t.hdr.len = s.hdr.len /\ t.hdr.buf = s.hdr.buf
                /\ t.hdr.dict_id = s.hdr.dict_id
                /\ h.hcrc => t.hdr.hcrc = SubSeq(file, 1, s.next)
            BY <1>1, <3>2, <4>1, Summing
          <5>2. t.hdr.hcrc = HeaderBody
            BY <2>2, <2>5, <3>2, <5>1, WholeBody
          <5> QED
            BY <5>1, <5>2
      <3> QED
        BY <3>1, <3>2
    <2> HIDE DEF t
    <2>7. InFile(t)
      BY <1>1, <2>6 DEF InFile
    <2>8. /\ r \in Call /\ Same(t, r) /\ r.hdr = t.hdr /\ r.count = t.count /\ InFile(r)
          /\ \/ /\ r.ret = "end_input" /\ r.next = t.next + t.avail /\ r.avail = 0
                /\ Len(r.tmp) = Len(t.tmp) + t.avail /\ Len(r.tmp) < 2
             \/ /\ r.ret = "ok" /\ r.tmp = <<>> /\ r.next = t.next + (2 - Len(t.tmp))
      BY <2>2, <2>4, <2>6, <2>7, Layout, FixedRead DEF GZIP_HCRC_LEN
    <2> HIDE DEF r
    <2>9. r.hdr.hcrc = HeaderBody /\ r.hdr.flags = Flags /\ ~ r.hdr.dict_id /\ ~ r.wrapper
      BY <1>1, <2>2, <2>6, <2>8 DEF Same
    <2>10. Kept("hcrc", 0, r.hdr)
      BY <2>3, <2>6, <2>8 DEF Kept
    <2>11. CASE r.ret # "ok"
      <3> DEFINE u == [r EXCEPT !.bs = "hcrc"]
      <3>1. ReadHcrc(s) = u
        BY <1>4, <2>11 DEF ReadHcrc, r, t
      <3>2. u \in Call
        BY <2>8 DEF Call, Sites
      <3>3. /\ u.bs = "hcrc" /\ u.hdr = r.hdr /\ u.next = r.next /\ u.avail = r.avail
            /\ u.tmp = r.tmp /\ u.count = r.count /\ u.ret = r.ret /\ u.wrapper = r.wrapper
        BY <2>8 DEF Call
      <3> HIDE DEF u
      <3>4. u.next = Start["hcrc"] + Len(u.tmp)
        BY <2>3, <2>4, <2>6, <2>8, <2>11, <3>3
      <3>5. Stands("hcrc", u.next, u.tmp, u.count, u.hdr)
        BY <2>2, <2>3, <2>6, <2>8, <2>9, <2>10, <2>11, <3>3, <3>4
           DEF Stands, Fields, FixedLen, GZIP_HCRC_LEN
      <3>6. u.hdr.hcrc = SumOf(u.bs, u.next) /\ InFile(u)
        BY <2>8, <2>9, <3>3 DEF SumOf, InFile
      <3> QED
        BY <2>8, <2>9, <2>11, <3>1, <3>2, <3>3, <3>5, <3>6 DEF Left
    <2>12. CASE r.ret = "ok"
      <3>1. r.next = HdrSize
        BY <2>2, <2>3, <2>4, <2>6, <2>8, <2>12, SizeIs DEF GZIP_HCRC_LEN
      <3>2. CASE Matches(r)
        <4>1. ReadHcrc(s) = r /\ h.intact
          BY <1>4, <2>12, <3>2 DEF ReadHcrc, r, t, Matches
        <4> QED
          BY <2>8, <2>9, <2>10, <2>12, <3>1, <4>1 DEF Left
      <3>3. CASE ~ Matches(r)
        <4> DEFINE u == [r EXCEPT !.ret = "incorrect_checksum"]
        <4>1. ReadHcrc(s) = u /\ ~ h.intact
          BY <1>4, <2>9, <2>12, <3>3 DEF ReadHcrc, r, t, Matches
        <4>2. u \in Call
          BY <2>8 DEF Call
        <4>3. /\ u.hdr = r.hdr /\ u.next = r.next /\ u.avail = r.avail /\ u.tmp = r.tmp
              /\ u.ret = "incorrect_checksum" /\ u.wrapper = r.wrapper
          BY <2>8 DEF Call
        <4> HIDE DEF u
        <4>4. InFile(u)
          BY <2>8, <4>3 DEF InFile
        <4> QED
          BY <2>8, <2>9, <2>10, <2>12, <4>1, <4>2, <4>3, <4>4 DEF Left
      <3> QED
        BY <3>2, <3>3
    <2> QED
      BY <2>11, <2>12
  <1> QED
    BY <1>2, <1>3, <1>4

-----------------------------------------------------------------------------
(* The invariant: what has been written, and where each reader stands that *)
(* waits for more input or a larger buffer, or has come to an end.         *)
Waits == {"end_input", "overflow", "regrown"}

Written == IF h.format = "gzip" THEN GzipBytes ELSE ZlibBytes
NoText  == [f \in Fields |-> <<>>]

ZlibStands(b, next, tmp, hdr) ==
  \/ b = "new_hdr" /\ next = Len(tmp) /\ Len(tmp) < HdrBase
  \/ /\ b = "dict_id" /\ next = HdrBase + Len(tmp) /\ Len(tmp) < ZLIB_DICT_LEN
     /\ h.dict /\ h.intact /\ hdr.flags = Flags

TypeInv ==
  /\ h \in EndedHeaders /\ gz_hdr \in Hdr /\ tmp_in_buffer \in Seq(Octets) /\ block_state \in Sites
  /\ next_in \in Nat /\ avail_in \in Nat /\ count \in Nat
  /\ ret \in {"none", "ok", "end_input", "overflow", "regrown", "incorrect_checksum"}

UnreadInv ==
  ret = "none" =>
    /\ next_in = 0 /\ avail_in = 0 /\ block_state = "new_hdr" /\ tmp_in_buffer = <<>>
    /\ count = 0 /\ gz_hdr = EmptyHdr(gz_hdr.len)
    /\ file = IF wret = 0 THEN Written ELSE <<>>

WrittenInv ==
  ret # "none" => file = Written \o Data /\ next_in + avail_in <= Len(file)

GzipInv ==
  h.format = "gzip" /\ ret \in Waits =>
    /\ Stands(block_state, next_in, tmp_in_buffer, count, gz_hdr)
    /\ h.hcrc => gz_hdr.hcrc = SumOf(block_state, next_in)
    /\ ~ gz_hdr.dict_id
    /\ ret # "end_input" => block_state \in Fields /\ gz_hdr.len[block_state] # Null

ZlibInv ==
  h.format = "zlib" /\ ret \in Waits =>
    /\ gz_hdr.buf = NoText /\ ret = "end_input" /\ ~ gz_hdr.dict_id
    /\ ZlibStands(block_state, next_in, tmp_in_buffer, gz_hdr)

EndInv ==
  /\ ret \in {"ok", "incorrect_checksum"} =>
       /\ tmp_in_buffer = <<>>
       /\ IF h.format = "gzip" THEN Kept("hcrc", 0, gz_hdr) ELSE gz_hdr.buf = NoText
  /\ ret = "incorrect_checksum" => ~ h.intact
  /\ ret = "ok" =>
       /\ next_in = HdrSize /\ wrapper_flag /\ gz_hdr.flags = Flags
       /\ gz_hdr.dict_id = h.dict /\ (h.format = "zlib" \/ h.hcrc => h.intact)

HInv == TypeInv /\ UnreadInv /\ WrittenInv /\ GzipInv /\ ZlibInv /\ EndInv

LEMMA Formats ==
  ASSUME h \in EndedHeaders
  PROVE  /\ h.format = "gzip" => h \in GzipHdr
         /\ h.format # "gzip" => h \in ZlibHdr /\ h.format = "zlib"
  <1>1. h \in Headers /\ h.ended = {"name", "comment"}
    BY DEF EndedHeaders
  <1>2. h \notin OpenHdr
    <2>1. \A e \in {{}, {"name"}, {"comment"}} : "name" \notin e \/ "comment" \notin e
      OBVIOUS
    <2>2. h \in OpenHdr => h.ended \in {{}, {"name"}, {"comment"}}
      BY DEF OpenHdr
    <2>3. "name" \in h.ended /\ "comment" \in h.ended
      BY <1>1
    <2> QED
      BY <2>1, <2>2, <2>3
  <1>3. h \in GzipHdr \/ h \in ZlibHdr
    BY <1>1, <1>2, HeaderAssumption DEF Header
  <1> QED
    BY <1>3 DEF GzipHdr, ZlibHdr

LEMMA Constants ==
  ASSUME h' = h
  PROVE  /\ Start' = Start /\ Flags' = Flags /\ HdrSize' = HdrSize /\ HeaderBody' = HeaderBody
         /\ Written' = Written /\ Data' = Data
  BY DEF Start, Flags, HdrSize, NulLen, HeaderBody, String, Written, GzipBytes, ZlibBytes,
         HasExtra, Data

(* The size that a writer asks for is what it writes.                      *)
LEMMA WrittenTyped ==
  ASSUME h \in EndedHeaders
  PROVE  /\ Written \in Seq(Octets) /\ Data \in Seq(Octets) /\ HdrSize \in Nat \ {0}
         /\ Written \o Data \in Seq(Octets) /\ Len(Written \o Data) = HdrSize + DataLen
  <1>1. Data \in Seq(Octets) /\ Len(Data) = DataLen
    BY FieldTyped, HeaderAssumption DEF Names, Data
  <1>2. Written \in Seq(Octets) /\ Len(Written) = HdrSize /\ HdrSize \in Nat \ {0}
    <2>1. CASE h.format = "gzip"
      <3>1. h \in GzipHdr /\ Written = GzipBytes
        BY <2>1, Formats DEF Written
      <3> QED
        BY <3>1, GzipTyped
    <2>2. CASE h.format # "gzip"
      <3> DEFINE B == Field("base", HdrBase)
                 D == IF h.dict THEN Field("dict_id", ZLIB_DICT_LEN) ELSE <<>>
      <3>1. h \in ZlibHdr /\ Written = B \o D
        BY <2>2, Formats DEF Written, ZlibBytes
      <3>2. /\ h.extra = Null /\ h.name = Null /\ h.comment = Null /\ h.hcrc = FALSE
            /\ h.dict \in BOOLEAN
        BY <3>1 DEF ZlibHdr
      <3>3. B \in Seq(Octets) /\ Len(B) = HdrBase
        BY FieldTyped, HeaderAssumption DEF Names
      <3>4. D \in Seq(Octets) /\ Len(D) = IF h.dict THEN ZLIB_DICT_LEN ELSE 0
        BY <3>2, FieldTyped, EmptySeq DEF Names, ZLIB_DICT_LEN
      <3>5. HdrSize = HdrBase + (IF h.dict THEN ZLIB_DICT_LEN ELSE 0) /\ HdrSize \in Nat \ {0}
        BY <3>2, HeaderAssumption DEF HdrSize, NulLen, SizeOf, ZLIB_DICT_LEN
      <3> HIDE DEF B, D
      <3>6. B \o D \in Seq(Octets) /\ Len(B \o D) = Len(B) + Len(D)
        BY <3>3, <3>4, Joined
      <3> QED
        BY <3>1, <3>3, <3>4, <3>5, <3>6
    <2> QED
      BY <2>1, <2>2
  <1>3. Written \o Data \in Seq(Octets) /\ Len(Written \o Data) = Len(Written) + Len(Data)
    BY <1>1, <1>2, Joined
  <1> QED
    BY <1>1, <1>2, <1>3

-----------------------------------------------------------------------------
(* Every step keeps it.                                                    *)

LEMMA InitHolds ==
  ASSUME Init, ~ FreshHdr, StringsEnd
  PROVE  HInv
  <1>1. PICK lens \in [Fields -> BufLens] : gz_hdr = EmptyHdr(lens)
    BY DEF Init, Fields
  <1>2. lens \in [Fields -> {Null} \cup Nat]
    BY HeaderAssumption
  <1>3. gz_hdr \in Hdr /\ gz_hdr = EmptyHdr(gz_hdr.len)
    BY <1>1, <1>2, EmptySeq DEF EmptyHdr, Hdr, Fields
  <1>4. TypeInv
    BY <1>3, EmptySeq DEF Init, TypeInv, Sites, EndedHeaders, StringsEnd
  <1>5. UnreadInv
    BY <1>3 DEF Init, UnreadInv, UINT32_MAX
  <1> QED
    BY <1>4, <1>5 DEF Init, HInv, WrittenInv, GzipInv, ZlibInv, EndInv, Waits

LEMMA WriteHolds ==
  ASSUME HInv, Write
  PROVE  HInv'
  <1>1. /\ h' = h /\ ret = "none" /\ ret' = "none" /\ next_in' = next_in /\ avail_in' = avail_in
        /\ block_state' = block_state /\ tmp_in_buffer' = tmp_in_buffer /\ count' = count
        /\ gz_hdr' = gz_hdr
    BY DEF Write
  <1>2. TypeInv'
    BY <1>1 DEF HInv, TypeInv
  <1>3. file' = IF wret' = 0 THEN Written ELSE <<>>
    <2>1. PICK room : isal_write_gzip_header(room) \/ isal_write_zlib_header(room)
      BY DEF Write
    <2>2. HdrSize \in Nat \ {0} /\ file = <<>>
      BY WrittenTyped DEF HInv, TypeInv, Write
    <2>3. CASE isal_write_gzip_header(room)
      BY <2>2, <2>3 DEF isal_write_gzip_header, UINT32_MAX, Written
    <2>4. CASE isal_write_zlib_header(room)
      BY <2>2, <2>4 DEF isal_write_zlib_header, Written
    <2> QED
      BY <2>1, <2>3, <2>4
  <1>4. UnreadInv'
    <2>1. Written' = Written
      BY <1>1, Constants
    <2>2. /\ next_in = 0 /\ avail_in = 0 /\ block_state = "new_hdr" /\ tmp_in_buffer = <<>>
          /\ count = 0 /\ gz_hdr = EmptyHdr(gz_hdr.len)
      BY <1>1 DEF HInv, UnreadInv
    <2>3. gz_hdr' = EmptyHdr(gz_hdr'.len)
      BY <1>1, <2>2
    <2> QED
      BY <1>1, <1>3, <2>1, <2>2, <2>3 DEF UnreadInv, EmptyHdr
  <1> QED
    BY <1>1, <1>2, <1>4 DEF HInv, WrittenInv, GzipInv, ZlibInv, EndInv, Waits

LEMMA CompressHolds ==
  ASSUME HInv, Compress
  PROVE  HInv'
  <1>1. /\ h' = h /\ ret = "none" /\ ret' = "end_input" /\ wret = 0 /\ file' = file \o Data
        /\ next_in' = next_in /\ avail_in' = avail_in
        /\ block_state' = block_state /\ tmp_in_buffer' = tmp_in_buffer /\ count' = count
        /\ gz_hdr' = gz_hdr
    BY DEF Compress
  <1>2. /\ next_in = 0 /\ avail_in = 0 /\ block_state = "new_hdr" /\ tmp_in_buffer = <<>>
        /\ count = 0 /\ gz_hdr = EmptyHdr(gz_hdr.len) /\ file = Written
    BY <1>1 DEF HInv, UnreadInv
  <1>3. TypeInv'
    BY <1>1 DEF HInv, TypeInv
  <1>4. /\ Start' = Start /\ Flags' = Flags /\ Written' = Written /\ Data' = Data
        /\ HeaderBody' = HeaderBody
    BY <1>1, Constants
  <1>5. /\ gz_hdr \in Hdr /\ h \in EndedHeaders /\ Written \o Data \in Seq(Octets)
        /\ Len(Written \o Data) \in Nat
    BY WrittenTyped, LenProperties DEF HInv, TypeInv
  <1>6. WrittenInv'
    BY <1>1, <1>2, <1>4, <1>5 DEF WrittenInv
  <1>7. /\ gz_hdr.buf = NoText /\ gz_hdr.hcrc = <<>> /\ ~ gz_hdr.dict_id
    BY <1>2 DEF EmptyHdr, NoText, Fields
  <1>8. Kept("new_hdr", 0, gz_hdr)
    <2> SUFFICES ASSUME NEW f \in Fields, gz_hdr.len[f] # Null
                 PROVE  /\ gz_hdr.buf[f] = Field(f, Got("new_hdr", f, 0))
                        /\ Got("new_hdr", f, 0) <= gz_hdr.len[f]
                        /\ f \notin Passed["new_hdr"]
      BY DEF Kept
    <2>1. f \notin Passed["new_hdr"] /\ Got("new_hdr", f, 0) = 0
      BY DEF Got, Passed, Fields
    <2>2. gz_hdr.buf[f] = <<>> /\ Field(f, 0) = <<>>
      <3>1. gz_hdr.buf[f] = <<>>
        BY <1>7 DEF NoText
      <3>2. Field(f, 0) \in Seq(Octets) /\ Len(Field(f, 0)) = 0
        BY FieldTyped DEF Fields, Names
      <3> QED
        BY <3>1, <3>2, EmptySeq
    <2>3. gz_hdr.len[f] \in Nat
      BY <1>5 DEF Hdr
    <2> QED
      BY <2>1, <2>2, <2>3
  <1>9. Len(<<>>) = 0 /\ HdrBase \in Nat \ {0}
    BY HeaderAssumption
  <1>10. Stands("new_hdr", 0, <<>>, 0, gz_hdr)
    <2>1. Start["new_hdr"] = 0 /\ FixedLen["new_hdr"] = HdrBase
      BY DEF Start, FixedLen
    <2> QED
      BY <1>8, <1>9, <2>1 DEF Stands, Fields
  <1>11. SubSeq(Written \o Data, 1, 0) = <<>>
    <2>1. PICK z \in Nat : z = 0
      OBVIOUS
    <2>2. /\ SubSeq(Written \o Data, z + 1, z + z) \in Seq(Octets)
          /\ Len(SubSeq(Written \o Data, z + 1, z + z)) = z
      BY <1>5, <2>1, Segment
    <2>3. z + 1 = 1 /\ z + z = 0
      BY <2>1
    <2> QED
      BY <2>1, <2>2, <2>3, EmptySeq
  <1>12. GzipInv'
    <2>1. Stands(block_state, next_in, tmp_in_buffer, count, gz_hdr)'
      BY <1>1, <1>2, <1>4, <1>10 DEF Stands, Kept, Got
    <2>2. (gz_hdr.hcrc = SumOf(block_state, next_in))'
      BY <1>1, <1>2, <1>4, <1>7, <1>11 DEF SumOf
    <2> QED
      BY <1>1, <1>7, <2>1, <2>2 DEF GzipInv
  <1>13. ZlibInv'
    BY <1>1, <1>2, <1>7, <1>9 DEF ZlibInv, ZlibStands, NoText
  <1> QED
    BY <1>1, <1>3, <1>6, <1>12, <1>13 DEF HInv, UnreadInv, EndInv

LEMMA GzipReads ==
  ASSUME h \in GzipHdr, file = GzipBytes \o Data, NEW s, Shape(s), Untouched(s, "new_hdr"),
         NEW base, base = ReadBase(s), NEW extra_len, extra_len = ReadExtraLen(base),
         NEW extra, extra = ReadExtra(extra_len), NEW name, name = ReadName(extra),
         NEW comment, comment = ReadComment(name)
  PROVE  Left(ReadHcrc(comment))
  <1>1. Ready(base, "extra_len")
    BY BaseRead
  <1>2. Ready(extra_len, "extra")
    BY <1>1, ExtraLenRead
  <1>3. Ready(extra, "name")
    BY <1>2, ExtraRead
  <1>4. Ready(name, "comment")
    BY <1>3, StringRead DEF ReadName, Strings, Follower
  <1>5. Ready(comment, "hcrc")
    BY <1>4, StringRead DEF ReadComment, Strings, Follower
  <1> QED
    BY <1>5, HcrcRead

(* The invariant is what the stages of the gzip reader ask for.            *)
LEMMA GzipEnters ==
  ASSUME HInv, ~ FreshHdr, h.format = "gzip", ret \in {"end_input", "regrown"},
         NEW n \in Nat, next_in + n <= Len(file), NEW s, s = Entered(n)
  PROVE  Shape(s) /\ Untouched(s, "new_hdr")
  <1>1. /\ gz_hdr \in Hdr /\ tmp_in_buffer \in Seq(Octets) /\ block_state \in Sites
        /\ next_in \in Nat /\ count \in Nat
    BY DEF HInv, TypeInv
  <1>2. /\ Stands(block_state, next_in, tmp_in_buffer, count, gz_hdr)
        /\ h.hcrc => gz_hdr.hcrc = SumOf(block_state, next_in)
        /\ ~ gz_hdr.dict_id
    BY DEF HInv, GzipInv, Waits
  <1>3. /\ s.entry = block_state /\ s.start = next_in /\ s.next = next_in /\ s.avail = n
        /\ s.bs = block_state /\ s.tmp = tmp_in_buffer /\ s.count = count /\ s.xcount = count
        /\ s.hdr = gz_hdr /\ s.flags = gz_hdr.flags /\ s.wrapper = FALSE /\ s.ret = "ok"
    BY DEF Entered
  <1>4. s \in Call
    <2>1. gz_hdr.flags \in SUBSET UNDEFINED_FLAG
      BY <1>1 DEF Hdr
    <2>2. s = [entry |-> block_state, start |-> next_in, next |-> next_in, avail |-> n,
               bs |-> block_state, tmp |-> tmp_in_buffer, count |-> count, xcount |-> count,
               hdr |-> gz_hdr, flags |-> gz_hdr.flags, wrapper |-> FALSE, buf |-> <<>>,
               ret |-> "ok"]
      BY DEF Entered
    <2> QED
      BY <1>1, <2>1, <2>2, EmptySeq DEF Call
  <1>5. block_state \in Entries
    BY <1>2 DEF Stands, Fields, Entries, Later
  <1>6. Shape(s)
    <2>1. s.entry = "extra_len" => FlagOf(s.entry) \in Flags
      BY <1>2, <1>3 DEF Stands
    <2> QED
      BY <1>1, <1>2, <1>3, <1>4, <1>5, <2>1 DEF Shape, InFile
  <1>7. Place("new_hdr") <= Place(s.entry)
    BY <1>3, <1>5, Places DEF Entries, Later
  <1>8. s.entry # "new_hdr" => s.flags = Flags
    BY <1>2, <1>3 DEF Stands
  <1>9. Stands(s.entry, s.next, s.tmp, s.count, s.hdr)
    BY <1>2, <1>3
  <1> QED
    BY <1>3, <1>6, <1>7, <1>8, <1>9 DEF Untouched

LEMMA GzipHolds ==
  ASSUME HInv, ~ FreshHdr, ret \in {"end_input", "regrown"}, h' = h, file' = file,
         NEW n \in Nat, next_in + n <= Len(file), isal_read_gzip_header(n)
  PROVE  HInv'
  <1> DEFINE s == Entered(n)
             base == ReadBase(s)
             extra_len == ReadExtraLen(base)
             extra == ReadExtra(extra_len)
             name == ReadName(extra)
             comment == ReadComment(name)
             v == ReadHcrc(comment)
             d == Done(v)
  <1>1. h.format = "gzip" /\ Leave(d)
    BY DEF isal_read_gzip_header
  <1>2. /\ h \in GzipHdr /\ h \in EndedHeaders /\ Written = GzipBytes /\ file = Written \o Data
        /\ h.dict = FALSE
    BY <1>1, Formats DEF HInv, TypeInv, WrittenInv, Written, GzipHdr
  <1>3. Left(v)
    <2>1. Shape(s) /\ Untouched(s, "new_hdr")
      BY <1>1, GzipEnters
    <2> HIDE DEF s
    <2> QED
      BY <1>2, <2>1, GzipReads
  <1> HIDE DEF v
  <1>4. /\ v \in Call /\ InFile(v) /\ ~ v.hdr.dict_id
    BY <1>3 DEF Left
  <1>5. /\ d.next = v.next /\ d.avail = v.avail /\ d.tmp = v.tmp /\ d.count = v.count
        /\ d.hdr = v.hdr /\ d.ret = v.ret
        /\ d.bs = IF v.ret = "ok" THEN "new_hdr" ELSE v.bs
        /\ v.ret = "ok" => d.wrapper
    BY <1>4 DEF Done, Call
  <1> HIDE DEF d
  <1>6. /\ next_in' = v.next /\ avail_in' = v.avail /\ tmp_in_buffer' = v.tmp
        /\ count' = v.count /\ gz_hdr' = v.hdr /\ ret' = v.ret
        /\ block_state' = IF v.ret = "ok" THEN "new_hdr" ELSE v.bs
        /\ v.ret = "ok" => wrapper_flag'
    BY <1>1, <1>5 DEF Leave
  <1>7. /\ Start' = Start /\ Flags' = Flags /\ Written' = Written /\ Data' = Data
        /\ HeaderBody' = HeaderBody /\ HdrSize' = HdrSize
    BY Constants
  <1>8. TypeInv'
    BY <1>2, <1>4, <1>6 DEF TypeInv, Call, Sites
  <1>9. v.ret # "none"
    BY <1>4 DEF Call
  <1>10. WrittenInv'
    BY <1>2, <1>4, <1>6, <1>7 DEF WrittenInv, InFile
  <1>11. GzipInv'
    <2> SUFFICES ASSUME v.ret \in {"end_input", "overflow"}
                 PROVE  GzipInv'
      BY <1>4, <1>6 DEF GzipInv, Waits, Call
    <2>1. /\ Stands(v.bs, v.next, v.tmp, v.count, v.hdr)
          /\ h.hcrc => v.hdr.hcrc = SumOf(v.bs, v.next)
          /\ v.ret = "overflow" => v.bs \in Fields /\ v.hdr.len[v.bs] # Null
      BY <1>3 DEF Left
    <2>2. block_state' = v.bs
      BY <1>6
    <2>3. Stands(block_state, next_in, tmp_in_buffer, count, gz_hdr)'
      BY <1>6, <1>7, <2>1, <2>2 DEF Stands, Kept, Got
    <2>4. (h.hcrc => gz_hdr.hcrc = SumOf(block_state, next_in))'
      BY <1>6, <1>7, <2>1, <2>2 DEF SumOf
    <2> QED
      BY <1>4, <1>6, <2>1, <2>2, <2>3, <2>4 DEF GzipInv
  <1>12. ZlibInv'
    BY <1>1 DEF ZlibInv
  <1>13. EndInv'
    <2>1. CASE v.ret = "ok"
      <3>1. v.next = HdrSize /\ v.tmp = <<>> /\ v.hdr.flags = Flags /\ (h.hcrc => h.intact)
        BY <1>3, <2>1 DEF Left
      <3>2. Kept("hcrc", 0, v.hdr)
        BY <1>3, <2>1 DEF Left
      <3>3. Kept("hcrc", 0, gz_hdr)'
        BY <1>6, <3>2 DEF Kept, Got
      <3>4. gz_hdr'.dict_id = h.dict
        <4>1. v.hdr.dict_id \in BOOLEAN
          BY <1>4 DEF Call, Hdr
        <4> QED
          BY <1>2, <1>4, <1>6, <4>1
      <3> QED
        BY <1>1, <1>6, <1>7, <2>1, <3>1, <3>3, <3>4 DEF EndInv
    <2>2. CASE v.ret = "incorrect_checksum"
      <3>1. v.tmp = <<>> /\ Kept("hcrc", 0, v.hdr) /\ ~ h.intact
        BY <1>3, <2>2 DEF Left
      <3>2. Kept("hcrc", 0, gz_hdr)'
        BY <1>6, <3>1 DEF Kept, Got
      <3> QED
        BY <1>1, <1>6, <2>2, <3>1, <3>2 DEF EndInv
    <2> QED
      BY <1>6, <2>1, <2>2 DEF EndInv
  <1> QED
    BY <1>6, <1>8, <1>9, <1>10, <1>11, <1>12, <1>13 DEF HInv, UnreadInv

LEMMA GotTyped ==
  ASSUME h \in GzipHdr, NEW b \in Entries, NEW f \in Fields, NEW left,
         b \in Fields => left \in 0..h[b]
  PROVE  /\ Got(b, f, left) \in Nat
         /\ b \in Fields => h[b] \in Nat
  <1>1. \A g \in Fields : h[g] \in {Null} \cup Nat /\ SizeOf(h[g], 0) \in Nat
    BY DEF GzipHdr, Fields, SizeOf
  <1>2. b \in Fields => left \in Nat /\ h[b] \in Nat /\ h[b] - left \in Nat
    BY <1>1 DEF Null
  <1>3. b = "extra" => h.extra - left \in Nat
    BY <1>2 DEF Fields
  <1> QED
    BY <1>1, <1>2, <1>3 DEF Got

LEMMA GrowHolds ==
  ASSUME HInv, Grow
  PROVE  HInv'
  <1>1. /\ h' = h /\ file' = file /\ ret = "overflow" /\ ret' = "regrown"
        /\ next_in' = next_in /\ avail_in' = avail_in
        /\ block_state' = block_state /\ tmp_in_buffer' = tmp_in_buffer /\ count' = count
        /\ gz_hdr' = [gz_hdr EXCEPT !.len[block_state] = @ + 1]
    BY DEF Grow
  <1>2. gz_hdr \in Hdr /\ h \in EndedHeaders
    BY DEF HInv, TypeInv
  <1>3. h.format = "gzip"
    BY <1>1, <1>2, Formats DEF HInv, ZlibInv, Waits
  <1>4. /\ Stands(block_state, next_in, tmp_in_buffer, count, gz_hdr)
        /\ h.hcrc => gz_hdr.hcrc = SumOf(block_state, next_in)
        /\ ~ gz_hdr.dict_id /\ block_state \in Fields /\ gz_hdr.len[block_state] # Null
    BY <1>1, <1>3 DEF HInv, GzipInv, Waits
  <1>5. gz_hdr.len \in [Fields -> {Null} \cup Nat]
    BY <1>2 DEF Hdr
  <1>6. PICK l \in [Fields -> {Null} \cup Nat] : l = [gz_hdr.len EXCEPT ![block_state] = @ + 1]
    <2>1. gz_hdr.len[block_state] \in Nat /\ gz_hdr.len[block_state] + 1 \in Nat
      BY <1>4, <1>5
    <2>2. [gz_hdr.len EXCEPT ![block_state] = @ + 1] \in [Fields -> {Null} \cup Nat]
      BY <1>4, <1>5, <2>1
    <2> QED
      BY <2>2
  <1>7. gz_hdr' = [gz_hdr EXCEPT !.len = l]
    BY <1>1, <1>2, <1>6 DEF Hdr
  <1>8. /\ gz_hdr' \in Hdr /\ gz_hdr'.len = l /\ gz_hdr'.buf = gz_hdr.buf
        /\ gz_hdr'.flags = gz_hdr.flags /\ gz_hdr'.hcrc = gz_hdr.hcrc
        /\ gz_hdr'.extra_len = gz_hdr.extra_len /\ gz_hdr'.dict_id = gz_hdr.dict_id
    BY <1>2, <1>7 DEF Hdr
  <1>9. \A f \in Fields : /\ l[f] # Null => gz_hdr.len[f] # Null
                          /\ gz_hdr.len[f] # Null => gz_hdr.len[f] \in Nat /\ gz_hdr.len[f] <= l[f]
    BY <1>4, <1>5, <1>6 DEF Null
  <1>10. /\ Start' = Start /\ Flags' = Flags /\ Written' = Written /\ Data' = Data
         /\ HeaderBody' = HeaderBody
    BY <1>1, Constants
  <1>11. Kept(block_state, count, gz_hdr')
    <2> SUFFICES ASSUME NEW f \in Fields, l[f] # Null
                 PROVE  /\ gz_hdr.buf[f] = Field(f, Got(block_state, f, count))
                        /\ Got(block_state, f, count) <= l[f]
                        /\ f \in Strings /\ f \in Passed[block_state] /\ h[f] # Null => h[f] < l[f]
      BY <1>8 DEF Kept
    <2>1. gz_hdr.len[f] # Null /\ gz_hdr.len[f] \in Nat /\ gz_hdr.len[f] <= l[f]
      BY <1>9
    <2>2. /\ gz_hdr.buf[f] = Field(f, Got(block_state, f, count))
          /\ Got(block_state, f, count) <= gz_hdr.len[f]
          /\ f \in Strings /\ f \in Passed[block_state] /\ h[f] # Null => h[f] < gz_hdr.len[f]
      BY <1>4, <2>1 DEF Stands, Kept
    <2>3. Got(block_state, f, count) \in Nat /\ (h[f] # Null => h[f] \in Nat) /\ l[f] \in Nat
      <3>1. h \in GzipHdr
        BY <1>2, <1>3, Formats
      <3>2. count \in 0..h[block_state]
        BY <1>4 DEF Stands
      <3>3. h[f] # Null => h[f] \in Nat
        BY <3>1 DEF GzipHdr, Fields
      <3> QED
        BY <1>4, <1>6, <3>1, <3>2, <3>3, GotTyped DEF Entries, Later, Fields
    <2> QED
      BY <2>1, <2>2, <2>3
  <1>12. TypeInv'
    BY <1>1, <1>8 DEF HInv, TypeInv
  <1>13. WrittenInv'
    BY <1>1, <1>10 DEF HInv, WrittenInv
  <1>14. Stands(block_state, next_in, tmp_in_buffer, count, gz_hdr)'
    BY <1>1, <1>4, <1>8, <1>10, <1>11 DEF Stands, Kept, Got
  <1>15. (h.hcrc => gz_hdr.hcrc = SumOf(block_state, next_in))'
    BY <1>1, <1>4, <1>8, <1>10 DEF SumOf
  <1>16. l[block_state] # Null
    BY <1>4, <1>9 DEF Null
  <1>17. GzipInv'
    BY <1>1, <1>4, <1>8, <1>14, <1>15, <1>16 DEF GzipInv
  <1> QED
    BY <1>1, <1>3, <1>12, <1>13, <1>17 DEF HInv, UnreadInv, ZlibInv, EndInv

(* What a call of the zlib reader leaves.                                  *)
ZlibLeft(s) ==
  /\ s \in Call /\ InFile(s) /\ s.hdr.buf = NoText
  /\ \/ /\ s.ret = "end_input" /\ ~ s.hdr.dict_id /\ ZlibStands(s.bs, s.next, s.tmp, s.hdr)
     \/ /\ s.ret = "ok" /\ s.next = HdrSize /\ s.tmp = <<>> /\ s.hdr.flags = Flags
        /\ s.hdr.dict_id = h.dict /\ h.intact
     \/ s.ret = "incorrect_checksum" /\ s.tmp = <<>> /\ ~ h.intact

LEMMA ZlibSize ==
  ASSUME h \in ZlibHdr
  PROVE  /\ HdrSize = HdrBase + (IF h.dict THEN ZLIB_DICT_LEN ELSE 0)
         /\ "dict" \in Flags <=> h.dict
         /\ Flags \subseteq UNDEFINED_FLAG
  <1>1. /\ h.extra = Null /\ h.name = Null /\ h.comment = Null /\ h.hcrc = FALSE
        /\ h.dict \in BOOLEAN /\ HdrBase \in Nat
    BY HeaderAssumption DEF ZlibHdr
  <1>2. HdrSize = HdrBase + (IF h.dict THEN ZLIB_DICT_LEN ELSE 0)
    BY <1>1 DEF HdrSize, NulLen, SizeOf, ZLIB_DICT_LEN
  <1>3. /\ "dict" \in Flags <=> h.dict
        /\ Flags \subseteq UNDEFINED_FLAG
    BY <1>1 DEF Flags, HasExtra, UNDEFINED_FLAG
  <1> QED
    BY <1>2, <1>3

(* The dictionary's id follows the two bytes of the header, and a call may *)
(* begin at it.                                                            *)
LEMMA DictRead ==
  ASSUME h \in ZlibHdr, file \in Seq(Octets), NEW s \in Call, InFile(s), s.hdr.buf = NoText,
         s.ret = "ok", ~ s.hdr.dict_id, s.hdr.flags = Flags, s.flags = Flags, h.intact,
         s.next = HdrBase + Len(s.tmp), Len(s.tmp) < ZLIB_DICT_LEN,
         s.entry = "dict_id" => h.dict, s.entry # "dict_id" => s.tmp = <<>>
  PROVE  ZlibLeft(ReadDict(s))
  <1> DEFINE t == fixed_size_read(s, ZLIB_DICT_LEN)
  <1>1. /\ s.next \in Nat /\ s.avail \in Nat /\ Len(s.tmp) \in Nat /\ HdrBase \in Nat
        /\ s.hdr \in Hdr /\ h.dict \in BOOLEAN
    BY HeaderAssumption, LenProperties DEF Call, ZlibHdr
  <1>2. CASE ~ h.dict
    <2>1. ReadDict(s) = s
      BY <1>2, ZlibSize DEF ReadDict
    <2>2. s.tmp = <<>> /\ Len(<<>>) = 0
      BY <1>2
    <2>3. s.next = HdrSize
      BY <1>1, <1>2, <2>2, ZlibSize
    <2>4. s.hdr.dict_id = h.dict
      BY <1>1, <1>2 DEF Hdr
    <2> QED
      BY <2>1, <2>2, <2>3, <2>4 DEF ZlibLeft
  <1>3. CASE h.dict
    <2>1. Len(s.tmp) <= 4 /\ ZLIB_DICT_LEN = 4
      BY <1>1 DEF ZLIB_DICT_LEN
    <2>2. /\ t \in Call /\ Same(s, t) /\ t.hdr = s.hdr /\ t.count = s.count /\ InFile(t)
          /\ \/ /\ t.ret = "end_input" /\ t.next = s.next + s.avail /\ t.avail = 0
                /\ Len(t.tmp) = Len(s.tmp) + s.avail /\ Len(t.tmp) < 4
             \/ /\ t.ret = "ok" /\ t.tmp = <<>> /\ t.next = s.next + (4 - Len(s.tmp))
      BY <2>1, FixedRead
    <2> HIDE DEF t
    <2>3. s.ret = "ok" /\ (s.entry = "dict_id" \/ "dict" \in s.flags)
      BY <1>3, ZlibSize
    <2>4. CASE t.ret # "ok"
      <3> DEFINE u == [t EXCEPT !.bs = "dict_id"]
      <3>1. ReadDict(s) = u
        BY <2>3, <2>4 DEF ReadDict, t
      <3>2. /\ u \in Call /\ u.bs = "dict_id" /\ u.hdr = t.hdr /\ u.next = t.next
            /\ u.avail = t.avail /\ u.tmp = t.tmp /\ u.ret = t.ret
        BY <2>2 DEF Call, Sites
      <3> HIDE DEF u
      <3>3. u.next = HdrBase + Len(u.tmp)
        <4>1. u.next = s.next + s.avail /\ Len(u.tmp) = Len(s.tmp) + s.avail
          BY <2>2, <2>4, <3>2
        <4>2. (HdrBase + Len(s.tmp)) + s.avail = HdrBase + (Len(s.tmp) + s.avail)
          BY <1>1
        <4> QED
          BY <4>1, <4>2
      <3>4. ZlibStands(u.bs, u.next, u.tmp, u.hdr)
        BY <1>3, <2>1, <2>2, <2>4, <3>2, <3>3 DEF ZlibStands
      <3> QED
        BY <2>2, <2>4, <3>1, <3>2, <3>4 DEF ZlibLeft, InFile
    <2>5. CASE t.ret = "ok"
      <3> DEFINE d == [t.hdr EXCEPT !.dict_id = TRUE]
                 u == [t EXCEPT !.hdr = d]
      <3>1. ReadDict(s) = u
        BY <1>1, <2>2, <2>3, <2>5 DEF ReadDict, t, Call, Hdr
      <3>2. d \in Hdr /\ d.buf = s.hdr.buf /\ d.flags = s.hdr.flags /\ d.dict_id
        BY <1>1, <2>2 DEF Hdr
      <3> HIDE DEF d
      <3>3. u \in Call
        BY <2>2, <3>2 DEF Call
      <3>4. /\ u.hdr = d /\ u.next = t.next /\ u.avail = t.avail
            /\ u.tmp = t.tmp /\ u.ret = t.ret
        BY <2>2 DEF Call
      <3> HIDE DEF u
      <3>5. u.next = HdrSize
        BY <1>1, <1>3, <2>1, <2>2, <2>5, <3>4, ZlibSize
      <3>6. u.hdr.dict_id = h.dict
        <4>1. d.dict_id = TRUE
          BY <3>2 DEF Hdr
        <4>2. h.dict = TRUE
          BY <1>1, <1>3
        <4> QED
          BY <3>4, <4>1, <4>2
      <3> QED
        BY <2>2, <2>5, <3>1, <3>2, <3>3, <3>4, <3>5, <3>6 DEF ZlibLeft, InFile
    <2> QED
      BY <2>4, <2>5
  <1> QED
    BY <1>2, <1>3

LEMMA ZlibReads ==
  ASSUME h \in ZlibHdr, file \in Seq(Octets), NEW s \in Call, InFile(s), s.hdr.buf = NoText,
         s.ret = "ok", ~ s.hdr.dict_id, s.bs = s.entry, s.flags = s.hdr.flags,
         ZlibStands(s.entry, s.next, s.tmp, s.hdr)
  PROVE  ZlibLeft(ReadDict(ReadZlibBase(s)))
  <1>1. /\ s.next \in Nat /\ s.avail \in Nat /\ Len(s.tmp) \in Nat /\ HdrBase \in Nat
        /\ s.hdr \in Hdr
    BY HeaderAssumption, LenProperties DEF Call
  <1>2. CASE s.entry = "dict_id"
    <2>1. ReadZlibBase(s) = s
      BY <1>2 DEF ReadZlibBase
    <2> QED
      BY <1>2, <2>1, DictRead DEF ZlibStands
  <1>3. CASE s.entry = "new_hdr"
    <2> DEFINE c == [s.hdr EXCEPT !.flags = {}]
               r == [s EXCEPT !.hdr = c]
               t == fixed_size_read(r, HdrBase)
    <2>1. c \in Hdr /\ c.buf = s.hdr.buf /\ c.dict_id = s.hdr.dict_id
      BY <1>1 DEF Hdr
    <2>2. r = [s EXCEPT !.hdr.flags = {}]
      BY <1>1 DEF Call, Hdr
    <2> HIDE DEF c
    <2>3. r \in Call
      BY <2>1 DEF Call
    <2>4. /\ r.hdr = c /\ r.next = s.next /\ r.avail = s.avail /\ r.tmp = s.tmp
          /\ r.ret = "ok" /\ r.entry = s.entry /\ r.bs = s.bs
      BY DEF Call
    <2>5. t = fixed_size_read([s EXCEPT !.hdr.flags = {}], HdrBase)
      BY <2>2
    <2> HIDE DEF r
    <2>6. s.next = Len(s.tmp) /\ Len(s.tmp) <= HdrBase
      BY <1>1, <1>3 DEF ZlibStands
    <2>7. /\ t \in Call /\ Same(r, t) /\ t.hdr = r.hdr /\ InFile(t)
          /\ \/ /\ t.ret = "end_input" /\ t.next = r.next + r.avail /\ t.avail = 0
                /\ Len(t.tmp) = Len(r.tmp) + r.avail /\ Len(t.tmp) < HdrBase
             \/ /\ t.ret = "ok" /\ t.tmp = <<>> /\ t.next = r.next + (HdrBase - Len(r.tmp))
      <3>1. InFile(r)
        BY <2>4 DEF InFile
      <3> QED
        BY <1>1, <2>3, <2>4, <2>6, <3>1, FixedRead
    <2> HIDE DEF t
    <2>8. t.entry = "new_hdr" /\ t.bs = "new_hdr" /\ t.hdr.buf = NoText /\ ~ t.hdr.dict_id
      BY <1>3, <2>1, <2>4, <2>7 DEF Same
    <2>9. CASE t.ret # "ok"
      <3>1. ReadZlibBase(s) = t
        BY <1>3, <2>5, <2>9 DEF ReadZlibBase
      <3>2. ReadDict(t) = t
        BY <2>9 DEF ReadDict
      <3>3. t.next = Len(t.tmp)
        BY <2>4, <2>6, <2>7, <2>9
      <3>4. ZlibStands(t.bs, t.next, t.tmp, t.hdr)
        BY <2>7, <2>8, <2>9, <3>3 DEF ZlibStands
      <3> QED
        BY <2>7, <2>8, <2>9, <3>1, <3>2, <3>4 DEF ZlibLeft
    <2>10. CASE t.ret = "ok"
      <3>1. t.next = HdrBase /\ t.tmp = <<>>
        BY <1>1, <2>4, <2>6, <2>7, <2>10
      <3> DEFINE d == [t.hdr EXCEPT !.flags = Flags]
      <3>2. d \in Hdr /\ d.buf = NoText /\ d.dict_id = t.hdr.dict_id /\ d.flags = Flags
        BY <2>1, <2>4, <2>7, <2>8, ZlibSize DEF Hdr
      <3>3. CASE ~ h.intact
        <4> DEFINE u == [t EXCEPT !.ret = "incorrect_checksum", !.hdr = d]
        <4>1. ReadZlibBase(s) = u
          <5>1. ReadZlibBase(s) = [t EXCEPT !.ret = "incorrect_checksum", !.hdr.flags = Flags]
            BY <1>3, <2>5, <2>10, <3>3 DEF ReadZlibBase
          <5> QED
            BY <2>7, <5>1 DEF Call
        <4> HIDE DEF d
        <4>2. u \in Call
          BY <2>7, <3>2 DEF Call
        <4>3. /\ u.hdr = d /\ u.next = t.next /\ u.avail = t.avail /\ u.tmp = t.tmp
              /\ u.ret = "incorrect_checksum"
          BY <2>7 DEF Call
        <4> HIDE DEF u
        <4>4. ReadDict(u) = u
          BY <4>3 DEF ReadDict
        <4> QED
          BY <2>7, <3>1, <3>2, <3>3, <4>1, <4>2, <4>3, <4>4 DEF ZlibLeft, InFile
      <3>4. CASE h.intact
        <4> DEFINE u == [t EXCEPT !.flags = Flags, !.hdr = d]
        <4>1. ReadZlibBase(s) = u
          <5>1. ReadZlibBase(s) = [t EXCEPT !.flags = Flags, !.hdr.flags = Flags]
            BY <1>3, <2>5, <2>10, <3>4 DEF ReadZlibBase
          <5> QED
            BY <2>7, <5>1 DEF Call
        <4> HIDE DEF d
        <4>2. u \in Call
          BY <2>7, <3>2, ZlibSize DEF Call
        <4>3. /\ u.hdr = d /\ u.next = t.next /\ u.avail = t.avail /\ u.tmp = t.tmp
              /\ u.ret = "ok" /\ u.flags = Flags /\ u.entry = t.entry
          BY <2>7, <2>10 DEF Call
        <4> HIDE DEF u
        <4>4. InFile(u) /\ Len(u.tmp) = 0 /\ u.next = HdrBase + Len(u.tmp)
          BY <1>1, <2>7, <3>1, <4>3 DEF InFile
        <4>5. Len(u.tmp) < ZLIB_DICT_LEN /\ ~ u.hdr.dict_id /\ u.entry # "dict_id"
          BY <2>8, <3>2, <4>3, <4>4 DEF ZLIB_DICT_LEN
        <4> QED
          BY <3>1, <3>2, <3>4, <4>1, <4>2, <4>3, <4>4, <4>5, DictRead
      <3> QED
        BY <3>3, <3>4
    <2> QED
      BY <2>9, <2>10
  <1> QED
    BY <1>2, <1>3 DEF ZlibStands

LEMMA ZlibHolds ==
  ASSUME HInv, ~ FreshHdr, ret = "end_input", h' = h, file' = file,
         NEW n \in Nat, next_in + n <= Len(file), isal_read_zlib_header(n)
  PROVE  HInv'
  <1> DEFINE s == Entered(n)
             v == ReadDict(ReadZlibBase(s))
             d == Done(v)
  <1>1. h.format = "zlib" /\ Leave(d)
    BY DEF isal_read_zlib_header
  <1>2. /\ h \in ZlibHdr /\ h \in EndedHeaders /\ file = Written \o Data
        /\ file \in Seq(Octets)
    BY <1>1, Formats, WrittenTyped DEF HInv, TypeInv, WrittenInv
  <1>3. ZlibLeft(v)
    <2>1. /\ gz_hdr \in Hdr /\ tmp_in_buffer \in Seq(Octets) /\ block_state \in Sites
          /\ next_in \in Nat /\ count \in Nat
      BY DEF HInv, TypeInv
    <2>2. /\ gz_hdr.buf = NoText /\ ~ gz_hdr.dict_id
          /\ ZlibStands(block_state, next_in, tmp_in_buffer, gz_hdr)
      BY <1>1 DEF HInv, ZlibInv, Waits
    <2>3. /\ s.entry = block_state /\ s.start = next_in /\ s.next = next_in /\ s.avail = n
          /\ s.bs = block_state /\ s.tmp = tmp_in_buffer /\ s.count = count /\ s.xcount = count
          /\ s.hdr = gz_hdr /\ s.flags = gz_hdr.flags /\ s.wrapper = FALSE /\ s.ret = "ok"
      BY DEF Entered
    <2>4. s \in Call
      <3>1. gz_hdr.flags \in SUBSET UNDEFINED_FLAG
        BY <2>1 DEF Hdr
      <3>2. s = [entry |-> block_state, start |-> next_in, next |-> next_in, avail |-> n,
                 bs |-> block_state, tmp |-> tmp_in_buffer, count |-> count, xcount |-> count,
                 hdr |-> gz_hdr, flags |-> gz_hdr.flags, wrapper |-> FALSE, buf |-> <<>>,
                 ret |-> "ok"]
        BY DEF Entered
      <3> QED
        BY <2>1, <3>1, <3>2, EmptySeq DEF Call
    <2>5. InFile(s)
      BY <2>3 DEF InFile
    <2> HIDE DEF s
    <2>6. ZlibStands(s.entry, s.next, s.tmp, s.hdr)
      BY <2>2, <2>3
    <2> QED
      BY <1>2, <2>2, <2>3, <2>4, <2>5, <2>6, ZlibReads
  <1> HIDE DEF v
  <1>4. v \in Call /\ InFile(v) /\ v.hdr.buf = NoText
    BY <1>3 DEF ZlibLeft
  <1>5. /\ d.next = v.next /\ d.avail = v.avail /\ d.tmp = v.tmp /\ d.count = v.count
        /\ d.hdr = v.hdr /\ d.ret = v.ret
        /\ d.bs = IF v.ret = "ok" THEN "new_hdr" ELSE v.bs
        /\ v.ret = "ok" => d.wrapper
    BY <1>4 DEF Done, Call
  <1> HIDE DEF d
  <1>6. /\ next_in' = v.next /\ avail_in' = v.avail /\ tmp_in_buffer' = v.tmp
        /\ count' = v.count /\ gz_hdr' = v.hdr /\ ret' = v.ret
        /\ block_state' = IF v.ret = "ok" THEN "new_hdr" ELSE v.bs
        /\ v.ret = "ok" => wrapper_flag'
    BY <1>1, <1>5 DEF Leave
  <1>7. /\ Flags' = Flags /\ Written' = Written /\ Data' = Data /\ HdrSize' = HdrSize
    BY Constants
  <1>8. TypeInv'
    BY <1>2, <1>4, <1>6 DEF TypeInv, Call, Sites
  <1>9. v.ret # "none"
    BY <1>4 DEF Call
  <1>10. WrittenInv'
    BY <1>2, <1>4, <1>6, <1>7 DEF WrittenInv, InFile
  <1>11. GzipInv'
    BY <1>1 DEF GzipInv
  <1>12. gz_hdr'.buf = NoText'
    BY <1>4, <1>6 DEF NoText
  <1>13. ZlibInv'
    <2> SUFFICES ASSUME v.ret \in Waits
                 PROVE  ZlibInv'
      BY <1>6 DEF ZlibInv, Waits
    <2>1. v.ret = "end_input" /\ ~ v.hdr.dict_id /\ ZlibStands(v.bs, v.next, v.tmp, v.hdr)
      BY <1>3 DEF ZlibLeft, Waits
    <2>2. block_state' = v.bs
      BY <1>6, <2>1
    <2>3. ZlibStands(block_state, next_in, tmp_in_buffer, gz_hdr)'
      BY <1>6, <1>7, <2>1, <2>2 DEF ZlibStands
    <2> QED
      BY <1>6, <1>12, <2>1, <2>3 DEF ZlibInv
  <1>14. EndInv'
    <2>1. CASE v.ret = "ok"
      <3>1. /\ v.next = HdrSize /\ v.tmp = <<>> /\ v.hdr.flags = Flags
            /\ v.hdr.dict_id = h.dict /\ h.intact
        BY <1>3, <2>1 DEF ZlibLeft
      <3> QED
        BY <1>1, <1>6, <1>7, <1>12, <2>1, <3>1 DEF EndInv
    <2>2. CASE v.ret = "incorrect_checksum"
      <3>1. v.tmp = <<>> /\ ~ h.intact
        BY <1>3, <2>2 DEF ZlibLeft
      <3> QED
        BY <1>1, <1>6, <1>12, <2>2, <3>1 DEF EndInv
    <2> QED
      BY <1>6, <2>1, <2>2 DEF EndInv
  <1> QED
    BY <1>6, <1>8, <1>9, <1>10, <1>11, <1>13, <1>14 DEF HInv, UnreadInv

LEMMA StutterHolds ==
  ASSUME HInv, UNCHANGED vars
  PROVE  HInv'
  <1>1. /\ h' = h /\ file' = file /\ wret' = wret /\ ret' = ret
        /\ next_in' = next_in /\ avail_in' = avail_in /\ block_state' = block_state
        /\ tmp_in_buffer' = tmp_in_buffer /\ count' = count /\ gz_hdr' = gz_hdr
        /\ wrapper_flag' = wrapper_flag
    BY DEF vars
  <1>2. /\ Start' = Start /\ Flags' = Flags /\ Written' = Written /\ Data' = Data
        /\ HeaderBody' = HeaderBody /\ HdrSize' = HdrSize
    BY <1>1, Constants
  <1>3. TypeInv'
    BY <1>1 DEF HInv, TypeInv
  <1>4. UnreadInv'
    BY <1>1, <1>2 DEF HInv, UnreadInv, EmptyHdr
  <1>5. WrittenInv'
    BY <1>1, <1>2 DEF HInv, WrittenInv
  <1>6. GzipInv'
    BY <1>1, <1>2 DEF HInv, GzipInv, Stands, Kept, Got, SumOf
  <1>7. ZlibInv'
    BY <1>1, <1>2 DEF HInv, ZlibInv, ZlibStands, NoText
  <1>8. EndInv'
    BY <1>1, <1>2 DEF HInv, EndInv, Kept, Got, NoText
  <1> QED
    BY <1>3, <1>4, <1>5, <1>6, <1>7, <1>8 DEF HInv

LEMMA StepHolds ==
  ASSUME HInv, ~ FreshHdr, [Next]_vars
  PROVE  HInv'
  <1>1. CASE Write
    BY <1>1, WriteHolds
  <1>2. CASE Compress
    BY <1>2, CompressHolds
  <1>3. CASE Read
    <2>1. PICK n \in Chunks : /\ next_in + n <= Len(file)
                             /\ (isal_read_gzip_header(n) \/ isal_read_zlib_header(n))
      BY <1>3 DEF Read
    <2>2. n \in Nat /\ ret = "end_input" /\ h' = h /\ file' = file
      BY <1>3, HeaderAssumption DEF Read
    <2>3. CASE isal_read_gzip_header(n)
      BY <2>1, <2>2, <2>3, GzipHolds
    <2>4. CASE isal_read_zlib_header(n)
      BY <2>1, <2>2, <2>4, ZlibHolds
    <2> QED
      BY <2>1, <2>3, <2>4
  <1>4. CASE Grow
    BY <1>4, GrowHolds
  <1>5. CASE ReadOn
    <2>1. /\ ret = "regrown" /\ isal_read_gzip_header(avail_in) /\ h' = h /\ file' = file
      BY <1>5 DEF ReadOn
    <2>2. avail_in \in Nat /\ next_in + avail_in <= Len(file)
      BY <2>1 DEF HInv, TypeInv, WrittenInv
    <2> QED
      BY <2>1, <2>2, GzipHolds
  <1>6. CASE UNCHANGED vars
    BY <1>6, StutterHolds
  <1> QED
    BY <1>1, <1>2, <1>3, <1>4, <1>5, <1>6 DEF Next, Over

-----------------------------------------------------------------------------
(* What it means for the user.                                             *)

(* A header that is taken whole has come back as it was written.           *)
LEMMA ComesBack ==
  ASSUME HInv
  PROVE  HeaderComesBack
  <1> SUFFICES ASSUME ret = "ok"
               PROVE  /\ next_in = HdrSize /\ wrapper_flag /\ tmp_in_buffer = <<>>
                      /\ ~ h.intact => h.format = "gzip" /\ ~ h.hcrc
                      /\ gz_hdr.flags = Flags /\ gz_hdr.dict_id = h.dict
                      /\ h.format = "gzip" => /\ Holds("extra", h.extra) /\ Holds("name", h.name)
                                              /\ Holds("comment", h.comment)
    BY DEF HInv, EndInv, HeaderComesBack
  <1>1. /\ next_in = HdrSize /\ wrapper_flag /\ tmp_in_buffer = <<>>
        /\ gz_hdr.flags = Flags /\ gz_hdr.dict_id = h.dict
        /\ h.format = "zlib" \/ h.hcrc => h.intact
    BY DEF HInv, EndInv
  <1>2. h.format = "gzip" \/ h.format = "zlib"
    BY Formats DEF HInv, TypeInv
  <1>3. ASSUME h.format = "gzip", NEW f \in Fields
        PROVE  Holds(f, h[f])
    <2>1. Kept("hcrc", 0, gz_hdr)
      BY <1>3 DEF HInv, EndInv
    <2>2. Got("hcrc", f, 0) = IF h[f] = Null THEN 0 ELSE h[f]
      <3>1. h[f] \in {Null} \cup Nat
        BY <1>3, Formats DEF HInv, TypeInv, GzipHdr, Fields
      <3> QED
        BY <3>1 DEF Got, Passed, SizeOf
    <2> QED
      BY <2>1, <2>2 DEF Kept, Holds
  <1>4. h.format = "gzip" => /\ Holds("extra", h.extra) /\ Holds("name", h.name)
                            /\ Holds("comment", h.comment)
    BY <1>3 DEF Fields
  <1> QED
    BY <1>1, <1>2, <1>4

(* Nothing has been stored past the end of a buffer.                       *)
LEMMA NothingPast ==
  ASSUME HInv
  PROVE  BuffersHold
  <1>1. /\ gz_hdr \in Hdr /\ tmp_in_buffer \in Seq(Octets) /\ block_state \in Sites
        /\ next_in \in Nat /\ avail_in \in Nat /\ count \in Nat /\ h \in EndedHeaders
        /\ ret \in {"none", "ok", "end_input", "overflow", "regrown", "incorrect_checksum"}
    BY DEF HInv, TypeInv
  <1>2. Len(<<>>) = 0 /\ HdrBase \in Nat \ {0} /\ ZLIB_DICT_LEN = 4
    BY HeaderAssumption DEF ZLIB_DICT_LEN
  <1>3. Written \in Seq(Octets) /\ Len(Written) \in Nat /\ Written \o Data \in Seq(Octets)
        /\ Len(Written \o Data) \in Nat
    BY <1>1, WrittenTyped, LenProperties
  <1>4. next_in \in 0..Len(file) /\ avail_in \in 0..Len(file)
    <2>1. CASE ret = "none"
      <3>1. Len(file) \in Nat /\ next_in = 0 /\ avail_in = 0
        BY <1>2, <1>3, <2>1 DEF HInv, UnreadInv
      <3> QED
        BY <3>1
    <2>2. CASE ret # "none"
      <3>1. Len(file) \in Nat /\ next_in + avail_in <= Len(file)
        BY <1>3, <2>2 DEF HInv, WrittenInv
      <3> QED
        BY <1>1, <3>1
    <2> QED
      BY <2>1, <2>2
  <1>5. Len(tmp_in_buffer) < HdrBase + ZLIB_DICT_LEN
    <2>1. CASE ret \in {"none", "ok", "incorrect_checksum"}
      <3>1. tmp_in_buffer = <<>>
        BY <2>1 DEF HInv, UnreadInv, EndInv
      <3> QED
        BY <1>2, <3>1
    <2>2. CASE ret \in Waits /\ h.format = "gzip"
      <3>1. Stands(block_state, next_in, tmp_in_buffer, count, gz_hdr)
        BY <2>2 DEF HInv, GzipInv
      <3>2. \/ tmp_in_buffer = <<>>
            \/ Len(tmp_in_buffer) < HdrBase
            \/ Len(tmp_in_buffer) < 2
        BY <3>1 DEF Stands, FixedLen, GZIP_EXTRA_LEN, GZIP_HCRC_LEN
      <3>3. Len(tmp_in_buffer) \in Nat
        BY <1>1, LenProperties
      <3> QED
        BY <1>2, <3>2, <3>3
    <2>3. CASE ret \in Waits /\ h.format # "gzip"
      <3>1. ZlibStands(block_state, next_in, tmp_in_buffer, gz_hdr)
        BY <1>1, <2>3, Formats DEF HInv, ZlibInv
      <3>2. Len(tmp_in_buffer) \in Nat
        BY <1>1, LenProperties
      <3> QED
        BY <1>2, <3>1, <3>2 DEF ZlibStands
    <2> QED
      BY <1>1, <2>1, <2>2, <2>3 DEF Waits
  <1>6. TypeOK
    BY <1>1, <1>4, <1>5 DEF TypeOK, Sites
  <1>7. ASSUME NEW f \in Fields, gz_hdr.len[f] # Null
        PROVE  /\ Len(gz_hdr.buf[f]) <= gz_hdr.len[f]
               /\ ret = "ok" /\ f # "extra" /\ f \in gz_hdr.flags =>
                    Len(gz_hdr.buf[f]) < gz_hdr.len[f]
    <2>1. gz_hdr.len[f] \in Nat
      BY <1>1, <1>7 DEF Hdr
    <2>2. CASE h.format = "gzip" /\ ret # "none"
      <3>1. h \in GzipHdr
        BY <1>1, <2>2, Formats
      <3>2. \E b \in Entries, left \in Nat :
              /\ Kept(b, left, gz_hdr) /\ (b \in Fields => left \in 0..h[b])
              /\ ret = "ok" => b = "hcrc"
        <4>1. CASE ret \in Waits
          <5>1. Stands(block_state, next_in, tmp_in_buffer, count, gz_hdr)
            BY <2>2, <4>1 DEF HInv, GzipInv
          <5> QED
            BY <1>1, <4>1, <5>1 DEF Stands, Entries, Later, Fields, Waits
        <4>2. CASE ret \in {"ok", "incorrect_checksum"}
          <5>1. Kept("hcrc", 0, gz_hdr)
            BY <2>2, <4>2 DEF HInv, EndInv
          <5> QED
            BY <5>1 DEF Entries, Later, Fields
        <4> QED
          BY <1>1, <2>2, <4>1, <4>2 DEF Waits
      <3>3. PICK b \in Entries, left \in Nat :
              /\ Kept(b, left, gz_hdr) /\ (b \in Fields => left \in 0..h[b])
              /\ ret = "ok" => b = "hcrc"
        BY <3>2
      <3> DEFINE n == Got(b, f, left)
      <3>4. n \in Nat
        BY <3>1, <3>3, GotTyped
      <3>5. /\ gz_hdr.buf[f] = Field(f, n) /\ n <= gz_hdr.len[f]
            /\ f \in Strings /\ f \in Passed[b] /\ h[f] # Null => h[f] < gz_hdr.len[f]
        BY <1>7, <3>3 DEF Kept
      <3>6. Len(gz_hdr.buf[f]) = n
        <4> HIDE DEF n
        <4> QED
          BY <3>4, <3>5, FieldTyped DEF Fields, Names
      <3>7. ASSUME ret = "ok", f # "extra", f \in gz_hdr.flags
            PROVE  n < gz_hdr.len[f]
        <4>1. gz_hdr.flags = Flags /\ b = "hcrc"
          BY <3>3, <3>7 DEF HInv, EndInv
        <4>2. h[f] # Null
          BY <3>1, <3>7, <4>1, FlagsAre DEF Fields, FlagOf
        <4>3. f \in Passed[b] /\ f \in Strings /\ n = SizeOf(h[f], 0)
          BY <3>7, <4>1 DEF Passed, Fields, Strings, Got
        <4>4. n = h[f]
          BY <3>1, <4>2, <4>3 DEF SizeOf, GzipHdr, Fields
        <4> QED
          BY <3>5, <4>2, <4>3, <4>4
      <3> QED
        BY <3>5, <3>6, <3>7
    <2>3. CASE h.format = "zlib" \/ ret = "none"
      <3>1. gz_hdr.buf[f] = <<>>
        <4>1. gz_hdr.buf = NoText
          BY <1>1, <2>3 DEF HInv, UnreadInv, ZlibInv, EndInv, EmptyHdr, NoText, Fields, Waits
        <4> QED
          BY <4>1 DEF NoText
      <3>2. ASSUME ret = "ok", f # "extra", f \in gz_hdr.flags
            PROVE  FALSE
        <4>1. h \in ZlibHdr /\ gz_hdr.flags = Flags
          BY <1>1, <2>3, <3>2, Formats DEF HInv, EndInv, ZlibHdr
        <4> QED
          BY <3>2, <4>1 DEF Flags, HasExtra, ZlibHdr, Fields
      <3> QED
        BY <1>2, <2>1, <3>1, <3>2
    <2>4. h.format = "gzip" \/ h.format = "zlib"
      BY <1>1, Formats
    <2> QED
      BY <2>2, <2>3, <2>4
  <1> QED
    BY <1>6, <1>7 DEF BuffersHold, Fields

(* The header asked for does not change.                                   *)
LEMMA SameHeader ==
  ASSUME [Next]_vars
  PROVE  h' = h
  BY DEF Next, vars, Write, Compress, Read, Grow, ReadOn, Over

(* So the invariant holds all along of a header whose strings end.         *)
EndedInv == StringsEnd => HInv

LEMMA HInvAlways ==
  ASSUME ~ FreshHdr
  PROVE  Spec => []EndedInv
  <1>1. Init => EndedInv
    BY InitHolds DEF EndedInv
  <1>2. ASSUME EndedInv, [Next]_vars
        PROVE  EndedInv'
    <2>1. StringsEnd' <=> StringsEnd
      BY <1>2, SameHeader DEF StringsEnd
    <2> QED
      BY <1>2, <2>1, StepHolds DEF EndedInv
  <1> QED
    BY <1>1, <1>2, PTL DEF Spec

(* Whatever the header, wherever the input is cut, and however often a     *)
(* buffer is too small, a user that keeps its header from call to call is  *)
(* told by isal_read_gzip_header and isal_read_zlib_header what the writer *)
(* was told, if the strings end in the writer's buffers; and such a header *)
(* is never refused if its checksum is right.                              *)
THEOREM HeadersComeBack ==
  ASSUME ~ FreshHdr
  PROVE  Spec => []HeaderComesBack
  <1>1. EndedInv => HeaderComesBack
    BY ComesBack DEF EndedInv, HeaderComesBack
  <1> QED
    BY <1>1, HInvAlways, PTL

(* Nothing is stored past the end of a buffer of the user's, a string that *)
(* is complete leaves room for its terminator, and what is kept of a field *)
(* of fixed size fits into tmp_in_buffer: of a header whose strings end in *)
(* the writer's buffers.                                                   *)
THEOREM HeaderBuffersHold ==
  ASSUME ~ FreshHdr
  PROVE  Spec => [](StringsEnd => BuffersHold)
  <1>1. EndedInv => (StringsEnd => BuffersHold)
    BY NothingPast DEF EndedInv
  <1> QED
    BY <1>1, HInvAlways, PTL
=============================================================================
