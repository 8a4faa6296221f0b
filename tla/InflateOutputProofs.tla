------------------------- MODULE InflateOutputProofs -------------------------
(***************************************************************************)
(* That inflate delivers the stream: the bytes in order, each once, behind *)
(* the dictionary, total_out and the checksum of what was delivered, and   *)
(* only errors the stream has, however the calls cut input and output, for *)
(* any size of history, window and groups of symbols.  OutInv is what the  *)
(* proof adds to InflateStreamProofs' IInv: which part of the stream each  *)
(* buffer shows, and that the history of a match is in one of them.        *)
(***************************************************************************)
EXTENDS InflateStreamProofs

-----------------------------------------------------------------------------
(* Buffers that show a part of the stream.                                 *)

(* b, from its f-th byte on, is what the stream has from k + f on.  b's    *)
(* first bytes may be missing or stale: tmp_out_buffer's before what is    *)
(* still needed.                                                           *)
Shows(b, f, p, k) ==
  /\ k + f >= 1 /\ k + Len(b) <= Len(p)
  /\ \A i \in f..Len(b) : b[i] = p[k + i]

(* q is p with more behind it.                                             *)
Grown(p, q) == Len(p) <= Len(q) /\ \A i \in 1..Len(p) : q[i] = p[i]

(* From n on, p has m bytes of a match at distance d.                      *)
Repeats(p, n, d, m) == \A i \in 1..m : p[n + i] = p[(n - d + 1) + ((i - 1) % d)]

(* A buffer shows a stream that has grown too.                             *)
LEMMA ShowsGrown ==
  ASSUME NEW b \in Seq(Int), NEW p \in Seq(Int), NEW q \in Seq(Int), NEW f \in Int, NEW k \in Int,
         Shows(b, f, p, k), Grown(p, q)
  PROVE  Shows(b, f, q, k)
  <1>1. Len(b) \in Nat /\ Len(p) \in Nat /\ Len(q) \in Nat
    OBVIOUS
  <1>2. k + f >= 1 /\ k + Len(b) <= Len(q)
    BY <1>1 DEF Shows, Grown
  <1>3. ASSUME NEW i \in f..Len(b) PROVE b[i] = q[k + i]
    <2>1. k + i \in 1..Len(p)
      BY <1>1 DEF Shows
    <2>2. QED
      BY <2>1 DEF Shows, Grown
  <1>4. QED
    BY <1>2, <1>3 DEF Shows

(* A buffer that shows the stream from f on does so from any later byte.   *)
LEMMA ShowsLater ==
  ASSUME NEW b \in Seq(Int), NEW p \in Seq(Int), NEW f \in Int, NEW g \in Int, NEW k \in Int,
         Shows(b, f, p, k), f <= g
  PROVE  Shows(b, g, p, k)
  BY DEF Shows

(* What bytes put at the end of the stream do to it.                       *)
LEMMA Appended ==
  ASSUME NEW p \in Seq(Int), NEW s \in Seq(Int)
  PROVE  /\ p \o s \in Seq(Int) /\ Len(p \o s) = Len(p) + Len(s)
         /\ Grown(p, p \o s)
         /\ Shows(s, 1, p \o s, Len(p))
  <1>1. p \o s \in Seq(Int) /\ Len(p \o s) = Len(p) + Len(s) /\ Len(p) \in Nat /\ Len(s) \in Nat
    OBVIOUS
  <1>2. Grown(p, p \o s)
    BY <1>1 DEF Grown
  <1>3. Shows(s, 1, p \o s, Len(p))
    BY <1>1 DEF Shows
  <1>4. QED
    BY <1>1, <1>2, <1>3

(* Bytes behind a buffer, each showing its part of the stream, show it     *)
(* together.                                                               *)
LEMMA ShowsJoined ==
  ASSUME NEW a \in Seq(Int), NEW b \in Seq(Int), NEW p \in Seq(Int), NEW f \in Int, NEW k \in Int,
         f >= 1, Shows(a, f, p, k), Shows(b, 1, p, k + Len(a))
  PROVE  Shows(a \o b, f, p, k)
  <1>1. Len(a) \in Nat /\ Len(b) \in Nat /\ Len(a \o b) = Len(a) + Len(b)
    OBVIOUS
  <1>2. k + f >= 1 /\ k + Len(a \o b) <= Len(p)
    BY <1>1 DEF Shows
  <1>3. ASSUME NEW i \in f..Len(a \o b) PROVE (a \o b)[i] = p[k + i]
    <2> i \in Int
      OBVIOUS
    <2>1. CASE i <= Len(a)
      BY <1>1, <2>1 DEF Shows
    <2>2. CASE i > Len(a)
      <3>1. PICK j \in 1..Len(b) : i = Len(a) + j
        <4>1. i - Len(a) \in 1..Len(b) /\ i = Len(a) + (i - Len(a))
          BY <1>1, <2>2
        <4>2. QED
          BY <4>1
      <3>2. (a \o b)[i] = b[j]
        <4>1. i \in 1..(Len(a) + Len(b)) /\ ~ (i <= Len(a)) /\ i - Len(a) = j
          BY <1>1, <2>2, <3>1
        <4>2. \A x \in 1..(Len(a) + Len(b)) :
                (a \o b)[x] = IF x <= Len(a) THEN a[x] ELSE b[x - Len(a)]
          BY ConcatProperties, Zenon
        <4>3. QED
          BY <4>1, <4>2, Zenon
      <3>3. b[j] = p[(k + Len(a)) + j]
        BY <3>1 DEF Shows
      <3>4. (k + Len(a)) + j = k + i
        BY <1>1, <3>1
      <3>5. QED
        BY <3>2, <3>3, <3>4
    <2>3. i <= Len(a) \/ i > Len(a)
      BY <1>1
    <2>4. QED
      BY <2>1, <2>2, <2>3, Zenon
  <1>4. QED
    BY <1>2, <1>3 DEF Shows

(* A part of a buffer shows its part of the stream: of it the memmove of   *)
(* the history, and the copy to next_out, are made.                        *)
LEMMA ShowsPart ==
  ASSUME NEW b \in Seq(Int), NEW p \in Seq(Int), NEW f \in Int, NEW g \in Int, NEW k \in Int,
         Shows(b, f, p, k), NEW m \in Nat, NEW n \in Nat, m + n <= Len(b), f <= m + g, g >= 1
  PROVE  LET s == SubSeq(b, m + 1, m + n)
         IN s \in Seq(Int) /\ Len(s) = n /\ Shows(s, g, p, k + m)
  <1> DEFINE s == SubSeq(b, m + 1, m + n)
  <1>1. Len(b) \in Nat /\ Len(p) \in Nat
    OBVIOUS
  <1>2. m + 1 \in 1..(Len(b) + 1) /\ m + n \in 0..Len(b)
    BY <1>1
  <1>3. s \in Seq(Int) /\ Len(s) = IF m + 1 <= m + n THEN (m + n) - (m + 1) + 1 ELSE 0
    BY <1>2, PartType
  <1>4. Len(s) = n
    BY <1>3
  <1>5. ASSUME NEW i \in g..n PROVE s[i] = p[(k + m) + i]
    <2>1. s[i] = b[(m + 1) + i - 1]
      <3>1. \A j \in (m + 1)..(m + n) : b[j] \in Int
        BY <1>1
      <3>2. i \in 1..((m + n) - (m + 1) + 1)
        OBVIOUS
      <3>3. QED
        BY <3>1, <3>2, SubSeqProperties
    <2>2. m + i \in f..Len(b)
      BY <1>1
    <2>3. b[m + i] = p[k + (m + i)]
      BY <2>2 DEF Shows
    <2>4. k + (m + i) = (k + m) + i
      OBVIOUS
    <2>5. (m + 1) + i - 1 = m + i
      OBVIOUS
    <2>6. QED
      BY <2>1, <2>3, <2>4, <2>5
  <1>6. (k + m) + g >= 1 /\ (k + m) + n <= Len(p)
    BY <1>1 DEF Shows
  <1>7. QED
    BY <1>3, <1>4, <1>5, <1>6 DEF Shows

(* A remainder is below the divisor, in a form that hides %.               *)
LEMMA Remainder ==
  ASSUME NEW d \in Nat \ {0}, NEW i \in Int
  PROVE  \E c \in 0..(d - 1) : (i - 1) % d = c
  <1>1. PICK x \in Int : x = i - 1
    OBVIOUS
  <1>2. QED
    BY <1>1, Division

(* byte_copy in a buffer that shows the stream makes the bytes of the      *)
(* match, if its distance does not reach behind what the buffer shows: by  *)
(* overlapping copies the match is periodic.                               *)
LEMMA CopyShows ==
  ASSUME NEW b \in Seq(Int), NEW p \in Seq(Int), NEW f \in Int, NEW k \in Int, f >= 1, f <= Len(b) + 1,
         NEW d \in Nat \ {0}, NEW n \in Nat,
         Shows(b, f, p, k), n > 0 => d <= Len(b) - f + 1,
         k + Len(b) + n <= Len(p), Repeats(p, k + Len(b), d, n)
  PROVE  Shows(byte_copy(b, d, n), f, p, k)
  <1> DEFINE w == [i \in 1..n |-> Cell(b, (Len(b) - d + 1) + ((i - 1) % d))]
  <1>1. Len(b) \in Nat /\ Len(p) \in Nat
    OBVIOUS
  <1>2. byte_copy(b, d, n) = b \o w
    BY DEF byte_copy
  <1>3. byte_copy(b, d, n) \in Seq(Int) /\ Len(byte_copy(b, d, n)) = Len(b) + n
    BY CopyType
  <1>4. w \in Seq(Int) /\ Len(w) = n
    <2>1. \A i : Cell(b, i) \in Int
      BY DEF Cell, Junk
    <2>2. w \in [1..n -> Int]
      BY <2>1
    <2>3. QED
      BY <2>2
  <1>5. ASSUME NEW i \in 1..n PROVE w[i] = p[(k + Len(b)) + i]
    <2>1. PICK c \in 0..(d - 1) : (i - 1) % d = c
      <3>1. i \in Int
        OBVIOUS
      <3>2. QED
        BY <3>1, Remainder, Zenon
    <2>2. w[i] = Cell(b, (Len(b) - d + 1) + c)
      BY <2>1
    <2>3. (Len(b) - d + 1) + c \in f..Len(b)
      <3>1. d <= Len(b) - f + 1 /\ c \in Int /\ 0 <= c /\ c <= d - 1
        OBVIOUS
      <3>2. QED
        BY <1>1, <3>1
    <2>4. Cell(b, (Len(b) - d + 1) + c) = b[(Len(b) - d + 1) + c]
      BY <1>1, <2>3 DEF Cell
    <2>5. b[(Len(b) - d + 1) + c] = p[k + ((Len(b) - d + 1) + c)]
      BY <2>3 DEF Shows
    <2>6. k + ((Len(b) - d + 1) + c) = ((k + Len(b)) - d + 1) + c
      BY <1>1, <2>1
    <2>7. p[(k + Len(b)) + i] = p[((k + Len(b)) - d + 1) + c]
      BY <2>1 DEF Repeats
    <2>8. QED
      BY <2>2, <2>4, <2>5, <2>6, <2>7
  <1>6. Shows(w, 1, p, k + Len(b))
    <2>1. (k + Len(b)) + 1 >= 1
      BY <1>1 DEF Shows
    <2>2. QED
      BY <1>1, <1>4, <1>5, <2>1 DEF Shows
  <1>7. QED
    BY <1>2, <1>4, <1>6, ShowsJoined

(* A remainder may be taken before an addition.                            *)
LEMMA RemainderLater ==
  ASSUME NEW d \in Nat \ {0}, NEW x \in Int, NEW y \in Int
  PROVE  (x + (y % d)) % d = (x + y) % d
  <1>1. PICK q \in Int, r \in 0..(d - 1) : y = d * q + r /\ y % d = r
    BY Division
  <1>2. PICK z \in Int : z = x + r
    BY <1>1
  <1>3. PICK u \in Int, v \in 0..(d - 1) : z = d * u + v /\ z % d = v
    BY Division
  <1>4. d * q \in Int /\ d * u \in Int /\ d * (u + q) = d * u + d * q
    OBVIOUS
  <1>5. PICK t \in Int : t = x + y
    OBVIOUS
  <1>6. t = d * (u + q) + v
    BY <1>1, <1>2, <1>3, <1>4, <1>5
  <1>7. u + q \in Int
    OBVIOUS
  <1>8. t % d = v
    BY <1>6, <1>7, Divided
  <1>9. QED
    BY <1>1, <1>2, <1>3, <1>5, <1>8

(* What is left of a match, after c bytes of it, is one at the same        *)
(* distance.                                                               *)
LEMMA RepeatsLater ==
  ASSUME NEW p \in Seq(Int), NEW n \in Int, NEW d \in Nat \ {0}, NEW m \in Nat, NEW c \in 0..m,
         Repeats(p, n, d, m)
  PROVE  Repeats(p, n + c, d, m - c)
  <1>1. SUFFICES ASSUME NEW i \in 1..(m - c)
                 PROVE  p[(n + c) + i] = p[((n + c) - d + 1) + ((i - 1) % d)]
    BY DEF Repeats
  <1>2. PICK j \in 0..(d - 1) : (i - 1) % d = j
    BY Remainder
  <1>3. PICK e \in 0..(d - 1) : ((c + i) - 1) % d = e
    <2>1. PICK x \in Int : x = c + i
      OBVIOUS
    <2>2. QED
      BY <2>1, Remainder
  <1>4. p[(n + c) + i] = p[(n - d + 1) + e]
    <2>1. c + i \in 1..m /\ n + (c + i) = (n + c) + i
      OBVIOUS
    <2>2. QED
      BY <1>3, <2>1 DEF Repeats
  <1>5. (c + j) % d = e
    <2>1. PICK x \in Int : x = i - 1
      OBVIOUS
    <2>2. (c + (x % d)) % d = (c + x) % d
      <3>1. c \in Int
        OBVIOUS
      <3>2. QED
        BY <2>1, <3>1, RemainderLater, Zenon
    <2>3. c + x = (c + i) - 1
      BY <2>1
    <2>4. QED
      BY <1>2, <1>3, <2>1, <2>2, <2>3
  <1>6. CASE c + j < d
    <2>1. c + j = d * 0 + (c + j) /\ c + j \in 0..(d - 1)
      BY <1>6
    <2>2. e = c + j
      <3>1. PICK x \in 0..(d - 1) : x = c + j
        BY <2>1
      <3>2. x = d * 0 + x /\ x \in Int /\ 0 \in Int
        OBVIOUS
      <3>3. x % d = x
        BY <3>2, Divided
      <3>4. QED
        BY <1>5, <3>1, <3>3
    <2>3. (n - d + 1) + e = ((n + c) - d + 1) + j
      BY <2>2
    <2>4. QED
      BY <1>2, <1>4, <2>3
  <1>7. CASE c + j >= d
    <2>1. PICK k \in 1..m : k = c + j - d + 1
      <3>1. c + j - d + 1 \in 1..m
        BY <1>7
      <3>2. QED
        BY <3>1
    <2>2. (k - 1) % d = e
      <3>1. PICK x \in Int : x = k - 1
        OBVIOUS
      <3>2. PICK u \in Int, v \in 0..(d - 1) : x = d * u + v /\ x % d = v
        BY Division
      <3>3. PICK y \in Int : y = c + j
        OBVIOUS
      <3>4. d * (u + 1) = d * u + d /\ d * u \in Int /\ u + 1 \in Int
        OBVIOUS
      <3>5. y = d * (u + 1) + v
        BY <2>1, <3>1, <3>2, <3>3, <3>4
      <3>6. y % d = v
        BY <3>4, <3>5, Divided
      <3>7. QED
        BY <1>5, <3>1, <3>2, <3>3, <3>6
    <2>3. p[n + k] = p[(n - d + 1) + e]
      BY <2>2 DEF Repeats
    <2>4. n + k = ((n + c) - d + 1) + j
      BY <2>1
    <2>5. QED
      BY <1>2, <1>4, <2>3, <2>4
  <1>8. QED
    BY <1>6, <1>7

(* No byte comes from before a buffer.                                     *)
NoJunk(s) == \A i \in 1..Len(s) : s[i] # Junk

(* A match whose distance is within the stream makes no junk.              *)
LEMMA CopyGrows ==
  ASSUME NEW p \in Seq(Int), NEW d \in Nat \ {0}, NEW n \in Nat, n > 0 => d <= Len(p), NoJunk(p)
  PROVE  LET q == byte_copy(p, d, n)
         IN /\ q \in Seq(Int) /\ Len(q) = Len(p) + n /\ Grown(p, q) /\ NoJunk(q)
            /\ Repeats(q, Len(p), d, n)
  <1> DEFINE w == [i \in 1..n |-> Cell(p, (Len(p) - d + 1) + ((i - 1) % d))]
             q == byte_copy(p, d, n)
  <1>1. Len(p) \in Nat
    OBVIOUS
  <1>2. q = p \o w
    BY DEF byte_copy
  <1>3. q \in Seq(Int) /\ Len(q) = Len(p) + n
    BY CopyType
  <1>4. w \in Seq(Int) /\ Len(w) = n
    <2>1. \A i : Cell(p, i) \in Int
      BY DEF Cell, Junk
    <2>2. w \in [1..n -> Int]
      BY <2>1
    <2>3. QED
      BY <2>2
  <1>5. ASSUME NEW i \in 1..n
        PROVE  \E c \in 1..Len(p) : w[i] = p[c] /\ c = (Len(p) - d + 1) + ((i - 1) % d)
    <2>1. PICK c \in 0..(d - 1) : (i - 1) % d = c
      <3>1. i \in Int
        OBVIOUS
      <3>2. QED
        BY <3>1, Remainder, Zenon
    <2>2. d <= Len(p) /\ c \in Int /\ 0 <= c /\ c <= d - 1
      OBVIOUS
    <2>3. (Len(p) - d + 1) + c \in 1..Len(p)
      BY <1>1, <2>2
    <2>4. w[i] = p[(Len(p) - d + 1) + c]
      BY <2>1, <2>3 DEF Cell
    <2>5. QED
      BY <2>1, <2>3, <2>4
  <1> HIDE DEF w
  <1>6. Grown(p, q) /\ Shows(w, 1, q, Len(p))
    BY <1>2, <1>4, Appended
  <1>7. Repeats(q, Len(p), d, n)
    <2>1. SUFFICES ASSUME NEW i \in 1..n PROVE q[Len(p) + i] = q[(Len(p) - d + 1) + ((i - 1) % d)]
      BY DEF Repeats
    <2>2. PICK c \in 1..Len(p) : w[i] = p[c] /\ c = (Len(p) - d + 1) + ((i - 1) % d)
      BY <1>5
    <2>3. q[Len(p) + i] = w[i]
      BY <1>4, <1>6 DEF Shows
    <2>4. q[c] = p[c]
      BY <1>6 DEF Grown
    <2>5. QED
      BY <2>2, <2>3, <2>4
  <1>8. NoJunk(q)
    <2>1. SUFFICES ASSUME NEW i \in 1..Len(q) PROVE q[i] # Junk
      BY DEF NoJunk
    <2>2. CASE i <= Len(p)
      BY <1>1, <1>6, <2>2 DEF Grown, NoJunk
    <2>3. CASE i > Len(p)
      <3>1. PICK j \in 1..n : i = Len(p) + j
        <4>1. i - Len(p) \in 1..n /\ i = Len(p) + (i - Len(p))
          BY <1>1, <1>3, <2>3
        <4>2. QED
          BY <4>1
      <3>2. q[i] = w[j]
        BY <1>4, <1>6, <3>1 DEF Shows
      <3>3. PICK c \in 1..Len(p) : w[j] = p[c]
        BY <1>5
      <3>4. QED
        BY <3>2, <3>3 DEF NoJunk
    <2>4. QED
      BY <1>1, <1>3, <2>2, <2>3
  <1>9. QED
    BY <1>3, <1>6, <1>7, <1>8

(* A buffer that shows the stream from its first byte is a prefix of it.   *)
LEMMA ShowsPrefix ==
  ASSUME NEW b \in Seq(Int), NEW p \in Seq(Int), Shows(b, 1, p, 0)
  PROVE  IsPrefix(b, p)
  <1>1. Len(b) \in Nat /\ Len(p) \in Nat /\ Len(b) <= Len(p)
    BY DEF Shows
  <1>2. \A i \in 1..Len(b) : b[i] \in Int /\ p[i] \in Int /\ b[i] = p[i]
    BY <1>1 DEF Shows
  <1> DEFINE n == Len(b)
             s == SubSeq(b, 1, n)
             t == SubSeq(p, 1, n)
  <1>3. s \in Seq(Int) /\ Len(s) = n /\ \A i \in 1..n : s[i] = b[i]
    BY <1>1, <1>2, SubSeqProperties
  <1>4. t \in Seq(Int) /\ Len(t) = n /\ \A i \in 1..n : t[i] = p[i]
    BY <1>1, <1>2, SubSeqProperties
  <1> HIDE DEF s, t
  <1>5. s = t
    BY <1>1, <1>2, <1>3, <1>4, SeqEqual
  <1>6. QED
    BY <1>1, <1>5 DEF IsPrefix, s, t

-----------------------------------------------------------------------------
(* The invariant.                                                          *)

(* The bytes of the stream, the dictionary's included, that next_out has   *)
(* been given; and where in the stream tmp_out_buffer begins.              *)
Sent == dict + Len(got) + IF AtUser THEN 0 ELSE Len(out)
Held == Sent - tmp_out_processed

(* The bits the decoder needs before it can go on, and that they are not   *)
(* there: the call is at the end of its input.                             *)
Wanted ==
  CASE block_state = "HDR" -> HeaderNeeds(upcoming)
    [] block_state = "CODED" -> IF upcoming = None THEN 0 ELSE GroupNeeds(upcoming)
    [] OTHER -> 1
Starved == Unread < Wanted

(* The stream is the dictionary and what was decoded of it.                *)
Whole ==
  /\ dict <= Len(plain) /\ NoJunk(plain)
  /\ \A i \in 1..dict : plain[i] = i - dict - 1

(* The verdict is the stream's, or for a user without state its room's.    *)
Real ==
  /\ ret = ISAL_INVALID_LOOKBACK => Matches[upcoming.tail].dist > Len(plain) \/ TooSmall
  /\ ret = ISAL_INVALID_SYMBOL => upcoming.tail = "bad"
  /\ ret # ISAL_INCORRECT_CHECKSUM
  /\ ret = ISAL_OUT_OVERFLOW /\ phase = 0 => TooSmall

(* isal_inflate_stateless: the user's buffer holds all of the stream.      *)
Alone ==
  phase = 0 =>
    /\ dict = 0 /\ Shows(out, 1, plain, 0) /\ total_out = Len(out)
    /\ ret = ISAL_DECOMP_OK => Len(out) = Len(plain)
    /\ IF pc = "stopped"
       THEN got = out /\ (ret = ISAL_DECOMP_OK /\ crc_flag # "raw" => crc = Len(out))
       ELSE got = <<>> /\ crc = 0

(* What the user was given, by earlier calls and by this one.              *)
Delivered ==
  phase # 0 =>
    /\ Shows(got, 1, plain, dict)
    /\ ~AtUser => Shows(out, 1, plain, dict + Len(got))
    /\ crc = IF crc_flag = "raw" THEN 0 ELSE Len(got)

(* What is decoded and not delivered: the rest of tmp_out_buffer, then     *)
(* write_overflow's literals, then the match that copy_overflow stands     *)
(* for.                                                                    *)
Ahead ==
  phase # 0 /\ pc # "stopped" =>
    /\ Len(plain) = Sent + Pending + Overflowed
    /\ Shows(tmp_out, tmp_out_processed + 1, plain, Held)
    /\ Shows(write_overflow, 1, plain, Sent + Pending)
    /\ copy_overflow.len > 0 =>
         /\ block_state = "CODED" /\ copy_overflow.dist \in 1..HistSize
         /\ Repeats(plain, Len(plain) - copy_overflow.len, copy_overflow.dist, copy_overflow.len)
    /\ block_state = "CHECKSUM_CHECK" => Pending = 0

(* Where a match finds its history: in the user's buffer, when this call   *)
(* has already filled it with a whole window, or in tmp_out_buffer, which  *)
(* then begins at the dictionary or holds a window.                        *)
InOut   == phase = 2 /\ pc \in {"decode", "save"} /\ Pending = 0 /\ Len(out) >= HistSize
InTmp == Shows(tmp_out, 1, plain, Held) /\ (Held = 0 \/ Len(tmp_out) >= HistSize)

(* The history a match may point into is in one of the two while the       *)
(* stream goes on.  The first loop leaves tmp_out_buffer only when it      *)
(* holds two windows or the input has run out, and at most one of them was *)
(* delivered before: so a user's buffer that takes all of it holds a       *)
(* window, or nothing more is decoded in this call.                        *)
Window ==
  phase # 0 /\ pc # "stopped" /\ Live =>
    /\ InOut \/ InTmp
    /\ pc = "decode" /\ phase = 2 => Len(out) >= HistSize \/ Starved
    /\ pc = "deliver" => Invalid(ret) \/ Len(tmp_out) >= 2 * HistSize \/ Starved
    /\ pc = "save" /\ Overflowed > 0 => Len(out) >= HistSize
    /\ phase = 1 \/ pc \in {"user", "deliver"} => tmp_out_processed <= HistSize

(* The invariant of the output, inductive where IInv holds.                *)
OutInv == Whole /\ Real /\ Alone /\ Delivered /\ Ahead /\ Window

(* The counts of what was sent.                                            *)
LEMMA SentType ==
  ASSUME Types
  PROVE  /\ Sent \in Nat /\ Held \in Int /\ dict + Len(got) \in Nat
         /\ AtUser => Sent = dict + Len(got)
         /\ ~AtUser => Sent = dict + Len(got) + Len(out)
         /\ Held = Sent - tmp_out_processed
  <1>1. Len(got) \in Nat /\ Len(out) \in Nat /\ dict \in Nat /\ tmp_out_processed \in Nat
    BY DEF Types
  <1>2. CASE AtUser
    BY <1>1, <1>2 DEF Sent, Held
  <1>3. CASE ~AtUser
    BY <1>1, <1>3 DEF Sent, Held
  <1>4. QED
    BY <1>2, <1>3

-----------------------------------------------------------------------------
(* The decoding loop.                                                      *)

(* The counts at a step of the decoding loop, and where it writes.         *)
LEMMA LoopCounts ==
  ASSUME IInv, OutInv, pc = "decode", phase # 0
  PROVE  /\ Overflowed = 0 /\ Sent = dict + Len(got) + Len(out) /\ ~AtUser /\ Live
         /\ Len(plain) = Sent + Pending /\ Held + Len(tmp_out) = Len(plain)
         /\ phase = 1 => out = <<>> /\ Len(out) = 0 /\ InTmp
         /\ phase = 2 => Pending = 0 /\ tmp_out_processed = Len(tmp_out) /\ Len(plain) = dict + Len(got) + Len(out)
         /\ phase = 2 /\ Len(out) < HistSize => Starved /\ InTmp
         /\ phase = 1 => tmp_out_processed <= HistSize
         /\ phase \in {1, 2}
  <1>1. Types /\ Control /\ Space
    BY DEF IInv
  <1>2. Live /\ ~AtUser /\ phase \in {1, 2}
    BY <1>1 DEF Control, AtUser, Types
  <1>3. Overflowed = 0 /\ (phase = 1 => out = <<>>) /\ (phase = 2 => Pending = 0)
    BY <1>1 DEF Space
  <1>4. Len(plain) = Sent + Pending + Overflowed
    BY DEF OutInv, Ahead
  <1>5. (InOut \/ InTmp) /\ (phase = 2 => Len(out) >= HistSize \/ Starved)
        /\ (phase = 1 => tmp_out_processed <= HistSize)
    BY <1>2 DEF OutInv, Window
  <1>6. /\ Sent \in Nat /\ Held \in Int /\ Held = Sent - tmp_out_processed
        /\ Sent = dict + Len(got) + Len(out) /\ dict + Len(got) \in Nat
    BY <1>1, <1>2, SentType
  <1>7. /\ Pending = Len(tmp_out) - tmp_out_processed /\ Len(tmp_out) \in Nat /\ Len(out) \in Nat
        /\ Len(plain) \in Nat /\ HistSize \in Nat
    BY <1>1, Lengths, Sizes
  <1>8. tmp_out_processed \in Nat
    BY <1>1 DEF Types
  <1>9. Len(plain) = Sent + Pending /\ Held + Len(tmp_out) = Len(plain)
    <2>1. PICK s \in Nat, r \in Nat, t \in Nat :
            s = Sent /\ r = tmp_out_processed /\ t = Len(tmp_out)
      BY <1>6, <1>7, <1>8
    <2>2. Pending = t - r /\ Held = s - r
      BY <1>6, <1>7, <2>1
    <2>3. s + (t - r) + 0 = s + (t - r) /\ (s - r) + t = s + (t - r)
      OBVIOUS
    <2>4. Len(plain) = s + (t - r)
      BY <1>3, <1>4, <2>1, <2>2, <2>3
    <2>5. QED
      BY <2>1, <2>2, <2>3, <2>4
  <1>10. phase = 1 => Len(out) = 0 /\ InTmp
    BY <1>3, <1>5 DEF InOut
  <1>11. phase = 2 => tmp_out_processed = Len(tmp_out) /\ Len(plain) = dict + Len(got) + Len(out)
    BY <1>3, <1>6, <1>7, <1>8, <1>9
  <1>12. phase = 2 /\ Len(out) < HistSize => Starved /\ InTmp
    BY <1>5, <1>7 DEF InOut
  <1>13. QED
    BY <1>2, <1>3, <1>5, <1>6, <1>9, <1>10, <1>11, <1>12

(* A step of the loop has put n bytes into the buffer it writes to, and    *)
(* the rest it decoded into write_overflow and copy_overflow.              *)
LoopWrote(n) ==
  /\ Grown(plain, plain') /\ Len(plain') = Len(plain) + n + Overflowed'
  /\ phase = 1 => /\ out' = out /\ Len(tmp_out') = Len(tmp_out) + n
                  /\ Shows(tmp_out', 1, plain', Held)
  /\ phase = 2 => /\ tmp_out' = tmp_out /\ Len(out') = Len(out) + n
                  /\ Shows(out', 1, plain', dict + Len(got))
  /\ Shows(write_overflow', 1, plain', Len(plain) + n)
  /\ copy_overflow'.len > 0 =>
       /\ block_state' = "CODED" /\ copy_overflow'.dist \in 1..HistSize
       /\ Repeats(plain', Len(plain') - copy_overflow'.len, copy_overflow'.dist, copy_overflow'.len)

(* What a step of the loop leaves alone.                                   *)
LoopLeft ==
  /\ UNCHANGED <<phase, dict, crc_flag, got, crc, tmp_out_processed>>
  /\ pc' \in {"decode", AfterLoop}
  /\ block_state' \in Working \cup {"INPUT_DONE"}

(* What overflows after a step has a length.                               *)
LEMMA OverflowNext ==
  ASSUME Types'
  PROVE  Overflowed' \in Nat
  <1>1. write_overflow' \in Seq(Int) /\ copy_overflow' \in [len : Nat, dist : Nat]
    BY DEF Types
  <1>2. Len(write_overflow') \in Nat /\ copy_overflow'.len \in Nat
    BY <1>1
  <1>3. QED
    BY <1>2 DEF Overflowed

(* What a step of the loop writes is what is to be delivered after it.     *)
LEMMA LoopLengths ==
  ASSUME IInv, OutInv, IInv', pc = "decode", phase # 0, NEW n \in Nat, LoopWrote(n), LoopLeft
  PROVE  /\ pc' # "stopped" /\ ~AtUser' /\ phase' # 0 /\ pc' # "user"
         /\ Len(plain') = Sent' + Pending' + Overflowed'
         /\ Sent' + Pending' = Len(plain) + n
         /\ phase = 1 => Sent' = Sent /\ Held' = Held /\ Pending' = Pending + n
         /\ phase = 2 => Sent' = Sent + n /\ Held' = Held + n /\ Pending' = 0
  <1>1. Types /\ Types' /\ Control
    BY DEF IInv
  <1>2. /\ Sent = dict + Len(got) + Len(out) /\ Len(plain) = Sent + Pending /\ phase \in {1, 2}
        /\ phase = 1 => out = <<>>
        /\ phase = 2 => Pending = 0
    BY LoopCounts
  <1>3. pc' \in {"decode", "deliver", "save"}
    BY <1>2 DEF LoopLeft, AfterLoop
  <1>4. ~AtUser' /\ pc' # "stopped" /\ pc' # "user" /\ phase' # 0
    BY <1>2, <1>3 DEF AtUser, LoopLeft
  <1>5. Sent' = dict' + Len(got)' + Len(out)' /\ Held' = Sent' - tmp_out_processed'
    BY <1>4 DEF Sent, Held
  <1>6. UNCHANGED <<dict, got, tmp_out_processed>>
    BY DEF LoopLeft
  <1>7. /\ Pending = Len(tmp_out) - tmp_out_processed /\ Pending' = Len(tmp_out)' - tmp_out_processed'
        /\ Len(tmp_out) \in Nat /\ Len(out) \in Nat /\ Len(plain) \in Nat /\ Len(got) \in Nat
        /\ Held = Sent - tmp_out_processed
    BY <1>1, Lengths DEF Pending, Held
  <1>8. dict \in Nat /\ tmp_out_processed \in Nat /\ Overflowed' \in Nat
    BY <1>1, OverflowNext DEF Types
  <1>9. phase = 1 => Sent' = Sent /\ Held' = Held /\ Pending' = Pending + n
    <2>1. SUFFICES ASSUME phase = 1 PROVE Sent' = Sent /\ Held' = Held /\ Pending' = Pending + n
      OBVIOUS
    <2>2. out' = out /\ Len(tmp_out') = Len(tmp_out) + n
      BY <2>1 DEF LoopWrote
    <2>3. Len(tmp_out)' = Len(tmp_out) + n /\ Len(out)' = Len(out) /\ Len(got)' = Len(got)
      BY <1>6, <2>2
    <2>4. QED
      BY <1>2, <1>5, <1>6, <1>7, <1>8, <2>3
  <1>10. phase = 2 => Sent' = Sent + n /\ Held' = Held + n /\ Pending' = 0
    <2>1. SUFFICES ASSUME phase = 2 PROVE Sent' = Sent + n /\ Held' = Held + n /\ Pending' = 0
      OBVIOUS
    <2>2. tmp_out' = tmp_out /\ Len(out') = Len(out) + n
      BY <2>1 DEF LoopWrote
    <2>3. Len(tmp_out)' = Len(tmp_out) /\ Len(out)' = Len(out) + n /\ Len(got)' = Len(got)
      BY <1>6, <2>2
    <2>4. QED
      BY <1>2, <1>5, <1>6, <1>7, <1>8, <2>1, <2>3
  <1>11. Sent' + Pending' = Len(plain) + n
    <2>1. Sent \in Nat /\ Pending \in Int
      BY <1>1, SentType, Lengths
    <2>2. CASE phase = 1
      BY <1>2, <1>9, <2>1, <2>2
    <2>3. CASE phase = 2
      BY <1>2, <1>10, <2>1, <2>3
    <2>4. QED
      BY <1>2, <2>2, <2>3
  <1>12. Len(plain)' = Sent' + Pending' + Overflowed'
    BY <1>8, <1>11 DEF LoopWrote
  <1>13. QED
    BY <1>4, <1>9, <1>10, <1>11, <1>12

(* A step of the loop that writes the stream's bytes keeps what is         *)
(* delivered and ahead.                                                    *)
LEMMA LoopOutput ==
  ASSUME IInv, OutInv, IInv', pc = "decode", phase # 0, NEW n \in Nat, LoopWrote(n), LoopLeft
  PROVE  Delivered' /\ Ahead'
  <1>1. Types /\ Types' /\ Delivered
    BY DEF IInv, OutInv
  <1>2. /\ pc' # "stopped" /\ ~AtUser' /\ phase' # 0
        /\ Len(plain') = Sent' + Pending' + Overflowed'
        /\ Sent' + Pending' = Len(plain) + n
        /\ phase = 1 => Sent' = Sent /\ Held' = Held /\ Pending' = Pending + n
        /\ phase = 2 => Sent' = Sent + n /\ Held' = Held + n /\ Pending' = 0
    BY LoopLengths
  <1>3. /\ Sent = dict + Len(got) + Len(out) /\ ~AtUser /\ phase \in {1, 2}
        /\ phase = 1 => out = <<>>
        /\ phase = 2 => tmp_out_processed = Len(tmp_out)
        /\ Len(plain) = Sent + Pending
    BY LoopCounts
  <1>4. UNCHANGED <<phase, dict, crc_flag, got, crc, tmp_out_processed>>
    BY DEF LoopLeft
  <1>5. Grown(plain, plain')
    BY DEF LoopWrote
  <1>6. /\ tmp_out \in Seq(Int) /\ out \in Seq(Int) /\ got \in Seq(Int) /\ plain \in Seq(Int)
        /\ tmp_out' \in Seq(Int) /\ out' \in Seq(Int) /\ plain' \in Seq(Int)
        /\ dict \in Nat /\ Len(got) \in Nat /\ tmp_out_processed \in Nat /\ Len(plain) \in Nat
        /\ dict + Len(got) \in Int /\ Held \in Int /\ Sent \in Nat /\ Held = Sent - tmp_out_processed
    <2>1. /\ tmp_out \in Seq(Int) /\ out \in Seq(Int) /\ got \in Seq(Int) /\ plain \in Seq(Int)
          /\ tmp_out' \in Seq(Int) /\ out' \in Seq(Int) /\ plain' \in Seq(Int)
          /\ dict \in Nat /\ tmp_out_processed \in Nat
      BY <1>1 DEF Types
    <2>2. QED
      BY <1>1, <2>1, SentType
  <1>7. Shows(got, 1, plain', dict)
    BY <1>1, <1>5, <1>6, ShowsGrown DEF Delivered
  <1>8. Shows(out', 1, plain', dict + Len(got))
    <2>1. CASE phase = 1
      <3>1. Shows(out, 1, plain, dict + Len(got))
        BY <1>1, <1>3, <2>1 DEF Delivered
      <3>2. out' = out
        BY <2>1 DEF LoopWrote
      <3>3. QED
        BY <1>5, <1>6, <3>1, <3>2, ShowsGrown
    <2>2. CASE phase = 2
      BY <2>2 DEF LoopWrote
    <2>3. QED
      BY <1>3, <2>1, <2>2
  <1>9. Delivered'
    <2>1. crc = IF crc_flag = "raw" THEN 0 ELSE Len(got)
      BY <1>1, <1>3 DEF Delivered
    <2>2. QED
      BY <1>4, <1>7, <1>8, <2>1 DEF Delivered
  <1>10. Shows(tmp_out', tmp_out_processed + 1, plain', Held')
    <2>1. CASE phase = 1
      <3>1. Shows(tmp_out', 1, plain', Held) /\ Held' = Held
        BY <1>2, <2>1 DEF LoopWrote
      <3>2. 1 <= tmp_out_processed + 1 /\ tmp_out_processed + 1 \in Int
        BY <1>6
      <3>3. QED
        BY <1>6, <3>1, <3>2, ShowsLater
    <2>2. CASE phase = 2
      <3>1. tmp_out' = tmp_out /\ tmp_out_processed = Len(tmp_out) /\ Held' = Held + n
            /\ Sent' = Sent + n /\ Pending' = 0
        BY <1>2, <1>3, <2>2 DEF LoopWrote
      <3>2. Held' + (tmp_out_processed + 1) >= 1
        BY <1>6, <3>1
      <3>3. Held' + Len(tmp_out') <= Len(plain')
        <4>1. Overflowed' \in Nat
          BY <1>1, OverflowNext
        <4>2. Len(plain') = (Sent + n) + 0 + Overflowed'
          BY <1>2, <3>1
        <4>3. PICK h \in Int, t \in Nat : h = Held /\ t = tmp_out_processed
          BY <1>6
        <4>4. Held' + Len(tmp_out') = (h + n) + t
          BY <3>1, <4>3
        <4>5. h = Sent - t
          BY <1>6, <4>3
        <4>6. QED
          BY <1>6, <4>1, <4>2, <4>4, <4>5
      <3>4. \A i \in (tmp_out_processed + 1)..Len(tmp_out') : FALSE
        BY <1>6, <3>1
      <3>5. QED
        BY <3>2, <3>3, <3>4 DEF Shows
    <2>3. QED
      BY <1>3, <2>1, <2>2
  <1>11. Shows(write_overflow', 1, plain', Sent' + Pending')
    BY <1>2 DEF LoopWrote
  <1>12. copy_overflow'.len > 0 =>
           /\ block_state' = "CODED" /\ copy_overflow'.dist \in 1..HistSize
           /\ Repeats(plain', Len(plain') - copy_overflow'.len, copy_overflow'.dist, copy_overflow'.len)
    BY DEF LoopWrote
  <1>13. block_state' # "CHECKSUM_CHECK"
    BY DEF LoopLeft, Working
  <1>14. Ahead'
    BY <1>2, <1>4, <1>10, <1>11, <1>12, <1>13 DEF Ahead
  <1>15. QED
    BY <1>9, <1>14

(* A step of the loop keeps the history: without a window in the user's    *)
(* buffer it writes nothing there, which is so because the input has run   *)
(* out.                                                                    *)
LEMMA LoopWindow ==
  ASSUME IInv, OutInv, IInv', pc = "decode", phase # 0, NEW n \in Nat, LoopWrote(n), LoopLeft,
         phase = 2 /\ Len(out) < HistSize => n = 0 /\ Overflowed' = 0,
         phase = 2 /\ pc' = "decode" => Len(out') >= HistSize \/ Starved',
         phase = 1 /\ pc' # "decode" /\ Live' =>
           Invalid(ret') \/ Len(tmp_out') >= 2 * HistSize \/ Starved'
  PROVE  Window'
  <1>1. Types /\ Types'
    BY DEF IInv, OutInv
  <1>2. /\ pc' # "stopped" /\ ~AtUser' /\ phase' # 0 /\ pc' # "user"
        /\ phase = 1 => Sent' = Sent /\ Held' = Held /\ Pending' = Pending + n
        /\ phase = 2 => Sent' = Sent + n /\ Held' = Held + n /\ Pending' = 0
    BY LoopLengths
  <1>3. /\ phase \in {1, 2}
        /\ phase = 1 => InTmp /\ tmp_out_processed <= HistSize
        /\ phase = 2 /\ Len(out) < HistSize => InTmp
    BY LoopCounts
  <1>4. phase' = phase /\ tmp_out_processed' = tmp_out_processed
    BY DEF LoopLeft
  <1>5. /\ tmp_out \in Seq(Int) /\ plain \in Seq(Int) /\ plain' \in Seq(Int) /\ Held \in Int
        /\ Len(tmp_out) \in Nat /\ Len(out) \in Nat /\ HistSize \in Nat
    <2>1. tmp_out \in Seq(Int) /\ out \in Seq(Int) /\ plain \in Seq(Int) /\ plain' \in Seq(Int)
      BY <1>1 DEF Types
    <2>2. QED
      BY <1>1, <2>1, SentType, Sizes
  <1>6. CASE phase = 1
    <2>1. pc' \in {"decode", "deliver"}
      BY <1>6 DEF LoopLeft, AfterLoop
    <2>2. InTmp'
      <3>1. Shows(tmp_out', 1, plain', Held') /\ Len(tmp_out') = Len(tmp_out) + n
        BY <1>2, <1>6 DEF LoopWrote
      <3>2. Held' = 0 \/ Len(tmp_out') >= HistSize
        BY <1>2, <1>3, <1>5, <1>6, <3>1 DEF InTmp
      <3>3. QED
        BY <3>1, <3>2 DEF InTmp
    <2>3. QED
      BY <1>3, <1>4, <1>6, <2>1, <2>2 DEF Window
  <1>7. CASE phase = 2
    <2>1. pc' \in {"decode", "save"} /\ tmp_out' = tmp_out /\ Len(out') = Len(out) + n
      BY <1>7 DEF LoopLeft, AfterLoop, LoopWrote
    <2>2. InOut' \/ InTmp'
      <3>1. CASE Len(out) >= HistSize
        BY <1>2, <1>4, <1>5, <1>7, <2>1, <3>1 DEF InOut
      <3>2. CASE Len(out) < HistSize
        <4>1. n = 0 /\ InTmp /\ Held' = Held
          BY <1>2, <1>3, <1>5, <1>7, <3>2
        <4>2. Shows(tmp_out, 1, plain', Held)
          BY <1>5, <4>1, ShowsGrown DEF LoopWrote, InTmp
        <4>3. QED
          BY <2>1, <4>1, <4>2 DEF InTmp
      <3>3. QED
        BY <1>5, <3>1, <3>2
    <2>3. Overflowed' > 0 => Len(out') >= HistSize
      BY <1>5, <1>7, <2>1
    <2>4. QED
      BY <1>4, <1>7, <2>1, <2>2, <2>3 DEF Window
  <1>8. QED
    BY <1>3, <1>6, <1>7

(* A step that writes nothing writes no byte.                              *)
LEMMA LoopIdle ==
  ASSUME IInv, OutInv, IInv', pc = "decode", phase # 0, UNCHANGED <<tmp_out, out, plain>>, Overflowed' = 0
  PROVE  LoopWrote(0)
  <1>1. Types /\ Types'
    BY DEF IInv
  <1>2. /\ ~AtUser /\ phase \in {1, 2} /\ Len(plain) = Sent + Pending
        /\ phase = 1 => InTmp
    BY LoopCounts
  <1>3. /\ plain \in Seq(Int) /\ Len(plain) \in Nat /\ Len(tmp_out) \in Nat /\ Len(out) \in Nat
        /\ write_overflow' \in Seq(Int) /\ copy_overflow'.len \in Nat
    <2>1. plain \in Seq(Int) /\ tmp_out \in Seq(Int) /\ out \in Seq(Int)
          /\ write_overflow' \in Seq(Int) /\ copy_overflow' \in [len : Nat, dist : Nat]
      BY <1>1 DEF Types
    <2>2. QED
      BY <2>1
  <1>4. Len(write_overflow') \in Nat /\ Overflowed' = Len(write_overflow') + copy_overflow'.len
    BY <1>3 DEF Overflowed
  <1>5. Len(write_overflow') = 0 /\ copy_overflow'.len = 0
    BY <1>3, <1>4
  <1>6. Grown(plain, plain') /\ Len(plain') = Len(plain) + 0 + Overflowed'
    BY <1>3 DEF Grown
  <1>7. phase = 1 => Shows(tmp_out', 1, plain', Held)
    BY <1>2 DEF InTmp
  <1>8. phase = 2 => Shows(out', 1, plain', dict + Len(got))
    BY <1>2 DEF OutInv, Delivered
  <1>9. Shows(write_overflow', 1, plain', Len(plain) + 0)
    <2>1. (Len(plain) + 0) + 1 >= 1 /\ (Len(plain) + 0) + Len(write_overflow') <= Len(plain')
      BY <1>3, <1>5
    <2>2. \A i \in 1..Len(write_overflow') : FALSE
      BY <1>5
    <2>3. QED
      BY <2>1, <2>2 DEF Shows
  <1>10. Len(tmp_out') = Len(tmp_out) + 0 /\ Len(out') = Len(out) + 0
    BY <1>3
  <1>11. ~ (copy_overflow'.len > 0)
    BY <1>5
  <1>12. QED
    BY <1>6, <1>7, <1>8, <1>9, <1>10, <1>11 DEF LoopWrote

(* A header that does not fit the input is saved with all of it.           *)
LEMMA HeaderStarves ==
  ASSUME IInv, pc = "decode", NEW h \in Headers, HeaderSaved(h)
  PROVE  Starved'
  <1>1. Types
    BY DEF IInv
  <1>2. block_state' = "HDR" /\ upcoming' = h /\ avail_in' = 0
        /\ read_in_length' + Byte * tmp_in_size' < HeaderNeeds(h)
        /\ read_in_length' = read_in_length /\ tmp_in_size' = tmp_in_size + avail_in
    BY DEF HeaderSaved
  <1>3. read_in_length \in Nat /\ tmp_in_size \in Nat /\ avail_in \in Nat
    BY Decoding DEF IInv
  <1>4. PICK t \in Nat : t = tmp_in_size'
    BY <1>2, <1>3
  <1>5. Byte * t \in Nat /\ Byte * 0 = 0
    <2>1. Byte \in Nat /\ t \in Int
      BY Sizes
    <2>2. Byte * t \in Nat
      BY <2>1, TimesPlus
    <2>3. QED
      BY <2>1, <2>2
  <1>6. Unread' = read_in_length' + Byte * tmp_in_size'
    <2>1. Unread' = read_in_length' + Byte * 0 + Byte * tmp_in_size'
      BY <1>2 DEF Unread
    <2>2. QED
      BY <1>2, <1>3, <1>4, <1>5, <2>1
  <1>7. Wanted' = HeaderNeeds(h)
    BY <1>2 DEF Wanted, HeaderNeeds
  <1>8. QED
    BY <1>2, <1>6, <1>7 DEF Starved

(* read_header writes nothing, and only stops without an error at the end  *)
(* of the input.                                                           *)
LEMMA HeaderOut ==
  ASSUME IInv, OutInv, IInv', ReadHeader
  PROVE  OutInv'
  <1>1. /\ Types /\ Control /\ Coming /\ InputInv /\ Space /\ pc = "decode" /\ phase # 0
        /\ block_state \in {"NEW_HDR", "HDR"}
        /\ UNCHANGED <<output, plain, call, sent>>
    BY DEF IInv, ReadHeader
  <1>2. PICK h \in Headers :
           /\ upcoming \in Headers => h = upcoming
           /\ IF Unread < HeaderNeeds(h) THEN HeaderSaved(h) ELSE HeaderTook(h)
           /\ bfinal' = h.final
           /\ pc' = IF ret' = ISAL_DECOMP_OK THEN "decode" ELSE AfterLoop
    BY <1>1, HeaderStep
  <1>3. /\ tmp_out' = tmp_out /\ out' = out /\ total_out' = total_out /\ write_overflow' = write_overflow
        /\ copy_overflow' = copy_overflow /\ plain' = plain /\ phase' = phase /\ room' = room /\ dict' = dict
        /\ crc_flag' = crc_flag /\ buf_start' = buf_start /\ tmp_out_processed' = tmp_out_processed
        /\ got' = got /\ crc' = crc
    BY <1>1 DEF output, call, sent
  <1>4. Codes
    BY CodesAre
  <1>5. HeaderNeeds(h) \in Nat /\ HeaderNeeds(h) >= 1 /\ Unread \in Int /\ h.kind \in {"bad", "coded", "stored"}
    <2>1. HeaderNeeds(h) \in 1..(Byte * MaxHdr) /\ h.kind \in {"bad", "coded", "stored"}
      BY HeaderType
    <2>2. Unread \in Int
      BY <1>1, Decoding DEF Unread
    <2>3. QED
      BY <2>1, <2>2
  <1>6. Overflowed' = 0
    <2>1. Overflowed = 0
      BY <1>1, LoopCounts
    <2>2. QED
      BY <1>3, <2>1 DEF Overflowed
  <1>7. LoopWrote(0)
    BY <1>1, <1>3, <1>6, LoopIdle
  <1>8. ret' \in {ISAL_DECOMP_OK, ISAL_END_INPUT, ISAL_INVALID_BLOCK}
        /\ block_state' \in Working
    BY <1>1, <1>2 DEF HeaderSaved, HeaderTook, Working
  <1>9. LoopLeft
    BY <1>2, <1>3, <1>8 DEF LoopLeft
  <1>10. Delivered' /\ Ahead'
    BY <1>1, <1>7, <1>9, LoopOutput
  <1>11. Window'
    <2>1. ASSUME Starved PROVE Unread < HeaderNeeds(h)
      <3>1. CASE block_state = "NEW_HDR"
        <4>1. Wanted = 1
          BY <3>1 DEF Wanted
        <4>2. QED
          BY <1>5, <2>1, <4>1 DEF Starved
      <3>2. CASE block_state = "HDR"
        <4>1. Wanted = HeaderNeeds(upcoming)
          BY <3>2 DEF Wanted
        <4>2. upcoming \in Headers
          BY <1>1, <3>2 DEF Coming, Control
        <4>3. QED
          BY <1>2, <2>1, <4>1, <4>2 DEF Starved
      <3>3. QED
        BY <1>1, <3>1, <3>2
    <2>2. phase = 2 /\ pc' = "decode" => Len(out') >= HistSize \/ Starved'
      <3>1. SUFFICES ASSUME phase = 2, pc' = "decode", ~ (Len(out) >= HistSize) PROVE Starved'
        BY <1>3
      <3>2. Len(out) < HistSize
        BY <1>1, <3>1, Lengths, Sizes
      <3>3. Starved
        BY <1>1, <3>1, <3>2, LoopCounts
      <3>4. HeaderSaved(h)
        BY <1>2, <2>1, <3>3
      <3>5. QED
        BY <1>1, <3>4, HeaderStarves
    <2>3. phase = 1 /\ pc' # "decode" /\ Live' =>
            Invalid(ret') \/ Len(tmp_out') >= 2 * HistSize \/ Starved'
      <3>1. SUFFICES ASSUME pc' # "decode" PROVE Invalid(ret') \/ Starved'
        OBVIOUS
      <3>2. CASE Unread < HeaderNeeds(h)
        BY <1>1, <1>2, <3>2, HeaderStarves
      <3>3. CASE ~ (Unread < HeaderNeeds(h))
        <4>1. ret' = ISAL_INVALID_BLOCK
          BY <1>2, <3>1, <3>3 DEF HeaderTook
        <4>2. QED
          BY <1>4, <4>1 DEF Codes, Invalid
      <3>4. QED
        BY <3>2, <3>3
    <2>4. phase = 2 /\ Len(out) < HistSize => 0 = 0 /\ Overflowed' = 0
      BY <1>6
    <2>5. QED
      BY <1>1, <1>7, <1>9, <2>2, <2>3, <2>4, LoopWindow
  <1>12. Whole'
    BY <1>3 DEF OutInv, Whole
  <1>13. Real'
    BY <1>1, <1>3, <1>4, <1>8 DEF Real, Codes
  <1>14. Alone'
    BY <1>1, <1>3 DEF Alone
  <1>15. QED
    BY <1>10, <1>11, <1>12, <1>13, <1>14 DEF OutInv

(* The same of the header of a stream decoded in one call.                 *)
LEMMA StatelessHeaderOut ==
  ASSUME IInv, OutInv, IInv', ReadHeaderStateless
  PROVE  OutInv'
  <1>1. /\ Types /\ Control /\ Coming /\ InputInv /\ Space /\ pc = "decode" /\ phase = 0
        /\ UNCHANGED <<output, plain, call, sent>>
    BY DEF IInv, ReadHeaderStateless
  <1>2. /\ ret' \in {ISAL_DECOMP_OK, ISAL_END_INPUT, ISAL_INVALID_BLOCK}
        /\ pc' = IF ret' = ISAL_DECOMP_OK THEN "decode" ELSE AfterLoop
    BY <1>1, StatelessHeaderStep
  <1>3. /\ tmp_out' = tmp_out /\ out' = out /\ total_out' = total_out /\ write_overflow' = write_overflow
        /\ copy_overflow' = copy_overflow /\ plain' = plain /\ phase' = phase /\ room' = room /\ dict' = dict
        /\ crc_flag' = crc_flag /\ buf_start' = buf_start /\ tmp_out_processed' = tmp_out_processed
        /\ got' = got /\ crc' = crc
    BY <1>1 DEF output, call, sent
  <1>4. Codes
    BY CodesAre
  <1>5. Whole'
    BY <1>3 DEF OutInv, Whole
  <1>6. Real'
    BY <1>1, <1>2, <1>3, <1>4 DEF Real, Codes
  <1>7. pc' \in {"decode", "end"} /\ pc # "stopped" /\ ret = ISAL_DECOMP_OK
    BY <1>1, <1>2 DEF AfterLoop, Control
  <1>8. Alone'
    BY <1>1, <1>3, <1>7 DEF OutInv, Alone
  <1>9. Delivered' /\ Ahead' /\ Window'
    BY <1>1, <1>3 DEF Delivered, Ahead, Window
  <1>10. QED
    BY <1>5, <1>6, <1>8, <1>9 DEF OutInv

-----------------------------------------------------------------------------
(* The buffer the loop writes to, and stored blocks.                       *)

(* Where in the stream the buffer the loop writes to begins.               *)
Place == IF phase = 0 THEN 0 ELSE IF phase = 1 THEN Held ELSE dict + Len(got)

(* The buffer the loop writes to shows the stream to its end.              *)
LEMMA TargetShows ==
  ASSUME IInv, OutInv, pc = "decode"
  PROVE  /\ Target \in Seq(Int) /\ plain \in Seq(Int) /\ Place \in Int /\ Place >= 0
         /\ Len(Target) \in Nat /\ Len(plain) \in Nat
         /\ Shows(Target, 1, plain, Place) /\ Place + Len(Target) = Len(plain)
  <1>1. Types /\ Control
    BY DEF IInv
  <1>2. tmp_out \in Seq(Int) /\ out \in Seq(Int) /\ plain \in Seq(Int) /\ phase \in {0, 1, 2}
    BY <1>1 DEF Types
  <1>3. Held \in Int /\ dict + Len(got) \in Nat
    BY <1>1, SentType
  <1>4. CASE phase = 0
    <2>1. Target = out /\ Place = 0
      BY <1>4 DEF Target, Place
    <2>2. Shows(out, 1, plain, 0) /\ Len(out) = Len(plain)
      BY <1>1, <1>4 DEF OutInv, Alone, Control
    <2>3. QED
      BY <1>2, <2>1, <2>2
  <1>5. CASE phase = 1
    <2>1. Target = tmp_out /\ Place = Held
      BY <1>5 DEF Target, Place
    <2>2. Shows(tmp_out, 1, plain, Held) /\ Held + Len(tmp_out) = Len(plain)
      BY <1>5, LoopCounts DEF InTmp
    <2>3. Held >= 0
      BY <1>3, <2>2 DEF Shows
    <2>4. QED
      BY <1>2, <1>3, <2>1, <2>2, <2>3
  <1>6. CASE phase = 2
    <2>1. Target = out /\ Place = dict + Len(got)
      BY <1>6 DEF Target, Place
    <2>2. ~AtUser /\ Len(plain) = dict + Len(got) + Len(out)
      BY <1>6, LoopCounts
    <2>3. Shows(out, 1, plain, dict + Len(got))
      BY <1>6, <2>2 DEF OutInv, Delivered
    <2>4. QED
      BY <1>2, <1>3, <2>1, <2>2, <2>3
  <1>7. QED
    BY <1>2, <1>4, <1>5, <1>6

(* A buffer that shows the new stream is written by SetTarget as LoopWrote *)
(* says.                                                                   *)
LEMMA TargetSet ==
  ASSUME IInv, NEW b \in Seq(Int), NEW n \in Nat, SetTarget(b), Len(b) = Len(Target) + n,
         Shows(b, 1, plain', Place)
  PROVE  /\ phase = 0 => tmp_out' = tmp_out /\ Len(out') = Len(out) + n /\ Shows(out', 1, plain', 0)
         /\ phase = 1 => /\ out' = out /\ Len(tmp_out') = Len(tmp_out) + n
                         /\ Shows(tmp_out', 1, plain', Held)
         /\ phase = 2 => /\ tmp_out' = tmp_out /\ Len(out') = Len(out) + n
                         /\ Shows(out', 1, plain', dict + Len(got))
  BY DEF SetTarget, Target, Place

(* Literals appended to the stream.                                        *)
LEMMA LiteralsClean ==
  ASSUME Types, Whole, NEW n \in Nat
  PROVE  /\ plain \o Literals(n) \in Seq(Int) /\ Len(plain \o Literals(n)) = Len(plain) + n
         /\ Literals(n) \in Seq(Int) /\ Len(Literals(n)) = n
         /\ NoJunk(plain \o Literals(n)) /\ Grown(plain, plain \o Literals(n))
         /\ Shows(Literals(n), 1, plain \o Literals(n), Len(plain))
  <1> DEFINE l == Literals(n)
             q == plain \o l
  <1>1. plain \in Seq(Int) /\ l \in Seq(Int) /\ Len(l) = n /\ dict \in Nat
    BY LiteralsType DEF Types
  <1>2. q \in Seq(Int) /\ Len(q) = Len(plain) + n /\ Grown(plain, q) /\ Shows(l, 1, q, Len(plain))
    BY <1>1, Appended
  <1>3. Len(plain) \in Nat
    BY <1>1
  <1>4. ASSUME NEW i \in 1..n PROVE l[i] # Junk
    <2>1. l[i] = Len(plain) - dict + i
      BY DEF Literals
    <2>2. dict <= Len(plain)
      BY DEF Whole
    <2>3. QED
      BY <1>1, <1>3, <2>1, <2>2 DEF Junk
  <1> HIDE DEF l
  <1>5. NoJunk(q)
    <2>1. SUFFICES ASSUME NEW i \in 1..Len(q) PROVE q[i] # Junk
      BY DEF NoJunk
    <2>2. CASE i <= Len(plain)
      BY <1>2, <1>3, <2>2 DEF Grown, NoJunk, Whole
    <2>3. CASE i > Len(plain)
      <3>1. PICK j \in 1..n : i = Len(plain) + j
        <4>1. i - Len(plain) \in 1..n /\ i = Len(plain) + (i - Len(plain))
          BY <1>2, <1>3, <2>3
        <4>2. QED
          BY <4>1
      <3>2. q[i] = l[j]
        BY <1>1, <1>2, <3>1 DEF Shows
      <3>3. QED
        BY <1>4, <3>2
    <2>4. QED
      BY <1>2, <1>3, <2>2, <2>3
  <1>6. QED
    BY <1>1, <1>2, <1>5 DEF l

(* A stream that grows without junk is whole.                              *)
LEMMA WholeGrown ==
  ASSUME Types, Whole, plain' \in Seq(Int), Grown(plain, plain'), NoJunk(plain'), dict' = dict
  PROVE  Whole'
  <1>1. Len(plain) \in Nat /\ dict \in Nat /\ Len(plain') \in Nat
    BY DEF Types
  <1>2. \A i \in 1..dict : plain'[i] = i - dict - 1
    BY <1>1 DEF Whole, Grown
  <1>3. dict <= Len(plain')
    BY <1>1 DEF Whole, Grown
  <1>4. QED
    BY <1>2, <1>3 DEF Whole

(* Without input a stored block stops the call.                            *)
LEMMA StoredStarved ==
  ASSUME IInv, StoredBlock, Unread = 0
  PROVE  /\ type0_block_len' = type0_block_len
         /\ ret' = ISAL_END_INPUT \/ block_state' = "INPUT_DONE"
  <1>1. /\ pc = "decode" /\ block_state = "TYPE0"
        /\ LET bytes == WholeBytes(read_in_length)
               len   == Least(type0_block_len, Least(AvailOut, avail_in + bytes))
               held  == Least(bytes, len)
               st    == IF len = type0_block_len THEN BlockDone ELSE "TYPE0"
               empty == avail_in + bytes = len /\ st # "INPUT_DONE"
               full  == AvailOut = len /\ len < type0_block_len
               r     == IF empty THEN ISAL_END_INPUT
                        ELSE IF full THEN ISAL_OUT_OVERFLOW ELSE ISAL_DECOMP_OK
           IN /\ type0_block_len' = type0_block_len - len
              /\ block_state' = st
              /\ ret' = r
    BY DEF StoredBlock, Continue
  <1>2. Types /\ Control /\ InputInv /\ Space
    BY DEF IInv
  <1>3. /\ avail_in \in Nat /\ read_in_length \in Nat /\ Byte * avail_in \in Nat /\ Byte * tmp_in_size \in Nat
        /\ type0_block_len \in Nat /\ AvailOut \in Nat
    BY <1>1, <1>2, Decoding, Room DEF Types
  <1>4. Byte * avail_in = 0 /\ read_in_length = 0
    BY <1>3 DEF Unread
  <1>5. avail_in = 0
    <2>1. SUFFICES ASSUME 1 <= avail_in PROVE FALSE
      BY <1>3
    <2>2. Byte * 1 <= Byte * avail_in
      BY <1>3, <2>1, Times
    <2>3. Byte \in Nat /\ Byte >= 1 /\ Byte * 1 = Byte
      BY Sizes
    <2>4. QED
      BY <1>4, <2>2, <2>3
  <1>6. WholeBytes(read_in_length) = 0
    <2>1. Byte \in Nat \ {0}
      BY Sizes
    <2>2. 0 = Byte * 0 + 0 /\ 0 \in 0..(Byte - 1)
      BY <2>1
    <2>3. 0 \div Byte = 0
      BY <2>1, <2>2, Divided
    <2>4. QED
      BY <1>4, <2>3 DEF WholeBytes
  <1>7. avail_in + WholeBytes(read_in_length) = 0
    BY <1>5, <1>6
  <1>8. Least(type0_block_len, Least(AvailOut, 0)) = 0
    BY <1>3 DEF Least
  <1>9. /\ type0_block_len' = type0_block_len - 0
        /\ ret' = ISAL_END_INPUT \/ block_state' = "INPUT_DONE"
    BY <1>1, <1>7, <1>8
  <1>10. QED
    BY <1>3, <1>9

(* The same bytes behind a buffer and behind the stream it shows the end   *)
(* of.                                                                     *)
LEMMA BothAppended ==
  ASSUME NEW b \in Seq(Int), NEW p \in Seq(Int), NEW s \in Seq(Int), NEW k \in Int,
         Shows(b, 1, p, k), k + Len(b) = Len(p)
  PROVE  b \o s \in Seq(Int) /\ Len(b \o s) = Len(b) + Len(s) /\ Shows(b \o s, 1, p \o s, k)
  <1>1. b \o s \in Seq(Int) /\ Len(b \o s) = Len(b) + Len(s)
    OBVIOUS
  <1>2. PICK q \in Seq(Int) : q = p \o s /\ Grown(p, q) /\ Shows(s, 1, q, Len(p))
    BY Appended, Zenon
  <1>3. Shows(b, 1, q, k) /\ Shows(s, 1, q, k + Len(b))
    <2>1. Grown(p, q) /\ Shows(s, 1, q, Len(p)) /\ q \in Seq(Int)
      BY <1>2, Zenon
    <2>2. Shows(s, 1, q, k + Len(b))
      BY <2>1, Zenon
    <2>3. 1 \in Int
      OBVIOUS
    <2>4. Shows(b, 1, q, k)
      BY <2>1, <2>3, ShowsGrown, Zenon
    <2>5. QED
      BY <2>2, <2>4
  <1>4. Shows(b \o s, 1, q, k)
    BY <1>3, ShowsJoined
  <1>5. QED
    BY <1>1, <1>2, <1>4, Zenon

(* The bytes a stored block copies are the stream's.                       *)
LEMMA StoredPart ==
  ASSUME IInv, OutInv, IInv', StoredBlock, NEW len \in Nat,
         Wrote(Literals(len)), Len(Literals(len)) = len, plain' = plain \o Literals(len), dict' = dict
  PROVE  /\ Whole' /\ Grown(plain, plain') /\ Len(plain') = Len(plain) + len
         /\ phase = 0 => tmp_out' = tmp_out /\ Len(out') = Len(out) + len /\ Shows(out', 1, plain', 0)
         /\ phase = 1 => /\ out' = out /\ Len(tmp_out') = Len(tmp_out) + len
                         /\ Shows(tmp_out', 1, plain', Held)
         /\ phase = 2 => /\ tmp_out' = tmp_out /\ Len(out') = Len(out) + len
                         /\ Shows(out', 1, plain', dict + Len(got))
  <1>1. Types /\ Whole /\ pc = "decode"
    BY DEF IInv, OutInv, StoredBlock
  <1>2. /\ plain' \in Seq(Int) /\ Len(plain') = Len(plain) + len /\ NoJunk(plain') /\ Grown(plain, plain')
        /\ Shows(Literals(len), 1, plain', Len(plain)) /\ Literals(len) \in Seq(Int)
    BY <1>1, LiteralsClean
  <1>3. Whole'
    BY <1>1, <1>2, WholeGrown
  <1>4. /\ Target \in Seq(Int) /\ plain \in Seq(Int) /\ Place \in Int /\ Place >= 0 /\ Len(Target) \in Nat
        /\ Shows(Target, 1, plain, Place) /\ Place + Len(Target) = Len(plain)
    BY <1>1, TargetShows
  <1> DEFINE b == Target \o Literals(len)
  <1>5. b \in Seq(Int) /\ Len(b) = Len(Target) + Len(Literals(len)) /\ Shows(b, 1, plain \o Literals(len), Place)
    BY <1>2, <1>4, BothAppended
  <1>6. Shows(b, 1, plain', Place) /\ Len(b) = Len(Target) + len
    BY <1>5
  <1>7. SetTarget(b)
    BY DEF SetTarget, Wrote, Target
  <1>8. QED
    BY <1>2, <1>3, <1>5, <1>6, <1>7, TargetSet

(* decode_literal_block.                                                   *)
LEMMA StoredOut ==
  ASSUME IInv, OutInv, IInv', StoredBlock
  PROVE  OutInv'
  <1>1. Types /\ Control /\ Coming /\ InputInv /\ Space /\ pc = "decode" /\ block_state = "TYPE0"
    BY DEF IInv, StoredBlock
  <1>2. PICK len \in Nat :
            /\ len <= AvailOut /\ len <= type0_block_len
            /\ Wrote(Literals(len)) /\ Len(Literals(len)) = len
            /\ plain' = plain \o Literals(len)
            /\ total_out' = total_out + len
            /\ type0_block_len' = type0_block_len - len
            /\ block_state' = IF len = type0_block_len THEN BlockDone ELSE "TYPE0"
            /\ ret' \in {ISAL_DECOMP_OK, ISAL_END_INPUT, ISAL_OUT_OVERFLOW}
            /\ ret' = ISAL_END_INPUT => Unread' = 0 /\ block_state' # "INPUT_DONE"
            /\ ret' = ISAL_OUT_OVERFLOW => len = AvailOut /\ len < type0_block_len
            /\ pc' = IF ret' # ISAL_DECOMP_OK \/ block_state' = "INPUT_DONE" THEN AfterLoop ELSE "decode"
            /\ UNCHANGED <<tmp_in_size, write_overflow, copy_overflow, bfinal, upcoming, items, call, sent>>
    BY <1>1, StoredStep
  <1>3. /\ phase' = phase /\ room' = room /\ dict' = dict /\ crc_flag' = crc_flag
        /\ tmp_out_processed' = tmp_out_processed /\ got' = got /\ crc' = crc
        /\ write_overflow' = write_overflow /\ copy_overflow' = copy_overflow
    BY <1>2 DEF call, sent
  <1>4. Codes
    BY CodesAre
  <1>5. /\ Whole' /\ Grown(plain, plain') /\ Len(plain') = Len(plain) + len
        /\ phase = 0 => tmp_out' = tmp_out /\ Len(out') = Len(out) + len /\ Shows(out', 1, plain', 0)
        /\ phase = 1 => /\ out' = out /\ Len(tmp_out') = Len(tmp_out) + len
                        /\ Shows(tmp_out', 1, plain', Held)
        /\ phase = 2 => /\ tmp_out' = tmp_out /\ Len(out') = Len(out) + len
                        /\ Shows(out', 1, plain', dict + Len(got))
    BY <1>2, <1>3, StoredPart
  <1>6. /\ Len(plain) \in Nat /\ Len(out) \in Nat /\ Len(tmp_out) \in Nat /\ HistSize \in Nat
        /\ type0_block_len \in Nat /\ room \in Nat /\ AvailOut \in Nat /\ 2 * HistSize \in Nat
        /\ phase = 1 => AvailOut = 2 * HistSize - Len(tmp_out)
        /\ phase # 1 => AvailOut = room - Len(out)
    BY <1>1, Lengths, Sizes, Room DEF Types
  <1>7. phase = 0 => Len(out) = Len(plain) /\ total_out = Len(out) /\ dict = 0 /\ got = <<>> /\ crc = 0
    <2>1. phase = 0 => ret = ISAL_DECOMP_OK /\ pc # "stopped"
      BY <1>1 DEF Control
    <2>2. QED
      BY <2>1 DEF OutInv, Alone
  <1>8. Real'
    <2>1. ret' # ISAL_INVALID_LOOKBACK /\ ret' # ISAL_INVALID_SYMBOL /\ ret' # ISAL_INCORRECT_CHECKSUM
      BY <1>2, <1>4 DEF Codes
    <2>2. ASSUME ret' = ISAL_OUT_OVERFLOW, phase' = 0 PROVE TooSmall'
      <3>1. Len(plain') + type0_block_len' > room'
        BY <1>2, <1>3, <1>5, <1>6, <1>7, <2>2
      <3>2. QED
        BY <2>2, <3>1 DEF TooSmall
    <2>3. QED
      BY <2>1, <2>2 DEF Real
  <1>9. block_state' \in Working \cup {"INPUT_DONE"} /\ pc' \in {"decode", AfterLoop}
        /\ block_state' \in {"TYPE0", "NEW_HDR", "INPUT_DONE"}
    BY <1>2 DEF Working, BlockDone
  <1>10. Alone'
    <2>1. SUFFICES ASSUME phase = 0 PROVE Alone'
      BY <1>3 DEF Alone
    <2>2. pc' # "stopped"
      BY <1>9, <2>1 DEF AfterLoop
    <2>3. Len(out') = Len(plain') /\ total_out' = Len(out')
      BY <1>2, <1>5, <1>7, <2>1
    <2>4. QED
      BY <1>3, <1>5, <1>7, <2>1, <2>2, <2>3 DEF Alone
  <1>11. ASSUME phase # 0 PROVE Delivered' /\ Ahead' /\ Window'
    <2>1. Overflowed = 0 /\ Overflowed' = 0 /\ phase \in {1, 2}
      BY <1>1, <1>3, <1>11, LoopCounts DEF Overflowed
    <2>3. LoopWrote(len)
      <3>1. Len(write_overflow) \in Nat /\ copy_overflow.len \in Nat
        BY <1>1, Lengths
      <3>2. Len(write_overflow') = 0 /\ copy_overflow'.len = 0
        BY <1>3, <2>1, <3>1 DEF Overflowed
      <3>3. Shows(write_overflow', 1, plain', Len(plain) + len)
        <4>1. (Len(plain) + len) + 1 >= 1 /\ (Len(plain) + len) + Len(write_overflow') <= Len(plain')
          BY <1>5, <1>6, <3>2
        <4>2. \A i \in 1..Len(write_overflow') : FALSE
          BY <3>2
        <4>3. QED
          BY <4>1, <4>2 DEF Shows
      <3>4. Len(plain') = Len(plain) + len + Overflowed'
        BY <1>5, <1>6, <2>1
      <3>5. ~ (copy_overflow'.len > 0)
        BY <3>2
      <3>6. QED
        BY <1>5, <3>3, <3>4, <3>5 DEF LoopWrote
    <2>4. LoopLeft
      BY <1>3, <1>9 DEF LoopLeft
    <2>5. Delivered' /\ Ahead'
      BY <1>1, <1>11, <2>3, <2>4, LoopOutput
    <2>6. ASSUME phase = 2, Len(out) < HistSize PROVE len = 0 /\ pc' # "decode"
      <3>1. Starved
        BY <1>1, <1>11, <2>6, LoopCounts
      <3>2. Unread \in Nat /\ Wanted = 1
        BY <1>1, Decoding DEF Unread, Wanted
      <3>3. Unread = 0
        BY <3>1, <3>2 DEF Starved
      <3>4. type0_block_len' = type0_block_len /\ (ret' = ISAL_END_INPUT \/ block_state' = "INPUT_DONE")
        BY <3>3, StoredStarved
      <3>5. len = 0
        BY <1>2, <1>6, <3>4
      <3>6. pc' = AfterLoop
        BY <1>2, <1>4, <3>4 DEF Codes
      <3>7. QED
        BY <2>6, <3>5, <3>6 DEF AfterLoop
    <2>7. phase = 2 /\ Len(out) < HistSize => len = 0 /\ Overflowed' = 0
      BY <2>1, <2>6
    <2>8. phase = 2 /\ pc' = "decode" => Len(out') >= HistSize \/ Starved'
      BY <1>5, <1>6, <2>6
    <2>9. phase = 1 /\ pc' # "decode" /\ Live' =>
            Invalid(ret') \/ Len(tmp_out') >= 2 * HistSize \/ Starved'
      <3>1. SUFFICES ASSUME phase = 1, pc' # "decode", Live'
                     PROVE  Len(tmp_out') >= 2 * HistSize \/ Starved'
        OBVIOUS
      <3>2. block_state' # "INPUT_DONE" /\ ret' # ISAL_DECOMP_OK
        BY <1>2, <3>1 DEF Live, Working
      <3>3. CASE ret' = ISAL_END_INPUT
        <4>1. Wanted' = 1
          BY <1>9, <3>2 DEF Wanted
        <4>2. QED
          BY <1>2, <3>3, <4>1 DEF Starved
      <3>4. CASE ret' = ISAL_OUT_OVERFLOW
        BY <1>2, <1>5, <1>6, <3>1, <3>4
      <3>5. QED
        BY <1>2, <3>2, <3>3, <3>4
    <2>10. Window'
      BY <1>1, <1>11, <2>3, <2>4, <2>7, <2>8, <2>9, LoopWindow
    <2>11. QED
      BY <2>5, <2>10
  <1>12. phase = 0 => Delivered' /\ Ahead' /\ Window'
    BY <1>3 DEF Delivered, Ahead, Window
  <1>13. QED
    BY <1>5, <1>8, <1>10, <1>11, <1>12 DEF OutInv

-----------------------------------------------------------------------------
(* A group of symbols: literals and a match.                               *)

(* A group adds its literals, and its match, to the stream.                *)
LEMMA GroupPlain ==
  ASSUME IInv, OutInv, pc = "decode", NEW g \in Groups, GroupDone(g), dict' = dict
  PROVE  LET len == IF Far(g) THEN 0 ELSE MatchOf(g).len
         IN /\ plain' \in Seq(Int) /\ len \in Nat /\ Len(plain') = Len(plain) + g.lits + len
            /\ Whole' /\ Grown(plain, plain')
            /\ Shows(Literals(g.lits), 1, plain', Len(plain))
            /\ Repeats(plain', Len(plain) + g.lits, MatchOf(g).dist, len)
            /\ IsMatch(g) /\ ~Far(g) => MatchOf(g).dist <= Len(Before(g))
  <1> DEFINE d == MatchOf(g).dist
             len == IF Far(g) THEN 0 ELSE MatchOf(g).len
             l == Literals(g.lits)
             q == plain \o l
  <1>1. Types /\ Control /\ Space /\ Whole
    BY DEF IInv, OutInv
  <1>2. /\ g.lits \in Nat /\ d \in Nat \ {0} /\ len \in Nat /\ d \in Int
        /\ ~IsMatch(g) => len = 0
    BY GroupType
  <1>3. /\ q \in Seq(Int) /\ Len(q) = Len(plain) + g.lits /\ l \in Seq(Int) /\ Len(l) = g.lits
        /\ NoJunk(q) /\ Grown(plain, q) /\ Shows(l, 1, q, Len(plain))
    BY <1>1, <1>2, LiteralsClean
  <1>4. /\ Len(Target) \in Nat /\ Place >= 0 /\ Place \in Int /\ Place + Len(Target) = Len(plain)
        /\ Fits(g) \in Nat /\ Fits(g) <= g.lits /\ Len(Before(g)) = Len(Target) + Fits(g)
        /\ Len(plain) \in Nat /\ plain \in Seq(Int)
    BY <1>1, TargetShows, GroupRoom
  <1>5. IsMatch(g) /\ ~Far(g) => d <= Len(Before(g))
    <2>1. IsMatch(g) /\ ~Far(g) => ~ (d > Len(Before(g)))
      BY DEF Far
    <2>2. Len(Before(g)) \in Nat
      BY <1>4
    <2>3. PICK x \in Nat, y \in Nat : x = d /\ y = Len(Before(g))
      BY <1>2, <2>2
    <2>4. QED
      BY <2>1, <2>3
  <1>6. len > 0 => d <= Len(q)
    BY <1>2, <1>3, <1>4, <1>5
  <1>7. plain' = byte_copy(q, d, len)
    BY DEF GroupDone
  <1> HIDE DEF d, len, q, l
  <1>8. /\ plain' \in Seq(Int) /\ Len(plain') = Len(q) + len /\ Grown(q, plain') /\ NoJunk(plain')
        /\ Repeats(plain', Len(q), d, len)
    BY <1>2, <1>3, <1>6, <1>7, CopyGrows
  <1>9. Grown(plain, plain')
    <2>1. Len(q) \in Nat /\ Len(plain) <= Len(q)
      BY <1>2, <1>3, <1>4
    <2>2. Len(plain) <= Len(plain')
      BY <1>2, <1>4, <1>8, <2>1
    <2>3. ASSUME NEW i \in 1..Len(plain) PROVE plain'[i] = plain[i]
      <3>1. q[i] = plain[i]
        BY <1>3 DEF Grown
      <3>2. i \in 1..Len(q)
        BY <1>4, <2>1
      <3>3. plain'[i] = q[i]
        BY <1>8, <3>2 DEF Grown
      <3>4. QED
        BY <3>1, <3>3
    <2>4. QED
      BY <2>2, <2>3 DEF Grown
  <1>10. Whole'
    BY <1>1, <1>8, <1>9, WholeGrown
  <1>11. Shows(l, 1, plain', Len(plain))
    BY <1>3, <1>4, <1>8, ShowsGrown
  <1>12. QED
    BY <1>2, <1>3, <1>5, <1>8, <1>9, <1>10, <1>11 DEF d, len, l

(* The buffer with the literals that fit it shows the stream.              *)
LEMMA BeforeShows ==
  ASSUME IInv, OutInv, pc = "decode", NEW g \in Groups, GroupDone(g), dict' = dict
  PROVE  Shows(Before(g), 1, plain', Place) /\ Place + Len(Before(g)) = Len(plain) + Fits(g)
  <1> DEFINE l == Literals(g.lits)
             s == SubSeq(l, 1, Fits(g))
  <1>1. Types /\ Control /\ Space
    BY DEF IInv
  <1>2. /\ plain' \in Seq(Int) /\ Grown(plain, plain') /\ Shows(l, 1, plain', Len(plain))
    BY GroupPlain
  <1>3. /\ l \in Seq(Int) /\ Len(l) = g.lits /\ Fits(g) \in Nat /\ Fits(g) <= g.lits
        /\ Len(Before(g)) = Len(Target) + Fits(g)
    BY <1>1, GroupRoom
  <1>4. /\ Target \in Seq(Int) /\ plain \in Seq(Int) /\ Place \in Int /\ Len(Target) \in Nat /\ Len(plain) \in Nat
        /\ Shows(Target, 1, plain, Place) /\ Place + Len(Target) = Len(plain)
    BY TargetShows
  <1> HIDE DEF l
  <1>5. s \in Seq(Int) /\ Shows(s, 1, plain', Len(plain))
    <2>1. 0 \in Nat /\ 0 + Fits(g) <= Len(l) /\ 1 <= 0 + 1 /\ 1 >= 1 /\ 1 \in Int /\ Len(plain) \in Int
      BY <1>3, <1>4
    <2>2. LET t == SubSeq(l, 0 + 1, 0 + Fits(g))
          IN t \in Seq(Int) /\ Len(t) = Fits(g) /\ Shows(t, 1, plain', Len(plain) + 0)
      BY <1>2, <1>3, <2>1, ShowsPart, Zenon
    <2>3. 0 + 1 = 1 /\ 0 + Fits(g) = Fits(g) /\ Len(plain) + 0 = Len(plain)
      BY <1>3, <1>4
    <2>4. QED
      BY <2>2, <2>3
  <1>6. Shows(Target, 1, plain', Place)
    <2>1. 1 \in Int
      OBVIOUS
    <2>2. QED
      BY <1>2, <1>4, <2>1, ShowsGrown, Zenon
  <1> HIDE DEF s
  <1>7. Shows(Target \o s, 1, plain', Place)
    <2>1. 1 \in Int /\ 1 >= 1
      OBVIOUS
    <2>2. Shows(s, 1, plain', Place + Len(Target))
      BY <1>4, <1>5, Zenon
    <2>3. QED
      BY <1>2, <1>4, <1>5, <1>6, <2>1, <2>2, ShowsJoined, Zenon
  <1>8. Before(g) = Target \o s
    BY DEF Before, s, l
  <1>9. Place + Len(Before(g)) = Len(plain) + Fits(g)
    <2>1. PICK x \in Nat, y \in Nat : x = Len(Target) /\ y = Fits(g)
      BY <1>3, <1>4
    <2>2. Len(Before(g)) = x + y
      BY <1>3, <2>1
    <2>3. PICK k \in Int, m \in Nat : k = Place /\ m = Len(plain)
      BY <1>4
    <2>4. k + x = m
      BY <1>4, <2>1, <2>3
    <2>5. k + (x + y) = m + y
      BY <2>4
    <2>6. QED
      BY <2>1, <2>2, <2>3, <2>5, Zenon
  <1>10. QED
    BY <1>7, <1>8, <1>9

(* And so does it with what fits of the match: its distance reaches into   *)
(* what the buffer shows, whether that is the user's buffer or             *)
(* tmp_out_buffer.                                                         *)
LEMMA AfterShows ==
  ASSUME IInv, OutInv, pc = "decode", NEW g \in Groups, GroupDone(g), dict' = dict
  PROVE  Shows(After(g), 1, plain', Place)
  <1> DEFINE d == MatchOf(g).dist
             len == IF Far(g) THEN 0 ELSE MatchOf(g).len
             b == Before(g)
             n == Taken(g)
  <1>1. Types /\ Control /\ Space
    BY DEF IInv
  <1>2. /\ plain' \in Seq(Int) /\ len \in Nat /\ Len(plain') = Len(plain) + g.lits + len
        /\ Repeats(plain', Len(plain) + g.lits, d, len)
        /\ IsMatch(g) /\ ~Far(g) => d <= Len(b)
    BY GroupPlain
  <1>3. /\ Fits(g) \in Nat /\ Fits(g) <= g.lits /\ n \in Nat /\ Left(g) \in Nat
        /\ Spill(g) > 0 => n = 0
        /\ Spill(g) = g.lits - Fits(g)
        /\ ~Far(g) => n + Left(g) = MatchOf(g).len
        /\ Far(g) => n = 0
        /\ b \in Seq(Int)
    BY <1>1, GroupRoom
  <1>4. /\ Place \in Int /\ Len(plain) \in Nat
    BY TargetShows
  <1>5. Shows(b, 1, plain', Place) /\ Place + Len(b) = Len(plain) + Fits(g)
    BY BeforeShows
  <1>6. g.lits \in Nat /\ d \in Nat \ {0}
    BY GroupType
  <1>7. n > 0 => IsMatch(g) /\ ~Far(g)
    BY <1>3 DEF Taken
  <1>8. n <= len
    BY <1>3
  <1>9. n > 0 => Fits(g) = g.lits
    BY <1>3, <1>6
  <1>10. After(g) = byte_copy(b, d, n)
    BY DEF After
  <1> HIDE DEF d, len, b, n
  <1>11. Len(b) \in Nat
    BY <1>3
  <1>12. (n > 0 => d <= Len(b) - 1 + 1) /\ 1 <= Len(b) + 1
    BY <1>2, <1>6, <1>7, <1>11
  <1>13. (Place + Len(b)) + n <= Len(plain')
    <2>1. PICK x \in Nat, y \in Nat : x = Len(plain) /\ y = Fits(g)
      BY <1>3, <1>4
    <2>2. Len(plain') = x + g.lits + len
      BY <1>2, <2>1
    <2>3. Place + Len(b) = x + y
      BY <1>5, <2>1
    <2>4. y <= g.lits /\ g.lits \in Nat /\ (n > 0 => y = g.lits) /\ len \in Nat /\ n \in Nat /\ n <= len
      BY <1>2, <1>3, <1>6, <1>8, <1>9, <2>1
    <2>5. (x + y) + n <= x + g.lits + len
      BY <2>4
    <2>6. QED
      BY <2>2, <2>3, <2>5
  <1>14. Repeats(plain', Place + Len(b), d, n)
    <2>1. CASE n = 0
      BY <2>1 DEF Repeats
    <2>2. CASE n > 0
      <3>1. Place + Len(b) = Len(plain) + g.lits
        BY <1>5, <1>9, <2>2
      <3>2. \A i \in 1..n : i \in 1..len
        BY <1>2, <1>3, <1>8
      <3>3. QED
        BY <1>2, <3>1, <3>2 DEF Repeats
    <2>3. QED
      BY <1>3, <2>1, <2>2
  <1>15. 1 \in Int /\ 1 >= 1
    OBVIOUS
  <1>16. plain' \in Seq(Int) /\ b \in Seq(Int) /\ n \in Nat
    BY <1>2, <1>3
  <1>17. Shows(byte_copy(b, d, n), 1, plain', Place)
    BY <1>4, <1>5, <1>6, <1>12, <1>13, <1>14, <1>15, <1>16, CopyShows, Zenon
  <1>18. QED
    BY <1>10, <1>17

(* What a group decodes is what is written and what overflows.             *)
LEMMA GroupCounts ==
  ASSUME IInv, OutInv, pc = "decode", NEW g \in Groups, GroupDone(g), dict' = dict
  PROVE  /\ Fits(g) + Taken(g) \in Nat /\ Len(plain) \in Nat
         /\ Len(plain') = Len(plain) + (Fits(g) + Taken(g)) + Overflowed'
         /\ Overflowed' = Spill(g) + Left(g) /\ Spill(g) \in Nat /\ Left(g) \in Nat
         /\ Len(write_overflow') = Spill(g) /\ write_overflow' \in Seq(Int)
         /\ copy_overflow'.len = Left(g)
  <1> DEFINE len == IF Far(g) THEN 0 ELSE MatchOf(g).len
  <1>1. Types /\ Control /\ Space
    BY DEF IInv
  <1>2. len \in Nat /\ Len(plain') = Len(plain) + g.lits + len
    BY GroupPlain
  <1>3. /\ Fits(g) \in Nat /\ Taken(g) \in Nat /\ Spill(g) \in Nat /\ Left(g) \in Nat
        /\ Spill(g) = g.lits - Fits(g)
        /\ ~Far(g) => Taken(g) + Left(g) = MatchOf(g).len
        /\ Far(g) => Taken(g) = 0 /\ Left(g) = 0
    BY <1>1, GroupRoom
  <1>4. /\ write_overflow' \in Seq(Int) /\ Len(write_overflow') = Spill(g)
        /\ copy_overflow'.len = Left(g) /\ Overflowed' = Spill(g) + Left(g)
    BY <1>1, GroupOutput
  <1>5. g.lits \in Nat /\ Len(plain) \in Nat
    BY TargetShows, GroupType
  <1>6. len = Taken(g) + Left(g)
    BY <1>3
  <1> HIDE DEF len
  <1>7. Len(plain') = Len(plain) + (Fits(g) + Taken(g)) + Overflowed'
    <2>1. PICK x \in Nat, f \in Nat, t \in Nat, s \in Nat, l \in Nat :
             x = Len(plain) /\ f = Fits(g) /\ t = Taken(g) /\ s = Spill(g) /\ l = Left(g)
      BY <1>3, <1>5
    <2>2. s = g.lits - f /\ len = t + l
      BY <1>3, <1>6, <2>1
    <2>3. x + g.lits + len = x + (f + t) + (s + l)
      <3>1. PICK m \in Nat, n \in Nat : m = g.lits /\ n = len
        BY <1>2, <1>5
      <3>2. s = m - f /\ n = t + l
        BY <2>2, <3>1
      <3>3. x + m + n = x + (f + t) + (s + l)
        BY <3>2
      <3>4. QED
        BY <3>1, <3>3
    <2>4. Len(plain') = x + g.lits + len
      BY <1>2, <2>1
    <2>5. Overflowed' = s + l
      BY <1>4, <2>1
    <2>6. QED
      BY <2>1, <2>3, <2>4, <2>5
  <1>8. Fits(g) + Taken(g) \in Nat
    BY <1>3
  <1>9. QED
    BY <1>3, <1>4, <1>5, <1>7, <1>8, Zenon

(* The literals that do not fit are kept as the stream has them.           *)
LEMMA SpillShows ==
  ASSUME IInv, OutInv, pc = "decode", NEW g \in Groups, GroupDone(g), dict' = dict
  PROVE  Shows(write_overflow', 1, plain', Len(plain) + (Fits(g) + Taken(g)))
  <1> DEFINE l == Literals(g.lits)
  <1>1. Types /\ Control /\ Space
    BY DEF IInv
  <1>2. plain' \in Seq(Int) /\ Shows(l, 1, plain', Len(plain))
    BY GroupPlain
  <1>3. /\ l \in Seq(Int) /\ Len(l) = g.lits /\ Fits(g) \in Nat /\ Spill(g) \in Nat /\ Taken(g) \in Nat
        /\ Spill(g) = g.lits - Fits(g) /\ (Spill(g) > 0 => Taken(g) = 0)
    BY <1>1, GroupRoom
  <1>4. /\ Len(plain) \in Nat /\ Len(write_overflow') = Spill(g)
        /\ Len(plain') = Len(plain) + (Fits(g) + Taken(g)) + Overflowed'
        /\ Overflowed' = Spill(g) + Left(g) /\ Left(g) \in Nat
    BY GroupCounts
  <1>5. g.lits \in Nat
    BY GroupType
  <1>6. write_overflow' = SubSeq(l, Fits(g) + 1, g.lits)
    BY DEF GroupDone
  <1> HIDE DEF l
  <1>7. CASE Taken(g) = 0
    <2>1. /\ Fits(g) + Spill(g) <= Len(l) /\ 1 <= Fits(g) + 1 /\ 1 >= 1 /\ 1 \in Int /\ Len(plain) \in Int
          /\ Fits(g) + Spill(g) = g.lits /\ Fits(g) + Taken(g) = Fits(g)
      <3>1. PICK f \in Nat, s \in Nat : f = Fits(g) /\ s = Spill(g)
        BY <1>3
      <3>2. s = g.lits - f
        BY <1>3, <3>1
      <3>3. f + s = g.lits /\ 1 <= f + 1 /\ f + 0 = f
        BY <1>5, <3>2
      <3>4. f + s <= Len(l) /\ 1 >= 1 /\ 1 \in Int /\ Len(plain) \in Int
        BY <1>3, <1>4, <1>5, <3>3
      <3>5. Fits(g) + Taken(g) = f
        BY <1>7, <3>1, <3>3
      <3>6. QED
        BY <3>1, <3>3, <3>4, <3>5
    <2>2. LET t == SubSeq(l, Fits(g) + 1, Fits(g) + Spill(g))
          IN t \in Seq(Int) /\ Len(t) = Spill(g) /\ Shows(t, 1, plain', Len(plain) + Fits(g))
      BY <1>2, <1>3, <2>1, ShowsPart, Zenon
    <2>3. QED
      BY <1>6, <2>1, <2>2, Zenon
  <1>8. CASE Taken(g) > 0
    <2>1. Len(write_overflow') = 0
      <3>1. PICK w \in Nat : w = Spill(g)
        BY <1>3, Zenon
      <3>2. PICK t \in Nat : t = Taken(g)
        BY <1>3, Zenon
      <3>3. w > 0 => t = 0
        BY <1>3, <3>1, <3>2, Zenon
      <3>4. t > 0
        BY <1>8, <3>2, Zenon
      <3>5. w = 0
        BY <3>3, <3>4
      <3>6. QED
        BY <1>4, <3>1, <3>5, Zenon
    <2>2. PICK k \in Nat : k = Len(plain) + (Fits(g) + Taken(g))
      <3>1. Fits(g) + Taken(g) \in Nat
        BY <1>3
      <3>2. QED
        BY <1>4, <3>1
    <2>3. Overflowed' \in Nat
      <3>1. PICK w \in Nat, x \in Nat : w = Spill(g) /\ x = Left(g)
        BY <1>3, <1>4, Zenon
      <3>2. Overflowed' = w + x
        BY <1>4, <3>1, Zenon
      <3>3. QED
        BY <3>2
    <2>4. Len(plain') = k + Overflowed'
      BY <1>4, <2>2
    <2>5. k + 1 >= 1 /\ k + Len(write_overflow') <= Len(plain')
      BY <2>1, <2>2, <2>3, <2>4
    <2>6. \A i \in 1..Len(write_overflow') : FALSE
      BY <2>1
    <2>7. QED
      BY <2>2, <2>5, <2>6 DEF Shows
  <1>9. QED
    BY <1>3, <1>7, <1>8

(* And so is what is left of the match, by its length and distance.        *)
LEMMA RestShows ==
  ASSUME IInv, OutInv, pc = "decode", NEW g \in Groups, GroupDone(g), dict' = dict, Left(g) > 0
  PROVE  /\ block_state' = "CODED" /\ copy_overflow'.dist \in 1..HistSize /\ copy_overflow'.len = Left(g)
         /\ Repeats(plain', Len(plain') - Left(g), copy_overflow'.dist, Left(g))
  <1> DEFINE len == IF Far(g) THEN 0 ELSE MatchOf(g).len
             d == MatchOf(g).dist
  <1>1. Types /\ Control /\ Space
    BY DEF IInv
  <1>2. /\ plain' \in Seq(Int) /\ len \in Nat /\ Len(plain') = Len(plain) + g.lits + len
        /\ Repeats(plain', Len(plain) + g.lits, d, len)
    BY GroupPlain
  <1>3. IsMatch(g) /\ ~Far(g)
    BY DEF Left
  <1>4. /\ Taken(g) \in Nat /\ Left(g) \in Nat /\ Taken(g) + Left(g) = len
    BY <1>1, <1>3, GroupRoom
  <1>5. g.lits \in Nat /\ d \in Nat \ {0} /\ d \in 1..HistSize /\ g.tail # "eob"
    <2>1. g.lits \in Nat /\ d \in Nat /\ d >= 1 /\ d <= HistSize /\ HistSize \in Nat
      BY GroupType, Sizes
    <2>2. QED
      BY <1>3, <2>1 DEF IsMatch
  <1>6. Len(plain) \in Nat
    BY TargetShows
  <1>7. copy_overflow' = [len |-> Left(g), dist |-> d] /\ block_state' = "CODED"
    BY <1>5 DEF GroupDone
  <1> HIDE DEF d, len
  <1>8. Taken(g) \in 0..len /\ Len(plain) + g.lits \in Int /\ len - Taken(g) = Left(g)
    <2>1. PICK t \in Nat, r \in Nat : t = Taken(g) /\ r = Left(g)
      BY <1>4
    <2>2. len = t + r
      BY <1>4, <2>1
    <2>3. t \in 0..(t + r) /\ (t + r) - t = r
      OBVIOUS
    <2>4. Len(plain) + g.lits \in Int
      BY <1>5, <1>6
    <2>5. QED
      BY <2>1, <2>2, <2>3, <2>4
  <1>9. Repeats(plain', (Len(plain) + g.lits) + Taken(g), d, len - Taken(g))
    BY <1>2, <1>5, <1>8, RepeatsLater, Zenon
  <1>10. (Len(plain) + g.lits) + Taken(g) = Len(plain') - Left(g)
    BY <1>2, <1>4, <1>5, <1>6
  <1>11. Repeats(plain', Len(plain') - Left(g), d, Left(g))
    BY <1>8, <1>9, <1>10, Zenon
  <1>12. QED
    BY <1>5, <1>7, <1>11

(* A group writes the stream's bytes.                                      *)
LEMMA GroupWrote ==
  ASSUME IInv, OutInv, pc = "decode", NEW g \in Groups, GroupDone(g), dict' = dict
  PROVE  /\ phase # 0 => LoopWrote(Fits(g) + Taken(g))
         /\ phase = 0 => /\ Len(out') = Len(out) + (Fits(g) + Taken(g))
                         /\ Shows(out', 1, plain', 0)
  <1> DEFINE n == Fits(g) + Taken(g)
  <1>1. Types /\ Control /\ Space
    BY DEF IInv
  <1>2. plain' \in Seq(Int) /\ Grown(plain, plain')
    BY GroupPlain
  <1>3. /\ n \in Nat /\ Len(plain') = Len(plain) + n + Overflowed' /\ copy_overflow'.len = Left(g)
    BY GroupCounts
  <1>4. After(g) \in Seq(Int) /\ Len(After(g)) = Len(Target) + n
    BY <1>1, GroupRoom
  <1>5. SetTarget(After(g))
    BY DEF GroupDone
  <1>6. Shows(After(g), 1, plain', Place)
    BY AfterShows
  <1>7. /\ phase = 0 => tmp_out' = tmp_out /\ Len(out') = Len(out) + n /\ Shows(out', 1, plain', 0)
        /\ phase = 1 => /\ out' = out /\ Len(tmp_out') = Len(tmp_out) + n
                        /\ Shows(tmp_out', 1, plain', Held)
        /\ phase = 2 => /\ tmp_out' = tmp_out /\ Len(out') = Len(out) + n
                        /\ Shows(out', 1, plain', dict + Len(got))
    BY <1>3, <1>4, <1>5, <1>6, TargetSet
  <1>8. Shows(write_overflow', 1, plain', Len(plain) + n)
    BY SpillShows
  <1>9. copy_overflow'.len > 0 =>
          /\ block_state' = "CODED" /\ copy_overflow'.dist \in 1..HistSize
          /\ Repeats(plain', Len(plain') - copy_overflow'.len, copy_overflow'.dist, copy_overflow'.len)
    BY <1>3, RestShows
  <1>10. QED
    BY <1>2, <1>3, <1>7, <1>8, <1>9 DEF LoopWrote

(* A group that is decoded into the user's buffer has a window behind it:  *)
(* or else the first loop, into tmp_out_buffer, had run out of input.      *)
LEMMA GroupFed ==
  ASSUME IInv, OutInv, Group, NEW g \in Groups, upcoming \in Groups => g = upcoming, ~ (Unread < GroupNeeds(g))
  PROVE  phase = 2 => Len(out) >= HistSize
  <1>1. pc = "decode" /\ block_state = "CODED"
    BY DEF Group
  <1>2. Types /\ Control /\ Coming /\ InputInv
    BY DEF IInv
  <1>3. SUFFICES ASSUME phase = 2, Len(out) < HistSize PROVE FALSE
    BY <1>2, Lengths, Sizes
  <1>4. Starved
    BY <1>1, <1>3, LoopCounts
  <1>5. Unread \in Nat
    BY <1>1, <1>2, Decoding DEF Unread
  <1>6. Wanted = IF upcoming = None THEN 0 ELSE GroupNeeds(upcoming)
    BY <1>1 DEF Wanted
  <1>7. upcoming # None
    BY <1>4, <1>5, <1>6 DEF Starved
  <1>8. upcoming \in Groups
    BY <1>1, <1>2, <1>7 DEF Coming
  <1>9. QED
    BY <1>4, <1>6, <1>7, <1>8 DEF Starved

(* A group the input does not hold is left for the next call.              *)
LEMMA GroupUndoneOut ==
  ASSUME IInv, OutInv, IInv', Group, NEW g \in Groups, GroupUndone(g), pc' = AfterLoop,
         phase' = phase, dict' = dict, crc_flag' = crc_flag, got' = got, crc' = crc,
         tmp_out_processed' = tmp_out_processed
  PROVE  OutInv'
  <1>1. pc = "decode" /\ Types /\ Control
    BY DEF Group, IInv
  <1>2. /\ ret' = ISAL_END_INPUT /\ upcoming' = g /\ block_state' = "CODED" /\ Unread' < GroupNeeds(g)
        /\ write_overflow' = <<>> /\ copy_overflow' = [len |-> 0, dist |-> 0]
        /\ tmp_out' = tmp_out /\ out' = out /\ plain' = plain /\ total_out' = total_out
    BY DEF GroupUndone, NoLits, NoCopy
  <1>3. Codes
    BY CodesAre
  <1>4. Whole'
    BY <1>2 DEF OutInv, Whole
  <1>5. Real'
    BY <1>2, <1>3 DEF Real, Codes
  <1>6. Alone'
    <2>1. SUFFICES ASSUME phase = 0 PROVE Alone'
      BY DEF Alone
    <2>2. pc' # "stopped" /\ ret' # ISAL_DECOMP_OK /\ pc # "stopped"
      BY <1>1, <1>2, <1>3, <2>1 DEF AfterLoop, Codes
    <2>3. QED
      BY <1>2, <2>1, <2>2 DEF OutInv, Alone
  <1>7. ASSUME phase # 0 PROVE Delivered' /\ Ahead' /\ Window'
    <2>1. Overflowed' = 0
      <3>1. Len(write_overflow') = 0 /\ copy_overflow'.len = 0
        BY <1>2
      <3>2. QED
        BY <3>1 DEF Overflowed
    <2>2. LoopWrote(0)
      BY <1>1, <1>2, <1>7, <2>1, LoopIdle
    <2>3. LoopLeft
      BY <1>2 DEF LoopLeft, Working
    <2>4. pc' # "decode"
      BY DEF AfterLoop
    <2>5. Starved'
      <3>1. g # None
        BY StreamAssumption
      <3>2. Wanted' = GroupNeeds(g)
        BY <1>2, <3>1 DEF Wanted, GroupNeeds, MatchOf, IsMatch
      <3>3. QED
        BY <1>2, <3>2 DEF Starved
    <2>6. 0 \in Nat
      OBVIOUS
    <2>7. Delivered' /\ Ahead'
      BY <1>1, <1>7, <2>2, <2>3, <2>6, LoopOutput
    <2>8. Window'
      BY <1>1, <1>7, <2>1, <2>2, <2>3, <2>4, <2>5, <2>6, LoopWindow
    <2>9. QED
      BY <2>7, <2>8
  <1>8. phase = 0 => Delivered' /\ Ahead' /\ Window'
    BY DEF Delivered, Ahead, Window
  <1>9. QED
    BY <1>4, <1>5, <1>6, <1>7, <1>8 DEF OutInv

(* A match is refused only if it points before the stream, or if the       *)
(* buffer of the one call is too small.                                    *)
LEMMA GroupReal ==
  ASSUME IInv, OutInv, IInv', Group, NEW g \in Groups, GroupDone(g),
         upcoming \in Groups => g = upcoming, ~ (Unread < GroupNeeds(g)),
         dict' = dict, phase' = phase, room' = room
  PROVE  Real'
  <1>1. pc = "decode" /\ Types /\ Types' /\ Control /\ Space
    BY DEF Group, IInv
  <1>2. Codes
    BY CodesAre
  <1>3. /\ Fits(g) \in Nat /\ Taken(g) \in Nat /\ Fits(g) <= g.lits
        /\ Spill(g) > 0 \/ Left(g) > 0 => Fits(g) + Taken(g) = AvailOut
        /\ Spill(g) = g.lits - Fits(g) /\ (Spill(g) > 0 => Taken(g) = 0)
        /\ Len(Before(g)) = Len(Target) + Fits(g)
    BY <1>1, GroupRoom
  <1>4. /\ Len(plain') = Len(plain) + (Fits(g) + Taken(g)) + Overflowed'
        /\ Overflowed' = Spill(g) + Left(g) /\ Spill(g) \in Nat /\ Left(g) \in Nat
    BY <1>1, GroupCounts
  <1>5. /\ Len(Target) \in Nat /\ Len(plain) \in Nat /\ Place \in Int /\ Place + Len(Target) = Len(plain)
        /\ g.lits \in Nat
    BY <1>1, TargetShows, GroupType
  <1>6. /\ phase = 1 => AvailOut = 2 * HistSize - Len(tmp_out)
        /\ phase # 1 => AvailOut = room - Len(out)
        /\ AvailOut \in Nat /\ room \in Nat /\ type0_block_len' \in Nat /\ HistSize \in Nat /\ 2 * HistSize \in Nat
        /\ phase \in {0, 1, 2}
    BY <1>1, Room, Sizes DEF Types
  <1>7. phase = 0 => Len(out) = Len(plain) /\ Target = out
    <2>1. phase = 0 => ret = ISAL_DECOMP_OK
      BY <1>1 DEF Control
    <2>2. QED
      BY <2>1 DEF OutInv, Alone, Target
  <1>8. phase = 0 /\ (Spill(g) > 0 \/ Left(g) > 0) => TooSmall'
    <2>1. SUFFICES ASSUME phase = 0, Spill(g) > 0 \/ Left(g) > 0 PROVE TooSmall'
      OBVIOUS
    <2>2. Fits(g) + Taken(g) = room - Len(plain) /\ Len(plain) \in Nat /\ room \in Nat
      <3>1. AvailOut = room - Len(plain)
        <4>1. phase # 1 /\ Len(out) = Len(plain)
          BY <1>7, <2>1
        <4>2. QED
          BY <1>6, <4>1
      <3>2. Fits(g) + Taken(g) = AvailOut
        BY <1>3, <2>1
      <3>3. QED
        BY <1>5, <1>6, <3>1, <3>2
    <2>3. Overflowed' > 0 /\ Overflowed' \in Nat
      BY <1>4, <2>1
    <2>4. Len(plain') > room
      BY <1>4, <2>2, <2>3
    <2>5. Len(plain') + type0_block_len' > room'
      <3>1. Len(plain') \in Nat
        BY <1>1 DEF Types
      <3>2. QED
        BY <1>6, <2>4, <3>1
    <2>6. QED
      BY <2>1, <2>5 DEF TooSmall
  <1>9. ASSUME Far(g)
        PROVE  MatchOf(g).dist > Len(plain') \/ TooSmall'
    <2>1. /\ MatchOf(g).dist > Len(Target) + Fits(g) /\ MatchOf(g).dist \in Nat
          /\ MatchOf(g).dist <= HistSize
      BY <1>3, <1>9, GroupType DEF Far
    <2>2. Len(plain') = Len(plain) + g.lits
      <3>1. LET len == IF Far(g) THEN 0 ELSE MatchOf(g).len
            IN Len(plain') = Len(plain) + g.lits + len
        BY <1>1, GroupPlain
      <3>2. QED
        BY <1>5, <1>9, <3>1
    <2>3. Len(Target) < HistSize
      BY <1>3, <1>5, <1>6, <2>1
    <2>4. phase # 2
      <3>1. phase = 2 => Target = out /\ Len(out) >= HistSize
        BY GroupFed DEF Target
      <3>2. QED
        BY <1>5, <1>6, <2>3, <3>1
    <2>5. Len(Target) = Len(plain)
      <3>1. phase = 1 => Target = tmp_out /\ Place = Held /\ (Held = 0 \/ Len(tmp_out) >= HistSize)
        BY <1>1, LoopCounts DEF Target, Place, InTmp
      <3>2. phase = 1 => Held = 0
        BY <1>5, <1>6, <2>3, <3>1
      <3>3. Place = 0
        BY <1>6, <2>4, <3>1, <3>2 DEF Place
      <3>4. QED
        BY <1>5, <3>3
    <2>6. CASE Fits(g) = g.lits
      BY <2>1, <2>2, <2>5, <2>6
    <2>7. CASE Fits(g) # g.lits
      <3>1. Spill(g) > 0
        BY <1>3, <1>5, <2>7
      <3>2. phase # 1
        <4>1. Fits(g) = AvailOut
          BY <1>3, <1>6, <3>1
        <4>2. phase = 1 => Target = tmp_out
          BY DEF Target
        <4>3. phase = 1 => Len(Target) + Fits(g) = 2 * HistSize
          BY <1>5, <1>6, <4>1, <4>2
        <4>4. QED
          BY <1>6, <2>1, <4>3
      <3>3. QED
        BY <1>6, <1>8, <2>4, <3>1, <3>2
    <2>8. QED
      BY <2>6, <2>7
  <1>10. ASSUME ret' = ISAL_INVALID_LOOKBACK
         PROVE  Matches[upcoming'.tail].dist > Len(plain') \/ TooSmall'
    <2>1. Far(g) /\ upcoming' = g
      BY <1>2, <1>10 DEF GroupDone, Codes, Invalid
    <2>2. IsMatch(g) /\ MatchOf(g) = Matches[g.tail]
      BY <2>1, GroupType DEF Far
    <2>3. QED
      BY <1>9, <2>1, <2>2
  <1>11. ret' = ISAL_INVALID_SYMBOL => upcoming'.tail = "bad"
    BY <1>2 DEF GroupDone, Codes, Invalid
  <1>12. ret' # ISAL_INCORRECT_CHECKSUM
    BY <1>2 DEF GroupDone, Codes
  <1>13. ret' = ISAL_OUT_OVERFLOW /\ phase' = 0 => TooSmall'
    <2>1. ret' = ISAL_OUT_OVERFLOW => Spill(g) > 0 \/ Left(g) > 0
      BY <1>2 DEF GroupDone, Codes
    <2>2. QED
      BY <1>8, <2>1
  <1>14. QED
    BY <1>10, <1>11, <1>12, <1>13 DEF Real

(* A group that is decoded.                                                *)
LEMMA GroupDoneOut ==
  ASSUME IInv, OutInv, IInv', Group, NEW g \in Groups, GroupDone(g),
         upcoming \in Groups => g = upcoming, ~ (Unread < GroupNeeds(g)),
         pc' = IF ret' # ISAL_DECOMP_OK \/ block_state' = "INPUT_DONE" THEN AfterLoop ELSE "decode",
         dict' = dict, phase' = phase, room' = room, crc_flag' = crc_flag, got' = got, crc' = crc,
         tmp_out_processed' = tmp_out_processed
  PROVE  OutInv'
  <1> DEFINE n == Fits(g) + Taken(g)
  <1>1. pc = "decode" /\ Types /\ Types' /\ Control /\ Space
    BY DEF Group, IInv
  <1>2. Codes
    BY CodesAre
  <1>3. Real'
    BY GroupReal
  <1>4. Whole' /\ Grown(plain, plain')
    BY <1>1, GroupPlain
  <1>5. /\ n \in Nat /\ Len(plain) \in Nat /\ Len(plain') = Len(plain) + n + Overflowed'
        /\ Overflowed' = Spill(g) + Left(g) /\ Spill(g) \in Nat /\ Left(g) \in Nat
    BY <1>1, GroupCounts
  <1>6. /\ phase # 0 => LoopWrote(n)
        /\ phase = 0 => Len(out') = Len(out) + n /\ Shows(out', 1, plain', 0)
    BY <1>1, GroupWrote
  <1>7. /\ ret' = ISAL_DECOMP_OK => Spill(g) = 0 /\ Left(g) = 0
        /\ ret' = ISAL_OUT_OVERFLOW => Spill(g) > 0 \/ Left(g) > 0
        /\ ret' \in {ISAL_DECOMP_OK, ISAL_OUT_OVERFLOW} \/ Invalid(ret')
    <2>1. ret' = IF g.tail = "bad" THEN ISAL_INVALID_SYMBOL
                 ELSE IF Far(g) THEN ISAL_INVALID_LOOKBACK
                 ELSE IF Spill(g) > 0 \/ Left(g) > 0 THEN ISAL_OUT_OVERFLOW
                 ELSE ISAL_DECOMP_OK
      BY DEF GroupDone
    <2>2. ret' = ISAL_DECOMP_OK => ~ (Spill(g) > 0 \/ Left(g) > 0)
      BY <1>2, <2>1 DEF Codes
    <2>3. ret' = ISAL_DECOMP_OK => Spill(g) = 0 /\ Left(g) = 0
      BY <1>5, <2>2
    <2>4. QED
      BY <1>2, <2>1, <2>3 DEF Codes, Invalid
  <1>8. /\ block_state' \in Working \cup {"INPUT_DONE"}
        /\ pc' \in {"decode", AfterLoop}
    BY DEF GroupDone, BlockDone, Working
  <1>9. /\ phase = 1 => AvailOut = 2 * HistSize - Len(tmp_out)
        /\ Len(tmp_out) \in Nat /\ Len(out) \in Nat /\ HistSize \in Nat /\ 2 * HistSize \in Nat
        /\ Spill(g) > 0 \/ Left(g) > 0 => n = AvailOut
    BY <1>1, Room, Lengths, Sizes, GroupRoom
  <1>10. ASSUME phase = 0 PROVE Alone'
    <2>1. /\ dict = 0 /\ Shows(out, 1, plain, 0) /\ total_out = Len(out) /\ Len(out) = Len(plain)
          /\ got = <<>> /\ crc = 0
      <3>1. ret = ISAL_DECOMP_OK /\ pc # "stopped"
        BY <1>1, <1>10 DEF Control
      <3>2. QED
        BY <1>10, <3>1 DEF OutInv, Alone
    <2>2. total_out' = Len(out')
      <3>1. total_out' = total_out + Fits(g) + Taken(g)
        BY DEF GroupDone
      <3>2. Fits(g) \in Nat /\ Taken(g) \in Nat
        BY <1>1, GroupRoom
      <3>3. total_out' = total_out + n
        BY <1>9, <2>1, <3>1, <3>2
      <3>4. QED
        BY <1>6, <1>10, <2>1, <3>3
    <2>3. ret' = ISAL_DECOMP_OK => Len(out') = Len(plain')
      <3>1. SUFFICES ASSUME ret' = ISAL_DECOMP_OK PROVE Len(out') = Len(plain')
        OBVIOUS
      <3>2. Overflowed' = 0
        BY <1>5, <1>7, <3>1
      <3>3. QED
        BY <1>5, <1>6, <1>10, <2>1, <3>2
    <2>4. pc' # "stopped"
      BY <1>8, <1>10 DEF AfterLoop
    <2>5. QED
      BY <1>6, <1>10, <2>1, <2>2, <2>3, <2>4 DEF Alone
  <1>11. phase # 0 => Alone'
    BY DEF Alone
  <1>12. ASSUME phase # 0 PROVE Delivered' /\ Ahead' /\ Window'
    <2>1. LoopWrote(n) /\ LoopLeft
      BY <1>6, <1>8, <1>12 DEF LoopLeft
    <2>2. Delivered' /\ Ahead'
      BY <1>1, <1>5, <1>12, <2>1, LoopOutput
    <2>3. phase = 2 => Len(out) >= HistSize
      BY GroupFed
    <2>4. phase = 2 /\ Len(out) < HistSize => n = 0 /\ Overflowed' = 0
      BY <1>9, <2>3
    <2>5. phase = 2 /\ pc' = "decode" => Len(out') >= HistSize \/ Starved'
      <3>1. SUFFICES ASSUME phase = 2 PROVE Len(out') >= HistSize
        OBVIOUS
      <3>2. Len(out') = Len(out) + n
        BY <2>1, <3>1 DEF LoopWrote
      <3>3. QED
        BY <1>5, <1>9, <2>3, <3>1, <3>2
    <2>6. phase = 1 /\ pc' # "decode" /\ Live' =>
            Invalid(ret') \/ Len(tmp_out') >= 2 * HistSize \/ Starved'
      <3>1. SUFFICES ASSUME phase = 1, pc' # "decode", Live', ~Invalid(ret')
                     PROVE  Len(tmp_out') >= 2 * HistSize
        OBVIOUS
      <3>2. block_state' # "INPUT_DONE"
        BY <3>1 DEF Live, Working
      <3>3. ret' = ISAL_OUT_OVERFLOW
        BY <1>7, <3>1, <3>2
      <3>4. n = 2 * HistSize - Len(tmp_out)
        BY <1>7, <1>9, <3>1, <3>3
      <3>5. Len(tmp_out') = Len(tmp_out) + n
        BY <2>1, <3>1 DEF LoopWrote
      <3>6. QED
        BY <1>9, <3>4, <3>5
    <2>7. Window'
      BY <1>1, <1>5, <1>12, <2>1, <2>4, <2>5, <2>6, LoopWindow
    <2>8. QED
      BY <2>2, <2>7
  <1>13. phase = 0 => Delivered' /\ Ahead' /\ Window'
    BY DEF Delivered, Ahead, Window
  <1>14. QED
    BY <1>3, <1>4, <1>10, <1>11, <1>12, <1>13 DEF OutInv

(* decode_huffman_code_block_stateless.                                    *)
LEMMA GroupOut ==
  ASSUME IInv, OutInv, IInv', Group
  PROVE  OutInv'
  <1>1. Types /\ Control /\ Coming /\ InputInv /\ Space
    BY DEF IInv
  <1>2. PICK g \in Groups :
           /\ upcoming \in Groups => g = upcoming
           /\ IF Unread < GroupNeeds(g) THEN GroupUndone(g) ELSE GroupDone(g)
           /\ pc' = IF ret' # ISAL_DECOMP_OK \/ block_state' = "INPUT_DONE" THEN AfterLoop ELSE "decode"
           /\ UNCHANGED <<tmp_in_size, bfinal, type0_block_len, call, sent>>
    BY <1>1, GroupStep
  <1>3. /\ phase' = phase /\ room' = room /\ dict' = dict /\ crc_flag' = crc_flag
        /\ tmp_out_processed' = tmp_out_processed /\ got' = got /\ crc' = crc
    BY <1>2 DEF call, sent
  <1>4. CASE Unread < GroupNeeds(g)
    <2>1. GroupUndone(g) /\ pc' = AfterLoop
      BY <1>2, <1>4, CodesAre DEF GroupUndone, Codes
    <2>2. QED
      BY <1>3, <2>1, GroupUndoneOut
  <1>5. CASE ~ (Unread < GroupNeeds(g))
    BY <1>2, <1>3, <1>5, GroupDoneOut
  <1>6. QED
    BY <1>4, <1>5

-----------------------------------------------------------------------------
(* The beginning and the trailer.                                          *)

(* After isal_inflate_init, or isal_inflate_set_dict, nothing is decoded.  *)
LEMMA InitOut ==
  ASSUME Init
  PROVE  OutInv
  <1>1. /\ crc = 0
        /\ tmp_out = DictCells(dict) /\ tmp_out_processed = dict /\ plain = DictCells(dict)
        /\ out = <<>> /\ total_out = 0 /\ write_overflow = <<>> /\ copy_overflow = [len |-> 0, dist |-> 0]
        /\ block_state = "NEW_HDR" /\ got = <<>>
        /\ pc = "user" /\ ret = ISAL_DECOMP_OK
    BY DEF Init, NoLits, NoCopy
  <1>2. phase \in {0, 1} /\ dict \in 0..HistSize /\ (phase = 0 => dict = 0)
    <2>1. phase \in {0, 1} /\ crc_flag \in DOMAIN TrailerLen
      BY DEF Init
    <2>2. IF phase = 0 THEN dict \in {0} ELSE dict \in DictSizes[crc_flag]
      BY DEF Init
    <2>3. DictSizes[crc_flag] \subseteq 0..HistSize /\ 0 \in 0..HistSize
      BY <2>1, InflateAssumption, Sizes
    <2>4. QED
      BY <2>1, <2>2, <2>3
  <1>3. dict \in Nat /\ dict <= HistSize /\ HistSize \in Nat
    BY <1>2, Sizes
  <1>4. plain \in Seq(Int) /\ Len(plain) = dict /\ tmp_out = plain
    BY <1>1, <1>3, DictType
  <1>5. \A i \in 1..dict : plain[i] = i - dict - 1
    BY <1>1 DEF DictCells
  <1>6. Len(got) = 0 /\ Len(out) = 0 /\ AtUser /\ Len(write_overflow) = 0 /\ copy_overflow.len = 0
    BY <1>1 DEF AtUser
  <1>7. Whole
    <2>1. ASSUME NEW i \in 1..Len(plain) PROVE plain[i] # Junk
      <3>1. i \in 1..dict
        BY <1>4
      <3>2. plain[i] = i - dict - 1
        BY <1>5, <3>1
      <3>3. QED
        BY <1>3, <3>1, <3>2 DEF Junk
    <2>2. QED
      BY <1>3, <1>4, <1>5, <2>1 DEF Whole, NoJunk
  <1>8. Real
    BY <1>1, CodesAre DEF Real, Codes
  <1>9. Alone
    <2>1. SUFFICES ASSUME phase = 0 PROVE Alone
      BY DEF Alone
    <2>2. dict = 0 /\ Len(plain) = 0
      BY <1>2, <1>4, <2>1
    <2>3. Shows(out, 1, plain, 0)
      BY <1>6, <2>2 DEF Shows
    <2>4. QED
      BY <1>1, <1>6, <2>2, <2>3 DEF Alone
  <1>10. Delivered
    <2>1. Shows(got, 1, plain, dict)
      BY <1>3, <1>4, <1>6 DEF Shows
    <2>2. crc = IF crc_flag = "raw" THEN 0 ELSE Len(got)
      BY <1>1, <1>6
    <2>3. QED
      BY <1>6, <2>1, <2>2 DEF Delivered
  <1>11. Sent = dict /\ Pending = 0 /\ Overflowed = 0 /\ Held = 0
    BY <1>1, <1>3, <1>4, <1>6 DEF Sent, Pending, Overflowed, Held
  <1>12. Shows(tmp_out, 1, plain, 0)
    BY <1>3, <1>4 DEF Shows
  <1>13. Ahead
    <2>1. Len(plain) = Sent + Pending + Overflowed
      BY <1>3, <1>4, <1>11
    <2>2. Shows(tmp_out, tmp_out_processed + 1, plain, Held)
      BY <1>1, <1>3, <1>4, <1>11 DEF Shows
    <2>3. Shows(write_overflow, 1, plain, Sent + Pending)
      BY <1>3, <1>4, <1>6, <1>11 DEF Shows
    <2>4. QED
      BY <1>1, <1>6, <2>1, <2>2, <2>3 DEF Ahead
  <1>14. Window
    <2>1. InTmp
      BY <1>11, <1>12 DEF InTmp
    <2>2. tmp_out_processed <= HistSize
      BY <1>1, <1>3
    <2>3. QED
      BY <1>1, <2>1, <2>2 DEF Window
  <1>15. QED
    BY <1>7, <1>8, <1>9, <1>10, <1>13, <1>14 DEF OutInv

(* No step, no change.                                                     *)
LEMMA StutterOut ==
  ASSUME OutInv, UNCHANGED vars
  PROVE  OutInv'
  <1>1. /\ avail_in' = avail_in /\ read_in_length' = read_in_length /\ tmp_in_size' = tmp_in_size
        /\ tmp_out' = tmp_out /\ out' = out /\ total_out' = total_out
        /\ write_overflow' = write_overflow /\ copy_overflow' = copy_overflow
        /\ block_state' = block_state /\ type0_block_len' = type0_block_len
        /\ upcoming' = upcoming /\ plain' = plain
        /\ phase' = phase /\ room' = room /\ dict' = dict /\ crc_flag' = crc_flag
        /\ tmp_out_processed' = tmp_out_processed /\ got' = got /\ crc' = crc /\ pc' = pc /\ ret' = ret
    BY DEF vars, input, output, block, call, sent
  <1>2. /\ Sent' = Sent /\ Held' = Held /\ Pending' = Pending /\ Overflowed' = Overflowed /\ AtUser' = AtUser
        /\ Live' = Live /\ TooSmall' = TooSmall
    BY <1>1 DEF Sent, Held, Pending, Overflowed, AtUser, Live, TooSmall
  <1>3. Starved' = Starved
    BY <1>1 DEF Starved, Unread, Wanted
  <1>4. Whole'
    BY <1>1 DEF OutInv, Whole
  <1>5. Real'
    BY <1>1, <1>2 DEF OutInv, Real
  <1>6. Alone'
    BY <1>1 DEF OutInv, Alone
  <1>7. Delivered'
    BY <1>1, <1>2 DEF OutInv, Delivered
  <1>8. Ahead'
    BY <1>1, <1>2 DEF OutInv, Ahead
  <1>9. Window'
    BY <1>1, <1>2, <1>3 DEF OutInv, Window, InOut, InTmp
  <1>10. QED
    BY <1>4, <1>5, <1>6, <1>7, <1>8, <1>9 DEF OutInv

(* A call begins with the room the user gives it.                          *)
LEMMA CallOut ==
  ASSUME IInv, OutInv, IInv', Call
  PROVE  OutInv'
  <1>1. Types /\ Types' /\ pc = "user" /\ phase # 0 /\ AtUser /\ pc # "stopped"
    BY DEF IInv, Call, AtUser
  <1>2. /\ out' = <<>> /\ ret' = ISAL_DECOMP_OK
        /\ IF Len(tmp_out) < 2 * HistSize
           THEN phase' = 1 /\ pc' = IF block_state = "INPUT_DONE" THEN "deliver" ELSE "decode"
           ELSE phase' = 2 /\ pc' = "deliver"
        /\ tmp_out' = tmp_out /\ write_overflow' = write_overflow /\ copy_overflow' = copy_overflow
        /\ block_state' = block_state /\ type0_block_len' = type0_block_len
        /\ upcoming' = upcoming /\ plain' = plain
        /\ dict' = dict /\ crc_flag' = crc_flag /\ tmp_out_processed' = tmp_out_processed
        /\ got' = got /\ crc' = crc /\ block_state \notin {"FINISH", "CHECKSUM_CHECK"}
    BY DEF Call, block, sent
  <1>3. phase' # 0 /\ phase' \in {1, 2} /\ ~AtUser' /\ pc' # "stopped" /\ pc' \in {"decode", "deliver"}
        /\ (pc' = "decode" => phase' = 1)
    BY <1>2 DEF AtUser
  <1>4. Sent = dict + Len(got) /\ dict + Len(got) \in Nat /\ Held = Sent - tmp_out_processed
    BY <1>1, SentType
  <1>5. Len(out') = 0 /\ Len(plain) \in Nat /\ Len(tmp_out) \in Nat /\ 2 * HistSize \in Nat
    BY <1>1, <1>2, Lengths, Sizes
  <1>6. Sent' = Sent /\ Held' = Held
    <2>1. Sent' = dict + Len(got) + 0
      BY <1>2, <1>3, <1>5 DEF Sent
    <2>2. Sent' = Sent
      BY <1>4, <2>1
    <2>3. QED
      BY <1>2, <2>2 DEF Held
  <1>7. Pending' = Pending /\ Overflowed' = Overflowed /\ Live' = Live
    BY <1>2 DEF Pending, Overflowed, Live
  <1>8. Whole'
    BY <1>2 DEF OutInv, Whole
  <1>9. Real'
    BY <1>2, CodesAre DEF Real, Codes
  <1>10. Alone'
    BY <1>3 DEF Alone
  <1>11. Delivered'
    <2>1. Shows(got, 1, plain, dict) /\ crc = IF crc_flag = "raw" THEN 0 ELSE Len(got)
      BY <1>1 DEF OutInv, Delivered
    <2>2. Shows(out', 1, plain, dict + Len(got))
      <3>1. dict + Len(got) <= Len(plain)
        <4>1. dict \in Nat /\ Len(got) \in Nat
          BY <1>1 DEF Types
        <4>2. QED
          BY <2>1, <4>1 DEF Shows
      <3>2. QED
        BY <1>4, <1>5, <3>1 DEF Shows
    <2>3. QED
      BY <1>2, <2>1, <2>2 DEF Delivered
  <1>12. Ahead'
    BY <1>1, <1>2, <1>6, <1>7 DEF OutInv, Ahead
  <1>13. Window'
    <2>1. SUFFICES ASSUME Live PROVE Window'
      BY <1>7 DEF Window
    <2>2. InTmp /\ tmp_out_processed <= HistSize
      BY <1>1, <2>1 DEF OutInv, Window, InOut
    <2>3. InTmp'
      BY <1>2, <1>6, <2>2 DEF InTmp
    <2>4. pc' = "deliver" => Len(tmp_out') >= 2 * HistSize
      BY <1>2, <1>5, <2>1 DEF Live, Working
    <2>5. QED
      BY <1>2, <1>3, <2>2, <2>3, <2>4 DEF Window
  <1>14. QED
    BY <1>8, <1>9, <1>10, <1>11, <1>12, <1>13 DEF OutInv

(* The one call of isal_inflate_stateless.                                 *)
LEMMA CallStatelessOut ==
  ASSUME IInv, OutInv, IInv', CallStateless
  PROVE  OutInv'
  <1>1. Control /\ pc = "user" /\ phase = 0
    BY DEF IInv, CallStateless
  <1>2. /\ pc' = "decode" /\ phase' = phase /\ dict' = dict /\ crc_flag' = crc_flag /\ ret' = ret
        /\ out' = out /\ total_out' = total_out /\ plain' = plain /\ got' = got /\ crc' = crc
    BY DEF CallStateless, output, block, sent
  <1>3. ret = ISAL_DECOMP_OK
    BY <1>1 DEF Control
  <1>4. Whole'
    BY <1>2 DEF OutInv, Whole
  <1>5. Real'
    BY <1>2, <1>3, CodesAre DEF Real, Codes
  <1>6. Alone'
    BY <1>1, <1>2 DEF OutInv, Alone
  <1>7. Delivered' /\ Ahead' /\ Window'
    BY <1>1, <1>2 DEF Delivered, Ahead, Window
  <1>8. QED
    BY <1>4, <1>5, <1>6, <1>7 DEF OutInv

(* A checksum over all of the stream is not found wrong.                   *)
LEMMA VerdictRight ==
  ASSUME Types, NEW r, NEW sum, NEW total, crc_flag # "raw" => sum = Len(plain) - dict,
         total = Len(plain) - dict
  PROVE  Verdict(r, sum, total) = r
  <1>1. Trailer \in Nat /\ (crc_flag = "raw" => Trailer = 0)
    BY TrailerType
  <1>2. QED
    BY <1>1 DEF Verdict

(* The trailer is there, or more input is needed.                          *)
LEMMA TrailerRet ==
  ASSUME NEW b, NEW a
  PROVE  CheckTrailer(b, a).ret \in {ISAL_DECOMP_OK, ISAL_END_INPUT}
  BY DEF CheckTrailer, fixed_size_read

(* A call that only has the trailer left to check.                         *)
LEMMA CallForTrailerOut ==
  ASSUME IInv, OutInv, IInv', CallForTrailer
  PROVE  OutInv'
  <1>1. /\ Types /\ Control /\ Space /\ pc = "user" /\ block_state = "CHECKSUM_CHECK" /\ AtUser
        /\ pc # "stopped"
    BY DEF IInv, CallForTrailer, AtUser
  <1>2. phase # 0
    BY <1>1 DEF Control
  <1>3. PICK c : /\ c.ret \in {ISAL_DECOMP_OK, ISAL_END_INPUT}
                 /\ block_state' = Finished(c.ret) /\ Return(Verdict(c.ret, crc, total_out))
    <2>1. PICK n \in Chunks :
            LET c == CheckTrailer(read_in_length, n)
            IN block_state' = Finished(c.ret) /\ Return(Verdict(c.ret, crc, total_out))
      BY DEF CallForTrailer
    <2>2. PICK c : c = CheckTrailer(read_in_length, n)
      OBVIOUS
    <2>3. QED
      BY <2>1, <2>2, TrailerRet
  <1>4. /\ out' = <<>> /\ tmp_out' = tmp_out /\ write_overflow' = write_overflow
        /\ copy_overflow' = copy_overflow /\ plain' = plain /\ phase' = phase
        /\ dict' = dict /\ crc_flag' = crc_flag
        /\ tmp_out_processed' = tmp_out_processed /\ got' = got /\ crc' = crc
    BY DEF CallForTrailer, sent
  <1>5. Codes
    BY CodesAre
  <1>6. /\ Len(plain) = Sent + Pending + Overflowed /\ Pending = 0 /\ Overflowed = 0
        /\ total_out = Len(got) + 0
        /\ crc = IF crc_flag = "raw" THEN 0 ELSE Len(got)
    BY <1>1, <1>2 DEF OutInv, Ahead, Delivered, Space
  <1>7. /\ Sent = dict + Len(got) /\ dict \in Nat /\ Len(got) \in Nat /\ Len(plain) \in Nat
    BY <1>1, SentType, Lengths DEF Types
  <1>8. Len(plain) - dict = Len(got) /\ total_out = Len(got)
    BY <1>6, <1>7
  <1>9. Verdict(c.ret, crc, total_out) = c.ret
    BY <1>1, <1>6, <1>8, VerdictRight
  <1>10. ret' = c.ret /\ pc' \in {"user", "stopped"} /\ AtUser'
    BY <1>3, <1>9 DEF Return, AtUser
  <1>11. ~Live' /\ block_state' \in {"CHECKSUM_CHECK", "FINISH"}
    BY <1>3 DEF Live, Working, Finished
  <1>12. Sent' = Sent /\ Held' = Held /\ Pending' = Pending /\ Overflowed' = Overflowed
    BY <1>1, <1>4, <1>10 DEF Sent, Held, Pending, Overflowed
  <1>13. Whole'
    BY <1>4 DEF OutInv, Whole
  <1>14. Real'
    BY <1>2, <1>3, <1>4, <1>5, <1>10 DEF Real, Codes
  <1>15. Alone' /\ Window'
    BY <1>2, <1>4, <1>11 DEF Alone, Window
  <1>16. Delivered'
    BY <1>2, <1>4, <1>10 DEF OutInv, Delivered
  <1>17. Ahead'
    BY <1>1, <1>2, <1>4, <1>6, <1>12 DEF OutInv, Ahead
  <1>18. QED
    BY <1>13, <1>14, <1>15, <1>16, <1>17 DEF OutInv

-----------------------------------------------------------------------------
(* The delivery of tmp_out_buffer.                                         *)

(* Putting write_overflow and copy_overflow behind the buffer goes on with *)
(* the stream, if the buffer shows what the match points into.             *)
LEMMA OverflowShows ==
  ASSUME Types, NEW b \in Seq(Int), NEW f \in Int, NEW k \in Int, f >= 1, f <= Len(b) + 1,
         Shows(b, f, plain, k), k + Len(b) + Overflowed = Len(plain),
         Shows(write_overflow, 1, plain, k + Len(b)),
         copy_overflow.len > 0 =>
           /\ copy_overflow.dist \in 1..HistSize /\ copy_overflow.dist <= Len(b) - f + 1
           /\ Repeats(plain, Len(plain) - copy_overflow.len, copy_overflow.dist, copy_overflow.len)
  PROVE  Shows(WithOverflow(b), f, plain, k)
  <1> DEFINE c == b \o write_overflow
             d == Most(1, copy_overflow.dist)
             n == copy_overflow.len
  <1>1. plain \in Seq(Int) /\ write_overflow \in Seq(Int) /\ n \in Nat /\ copy_overflow.dist \in Nat
    BY DEF Types
  <1>2. c \in Seq(Int) /\ Len(c) = Len(b) + Len(write_overflow) /\ Len(b) \in Nat /\ Len(write_overflow) \in Nat
        /\ Len(plain) \in Nat
    BY <1>1
  <1>3. Shows(c, f, plain, k)
    BY <1>1, ShowsJoined
  <1>4. d \in Nat \ {0} /\ (n > 0 => d = copy_overflow.dist)
    <2>1. n > 0 => copy_overflow.dist >= 1
      BY Sizes
    <2>2. QED
      BY <1>1, <2>1 DEF Most
  <1>5. k + Len(c) + n = Len(plain)
    BY <1>1, <1>2 DEF Overflowed
  <1>6. WithOverflow(b) = byte_copy(c, d, n)
    BY DEF WithOverflow
  <1> HIDE DEF c
  <1>7. n > 0 => d <= Len(c) - f + 1
    BY <1>1, <1>2, <1>4
  <1>8. Repeats(plain, k + Len(c), d, n)
    <2>1. CASE n > 0
      <3>1. k + Len(c) = Len(plain) - n
        BY <1>1, <1>2, <1>5
      <3>2. QED
        BY <1>4, <2>1, <3>1
    <2>2. CASE n = 0
      BY <2>2 DEF Repeats
    <2>3. QED
      BY <1>1, <2>1, <2>2
  <1>9. f <= Len(c) + 1 /\ k + Len(c) + n <= Len(plain)
    BY <1>1, <1>2, <1>5
  <1> HIDE DEF d, n
  <1>10. Shows(byte_copy(c, d, n), f, plain, k)
    BY <1>1, <1>2, <1>3, <1>4, <1>7, <1>8, <1>9, CopyShows, Zenon
  <1>11. QED
    BY <1>6, <1>10

(* The counts when tmp_out_buffer is to be delivered.                      *)
LEMMA DeliverCounts ==
  ASSUME IInv, OutInv, pc = "deliver"
  PROVE  /\ phase \in {1, 2} /\ ~AtUser /\ Len(out) = 0 /\ Sent = dict + Len(got) /\ Sent \in Nat /\ Held \in Int
         /\ Held + tmp_out_processed = Sent /\ Held + Len(tmp_out) + Overflowed = Len(plain)
         /\ Held + Len(tmp_out) = Sent + Pending
         /\ tmp_out_processed \in Nat /\ tmp_out_processed <= Len(tmp_out) /\ Len(tmp_out) \in Nat
         /\ copy_overflow.len > 0 => /\ copy_overflow.dist \in 1..HistSize /\ copy_overflow.dist <= Len(tmp_out)
                                     /\ InTmp
  <1>1. Types /\ Control /\ Space
    BY DEF IInv
  <1>2. phase \in {1, 2} /\ ~AtUser /\ phase # 0
    BY <1>1 DEF Control, Types, AtUser
  <1>3. Len(out) = 0
    BY <1>1, <1>2 DEF Space
  <1>4. Sent = dict + Len(got) + Len(out) /\ dict + Len(got) \in Nat /\ Sent \in Nat /\ Held \in Int
        /\ Held = Sent - tmp_out_processed
    BY <1>1, <1>2, SentType
  <1>5. /\ Len(tmp_out) \in Nat /\ Len(plain) \in Nat /\ Overflowed \in Nat /\ Pending = Len(tmp_out) - tmp_out_processed
        /\ Overflowed = Len(write_overflow) + copy_overflow.len /\ Len(write_overflow) \in Nat
        /\ copy_overflow.len \in Nat /\ tmp_out_processed \in Nat /\ HistSize \in Nat
    BY <1>1, Lengths, Sizes DEF Types
  <1>6. Len(plain) = Sent + Pending + Overflowed
    BY <1>2 DEF OutInv, Ahead
  <1>7. tmp_out_processed <= Len(tmp_out)
    BY <1>1 DEF Space
  <1>8. Held + tmp_out_processed = Sent /\ Held + Len(tmp_out) = Sent + Pending
        /\ Held + Len(tmp_out) + Overflowed = Len(plain)
    <2>1. PICK s \in Nat, p \in Nat, t \in Nat, v \in Nat :
             s = Sent /\ p = tmp_out_processed /\ t = Len(tmp_out) /\ v = Overflowed
      BY <1>4, <1>5, Zenon
    <2>2. Held = s - p /\ Pending = t - p /\ Len(plain) = Sent + Pending + v
      BY <1>4, <1>5, <1>6, <2>1, Zenon
    <2>3. Len(plain) = s + (t - p) + v
      BY <2>1, <2>2
    <2>4. QED
      BY <2>1, <2>2, <2>3
  <1>9. ASSUME copy_overflow.len > 0
        PROVE  /\ copy_overflow.dist \in 1..HistSize /\ copy_overflow.dist <= Len(tmp_out) /\ InTmp
    <2>1. copy_overflow.dist \in 1..HistSize /\ block_state = "CODED"
      BY <1>2, <1>9 DEF OutInv, Ahead
    <2>2. Overflowed > 0
      BY <1>5, <1>9
    <2>3. Len(tmp_out) = 2 * HistSize
      BY <1>1, <1>2, <1>5, <2>2 DEF Space
    <2>4. InTmp
      BY <1>2, <2>1 DEF OutInv, Window, InOut, Live, Working
    <2>5. QED
      BY <1>5, <2>1, <2>3, <2>4
  <1>10. QED
    BY <1>2, <1>3, <1>4, <1>5, <1>7, <1>8, <1>9

(* tmp_out_buffer, with what overflowed it, shows the stream.              *)
LEMMA DeliverShows ==
  ASSUME IInv, OutInv, pc = "deliver"
  PROVE  /\ Shows(WithOverflow(tmp_out), tmp_out_processed + 1, plain, Held)
         /\ InTmp => Shows(WithOverflow(tmp_out), 1, plain, Held)
         /\ WithOverflow(tmp_out) \in Seq(Int) /\ Len(WithOverflow(tmp_out)) = Len(tmp_out) + Overflowed
  <1> DEFINE w == WithOverflow(tmp_out)
  <1>1. Types
    BY DEF IInv
  <1>2. /\ phase \in {1, 2} /\ Held \in Int
        /\ Held + Len(tmp_out) + Overflowed = Len(plain)
        /\ Held + Len(tmp_out) = Sent + Pending
        /\ tmp_out_processed \in Nat /\ tmp_out_processed <= Len(tmp_out) /\ Len(tmp_out) \in Nat
        /\ copy_overflow.len > 0 => /\ copy_overflow.dist \in 1..HistSize /\ copy_overflow.dist <= Len(tmp_out)
                                    /\ InTmp
    BY DeliverCounts
  <1>3. /\ Shows(tmp_out, tmp_out_processed + 1, plain, Held)
        /\ Shows(write_overflow, 1, plain, Held + Len(tmp_out))
        /\ copy_overflow.len > 0 =>
             Repeats(plain, Len(plain) - copy_overflow.len, copy_overflow.dist, copy_overflow.len)
    BY <1>2 DEF OutInv, Ahead
  <1>4. tmp_out \in Seq(Int) /\ plain \in Seq(Int) /\ copy_overflow.len \in Nat
    BY <1>1 DEF Types
  <1>5. w \in Seq(Int) /\ Len(w) = Len(tmp_out) + Overflowed
    BY <1>1, <1>4, OverflowType
  <1>6. ASSUME InTmp PROVE Shows(w, 1, plain, Held)
    <2>1. Shows(tmp_out, 1, plain, Held)
      BY <1>6 DEF InTmp
    <2>2. 1 \in Int /\ 1 >= 1 /\ 1 <= Len(tmp_out) + 1
      BY <1>2
    <2>3. copy_overflow.len > 0 => copy_overflow.dist <= Len(tmp_out) - 1 + 1
      BY <1>2
    <2>4. QED
      BY <1>1, <1>2, <1>3, <1>4, <2>1, <2>2, <2>3, OverflowShows
  <1> HIDE DEF w
  <1>7. Shows(w, tmp_out_processed + 1, plain, Held)
    <2>1. CASE copy_overflow.len > 0
      <3>1. Shows(w, 1, plain, Held)
        BY <1>2, <1>6, <2>1
      <3>2. 1 \in Int /\ tmp_out_processed + 1 \in Int /\ 1 <= tmp_out_processed + 1
        BY <1>2
      <3>3. QED
        BY <1>2, <1>4, <1>5, <3>1, <3>2, ShowsLater
    <2>2. CASE ~ (copy_overflow.len > 0)
      <3>1. tmp_out_processed + 1 \in Int /\ tmp_out_processed + 1 >= 1 /\ tmp_out_processed + 1 <= Len(tmp_out) + 1
        BY <1>2
      <3>2. QED
        BY <1>1, <1>2, <1>3, <1>4, <2>2, <3>1, OverflowShows DEF w
    <2>3. QED
      BY <2>1, <2>2
  <1>8. QED
    BY <1>5, <1>6, <1>7 DEF w

(* The copy from tmp_out_buffer to next_out: what the user gets is next in *)
(* the stream, and the window stays in the buffer, or in the user's.       *)
LEMMA DeliverOut ==
  ASSUME IInv, OutInv, IInv', Deliver
  PROVE  OutInv'
  <1>1. /\ Types /\ Types' /\ Control /\ Space /\ pc = "deliver" /\ pc # "stopped"
    BY DEF IInv, Deliver
  <1>2. PICK b : b = WithOverflow(tmp_out)
    OBVIOUS
  <1>3. PICK n : n = Least(Len(b) - tmp_out_processed, room)
    OBVIOUS
  <1>4. PICK now : now = SubSeq(b, tmp_out_processed + 1, tmp_out_processed + n)
    OBVIOUS
  <1>5. /\ tmp_out' = b /\ out' = now /\ tmp_out_processed' = tmp_out_processed + n
        /\ IF Invalid(ret)
           THEN /\ crc' = crc + IF crc_flag = "raw" THEN 0 ELSE n
                /\ got' = got \o now
                /\ Return(ret) /\ phase' = phase
           ELSE /\ phase' = 2
                /\ pc' = IF tmp_out_processed + n = Len(b) /\ block_state # "INPUT_DONE" THEN "decode" ELSE "save"
                /\ crc' = crc /\ got' = got /\ ret' = ret
        /\ write_overflow' = <<>> /\ copy_overflow' = [len |-> 0, dist |-> 0]
    BY <1>2, <1>3, <1>4 DEF Deliver, NoOverflow, NoLits, NoCopy
  <1>6. /\ avail_in' = avail_in /\ read_in_length' = read_in_length /\ tmp_in_size' = tmp_in_size
        /\ block_state' = block_state /\ type0_block_len' = type0_block_len
        /\ upcoming' = upcoming /\ plain' = plain
        /\ room' = room /\ dict' = dict /\ crc_flag' = crc_flag
    BY DEF Deliver, input, block
  <1>7. /\ phase \in {1, 2} /\ phase # 0 /\ ~AtUser /\ Sent = dict + Len(got) /\ Sent \in Nat /\ Held \in Int
        /\ Held + tmp_out_processed = Sent /\ Held + Len(tmp_out) + Overflowed = Len(plain)
        /\ tmp_out_processed \in Nat /\ tmp_out_processed <= Len(tmp_out) /\ Len(tmp_out) \in Nat
    BY <1>1, DeliverCounts
  <1>8. /\ Shows(b, tmp_out_processed + 1, plain, Held)
        /\ InTmp => Shows(b, 1, plain, Held)
        /\ b \in Seq(Int) /\ Len(b) = Len(tmp_out) + Overflowed
    BY <1>1, <1>2, DeliverShows
  <1>9. /\ Overflowed \in Nat /\ room \in Nat /\ Len(plain) \in Nat /\ HistSize \in Nat /\ 2 * HistSize \in Nat
        /\ plain \in Seq(Int) /\ got \in Seq(Int) /\ dict \in Nat /\ Len(got) \in Nat
    BY <1>1, Lengths, Sizes DEF Types
  <1>10. n \in Nat /\ tmp_out_processed + n <= Len(b) /\ Len(b) \in Nat
    <2>1. Len(b) \in Nat /\ tmp_out_processed <= Len(b)
      BY <1>7, <1>8, <1>9
    <2>2. QED
      BY <1>3, <1>7, <1>9, <2>1 DEF Least
  <1>11. now \in Seq(Int) /\ Len(now) = n /\ Shows(now, 1, plain, Sent)
    <2>1. tmp_out_processed + 1 \in Int /\ 1 \in Int /\ tmp_out_processed + 1 <= tmp_out_processed + 1 /\ 1 >= 1
      BY <1>7
    <2>2. LET s == SubSeq(b, tmp_out_processed + 1, tmp_out_processed + n)
          IN s \in Seq(Int) /\ Len(s) = n /\ Shows(s, 1, plain, Held + tmp_out_processed)
      BY <1>7, <1>8, <1>9, <1>10, <2>1, ShowsPart, Zenon
    <2>3. QED
      BY <1>4, <1>7, <2>2, Zenon
  <1>12. Shows(got, 1, plain, dict) /\ crc = IF crc_flag = "raw" THEN 0 ELSE Len(got)
    BY <1>7 DEF OutInv, Delivered
  <1>13. Len(plain) = Sent + Pending + Overflowed /\ Pending = Len(tmp_out) - tmp_out_processed
    BY <1>1, <1>7 DEF OutInv, Ahead, Pending
  <1>14. Whole'
    BY <1>6 DEF OutInv, Whole
  <1>15. ret' = ret /\ phase' # 0
    BY <1>5, <1>7 DEF Return
  <1>16. Real'
    <2>1. ~TooSmall
      BY <1>7 DEF TooSmall
    <2>2. QED
      BY <1>6, <1>7, <1>15, <2>1 DEF OutInv, Real
  <1>17. Alone'
    BY <1>15 DEF Alone
  <1>18. CASE Invalid(ret)
    <2>1. /\ crc' = crc + IF crc_flag = "raw" THEN 0 ELSE n
          /\ got' = got \o now /\ pc' = "stopped"
      BY <1>5, <1>18 DEF Return
    <2>2. AtUser'
      BY <2>1 DEF AtUser
    <2>3. Shows(got', 1, plain', dict')
      <3>1. 1 \in Int /\ 1 >= 1 /\ dict \in Int
        BY <1>9
      <3>2. Shows(now, 1, plain, dict + Len(got))
        BY <1>7, <1>11, Zenon
      <3>3. Shows(got \o now, 1, plain, dict)
        BY <1>9, <1>11, <1>12, <3>1, <3>2, ShowsJoined, Zenon
      <3>4. QED
        BY <1>6, <2>1, <3>3, Zenon
    <2>4. crc' = IF crc_flag' = "raw" THEN 0 ELSE Len(got')
      <3>1. Len(got \o now) = Len(got) + Len(now)
        BY <1>9, <1>11, Appended, Zenon
      <3>2. Len(got') = Len(got) + n
        BY <1>11, <2>1, <3>1, Zenon
      <3>3. PICK g \in Nat : g = Len(got)
        BY <1>9
      <3>4. CASE crc_flag = "raw"
        <4>1. crc' = 0 + 0
          BY <1>12, <2>1, <3>4
        <4>2. QED
          BY <1>6, <3>4, <4>1
      <3>5. CASE crc_flag # "raw"
        <4>1. crc' = g + n
          BY <1>12, <2>1, <3>3, <3>5
        <4>2. QED
          BY <1>6, <3>2, <3>3, <3>5, <4>1
      <3>6. QED
        BY <3>4, <3>5
    <2>5. Delivered'
      BY <2>2, <2>3, <2>4 DEF Delivered
    <2>6. Ahead' /\ Window'
      BY <2>1 DEF Ahead, Window
    <2>7. QED
      BY <1>14, <1>16, <1>17, <2>5, <2>6 DEF OutInv
  <1>19. CASE ~Invalid(ret)
    <2>1. /\ phase' = 2 /\ crc' = crc /\ got' = got
          /\ pc' = IF tmp_out_processed + n = Len(b) /\ block_state # "INPUT_DONE" THEN "decode" ELSE "save"
      BY <1>5, <1>19
    <2>2. ~AtUser' /\ pc' \in {"decode", "save"}
      BY <2>1 DEF AtUser
    <2>3. Len(out') = n /\ Len(tmp_out') = Len(b)
      BY <1>5, <1>11
    <2>4. Sent' = Sent + n
      <3>1. Sent' = dict' + Len(got') + Len(out')
        BY <2>2 DEF Sent
      <3>2. QED
        BY <1>6, <1>7, <2>1, <2>3, <3>1
    <2>5. Held' = Held
      <3>1. Held' = Sent' - tmp_out_processed'
        BY DEF Held
      <3>2. Held' = (Sent + n) - (tmp_out_processed + n)
        BY <1>5, <2>4, <3>1
      <3>3. QED
        BY <1>7, <1>10, <3>2
    <2>6. Pending' = Len(b) - (tmp_out_processed + n)
      BY <1>5, <2>3 DEF Pending
    <2>7. Sent' + Pending' = Len(plain)
      <3>1. PICK s \in Nat, p \in Nat, t \in Nat, v \in Nat :
               s = Sent /\ p = tmp_out_processed /\ t = Len(tmp_out) /\ v = Overflowed
        BY <1>7, <1>9, Zenon
      <3>2. Sent' + Pending' = (s + n) + ((t + v) - (p + n))
        BY <1>8, <2>4, <2>6, <3>1
      <3>3. Len(plain) = s + (t - p) + v
        BY <1>13, <3>1
      <3>4. QED
        BY <1>10, <3>2, <3>3
    <2>8. Overflowed' = 0 /\ Len(write_overflow') = 0 /\ copy_overflow'.len = 0
      BY <1>5 DEF Overflowed
    <2>9. Delivered'
      <3>1. Shows(now, 1, plain, dict + Len(got))
        BY <1>7, <1>11, Zenon
      <3>2. QED
        BY <1>5, <1>6, <1>12, <2>1, <3>1 DEF Delivered
    <2>10. Ahead'
      <3>1. Len(plain') = Sent' + Pending' + Overflowed'
        BY <1>6, <1>9, <2>7, <2>8
      <3>2. Shows(tmp_out', tmp_out_processed' + 1, plain', Held')
        <4>1. tmp_out_processed + 1 \in Int /\ tmp_out_processed + n + 1 \in Int
              /\ tmp_out_processed + 1 <= tmp_out_processed + n + 1
          BY <1>7, <1>10
        <4>2. Shows(b, tmp_out_processed + n + 1, plain, Held)
          BY <1>7, <1>8, <1>9, <4>1, ShowsLater, Zenon
        <4>3. QED
          BY <1>5, <1>6, <2>5, <4>2, Zenon
      <3>3. Shows(write_overflow', 1, plain', Sent' + Pending')
        BY <1>6, <1>9, <2>7, <2>8 DEF Shows
      <3>4. block_state' # "CHECKSUM_CHECK"
        BY <1>1, <1>6, <1>7 DEF Control, Live, Working
      <3>5. ~ (copy_overflow'.len > 0)
        BY <2>8
      <3>6. QED
        BY <3>1, <3>2, <3>3, <3>4, <3>5 DEF Ahead
    <2>11. Window'
      <3>1. Live' = Live
        BY <1>6 DEF Live
      <3>2. SUFFICES ASSUME Live PROVE Window'
        BY <3>1 DEF Window
      <3>3. /\ InTmp /\ tmp_out_processed <= HistSize
            /\ Len(tmp_out) >= 2 * HistSize \/ Starved
        BY <1>1, <1>7, <1>19, <3>2 DEF OutInv, Window, InOut
      <3>4. InTmp'
        <4>1. Shows(b, 1, plain, Held)
          BY <1>8, <3>3
        <4>2. Held = 0 \/ Len(b) >= HistSize
          BY <1>7, <1>8, <1>9, <3>3 DEF InTmp
        <4>3. QED
          BY <1>5, <1>6, <2>5, <4>1, <4>2 DEF InTmp
      <3>5. pc' = "decode" => Len(out') >= HistSize \/ Starved'
        <4>1. Starved' = Starved
          BY <1>6 DEF Starved, Unread, Wanted
        <4>2. ASSUME pc' = "decode", Len(tmp_out) >= 2 * HistSize PROVE Len(out') >= HistSize
          <5>1. tmp_out_processed + n = Len(tmp_out) + Overflowed
            BY <1>8, <2>1, <4>2
          <5>2. n >= HistSize
            BY <1>7, <1>9, <1>10, <3>3, <4>2, <5>1
          <5>3. QED
            BY <2>3, <5>2
        <4>3. QED
          BY <3>3, <4>1, <4>2
      <3>6. ~ (Overflowed' > 0) /\ phase' # 1 /\ pc' \notin {"user", "deliver"}
        BY <2>1, <2>2, <2>8
      <3>7. QED
        BY <3>4, <3>5, <3>6 DEF Window
    <2>12. QED
      BY <1>14, <1>16, <1>17, <2>9, <2>10, <2>11 DEF OutInv
  <1>20. QED
    BY <1>18, <1>19

-----------------------------------------------------------------------------
(* The history that the user's buffer leaves.                              *)

(* The counts when the user's buffer has been written to.                  *)
LEMMA SaveCounts ==
  ASSUME IInv, OutInv, pc = "save"
  PROVE  /\ phase = 2 /\ ~AtUser /\ Sent = dict + Len(got) + Len(out) /\ Sent \in Nat /\ Held \in Int
         /\ Held = Sent - tmp_out_processed /\ Len(plain) = Sent + Pending + Overflowed
         /\ Pending = Len(tmp_out) - tmp_out_processed /\ total_out = Len(got) + (Len(out) + Pending)
         /\ tmp_out_processed \in Nat /\ tmp_out_processed <= Len(tmp_out) /\ Len(tmp_out) \in Nat
         /\ Live => InOut \/ InTmp
         /\ copy_overflow.len > 0 => /\ copy_overflow.dist \in 1..HistSize /\ block_state = "CODED"
                                     /\ Pending = 0 /\ Len(out) >= HistSize
  <1>1. Types /\ Control /\ Space
    BY DEF IInv
  <1>2. phase = 2 /\ ~AtUser /\ phase # 0
    BY <1>1 DEF Control, AtUser
  <1>3. Sent = dict + Len(got) + Len(out) /\ Sent \in Nat /\ Held \in Int /\ Held = Sent - tmp_out_processed
    BY <1>1, <1>2, SentType
  <1>4. Pending = Len(tmp_out) - tmp_out_processed /\ Len(tmp_out) \in Nat /\ tmp_out_processed \in Nat
    BY <1>1, Lengths DEF Types
  <1>5. Len(plain) = Sent + Pending + Overflowed
    BY <1>2 DEF OutInv, Ahead
  <1>6. tmp_out_processed <= Len(tmp_out) /\ total_out = Len(got) + (Len(out) + Pending)
    BY <1>1, <1>2 DEF Space
  <1>7. Live => InOut \/ InTmp
    BY <1>2 DEF OutInv, Window
  <1>8. ASSUME copy_overflow.len > 0
        PROVE  /\ copy_overflow.dist \in 1..HistSize /\ block_state = "CODED"
               /\ Pending = 0 /\ Len(out) >= HistSize
    <2>1. copy_overflow.dist \in 1..HistSize /\ block_state = "CODED"
      BY <1>2, <1>8 DEF OutInv, Ahead
    <2>2. Overflowed > 0
      <3>1. Overflowed = Len(write_overflow) + copy_overflow.len /\ Len(write_overflow) \in Nat
            /\ copy_overflow.len \in Nat
        BY <1>1, Lengths
      <3>2. QED
        BY <1>8, <3>1
    <2>3. Pending = 0
      BY <1>1, <1>2, <2>2 DEF Space
    <2>4. Len(out) >= HistSize
      BY <1>2, <2>1, <2>2 DEF OutInv, Window, Live, Working
    <2>5. QED
      BY <2>1, <2>3, <2>4
  <1>9. QED
    BY <1>2, <1>3, <1>4, <1>5, <1>6, <1>7, <1>8

(* The end of the user's buffer that is copied to tmp_out_buffer, or what  *)
(* it already held, is the history the next call needs.                    *)
LEMMA HistoryShows ==
  ASSUME IInv, OutInv, pc = "save"
  PROVE  LET s == SaveHistory
         IN /\ Shows(s.tmp, s.processed + 1, plain, Sent - s.processed)
            /\ Live => /\ Shows(s.tmp, 1, plain, Sent - s.processed)
                       /\ Sent - s.processed = 0 \/ Len(s.tmp) >= HistSize
                       /\ s.processed <= HistSize
            /\ copy_overflow.len > 0 => /\ Live /\ Len(s.tmp) >= HistSize
  <1>1. Types /\ Control /\ Space
    BY DEF IInv
  <1>2. /\ phase = 2 /\ ~AtUser /\ Sent = dict + Len(got) + Len(out) /\ Sent \in Nat /\ Held \in Int
        /\ Held = Sent - tmp_out_processed
        /\ Pending = Len(tmp_out) - tmp_out_processed
        /\ tmp_out_processed \in Nat /\ tmp_out_processed <= Len(tmp_out) /\ Len(tmp_out) \in Nat
        /\ Live => InOut \/ InTmp
        /\ copy_overflow.len > 0 => /\ copy_overflow.dist \in 1..HistSize /\ block_state = "CODED"
                                    /\ Pending = 0 /\ Len(out) >= HistSize
    BY SaveCounts
  <1>3. PICK v \in Nat, p \in Nat, h \in Nat, o \in Nat, S \in Nat, k \in Nat :
           /\ v = Len(tmp_out) /\ p = tmp_out_processed /\ h = HistSize /\ o = Len(out) /\ S = Sent
           /\ k = dict + Len(got)
    BY <1>1, <1>2, Lengths, Sizes, SentType
  <1>4. p <= v /\ S = k + o /\ Held = S - p /\ Pending = v - p
    BY <1>2, <1>3
  <1>5. tmp_out \in Seq(Int) /\ out \in Seq(Int) /\ plain \in Seq(Int)
    BY <1>1 DEF Types
  <1>6. Shows(tmp_out, p + 1, plain, S - p) /\ Shows(out, 1, plain, k)
    BY <1>2, <1>3, <1>4 DEF OutInv, Ahead, Delivered
  <1>7. copy_overflow.len > 0 => Live /\ v = p /\ o >= h /\ block_state # "INPUT_DONE"
    BY <1>2, <1>3, <1>4 DEF Live, Working
  <1>8. Live => block_state # "INPUT_DONE"
    BY DEF Live, Working
  <1> DEFINE done == block_state = "INPUT_DONE" /\ Overflowed + Len(tmp_out) <= TmpSize
             full == Len(tmp_out) = tmp_out_processed /\ Len(out) >= HistSize
             Ok(s) == /\ Shows(s.tmp, s.processed + 1, plain, S - s.processed)
                      /\ Live => /\ Shows(s.tmp, 1, plain, S - s.processed)
                                 /\ S - s.processed = 0 \/ Len(s.tmp) >= h
                                 /\ s.processed <= h
                      /\ copy_overflow.len > 0 => /\ Live /\ Len(s.tmp) >= h
  <1>9. Live /\ ~full => Shows(tmp_out, 1, plain, S - p) /\ (S - p = 0 \/ v >= h)
    <2>1. SUFFICES ASSUME Live, ~full PROVE InTmp
      BY <1>3, <1>4 DEF InTmp
    <2>2. ~InOut
      BY <1>3, <1>4, <2>1 DEF InOut
    <2>3. QED
      BY <1>2, <2>1, <2>2
  <1>10. copy_overflow.len > 0 => full /\ ~done
    BY <1>3, <1>7
  <1>11. CASE done
    <2>1. SaveHistory = [tmp |-> tmp_out, processed |-> p]
      BY <1>3, <1>11 DEF SaveHistory
    <2>2. Ok(SaveHistory)
      BY <1>6, <1>8, <1>10, <1>11, <2>1
    <2>3. QED
      BY <1>3, <2>2
  <1>12. CASE ~done /\ full
    <2>1. PICK t : t = SubSeq(out, (o - h) + 1, (o - h) + h)
      OBVIOUS
    <2>2. o - h \in Nat /\ o >= h
      BY <1>3, <1>12
    <2>3. t \in Seq(Int) /\ Len(t) = h /\ Shows(t, 1, plain, k + (o - h))
      <3>1. (o - h) + h <= Len(out) /\ 1 <= (o - h) + 1 /\ 1 >= 1 /\ 1 \in Int /\ k \in Int
        BY <1>3, <2>2
      <3>2. LET q == SubSeq(out, (o - h) + 1, (o - h) + h)
            IN q \in Seq(Int) /\ Len(q) = h /\ Shows(q, 1, plain, k + (o - h))
        BY <1>5, <1>6, <2>2, <3>1, ShowsPart, Zenon
      <3>3. QED
        BY <2>1, <3>2, Zenon
    <2>4. SaveHistory = [tmp |-> t, processed |-> h]
      <3>1. (o - h) + h = o
        BY <2>2
      <3>2. SaveHistory = [tmp |-> SubSeq(out, o - h + 1, o), processed |-> h]
        BY <1>3, <1>12 DEF SaveHistory
      <3>3. QED
        BY <2>1, <3>1, <3>2
    <2>5. k + (o - h) = S - h
      BY <1>4
    <2>6. Shows(t, h + 1, plain, S - h)
      <3>1. 1 <= h + 1 /\ h + 1 \in Int /\ 1 \in Int /\ S - h \in Int
        OBVIOUS
      <3>2. Shows(t, 1, plain, S - h)
        BY <2>3, <2>5, Zenon
      <3>3. QED
        BY <1>5, <2>3, <3>1, <3>2, ShowsLater, Zenon
    <2>7. Ok(SaveHistory)
      BY <1>7, <2>3, <2>4, <2>5, <2>6
    <2>8. QED
      BY <1>3, <2>7
  <1>13. CASE ~done /\ ~full /\ p >= h
    <2>1. PICK m \in Nat : m = Least(v - h, p)
      <3>1. p <= v /\ p >= h
        BY <1>4, <1>13
      <3>2. Least(v - h, p) \in Nat
        BY <3>1 DEF Least
      <3>3. QED
        BY <3>2
    <2>2. m <= v - h /\ m <= p /\ (m = v - h \/ m = p)
      BY <2>1 DEF Least
    <2>3. PICK t : t = SubSeq(tmp_out, m + 1, m + (v - m))
      OBVIOUS
    <2>4. v - m \in Nat /\ m + (v - m) = v /\ m + (v - m) <= Len(tmp_out)
      BY <1>3, <2>2
    <2>5. ASSUME NEW f \in Int, NEW g \in Int, f <= m + g, g >= 1, Shows(tmp_out, f, plain, S - p)
          PROVE  t \in Seq(Int) /\ Len(t) = v - m /\ Shows(t, g, plain, (S - p) + m)
      <3>1. S - p \in Int
        OBVIOUS
      <3>2. LET q == SubSeq(tmp_out, m + 1, m + (v - m))
            IN q \in Seq(Int) /\ Len(q) = v - m /\ Shows(q, g, plain, (S - p) + m)
        BY <1>5, <2>4, <2>5, <3>1, ShowsPart, Zenon
      <3>3. QED
        BY <2>3, <3>2, Zenon
    <2>6. SaveHistory = [tmp |-> t, processed |-> p - m]
      <3>1. SaveHistory = [tmp |-> SubSeq(tmp_out, m + 1, v), processed |-> p - m]
        BY <1>3, <1>13, <2>1 DEF SaveHistory
      <3>2. QED
        BY <2>3, <2>4, <3>1
    <2>7. (S - p) + m = S - (p - m)
      OBVIOUS
    <2>8. /\ t \in Seq(Int) /\ Len(t) = v - m
          /\ Shows(t, (p - m) + 1, plain, (S - p) + m)
      <3>1. p + 1 \in Int /\ (p - m) + 1 \in Int /\ p + 1 <= m + ((p - m) + 1) /\ (p - m) + 1 >= 1
        BY <2>2
      <3>2. QED
        BY <1>6, <2>5, <3>1
    <2>9. Live => Shows(t, 1, plain, (S - p) + m)
      <3>1. 1 \in Int /\ 1 <= m + 1 /\ 1 >= 1
        OBVIOUS
      <3>2. QED
        BY <1>9, <1>13, <2>5, <3>1
    <2>10. Len(t) >= h /\ p - m <= h
      BY <1>4, <2>2, <2>8
    <2>11. Ok(SaveHistory)
      BY <1>7, <2>6, <2>7, <2>8, <2>9, <2>10
    <2>12. QED
      BY <1>3, <2>11
  <1>14. CASE ~done /\ ~full /\ ~ (p >= h)
    <2>1. SaveHistory = [tmp |-> tmp_out, processed |-> p]
      BY <1>3, <1>14 DEF SaveHistory
    <2>2. p <= h
      BY <1>14
    <2>3. Ok(SaveHistory)
      BY <1>3, <1>6, <1>9, <1>10, <1>14, <2>1, <2>2
    <2>4. QED
      BY <1>3, <2>3
  <1>15. QED
    BY <1>11, <1>12, <1>13, <1>14

(* OverflowShows, of a buffer that shows all it holds.                     *)
LEMMA OverflowShowsAll ==
  ASSUME Types, NEW b \in Seq(Int), NEW k \in Int,
         Shows(b, 1, plain, k), k + Len(b) + Overflowed = Len(plain),
         Shows(write_overflow, 1, plain, k + Len(b)),
         copy_overflow.len > 0 =>
           /\ copy_overflow.dist \in 1..HistSize /\ copy_overflow.dist <= Len(b)
           /\ Repeats(plain, Len(plain) - copy_overflow.len, copy_overflow.dist, copy_overflow.len)
  PROVE  Shows(WithOverflow(b), 1, plain, k)
  <1>1. 1 \in Int /\ 1 >= 1 /\ 1 <= Len(b) + 1 /\ Len(b) - 1 + 1 = Len(b)
    OBVIOUS
  <1>2. copy_overflow.len > 0 =>
           /\ copy_overflow.dist \in 1..HistSize /\ copy_overflow.dist <= Len(b) - 1 + 1
           /\ Repeats(plain, Len(plain) - copy_overflow.len, copy_overflow.dist, copy_overflow.len)
    BY <1>1
  <1>3. QED
    BY <1>1, <1>2, OverflowShows, Zenon

(* And with what overflowed the user's buffer behind it.                   *)
LEMMA SavedShows ==
  ASSUME IInv, OutInv, pc = "save"
  PROVE  LET s == SaveHistory
             b == WithOverflow(s.tmp)
         IN /\ b \in Seq(Int) /\ Len(b) = Len(s.tmp) + Overflowed
            /\ Shows(b, s.processed + 1, plain, Sent - s.processed)
            /\ Live => /\ Shows(b, 1, plain, Sent - s.processed)
                       /\ Sent - s.processed = 0 \/ Len(b) >= HistSize
  <1>1. Types /\ Control /\ Space
    BY DEF IInv
  <1>2. PICK s : s = SaveHistory
    OBVIOUS
  <1>3. PICK b : b = WithOverflow(s.tmp)
    OBVIOUS
  <1>4. /\ s.tmp \in Seq(Int) /\ s.processed \in Nat /\ s.processed <= Len(s.tmp)
        /\ Len(s.tmp) - s.processed = Pending
    BY <1>1, <1>2, HistoryRoom
  <1>5. /\ Shows(s.tmp, s.processed + 1, plain, Sent - s.processed)
        /\ Live => /\ Shows(s.tmp, 1, plain, Sent - s.processed)
                   /\ Sent - s.processed = 0 \/ Len(s.tmp) >= HistSize
                   /\ s.processed <= HistSize
        /\ copy_overflow.len > 0 => Live /\ Len(s.tmp) >= HistSize
    BY <1>2, HistoryShows
  <1>6. /\ phase = 2 /\ Sent \in Nat /\ Len(plain) = Sent + Pending + Overflowed
        /\ copy_overflow.len > 0 => copy_overflow.dist \in 1..HistSize
    BY SaveCounts
  <1>7. b \in Seq(Int) /\ Len(b) = Len(s.tmp) + Overflowed
    BY <1>1, <1>3, <1>4, OverflowType
  <1>8. /\ Shows(write_overflow, 1, plain, Sent + Pending)
        /\ copy_overflow.len > 0 =>
             Repeats(plain, Len(plain) - copy_overflow.len, copy_overflow.dist, copy_overflow.len)
    BY <1>6 DEF OutInv, Ahead
  <1>9. PICK t \in Seq(Int), r \in Nat, n \in Nat, k \in Int, v \in Nat, S \in Nat :
           /\ t = s.tmp /\ r = s.processed /\ n = Len(t) /\ k = Sent - r /\ v = Overflowed /\ S = Sent
    <2>1. Overflowed \in Nat
      BY <1>1, Lengths
    <2>2. QED
      BY <1>4, <1>6, <2>1
  <1>10. k + n = Sent + Pending /\ k + n + v = Len(plain) /\ r <= n /\ k \in Int
    <2>1. k = S - r /\ Pending = n - r
      BY <1>4, <1>9
    <2>2. k + n = S + (n - r) /\ k + n + v = S + (n - r) + v
      BY <2>1
    <2>3. QED
      BY <1>4, <1>6, <1>9, <2>1, <2>2
  <1>11. Shows(write_overflow, 1, plain, k + Len(t)) /\ k + Len(t) + Overflowed = Len(plain)
    BY <1>8, <1>9, <1>10
  <1>12. b = WithOverflow(t) /\ Len(b) = n + v /\ HistSize \in Nat
    BY <1>3, <1>7, <1>9, Sizes
  <1>13. Live => Shows(b, 1, plain, k)
    <2>1. SUFFICES ASSUME Live PROVE Shows(WithOverflow(t), 1, plain, k)
      BY <1>12
    <2>2. Shows(t, 1, plain, k)
      BY <1>5, <1>9, <2>1
    <2>3. t \in Seq(Int) /\ k \in Int
      BY <1>9
    <2>4. copy_overflow.len > 0 => copy_overflow.dist \in 1..HistSize /\ copy_overflow.dist <= Len(t)
      BY <1>5, <1>6, <1>9, <1>12
    <2>5. copy_overflow.len > 0 =>
            /\ copy_overflow.dist \in 1..HistSize /\ copy_overflow.dist <= Len(t)
            /\ Repeats(plain, Len(plain) - copy_overflow.len, copy_overflow.dist, copy_overflow.len)
      BY <1>8, <2>4
    <2>6. QED
      BY <1>1, <1>11, <2>2, <2>3, <2>5, OverflowShowsAll, Zenon
  <1>14. Shows(b, r + 1, plain, k)
    <2>1. r + 1 \in Int /\ 1 \in Int /\ 1 <= r + 1 /\ r + 1 >= 1 /\ r + 1 <= Len(t) + 1
      <3>1. r + 1 \in Int /\ 1 \in Int /\ 1 <= r + 1 /\ r + 1 >= 1
        OBVIOUS
      <3>2. n = Len(t) /\ r <= n
        BY <1>9, <1>10
      <3>3. r + 1 <= n + 1
        BY <3>2
      <3>4. QED
        BY <3>1, <3>2, <3>3
    <2>2. CASE copy_overflow.len > 0
      <3>1. Shows(b, 1, plain, k)
        BY <1>5, <1>13, <2>2
      <3>2. plain \in Seq(Int)
        BY <1>1 DEF Types
      <3>3. QED
        BY <1>7, <2>1, <3>1, <3>2, ShowsLater, Zenon
    <2>3. CASE ~ (copy_overflow.len > 0)
      <3>1. Shows(t, r + 1, plain, k)
        BY <1>5, <1>9
      <3>2. QED
        BY <1>1, <1>11, <1>12, <2>1, <2>3, <3>1, OverflowShows
    <2>4. QED
      BY <2>2, <2>3
  <1>15. Live => Sent - s.processed = 0 \/ Len(b) >= HistSize
    BY <1>5, <1>9, <1>12
  <1>16. QED
    BY <1>2, <1>3, <1>7, <1>9, <1>13, <1>14, <1>15

(* At the end of the stream all of it is in the checksum.                  *)
LEMMA SaveVerdict ==
  ASSUME IInv, OutInv, pc = "save", Pending + Overflowed = 0, NEW r
  PROVE  Verdict(r, SummedOutput, total_out + Overflowed) = r
  <1>1. Types
    BY DEF IInv
  <1>2. /\ phase = 2 /\ ~AtUser /\ Sent = dict + Len(got) + Len(out) /\ Len(plain) = Sent + Pending + Overflowed
        /\ total_out = Len(got) + (Len(out) + Pending)
    BY SaveCounts
  <1>3. PICK d \in Nat, g \in Nat, o \in Nat, e \in Int, v \in Nat, p \in Nat :
           d = dict /\ g = Len(got) /\ o = Len(out) /\ e = Pending /\ v = Overflowed /\ p = Len(plain)
    BY <1>1, Lengths DEF Types
  <1>4. p = d + g + o + e + v /\ e + v = 0 /\ total_out + Overflowed = g + (o + e) + v
    BY <1>2, <1>3
  <1>5. Len(plain) - dict = g + o /\ total_out + Overflowed = g + o
    BY <1>3, <1>4
  <1>6. crc_flag # "raw" => SummedOutput = g + o
    <2>1. crc_flag # "raw" => crc = Len(got)
      BY <1>2 DEF OutInv, Delivered
    <2>2. QED
      BY <1>3, <2>1 DEF SummedOutput
  <1>7. QED
    BY <1>1, <1>5, <1>6, VerdictRight

(* The end of a call that wrote to the user's buffer.                      *)
LEMMA SaveOut ==
  ASSUME IInv, OutInv, IInv', Save
  PROVE  OutInv'
  <1>1. /\ Types /\ Types' /\ Control /\ Space /\ pc = "save" /\ pc # "stopped"
    BY DEF IInv, Save
  <1>2. PICK s : s = SaveHistory
    OBVIOUS
  <1>3. PICK b : b = WithOverflow(s.tmp)
    OBVIOUS
  <1>4. PICK pend : pend = Len(b) - s.processed
    OBVIOUS
  <1>5. PICK total : total = total_out + Overflowed
    OBVIOUS
  <1>6. /\ tmp_out' = b /\ tmp_out_processed' = s.processed
        /\ crc' = SummedOutput /\ got' = got \o out
        /\ \/ /\ ~Invalid(ret) /\ block_state = "INPUT_DONE" /\ pend = 0
              /\ \E r \in {ISAL_DECOMP_OK, ISAL_END_INPUT} :
                   block_state' = Finished(r) /\ Return(Verdict(r, SummedOutput, total))
           \/ Return(ret) /\ block_state' = block_state /\ UNCHANGED input
    <2>1. PICK c : c = CheckTrailer(read_in_length, avail_in)
      OBVIOUS
    <2>2. c.ret \in {ISAL_DECOMP_OK, ISAL_END_INPUT}
      BY <2>1, TrailerRet
    <2>3. /\ tmp_out' = b /\ tmp_out_processed' = s.processed
          /\ crc' = SummedOutput /\ got' = got \o out
          /\ IF ~Invalid(ret) /\ block_state = "INPUT_DONE" /\ pend = 0
             THEN block_state' = Finished(c.ret) /\ Return(Verdict(c.ret, SummedOutput, total))
             ELSE Return(ret) /\ UNCHANGED <<input, block_state>>
      BY <1>2, <1>3, <1>4, <1>5, <2>1 DEF Save
    <2>4. QED
      BY <2>2, <2>3
  <1>7. /\ out' = <<>> /\ write_overflow' = <<>> /\ copy_overflow' = [len |-> 0, dist |-> 0]
        /\ type0_block_len' = type0_block_len
        /\ upcoming' = upcoming /\ plain' = plain /\ phase' = phase
        /\ room' = room /\ dict' = dict /\ crc_flag' = crc_flag
    BY DEF Save, NoOverflow, NoLits, NoCopy, call
  <1>8. /\ phase = 2 /\ phase # 0 /\ ~AtUser /\ Sent = dict + Len(got) + Len(out) /\ Sent \in Nat
        /\ Len(plain) = Sent + Pending + Overflowed
    BY <1>1, SaveCounts
  <1>9. /\ s.tmp \in Seq(Int) /\ s.processed \in Nat /\ s.processed <= Len(s.tmp)
        /\ Len(s.tmp) - s.processed = Pending
    BY <1>1, <1>2, HistoryRoom
  <1>10. /\ b \in Seq(Int) /\ Len(b) = Len(s.tmp) + Overflowed
         /\ Shows(b, s.processed + 1, plain, Sent - s.processed)
         /\ Live => /\ Shows(b, 1, plain, Sent - s.processed)
                    /\ Sent - s.processed = 0 \/ Len(b) >= HistSize
    BY <1>1, <1>2, <1>3, SavedShows
  <1>11. Live => s.processed <= HistSize
    BY <1>1, <1>2, HistoryShows
  <1>12. PICK n \in Nat, r \in Nat, v \in Nat, S \in Nat : n = Len(s.tmp) /\ r = s.processed /\ v = Overflowed /\ S = Sent
    <2>1. Len(s.tmp) \in Nat /\ Overflowed \in Nat
      BY <1>1, <1>9, Lengths
    <2>2. QED
      BY <1>8, <1>9, <2>1
  <1>13. pend = Pending + Overflowed /\ Pending = n - r /\ pend = (n + v) - r
    BY <1>4, <1>9, <1>10, <1>12
  <1>14. pc' \in {"user", "stopped"} /\ AtUser'
    BY <1>6 DEF Return, AtUser
  <1>15. /\ got \in Seq(Int) /\ out \in Seq(Int) /\ plain \in Seq(Int) /\ dict \in Nat
         /\ Len(got) \in Nat /\ Len(out) \in Nat /\ Len(plain) \in Nat
    <2>1. got \in Seq(Int) /\ out \in Seq(Int) /\ plain \in Seq(Int) /\ dict \in Nat
      BY <1>1 DEF Types
    <2>2. QED
      BY <2>1
  <1>16. got' \in Seq(Int) /\ Len(got') = Len(got) + Len(out)
    BY <1>6, <1>15, Appended, Zenon
  <1>17. Sent' = Sent
    <2>1. Sent' = dict' + Len(got') + 0
      BY <1>14 DEF Sent
    <2>2. QED
      BY <1>7, <1>8, <1>15, <1>16, <2>1
  <1>18. Held' = Sent - s.processed
    BY <1>6, <1>17 DEF Held
  <1>19. Pending' = pend
    BY <1>4, <1>6 DEF Pending
  <1>20. Overflowed' = 0 /\ Len(write_overflow') = 0 /\ copy_overflow'.len = 0
    BY <1>7 DEF Overflowed
  <1>21. \/ /\ pend = 0 /\ ~Live' /\ block_state' \in {"CHECKSUM_CHECK", "FINISH"}
            /\ ret' \in {ISAL_DECOMP_OK, ISAL_END_INPUT}
         \/ ret' = ret /\ block_state' = block_state /\ UNCHANGED input
    <2>1. CASE /\ pend = 0
               /\ \E x \in {ISAL_DECOMP_OK, ISAL_END_INPUT} :
                    block_state' = Finished(x) /\ Return(Verdict(x, SummedOutput, total))
      <3>1. PICK x \in {ISAL_DECOMP_OK, ISAL_END_INPUT} :
                    block_state' = Finished(x) /\ Return(Verdict(x, SummedOutput, total))
        BY <2>1
      <3>2. Pending + Overflowed = 0
        BY <1>13, <2>1
      <3>3. Verdict(x, SummedOutput, total) = x
        BY <1>1, <1>5, <3>2, SaveVerdict
      <3>4. QED
        BY <2>1, <3>1, <3>3 DEF Return, Finished, Live, Working
    <2>2. CASE Return(ret) /\ block_state' = block_state /\ UNCHANGED input
      BY <2>2 DEF Return
    <2>3. QED
      BY <1>6, <2>1, <2>2
  <1>22. Whole'
    BY <1>7 DEF OutInv, Whole
  <1>23. Real'
    <2>1. CASE ret' \in {ISAL_DECOMP_OK, ISAL_END_INPUT}
      BY <2>1, CodesAre DEF Real, Codes
    <2>2. CASE ret' = ret
      <3>1. ~TooSmall
        BY <1>8 DEF TooSmall
      <3>2. QED
        BY <1>7, <1>8, <2>2, <3>1 DEF OutInv, Real
    <2>3. QED
      BY <1>21, <2>1, <2>2
  <1>24. Alone'
    BY <1>7, <1>8 DEF Alone
  <1>25. Delivered'
    <2>1. /\ Shows(got, 1, plain, dict) /\ Shows(out, 1, plain, dict + Len(got))
          /\ crc = IF crc_flag = "raw" THEN 0 ELSE Len(got)
      BY <1>8 DEF OutInv, Delivered
    <2>2. Shows(got', 1, plain', dict')
      <3>1. 1 \in Int /\ 1 >= 1 /\ dict \in Int
        BY <1>15
      <3>2. Shows(got \o out, 1, plain, dict)
        BY <1>15, <2>1, <3>1, ShowsJoined, Zenon
      <3>3. QED
        BY <1>6, <1>7, <3>2, Zenon
    <2>3. crc' = IF crc_flag' = "raw" THEN 0 ELSE Len(got')
      <3>1. crc' = crc + IF crc_flag = "raw" THEN 0 ELSE Len(out)
        BY <1>6 DEF SummedOutput
      <3>2. CASE crc_flag = "raw"
        <4>1. crc' = 0 + 0
          BY <2>1, <3>1, <3>2
        <4>2. QED
          BY <1>7, <3>2, <4>1
      <3>3. CASE crc_flag # "raw"
        BY <1>7, <1>16, <2>1, <3>1, <3>3
      <3>4. QED
        BY <3>2, <3>3
    <2>4. QED
      BY <1>14, <2>2, <2>3 DEF Delivered
  <1>26. Ahead'
    <2>1. Sent' + Pending' = Len(plain)
      BY <1>8, <1>12, <1>13, <1>17, <1>19
    <2>2. Len(plain') = Sent' + Pending' + Overflowed'
      BY <1>7, <1>15, <1>20, <2>1
    <2>3. Shows(tmp_out', tmp_out_processed' + 1, plain', Held')
      BY <1>6, <1>7, <1>10, <1>18, Zenon
    <2>4. Shows(write_overflow', 1, plain', Sent' + Pending')
      BY <1>7, <1>15, <1>20, <2>1 DEF Shows
    <2>5. block_state' = "CHECKSUM_CHECK" => Pending' = 0
      <3>1. block_state # "CHECKSUM_CHECK"
        BY <1>1, <1>8 DEF Control, Live, Working
      <3>2. QED
        BY <1>19, <1>21, <3>1
    <2>6. ~ (copy_overflow'.len > 0)
      BY <1>20
    <2>7. QED
      BY <2>2, <2>3, <2>4, <2>5, <2>6 DEF Ahead
  <1>27. Window'
    <2>1. SUFFICES ASSUME Live' PROVE Window'
      BY DEF Window
    <2>2. Live
      BY <1>21, <2>1 DEF Live
    <2>3. InTmp'
      BY <1>6, <1>7, <1>10, <1>18, <2>2 DEF InTmp
    <2>4. tmp_out_processed' <= HistSize
      BY <1>6, <1>11, <2>2
    <2>5. QED
      BY <1>14, <2>3, <2>4 DEF Window
  <1>28. QED
    BY <1>22, <1>23, <1>24, <1>25, <1>26, <1>27 DEF OutInv

(* The end of the one call of isal_inflate_stateless.                      *)
LEMMA EndStatelessOut ==
  ASSUME IInv, OutInv, IInv', EndStateless
  PROVE  OutInv'
  <1>1. Types /\ Control /\ pc = "end" /\ phase = 0
    BY DEF IInv, EndStateless, Control
  <1>2. /\ crc' = IF ret = ISAL_DECOMP_OK THEN SummedOutput ELSE crc
        /\ IF ret = ISAL_DECOMP_OK
           THEN \E r \in {ISAL_DECOMP_OK, ISAL_END_INPUT} : Return(Verdict(r, SummedOutput, total_out))
           ELSE Return(ret)
    <2>1. PICK c : c = CheckTrailer(0, avail_in + TowardsZero(read_in_length))
      OBVIOUS
    <2>2. c.ret \in {ISAL_DECOMP_OK, ISAL_END_INPUT}
      BY <2>1, TrailerRet
    <2>3. /\ crc' = IF ret = ISAL_DECOMP_OK THEN SummedOutput ELSE crc
          /\ IF ret = ISAL_DECOMP_OK THEN Return(Verdict(c.ret, SummedOutput, total_out)) ELSE Return(ret)
      BY <2>1 DEF EndStateless
    <2>4. QED
      BY <2>2, <2>3
  <1>3. /\ got' = out /\ out' = out /\ total_out' = total_out /\ type0_block_len' = type0_block_len
        /\ upcoming' = upcoming /\ plain' = plain /\ phase' = phase /\ room' = room /\ dict' = dict
        /\ crc_flag' = crc_flag
    BY DEF EndStateless, output, call
  <1>4. /\ dict = 0 /\ Shows(out, 1, plain, 0) /\ total_out = Len(out)
        /\ ret = ISAL_DECOMP_OK => Len(out) = Len(plain)
        /\ crc = 0
    BY <1>1 DEF OutInv, Alone
  <1>5. Len(out) \in Nat /\ Len(plain) \in Nat
    BY <1>1, Lengths
  <1>6. pc' = "stopped"
    BY <1>1, <1>2 DEF Return
  <1>7. ret = ISAL_DECOMP_OK => ret' \in {ISAL_DECOMP_OK, ISAL_END_INPUT} /\ (crc_flag # "raw" => crc' = Len(out))
    <2>1. SUFFICES ASSUME ret = ISAL_DECOMP_OK
                   PROVE  ret' \in {ISAL_DECOMP_OK, ISAL_END_INPUT} /\ (crc_flag # "raw" => crc' = Len(out))
      OBVIOUS
    <2>2. PICK r \in {ISAL_DECOMP_OK, ISAL_END_INPUT} : Return(Verdict(r, SummedOutput, total_out))
      BY <1>2, <2>1
    <2>3. Len(plain) - dict = Len(out) /\ total_out = Len(out)
      BY <1>4, <1>5, <2>1
    <2>4. crc_flag # "raw" => SummedOutput = Len(out)
      BY <1>4, <1>5 DEF SummedOutput
    <2>5. Verdict(r, SummedOutput, total_out) = r
      BY <1>1, <2>3, <2>4, VerdictRight
    <2>6. QED
      BY <1>2, <2>1, <2>2, <2>4, <2>5 DEF Return
  <1>8. ret # ISAL_DECOMP_OK => ret' = ret
    BY <1>2 DEF Return
  <1>9. Whole'
    BY <1>3 DEF OutInv, Whole
  <1>10. Real'
    <2>1. CASE ret = ISAL_DECOMP_OK
      BY <1>7, <2>1, CodesAre DEF Real, Codes
    <2>2. CASE ret # ISAL_DECOMP_OK
      <3>1. TooSmall' = TooSmall
        BY <1>3 DEF TooSmall
      <3>2. QED
        BY <1>3, <1>8, <2>2, <3>1 DEF OutInv, Real
    <2>3. QED
      BY <2>1, <2>2
  <1>11. Alone'
    <2>1. ret' = ISAL_DECOMP_OK => ret = ISAL_DECOMP_OK
      BY <1>8
    <2>2. QED
      BY <1>3, <1>4, <1>6, <1>7, <2>1 DEF Alone
  <1>12. Delivered' /\ Ahead' /\ Window'
    BY <1>1, <1>3 DEF Delivered, Ahead, Window
  <1>13. QED
    BY <1>9, <1>10, <1>11, <1>12 DEF OutInv

-----------------------------------------------------------------------------
(* The theorem.                                                            *)

(* The invariant of the output is inductive, given the one of the counts.  *)
LEMMA OutputInductive ==
  ASSUME IInv, OutInv, [Next]_vars
  PROVE  OutInv'
  <1>1. IInv'
    BY Inductive
  <1>2. CASE Call
    BY <1>1, <1>2, CallOut
  <1>3. CASE CallForTrailer
    BY <1>1, <1>3, CallForTrailerOut
  <1>4. CASE ReadHeader
    BY <1>1, <1>4, HeaderOut
  <1>5. CASE StoredBlock
    BY <1>1, <1>5, StoredOut
  <1>6. CASE Group
    BY <1>1, <1>6, GroupOut
  <1>7. CASE Deliver
    BY <1>1, <1>7, DeliverOut
  <1>8. CASE Save
    BY <1>1, <1>8, SaveOut
  <1>9. CASE CallStateless
    BY <1>1, <1>9, CallStatelessOut
  <1>10. CASE ReadHeaderStateless
    BY <1>1, <1>10, StatelessHeaderOut
  <1>11. CASE EndStateless
    BY <1>1, <1>11, EndStatelessOut
  <1>12. CASE UNCHANGED vars
    BY <1>12, StutterOut
  <1>13. QED
    BY <1>2, <1>3, <1>4, <1>5, <1>6, <1>7, <1>8, <1>9, <1>10, <1>11, <1>12
       DEF Next, isal_inflate, isal_inflate_stateless

(* What the user has been given follows the dictionary in the stream.      *)
LEMMA OutputRight ==
  ASSUME IInv, OutInv
  PROVE  OutputInOrder
  <1>1. Types /\ Space
    BY DEF IInv
  <1>2. plain \in Seq(Int) /\ got \in Seq(Int) /\ out \in Seq(Int) /\ dict \in Nat /\ Len(plain) \in Nat
    BY <1>1 DEF Types
  <1>3. DictCells(dict) \in Seq(Int) /\ Len(DictCells(dict)) = dict
    BY <1>2, DictType
  <1>4. Shows(DictCells(dict), 1, plain, 0)
    <2>1. dict <= Len(plain) /\ \A i \in 1..dict : plain[i] = i - dict - 1
      BY DEF OutInv, Whole
    <2>2. \A i \in 1..dict : DictCells(dict)[i] = plain[0 + i]
      BY <1>2, <2>1 DEF DictCells
    <2>3. QED
      BY <1>2, <1>3, <2>1, <2>2 DEF Shows
  <1>5. Received \in Seq(Int) /\ Shows(Received, 1, plain, dict)
    <2>1. CASE phase = 0
      BY <1>2, <2>1 DEF OutInv, Alone, Received
    <2>2. CASE phase # 0 /\ AtUser
      BY <1>2, <2>2 DEF OutInv, Delivered, Received
    <2>3. CASE phase # 0 /\ ~AtUser
      <3>1. Shows(got, 1, plain, dict) /\ Shows(out, 1, plain, dict + Len(got))
        BY <2>3 DEF OutInv, Delivered
      <3>2. 1 \in Int /\ 1 >= 1 /\ dict \in Int
        BY <1>2
      <3>3. Shows(got \o out, 1, plain, dict)
        BY <1>2, <3>1, <3>2, ShowsJoined, Zenon
      <3>4. QED
        BY <1>2, <2>3, <3>3 DEF Received
    <2>4. QED
      BY <2>1, <2>2, <2>3
  <1>6. Shows(DictCells(dict) \o Received, 1, plain, 0)
    <2>1. 1 \in Int /\ 1 >= 1 /\ 0 \in Int /\ 0 + Len(DictCells(dict)) = dict
      BY <1>2, <1>3
    <2>2. QED
      BY <1>2, <1>3, <1>4, <1>5, <2>1, ShowsJoined
  <1>7. IsPrefix(DictCells(dict) \o Received, plain)
    <2>1. DictCells(dict) \o Received \in Seq(Int)
      BY <1>3, <1>5
    <2>2. QED
      BY <1>2, <1>6, <2>1, ShowsPrefix, Zenon
  <1>8. \A i \in DOMAIN plain : plain[i] # Junk
    BY <1>2 DEF OutInv, Whole, NoJunk
  <1>9. QED
    BY <1>7, <1>8 DEF OutputInOrder

(* total_out counts what the user was given, and the checksum covers it.   *)
LEMMA TotalOutRight ==
  ASSUME IInv, OutInv
  PROVE  TotalOutCounts
  <1>1. SUFFICES ASSUME AtUser
                 PROVE  /\ total_out = Len(got)
                        /\ (ret = ISAL_DECOMP_OK /\ crc_flag # "raw") => crc = Len(got)
    BY DEF TotalOutCounts
  <1>2. Types /\ Space
    BY DEF IInv
  <1>3. Len(got) \in Nat
    BY <1>2, Lengths
  <1>4. CASE phase = 0
    <2>1. CASE pc = "stopped"
      BY <1>4, <2>1 DEF OutInv, Alone
    <2>2. CASE pc = "user"
      <3>1. got = <<>> /\ crc = 0 /\ total_out = Len(out)
        BY <1>4, <2>2 DEF OutInv, Alone
      <3>2. out = <<>>
        BY <1>2, <1>4, <2>2 DEF Space
      <3>3. QED
        BY <3>1, <3>2
    <2>3. QED
      BY <1>1, <2>1, <2>2 DEF AtUser
  <1>5. CASE phase # 0
    BY <1>1, <1>2, <1>3, <1>5 DEF Space, OutInv, Delivered
  <1>6. QED
    BY <1>4, <1>5

(* An error the call returns is one of the stream, or of the user's room.  *)
LEMMA ErrorsRight ==
  ASSUME IInv, OutInv
  PROVE  ErrorsAreReal
  <1>1. SUFFICES ASSUME pc = "stopped"
                 PROVE  CASE ret = ISAL_INVALID_LOOKBACK   -> Matches[upcoming.tail].dist > Len(plain) \/ TooSmall
                          [] ret = ISAL_INVALID_SYMBOL     -> upcoming.tail = "bad"
                          [] ret = ISAL_INCORRECT_CHECKSUM -> FALSE
                          [] ret = ISAL_OUT_OVERFLOW       -> TooSmall
                          [] OTHER -> TRUE
    BY DEF ErrorsAreReal
  <1>2. phase # 0 => ret # ISAL_OUT_OVERFLOW
    <2>1. phase # 0 => Invalid(ret)
      BY <1>1 DEF IInv, Control
    <2>2. QED
      BY <2>1 DEF Invalid, ISAL_OUT_OVERFLOW
  <1>3. /\ ret = ISAL_INVALID_LOOKBACK => Matches[upcoming.tail].dist > Len(plain) \/ TooSmall
        /\ ret = ISAL_INVALID_SYMBOL => upcoming.tail = "bad"
        /\ ret # ISAL_INCORRECT_CHECKSUM
        /\ ret = ISAL_OUT_OVERFLOW => TooSmall
    BY <1>2 DEF OutInv, Real
  <1>4. QED
    BY <1>3

(* The output is the stream's bytes, each once and in order, behind the    *)
(* dictionary; total_out and the checksum are of what was given; an error  *)
(* is one of the stream.  Whether bytes go through out, tmp_out_buffer,    *)
(* write_overflow or copy_overflow makes no difference, and a match finds  *)
(* the history it points into wherever the last call has left it.          *)
THEOREM DecodesStreamHolds == Spec => []DecodesStream
  <1>1. Init => IInv /\ OutInv
    BY InitHolds, InitOut
  <1>2. (IInv /\ OutInv) /\ [Next]_vars => (IInv /\ OutInv)'
    BY Inductive, OutputInductive
  <1>3. IInv /\ OutInv => DecodesStream
    BY OutputRight, TotalOutRight, ErrorsRight DEF DecodesStream
  <1>4. QED
    BY <1>1, <1>2, <1>3, PTL DEF Spec
=============================================================================
