--------------------------- MODULE HuffmanHeader ---------------------------
(***************************************************************************)
(* The code lengths in the header of a dynamic block.  rl_encode writes    *)
(* the lengths of the literal/length and of the distance code, one behind  *)
(* the other, as tokens: a length, a repetition (16) or a run of zeros     *)
(* (17, 18).  setup_dynamic_header reads tokens, from igzip or from any    *)
(* other writer, into a table where the distance code has its own place,   *)
(* and counts the lengths as it goes:                                      *)
(*                                                                         *)
(*   Write -> Begin -> (Token -> ReadToken | Cut)* -> End                  *)
(*                                                                         *)
(* The Huffman code of the tokens is left out.  The input may end in any   *)
(* of them; bits it does not have are read as zeros.                       *)
(***************************************************************************)
EXTENDS HuffmanCode

CONSTANTS
  TheirLens,         (* Lengths of codes other writers use.                 *)
  ExtraBits          (* Bits of the counts of tokens 16, 17 and 18.         *)

ASSUME HeaderAssumption ==
  TheirLens \subseteq 0..MAX_HUFF_TREE_DEPTH /\ ExtraBits \in [16..18 -> Nat]

Shortest == [c \in 16..18 |-> IF c = 18 THEN 3 + 2^ExtraBits[17] ELSE 3]
Longest  == [c \in 16..18 |-> Shortest[c] + 2^ExtraBits[c] - 1]

Literal(l) == [code |-> l, extra |-> 0]
Run(c, n)  == [code |-> c, extra |-> n - Shortest[c]]

Tokens == {Literal(l) : l \in TheirLens} \cup
          UNION {{Run(c, n) : n \in Shortest[c]..Longest[c]} : c \in 16..18}

VARIABLES
  ours,              (* Does igzip write the header?                        *)
  given,             (* The lengths it writes.                              *)
  header,            (* The tokens not read yet.                            *)
  hlit, hdist,
  reading,                (* "idle", "begin", "read", "token", or the verdict    *)
  token,             (* The token that has been decoded.                    *)
  short,             (* read_in_length < 0                                  *)
  table,             (* lit_and_dist_huff[].length                          *)
  current, previous, (* Indices in table; -1 is NULL.                       *)
  in_dist,           (* count = dist_count                                  *)
  lit_count, dist_count, lit_expand_count,
  flat               (* History: the lengths as the tokens give them.       *)

readVars == <<table, current, previous, in_dist, lit_count, dist_count, lit_expand_count, flat>>
headerVars == <<ours, given, header, hlit, hdist, reading, token, short, readVars>>

-----------------------------------------------------------------------------
(* write_rl: one run of equal lengths.                                      *)
Copies(t, n) == [i \in 1..n |-> t]

ZeroRun ==
  LET Tail0[n \in Nat] ==
        IF n > Longest[18] THEN <<Run(18, Longest[18])>> \o Tail0[n - Longest[18]]
        ELSE IF n >= Shortest[18] THEN <<Run(18, n)>>
        ELSE IF n > 2 THEN <<Run(17, n)>>
        ELSE Copies(Literal(0), n)
  IN Tail0

LengthRun(l) ==
  LET Again[n \in Nat] ==
        IF n > Longest[16] THEN <<Run(16, Longest[16])>> \o Again[n - Longest[16]]
        ELSE IF n > 2 THEN <<Run(16, n)>>
        ELSE Copies(Literal(l), n)
  IN Again

write_rl(last_len, run_len) ==
  IF last_len = 0 THEN ZeroRun[run_len]
  ELSE <<Literal(last_len)>> \o LengthRun(last_len)[run_len - 1]

RunAt(codes, i) ==
  Least({j \in i..Len(codes) : j = Len(codes) \/ codes[j + 1] # codes[i]}) - i + 1

rl_encode(codes) ==
  LET From[i \in Nat] ==
        IF i > Len(codes) THEN <<>>
        ELSE write_rl(codes[i], RunAt(codes, i)) \o From[i + RunAt(codes, i)]
  IN From[1]

(* isal_create_hufftables: both tables up to their last symbol with a code. *)
LastCoded(lens) == Largest({s \in DOMAIN lens : lens[s] # 0})

CombinedTable(lit, dist) ==
  [i \in 1..(LastCoded(lit) + 1) |-> lit[i - 1]] \o
  [i \in 1..(LastCoded(dist) + 1) |-> dist[i - 1]]

Write(lit, dist) ==
  /\ reading = "idle" /\ reading' = "begin"
  /\ ours' = TRUE /\ given' = [lit |-> lit, dist |-> dist]
  /\ header' = rl_encode(CombinedTable(lit, dist))
  /\ hlit' = LastCoded(lit) - EndOfBlock
  /\ hdist' = LastCoded(dist)
  /\ UNCHANGED <<token, short, readVars>>

(* Other writers may use any hlit and hdist.                                *)
WriteForeign(len, dist) ==
  /\ reading = "idle" /\ reading' = "begin"
  /\ hlit' = len /\ hdist' = dist
  /\ UNCHANGED <<ours, given, header, token, short, readVars>>

-----------------------------------------------------------------------------
(* setup_dynamic_header.                                                    *)
LitEnd   == LIT_TABLE_SIZE + hlit
TableEnd == LIT_LEN + hdist + 1

NoLengths == [i \in 0..(LIT_LEN + DIST_LEN + Longest[18] + LIT_LEN) |-> 0]
NoCounts  == [l \in 0..(MAX_HUFF_TREE_DEPTH + MostExtra) |-> 0]

InitHeader ==
  /\ reading = "idle" /\ ours = FALSE /\ given = <<>> /\ hlit = 0 /\ hdist = 0
  /\ header = <<>> /\ token = Literal(0) /\ short = FALSE
  /\ table = NoLengths /\ current = 0 /\ previous = -1 /\ in_dist = FALSE
  /\ lit_count = NoCounts /\ dist_count = NoCounts /\ lit_expand_count = NoCounts
  /\ flat = <<>>

Begin ==
  /\ reading = "begin"
  /\ reading' = IF hlit > LIT_LEN - LIT_TABLE_SIZE \/ hdist > DIST_LEN - 1 THEN "INVALID_BLOCK"
           ELSE "read"
  /\ UNCHANGED <<ours, given, header, hlit, hdist, token, short, readVars>>

(* decode_next_header, when the bits of the token are there.  The bits of   *)
(* its count may not be.                                                    *)
Token ==
  /\ reading = "read" /\ current < TableEnd /\ ~short
  /\ IF ~ours
       THEN /\ token' \in Tokens
            /\ short' \in IF token'.code >= 16 THEN BOOLEAN ELSE {FALSE}
            /\ UNCHANGED header
       ELSE token' = Head(header) /\ header' = Tail(header) /\ short' = FALSE
  /\ reading' = "token"
  /\ UNCHANGED <<ours, given, hlit, hdist, readVars>>

(* They are not: is the block invalid whatever follows?                     *)
NoEndOfBlock == current > EndOfBlock /\ table[EndOfBlock] = 0

Cut ==
  /\ reading = "read" /\ current < TableEnd /\ (short \/ ~ours)
  /\ short' = TRUE
  /\ reading' = IF NoEndOfBlock THEN "INVALID_BLOCK" ELSE "END_INPUT"
  /\ UNCHANGED <<ours, given, header, hlit, hdist, token, readVars>>

(* One length goes to the table, behind the literal/length code to the      *)
(* place of the distance code.                                              *)
reader == [table |-> table, current |-> current, in_dist |-> in_dist,
           lit |-> lit_count, dist |-> dist_count, expand |-> lit_expand_count]

Expanded(count, l, s) ==
  [count EXCEPT ![l] = @ - 1, ![l + LitExtra(s)] = @ + 2^LitExtra(s)]

Switches(r) == r.current = LitEnd

PutLength(r, l) ==
  LET s == IF Switches(r) THEN LIT_LEN ELSE r.current
      dist == Switches(r) \/ r.in_dist
  IN [r EXCEPT !.table[s] = l, !.current = s + 1, !.in_dist = dist,
        !.lit  = IF dist THEN @ ELSE [@ EXCEPT ![l] = @ + 1],
        !.dist = IF dist THEN [@ EXCEPT ![l] = @ + 1] ELSE @,
        !.expand = IF l # 0 /\ s \in LIT_TABLE_SIZE..(LitEnd - 1) THEN Expanded(@, l, s)
                   ELSE @]

Becomes(r) ==
  /\ table' = r.table /\ current' = r.current /\ in_dist' = r.in_dist
  /\ lit_count' = r.lit /\ dist_count' = r.dist /\ lit_expand_count' = r.expand
  /\ previous' = r.current - 1

ReadLength ==
  /\ reading = "token" /\ token.code < 16
  /\ Becomes(PutLength(reader, token.code))
  /\ flat' = Append(flat, token.code)
  /\ reading' = "read"
  /\ UNCHANGED <<ours, given, header, hlit, hdist, token, short>>

RunLength == Shortest[token.code] + token.extra

NothingToRepeat == current + RunLength > TableEnd \/ previous = -1

ReadRepetition ==
  /\ reading = "token" /\ token.code = 16
  /\ LET Put[n \in Nat] == IF n = 0 THEN reader ELSE PutLength(Put[n - 1], table[previous])
     IN IF NothingToRepeat
          THEN reading' = "INVALID_BLOCK" /\ UNCHANGED readVars
          ELSE /\ \E r \in {Put[RunLength]} : Becomes(r)
               /\ flat' = flat \o Copies(flat[Len(flat)], RunLength)
               /\ reading' = "read"
  /\ UNCHANGED <<ours, given, header, hlit, hdist, token, short>>

Crosses == ~in_dist /\ current + RunLength > LitEnd

ReadZeros ==
  /\ reading = "token" /\ token.code \in {17, 18}
  /\ current' = current + RunLength + (IF Crosses THEN LIT_LEN - LitEnd ELSE 0)
  /\ in_dist' = (in_dist \/ Crosses)
  /\ previous' = current' - 1
  /\ flat' = flat \o Copies(0, RunLength)
  /\ reading' = "read"
  /\ UNCHANGED <<ours, given, header, hlit, hdist, token, short, table, lit_count, dist_count,
                 lit_expand_count>>

(* Behind the loop.                                                         *)
Refused_Mut == current > TableEnd

Refused == current > TableEnd \/ table[EndOfBlock] = 0

End ==
  /\ reading = "read" /\ current >= TableEnd
  /\ reading' = IF Refused THEN "INVALID_BLOCK" ELSE IF short THEN "END_INPUT" ELSE "tables"
  /\ UNCHANGED <<ours, given, header, hlit, hdist, token, short, readVars>>

setup_dynamic_header ==
  Begin \/ Token \/ Cut \/ ReadLength \/ ReadRepetition \/ ReadZeros \/ End

AnyLit  == {f \in [0..(LIT_LEN - 1) -> TheirLens] : f[EndOfBlock] # 0}
AnyDist == {f \in [0..(DIST_LEN - 1) -> TheirLens] : \E s \in DOMAIN f : f[s] # 0}

-----------------------------------------------------------------------------
(* Properties.                                                             *)

(* The tables of lengths igzip writes are read back as they were, for every *)
(* split of runs over tokens and over the end of the first table.           *)
ReadBack ==
  reading \in {"tables", "INVALID_BLOCK", "END_INPUT"} /\ ours =>
    /\ reading = "tables" /\ header = <<>>
    /\ \A s \in DOMAIN given.lit  : table[s] = given.lit[s]
    /\ \A s \in DOMAIN given.dist : table[LIT_LEN + s] = given.dist[s]

(* RFC 1951 (3.2.7) on any sequence of tokens: they give as many lengths as *)
(* the header says, in one sequence, and the end of block has a code.       *)
Total == LIT_TABLE_SIZE + hlit + hdist + 1
Hopeless == Len(flat) > Total \/ (Len(flat) > EndOfBlock /\ flat[EndOfBlock + 1] = 0)

ReadsAsSpecified ==
  reading = "tables" =>
    /\ Len(flat) = Total /\ ~Hopeless
    /\ \A s \in 0..(LIT_LEN - 1) : table[s] = IF s < LitEnd THEN flat[s + 1] ELSE 0
    /\ \A s \in 0..hdist : table[LIT_LEN + s] = flat[LitEnd + s + 1]

(* A header that the input cuts is refused if and only if nothing that      *)
(* follows could make it valid; otherwise isal_inflate waits for more.      *)
CutOrInvalid ==
  /\ reading = "END_INPUT" => short /\ ~Hopeless
  /\ reading = "INVALID_BLOCK" /\ Len(flat) > 0 =>
       Hopeless \/ (token.code = 16 /\ Len(flat) + RunLength > Total)

(* The counts kept on the way are those of the table: of code lengths, and  *)
(* of lengths with the extra bits, one for each value of these.             *)
CountsAreExact ==
  reading = "tables" =>
    LET Used(S, l) == Cardinality({s \in S : table[s] = l})
        LenSymbols(l) == {s \in LIT_TABLE_SIZE..(LitEnd - 1) :
                            table[s] # 0 /\ table[s] + LitExtra(s) = l}
    IN /\ \A l \in 1..MAX_HUFF_TREE_DEPTH :
            /\ lit_count[l]  = Used(0..(LitEnd - 1), l)
            /\ dist_count[l] = Used(LIT_LEN..(LIT_LEN + hdist), l)
       /\ \A l \in DOMAIN lit_count \ {0} :
            lit_count[l] + lit_expand_count[l] =
              Used(0..EndOfBlock, l)
                + Cardinality(UNION {{<<s, x>> : x \in 1..2^LitExtra(s)} : s \in LenSymbols(l)})

(* Everything setup_dynamic_header makes of a header is right: lengths,     *)
(* verdict and counts.                                                      *)
HeaderIsRight == ReadBack /\ ReadsAsSpecified /\ CutOrInvalid /\ CountsAreExact
=============================================================================
