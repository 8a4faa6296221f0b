--------------------------- MODULE HuffmanDecode ---------------------------
(***************************************************************************)
(* The tables isal_inflate decodes with.  make_inflate_huff_code_lit_len   *)
(* and make_inflate_huff_code_dist take the code lengths of a block and    *)
(* fill a table that is indexed by the next Bits bits of the input:        *)
(*                                                                         *)
(*   SetupCodes -> ShortCodes* -> LongCodes* -> done                         *)
(*                                                                         *)
(* An entry is up to three symbols, whose codes the bits hold, or for      *)
(* codes with more bits a place in a second table.  A length symbol and    *)
(* its extra bits count as one code: each length is an element of its own. *)
(***************************************************************************)
EXTENDS HuffmanCode

CONSTANTS
  LONG_BITS,          (* ISAL_DECODE_LONG_BITS, for literals and lengths.   *)
  SHORT_BITS,         (* ISAL_DECODE_SHORT_BITS, for distances.             *)
  MaxDists            (* Values of max_symbol for distances.                *)

TRIPLE_SYM_FLAG == 0
DOUBLE_SYM_FLAG == 1
SINGLE_SYM_FLAG == 2

ASSUME DecodeAssumption ==
  /\ LONG_BITS \in 1..MAX_HUFF_TREE_DEPTH /\ SHORT_BITS \in 1..MAX_HUFF_TREE_DEPTH
  /\ MaxDists \subseteq 1..DIST_LEN

VARIABLES
  kind,               (* "lit" or "dist": which of the two tables.          *)
  multisym, max_symbol,
  lengths,               (* The lengths read from the header.                  *)
  tabling,
  elems,              (* huff_code_table: symbol, length and code.          *)
  code_list,          (* The elements with a code, by length.               *)
  last_length,
  short_code_lookup,
  place,              (* i of the loop over the long codes.                 *)
  used,               (* The elements marked INVALID_CODE.                  *)
  long_code_lookup

decodeVars == <<kind, multisym, max_symbol, lengths, tabling, elems, code_list, last_length,
          short_code_lookup, place, used, long_code_lookup>>

Bits == IF kind = "lit" THEN LONG_BITS ELSE SHORT_BITS

(* Entries of the tables.  Without symbols, length is that of a code for    *)
(* none that is allowed, or 0 if the bits are no code.                      *)
NoEntry           == [syms |-> <<>>, length |-> 0]
Entry(syms, l)    == [syms |-> syms, length |-> l]
Hint(offset, max) == [offset |-> offset, max_length |-> max]
IsHint(e)         == "offset" \in DOMAIN e

-----------------------------------------------------------------------------
tableVars == <<elems, code_list, last_length, short_code_lookup, place, used, long_code_lookup>>

InitTables ==
  /\ tabling = "idle" /\ kind = "lit" /\ multisym = 0 /\ max_symbol = 0 /\ lengths = <<>>
  /\ elems = <<>> /\ code_list = <<>> /\ last_length = 0
  /\ short_code_lookup = <<>> /\ place = 0 /\ used = {} /\ long_code_lookup = <<>>

(* Short inputs are decoded one symbol, or two, at a time: it takes longer  *)
(* to set up three.                                                         *)
SetupLit(lens, multi) ==
  /\ tabling = "idle" /\ tabling' = "codes"
  /\ kind' = "lit" /\ lengths' = lens /\ multisym' = multi /\ max_symbol' = LIT_LEN
  /\ UNCHANGED tableVars

SetupDist(lens, max) ==
  /\ tabling = "idle" /\ tabling' = "codes"
  /\ kind' = "dist" /\ lengths' = lens /\ multisym' = SINGLE_SYM_FLAG /\ max_symbol' = max
  /\ UNCHANGED tableVars

(* The first element of a length symbol: each has one per value of its      *)
(* extra bits.                                                              *)
ExtraOf(s) == IF kind = "lit" THEN LitExtra(s) ELSE 0
ExpandNext(s) ==
  IF kind = "lit" /\ s >= LIT_TABLE_SIZE
    THEN LIT_TABLE_SIZE + SumTo(s - LIT_TABLE_SIZE, LAMBDA i : 2^LenExtra[i])
    ELSE s
LastElem == ExpandNext(IF kind = "lit" THEN LIT_LEN - 1 ELSE DIST_LEN - 1)

(* index_to_sym: the longest match has two elements.                        *)
index_to_sym(index) == IF kind = "lit" /\ index = LastElem THEN index - 1 ELSE index

Extend_Mut(code, s, extra) == code + extra

Extend(code, s, extra) == code + extra * 2^lengths[s]

TableElements(code) ==
  LET SymbolOf(e) == CHOOSE s \in DOMAIN lengths :
                       e - ExpandNext(s) \in 0..(2^ExtraOf(s) - 1)
  IN [e \in 0..LastElem |->
        LET s == SymbolOf(e)
        IN IF lengths[s] = 0 THEN [length |-> 0, code |-> 0]
           ELSE [length |-> lengths[s] + ExtraOf(s),
                 code   |-> Extend(code[s], s, e - ExpandNext(s))]]

(* set_codes, set_and_expand_lit_len_huffcode.                              *)
Count == [l \in 0..MAX_HUFF_TREE_DEPTH |-> Cardinality(WithLength(lengths, l))]

Oversubscribed == FirstCode(Count)[MAX_HUFF_TREE_DEPTH] + Count[MAX_HUFF_TREE_DEPTH] > 2^MAX_HUFF_TREE_DEPTH

ByLength(els) ==
  LET coded == {e \in DOMAIN els : els[e].length # 0}
      Before(e) == {f \in coded : \/ els[f].length < els[e].length
                                  \/ els[f].length = els[e].length /\ f < e}
  IN [i \in 1..Cardinality(coded) |->
        CHOOSE e \in coded : Cardinality(Before(e)) = i - 1]

SetupCodes ==
  /\ tabling = "codes"
  /\ IF Oversubscribed
       THEN tabling' = "INVALID_BLOCK" /\ UNCHANGED <<elems, code_list, last_length, short_code_lookup>>
       ELSE \E els \in {TableElements(AssignCodes(lengths, Count))} :
              \E list \in {ByLength(els)} :
                /\ elems' = els /\ code_list' = list
                /\ IF list = <<>>
                     THEN /\ tabling' = "done" /\ last_length' = Bits + 1
                          /\ short_code_lookup' = [b \in 0..(2^Bits - 1) |-> NoEntry]
                     ELSE /\ tabling' = "short"
                          /\ last_length' = IF els[list[1]].length > Bits THEN Bits + 1
                                            ELSE els[list[1]].length
                          /\ short_code_lookup' = [b \in 0..(2^(last_length' - 1) - 1) |-> NoEntry]
  /\ UNCHANGED <<kind, multisym, max_symbol, lengths, place, used, long_code_lookup>>

-----------------------------------------------------------------------------
(* The table of codes up to last_length bits, copied to its second half and *)
(* with the entries of last_length bits added: one symbol, two or three, of *)
(* which all but the last are literals.                                     *)
Coding(l)   == {e \in DOMAIN elems : elems[e].length = l /\ l # 0}
MinLength   == elems[code_list[1]].length
LiteralsTo(l) == {e \in 0..(LITERALS - 1) : elems[e].length \in MinLength..l}
LongestMatch == LastElem - 1

Singles ==
  {[bits  |-> elems[e].code,
    entry |-> Entry(IF kind = "dist" /\ e >= max_symbol THEN <<>> ELSE <<index_to_sym(e)>>,
                    last_length)] : e \in Coding(last_length)}

(* The bits of two codes in a row.                                          *)
Joined(e, f) == elems[e].code + elems[f].code * 2^elems[e].length

Pairs ==
  IF multisym >= SINGLE_SYM_FLAG THEN {}
  ELSE UNION {{[bits  |-> Joined(e, f),
                entry |-> Entry(<<e, index_to_sym(f)>>, last_length)] :
                 f \in Coding(last_length - elems[e].length)} :
               e \in LiteralsTo(last_length - MinLength)}

(* The longest match does not fit the third place of an entry.              *)
Third_Mut(l) == Coding(l)

Third(l) == {g \in Coding(l) : index_to_sym(g) < LongestMatch}

Triples ==
  IF multisym >= DOUBLE_SYM_FLAG THEN {}
  ELSE UNION {UNION {{[bits  |-> Joined(e, f) + elems[g].code * 2^(elems[e].length + elems[f].length),
                       entry |-> Entry(<<e, f, index_to_sym(g)>>, last_length)] :
                        g \in Third(last_length - elems[e].length - elems[f].length)} :
                      f \in LiteralsTo(last_length - elems[e].length - MinLength)} :
               e \in LiteralsTo(last_length - 2 * MinLength)}

ShortCodes ==
  /\ tabling = "short" /\ last_length <= Bits
  /\ \E new \in {Singles \cup Pairs \cup Triples} :
       short_code_lookup' =
         [b \in 0..(2^last_length - 1) |->
            IF \E w \in new : w.bits = b THEN (CHOOSE w \in new : w.bits = b).entry
            ELSE short_code_lookup[b % 2^(last_length - 1)]]
  /\ last_length' = last_length + 1
  /\ UNCHANGED <<kind, multisym, max_symbol, lengths, tabling, elems, code_list, place, used,
                 long_code_lookup>>

(* The first code longer than Bits.                                         *)
FirstLong == Cardinality({e \in DOMAIN elems : elems[e].length \in 1..Bits}) + 1

EndShort ==
  /\ tabling = "short" /\ last_length > Bits
  /\ place' = FirstLong /\ tabling' = "long"
  /\ UNCHANGED <<kind, multisym, max_symbol, lengths, elems, code_list, last_length,
                 short_code_lookup, used, long_code_lookup>>

-----------------------------------------------------------------------------
(* The codes longer than Bits that begin with the same bits share a part of *)
(* long_code_lookup.  An element that is done has a code of ones only.      *)
FirstBits(e) == IF e \in used THEN 2^Bits - 1 ELSE elems[e].code % 2^Bits

Group == {i \in place..Len(code_list) :
            i = place \/ FirstBits(code_list[i]) = FirstBits(code_list[place])}

MaxLength == elems[code_list[Largest(Group)]].length

LongEntry(e) ==
  Entry(IF kind = "dist" /\ e >= max_symbol THEN <<>> ELSE <<index_to_sym(e)>>, elems[e].length)

LongCodes ==
  /\ tabling = "long" /\ place <= Len(code_list)
  /\ LET group == {code_list[i] : i \in Group} \ used
         Of(b)  == {e \in group : Begins(elems[e].code \div 2^Bits, elems[e].length - Bits, b)}
     IN IF code_list[place] \in used
          THEN UNCHANGED <<short_code_lookup, used, long_code_lookup>>
          ELSE /\ long_code_lookup' = long_code_lookup \o
                    [b \in 1..2^(MaxLength - Bits) |->
                       IF Of(b - 1) = {} THEN NoEntry
                       ELSE LongEntry(CHOOSE e \in Of(b - 1) : TRUE)]
               /\ short_code_lookup' =
                    [short_code_lookup EXCEPT ![FirstBits(code_list[place])] =
                       Hint(Len(long_code_lookup), MaxLength)]
               /\ used' = used \cup group
  /\ place' = place + 1
  /\ UNCHANGED <<kind, multisym, max_symbol, lengths, tabling, elems, code_list, last_length>>

EndLong ==
  /\ tabling = "long" /\ place > Len(code_list)
  /\ tabling' = "done"
  /\ UNCHANGED <<kind, multisym, max_symbol, lengths, elems, code_list, last_length,
                 short_code_lookup, place, used, long_code_lookup>>

make_inflate_huff_code == SetupCodes \/ ShortCodes \/ EndShort \/ LongCodes \/ EndLong

SymFlags == {TRIPLE_SYM_FLAG, DOUBLE_SYM_FLAG, SINGLE_SYM_FLAG}
EveryLit  == {f \in [0..(LIT_LEN - 1) -> 0..MAX_HUFF_TREE_DEPTH] : f[LITERALS] # 0}
EveryDist == [0..(DIST_LEN - 1) -> 0..MAX_HUFF_TREE_DEPTH]

(* decode_next_lit_len, decode_next_dist: the entry for the next bits.      *)
Lookup(bits) ==
  LET e == short_code_lookup[bits % 2^Bits]
  IN IF IsHint(e)
       THEN long_code_lookup[e.offset + ((bits % 2^e.max_length) \div 2^Bits) + 1]
       ELSE e

-----------------------------------------------------------------------------
(* Properties.                                                             *)

MostBits == MAX_HUFF_TREE_DEPTH + MostExtra

CodesAt(bits) == {e \in DOMAIN elems :
                    elems[e].length # 0 /\ Begins(elems[e].code, elems[e].length, bits)}

(* The codes of syms, one behind the other, are the first length bits, and  *)
(* all but the last are literals.                                           *)
Spell(syms, length, bits) ==
  LET From[i \in Nat, l \in Int, b \in Nat] ==
        \E e \in CodesAt(b) :
          /\ index_to_sym(e) = syms[i]
          /\ IF i = Len(syms) THEN l = elems[e].length
             ELSE e < LITERALS /\ From[i + 1, l - elems[e].length, b \div 2^elems[e].length]
  IN From[1, length, bits]

(* Whatever bits come next, the tables give the symbols whose codes they    *)
(* begin with; they give the bare length of a distance code that is not     *)
(* allowed, and nothing exactly if the bits begin no code.                  *)
LookupDecodes ==
  tabling = "done" =>
    \A bits \in 0..(2^MostBits - 1) :
      LET e == Lookup(bits)
      IN IF CodesAt(bits) = {} THEN e = NoEntry
         ELSE \E c \in CodesAt(bits) :
                IF kind = "dist" /\ c >= max_symbol THEN e = Entry(<<>>, elems[c].length)
                ELSE e.syms # <<>> /\ Spell(e.syms, e.length, bits)

(* A third symbol has eight bits of an entry, and so has a second one if    *)
(* there is a third: they hold literals and all matches but the longest.    *)
(* long_code_lookup has the room igzip_lib.h computes for it: symbols,      *)
(* duplicates and unused places.                                            *)
Room ==
  LET rem == IF kind = "lit" THEN MostBits - LONG_BITS ELSE MAX_HUFF_TREE_DEPTH - SHORT_BITS
      dup == 2^rem - (rem + 1)
      unused == 2^rem - 2^(rem \div 2) - 2^((rem + 1) \div 2) + 1
  IN (IF kind = "lit" THEN LIT_LEN ELSE DIST_LEN) + dup + unused

TablesHold ==
  /\ tabling # "idle" /\ Kraft(lengths, MAX_HUFF_TREE_DEPTH) = 2^MAX_HUFF_TREE_DEPTH => Len(long_code_lookup) <= Room
  /\ \A b \in DOMAIN short_code_lookup :
       LET e == short_code_lookup[b]
       IN ~IsHint(e) /\ Len(e.syms) = 3 => e.syms[3] < LongestMatch

(* Code lengths are refused exactly if they are no code (Kraft's sum is     *)
(* above 1): an incomplete code is taken.                                   *)
RefusesOnlyOversubscribed ==
  tabling \notin {"idle", "codes"} => (tabling = "INVALID_BLOCK" <=> Kraft(lengths, MAX_HUFF_TREE_DEPTH) > 2^MAX_HUFF_TREE_DEPTH)

(* The decoding tables say what the code says, whatever the lengths, hold   *)
(* what they must, and are refused for the right reason.                    *)
TablesAreRight == LookupDecodes /\ TablesHold /\ RefusesOnlyOversubscribed
=============================================================================
