---------------------------- MODULE ErasureCode ----------------------------
(***************************************************************************)
(* Erasure coding: a matrix of coefficients, k sources and m - k fragments *)
(* of parity coded by one call or source by source, any m - k fragments    *)
(* lost, the matrix of the others inverted column by column and the lost   *)
(* fragments coded again from them.  A call works on batches of rows whose *)
(* sizes depend on the processor; a fragment is a few bytes.               *)
(***************************************************************************)
EXTENDS GaloisField, FiniteSets

CONSTANTS Jobs,          \* the calls made: [kind, k, m, len, arch, update]
          Payload(_, _), \* byte i of source j
          MIN_LEN,       \* shorter fragments are left to the base routines
          VSX_CHUNK,     \* bytes that a loop of the VSX routines handles
          VSX_MUL_CHUNK, \* the same for its products, and for a single row
          VSX_MADS       \* with fewer sources it adds them one by one

VARIABLES stage,   \* "idle" | "coding" | "keeping" | "inverting" | "rebuilding" | "whole" | "singular"
          job,     \* the member of Jobs
          call,    \* the call under way: rows left, offsets of its two pointers
          dest,    \* what that call writes
          added,   \* sources given to ec_encode_data_update, the latest first
          parity,  \* the fragments k .. m - 1
          kept,    \* the fragments not lost, in order: decode_index
          in_mat, out_mat, column

erasureVars == <<stage, job, call, dest, added, parity, kept, in_mat, out_mat, column>>

Below(n) == 0 .. n - 1
NoJob    == [kind |-> "none", k |-> 0, m |-> 0, len |-> 0, arch |-> "none", update |-> FALSE]
NoCall   == [rows |-> 0, coding |-> 0, tbls |-> 0]
AllRows  == [rows |-> job.m - job.k, coding |-> 0, tbls |-> 0]
k         == job.k
Parities  == Below(job.m - job.k)
Positions == Below(job.len)

DotProduct(v, w) ==
  LET sum[j \in 0 .. k] ==
        IF j = 0 THEN 0 ELSE Xor[sum[j - 1]][gf_mul[v[j - 1]][w[j - 1]]]
  IN sum[k]

Identity == [i \in Below(k) |-> [j \in Below(k) |-> IF i = j THEN 1 ELSE 0]]

-----------------------------------------------------------------------------
\* Row i >= k of the matrix: powers of 2^(i-k), or 1 / (i ^ j).
gf_gen_rs_matrix(i) ==
  LET gen[n \in 0 .. i - k] == IF n = 0 THEN 1 ELSE gf_mul[gen[n - 1]][2]
      p[j \in Below(k)] == IF j = 0 THEN 1 ELSE gf_mul[p[j - 1]][gen[i - k]]
  IN  [j \in Below(k) |-> p[j]]

gf_gen_cauchy1_matrix(i) == [j \in Below(k) |-> gf_inv[Xor[i][j]]]

EncodeRow(i) ==
  IF i < k THEN Identity[i]
  ELSE IF job.kind = "rs" THEN gf_gen_rs_matrix(i) ELSE gf_gen_cauchy1_matrix(i)

-----------------------------------------------------------------------------
\* One batch of a call: how many rows a routine computes, how far the
\* pointers to the destinations and to the tables move, the rows left.
Loop_Mut(n, rows) == [vects |-> n, coding |-> n, tbls |-> 0, left |-> rows - n]
Loop(n, rows) == [vects |-> n, coding |-> n, tbls |-> n, left |-> rows - n]
Last(rows)    == [vects |-> rows, coding |-> 0, tbls |-> 0, left |-> 0]

ec_encode_data_sse(rows)  == IF rows >= 6 THEN Loop(6, rows) ELSE Last(rows)
ec_encode_data_gfni(rows) == IF rows >= 3 THEN Loop(3, rows) ELSE Last(rows)
ec_encode_data_neon(rows) == IF rows > 5 THEN Loop(5, rows) ELSE Last(rows)
ec_encode_data_sve(rows)  == IF rows > 7 \/ rows \in {6, 7} THEN Loop(4, rows) ELSE Last(rows)
ec_encode_data_rvv(rows)  == IF rows > 11 THEN Loop(6, rows)
                             ELSE IF rows \in 8 .. 11 THEN Loop(rows - 4, rows)
                             ELSE Last(rows)
ec_update_gfni(rows)      == IF rows >= 5 THEN Loop(5, rows) ELSE Last(rows)
ec_update_neon(rows)      == IF rows > 6 THEN Loop(6, rows) ELSE Last(rows)

Updating == stage = "coding" /\ job.update
UsesBase == job.arch = "base" \/ (job.len < MIN_LEN /\ job.arch # "gfni")

Batch(rows) ==
  IF UsesBase THEN Last(rows)
  ELSE CASE job.arch \in {"sse", "vsx", "vsx_gcc7"} -> ec_encode_data_sse(rows)
         [] job.arch = "gfni" -> IF Updating THEN ec_update_gfni(rows) ELSE ec_encode_data_gfni(rows)
         [] job.arch = "neon" -> IF Updating THEN ec_update_neon(rows) ELSE ec_encode_data_neon(rows)
         [] job.arch = "sve"  -> IF Updating THEN ec_update_neon(rows) ELSE ec_encode_data_sve(rows)
         [] job.arch = "rvv"  -> IF Updating THEN ec_update_neon(rows) ELSE ec_encode_data_rvv(rows)

-----------------------------------------------------------------------------
\* The vector routines multiply by the tables of GaloisField.
Products == [c \in Byte |->
  LET tbl == gf_vect_mul_init(c) IN [x \in Byte |-> ByNibbles(tbl, x)]]

\* A sum of k terms.
SumOfRow(term(_)) ==
  LET sum[j \in 0 .. k] == IF j = 0 THEN 0 ELSE Xor[sum[j - 1]][term(j - 1)]
  IN sum[k]

\* v . w, by the tables.
VectorDot(v, w) == SumOfRow(LAMBDA j : Products[w[j]][v[j]])

\* The table of c as the permutation of the VSX routines finds it.  vec_xl
\* loads both its halves with the last entry first; EC_vec_xl does so only
\* where EC_vec_permxor complements the index, before GCC 8.
Vsx        == job.arch \in {"vsx", "vsx_gcc7"} /\ ~UsesBase
vec_xl_be(c, i) == Products[c][i]
vec_xl(c, i)    == Products[c][255 - i]
EC_vec_xl(c, i) == IF job.arch = "vsx" THEN vec_xl_be(c, i) ELSE vec_xl(c, i)
EC_vec_permxor(load(_, _), c, x) == load(c, IF job.arch = "vsx" THEN x ELSE 255 - x)

\* The rows of a batch of n whose tables are loaded by vec_xl.
PlainLoads(n) == IF n \in 3 .. 5 THEN 2 .. n - 1 ELSE {}

\* The bytes that a VSX routine writes: a head, by the base routine, then
\* whole chunks.
HeadBytes(chunk)  == Below(job.len % chunk)
ChunkBytes(chunk) == {p \in Positions :
  LET head == job.len % chunk
  IN  \E i \in head .. job.len - chunk : (i - head) % chunk = 0 /\ p \in i .. i + chunk - 1}
Written(chunk) == HeadBytes(chunk) \cup ChunkBytes(chunk)

gf_vect_mad(old, c, src) == [p \in Positions |->
  IF Vsx /\ p \notin Written(VSX_CHUNK) THEN old[p]
  ELSE Xor[old[p]][IF UsesBase \/ (Vsx /\ p \in HeadBytes(VSX_CHUNK)) THEN gf_mul[src[p]][c]
                   ELSE IF Vsx THEN EC_vec_permxor(EC_vec_xl, c, src[p])
                   ELSE Products[c][src[p]]]]

gf_vect_mul(old, c, src) == [p \in Positions |->
  IF p \in HeadBytes(VSX_MUL_CHUNK) THEN gf_mul[src[p]][c]
  ELSE IF p \in ChunkBytes(VSX_MUL_CHUNK) THEN EC_vec_permxor(EC_vec_xl, c, src[p])
  ELSE old[p]]

\* Row r of the batch of n, by the VSX routine for n rows.
MadRow(old, w, src) ==
  LET sum[j \in 1 .. k] == IF j = 1 THEN gf_vect_mul(old, w[0], src[0])
                           ELSE gf_vect_mad(sum[j - 1], w[j - 1], src[j - 1])
  IN  sum[k]

gf_nvect_dot_prod_vsx(n, r, old, w, src) ==
  LET chunk == IF n = 1 THEN VSX_MUL_CHUNK ELSE VSX_CHUNK
      Permuted(j, p) == IF r \in PlainLoads(n) THEN EC_vec_permxor(vec_xl, w[j], src[j][p])
                        ELSE EC_vec_permxor(EC_vec_xl, w[j], src[j][p])
  IN  IF k < VSX_MADS THEN MadRow(old, w, src)
      ELSE [p \in Positions |->
             IF p \in HeadBytes(chunk) THEN DotProduct([j \in Below(k) |-> src[j][p]], w)
             ELSE IF p \in ChunkBytes(chunk) THEN SumOfRow(LAMBDA j : Permuted(j, p))
             ELSE old[p]]

is_dest_coeff_all_one(w) == \A j \in Below(k) : w[j] = 1

gf_nvect_dot_prod_sve(w, src) == [p \in Positions |->
  IF is_dest_coeff_all_one(w) THEN SumOfRow(LAMBDA j : src[j][p])
  ELSE VectorDot([j \in Below(k) |-> src[j][p]], w)]

ec_encode_data_base(w, src) == [p \in Positions |-> DotProduct([j \in Below(k) |-> src[j][p]], w)]

\* Row r of a batch of n.
Encoded(n, r, old, w, src) ==
  CASE UsesBase -> ec_encode_data_base(w, src)
    [] Vsx -> gf_nvect_dot_prod_vsx(n, r, old, w, src)
    [] job.arch = "sve" /\ ~UsesBase -> gf_nvect_dot_prod_sve(w, src)
    [] OTHER -> [p \in Positions |-> VectorDot([j \in Below(k) |-> src[j][p]], w)]

-----------------------------------------------------------------------------
Sources     == [j \in Below(k) |-> [p \in Positions |-> Payload(j, p)]]
Fragment(i) == IF i < k THEN Sources[i] ELSE parity[i - k]
Survivors   == [i \in Below(k) |-> Fragment(kept[i + 1])]
Lost        == Below(job.m) \ {kept[i] : i \in 1 .. k}
frag_err_list(r) == CHOOSE f \in Lost : Cardinality({g \in Lost : g < f}) = r

\* The row of decode_matrix for the lost fragment f.
DecodeRow_Mut(f) == IF f < k THEN out_mat[f] ELSE EncodeRow(f)
DecodeRow(f) ==
  IF f < k THEN out_mat[f]
  ELSE [i \in Below(k) |-> DotProduct([j \in Below(k) |-> out_mat[j][i]], EncodeRow(f))]

InitErasure ==
  /\ stage = "idle" /\ job = NoJob /\ call = NoCall
  /\ dest = <<>> /\ parity = <<>> /\ added = <<>> /\ kept = <<>>
  /\ in_mat = <<>> /\ out_mat = <<>> /\ column = 0

\* What the destinations hold before a call writes them; a caller that
\* updates clears them first.
Unwritten(byte) == [r \in Parities |-> [p \in Positions |-> byte]]

Submit == \E j \in Jobs :
  /\ stage = "idle"
  /\ stage' = "coding" /\ job' = j
  /\ dest' = [r \in Below(j.m - j.k) |-> [p \in Below(j.len) |-> IF j.update THEN 0 ELSE 170]]
  /\ call' = IF j.update THEN NoCall ELSE [NoCall EXCEPT !.rows = j.m - j.k]
  /\ UNCHANGED <<added, parity, kept, in_mat, out_mat, column>>

\* ec_encode_data_update with the next source, in any order.
Update == \E j \in Below(k) :
  /\ stage = "coding" /\ job.update /\ call.rows = 0
  /\ \A i \in DOMAIN added : added[i] # j
  /\ added' = <<j>> \o added
  /\ call' = AllRows
  /\ UNCHANGED <<stage, job, dest, parity, kept, in_mat, out_mat, column>>

\* The routine for a batch of rows, then the pointers move.
Routine(batch) == [d \in Parities |->
  IF d \notin call.coding .. call.coding + batch.vects - 1 THEN dest[d]
  ELSE LET r == d - call.coding
           t == r + call.tbls
       IN  IF Updating THEN gf_vect_mad(dest[d], EncodeRow(k + t)[added[1]], Sources[added[1]])
           ELSE IF stage = "coding" THEN Encoded(batch.vects, r, dest[d], EncodeRow(k + t), Sources)
           ELSE Encoded(batch.vects, r, dest[d], DecodeRow(frag_err_list(t)), Survivors)]

CodeBatch == \E batch \in {Batch(call.rows)} :
  /\ call.rows > 0
  /\ dest' = Routine(batch)
  /\ call' = [rows |-> batch.left, coding |-> call.coding + batch.coding, tbls |-> call.tbls + batch.tbls]
  /\ UNCHANGED <<stage, job, added, parity, kept, in_mat, out_mat, column>>

Coded ==
  /\ stage = "coding" /\ call.rows = 0
  /\ job.update => Len(added) = k
  /\ stage' = "keeping" /\ parity' = dest
  /\ dest' = <<>> /\ call' = NoCall /\ added' = <<>>
  /\ UNCHANGED <<job, kept, in_mat, out_mat, column>>

\* The rows of the fragments that are left, one after the other.
Keep == \E r \in Below(job.m) :
  /\ stage = "keeping" /\ Len(kept) < k
  /\ kept # <<>> => r > kept[Len(kept)]
  /\ r <= job.m - (k - Len(kept))
  /\ kept' = Append(kept, r)
  /\ UNCHANGED <<stage, job, call, dest, added, parity, in_mat, out_mat, column>>

StartInvert ==
  /\ stage = "keeping" /\ Len(kept) = k
  /\ stage' = "inverting"
  /\ in_mat' = [i \in Below(k) |-> EncodeRow(kept[i + 1])] /\ out_mat' = Identity
  /\ UNCHANGED <<job, call, dest, added, parity, kept, column>>

-----------------------------------------------------------------------------
\* gf_invert_matrix, a column at a time.
Pivots_Mut(i) == {j \in i + 1 .. k - 2 : in_mat[j][i] # 0}
Pivots(i)     == {j \in i + 1 .. k - 1 : in_mat[j][i] # 0}
Swap(mat, i, j) == [mat EXCEPT ![i] = mat[j], ![j] = mat[i]]
SwapRows(i, j) == <<Swap(in_mat, i, j), Swap(out_mat, i, j)>>
Scale(mat, i, temp) == [mat EXCEPT ![i] = [c \in Below(k) |-> gf_mul[mat[i][c]][temp]]]
Eliminate(mat, i, temp) == [j \in Below(k) |->
  IF j = i THEN mat[i] ELSE [c \in Below(k) |-> Xor[mat[j][c]][gf_mul[temp[j]][mat[i][c]]]]]

InvertColumn ==
  /\ stage = "inverting" /\ column < k
  /\ in_mat[column][column] # 0 \/ Pivots(column) # {}
  /\ \E pivot \in {IF in_mat[column][column] # 0 THEN column
                   ELSE CHOOSE j \in Pivots(column) : \A l \in Pivots(column) : j <= l} :
     \E rows \in {SwapRows(column, pivot)} :
     \E inverse \in {gf_inv[rows[1][column][column]]} :
     \E temp \in {[j \in Below(k) |-> rows[1][j][column]]} :
       /\ in_mat'  = Eliminate(Scale(rows[1], column, inverse), column, temp)
       /\ out_mat' = Eliminate(Scale(rows[2], column, inverse), column, temp)
  /\ column' = column + 1
  /\ UNCHANGED <<stage, job, call, dest, added, parity, kept>>

Singular ==
  /\ stage = "inverting" /\ column < k
  /\ in_mat[column][column] = 0 /\ Pivots(column) = {}
  /\ stage' = "singular"
  /\ UNCHANGED <<job, call, dest, added, parity, kept, in_mat, out_mat, column>>

\* The lost fragments are coded from the kept ones.
Rebuild ==
  /\ stage = "inverting" /\ column = k
  /\ stage' = "rebuilding" /\ dest' = Unwritten(170) /\ call' = AllRows
  /\ UNCHANGED <<job, added, parity, kept, in_mat, out_mat, column>>

Rebuilt ==
  /\ stage = "rebuilding" /\ call.rows = 0
  /\ stage' = "whole"
  /\ UNCHANGED <<job, call, dest, added, parity, kept, in_mat, out_mat, column>>

ErasureNext ==
  \/ Submit \/ Update \/ CodeBatch \/ Coded \/ Keep
  \/ StartInvert \/ InvertColumn \/ Singular \/ Rebuild \/ Rebuilt

-----------------------------------------------------------------------------
\* A sum of products over the indices in S, in the field as polynomials.
SumOver(S, term(_)) ==
  LET sum[j \in 0 .. k] ==
        IF j = 0 THEN 0
        ELSE IF j - 1 \in S THEN Xor[sum[j - 1]][term(j - 1)] ELSE sum[j - 1]
  IN sum[k]
Product(a, b) == gf_mul_table_base[b][a]

\* Between two calls the parity holds the products of the sources given so
\* far, in whatever order they came and in whatever batches, by whichever
\* routines, their rows and their bytes were computed.
ParityIsProduct ==
  stage = "coding" /\ call.rows = 0 =>
    \E given \in {IF job.update THEN {added[i] : i \in DOMAIN added} ELSE Below(k)} :
      \A r \in Parities, p \in Positions :
        LET row == EncodeRow(k + r)
        IN  dest[r][p] = SumOver(given, LAMBDA j : Product(Payload(j, p), row[j]))

\* erasure_code.h: ec_encode_data runs the appropriate version of what
\* ec_encode_data_base does with the same parameters; ec_base_vsx.h: the dot
\* product with three outputs does three dot products across each byte.  The
\* routines of every processor give the bytes that the base routine gives.
EncodedAsBase ==
  stage = "coding" /\ call.rows = 0 /\ ~job.update =>
    \A r \in Parities : dest[r] = ec_encode_data_base(EncodeRow(k + r), Sources)

\* Every swap, scaling and elimination does to the result what it does to
\* the matrix: at every column the two are related by the matrix given.
EliminationKeepsProduct ==
  stage \in {"inverting", "singular"} =>
    \E given \in {[i \in Below(k) |-> EncodeRow(kept[i + 1])]} :
      \A i \in Below(k), c \in Below(k) :
        in_mat[i][c] = SumOver(Below(k), LAMBDA j : Product(out_mat[i][j], given[j][c]))

\* gf_invert_matrix gives up only on a singular matrix: the columns done so
\* far name a vector other than zero that the matrix given maps to zero.
SingularHasKernel ==
  stage = "singular" =>
    LET x == [c \in Below(k) |-> IF c < column THEN in_mat[c][column] ELSE IF c = column THEN 1 ELSE 0]
    IN  \A i \in Below(k) :
          SumOver(Below(k), LAMBDA j : Product(EncodeRow(kept[i + 1])[j], x[j])) = 0

\* The sizes for which erasure_code.h says that no choice of fragments of
\* gf_gen_rs_matrix is singular.
NoAdjustment ==
  \/ k <= 3 \/ (k = 4 /\ job.m <= 25) \/ (k = 5 /\ job.m <= 10)
  \/ (k <= 21 /\ job.m - k = 4) \/ job.m - k <= 3

\* Any k fragments of a Cauchy matrix, and of the other within its limits,
\* give back the rest.
AnyRestDecodes == stage = "singular" => job.kind = "rs" /\ ~NoAdjustment

\* What is rebuilt, sources and parity, is what was lost.
RebuiltAsLost ==
  stage = "whole" => \A r \in Parities : dest[r] = Fragment(frag_err_list(r))

\* gf_invert_matrix ends with an inverse, or with a matrix that has none.
InverseIsRight == EliminationKeepsProduct /\ SingularHasKernel

\* Any fragments lost are rebuilt, where the header says that they can be.
LostIsRebuilt == RebuiltAsLost /\ AnyRestDecodes
=============================================================================
