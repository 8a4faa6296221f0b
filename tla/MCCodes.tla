------------------------------ MODULE MCCodes ------------------------------
EXTENDS Codes

\* Real sizes at and about the limits of erasure_code.h, one byte long.
Matrix(kind, sources, all) ==
  [kind |-> kind, k |-> sources, m |-> all, len |-> 1, arch |-> "base", update |-> FALSE]
MCMatrices ==
  {Matrix("rs", 3, 9), Matrix("rs", 4, 25), Matrix("rs", 5, 10), Matrix("rs", 5, 11), Matrix("rs", 7, 11),
   Matrix("rs", 8, 11), Matrix("rs", 10, 14), Matrix("cauchy", 4, 12), Matrix("cauchy", 10, 14)}

\* Rows about the sizes of the batches, bytes about the sizes of the chunks.
\* With VSX_MADS sources or more a VSX routine for three to five rows comes
\* out wrong where GCC 8 or later builds it; MCManySources is for those.
Job(sources, rows, bytes, processor, updating) ==
  [kind |-> "cauchy", k |-> sources, m |-> sources + rows, len |-> bytes,
   arch |-> processor, update |-> updating]
MCBatches ==
  {[Job(2, r, 3, a, u) EXCEPT !.kind = "rs"] :
     r \in {1, 4, 7, 9, 11, 12}, a \in {"sse", "gfni", "neon", "sve", "rvv", "vsx"}, u \in BOOLEAN}
MCChunks ==
  {Job(s, r, l, a, u) : s \in {2, 3}, r \in {1, 3}, l \in {1, 4, 5, 7}, a \in {"sse", "vsx_gcc7"}, u \in BOOLEAN}
  \cup {Job(s, r, l, "vsx", u) : s \in {2, 3}, r \in {1, 2, 6}, l \in {1, 4, 5, 7}, u \in BOOLEAN}
MCManySources == {Job(s, r, l, "vsx", FALSE) : s \in {2, 3}, r \in {2, 3, 9}, l \in {1, 4, 5}}

MCJobs == MCMatrices \cup MCBatches \cup MCChunks
MCPayload(j, i) == (37 * (j + 1) + 91 * i) % 256

\* Calls with rooms at and about what the stored input needs, and far below:
\* runs with every kind of remainder, no input, and one and two stored blocks.
Call(input, room, table, format, flush) ==
  [size |-> input[1], run |-> input[2], room |-> room, level |-> table[1], header |-> table[2],
   format |-> format, flush |-> flush[1], end |-> flush[2]]
Inputs  == {<<0, 0>>, <<1, 0>>, <<9, 9>>, <<267, 267>>, <<368, 368>>, <<4500, 0>>, <<4500, 4325>>,
            <<65535, 0>>, <<65536, 0>>, <<65539, 4480>>}
Codings  == {<<0, 0>>, <<0, 109>>, <<1, 0>>}
Wrappers == {"raw", "gzip", "zlib"}
Flushes == {<<FALSE, FALSE>>, <<TRUE, FALSE>>, <<TRUE, TRUE>>}
Rooms(input, format) == {room \in {stored_len(input[1], format) + d : d \in {-5, -1, 0, 3}} \cup {30, 300} : room >= 0}
Calls(inputs) ==
  UNION {{Call(i, room, t, f, e) : room \in Rooms(i, f), t \in Codings, e \in Flushes} :
           i \in inputs, f \in Wrappers}
MCFirst == Calls(Inputs)
MCLater == Calls({<<0, 0>>, <<368, 368>>, <<65536, 0>>})
=============================================================================
