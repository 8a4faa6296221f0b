# A TLA+ model of ISA-L

ISA-L is a library of storage functions (deflate compression and
decompression, erasure code, RAID parity, checksums) and a command, `igzip`,
built on it. The library is sequential C called from one thread at a time; its
difficulty is in calls that stop wherever the input or the output ends and must
go on from there. The command compresses with a pool of threads; its difficulty
is what threads and condition variables always bring. This project models both
kinds, checks the models with TLC and proves the results that matter most with
TLAPS.

## 1. The system's parts

| Part | State it keeps | Operations | What makes it correct | Here |
|---|---|---|---|---|
| Thread pool of `igzip` (`programs/igzip_cli.c` 425-797) | a ring of job slots (`head`, `queue`, `tail`), `shutdown`, mutex, condition variable | create, put and take a job, worker loop, main's fill and drain loop, quit | a slot has one owner; blocks are written in order, once; everyone ends | `ThreadPool` |
| Streaming deflate, level 0 (`igzip.c`, `igzip_base.c`, `bitbuf2.h`) | `isal_zstate`: state, bit buffer, header progress, 16 bytes of undelivered output | `isal_deflate`, `_reset`, `_set_hufftables` | output is one well-formed stream whatever the sizes of the calls; flushes keep their promise; no store past the end | `DeflateStream` |
| History and input buffer of `isal_deflate` (`igzip.c` 1489-1713) | `buffer`, `b_bytes_valid`, `b_bytes_processed` | the loop of `isal_deflate`, dictionaries | input is compressed once, in order; history a match may use is there | `DeflateBuffer` |
| Levels 1 to 3 (`igzip.c` 200-540, `igzip_icf_*.c`) | level buffer of symbols, match map, stored blocks under way | symbols, header, coding, stored blocks | a block's symbols are its input; a stored block re-reads the right bytes; matches found ahead are not passed by | which bytes are read and when, in `DeflateBuffer`; not the bits they become |
| Stateless deflate (`igzip.c` 614-876, 1363-1487) | `has_wrap_hdr` and `total_in` between calls, all of `isal_zstate` in between | one call, or a stream of several with `FULL_FLUSH` | the room a stored copy takes always suffices; nothing of a failed attempt is left | `DeflateStateless` |
| gzip and zlib headers (`igzip.c` 1066-1176, `igzip_inflate.c` 1769-2122) | `count`, `tmp_in_buffer`, the header's fields | write, read over split input and small buffers | what is written is read back, wherever it is cut | `GzipHeader` |
| Inflate (`igzip_inflate.c`) | `inflate_state`: block state, bits read, output decoded ahead, overflow | `isal_inflate`, `_stateless`, `_set_dict`, `_reset` | every byte is delivered once; input splits do not matter; `next_in` is exact | `InflateStream` |
| Huffman codes (`huff_codes.c`, `proc_heap_base.c`, `igzip_inflate.c` 200-760 and 1226-1391) | none between calls | code lengths from a histogram, limiting, block headers, decoding tables | a complete prefix code within the limit, which the decoder's tables read back | `HuffmanTree`, `HuffmanHeader`, `HuffmanDecode`, composed in `Huffman` |
| Erasure code (`erasure_code/`) | the caller's matrices and parity | tables, encode, update, invert | what is lost is rebuilt, on every processor | `GaloisField`, `ErasureCode` |
| RAID, checksums, zero detection (`raid_base.c`, `crc_base.c`, `crc64_base.c`, `adler32_base.c`, `mem_zero_detect_base.c`) | the caller's seed | generate, check, update | a check finds what a generator did not write; the same sum for any split of the text | `Raid`, `Checksums`, `ZeroDetect` |
| `igzip` with one thread (`igzip_cli.c` 320-420, 574-1025) | two buffers, a stdio stream each | compress, decompress and test a list of files | a file reported as done is whole; sources are removed only then | `IgzipFiles` |
| zlib shim (`igzip/shim`) | zlib's `z_stream` | zlib's calls | zlib's return codes | not modelled |
| Assembly, dispatch, tables, tests, benchmarks | | | | not modelled: each function modelled is the C form, which the assembly repeats |

How they interact: the pool calls stateless deflate on each block and joins the
results into one gzip file; `isal_deflate` calls the level's pass and the
header, trailer and flush functions, all of which read and write the shared
`isal_zstate`; the user talks to it through the `isal_zstream` fields between
calls. Inflate is the same on the other side, with the decoding tables between
the block headers and the symbols. The command is a user of both; it holds what
the user of the models is assumed to do. There are no callbacks, and nothing is
persisted but the command's files.

What is hard: for the pool, the interleaving of threads, the accesses made
without the mutex, wake-ups, and errors half-way through a file. For the
streams, an order of calls, sizes and requests that no test tries: each state
can be left and entered at any byte. `PROJECT.json` lists these as hazards, each
at its line and with the property that watches it.

## 2. Modules

| Module | What it is |
|---|---|
| `GzipFileWriter` | abstract: what the command promises of its output files |
| `ThreadPool` | the pool; implements `GzipFileWriter` |
| `MCThreadPool` | small instances of it |
| `ThreadPoolProofs` | theorems about it, and the proof that it implements `GzipFileWriter` |
| `DeflateFormat` | abstract: what a decoder needs of the output of `isal_deflate` |
| `DeflateStream` | `isal_deflate` at level 0; implements `DeflateFormat` |
| `MCDeflateStream` | small instances of it |
| `DeflateStreamProofs` | theorems about its output: types, no overrun, nothing lost |
| `DeflateFormatProofs` | the proof that it implements `DeflateFormat`, and theorems about flushes |
| `DeflateBuffer` | where `isal_deflate` reads input and history from, dictionaries, stored blocks, level 3's map |
| `DeflateBufferProofs` | theorems about the buffer, the input and the blocks |
| `DeflateWindowProofs` | theorems about the distances that matches may have, and about what a call leaves undone |
| `DeflateStateless` | `isal_deflate_stateless` |
| `GzipHeader` | the writers and readers of the two headers |
| `GzipHeaderProofs` | theorems about them |
| `InflateStream` | `isal_inflate` and `isal_inflate_stateless` |
| `InflateStreamProofs` | theorems about their input and their buffers |
| `InflateOutputProofs` | the theorem that they deliver the stream |
| `HuffmanCode` | what writer and reader of codes share |
| `HuffmanTree` | from a histogram to a code |
| `HuffmanHeader` | code lengths written into a block header and read from it |
| `HuffmanDecode` | the decoder's tables |
| `Huffman` | the three in a row |
| `Words` | bytes and words with C's bit operations |
| `GaloisField`, `ErasureCode` | erasure code: the field; matrices, coding, loss and rebuilding |
| `Raid`, `Checksums`, `ZeroDetect` | as they say |
| `Codes` | erasure code, RAID, checksums, zero detection and stateless compression, which share only helpers, side by side |
| `IgzipFiles` | the command with one thread |
| `Igzip` | `main`: the pool with `-T`, the loops of `IgzipFiles` without |
| `MC...` | small instances of the module of that name |

A definition whose name ends in `_Mut` is a slip somebody could make in the
definition after it. No specification uses it; it documents that a property
notices the slip.

### ThreadPool

Each thread has a program counter `pc[t]`. A section of code between
`pthread_mutex_lock` and `unlock` is one action, for all it touches is touched
only there; each access the code makes outside the mutex is an action of its
own: a worker's test of `shutdown` (`WorkerTestShutdown`, line 504), its stores
of `total_out` and `status` (532, 533), the main thread's test of `status`
(`DrainTestStatus`, 698) and its release of the slot (`WriteBlock`, 707-713).
`Signal` wakes any one waiting worker and `Broadcast` all; a wait may end for no
reason (`WorkerWakeSpuriously`).

`Deflate(t)` is `isal_deflate_stateless`: it writes a chunk that carries which
block of which file was in the slot's piece of `in_buf` at that time, so a slot
or a buffer reused too early shows in the output file. What it returns is in
`CheckResults`: the code turns it into a status by an addition in a `uint32_t`
(`StatusOf`). `STATELESS_OVERFLOW`, which that addition would turn into
`JOB_ALLOCATED`, is excluded by `CheckAssumption`: the output slot is twice the
block, more than a stored copy needs.

A file may not be opened (`OpenFails`, lines 612-641), which is reported before
anything is written. Otherwise its header is put together in the first piece of
`out_buf` (`OpenFile`) and written from there (`WriteHeader`): the piece of the
first job, in which a worker left on a job of an abandoned file may still be
writing. `AbandonFile` is that error path: it leaves the ring as it is, as the
code does. So `GzipFileWriter` leaves open what a file begins with once an
earlier one has been abandoned, but not that such a file is never a success.

`ReorderStores` says whether the two stores of a finished job may be seen in
either order. Nothing in the source orders them; on x86-64, as compiled, they
are in order.

### DeflateStream

One call of `isal_deflate` is a run of actions from `Call` to `Return`, in the
order the code calls its functions; `pc` is the place in the call. `Drain` is
the head of `isal_deflate_int`; `Stage` picks the first function of a pass for a
state; `WriteHeaderAlign`, `write_stream_header`, `WriteDeflateHeader` and
`WriteHeaderBits` are `write_header`; `Body...` and `Finish...` are
`isal_deflate_body` and `_finish`, a symbol at a time; `WriteFinalBlock`,
`WritePadding` and `WriteTrailer` are `write_trailer`; `SecondPass` and
`EndSecondPass` are the pass into `tmp_out_buff`. The state's `TMP_` prefix is
the variable `tmp`.

Output is counted, in bytes and in the bits waiting in the bit buffer. Every
use of the bit buffer stores 8 bytes (`Store`), which is what `overrun` watches.
`has_eob` is left out: level 0 writes it and never reads it.
`ZSTATE_FLUSH_WRITE_BUFFER` is a state of levels 1 to 3 only. What is coded is
literals and matches of one length each out of a set of code lengths; which of
them is the data's choice, so all are tried.

The user (`Call`) brings new input, output room out of `OutSizes`, a flush and
`end_of_stream`. With `FeedMidFlush` FALSE it lets a flush it asked for
complete, in the sense of `igzip_lib.h` (room left, or state `ZSTATE_NEW_HDR`),
before it adds input or asks for something else, and keeps `end_of_stream` once
set; with TRUE it only does the latter.

The history variables are `coded`, `phase` and `final` (what of the format has
been written), `undelivered`, `sealed` (a full flush is complete and the hash
table has not been forgotten since) and `overrun`. `DeflateFormat` is a grammar
of streams over them: the refinement fails at the first step that writes what
the format does not allow there.

### DeflateBuffer

The same function seen from its input. A call is `Call` (entry: the hash table
is forgotten, or the dictionary indexed), rounds of `RoundInternal` or
`RoundExternal`, then `Drain`, the handlers of a pass and `Settle`, and at the
end `Return`, which saves history and look-ahead. `get_hist_size` is the code's,
with what differs between its two calls as parameters: within a round through
the buffer it runs before `b_bytes_processed` is advanced, so it counts the
input twice, as in the code. While a pass runs, `done` is how far `next_in` has
gone; `Seen`, `Pos` and `At(i)` are `avail_in`, `total_in` and the byte at
`next_in + i` as the pass sees them. `masked` stands for the two fields the
code overwrites for a round that is not the last.

A byte is a number that says where it comes from, so memory that has been
reused or never belonged to the call shows. `oldest` is the lowest index the hash
table may hold: the entries are 16-bit positions, so a distance is possible if
it is at most `dist_mask` and does not reach behind `oldest`. Which bytes
really match is the data's choice; the model asks of every possible distance
what the code would find there. `base` and `dict` say what a decoder has: a full
flush and a dictionary start its window anew.

Output is in units: `room` counts them, a header of a stored block and each of
its bytes takes one, and what a handler of coded output takes is open. `room`
includes what the pass into `tmp_out_buff` can take, so a handler that stops
leaves none; `tmp` says that some of it has not reached the user. `ZSTATE_HDR`
of level 1 is part of `FLUSH_ICF_BUFFER`. That a block's codes came out longer
than the block, which makes the code store it, is the data's choice too.

Level 3 works as level 1 with a step in between: `gen_icf_map` finds the matches
of up to `MapSize` bytes ahead, `compress_icf_map` turns as much of the map into
symbols as the level buffer holds, and what is left of it waits for the next
call (`icf_body_next_state`). `Farthest` is the byte that a match found now may
reach to.

### DeflateStateless

Sizes are the code's own: rooms and blocks in bytes, codes in bits. A call makes
an attempt at compression in at most the room that the input stored would take
(`stored_len`), and on any failure takes everything back and stores the input.
What it has written is a sequence of tokens, each with the input it covers and
its bits, so an attempt that is taken back in part leaves a token behind, and a
byte too many shows in `BitsOf`. The block for a run of zeros or ones is
modelled to the bit (`Fixup`: which codes make up what the 258-byte matches
leave over), since its room is guarded by an estimate made beforehand. What
coded data takes is open, between hardly anything and more than its own size, and
the output may be found full anywhere (`RunOut`).

### GzipHeader, InflateStream

`GzipHdr` and `ZlibHdr` are what a user gives the writers. `OpenHdr` is a header
with a string that fills its buffer: the writer puts no NUL behind it, and
nobody can tell where it ends. What is read back is said of the others; that no
buffer is overrun, of all (the text of a string holds no NUL).

A reader of headers is called with any number of bytes; each stage of the code's
`switch` is an action that takes what there is and returns `end_input`, or
`..._overflow` for a field whose buffer is too small, which the user then
replaces. `FreshHdr` makes the reader the one inside `isal_inflate`, whose
`struct isal_gzip_header` is a local variable.

`InflateStream` follows a call from `Call` through decoding into
`tmp_out_buffer`, `Deliver`, decoding into the user's memory, and `Save`, which
keeps the history the next call needs. The compressed stream is made up as it is
read: `upcoming` is the block header or the group of symbols (what one lookup in
the tables gives) that the decoder is looking at, fixed until it is accepted, so
a header put off or symbols undone are met again unchanged. Bytes are known by
their origin, so a match that reads memory in which its history no longer is
gives the wrong one. `MovesBuffer` says whether a call's input is in memory of
its own.

### Huffman, its parts

`HuffmanTree` keeps the heap, the nodes and the counts in one array, as `struct
heap_tree` does, one action per node that is joined, depth that is found, pair
that is traded. `HuffmanHeader` writes any pair of tables, or lets another
writer put any sequence of tokens, reads them one by one and may run out of
input in each. `HuffmanDecode` fills the short table by lengths, with pairs and
triples of literals in one entry, and the second table group by group of long
codes. `Huffman` hands a code from one to the next.

### Codes, its parts

`ErasureCode` codes a stripe in the calls of one processor family after another:
each batch is a step, with the offsets into tables and destinations that the
code adds up. The matrix of the surviving rows is inverted a column at a time.
`GaloisField` and `Checksums` compute at full width; their tables were compared
with those of the source (`ec_base.h` and the twelve of `crc/`) and are equal.
`Raid` works on words of two bytes, enough for a carry from one to the other.

The VSX routines of ppc64le are written out in C for each number of rows, and
differ: `PlainLoads` names the rows whose tables are loaded by `vec_xl` where all
others use `EC_vec_xl`. `EC_vec_xl` and `EC_vec_permxor` are a pair that depends
on the compiler: a job of processor `vsx` is built by XL or GCC 8 and later,
one of `vsx_gcc7` by an earlier GCC. Every vector routine multiplies by the
tables of two times 16 products, but the GFNI kernels, whose affine tables are
assembly's to read and are not modelled: of them only the batches are.

### IgzipFiles

A compressed file is a sequence of named units, its bytes as far as the loops
of `decompress_file` look at them: the two of the magic number, the rest of a
header, data that gives none, one or three units of output, the trailer, others.
Plain data is counted. `isal_deflate` and `isal_inflate` are one action each with
what `StreamEnds`, `InputAccounted` and `ReturnsForAReason` of their modules say
of a call: it uses all its input or fills its output, unless it is done or meets
an error. `fread` sets `eof` only when it gets less than it asked for; `fwrite`
passes units on to stdio, which writes them then or at `fclose`. Any system call
may fail for a file that is `faulty`.

## 3. What is checked

| Run | Instance | Properties | What it shows |
|---|---|---|---|
| `igzip` | with `-T`: 2 workers and main, 4 slots, 2 files of up to 4 blocks, files that cannot be opened, failing jobs; without: files whole, cut, damaged, with junk behind, failing system calls; fair scheduling | `JobsOwnedOnce`, `SuccessIsComplete`, `BusyInputKept`, `FilesWrittenInOrder`, `PoolEnds`; `SuccessIsWhole`, `FilesEnd` | one owner per slot; a success is complete; inputs do not change under a job; files refine `GzipFileWriter`; no lost wake-up, the process ends; what is reported as done is whole, what is whole is done; every loop ends |
| `deflate` | a user that lets flushes complete, resets, table changes, 4 formats, fair | `NoOverrun`, `OutputInOrder`, `FlushGuarantee`, `RightFormat`, `FullFlushIndependent`, `StreamEnds` | any such sequence of calls gives a well-formed stream, delivered in order, with no store past the end, and ends it; the promises of `igzip_lib.h` about flushes |
| `buffer` | levels 0, 1 and 3, inputs larger than the buffer, dictionaries, resets | `TypeOK`, `MatchesInWindow`, `InputInOrder`, `WholeBlocks`, `CallIsWhole` | bytes are coded once and in order; a match finds what the decoder has; a stored block's bytes can still be read; blocks cover the input; a call leaves nothing behind |
| `buffer_ahead` | level 3, rooms of 1 and 5 units | `LookAheadThere` violated | matches found ahead whose bytes a full buffer no longer has |
| `header` | every combination of fields, strings without a NUL, cut anywhere, buffers too small | `HeaderComesBack`, `BuffersHold`, `HeaderEnds` | what is written is read back; no field overruns its buffer |
| `header_cut` | the same within `isal_inflate` | `HeaderTakenWhole` violated | what was read of a header that is cut is forgotten |
| `inflate` | raw, zlib and gzip, stream and stateless users, bad data, cut input | `DecodesStream`, `InputAccounted`, `BuffersHold`, `ReturnsForAReason`, `StreamEnds` | every byte once, in order, errors only for bad data; `next_in` exact; no internal buffer is overrun; the stream ends |
| `inflate_undo` | a new buffer in each call | `InputInBuffer` violated | `next_in` in front of the buffer |
| `huffman` | all histograms of up to 6 symbols of 4 weights, all small tables | `CodeIsRight`, `CodeIsShort`, `HeaderIsRight`, `TablesAreRight`, `RoundTrip` | complete codes within the limit, optimal without one; headers read as specified; tables decode what the code says |
| `codes` | see below | `FieldIsRight`, `ParityIsProduct`, `InverseIsRight`, `LostIsRebuilt`, `ChecksAreRight`, `SumsOfAllPieces`, `ZeroIffAllZero`, `StatelessFits`, `StatelessWhole` | each code against its definition; a stateless call fits and leaves nothing of an attempt |
| `codes_vsx` | as many sources as the VSX routines take together, 2, 3 and 9 rows, built by GCC 8 | `EncodedAsBase` violated | the third row comes out wrong |
| `files_rm` | `fclose` may fail too | `RemovedAfterOutput` violated | a source removed without its output |

The violations are disagreements between the code and what a comment, a header
or the usage text says; `PROJECT.json` quotes both. Four were reproduced with the
C code, built from the portable functions:

* `buffer_ahead`: at level 3 the matches found for the bytes ahead wait in the
  map for the next call, but the bytes themselves need not fit the internal
  buffer any more, once the call's output is full. With a level buffer of
  `ISAL_DEF_LVL3_LARGE` and 200000 bytes, 131500 of them random and the rest
  zeros, a call with 67475 bytes of room and then one with 300000 make
  `avail_in` wrap around in `compress_icf_map_g`, and the program reads until it
  faults.
* `header_cut`: a gzip header with an extra field and a name fails when it is
  cut between bytes 10 and 15, one with a header CRC wherever it is cut.
* `inflate_undo`: a raw stream of `hi` with seven bytes behind it, room for one
  byte and then a new input buffer of 16 bytes: `avail_in` is 22 and `next_in`
  six bytes before the buffer. A near relation, in `isal_inflate_stateless`: a
  dynamic header cut at three bytes leaves `avail_in` at 4294967291.
* `files_rm`: `igzip --rm -f -o /dev/full f` with a file of three bytes exits with
  0, and `f` is gone.

The fifth was read from the source, as it needs a ppc64le processor:

* `codes_vsx`: `gf_3vect_dot_prod_vsx.c:72-73`, `gf_4vect_dot_prod_vsx.c:80-83` and
  `gf_5vect_dot_prod_vsx.c:88-91, 98-99` load the tables of the third row and of
  those behind it by `vec_xl`. Built by XL or by GCC 8 and later, that gives the
  tables back to front (`ec_base_vsx.h:11-16`), and the parity, or the fragment
  rebuilt, is wrong: for 128 sources and more, three to five rows in the last
  batch and at least 64 bytes. The repository's tests use at most 127 sources.
  The run `codes` leaves these jobs out; with them `ParityIsProduct` and
  `LostIsRebuilt` fail as well.

Definitions that no run checks state what other documentation says and the
model refutes, for a configuration the runs exclude. `ReorderStores` TRUE
refutes `SuccessIsComplete`. With `DictAfterFlush` TRUE, a dictionary set at a
block boundary later than the stream's start as `igzip_lib.h:701-703, 756-758`
allow, `MatchesInWindow` of `DeflateBuffer` fails at level 0: after a flushed
prefix of 107 bytes and a dictionary of 100, a stream started with
`isal_deflate_reset_dict` does not decode with that dictionary; with
`isal_deflate_set_dict` the memory in front of the buffer is compared, and a
prefix of 278 bytes gave a match there (`igzip.c:1225, 1248`). With `FeedMidFlush` TRUE, `FlushedAsDocumented` and
`EndsAsDocumented` (`igzip_lib.h:784, 801`) fail, and `MatchesInWindow` of
`DeflateBuffer` too, as a full flush drops history that the hash table still
points to; random calls on the C code then give, now and then, a stream that
decodes without an error to other bytes. `NoEmptyBlockAfterDrain` (the comment
at `igzip.c:563`) fails for every user: a loop that waits for its flush with the
same small room each time can go on for ever, each call filling its room with
one more empty block.

Observations without a run: the comment at `igzip.c:1578-1579` asserts
`b_bytes_processed >= hist_size` at the entry of a round, which does not hold
while a stored block waits and input is buffered behind it; the buffer only
slides less in that round. A gzip stream made by several stateless calls ends
with the CRC of the last call's input and the length of all of it, since `crc`
is reset in each call and `total_in` is not; nothing in the repository says what
it should be, and `StatelessWhole` states what the code does. The header of
`erasure_code.h` gives the rows of the Reed-Solomon matrix with exponents that
begin one later than the code's, whose first row of parity is all ones. The
second tables of `HuffmanDecode` are bounded for complete codes only; an
incomplete distance code, which the decoder accepts, can by the same arithmetic
need more: at the code's size 23 lengths of 11, one each of 12, 13 and 14 and
three of 15 ask for 86 entries of the 80 in `long_code_lookup`. With
`-N` the test that input and output of `igzip` differ is passed by.

### Bounds, and why they are enough

* `igzip`, with `-T`: the ring has 4 slots where the code has 16, and the files
  have up to 4 blocks, more than the ring's 3 usable slots, so the ring fills,
  wraps and is refilled within a file; two files make the second meet what the
  first left; two workers and the main thread suffice for one to take, one to
  finish or wait and one to write at the same time. All its safety properties
  and the refinement are proved for any size besides. Without: input buffers of
  3 units and output buffers of 2, files of no bytes to several buffers, with
  every unit of a header, a trailer and junk on the last place of a buffer in one
  of them; a list of two files after a failure.
* `deflate`: output rooms of 3, 8 and 20 bytes, about what the code tests (8 for
  the bit buffer, 16 of `tmp_out_buff`). The block header is 0, 3 or 12 bytes
  and 0 to 6 odd bits, where the code's tables have 0 or 109: all that counts is
  that it spans several calls and more than one second pass. Codes are 9 and 46
  bits, so that every alignment arises and a second pass can fill the 16 bytes
  and stop before a flush marker. Input is up to 4 bytes, `LookAhead` 2 for 288
  and a match 2 for 4 to 258: enough for symbols of both loops, in both passes.
* `buffer`: `HistSize` 3 makes a buffer of 7 bytes; calls bring 0, 1, 3 (the
  history) or 9 bytes (more than the buffer), 10 in all, so that a call can go
  through the buffer, slide it, go on to a second round and change over to the
  user's memory, with input and history of earlier calls; a call has room for
  none or 1 unit, so that it stops at every unit. Stored blocks are split
  at 5 bytes, so that a block has two headers; the map of level 3 holds 4.
  Streams are shorter than 2^16 bytes, where the 16-bit positions in the hash
  table begin to repeat; beyond, a distance is any up to `dist_mask`, which adds
  none to those of a stream that is long already. `buffer_ahead` has rooms of 1
  and 5 units: a call must leave matches in the map and find its output full
  with more input than the buffer takes. With those rooms the proved invariants
  fail at level 3 too, which is why the theorems are about levels 0 to 2.
* `header`: base headers of 3 bytes for 10 and 2, lengths of fields of 0 to 3
  with `MaxExtra` 2 for 65535, strings that end in their buffers and not, buffers of none, 1 and 2 bytes, calls that bring
  0, 1, 2 or 5: every field is cut at every place, and does or does not fit.
* `inflate`: bytes of 2 bits and 4 of them in `read_in`, so that a symbol may
  start in any bit and end in another byte; a history of 3, matches as long as
  it and longer than the room; up to 4 headers and groups; input by 1 or 6
  bytes, room for 2 or 4. `LookAhead` 10 is a literal or two, the
  longest match and the four bytes `store_le_u32` writes; of that the code's 288
  are 3, 258 and 4 with room to spare. With 6, a group and its match alone, TLC
  finds a store past the end of `tmp_out_buffer`.
* `huffman`: 2 literals, the end of block, 3 length symbols (one with an extra
  bit), 4 distances; limits of 3 and 5 bits, so that limiting happens; short
  tables of 4 and 2 bits with codes of up to 5, so that second tables do.
* `codes`: matrices at and about the sizes `erasure_code.h` gives as always
  invertible, and one, (5, 11), that is not, so that `singular` is reached; rows
  about the batch sizes of six processor families; bytes about their chunks,
  scaled down (`MIN_LEN` 2, `VSX_CHUNK` 2 and 4), sources about `VSX_MADS`, 3 for
  the code's 128. RAID stripes of up to 6 vectors.
  CRCs at full width on texts of up to 5 bytes; `ADLER_MOD` is the prime 263, so
  that sums wrap within a text, in blocks of 2 bytes for 2^28. The zero test reads
  buffers of up to 20 bytes: two words and every remainder. Stateless calls have
  the code's own sizes: inputs of 0, 1 and 9 bytes, runs with each way of ending,
  one and two stored blocks (65535, 65536, 65539 bytes), rooms at the bound, 5 and
  1 below and 3 above, and small ones; three calls per stream, and after two
  blocks an attempt codes the rest in one.

### Fairness

The pool's `Fairness` is weak fairness of each worker and of the main thread:
the operating system runs every thread that can run, and a thread that asks for
the mutex gets it. Nothing relies on spurious wake-ups. `FairSpec` of
`DeflateStream` says that a call returns, which sequential code does, and that a
user who has set `end_of_stream` calls again until the state is `ZSTATE_END`, as
`igzip_lib.h` asks of it. `GzipHeader` has a user who, asked for more room or
input, brings some. `InflateStream` and `IgzipFiles` are one thread of control:
weak fairness of its next-state action says that it runs. `MainSpec` of `Igzip`
has the fairness of the one way or of the other.

## 4. What is proved

### ThreadPoolProofs

For any number of workers, ring slots, files and blocks (`PoolAssumption`), and
any result of a job that `CheckAssumption` allows, where the stores of a finished
job are seen in program order (`~ReorderStores`, which
`PoolSuccessIsComplete` needs):

* `PoolTypeCorrect`: `Spec => []TypeOK`;
* `PoolJobsOwnedOnce`: a slot that is queued, being worked on or waiting to be
  written is so once, and by one thread;
* `PoolSuccessIsComplete`: the main thread never takes a slot for a success
  before its output and its size are there.

The inductive invariant `IInv` is these three and what makes them inductive:
`QueuedAllocated` (what is between `queue` and `head` has status allocated, so a
worker that takes a slot takes one nobody has finished), `WriteIsFinished` (the
slot the main thread is about to release is done, so its release meets no
worker) and `StoresInOrder` (a worker whose status is still to be stored and
whose size is not has stored the size). One lemma per action shows that it is kept; the
ring arithmetic (an index advanced modulo the number of slots) has lemmas of its
own.

And that the pool writes what the command promises, for the same instances,
stores in program order:

* `PoolWritesInOrder`: `Spec => FilesWrittenInOrder`, that is, `ThreadPool`
  implements `GzipFileWriter` under the mapping of the output files to its
  `files`: every file is its header, each block once, in the order of the input
  and the last one marked, and its trailer, whichever threads take the blocks, in
  whatever order they finish, and whichever fail; once a file has been given up,
  nothing but the beginning of a later one is written, and none is a success;
* `PoolKeepsInput`: while no file has been given up, main overwrites neither the
  piece of `in_buf` nor the slot that a thread is compressing from.

The main thread's steps that write a header, write a block, close the file, give
it up or fail to open it map to the abstract `Open`, `Write`, `Close`, `Abandon`
and `NotOpened`; every other step, of any thread, is a stutter. The invariant is
`RInv == IInv /\ FileInv /\ HeaderInv /\ StuckInv /\ EmptyInv /\ RoundInv`.
`HeaderInv` says that the header being put together is in the first piece of
`out_buf` until it is written, unless a file has been given up. `RoundInv` says which block each slot of the
ring holds, by its distance from `tail` (`Dist`): block `n` of the file is the
`n`-th slot filled, so what main writes next is the block the file wants next.
`StuckInv` is about what a failure leaves: a job that failed stays at the front
of the ring for ever, since `AbandonFile` leaves the ring as it is, so nothing of
a later file is ever taken for a success. The modular arithmetic is in lemmas
about `Dist`.

### DeflateStreamProofs

For any block header, code lengths, match length, look-ahead, sizes of calls and
amount of input, under `DeflateAssumption` (a code, with the 7 bits that may be
waiting, fits the 64-bit buffer; end of block is 1 to 15 bits; the odd bits of a
header are fewer than 8):

* `DeflateTypeCorrect`: `Spec => []TypeOK`;
* `DeflateNoOverrun`: no 8-byte store goes past the user's buffer or
  `tmp_out_buff`;
* `DeflateOutputInOrder`: what was produced and not delivered is what
  `tmp_out_buff` holds, and a pass writes to the user only when that is empty.

`IInv` adds to `TypeOK` three invariants. `OutputInv`: in the second pass,
`undelivered` is what has been taken of the 16 bytes, so it cannot exceed them;
and the last step of `write_header` is only reached with 8 bytes left.
`WrapperInv`: while the gzip or zlib header is unfinished, `count` is below its
size, and after `write_stream_header` the output is full. The code relies on
this silently: `write_header` goes on to the block header with the same `count`,
and only the full output keeps it from copying with a length that has gone
below zero. `InputInv`: what is coded, in `avail_in` and in the buffer is at
most what was given, and the checksum is behind the coded input until it is
updated. Lemmas on the bit buffer (`BitBuffer`, `FlushBitBuffer`, `CopyWrites`)
say what one use of it may produce where 8 bytes are left; `PassKeepsOutput`
turns that into `OutputInv`, whichever function wrote.

### DeflateFormatProofs

Under the assumptions of `DeflateStreamProofs`:

* `DeflateRightFormat`: `Spec => RightFormat`; `DeflateStream` implements
  `DeflateFormat`, whatever tables the blocks use, whatever is flushed and
  whatever room the calls come with. It holds for every user, also one who adds
  input in the middle of a flush;

and for a user who lets flushes complete (`~FeedMidFlush`; TLC refutes the first
without it, `FlushedAsDocumented` above):

* `FlushIsComplete`: `Spec => []FlushGuarantee`;
* `FullFlushForgets`: `Spec => FullFlushIndependent`.

The refinement maps `write_stream_header`'s last step to `Wrapper`, the first
byte of a block's header to `OpenBlock` (or its bits, if it has no bytes), a
symbol to `Code`, the end of block to `CloseBlock`, a flush's empty block to
`Marker`, and so on; the rest stutters. `FInv` says what the code relies on and
no field records: `has_eob_hdr` means "the block under way is the last" only
from its header on, for before that it is set in every header; the bit buffer is
empty whenever a block's header may begin, so the padding branch of
`write_header` is never taken; the checksum follows what is coded pass by pass;
and nothing of the input is left in the states of the trailer. `GInv` adds that
a pass which stops with room for the bit buffer has done what was asked
(`RoomInv`: the test of `avail_out` in each function against the one in
`isal_deflate_int`), and that a user who waits repeats the call (`AskInv`).

### DeflateBufferProofs

For any history size, size of buffer, input, rooms and size of stored blocks
(`BufferAssumption`), whatever the user does, at levels 0, 1 and 2
(`3 \notin Levels`):

* `BufferNeverOverruns`: `Spec => []TypeOK`, where `TypeOK` bounds every index
  into `buffer` by its size and every count by zero;
* `InputIsReadInOrder`: `Spec => []InputInOrder`;
* `BlocksAreWhole`: `Spec => []WholeBlocks`.

The invariant says of each byte of the buffer, and of the user's memory, which
byte of the input it is (`At`, `Seen`, `Pos`), through slides, copies and the
change from the buffer to the user's memory and back. At level 3 it is false:
that is the finding of `buffer_ahead`, so no theorem can leave the assumption
out.

### DeflateWindowProofs

* `MatchesReachWindow`: `Spec => []MatchesInWindow`, with `3 \notin Levels`,
  `~DictAfterFlush` and `~FeedMidFlush`;
* `CallsAreWhole`: `Spec => []CallIsWhole`, with `3 \notin Levels` and
  `~FeedMidFlush`.

TLC refutes each with any one of these assumptions left out; section 3 describes
what the code does there. The first adds to the invariant above how far back the
hash table's oldest entry, the history in memory and the decoder's window reach;
the second what a full output, a pending flush and the end of the stream mean in
each state between two passes of a call.

### GzipHeaderProofs

For any headers, rooms, sizes of calls and of buffers that `HeaderAssumption`
allows, and a user who keeps its header from call to call (`~FreshHdr`; within
`isal_inflate`, which does not, `header_cut` shows what goes wrong):

* `HeadersComeBack`: `Spec => []HeaderComesBack`;
* `HeaderBuffersHold`: `Spec => [](StringsEnd => BuffersHold)`, that is, for
  headers whose strings end in the writer's buffers. Of the others (`OpenHdr`)
  `BuffersHold` is model-checked.

`Layout` says at which byte of the file each field begins (`Start`), from the
writers' code; the bytes of a field are known by their place in it, so what a
buffer holds is compared with what was written byte by byte. `HInv` says of a
reader that waits where in its stage it stands (`Stands`): in a field, how much
of it is in the buffer and that `count` is what is left of it, or, in a string,
what has been taken; in a part of fixed size, that `tmp_in_buffer` holds what
has been taken of it; and the checksum is that of all bytes taken, but at the
checksum itself, where it is complete. The code counts on the last point where
it leaves out the update of the checksum in a call that begins there. Inside a
call, `Ready` says the same before each stage, and one lemma for each of the six
stages leads to the next, whether the call has not come to its entry yet, has
been stopped, or takes the stage. That a string's end is found is a lemma about
`strnlen`, which is defined by CHOOSE: the first NUL is that of the field, since
no byte of a string is one.

### InflateStreamProofs

For any sizes of bytes, `read_in`, history, buffers, calls, headers, groups and
matches that `InflateAssumption` and `StreamAssumption` allow, with state and
without:

* `InputAccountedHolds`: `Spec => []InputAccounted`;
* `BuffersHoldHolds`: `Spec => []BuffersHold`, which includes the types.

`StreamAssumption` is what the decoder takes for granted of its stream and its
constants: what it reads between two loads of `read_in` is no longer than a load
brings (57 bits of 64), a block header takes at least a bit and fits
`tmp_in_buffer`, as a trailer does, no distance is longer than the history, and
a group, its match and `StoreSize` fit into `LookAhead`. The headers of the model
are read in two pieces, each after a load, where a dynamic header of the code is
read in many.

The inductive invariant `IInv` has five parts. `Types`; `Control`, which step of
a call may find which `block_state` and error; `Coming`, that what was looked at
and put back is met again, and that a header saved in `tmp_in_buffer` is not
complete there: so `read_header_stateful` never gives back bytes it did not take
in this call, which no variable records. `InputInv` counts bits as the property
does, and adds that `tmp_in_buffer` is empty outside a header or trailer that was
cut and that a stored block begins on a byte boundary, without which the bits
that are dropped there would not be those the format drops. `Space` says of every
stage how full the buffers are: what overflows is more than nothing only when
the buffer before it is exactly full, and after a call that leaves a block open
there is room for `StoreSize` behind `tmp_out_buffer`'s content, also where
`Save` keeps all of it because the user has not got as much as a history yet.

The arithmetic comes first: what a load moves (`Load`), that reading n bits fails
exactly if the reader holds fewer (`Read`), and from these what a header
(`HeaderTaken`), a group (`ReadGroupBits`) and a trailer (`TrailerRead`) take;
then one lemma for each action.

### InflateOutputProofs

Under the assumptions of `InflateStreamProofs`:

* `DecodesStreamHolds`: `Spec => []DecodesStream`: what the user has been given
  is the next bytes of the stream, each once and in order, behind the dictionary
  and without a byte from before a buffer; between calls `total_out` and the
  checksum are of just these bytes; and a call refuses a stream only for what is
  wrong with it.

The invariant `OutInv` speaks of the buffers as views of the stream: `Shows(b, f,
p, k)` says that the bytes of `b`, from the `f`-th on, are those of `p` from `k +
f` on. `Ahead` lines up what is decoded and not delivered: the rest of
`tmp_out_buffer`, then `write_overflow`, then the match that `copy_overflow` stands
for, which is still periodic in the stream at its distance (`Repeats`). The part
that is not obvious is `Window`: the history a match points into is in the buffer
the match is decoded into, and no field says so. It is, because the first loop
leaves `tmp_out_buffer` only with two windows in it, an error, or no input that
it could go on with (`Starved`), and of the two windows at most one had been
delivered before (`tmp_out_processed <= HistSize`, which `Save` restores). So a
user's buffer that takes all of `tmp_out_buffer` has a window in it before the
second loop decodes a match there, or the second loop finds no match to decode
(`GroupFed`). The latter needs `Coming` of `IInv`: the symbol that was put back for
want of input is the one that is met again. `Verdict`, with `Delivered`, gives
that a right checksum is never found wrong, and `Alone` says all this of
`isal_inflate_stateless`, whose window is the user's whole buffer.

The lemmas on `Shows` do the work for all actions alike: what is appended to the
stream and to a buffer at its end (`BothAppended`), what is cut out of a buffer
(`ShowsPart`), and what `byte_copy` makes of overlapping bytes (`CopyShows`, with
the remainders of `RepeatsLater` where a match is cut in two). Each step of the
loops is then one fact, that it wrote `n` bytes of the stream and what overflowed
(`LoopWrote`), from which `LoopOutput` and `LoopWindow` give the invariant.

### Only model-checked

Liveness (`PoolEnds`, `StreamEnds`, `HeaderEnds`, `FilesEnd`), which needs
ENABLED; level 3; a reader of headers within `isal_inflate`; and everything about
the other modules. The functions of `Words`, `GaloisField`, `Checksums` and the
Huffman modules are defined by recursion over data, which the provers cannot
reason about by induction.

## 5. Plan

1. `StatelessFits`: arithmetic on sizes, for any input and room; the sums over
   blocks would have to become variables first.
2. `IgzipFiles`: what `SuccessIsWhole` says of a file that is decompressed, for
   buffers of any size; the invariant relates `written`, `disk`, `pending` and
   what the members taken so far give.
3. The bits of levels 1 to 3 (`DeflateIcf`), composed with the stages of
   `DeflateStream`; the code of the tokens in a block header.

## 6. Not modelled, and why

* Assembly and processor dispatch: the C forms are modelled, and which runs is
  decided once from the processor's flags. The batches in which a processor's
  erasure code calls its kernels are C and are modelled, as are the VSX kernels;
  the affine tables of the GFNI kernels are not.
* The zlib shim: it maps zlib's calls to the library's, for callers whose
  contract is zlib's and not in this repository.
* Generated tables, tests, benchmarks and examples. The static and the
  pregenerated decoding tables are what the modelled functions would build.
* `isal_update_histogram`, the packed tables of the encoder: tables over all
  symbols without state.
* Matching (which bytes match which) is a choice: whether decoding what was
  encoded gives the input back is not a property of one module here. What
  carries it is split: matches reach what the decoder has (`DeflateBuffer`),
  the format is right (`DeflateStream`), codes and tables agree (`Huffman`), and
  matches and literals come out as sent (`InflateStream`).
* The bits of levels 1 to 3, and of the code of a header's tokens.
* The early returns of stateless deflate for a wrong flush or level; sums of
  `stored_len` that wrap, for inputs within some 330 KB of 2^32 bytes; options,
  names, file times, standard input and output of the command.
* `crc16_t10dif_base` counts with an `int` up to a 64-bit length, which C leaves
  undefined from 2^31 bytes on; the texts of the model are short.
* The compiled program is taken to keep the order of the two stores of a job, as
  on x86-64.
