----------------------------- MODULE IgzipFiles -----------------------------
(***************************************************************************)
(* igzip with one thread: its list of files, each read, passed through the *)
(* library and written in buffers of a fixed size.  Data is counted in     *)
(* units: those of a compressed file are named, those of plain data are    *)
(* not.  isal_deflate and isal_inflate promise what DeflateStream and      *)
(* InflateStream show of them; stdio writes when it likes, and at fclose.  *)
(***************************************************************************)
EXTENDS Integers, Sequences

CONSTANTS
  Lists,            \* lists of files: what each is, what to do with it, and
                    \* whether opening, reading and writing may fail
  InBuf, OutBuf,    \* in_buf_size, out_buf_size
  CloseFails        \* whether what is left to write at fclose may fail

VARIABLES
  todo,             \* files to go; the first is being worked on
  at,               \* where in the program
  read, eof,        \* units read of it, and feof(in)
  avail_in, avail_out,
  lib,              \* what the library keeps
  written, disk,    \* units passed to fwrite, and those in the file
  success,
  results           \* of the files done

ioVars   == <<read, eof, avail_in, avail_out, lib, written, disk, success>>
fileListVars == <<todo, at, ioVars, results>>

\* A plain file has plain units, which compress to a total of code.  A
\* compressed file has members, then a tail that is not a whole member.
File   == todo[1]
Joined(members) ==
  LET j[i \in 0 .. Len(members)] == IF i = 0 THEN <<>> ELSE j[i - 1] \o members[i] IN j[Len(members)]
Content(f) == Joined(f.members) \o f.tail
Size(f)    == IF f.mode = "compress" THEN f.plain ELSE Len(Content(f))

\* m1 and m2 are the bytes 31 and 139, h the rest of a header and e its last
\* unit, b a unit of data, which gives that many plain units, t the trailer;
\* any other is an error in a member, or junk after the last.
Gives == [h |-> 0, e |-> 0, b0 |-> 0, b1 |-> 1, b3 |-> 3, t |-> 0]
Plain(s) ==
  LET n[i \in 0 .. Len(s)] ==
        IF i = 0 THEN 0 ELSE n[i - 1] + (IF s[i] \in DOMAIN Gives THEN Gives[s[i]] ELSE 0)
  IN  n[Len(s)]

Least(a, b) == IF a < b THEN a ELSE b
HeaderUnit  == 1                    \* what isal_write_gzip_header put into outbuf
NewMember   == [pending |-> 0, taken |-> 0, done |-> FALSE, finished |-> FALSE, failed |-> FALSE]
NewStream   == [made |-> HeaderUnit, end_of_stream |-> FALSE]

InitFiles ==
  /\ todo \in Lists /\ at = "next_file" /\ results = <<>>
  /\ read = 0 /\ eof = FALSE /\ avail_in = 0 /\ avail_out = 0 /\ lib = NewMember
  /\ written = 0 /\ disk = 0 /\ success = FALSE

-----------------------------------------------------------------------------
\* stdio.  The end of a file is noticed when less is read than asked for.
fread ==
  LET got == Least(InBuf, Size(File) - read)
  IN  avail_in' = got /\ read' = read + got /\ eof' = (eof \/ got < InBuf)

fread_if(needed) == IF needed THEN fread ELSE UNCHANGED <<avail_in, read, eof>>

fwrite == /\ written' = written + (OutBuf - avail_out)
          /\ disk' \in {disk, written'}

\* The file's function begins, or returns as a file cannot be opened.
OpenFiles ==
  /\ at = "next_file" /\ todo # <<>>
  /\ read' = 0 /\ eof' = FALSE /\ avail_in' = 0 /\ written' = 0 /\ disk' = 0 /\ success' = FALSE
  /\ \/ /\ File.mode = "compress"
        /\ at' = "fill" /\ lib' = NewStream /\ avail_out' = OutBuf - HeaderUnit
     \/ /\ File.mode # "compress"
        /\ at' = "header" /\ lib' = NewMember /\ avail_out' = OutBuf
     \/ /\ File.faulty /\ at' = "cleanup" /\ UNCHANGED <<lib, avail_out>>
  /\ UNCHANGED <<todo, results>>

\* fread_safe and fwrite_safe leave the program.
IoError ==
  /\ at \in {"fill", "write", "header", "member", "more_member", "inflated", "more_inflated", "another"}
  /\ File.faulty
  /\ at' = "exit"
  /\ UNCHANGED <<todo, ioVars, results>>

-----------------------------------------------------------------------------
\* compress_file
FillInput ==
  /\ at = "fill" /\ at' = "deflate"
  /\ fread_if(avail_in = 0)
  /\ lib' = IF avail_in = 0 THEN [lib EXCEPT !.end_of_stream = eof'] ELSE lib
  /\ UNCHANGED <<todo, results, avail_out, written, disk, success>>

\* isal_deflate takes all its input or fills its output.
isal_deflate ==
  /\ at = "deflate" /\ at' = "write"
  /\ \E t \in 0 .. avail_in, w \in 0 .. Least(avail_out, File.code - lib.made) :
       LET whole == lib.end_of_stream /\ t = avail_in
       IN  /\ w = avail_out \/ t = avail_in
           /\ IF whole THEN w < avail_out => lib.made + w = File.code ELSE lib.made + w < File.code
           /\ avail_in' = avail_in - t /\ avail_out' = avail_out - w
           /\ lib' = [lib EXCEPT !.made = @ + w]
  /\ UNCHANGED <<todo, results, read, eof, written, disk, success>>

MoreToCompress_Mut == ~eof
MoreToCompress     == ~eof \/ avail_out = 0

WriteCompressed ==
  /\ at = "write" /\ fwrite
  /\ avail_out' = OutBuf
  /\ at' = IF MoreToCompress THEN "fill" ELSE "cleanup"
  /\ success' = ~MoreToCompress
  /\ UNCHANGED <<todo, results, read, eof, avail_in, lib>>

-----------------------------------------------------------------------------
\* decompress_file, with -t too.
Unit(i)  == Content(File)[i]
Position == read - avail_in                 \* units that the library has had

\* Whether unit i goes on with a member of which so many units were taken.
Legal(i, taken) ==
  IF taken = 0 THEN Unit(i) = "m1" ELSE IF taken = 1 THEN Unit(i) = "m2" ELSE Unit(i) \in DOMAIN Gives

\* The first buffer must have the whole header of the first member; if it
\* does not, the file is refused and no output is opened.
ReadHeader ==
  /\ at = "header"
  /\ LET got   == Least(InBuf, Size(File))
         Ends  == {i \in 3 .. got : Unit(i) = "e"}
         first == IF got >= 2 /\ Unit(1) = "m1" /\ Unit(2) = "m2" /\ Ends # {}
                  THEN CHOOSE i \in Ends : \A k \in Ends : i <= k ELSE 0
     IN  /\ read' = got /\ eof' = (got < InBuf) /\ avail_in' = got - first
         /\ lib' = [NewMember EXCEPT !.taken = first]
         /\ at' \in IF first = 0 THEN {"cleanup"} ELSE IF File.faulty THEN {"member", "cleanup"} ELSE {"member"}
  /\ UNCHANGED <<todo, results, avail_out, written, disk, success>>

\* Only the loop for the first member reads on at the end of the file.
FillMember ==
  /\ at \in {"member", "more_member"}
  /\ at' = IF at = "member" THEN "inflate" ELSE "more_inflate"
  /\ fread_if(avail_in = 0 /\ (at = "member" \/ ~eof))
  /\ avail_out' = OutBuf
  /\ UNCHANGED <<todo, results, lib, written, disk, success>>

\* isal_inflate uses all its input or fills its output, or reaches the
\* member's end or an error; what it has decoded and not delivered it keeps.
isal_inflate ==
  /\ at \in {"inflate", "more_inflate"}
  /\ \E t \in IF lib.done THEN {0} ELSE 0 .. avail_in :
       LET Took(i) == Unit(Position + i)
           give == lib.pending + Plain(SubSeq(Content(File), Position + 1, Position + t))
           w    == Least(avail_out, give)
           done == lib.done \/ (t > 0 /\ Took(t) = "t")
           bad  == ~done /\ t < avail_in /\ ~Legal(Position + t + 1, lib.taken + t)
       IN  /\ \A i \in 1 .. t : Legal(Position + i, lib.taken + i - 1) /\ (i < t => Took(i) # "t")
           /\ w = avail_out \/ t = avail_in \/ done \/ bad
           /\ \E failed \in {f \in BOOLEAN : (f => bad) /\ (bad /\ w < avail_out => f)} :
                /\ lib' = [pending |-> give - w, taken |-> lib.taken + t, done |-> done,
                           finished |-> done /\ give = w, failed |-> failed]
                /\ at' = IF failed THEN "cleanup" ELSE IF at = "inflate" THEN "inflated" ELSE "more_inflated"
           /\ avail_in' = avail_in - t /\ avail_out' = avail_out - w
  /\ UNCHANGED <<todo, results, read, eof, written, disk, success>>

MoreToInflate_Mut == ~lib.finished
MoreToInflate     == ~lib.finished /\ (~eof \/ avail_out = 0)

WriteInflated ==
  /\ at \in {"inflated", "more_inflated"}
  /\ IF File.mode = "test" THEN UNCHANGED <<written, disk>> ELSE fwrite
  /\ at' = IF ~MoreToInflate THEN "another" ELSE IF at = "inflated" THEN "member" ELSE "more_member"
  /\ UNCHANGED <<todo, results, read, eof, avail_in, avail_out, lib, success>>

\* Another member begins with 31 139, or with 31 at the end of the buffer.
LookForAnother ==
  /\ at = "another"
  /\ fread_if(~eof /\ avail_in = 0)
  /\ at' = "magic"
  /\ UNCHANGED <<todo, results, avail_out, lib, written, disk, success>>

Magic == /\ avail_in > 0 /\ Unit(Position + 1) = "m1"
         /\ avail_in > 1 => Unit(Position + 2) = "m2"

NextMember ==
  /\ at = "magic" /\ Magic
  /\ at' = "more_member" /\ lib' = NewMember
  /\ UNCHANGED <<todo, results, read, eof, avail_in, avail_out, written, disk, success>>

NoMoreMembers ==
  /\ at = "magic" /\ ~Magic
  /\ at' = "cleanup" /\ success' = lib.finished
  /\ UNCHANGED <<todo, results, read, eof, avail_in, avail_out, lib, written, disk>>

-----------------------------------------------------------------------------
\* What fclose returns is not looked at.
CloseFiles ==
  /\ at = "cleanup" /\ at' = "next_file"
  /\ \E done \in {written} \cup (IF CloseFails THEN {disk} ELSE {}) :
       results' = Append(results, [file |-> File, success |-> success, disk |-> done,
                                   removed |-> success /\ File.remove])
  /\ todo' = Tail(todo) /\ disk' = 0
  /\ UNCHANGED <<read, eof, avail_in, avail_out, lib, written, success>>

FilesNext ==
  \/ OpenFiles \/ IoError \/ FillInput \/ isal_deflate \/ WriteCompressed
  \/ ReadHeader \/ FillMember \/ isal_inflate \/ WriteInflated
  \/ LookForAnother \/ NextMember \/ NoMoreMembers \/ CloseFiles

\* The program runs; its files are finite.
FilesSpec == InitFiles /\ [][FilesNext]_fileListVars /\ WF_fileListVars(FilesNext)

-----------------------------------------------------------------------------
\* What the output of a file should be.
Output(f) ==
  CASE f.mode = "compress" -> f.code [] f.mode = "test" -> 0 [] OTHER -> Plain(Joined(f.members))

\* A compressed file without members, or cut within one, or with a member
\* that has an error, is not whole; nor, by the rule of two magic bytes, is
\* one with a last member that ends there.  Other bytes after it are junk.
Starts(s) == s # <<>> /\ s[1] = "m1" /\ (Len(s) > 1 => s[2] = "m2")
Broken(f) == f.mode # "compress" /\ (f.members = <<>> \/ Starts(f.tail))
ShortHeader(f) == f.mode # "compress" => \E i \in 1 .. Least(InBuf, Size(f)) : Content(f)[i] = "e"
Whole(f) == f.mode # "compress" => f.members # <<>> /\ (f.tail = <<>> \/ f.tail[1] # "m1")

\* A file is reported as done only if all its input went through the library
\* and all that came out is in the file, each member to its last unit and none
\* left over, wherever the buffers end; a file that is cut or damaged never
\* is; and one that is whole always is, if no call of the system fails.
SuccessIsWhole ==
  \A i \in DOMAIN results : LET r == results[i] IN
    /\ r.success => ~Broken(r.file) /\ r.disk = Output(r.file)
    /\ ~r.file.faulty /\ Whole(r.file) /\ ShortHeader(r.file) => r.success

\* Every file is finished, cut and damaged ones too: no loop waits for input
\* that does not come.
RunEnds == <>(at = "exit" \/ (at = "next_file" /\ todo = <<>>))

\* igzip's usage: --rm removes source files after successful (de)compression.
\* A source file is removed only when its output is all in the file.
RemovedAfterOutput ==
  \A i \in DOMAIN results : results[i].removed => results[i].disk = Output(results[i].file)
=============================================================================
