-------------------------------- MODULE Igzip --------------------------------
(***************************************************************************)
(* main of programs/igzip_cli.c, with -T and without.  With threads to     *)
(* start, the pool is created, the files are compressed by ThreadPool's    *)
(* compress_file and the pool is ended; without, the list of files is done *)
(* by IgzipFiles' loops.  global_options.threads is fixed before the first *)
(* file, and what belongs to the other way is never touched.               *)
(***************************************************************************)
EXTENDS ThreadPool, IgzipFiles

VARIABLE threads    \* global_options.threads > 1

mainVars == <<vars, fileListVars, threads>>

\* The command line names its files once: as many to compress in blocks, or
\* a list of what each is and what to do with it.
InitMain ==
  /\ Init /\ InitFiles
  /\ threads \in BOOLEAN
  /\ IF threads THEN todo = <<>> ELSE todo # <<>> /\ blocks = [f \in FileIds |-> 1]

InPool(A)  == threads /\ A /\ UNCHANGED <<fileListVars, threads>>
InFiles(A) == ~threads /\ A /\ UNCHANGED <<vars, threads>>

FilesEnded == at = "exit" \/ (at = "next_file" /\ todo = <<>>)
FilesDone  == FilesEnded /\ UNCHANGED fileListVars

main_Next ==
  \/ InPool(Next)
  \/ InFiles(FilesNext)
  \/ InFiles(FilesDone)

\* Each thread that can run is run; see ThreadPool's Fairness.
MainSpec ==
  /\ InitMain /\ [][main_Next]_mainVars
  /\ \A w \in Workers : WF_mainVars(InPool(thread_worker(w)))
  /\ WF_mainVars(InPool(compress_file \/ pool_quit))
  /\ WF_mainVars(InFiles(FilesNext))

\* With -T, every file is reported and the process ends, no thread left
\* behind (igzip_cli.c:501-540, 559-570); without, every file is finished and
\* no loop waits for input that does not come (igzip_cli.c:753-777, 934-971).
PoolEnds  == threads => ProcessEnds
FilesEnd  == ~threads => RunEnds
=============================================================================
