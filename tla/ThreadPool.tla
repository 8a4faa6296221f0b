----------------------------- MODULE ThreadPool -----------------------------
(***************************************************************************)
(* The worker pool of programs/igzip_cli.c: the main thread splits each    *)
(* input file into blocks and queues them on a ring of MAX_JOBQUEUE job    *)
(* slots; the workers, and the main thread while it waits, take jobs and   *)
(* compress them statelessly; the main thread writes the finished slots    *)
(* to the output file in ring order.                                       *)
(*                                                                         *)
(* A section of code under pool.mutex is one step: everything it touches   *)
(* that another thread may touch is touched under the mutex only.  The     *)
(* accesses that the code makes WITHOUT the mutex (a worker's test of      *)
(* pool.shutdown, its stores of total_out and status, the main thread's    *)
(* test of status, its release of the slot and its move of tail) are steps *)
(* of their own.                                                           *)
(***************************************************************************)
EXTENDS Integers, Sequences

CONSTANTS
  MAX_JOBQUEUE,     (* Slots of the ring; one of them is always empty.     *)
  Workers,          (* The threads pool_create starts.                     *)
  Main,             (* The thread that runs compress_file.                 *)
  NumFiles,         (* Input files on the command line.                    *)
  MaxBlocks,        (* Most blocks one file is split into.                 *)
  CheckResults,     (* Values isal_deflate_stateless may return.           *)
  ReorderStores     (* TRUE if the build may make the store of status      *)
                    (* visible before the store of total_out (nothing in   *)
                    (* the source orders them); FALSE on x86-64.           *)

Threads == Workers \cup {Main}
FileIds == 1..NumFiles
Slots   == 0..(MAX_JOBQUEUE - 1)
Bufs    == 0..(MAX_JOBQUEUE - 2)  (* BLOCK_SIZE pieces of in_buf, out_buf  *)

COMP_OK            == 0
STATELESS_OVERFLOW == -1

JOB_UNALLOCATED == 0
JOB_ALLOCATED   == 1
JOB_SUCCESS     == 2
JOB_FAIL        == 3

ASSUME PoolAssumption ==
  /\ MAX_JOBQUEUE \in Nat /\ MAX_JOBQUEUE >= 2
  /\ Main \notin Workers
  /\ NumFiles \in Nat
  /\ MaxBlocks \in Nat \ {0}
  /\ ReorderStores \in BOOLEAN

(* A job's output slot is twice its input block, more than a stored copy   *)
(* of it needs: isal_deflate_stateless cannot run out of output.           *)
ASSUME CheckAssumption ==
  /\ CheckResults \subseteq Int
  /\ COMP_OK \in CheckResults
  /\ STATELESS_OVERFLOW \notin CheckResults

VARIABLES
  (* struct thread_pool *)
  head,             (* Last slot filled.                                   *)
  tail,             (* Last slot written to the file.                      *)
  queue,            (* Last slot taken by a thread.                        *)
  shutdown,
  job,              (* job[]: next_in and next_out are the same piece of   *)
                    (* in_buf and of out_buf, total_out is 0 or 1 for      *)
                    (* nothing recorded or the size of the result.         *)
  (* each thread *)
  pc,
  work_idx,         (* The slot a thread took last.                        *)
  check,            (* What isal_deflate_stateless returned to it.         *)
  pending,          (* The fields of its slot it has still to store.       *)
  (* the main thread's buffers and locals *)
  in_buf, out_buf,
  file,             (* The file being compressed, 0 before the first.      *)
  nread,            (* Blocks of it read, as total_in and crc know them.   *)
  q,
  end_of_stream,
  (* the outside world *)
  blocks,           (* Blocks each input file holds.                       *)
  out,              (* Chunks written to each output file.                 *)
  reported          (* What compress_file returned for each file: an error *)
                    (* is "unopened" if it came before the header.         *)

ringVars  == <<head, tail, queue, shutdown, job>>
localVars == <<work_idx, check, pending>>
dataVars  == <<in_buf, out_buf>>
fileVars  == <<file, nread, q, end_of_stream>>
worldVars == <<blocks, out, reported>>
vars == <<ringVars, pc, localVars, dataVars, fileVars, worldVars>>

Chunk(kind, f, b, last) == [kind |-> kind, file |-> f, block |-> b, last |-> last]
NoJob == [buf |-> 0, type |-> FALSE, total_out |-> 0, status |-> JOB_UNALLOCATED]

-----------------------------------------------------------------------------
(* Helpers of the ring and of the condition variable.                      *)

NextSlot(i)    == (i + 1) % MAX_JOBQUEUE
pool_has_space == NextSlot(head) # tail
pool_has_work  == queue # head

(* JOB_SUCCESS + check in a uint32_t: -1 is JOB_ALLOCATED again, every     *)
(* other code wraps to a value above JOB_SUCCESS.                          *)
StatusOf(c) ==
  CASE c = COMP_OK            -> JOB_SUCCESS
    [] c = STATELESS_OVERFLOW -> JOB_ALLOCATED
    [] OTHER                  -> JOB_FAIL

Waiting == {w \in Workers : pc[w] = "waiting"}

(* pthread_cond_signal wakes one waiting worker, if there is one; every    *)
(* woken worker goes back for the mutex and tests its condition again.     *)
Signal(pcs) ==
  \/ Waiting = {} /\ pc' = pcs
  \/ \E w \in Waiting : pc' = [pcs EXCEPT ![w] = "lock"]

Broadcast(pcs) ==
  pc' = [t \in Threads |-> IF t \in Waiting THEN "lock" ELSE pcs[t]]

Goto(t, label) == [pc EXCEPT ![t] = label]

(* A name ending in _Mut is a plausible slip in the definition that        *)
(* follows it; no specification uses it, each is there to show that some   *)
(* property notices.                                                       *)
pool_get_work_Mut(t) ==             (* returns the slot before the new one *)
  /\ queue' = NextSlot(queue)
  /\ work_idx' = [work_idx EXCEPT ![t] = queue]

(* pool_get_work, by the thread t that holds the mutex.                    *)
pool_get_work(t) ==
  /\ queue' = NextSlot(queue)
  /\ work_idx' = [work_idx EXCEPT ![t] = NextSlot(queue)]

(* isal_deflate_stateless on the slot of thread t, from its piece of       *)
(* in_buf to its piece of out_buf.                                         *)
Deflate(t) ==
  LET j  == job[work_idx[t]]
      in == in_buf[j.buf]
  IN  /\ out_buf' = [out_buf EXCEPT ![j.buf] = Chunk("block", in.file, in.block, j.type)]
      /\ \E c \in CheckResults : check' = [check EXCEPT ![t] = c]
      /\ pending' = [pending EXCEPT ![t] = {"total_out", "status"}]

-----------------------------------------------------------------------------
(* thread_worker                                                           *)

WorkerTestShutdown(w) ==            (* while (!pool.shutdown), no mutex    *)
  /\ pc[w] = "loop"
  /\ pc' = Goto(w, IF shutdown THEN "exited" ELSE "lock")
  /\ UNCHANGED <<ringVars, localVars, dataVars, fileVars, worldVars>>

WorkerWait_Mut(w) ==                (* waits without testing shutdown      *)
  /\ pc[w] = "lock"
  /\ ~pool_has_work
  /\ pc' = Goto(w, "waiting")
  /\ UNCHANGED <<ringVars, localVars, dataVars, fileVars, worldVars>>

WorkerWait(w) ==                    (* nothing to do: pthread_cond_wait    *)
  /\ pc[w] = "lock"
  /\ ~pool_has_work /\ ~shutdown
  /\ pc' = Goto(w, "waiting")
  /\ UNCHANGED <<ringVars, localVars, dataVars, fileVars, worldVars>>

WorkerWakeSpuriously(w) ==          (* POSIX allows it                     *)
  /\ pc[w] = "waiting"
  /\ pc' = Goto(w, "lock")
  /\ UNCHANGED <<ringVars, localVars, dataVars, fileVars, worldVars>>

WorkerSeeShutdown(w) ==
  /\ pc[w] = "lock"
  /\ shutdown
  /\ pc' = Goto(w, "loop")
  /\ UNCHANGED <<ringVars, localVars, dataVars, fileVars, worldVars>>

WorkerTake(w) ==
  /\ pc[w] = "lock"
  /\ pool_has_work /\ ~shutdown
  /\ pool_get_work(w)
  /\ Signal(Goto(w, "deflate"))
  /\ UNCHANGED <<head, tail, shutdown, job, check, pending, dataVars, fileVars, worldVars>>

WorkerDeflate(w) ==
  /\ pc[w] = "deflate"
  /\ Deflate(w)
  /\ pc' = Goto(w, "store")
  /\ UNCHANGED <<ringVars, work_idx, in_buf, fileVars, worldVars>>

(* The two stores end the loop body; a worker whose job failed quits.      *)
AfterStore(w, field) ==
  /\ pending' = [pending EXCEPT ![w] = @ \ {field}]
  /\ pc' = IF pending[w] # {field} THEN pc
           ELSE Goto(w, IF check[w] = COMP_OK THEN "loop" ELSE "exited")

WorkerStoreTotalOut(w) ==
  /\ pc[w] = "store"
  /\ "total_out" \in pending[w]
  /\ job' = [job EXCEPT ![work_idx[w]] = [@ EXCEPT !.total_out = 1]]
  /\ AfterStore(w, "total_out")
  /\ UNCHANGED <<head, tail, queue, shutdown, work_idx, check, dataVars, fileVars, worldVars>>

WorkerStoreStatus_Mut(w) ==         (* may come before the size            *)
  /\ pc[w] = "store"
  /\ "status" \in pending[w]
  /\ job' = [job EXCEPT ![work_idx[w]] = [@ EXCEPT !.status = StatusOf(check[w])]]
  /\ AfterStore(w, "status")
  /\ UNCHANGED <<head, tail, queue, shutdown, work_idx, check, dataVars, fileVars, worldVars>>

WorkerStoreStatus(w) ==
  /\ pc[w] = "store"
  /\ "status" \in pending[w]
  /\ ReorderStores \/ "total_out" \notin pending[w]
  /\ job' = [job EXCEPT ![work_idx[w]] = [@ EXCEPT !.status = StatusOf(check[w])]]
  /\ AfterStore(w, "status")
  /\ UNCHANGED <<head, tail, queue, shutdown, work_idx, check, dataVars, fileVars, worldVars>>

-----------------------------------------------------------------------------
(* compress_file with global_options.threads > 1                           *)

(* isal_write_gzip_header puts the header together where the first piece   *)
(* of out_buf is.                                                          *)
OpenFile ==
  /\ pc[Main] = "open"
  /\ file < NumFiles
  /\ file' = file + 1
  /\ nread' = 0
  /\ q' = 0
  /\ end_of_stream' = FALSE
  /\ out_buf' = [out_buf EXCEPT ![0] = Chunk("header", file + 1, 0, FALSE)]
  /\ pc' = Goto(Main, "header")
  /\ UNCHANGED <<ringVars, localVars, in_buf, worldVars>>

(* The input or the output cannot be opened, they have the same name, or   *)
(* the input's time cannot be had.                                         *)
OpenFails ==
  /\ pc[Main] = "open"
  /\ file < NumFiles
  /\ file' = file + 1
  /\ reported' = [reported EXCEPT ![file + 1] = "unopened"]
  /\ UNCHANGED <<ringVars, pc, localVars, dataVars, nread, q, end_of_stream, blocks, out>>

WriteHeader ==
  /\ pc[Main] = "header"
  /\ out' = [out EXCEPT ![file] = Append(@, out_buf[0])]
  /\ pc' = Goto(Main, "read")
  /\ UNCHANGED <<ringVars, localVars, dataVars, fileVars, blocks, reported>>

ReadBlock ==
  /\ pc[Main] = "read"
  /\ in_buf' = [in_buf EXCEPT ![q] = [file |-> file, block |-> nread + 1]]
  /\ nread' = nread + 1
  /\ end_of_stream' = (nread + 1 = blocks[file])
  /\ pc' = Goto(Main, "put")
  /\ UNCHANGED <<ringVars, localVars, out_buf, file, q, worldVars>>

(* pool_put_work fills the slot but for its total_out.  The for loop ends  *)
(* after the last block, after MAX_JOBQUEUE - 1 jobs, or when the pool     *)
(* refuses the job.                                                        *)
AfterPut(last) ==
  /\ q' = IF last THEN 0 ELSE q + 1

PutWork ==
  LET idx  == NextSlot(head)
      last == end_of_stream \/ q + 1 = MAX_JOBQUEUE - 1
  IN  /\ pc[Main] = "put"
      /\ pool_has_space /\ ~shutdown
      /\ job' = [job EXCEPT ![idx] = [@ EXCEPT !.buf = q, !.type = end_of_stream,
                                              !.status = JOB_ALLOCATED]]
      /\ head' = idx
      /\ Signal(Goto(Main, IF last THEN "drain" ELSE "read"))
      /\ AfterPut(last)
      /\ UNCHANGED <<tail, queue, shutdown, localVars, dataVars, file, nread,
                     end_of_stream, worldVars>>

PutRefused ==
  /\ pc[Main] = "put"
  /\ ~pool_has_space \/ shutdown
  /\ pc' = Goto(Main, "drain")
  /\ AfterPut(TRUE)
  /\ UNCHANGED <<ringVars, localVars, dataVars, file, nread, end_of_stream, worldVars>>

DrainDone_Mut ==                    (* all jobs taken, not all written     *)
  /\ pc[Main] = "drain"
  /\ queue = head
  /\ pc' = Goto(Main, IF end_of_stream THEN "trailer" ELSE "read")
  /\ UNCHANGED <<ringVars, localVars, dataVars, fileVars, worldVars>>

(* while (pool.tail != pool.head), then while (!end_of_stream)             *)
DrainDone ==
  /\ pc[Main] = "drain"
  /\ tail = head
  /\ pc' = Goto(Main, IF end_of_stream THEN "trailer" ELSE "read")
  /\ UNCHANGED <<ringVars, localVars, dataVars, fileVars, worldVars>>

DrainTestStatus_Mut ==              (* an allocated job is not yet done    *)
  /\ pc[Main] = "drain"
  /\ tail # head
  /\ LET status == job[NextSlot(tail)].status
     IN  pc' = Goto(Main, IF status > JOB_SUCCESS THEN "abandon" ELSE "write")
  /\ UNCHANGED <<ringVars, localVars, dataVars, fileVars, worldVars>>

DrainTestStatus ==                  (* reads job[t].status, no mutex       *)
  /\ pc[Main] = "drain"
  /\ tail # head
  /\ LET status == job[NextSlot(tail)].status
     IN  pc' = Goto(Main, CASE status > JOB_SUCCESS -> "abandon"
                            [] status = JOB_SUCCESS -> "write"
                            [] OTHER                -> "help")
  /\ UNCHANGED <<ringVars, localVars, dataVars, fileVars, worldVars>>

WriteBlock ==                       (* no mutex either                     *)
  LET t == NextSlot(tail)
  IN  /\ pc[Main] = "write"
      /\ out' = IF job[t].total_out = 0 THEN out
                ELSE [out EXCEPT ![file] = Append(@, out_buf[job[t].buf])]
      /\ job' = [job EXCEPT ![t] = [@ EXCEPT !.total_out = 0, !.status = JOB_UNALLOCATED]]
      /\ tail' = t
      /\ Broadcast(Goto(Main, "help"))
      /\ UNCHANGED <<head, queue, shutdown, localVars, dataVars, fileVars, blocks, reported>>

HelpIdle ==
  /\ pc[Main] = "help"
  /\ ~pool_has_work
  /\ pc' = Goto(Main, "drain")
  /\ UNCHANGED <<ringVars, localVars, dataVars, fileVars, worldVars>>

HelpTake ==
  /\ pc[Main] = "help"
  /\ pool_has_work
  /\ pool_get_work(Main)
  /\ Signal(Goto(Main, "deflate"))
  /\ UNCHANGED <<head, tail, shutdown, job, check, pending, dataVars, fileVars, worldVars>>

HelpDeflate ==
  /\ pc[Main] = "deflate"
  /\ Deflate(Main)
  /\ pc' = Goto(Main, "store")
  /\ UNCHANGED <<ringVars, work_idx, in_buf, fileVars, worldVars>>

(* Main reads the slot itself: the order of its two stores is its own.     *)
HelpStore ==
  /\ pc[Main] = "store"
  /\ job' = [job EXCEPT ![work_idx[Main]] = [@ EXCEPT !.total_out = 1,
                                                      !.status = StatusOf(check[Main])]]
  /\ pending' = [pending EXCEPT ![Main] = {}]
  /\ pc' = Goto(Main, "drain")
  /\ UNCHANGED <<head, tail, queue, shutdown, work_idx, check, dataVars, fileVars, worldVars>>

WriteTrailer ==
  /\ pc[Main] = "trailer"
  /\ out' = [out EXCEPT ![file] = Append(@, Chunk("trailer", file, nread, TRUE))]
  /\ reported' = [reported EXCEPT ![file] = "ok"]
  /\ pc' = Goto(Main, "open")
  /\ UNCHANGED <<ringVars, localVars, dataVars, fileVars, blocks>>

(* goto compress_file_cleanup: the pool keeps its unfinished jobs.         *)
AbandonFile ==
  /\ pc[Main] = "abandon"
  /\ reported' = [reported EXCEPT ![file] = "error"]
  /\ pc' = Goto(Main, "open")
  /\ UNCHANGED <<ringVars, localVars, dataVars, fileVars, blocks, out>>

-----------------------------------------------------------------------------
(* pool_quit                                                               *)

QuitShutdown ==
  /\ pc[Main] = "open"
  /\ file = NumFiles
  /\ shutdown' = TRUE
  /\ pc' = Goto(Main, "broadcast")
  /\ UNCHANGED <<head, tail, queue, job, localVars, dataVars, fileVars, worldVars>>

QuitBroadcast ==                    (* after the mutex is released         *)
  /\ pc[Main] = "broadcast"
  /\ Broadcast(Goto(Main, "join"))
  /\ UNCHANGED <<ringVars, localVars, dataVars, fileVars, worldVars>>

QuitJoin ==
  /\ pc[Main] = "join"
  /\ \A w \in Workers : pc[w] = "exited"
  /\ pc' = Goto(Main, "exited")
  /\ UNCHANGED <<ringVars, localVars, dataVars, fileVars, worldVars>>

-----------------------------------------------------------------------------
Init ==                             (* pool_create, and the files to read  *)
  /\ head = 0 /\ tail = 0 /\ queue = 0
  /\ shutdown = FALSE
  /\ job = [i \in Slots |-> NoJob]
  /\ pc = [t \in Threads |-> IF t = Main THEN "open" ELSE "loop"]
  /\ work_idx = [t \in Threads |-> 0]
  /\ check = [t \in Threads |-> COMP_OK]
  /\ pending = [t \in Threads |-> {}]
  /\ in_buf = [b \in Bufs |-> [file |-> 0, block |-> 0]]
  /\ out_buf = [b \in Bufs |-> Chunk("block", 0, 0, FALSE)]
  /\ file = 0 /\ nread = 0 /\ q = 0 /\ end_of_stream = FALSE
  /\ blocks \in [FileIds -> 1..MaxBlocks]
  /\ out = [f \in FileIds |-> <<>>]
  /\ reported = [f \in FileIds |-> "none"]

thread_worker(w) ==
  \/ WorkerTestShutdown(w) \/ WorkerWait(w) \/ WorkerSeeShutdown(w) \/ WorkerTake(w)
  \/ WorkerDeflate(w) \/ WorkerStoreTotalOut(w) \/ WorkerStoreStatus(w)

compress_file ==
  \/ OpenFile \/ OpenFails \/ WriteHeader
  \/ ReadBlock \/ PutWork \/ PutRefused
  \/ DrainDone \/ DrainTestStatus \/ WriteBlock
  \/ HelpIdle \/ HelpTake \/ HelpDeflate \/ HelpStore
  \/ WriteTrailer \/ AbandonFile

pool_quit == QuitShutdown \/ QuitBroadcast \/ QuitJoin

(* Every thread has ended: the process is over.                            *)
Done == pc[Main] = "exited" /\ UNCHANGED vars

Next ==
  \/ \E w \in Workers : thread_worker(w) \/ WorkerWakeSpuriously(w)
  \/ compress_file
  \/ pool_quit
  \/ Done

(* The operating system runs every thread that can run, and a thread that  *)
(* asks for the mutex gets it.  No spurious wake-up is counted on.         *)
Fairness ==
  /\ \A w \in Workers : WF_vars(thread_worker(w))
  /\ WF_vars(compress_file \/ pool_quit)

Spec     == Init /\ [][Next]_vars
FairSpec == Spec /\ Fairness

-----------------------------------------------------------------------------
WorkerLabels == {"loop", "lock", "waiting", "deflate", "store", "exited"}
MainLabels   == {"open", "header", "read", "put", "drain", "write", "help", "deflate", "store",
                 "trailer", "abandon", "broadcast", "join", "exited"}

Jobs == [buf : Bufs, type : BOOLEAN, total_out : {0, 1},
         status : {JOB_UNALLOCATED, JOB_ALLOCATED, JOB_SUCCESS, JOB_FAIL}]

TypeOK ==
  /\ head \in Slots /\ tail \in Slots /\ queue \in Slots
  /\ shutdown \in BOOLEAN
  /\ job \in [Slots -> Jobs]
  /\ pc \in [Threads -> WorkerLabels \cup MainLabels]
  /\ pc[Main] \in MainLabels
  /\ \A w \in Workers : pc[w] \in WorkerLabels
  /\ work_idx \in [Threads -> Slots]
  /\ check \in [Threads -> CheckResults]
  /\ pending \in [Threads -> SUBSET {"total_out", "status"}]
  /\ in_buf \in [Bufs -> [file : Nat, block : Nat]]
  /\ out_buf \in [Bufs -> [kind : {"header", "block"}, file : Nat, block : Nat, last : BOOLEAN]]
  /\ file \in 0..NumFiles /\ nread \in Nat /\ q \in Bufs
  /\ end_of_stream \in BOOLEAN
  /\ blocks \in [FileIds -> 1..MaxBlocks]
  /\ reported \in [FileIds -> {"none", "ok", "error", "unopened"}]

(* The slots after a, up to and including b, going round the ring.         *)
After(a, b) ==
  IF a <= b THEN {i \in Slots : a < i /\ i <= b}
            ELSE {i \in Slots : a < i \/ i <= b}

Busy == {t \in Threads : pc[t] \in {"deflate", "store"}}

(* queue never leaves the stretch from tail to head, each slot a thread is *)
(* working on is one that was taken and not yet written to the file, it is *)
(* marked allocated, and no two threads work on the same slot: so neither  *)
(* pool_put_work nor the main thread's release of a slot meets a worker.   *)
JobsOwnedOnce ==
  /\ queue \in After(tail, head) \cup {tail}
  /\ \A t \in Busy :
       /\ work_idx[t] \in After(tail, queue)
       /\ job[work_idx[t]].status = JOB_ALLOCATED
       /\ \A u \in Busy \ {t} : work_idx[u] # work_idx[t]

(* While no job has failed, the piece of in_buf and the job slot that a    *)
(* thread compresses from keep their contents until it is done: the main   *)
(* thread's rewinding of iptr and optr for each round is safe.             *)
BusyInputKept ==
  [][ \A t \in Busy :
        (\A f \in FileIds : reported[f] # "error") =>
          LET j == job[work_idx[t]]
          IN  /\ in_buf'[j.buf] = in_buf[j.buf]
              /\ job'[work_idx[t]].buf = j.buf
              /\ job'[work_idx[t]].type = j.type ]_vars

(* The output files are written as GzipFileWriter promises, whatever the   *)
(* order in which the threads take and finish the blocks.                  *)
Writer == INSTANCE GzipFileWriter
FilesWrittenInOrder == Writer!Spec

(* Every file is reported and the process ends, no thread left behind.     *)
ProcessEnds == <>(\A t \in Threads : pc[t] = "exited")

(* igzip_cli.c:533 and 740, "complete or fail", and :698, "Finished next": *)
(* a slot whose status is JOB_SUCCESS holds its result and its size.       *)
SuccessIsComplete ==
  \A i \in Slots : job[i].status = JOB_SUCCESS => job[i].total_out # 0
=============================================================================
