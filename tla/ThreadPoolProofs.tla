-------------------------- MODULE ThreadPoolProofs --------------------------
(***************************************************************************)
(* That the jobs of the ring are owned once, that a finished slot holds    *)
(* its result, and that the threads write the output files as              *)
(* GzipFileWriter promises: for any size of ring, any number of workers,   *)
(* files and blocks, and any results of the compression but the one that   *)
(* the size of the output slots rules out.                                 *)
(***************************************************************************)
EXTENDS ThreadPool, TLAPS

(* The slots still queued are allocated ones: a thread takes a job that    *)
(* was put there, and main never takes an untouched slot for a finished    *)
(* one.                                                                    *)
QueuedAllocated == \A i \in After(queue, head) : job[i].status = JOB_ALLOCATED

(* What main found in DrainTestStatus is still so when it writes.          *)
WriteIsFinished ==
  pc[Main] = "write" => tail # head /\ job[NextSlot(tail)].status = JOB_SUCCESS

(* A thread that has stored its status is done with its slot, and one that *)
(* has only its status to store has stored its size.                       *)
StoresInOrder ==
  \A t \in Threads :
    pc[t] = "store" =>
      /\ "status" \in pending[t]
      /\ "total_out" \notin pending[t] => job[work_idx[t]].total_out = 1

OwnInv ==
  /\ JobsOwnedOnce
  /\ QueuedAllocated
  /\ WriteIsFinished
  /\ StoresInOrder
  /\ SuccessIsComplete

IInv ==
  /\ TypeOK
  /\ OwnInv

-----------------------------------------------------------------------------
(* The ring                                                                *)

(* The successor of a slot, without the modulus.                           *)
LEMMA NextSlotStep ==
  ASSUME NEW i \in Slots
  PROVE  /\ NextSlot(i) \in Slots
         /\ NextSlot(i) = IF i = MAX_JOBQUEUE - 1 THEN 0 ELSE i + 1
<1>1. CASE i = MAX_JOBQUEUE - 1
  BY <1>1, PoolAssumption DEF NextSlot, Slots
<1>2. CASE i # MAX_JOBQUEUE - 1
  BY <1>2, PoolAssumption DEF NextSlot, Slots
<1>3. QED
  BY <1>1, <1>2

(* The stretches before and after queue share no slot.                     *)
LEMMA StretchesDisjoint ==
  ASSUME NEW a \in Slots, NEW b \in Slots, NEW h \in Slots, b \in After(a, h) \cup {a}
  PROVE  After(a, b) \cap After(b, h) = {}
  BY PoolAssumption DEF After, Slots

(* pool_get_work moves queue onto a slot of the queued stretch.            *)
LEMMA TakeStretch ==
  ASSUME NEW a \in Slots, NEW b \in Slots, NEW h \in Slots,
         b \in After(a, h) \cup {a}, b # h
  PROVE  /\ NextSlot(b) \in After(b, h) /\ NextSlot(b) \in After(a, h)
         /\ NextSlot(b) \notin After(a, b)
         /\ After(a, NextSlot(b)) = After(a, b) \cup {NextSlot(b)}
         /\ After(NextSlot(b), h) \subseteq After(b, h)
  BY PoolAssumption, NextSlotStep DEF After, Slots

(* pool_put_work moves head onto a slot outside both stretches.            *)
LEMMA PutStretch ==
  ASSUME NEW a \in Slots, NEW b \in Slots, NEW h \in Slots,
         b \in After(a, h) \cup {a}, NextSlot(h) # a
  PROVE  /\ b \in After(a, NextSlot(h)) \cup {a}
         /\ After(b, NextSlot(h)) = After(b, h) \cup {NextSlot(h)}
         /\ NextSlot(h) \notin After(a, b)
  BY PoolAssumption, NextSlotStep DEF After, Slots

(* Writing a finished slot moves tail up to queue at most.                 *)
LEMMA WriteStretch ==
  ASSUME NEW a \in Slots, NEW b \in Slots, NEW h \in Slots,
         b \in After(a, h) \cup {a}, a # h
  PROVE  /\ NextSlot(a) \notin After(b, h) =>
              /\ b \in After(NextSlot(a), h) \cup {NextSlot(a)}
              /\ After(a, b) = After(NextSlot(a), b) \cup {NextSlot(a)}
  BY PoolAssumption, NextSlotStep DEF After, Slots

-----------------------------------------------------------------------------
(* The condition variable: only waiting workers are moved, to "lock".      *)

PcMoves(t, label) ==
  /\ pc' \in [Threads -> WorkerLabels \cup MainLabels]
  /\ pc'[t] = label
  /\ \A u \in Threads \ {t} :
       \/ pc'[u] = pc[u]
       \/ u \in Workers /\ pc[u] = "waiting" /\ pc'[u] = "lock"

(* A step with Goto moves one thread to its label.                         *)
LEMMA GotoMoves ==
  ASSUME TypeOK, NEW t \in Threads, NEW label \in WorkerLabels \cup MainLabels,
         pc' = Goto(t, label)
  PROVE  PcMoves(t, label)
  BY DEF TypeOK, Goto, PcMoves

(* pthread_cond_signal moves, besides, at most one waiting worker.          *)
LEMMA SignalMoves ==
  ASSUME TypeOK, NEW t \in Threads, NEW label \in WorkerLabels \cup MainLabels,
         pc[t] # "waiting", Signal(Goto(t, label))
  PROVE  PcMoves(t, label)
<1>1. CASE pc' = Goto(t, label)
  BY <1>1, GotoMoves
<1>2. CASE \E w \in Waiting : pc' = [Goto(t, label) EXCEPT ![w] = "lock"]
  <2>1. PICK w \in Waiting : pc' = [Goto(t, label) EXCEPT ![w] = "lock"]
    BY <1>2
  <2>2. w \in Workers /\ w \in Threads /\ pc[w] = "waiting" /\ w # t
    BY <2>1 DEF Waiting, Threads
  <2>3. "lock" \in WorkerLabels
    BY DEF WorkerLabels
  <2>4. QED
    BY <2>1, <2>2, <2>3 DEF TypeOK, Goto, PcMoves
<1>3. QED
  BY <1>1, <1>2 DEF Signal

(* pthread_cond_broadcast moves, besides, every waiting worker.             *)
LEMMA BroadcastMoves ==
  ASSUME TypeOK, NEW t \in Threads, NEW label \in WorkerLabels \cup MainLabels,
         pc[t] # "waiting", Broadcast(Goto(t, label))
  PROVE  PcMoves(t, label)
<1>1. "lock" \in WorkerLabels
  BY DEF WorkerLabels
<1>2. QED
  BY <1>1 DEF TypeOK, Goto, PcMoves, Broadcast, Waiting

(* The labels stay in their sets when the thread that moved goes to a      *)
(* label of its own.                                                       *)
PcTyped ==
  /\ pc \in [Threads -> WorkerLabels \cup MainLabels]
  /\ pc[Main] \in MainLabels
  /\ \A w \in Workers : pc[w] \in WorkerLabels

(* Such moves keep every thread at a label of its own.                     *)
LEMMA MovesTyped ==
  ASSUME TypeOK, NEW t \in Threads, NEW label, PcMoves(t, label),
         t = Main => label \in MainLabels,
         t \in Workers => label \in WorkerLabels
  PROVE  PcTyped'
<1>1. Main \in Threads /\ Main \notin Workers /\ "lock" \in WorkerLabels
  BY PoolAssumption DEF Threads, WorkerLabels
<1>2. pc'[Main] \in MainLabels
  BY <1>1 DEF TypeOK, PcMoves
<1>3. ASSUME NEW w \in Workers PROVE pc'[w] \in WorkerLabels
  BY <1>1 DEF TypeOK, PcMoves, Threads
<1>4. QED
  BY <1>2, <1>3 DEF PcMoves, PcTyped

-----------------------------------------------------------------------------
(* Type correctness                                                        *)

(* After pool_create every field has its type.                             *)
LEMMA TypeInit == ASSUME Init PROVE TypeOK
<1>1. 0 \in Slots /\ 0 \in Bufs
  BY PoolAssumption DEF Slots, Bufs
<1>2. NoJob \in Jobs
  BY <1>1 DEF NoJob, Jobs
<1>3. PcTyped
  BY PoolAssumption DEF Init, PcTyped, Threads, WorkerLabels, MainLabels
<1>4. check \in [Threads -> CheckResults] /\ file \in 0..NumFiles
  BY PoolAssumption, CheckAssumption DEF Init
<1>5. reported \in [FileIds -> {"none", "ok", "error", "unopened"}]
  BY DEF Init
<1>6. in_buf \in [Bufs -> [file : Nat, block : Nat]]
  BY DEF Init
<1>7. out_buf \in [Bufs -> [kind : {"header", "block"}, file : Nat, block : Nat, last : BOOLEAN]]
  BY DEF Init, Chunk
<1>8. QED
  BY <1>1, <1>2, <1>3, <1>4, <1>5, <1>6, <1>7 DEF Init, TypeOK, PcTyped

(* isal_deflate_stateless leaves a typed block and a result it may return. *)
LEMMA DeflateTyped ==
  ASSUME TypeOK, NEW t \in Threads, Deflate(t)
  PROVE  /\ out_buf' \in [Bufs -> [kind : {"header", "block"}, file : Nat, block : Nat, last : BOOLEAN]]
         /\ check' \in [Threads -> CheckResults]
         /\ pending' \in [Threads -> SUBSET {"total_out", "status"}]
<1>1. job[work_idx[t]].buf \in Bufs /\ job[work_idx[t]].type \in BOOLEAN
  BY DEF TypeOK, Jobs
<1>2. in_buf[job[work_idx[t]].buf] \in [file : Nat, block : Nat]
  BY <1>1 DEF TypeOK
<1>3. QED
  BY <1>1, <1>2 DEF TypeOK, Deflate, Chunk

(* JOB_SUCCESS + check is a status.                                        *)
LEMMA StatusTyped ==
  ASSUME NEW c \in CheckResults
  PROVE  StatusOf(c) \in {JOB_SUCCESS, JOB_FAIL}
  BY CheckAssumption DEF StatusOf, STATELESS_OVERFLOW, COMP_OK

(* The updates the threads make of a job slot.                             *)
LEMMA JobUpdate ==
  ASSUME NEW j \in Jobs
  PROVE  /\ [j EXCEPT !.total_out = 1] \in Jobs
         /\ \A s \in {JOB_SUCCESS, JOB_FAIL} :
              /\ [j EXCEPT !.status = s] \in Jobs
              /\ [j EXCEPT !.total_out = 1, !.status = s] \in Jobs
         /\ [j EXCEPT !.total_out = 0, !.status = JOB_UNALLOCATED] \in Jobs
         /\ \A b \in Bufs, last \in BOOLEAN :
              [j EXCEPT !.buf = b, !.type = last, !.status = JOB_ALLOCATED] \in Jobs
<1>1. [j EXCEPT !.total_out = 1] \in Jobs
  BY DEF Jobs
<1>2. ASSUME NEW s \in {JOB_SUCCESS, JOB_FAIL} PROVE [j EXCEPT !.status = s] \in Jobs
  BY DEF Jobs
<1>3. ASSUME NEW s \in {JOB_SUCCESS, JOB_FAIL}
      PROVE  [j EXCEPT !.total_out = 1, !.status = s] \in Jobs
  BY DEF Jobs
<1>4. [j EXCEPT !.total_out = 0, !.status = JOB_UNALLOCATED] \in Jobs
  BY DEF Jobs
<1>5. ASSUME NEW b \in Bufs, NEW last \in BOOLEAN
      PROVE  [j EXCEPT !.buf = b, !.type = last, !.status = JOB_ALLOCATED] \in Jobs
  BY DEF Jobs
<1>6. QED
  BY <1>1, <1>2, <1>3, <1>4, <1>5

(* Each step of thread_worker keeps the types.                             *)
LEMMA WorkerTyped ==
  ASSUME TypeOK, NEW w \in Workers, thread_worker(w) \/ WorkerWakeSpuriously(w)
  PROVE  TypeOK'
<1> USE DEF ringVars, localVars, dataVars, fileVars, worldVars
<1>1. w \in Threads /\ w # Main
  BY PoolAssumption DEF Threads
<1>2. "loop" \in WorkerLabels /\ "lock" \in WorkerLabels /\ "waiting" \in WorkerLabels
      /\ "deflate" \in WorkerLabels /\ "store" \in WorkerLabels /\ "exited" \in WorkerLabels
  BY DEF WorkerLabels
<1>3. CASE WorkerTestShutdown(w)
  <2>1. PcMoves(w, IF shutdown THEN "exited" ELSE "lock")
    BY <1>1, <1>2, <1>3, GotoMoves DEF WorkerTestShutdown
  <2>2. PcTyped'
    BY <1>1, <1>2, <2>1, MovesTyped
  <2>3. QED
    BY <1>3, <2>2 DEF WorkerTestShutdown, TypeOK, PcTyped
<1>4. CASE WorkerWait(w)
  <2>1. PcMoves(w, "waiting")
    BY <1>1, <1>2, <1>4, GotoMoves DEF WorkerWait
  <2>2. PcTyped'
    BY <1>1, <1>2, <2>1, MovesTyped
  <2>3. QED
    BY <1>4, <2>2 DEF WorkerWait, TypeOK, PcTyped
<1>5. CASE WorkerSeeShutdown(w)
  <2>1. PcMoves(w, "loop")
    BY <1>1, <1>2, <1>5, GotoMoves DEF WorkerSeeShutdown
  <2>2. PcTyped'
    BY <1>1, <1>2, <2>1, MovesTyped
  <2>3. QED
    BY <1>5, <2>2 DEF WorkerSeeShutdown, TypeOK, PcTyped
<1>6. CASE WorkerTake(w)
  <2>1. PcMoves(w, "deflate")
    BY <1>1, <1>2, <1>6, SignalMoves DEF WorkerTake
  <2>2. PcTyped'
    BY <1>1, <1>2, <2>1, MovesTyped
  <2>3. NextSlot(queue) \in Slots
    BY NextSlotStep DEF TypeOK
  <2>4. QED
    BY <1>1, <1>6, <2>2, <2>3 DEF WorkerTake, pool_get_work, TypeOK, PcTyped
<1>7. CASE WorkerDeflate(w)
  <2>1. PcMoves(w, "store")
    BY <1>1, <1>2, <1>7, GotoMoves DEF WorkerDeflate
  <2>2. PcTyped'
    BY <1>1, <1>2, <2>1, MovesTyped
  <2>3. QED
    BY <1>1, <1>7, <2>2, DeflateTyped DEF WorkerDeflate, TypeOK, PcTyped
<1>8. ASSUME NEW field, AfterStore(w, field)
      PROVE  PcTyped' /\ pending' \in [Threads -> SUBSET {"total_out", "status"}]
  <2>1. pending' \in [Threads -> SUBSET {"total_out", "status"}]
    BY <1>1, <1>8 DEF AfterStore, TypeOK
  <2>2. CASE pc' = pc
    BY <2>1, <2>2 DEF TypeOK, PcTyped
  <2>3. CASE pc' = Goto(w, IF check[w] = COMP_OK THEN "loop" ELSE "exited")
    <3>1. PcMoves(w, IF check[w] = COMP_OK THEN "loop" ELSE "exited")
      BY <1>1, <1>2, <2>3, GotoMoves
    <3>2. QED
      BY <1>1, <1>2, <2>1, <3>1, MovesTyped
  <2>4. QED
    BY <1>8, <2>2, <2>3 DEF AfterStore
<1>9. CASE WorkerStoreTotalOut(w)
  <2>1. work_idx[w] \in Slots
    BY <1>1 DEF TypeOK
  <2>2. PcTyped' /\ pending' \in [Threads -> SUBSET {"total_out", "status"}]
    BY <1>8, <1>9 DEF WorkerStoreTotalOut
  <2>3. job' \in [Slots -> Jobs]
    BY <1>9, <2>1, JobUpdate DEF WorkerStoreTotalOut, TypeOK
  <2>4. QED
    BY <1>9, <2>2, <2>3 DEF WorkerStoreTotalOut, TypeOK, PcTyped
<1>10. CASE WorkerStoreStatus(w)
  <2>1. work_idx[w] \in Slots /\ check[w] \in CheckResults
    BY <1>1 DEF TypeOK
  <2>2. StatusOf(check[w]) \in {JOB_SUCCESS, JOB_FAIL}
    BY <2>1, StatusTyped
  <2>3. PcTyped' /\ pending' \in [Threads -> SUBSET {"total_out", "status"}]
    BY <1>8, <1>10 DEF WorkerStoreStatus
  <2>4. job' \in [Slots -> Jobs]
    BY <1>10, <2>1, <2>2, JobUpdate DEF WorkerStoreStatus, TypeOK
  <2>5. QED
    BY <1>10, <2>3, <2>4 DEF WorkerStoreStatus, TypeOK, PcTyped
<1>11. CASE WorkerWakeSpuriously(w)
  <2>1. PcMoves(w, "lock")
    BY <1>1, <1>2, <1>11, GotoMoves DEF WorkerWakeSpuriously
  <2>2. PcTyped'
    BY <1>1, <1>2, <2>1, MovesTyped
  <2>3. QED
    BY <1>11, <2>2 DEF WorkerWakeSpuriously, TypeOK, PcTyped
<1>12. QED
  BY <1>3, <1>4, <1>5, <1>6, <1>7, <1>9, <1>10, <1>11 DEF thread_worker

(* Each step of compress_file and pool_quit keeps the types.               *)
LEMMA MainTyped ==
  ASSUME TypeOK, compress_file \/ pool_quit
  PROVE  TypeOK'
<1> USE DEF ringVars, localVars, dataVars, fileVars, worldVars
<1>1. Main \in Threads /\ Main \notin Workers /\ pc[Main] # "waiting"
  BY PoolAssumption DEF Threads, TypeOK, MainLabels
<1>2. ASSUME NEW label \in MainLabels,
             \/ pc' = Goto(Main, label)
             \/ Signal(Goto(Main, label))
             \/ Broadcast(Goto(Main, label))
      PROVE  PcTyped'
  <2>1. PcMoves(Main, label)
    BY <1>1, <1>2, GotoMoves, SignalMoves, BroadcastMoves
  <2>2. QED
    BY <1>1, <2>1, MovesTyped
<1>3. /\ "open" \in MainLabels /\ "header" \in MainLabels /\ "read" \in MainLabels /\ "put" \in MainLabels
      /\ "drain" \in MainLabels /\ "write" \in MainLabels /\ "help" \in MainLabels
      /\ "deflate" \in MainLabels /\ "store" \in MainLabels /\ "trailer" \in MainLabels
      /\ "abandon" \in MainLabels /\ "broadcast" \in MainLabels /\ "join" \in MainLabels
      /\ "exited" \in MainLabels
  BY DEF MainLabels
<1>4. \A i \in Slots : NextSlot(i) \in Slots
  BY NextSlotStep
<1>5. ASSUME NEW i \in Slots, NEW j \in Jobs, job' = [job EXCEPT ![i] = j]
      PROVE  job' \in [Slots -> Jobs]
  BY <1>5 DEF TypeOK
<1>6. CASE OpenFile
  <2>1. PcTyped'
    BY <1>2, <1>3, <1>6 DEF OpenFile
  <2>2. file' \in 0..NumFiles /\ q' \in Bufs
    BY <1>6, PoolAssumption DEF OpenFile, TypeOK, Bufs
  <2>3. Chunk("header", file + 1, 0, FALSE)
          \in [kind : {"header", "block"}, file : Nat, block : Nat, last : BOOLEAN]
    BY PoolAssumption DEF TypeOK, Chunk
  <2>4. out_buf' \in [Bufs -> [kind : {"header", "block"}, file : Nat, block : Nat, last : BOOLEAN]]
    BY <1>6, <2>3 DEF OpenFile, TypeOK
  <2>5. QED
    BY <1>6, <2>1, <2>2, <2>4 DEF OpenFile, TypeOK, PcTyped
<1>7. CASE ReadBlock
  <2>1. PcTyped'
    BY <1>2, <1>3, <1>7 DEF ReadBlock
  <2>2. [file |-> file, block |-> nread + 1] \in [file : Nat, block : Nat]
    BY PoolAssumption DEF TypeOK
  <2>3. in_buf' \in [Bufs -> [file : Nat, block : Nat]]
    BY <1>7, <2>2 DEF ReadBlock, TypeOK
  <2>4. QED
    BY <1>7, <2>1, <2>3 DEF ReadBlock, TypeOK, PcTyped
<1>8. ASSUME NEW last \in BOOLEAN, AfterPut(last), q + 1 = MAX_JOBQUEUE - 1 => last
      PROVE  q' \in Bufs
  BY <1>8, PoolAssumption DEF AfterPut, TypeOK, Bufs
<1>9. CASE PutWork
  <2> DEFINE last == end_of_stream \/ q + 1 = MAX_JOBQUEUE - 1
             idx  == NextSlot(head)
  <2>1. PcTyped'
    <3>1. CASE last
      BY <1>2, <1>3, <3>1, <1>9 DEF PutWork
    <3>2. CASE ~last
      BY <1>2, <1>3, <3>2, <1>9 DEF PutWork
    <3>3. QED
      BY <3>1, <3>2
  <2>2. q' \in Bufs
    BY <1>8, <1>9 DEF PutWork, TypeOK
  <2>3. idx \in Slots /\ job[idx] \in Jobs
    BY <1>4 DEF TypeOK
  <2>4. [job[idx] EXCEPT !.buf = q, !.type = end_of_stream, !.status = JOB_ALLOCATED] \in Jobs
    BY <2>3, JobUpdate DEF TypeOK
  <2>5. job' \in [Slots -> Jobs]
    BY <1>9, <1>5, <2>3, <2>4 DEF PutWork
  <2>6. QED
    BY <1>9, <2>1, <2>2, <2>3, <2>5 DEF PutWork, TypeOK, PcTyped
<1>10. CASE PutRefused
  <2>1. PcTyped'
    BY <1>2, <1>3, <1>10 DEF PutRefused
  <2>2. q' \in Bufs
    BY <1>8, <1>10 DEF PutRefused
  <2>3. QED
    BY <1>10, <2>1, <2>2 DEF PutRefused, TypeOK, PcTyped
<1>11. CASE DrainDone
  <2>1. PcTyped'
    BY <1>2, <1>3, <1>11 DEF DrainDone
  <2>2. QED
    BY <1>11, <2>1 DEF DrainDone, TypeOK, PcTyped
<1>12. CASE DrainTestStatus
  <2>1. \E label \in {"abandon", "write", "help"} : pc' = Goto(Main, label)
    <3> DEFINE status == job[NextSlot(tail)].status
    <3>1. status \in Int
      BY <1>4 DEF TypeOK, Jobs, JOB_UNALLOCATED, JOB_ALLOCATED, JOB_SUCCESS, JOB_FAIL
    <3>2. QED
      BY <1>12, <3>1 DEF DrainTestStatus, JOB_SUCCESS
  <2>2. PcTyped'
    BY <1>2, <1>3, <2>1
  <2>3. QED
    BY <1>12, <2>2 DEF DrainTestStatus, TypeOK, PcTyped
<1>13. CASE WriteBlock
  <2> DEFINE t == NextSlot(tail)
  <2>1. PcTyped'
    BY <1>2, <1>3, <1>13 DEF WriteBlock
  <2>2. t \in Slots /\ job[t] \in Jobs
    BY <1>4 DEF TypeOK
  <2>3. [job[t] EXCEPT !.total_out = 0, !.status = JOB_UNALLOCATED] \in Jobs
    BY <2>2, JobUpdate
  <2>4. job' \in [Slots -> Jobs]
    BY <1>13, <1>5, <2>2, <2>3 DEF WriteBlock
  <2>5. QED
    BY <1>13, <2>1, <2>2, <2>4 DEF WriteBlock, TypeOK, PcTyped
<1>14. CASE HelpIdle
  <2>1. PcTyped'
    BY <1>2, <1>3, <1>14 DEF HelpIdle
  <2>2. QED
    BY <1>14, <2>1 DEF HelpIdle, TypeOK, PcTyped
<1>15. CASE HelpTake
  <2>1. PcTyped'
    BY <1>2, <1>3, <1>15 DEF HelpTake
  <2>2. QED
    BY <1>15, <1>1, <1>4, <2>1 DEF HelpTake, pool_get_work, TypeOK, PcTyped
<1>16. CASE HelpDeflate
  <2>1. PcTyped'
    BY <1>2, <1>3, <1>16 DEF HelpDeflate
  <2>2. QED
    BY <1>16, <1>1, <2>1, DeflateTyped DEF HelpDeflate, TypeOK, PcTyped
<1>17. CASE HelpStore
  <2> DEFINE i == work_idx[Main]
             s == StatusOf(check[Main])
  <2>1. PcTyped'
    BY <1>2, <1>3, <1>17 DEF HelpStore
  <2>2. i \in Slots /\ job[i] \in Jobs /\ check[Main] \in CheckResults
    BY <1>1 DEF TypeOK
  <2>3. [job[i] EXCEPT !.total_out = 1, !.status = s] \in Jobs
    BY <2>2, StatusTyped, JobUpdate
  <2>4. job' \in [Slots -> Jobs]
    BY <1>17, <1>5, <2>2, <2>3 DEF HelpStore
  <2>5. QED
    BY <1>17, <1>1, <2>1, <2>4 DEF HelpStore, TypeOK, PcTyped
<1>18. CASE WriteTrailer
  <2>1. PcTyped'
    BY <1>2, <1>3, <1>18 DEF WriteTrailer
  <2>2. QED
    BY <1>18, <2>1 DEF WriteTrailer, TypeOK, PcTyped
<1>19. CASE AbandonFile
  <2>1. PcTyped'
    BY <1>2, <1>3, <1>19 DEF AbandonFile
  <2>2. QED
    BY <1>19, <2>1 DEF AbandonFile, TypeOK, PcTyped
<1>20. CASE QuitShutdown
  <2>1. PcTyped'
    BY <1>2, <1>3, <1>20 DEF QuitShutdown
  <2>2. QED
    BY <1>20, <2>1 DEF QuitShutdown, TypeOK, PcTyped
<1>21. CASE QuitBroadcast
  <2>1. PcTyped'
    BY <1>2, <1>3, <1>21 DEF QuitBroadcast
  <2>2. QED
    BY <1>21, <2>1 DEF QuitBroadcast, TypeOK, PcTyped
<1>22. CASE QuitJoin
  <2>1. PcTyped'
    BY <1>2, <1>3, <1>22 DEF QuitJoin
  <2>2. QED
    BY <1>22, <2>1 DEF QuitJoin, TypeOK, PcTyped
<1>23. CASE OpenFails
  <2>1. file' \in 0..NumFiles
    BY <1>23, PoolAssumption DEF OpenFails, TypeOK
  <2>2. reported' \in [FileIds -> {"none", "ok", "error", "unopened"}]
    BY <1>23 DEF OpenFails, TypeOK
  <2>3. PcTyped' /\ UNCHANGED <<ringVars, localVars, dataVars, nread, q, end_of_stream, blocks>>
    BY <1>23 DEF OpenFails, TypeOK, PcTyped
  <2>4. QED
    BY <2>1, <2>2, <2>3 DEF TypeOK, PcTyped
<1>24. CASE WriteHeader
  <2>1. PcTyped'
    BY <1>2, <1>3, <1>24 DEF WriteHeader
  <2>2. QED
    BY <1>24, <2>1 DEF WriteHeader, TypeOK, PcTyped
<1>25. QED
  BY <1>6, <1>7, <1>9, <1>10, <1>11, <1>12, <1>13, <1>14, <1>15, <1>16, <1>17, <1>18, <1>19,
     <1>20, <1>21, <1>22, <1>23, <1>24
  DEF compress_file, pool_quit

-----------------------------------------------------------------------------
(* The steps, by what they do to the ring                                  *)

(* A thread moves to a label where it owns nothing; the ring is untouched. *)
LEMMA QuietStep ==
  ASSUME IInv, NEW t \in Threads, NEW label, PcMoves(t, label),
         label \notin {"deflate", "store", "write"},
         UNCHANGED <<head, tail, queue, job, work_idx, pending>>
  PROVE  OwnInv'
<1>1. Busy' \subseteq Busy
  BY DEF PcMoves, Busy
<1>2. JobsOwnedOnce'
  BY <1>1 DEF IInv, OwnInv, JobsOwnedOnce, After
<1>3. QueuedAllocated' /\ SuccessIsComplete'
  BY DEF IInv, OwnInv, QueuedAllocated, SuccessIsComplete, After
<1>4. WriteIsFinished'
  BY PoolAssumption DEF IInv, OwnInv, WriteIsFinished, PcMoves, Threads, NextSlot
<1>5. StoresInOrder'
  BY DEF IInv, OwnInv, StoresInOrder, PcMoves
<1>6. QED
  BY <1>2, <1>3, <1>4, <1>5 DEF OwnInv

(* Main finds the next slot finished.                                      *)
LEMMA FoundStep ==
  ASSUME IInv, PcMoves(Main, "write"), tail # head,
         job[NextSlot(tail)].status = JOB_SUCCESS,
         UNCHANGED <<head, tail, queue, job, work_idx, pending>>
  PROVE  OwnInv'
<1>1. Busy' \subseteq Busy
  BY DEF PcMoves, Busy
<1>2. JobsOwnedOnce'
  BY <1>1 DEF IInv, OwnInv, JobsOwnedOnce, After
<1>3. QueuedAllocated' /\ SuccessIsComplete'
  BY DEF IInv, OwnInv, QueuedAllocated, SuccessIsComplete, After
<1>4. WriteIsFinished'
  BY DEF WriteIsFinished, NextSlot
<1>5. StoresInOrder'
  BY DEF IInv, OwnInv, StoresInOrder, PcMoves
<1>6. QED
  BY <1>2, <1>3, <1>4, <1>5 DEF OwnInv

(* Thread t takes the next queued job.                                     *)
LEMMA TakeStep ==
  ASSUME IInv, NEW t \in Threads, PcMoves(t, "deflate"), pc[t] \notin {"deflate", "store"},
         pool_has_work, pool_get_work(t),
         UNCHANGED <<head, tail, job, pending>>
  PROVE  OwnInv'
<1> DEFINE n == NextSlot(queue)
<1>1. /\ head \in Slots /\ tail \in Slots /\ queue \in Slots
      /\ queue \in After(tail, head) \cup {tail} /\ queue # head
  BY DEF IInv, OwnInv, TypeOK, JobsOwnedOnce, pool_has_work
<1>2. /\ n \in After(queue, head) /\ n \in After(tail, head) /\ n \notin After(tail, queue)
      /\ After(tail, n) = After(tail, queue) \cup {n}
      /\ After(n, head) \subseteq After(queue, head)
  BY <1>1, TakeStretch
<1>3. Busy' = Busy \cup {t} /\ t \notin Busy
  BY DEF PcMoves, Busy
<1>4. work_idx'[t] = n /\ \A u \in Threads \ {t} : work_idx'[u] = work_idx[u]
  BY DEF pool_get_work, IInv, OwnInv, TypeOK
<1>5. job[n].status = JOB_ALLOCATED
  BY <1>2 DEF IInv, OwnInv, QueuedAllocated
<1>6. \A u \in Busy : work_idx[u] \in After(tail, queue) /\ work_idx[u] # n
  BY <1>2 DEF IInv, OwnInv, JobsOwnedOnce
<1>7. queue' = n /\ After(tail', queue') = After(tail, queue) \cup {n}
      /\ After(tail', head') = After(tail, head) /\ After(queue', head') = After(n, head)
  BY <1>2 DEF pool_get_work, After
<1>8. JobsOwnedOnce'
  <2>1. queue' \in After(tail', head') \cup {tail'}
    BY <1>2, <1>7
  <2>2. ASSUME NEW u \in Busy'
        PROVE  /\ work_idx'[u] \in After(tail', queue')
               /\ job'[work_idx'[u]].status = JOB_ALLOCATED
               /\ \A v \in Busy' \ {u} : work_idx'[v] # work_idx'[u]
    <3>1. CASE u = t
      BY <1>3, <1>4, <1>5, <1>6, <1>7, <3>1 DEF Busy
    <3>2. CASE u # t
      <4>1. u \in Busy /\ work_idx'[u] = work_idx[u]
        BY <1>3, <1>4, <3>2 DEF Busy
      <4>2. ASSUME NEW v \in Busy' \ {u} PROVE work_idx'[v] # work_idx'[u]
        BY <1>3, <1>4, <1>6, <4>1 DEF IInv, OwnInv, JobsOwnedOnce, Busy
      <4>3. QED
        BY <1>6, <1>7, <4>1, <4>2 DEF IInv, OwnInv, JobsOwnedOnce
    <3>3. QED
      BY <3>1, <3>2
  <2>3. QED
    BY <2>1, <2>2 DEF JobsOwnedOnce
<1>9. QueuedAllocated' /\ SuccessIsComplete'
  BY <1>2, <1>7 DEF IInv, OwnInv, QueuedAllocated, SuccessIsComplete
<1>10. WriteIsFinished'
  BY PoolAssumption DEF IInv, OwnInv, WriteIsFinished, PcMoves, Threads, NextSlot
<1>11. StoresInOrder'
  BY <1>4 DEF IInv, OwnInv, StoresInOrder, PcMoves
<1>12. QED
  BY <1>8, <1>9, <1>10, <1>11 DEF OwnInv

(* Thread t has compressed its block and has both its stores to make.      *)
LEMMA DeflateStep ==
  ASSUME IInv, NEW t \in Threads, PcMoves(t, "store"), pc[t] = "deflate", Deflate(t),
         UNCHANGED <<head, tail, queue, job, work_idx>>
  PROVE  OwnInv'
<1>1. Busy' = Busy
  BY DEF PcMoves, Busy
<1>2. JobsOwnedOnce'
  BY <1>1 DEF IInv, OwnInv, JobsOwnedOnce, After
<1>3. QueuedAllocated' /\ SuccessIsComplete'
  BY DEF IInv, OwnInv, QueuedAllocated, SuccessIsComplete, After
<1>4. WriteIsFinished'
  BY PoolAssumption DEF IInv, OwnInv, WriteIsFinished, PcMoves, Threads, NextSlot
<1>5. pending' = [pending EXCEPT ![t] = {"total_out", "status"}]
  BY DEF Deflate
<1>6. StoresInOrder'
  <2>1. ASSUME NEW u \in Threads, pc'[u] = "store"
        PROVE  /\ "status" \in pending'[u]
               /\ "total_out" \notin pending'[u] => job'[work_idx'[u]].total_out = 1
    <3>1. CASE u = t
      BY <1>5, <3>1 DEF IInv, OwnInv, TypeOK
    <3>2. CASE u # t
      <4>1. pc[u] = "store" /\ pending'[u] = pending[u]
        BY <1>5, <2>1, <3>2 DEF IInv, OwnInv, TypeOK, PcMoves
      <4>2. QED
        BY <4>1 DEF IInv, OwnInv, StoresInOrder
    <3>3. QED
      BY <3>1, <3>2
  <2>2. QED
    BY <2>1 DEF StoresInOrder
<1>7. QED
  BY <1>2, <1>3, <1>4, <1>6 DEF OwnInv

(* A worker records the size of its result; its slot stays allocated.      *)
LEMMA StoreSizeStep ==
  ASSUME IInv, NEW w \in Workers, WorkerStoreTotalOut(w)
  PROVE  OwnInv'
<1> DEFINE i == work_idx[w]
<1>1. w \in Threads /\ pc[w] = "store" /\ w \in Busy
  BY DEF Threads, WorkerStoreTotalOut, Busy
<1>2. i \in Slots /\ job[i] \in Jobs /\ job \in [Slots -> Jobs] /\ job[i].status = JOB_ALLOCATED
  BY <1>1 DEF IInv, OwnInv, TypeOK, JobsOwnedOnce
<1>3. "status" \in pending[w]
  BY <1>1 DEF IInv, OwnInv, StoresInOrder
<1>4. pc' = pc /\ pending' = [pending EXCEPT ![w] = @ \ {"total_out"}]
  BY <1>3 DEF WorkerStoreTotalOut, AfterStore
<1>5. UNCHANGED <<head, tail, queue, work_idx>>
  BY DEF WorkerStoreTotalOut
<1>6. job'[i].total_out = 1 /\ job'[i].status = JOB_ALLOCATED
  BY <1>2 DEF WorkerStoreTotalOut, Jobs
<1>7. \A k \in Slots : k # i => job'[k] = job[k]
  BY <1>2 DEF WorkerStoreTotalOut
<1>8. \A k \in Slots : job'[k].status = job[k].status
  BY <1>2, <1>6, <1>7
<1>9. Busy' = Busy
  BY <1>4 DEF Busy
<1>10. JobsOwnedOnce'
  BY <1>5, <1>8, <1>9 DEF IInv, OwnInv, JobsOwnedOnce, After, TypeOK, Busy
<1>11. QueuedAllocated'
  BY <1>5, <1>8 DEF IInv, OwnInv, QueuedAllocated, After
<1>12. SuccessIsComplete'
  BY <1>6, <1>7 DEF IInv, OwnInv, SuccessIsComplete
<1>13. WriteIsFinished'
  BY <1>4, <1>5, <1>8, NextSlotStep DEF IInv, OwnInv, WriteIsFinished, TypeOK, NextSlot
<1>14. StoresInOrder'
  <2>1. ASSUME NEW u \in Threads, pc'[u] = "store"
        PROVE  /\ "status" \in pending'[u]
               /\ "total_out" \notin pending'[u] => job'[work_idx'[u]].total_out = 1
    <3>1. CASE u = w
      BY <1>1, <1>3, <1>4, <1>5, <1>6, <3>1 DEF IInv, OwnInv, TypeOK
    <3>2. CASE u # w
      <4>1. pc[u] = "store" /\ pending'[u] = pending[u] /\ u \in Busy
        BY <1>4, <2>1, <3>2 DEF IInv, OwnInv, TypeOK, Busy
      <4>2. work_idx[u] \in Slots /\ work_idx[u] # i
        BY <1>1, <3>2, <4>1 DEF IInv, OwnInv, TypeOK, JobsOwnedOnce
      <4>3. QED
        BY <1>5, <1>7, <4>1, <4>2 DEF IInv, OwnInv, StoresInOrder
    <3>3. QED
      BY <3>1, <3>2
  <2>2. QED
    BY <2>1 DEF StoresInOrder
<1>15. QED
  BY <1>10, <1>11, <1>12, <1>13, <1>14 DEF OwnInv

(* Thread t marks its slot finished and lets go of it.                     *)
LEMMA FinishStep ==
  ASSUME IInv, NEW t \in Threads, NEW label, PcMoves(t, label),
         label \notin {"deflate", "store", "write"}, pc[t] = "store",
         NEW j \in Jobs, job' = [job EXCEPT ![work_idx[t]] = j],
         j.status \in {JOB_SUCCESS, JOB_FAIL}, j.total_out = 1,
         NEW p, pending' = [pending EXCEPT ![t] = p],
         UNCHANGED <<head, tail, queue, work_idx>>
  PROVE  OwnInv'
<1> DEFINE i == work_idx[t]
<1>1. t \in Busy /\ Busy' = Busy \ {t}
  BY DEF PcMoves, Busy
<1>2. i \in Slots /\ job \in [Slots -> Jobs] /\ i \in After(tail, queue)
      /\ job[i].status = JOB_ALLOCATED
  BY <1>1 DEF IInv, OwnInv, TypeOK, JobsOwnedOnce
<1>3. job'[i] = j /\ \A k \in Slots : k # i => job'[k] = job[k]
  BY <1>2
<1>4. \A u \in Busy' : u \in Busy /\ work_idx[u] \in Slots /\ work_idx[u] # i
  BY <1>1 DEF IInv, OwnInv, TypeOK, JobsOwnedOnce, Busy
<1>5. JobsOwnedOnce'
  <2>1. After(tail, queue)' = After(tail, queue) /\ After(tail, head)' = After(tail, head)
    BY DEF After
  <2>2. queue \in After(tail, head) \cup {tail}
    BY DEF IInv, OwnInv, JobsOwnedOnce
  <2>3. ASSUME NEW u \in Busy'
        PROVE  /\ work_idx[u] \in After(tail, queue)
               /\ job'[work_idx[u]].status = JOB_ALLOCATED
               /\ \A v \in Busy' \ {u} : work_idx[v] # work_idx[u]
    <3>1. job'[work_idx[u]] = job[work_idx[u]]
      BY <1>3, <1>4
    <3>2. QED
      BY <1>1, <1>4, <3>1 DEF IInv, OwnInv, JobsOwnedOnce
  <2>4. QED
    BY <2>1, <2>2, <2>3 DEF JobsOwnedOnce
<1>6. i \notin After(queue, head)
  BY <1>2, StretchesDisjoint DEF IInv, OwnInv, TypeOK, JobsOwnedOnce
<1>7. QueuedAllocated'
  BY <1>3, <1>6 DEF IInv, OwnInv, QueuedAllocated, After
<1>8. SuccessIsComplete'
  BY <1>3 DEF IInv, OwnInv, SuccessIsComplete
<1>9. WriteIsFinished'
  <2>1. ASSUME pc'[Main] = "write"
        PROVE  tail' # head' /\ job'[NextSlot(tail')].status = JOB_SUCCESS
    <3>1. pc[Main] = "write"
      BY <2>1, PoolAssumption DEF PcMoves, Threads
    <3>2. NextSlot(tail) \in Slots /\ job[NextSlot(tail)].status = JOB_SUCCESS /\ tail # head
      BY <3>1, NextSlotStep DEF IInv, OwnInv, TypeOK, WriteIsFinished
    <3>3. NextSlot(tail) # i
      BY <1>2, <3>2 DEF JOB_SUCCESS, JOB_ALLOCATED
    <3>4. NextSlot(tail') = NextSlot(tail)
      BY DEF NextSlot
    <3>5. QED
      BY <1>3, <3>2, <3>3, <3>4
  <2>2. QED
    BY <2>1 DEF WriteIsFinished
<1>10. StoresInOrder'
  <2>1. ASSUME NEW u \in Threads, pc'[u] = "store"
        PROVE  /\ "status" \in pending'[u]
               /\ "total_out" \notin pending'[u] => job'[work_idx'[u]].total_out = 1
    <3>1. u # t /\ u \in Busy'
      BY <2>1 DEF PcMoves, Busy
    <3>2. pc[u] = "store" /\ pending'[u] = pending[u]
      BY <2>1, <3>1 DEF PcMoves, IInv, OwnInv, TypeOK
    <3>3. QED
      BY <1>3, <1>4, <3>1, <3>2 DEF IInv, OwnInv, StoresInOrder
  <2>2. QED
    BY <2>1 DEF StoresInOrder
<1>11. QED
  BY <1>5, <1>7, <1>8, <1>9, <1>10 DEF OwnInv

(* Main queues a block in a slot that no thread works on.                  *)
LEMMA PutStep ==
  ASSUME IInv, PutWork
  PROVE  OwnInv'
<1> DEFINE n == NextSlot(head)
           last == end_of_stream \/ q + 1 = MAX_JOBQUEUE - 1
           j == [job[n] EXCEPT !.buf = q, !.type = end_of_stream, !.status = JOB_ALLOCATED]
<1>1. Main \in Threads /\ pc[Main] = "put"
  BY DEF Threads, PutWork
<1>2. PcMoves(Main, IF last THEN "drain" ELSE "read")
  BY <1>1, SignalMoves DEF PutWork, IInv, MainLabels
<1>3. Busy' = Busy /\ pc'[Main] # "write" /\ Main \notin Busy
  BY <1>1, <1>2 DEF PcMoves, Busy
<1>4. /\ head \in Slots /\ tail \in Slots /\ queue \in Slots /\ n # tail
      /\ queue \in After(tail, head) \cup {tail} /\ n \in Slots
      /\ job \in [Slots -> Jobs]
  BY NextSlotStep DEF IInv, OwnInv, TypeOK, JobsOwnedOnce, PutWork, pool_has_space
<1>5. /\ queue \in After(tail, n) \cup {tail} /\ n \notin After(tail, queue)
      /\ After(queue, n) = After(queue, head) \cup {n}
  BY <1>4, PutStretch
<1>6. /\ head' = n /\ UNCHANGED <<tail, queue, work_idx, pending>>
      /\ job' = [job EXCEPT ![n] = j]
  BY DEF PutWork, localVars
<1>7. j.status = JOB_ALLOCATED
  BY <1>4 DEF Jobs
<1>8. job'[n] = j /\ \A k \in Slots : k # n => job'[k] = job[k]
  BY <1>4, <1>6
<1>9. \A u \in Busy : work_idx[u] \in Slots /\ work_idx[u] # n
  BY <1>5 DEF IInv, OwnInv, TypeOK, JobsOwnedOnce, Busy
<1>10. JobsOwnedOnce'
  BY <1>3, <1>5, <1>6, <1>8, <1>9 DEF IInv, OwnInv, JobsOwnedOnce, After
<1>11. QueuedAllocated'
  <2>1. After(queue', head') = After(queue, head) \cup {n}
    BY <1>5, <1>6 DEF After
  <2>2. ASSUME NEW k \in After(queue, head) PROVE job'[k].status = JOB_ALLOCATED
    BY <1>7, <1>8 DEF IInv, OwnInv, QueuedAllocated, After
  <2>3. QED
    BY <1>7, <1>8, <2>1, <2>2 DEF QueuedAllocated
<1>12. SuccessIsComplete'
  <2>1. job'[n].status # JOB_SUCCESS
    BY <1>7, <1>8 DEF JOB_SUCCESS, JOB_ALLOCATED
  <2>2. ASSUME NEW k \in Slots, job'[k].status = JOB_SUCCESS PROVE job'[k].total_out # 0
    <3>1. job'[k] = job[k]
      BY <1>7, <1>8, <2>1, <2>2
    <3>2. QED
      BY <2>2, <3>1 DEF IInv, OwnInv, SuccessIsComplete
  <2>3. QED
    BY <2>2 DEF SuccessIsComplete
<1>13. WriteIsFinished'
  BY <1>3 DEF WriteIsFinished
<1>14. StoresInOrder'
  <2>1. ASSUME NEW u \in Threads, pc'[u] = "store"
        PROVE  /\ "status" \in pending'[u]
               /\ "total_out" \notin pending'[u] => job'[work_idx'[u]].total_out = 1
    <3>1. pc[u] = "store" /\ u \in Busy
      BY <1>2, <2>1 DEF PcMoves, Busy
    <3>2. QED
      BY <1>6, <1>8, <1>9, <3>1 DEF IInv, OwnInv, StoresInOrder
  <2>2. QED
    BY <2>1 DEF StoresInOrder
<1>15. QED
  BY <1>10, <1>11, <1>12, <1>13, <1>14 DEF OwnInv

(* Main writes the next slot out, frees it and moves tail onto it.         *)
LEMMA WriteStep ==
  ASSUME IInv, WriteBlock
  PROVE  OwnInv'
<1> DEFINE n == NextSlot(tail)
           j == [job[n] EXCEPT !.total_out = 0, !.status = JOB_UNALLOCATED]
<1>1. Main \in Threads /\ pc[Main] = "write"
  BY DEF Threads, WriteBlock
<1>2. PcMoves(Main, "help")
  BY <1>1, BroadcastMoves DEF WriteBlock, IInv, MainLabels
<1>3. Busy' = Busy /\ pc'[Main] # "write"
  BY <1>1, <1>2 DEF PcMoves, Busy
<1>4. /\ head \in Slots /\ tail \in Slots /\ queue \in Slots /\ n \in Slots
      /\ queue \in After(tail, head) \cup {tail} /\ job \in [Slots -> Jobs]
  BY NextSlotStep DEF IInv, OwnInv, TypeOK, JobsOwnedOnce
<1>5. tail # head /\ job[n].status = JOB_SUCCESS
  BY <1>1 DEF IInv, OwnInv, WriteIsFinished
<1>6. n \notin After(queue, head)
  BY <1>5 DEF IInv, OwnInv, QueuedAllocated, JOB_SUCCESS, JOB_ALLOCATED
<1>7. queue \in After(n, head) \cup {n} /\ After(tail, queue) = After(n, queue) \cup {n}
  BY <1>4, <1>5, <1>6, WriteStretch
<1>8. /\ tail' = n /\ UNCHANGED <<head, queue, work_idx, pending>>
      /\ job' = [job EXCEPT ![n] = j]
  BY DEF WriteBlock, localVars
<1>9. j.status = JOB_UNALLOCATED
  BY <1>4 DEF Jobs
<1>10. job'[n] = j /\ \A k \in Slots : k # n => job'[k] = job[k]
  BY <1>4, <1>8
<1>11. \A u \in Busy : work_idx[u] \in Slots /\ work_idx[u] # n
  BY <1>5 DEF IInv, OwnInv, TypeOK, JobsOwnedOnce, Busy, JOB_SUCCESS, JOB_ALLOCATED
<1>12. JobsOwnedOnce'
  <2>1. After(tail, queue)' = After(n, queue) /\ After(tail, head)' = After(n, head)
    BY <1>8 DEF After
  <2>2. ASSUME NEW u \in Busy'
        PROVE  /\ work_idx[u] \in After(n, queue)
               /\ job'[work_idx[u]].status = JOB_ALLOCATED
               /\ \A v \in Busy' \ {u} : work_idx[v] # work_idx[u]
    <3>1. job'[work_idx[u]] = job[work_idx[u]] /\ work_idx[u] # n
      BY <1>3, <1>10, <1>11
    <3>2. QED
      BY <1>3, <1>7, <3>1 DEF IInv, OwnInv, JobsOwnedOnce
  <2>3. QED
    BY <1>7, <1>8, <2>1, <2>2 DEF JobsOwnedOnce
<1>13. QueuedAllocated'
  BY <1>6, <1>8, <1>10 DEF IInv, OwnInv, QueuedAllocated, After
<1>14. SuccessIsComplete'
  <2>1. job'[n].status # JOB_SUCCESS
    BY <1>9, <1>10 DEF JOB_SUCCESS, JOB_UNALLOCATED
  <2>2. ASSUME NEW k \in Slots, job'[k].status = JOB_SUCCESS PROVE job'[k].total_out # 0
    <3>1. job'[k] = job[k]
      BY <1>9, <1>10, <2>1, <2>2
    <3>2. QED
      BY <2>2, <3>1 DEF IInv, OwnInv, SuccessIsComplete
  <2>3. QED
    BY <2>2 DEF SuccessIsComplete
<1>15. WriteIsFinished'
  BY <1>3 DEF WriteIsFinished
<1>16. StoresInOrder'
  <2>1. ASSUME NEW u \in Threads, pc'[u] = "store"
        PROVE  /\ "status" \in pending'[u]
               /\ "total_out" \notin pending'[u] => job'[work_idx'[u]].total_out = 1
    <3>1. pc[u] = "store" /\ u \in Busy
      BY <1>2, <2>1 DEF PcMoves, Busy
    <3>2. QED
      BY <1>8, <1>10, <1>11, <3>1 DEF IInv, OwnInv, StoresInOrder
  <2>2. QED
    BY <2>1 DEF StoresInOrder
<1>17. QED
  BY <1>12, <1>13, <1>14, <1>15, <1>16 DEF OwnInv

-----------------------------------------------------------------------------
(* The invariant                                                           *)

(* The invariant holds once pool_create has returned.                      *)
LEMMA InvInit == Init => IInv
<1>1. SUFFICES ASSUME Init PROVE IInv
  OBVIOUS
<1>2. TypeOK
  BY <1>1, TypeInit
<1>3. Busy = {} /\ pc[Main] = "open" /\ After(0, 0) = {}
  BY <1>1, PoolAssumption DEF Init, Busy, Threads, After, Slots
<1>4. JobsOwnedOnce /\ QueuedAllocated
  BY <1>1, <1>3 DEF Init, JobsOwnedOnce, QueuedAllocated
<1>5. WriteIsFinished /\ StoresInOrder
  BY <1>1, <1>3 DEF Init, WriteIsFinished, StoresInOrder
<1>6. SuccessIsComplete
  BY <1>1 DEF Init, SuccessIsComplete, NoJob, JOB_SUCCESS, JOB_UNALLOCATED
<1>7. QED
  BY <1>2, <1>4, <1>5, <1>6 DEF IInv, OwnInv

(* Each step of a worker keeps the invariant.                              *)
LEMMA WorkerStep ==
  ASSUME ~ReorderStores, IInv, NEW w \in Workers, thread_worker(w) \/ WorkerWakeSpuriously(w)
  PROVE  OwnInv'
<1> USE DEF ringVars, localVars, dataVars, fileVars, worldVars
<1>1. w \in Threads /\ TypeOK
  BY DEF Threads, IInv
<1>2. {"loop", "lock", "waiting", "deflate", "store", "exited"} \subseteq WorkerLabels
  BY DEF WorkerLabels
<1>3. CASE WorkerTestShutdown(w)
  <2>1. PcMoves(w, IF shutdown THEN "exited" ELSE "lock")
    BY <1>1, <1>2, <1>3, GotoMoves DEF WorkerTestShutdown
  <2>2. QED
    BY <1>1, <1>3, <2>1, QuietStep DEF WorkerTestShutdown
<1>4. CASE WorkerWait(w)
  <2>1. PcMoves(w, "waiting")
    BY <1>1, <1>2, <1>4, GotoMoves DEF WorkerWait
  <2>2. QED
    BY <1>1, <1>4, <2>1, QuietStep DEF WorkerWait
<1>5. CASE WorkerSeeShutdown(w)
  <2>1. PcMoves(w, "loop")
    BY <1>1, <1>2, <1>5, GotoMoves DEF WorkerSeeShutdown
  <2>2. QED
    BY <1>1, <1>5, <2>1, QuietStep DEF WorkerSeeShutdown
<1>6. CASE WorkerWakeSpuriously(w)
  <2>1. PcMoves(w, "lock")
    BY <1>1, <1>2, <1>6, GotoMoves DEF WorkerWakeSpuriously
  <2>2. QED
    BY <1>1, <1>6, <2>1, QuietStep DEF WorkerWakeSpuriously
<1>7. CASE WorkerTake(w)
  <2>1. PcMoves(w, "deflate")
    BY <1>1, <1>2, <1>7, SignalMoves DEF WorkerTake
  <2>2. QED
    BY <1>1, <1>7, <2>1, TakeStep DEF WorkerTake
<1>8. CASE WorkerDeflate(w)
  <2>1. PcMoves(w, "store")
    BY <1>1, <1>2, <1>8, GotoMoves DEF WorkerDeflate
  <2>2. QED
    BY <1>1, <1>8, <2>1, DeflateStep DEF WorkerDeflate
<1>9. CASE WorkerStoreTotalOut(w)
  BY <1>9, StoreSizeStep
<1>10. CASE WorkerStoreStatus(w)
  <2> DEFINE i == work_idx[w]
             label == IF check[w] = COMP_OK THEN "loop" ELSE "exited"
             j == [job[i] EXCEPT !.status = StatusOf(check[w])]
  <2>1. pc[w] = "store" /\ "total_out" \notin pending[w]
    BY <1>10 DEF WorkerStoreStatus
  <2>2. i \in Slots /\ job[i] \in Jobs /\ check[w] \in CheckResults
        /\ pending[w] \subseteq {"total_out", "status"} /\ job[i].total_out = 1
    BY <1>1, <2>1 DEF TypeOK, IInv, OwnInv, StoresInOrder
  <2>3. StatusOf(check[w]) \in {JOB_SUCCESS, JOB_FAIL}
    BY <2>2, StatusTyped
  <2>4. j \in Jobs /\ j.status \in {JOB_SUCCESS, JOB_FAIL} /\ j.total_out = 1
    <3>1. j \in Jobs
      BY <2>2, <2>3, JobUpdate
    <3>2. QED
      BY <2>2, <2>3, <3>1 DEF Jobs
  <2>5. pc' = Goto(w, label)
    BY <1>10, <2>1, <2>2 DEF WorkerStoreStatus, AfterStore
  <2>6. PcMoves(w, label)
    BY <1>1, <1>2, <2>5, GotoMoves
  <2>7. /\ job' = [job EXCEPT ![i] = j]
        /\ pending' = [pending EXCEPT ![w] = pending[w] \ {"status"}]
        /\ UNCHANGED <<head, tail, queue, work_idx>>
    BY <1>10 DEF WorkerStoreStatus, AfterStore
  <2>8. label \notin {"deflate", "store", "write"}
    OBVIOUS
  <2> HIDE DEF label, j
  <2>9. QED
    BY <1>1, <2>1, <2>4, <2>6, <2>7, <2>8, FinishStep
<1>11. QED
  BY <1>3, <1>4, <1>5, <1>6, <1>7, <1>8, <1>9, <1>10 DEF thread_worker

(* Each step of the main thread keeps the invariant.                       *)
LEMMA MainStep ==
  ASSUME IInv, compress_file \/ pool_quit
  PROVE  OwnInv'
<1> USE DEF ringVars, localVars, dataVars, fileVars, worldVars
<1>1. Main \in Threads /\ TypeOK /\ pc[Main] # "waiting"
  BY DEF Threads, IInv, TypeOK, MainLabels
<1>2. ASSUME NEW label \in MainLabels,
             \/ pc' = Goto(Main, label)
             \/ Signal(Goto(Main, label))
             \/ Broadcast(Goto(Main, label))
      PROVE  PcMoves(Main, label)
  BY <1>1, <1>2, GotoMoves, SignalMoves, BroadcastMoves
<1>3. {"open", "header", "read", "put", "drain", "write", "help", "deflate", "store", "trailer",
       "abandon", "broadcast", "join", "exited"} \subseteq MainLabels
  BY DEF MainLabels
<1>4. CASE OpenFile
  <2>1. PcMoves(Main, "header")
    BY <1>2, <1>3, <1>4 DEF OpenFile
  <2>2. QED
    BY <1>1, <1>4, <2>1, QuietStep DEF OpenFile
<1>5. CASE ReadBlock
  <2>1. PcMoves(Main, "put")
    BY <1>2, <1>3, <1>5 DEF ReadBlock
  <2>2. QED
    BY <1>1, <1>5, <2>1, QuietStep DEF ReadBlock
<1>6. CASE PutWork
  BY <1>6, PutStep
<1>7. CASE PutRefused
  <2>1. PcMoves(Main, "drain")
    BY <1>2, <1>3, <1>7 DEF PutRefused
  <2>2. QED
    BY <1>1, <1>7, <2>1, QuietStep DEF PutRefused
<1>8. CASE DrainDone
  <2>1. PcMoves(Main, IF end_of_stream THEN "trailer" ELSE "read")
    BY <1>2, <1>3, <1>8 DEF DrainDone
  <2>2. QED
    BY <1>1, <1>8, <2>1, QuietStep DEF DrainDone
<1>9. CASE DrainTestStatus
  <2> DEFINE status == job[NextSlot(tail)].status
  <2>1. status \in {JOB_UNALLOCATED, JOB_ALLOCATED, JOB_SUCCESS, JOB_FAIL}
    BY <1>1, NextSlotStep DEF TypeOK, Jobs
  <2>2. CASE status = JOB_SUCCESS
    <3>1. PcMoves(Main, "write")
      BY <1>2, <1>3, <1>9, <2>2 DEF DrainTestStatus, JOB_SUCCESS
    <3>2. QED
      BY <1>9, <2>2, <3>1, FoundStep DEF DrainTestStatus
  <2>3. CASE status # JOB_SUCCESS
    <3>1. \E label \in {"abandon", "help"} : pc' = Goto(Main, label)
      BY <1>9, <2>1, <2>3
      DEF DrainTestStatus, JOB_UNALLOCATED, JOB_ALLOCATED, JOB_SUCCESS, JOB_FAIL
    <3>2. PICK label \in {"abandon", "help"} : PcMoves(Main, label)
      BY <1>2, <1>3, <3>1
    <3>3. QED
      BY <1>1, <1>9, <3>2, QuietStep DEF DrainTestStatus
  <2>4. QED
    BY <2>2, <2>3
<1>10. CASE WriteBlock
  BY <1>10, WriteStep
<1>11. CASE HelpIdle
  <2>1. PcMoves(Main, "drain")
    BY <1>2, <1>3, <1>11 DEF HelpIdle
  <2>2. QED
    BY <1>1, <1>11, <2>1, QuietStep DEF HelpIdle
<1>12. CASE HelpTake
  <2>1. PcMoves(Main, "deflate")
    BY <1>2, <1>3, <1>12 DEF HelpTake
  <2>2. QED
    BY <1>1, <1>12, <2>1, TakeStep DEF HelpTake
<1>13. CASE HelpDeflate
  <2>1. PcMoves(Main, "store")
    BY <1>2, <1>3, <1>13 DEF HelpDeflate
  <2>2. QED
    BY <1>1, <1>13, <2>1, DeflateStep DEF HelpDeflate
<1>14. CASE HelpStore
  <2> DEFINE i == work_idx[Main]
             j == [job[i] EXCEPT !.total_out = 1, !.status = StatusOf(check[Main])]
  <2>1. i \in Slots /\ job[i] \in Jobs /\ check[Main] \in CheckResults
    BY <1>1 DEF TypeOK
  <2>2. StatusOf(check[Main]) \in {JOB_SUCCESS, JOB_FAIL}
    BY <2>1, StatusTyped
  <2>3. j \in Jobs /\ j.status \in {JOB_SUCCESS, JOB_FAIL} /\ j.total_out = 1
    <3>1. j \in Jobs
      BY <2>1, <2>2, JobUpdate
    <3>2. QED
      BY <2>1, <2>2, <3>1 DEF Jobs
  <2>4. PcMoves(Main, "drain")
    BY <1>2, <1>3, <1>14 DEF HelpStore
  <2>5. /\ job' = [job EXCEPT ![i] = j] /\ pending' = [pending EXCEPT ![Main] = {}]
        /\ UNCHANGED <<head, tail, queue, work_idx>> /\ pc[Main] = "store"
    BY <1>14 DEF HelpStore
  <2> HIDE DEF j
  <2>6. QED
    BY <1>1, <2>3, <2>4, <2>5, FinishStep
<1>15. CASE WriteTrailer
  <2>1. PcMoves(Main, "open")
    BY <1>2, <1>3, <1>15 DEF WriteTrailer
  <2>2. QED
    BY <1>1, <1>15, <2>1, QuietStep DEF WriteTrailer
<1>16. CASE AbandonFile
  <2>1. PcMoves(Main, "open")
    BY <1>2, <1>3, <1>16 DEF AbandonFile
  <2>2. QED
    BY <1>1, <1>16, <2>1, QuietStep DEF AbandonFile
<1>17. CASE QuitShutdown
  <2>1. PcMoves(Main, "broadcast")
    BY <1>2, <1>3, <1>17 DEF QuitShutdown
  <2>2. QED
    BY <1>1, <1>17, <2>1, QuietStep DEF QuitShutdown
<1>18. CASE QuitBroadcast
  <2>1. PcMoves(Main, "join")
    BY <1>2, <1>3, <1>18 DEF QuitBroadcast
  <2>2. QED
    BY <1>1, <1>18, <2>1, QuietStep DEF QuitBroadcast
<1>19. CASE QuitJoin
  <2>1. PcMoves(Main, "exited")
    BY <1>2, <1>3, <1>19 DEF QuitJoin
  <2>2. QED
    BY <1>1, <1>19, <2>1, QuietStep DEF QuitJoin
<1>20. CASE OpenFails
  <2>1. pc[Main] = "open" /\ PcMoves(Main, "open")
    BY <1>1, <1>20 DEF OpenFails, PcMoves, TypeOK
  <2>2. QED
    BY <1>1, <1>20, <2>1, QuietStep DEF OpenFails
<1>21. CASE WriteHeader
  <2>1. PcMoves(Main, "read")
    BY <1>2, <1>3, <1>21 DEF WriteHeader
  <2>2. QED
    BY <1>1, <1>21, <2>1, QuietStep DEF WriteHeader
<1>22. QED
  BY <1>4, <1>5, <1>6, <1>7, <1>8, <1>9, <1>10, <1>11, <1>12, <1>13, <1>14, <1>15, <1>16, <1>17,
     <1>18, <1>19, <1>20, <1>21
  DEF compress_file, pool_quit

(* So does every step of the program.                                      *)
LEMMA InvStep ==
  ASSUME ~ReorderStores, IInv, [Next]_vars
  PROVE  IInv'
<1>1. CASE \E w \in Workers : thread_worker(w) \/ WorkerWakeSpuriously(w)
  <2>1. PICK w \in Workers : thread_worker(w) \/ WorkerWakeSpuriously(w)
    BY <1>1
  <2>2. TypeOK'
    BY <2>1, WorkerTyped DEF IInv
  <2>3. OwnInv'
    BY <2>1, WorkerStep
  <2>4. QED
    BY <2>2, <2>3 DEF IInv
<1>2. CASE compress_file \/ pool_quit
  BY <1>2, MainTyped, MainStep DEF IInv
<1>3. CASE UNCHANGED vars
  BY <1>3
  DEF vars, ringVars, localVars, dataVars, fileVars, worldVars, IInv, TypeOK, OwnInv,
      JobsOwnedOnce, QueuedAllocated, WriteIsFinished, StoresInOrder, SuccessIsComplete,
      Busy, After, NextSlot
<1>4. QED
  BY <1>1, <1>2, <1>3 DEF Next, Done

(* Every reachable state of the pool is well typed, each job slot has at   *)
(* most one owner between its being taken and its being written, and a     *)
(* slot marked as a success holds its result: for every ring, every set of *)
(* workers and every set of files, where stores are seen in program order. *)
THEOREM PoolTypeCorrect == ASSUME ~ReorderStores PROVE Spec => []TypeOK
<1>1. Init => IInv
  BY InvInit
<1>2. IInv /\ [Next]_vars => IInv'
  BY InvStep
<1>3. IInv => TypeOK
  BY DEF IInv
<1>4. QED
  BY <1>1, <1>2, <1>3, PTL DEF Spec

(* pool_get_work and pool_put_work hand every slot to one thread at a time *)
(* and the main thread frees it only when that thread is done.             *)
THEOREM PoolJobsOwnedOnce == ASSUME ~ReorderStores PROVE Spec => []JobsOwnedOnce
<1>1. Init => IInv
  BY InvInit
<1>2. IInv /\ [Next]_vars => IInv'
  BY InvStep
<1>3. IInv => JobsOwnedOnce
  BY DEF IInv, OwnInv
<1>4. QED
  BY <1>1, <1>2, <1>3, PTL DEF Spec

(* The main thread never writes a slot whose size is not there yet.        *)
THEOREM PoolSuccessIsComplete == ASSUME ~ReorderStores PROVE Spec => []SuccessIsComplete
<1>1. Init => IInv
  BY InvInit
<1>2. IInv /\ [Next]_vars => IInv'
  BY InvStep
<1>3. IInv => SuccessIsComplete
  BY DEF IInv, OwnInv
<1>4. QED
  BY <1>1, <1>2, <1>3, PTL DEF Spec

-----------------------------------------------------------------------------
(* The pool writes the output files as GzipFileWriter promises, whatever   *)
(* the order in which the threads take and finish the blocks, and main     *)
(* never overwrites a piece of in_buf or a job that a thread still works   *)
(* from.                                                                   *)

(* How many slots lie after a, up to and including b.                      *)
Dist(a, b) == IF a <= b THEN b - a ELSE b - a + MAX_JOBQUEUE

(* The labels of compress_file once the header of its file is written.     *)
Working == {"read", "put", "drain", "write", "help", "deflate", "store",
            "trailer", "abandon"}

Failed == \E f \in FileIds : reported[f] = "error"

Kept == After(tail, head)           (* queued, taken or not yet written    *)

(* The blocks of the file written so far, the number of the one that a     *)
(* slot holds, and what its piece of out_buf holds when it is compressed.  *)
Written == Len(out[file]) - 1
Nth(i)  == Written + Dist(tail, i)
HasResult(i) == out_buf[job[i].buf] = Chunk("block", file, Nth(i), job[i].type)

Chunks == [kind : {"header", "block", "trailer"}, file : Nat, block : Nat, last : BOOLEAN]

(* The files before the current one are reported, those after it are       *)
(* untouched, and the current one is open until it is reported: empty at   *)
(* first, then with its header.                                            *)
FileInv ==
  /\ out \in [FileIds -> Seq(Chunks)]
  /\ \A f \in FileIds : f > file => out[f] = <<>> /\ reported[f] = "none"
  /\ \A f \in FileIds : f < file => reported[f] # "none"
  /\ IF pc[Main] \in Working
     THEN file \in FileIds /\ reported[file] = "none" /\ out[file] # <<>>
     ELSE file \in FileIds => (reported[file] = "none" <=> pc[Main] = "header")
  /\ pc[Main] = "header" => file \in FileIds /\ out[file] = <<>>
  /\ shutdown => pc[Main] \notin Working \cup {"open", "header"}

(* Unless a job failed, no thread touches the header before it is written. *)
HeaderInv ==
  pc[Main] = "header" =>
    /\ nread = 0 /\ q = 0 /\ ~end_of_stream
    /\ ~Failed => out_buf[0] = Chunk("header", file, 0, FALSE)

(* A failed job stays at the front of the ring for ever: no later file     *)
(* gets past it.                                                           *)
StuckInv ==
  Failed \/ pc[Main] = "abandon" => tail # head /\ job[NextSlot(tail)].status = JOB_FAIL

(* A round of the do loop ends with an empty ring.                         *)
EmptyInv ==
  /\ pc[Main] \notin Working /\ ~Failed => tail = head
  /\ pc[Main] = "trailer" => tail = head /\ end_of_stream

(* main's counts: the blocks read are those written and those in the ring, *)
(* and the one main is about to put there.                                 *)
CountInv ==
  /\ nread \in 0..blocks[file]
  /\ (end_of_stream <=> nread = blocks[file])
  /\ nread = Nth(head) + (IF pc[Main] = "put" THEN 1 ELSE 0)
  /\ pc[Main] = "read" => ~end_of_stream
  /\ IF pc[Main] \in {"read", "put"} THEN q = Dist(tail, head) ELSE q = 0
  /\ pc[Main] = "put" => in_buf[q] = [file |-> file, block |-> nread]

(* The slots of the ring hold the blocks after those written, in order,    *)
(* each in its own piece of in_buf, the last block and no other marked so; *)
(* while main fills the round its own piece is one of none of them.        *)
QueueInv ==
  /\ \A i \in Kept :
       /\ in_buf[job[i].buf] = [file |-> file, block |-> Nth(i)]
       /\ (job[i].type <=> Nth(i) = blocks[file])
       /\ pc[Main] \in {"read", "put"} => job[i].buf < q
  /\ \A i, j \in Kept : i # j => job[i].buf # job[j].buf

(* A slot marked as a success, and one whose thread has only its stores    *)
(* to make, hold the compressed block.                                     *)
ResultInv ==
  /\ \A i \in Kept : job[i].status = JOB_SUCCESS => HasResult(i)
  /\ \A t \in Threads : pc[t] = "store" => HasResult(work_idx[t])

RoundInv == ~Failed /\ pc[Main] \in Working => CountInv /\ QueueInv /\ ResultInv

RInv ==
  /\ IInv
  /\ FileInv
  /\ HeaderInv
  /\ StuckInv
  /\ EmptyInv
  /\ RoundInv
-----------------------------------------------------------------------------
(* Counting round the ring                                                 *)

(* A slot is at a distance of less than the ring, and only from itself at  *)
(* none.                                                                   *)
LEMMA DistTyped ==
  ASSUME NEW a \in Slots, NEW b \in Slots
  PROVE  /\ Dist(a, b) \in Nat /\ Dist(a, b) < MAX_JOBQUEUE
         /\ (Dist(a, b) = 0 <=> a = b)
  BY PoolAssumption DEF Dist, Slots

(* The slots of a stretch are no further than its end.                     *)
LEMMA DistWithin ==
  ASSUME NEW a \in Slots, NEW h \in Slots, NEW i \in After(a, h)
  PROVE  i \in Slots /\ 1 <= Dist(a, i) /\ Dist(a, i) <= Dist(a, h)
  BY PoolAssumption DEF Dist, Slots, After

(* A stretch that ends within another is a part of it.                     *)
LEMMA StretchWithin ==
  ASSUME NEW a \in Slots, NEW b \in Slots, NEW h \in Slots,
         b \in After(a, h) \cup {a}
  PROVE  After(a, b) \subseteq After(a, h)
  BY PoolAssumption DEF After, Slots

(* No stretch from a slot to itself.                                       *)
LEMMA StretchNone ==
  ASSUME NEW a \in Slots
  PROVE  After(a, a) = {}
  BY PoolAssumption DEF After, Slots

(* Moving head on adds its new slot, one further than the old one.         *)
LEMMA DistHead ==
  ASSUME NEW a \in Slots, NEW h \in Slots
  PROVE  /\ NextSlot(h) # a =>
              /\ Dist(a, NextSlot(h)) = Dist(a, h) + 1
              /\ NextSlot(h) \notin After(a, h)
              /\ After(a, NextSlot(h)) = After(a, h) \cup {NextSlot(h)}
         /\ NextSlot(h) = a => Dist(a, h) = MAX_JOBQUEUE - 1
<1>1. NextSlot(h) \in Slots /\ NextSlot(h) = IF h = MAX_JOBQUEUE - 1 THEN 0 ELSE h + 1
  BY NextSlotStep
<1>2. NextSlot(h) = a => Dist(a, h) = MAX_JOBQUEUE - 1
  BY <1>1, PoolAssumption DEF Dist, Slots
<1>3. NextSlot(h) # a => Dist(a, NextSlot(h)) = Dist(a, h) + 1
  BY <1>1, PoolAssumption DEF Dist, Slots
<1>4. NextSlot(h) # a => NextSlot(h) \notin After(a, h)
  BY <1>1, PoolAssumption DEF After, Slots
<1>5. NextSlot(h) # a => After(a, NextSlot(h)) = After(a, h) \cup {NextSlot(h)}
  BY <1>1, PoolAssumption DEF After, Slots
<1>6. QED
  BY <1>2, <1>3, <1>4, <1>5

(* Moving tail on drops the first slot and brings the others one nearer.   *)
LEMMA DistTail ==
  ASSUME NEW a \in Slots, NEW h \in Slots, a # h
  PROVE  /\ NextSlot(a) \in After(a, h) /\ Dist(a, NextSlot(a)) = 1
         /\ After(NextSlot(a), h) = After(a, h) \ {NextSlot(a)}
         /\ \A i \in After(a, h) : Dist(NextSlot(a), i) = Dist(a, i) - 1
         /\ Dist(NextSlot(a), h) = Dist(a, h) - 1
<1>1. NextSlot(a) \in Slots /\ NextSlot(a) = IF a = MAX_JOBQUEUE - 1 THEN 0 ELSE a + 1
  BY NextSlotStep
<1>2. NextSlot(a) \in After(a, h) /\ Dist(a, NextSlot(a)) = 1
  BY <1>1, PoolAssumption DEF Dist, Slots, After
<1>3. After(NextSlot(a), h) = After(a, h) \ {NextSlot(a)}
  BY <1>1, PoolAssumption DEF Slots, After
<1>4. ASSUME NEW i \in Slots, i # a PROVE Dist(NextSlot(a), i) = Dist(a, i) - 1
  BY <1>1, <1>4, PoolAssumption DEF Dist, Slots
<1>5. \A i \in After(a, h) : i \in Slots /\ i # a
  BY PoolAssumption DEF Slots, After
<1>6. QED
  BY <1>2, <1>3, <1>4, <1>5

(* What a thread works on is in the ring, and allocated.                   *)
LEMMA BusyIsKept ==
  ASSUME IInv, NEW t \in Threads, pc[t] \in {"deflate", "store"}
  PROVE  /\ work_idx[t] \in Kept /\ work_idx[t] \in Slots
         /\ job[work_idx[t]].status = JOB_ALLOCATED
         /\ \A u \in Threads \ {t} :
              pc[u] \in {"deflate", "store"} => work_idx[u] # work_idx[t]
<1>1. t \in Busy
  BY DEF Busy
<1>2. /\ work_idx[t] \in After(tail, queue) /\ work_idx[t] \in Slots
      /\ job[work_idx[t]].status = JOB_ALLOCATED
      /\ \A u \in Busy \ {t} : work_idx[u] # work_idx[t]
  BY <1>1 DEF IInv, OwnInv, TypeOK, JobsOwnedOnce
<1>3. After(tail, queue) \subseteq Kept
  BY StretchWithin DEF IInv, OwnInv, TypeOK, JobsOwnedOnce, Kept
<1>4. QED
  BY <1>2, <1>3 DEF Busy

-----------------------------------------------------------------------------
(* Steps that leave the round where it is                                  *)

Draining == {"drain", "write", "help", "deflate", "store"}

(* main stays where it was, or goes round its loop of the finished slots.  *)
MainStays ==
  pc'[Main] = pc[Main] \/ (pc[Main] \in Draining /\ pc'[Main] \in Draining)

SameRound ==
  UNCHANGED <<head, tail, shutdown, in_buf, file, nread, q, end_of_stream,
              blocks, out, reported>>

(* The slots keep their blocks, and a failed one its failure.              *)
SameJobs ==
  /\ \A i \in Slots : job'[i].buf = job[i].buf /\ job'[i].type = job[i].type
  /\ \A i \in Slots : job[i].status = JOB_FAIL => job'[i].status = JOB_FAIL

(* Such steps keep what main knows of its files and of the ring.           *)
LEMMA StayStep ==
  ASSUME RInv, MainStays, SameRound, SameJobs
  PROVE  /\ FileInv' /\ StuckInv' /\ EmptyInv'
         /\ (~Failed' => ~Failed)
         /\ (pc'[Main] = "header" <=> pc[Main] = "header")
         /\ pc'[Main] \in Working => pc[Main] \in Working
         /\ CountInv => CountInv'
         /\ QueueInv => QueueInv'
<1>1. /\ (pc'[Main] \in Working <=> pc[Main] \in Working)
      /\ (pc'[Main] = "abandon" => pc[Main] = "abandon")
      /\ (pc'[Main] = "trailer" => pc[Main] = "trailer")
      /\ (pc'[Main] = "open" <=> pc[Main] = "open")
      /\ (pc'[Main] = "header" <=> pc[Main] = "header")
      /\ (pc'[Main] = "read" <=> pc[Main] = "read")
      /\ (pc'[Main] = "put" <=> pc[Main] = "put")
  BY DEF MainStays, Draining, Working
<1>2. FileInv'
  BY <1>1 DEF RInv, FileInv, SameRound
<1>3. Failed' <=> Failed
  BY DEF Failed, SameRound
<1>4. StuckInv'
  <2>1. NextSlot(tail) \in Slots
    BY NextSlotStep DEF RInv, IInv, TypeOK
  <2>2. tail' = tail /\ head' = head /\ NextSlot(tail)' = NextSlot(tail)
    BY DEF SameRound, NextSlot
  <2>3. QED
    BY <1>1, <1>3, <2>1, <2>2 DEF RInv, StuckInv, SameJobs
<1>5. EmptyInv'
  BY <1>1, <1>3 DEF RInv, EmptyInv, SameRound
<1>6. Kept' = Kept /\ \A i \in Slots : Nth(i)' = Nth(i)
  BY DEF Kept, After, Nth, Written, Dist, SameRound
<1>7. head \in Slots /\ Kept \subseteq Slots
  BY DistWithin DEF RInv, IInv, TypeOK, Kept
<1>8. Dist(tail, head)' = Dist(tail, head) /\ Nth(head)' = Nth(head)
  BY <1>7 DEF Dist, Nth, Written, SameRound
<1>9. CountInv => CountInv'
  BY <1>1, <1>8 DEF CountInv, SameRound
<1>10. QueueInv => QueueInv'
  BY <1>1, <1>6, <1>7 DEF QueueInv, SameRound, SameJobs
<1>11. QED
  BY <1>1, <1>2, <1>3, <1>4, <1>5, <1>9, <1>10

RoundOK == FileInv /\ HeaderInv /\ StuckInv /\ EmptyInv /\ RoundInv

(* A step that compresses nothing: what becomes a success was ready to be  *)
(* stored.                                                                 *)
LEMMA CalmStep ==
  ASSUME RInv, MainStays, SameRound, SameJobs, UNCHANGED out_buf,
         \A i \in Slots :
           job'[i].status = JOB_SUCCESS =>
             \/ job[i].status = JOB_SUCCESS
             \/ \E t \in Threads : pc[t] = "store" /\ work_idx[t] = i,
         \A t \in Threads :
           pc'[t] = "store" => pc[t] = "store" /\ work_idx'[t] = work_idx[t]
  PROVE  RoundOK'
<1>1. /\ FileInv' /\ StuckInv' /\ EmptyInv'
      /\ (~Failed' => ~Failed)
      /\ (pc'[Main] = "header" <=> pc[Main] = "header")
      /\ (pc'[Main] \in Working => pc[Main] \in Working)
      /\ (CountInv => CountInv')
      /\ (QueueInv => QueueInv')
  BY StayStep
<1>2. Kept' = Kept /\ Kept \subseteq Slots
  BY DistWithin DEF RInv, IInv, TypeOK, Kept, After, SameRound
<1>3. \A i \in Slots : HasResult(i) => HasResult(i)'
  BY DEF HasResult, Nth, Written, Dist, SameRound, SameJobs
<1>4. \A t \in Threads : work_idx[t] \in Slots
  BY DEF RInv, IInv, TypeOK
<1>5. ASSUME ResultInv PROVE ResultInv'
  <2>1. ASSUME NEW i \in Kept, job'[i].status = JOB_SUCCESS PROVE HasResult(i)'
    <3>1. CASE job[i].status = JOB_SUCCESS
      BY <1>2, <1>3, <1>5, <3>1 DEF ResultInv
    <3>2. CASE \E t \in Threads : pc[t] = "store" /\ work_idx[t] = i
      BY <1>2, <1>3, <1>5, <3>2 DEF ResultInv
    <3>3. QED
      BY <1>2, <2>1, <3>1, <3>2
  <2>2. ASSUME NEW t \in Threads, pc'[t] = "store" PROVE HasResult(work_idx[t])'
    BY <1>3, <1>4, <1>5, <2>2 DEF ResultInv
  <2>3. QED
    BY <1>2, <2>1, <2>2 DEF ResultInv
<1>6. RoundInv'
  BY <1>1, <1>5 DEF RInv, RoundInv
<1>7. HeaderInv'
  BY <1>1 DEF RInv, HeaderInv, SameRound
<1>8. QED
  BY <1>1, <1>6, <1>7 DEF RoundOK

(* Thread t has compressed its block into the piece of out_buf that no     *)
(* other slot of the ring uses.                                            *)
LEMMA DeflateRound ==
  ASSUME RInv, MainStays, SameRound, NEW t \in Threads, pc[t] = "deflate",
         PcMoves(t, "store"), Deflate(t), UNCHANGED <<job, work_idx>>
  PROVE  RoundOK'
<1> DEFINE k == work_idx[t]
<1>1. /\ FileInv' /\ StuckInv' /\ EmptyInv'
      /\ (~Failed' => ~Failed)
      /\ (pc'[Main] = "header" <=> pc[Main] = "header")
      /\ (pc'[Main] \in Working => pc[Main] \in Working)
      /\ (CountInv => CountInv')
      /\ (QueueInv => QueueInv')
  BY StayStep DEF SameJobs
<1>2. Kept' = Kept /\ Kept \subseteq Slots
  BY DistWithin DEF RInv, IInv, TypeOK, Kept, After, SameRound
<1>3. k \in Kept /\ job[k].status = JOB_ALLOCATED
  BY BusyIsKept DEF RInv
<1>4. /\ out_buf \in [Bufs -> [kind : {"header", "block"}, file : Nat, block : Nat, last : BOOLEAN]]
      /\ \A i \in Slots : job[i].buf \in Bufs
  BY DEF RInv, IInv, TypeOK, Jobs
<1>5. \A i \in Slots : job[i].buf # job[k].buf => (HasResult(i) => HasResult(i)')
  BY <1>2, <1>3, <1>4 DEF HasResult, Nth, Written, Dist, SameRound, Deflate
<1>6. ASSUME QueueInv, ResultInv PROVE ResultInv'
  <2>1. HasResult(k)'
    <3>1. in_buf[job[k].buf] = [file |-> file, block |-> Nth(k)]
      BY <1>3, <1>6 DEF QueueInv
    <3>2. out_buf'[job[k].buf] = Chunk("block", file, Nth(k), job[k].type)
      BY <1>2, <1>3, <1>4, <3>1 DEF Deflate
    <3>3. QED
      BY <3>2 DEF HasResult, Nth, Written, Dist, SameRound
  <2>2. ASSUME NEW i \in Kept, i # k, HasResult(i) PROVE HasResult(i)'
    <3>1. job[i].buf # job[k].buf
      BY <1>3, <1>6, <2>2 DEF QueueInv
    <3>2. QED
      BY <1>2, <1>5, <2>2, <3>1
  <2>3. ASSUME NEW i \in Kept, job[i].status = JOB_SUCCESS PROVE HasResult(i)'
    <3>1. i # k
      BY <1>3, <2>3 DEF JOB_SUCCESS, JOB_ALLOCATED
    <3>2. QED
      BY <1>6, <2>2, <2>3, <3>1 DEF ResultInv
  <2>4. ASSUME NEW u \in Threads, pc'[u] = "store" PROVE HasResult(work_idx[u])'
    <3>1. CASE u = t
      BY <2>1, <3>1
    <3>2. CASE u # t
      <4>1. pc[u] = "store"
        BY <2>4, <3>2 DEF PcMoves
      <4>2. work_idx[u] \in Kept /\ work_idx[u] # k
        BY <3>2, <4>1, BusyIsKept DEF RInv
      <4>3. QED
        BY <1>6, <2>2, <4>1, <4>2 DEF ResultInv
    <3>3. QED
      BY <3>1, <3>2
  <2>5. QED
    BY <1>2, <2>3, <2>4 DEF ResultInv, HasResult
<1>7. RoundInv'
  BY <1>1, <1>6 DEF RInv, RoundInv
<1>8. HeaderInv'
  <2>1. head \in Slots /\ (tail = head => Kept = {})
    BY StretchNone DEF RInv, IInv, TypeOK, Kept
  <2>2. pc[Main] = "header" => Failed
    BY <1>3, <2>1 DEF RInv, EmptyInv, Working
  <2>3. QED
    BY <1>1, <2>2 DEF RInv, HeaderInv, SameRound
<1>9. QED
  BY <1>1, <1>7, <1>8 DEF RoundOK

(* Each step of a worker leaves the round where it is.                     *)
LEMMA WorkerRound ==
  ASSUME RInv, NEW w \in Workers, thread_worker(w) \/ WorkerWakeSpuriously(w)
  PROVE  RoundOK'
<1> USE DEF ringVars, localVars, dataVars, fileVars, worldVars
<1>1. w \in Threads /\ w # Main /\ Main \in Threads /\ TypeOK /\ IInv /\ pc[Main] # "waiting"
  BY PoolAssumption DEF Threads, RInv, IInv, TypeOK, MainLabels
<1>2. {"loop", "lock", "waiting", "deflate", "store", "exited"} \subseteq WorkerLabels
  BY DEF WorkerLabels
<1>3. ASSUME NEW label, PcMoves(w, label)
      PROVE  MainStays /\ \A t \in Threads : pc'[t] = "store" => t = w \/ pc[t] = "store"
  BY <1>1, <1>3 DEF PcMoves, MainStays
<1>4. ASSUME NEW label \in WorkerLabels \ {"store"}, PcMoves(w, label),
             SameRound, UNCHANGED <<job, out_buf>>, \A t \in Threads \ {w} : work_idx'[t] = work_idx[t]
      PROVE  RoundOK'
  <2>1. \A t \in Threads : pc'[t] = "store" => pc[t] = "store" /\ work_idx'[t] = work_idx[t]
    BY <1>1, <1>3, <1>4 DEF PcMoves
  <2>2. QED
    BY <1>3, <1>4, <2>1, CalmStep DEF SameJobs
<1>5. CASE WorkerTestShutdown(w)
  <2>1. PcMoves(w, IF shutdown THEN "exited" ELSE "lock")
    BY <1>1, <1>2, <1>5, GotoMoves DEF WorkerTestShutdown
  <2>2. QED
    BY <1>2, <1>4, <1>5, <2>1 DEF WorkerTestShutdown, SameRound
<1>6. CASE WorkerWait(w)
  <2>1. PcMoves(w, "waiting")
    BY <1>1, <1>2, <1>6, GotoMoves DEF WorkerWait
  <2>2. QED
    BY <1>2, <1>4, <1>6, <2>1 DEF WorkerWait, SameRound
<1>7. CASE WorkerSeeShutdown(w)
  <2>1. PcMoves(w, "loop")
    BY <1>1, <1>2, <1>7, GotoMoves DEF WorkerSeeShutdown
  <2>2. QED
    BY <1>2, <1>4, <1>7, <2>1 DEF WorkerSeeShutdown, SameRound
<1>8. CASE WorkerWakeSpuriously(w)
  <2>1. PcMoves(w, "lock")
    BY <1>1, <1>2, <1>8, GotoMoves DEF WorkerWakeSpuriously
  <2>2. QED
    BY <1>2, <1>4, <1>8, <2>1 DEF WorkerWakeSpuriously, SameRound
<1>9. CASE WorkerTake(w)
  <2>1. PcMoves(w, "deflate")
    BY <1>1, <1>2, <1>9, SignalMoves DEF WorkerTake
  <2>2. \A t \in Threads \ {w} : work_idx'[t] = work_idx[t]
    BY <1>1, <1>9 DEF WorkerTake, pool_get_work, TypeOK
  <2>3. QED
    BY <1>2, <1>4, <1>9, <2>1, <2>2 DEF WorkerTake, SameRound
<1>10. CASE WorkerDeflate(w)
  <2>1. PcMoves(w, "store")
    BY <1>1, <1>2, <1>10, GotoMoves DEF WorkerDeflate
  <2>2. QED
    BY <1>1, <1>3, <1>10, <2>1, DeflateRound DEF WorkerDeflate, SameRound
<1>11. ASSUME NEW field, AfterStore(w, field), UNCHANGED work_idx
       PROVE  /\ MainStays
              /\ \A t \in Threads :
                   pc'[t] = "store" => pc[t] = "store" /\ work_idx'[t] = work_idx[t]
  <2>1. CASE pc' = pc
    BY <1>11, <2>1 DEF MainStays
  <2>2. CASE pc' = Goto(w, IF check[w] = COMP_OK THEN "loop" ELSE "exited")
    BY <1>1, <1>11, <2>2 DEF Goto, MainStays, TypeOK
  <2>3. QED
    BY <1>11, <2>1, <2>2 DEF AfterStore
<1>12. job \in [Slots -> Jobs] /\ work_idx[w] \in Slots /\ check[w] \in CheckResults
  BY <1>1 DEF TypeOK
<1>13. pc[w] = "store" => job[work_idx[w]].status = JOB_ALLOCATED
  BY <1>1, BusyIsKept
<1>14. CASE WorkerStoreTotalOut(w)
  <2>1. /\ \A i \in Slots : i # work_idx[w] => job'[i] = job[i]
        /\ job'[work_idx[w]] = [job[work_idx[w]] EXCEPT !.total_out = 1]
    BY <1>12, <1>14 DEF WorkerStoreTotalOut
  <2>2. \A i \in Slots :
          /\ job'[i].buf = job[i].buf /\ job'[i].type = job[i].type
          /\ job'[i].status = job[i].status
    BY <1>12, <2>1 DEF Jobs
  <2>3. SameJobs
    BY <2>2 DEF SameJobs
  <2>4. SameRound /\ UNCHANGED <<out_buf, work_idx>> /\ AfterStore(w, "total_out")
    BY <1>14 DEF WorkerStoreTotalOut, SameRound
  <2>5. QED
    BY <1>11, <2>2, <2>3, <2>4, CalmStep
<1>15. CASE WorkerStoreStatus(w)
  <2>1. /\ \A i \in Slots : i # work_idx[w] => job'[i] = job[i]
        /\ job'[work_idx[w]] = [job[work_idx[w]] EXCEPT !.status = StatusOf(check[w])]
    BY <1>12, <1>15 DEF WorkerStoreStatus
  <2>2. /\ job'[work_idx[w]].buf = job[work_idx[w]].buf
        /\ job'[work_idx[w]].type = job[work_idx[w]].type
    BY <1>12, <2>1 DEF Jobs
  <2>3. pc[w] = "store" /\ job[work_idx[w]].status # JOB_FAIL
    BY <1>13, <1>15 DEF WorkerStoreStatus, JOB_ALLOCATED, JOB_FAIL
  <2>4. SameJobs
    BY <2>1, <2>2, <2>3 DEF SameJobs
  <2>5. SameRound /\ UNCHANGED <<out_buf, work_idx>> /\ AfterStore(w, "status")
    BY <1>15 DEF WorkerStoreStatus, SameRound
  <2>6. \A i \in Slots :
           job'[i].status = JOB_SUCCESS =>
             \/ job[i].status = JOB_SUCCESS
             \/ \E t \in Threads : pc[t] = "store" /\ work_idx[t] = i
    BY <1>1, <2>1, <2>3
  <2>7. QED
    BY <1>11, <2>4, <2>5, <2>6, CalmStep
<1>16. QED
  BY <1>5, <1>6, <1>7, <1>8, <1>9, <1>10, <1>14, <1>15 DEF thread_worker

-----------------------------------------------------------------------------
(* Steps that move main on                                                 *)

(* main finds a failed job, or its ring empty.                             *)
LEMMA DrainedStep ==
  ASSUME RInv, SameRound, UNCHANGED <<job, out_buf, work_idx>>, pc[Main] = "drain",
         NEW label \in {"trailer", "abandon", "read"}, PcMoves(Main, label),
         label = "abandon" => tail # head /\ job[NextSlot(tail)].status = JOB_FAIL,
         label = "trailer" => tail = head /\ end_of_stream,
         label = "read"    => tail = head /\ ~end_of_stream
  PROVE  RoundOK'
<1>1. pc'[Main] = label /\ label \in Working /\ pc[Main] \in Working
  BY DEF PcMoves, Working
<1>2. FileInv'
  BY <1>1 DEF RInv, FileInv, SameRound
<1>3. Failed' <=> Failed
  BY DEF Failed, SameRound
<1>4. StuckInv'
  BY <1>1, <1>3 DEF RInv, StuckInv, SameRound, NextSlot
<1>5. EmptyInv'
  BY <1>1, <1>3 DEF EmptyInv, SameRound
<1>6. head \in Slots /\ tail \in Slots /\ Kept \subseteq Slots
  BY DistWithin DEF RInv, IInv, TypeOK, Kept
<1>7. Kept' = Kept /\ (tail = head => Kept = {} /\ Dist(tail, head) = 0)
  BY <1>6, StretchNone, DistTyped DEF Kept, After, SameRound
<1>8. ASSUME ~Failed PROVE CountInv' /\ QueueInv' /\ ResultInv'
  <2>1. CountInv /\ QueueInv /\ ResultInv
    BY <1>1, <1>8 DEF RInv, RoundInv
  <2>2. Dist(tail, head)' = Dist(tail, head) /\ Nth(head)' = Nth(head)
    BY DEF Dist, Nth, Written, SameRound
  <2>3. CountInv'
    BY <1>1, <1>7, <2>1, <2>2 DEF CountInv, SameRound
  <2>4. \A i \in Slots : Nth(i)' = Nth(i) /\ (HasResult(i) => HasResult(i)')
    BY DEF HasResult, Dist, Nth, Written, SameRound
  <2>5. QueueInv'
    BY <1>1, <1>6, <1>7, <2>1, <2>4 DEF QueueInv, SameRound
  <2>6. \A t \in Threads : pc'[t] = "store" => pc[t] = "store" /\ work_idx[t] \in Slots
    BY <1>1 DEF PcMoves, RInv, IInv, TypeOK
  <2>7. ResultInv'
    BY <1>6, <1>7, <2>1, <2>4, <2>6 DEF ResultInv
  <2>8. QED
    BY <2>3, <2>5, <2>7
<1>9. HeaderInv'
  BY <1>1 DEF HeaderInv
<1>10. QED
  BY <1>2, <1>3, <1>4, <1>5, <1>8, <1>9 DEF RoundOK, RoundInv

(* One more chunk at the end of a file.                                    *)
LEMMA OutAppend ==
  ASSUME out \in [FileIds -> Seq(Chunks)], NEW f \in FileIds, NEW c \in Chunks,
         out' = [out EXCEPT ![f] = Append(@, c)]
  PROVE  /\ out' \in [FileIds -> Seq(Chunks)]
         /\ Len(out[f]) \in Nat /\ Len(out'[f]) = Len(out[f]) + 1 /\ out'[f] # <<>>
         /\ \A g \in FileIds : g # f => out'[g] = out[g]
<1>1. out[f] \in Seq(Chunks)
  OBVIOUS
<1>2. /\ Append(out[f], c) \in Seq(Chunks) /\ Len(Append(out[f], c)) = Len(out[f]) + 1
      /\ Append(out[f], c) # <<>> /\ Len(out[f]) \in Nat
  BY <1>1
<1>3. out'[f] = Append(out[f], c)
  OBVIOUS
<1>4. QED
  BY <1>2, <1>3

(* main opens the next file: its header waits in the first piece.          *)
LEMMA OpenRound ==
  ASSUME RInv, OpenFile
  PROVE  RoundOK'
<1>1. Main \in Threads /\ TypeOK /\ "header" \in MainLabels
  BY DEF RInv, IInv, Threads, MainLabels
<1>2. pc[Main] = "open" /\ PcMoves(Main, "header")
  BY <1>1, GotoMoves DEF OpenFile
<1>3. pc'[Main] = "header" /\ "open" \notin Working /\ "header" \notin Working
  BY <1>2 DEF PcMoves, Working
<1>4. /\ UNCHANGED <<head, tail, job, shutdown, out, reported>>
      /\ file' = file + 1 /\ nread' = 0 /\ q' = 0 /\ end_of_stream' = FALSE
      /\ out_buf' = [out_buf EXCEPT ![0] = Chunk("header", file + 1, 0, FALSE)]
  BY DEF OpenFile, ringVars, localVars, worldVars
<1>5. file \in Nat /\ file + 1 \in FileIds /\ FileIds \subseteq Nat
  BY <1>1, PoolAssumption DEF OpenFile, TypeOK, FileIds
<1>6. out[file + 1] = <<>> /\ reported[file + 1] = "none" /\ out \in [FileIds -> Seq(Chunks)]
  BY <1>5 DEF RInv, FileInv
<1>7. FileInv'
  <2>1. \A f \in FileIds : f > file + 1 => f > file
    BY <1>5
  <2>2. \A f \in FileIds : f > file' => out'[f] = <<>> /\ reported'[f] = "none"
    BY <1>4, <2>1 DEF RInv, FileInv
  <2>3. \A f \in FileIds : f < file + 1 => f < file \/ f = file
    BY <1>5
  <2>4. \A f \in FileIds : f < file' => reported'[f] # "none"
    BY <1>2, <1>3, <1>4, <2>3 DEF RInv, FileInv
  <2>5. ~shutdown'
    BY <1>2, <1>4 DEF RInv, FileInv
  <2>6. QED
    BY <1>3, <1>4, <1>5, <1>6, <2>2, <2>4, <2>5 DEF FileInv
<1>8. Failed' <=> Failed
  BY <1>4 DEF Failed
<1>9. HeaderInv'
  <2>1. 0 \in Bufs
    BY PoolAssumption DEF Bufs
  <2>2. out_buf'[0] = Chunk("header", file', 0, FALSE)
    BY <1>1, <1>4, <2>1 DEF TypeOK
  <2>3. QED
    BY <1>4, <2>2 DEF HeaderInv
<1>10. StuckInv' /\ EmptyInv'
  BY <1>2, <1>3, <1>4, <1>8 DEF RInv, StuckInv, EmptyInv, NextSlot
<1>11. QED
  BY <1>3, <1>7, <1>9, <1>10 DEF RoundOK, RoundInv

(* main leaves a file it cannot open, and goes on with the next.           *)
LEMMA UnopenedRound ==
  ASSUME RInv, OpenFails
  PROVE  RoundOK'
<1>1. TypeOK /\ pc[Main] = "open" /\ pc'[Main] = "open" /\ "open" \notin Working
  BY DEF RInv, IInv, OpenFails, Working
<1>2. /\ UNCHANGED <<head, tail, job, shutdown, out>>
      /\ file' = file + 1 /\ reported' = [reported EXCEPT ![file + 1] = "unopened"]
  BY DEF OpenFails, ringVars, dataVars
<1>3. file \in Nat /\ file + 1 \in FileIds /\ FileIds \subseteq Nat
  BY <1>1, PoolAssumption DEF OpenFails, TypeOK, FileIds
<1>4. /\ reported'[file + 1] = "unopened" /\ reported[file + 1] = "none"
      /\ \A f \in FileIds : f # file + 1 => reported'[f] = reported[f]
  BY <1>1, <1>2, <1>3 DEF TypeOK, RInv, FileInv
<1>5. FileInv'
  <2>1. \A f \in FileIds : f > file + 1 => f > file /\ f # file + 1
    BY <1>3
  <2>2. \A f \in FileIds : f > file' => out'[f] = <<>> /\ reported'[f] = "none"
    BY <1>2, <1>4, <2>1 DEF RInv, FileInv
  <2>3. \A f \in FileIds : f < file + 1 => f # file + 1 /\ (f < file \/ f = file)
    BY <1>3
  <2>4. \A f \in FileIds : f < file' => reported'[f] # "none"
    BY <1>1, <1>2, <1>4, <2>3 DEF RInv, FileInv
  <2>5. ~shutdown'
    BY <1>1, <1>2 DEF RInv, FileInv
  <2>6. QED
    BY <1>1, <1>2, <1>4, <2>2, <2>4, <2>5 DEF RInv, FileInv
<1>6. Failed' <=> Failed
  BY <1>3, <1>4 DEF Failed
<1>7. HeaderInv' /\ StuckInv' /\ EmptyInv'
  BY <1>1, <1>2, <1>6 DEF RInv, HeaderInv, StuckInv, EmptyInv, NextSlot
<1>8. QED
  BY <1>1, <1>5, <1>7 DEF RoundOK, RoundInv

(* main writes the header: unless a job failed, the ring is empty.         *)
LEMMA HeaderRound ==
  ASSUME RInv, WriteHeader
  PROVE  RoundOK'
<1> DEFINE c == out_buf[0]
<1>1. Main \in Threads /\ TypeOK /\ "read" \in MainLabels
  BY DEF RInv, IInv, Threads, MainLabels
<1>2. pc[Main] = "header" /\ PcMoves(Main, "read")
  BY <1>1, GotoMoves DEF WriteHeader
<1>3. pc'[Main] = "read" /\ "header" \notin Working /\ "read" \in Working
  BY <1>2 DEF PcMoves, Working
<1>4. /\ UNCHANGED <<head, tail, job, shutdown, work_idx, file, nread, q, end_of_stream,
                     blocks, reported>>
      /\ out' = [out EXCEPT ![file] = Append(@, c)]
  BY DEF WriteHeader, ringVars, localVars, fileVars
<1>5. /\ file \in FileIds /\ file \in Nat /\ FileIds \subseteq Nat
      /\ out[file] = <<>> /\ reported[file] = "none" /\ out \in [FileIds -> Seq(Chunks)]
  BY <1>2, <1>3 DEF RInv, FileInv, FileIds
<1>6. c \in Chunks
  <2>1. 0 \in Bufs
    BY PoolAssumption DEF Bufs
  <2>2. QED
    BY <1>1, <2>1 DEF TypeOK, Chunks
<1> HIDE DEF c
<1>7. /\ out' \in [FileIds -> Seq(Chunks)] /\ Len(out'[file]) = 1 /\ out'[file] # <<>>
      /\ \A f \in FileIds : f # file => out'[f] = out[f]
  <2>1. /\ out' \in [FileIds -> Seq(Chunks)] /\ Len(out'[file]) = Len(out[file]) + 1
        /\ out'[file] # <<>> /\ \A f \in FileIds : f # file => out'[f] = out[f]
    BY <1>4, <1>5, <1>6, OutAppend
  <2>2. Len(out[file]) = 0
    BY <1>5
  <2>3. QED
    BY <2>1, <2>2
<1>8. FileInv'
  <2>1. \A f \in FileIds : f > file => f # file
    BY <1>5
  <2>2. ~shutdown
    BY <1>2 DEF RInv, FileInv
  <2>3. QED
    BY <1>3, <1>4, <1>5, <1>7, <2>1, <2>2 DEF RInv, FileInv
<1>9. Failed' <=> Failed
  BY <1>4 DEF Failed
<1>10. HeaderInv' /\ StuckInv' /\ EmptyInv'
  BY <1>3, <1>4, <1>9 DEF RInv, HeaderInv, StuckInv, EmptyInv, NextSlot
<1>11. ASSUME ~Failed PROVE CountInv' /\ QueueInv' /\ ResultInv'
  <2>1. tail = head /\ tail \in Slots
    BY <1>1, <1>2, <1>3, <1>11 DEF RInv, EmptyInv, TypeOK
  <2>2. Kept = {} /\ Kept' = {} /\ Dist(tail, head) = 0
    BY <1>4, <2>1, StretchNone, DistTyped DEF Kept, After
  <2>3. Dist(tail, head)' = 0 /\ Nth(head)' = 0
    BY <1>4, <1>7, <2>2 DEF Nth, Written, Dist
  <2>4. blocks'[file'] \in Nat /\ blocks'[file'] # 0
    BY <1>1, <1>4, <1>5 DEF TypeOK
  <2>5. nread' = 0 /\ q' = 0 /\ ~end_of_stream'
    BY <1>2, <1>4 DEF RInv, HeaderInv
  <2>6. CountInv'
    BY <1>3, <2>3, <2>4, <2>5 DEF CountInv
  <2>7. QueueInv'
    BY <2>2 DEF QueueInv
  <2>8. \A t \in Threads : pc'[t] # "store"
    BY <1>2, <2>2, BusyIsKept DEF RInv, PcMoves
  <2>9. QED
    BY <2>2, <2>6, <2>7, <2>8 DEF ResultInv
<1>12. QED
  BY <1>8, <1>9, <1>10, <1>11 DEF RoundOK, RoundInv

(* main reads the next block into a piece that no slot of the ring uses.   *)
LEMMA ReadRound ==
  ASSUME RInv, ReadBlock
  PROVE  RoundOK'
<1>1. Main \in Threads /\ TypeOK /\ "put" \in MainLabels
  BY DEF RInv, IInv, Threads, MainLabels
<1>2. pc[Main] = "read" /\ PcMoves(Main, "put")
  BY <1>1, GotoMoves DEF ReadBlock
<1>3. pc'[Main] = "put" /\ pc[Main] \in Working /\ pc'[Main] \in Working
  BY <1>2 DEF PcMoves, Working
<1>4. /\ UNCHANGED <<head, tail, job, shutdown, work_idx, out_buf, file, q, blocks, out, reported>>
      /\ in_buf' = [in_buf EXCEPT ![q] = [file |-> file, block |-> nread + 1]]
      /\ nread' = nread + 1 /\ end_of_stream' = (nread + 1 = blocks[file])
  BY DEF ReadBlock, ringVars, localVars, worldVars
<1>5. FileInv'
  BY <1>3, <1>4 DEF RInv, FileInv
<1>6. Failed' <=> Failed
  BY <1>4 DEF Failed
<1>7. StuckInv' /\ EmptyInv'
  BY <1>3, <1>4, <1>6 DEF RInv, StuckInv, EmptyInv, NextSlot
<1>8. ASSUME ~Failed PROVE CountInv' /\ QueueInv' /\ ResultInv'
  <2>1. CountInv /\ QueueInv /\ ResultInv
    BY <1>3, <1>8 DEF RInv, RoundInv
  <2>2. file \in FileIds /\ blocks[file] \in Nat /\ q \in Bufs /\ nread \in Nat
    BY <1>1, <1>3 DEF RInv, FileInv, TypeOK
  <2>3. /\ nread \in 0..blocks[file] /\ nread # blocks[file]
        /\ nread = Nth(head) + 0 /\ q = Dist(tail, head)
    BY <1>2, <2>1 DEF CountInv
  <2>4. Dist(tail, head)' = Dist(tail, head) /\ Nth(head)' = Nth(head)
    BY <1>4 DEF Dist, Nth, Written
  <2>5. CountInv'
    <3>1. nread' \in 0..blocks'[file']
      BY <1>4, <2>2, <2>3
    <3>2. nread' = Nth(head)' + 1
      <4>1. Nth(head) \in Int
        <5>1. Len(out[file]) \in Nat
          <6>1. out[file] \in Seq(Chunks)
            BY <1>3, <2>2 DEF RInv, FileInv
          <6>2. QED
            BY <6>1
        <5>2. Dist(tail, head) \in Int
          BY <1>1, DistTyped DEF TypeOK
        <5>3. QED
          BY <5>1, <5>2 DEF Nth, Written
      <4>2. QED
        BY <1>4, <2>3, <2>4, <4>1
    <3>3. in_buf'[q'] = [file |-> file', block |-> nread']
      BY <1>1, <1>4, <2>2 DEF TypeOK
    <3>4. QED
      BY <1>3, <1>4, <2>3, <2>4, <3>1, <3>2, <3>3 DEF CountInv
  <2>6. Kept' = Kept /\ Kept \subseteq Slots
    BY <1>1, <1>4, DistWithin DEF TypeOK, Kept, After
  <2>7. \A i \in Slots : Nth(i)' = Nth(i) /\ (HasResult(i) => HasResult(i)')
    BY <1>4 DEF HasResult, Dist, Nth, Written
  <2>8. ASSUME NEW i \in Kept
        PROVE  /\ in_buf'[job[i].buf] = [file |-> file, block |-> Nth(i)]
               /\ job[i].buf < q
    <3>1. job[i].buf < q /\ in_buf[job[i].buf] = [file |-> file, block |-> Nth(i)]
      BY <1>2, <2>1 DEF QueueInv
    <3>2. job[i].buf \in Bufs
      BY <1>1, <2>6 DEF TypeOK, Jobs
    <3>3. job[i].buf # q
      BY <3>1, <3>2, <2>2, PoolAssumption DEF Bufs
    <3>4. QED
      BY <1>1, <1>4, <3>1, <3>2, <3>3 DEF TypeOK
  <2>9. QueueInv'
    BY <1>4, <2>1, <2>6, <2>7, <2>8 DEF QueueInv
  <2>10. \A t \in Threads : pc'[t] = "store" => pc[t] = "store" /\ work_idx[t] \in Slots
    BY <1>1, <1>2 DEF PcMoves, TypeOK
  <2>11. ResultInv'
    BY <1>4, <2>1, <2>6, <2>7, <2>10 DEF ResultInv
  <2>12. QED
    BY <2>5, <2>9, <2>11
<1>9. HeaderInv'
  BY <1>3 DEF HeaderInv
<1>10. QED
  BY <1>5, <1>6, <1>7, <1>8, <1>9 DEF RoundOK, RoundInv

(* main queues the block it has read: unless a job failed, there is room   *)
(* for it.                                                                 *)
LEMMA PutRound ==
  ASSUME RInv, PutWork
  PROVE  RoundOK'
<1> DEFINE n    == NextSlot(head)
           last == end_of_stream \/ q + 1 = MAX_JOBQUEUE - 1
           j    == [job[n] EXCEPT !.buf = q, !.type = end_of_stream, !.status = JOB_ALLOCATED]
<1>1. Main \in Threads /\ TypeOK /\ {"drain", "read"} \subseteq MainLabels
  BY DEF RInv, IInv, Threads, MainLabels
<1>2. pc[Main] = "put" /\ PcMoves(Main, IF last THEN "drain" ELSE "read")
  BY <1>1, SignalMoves DEF PutWork
<1>3. /\ pc'[Main] = (IF last THEN "drain" ELSE "read")
      /\ pc[Main] \in Working /\ pc'[Main] \in Working
  BY <1>2 DEF PcMoves, Working
<1>4. /\ UNCHANGED <<tail, shutdown, work_idx, in_buf, out_buf, file, nread, end_of_stream,
                     blocks, out, reported>>
      /\ head' = n /\ job' = [job EXCEPT ![n] = j] /\ q' = (IF last THEN 0 ELSE q + 1)
  BY DEF PutWork, localVars, dataVars, worldVars, AfterPut
<1>5. head \in Slots /\ tail \in Slots /\ n \in Slots /\ n # tail /\ NextSlot(tail) \in Slots
  BY <1>1, NextSlotStep DEF PutWork, pool_has_space, TypeOK
<1>6. /\ Dist(tail, n) = Dist(tail, head) + 1 /\ n \notin Kept
      /\ Kept' = Kept \cup {n} /\ Kept \subseteq Slots
  BY <1>4, <1>5, DistHead, DistWithin DEF Kept, After
<1>7. job[n] \in Jobs /\ q \in Bufs /\ end_of_stream \in BOOLEAN /\ job \in [Slots -> Jobs]
  BY <1>1, <1>5 DEF TypeOK
<1>8. j.buf = q /\ j.type = end_of_stream /\ j.status = JOB_ALLOCATED
  BY <1>7 DEF Jobs
<1>9. job'[n] = j /\ \A i \in Slots : i # n => job'[i] = job[i]
  BY <1>4, <1>5, <1>7
<1> HIDE DEF n, j
<1>10. FileInv'
  BY <1>3, <1>4 DEF RInv, FileInv
<1>11. Failed' <=> Failed
  BY <1>4 DEF Failed
<1>12. StuckInv'
  <2>1. tail # head => NextSlot(tail) # n
    BY <1>5, <1>6, DistTail DEF Kept
  <2>2. NextSlot(tail)' = NextSlot(tail)
    BY <1>4 DEF NextSlot
  <2>3. pc'[Main] # "abandon"
    BY <1>3
  <2>4. QED
    BY <1>4, <1>5, <1>9, <1>11, <2>1, <2>2, <2>3 DEF RInv, StuckInv
<1>13. EmptyInv'
  BY <1>3 DEF EmptyInv
<1>14. ASSUME ~Failed PROVE CountInv' /\ QueueInv' /\ ResultInv'
  <2>1. CountInv /\ QueueInv /\ ResultInv
    BY <1>3, <1>14 DEF RInv, RoundInv
  <2>2. /\ file \in FileIds /\ nread \in Nat /\ Len(out[file]) \in Nat
        /\ blocks[file] \in Nat
    BY <1>1, <1>3 DEF RInv, FileInv, TypeOK
  <2>3. /\ nread \in 0..blocks[file] /\ (end_of_stream <=> nread = blocks[file])
        /\ nread = Nth(head) + 1 /\ q = Dist(tail, head)
        /\ in_buf[q] = [file |-> file, block |-> nread]
    BY <1>2, <2>1 DEF CountInv
  <2>4. Nth(n) = nread
    <3>1. Dist(tail, head) \in Nat
      BY <1>5, DistTyped
    <3>2. QED
      BY <1>6, <2>2, <2>3, <3>1 DEF Nth, Written
  <2>5. Nth(head)' = Nth(n) /\ Dist(tail, head)' = q + 1
    BY <1>4, <1>6, <2>3 DEF Nth, Written, Dist
  <2>6. CountInv'
    <3>1. nread' = Nth(head)' + 0
      BY <1>4, <2>2, <2>4, <2>5
    <3>2. IF pc'[Main] \in {"read", "put"} THEN q' = Dist(tail, head)' ELSE q' = 0
      BY <1>3, <1>4, <2>5
    <3>3. pc'[Main] # "put" /\ (pc'[Main] = "read" => ~end_of_stream')
      BY <1>3, <1>4
    <3>4. QED
      BY <1>4, <2>3, <3>1, <3>2, <3>3 DEF CountInv
  <2>7. \A i \in Slots : Nth(i)' = Nth(i)
    BY <1>4 DEF Dist, Nth, Written
  <2>8. \A i \in Kept : job'[i] = job[i] /\ i # n
    BY <1>6, <1>9
  <2>9. ASSUME NEW i \in Kept
        PROVE  /\ in_buf[job[i].buf] = [file |-> file, block |-> Nth(i)]
               /\ (job[i].type <=> Nth(i) = blocks[file])
               /\ job[i].buf < q
    BY <1>2, <2>1 DEF QueueInv
  <2>10. \A i \in Kept : job[i].buf \in Nat
    BY <1>1, <1>6, PoolAssumption DEF TypeOK, Jobs, Bufs
  <2>11. q \in Nat
    BY <1>7, PoolAssumption DEF Bufs
  <2>12. ASSUME NEW i \in Kept'
         PROVE  /\ in_buf'[job'[i].buf] = [file |-> file', block |-> Nth(i)']
                /\ (job'[i].type <=> Nth(i)' = blocks'[file'])
                /\ (pc'[Main] \in {"read", "put"} => job'[i].buf < q')
    <3>1. CASE i = n
      <4>1. pc'[Main] \in {"read", "put"} => q < q'
        BY <1>3, <1>4, <2>11
      <4>2. QED
        BY <1>4, <1>5, <1>8, <1>9, <2>3, <2>4, <2>7, <3>1, <4>1
    <3>2. CASE i \in Kept
      <4>1. pc'[Main] \in {"read", "put"} => job[i].buf < q'
        <5> DEFINE b == job[i].buf
        <5>1. b < q /\ b \in Nat
          BY <2>9, <2>10, <3>2
        <5>2. pc'[Main] \in {"read", "put"} => q' = q + 1
          BY <1>3, <1>4
        <5> HIDE DEF b
        <5>3. pc'[Main] \in {"read", "put"} => b < q'
          BY <2>11, <5>1, <5>2
        <5>4. QED
          BY <5>3 DEF b
      <4>2. QED
        BY <1>4, <1>6, <2>7, <2>8, <2>9, <3>2, <4>1
    <3>3. QED
      BY <1>6, <3>1, <3>2
  <2>13. ASSUME NEW i \in Kept', NEW k \in Kept', i # k PROVE job'[i].buf # job'[k].buf
    <3>1. ASSUME NEW s \in Kept PROVE job'[s].buf # q
      <4>1. job[s].buf < q /\ job[s].buf \in Nat
        BY <2>9, <2>10
      <4>2. job[s].buf # q
        BY <2>11, <4>1
      <4>3. QED
        BY <2>8, <4>2
    <3>2. QED
      BY <1>6, <1>8, <1>9, <2>1, <2>8, <2>13, <3>1 DEF QueueInv
  <2>14. QueueInv'
    BY <2>12, <2>13 DEF QueueInv
  <2>15. \A i \in Kept : HasResult(i) => HasResult(i)'
    BY <1>4, <1>6, <2>7, <2>8 DEF HasResult
  <2>16. \A i \in Kept' : job'[i].status = JOB_SUCCESS => i \in Kept /\ job[i].status = JOB_SUCCESS
    BY <1>6, <1>8, <1>9, <2>8 DEF JOB_SUCCESS, JOB_ALLOCATED
  <2>17. \A t \in Threads : pc'[t] = "store" => pc[t] = "store" /\ work_idx[t] \in Kept
    BY <1>2, BusyIsKept DEF RInv, PcMoves
  <2>18. ResultInv'
    BY <1>4, <2>1, <2>15, <2>16, <2>17 DEF ResultInv
  <2>19. QED
    BY <2>6, <2>14, <2>18
<1>15. HeaderInv'
  BY <1>3 DEF HeaderInv
<1>16. QED
  BY <1>10, <1>11, <1>12, <1>13, <1>14, <1>15 DEF RoundOK, RoundInv

(* The pool refuses a job only when a failed one blocks it.                *)
LEMMA RefusedRound ==
  ASSUME RInv, PutRefused
  PROVE  RoundOK'
<1>1. Main \in Threads /\ TypeOK /\ "drain" \in MainLabels
  BY DEF RInv, IInv, Threads, MainLabels
<1>2. pc[Main] = "put" /\ PcMoves(Main, "drain")
  BY <1>1, GotoMoves DEF PutRefused
<1>3. pc'[Main] = "drain" /\ pc[Main] \in Working /\ pc'[Main] \in Working
  BY <1>2 DEF PcMoves, Working
<1>4. UNCHANGED <<head, tail, job, shutdown, file, out, reported>>
  BY DEF PutRefused, ringVars, worldVars
<1>5. Failed
  <2>1. ASSUME ~Failed PROVE FALSE
    <3>1. q = Dist(tail, head)
      BY <1>2, <1>3, <2>1 DEF RInv, RoundInv, CountInv
    <3>2. NextSlot(head) = tail
      BY <1>2, <1>3 DEF PutRefused, RInv, FileInv, pool_has_space
    <3>3. Dist(tail, head) = MAX_JOBQUEUE - 1
      BY <1>1, <3>2, DistHead DEF TypeOK
    <3>4. QED
      BY <1>1, <3>1, <3>3, PoolAssumption DEF TypeOK, Bufs
  <2>2. QED
    BY <2>1
<1>6. Failed'
  BY <1>4, <1>5 DEF Failed
<1>7. FileInv'
  BY <1>3, <1>4 DEF RInv, FileInv
<1>8. HeaderInv' /\ StuckInv' /\ EmptyInv'
  BY <1>3, <1>4, <1>5 DEF RInv, HeaderInv, StuckInv, EmptyInv, NextSlot
<1>9. QED
  BY <1>6, <1>7, <1>8 DEF RoundOK, RoundInv

(* What main writes is the next block of its file.                         *)
LEMMA WriteFound ==
  ASSUME RInv, WriteBlock
  PROVE  LET n == NextSlot(tail)
             c == out_buf[job[n].buf]
         IN  /\ ~Failed /\ pc[Main] = "write" /\ tail # head
             /\ n \in Kept /\ n \in Slots /\ file \in FileIds /\ reported[file] = "none"
             /\ CountInv /\ QueueInv /\ ResultInv
             /\ c = Chunk("block", file, Len(out[file]), job[n].type) /\ c \in Chunks
             /\ Len(out[file]) \in 1..blocks[file]
             /\ (job[n].type <=> Len(out[file]) = blocks[file])
             /\ out' = [out EXCEPT ![file] = Append(@, c)]
<1> DEFINE n == NextSlot(tail)
           c == out_buf[job[n].buf]
<1>1. TypeOK /\ OwnInv /\ pc[Main] = "write" /\ pc[Main] \in Working
  BY DEF RInv, IInv, WriteBlock, Working
<1>2. tail # head /\ job[n].status = JOB_SUCCESS /\ tail \in Slots /\ head \in Slots /\ n \in Slots
  BY <1>1, NextSlotStep DEF OwnInv, WriteIsFinished, TypeOK
<1>3. job[n].total_out # 0
  BY <1>1, <1>2 DEF OwnInv, SuccessIsComplete
<1>4. ~Failed
  BY <1>2 DEF RInv, StuckInv, JOB_SUCCESS, JOB_FAIL
<1>5. CountInv /\ QueueInv /\ ResultInv
  BY <1>1, <1>4 DEF RInv, RoundInv
<1>6. n \in Kept /\ Dist(tail, n) = 1
  BY <1>2, DistTail DEF Kept
<1>7. /\ file \in FileIds /\ reported[file] = "none" /\ out[file] # <<>>
      /\ out[file] \in Seq(Chunks) /\ blocks[file] \in Nat
  BY <1>1 DEF RInv, FileInv, TypeOK
<1>8. Len(out[file]) \in Nat /\ Len(out[file]) >= 1
  BY <1>7
<1>9. Nth(n) = Len(out[file])
  BY <1>6, <1>8 DEF Nth, Written
<1>10. Len(out[file]) <= blocks[file]
  <2>1. nread <= blocks[file] /\ nread = Nth(head) + 0 /\ nread \in Nat
    BY <1>1, <1>5 DEF CountInv, TypeOK
  <2>2. 1 <= Dist(tail, head) /\ Dist(tail, head) \in Nat
    BY <1>2, DistTyped
  <2>3. QED
    BY <1>7, <1>8, <2>1, <2>2 DEF Nth, Written
<1>11. c = Chunk("block", file, Len(out[file]), job[n].type)
  BY <1>2, <1>5, <1>6, <1>9 DEF ResultInv, HasResult
<1>12. c \in Chunks
  <2>1. job[n].type \in BOOLEAN /\ file \in Nat
    BY <1>1, <1>2, <1>7 DEF TypeOK, Jobs, FileIds
  <2>2. QED
    BY <1>8, <1>11, <2>1 DEF Chunk, Chunks
<1>13. job[n].type <=> Len(out[file]) = blocks[file]
  BY <1>5, <1>6, <1>9 DEF QueueInv
<1>14. out' = [out EXCEPT ![file] = Append(@, c)]
  BY <1>3 DEF WriteBlock
<1>15. QED
  BY <1>1, <1>2, <1>4, <1>5, <1>6, <1>7, <1>8, <1>10, <1>11, <1>12, <1>13, <1>14

(* The slots that remain hold the blocks after it.                         *)
LEMMA WriteRound ==
  ASSUME RInv, WriteBlock
  PROVE  RoundOK'
<1> DEFINE n == NextSlot(tail)
           c == out_buf[job[n].buf]
           j == [job[n] EXCEPT !.total_out = 0, !.status = JOB_UNALLOCATED]
<1>1. /\ ~Failed /\ pc[Main] = "write" /\ tail # head
      /\ n \in Kept /\ n \in Slots /\ file \in FileIds /\ reported[file] = "none"
      /\ CountInv /\ QueueInv /\ ResultInv /\ c \in Chunks
      /\ out' = [out EXCEPT ![file] = Append(@, c)]
  BY WriteFound
<1>2. Main \in Threads /\ TypeOK /\ "help" \in MainLabels
  BY DEF RInv, IInv, Threads, MainLabels
<1>3. PcMoves(Main, "help")
  BY <1>1, <1>2, BroadcastMoves DEF WriteBlock
<1>4. pc'[Main] = "help" /\ pc[Main] \in Working /\ pc'[Main] \in Working
  BY <1>1, <1>3 DEF PcMoves, Working
<1>5. /\ UNCHANGED <<head, shutdown, work_idx, in_buf, out_buf, file, nread, q, end_of_stream,
                     blocks, reported>>
      /\ tail' = n /\ job' = [job EXCEPT ![n] = j]
  BY DEF WriteBlock, localVars, dataVars, fileVars
<1>6. head \in Slots /\ tail \in Slots /\ job \in [Slots -> Jobs]
  BY <1>2 DEF TypeOK
<1>7. /\ Kept' = Kept \ {n} /\ Kept \subseteq Slots
      /\ \A i \in Kept : Dist(n, i) = Dist(tail, i) - 1
      /\ Dist(n, head) = Dist(tail, head) - 1
  BY <1>1, <1>5, <1>6, DistTail, DistWithin DEF Kept, After
<1>8. \A i \in Slots : i # n => job'[i] = job[i]
  BY <1>5, <1>6
<1> HIDE DEF n, c, j
<1>9. /\ out' \in [FileIds -> Seq(Chunks)] /\ Len(out[file]) \in Nat
      /\ Len(out'[file]) = Len(out[file]) + 1 /\ out'[file] # <<>>
      /\ \A f \in FileIds : f # file => out'[f] = out[f]
  BY <1>1, OutAppend DEF RInv, FileInv
<1>10. FileInv'
  <2>1. file \in Nat /\ FileIds \subseteq Nat
    BY <1>1 DEF FileIds
  <2>2. \A f \in FileIds : f > file => f # file
    BY <2>1
  <2>3. QED
    BY <1>1, <1>4, <1>5, <1>9, <2>2 DEF RInv, FileInv
<1>11. ~Failed'
  BY <1>1, <1>5 DEF Failed
<1>12. HeaderInv' /\ StuckInv' /\ EmptyInv'
  BY <1>4, <1>11 DEF HeaderInv, StuckInv, EmptyInv
<1>13. \A i \in Kept : Nth(i)' = Nth(i)
  <2>1. ASSUME NEW i \in Kept PROVE Nth(i)' = Nth(i)
    <3>1. Dist(tail, i) \in Nat /\ Dist(tail, i)' = Dist(n, i)
      BY <1>5, <1>6, <1>7, DistTyped DEF Dist
    <3>2. Nth(i)' = Len(out'[file]) - 1 + Dist(n, i)
      BY <1>5, <3>1 DEF Nth, Written
    <3>3. Nth(i) = Len(out[file]) - 1 + Dist(tail, i)
      BY DEF Nth, Written
    <3>4. PICK l \in Nat, d \in Nat : l = Len(out[file]) /\ d = Dist(tail, i)
      BY <1>9, <3>1, Zenon
    <3>5. Len(out'[file]) = l + 1 /\ Dist(n, i) = d - 1
      BY <1>7, <1>9, <2>1, <3>4, Zenon
    <3>6. (l + 1) - 1 + (d - 1) = l - 1 + d
      OBVIOUS
    <3>7. QED
      BY <3>2, <3>3, <3>4, <3>5, <3>6, Zenon
  <2>2. QED
    BY <2>1
<1>14. Nth(head)' = Nth(head)
  <2>1. Dist(tail, head) \in Nat /\ Dist(tail, head)' = Dist(n, head)
    BY <1>5, <1>6, DistTyped DEF Dist
  <2>2. Nth(head)' = Len(out'[file]) - 1 + Dist(n, head)
    BY <1>5, <2>1 DEF Nth, Written
  <2>3. Nth(head) = Len(out[file]) - 1 + Dist(tail, head)
    BY DEF Nth, Written
  <2> DEFINE d == Dist(tail, head)
             e == Dist(n, head)
             k == Len(out[file])
             m == Len(out'[file])
  <2>4. d \in Nat /\ e = d - 1 /\ k \in Nat /\ m = k + 1
    BY <1>7, <1>9, <2>1
  <2> HIDE DEF d, e, k, m
  <2>5. m - 1 + e = k - 1 + d
    BY <2>4
  <2>6. QED
    BY <2>2, <2>3, <2>5 DEF d, e, k, m
<1>15. CountInv'
  BY <1>1, <1>4, <1>5, <1>14 DEF CountInv
<1>16. QueueInv'
  BY <1>1, <1>4, <1>5, <1>7, <1>8, <1>13 DEF QueueInv
<1>17. \A i \in Kept \ {n} : HasResult(i) => HasResult(i)'
  BY <1>5, <1>7, <1>8, <1>13 DEF HasResult
<1>18. \A t \in Threads :
         pc'[t] = "store" => pc[t] = "store" /\ work_idx[t] \in Kept \ {n}
  <2>1. job[n].status = JOB_SUCCESS
    BY <1>1 DEF RInv, IInv, OwnInv, WriteIsFinished, n
  <2>2. QED
    BY <1>3, <2>1, BusyIsKept DEF RInv, PcMoves, JOB_SUCCESS, JOB_ALLOCATED
<1>19. ResultInv'
  BY <1>1, <1>5, <1>7, <1>8, <1>17, <1>18 DEF ResultInv
<1>20. QED
  BY <1>10, <1>12, <1>15, <1>16, <1>19 DEF RoundOK, RoundInv

(* The ring is empty when main closes its file.                            *)
LEMMA CloseRound ==
  ASSUME RInv, WriteTrailer
  PROVE  RoundOK'
<1> DEFINE c == Chunk("trailer", file, nread, TRUE)
<1>1. Main \in Threads /\ TypeOK /\ "open" \in MainLabels
  BY DEF RInv, IInv, Threads, MainLabels
<1>2. pc[Main] = "trailer" /\ PcMoves(Main, "open")
  BY <1>1, GotoMoves DEF WriteTrailer
<1>3. pc'[Main] = "open" /\ pc[Main] \in Working /\ pc'[Main] \notin Working
  BY <1>2 DEF PcMoves, Working
<1>4. /\ UNCHANGED <<head, tail, job, shutdown, file, end_of_stream>>
      /\ out' = [out EXCEPT ![file] = Append(@, c)]
      /\ reported' = [reported EXCEPT ![file] = "ok"]
  BY DEF WriteTrailer, ringVars, fileVars
<1>5. /\ tail = head /\ ~Failed
      /\ file \in FileIds /\ file \in Nat /\ FileIds \subseteq Nat /\ nread \in Nat
  BY <1>1, <1>2, <1>3 DEF RInv, EmptyInv, StuckInv, FileInv, FileIds, TypeOK
<1>6. c \in Chunks
  BY <1>5 DEF Chunk, Chunks
<1> HIDE DEF c
<1>7. /\ out' \in [FileIds -> Seq(Chunks)]
      /\ \A f \in FileIds : f # file => out'[f] = out[f]
  BY <1>4, <1>5, <1>6, OutAppend DEF RInv, FileInv
<1>8. reported'[file] = "ok" /\ \A f \in FileIds : f # file => reported'[f] = reported[f]
  BY <1>1, <1>4, <1>5 DEF TypeOK
<1>9. \A f \in FileIds : (f > file => f # file) /\ (f < file => f # file)
  BY <1>5
<1>10. FileInv'
  BY <1>3, <1>4, <1>7, <1>8, <1>9 DEF RInv, FileInv
<1>11. ~Failed'
  BY <1>5, <1>8 DEF Failed
<1>12. HeaderInv' /\ StuckInv' /\ EmptyInv'
  BY <1>3, <1>4, <1>5, <1>11 DEF HeaderInv, StuckInv, EmptyInv
<1>13. QED
  BY <1>3, <1>10, <1>12 DEF RoundOK, RoundInv

(* main gives its file up and leaves the failed job where it is.           *)
LEMMA AbandonRound ==
  ASSUME RInv, AbandonFile
  PROVE  RoundOK'
<1>1. Main \in Threads /\ TypeOK /\ "open" \in MainLabels
  BY DEF RInv, IInv, Threads, MainLabels
<1>2. pc[Main] = "abandon" /\ PcMoves(Main, "open")
  BY <1>1, GotoMoves DEF AbandonFile
<1>3. pc'[Main] = "open" /\ pc[Main] \in Working /\ pc'[Main] \notin Working
  BY <1>2 DEF PcMoves, Working
<1>4. /\ UNCHANGED <<head, tail, job, shutdown, file, out>>
      /\ reported' = [reported EXCEPT ![file] = "error"]
  BY DEF AbandonFile, ringVars, fileVars
<1>5. file \in FileIds /\ file \in Nat /\ FileIds \subseteq Nat
  BY <1>3 DEF RInv, FileInv, FileIds
<1>6. reported'[file] = "error" /\ \A f \in FileIds : f # file => reported'[f] = reported[f]
  BY <1>1, <1>4, <1>5 DEF TypeOK
<1>7. \A f \in FileIds : (f > file => f # file) /\ (f < file => f # file)
  BY <1>5
<1>8. FileInv'
  BY <1>3, <1>4, <1>6, <1>7 DEF RInv, FileInv
<1>9. Failed'
  BY <1>5, <1>6 DEF Failed
<1>10. HeaderInv' /\ StuckInv' /\ EmptyInv'
  BY <1>2, <1>3, <1>4, <1>9 DEF RInv, HeaderInv, StuckInv, EmptyInv, NextSlot
<1>11. QED
  BY <1>8, <1>9, <1>10 DEF RoundOK, RoundInv

(* pool_quit leaves the files and the ring as they are.                    *)
LEMMA QuitRound ==
  ASSUME RInv, pool_quit
  PROVE  RoundOK'
<1>1. Main \in Threads /\ TypeOK /\ {"broadcast", "join", "exited"} \subseteq MainLabels
      /\ pc[Main] # "waiting"
  BY DEF RInv, IInv, Threads, MainLabels, TypeOK
<1>2. /\ pc[Main] \in {"open", "broadcast", "join"}
      /\ pc'[Main] \in {"broadcast", "join", "exited"}
  <2>1. CASE QuitShutdown
    BY <1>1, <2>1, GotoMoves DEF QuitShutdown, PcMoves
  <2>2. CASE QuitBroadcast
    BY <1>1, <2>2, BroadcastMoves DEF QuitBroadcast, PcMoves
  <2>3. CASE QuitJoin
    BY <1>1, <2>3, GotoMoves DEF QuitJoin, PcMoves
  <2>4. QED
    BY <2>1, <2>2, <2>3 DEF pool_quit
<1>3. UNCHANGED <<head, tail, job, file, end_of_stream, out, reported>>
  BY DEF pool_quit, QuitShutdown, QuitBroadcast, QuitJoin, ringVars, fileVars, worldVars
<1>4. /\ pc[Main] \notin Working \cup {"header"}
      /\ pc'[Main] \notin Working \cup {"open", "header"}
  BY <1>2 DEF Working
<1>5. FileInv'
  BY <1>3, <1>4 DEF RInv, FileInv
<1>6. Failed' <=> Failed
  BY <1>3 DEF Failed
<1>7. HeaderInv' /\ StuckInv' /\ EmptyInv'
  BY <1>2, <1>3, <1>4, <1>6 DEF RInv, HeaderInv, StuckInv, EmptyInv, NextSlot
<1>8. QED
  BY <1>4, <1>5, <1>7 DEF RoundOK, RoundInv

(* main goes round its loop of the finished slots.                         *)
LEMMA DrainRound ==
  ASSUME RInv, DrainDone \/ DrainTestStatus \/ HelpIdle \/ HelpTake \/ HelpDeflate \/ HelpStore
  PROVE  RoundOK'
<1> USE DEF ringVars, localVars, dataVars, fileVars, worldVars
<1>1. Main \in Threads /\ TypeOK /\ IInv
  BY DEF RInv, IInv, Threads
<1>2. {"trailer", "abandon", "read", "write", "help", "drain", "deflate", "store"}
      \subseteq MainLabels
  BY DEF MainLabels
<1>3. ASSUME NEW label \in Draining \ {"store"}, PcMoves(Main, label), pc[Main] \in Draining,
             SameRound, UNCHANGED <<job, out_buf>>,
             \A t \in Threads \ {Main} : work_idx'[t] = work_idx[t]
      PROVE  RoundOK'
  <2>1. MainStays
    BY <1>3 DEF MainStays, PcMoves
  <2>2. \A t \in Threads : pc'[t] = "store" => pc[t] = "store" /\ work_idx'[t] = work_idx[t]
    BY <1>1, <1>3 DEF PcMoves
  <2>3. QED
    BY <1>3, <2>1, <2>2, CalmStep DEF SameJobs
<1>4. CASE DrainDone
  <2> DEFINE label == IF end_of_stream THEN "trailer" ELSE "read"
  <2>1. PcMoves(Main, label) /\ label \in {"trailer", "read"}
    BY <1>1, <1>2, <1>4, GotoMoves DEF DrainDone
  <2>2. /\ label = "trailer" => tail = head /\ end_of_stream
        /\ label = "read"    => tail = head /\ ~end_of_stream
    BY <1>4 DEF DrainDone
  <2> HIDE DEF label
  <2>3. QED
    BY <1>4, <2>1, <2>2, DrainedStep DEF DrainDone, SameRound
<1>5. CASE DrainTestStatus
  <2> DEFINE status == job[NextSlot(tail)].status
  <2>1. status \in {JOB_UNALLOCATED, JOB_ALLOCATED, JOB_SUCCESS, JOB_FAIL}
    BY <1>1, NextSlotStep DEF TypeOK, Jobs
  <2>2. CASE status = JOB_FAIL
    <3>1. PcMoves(Main, "abandon")
      BY <1>1, <1>2, <1>5, <2>2, GotoMoves DEF DrainTestStatus, JOB_SUCCESS, JOB_FAIL
    <3>2. QED
      BY <1>5, <2>2, <3>1, DrainedStep DEF DrainTestStatus, SameRound
  <2>3. CASE status # JOB_FAIL
    <3>1. \E label \in {"write", "help"} : pc' = Goto(Main, label)
      BY <1>5, <2>1, <2>3
      DEF DrainTestStatus, JOB_UNALLOCATED, JOB_ALLOCATED, JOB_SUCCESS, JOB_FAIL
    <3>2. PICK label \in {"write", "help"} : PcMoves(Main, label)
      BY <1>1, <1>2, <3>1, GotoMoves
    <3>3. QED
      BY <1>3, <1>5, <3>2 DEF DrainTestStatus, SameRound, Draining
  <2>4. QED
    BY <2>2, <2>3
<1>6. CASE HelpIdle
  <2>1. PcMoves(Main, "drain")
    BY <1>1, <1>2, <1>6, GotoMoves DEF HelpIdle
  <2>2. QED
    BY <1>3, <1>6, <2>1 DEF HelpIdle, SameRound, Draining
<1>7. CASE HelpTake
  <2>1. PcMoves(Main, "deflate")
    BY <1>1, <1>2, <1>7, SignalMoves DEF HelpTake
  <2>2. \A t \in Threads \ {Main} : work_idx'[t] = work_idx[t]
    BY <1>1, <1>7 DEF HelpTake, pool_get_work, TypeOK
  <2>3. QED
    BY <1>3, <1>7, <2>1, <2>2 DEF HelpTake, SameRound, Draining
<1>8. CASE HelpDeflate
  <2>1. PcMoves(Main, "store")
    BY <1>1, <1>2, <1>8, GotoMoves DEF HelpDeflate
  <2>2. MainStays
    BY <1>8, <2>1 DEF HelpDeflate, PcMoves, MainStays, Draining
  <2>3. QED
    BY <1>1, <1>8, <2>1, <2>2, DeflateRound DEF HelpDeflate, SameRound
<1>9. CASE HelpStore
  <2> DEFINE k == work_idx[Main]
  <2>1. pc[Main] = "store" /\ PcMoves(Main, "drain")
    BY <1>1, <1>2, <1>9, GotoMoves DEF HelpStore
  <2>2. MainStays
    BY <2>1 DEF PcMoves, MainStays, Draining
  <2>3. job \in [Slots -> Jobs] /\ k \in Slots /\ job[k].status # JOB_FAIL
    BY <1>1, <2>1, BusyIsKept DEF TypeOK, JOB_ALLOCATED, JOB_FAIL
  <2>4. /\ \A i \in Slots : i # k => job'[i] = job[i]
        /\ job'[k] = [job[k] EXCEPT !.total_out = 1, !.status = StatusOf(check[Main])]
    BY <1>9, <2>3 DEF HelpStore
  <2>5. job'[k].buf = job[k].buf /\ job'[k].type = job[k].type
    BY <2>3, <2>4 DEF Jobs
  <2>6. SameJobs
    BY <2>3, <2>4, <2>5 DEF SameJobs
  <2>7. \A i \in Slots :
          job'[i].status = JOB_SUCCESS =>
            \/ job[i].status = JOB_SUCCESS
            \/ \E t \in Threads : pc[t] = "store" /\ work_idx[t] = i
    BY <1>1, <2>1, <2>4
  <2>8. \A t \in Threads : pc'[t] = "store" => pc[t] = "store" /\ work_idx'[t] = work_idx[t]
    BY <1>9, <2>1 DEF HelpStore, PcMoves
  <2>9. QED
    BY <1>9, <2>2, <2>6, <2>7, <2>8, CalmStep DEF HelpStore, SameRound
<1>10. QED
  BY <1>4, <1>5, <1>6, <1>7, <1>8, <1>9

-----------------------------------------------------------------------------
(* The invariant                                                           *)

(* It holds before the first file.                                         *)
LEMMA RoundInit == Init => RInv
<1>1. SUFFICES ASSUME Init PROVE RInv
  OBVIOUS
<1>2. IInv
  BY <1>1, InvInit
<1>3. pc[Main] = "open" /\ pc[Main] \notin Working /\ ~shutdown /\ tail = head /\ file = 0
  BY <1>1 DEF Init, Threads, Working
<1>4. /\ out \in [FileIds -> Seq(Chunks)] /\ 0 \notin FileIds
      /\ \A f \in FileIds : f > 0 /\ ~(f < 0) /\ out[f] = <<>> /\ reported[f] = "none"
  <2>1. <<>> \in Seq(Chunks)
    OBVIOUS
  <2>2. QED
    BY <1>1, <2>1, PoolAssumption DEF Init, FileIds
<1>5. FileInv
  BY <1>3, <1>4 DEF FileInv
<1>6. ~Failed
  BY <1>4 DEF Failed
<1>7. QED
  BY <1>2, <1>3, <1>5, <1>6 DEF RInv, HeaderInv, StuckInv, EmptyInv, RoundInv

(* Every step of the program keeps it.                                     *)
LEMMA RoundStep ==
  ASSUME ~ReorderStores, RInv, [Next]_vars
  PROVE  RInv'
<1>1. IInv'
  BY InvStep DEF RInv
<1>2. CASE \E w \in Workers : thread_worker(w) \/ WorkerWakeSpuriously(w)
  BY <1>1, <1>2, WorkerRound DEF RInv, RoundOK
<1>3. CASE compress_file
  <2>1. RoundOK'
    BY <1>3, OpenRound, UnopenedRound, HeaderRound, ReadRound, PutRound, RefusedRound, DrainRound, WriteRound,
       CloseRound, AbandonRound
    DEF compress_file
  <2>2. QED
    BY <1>1, <2>1 DEF RInv, RoundOK
<1>4. CASE pool_quit
  BY <1>1, <1>4, QuitRound DEF RInv, RoundOK
<1>5. CASE UNCHANGED vars
  <2> USE <1>5 DEF vars, ringVars, localVars, dataVars, fileVars, worldVars
  <2>1. MainStays /\ SameRound /\ SameJobs
    BY DEF MainStays, SameRound, SameJobs
  <2>2. RoundOK'
    BY <2>1, CalmStep DEF RInv
  <2>3. QED
    BY <1>1, <2>2 DEF RInv, RoundOK
<1>6. QED
  BY <1>2, <1>3, <1>4, <1>5 DEF Next, Done

-----------------------------------------------------------------------------
(* The refinement                                                          *)

(* The chunks that Writer names are those the model writes.                *)
LEMMA SameChunks ==
  /\ \A f : Writer!Header(f) = Chunk("header", f, 0, FALSE)
  /\ \A f, b : Writer!Block(f, b) = Chunk("block", f, b, b = blocks[f])
  /\ \A f, k : Writer!Trailer(f, k) = Chunk("trailer", f, k, TRUE)
  BY DEF Writer!Header, Writer!Block, Writer!Trailer, Chunk

(* The file main has open is the one Writer writes.                        *)
LEMMA CurrentFile ==
  ASSUME RInv
  PROVE  pc[Main] \in Working \cup {"header"} => Writer!Current(file)
<1>1. SUFFICES ASSUME pc[Main] \in Working \cup {"header"} PROVE Writer!Current(file)
  OBVIOUS
<1>2. file \in FileIds /\ reported[file] = "none"
  BY <1>1 DEF RInv, FileInv
<1>3. \A g \in 1..(file - 1) : g \in FileIds /\ g < file
  BY <1>2, PoolAssumption DEF FileIds
<1>4. QED
  BY <1>2, <1>3 DEF Writer!Current, RInv, FileInv

(* Each step of the program is one of Writer, or leaves the files alone.   *)
LEMMA WriterStep ==
  ASSUME RInv, [Next]_vars
  PROVE  [Writer!Next]_(Writer!vars)
<1> USE DEF ringVars, localVars, dataVars, fileVars, worldVars
<1>1. TypeOK /\ Writer!FileIds = FileIds
  BY DEF RInv, IInv, Writer!FileIds, FileIds
<1>2. CASE WriteHeader
  <2> DEFINE c == out_buf[0]
  <2>1. /\ pc[Main] = "header" /\ UNCHANGED <<blocks, reported>>
        /\ out' = [out EXCEPT ![file] = Append(@, c)]
    BY <1>2 DEF WriteHeader
  <2>2. /\ file \in FileIds /\ out[file] = <<>> /\ out \in [FileIds -> Seq(Chunks)]
        /\ Writer!Current(file)
    BY <2>1, CurrentFile DEF RInv, FileInv
  <2>3. Writer!Intact => c = Writer!Header(file)
    BY <1>1, <2>1, SameChunks DEF Writer!Intact, RInv, HeaderInv, Failed
  <2> HIDE DEF c
  <2>4. out'[file] = <<c>>
    BY <2>1, <2>2
  <2>5. out'[file] # <<>> /\ out'[file][1] = c
    BY <2>4
  <2>6. Writer!Open(file)
    BY <2>1, <2>2, <2>3, <2>5 DEF Writer!Open, Writer!Emit
  <2>7. QED
    BY <1>1, <2>2, <2>6 DEF Writer!Next
<1>3. CASE WriteBlock
  <2> DEFINE c == out_buf[job[NextSlot(tail)].buf]
             last == job[NextSlot(tail)].type
  <2>1. /\ pc[Main] = "write" /\ file \in FileIds /\ NextSlot(tail) \in Slots
        /\ c = Chunk("block", file, Len(out[file]), last)
        /\ Len(out[file]) \in 1..blocks[file]
        /\ (last <=> Len(out[file]) = blocks[file])
        /\ out' = [out EXCEPT ![file] = Append(@, c)]
    BY <1>3, WriteFound
  <2>2. last \in BOOLEAN
    BY <1>1, <2>1 DEF TypeOK, Jobs
  <2>3. last = (Len(out[file]) = blocks[file])
    BY <2>1, <2>2
  <2> HIDE DEF last
  <2>4. c = Writer!Block(file, Len(out[file]))
    BY <2>1, <2>3, SameChunks
  <2> HIDE DEF c
  <2>5. Writer!Current(file)
    BY <2>1, CurrentFile DEF Working
  <2>6. UNCHANGED <<blocks, reported>>
    BY <1>3 DEF WriteBlock
  <2>7. Writer!Intact
    BY <1>1, <1>3, WriteFound DEF Writer!Intact, Failed
  <2>8. Writer!Write(file)
    BY <2>1, <2>4, <2>5, <2>6, <2>7 DEF Writer!Write, Writer!Emit
  <2>9. QED
    BY <1>1, <2>1, <2>8 DEF Writer!Next
<1>4. CASE WriteTrailer
  <2>1. pc[Main] = "trailer" /\ pc[Main] \in Working
    BY <1>4 DEF WriteTrailer, Working
  <2>2. tail = head /\ end_of_stream /\ tail \in Slots
    BY <1>1, <2>1 DEF RInv, EmptyInv, TypeOK
  <2>3. ~Failed
    BY <2>2 DEF RInv, StuckInv
  <2>4. file \in FileIds /\ out[file] \in Seq(Chunks) /\ blocks[file] \in Nat
    BY <1>1, <2>1 DEF RInv, FileInv, TypeOK
  <2>5. nread = blocks[file] /\ nread = Nth(head) + 0
    BY <2>1, <2>2, <2>3 DEF RInv, RoundInv, CountInv
  <2>6. Len(out[file]) = blocks[file] + 1
    <3>1. Dist(tail, head) = 0 /\ Len(out[file]) \in Nat
      BY <2>2, <2>4, DistTyped
    <3>2. QED
      BY <2>4, <2>5, <3>1 DEF Nth, Written
  <2>7. Writer!Current(file)
    BY <2>1, CurrentFile
  <2>8. Writer!Intact
    BY <1>1, <2>3 DEF Writer!Intact, Failed
  <2>9. Writer!Close(file)
    BY <1>4, <2>5, <2>6, <2>7, <2>8, SameChunks DEF WriteTrailer, Writer!Close, Writer!Emit
  <2>10. QED
    BY <1>1, <2>4, <2>9 DEF Writer!Next
<1>5. CASE AbandonFile
  <2>1. pc[Main] \in Working
    BY <1>5 DEF AbandonFile, Working
  <2>2. file \in FileIds /\ out[file] # <<>> /\ Writer!Current(file)
    BY <2>1, CurrentFile DEF RInv, FileInv
  <2>3. Writer!Abandon(file)
    BY <1>5, <2>2 DEF AbandonFile, Writer!Abandon
  <2>4. QED
    BY <1>1, <2>2, <2>3 DEF Writer!Next
<1>6. CASE UNCHANGED <<blocks, out, reported>>
  BY <1>6 DEF Writer!vars
<1>7. ASSUME NEW w \in Workers, thread_worker(w) \/ WorkerWakeSpuriously(w)
      PROVE  UNCHANGED <<blocks, out, reported>>
  BY <1>7
  DEF thread_worker, WorkerTestShutdown, WorkerWait, WorkerWakeSpuriously, WorkerSeeShutdown,
      WorkerTake, WorkerDeflate, WorkerStoreTotalOut, WorkerStoreStatus
<1>8. ASSUME OpenFile \/ ReadBlock \/ PutWork \/ PutRefused \/ DrainDone \/ DrainTestStatus \/ HelpIdle
             \/ HelpTake \/ HelpDeflate \/ HelpStore \/ pool_quit \/ UNCHANGED vars
      PROVE  UNCHANGED <<blocks, out, reported>>
  BY <1>8
  DEF OpenFile, ReadBlock, PutWork, PutRefused, DrainDone, DrainTestStatus, HelpIdle, HelpTake,
      HelpDeflate, HelpStore, pool_quit, QuitShutdown, QuitBroadcast, QuitJoin, vars
<1>9. CASE OpenFails
  <2> DEFINE f == file + 1
  <2>1. /\ pc[Main] = "open" /\ pc[Main] \notin Working
        /\ reported' = [reported EXCEPT ![f] = "unopened"]
        /\ UNCHANGED <<blocks, out>>
    BY <1>9 DEF OpenFails, Working
  <2>2. file \in Nat /\ f \in FileIds
    BY <1>1, <1>9, PoolAssumption DEF OpenFails, TypeOK, FileIds
  <2>3. out[f] = <<>> /\ reported[f] = "none"
    BY <2>2 DEF RInv, FileInv
  <2>4. \A g \in 1..(f - 1) : reported[g] # "none"
    <3>1. \A g \in 1..(f - 1) : g \in FileIds /\ (g < file \/ g = file)
      BY <2>2, PoolAssumption DEF FileIds
    <3>2. QED
      BY <2>1, <3>1 DEF RInv, FileInv
  <2> HIDE DEF f
  <2>5. Writer!NotOpened(f)
    BY <2>1, <2>3, <2>4 DEF Writer!NotOpened, Writer!Current
  <2>6. QED
    BY <1>1, <2>2, <2>5 DEF Writer!Next
<1>10. QED
  BY <1>2, <1>3, <1>4, <1>5, <1>6, <1>7, <1>8, <1>9 DEF Next, Done, compress_file

(* The output files of igzip with several threads are written in argument  *)
(* order, each as its header, all its blocks once and in order, the last   *)
(* and no other marked as the end of the stream, and its trailer; a file   *)
(* that is given up is reported an error, and nothing but the beginning of *)
(* a later one is written: the pool of threads implements GzipFileWriter.  *)
THEOREM PoolWritesInOrder == ASSUME ~ReorderStores PROVE Spec => FilesWrittenInOrder
<1>1. Init => RInv
  BY RoundInit
<1>2. RInv /\ [Next]_vars => RInv'
  BY RoundStep
<1>3. Init => Writer!Init
  BY DEF Init, Writer!Init, FileIds, Writer!FileIds
<1>4. RInv /\ [Next]_vars => [Writer!Next]_(Writer!vars)
  BY WriterStep
<1>5. QED
  BY <1>1, <1>2, <1>3, <1>4, PTL DEF Spec, FilesWrittenInOrder, Writer!Spec

(* What BusyInputKept says of one step.                                    *)
InputKept ==
  \A t \in Busy :
    (\A f \in FileIds : reported[f] # "error") =>
      LET j == job[work_idx[t]]
      IN  /\ in_buf'[j.buf] = in_buf[j.buf]
          /\ job'[work_idx[t]].buf = j.buf
          /\ job'[work_idx[t]].type = j.type

(* A thread's block is one of the ring, and main reads the next block into *)
(* another piece and queues it in another slot.                            *)
LEMMA InputStep ==
  ASSUME RInv, [Next]_vars
  PROVE  InputKept
<1> USE DEF ringVars, localVars, dataVars, fileVars, worldVars
<1>1. SUFFICES ASSUME NEW t \in Busy, ~Failed
               PROVE  /\ in_buf'[job[work_idx[t]].buf] = in_buf[job[work_idx[t]].buf]
                      /\ job'[work_idx[t]].buf = job[work_idx[t]].buf
                      /\ job'[work_idx[t]].type = job[work_idx[t]].type
  BY DEF InputKept, Failed
<1> DEFINE k == work_idx[t]
<1>2. /\ t \in Threads /\ k \in Kept /\ k \in Slots
      /\ job[k] \in Jobs /\ job \in [Slots -> Jobs] /\ TypeOK
      /\ head \in Slots /\ tail \in Slots
  BY <1>1, BusyIsKept DEF Busy, RInv, IInv, TypeOK
<1>3. job[k].buf \in Bufs
  BY <1>2 DEF Jobs
<1> HIDE DEF k
<1>4. CASE ReadBlock
  <2>1. pc[Main] = "read" /\ pc[Main] \in Working
    BY <1>4 DEF ReadBlock, Working
  <2>2. job[k].buf < q
    BY <1>1, <1>2, <2>1 DEF RInv, RoundInv, QueueInv
  <2>3. job[k].buf # q
    BY <1>2, <1>3, <2>2, PoolAssumption DEF TypeOK, Bufs
  <2>4. in_buf'[job[k].buf] = in_buf[job[k].buf] /\ UNCHANGED job
    BY <1>2, <1>3, <1>4, <2>3 DEF ReadBlock, TypeOK
  <2>5. QED
    BY <2>4 DEF k
<1>5. ~ReadBlock => UNCHANGED in_buf
  <2>1. ASSUME NEW w \in Workers, thread_worker(w) \/ WorkerWakeSpuriously(w)
        PROVE  UNCHANGED in_buf
    BY <2>1
    DEF thread_worker, WorkerTestShutdown, WorkerWait, WorkerWakeSpuriously, WorkerSeeShutdown,
        WorkerTake, WorkerDeflate, WorkerStoreTotalOut, WorkerStoreStatus
  <2>2. ASSUME compress_file, ~ReadBlock
        PROVE  UNCHANGED in_buf
    BY <2>2
    DEF compress_file, OpenFile, OpenFails, WriteHeader, PutWork, PutRefused, DrainDone, DrainTestStatus, WriteBlock,
        HelpIdle, HelpTake, HelpDeflate, HelpStore, WriteTrailer, AbandonFile
  <2>3. ASSUME pool_quit \/ UNCHANGED vars
        PROVE  UNCHANGED in_buf
    BY <2>3 DEF pool_quit, QuitShutdown, QuitBroadcast, QuitJoin, vars
  <2>4. QED
    BY <2>1, <2>2, <2>3 DEF Next, Done
<1>6. ASSUME NEW i \in Slots, NEW s, NEW z,
             \/ job' = [job EXCEPT ![i] = [@ EXCEPT !.total_out = z]]
             \/ job' = [job EXCEPT ![i] = [@ EXCEPT !.status = s]]
             \/ job' = [job EXCEPT ![i] = [@ EXCEPT !.total_out = z, !.status = s]]
      PROVE  job'[k].buf = job[k].buf /\ job'[k].type = job[k].type
  <2>1. /\ [job[k] EXCEPT !.total_out = z].buf = job[k].buf
        /\ [job[k] EXCEPT !.total_out = z].type = job[k].type
    BY <1>2 DEF Jobs
  <2>2. /\ [job[k] EXCEPT !.status = s].buf = job[k].buf
        /\ [job[k] EXCEPT !.status = s].type = job[k].type
    BY <1>2 DEF Jobs
  <2>3. /\ [job[k] EXCEPT !.total_out = z, !.status = s].buf = job[k].buf
        /\ [job[k] EXCEPT !.total_out = z, !.status = s].type = job[k].type
    BY <1>2 DEF Jobs
  <2>4. \/ job'[k] = job[k]
        \/ job'[k] = [job[k] EXCEPT !.total_out = z]
        \/ job'[k] = [job[k] EXCEPT !.status = s]
        \/ job'[k] = [job[k] EXCEPT !.total_out = z, !.status = s]
    BY <1>2, <1>6
  <2>5. QED
    BY <2>1, <2>2, <2>3, <2>4
<1>7. job'[k].buf = job[k].buf /\ job'[k].type = job[k].type
  <2>1. ASSUME NEW w \in Workers, thread_worker(w) \/ WorkerWakeSpuriously(w)
        PROVE  job'[k].buf = job[k].buf /\ job'[k].type = job[k].type
    <3>1. work_idx[w] \in Slots
      BY <1>2 DEF TypeOK, Threads
    <3>2. CASE WorkerStoreTotalOut(w)
      BY <1>6, <3>1, <3>2 DEF WorkerStoreTotalOut
    <3>3. CASE WorkerStoreStatus(w)
      BY <1>6, <3>1, <3>3 DEF WorkerStoreStatus
    <3>4. CASE ~WorkerStoreTotalOut(w) /\ ~WorkerStoreStatus(w)
      BY <2>1, <3>4
      DEF thread_worker, WorkerTestShutdown, WorkerWait, WorkerWakeSpuriously,
          WorkerSeeShutdown, WorkerTake, WorkerDeflate
    <3>5. QED
      BY <3>2, <3>3, <3>4
  <2>2. CASE PutWork
    <3>1. NextSlot(head) \in Slots /\ NextSlot(head) # tail /\ NextSlot(head) \notin Kept
      BY <1>2, <2>2, NextSlotStep, DistHead DEF PutWork, pool_has_space, Kept
    <3>2. NextSlot(head) # k
      BY <1>2, <3>1
    <3>3. job'[k] = job[k]
      BY <1>2, <2>2, <3>1, <3>2 DEF PutWork
    <3>4. QED
      BY <3>3
  <2>3. CASE WriteBlock
    BY <1>2, <1>6, <2>3, NextSlotStep DEF WriteBlock
  <2>4. CASE HelpStore
    <3>1. work_idx[Main] \in Slots
      BY <1>2 DEF TypeOK, Threads
    <3>2. QED
      BY <1>6, <2>4, <3>1 DEF HelpStore
  <2>5. ASSUME compress_file \/ pool_quit \/ UNCHANGED vars, ~PutWork, ~WriteBlock, ~HelpStore
        PROVE  UNCHANGED job
    BY <2>5
    DEF compress_file, OpenFile, OpenFails, WriteHeader, ReadBlock, PutRefused, DrainDone, DrainTestStatus, HelpIdle,
        HelpTake, HelpDeflate, WriteTrailer, AbandonFile, pool_quit, QuitShutdown,
        QuitBroadcast, QuitJoin, vars
  <2>6. QED
    BY <2>1, <2>2, <2>3, <2>4, <2>5 DEF Next, Done
<1>8. QED
  BY <1>4, <1>5, <1>7 DEF k

(* While no file has been given up, the block and the job a thread works   *)
(* from stay as they are until it is done: compress_file may rewind iptr   *)
(* and optr for each round without waiting for anything but the ring.      *)
THEOREM PoolKeepsInput == ASSUME ~ReorderStores PROVE Spec => BusyInputKept
<1>1. Init => RInv
  BY RoundInit
<1>2. RInv /\ [Next]_vars => RInv'
  BY RoundStep
<1>3. RInv /\ [Next]_vars => [InputKept]_vars
  BY InputStep
<1>4. QED
  BY <1>1, <1>2, <1>3, PTL DEF Spec, BusyInputKept, InputKept
=============================================================================
