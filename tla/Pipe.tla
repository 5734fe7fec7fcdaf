-------------------------------- MODULE Pipe --------------------------------
(***************************************************************************)
(* Anonymous pipes: kernel/vfs/pipe.c.                                     *)
(*                                                                         *)
(* One slot of s_pipes, the threads that share its two ends, and its life  *)
(* from pipe_create to the second close.  Each iteration of the read and   *)
(* write loops is one critical section of the pipe's lock.  r_wq and w_wq  *)
(* are the queues of module WaitFifo: waiters leave in arrival order, when *)
(* they are woken.                                                         *)
(*                                                                         *)
(* A descriptor is closed by fp_release of kernel/bsd/fileproc.c, which    *)
(* calls no vop_close: Next is the kernel as it is.  VnodeNext is pipe.c   *)
(* on its own: what its close operations do when somebody calls them.      *)
(***************************************************************************)
EXTENDS Integers, Sequences, SequencesExt, FiniteSets

CONSTANTS
    Readers, Writers,  \* threads that hold the read, the write end
    PipeBufSize,       \* PIPE_BUF_SIZE (65536)
    ChunkSize,         \* sizeof(tmp) (256)
    MaxLen,            \* bound: the longest read or write
    MaxCalls           \* bound: writes per writer and pipe

ASSUME SizeAssumption ==
    /\ PipeBufSize \in Nat \ {0} /\ ChunkSize \in Nat \ {0}
    /\ MaxLen \in Nat \ {0} /\ MaxCalls \in Nat \ {0}
ASSUME EndsAssumption == Readers \cap Writers = {} /\ Writers # {}

(* The chunks it takes at least to move n bytes.                           *)
Chunks(n) == (n + ChunkSize - 1) \div ChunkSize

(* One wake-up per chunk is enough for as many writers as a full pipe has  *)
(* chunks: 256 in the code.                                                *)
ASSUME WritersAssumption ==
    IsFiniteSet(Writers) /\ Cardinality(Writers) <= Chunks(PipeBufSize)

VARIABLES
    buf, head, tail, count,
    readers, writers,  \* open ends: pipe_create makes one of each
    active,
    fp,                \* the ends some descriptor still refers to
    r_wq, w_wq,
    pc,                \* "user", "loop", "copy" or "asleep"
    uio_resid,
    total_read,        \* whether the call has read something
    calls,             \* writes begun by a writer on this pipe
    written, taken     \* history: bytes put into and taken from the buffer

Threads == Readers \cup Writers
pipeVars == <<buf, head, tail, count, written, taken>>
endVars == <<readers, writers, active, fp>>
callVars == <<uio_resid, total_read, calls>>
vars == <<pipeVars, endVars, r_wq, w_wq, pc, callVars>>

Least(S) == CHOOSE x \in S : \A y \in S : x <= y

(* A byte stands for the write call it comes from.                         *)
Byte == Writers \X (1 .. MaxCalls)

-----------------------------------------------------------------------------
(* The slot as pipe_create and sys_pipe leave it.                          *)
Init ==
    /\ buf = [i \in 0 .. PipeBufSize - 1 |-> CHOOSE b \in Byte : TRUE]
    /\ head = 0 /\ tail = 0 /\ count = 0
    /\ readers = 1 /\ writers = 1 /\ active = TRUE
    /\ fp = {"read", "write"}
    /\ r_wq = <<>> /\ w_wq = <<>>
    /\ written = <<>> /\ taken = <<>>
    /\ pc = [t \in Threads |-> "user"]
    /\ uio_resid = [t \in Threads |-> 0]
    /\ total_read = [r \in Readers |-> FALSE]
    /\ calls = [w \in Writers |-> 0]

(* pipe_create takes the slot again; buf is left as it is.                 *)
PipeCreate ==
    /\ ~active
    /\ head' = 0 /\ tail' = 0 /\ count' = 0
    /\ readers' = 1 /\ writers' = 1 /\ active' = TRUE
    /\ fp' = {"read", "write"}
    /\ r_wq' = <<>> /\ w_wq' = <<>>
    /\ written' = <<>> /\ taken' = <<>>
    /\ calls' = [w \in Writers |-> 0]
    /\ UNCHANGED <<buf, pc, uio_resid, total_read>>

(* Mutant: an offset that reaches the end of buf starts over at 0.         *)
AdvanceToZero(off, n) == IF off + n >= PipeBufSize THEN 0 ELSE off + n

(* The offset n bytes further round the ring.                              *)
Advance(off, n) == (off + n) % PipeBufSize

(* to_read, to_write: what is asked for, one chunk, what there is.         *)
ToRead(r) == Least({uio_resid[r], ChunkSize, count})

(* Mutant: the free space is not looked at.                                *)
ToWriteUnchecked(w) == Least({uio_resid[w], ChunkSize})

ToWrite(w) == Least({uio_resid[w], ChunkSize, PipeBufSize - count})

(* wait_queue_wakeup_one: the first waiter of q goes round its loop again. *)
WakeOne(q, t, l) ==
    pc' = [u \in Threads |-> IF u = t THEN l
                             ELSE IF q # <<>> /\ u = q[1] THEN "loop" ELSE pc[u]]
Rest(q) == IF q = <<>> THEN q ELSE Tail(q)

(* Mutant: one waiter is woken, the others leave the queue with it.        *)
WakeFirst(q) == pc' = [u \in Threads |-> IF q # <<>> /\ u = q[1] THEN "loop" ELSE pc[u]]

(* wait_queue_wakeup_all.                                                  *)
WakeAll(q) == pc' = [u \in Threads |-> IF u \in ToSet(q) THEN "loop" ELSE pc[u]]

Return(t) == pc' = [pc EXCEPT ![t] = "user"]

-----------------------------------------------------------------------------
(* pipe_read_vop_read.                                                     *)

Read(r) ==
    /\ pc[r] = "user" /\ "read" \in fp
    /\ \E n \in 1 .. MaxLen : uio_resid' = [uio_resid EXCEPT ![r] = n]
    /\ total_read' = [total_read EXCEPT ![r] = FALSE]
    /\ pc' = [pc EXCEPT ![r] = "loop"]
    /\ UNCHANGED <<pipeVars, endVars, r_wq, w_wq, calls>>

(* End of file, or a short read.                                           *)
ReadReturn(r) ==
    /\ pc[r] = "loop"
    /\ count = 0 /\ (writers = 0 \/ total_read[r])
    /\ Return(r)
    /\ UNCHANGED <<pipeVars, endVars, r_wq, w_wq, callVars>>

ReadSleep(r) ==
    /\ pc[r] = "loop"
    /\ count = 0 /\ writers > 0 /\ ~total_read[r]
    /\ r_wq' = Append(r_wq, r)
    /\ pc' = [pc EXCEPT ![r] = "asleep"]
    /\ UNCHANGED <<pipeVars, endVars, w_wq, callVars>>

(* Mutant: writers are only woken once the buffer is empty.                *)
WakeWriterIfEmpty(r) ==
    IF count = ToRead(r)
    THEN WakeOne(w_wq, r, "copy") /\ w_wq' = Rest(w_wq)
    ELSE pc' = [pc EXCEPT ![r] = "copy"] /\ UNCHANGED w_wq

WakeWriter(r) == WakeOne(w_wq, r, "copy") /\ w_wq' = Rest(w_wq)

ReadTake(r) ==
    LET n == ToRead(r) IN
    /\ pc[r] = "loop" /\ count > 0
    /\ taken' = taken \o [i \in 1 .. n |-> buf[(tail + i - 1) % PipeBufSize]]
    /\ tail' = Advance(tail, n)
    /\ count' = count - n
    /\ uio_resid' = [uio_resid EXCEPT ![r] = @ - n]
    /\ total_read' = [total_read EXCEPT ![r] = TRUE]
    /\ WakeWriter(r)
    /\ UNCHANGED <<buf, head, written, endVars, r_wq, calls>>

(* copyout: on to the next chunk, the end of the call, or a bad address.   *)
ReadCopied(r) ==
    /\ pc[r] = "copy"
    /\ \/ Return(r)
       \/ uio_resid[r] > 0 /\ pc' = [pc EXCEPT ![r] = "loop"]
    /\ UNCHANGED <<pipeVars, endVars, r_wq, w_wq, callVars>>

(* fp_release of the last reference to the read end.  A thread inside a    *)
(* read holds one (proc_fd_lookup).                                        *)
LastRelease(end, S) ==
    /\ end \in fp /\ \A t \in S : pc[t] = "user"
    /\ fp' = fp \ {end}

FpReleaseRead ==
    /\ LastRelease("read", Readers)
    /\ UNCHANGED <<pipeVars, readers, writers, active, r_wq, w_wq, pc, callVars>>

(* pipe_read_vop_close.                                                    *)
CloseRead ==
    /\ LastRelease("read", Readers)
    /\ readers' = readers - 1
    /\ active' = (readers' > 0 \/ writers > 0)
    /\ WakeAll(w_wq) /\ w_wq' = <<>>
    /\ UNCHANGED <<pipeVars, writers, r_wq, callVars>>

-----------------------------------------------------------------------------
(* pipe_write_vop_write.                                                   *)

Write(w) ==
    /\ pc[w] = "user" /\ "write" \in fp /\ calls[w] < MaxCalls
    /\ \E n \in 1 .. MaxLen : uio_resid' = [uio_resid EXCEPT ![w] = n]
    /\ calls' = [calls EXCEPT ![w] = @ + 1]
    /\ pc' = [pc EXCEPT ![w] = "loop"]
    /\ UNCHANGED <<pipeVars, endVars, r_wq, w_wq, total_read>>

(* copyin meets a bad address.                                             *)
WriteFault(w) ==
    /\ pc[w] = "loop"
    /\ Return(w)
    /\ UNCHANGED <<pipeVars, endVars, r_wq, w_wq, callVars>>

(* Nobody can read any more: SIGPIPE and an error.                         *)
WriteBroken(w) ==
    /\ pc[w] = "loop" /\ readers = 0
    /\ Return(w)
    /\ UNCHANGED <<pipeVars, endVars, r_wq, w_wq, callVars>>

WriteSleep(w) ==
    /\ pc[w] = "loop"
    /\ readers > 0 /\ count >= PipeBufSize
    /\ w_wq' = Append(w_wq, w)
    /\ pc' = [pc EXCEPT ![w] = "asleep"]
    /\ UNCHANGED <<pipeVars, endVars, r_wq, callVars>>

WritePut(w) ==
    LET n == ToWrite(w)
        b == <<w, calls[w]>>
    IN
    /\ pc[w] = "loop"
    /\ readers > 0 /\ count < PipeBufSize
    /\ buf' = [i \in DOMAIN buf |->
                  IF \E k \in 0 .. n - 1 : i = (head + k) % PipeBufSize THEN b ELSE buf[i]]
    /\ written' = written \o [i \in 1 .. n |-> b]
    /\ head' = Advance(head, n)
    /\ count' = count + n
    /\ uio_resid' = [uio_resid EXCEPT ![w] = @ - n]
    /\ WakeOne(r_wq, w, IF uio_resid[w] = n THEN "user" ELSE "loop") /\ r_wq' = Rest(r_wq)
    /\ UNCHANGED <<tail, taken, endVars, w_wq, total_read, calls>>

FpReleaseWrite ==
    /\ LastRelease("write", Writers)
    /\ UNCHANGED <<pipeVars, readers, writers, active, r_wq, w_wq, pc, callVars>>

(* Mutant: nobody is told that the last writer is gone.                    *)
CloseWriteSilently ==
    /\ LastRelease("write", Writers)
    /\ writers' = writers - 1
    /\ active' = (readers > 0 \/ writers' > 0)
    /\ UNCHANGED <<pipeVars, readers, r_wq, w_wq, pc, callVars>>

(* pipe_write_vop_close.                                                   *)
CloseWrite ==
    /\ LastRelease("write", Writers)
    /\ writers' = writers - 1
    /\ active' = (readers > 0 \/ writers' > 0)
    /\ WakeAll(r_wq) /\ r_wq' = <<>>
    /\ UNCHANGED <<pipeVars, readers, w_wq, callVars>>

-----------------------------------------------------------------------------
ReadStep(r) == ReadReturn(r) \/ ReadSleep(r) \/ ReadTake(r) \/ ReadCopied(r)
WriteStep(w) == WriteBroken(w) \/ WriteSleep(w) \/ WritePut(w)

Use ==
    \/ \E r \in Readers : Read(r) \/ ReadStep(r)
    \/ \E w \in Writers : Write(w) \/ WriteStep(w) \/ WriteFault(w)

Next == Use \/ FpReleaseRead \/ FpReleaseWrite
VnodeNext == Use \/ CloseRead \/ CloseWrite \/ PipeCreate

Spec == Init /\ [][Next]_vars
VnodeSpec == Init /\ [][VnodeNext]_vars

(* Threads inside a call are scheduled.                                    *)
Fairness ==
    /\ \A r \in Readers : WF_vars(ReadStep(r))
    /\ \A w \in Writers : WF_vars(WriteStep(w))

FairSpec == Spec /\ Fairness
FairVnodeSpec == VnodeSpec /\ Fairness

-----------------------------------------------------------------------------
TypeOK ==
    /\ buf \in [0 .. PipeBufSize - 1 -> Byte]
    /\ head \in 0 .. PipeBufSize - 1 /\ tail \in 0 .. PipeBufSize - 1
    /\ count \in 0 .. PipeBufSize
    /\ readers \in 0 .. 1 /\ writers \in 0 .. 1 /\ active \in BOOLEAN
    /\ fp \subseteq {"read", "write"}
    /\ pc \in [Threads -> {"user", "loop", "copy", "asleep"}]
    /\ uio_resid \in [Threads -> 0 .. MaxLen]

(* The bytes come out in the order they went in, none twice and none lost, *)
(* across the wrap-around of head and tail.                                *)
InOrder ==
    written = taken \o [i \in 1 .. count |-> buf[(tail + i - 1) % PipeBufSize]]

(* No wake-up is lost.  A reader sleeps only on an empty pipe that can     *)
(* still be written.  Writers are woken one per chunk taken out, and those *)
(* asleep never outnumber the chunks that are left to take.                *)
SleepersJustified ==
    /\ r_wq # <<>> => count = 0 /\ writers > 0
    /\ w_wq # <<>> => readers > 0
    /\ Len(w_wq) <= Chunks(count)

(* Every write returns while somebody keeps reading: a reader comes back   *)
(* after each read.                                                        *)
WritesReturn ==
    (\E r \in Readers : []<>(pc[r] # "user")) =>
        \A w \in Writers : pc[w] # "user" ~> pc[w] = "user"

(* A reader of a pipe without a descriptor for its write end gets to end   *)
(* of file.                                                                *)
ReadsEnd ==
    \A r \in Readers : pc[r] # "user" /\ "write" \notin fp ~> pc[r] = "user"

(* A writer whose reader has gone away is not left asleep.                 *)
WritesEnd ==
    \A w \in Writers : pc[w] # "user" /\ "read" \notin fp ~> pc[w] = "user"

=============================================================================
