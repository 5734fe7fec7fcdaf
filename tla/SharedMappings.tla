-------------------------- MODULE SharedMappings ---------------------------
(***************************************************************************)
(* Memory shared through a file (sys_mmap with a descriptor): the entry of *)
(* s_shm_entries that keeps its frames, and the mapping records of the     *)
(* tasks (kernel/bsd/syscall.c), on top of the address spaces.  One entry, *)
(* whose page p is mapped at page p, and one record of it per process.     *)
(***************************************************************************)
EXTENDS CopyOnWrite

VARIABLES
    shm,        \* pages[]: the frames of the entry
    map_count,  \* live mappings backed by it
    record,     \* the page the task's mapping record covers
    closing,    \* spaces in the munmap of a recorded mapping
    dying       \* spaces between mmap_records_destroy and the PTE sweep

shmVars == <<shm, map_count, record, closing, dying>>

SharedInit ==
    /\ Init
    /\ shm = NoFrames
    /\ map_count = 0
    /\ record = [s \in Spaces |-> NoPage]
    /\ closing = {}
    /\ dying = {}

(* sys_mmap: count and record the mapping, then allocate the entry's page  *)
(* or retain the one it has, and map it.  Without memory the record stays. *)
MmapShared(s, p) ==
    /\ at[s] = "user" /\ map[s][p] = NoFrame /\ record[s] = NoPage
    /\ map_count' = map_count + 1
    /\ record' = [record EXCEPT ![s] = p]
    /\ \/ /\ shm[p] = NoFrame
          /\ \E g \in free : /\ Exchange(g, Zero, None)
                             /\ SetPte(s, p, g, "rw")
                             /\ shm' = [shm EXCEPT ![p] = g]
       \/ /\ shm[p] # NoFrame
          /\ ref' = [ref EXCEPT ![shm[p]] = Retained(@, 1)]
          /\ SetPte(s, p, shm[p], "rw")
          /\ UNCHANGED <<free, mem, shm>>
       \/ shm[p] = NoFrame /\ free = {} /\ UNCHANGED <<pteVars, pmmVars, shm>>
    /\ UNCHANGED <<live, tlb, opVars, closing, dying>>

(* mmap_shm_release: the last mapping drops the table's references.        *)
ShmRelease ==
    /\ map_count' = map_count - 1
    /\ IF map_count = 1
       THEN /\ Release([f \in Frames |-> Cardinality({p \in Pages : shm[p] = f})])
            /\ shm' = NoFrames
       ELSE UNCHANGED <<pmmVars, shm>>

DropRecord(s) == ShmRelease /\ record' = [record EXCEPT ![s] = NoPage]

(* mmap_shared_unmap sweeps the recorded page, then releases the entry.    *)
MunmapShared(s) ==
    /\ record[s] # NoPage
    /\ Unmap(s, {record[s]})
    /\ closing' = closing \cup {s}
    /\ UNCHANGED <<shm, map_count, record, dying>>

CloseRecord(s) ==
    /\ s \in closing
    /\ at[s] = "release" /\ to_free[s] = NoFrames
    /\ DropRecord(s)
    /\ Goto(s, "user")
    /\ closing' = closing \ {s}
    /\ UNCHANGED <<live, pteVars, tlb, page, to_free, dying>>

(* proc_mark_exited: mmap_records_destroy, before the PTE sweep of Exit.   *)
RecordsDestroy(s) ==
    /\ at[s] = "user" /\ s # Boot /\ record[s] # NoPage
    /\ DropRecord(s)
    /\ dying' = dying \cup {s}
    /\ UNCHANGED <<live, pteVars, tlb, opVars, closing>>

SharedStep(s) ==
    \/ /\ s \notin dying
       /\ \/ /\ \/ Running(s)
                \/ \E P \in SUBSET Pages : record[s] \notin P /\ Unmap(s, P)
                \/ s \notin closing /\ UnmapDone(s)
                \/ record[s] = NoPage /\ Exit(s)
             /\ UNCHANGED shmVars
          \/ \E p \in Pages : MmapShared(s, p)
          \/ MunmapShared(s) \/ CloseRecord(s) \/ RecordsDestroy(s)
    \/ /\ s \in dying
       /\ Exit(s)
       /\ dying' = dying \ {s}
       /\ UNCHANGED <<shm, map_count, record, closing>>

SharedSpec == SharedInit /\ [][\E s \in live : SharedStep(s)]_<<vars, shmVars>>

(* No running process maps a frame that the allocator has: the split of    *)
(* references between table and mappings is there so that no munmap frees  *)
(* a page another process still has mapped.                                *)
MappedNotFree ==
    \A s \in live \ dying : at[s] = "user" =>
        \A p \in Pages : map[s][p] \notin free
=============================================================================
