---------------------------- MODULE CopyOnWrite ----------------------------
(***************************************************************************)
(* User address spaces (kernel/mm/pmap.c) on reference-counted frames      *)
(* (kernel/mm/pmm.c): fork shares every frame, the first store after it    *)
(* copies, munmap, exec and exit give the frames back, and the kernel's    *)
(* own stores (kernel/mm/copy.c) go through the physical map.              *)
(*                                                                         *)
(* A task has one thread, so a space is active on one CPU at most and      *)
(* at[s] says where that thread is: running user code or inside a system   *)
(* call or fault.  Whatever the code does under s_pmap_lock is one step.   *)
(* Page-table pages are not counted; their allocation may fail.            *)
(***************************************************************************)
EXTENDS Naturals, FiniteSets

CONSTANTS
    Spaces,    \* address spaces (PML4 slots)
    Boot,      \* the space of the first process
    Pages,     \* user pages
    NoPage,
    Stack,     \* those in [USER_STACK_MIN, USER_STACK_MAX]
    Frames,    \* physical page frames
    NoFrame,
    Values,    \* page contents
    Zero,      \* a zeroed page
    Unmapped,  \* see AddressSpaces
    MaxRef     \* limit of the 16-bit ref_count

ASSUME SpaceAssumption == Boot \in Spaces /\ IsFiniteSet(Spaces)
ASSUME PageAssumption  == Stack \subseteq Pages /\ NoPage \notin Pages /\ IsFiniteSet(Pages)
ASSUME FrameAssumption == NoFrame \notin Frames /\ IsFiniteSet(Frames)
ASSUME ValueAssumption == Zero \in Values /\ Unmapped \notin Values
ASSUME RefAssumption   == MaxRef \in Nat /\ Cardinality(Spaces \X Pages) <= MaxRef

VARIABLES
    live,      \* spaces that exist
    map,       \* map[s][p]: frame of the PTE, NoFrame when not present
    perm,      \* its PAGE_WRITE and PAGE_COW bits
    tlb,       \* the translation the CPU running s has cached
    free,      \* frames in the buddy allocator
    ref,       \* ref_count
    mem,       \* contents of the frames
    at,        \* where the thread of s is
    page,      \* the page its fault or copyout is about
    to_free    \* phys_to_free: frames unmapped and not yet released

pteVars == <<map, perm>>
pmmVars == <<free, ref, mem>>
opVars  == <<at, page, to_free>>
vars    == <<live, pteVars, tlb, pmmVars, opVars>>

Rights   == {"none", "ro", "cow", "rw"}
Entry    == [frame : Frames, write : {"ro", "rw"}]
NoEntry  == [frame |-> NoFrame, write |-> "ro"]
NoFrames == [p \in Pages |-> NoFrame]

TypeOK ==
    /\ live \subseteq Spaces
    /\ map \in [Spaces -> [Pages -> Frames \cup {NoFrame}]]
    /\ perm \in [Spaces -> [Pages -> Rights]]
    /\ \A s \in Spaces, p \in Pages : map[s][p] = NoFrame <=> perm[s][p] = "none"
    /\ tlb \in [Spaces -> [Pages -> Entry \cup {NoEntry}]]
    /\ free \subseteq Frames
    /\ ref \in [Frames -> 0..MaxRef]
    /\ mem \in [Frames -> Values]
    /\ at \in [Spaces -> {"none", "load", "user", "grow", "store", "flush", "release"}]
    /\ page \in [Spaces -> Pages \cup {NoPage}]
    /\ to_free \in [Spaces -> [Pages -> Frames \cup {NoFrame}]]

----------------------------------------------------------------------------
(* The physical page manager.                                              *)

(* pmm_retain_page, k times: the count stops at its limit.                 *)
Retained(r, k) == IF r + k <= MaxRef THEN r + k ELSE MaxRef

(* pmm_release_page, k times: releasing a free frame does nothing, and the *)
(* last release gives the frame to the buddy allocator.                    *)
Released(r, k) == IF k <= r THEN r - k ELSE 0

FreedBy(drop) == {f \in Frames : drop[f] > 0 /\ ref[f] > 0 /\ Released(ref[f], drop[f]) = 0}

(* Allocate the frame g with contents v and release drop[f] references.    *)
Exchange(g, v, drop) ==
    /\ g \in free
    /\ free' = (free \ {g}) \cup FreedBy(drop)
    /\ ref' = [f \in Frames |-> IF f = g THEN 1 ELSE Released(ref[f], drop[f])]
    /\ mem' = [mem EXCEPT ![g] = v]

Release(drop) ==
    /\ free' = free \cup FreedBy(drop)
    /\ ref' = [f \in Frames |-> Released(ref[f], drop[f])]
    /\ UNCHANGED mem

None == [f \in Frames |-> 0]
One(f) == [g \in Frames |-> IF g = f THEN 1 ELSE 0]
Mappings(s, f) == Cardinality({p \in Pages : map[s][p] = f})
AllOf(s) == [f \in Frames |-> Mappings(s, f)]

----------------------------------------------------------------------------
Init ==
    /\ live = {Boot}
    /\ map = [s \in Spaces |-> NoFrames]
    /\ perm = [s \in Spaces |-> [p \in Pages |-> "none"]]
    /\ tlb = [s \in Spaces |-> [p \in Pages |-> NoEntry]]
    /\ free = Frames
    /\ ref = None
    /\ mem \in {[f \in Frames |-> v] : v \in Values}
    /\ at = [s \in Spaces |-> IF s = Boot THEN "load" ELSE "none"]
    /\ page = [s \in Spaces |-> NoPage]
    /\ to_free = [s \in Spaces |-> NoFrames]

Goto(s, l) == at' = [at EXCEPT ![s] = l]

SetPte(s, p, f, r) ==
    /\ map' = [map EXCEPT ![s][p] = f]
    /\ perm' = [perm EXCEPT ![s][p] = r]

Flush(s, P) == tlb' = [tlb EXCEPT ![s] = [p \in Pages |-> IF p \in P THEN NoEntry ELSE @[p]]]

(* pmap_map_user_page with a fresh frame: a PTE it replaces is released.   *)
MapFresh(s, p, v, r) ==
    \E g \in free :
        /\ Exchange(g, v, IF map[s][p] = NoFrame THEN None ELSE One(map[s][p]))
        /\ SetPte(s, p, g, r)

(* User code loads or stores through a translation the CPU has or walks    *)
(* the page table for; a fresh walk replaces a cached entry.               *)
UserLoad(s, p) ==
    /\ at[s] = "user" /\ perm[s][p] # "none"
    /\ tlb' = [tlb EXCEPT ![s][p] =
                  [frame |-> map[s][p], write |-> IF perm[s][p] = "rw" THEN "rw" ELSE "ro"]]
    /\ UNCHANGED <<live, pteVars, pmmVars, opVars>>

UserStore(s, p, v) ==
    /\ at[s] = "user"
    /\ \/ /\ tlb[s][p] # NoEntry /\ tlb[s][p].write = "rw"
          /\ mem' = [mem EXCEPT ![tlb[s][p].frame] = v]
          /\ UNCHANGED tlb
       \/ /\ perm[s][p] = "rw"
          /\ mem' = [mem EXCEPT ![map[s][p]] = v]
          /\ tlb' = [tlb EXCEPT ![s][p] = [frame |-> map[s][p], write |-> "rw"]]
    /\ UNCHANGED <<live, pteVars, free, ref, opVars>>

(* Mutant: the reference about to be dropped is counted off first.         *)
SoleButOne(f) == ref[f] <= 2

Sole(f) == ref[f] <= 1

(* pmap_handle_cow_fault: a shared frame is copied, the last reference is  *)
(* made writable in place.                                                 *)
BreakCow(s, p) ==
    LET f == map[s][p] IN
    /\ perm[s][p] = "cow"
    /\ \/ /\ ~Sole(f)
          /\ \E g \in free : Exchange(g, mem[f], One(f)) /\ SetPte(s, p, g, "rw")
       \/ Sole(f) /\ SetPte(s, p, f, "rw") /\ UNCHANGED pmmVars
    /\ Flush(s, {p})

NoMemoryForCow(s, p) == perm[s][p] = "cow" /\ ~Sole(map[s][p]) /\ free = {}

(* interrupt_handler, vector 14: a store that finds a copy-on-write page.  *)
WriteFault(s, p) ==
    /\ at[s] = "user"
    /\ BreakCow(s, p)
    /\ UNCHANGED <<live, opVars>>

(* The same handler goes on to grow the stack: for a missing page, for a   *)
(* read-only one that is stored to, and when the copy found no memory.     *)
StackFault(s, p) ==
    /\ at[s] = "user" /\ p \in Stack
    /\ perm[s][p] \in {"none", "ro"} \/ NoMemoryForCow(s, p)
    /\ Goto(s, "grow")
    /\ page' = [page EXCEPT ![s] = p]
    /\ UNCHANGED <<live, pteVars, tlb, pmmVars, to_free>>

StackGrow(s) ==
    /\ at[s] = "grow"
    /\ MapFresh(s, page[s], Zero, "rw")
    /\ Flush(s, {page[s]})
    /\ Goto(s, "user")
    /\ page' = [page EXCEPT ![s] = NoPage]
    /\ UNCHANGED <<live, to_free>>

(* Mutant: copyout takes any present page and stores through it.           *)
CopyoutPresent(s, p) ==
    /\ at[s] = "user" /\ perm[s][p] # "none"
    /\ Goto(s, "store")
    /\ page' = [page EXCEPT ![s] = p]
    /\ UNCHANGED <<live, pteVars, tlb, pmmVars, to_free>>

(* copyout looks the page up, breaks copy-on-write or adds a stack page,   *)
(* and then stores through the physical address it found.  A page it may   *)
(* not write, or no memory, is an error without effect.                    *)
CopyoutResolve(s, p) ==
    /\ at[s] = "user"
    /\ \/ perm[s][p] = "rw" /\ UNCHANGED <<pteVars, tlb, pmmVars>>
       \/ BreakCow(s, p)
       \/ /\ perm[s][p] = "none" /\ p \in Stack
          /\ MapFresh(s, p, Zero, "rw") /\ UNCHANGED tlb
    /\ Goto(s, "store")
    /\ page' = [page EXCEPT ![s] = p]
    /\ UNCHANGED <<live, to_free>>

CopyoutStore(s, v) ==
    /\ at[s] = "store"
    /\ mem' = [mem EXCEPT ![map[s][page[s]]] = v]
    /\ Goto(s, "user")
    /\ page' = [page EXCEPT ![s] = NoPage]
    /\ UNCHANGED <<live, pteVars, tlb, free, ref, to_free>>

(* sys_mmap of an anonymous page at an address it has not used yet.        *)
Mmap(s, p) ==
    /\ at[s] = "user" /\ map[s][p] = NoFrame
    /\ MapFresh(s, p, Zero, "rw")
    /\ UNCHANGED <<live, tlb, opVars>>

(* pmap_unmap_user_range_ex: clear the PTEs under the lock, flush the TLB, *)
(* and only then release the frames, one after the other.                  *)
Unmap(s, P) ==
    /\ at[s] = "user"
    /\ to_free' = [to_free EXCEPT ![s] = [p \in Pages |-> IF p \in P THEN map[s][p] ELSE NoFrame]]
    /\ map' = [map EXCEPT ![s] = [p \in Pages |-> IF p \in P THEN NoFrame ELSE @[p]]]
    /\ perm' = [perm EXCEPT ![s] = [p \in Pages |-> IF p \in P THEN "none" ELSE @[p]]]
    /\ Goto(s, "flush")
    /\ UNCHANGED <<live, tlb, pmmVars, page>>

(* Mutant: the frames are released with their translations still cached.   *)
UnmapNoFlush(s) ==
    /\ at[s] = "flush"
    /\ Goto(s, "release")
    /\ UNCHANGED <<live, pteVars, tlb, pmmVars, page, to_free>>

UnmapFlush(s) ==
    /\ at[s] = "flush"
    /\ Flush(s, Pages)
    /\ Goto(s, "release")
    /\ UNCHANGED <<live, pteVars, pmmVars, page, to_free>>

UnmapRelease(s, p) ==
    /\ at[s] = "release" /\ to_free[s][p] # NoFrame
    /\ Release(One(to_free[s][p]))
    /\ to_free' = [to_free EXCEPT ![s][p] = NoFrame]
    /\ UNCHANGED <<live, pteVars, tlb, at, page>>

UnmapDone(s) ==
    /\ at[s] = "release" /\ to_free[s] = NoFrames
    /\ Goto(s, "user")
    /\ UNCHANGED <<live, pteVars, tlb, pmmVars, page, to_free>>

(* Mutant: only pages that can become writable are retained.               *)
TakenForCow(s, got, f) == Cardinality({p \in got : map[s][p] = f /\ perm[s][p] # "ro"})

(* References the child takes on a frame: one for each page it maps.       *)
Taken(s, got, f) == Cardinality({p \in got : map[s][p] = f})

(* sys_fork, pmap_clone_user_space: a writable page becomes read-only and  *)
(* copy-on-write in both, a read-only one is shared as it is.  got are the *)
(* pages for which the child's page tables could be allocated.             *)
Shared(r) == IF r \in {"rw", "cow"} THEN "cow" ELSE r

Fork(s, c, got) ==
    /\ at[s] = "user" /\ c \notin live
    /\ got \subseteq {p \in Pages : map[s][p] # NoFrame}
    /\ live' = live \cup {c}
    /\ map' = [map EXCEPT ![c] = [p \in Pages |-> IF p \in got THEN map[s][p] ELSE NoFrame]]
    /\ perm' = [perm EXCEPT
                   ![s] = [p \in Pages |-> Shared(@[p])],
                   ![c] = [p \in Pages |-> IF p \in got THEN Shared(perm[s][p]) ELSE "none"]]
    /\ ref' = [f \in Frames |-> Retained(ref[f], Taken(s, got, f))]
    /\ Flush(s, Pages)
    /\ Goto(c, "user")
    /\ UNCHANGED <<free, mem, page, to_free>>

(* Mutant: the frames are given back, the rights stay in the table.        *)
DestroyKeepsRights(s) ==
    /\ Release(AllOf(s))
    /\ map' = [map EXCEPT ![s] = NoFrames]
    /\ Flush(s, Pages)
    /\ UNCHANGED perm

(* pmap_destroy_user_space: leave the space, shoot its translations down,  *)
(* and release every frame it maps.                                        *)
Destroy(s) ==
    /\ Release(AllOf(s))
    /\ map' = [map EXCEPT ![s] = NoFrames]
    /\ perm' = [perm EXCEPT ![s] = [p \in Pages |-> "none"]]
    /\ Flush(s, Pages)

(* sys_execve destroys the old space and loads the image into a new one.   *)
Exec(s) ==
    /\ at[s] = "user"
    /\ Destroy(s)
    /\ Goto(s, "load")
    /\ UNCHANGED <<live, page, to_free>>

(* mach_loader: a segment page, mapped as its initprot says; a page two    *)
(* segments share is replaced.                                             *)
Load(s, p, r, v) ==
    /\ at[s] = "load"
    /\ MapFresh(s, p, v, r)
    /\ UNCHANGED <<live, tlb, opVars>>

Start(s) ==
    /\ at[s] = "load"
    /\ Goto(s, "user")
    /\ UNCHANGED <<live, pteVars, tlb, pmmVars, page, to_free>>

(* proc_mark_exited: the process exits, is killed, or its exec or its      *)
(* stack growth finds no memory.                                           *)
Exit(s) ==
    /\ s # Boot
    /\ at[s] \in {"user", "load"} \/ (at[s] = "grow" /\ free = {})
    /\ Destroy(s)
    /\ live' = live \ {s}
    /\ Goto(s, "none")
    /\ page' = [page EXCEPT ![s] = NoPage]
    /\ UNCHANGED to_free

(* Everything a thread does but the ends of a mapping and of the space.    *)
Running(s) ==
    \/ \E p \in Pages : \/ UserLoad(s, p) \/ WriteFault(s, p) \/ StackFault(s, p)
                        \/ CopyoutResolve(s, p) \/ Mmap(s, p) \/ UnmapRelease(s, p)
    \/ \E p \in Pages, v \in Values :
           UserStore(s, p, v) \/ \E r \in {"ro", "rw"} : Load(s, p, r, v)
    \/ \E v \in Values : CopyoutStore(s, v)
    \/ \E c \in Spaces, got \in SUBSET Pages : Fork(s, c, got)
    \/ StackGrow(s) \/ UnmapFlush(s) \/ Exec(s) \/ Start(s)

SpaceStep(s) ==
    \/ Running(s)
    \/ \E P \in SUBSET Pages : Unmap(s, P)
    \/ UnmapDone(s) \/ Exit(s)

Next == \E s \in live : SpaceStep(s)

Spec == Init /\ [][Next]_vars

----------------------------------------------------------------------------
(* Every reference to a frame: a PTE, or an unmap that will release it.    *)
Holders(f) ==
    {h \in Spaces \X Pages : map[h[1]][h[2]] = f \/ to_free[h[1]][h[2]] = f}

(* The reference count of a frame is the number of PTEs and pending        *)
(* releases that name it, and the allocator has exactly the frames without *)
(* one: no frame is given out while something maps it, none is lost.       *)
RefsExact ==
    \A f \in Frames : /\ ref[f] = Cardinality(Holders(f))
                      /\ f \in free <=> ref[f] = 0

(* The PTE that lets a process store is the only reference to its frame.   *)
WritableAlone ==
    \A s \in Spaces, p \in Pages :
        perm[s][p] = "rw" => Holders(map[s][p]) = {<<s, p>>}

(* No cached translation outlives its frame, and the ones user code runs   *)
(* with agree with the page table and grant no more than it does.          *)
TranslationsFresh ==
    \A s \in Spaces, p \in Pages :
        LET e == tlb[s][p] IN
        e # NoEntry =>
            /\ e.frame \notin free
            /\ at[s] = "user" => /\ e.frame = map[s][p]
                                 /\ e.write = "rw" => perm[s][p] = "rw"

(* What a process sees of its memory.                                      *)
Visible == [s \in Spaces |-> [p \in Pages |->
               IF map[s][p] = NoFrame THEN Unmapped ELSE mem[map[s][p]]]]

Private == INSTANCE AddressSpaces WITH
               space <- Visible, loading <- {s \in live : at[s] = "load"}

(* Shared frames behave as private memory: a store, of user code or of the *)
(* kernel, changes the page of one process and of no other, and fork       *)
(* copies what the parent had.                                             *)
ImplementsPrivate == Private!Spec
=============================================================================
