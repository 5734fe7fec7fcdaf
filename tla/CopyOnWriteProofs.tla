------------------------- MODULE CopyOnWriteProofs -------------------------
(***************************************************************************)
(* Copy-on-write memory for any number of processes, pages and frames:     *)
(* exact reference counts, exclusive writable pages, no stale translation, *)
(* and the refinement of private memory (AddressSpaces).                   *)
(***************************************************************************)
EXTENDS CopyOnWrite, TLAPS, FiniteSetTheorems

-----------------------------------------------------------------------------
(* Counting.                                                               *)

(* Holders pointwise, now and after a step.                                *)
LEMMA HeldPoints ==
    ASSUME NEW f
    PROVE  /\ Holders(f) \subseteq Spaces \X Pages
           /\ Holders(f)' \subseteq Spaces \X Pages
           /\ \A s \in Spaces, p \in Pages :
                 /\ <<s, p>> \in Holders(f) <=> map[s][p] = f \/ to_free[s][p] = f
                 /\ <<s, p>> \in Holders(f)' <=> map'[s][p] = f \/ to_free'[s][p] = f
BY DEF Holders

(* A frame has at most one holder for every page of every space, so a      *)
(* 16-bit count that covers those is never at its limit.                   *)
LEMMA FewHolders ==
    ASSUME NEW H \in SUBSET (Spaces \X Pages)
    PROVE  IsFiniteSet(H) /\ Cardinality(H) \in Nat /\ Cardinality(H) <= MaxRef
<1>1. IsFiniteSet(Spaces \X Pages)
  BY FS_Product, SpaceAssumption, PageAssumption
<1>2. IsFiniteSet(H) /\ Cardinality(H) <= Cardinality(Spaces \X Pages)
  BY <1>1, FS_Subset
<1>3. Cardinality(H) \in Nat /\ Cardinality(Spaces \X Pages) \in Nat
  BY <1>1, <1>2, FS_CardinalityType
<1> QED BY <1>2, <1>3, RefAssumption

(* The holders of a frame can be counted, now and after a step.            *)
LEMMA HoldersCount ==
    ASSUME NEW f
    PROVE  /\ IsFiniteSet(Holders(f)) /\ Cardinality(Holders(f)) \in 0 .. MaxRef
           /\ IsFiniteSet(Holders(f)') /\ Cardinality(Holders(f)') \in 0 .. MaxRef
BY HeldPoints, FewHolders, RefAssumption

(* Releasing references leaves a count within its bounds.                  *)
LEMMA ReleasedBound ==
    ASSUME NEW r \in 0 .. MaxRef, NEW k \in Nat
    PROVE  Released(r, k) \in 0 .. MaxRef
BY RefAssumption DEF Released

(* The pages P of one space count as often as P has elements.              *)
LEMMA ColumnCount ==
    ASSUME NEW s, NEW P, IsFiniteSet(P)
    PROVE  /\ IsFiniteSet({s} \X P)
           /\ Cardinality({s} \X P) = Cardinality(P)
           /\ Cardinality(P) \in Nat
<1>1. IsFiniteSet({s}) /\ Cardinality({s}) = 1
  BY FS_Singleton
<1>2. Cardinality(P) \in Nat
  BY FS_CardinalityType
<1>3. IsFiniteSet({s} \X P) /\ Cardinality({s} \X P) = 1 * Cardinality(P)
  BY <1>1, FS_Product
<1> QED BY <1>2, <1>3

-----------------------------------------------------------------------------
(* The inductive invariant.                                                *)

(* Where a thread is says what its space may hold: a space that does not   *)
(* exist holds nothing, a copyout that is about to store has found a       *)
(* writable page, and only an unmap has frames to release.                 *)
Phases ==
    \A s \in Spaces :
        /\ at[s] = "none" <=> s \notin live
        /\ s \notin live => map[s] = NoFrames
        /\ at[s] \in {"grow", "store"} => page[s] \in Pages
        /\ at[s] = "store" => perm[s][page[s]] = "rw"
        /\ at[s] \notin {"flush", "release"} => to_free[s] = NoFrames
        /\ \A p \in Pages : to_free[s][p] # NoFrame => map[s][p] = NoFrame

(* A cached translation is the one of the page table, or, between the      *)
(* clearing of the table and the flush, the one that was in it.            *)
Cached ==
    \A s \in Spaces, p \in Pages :
        tlb[s][p] # NoEntry =>
            /\ at[s] \in {"user", "grow", "store", "flush"}
            /\ \/ /\ tlb[s][p].frame = map[s][p]
                  /\ tlb[s][p].write = "rw" => perm[s][p] = "rw"
               \/ at[s] = "flush" /\ tlb[s][p].frame = to_free[s][p]

(* WritableAlone entry by entry: no other entry, and no release that is    *)
(* due, names the frame of a writable entry.                               *)
Exclusive ==
    \A s \in Spaces, p \in Pages :
        perm[s][p] = "rw" =>
            \A u \in Spaces, q \in Pages :
                map[u][q] = map[s][p] \/ to_free[u][q] = map[s][p] => u = s /\ q = p

IInv == TypeOK /\ Phases /\ Cached /\ RefsExact /\ Exclusive

(* The frame of a present entry has that entry among its holders and is    *)
(* not free; a free frame has no holder.                                   *)
LEMMA Occupied ==
    ASSUME TypeOK, RefsExact
    PROVE  /\ \A f \in free : Holders(f) = {} /\ ref[f] = 0
           /\ \A s \in Spaces, p \in Pages :
                 /\ map[s][p] # NoFrame =>
                       map[s][p] \in Frames \ free /\ <<s, p>> \in Holders(map[s][p])
                 /\ to_free[s][p] # NoFrame =>
                       to_free[s][p] \in Frames \ free /\ <<s, p>> \in Holders(to_free[s][p])
<1>1. \A f \in Frames : f \in free <=> Holders(f) = {}
  BY HoldersCount, FS_EmptySet DEF RefsExact
<1>2. \A f \in free : Holders(f) = {} /\ ref[f] = 0
  BY <1>1 DEF RefsExact, TypeOK
<1>3. ASSUME NEW s \in Spaces, NEW p \in Pages, map[s][p] # NoFrame
      PROVE  map[s][p] \in Frames \ free /\ <<s, p>> \in Holders(map[s][p])
  BY <1>1, <1>3, HeldPoints DEF TypeOK
<1>4. ASSUME NEW s \in Spaces, NEW p \in Pages, to_free[s][p] # NoFrame
      PROVE  to_free[s][p] \in Frames \ free /\ <<s, p>> \in Holders(to_free[s][p])
  BY <1>1, <1>4, HeldPoints DEF TypeOK
<1> QED BY <1>2, <1>3, <1>4

-----------------------------------------------------------------------------
(* The operations on the page tables, one lemma each.                      *)

Dropped(s, p) == IF map[s][p] = NoFrame THEN None ELSE One(map[s][p])

(* Mapping the free frame g at a page moves that page from the holders of  *)
(* its old frame to those of g, and the counts follow.                     *)
LEMMA RemapCounts ==
    ASSUME IInv, NEW s \in Spaces, NEW p \in Pages, NEW g, NEW v, NEW r,
           Exchange(g, v, Dropped(s, p)), SetPte(s, p, g, r),
           to_free[s][p] = NoFrame, to_free' = to_free
    PROVE  /\ g \in Frames
           /\ Holders(g)' = {<<s, p>>}
           /\ \A f \in Frames \ {g} : Holders(f)' = Holders(f) \ {<<s, p>>}
           /\ RefsExact'
<1> USE DEF IInv
<1>1. g \in Frames /\ Holders(g) = {} /\ g \in free /\ ref[g] = 0
  BY Occupied DEF TypeOK, Exchange
<1>2. \A u \in Spaces, q \in Pages : map'[u][q] = IF u = s /\ q = p THEN g ELSE map[u][q]
  BY DEF TypeOK, SetPte
<1>3. Holders(g)' = {<<s, p>>}
  <2>1. \A u \in Spaces, q \in Pages : <<u, q>> \in Holders(g)' <=> <<u, q>> = <<s, p>>
    BY <1>1, <1>2 DEF Holders
  <2> QED BY <2>1, HeldPoints
<1>4. \A f \in Frames \ {g} : Holders(f)' = Holders(f) \ {<<s, p>>}
  <2> SUFFICES ASSUME NEW f \in Frames \ {g} PROVE Holders(f)' = Holders(f) \ {<<s, p>>}
    OBVIOUS
  <2>1. \A u \in Spaces, q \in Pages :
           <<u, q>> \in Holders(f)' <=> <<u, q>> \in Holders(f) /\ <<u, q>> # <<s, p>>
    BY <1>2, FrameAssumption DEF Holders
  <2> QED BY <2>1, HeldPoints
<1>5. ref'[g] = Cardinality(Holders(g)') /\ (g \in free' <=> ref'[g] = 0)
  <2>1. Cardinality(Holders(g)') = 1
    BY <1>3, FS_Singleton
  <2>2. ref'[g] = 1 /\ g \notin free'
    BY <1>1 DEF Exchange, FreedBy
  <2> QED BY <2>1, <2>2
<1>6. ASSUME NEW f \in Frames \ {g}
      PROVE  ref'[f] = Cardinality(Holders(f)') /\ (f \in free' <=> ref'[f] = 0)
  <2>1. /\ IsFiniteSet(Holders(f)) /\ Cardinality(Holders(f)) \in Nat
        /\ <<s, p>> \in Holders(f) <=> map[s][p] = f
    BY HeldPoints, HoldersCount, FrameAssumption
  <2>2. Cardinality(Holders(f)') =
           IF map[s][p] = f THEN Cardinality(Holders(f)) - 1 ELSE Cardinality(Holders(f))
    BY <2>1, <1>4, FS_RemoveElement
  <2>3. Dropped(s, p)[f] = IF map[s][p] = f THEN 1 ELSE 0
    BY FrameAssumption DEF Dropped, None, One, TypeOK
  <2>4. ref'[f] = Released(ref[f], Dropped(s, p)[f])
    BY DEF Exchange
  <2>5. ref[f] = Cardinality(Holders(f)) /\ (f \in free <=> ref[f] = 0)
    BY DEF RefsExact
  <2>6. Cardinality(Holders(f)') \in Nat
    BY HoldersCount
  <2>7. ref'[f] = Cardinality(Holders(f)')
    BY <2>1, <2>2, <2>3, <2>4, <2>5, <2>6 DEF Released
  <2>8. f \in free' <=> f \in free \/ (Dropped(s, p)[f] > 0 /\ ref[f] > 0 /\ ref'[f] = 0)
    BY <2>4 DEF Exchange, FreedBy
  <2> QED BY <2>1, <2>2, <2>3, <2>4, <2>5, <2>7, <2>8 DEF Released
<1>7. ASSUME NEW f \in Frames
      PROVE  ref'[f] = Cardinality(Holders(f)') /\ (f \in free' <=> ref'[f] = 0)
  BY <1>5, <1>6
<1> QED BY <1>1, <1>3, <1>4, <1>7 DEF RefsExact
-----------------------------------------------------------------------------
(* Steps that leave tables and counts alone.                               *)

(* Counts and exclusive pages only depend on tables, rights and counts.    *)
LEMMA TablesKept ==
    ASSUME IInv, UNCHANGED <<map, perm, to_free, free, ref>>
    PROVE  RefsExact' /\ Exclusive'
<1>1. ASSUME NEW f \in Frames
      PROVE  ref'[f] = Cardinality(Holders(f)') /\ (f \in free' <=> ref'[f] = 0)
  <2>1. Holders(f)' = Holders(f)
    BY DEF Holders
  <2> QED BY <2>1 DEF IInv, RefsExact
<1>2. Exclusive'
  BY DEF IInv, Exclusive
<1> QED BY <1>1, <1>2 DEF RefsExact

(* Flushing P drops the translations of those pages and no others.         *)
LEMMA FlushPoints ==
    ASSUME TypeOK, NEW s \in Spaces, NEW P, Flush(s, P)
    PROVE  /\ tlb' \in [Spaces -> [Pages -> Entry \cup {NoEntry}]]
           /\ \A u \in Spaces, q \in Pages :
                 tlb'[u][q] = IF u = s /\ q \in P THEN NoEntry ELSE tlb[u][q]
<1> DEFINE row == [p \in Pages |-> IF p \in P THEN NoEntry ELSE tlb[s][p]]
<1>1. tlb \in [Spaces -> [Pages -> Entry \cup {NoEntry}]]
  BY DEF TypeOK
<1>2. tlb' = [tlb EXCEPT ![s] = row]
  BY DEF Flush
<1>3. row \in [Pages -> Entry \cup {NoEntry}]
  BY <1>1
<1>4. \A q \in Pages : row[q] = IF q \in P THEN NoEntry ELSE tlb[s][q]
  OBVIOUS
<1> HIDE DEF row
<1> QED BY <1>1, <1>2, <1>3, <1>4

(* A load fills the translation cache from the page table.                 *)
LEMMA UserLoadStep ==
    ASSUME IInv, NEW s \in live, NEW p \in Pages, UserLoad(s, p)
    PROVE  IInv'
<1> USE DEF IInv, UserLoad, pteVars, pmmVars, opVars
<1>1. TypeOK'
  BY DEF TypeOK, Entry, Rights
<1>2. Phases'
  BY DEF Phases
<1>3. Cached'
  BY DEF Cached, TypeOK, Entry, NoEntry
<1> QED BY <1>1, <1>2, <1>3, TablesKept

(* A store changes the contents of the frame the page table names.         *)
LEMMA UserStoreStep ==
    ASSUME IInv, NEW s \in live, NEW p \in Pages, NEW v \in Values, UserStore(s, p, v)
    PROVE  IInv'
<1>1. UNCHANGED <<live, map, perm, free, ref, at, page, to_free>>
  BY DEF UserStore, pteVars, opVars
<1>2. mem' \in [Frames -> Values]
  BY DEF IInv, TypeOK, UserStore
<1>3. /\ tlb' \in [Spaces -> [Pages -> Entry \cup {NoEntry}]]
      /\ \A u \in Spaces, q \in Pages :
            \/ tlb'[u][q] = tlb[u][q]
            \/ /\ u = s /\ q = p /\ at[s] = "user" /\ perm[s][p] = "rw"
               /\ tlb'[u][q] = [frame |-> map[s][p], write |-> "rw"]
  <2>1. CASE UNCHANGED tlb
    BY <2>1 DEF IInv, TypeOK
  <2>2. CASE /\ perm[s][p] = "rw"
             /\ tlb' = [tlb EXCEPT ![s][p] = [frame |-> map[s][p], write |-> "rw"]]
    <3>1. map[s][p] \in Frames
      BY <2>2 DEF IInv, TypeOK
    <3>2. [frame |-> map[s][p], write |-> "rw"] \in Entry
      BY <3>1 DEF Entry
    <3>3. tlb \in [Spaces -> [Pages -> Entry \cup {NoEntry}]] /\ s \in Spaces
      BY DEF IInv, TypeOK
    <3> QED BY <2>2, <3>2, <3>3 DEF UserStore
  <2> QED BY <2>1, <2>2 DEF UserStore
<1>4. TypeOK'
  BY <1>1, <1>2, <1>3 DEF IInv, TypeOK
<1>5. Phases'
  BY <1>1 DEF IInv, Phases
<1>6. Cached'
  BY <1>1, <1>3 DEF IInv, Cached
<1> QED BY <1>1, <1>4, <1>5, <1>6, TablesKept DEF IInv

(* The fault handler decides to grow the stack.                            *)
LEMMA StackFaultStep ==
    ASSUME IInv, NEW s \in live, NEW p \in Pages, StackFault(s, p)
    PROVE  IInv'
<1> USE DEF IInv, StackFault, Goto, pteVars, pmmVars
<1>1. TypeOK'
  BY DEF TypeOK
<1>2. Phases'
  BY DEF Phases, TypeOK
<1>3. Cached'
  BY DEF Cached, TypeOK
<1> QED BY <1>1, <1>2, <1>3, TablesKept

(* copyout stores through the physical map.                                *)
LEMMA CopyoutStoreStep ==
    ASSUME IInv, NEW s \in live, NEW v \in Values, CopyoutStore(s, v)
    PROVE  IInv'
<1> USE DEF IInv, CopyoutStore, Goto, pteVars
<1>1. TypeOK'
  BY DEF TypeOK
<1>2. Phases'
  BY DEF Phases, TypeOK
<1>3. Cached'
  BY DEF Cached, TypeOK
<1> QED BY <1>1, <1>2, <1>3, TablesKept

(* The flush between clearing the tables and releasing the frames.         *)
LEMMA UnmapFlushStep ==
    ASSUME IInv, NEW s \in live, UnmapFlush(s)
    PROVE  IInv'
<1> USE DEF IInv, UnmapFlush, Goto, pteVars, pmmVars
<1>1. /\ tlb' \in [Spaces -> [Pages -> Entry \cup {NoEntry}]]
      /\ \A u \in Spaces, q \in Pages :
            tlb'[u][q] = IF u = s THEN NoEntry ELSE tlb[u][q]
  BY FlushPoints DEF TypeOK
<1>2. TypeOK'
  BY <1>1 DEF TypeOK
<1>3. Phases'
  BY DEF Phases, TypeOK
<1>4. Cached'
  BY <1>1 DEF Cached, TypeOK
<1> QED BY <1>2, <1>3, <1>4, TablesKept

(* munmap returns to user code, and the loader enters it.                  *)
LEMMA ReturnStep ==
    ASSUME IInv, NEW s \in live, UnmapDone(s) \/ Start(s)
    PROVE  IInv'
<1>1. /\ at' = [at EXCEPT ![s] = "user"] /\ at[s] \in {"load", "release"}
      /\ to_free[s] = NoFrames
      /\ UNCHANGED <<live, map, perm, tlb, free, ref, mem, page, to_free>>
  BY DEF IInv, Phases, TypeOK, UnmapDone, Start, Goto, pteVars, pmmVars
<1> USE <1>1 DEF IInv
<1>2. TypeOK'
  BY DEF TypeOK
<1>3. Phases'
  BY DEF Phases, TypeOK
<1>4. Cached'
  BY DEF Cached, TypeOK
<1> QED BY <1>2, <1>3, <1>4, TablesKept

-----------------------------------------------------------------------------
(* Steps that map a page.                                                  *)

(* Mapping a fresh frame keeps the tables well formed.                     *)
LEMMA RemapTypes ==
    ASSUME IInv, NEW s \in Spaces, NEW p \in Pages, NEW g, NEW v \in Values, NEW r \in {"ro", "rw"},
           Exchange(g, v, Dropped(s, p)), SetPte(s, p, g, r), to_free[s][p] = NoFrame
    PROVE  /\ map' \in [Spaces -> [Pages -> Frames \cup {NoFrame}]]
           /\ perm' \in [Spaces -> [Pages -> Rights]]
           /\ \A u \in Spaces, q \in Pages :
                 /\ map'[u][q] = IF u = s /\ q = p THEN g ELSE map[u][q]
                 /\ perm'[u][q] = IF u = s /\ q = p THEN r ELSE perm[u][q]
           /\ free' \subseteq Frames
           /\ ref' \in [Frames -> 0 .. MaxRef]
           /\ mem' \in [Frames -> Values]
<1> USE DEF IInv
<1>1. g \in Frames
  BY DEF TypeOK, Exchange
<1>2. /\ map' \in [Spaces -> [Pages -> Frames \cup {NoFrame}]]
      /\ perm' \in [Spaces -> [Pages -> Rights]]
      /\ \A u \in Spaces, q \in Pages :
            /\ map'[u][q] = IF u = s /\ q = p THEN g ELSE map[u][q]
            /\ perm'[u][q] = IF u = s /\ q = p THEN r ELSE perm[u][q]
  BY <1>1 DEF TypeOK, SetPte, Rights
<1>3. free' \subseteq Frames /\ mem' \in [Frames -> Values]
  BY <1>1 DEF TypeOK, Exchange, FreedBy
<1>4. ref' \in [Frames -> 0 .. MaxRef]
  <2>1. 1 \in 0 .. MaxRef
    <3>1. {<<s, p>>} \in SUBSET (Spaces \X Pages)
      OBVIOUS
    <3>2. Cardinality({<<s, p>>}) = 1
      BY FS_Singleton
    <3> QED BY <3>1, <3>2, FewHolders, RefAssumption
  <2>2. \A f \in Frames : Dropped(s, p)[f] \in 0 .. 1
    BY DEF Dropped, None, One
  <2>3. \A f \in Frames : ref[f] \in 0 .. MaxRef
    BY DEF TypeOK
  <2>4. \A f \in Frames : Released(ref[f], Dropped(s, p)[f]) \in 0 .. MaxRef
    BY <2>2, <2>3, ReleasedBound
  <2> QED BY <2>1, <2>4 DEF Exchange
<1> QED BY <1>2, <1>3, <1>4

(* A page mapped with a fresh frame may be writable: nothing else names it. *)
LEMMA RemapAlone ==
    ASSUME IInv, NEW s \in Spaces, NEW p \in Pages, NEW g, NEW v \in Values, NEW r \in {"ro", "rw"},
           Exchange(g, v, Dropped(s, p)), SetPte(s, p, g, r),
           to_free[s][p] = NoFrame, to_free' = to_free
    PROVE  Exclusive'
<1> SUFFICES ASSUME NEW u \in Spaces, NEW q \in Pages, perm'[u][q] = "rw",
                    NEW a \in Spaces, NEW b \in Pages,
                    map'[a][b] = map'[u][q] \/ to_free[a][b] = map'[u][q]
             PROVE  a = u /\ b = q
  BY DEF Exclusive
<1>1. g \in free
  BY DEF Exchange
<1>2. \A x \in Spaces, y \in Pages :
         /\ map'[x][y] = IF x = s /\ y = p THEN g ELSE map[x][y]
         /\ perm'[x][y] = IF x = s /\ y = p THEN r ELSE perm[x][y]
  BY RemapTypes
<1>3. \A x \in Spaces, y \in Pages : map[x][y] # g /\ to_free[x][y] # g
  <2>1. g \in Frames /\ TypeOK /\ RefsExact
    BY <1>1 DEF IInv, TypeOK
  <2>2. \A x \in Spaces, y \in Pages :
           /\ map[x][y] # NoFrame => map[x][y] \notin free
           /\ to_free[x][y] # NoFrame => to_free[x][y] \notin free
    BY <2>1, Occupied
  <2> QED BY <1>1, <2>1, <2>2, FrameAssumption
<1>4. CASE u = s /\ q = p
  BY <1>2, <1>3, <1>4
<1>5. CASE ~(u = s /\ q = p)
  BY <1>2, <1>3, <1>5 DEF IInv, Exclusive
<1> QED BY <1>4, <1>5

Places == {"none", "load", "user", "grow", "store", "flush", "release"}

(* The thread of s goes to l with page x, and no other thread moves.       *)
Moves(s, l, x) ==
    /\ at' \in [Spaces -> Places] /\ page' \in [Spaces -> Pages \cup {NoPage}]
    /\ \A u \in Spaces : /\ at'[u] = IF u = s THEN l ELSE at[u]
                         /\ page'[u] = IF u = s THEN x ELSE page[u]

(* Every cached translation after the step was cached before it, and none  *)
(* of page p of space s is.                                                *)
Forgets(s, p) ==
    /\ tlb' \in [Spaces -> [Pages -> Entry \cup {NoEntry}]]
    /\ \A u \in Spaces, q \in Pages : tlb'[u][q] \in {tlb[u][q], NoEntry}
    /\ tlb'[s][p] = NoEntry

(* The loader, mmap, stack growth and the copy of a shared page: a fresh   *)
(* frame replaces whatever the page had.                                   *)
LEMMA RemapStep ==
    ASSUME IInv, NEW s \in live, NEW p \in Pages, NEW g, NEW v \in Values, NEW r \in {"ro", "rw"},
           Exchange(g, v, Dropped(s, p)), SetPte(s, p, g, r),
           at[s] \in {"user", "load", "grow"}, UNCHANGED <<live, to_free>>,
           NEW l \in {"user", "load", "store"}, NEW x, Moves(s, l, x), Forgets(s, p),
           l = "store" => x = p /\ r = "rw",
           l = "load" => at[s] = "load"
    PROVE  IInv'
<1>1. s \in Spaces /\ to_free[s] = NoFrames /\ to_free[s][p] = NoFrame
  <2>1. s \in Spaces
    BY DEF IInv, TypeOK
  <2>2. to_free[s] = NoFrames
    BY <2>1 DEF IInv, Phases
  <2> QED BY <2>1, <2>2 DEF NoFrames
<1>2. /\ map' \in [Spaces -> [Pages -> Frames \cup {NoFrame}]]
      /\ perm' \in [Spaces -> [Pages -> Rights]]
      /\ free' \subseteq Frames
      /\ ref' \in [Frames -> 0 .. MaxRef]
      /\ mem' \in [Frames -> Values]
  BY <1>1, RemapTypes
<1>3. \A u \in Spaces, q \in Pages :
         /\ map'[u][q] = IF u = s /\ q = p THEN g ELSE map[u][q]
         /\ perm'[u][q] = IF u = s /\ q = p THEN r ELSE perm[u][q]
  BY <1>1, RemapTypes
<1>4. g \in Frames /\ g # NoFrame
  BY FrameAssumption DEF IInv, TypeOK, Exchange
<1>5. TypeOK'
  <2>1. \A u \in Spaces, q \in Pages : map'[u][q] = NoFrame <=> perm'[u][q] = "none"
    BY <1>3, <1>4 DEF IInv, TypeOK
  <2> QED BY <1>2, <2>1 DEF IInv, TypeOK, Moves, Forgets, Places
<1>6. Phases'
  <2>1. ASSUME NEW u \in Spaces
        PROVE  /\ at'[u] = "none" <=> u \notin live
               /\ at'[u] \in {"grow", "store"} => page'[u] \in Pages
               /\ at'[u] \notin {"flush", "release"} => to_free[u] = NoFrames
    BY <1>1 DEF IInv, Phases, Moves
  <2>2. ASSUME NEW u \in Spaces, u \notin live
        PROVE  map'[u] = NoFrames
    <3>1. u # s /\ map[u] = NoFrames
      BY <2>2 DEF IInv, Phases
    <3>2. map'[u] = map[u]
      BY <1>1, <3>1 DEF IInv, TypeOK, SetPte
    <3> QED BY <3>1, <3>2
  <2>3. ASSUME NEW u \in Spaces, at'[u] = "store"
        PROVE  perm'[u][page'[u]] = "rw"
    BY <1>1, <1>3, <2>3 DEF IInv, Phases, Moves
  <2>4. ASSUME NEW u \in Spaces, NEW q \in Pages, to_free[u][q] # NoFrame
        PROVE  map'[u][q] = NoFrame
    BY <1>1, <1>3, <2>4 DEF IInv, Phases
  <2> QED BY <2>1, <2>2, <2>3, <2>4 DEF Phases
<1>7. Cached'
  <2> SUFFICES ASSUME NEW u \in Spaces, NEW q \in Pages, tlb'[u][q] # NoEntry
               PROVE  /\ at'[u] \in {"user", "grow", "store", "flush"}
                      /\ \/ /\ tlb'[u][q].frame = map'[u][q]
                            /\ tlb'[u][q].write = "rw" => perm'[u][q] = "rw"
                         \/ at'[u] = "flush" /\ tlb'[u][q].frame = to_free'[u][q]
    BY DEF Cached
  <2>1. tlb'[u][q] = tlb[u][q] /\ ~(u = s /\ q = p)
    BY DEF Forgets
  <2> QED BY <2>1, <1>1, <1>3 DEF IInv, Cached, Moves
<1>8. RefsExact' /\ Exclusive'
  BY <1>1, RemapCounts, RemapAlone
<1> QED BY <1>5, <1>6, <1>7, <1>8 DEF IInv

(* A copy-on-write page with one reference is made writable in place.      *)
LEMMA UnshareStep ==
    ASSUME IInv, NEW s \in live, NEW p \in Pages, perm[s][p] = "cow", Sole(map[s][p]),
           SetPte(s, p, map[s][p], "rw"), at[s] = "user",
           UNCHANGED <<live, free, ref, mem, to_free>>,
           NEW l \in {"user", "store"}, NEW x, Moves(s, l, x), Forgets(s, p),
           l = "store" => x = p
    PROVE  IInv'
<1> DEFINE f == map[s][p]
<1>1. s \in Spaces /\ f \in Frames /\ f # NoFrame
  BY DEF IInv, TypeOK
<1>2. /\ map' = map /\ perm' \in [Spaces -> [Pages -> Rights]]
      /\ \A u \in Spaces, q \in Pages : perm'[u][q] = IF u = s /\ q = p THEN "rw" ELSE perm[u][q]
  BY <1>1 DEF IInv, TypeOK, SetPte, Rights
<1>3. \A u \in Spaces, q \in Pages : map[u][q] = f \/ to_free[u][q] = f => u = s /\ q = p
  <2>1. <<s, p>> \in Holders(f)
    BY <1>1 DEF Holders
  <2>2. IsFiniteSet(Holders(f)) /\ Cardinality(Holders(f)) \in Nat /\ Cardinality(Holders(f)) <= 1
    BY <1>1, HoldersCount DEF IInv, RefsExact, Sole
  <2>3. Cardinality(Holders(f)) # 0
    BY <2>1, <2>2, FS_EmptySet
  <2>4. PICK h : Holders(f) = {h}
    <3>1. Cardinality(Holders(f)) = 1
      BY <2>2, <2>3
    <3> QED BY <2>2, <3>1, FS_Singleton
  <2>5. \A u \in Spaces, q \in Pages :
           map[u][q] = f \/ to_free[u][q] = f => <<u, q>> \in Holders(f)
    BY DEF Holders
  <2> QED BY <2>1, <2>4, <2>5
<1> HIDE DEF f
<1>4. TypeOK'
  <2>1. \A u \in Spaces, q \in Pages : map'[u][q] = NoFrame <=> perm'[u][q] = "none"
    BY <1>1, <1>2 DEF IInv, TypeOK, f
  <2> QED BY <1>2, <2>1 DEF IInv, TypeOK, Moves, Forgets, Places
<1>5. Phases'
  BY <1>1, <1>2 DEF IInv, Phases, Moves
<1>6. Cached'
  <2> SUFFICES ASSUME NEW u \in Spaces, NEW q \in Pages, tlb'[u][q] # NoEntry
               PROVE  /\ at'[u] \in {"user", "grow", "store", "flush"}
                      /\ \/ /\ tlb'[u][q].frame = map'[u][q]
                            /\ tlb'[u][q].write = "rw" => perm'[u][q] = "rw"
                         \/ at'[u] = "flush" /\ tlb'[u][q].frame = to_free'[u][q]
    BY DEF Cached
  <2>1. tlb'[u][q] = tlb[u][q] /\ ~(u = s /\ q = p)
    BY DEF Forgets
  <2> QED BY <2>1, <1>1, <1>2 DEF IInv, Cached, Moves
<1>7. ASSUME NEW e \in Frames
      PROVE  ref'[e] = Cardinality(Holders(e)') /\ (e \in free' <=> ref'[e] = 0)
  <2>1. Holders(e)' = Holders(e)
    BY <1>2 DEF Holders
  <2> QED BY <2>1 DEF IInv, RefsExact
<1>8. Exclusive'
  BY <1>1, <1>2, <1>3 DEF IInv, Exclusive, f
<1> QED BY <1>4, <1>5, <1>6, <1>7, <1>8 DEF IInv, RefsExact

(* The copy-on-write break, for a fault and for copyout.                   *)
LEMMA BreakCowStep ==
    ASSUME IInv, NEW s \in live, NEW p \in Pages, BreakCow(s, p), at[s] = "user",
           UNCHANGED <<live, to_free>>,
           NEW l \in {"user", "store"}, NEW x, Moves(s, l, x), l = "store" => x = p
    PROVE  IInv'
<1>1. s \in Spaces /\ map[s][p] \in Frames /\ map[s][p] # NoFrame /\ perm[s][p] = "cow"
  BY FrameAssumption DEF IInv, TypeOK, BreakCow
<1>2. Forgets(s, p)
  <2>1. Flush(s, {p}) /\ TypeOK
    BY DEF BreakCow, IInv
  <2> QED BY <1>1, <2>1, FlushPoints DEF Forgets
<1>3. CASE Sole(map[s][p]) /\ SetPte(s, p, map[s][p], "rw") /\ UNCHANGED pmmVars
  BY <1>1, <1>2, <1>3, UnshareStep DEF pmmVars
<1>4. ASSUME NEW g \in free, Exchange(g, mem[map[s][p]], One(map[s][p])), SetPte(s, p, g, "rw")
      PROVE  IInv'
  <2>1. mem[map[s][p]] \in Values
    BY <1>1 DEF IInv, TypeOK
  <2>2. Exchange(g, mem[map[s][p]], Dropped(s, p))
    BY <1>1, <1>4 DEF Dropped
  <2> QED BY <2>1, <2>2, <1>2, <1>4, RemapStep
<1> QED BY <1>3, <1>4 DEF BreakCow

(* A store to a shared page copies it, or takes it over.                   *)
LEMMA WriteFaultStep ==
    ASSUME IInv, NEW s \in live, NEW p \in Pages, WriteFault(s, p)
    PROVE  IInv'
<1>1. Moves(s, "user", page[s])
  BY DEF Moves, Places, WriteFault, opVars, IInv, TypeOK
<1> QED BY <1>1, BreakCowStep DEF WriteFault, opVars

(* Mapping a fresh page, for its four callers.                             *)
LEMMA MapFreshStep ==
    ASSUME IInv, NEW s \in live, NEW p \in Pages, NEW v \in Values, NEW r \in {"ro", "rw"},
           MapFresh(s, p, v, r),
           at[s] \in {"user", "load", "grow"}, UNCHANGED <<live, to_free>>,
           NEW l \in {"user", "load", "store"}, NEW x, Moves(s, l, x), Forgets(s, p),
           l = "store" => x = p /\ r = "rw",
           l = "load" => at[s] = "load"
    PROVE  IInv'
<1>1. PICK g \in free : Exchange(g, v, Dropped(s, p)) /\ SetPte(s, p, g, r)
  BY DEF MapFresh, Dropped
<1> QED BY <1>1, RemapStep

(* An entry that maps nothing has no cached translation, and a step that   *)
(* leaves the cache alone keeps it so.                                     *)
LEMMA NothingCached ==
    ASSUME IInv, NEW s \in Spaces, NEW p \in Pages, tlb' = tlb,
           map[s][p] = NoFrame \/ at[s] = "load", at[s] # "flush"
    PROVE  Forgets(s, p)
<1>1. tlb[s][p] \in Entry => tlb[s][p].frame # NoFrame
  BY FrameAssumption DEF Entry
<1>2. tlb[s][p] = NoEntry
  <2>1. tlb[s][p] \in Entry \cup {NoEntry}
    BY DEF IInv, TypeOK
  <2>2. tlb[s][p] # NoEntry => at[s] # "load" /\ tlb[s][p].frame = map[s][p]
    BY DEF IInv, Cached
  <2> QED BY <1>1, <2>1, <2>2
<1> QED BY <1>2 DEF Forgets, IInv, TypeOK

(* The stack grows by one page of zeros.                                   *)
LEMMA StackGrowStep ==
    ASSUME IInv, NEW s \in live, StackGrow(s)
    PROVE  IInv'
<1>1. s \in Spaces /\ page[s] \in Pages /\ at[s] = "grow"
  BY DEF IInv, TypeOK, Phases, StackGrow
<1>2. Moves(s, "user", NoPage)
  BY DEF Moves, Places, StackGrow, Goto, IInv, TypeOK
<1>3. Forgets(s, page[s])
  <2>1. Flush(s, {page[s]}) /\ TypeOK
    BY DEF StackGrow, IInv
  <2> QED BY <1>1, <2>1, FlushPoints DEF Forgets
<1> QED BY <1>1, <1>2, <1>3, MapFreshStep, ValueAssumption DEF StackGrow

(* mmap of an anonymous page.                                              *)
LEMMA MmapStep ==
    ASSUME IInv, NEW s \in live, NEW p \in Pages, Mmap(s, p)
    PROVE  IInv'
<1>1. s \in Spaces /\ at[s] = "user" /\ map[s][p] = NoFrame /\ tlb' = tlb
  BY DEF IInv, TypeOK, Mmap
<1>2. Moves(s, "user", page[s])
  BY DEF Moves, Places, Mmap, opVars, IInv, TypeOK
<1>3. Forgets(s, p)
  BY <1>1, NothingCached
<1> QED BY <1>1, <1>2, <1>3, MapFreshStep, ValueAssumption DEF Mmap, opVars

(* The loader maps a page of a segment.                                    *)
LEMMA LoadStep ==
    ASSUME IInv, NEW s \in live, NEW p \in Pages, NEW v \in Values, NEW r \in {"ro", "rw"},
           Load(s, p, r, v)
    PROVE  IInv'
<1>1. s \in Spaces /\ at[s] = "load" /\ tlb' = tlb
  BY DEF IInv, TypeOK, Load
<1>2. Moves(s, "load", page[s])
  BY DEF Moves, Places, Load, opVars, IInv, TypeOK
<1>3. Forgets(s, p)
  BY <1>1, NothingCached
<1> QED BY <1>1, <1>2, <1>3, MapFreshStep DEF Load, opVars

(* copyout finds, or makes, a page it may store to.                        *)
LEMMA CopyoutResolveStep ==
    ASSUME IInv, NEW s \in live, NEW p \in Pages, CopyoutResolve(s, p)
    PROVE  IInv'
<1>1. s \in Spaces /\ at[s] = "user" /\ UNCHANGED <<live, to_free>>
  BY DEF IInv, TypeOK, CopyoutResolve
<1>2. Moves(s, "store", p)
  BY DEF Moves, Places, CopyoutResolve, Goto, IInv, TypeOK
<1>3. CASE perm[s][p] = "rw" /\ UNCHANGED <<pteVars, tlb, pmmVars>>
  <2>1. UNCHANGED <<map, perm, tlb, free, ref, mem>>
    BY <1>3 DEF pteVars, pmmVars
  <2>2. TypeOK'
    BY <1>1, <1>2, <2>1 DEF IInv, TypeOK, Moves, Places
  <2>3. Phases'
    BY <1>1, <1>2, <1>3, <2>1 DEF IInv, Phases, Moves
  <2>4. Cached'
    BY <1>1, <1>2, <2>1 DEF IInv, Cached, Moves
  <2> QED BY <1>1, <2>1, <2>2, <2>3, <2>4, TablesKept DEF IInv
<1>4. CASE BreakCow(s, p)
  BY <1>1, <1>2, <1>4, BreakCowStep
<1>5. CASE perm[s][p] = "none" /\ MapFresh(s, p, Zero, "rw") /\ UNCHANGED tlb
  <2>1. map[s][p] = NoFrame
    BY <1>1, <1>5 DEF IInv, TypeOK
  <2>2. Forgets(s, p)
    BY <1>1, <1>5, <2>1, NothingCached
  <2> QED BY <1>1, <1>2, <1>5, <2>2, MapFreshStep, ValueAssumption
<1> QED BY <1>3, <1>4, <1>5 DEF CopyoutResolve

-----------------------------------------------------------------------------
(* Steps that take references away, and fork.                              *)

(* When every frame loses as many holders as references, counts stay exact *)
(* and a frame without holders is free.                                    *)
LEMMA ReleaseCounts ==
    ASSUME TypeOK, RefsExact, NEW drop, Release(drop),
           \A f \in Frames : /\ drop[f] \in Nat
                             /\ Cardinality(Holders(f)') = Cardinality(Holders(f)) - drop[f]
    PROVE  RefsExact' /\ ref' \in [Frames -> 0 .. MaxRef] /\ free' \subseteq Frames
<1>1. ASSUME NEW f \in Frames
      PROVE  ref'[f] = Cardinality(Holders(f)') /\ (f \in free' <=> ref'[f] = 0)
  <2>1. /\ drop[f] \in Nat
        /\ Cardinality(Holders(f)') = Cardinality(Holders(f)) - drop[f]
    OBVIOUS
  <2>2. Cardinality(Holders(f)') \in Nat /\ Cardinality(Holders(f)) \in Nat
    BY HoldersCount
  <2>3. ref[f] = Cardinality(Holders(f)) /\ (f \in free <=> ref[f] = 0)
    BY DEF RefsExact
  <2>4. ref'[f] = Released(ref[f], drop[f])
    BY DEF Release
  <2>5. ref'[f] = Cardinality(Holders(f)')
    BY <2>1, <2>2, <2>3, <2>4 DEF Released
  <2>6. f \in free' <=> f \in free \/ (drop[f] > 0 /\ ref[f] > 0 /\ ref'[f] = 0)
    BY <2>4 DEF Release, FreedBy
  <2> QED BY <2>1, <2>2, <2>3, <2>5, <2>6
<1>2. \A f \in Frames : ref[f] \in 0 .. MaxRef
  BY DEF TypeOK
<1>3. \A f \in Frames : Released(ref[f], drop[f]) \in 0 .. MaxRef
  BY <1>2, ReleasedBound
<1>4. ref' \in [Frames -> 0 .. MaxRef] /\ free' \subseteq Frames
  BY <1>3 DEF Release, FreedBy, TypeOK
<1> QED BY <1>1, <1>4 DEF RefsExact

(* munmap moves frames from the table to the releases that are due.        *)
LEMMA UnmapStep ==
    ASSUME IInv, NEW s \in live, NEW P \in SUBSET Pages, Unmap(s, P)
    PROVE  IInv'
<1>1. /\ s \in Spaces /\ at[s] = "user" /\ to_free[s] = NoFrames
      /\ UNCHANGED <<live, tlb, free, ref, mem, page>>
  BY DEF IInv, TypeOK, Phases, Unmap, pmmVars
<1>2. /\ to_free' \in [Spaces -> [Pages -> Frames \cup {NoFrame}]]
      /\ \A u \in Spaces, q \in Pages : to_free'[u][q] =
            IF u = s THEN IF q \in P THEN map[s][q] ELSE NoFrame ELSE to_free[u][q]
      /\ \A u \in Spaces : u # s => to_free'[u] = to_free[u]
  BY <1>1 DEF IInv, TypeOK, Unmap
<1>3. /\ map' \in [Spaces -> [Pages -> Frames \cup {NoFrame}]]
      /\ \A u \in Spaces, q \in Pages :
            map'[u][q] = IF u = s /\ q \in P THEN NoFrame ELSE map[u][q]
      /\ \A u \in Spaces : u # s => map'[u] = map[u]
  BY <1>1 DEF IInv, TypeOK, Unmap
<1>4. /\ perm' \in [Spaces -> [Pages -> Rights]]
      /\ \A u \in Spaces, q \in Pages :
            perm'[u][q] = IF u = s /\ q \in P THEN "none" ELSE perm[u][q]
  BY <1>1 DEF IInv, TypeOK, Unmap, Rights
<1>5. /\ at' \in [Spaces -> Places]
      /\ \A u \in Spaces : at'[u] = IF u = s THEN "flush" ELSE at[u]
  BY <1>1 DEF IInv, TypeOK, Unmap, Goto, Places
<1>6. \A q \in Pages : to_free[s][q] = NoFrame
  BY <1>1 DEF NoFrames
<1>7. TypeOK'
  <2>1. \A u \in Spaces, q \in Pages : map'[u][q] = NoFrame <=> perm'[u][q] = "none"
    BY <1>3, <1>4 DEF IInv, TypeOK
  <2> QED BY <1>1, <1>2, <1>3, <1>4, <1>5, <2>1 DEF IInv, TypeOK, Places
<1>8. Phases'
  <2>1. ASSUME NEW u \in Spaces, u # s
        PROVE  /\ at'[u] = "none" <=> u \notin live
               /\ u \notin live => map'[u] = NoFrames
               /\ at'[u] \in {"grow", "store"} => page[u] \in Pages
               /\ at'[u] = "store" => perm'[u][page[u]] = "rw"
               /\ at'[u] \notin {"flush", "release"} => to_free'[u] = NoFrames
               /\ \A q \in Pages : to_free'[u][q] # NoFrame => map'[u][q] = NoFrame
    <3>1. /\ at'[u] = at[u] /\ map'[u] = map[u] /\ to_free'[u] = to_free[u]
          /\ \A q \in Pages : perm'[u][q] = perm[u][q]
      BY <2>1, <1>2, <1>3, <1>4, <1>5
    <3> QED BY <3>1 DEF IInv, Phases
  <2>2. /\ at'[s] = "flush" /\ s \in live
        /\ \A q \in Pages : to_free'[s][q] # NoFrame => map'[s][q] = NoFrame
    BY <1>1, <1>2, <1>3, <1>5
  <2> QED BY <1>1, <2>1, <2>2 DEF Phases
<1>9. Cached'
  BY <1>1, <1>2, <1>3, <1>4, <1>5 DEF IInv, Cached
<1>10. ASSUME NEW f \in Frames
       PROVE  ref'[f] = Cardinality(Holders(f)') /\ (f \in free' <=> ref'[f] = 0)
  <2>1. \A u \in Spaces, q \in Pages :
           map'[u][q] = f \/ to_free'[u][q] = f <=> map[u][q] = f \/ to_free[u][q] = f
    BY <1>2, <1>3, <1>6, FrameAssumption
  <2>2. Holders(f)' = Holders(f)
    BY <2>1 DEF Holders
  <2> QED BY <1>1, <2>2 DEF IInv, RefsExact
<1>11. Exclusive'
  <2> SUFFICES ASSUME NEW u \in Spaces, NEW q \in Pages, perm'[u][q] = "rw",
                      NEW a \in Spaces, NEW b \in Pages,
                      map'[a][b] = map'[u][q] \/ to_free'[a][b] = map'[u][q]
               PROVE  a = u /\ b = q
    BY DEF Exclusive
  <2>1. /\ perm[u][q] = "rw" /\ ~(u = s /\ q \in P)
        /\ map'[u][q] = map[u][q] /\ map[u][q] # NoFrame
    BY <1>3, <1>4 DEF IInv, TypeOK
  <2>2. map[a][b] = map[u][q] \/ to_free[a][b] = map[u][q]
    BY <2>1, <1>2, <1>3
  <2> QED BY <2>1, <2>2 DEF IInv, Exclusive
<1> QED BY <1>7, <1>8, <1>9, <1>10, <1>11 DEF IInv, RefsExact

(* One frame of an unmap is released.                                      *)
LEMMA UnmapReleaseStep ==
    ASSUME IInv, NEW s \in live, NEW p \in Pages, UnmapRelease(s, p)
    PROVE  IInv'
<1> DEFINE e == to_free[s][p]
<1>1. /\ s \in Spaces /\ at[s] = "release" /\ e \in Frames /\ e # NoFrame
      /\ UNCHANGED <<live, map, perm, tlb, mem, at, page>>
  BY FrameAssumption DEF IInv, TypeOK, UnmapRelease, Release, pteVars
<1>2. /\ to_free' \in [Spaces -> [Pages -> Frames \cup {NoFrame}]]
      /\ \A u \in Spaces, q \in Pages :
            to_free'[u][q] = IF u = s /\ q = p THEN NoFrame ELSE to_free[u][q]
      /\ \A u \in Spaces : u # s => to_free'[u] = to_free[u]
  BY <1>1 DEF IInv, TypeOK, UnmapRelease
<1>3. map[s][p] = NoFrame
  BY <1>1 DEF IInv, Phases
<1>4. Release(One(e))
  BY DEF UnmapRelease
<1>5. ASSUME NEW f \in Frames
      PROVE  /\ One(e)[f] \in Nat
             /\ Cardinality(Holders(f)') = Cardinality(Holders(f)) - One(e)[f]
  <2>1. \A u \in Spaces, q \in Pages :
           <<u, q>> \in Holders(f)' <=> <<u, q>> \in Holders(f) /\ <<u, q>> # <<s, p>>
    BY <1>1, <1>2, <1>3, FrameAssumption DEF Holders
  <2>2. Holders(f)' = Holders(f) \ {<<s, p>>}
    BY <2>1, HeldPoints
  <2>3. <<s, p>> \in Holders(f) <=> f = e
    BY <1>1, <1>3, FrameAssumption DEF Holders
  <2>4. IsFiniteSet(Holders(f)) /\ Cardinality(Holders(f)) \in Nat
    BY HoldersCount
  <2>5. Cardinality(Holders(f)') = IF f = e THEN Cardinality(Holders(f)) - 1 ELSE Cardinality(Holders(f))
    BY <2>2, <2>3, <2>4, FS_RemoveElement
  <2> QED BY <2>4, <2>5 DEF One
<1>6. RefsExact' /\ ref' \in [Frames -> 0 .. MaxRef] /\ free' \subseteq Frames
  BY <1>4, <1>5, ReleaseCounts DEF IInv
<1>7. TypeOK'
  BY <1>1, <1>2, <1>6 DEF IInv, TypeOK
<1>8. Phases'
  BY <1>1, <1>2 DEF IInv, Phases
<1>9. Cached'
  BY <1>1, <1>2 DEF IInv, Cached
<1>10. Exclusive'
  BY <1>1, <1>2 DEF IInv, Exclusive, TypeOK
<1> QED BY <1>6, <1>7, <1>8, <1>9, <1>10 DEF IInv

(* A destroyed space gives back exactly the references it had.             *)
LEMMA DestroyCounts ==
    ASSUME IInv, NEW s \in live, Destroy(s), to_free[s] = NoFrames, to_free' = to_free
    PROVE  /\ RefsExact' /\ ref' \in [Frames -> 0 .. MaxRef] /\ free' \subseteq Frames
           /\ map' \in [Spaces -> [Pages -> Frames \cup {NoFrame}]]
           /\ \A u \in Spaces : map'[u] = IF u = s THEN NoFrames ELSE map[u]
           /\ perm' \in [Spaces -> [Pages -> Rights]]
           /\ \A u \in Spaces, q \in Pages : perm'[u][q] = IF u = s THEN "none" ELSE perm[u][q]
           /\ tlb' \in [Spaces -> [Pages -> Entry \cup {NoEntry}]]
           /\ \A u \in Spaces, q \in Pages : tlb'[u][q] = IF u = s THEN NoEntry ELSE tlb[u][q]
           /\ mem' = mem
<1>1. s \in Spaces /\ Release(AllOf(s)) /\ mem' = mem
  BY DEF IInv, TypeOK, Destroy, Release
<1>2. /\ map' \in [Spaces -> [Pages -> Frames \cup {NoFrame}]]
      /\ \A u \in Spaces : map'[u] = IF u = s THEN NoFrames ELSE map[u]
  BY <1>1 DEF IInv, TypeOK, Destroy, NoFrames
<1>3. /\ perm' \in [Spaces -> [Pages -> Rights]]
      /\ \A u \in Spaces, q \in Pages : perm'[u][q] = IF u = s THEN "none" ELSE perm[u][q]
  BY <1>1 DEF IInv, TypeOK, Destroy, Rights
<1>4. /\ tlb' \in [Spaces -> [Pages -> Entry \cup {NoEntry}]]
      /\ \A u \in Spaces, q \in Pages : tlb'[u][q] = IF u = s THEN NoEntry ELSE tlb[u][q]
  <2>1. Flush(s, Pages) /\ TypeOK
    BY DEF Destroy, IInv
  <2> QED BY <1>1, <2>1, FlushPoints
<1>5. ASSUME NEW f \in Frames
      PROVE  /\ AllOf(s)[f] \in Nat
             /\ Cardinality(Holders(f)') = Cardinality(Holders(f)) - AllOf(s)[f]
  <2> DEFINE M == {p \in Pages : map[s][p] = f}
  <2>1. IsFiniteSet(M)
    BY PageAssumption, FS_Subset
  <2>2. AllOf(s)[f] = Cardinality(M)
    BY DEF AllOf, Mappings
  <2>3. IsFiniteSet({s} \X M) /\ Cardinality({s} \X M) = Cardinality(M) /\ Cardinality(M) \in Nat
    BY <2>1, ColumnCount
  <2>4. \A u \in Spaces, q \in Pages :
           <<u, q>> \in Holders(f)' <=> <<u, q>> \in Holders(f) /\ <<u, q>> \notin {s} \X M
    BY <1>2, FrameAssumption DEF Holders, NoFrames
  <2>5. Holders(f)' = Holders(f) \ ({s} \X M)
    BY <2>4, HeldPoints
  <2>6. Holders(f) \cap ({s} \X M) = {s} \X M
    BY <1>1 DEF Holders
  <2>7. IsFiniteSet(Holders(f))
    BY HoldersCount
  <2>8. Cardinality(Holders(f)') = Cardinality(Holders(f)) - Cardinality({s} \X M)
    BY <2>5, <2>6, <2>7, FS_Difference
  <2> QED BY <2>2, <2>3, <2>8
<1>6. RefsExact' /\ ref' \in [Frames -> 0 .. MaxRef] /\ free' \subseteq Frames
  BY <1>1, <1>5, ReleaseCounts DEF IInv
<1> QED BY <1>1, <1>2, <1>3, <1>4, <1>6

(* exec and exit: everything the space had is gone.                        *)
LEMMA DestroyStep ==
    ASSUME IInv, NEW s \in live, Destroy(s), to_free[s] = NoFrames, to_free' = to_free,
           NEW l \in {"load", "none"}, NEW x, Moves(s, l, x),
           live' = IF l = "none" THEN live \ {s} ELSE live
    PROVE  IInv'
<1>1. /\ s \in Spaces /\ mem' = mem
      /\ RefsExact' /\ ref' \in [Frames -> 0 .. MaxRef] /\ free' \subseteq Frames
  BY DestroyCounts DEF IInv, TypeOK
<1>2. /\ map' \in [Spaces -> [Pages -> Frames \cup {NoFrame}]]
      /\ \A u \in Spaces : map'[u] = IF u = s THEN NoFrames ELSE map[u]
      /\ perm' \in [Spaces -> [Pages -> Rights]]
      /\ \A u \in Spaces, q \in Pages : perm'[u][q] = IF u = s THEN "none" ELSE perm[u][q]
  BY DestroyCounts
<1>3. /\ tlb' \in [Spaces -> [Pages -> Entry \cup {NoEntry}]]
      /\ \A u \in Spaces, q \in Pages : tlb'[u][q] = IF u = s THEN NoEntry ELSE tlb[u][q]
  BY DestroyCounts
<1>4. TypeOK'
  <2>1. \A u \in Spaces, q \in Pages : map'[u][q] = NoFrame <=> perm'[u][q] = "none"
    BY <1>2 DEF IInv, TypeOK, NoFrames
  <2> QED BY <1>1, <1>2, <1>3, <2>1 DEF IInv, TypeOK, Moves, Places
<1>5. Phases'
  <2>1. ASSUME NEW u \in Spaces, u # s
        PROVE  /\ at'[u] = at[u] /\ page'[u] = page[u] /\ (u \in live' <=> u \in live)
               /\ map'[u] = map[u] /\ \A q \in Pages : perm'[u][q] = perm[u][q]
    BY <1>2, <2>1 DEF Moves
  <2>2. /\ at'[s] = l /\ map'[s] = NoFrames /\ (s \in live' <=> l # "none")
        /\ \A q \in Pages : map'[s][q] = NoFrame
    BY <1>1, <1>2 DEF Moves, NoFrames
  <2>3. ASSUME NEW u \in Spaces, u # s
        PROVE  /\ at'[u] = "none" <=> u \notin live'
               /\ u \notin live' => map'[u] = NoFrames
               /\ at'[u] \in {"grow", "store"} => page'[u] \in Pages
               /\ at'[u] = "store" => perm'[u][page'[u]] = "rw"
               /\ at'[u] \notin {"flush", "release"} => to_free'[u] = NoFrames
               /\ \A q \in Pages : to_free'[u][q] # NoFrame => map'[u][q] = NoFrame
    BY <2>1, <2>3 DEF IInv, Phases
  <2> QED BY <2>2, <2>3 DEF Phases
<1>6. Cached'
  <2> SUFFICES ASSUME NEW u \in Spaces, NEW q \in Pages, tlb'[u][q] # NoEntry
               PROVE  /\ at'[u] \in {"user", "grow", "store", "flush"}
                      /\ \/ /\ tlb'[u][q].frame = map'[u][q]
                            /\ tlb'[u][q].write = "rw" => perm'[u][q] = "rw"
                         \/ at'[u] = "flush" /\ tlb'[u][q].frame = to_free'[u][q]
    BY DEF Cached
  <2>1. /\ tlb'[u][q] = tlb[u][q] /\ map'[u][q] = map[u][q] /\ perm'[u][q] = perm[u][q]
        /\ at'[u] = at[u]
    BY <1>2, <1>3 DEF Moves
  <2> QED BY <2>1 DEF IInv, Cached
<1>7. Exclusive'
  <2> SUFFICES ASSUME NEW u \in Spaces, NEW q \in Pages, perm'[u][q] = "rw",
                      NEW a \in Spaces, NEW b \in Pages,
                      map'[a][b] = map'[u][q] \/ to_free[a][b] = map'[u][q]
               PROVE  a = u /\ b = q
    BY DEF Exclusive
  <2>1. perm[u][q] = "rw" /\ map'[u] = map[u] /\ map[u][q] # NoFrame
    BY <1>2 DEF IInv, TypeOK
  <2>2. map[a][b] = map[u][q] \/ to_free[a][b] = map[u][q]
    BY <2>1, <1>2 DEF NoFrames
  <2> QED BY <2>1, <2>2 DEF IInv, Exclusive
<1> QED BY <1>1, <1>4, <1>5, <1>6, <1>7 DEF IInv

(* execve throws the old image away.                                       *)
LEMMA ExecStep ==
    ASSUME IInv, NEW s \in live, Exec(s)
    PROVE  IInv'
<1>1. Moves(s, "load", page[s])
  BY DEF Moves, Places, Exec, Goto, IInv, TypeOK
<1>2. to_free[s] = NoFrames
  BY DEF IInv, TypeOK, Phases, Exec
<1> QED BY <1>1, <1>2, DestroyStep DEF Exec

(* A process ends, from user code, the loader, or a fault without memory.  *)
LEMMA ExitStep ==
    ASSUME IInv, NEW s \in live, Exit(s)
    PROVE  IInv'
<1>1. Moves(s, "none", NoPage)
  BY DEF Moves, Places, Exit, Goto, IInv, TypeOK
<1>2. to_free[s] = NoFrames
  BY DEF IInv, TypeOK, Phases, Exit
<1> QED BY <1>1, <1>2, DestroyStep DEF Exit

(* fork shares every frame the child could get a table for; both sides     *)
(* lose the right to write it.                                             *)
LEMMA ForkStep ==
    ASSUME IInv, NEW s \in live, NEW c \in Spaces, NEW got \in SUBSET Pages, Fork(s, c, got)
    PROVE  IInv'
<1>1. /\ s \in Spaces /\ c # s /\ c \notin live /\ at[s] = "user"
      /\ map[c] = NoFrames /\ to_free[c] = NoFrames /\ to_free[s] = NoFrames
      /\ live' = live \cup {c} /\ UNCHANGED <<free, mem, page, to_free>>
  BY DEF IInv, TypeOK, Phases, Fork
<1>2. /\ map' \in [Spaces -> [Pages -> Frames \cup {NoFrame}]]
      /\ \A u \in Spaces, q \in Pages :
            map'[u][q] = IF u = c THEN IF q \in got THEN map[s][q] ELSE NoFrame ELSE map[u][q]
      /\ \A u \in Spaces : u # c => map'[u] = map[u]
  BY <1>1 DEF IInv, TypeOK, Fork
<1>3. /\ perm' \in [Spaces -> [Pages -> Rights]]
      /\ \A u \in Spaces, q \in Pages :
            perm'[u][q] = IF u = c THEN IF q \in got THEN Shared(perm[s][q]) ELSE "none"
                          ELSE IF u = s THEN Shared(perm[s][q]) ELSE perm[u][q]
  <2> DEFINE own == [p \in Pages |-> Shared(perm[s][p])]
             child == [p \in Pages |-> IF p \in got THEN Shared(perm[s][p]) ELSE "none"]
  <2>1. perm \in [Spaces -> [Pages -> Rights]]
    BY DEF IInv, TypeOK
  <2>2. \A q \in Pages : Shared(perm[s][q]) \in Rights /\ "none" \in Rights
    BY <1>1, <2>1 DEF Shared, Rights
  <2>3. own \in [Pages -> Rights] /\ child \in [Pages -> Rights]
    BY <2>2
  <2>4. perm' = [perm EXCEPT ![s] = own, ![c] = child]
    BY DEF Fork
  <2>5. \A q \in Pages : /\ own[q] = Shared(perm[s][q])
                         /\ child[q] = IF q \in got THEN Shared(perm[s][q]) ELSE "none"
    OBVIOUS
  <2> HIDE DEF own, child
  <2> QED BY <1>1, <2>1, <2>3, <2>4, <2>5
<1>4. /\ tlb' \in [Spaces -> [Pages -> Entry \cup {NoEntry}]]
      /\ \A u \in Spaces, q \in Pages : tlb'[u][q] = IF u = s THEN NoEntry ELSE tlb[u][q]
  <2>1. Flush(s, Pages) /\ TypeOK
    BY DEF Fork, IInv
  <2> QED BY <1>1, <2>1, FlushPoints
<1>5. /\ at' \in [Spaces -> Places]
      /\ \A u \in Spaces : at'[u] = IF u = c THEN "user" ELSE at[u]
  BY DEF IInv, TypeOK, Fork, Goto, Places
<1>6. \A q \in Pages : map[c][q] = NoFrame /\ to_free[c][q] = NoFrame
  BY <1>1 DEF NoFrames
<1>7. ASSUME NEW f \in Frames
      PROVE  /\ ref'[f] = Cardinality(Holders(f)') /\ (f \in free' <=> ref'[f] = 0)
             /\ ref'[f] \in 0 .. MaxRef
  <2> DEFINE G == {p \in got : map[s][p] = f}
  <2>1. IsFiniteSet(G)
    BY PageAssumption, FS_Subset
  <2>2. IsFiniteSet({c} \X G) /\ Cardinality({c} \X G) = Cardinality(G) /\ Cardinality(G) \in Nat
    BY <2>1, ColumnCount
  <2>3. Taken(s, got, f) = Cardinality(G)
    BY DEF Taken
  <2>4. \A u \in Spaces, q \in Pages :
           <<u, q>> \in Holders(f)' <=> <<u, q>> \in Holders(f) \/ <<u, q>> \in {c} \X G
    BY <1>1, <1>2, <1>6, FrameAssumption DEF Holders
  <2>5. {c} \X G \subseteq Spaces \X Pages
    OBVIOUS
  <2>6. Holders(f)' = Holders(f) \cup ({c} \X G)
    <3> HIDE DEF G
    <3> QED BY <2>4, <2>5, HeldPoints
  <2>7. Holders(f) \cap ({c} \X G) = {}
    BY <1>6, FrameAssumption DEF Holders
  <2>8. /\ IsFiniteSet(Holders(f)) /\ Cardinality(Holders(f)) \in Nat
        /\ Cardinality(Holders(f)') \in 0 .. MaxRef
    BY HoldersCount
  <2>9. Cardinality(Holders(f)') = Cardinality(Holders(f)) + Cardinality(G) - Cardinality({})
    <3> HIDE DEF G
    <3> QED BY <2>2, <2>6, <2>7, <2>8, FS_Union
  <2>10. Cardinality({}) = 0
    BY FS_EmptySet
  <2>11. ref'[f] = Retained(ref[f], Cardinality(G))
    BY <2>3 DEF Fork
  <2>12. ref[f] = Cardinality(Holders(f)) /\ (f \in free <=> ref[f] = 0)
    BY DEF IInv, RefsExact
  <2>13. ref'[f] = Cardinality(Holders(f)') /\ ref'[f] = ref[f] + Cardinality(G)
    <3> HIDE DEF G
    <3> QED BY <2>2, <2>8, <2>9, <2>10, <2>11, <2>12, RefAssumption DEF Retained
  <2>14. f \in free => G = {}
    <3>1. \A q \in Pages : map[s][q] # NoFrame => map[s][q] \notin free
      BY <1>1, Occupied DEF IInv
    <3> QED BY <3>1, FrameAssumption
  <2>15. f \in free => Cardinality(G) = 0
    BY <2>14, <2>10
  <2> HIDE DEF G
  <2> QED BY <1>1, <2>2, <2>8, <2>12, <2>13, <2>15
<1>8. TypeOK'
  <2>1. \A u \in Spaces, q \in Pages : map'[u][q] = NoFrame <=> perm'[u][q] = "none"
    <3>1. \A q \in Pages : map[s][q] = NoFrame <=> Shared(perm[s][q]) = "none"
      BY <1>1 DEF IInv, TypeOK, Shared
    <3>2. \A u \in Spaces, q \in Pages : map[u][q] = NoFrame <=> perm[u][q] = "none"
      BY DEF IInv, TypeOK
    <3> QED BY <1>1, <1>2, <1>3, <3>1, <3>2
  <2>2. ref' \in [Frames -> 0 .. MaxRef]
    BY <1>7 DEF Fork
  <2> QED BY <1>1, <1>2, <1>3, <1>4, <1>5, <2>1, <2>2 DEF IInv, TypeOK, Places
<1>9. Phases'
  <2>1. ASSUME NEW u \in Spaces, u # c
        PROVE  /\ at'[u] = "none" <=> u \notin live'
               /\ u \notin live' => map'[u] = NoFrames
               /\ at'[u] \in {"grow", "store"} => page[u] \in Pages
               /\ at'[u] \notin {"flush", "release"} => to_free'[u] = NoFrames
               /\ \A q \in Pages : to_free'[u][q] # NoFrame => map'[u][q] = NoFrame
    BY <1>1, <1>2, <1>5, <2>1 DEF IInv, Phases
  <2>2. ASSUME NEW u \in Spaces, u # c, at'[u] = "store"
        PROVE  perm'[u][page[u]] = "rw"
    <3>1. u # s /\ at[u] = "store" /\ page[u] \in Pages
      BY <1>1, <1>5, <2>2 DEF IInv, Phases
    <3> QED BY <1>3, <2>2, <3>1 DEF IInv, Phases
  <2>3. /\ at'[c] = "user" /\ c \in live' /\ to_free'[c] = NoFrames
        /\ \A q \in Pages : to_free'[c][q] = NoFrame
    BY <1>1, <1>5, <1>6
  <2> QED BY <1>1, <2>1, <2>2, <2>3 DEF Phases
<1>10. Cached'
  <2> SUFFICES ASSUME NEW u \in Spaces, NEW q \in Pages, tlb'[u][q] # NoEntry
               PROVE  /\ at'[u] \in {"user", "grow", "store", "flush"}
                      /\ \/ /\ tlb'[u][q].frame = map'[u][q]
                            /\ tlb'[u][q].write = "rw" => perm'[u][q] = "rw"
                         \/ at'[u] = "flush" /\ tlb'[u][q].frame = to_free'[u][q]
    BY DEF Cached
  <2>1. u # s /\ tlb'[u][q] = tlb[u][q]
    BY <1>4
  <2>2. u # c
    <3>1. at[c] = "none"
      BY <1>1 DEF IInv, Phases
    <3> QED BY <2>1, <3>1 DEF IInv, Cached
  <2>3. map'[u][q] = map[u][q] /\ perm'[u][q] = perm[u][q] /\ at'[u] = at[u]
    BY <1>2, <1>3, <1>5, <2>1, <2>2
  <2> QED BY <1>1, <2>1, <2>3 DEF IInv, Cached
<1>11. Exclusive'
  <2> SUFFICES ASSUME NEW u \in Spaces, NEW q \in Pages, perm'[u][q] = "rw",
                      NEW a \in Spaces, NEW b \in Pages,
                      map'[a][b] = map'[u][q] \/ to_free'[a][b] = map'[u][q]
               PROVE  a = u /\ b = q
    BY DEF Exclusive
  <2>1. u # s /\ u # c /\ perm[u][q] = "rw" /\ map'[u][q] = map[u][q] /\ map[u][q] # NoFrame
    <3>1. \A y \in Pages : Shared(perm[s][y]) # "rw"
      BY DEF Shared
    <3>2. u # s /\ u # c /\ perm[u][q] = "rw"
      BY <1>3, <3>1
    <3> QED BY <1>2, <3>2 DEF IInv, TypeOK
  <2>2. \A x \in Spaces, y \in Pages :
           map[x][y] = map[u][q] \/ to_free[x][y] = map[u][q] => x = u /\ y = q
    BY <2>1 DEF IInv, Exclusive
  <2> QED BY <1>1, <1>2, <2>1, <2>2
<1> QED BY <1>7, <1>8, <1>9, <1>10, <1>11 DEF IInv, RefsExact

-----------------------------------------------------------------------------
(* The theorems.                                                           *)

(* Initially nothing is mapped, cached or due for release.                 *)
LEMMA InitInv == Init => IInv
<1> SUFFICES ASSUME Init PROVE IInv
  OBVIOUS
<1>1. /\ \A s \in Spaces : map[s] = NoFrames /\ to_free[s] = NoFrames
      /\ \A s \in Spaces, p \in Pages : map[s][p] = NoFrame /\ to_free[s][p] = NoFrame
  BY DEF Init, NoFrames
<1>2. TypeOK
  <2>1. mem \in [Frames -> Values]
    BY DEF Init
  <2>2. 0 \in 0 .. MaxRef
    BY RefAssumption
  <2> QED BY <2>1, <2>2, SpaceAssumption DEF Init, TypeOK, NoFrames, None, Rights
<1>3. Phases
  BY <1>1 DEF Init, Phases
<1>4. Cached
  BY DEF Init, Cached
<1>5. RefsExact
  <2> SUFFICES ASSUME NEW f \in Frames
               PROVE  ref[f] = Cardinality(Holders(f)) /\ (f \in free <=> ref[f] = 0)
    BY DEF RefsExact
  <2>1. Holders(f) = {}
    BY <1>1, FrameAssumption DEF Holders
  <2> QED BY <2>1, FS_EmptySet DEF Init, None
<1>6. Exclusive
  BY DEF Init, Exclusive
<1> QED BY <1>2, <1>3, <1>4, <1>5, <1>6 DEF IInv

(* Every step of every process keeps the invariant.                        *)
LEMMA NextInv == IInv /\ [Next]_vars => IInv'
<1> SUFFICES ASSUME IInv, [Next]_vars PROVE IInv'
  OBVIOUS
<1>1. CASE UNCHANGED vars
  <2> USE <1>1 DEF vars, pteVars, pmmVars, opVars
  <2>1. TypeOK' /\ Phases' /\ Cached'
    BY DEF IInv, TypeOK, Phases, Cached
  <2> QED BY <2>1, TablesKept DEF IInv
<1>2. CASE Next
  <2>1. PICK s \in live : SpaceStep(s)
    BY <1>2 DEF Next
  <2>2. CASE \E P \in SUBSET Pages : Unmap(s, P)
    BY <2>2, UnmapStep
  <2>3. CASE UnmapDone(s) \/ Exit(s)
    BY <2>3, ReturnStep, ExitStep
  <2>4. CASE Running(s)
    <3>1. ASSUME NEW p \in Pages,
                 \/ UserLoad(s, p) \/ WriteFault(s, p) \/ StackFault(s, p)
                 \/ CopyoutResolve(s, p) \/ Mmap(s, p) \/ UnmapRelease(s, p)
          PROVE  IInv'
      BY <3>1, UserLoadStep, WriteFaultStep, StackFaultStep, CopyoutResolveStep, MmapStep,
         UnmapReleaseStep
    <3>2. ASSUME NEW p \in Pages, NEW v \in Values,
                 UserStore(s, p, v) \/ \E r \in {"ro", "rw"} : Load(s, p, r, v)
          PROVE  IInv'
      BY <3>2, UserStoreStep, LoadStep
    <3>3. ASSUME NEW v \in Values, CopyoutStore(s, v) PROVE IInv'
      BY <3>3, CopyoutStoreStep
    <3>4. ASSUME NEW c \in Spaces, NEW got \in SUBSET Pages, Fork(s, c, got) PROVE IInv'
      BY <3>4, ForkStep
    <3>5. CASE StackGrow(s) \/ UnmapFlush(s) \/ Exec(s) \/ Start(s)
      BY <3>5, StackGrowStep, UnmapFlushStep, ExecStep, ReturnStep
    <3> QED BY <2>4, <3>1, <3>2, <3>3, <3>4, <3>5 DEF Running
  <2> QED BY <2>1, <2>2, <2>3, <2>4 DEF SpaceStep
<1> QED BY <1>1, <1>2

(* The inductive invariant holds in every reachable state.                 *)
THEOREM Invariance == Spec => []IInv
BY InitInv, NextInv, PTL DEF Spec

(* Every variable of the memory model keeps its type: a 16-bit count never *)
(* reaches its limit, an entry has rights exactly when it maps a frame.    *)
THEOREM TypeCorrect == Spec => []TypeOK
<1>1. IInv => TypeOK
  BY DEF IInv
<1> QED BY <1>1, Invariance, PTL

(* A frame's count is the number of entries and due releases that name it, *)
(* and the allocator has exactly the frames nobody names: fork, copy,      *)
(* unmap, exec and exit neither leak a frame nor free one in use.          *)
THEOREM CountsExact == Spec => []RefsExact
<1>1. IInv => RefsExact
  BY DEF IInv
<1> QED BY <1>1, Invariance, PTL

(* A page a process may store to shares its frame with nobody.             *)
THEOREM WritableExclusive == Spec => []WritableAlone
<1>1. IInv => WritableAlone
  <2> SUFFICES ASSUME IInv, NEW s \in Spaces, NEW p \in Pages, perm[s][p] = "rw"
               PROVE  Holders(map[s][p]) = {<<s, p>>}
    BY DEF WritableAlone
  <2>1. \A u \in Spaces, q \in Pages : <<u, q>> \in Holders(map[s][p]) <=> <<u, q>> = <<s, p>>
    BY DEF IInv, Exclusive, Holders
  <2> QED BY <2>1, HeldPoints
<1> QED BY <1>1, Invariance, PTL

(* No cached translation outlives its frame, and user code runs with       *)
(* translations the page table still grants.                               *)
THEOREM NoStaleTranslation == Spec => []TranslationsFresh
<1>1. IInv => TranslationsFresh
  <2> SUFFICES ASSUME IInv, NEW s \in Spaces, NEW p \in Pages, tlb[s][p] # NoEntry
               PROVE  /\ tlb[s][p].frame \notin free
                      /\ at[s] = "user" => /\ tlb[s][p].frame = map[s][p]
                                           /\ tlb[s][p].write = "rw" => perm[s][p] = "rw"
    BY DEF TranslationsFresh
  <2>1. tlb[s][p].frame \in Frames
    BY DEF IInv, TypeOK, Entry
  <2>2. \/ /\ tlb[s][p].frame = map[s][p]
           /\ tlb[s][p].write = "rw" => perm[s][p] = "rw"
        \/ at[s] = "flush" /\ tlb[s][p].frame = to_free[s][p]
    BY DEF IInv, Cached
  <2>3. tlb[s][p].frame \notin free
    BY <2>1, <2>2, Occupied, FrameAssumption DEF IInv
  <2> QED BY <2>2, <2>3
<1> QED BY <1>1, Invariance, PTL

=============================================================================
