------------------------ MODULE PrivateMemoryProofs ------------------------
(***************************************************************************)
(* Copy-on-write on shared frames implements private memory: every step of *)
(* CopyOnWrite is a step of AddressSpaces, or changes nothing a process    *)
(* can see.                                                                *)
(***************************************************************************)
EXTENDS CopyOnWriteProofs

Loading == {s \in live : at[s] = "load"}

(* What a process sees of one page.                                        *)
Seen(m, c, s, p) == IF m[s][p] = NoFrame THEN Unmapped ELSE c[m[s][p]]

(* Visible, now and after a step, page by page.                            *)
LEMMA VisiblePoints ==
    /\ Visible = [u \in Spaces |-> [q \in Pages |-> Seen(map, mem, u, q)]]
    /\ Visible' = [u \in Spaces |-> [q \in Pages |-> Seen(map', mem', u, q)]]
BY DEF Visible, Seen

(* If page p of space s shows v after the step and no other page changes,  *)
(* what the processes see changed in that one place.                       *)
LEMMA OnePage ==
    ASSUME NEW s \in Spaces, NEW p \in Pages, NEW v,
           \A u \in Spaces, q \in Pages :
              Seen(map', mem', u, q) = IF u = s /\ q = p THEN v ELSE Seen(map, mem, u, q)
    PROVE  Visible' = [Visible EXCEPT ![s][p] = v]
<1> DEFINE W == [u \in Spaces |-> [q \in Pages |-> Seen(map, mem, u, q)]]
           row == [q \in Pages |-> IF q = p THEN v ELSE Seen(map, mem, s, q)]
<1>1. [W EXCEPT ![s][p] = v] = [W EXCEPT ![s] = row]
  <2>1. [W[s] EXCEPT ![p] = v] = row
    OBVIOUS
  <2> QED BY <2>1
<1>2. Visible' = [W EXCEPT ![s] = row]
  <2>1. \A u \in Spaces : [q \in Pages |-> Seen(map', mem', u, q)] =
           IF u = s THEN row ELSE [q \in Pages |-> Seen(map, mem, u, q)]
    OBVIOUS
  <2> HIDE DEF row
  <2> QED BY <2>1, VisiblePoints
<1> QED BY <1>1, <1>2, VisiblePoints

(* If no page shows anything else, nothing visible changed.                *)
LEMMA NoPageSeen ==
    ASSUME \A u \in Spaces, q \in Pages : Seen(map', mem', u, q) = Seen(map, mem, u, q)
    PROVE  Visible' = Visible
BY VisiblePoints
-----------------------------------------------------------------------------
(* What the changes of memory look like.                                   *)

(* A mapped page shows a value, an unmapped one shows Unmapped.            *)
LEMMA MappedSeen ==
    ASSUME IInv, NEW s \in Spaces, NEW p \in Pages
    PROVE  /\ map[s][p] = NoFrame => Visible[s][p] = Unmapped
           /\ map[s][p] # NoFrame => Visible[s][p] \in Values /\ Visible[s][p] = mem[map[s][p]]
           /\ Visible[s][p] = Unmapped <=> map[s][p] = NoFrame
<1>1. Visible[s][p] = Seen(map, mem, s, p)
  BY VisiblePoints
<1>2. map[s][p] # NoFrame => mem[map[s][p]] \in Values
  BY DEF IInv, TypeOK
<1> QED BY <1>1, <1>2, ValueAssumption DEF Seen

(* A store through a writable entry changes that page and no other.        *)
LEMMA StoreSeen ==
    ASSUME IInv, NEW s \in Spaces, NEW p \in Pages, perm[s][p] = "rw", NEW v,
           map' = map, mem' = [mem EXCEPT ![map[s][p]] = v]
    PROVE  Visible' = [Visible EXCEPT ![s][p] = v] /\ Visible[s][p] # Unmapped
<1>1. map[s][p] \in Frames /\ map[s][p] # NoFrame
  BY FrameAssumption DEF IInv, TypeOK
<1>2. \A u \in Spaces, q \in Pages : map[u][q] = map[s][p] => u = s /\ q = p
  BY DEF IInv, Exclusive
<1>3. \A u \in Spaces, q \in Pages : map[u][q] \in Frames \cup {NoFrame}
  BY DEF IInv, TypeOK
<1>4. \A f \in Frames : mem'[f] = IF f = map[s][p] THEN v ELSE mem[f]
  BY <1>1 DEF IInv, TypeOK
<1>5. \A u \in Spaces, q \in Pages :
         Seen(map', mem', u, q) = IF u = s /\ q = p THEN v ELSE Seen(map, mem, u, q)
  BY <1>1, <1>2, <1>3, <1>4 DEF Seen
<1>6. Visible' = [Visible EXCEPT ![s][p] = v]
  BY <1>5, OnePage
<1>7. Visible[s][p] # Unmapped
  BY <1>1, MappedSeen
<1> QED BY <1>6, <1>7

(* Mapping a fresh frame changes that page and no other.                   *)
LEMMA RemapSeen ==
    ASSUME IInv, NEW s \in Spaces, NEW p \in Pages, NEW g, NEW v, NEW r, NEW drop,
           Exchange(g, v, drop), SetPte(s, p, g, r)
    PROVE  Visible' = [Visible EXCEPT ![s][p] = v]
<1>1. g \in free /\ g \in Frames /\ g # NoFrame
  BY FrameAssumption DEF IInv, TypeOK, Exchange
<1>2. \A u \in Spaces, q \in Pages : map[u][q] # NoFrame => map[u][q] \in Frames /\ map[u][q] # g
  <2>1. TypeOK /\ RefsExact
    BY DEF IInv
  <2>2. \A u \in Spaces, q \in Pages : map[u][q] # NoFrame => map[u][q] \in Frames \ free
    BY <2>1, Occupied
  <2> QED BY <1>1, <2>2
<1>3. \A u \in Spaces, q \in Pages : map'[u][q] = IF u = s /\ q = p THEN g ELSE map[u][q]
  BY DEF IInv, TypeOK, SetPte
<1>4. \A f \in Frames : mem'[f] = IF f = g THEN v ELSE mem[f]
  BY <1>1 DEF IInv, TypeOK, Exchange
<1>5. \A u \in Spaces, q \in Pages :
         Seen(map', mem', u, q) = IF u = s /\ q = p THEN v ELSE Seen(map, mem, u, q)
  BY <1>1, <1>2, <1>3, <1>4 DEF Seen
<1> QED BY <1>5, OnePage

(* Writing back what is there changes nothing.                             *)
LEMMA SameValue ==
    ASSUME NEW s \in Spaces, NEW p \in Pages,
           Visible' = [Visible EXCEPT ![s][p] = Visible[s][p]]
    PROVE  Visible' = Visible
<1> DEFINE W == [u \in Spaces |-> [q \in Pages |-> Seen(map, mem, u, q)]]
<1>1. Visible = W
  BY VisiblePoints
<1>2. [W EXCEPT ![s][p] = W[s][p]] = W
  <2>1. [W[s] EXCEPT ![p] = W[s][p]] = W[s]
    OBVIOUS
  <2> QED BY <2>1
<1> QED BY <1>1, <1>2

(* Breaking copy-on-write is invisible.                                    *)
LEMMA BreakCowSeen ==
    ASSUME IInv, NEW s \in Spaces, NEW p \in Pages, BreakCow(s, p)
    PROVE  Visible' = Visible
<1>1. map[s][p] # NoFrame /\ Visible[s][p] = mem[map[s][p]]
  BY MappedSeen DEF BreakCow, IInv, TypeOK
<1>2. CASE SetPte(s, p, map[s][p], "rw") /\ UNCHANGED pmmVars
  <2>1. map' = map /\ mem' = mem
    BY <1>2 DEF SetPte, pmmVars, IInv, TypeOK
  <2> QED BY <2>1, NoPageSeen
<1>3. ASSUME NEW g \in free, Exchange(g, mem[map[s][p]], One(map[s][p])), SetPte(s, p, g, "rw")
      PROVE  Visible' = Visible
  BY <1>1, <1>3, RemapSeen, SameValue
<1> QED BY <1>2, <1>3 DEF BreakCow

(* The set of spaces that are being loaded only changes with live and with *)
(* who is at "load".                                                       *)
LEMMA LoadingKept ==
    ASSUME live' = live, live \subseteq Spaces,
           \A u \in Spaces : at'[u] = "load" <=> at[u] = "load"
    PROVE  Loading' = Loading
BY DEF Loading

-----------------------------------------------------------------------------
(* The steps.                                                              *)

PrivateStep == [Private!Next]_(Private!vars)

(* A step that changes nothing visible is a stutter of the private memory. *)
LEMMA Stutter ==
    ASSUME live' = live, Loading' = Loading, Visible' = Visible
    PROVE  PrivateStep
BY DEF PrivateStep, Private!vars, Loading

(* A store of user code or of the kernel is a store to private memory.     *)
LEMMA IsStore ==
    ASSUME NEW s \in live, NEW p \in Pages, NEW v \in Values, live' = live, Loading' = Loading,
           Visible[s][p] # Unmapped, Visible' = [Visible EXCEPT ![s][p] = v]
    PROVE  PrivateStep
<1>1. Private!Store(s, p, v)
  BY DEF Private!Store, Loading
<1> QED BY <1>1 DEF PrivateStep, Private!Next

(* A page that appears is a fill of private memory.                        *)
LEMMA IsFill ==
    ASSUME NEW s \in live, NEW p \in Pages, NEW v \in Values, live' = live, Loading' = Loading,
           Visible[s][p] = Unmapped, Visible' = [Visible EXCEPT ![s][p] = v],
           at[s] = "load" \/ v = Zero
    PROVE  PrivateStep
<1>1. Private!Fill(s, p, v)
  BY DEF Private!Fill, Loading
<1> QED BY <1>1 DEF PrivateStep, Private!Next

(* Mapping a page, for its four callers.                                   *)
LEMMA MapFreshRefines ==
    ASSUME IInv, NEW s \in live, NEW p \in Pages, NEW v \in Values, NEW r, MapFresh(s, p, v, r),
           live' = live, Loading' = Loading, at[s] = "load" \/ v = Zero
    PROVE  PrivateStep
<1>1. s \in Spaces
  BY DEF IInv, TypeOK
<1>2. PICK g, drop : Exchange(g, v, drop) /\ SetPte(s, p, g, r)
  BY DEF MapFresh
<1>3. Visible' = [Visible EXCEPT ![s][p] = v]
  BY <1>1, <1>2, RemapSeen
<1> QED BY <1>3, IsFill, IsStore
(* munmap: the pages are gone at once, before they are flushed.            *)
LEMMA UnmapRefines ==
    ASSUME IInv, NEW s \in live, NEW P \in SUBSET Pages, Unmap(s, P)
    PROVE  PrivateStep
<1>1. s \in Spaces /\ live \subseteq Spaces /\ live' = live /\ mem' = mem
  BY DEF IInv, TypeOK, Unmap, pmmVars
<1>2. Loading' = Loading
  <2>1. \A u \in Spaces : at'[u] = "load" <=> at[u] = "load"
    BY <1>1 DEF IInv, TypeOK, Unmap, Goto
  <2> QED BY <1>1, <2>1, LoadingKept
<1> DEFINE row == [p \in Pages |-> IF p \in P THEN Unmapped ELSE Visible[s][p]]
<1>3. Visible' = [Visible EXCEPT ![s] = row]
  <2>1. \A u \in Spaces, q \in Pages :
           map'[u][q] = IF u = s /\ q \in P THEN NoFrame ELSE map[u][q]
    BY <1>1 DEF IInv, TypeOK, Unmap
  <2>2. \A u \in Spaces, q \in Pages : Seen(map', mem', u, q) =
           IF u = s /\ q \in P THEN Unmapped ELSE Seen(map, mem, u, q)
    BY <1>1, <2>1 DEF Seen
  <2>3. \A q \in Pages : Visible[s][q] = Seen(map, mem, s, q)
    BY <1>1, VisiblePoints
  <2>4. \A u \in Spaces : [q \in Pages |-> Seen(map', mem', u, q)] =
           IF u = s THEN row ELSE [q \in Pages |-> Seen(map, mem, u, q)]
    BY <2>2, <2>3
  <2> HIDE DEF row
  <2> QED BY <2>4, VisiblePoints
<1>4. Private!Unmap(s, P)
  BY <1>1, <1>2, <1>3 DEF Private!Unmap, Loading
<1> QED BY <1>4 DEF PrivateStep, Private!Next

(* fork: the child sees a copy, the parent sees no change.                 *)
LEMMA ForkRefines ==
    ASSUME IInv, NEW s \in live, NEW c \in Spaces, NEW got \in SUBSET Pages, Fork(s, c, got)
    PROVE  PrivateStep
<1>1. s \in Spaces /\ c # s /\ c \notin live /\ live' = live \cup {c} /\ mem' = mem
  BY DEF IInv, TypeOK, Fork
<1>2. Loading' = Loading
  <2>1. \A u \in Spaces : at'[u] = IF u = c THEN "user" ELSE at[u]
    BY DEF IInv, TypeOK, Fork, Goto
  <2>2. live \subseteq Spaces
    BY DEF IInv, TypeOK
  <2> QED BY <1>1, <2>1, <2>2 DEF Loading
<1> DEFINE row == [p \in Pages |-> IF p \in got THEN Visible[s][p] ELSE Unmapped]
<1>3. Visible' = [Visible EXCEPT ![c] = row]
  <2>1. \A u \in Spaces, q \in Pages :
           map'[u][q] = IF u = c THEN IF q \in got THEN map[s][q] ELSE NoFrame ELSE map[u][q]
    BY <1>1 DEF IInv, TypeOK, Fork
  <2>2. \A u \in Spaces, q \in Pages : Seen(map', mem', u, q) =
           IF u = c THEN IF q \in got THEN Seen(map, mem, s, q) ELSE Unmapped
           ELSE Seen(map, mem, u, q)
    BY <1>1, <2>1 DEF Seen
  <2>3. \A q \in Pages : Visible[s][q] = Seen(map, mem, s, q)
    BY <1>1, VisiblePoints
  <2>4. \A u \in Spaces : [q \in Pages |-> Seen(map', mem', u, q)] =
           IF u = c THEN row ELSE [q \in Pages |-> Seen(map, mem, u, q)]
    BY <2>2, <2>3
  <2> HIDE DEF row
  <2> QED BY <2>4, VisiblePoints
<1>4. Private!Fork(s, c, got)
  BY <1>1, <1>2, <1>3 DEF Private!Fork, Loading
<1> QED BY <1>4 DEF PrivateStep, Private!Next

(* A destroyed space shows nothing; the others are untouched.              *)
LEMMA DestroySeen ==
    ASSUME IInv, NEW s \in Spaces, Destroy(s)
    PROVE  Visible' = [Visible EXCEPT ![s] = Private!Nothing]
<1>1. mem' = mem
  BY DEF Destroy, Release
<1>2. \A u \in Spaces, q \in Pages : map'[u][q] = IF u = s THEN NoFrame ELSE map[u][q]
  BY DEF IInv, TypeOK, Destroy, NoFrames
<1>3. \A u \in Spaces, q \in Pages : Seen(map', mem', u, q) =
         IF u = s THEN Unmapped ELSE Seen(map, mem, u, q)
  BY <1>1, <1>2 DEF Seen
<1>4. \A u \in Spaces : [q \in Pages |-> Seen(map', mem', u, q)] =
         IF u = s THEN Private!Nothing ELSE [q \in Pages |-> Seen(map, mem, u, q)]
  BY <1>3 DEF Private!Nothing
<1> QED BY <1>4, VisiblePoints

(* exec: an empty space that is being loaded.                              *)
LEMMA ExecRefines ==
    ASSUME IInv, NEW s \in live, Exec(s)
    PROVE  PrivateStep
<1>1. s \in Spaces /\ live \subseteq Spaces /\ live' = live /\ Destroy(s)
  BY DEF IInv, TypeOK, Exec
<1>2. Loading' = Loading \cup {s}
  <2>1. \A u \in Spaces : at'[u] = IF u = s THEN "load" ELSE at[u]
    BY DEF IInv, TypeOK, Exec, Goto
  <2> QED BY <1>1, <2>1 DEF Loading
<1>3. Private!Exec(s)
  BY <1>1, <1>2, DestroySeen DEF Private!Exec, Loading
<1> QED BY <1>3 DEF PrivateStep, Private!Next

(* exit: the space and all it showed are gone.                             *)
LEMMA ExitRefines ==
    ASSUME IInv, NEW s \in live, Exit(s)
    PROVE  PrivateStep
<1>1. s \in Spaces /\ live \subseteq Spaces /\ live' = live \ {s} /\ Destroy(s)
  BY DEF IInv, TypeOK, Exit
<1>2. Loading' = Loading \ {s}
  <2>1. \A u \in Spaces : at'[u] = IF u = s THEN "none" ELSE at[u]
    BY DEF IInv, TypeOK, Exit, Goto
  <2> QED BY <1>1, <2>1 DEF Loading
<1>3. Private!Exit(s)
  BY <1>1, <1>2, DestroySeen DEF Private!Exit, Loading
<1> QED BY <1>3 DEF PrivateStep, Private!Next

(* The image is loaded and starts.                                         *)
LEMMA StartRefines ==
    ASSUME IInv, NEW s \in live, Start(s)
    PROVE  PrivateStep
<1>1. s \in Spaces /\ live \subseteq Spaces /\ live' = live /\ map' = map /\ mem' = mem
  BY DEF IInv, TypeOK, Start, pteVars, pmmVars
<1>2. Loading' = Loading \ {s}
  <2>1. \A u \in Spaces : at'[u] = IF u = s THEN "user" ELSE at[u]
    BY DEF IInv, TypeOK, Start, Goto
  <2> QED BY <1>1, <2>1 DEF Loading
<1>3. Visible' = Visible
  BY <1>1, NoPageSeen
<1>4. Private!Start(s)
  BY <1>1, <1>2, <1>3 DEF Private!Start, Loading
<1> QED BY <1>4 DEF PrivateStep, Private!Next

(* Steps inside the kernel that neither move a frame nor write to one.     *)
LEMMA QuietRefines ==
    ASSUME IInv, NEW s \in live,
           \/ \E p \in Pages : UserLoad(s, p) \/ StackFault(s, p) \/ UnmapRelease(s, p)
           \/ UnmapFlush(s) \/ UnmapDone(s)
    PROVE  PrivateStep
<1>1. live' = live /\ live \subseteq Spaces /\ map' = map /\ mem' = mem
  BY DEF IInv, TypeOK, UserLoad, StackFault, UnmapRelease, Release, UnmapFlush, UnmapDone,
         pteVars, pmmVars
<1>2. \A u \in Spaces : at'[u] = "load" <=> at[u] = "load"
  BY DEF IInv, TypeOK, UserLoad, StackFault, UnmapRelease, UnmapFlush, UnmapDone, Goto, opVars
<1>3. Visible' = Visible
  BY <1>1, NoPageSeen
<1> QED BY <1>1, <1>2, <1>3, LoadingKept, Stutter

(* A store of user code, through a cached or a fresh translation.          *)
LEMMA UserStoreRefines ==
    ASSUME IInv, NEW s \in live, NEW p \in Pages, NEW v \in Values, UserStore(s, p, v)
    PROVE  PrivateStep
<1>1. s \in Spaces /\ live \subseteq Spaces /\ live' = live /\ at' = at /\ map' = map
  BY DEF IInv, TypeOK, UserStore, pteVars, opVars
<1>2. Loading' = Loading
  BY <1>1, LoadingKept
<1>3. perm[s][p] = "rw" /\ mem' = [mem EXCEPT ![map[s][p]] = v]
  BY <1>1 DEF UserStore, IInv, Cached
<1>4. Visible' = [Visible EXCEPT ![s][p] = v] /\ Visible[s][p] # Unmapped
  BY <1>1, <1>3, StoreSeen
<1> QED BY <1>1, <1>2, <1>4, IsStore

(* A store of the kernel, through the physical map.                        *)
LEMMA CopyoutStoreRefines ==
    ASSUME IInv, NEW s \in live, NEW v \in Values, CopyoutStore(s, v)
    PROVE  PrivateStep
<1>1. s \in Spaces /\ live \subseteq Spaces /\ live' = live /\ map' = map
  BY DEF IInv, TypeOK, CopyoutStore, pteVars
<1>2. Loading' = Loading
  <2>1. \A u \in Spaces : at'[u] = "load" <=> at[u] = "load"
    BY <1>1 DEF IInv, TypeOK, CopyoutStore, Goto
  <2> QED BY <1>1, <2>1, LoadingKept
<1>3. /\ page[s] \in Pages /\ perm[s][page[s]] = "rw"
      /\ mem' = [mem EXCEPT ![map[s][page[s]]] = v]
  BY <1>1 DEF CopyoutStore, IInv, Phases
<1>4. Visible' = [Visible EXCEPT ![s][page[s]] = v] /\ Visible[s][page[s]] # Unmapped
  BY <1>1, <1>3, StoreSeen
<1> QED BY <1>1, <1>2, <1>3, <1>4, IsStore

(* Faults, mmap, the loader and the first half of copyout.                 *)
LEMMA MappingRefines ==
    ASSUME IInv, NEW s \in live,
           \/ StackGrow(s)
           \/ \E p \in Pages : WriteFault(s, p) \/ CopyoutResolve(s, p) \/ Mmap(s, p)
           \/ \E p \in Pages, v \in Values, r \in {"ro", "rw"} : Load(s, p, r, v)
    PROVE  PrivateStep
<1>1. s \in Spaces /\ live \subseteq Spaces /\ live' = live
  BY DEF IInv, TypeOK, StackGrow, WriteFault, CopyoutResolve, Mmap, Load
<1>2. \A u \in Spaces : at'[u] = "load" <=> at[u] = "load"
  BY <1>1 DEF IInv, TypeOK, StackGrow, WriteFault, CopyoutResolve, Mmap, Load, Goto, opVars
<1>3. Loading' = Loading
  BY <1>1, <1>2, LoadingKept
<1>4. CASE StackGrow(s)
  <2>1. page[s] \in Pages
    BY <1>1, <1>4 DEF StackGrow, IInv, Phases
  <2> QED BY <1>1, <1>3, <1>4, <2>1, MapFreshRefines, ValueAssumption DEF StackGrow
<1>5. ASSUME NEW p \in Pages, BreakCow(s, p) PROVE PrivateStep
  BY <1>1, <1>3, <1>5, BreakCowSeen, Stutter
<1>6. ASSUME NEW p \in Pages, MapFresh(s, p, Zero, "rw") PROVE PrivateStep
  BY <1>1, <1>3, <1>6, MapFreshRefines, ValueAssumption
<1>7. ASSUME NEW p \in Pages, CopyoutResolve(s, p) PROVE PrivateStep
  <2>1. CASE UNCHANGED <<pteVars, tlb, pmmVars>>
    <3>1. map' = map /\ mem' = mem
      BY <2>1 DEF pteVars, pmmVars
    <3> QED BY <1>1, <1>3, <3>1, NoPageSeen, Stutter
  <2> QED BY <1>5, <1>6, <1>7, <2>1 DEF CopyoutResolve
<1>8. ASSUME NEW p \in Pages, NEW v \in Values, NEW r \in {"ro", "rw"}, Load(s, p, r, v)
      PROVE  PrivateStep
  BY <1>1, <1>3, <1>8, MapFreshRefines DEF Load
<1> QED BY <1>4, <1>5, <1>6, <1>7, <1>8 DEF WriteFault, Mmap

(* The initial states show empty private memory.                           *)
LEMMA InitRefines == Init => Private!Init
<1> SUFFICES ASSUME Init PROVE Private!Init
  OBVIOUS
<1>1. Visible = [s \in Spaces |-> Private!Nothing]
  <2>1. \A s \in Spaces, p \in Pages : Seen(map, mem, s, p) = Unmapped
    BY DEF Init, NoFrames, Seen
  <2> QED BY <2>1, VisiblePoints DEF Private!Nothing
<1>2. {s \in live : at[s] = "load"} = {Boot}
  BY SpaceAssumption DEF Init
<1> QED BY <1>1, <1>2 DEF Init, Private!Init

(* Every step maps to a step of the private memory or to a stutter.        *)
LEMMA NextRefines == IInv /\ [Next]_vars => [Private!Next]_(Private!vars)
<1> SUFFICES ASSUME IInv, [Next]_vars PROVE PrivateStep
  BY DEF PrivateStep
<1>1. CASE UNCHANGED vars
  <2>1. live' = live /\ map' = map /\ mem' = mem /\ at' = at
    BY <1>1 DEF vars, pteVars, pmmVars, opVars
  <2>2. Loading' = Loading
    BY <2>1 DEF Loading
  <2> QED BY <2>1, <2>2, NoPageSeen, Stutter
<1>2. CASE Next
  <2>1. PICK s \in live : SpaceStep(s)
    BY <1>2 DEF Next
  <2>2. CASE (\E P \in SUBSET Pages : Unmap(s, P)) \/ UnmapDone(s) \/ Exit(s)
    BY <2>2, UnmapRefines, QuietRefines, ExitRefines
  <2>3. CASE Running(s)
    <3>1. CASE \E p \in Pages : UserLoad(s, p) \/ StackFault(s, p) \/ UnmapRelease(s, p)
      BY <3>1, QuietRefines
    <3>2. CASE \E p \in Pages : WriteFault(s, p) \/ CopyoutResolve(s, p) \/ Mmap(s, p)
      BY <3>2, MappingRefines
    <3>3. CASE \E p \in Pages, v \in Values :
                  UserStore(s, p, v) \/ \E r \in {"ro", "rw"} : Load(s, p, r, v)
      BY <3>3, UserStoreRefines, MappingRefines
    <3>4. CASE \E v \in Values : CopyoutStore(s, v)
      BY <3>4, CopyoutStoreRefines
    <3>5. CASE \E c \in Spaces, got \in SUBSET Pages : Fork(s, c, got)
      BY <3>5, ForkRefines
    <3>6. CASE StackGrow(s) \/ UnmapFlush(s) \/ Exec(s) \/ Start(s)
      BY <3>6, MappingRefines, QuietRefines, ExecRefines, StartRefines
    <3> QED BY <2>3, <3>1, <3>2, <3>3, <3>4, <3>5, <3>6 DEF Running
  <2> QED BY <2>1, <2>2, <2>3 DEF SpaceStep
<1> QED BY <1>1, <1>2

(* Shared frames behave as private memory: no step of one process changes  *)
(* a page another one sees, and fork copies what the parent had.           *)
THEOREM MemoryIsPrivate == Spec => ImplementsPrivate
BY InitRefines, NextRefines, Invariance, PTL DEF Spec, ImplementsPrivate, Private!Spec
=============================================================================
