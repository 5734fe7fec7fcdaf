-------------------------- MODULE MachPortsProofs --------------------------
(***************************************************************************)
(* Ports, names and references for any number of tasks, ports and indices: *)
(* a port is never recycled under a right or a pointer, has one receiver,  *)
(* and a name that has been given up never denotes another right.          *)
(***************************************************************************)
EXTENDS MachPorts, TLAPS, SequenceTheorems, FiniteSetTheorems, WellFoundedInduction

-----------------------------------------------------------------------------
(* The inductive invariant.                                                *)

(* What TypeOK leaves out.                                                 *)
SpacesTyped ==
    /\ freed \in [Tasks -> SUBSET Names]
    /\ receiver \in [Ports -> [task : Tasks, name : Names] \cup {Nobody}]
    /\ queue \in [Ports -> Seq({NoPort})]

(* An index in use lies below is_table_used, is not on the free list and   *)
(* has a generation that is within its bound; a table that is not begun is *)
(* as it was created, and that of an exited task is empty.                 *)
TablesShaped ==
    /\ \A t \in Tasks, i \in Indices : entry[t][i] # Empty =>
          Active(t) /\ i < used[t] /\ i \notin names[t] /\ gen[t][i] <= MaxGen
    /\ \A t \in Tasks : at[t] = "none" =>
          names[t] = {} /\ freed[t] = {} /\ \A i \in Indices : gen[t][i] = 0
    /\ \A t \in Tasks : Active(t) => \A i \in names[t] : i < used[t]

(* The generation of an index has passed every name freed at it.           *)
NamesPassed == \A t \in Tasks : \A n \in freed[t] : n[1] < gen[t][n[2]]

(* A receive right is the one its port records, and the port is alive.     *)
ReceiversRecorded ==
    \A t \in Tasks, i \in Indices : entry[t][i].bits = "recv" =>
        /\ state[entry[t][i].port] = "ACTIVE"
        /\ receiver[entry[t][i].port] = [task |-> t, name |-> <<gen[t][i], i>>]

(* t has a port to destroy, or is destroying it.                           *)
Destroys(t, p) == p \in doomed[t] \/ (at[t] \in {"drop", "exit"} /\ ptr[t] = p)

(* Who destroys a port is the one it records, and has the right no more:   *)
(* the name is that of an empty table or of an earlier generation.         *)
DestroyersOwn ==
    \A p \in Ports, t \in Tasks : Destroys(t, p) =>
        /\ at[t] \in {"drop", "exit"}
        /\ receiver[p] # Nobody /\ receiver[p].task = t
        /\ \A u \in Tasks, i \in Indices : entry[u][i] # [port |-> p, bits |-> "recv"]
        /\ at[t] = "drop" => gen[t][receiver[p].name[2]] > receiver[p].name[1]
        /\ p \in doomed[t] => state[p] = "ACTIVE" /\ ptr[t] # p
        /\ ptr[t] = p => state[p] = "ZOMBIE"

(* A live port has its receive right, or is about to be destroyed.         *)
LiveOwned ==
    \A p \in Ports : state[p] = "ACTIVE" =>
        \/ \E t \in Tasks : Destroys(t, p)
        \/ \E t \in Tasks, i \in Indices : entry[t][i] = [port |-> p, bits |-> "recv"]

(* A task has its task port, and the daemon never ends.                    *)
TaskPorts ==
    /\ \A t \in Tasks : Active(t) =>
          entry[t][TaskIndex].bits = "recv" /\ kobject[entry[t][TaskIndex].port] = t
    /\ Active(Daemon)

(* Outside of mach_port_deallocate and exit a thread has nothing to give   *)
(* back, and what it has to fits a table.                                  *)
NothingOwed ==
    /\ \A t \in Tasks : at[t] \notin {"drop", "exit"} => doomed[t] = {} /\ owed[t] = Nothing
    /\ \A t \in Tasks, p \in Ports :
          /\ owed[t][p] <= Size
          /\ Destroys(t, p) => owed[t][p] < Size

(* A port pointer is kept together with a right of the thread's own task,  *)
(* and one from the registry with a right of the daemon.                   *)
PointersHeld ==
    /\ \A t \in Tasks : at[t] \in {"send", "append", "recv"} =>
          ptr[t] \in Ports /\ \E i \in Indices : entry[t][i].port = ptr[t]
    /\ \A t \in Tasks : at[t] = "insert" =>
          ptr[t] \in Ports /\ \E i \in Indices : entry[Daemon][i].port = ptr[t]
    /\ \A t \in Tasks : at[t] \in {"none", "user", "dead"} => ptr[t] = NoPort
    /\ service # NoPort => \E i \in Indices : entry[Daemon][i].port = service

(* One sender at a time is between its checks and its append.              *)
AppendsFit ==
    /\ \A t \in Tasks : at[t] = "append" => Len(queue[ptr[t]]) < QLimit
    /\ \A t, u \in Tasks : at[t] = "append" /\ at[u] = "append" /\ ptr[t] = ptr[u] => t = u

IInv ==
    /\ TypeOK /\ SpacesTyped /\ TablesShaped /\ NamesPassed
    /\ ReceiversRecorded /\ DestroyersOwn /\ LiveOwned /\ TaskPorts
    /\ NothingOwed /\ PointersHeld /\ AppendsFit /\ RefsExact

-----------------------------------------------------------------------------
(* Lemmas on tables and counts.                                            *)

(* An entry is empty, or has a port and a right.                           *)
LEMMA EntryFacts ==
    ASSUME NEW e \in Entries
    PROVE  /\ e = Empty <=> e.port = NoPort
           /\ e = Empty <=> e.bits = "none"
           /\ e # Empty => e.port \in Ports /\ e.bits \in {"send", "recv"}
           /\ e = [port |-> e.port, bits |-> e.bits]
BY PortAssumption DEF Entries, Empty

(* The indices are numbers below the size of the table.                    *)
LEMMA IndexFacts ==
    /\ Size \in Nat /\ Size >= 2 /\ TaskIndex \in Indices /\ Indices \subseteq Nat
    /\ MaxGen \in Nat /\ QLimit \in Nat /\ QLimit >= 1
    /\ \A i \in Indices : i >= 1 /\ i < Size /\ i + 1 <= Size
    /\ \A n \in Names : n = <<n[1], n[2]>> /\ n[1] \in 0 .. MaxGen /\ n[2] \in Indices
    /\ \A g \in 0 .. MaxGen, i \in Indices : <<g, i>> \in Names
BY SizeAssumption DEF Indices, TaskIndex, Names

(* The rights, the destructions and the debts of a port, of given tables.  *)
RightsIn(e, p) == {h \in Tasks \X Indices : e[h[1]][h[2]].port = p}
DestroyersIn(d, a, x, p) == {t \in Tasks : p \in d[t] \/ (a[t] \in {"drop", "exit"} /\ x[t] = p)}
OwedIn(o, p) == {h \in Tasks \X (1 .. Size) : h[2] <= o[h[1]][p]}

(* They are finite.                                                        *)
LEMMA CountsFinite ==
    ASSUME NEW e, NEW d, NEW a, NEW x, NEW o, NEW p
    PROVE  /\ IsFiniteSet(RightsIn(e, p)) /\ Cardinality(RightsIn(e, p)) \in Nat
           /\ IsFiniteSet(DestroyersIn(d, a, x, p)) /\ Cardinality(DestroyersIn(d, a, x, p)) \in Nat
           /\ IsFiniteSet(OwedIn(o, p)) /\ Cardinality(OwedIn(o, p)) \in Nat
<1>1. IsFiniteSet(Indices) /\ IsFiniteSet(1 .. Size) /\ IsFiniteSet(Tasks)
  BY FS_Interval, SizeAssumption, TaskAssumption DEF Indices
<1>2. IsFiniteSet(Tasks \X Indices) /\ IsFiniteSet(Tasks \X (1 .. Size))
  BY <1>1, FS_Product
<1>3. IsFiniteSet(RightsIn(e, p))
  BY <1>2, FS_Subset DEF RightsIn
<1>4. IsFiniteSet(DestroyersIn(d, a, x, p))
  BY <1>1, FS_Subset DEF DestroyersIn
<1>5. IsFiniteSet(OwedIn(o, p))
  BY <1>2, FS_Subset DEF OwedIn
<1> QED BY <1>3, <1>4, <1>5, FS_CardinalityType

(* RefsExact, with the sets as functions of the state.                     *)
RefsFit(e, d, a, x, o, r, ar) ==
    \A p \in Ports :
        /\ r[p] = Cardinality(RightsIn(e, p)) + Cardinality(DestroyersIn(d, a, x, p))
                  + Cardinality(OwedIn(o, p))
        /\ p \in ar <=> r[p] = 0

(* A receive right, and who destroys a port: the invariant for one of them. *)
LEMMA ReceiveRight ==
    ASSUME IInv, NEW u \in Tasks, NEW j \in Indices, entry[u][j].bits = "recv"
    PROVE  /\ entry[u][j].port \in Ports /\ state[entry[u][j].port] = "ACTIVE"
           /\ receiver[entry[u][j].port] = [task |-> u, name |-> <<gen[u][j], j>>]
<1>1. entry[u][j] \in Entries /\ entry[u][j].bits # "none"
  BY DEF IInv, TypeOK
<1>2. entry[u][j].port \in Ports
  BY <1>1, EntryFacts
<1> QED BY <1>2 DEF IInv, ReceiversRecorded

(* Who destroys a port is its receiver.                                    *)
LEMMA Destroyer ==
    ASSUME IInv, NEW q \in Ports, NEW u \in Tasks, Destroys(u, q)
    PROVE  /\ at[u] \in {"drop", "exit"} /\ receiver[q] # Nobody /\ receiver[q].task = u
           /\ receiver[q].name \in Names /\ receiver[q].name[2] \in Indices
           /\ \A v \in Tasks, i \in Indices : entry[v][i] # [port |-> q, bits |-> "recv"]
           /\ at[u] = "drop" => gen[u][receiver[q].name[2]] > receiver[q].name[1]
           /\ q \in doomed[u] => state[q] = "ACTIVE" /\ ptr[u] # q
           /\ ptr[u] = q => state[q] = "ZOMBIE"
           /\ state[q] # "DEAD" /\ owed[u][q] < Size
<1>1. receiver[q] \in [task : Tasks, name : Names] \cup {Nobody}
  BY DEF IInv, SpacesTyped
<1>2. /\ at[u] \in {"drop", "exit"} /\ receiver[q] # Nobody /\ receiver[q].task = u
      /\ \A v \in Tasks, i \in Indices : entry[v][i] # [port |-> q, bits |-> "recv"]
      /\ at[u] = "drop" => gen[u][receiver[q].name[2]] > receiver[q].name[1]
      /\ q \in doomed[u] => state[q] = "ACTIVE" /\ ptr[u] # q
      /\ ptr[u] = q => state[q] = "ZOMBIE"
  BY DEF IInv, DestroyersOwn
<1>3. owed[u][q] < Size
  BY DEF IInv, NothingOwed
<1>4. state[q] # "DEAD"
  BY <1>2 DEF Destroys
<1>5. receiver[q].name \in Names
  BY <1>1, <1>2
<1> QED BY <1>2, <1>3, <1>4, <1>5, IndexFacts

(* They are the sets of the model.                                         *)
LEMMA CountsSame ==
    /\ \A p \in Ports : Rights(p) = RightsIn(entry, p)
    /\ \A p \in Ports : Destroying(p) = DestroyersIn(doomed, at, ptr, p)
    /\ \A p \in Ports : Sum([t \in Tasks |-> owed[t][p]]) = Cardinality(OwedIn(owed, p))
<1>1. ASSUME NEW p \in Ports
      PROVE  {h \in Tasks \X (1 .. Size) : h[2] <= [t \in Tasks |-> owed[t][p]][h[1]]}
                = OwedIn(owed, p)
  <2>1. \A h \in Tasks \X (1 .. Size) : [t \in Tasks |-> owed[t][p]][h[1]] = owed[h[1]][p]
    OBVIOUS
  <2> QED BY <2>1 DEF OwedIn
<1> QED BY <1>1 DEF Rights, RightsIn, Destroying, DestroyersIn, Sum

(* So the two statements are the same, now ...                             *)
LEMMA RefsFitNow ==
    RefsExact <=> RefsFit(entry, doomed, at, ptr, owed, refs, arena)
BY CountsSame DEF RefsExact, RefsFit

(* ... and after a step.                                                   *)
LEMMA RefsFitNext ==
    RefsExact' <=> RefsFit(entry', doomed', at', ptr', owed', refs', arena')
<1>1. /\ \A p \in Ports : Rights(p)' = RightsIn(entry', p)
      /\ \A p \in Ports : Destroying(p)' = DestroyersIn(doomed', at', ptr', p)
  BY DEF Rights, RightsIn, Destroying, DestroyersIn
<1>2. ASSUME NEW p \in Ports
      PROVE  {h \in Tasks \X (1 .. Size) : h[2] <= [t \in Tasks |-> owed'[t][p]][h[1]]}
                = OwedIn(owed', p)
  <2>1. \A h \in Tasks \X (1 .. Size) : [t \in Tasks |-> owed'[t][p]][h[1]] = owed'[h[1]][p]
    OBVIOUS
  <2> QED BY <2>1 DEF OwedIn
<1>3. \A p \in Ports : Sum([t \in Tasks |-> owed[t][p]])' = Cardinality(OwedIn(owed', p))
  BY <1>2 DEF Sum
<1> QED BY <1>1, <1>3 DEF RefsExact, RefsFit

(* A port in the arena has no right, no destroyer and no debt.             *)
LEMMA ArenaFree ==
    ASSUME IInv, NEW p \in arena
    PROVE  /\ p \in Ports /\ refs[p] = 0
           /\ \A t \in Tasks, i \in Indices : entry[t][i].port # p
           /\ \A t \in Tasks : ~Destroys(t, p)
           /\ OwedIn(owed, p) = {} /\ DestroyersIn(doomed, at, ptr, p) = {}
           /\ RightsIn(entry, p) = {}
<1>1. p \in Ports
  BY DEF IInv, TypeOK
<1>2. /\ refs[p] = 0
      /\ refs[p] = Cardinality(RightsIn(entry, p)) + Cardinality(DestroyersIn(doomed, at, ptr, p))
                   + Cardinality(OwedIn(owed, p))
  BY <1>1, RefsFitNow DEF IInv, RefsFit
<1>3. /\ Cardinality(RightsIn(entry, p)) \in Nat
      /\ Cardinality(DestroyersIn(doomed, at, ptr, p)) \in Nat
      /\ Cardinality(OwedIn(owed, p)) \in Nat
  BY CountsFinite
<1>4. /\ Cardinality(RightsIn(entry, p)) = 0 /\ Cardinality(DestroyersIn(doomed, at, ptr, p)) = 0
      /\ Cardinality(OwedIn(owed, p)) = 0
  BY <1>2, <1>3
<1>5. RightsIn(entry, p) = {} /\ DestroyersIn(doomed, at, ptr, p) = {} /\ OwedIn(owed, p) = {}
  BY <1>4, CountsFinite, FS_EmptySet
<1>6. ASSUME NEW t \in Tasks, NEW i \in Indices PROVE entry[t][i].port # p
  <2>1. <<t, i>> \notin RightsIn(entry, p)
    BY <1>5
  <2> QED BY <2>1 DEF RightsIn
<1>7. \A t \in Tasks : ~Destroys(t, p)
  BY <1>5 DEF DestroyersIn, Destroys
<1> QED BY <1>1, <1>2, <1>5, <1>6, <1>7

(* A port with a right, a destroyer or a debt is not in the arena.         *)
LEMMA HeldNotFree ==
    ASSUME IInv, NEW p \in Ports,
           \/ \E t \in Tasks, i \in Indices : entry[t][i].port = p
           \/ \E t \in Tasks : Destroys(t, p)
           \/ OwedIn(owed, p) # {}
    PROVE  p \notin arena
BY ArenaFree
-----------------------------------------------------------------------------
(* Steps that change no table, no right and no debt.                       *)

Places == {"none", "user", "send", "append", "recv", "insert", "drop", "exit", "dead"}

(* A thread enters or leaves a system call, or goes on in it, with a port  *)
(* that a right holds.                                                     *)
LEMMA MoveStep ==
    ASSUME IInv, NEW t \in Tasks,
           NEW l \in {"user", "send", "append", "recv", "insert", "dead"},
           NEW x \in Ports \cup {NoPort}, Goto(t, l, x),
           \/ at[t] \in {"user", "send", "append", "recv", "insert"}
           \/ at[t] \in {"drop", "exit"} /\ ptr[t] = NoPort /\ doomed[t] = {} /\ owed[t] = Nothing,
           l = "dead" <=> at[t] = "exit",
           l \in {"send", "append", "recv"} => x \in Ports /\ \E i \in Indices : entry[t][i].port = x,
           l = "insert" => x \in Ports /\ \E i \in Indices : entry[Daemon][i].port = x,
           l \in {"user", "dead"} => x = NoPort,
           service' \in Ports \cup {NoPort},
           service' # NoPort => \E i \in Indices : entry[Daemon][i].port = service',
           queue' \in [Ports -> Seq({NoPort})], \A p \in Ports : Len(queue'[p]) <= QLimit,
           AppendsFit', UNCHANGED <<spaceVars, arena, refs, state, receiver, kobject, dropVars>>
    PROVE  IInv'
<1> USE DEF spaceVars, dropVars
<1>1. /\ at' \in [Tasks -> Places] /\ ptr' \in [Tasks -> Ports \cup {NoPort}]
      /\ \A u \in Tasks : at'[u] = IF u = t THEN l ELSE at[u]
      /\ \A u \in Tasks : ptr'[u] = IF u = t THEN x ELSE ptr[u]
  BY DEF Goto, IInv, TypeOK, Places
<1>2. TypeOK' /\ SpacesTyped'
  BY <1>1 DEF IInv, TypeOK, SpacesTyped, Places
<1>3. \A u \in Tasks : /\ (at'[u] \notin {"none", "exit", "dead"}) <=> Active(u)
                       /\ at'[u] = "none" <=> at[u] = "none"
  BY <1>1 DEF Active
<1>4. \A u \in Tasks, p \in Ports : Destroys(u, p)' <=> Destroys(u, p)
  <2>1. doomed' = doomed
    OBVIOUS
  <2>2. ASSUME NEW u \in Tasks, NEW p \in Ports PROVE Destroys(u, p)' <=> Destroys(u, p)
    <3>1. CASE u = t
      BY <1>1, <2>1, <3>1, PortAssumption DEF Destroys, IInv, NothingOwed
    <3>2. CASE u # t
      BY <1>1, <2>1, <3>2 DEF Destroys
    <3> QED BY <3>1, <3>2
  <2> QED BY <2>2
<1>5. TablesShaped'
  BY <1>3 DEF IInv, TablesShaped, Active
<1>6. NamesPassed' /\ ReceiversRecorded'
  BY DEF IInv, NamesPassed, ReceiversRecorded
<1>7. DestroyersOwn'
  <2>1. ASSUME NEW p \in Ports, NEW u \in Tasks, Destroys(u, p)
        PROVE  u # t
    BY <2>1, PortAssumption DEF Destroys, IInv, NothingOwed
  <2> QED BY <1>1, <1>4, <2>1 DEF IInv, DestroyersOwn
<1>8. LiveOwned'
  BY <1>4 DEF IInv, LiveOwned
<1>9. TaskPorts'
  BY <1>3, TaskAssumption DEF IInv, TaskPorts, Active
<1>10. NothingOwed'
  BY <1>1, <1>4 DEF IInv, NothingOwed
<1>11. PointersHeld'
  <2>1. entry' = entry
    OBVIOUS
  <2>2. /\ \A u \in Tasks : at'[u] \in {"send", "append", "recv"} =>
              ptr'[u] \in Ports /\ \E i \in Indices : entry[u][i].port = ptr'[u]
        /\ \A u \in Tasks : at'[u] = "insert" =>
              ptr'[u] \in Ports /\ \E i \in Indices : entry[Daemon][i].port = ptr'[u]
        /\ \A u \in Tasks : at'[u] \in {"none", "user", "dead"} => ptr'[u] = NoPort
    BY <1>1 DEF IInv, PointersHeld
  <2> QED BY <2>1, <2>2 DEF PointersHeld
<1>12. RefsExact'
  <2>1. \A p \in Ports : DestroyersIn(doomed', at', ptr', p) = DestroyersIn(doomed, at, ptr, p)
    BY <1>4 DEF DestroyersIn, Destroys
  <2> QED BY <2>1, RefsFitNow, RefsFitNext DEF IInv, RefsFit
<1> QED BY <1>2, <1>5, <1>6, <1>7, <1>8, <1>9, <1>10, <1>11, <1>12 DEF IInv

(* What ipc_port_lookup returns is a port that a right of the task is for. *)
LEMMA LookupHeld ==
    ASSUME IInv, NEW t \in Tasks, NEW n \in Names, NEW rights \in SUBSET {"send", "recv"},
           Lookup(t, n, rights) # NoPort
    PROVE  Lookup(t, n, rights) \in Ports /\ \E i \in Indices : entry[t][i].port = Lookup(t, n, rights)
<1>1. n[2] \in Indices
  BY IndexFacts
<1>2. entry[t][n[2]] \in Entries
  BY <1>1 DEF IInv, TypeOK
<1>3. Lookup(t, n, rights) = entry[t][n[2]].port /\ entry[t][n[2]].bits \in rights
  BY DEF Lookup
<1>4. entry[t][n[2]].port \in Ports
  BY <1>2, <1>3, EntryFacts
<1> QED BY <1>1, <1>3, <1>4

(* The steps of sending and receiving.                                     *)
LEMMA MessageStep ==
    ASSUME IInv, NEW t \in Tasks,
           \/ \E n \in Names : SendLookup(t, n) \/ ReceiveLookup(t, n)
           \/ SendEnds(t) \/ SendCheck(t) \/ SendAppend(t) \/ Receive(t) \/ ReceiveTimeout(t)
    PROVE  IInv'
<1> USE DEF portVars
<1>1. /\ queue \in [Ports -> Seq({NoPort})] /\ \A p \in Ports : Len(queue[p]) <= QLimit
      /\ \A p \in Ports : Len(queue[p]) \in Nat
      /\ service \in Ports \cup {NoPort} /\ QLimit \in Nat
      /\ service # NoPort => \E i \in Indices : entry[Daemon][i].port = service
      /\ at \in [Tasks -> Places] /\ ptr \in [Tasks -> Ports \cup {NoPort}]
  BY LenProperties, IndexFacts DEF IInv, TypeOK, SpacesTyped, PointersHeld, Places
<1>2. ASSUME NEW l, NEW x, Goto(t, l, x)
      PROVE  /\ \A u \in Tasks : at'[u] = IF u = t THEN l ELSE at[u]
             /\ \A u \in Tasks : ptr'[u] = IF u = t THEN x ELSE ptr[u]
  BY <1>1, <1>2 DEF Goto
<1>3. ASSUME NEW l, l # "append", NEW x, Goto(t, l, x), queue' = queue PROVE AppendsFit'
  <2>1. /\ \A u \in Tasks : at'[u] = IF u = t THEN l ELSE at[u]
        /\ \A u \in Tasks : ptr'[u] = IF u = t THEN x ELSE ptr[u]
    BY <1>2, <1>3
  <2> QED BY <1>3, <2>1 DEF IInv, AppendsFit
<1>4. ASSUME NEW n \in Names, SendLookup(t, n) PROVE IInv'
  <2> DEFINE x == Lookup(t, n, ToSend)
  <2>1. x \in Ports /\ \E i \in Indices : entry[t][i].port = x
    BY <1>4, LookupHeld DEF SendLookup, ToSend
  <2>2. /\ Goto(t, "send", x) /\ at[t] = "user"
        /\ UNCHANGED <<spaceVars, portVars, service, dropVars>>
    BY <1>4 DEF SendLookup
  <2> HIDE DEF x
  <2>3. AppendsFit'
    BY <1>3, <2>2
  <2> QED BY <1>1, <2>1, <2>2, <2>3, MoveStep
<1>5. ASSUME NEW n \in Names, ReceiveLookup(t, n) PROVE IInv'
  <2> DEFINE x == Lookup(t, n, ToReceive)
  <2>1. x \in Ports /\ \E i \in Indices : entry[t][i].port = x
    BY <1>5, LookupHeld DEF ReceiveLookup, ToReceive
  <2>2. /\ Goto(t, "recv", x) /\ at[t] = "user"
        /\ UNCHANGED <<spaceVars, portVars, service, dropVars>>
    BY <1>5 DEF ReceiveLookup
  <2> HIDE DEF x
  <2>3. AppendsFit'
    BY <1>3, <2>2
  <2> QED BY <1>1, <2>1, <2>2, <2>3, MoveStep
<1>6. CASE SendEnds(t) \/ ReceiveTimeout(t)
  <2>1. /\ Goto(t, "user", NoPort) /\ at[t] \in {"send", "recv"}
        /\ UNCHANGED <<spaceVars, portVars, service, dropVars>>
    BY <1>6 DEF SendEnds, ReceiveTimeout, Return
  <2>2. AppendsFit'
    BY <1>3, <2>1
  <2> QED BY <1>1, <2>1, <2>2, MoveStep
<1>7. CASE SendCheck(t)
  <2> DEFINE x == ptr[t]
  <2>1. /\ Goto(t, "append", x) /\ at[t] = "send" /\ Unlocked(x) /\ Len(queue[x]) < QLimit
        /\ UNCHANGED <<spaceVars, portVars, service, dropVars>>
    BY <1>7 DEF SendCheck
  <2>2. x \in Ports /\ \E i \in Indices : entry[t][i].port = x
    BY <2>1 DEF IInv, PointersHeld
  <2> HIDE DEF x
  <2>3. AppendsFit'
    <3>1. /\ \A u \in Tasks : at'[u] = IF u = t THEN "append" ELSE at[u]
          /\ \A u \in Tasks : ptr'[u] = IF u = t THEN x ELSE ptr[u]
      BY <1>2, <2>1
    <3> QED BY <2>1, <3>1 DEF IInv, AppendsFit, Unlocked
  <2> QED BY <1>1, <2>1, <2>2, <2>3, MoveStep
<1>8. CASE SendAppend(t)
  <2> DEFINE x == ptr[t]
  <2>1. /\ Goto(t, "user", NoPort) /\ at[t] = "append" /\ x \in Ports /\ Len(queue[x]) < QLimit
        /\ queue' = [queue EXCEPT ![x] = Append(queue[x], NoPort)]
        /\ UNCHANGED <<spaceVars, arena, refs, state, receiver, kobject, service, dropVars>>
    BY <1>8 DEF SendAppend, Return, IInv, PointersHeld, AppendsFit
  <2>2. \A u \in Tasks : u # t /\ at[u] = "append" => ptr[u] # x
    BY <2>1 DEF IInv, AppendsFit
  <2> HIDE DEF x
  <2>3. /\ Append(queue[x], NoPort) \in Seq({NoPort})
        /\ Len(Append(queue[x], NoPort)) = Len(queue[x]) + 1
    <3>1. queue[x] \in Seq({NoPort}) /\ NoPort \in {NoPort}
      BY <1>1, <2>1
    <3> QED BY <3>1, AppendProperties
  <2>4. /\ queue' \in [Ports -> Seq({NoPort})]
        /\ \A p \in Ports : p # x => queue'[p] = queue[p]
        /\ queue'[x] = Append(queue[x], NoPort)
    BY <1>1, <2>1, <2>3
  <2>5. Len(queue'[x]) <= QLimit
    BY <1>1, <2>1, <2>3, <2>4
  <2>6. \A p \in Ports : Len(queue'[p]) <= QLimit
    BY <1>1, <2>4, <2>5
  <2>7. AppendsFit'
    <3>1. /\ \A u \in Tasks : at'[u] = IF u = t THEN "user" ELSE at[u]
          /\ \A u \in Tasks : ptr'[u] = IF u = t THEN NoPort ELSE ptr[u]
      BY <1>2, <2>1
    <3>2. \A u \in Tasks : at[u] = "append" => ptr[u] \in Ports
      BY DEF IInv, PointersHeld
    <3> QED BY <2>2, <2>4, <3>1, <3>2 DEF IInv, AppendsFit
  <2> QED BY <1>1, <2>1, <2>4, <2>6, <2>7, MoveStep
<1>9. CASE Receive(t)
  <2> DEFINE x == ptr[t]
  <2>1. /\ Goto(t, "user", NoPort) /\ at[t] = "recv" /\ x \in Ports /\ queue[x] # <<>>
        /\ queue' = [queue EXCEPT ![x] = Tail(queue[x])]
        /\ UNCHANGED <<spaceVars, arena, refs, state, receiver, kobject, service, dropVars>>
    BY <1>9 DEF Receive, Dequeue, Return, IInv, PointersHeld
  <2> HIDE DEF x
  <2>2. Tail(queue[x]) \in Seq({NoPort}) /\ Len(Tail(queue[x])) = Len(queue[x]) - 1
    <3>1. queue[x] \in Seq({NoPort})
      BY <1>1, <2>1
    <3> QED BY <2>1, <3>1, HeadTailProperties
  <2>3. /\ queue' \in [Ports -> Seq({NoPort})]
        /\ \A p \in Ports : p # x => queue'[p] = queue[p]
        /\ queue'[x] = Tail(queue[x])
    BY <1>1, <2>1, <2>2
  <2>4. \A p \in Ports : Len(queue'[p]) <= Len(queue[p]) /\ Len(queue'[p]) \in Nat
    <3>1. \A p \in Ports : Len(queue'[p]) \in Nat
      BY <2>3, LenProperties
    <3>2. Len(queue'[x]) <= Len(queue[x])
      BY <1>1, <2>1, <2>2, <2>3
    <3>3. \A p \in Ports : p # x => Len(queue'[p]) = Len(queue[p])
      BY <2>3
    <3> QED BY <1>1, <3>1, <3>2, <3>3
  <2>5. \A p \in Ports : Len(queue'[p]) <= QLimit
    BY <1>1, <2>4
  <2>6. AppendsFit'
    <3>1. /\ \A u \in Tasks : at'[u] = IF u = t THEN "user" ELSE at[u]
          /\ \A u \in Tasks : ptr'[u] = IF u = t THEN NoPort ELSE ptr[u]
      BY <1>2, <2>1
    <3>2. \A u \in Tasks : at[u] = "append" => ptr[u] \in Ports
      BY DEF IInv, PointersHeld
    <3> QED BY <1>1, <2>4, <3>1, <3>2 DEF IInv, AppendsFit
  <2> QED BY <1>1, <2>1, <2>3, <2>5, <2>6, MoveStep
<1> QED BY <1>4, <1>5, <1>6, <1>7, <1>8, <1>9

(* The registry, and the ends of system calls.                             *)
LEMMA QuietStep ==
    ASSUME IInv, NEW t \in Tasks,
           \/ t = Daemon /\ \E n \in Names : Register(t, n)
           \/ LookupService(t) \/ InsertFails(t) \/ DropDone(t)
    PROVE  IInv'
<1> USE DEF portVars
<1>1. /\ queue \in [Ports -> Seq({NoPort})] /\ \A p \in Ports : Len(queue[p]) <= QLimit
      /\ service \in Ports \cup {NoPort}
      /\ service # NoPort => \E i \in Indices : entry[Daemon][i].port = service
      /\ at \in [Tasks -> Places] /\ ptr \in [Tasks -> Ports \cup {NoPort}]
  BY DEF IInv, TypeOK, SpacesTyped, PointersHeld, Places
<1>2. ASSUME NEW l, l # "append", NEW x, Goto(t, l, x), queue' = queue PROVE AppendsFit'
  <2>1. /\ \A u \in Tasks : at'[u] = IF u = t THEN l ELSE at[u]
        /\ \A u \in Tasks : ptr'[u] = IF u = t THEN x ELSE ptr[u]
    BY <1>1, <1>2 DEF Goto
  <2> QED BY <1>2, <2>1 DEF IInv, AppendsFit
<1>3. ASSUME t = Daemon, NEW n \in Names, Register(t, n) PROVE IInv'
  <2>1. service' \in Ports /\ \E i \in Indices : entry[Daemon][i].port = service'
    <3>1. service' = Lookup(t, n, ToSend) /\ Lookup(t, n, ToSend) # NoPort
      BY <1>3 DEF Register
    <3> QED BY <1>3, <3>1, LookupHeld DEF ToSend
  <2>2. /\ at[t] = "user" /\ ptr[t] = NoPort
        /\ UNCHANGED <<spaceVars, portVars, at, ptr, dropVars>>
    BY <1>3 DEF Register, IInv, PointersHeld
  <2>3. Goto(t, "user", NoPort)
    BY <1>1, <2>2 DEF Goto
  <2>4. AppendsFit'
    BY <1>2, <2>2, <2>3
  <2> QED BY <1>1, <2>1, <2>2, <2>3, <2>4, MoveStep
<1>4. CASE LookupService(t)
  <2>1. /\ at[t] = "user" /\ service # NoPort /\ Goto(t, "insert", service)
        /\ UNCHANGED <<spaceVars, portVars, service, dropVars>>
    BY <1>4 DEF LookupService
  <2>2. AppendsFit'
    BY <1>2, <2>1
  <2> QED BY <1>1, <2>1, <2>2, MoveStep
<1>5. CASE InsertFails(t)
  <2>1. /\ at[t] = "insert" /\ Goto(t, "user", NoPort)
        /\ UNCHANGED <<spaceVars, portVars, service, dropVars>>
    BY <1>5 DEF InsertFails, Return
  <2>2. AppendsFit'
    BY <1>2, <2>1
  <2> QED BY <1>1, <2>1, <2>2, MoveStep
<1>6. CASE DropDone(t)
  <2>1. /\ ptr[t] = NoPort /\ doomed[t] = {} /\ owed[t] = Nothing
        /\ UNCHANGED <<spaceVars, portVars, service, dropVars>>
        /\ \/ at[t] = "drop" /\ Goto(t, "user", NoPort)
           \/ at[t] = "exit" /\ Goto(t, "dead", NoPort)
    BY <1>6 DEF DropDone, Return
  <2>2. AppendsFit'
    BY <1>2, <2>1
  <2> QED BY <1>1, <2>1, <2>2, MoveStep
<1> QED BY <1>3, <1>4, <1>5, <1>6

-----------------------------------------------------------------------------
(* Steps that take a name.                                                 *)

(* space_alloc_name finds an index that is empty, and gives it a name of a *)
(* generation that is not lower.                                           *)
LEMMA FreshName ==
    ASSUME IInv, NEW t \in Tasks, NEW n \in Names, Active(t), NewName(t, n)
    PROVE  /\ n[2] \in Indices /\ n[1] \in 0 .. MaxGen /\ entry[t][n[2]] = Empty
           /\ n[1] >= gen[t][n[2]] /\ n[2] <= used[t]
<1>1. /\ n = <<n[1], n[2]>> /\ n[2] \in Indices /\ n[1] \in 0 .. MaxGen
      /\ gen[t][n[2]] \in Nat /\ used[t] \in Nat
  BY IndexFacts DEF IInv, TypeOK
<1>2. CASE n[2] \in names[t] /\ n[1] = gen[t][n[2]] + 1
  <2>1. n[2] < used[t]
    BY <1>2 DEF IInv, TablesShaped
  <2>2. entry[t][n[2]] = Empty
    BY <1>1, <1>2 DEF IInv, TablesShaped
  <2>3. n[1] >= gen[t][n[2]]
    BY <1>1, <1>2
  <2>4. n[2] <= used[t]
    BY <1>1, <2>1, IndexFacts
  <2> QED BY <1>1, <2>2, <2>3, <2>4
<1>3. CASE n = <<gen[t][used[t]], used[t]>>
  <2>1. n[2] = used[t] /\ n[1] = gen[t][used[t]]
    BY <1>3
  <2> QED BY <1>1, <2>1 DEF IInv, TablesShaped
<1> QED BY <1>2, <1>3 DEF NewName

(* What TakeName does, entry by entry.                                     *)
LEMMA TakeFacts ==
    ASSUME IInv, NEW t \in Tasks, NEW n \in Names, NEW e \in Entries, Active(t), TakeName(t, n, e)
    PROVE  /\ n[2] \in Indices /\ n[1] \in 0 .. MaxGen /\ entry[t][n[2]] = Empty
           /\ entry' \in [Tasks -> [Indices -> Entries]]
           /\ gen' \in [Tasks -> [Indices -> 0 .. MaxGen + 1]]
           /\ used' \in [Tasks -> 1 .. Size] /\ names' \in [Tasks -> SUBSET Indices]
           /\ freed' = freed
           /\ \A u \in Tasks, j \in Indices : entry'[u][j] = IF u = t /\ j = n[2] THEN e ELSE entry[u][j]
           /\ \A u \in Tasks, j \in Indices : gen'[u][j] = IF u = t /\ j = n[2] THEN n[1] ELSE gen[u][j]
           /\ \A u \in Tasks, j \in Indices : gen'[u][j] >= gen[u][j]
           /\ \A u \in Tasks : used'[u] >= used[u] /\ names'[u] \subseteq names[u]
           /\ \A u \in Tasks : u # t => used'[u] = used[u] /\ names'[u] = names[u]
           /\ n[2] < used'[t] /\ n[2] \notin names'[t]
<1>1. /\ n[2] \in Indices /\ n[1] \in 0 .. MaxGen /\ entry[t][n[2]] = Empty
      /\ n[1] >= gen[t][n[2]] /\ n[2] <= used[t]
  BY FreshName DEF TakeName
<1>2. /\ entry \in [Tasks -> [Indices -> Entries]] /\ gen \in [Tasks -> [Indices -> 0 .. MaxGen + 1]]
      /\ used \in [Tasks -> 1 .. Size] /\ names \in [Tasks -> SUBSET Indices]
  BY DEF IInv, TypeOK
<1>3. /\ entry' \in [Tasks -> [Indices -> Entries]]
      /\ \A u \in Tasks, j \in Indices : entry'[u][j] = IF u = t /\ j = n[2] THEN e ELSE entry[u][j]
  BY <1>1, <1>2 DEF TakeName
<1>4. n[1] \in 0 .. MaxGen + 1
  BY <1>1, IndexFacts
<1>5. /\ gen' \in [Tasks -> [Indices -> 0 .. MaxGen + 1]]
      /\ \A u \in Tasks, j \in Indices : gen'[u][j] = IF u = t /\ j = n[2] THEN n[1] ELSE gen[u][j]
  BY <1>1, <1>2, <1>4 DEF TakeName
<1>6. \A u \in Tasks, j \in Indices : gen'[u][j] >= gen[u][j]
  <2>1. \A u \in Tasks, j \in Indices : gen[u][j] \in Nat
    BY <1>2, IndexFacts
  <2> QED BY <1>1, <1>5, <2>1
<1>7. /\ names' \in [Tasks -> SUBSET Indices] /\ names'[t] = names[t] \ {n[2]}
      /\ \A u \in Tasks : u # t => names'[u] = names[u]
  BY <1>1, <1>2 DEF TakeName
<1>8. /\ used' = [used EXCEPT ![t] = IF n[2] = used[t] THEN used[t] + 1 ELSE used[t]]
      /\ used[t] \in 1 .. Size
  BY <1>2 DEF TakeName
<1>9. (IF n[2] = used[t] THEN used[t] + 1 ELSE used[t]) \in 1 .. Size
  BY <1>1, <1>8, IndexFacts
<1>10. /\ used' \in [Tasks -> 1 .. Size] /\ \A u \in Tasks : u # t => used'[u] = used[u]
       /\ used'[t] = IF n[2] = used[t] THEN used[t] + 1 ELSE used[t]
  BY <1>2, <1>8, <1>9
<1>11. used'[t] >= used[t] /\ n[2] < used'[t]
  BY <1>1, <1>8, <1>10, IndexFacts
<1>12. \A u \in Tasks : used'[u] >= used[u]
  BY <1>2, <1>10, <1>11, IndexFacts
<1> QED BY <1>1, <1>3, <1>5, <1>6, <1>7, <1>10, <1>11, <1>12 DEF TakeName

(* A table stays in shape when a name is taken in it.                      *)
LEMMA TakeTables ==
    ASSUME IInv, NEW t \in Tasks, NEW n \in Names, NEW e \in Entries, Active(t), TakeName(t, n, e),
           \A u \in Tasks : Active(u)' <=> Active(u),
           \A u \in Tasks : at'[u] = "none" <=> at[u] = "none"
    PROVE  TablesShaped' /\ NamesPassed'
<1>1. /\ n[2] \in Indices /\ n[1] \in 0 .. MaxGen /\ freed' = freed
      /\ used' \in [Tasks -> 1 .. Size] /\ gen' \in [Tasks -> [Indices -> 0 .. MaxGen + 1]]
      /\ \A u \in Tasks, j \in Indices : entry'[u][j] = IF u = t /\ j = n[2] THEN e ELSE entry[u][j]
      /\ \A u \in Tasks, j \in Indices : gen'[u][j] = IF u = t /\ j = n[2] THEN n[1] ELSE gen[u][j]
      /\ \A u \in Tasks, j \in Indices : gen'[u][j] >= gen[u][j]
      /\ \A u \in Tasks : used'[u] >= used[u] /\ names'[u] \subseteq names[u]
      /\ \A u \in Tasks : u # t => used'[u] = used[u] /\ names'[u] = names[u]
      /\ n[2] < used'[t] /\ n[2] \notin names'[t]
  BY TakeFacts
<1>2. /\ \A u \in Tasks : used[u] \in Nat /\ used'[u] \in Nat
      /\ \A u \in Tasks : names[u] \subseteq Indices
      /\ \A u \in Tasks, j \in Indices : gen[u][j] \in Nat /\ gen'[u][j] \in Nat
      /\ \A u \in Tasks : freed[u] \subseteq Names
  <2>1. /\ gen \in [Tasks -> [Indices -> 0 .. MaxGen + 1]] /\ used \in [Tasks -> 1 .. Size]
        /\ names \in [Tasks -> SUBSET Indices] /\ \A u \in Tasks : freed[u] \subseteq Names
    BY DEF IInv, TypeOK
  <2>2. \A u \in Tasks : used[u] \in Nat /\ used'[u] \in Nat
    BY <1>1, <2>1, IndexFacts
  <2>3. \A u \in Tasks, j \in Indices : gen[u][j] \in Nat /\ gen'[u][j] \in Nat
    BY <1>1, <2>1, IndexFacts
  <2> QED BY <2>1, <2>2, <2>3
<1>3. ASSUME NEW u \in Tasks, NEW i \in Indices, entry'[u][i] # Empty
      PROVE  Active(u)' /\ i < used'[u] /\ i \notin names'[u] /\ gen'[u][i] <= MaxGen
  <2>1. CASE u = t /\ i = n[2]
    BY <1>1, <2>1, IndexFacts
  <2>2. CASE ~(u = t /\ i = n[2])
    <3>1. Active(u) /\ i < used[u] /\ i \notin names[u] /\ gen[u][i] <= MaxGen
      BY <1>1, <1>3, <2>2 DEF IInv, TablesShaped
    <3>2. i < used'[u]
      BY <1>1, <1>2, <3>1, IndexFacts
    <3> QED BY <1>1, <2>2, <3>1, <3>2
  <2> QED BY <2>1, <2>2
<1>4. ASSUME NEW u \in Tasks, at'[u] = "none"
      PROVE  names'[u] = {} /\ freed'[u] = {} /\ \A i \in Indices : gen'[u][i] = 0
  <2>1. at[u] = "none" /\ u # t
    BY <1>4 DEF Active
  <2> QED BY <1>1, <2>1 DEF IInv, TablesShaped
<1>5. ASSUME NEW u \in Tasks, Active(u)', NEW i \in names'[u] PROVE i < used'[u]
  <2>1. i \in names[u] /\ i \in Indices /\ Active(u)
    BY <1>1, <1>2, <1>5
  <2>2. i < used[u]
    BY <2>1 DEF IInv, TablesShaped
  <2> QED BY <1>1, <1>2, <2>1, <2>2, IndexFacts
<1>6. TablesShaped'
  BY <1>3, <1>4, <1>5 DEF TablesShaped
<1>7. ASSUME NEW u \in Tasks, NEW m \in freed'[u] PROVE m[1] < gen'[u][m[2]]
  <2>1. m \in Names /\ m[1] < gen[u][m[2]]
    BY <1>1, <1>2 DEF IInv, NamesPassed
  <2>2. m[2] \in Indices /\ m[1] \in Nat
    BY <2>1, IndexFacts
  <2> QED BY <1>1, <1>2, <2>1, <2>2
<1> QED BY <1>6, <1>7 DEF NamesPassed

(* The rights of every port, when a name is taken: one more for the port   *)
(* of the new entry; the other rights are as they were.                    *)
LEMMA TakeRights ==
    ASSUME IInv, NEW t \in Tasks, NEW n \in Names, NEW e \in Entries, e # Empty, Active(t),
           TakeName(t, n, e)
    PROVE  /\ \A u \in Tasks, j \in Indices : entry[u][j] # Empty => entry'[u][j] = entry[u][j]
           /\ \A q \in Ports \ {e.port} : RightsIn(entry', q) = RightsIn(entry, q)
           /\ Cardinality(RightsIn(entry', e.port)) = Cardinality(RightsIn(entry, e.port)) + 1
<1>1. /\ n[2] \in Indices /\ entry[t][n[2]] = Empty
      /\ \A u \in Tasks, j \in Indices : entry'[u][j] = IF u = t /\ j = n[2] THEN e ELSE entry[u][j]
  BY TakeFacts
<1>2. entry[t][n[2]].port = NoPort /\ e.port \in Ports
  BY <1>1, EntryFacts DEF Empty
<1>3. \A q \in Ports : <<t, n[2]>> \notin RightsIn(entry, q)
  <2> SUFFICES ASSUME NEW q \in Ports, <<t, n[2]>> \in RightsIn(entry, q) PROVE FALSE
    OBVIOUS
  <2>1. entry[t][n[2]].port = q
    BY DEF RightsIn
  <2> QED BY <1>2, <2>1, PortAssumption
<1>4. ASSUME NEW q \in Ports \ {e.port} PROVE RightsIn(entry', q) = RightsIn(entry, q)
  <2>1. ASSUME NEW h \in Tasks \X Indices
        PROVE  entry'[h[1]][h[2]].port = q <=> entry[h[1]][h[2]].port = q
    <3>1. h[1] \in Tasks /\ h[2] \in Indices
      OBVIOUS
    <3>2. CASE h[1] = t /\ h[2] = n[2]
      BY <1>1, <1>2, <3>1, <3>2, PortAssumption
    <3>3. CASE ~(h[1] = t /\ h[2] = n[2])
      BY <1>1, <3>1, <3>3
    <3> QED BY <3>2, <3>3
  <2> QED BY <2>1 DEF RightsIn
<1>5. RightsIn(entry', e.port) = RightsIn(entry, e.port) \cup {<<t, n[2]>>}
  <2>1. ASSUME NEW h \in Tasks \X Indices
        PROVE  entry'[h[1]][h[2]].port = e.port <=> entry[h[1]][h[2]].port = e.port \/ h = <<t, n[2]>>
    <3>1. h[1] \in Tasks /\ h[2] \in Indices /\ h = <<h[1], h[2]>>
      OBVIOUS
    <3>2. CASE h[1] = t /\ h[2] = n[2]
      BY <1>1, <3>1, <3>2
    <3>3. CASE ~(h[1] = t /\ h[2] = n[2])
      BY <1>1, <3>1, <3>3
    <3> QED BY <3>2, <3>3
  <2>2. <<t, n[2]>> \in Tasks \X Indices
    BY <1>1
  <2> QED BY <2>1, <2>2 DEF RightsIn
<1>6. Cardinality(RightsIn(entry', e.port)) = Cardinality(RightsIn(entry, e.port)) + 1
  BY <1>2, <1>3, <1>5, CountsFinite, FS_AddElement
<1> QED BY <1>1, <1>4, <1>6

(* The rights that a step leaves in place hold the pointers they held.     *)
LEMMA PointersStay ==
    ASSUME NEW u \in Tasks,
           \A i \in Indices : entry[u][i] # Empty => entry'[u][i] = entry[u][i]
    PROVE  \A q \in Ports : (\E i \in Indices : entry[u][i].port = q)
                               => \E i \in Indices : entry'[u][i].port = q
<1> SUFFICES ASSUME NEW q \in Ports, NEW i \in Indices, entry[u][i].port = q
             PROVE  \E j \in Indices : entry'[u][j].port = q
  OBVIOUS
<1>1. entry[u][i] # Empty
  BY PortAssumption DEF Empty
<1> QED BY <1>1

(* ipc_port_alloc.                                                         *)
LEMMA AllocStep ==
    ASSUME IInv, NEW t \in Tasks, NEW p \in Ports, NEW n \in Names, Alloc(t, p, n)
    PROVE  IInv'
<1> DEFINE e == [port |-> p, bits |-> "recv"]
<1>1. /\ e \in Entries /\ e # Empty /\ e.port = p /\ e.bits = "recv"
  BY PortAssumption DEF Entries, Empty
<1>2. /\ at[t] = "user" /\ p \in arena /\ arena' = arena \ {p} /\ TakeName(t, n, e)
      /\ state' = [state EXCEPT ![p] = "ACTIVE"]
      /\ receiver' = [receiver EXCEPT ![p] = [task |-> t, name |-> n]]
      /\ queue' = [queue EXCEPT ![p] = <<>>] /\ refs' = [refs EXCEPT ![p] = 1]
      /\ kobject' = kobject /\ service' = service /\ at' = at /\ ptr' = ptr
      /\ doomed' = doomed /\ owed' = owed
  BY DEF Alloc, NewPort, dropVars
<1> HIDE DEF e
<1>3. Active(t)
  BY <1>2 DEF Active
<1>4. /\ n[2] \in Indices /\ n[1] \in 0 .. MaxGen /\ entry[t][n[2]] = Empty
      /\ entry' \in [Tasks -> [Indices -> Entries]]
      /\ gen' \in [Tasks -> [Indices -> 0 .. MaxGen + 1]]
      /\ used' \in [Tasks -> 1 .. Size] /\ names' \in [Tasks -> SUBSET Indices] /\ freed' = freed
      /\ \A u \in Tasks, j \in Indices : entry'[u][j] = IF u = t /\ j = n[2] THEN e ELSE entry[u][j]
      /\ \A u \in Tasks, j \in Indices : gen'[u][j] = IF u = t /\ j = n[2] THEN n[1] ELSE gen[u][j]
      /\ \A u \in Tasks, j \in Indices : gen'[u][j] >= gen[u][j]
  BY <1>1, <1>2, <1>3, TakeFacts
<1>5. /\ \A u \in Tasks, j \in Indices : entry[u][j] # Empty => entry'[u][j] = entry[u][j]
      /\ \A q \in Ports \ {p} : RightsIn(entry', q) = RightsIn(entry, q)
      /\ Cardinality(RightsIn(entry', p)) = Cardinality(RightsIn(entry, p)) + 1
  BY <1>1, <1>2, <1>3, TakeRights
<1>6. /\ state' \in [Ports -> {"unused", "ACTIVE", "ZOMBIE", "DEAD"}]
      /\ \A q \in Ports : state'[q] = IF q = p THEN "ACTIVE" ELSE state[q]
      /\ receiver' \in [Ports -> [task : Tasks, name : Names] \cup {Nobody}]
      /\ \A q \in Ports : receiver'[q] = IF q = p THEN [task |-> t, name |-> n] ELSE receiver[q]
      /\ queue' \in [Ports -> Seq({NoPort})]
      /\ \A q \in Ports : queue'[q] = IF q = p THEN <<>> ELSE queue[q]
      /\ refs' \in [Ports -> Nat] /\ \A q \in Ports : refs'[q] = IF q = p THEN 1 ELSE refs[q]
      /\ arena' \subseteq Ports
  BY <1>2 DEF IInv, TypeOK, SpacesTyped
<1>7. \A q \in Ports : Len(queue'[q]) <= QLimit
  <2>1. Len(<<>>) = 0 /\ 0 <= QLimit
    BY IndexFacts
  <2>2. \A q \in Ports : Len(queue[q]) <= QLimit
    BY DEF IInv, TypeOK
  <2> QED BY <1>6, <2>1, <2>2
<1>8. TypeOK' /\ SpacesTyped'
  <2>1. SpacesTyped'
    BY <1>4, <1>6 DEF IInv, SpacesTyped
  <2>2. \A u \in Tasks : freed'[u] \subseteq Names
    BY <1>4 DEF IInv, TypeOK
  <2>3. \A q \in Ports : receiver'[q] = Nobody \/ receiver'[q] \in [task : Tasks, name : Names]
    BY <1>6
  <2>4. /\ kobject' \in [Ports -> Tasks \cup {NoTask}] /\ service' \in Ports \cup {NoPort}
        /\ at' \in [Tasks -> {"none", "user", "send", "append", "recv", "insert", "drop", "exit", "dead"}]
        /\ ptr' \in [Tasks -> Ports \cup {NoPort}] /\ doomed' \in [Tasks -> SUBSET Ports]
        /\ owed' \in [Tasks -> [Ports -> Nat]]
    BY <1>2 DEF IInv, TypeOK
  <2> QED BY <1>4, <1>6, <1>7, <2>1, <2>2, <2>3, <2>4 DEF TypeOK
<1>9. TablesShaped' /\ NamesPassed'
  BY <1>1, <1>2, <1>3, TakeTables DEF Active
<1>10. /\ \A u \in Tasks, j \in Indices : entry[u][j].port # p
       /\ \A u \in Tasks : ~Destroys(u, p)
       /\ refs[p] = 0 /\ OwedIn(owed, p) = {} /\ DestroyersIn(doomed, at, ptr, p) = {}
       /\ RightsIn(entry, p) = {}
  BY <1>2, ArenaFree
<1>11. ReceiversRecorded'
  <2> SUFFICES ASSUME NEW u \in Tasks, NEW j \in Indices, entry'[u][j].bits = "recv"
               PROVE  /\ state'[entry'[u][j].port] = "ACTIVE"
                      /\ receiver'[entry'[u][j].port] = [task |-> u, name |-> <<gen'[u][j], j>>]
    BY DEF ReceiversRecorded
  <2>1. CASE u = t /\ j = n[2]
    <3>1. entry'[u][j] = e /\ gen'[u][j] = n[1] /\ n = <<gen'[u][j], j>>
      BY <1>4, <2>1, IndexFacts
    <3> QED BY <1>1, <1>6, <2>1, <3>1
  <2>2. CASE ~(u = t /\ j = n[2])
    <3>1. entry'[u][j] = entry[u][j] /\ gen'[u][j] = gen[u][j]
      BY <1>4, <2>2
    <3>2. /\ entry[u][j].port \in Ports /\ state[entry[u][j].port] = "ACTIVE"
          /\ receiver[entry[u][j].port] = [task |-> u, name |-> <<gen[u][j], j>>]
      BY <3>1, ReceiveRight
    <3>3. entry[u][j].port # p
      BY <1>10
    <3> QED BY <1>6, <3>1, <3>2, <3>3
  <2> QED BY <2>1, <2>2
<1>12. \A u \in Tasks, q \in Ports : Destroys(u, q)' <=> Destroys(u, q)
  BY <1>2 DEF Destroys
<1>13. DestroyersOwn'
  <2> SUFFICES ASSUME NEW q \in Ports, NEW u \in Tasks, Destroys(u, q)
               PROVE  /\ at'[u] \in {"drop", "exit"}
                      /\ receiver'[q] # Nobody /\ receiver'[q].task = u
                      /\ \A v \in Tasks, i \in Indices : entry'[v][i] # [port |-> q, bits |-> "recv"]
                      /\ at'[u] = "drop" => gen'[u][receiver'[q].name[2]] > receiver'[q].name[1]
                      /\ q \in doomed'[u] => state'[q] = "ACTIVE" /\ ptr'[u] # q
                      /\ ptr'[u] = q => state'[q] = "ZOMBIE"
    BY <1>12 DEF DestroyersOwn
  <2>1. q # p
    BY <1>10
  <2>2. /\ at[u] \in {"drop", "exit"} /\ receiver[q] # Nobody /\ receiver[q].task = u
        /\ receiver[q].name[2] \in Indices
        /\ \A v \in Tasks, i \in Indices : entry[v][i] # [port |-> q, bits |-> "recv"]
        /\ at[u] = "drop" => gen[u][receiver[q].name[2]] > receiver[q].name[1]
        /\ q \in doomed[u] => state[q] = "ACTIVE" /\ ptr[u] # q
        /\ ptr[u] = q => state[q] = "ZOMBIE"
    BY Destroyer
  <2>3. receiver'[q] = receiver[q] /\ state'[q] = state[q]
    BY <1>6, <2>1
  <2>4. \A v \in Tasks, i \in Indices : entry'[v][i] # [port |-> q, bits |-> "recv"]
    <3>1. e # [port |-> q, bits |-> "recv"]
      BY <1>1, <2>1
    <3>2. ASSUME NEW v \in Tasks, NEW i \in Indices
          PROVE  entry'[v][i] # [port |-> q, bits |-> "recv"]
      <4>1. entry'[v][i] = e \/ entry'[v][i] = entry[v][i]
        BY <1>4
      <4> QED BY <2>2, <3>1, <4>1
    <3> QED BY <3>2
  <2>5. u # t
    BY <1>2, <2>2
  <2>6. gen'[u][receiver[q].name[2]] = gen[u][receiver[q].name[2]]
    BY <1>4, <2>2, <2>5
  <2> QED BY <1>2, <2>2, <2>3, <2>4, <2>6
<1>14. LiveOwned'
  <2> SUFFICES ASSUME NEW q \in Ports, state'[q] = "ACTIVE"
               PROVE  \/ \E u \in Tasks : Destroys(u, q)
                      \/ \E u \in Tasks, i \in Indices : entry'[u][i] = [port |-> q, bits |-> "recv"]
    BY <1>12 DEF LiveOwned
  <2>1. CASE q = p
    BY <1>4, <2>1 DEF e
  <2>2. CASE q # p
    <3>1. [port |-> q, bits |-> "recv"] # Empty
      BY DEF Empty
    <3>2. state[q] = "ACTIVE"
      BY <1>6, <2>2
    <3>3. CASE \E u \in Tasks : Destroys(u, q)
      BY <3>3
    <3>4. CASE \E u \in Tasks, i \in Indices : entry[u][i] = [port |-> q, bits |-> "recv"]
      <4>1. PICK u \in Tasks, i \in Indices : entry[u][i] = [port |-> q, bits |-> "recv"]
        BY <3>4
      <4>2. entry'[u][i] = [port |-> q, bits |-> "recv"]
        BY <1>5, <3>1, <4>1
      <4> QED BY <4>2
    <3> QED BY <3>2, <3>3, <3>4 DEF IInv, LiveOwned
  <2> QED BY <2>1, <2>2
<1>15. TaskPorts'
  <2>1. ASSUME NEW u \in Tasks, Active(u)
        PROVE  entry'[u][TaskIndex].bits = "recv" /\ kobject[entry'[u][TaskIndex].port] = u
    <3>1. entry[u][TaskIndex].bits = "recv" /\ kobject[entry[u][TaskIndex].port] = u
      BY <2>1 DEF IInv, TaskPorts
    <3>2. entry[u][TaskIndex] # Empty
      BY <3>1 DEF Empty
    <3> QED BY <1>5, <3>1, <3>2, IndexFacts
  <2> QED BY <1>2, <2>1 DEF IInv, TaskPorts, Active
<1>16. NothingOwed'
  BY <1>2, <1>12 DEF IInv, NothingOwed
<1>17. PointersHeld'
  <2>1. \A u \in Tasks, q \in Ports : (\E i \in Indices : entry[u][i].port = q)
                                         => \E i \in Indices : entry'[u][i].port = q
    BY <1>5, PointersStay
  <2>2. /\ \A u \in Tasks : at[u] \in {"send", "append", "recv"} =>
              ptr[u] \in Ports /\ \E i \in Indices : entry'[u][i].port = ptr[u]
        /\ \A u \in Tasks : at[u] = "insert" =>
              ptr[u] \in Ports /\ \E i \in Indices : entry'[Daemon][i].port = ptr[u]
        /\ service # NoPort => \E i \in Indices : entry'[Daemon][i].port = service
    <3>1. service # NoPort => service \in Ports
      BY DEF IInv, TypeOK
    <3>2. /\ \A u \in Tasks : at[u] \in {"send", "append", "recv"} =>
                ptr[u] \in Ports /\ \E i \in Indices : entry[u][i].port = ptr[u]
          /\ \A u \in Tasks : at[u] = "insert" =>
                ptr[u] \in Ports /\ \E i \in Indices : entry[Daemon][i].port = ptr[u]
          /\ service # NoPort => \E i \in Indices : entry[Daemon][i].port = service
      BY DEF IInv, PointersHeld
    <3> QED BY <2>1, <3>1, <3>2, TaskAssumption
  <2> QED BY <1>2, <2>2 DEF IInv, PointersHeld
<1>18. AppendsFit'
  <2>1. \A u \in Tasks : at[u] = "append" => ptr[u] \in Ports
    BY DEF IInv, PointersHeld
  <2>2. \A u \in Tasks : at[u] = "append" => Len(queue'[ptr[u]]) < QLimit
    <3>1. Len(<<>>) = 0 /\ 0 < QLimit
      BY IndexFacts
    <3>2. \A u \in Tasks : at[u] = "append" => Len(queue[ptr[u]]) < QLimit
      BY DEF IInv, AppendsFit
    <3> QED BY <1>6, <2>1, <3>1, <3>2
  <2> QED BY <1>2, <2>2 DEF IInv, AppendsFit
<1>19. RefsExact'
  <2>1. RefsFit(entry, doomed, at, ptr, owed, refs, arena)
    BY RefsFitNow DEF IInv
  <2>2. ASSUME NEW q \in Ports
        PROVE  /\ refs'[q] = Cardinality(RightsIn(entry', q)) + Cardinality(DestroyersIn(doomed, at, ptr, q))
                             + Cardinality(OwedIn(owed, q))
               /\ q \in arena' <=> refs'[q] = 0
    <3>1. CASE q = p
      <4>1. /\ Cardinality(RightsIn(entry, p)) = 0 /\ Cardinality(OwedIn(owed, p)) = 0
            /\ Cardinality(DestroyersIn(doomed, at, ptr, p)) = 0
        BY <1>10, FS_EmptySet
      <4> QED BY <1>2, <1>5, <1>6, <3>1, <4>1
    <3>2. CASE q # p
      BY <1>2, <1>5, <1>6, <2>1, <3>2 DEF RefsFit
    <3> QED BY <3>1, <3>2
  <2>3. RefsFit(entry', doomed', at', ptr', owed', refs', arena')
    BY <1>2, <2>2 DEF RefsFit
  <2> QED BY <2>3, RefsFitNext
<1> QED BY <1>8, <1>9, <1>11, <1>13, <1>14, <1>15, <1>16, <1>17, <1>18, <1>19 DEF IInv

(* sys_mach_lookup_service takes a reference with the name.                *)
LEMMA InsertStep ==
    ASSUME IInv, NEW t \in Tasks, NEW n \in Names, InsertService(t, n)
    PROVE  IInv'
<1> DEFINE p == ptr[t]
           e == [port |-> p, bits |-> "send"]
<1>1. p \in Ports /\ \E i \in Indices : entry[Daemon][i].port = p
  BY DEF InsertService, IInv, PointersHeld
<1>2. e \in Entries /\ e # Empty /\ e.port = p /\ e.bits = "send"
  BY <1>1, PortAssumption DEF Entries, Empty
<1>3. /\ at[t] = "insert" /\ TakeName(t, n, e) /\ refs' = [refs EXCEPT ![p] = refs[p] + 1]
      /\ at' = [at EXCEPT ![t] = "user"] /\ ptr' = [ptr EXCEPT ![t] = NoPort]
      /\ arena' = arena /\ state' = state /\ receiver' = receiver /\ queue' = queue
      /\ kobject' = kobject /\ service' = service /\ doomed' = doomed /\ owed' = owed
  BY DEF InsertService, Return, Goto, dropVars
<1> HIDE DEF e, p
<1>4. Active(t)
  BY <1>3 DEF Active
<1>5. /\ n[2] \in Indices /\ n[1] \in 0 .. MaxGen /\ entry[t][n[2]] = Empty
      /\ entry' \in [Tasks -> [Indices -> Entries]]
      /\ gen' \in [Tasks -> [Indices -> 0 .. MaxGen + 1]]
      /\ used' \in [Tasks -> 1 .. Size] /\ names' \in [Tasks -> SUBSET Indices] /\ freed' = freed
      /\ \A u \in Tasks, j \in Indices : entry'[u][j] = IF u = t /\ j = n[2] THEN e ELSE entry[u][j]
      /\ \A u \in Tasks, j \in Indices : gen'[u][j] = IF u = t /\ j = n[2] THEN n[1] ELSE gen[u][j]
      /\ \A u \in Tasks, j \in Indices : gen'[u][j] >= gen[u][j]
  BY <1>2, <1>3, <1>4, TakeFacts
<1>6. /\ \A u \in Tasks, j \in Indices : entry[u][j] # Empty => entry'[u][j] = entry[u][j]
      /\ \A q \in Ports \ {p} : RightsIn(entry', q) = RightsIn(entry, q)
      /\ Cardinality(RightsIn(entry', p)) = Cardinality(RightsIn(entry, p)) + 1
  BY <1>2, <1>3, <1>4, TakeRights
<1>7. /\ at' \in [Tasks -> {"none", "user", "send", "append", "recv", "insert", "drop", "exit", "dead"}]
      /\ ptr' \in [Tasks -> Ports \cup {NoPort}]
      /\ \A u \in Tasks : at'[u] = IF u = t THEN "user" ELSE at[u]
      /\ \A u \in Tasks : ptr'[u] = IF u = t THEN NoPort ELSE ptr[u]
      /\ \A q \in Ports : refs[q] \in Nat
      /\ refs' \in [Ports -> Nat] /\ \A q \in Ports : refs'[q] = IF q = p THEN refs[q] + 1 ELSE refs[q]
  BY <1>1, <1>3 DEF IInv, TypeOK
<1>8. TypeOK' /\ SpacesTyped'
  <2>1. SpacesTyped'
    BY <1>3, <1>5 DEF IInv, SpacesTyped
  <2>2. /\ \A u \in Tasks : freed'[u] \subseteq Names
        /\ arena' \subseteq Ports /\ state' \in [Ports -> {"unused", "ACTIVE", "ZOMBIE", "DEAD"}]
        /\ \A q \in Ports : receiver'[q] = Nobody \/ receiver'[q] \in [task : Tasks, name : Names]
        /\ \A q \in Ports : Len(queue'[q]) <= QLimit
        /\ kobject' \in [Ports -> Tasks \cup {NoTask}] /\ service' \in Ports \cup {NoPort}
        /\ doomed' \in [Tasks -> SUBSET Ports] /\ owed' \in [Tasks -> [Ports -> Nat]]
    BY <1>3, <1>5 DEF IInv, TypeOK
  <2> QED BY <1>5, <1>7, <2>1, <2>2 DEF TypeOK
<1>9. \A u \in Tasks : /\ at'[u] \notin {"none", "exit", "dead"} <=> Active(u)
                       /\ at'[u] = "none" <=> at[u] = "none"
  BY <1>3, <1>7 DEF Active
<1>10. TablesShaped' /\ NamesPassed'
  <2>1. \A u \in Tasks : Active(u)' <=> Active(u)
    BY <1>9 DEF Active
  <2> QED BY <1>2, <1>3, <1>4, <1>9, <2>1, TakeTables
<1>11. ReceiversRecorded'
  <2> SUFFICES ASSUME NEW u \in Tasks, NEW j \in Indices, entry'[u][j].bits = "recv"
               PROVE  /\ state[entry'[u][j].port] = "ACTIVE"
                      /\ receiver[entry'[u][j].port] = [task |-> u, name |-> <<gen'[u][j], j>>]
    BY <1>3 DEF ReceiversRecorded
  <2>1. ~(u = t /\ j = n[2])
    BY <1>2, <1>5
  <2>2. entry'[u][j] = entry[u][j] /\ gen'[u][j] = gen[u][j]
    BY <1>5, <2>1
  <2> QED BY <2>2, ReceiveRight
<1>12. \A u \in Tasks, q \in Ports : Destroys(u, q)' <=> Destroys(u, q)
  BY <1>3, <1>7 DEF Destroys
<1>13. DestroyersOwn'
  <2> SUFFICES ASSUME NEW q \in Ports, NEW u \in Tasks, Destroys(u, q)
               PROVE  /\ at'[u] \in {"drop", "exit"}
                      /\ receiver'[q] # Nobody /\ receiver'[q].task = u
                      /\ \A v \in Tasks, i \in Indices : entry'[v][i] # [port |-> q, bits |-> "recv"]
                      /\ at'[u] = "drop" => gen'[u][receiver'[q].name[2]] > receiver'[q].name[1]
                      /\ q \in doomed'[u] => state'[q] = "ACTIVE" /\ ptr'[u] # q
                      /\ ptr'[u] = q => state'[q] = "ZOMBIE"
    BY <1>12 DEF DestroyersOwn
  <2>1. /\ at[u] \in {"drop", "exit"} /\ receiver[q] # Nobody /\ receiver[q].task = u
        /\ receiver[q].name[2] \in Indices
        /\ \A v \in Tasks, i \in Indices : entry[v][i] # [port |-> q, bits |-> "recv"]
        /\ at[u] = "drop" => gen[u][receiver[q].name[2]] > receiver[q].name[1]
        /\ q \in doomed[u] => state[q] = "ACTIVE" /\ ptr[u] # q
        /\ ptr[u] = q => state[q] = "ZOMBIE"
    BY Destroyer
  <2>2. u # t
    BY <1>3, <2>1
  <2>3. at'[u] = at[u] /\ ptr'[u] = ptr[u]
    BY <1>7, <2>2
  <2>4. \A v \in Tasks, i \in Indices : entry'[v][i] # [port |-> q, bits |-> "recv"]
    <3>1. e # [port |-> q, bits |-> "recv"]
      BY <1>2
    <3>2. ASSUME NEW v \in Tasks, NEW i \in Indices
          PROVE  entry'[v][i] # [port |-> q, bits |-> "recv"]
      <4>1. entry'[v][i] = e \/ entry'[v][i] = entry[v][i]
        BY <1>5
      <4> QED BY <2>1, <3>1, <4>1
    <3> QED BY <3>2
  <2>5. gen'[u][receiver[q].name[2]] = gen[u][receiver[q].name[2]]
    BY <1>5, <2>1, <2>2
  <2> QED BY <1>3, <2>1, <2>3, <2>4, <2>5
<1>14. LiveOwned'
  <2> SUFFICES ASSUME NEW q \in Ports, state[q] = "ACTIVE"
               PROVE  \/ \E u \in Tasks : Destroys(u, q)
                      \/ \E u \in Tasks, i \in Indices : entry'[u][i] = [port |-> q, bits |-> "recv"]
    BY <1>3, <1>12 DEF LiveOwned
  <2>1. CASE \E u \in Tasks : Destroys(u, q)
    BY <2>1
  <2>2. CASE \E u \in Tasks, i \in Indices : entry[u][i] = [port |-> q, bits |-> "recv"]
    <3>1. PICK u \in Tasks, i \in Indices : entry[u][i] = [port |-> q, bits |-> "recv"]
      BY <2>2
    <3>2. entry[u][i] # Empty
      BY <3>1 DEF Empty
    <3>3. entry'[u][i] = [port |-> q, bits |-> "recv"]
      BY <1>6, <3>1, <3>2
    <3> QED BY <3>3
  <2> QED BY <2>1, <2>2 DEF IInv, LiveOwned
<1>15. TaskPorts'
  <2>1. ASSUME NEW u \in Tasks, Active(u)
        PROVE  entry'[u][TaskIndex].bits = "recv" /\ kobject[entry'[u][TaskIndex].port] = u
    <3>1. entry[u][TaskIndex].bits = "recv" /\ kobject[entry[u][TaskIndex].port] = u
      BY <2>1 DEF IInv, TaskPorts
    <3>2. entry[u][TaskIndex] # Empty
      BY <3>1 DEF Empty
    <3> QED BY <1>6, <3>1, <3>2, IndexFacts
  <2> QED BY <1>3, <1>9, <2>1, TaskAssumption DEF IInv, TaskPorts, Active
<1>16. NothingOwed'
  BY <1>3, <1>7, <1>12 DEF IInv, NothingOwed
<1>17. PointersHeld'
  <2>1. \A u \in Tasks, q \in Ports : (\E i \in Indices : entry[u][i].port = q)
                                         => \E i \in Indices : entry'[u][i].port = q
    BY <1>6, PointersStay
  <2>2. service # NoPort => service \in Ports
    BY DEF IInv, TypeOK
  <2>3. /\ \A u \in Tasks : at[u] \in {"send", "append", "recv"} =>
              ptr[u] \in Ports /\ \E i \in Indices : entry[u][i].port = ptr[u]
        /\ \A u \in Tasks : at[u] = "insert" =>
              ptr[u] \in Ports /\ \E i \in Indices : entry[Daemon][i].port = ptr[u]
        /\ \A u \in Tasks : at[u] \in {"none", "user", "dead"} => ptr[u] = NoPort
        /\ service # NoPort => \E i \in Indices : entry[Daemon][i].port = service
    BY DEF IInv, PointersHeld
  <2>4. \A u \in Tasks : at'[u] \in {"send", "append", "recv"} =>
            ptr'[u] \in Ports /\ \E i \in Indices : entry'[u][i].port = ptr'[u]
    BY <1>7, <2>1, <2>3
  <2>5. \A u \in Tasks : at'[u] = "insert" =>
            ptr'[u] \in Ports /\ \E i \in Indices : entry'[Daemon][i].port = ptr'[u]
    BY <1>7, <2>1, <2>3, TaskAssumption
  <2>6. \A u \in Tasks : at'[u] \in {"none", "user", "dead"} => ptr'[u] = NoPort
    BY <1>7, <2>3
  <2>7. service' # NoPort => \E i \in Indices : entry'[Daemon][i].port = service'
    BY <1>3, <2>1, <2>2, <2>3, TaskAssumption
  <2> QED BY <2>4, <2>5, <2>6, <2>7 DEF PointersHeld
<1>18. AppendsFit'
  BY <1>3, <1>7 DEF IInv, AppendsFit
<1>19. RefsExact'
  <2>1. RefsFit(entry, doomed, at, ptr, owed, refs, arena)
    BY RefsFitNow DEF IInv
  <2>2. \A q \in Ports : DestroyersIn(doomed', at', ptr', q) = DestroyersIn(doomed, at, ptr, q)
    BY <1>12 DEF DestroyersIn, Destroys
  <2>3. ASSUME NEW q \in Ports
        PROVE  /\ refs'[q] = Cardinality(RightsIn(entry', q)) + Cardinality(DestroyersIn(doomed, at, ptr, q))
                             + Cardinality(OwedIn(owed, q))
               /\ q \in arena <=> refs'[q] = 0
    <3>1. /\ refs[q] = Cardinality(RightsIn(entry, q)) + Cardinality(DestroyersIn(doomed, at, ptr, q))
                       + Cardinality(OwedIn(owed, q))
          /\ q \in arena <=> refs[q] = 0
      BY <2>1 DEF RefsFit
    <3>2. CASE q = p
      <4>1. q \notin arena
        BY <1>1, <3>2, HeldNotFree, TaskAssumption
      <4>2. /\ Cardinality(RightsIn(entry, q)) \in Nat /\ Cardinality(OwedIn(owed, q)) \in Nat
            /\ Cardinality(DestroyersIn(doomed, at, ptr, q)) \in Nat
        BY CountsFinite
      <4> QED BY <1>6, <1>7, <3>1, <3>2, <4>1, <4>2
    <3>3. CASE q # p
      BY <1>6, <1>7, <3>1, <3>3
    <3> QED BY <3>2, <3>3
  <2>4. RefsFit(entry', doomed', at', ptr', owed', refs', arena')
    BY <1>3, <2>2, <2>3 DEF RefsFit
  <2> QED BY <2>4, RefsFitNext
<1> QED BY <1>8, <1>10, <1>11, <1>13, <1>14, <1>15, <1>16, <1>17, <1>18, <1>19 DEF IInv

-----------------------------------------------------------------------------
(* Steps that begin a task.                                                *)

(* A table has a lowest index above those in use.                          *)
LEMMA FirstUnused ==
    ASSUME NEW K \in SUBSET Indices
    PROVE  \E u \in {i + 1 : i \in K \cup {TaskIndex}} : \A i \in K : i < u
<1> DEFINE L == K \cup {TaskIndex}
           T == {u \in Nat : \A i \in L : i < u}
           R == {ss \in Nat \X Nat : ss[1] < ss[2]}
<1>1. L \subseteq Indices /\ TaskIndex \in L /\ TaskIndex = 1 /\ K \subseteq L
  BY IndexFacts DEF TaskIndex
<1>2. Size \in T
  BY <1>1, IndexFacts
<1>3. IsWellFoundedOn(R, Nat)
  BY NatLessThanWellFounded DEF OpToRel
<1>4. \A x, y \in Nat : <<y, x>> \in R <=> y < x
  OBVIOUS
<1>5. T \subseteq Nat /\ T # {}
  BY <1>2
<1> HIDE DEF R
<1>6. PICK m \in T : \A y \in T : ~(<<y, m>> \in R)
  BY <1>3, <1>5, WFMin
<1>7. m \in Nat /\ \A i \in L : i < m
  BY <1>6
<1>8. m - 1 \in Nat /\ m - 1 < m
  BY <1>1, <1>7
<1>9. m - 1 \notin T
  BY <1>4, <1>6, <1>7, <1>8
<1>10. PICK i \in L : ~(i < m - 1)
  BY <1>8, <1>9
<1>11. m = i + 1
  BY <1>1, <1>7, <1>10, IndexFacts
<1>12. m \in {j + 1 : j \in L} /\ \A j \in K : j < m
  BY <1>1, <1>7, <1>11
<1> QED BY <1>12

(* The rights that a new task has: those of its task port and the ones     *)
(* kept.                                                                   *)
LEMMA BeginRights ==
    ASSUME NEW t \in Tasks, NEW c \in Tasks, NEW p \in Ports, NEW K \in SUBSET Indices, t # c,
           NEW q \in Ports, TaskIndex \notin K, q # p,
           \A i \in Indices : entry[c][i].port # q,
           \A u \in Tasks, i \in Indices : u # c => entry'[u][i] = entry[u][i],
           \A i \in K : entry'[c][i] = entry[t][i],
           entry'[c][TaskIndex].port = p,
           \A i \in Indices : i \notin K /\ i # TaskIndex => entry'[c][i].port # q
    PROVE  Cardinality(RightsIn(entry', q)) =
               Cardinality(RightsIn(entry, q)) + Cardinality({i \in K : entry[t][i].port = q})
<1> DEFINE Q == {i \in K : entry[t][i].port = q}
<1>1. IsFiniteSet(Q) /\ IsFiniteSet({c}) /\ Cardinality({c}) = 1 /\ Cardinality(Q) \in Nat
  <2>1. IsFiniteSet(Indices)
    BY FS_Interval, SizeAssumption DEF Indices
  <2>2. IsFiniteSet(Q)
    BY <2>1, FS_Subset
  <2> QED BY <2>2, FS_Singleton, FS_CardinalityType
<1>2. IsFiniteSet({c} \X Q) /\ Cardinality({c} \X Q) = Cardinality(Q)
  <2>1. IsFiniteSet({c} \X Q) /\ Cardinality({c} \X Q) = Cardinality({c}) * Cardinality(Q)
    BY <1>1, FS_Product
  <2> HIDE DEF Q
  <2> QED BY <1>1, <2>1
<1>3. RightsIn(entry', q) = RightsIn(entry, q) \cup ({c} \X Q)
  <2>1. ASSUME NEW h \in Tasks \X Indices
        PROVE  entry'[h[1]][h[2]].port = q <=> entry[h[1]][h[2]].port = q \/ h \in {c} \X Q
    <3>1. h[1] \in Tasks /\ h[2] \in Indices /\ h = <<h[1], h[2]>>
      OBVIOUS
    <3>2. h \in {c} \X Q <=> h[1] = c /\ h[2] \in Q
      BY <3>1
    <3>3. CASE h[1] # c
      BY <3>1, <3>2, <3>3
    <3>4. CASE h[1] = c
      <4>1. entry[h[1]][h[2]].port # q
        BY <3>1, <3>4
      <4>2. entry'[c][h[2]].port = q <=> h[2] \in Q
        BY <3>1
      <4> QED BY <3>2, <3>4, <4>1, <4>2
    <3> QED BY <3>3, <3>4
  <2>2. {c} \X Q \subseteq Tasks \X Indices
    OBVIOUS
  <2> QED BY <2>1, <2>2 DEF RightsIn
<1>4. RightsIn(entry, q) \cap ({c} \X Q) = {}
  <2> SUFFICES ASSUME NEW h \in RightsIn(entry, q), h \in {c} \X Q PROVE FALSE
    OBVIOUS
  <2>1. h[1] = c /\ h[2] \in Indices /\ entry[h[1]][h[2]].port = q
    BY DEF RightsIn
  <2> QED BY <2>1
<1> HIDE DEF Q
<1>5. IsFiniteSet(RightsIn(entry, q)) /\ Cardinality(RightsIn(entry, q)) \in Nat
  BY CountsFinite
<1>6. Cardinality(RightsIn(entry, q) \cup ({c} \X Q)) =
         Cardinality(RightsIn(entry, q)) + Cardinality({c} \X Q)
         - Cardinality(RightsIn(entry, q) \cap ({c} \X Q))
  BY <1>2, <1>5, FS_Union
<1>7. Cardinality(RightsIn(entry', q)) = Cardinality(RightsIn(entry, q)) + Cardinality(Q)
  <2>1. Cardinality(RightsIn(entry, q) \cap ({c} \X Q)) = 0
    BY <1>4, FS_EmptySet
  <2> QED BY <1>1, <1>2, <1>3, <1>5, <1>6, <2>1
<1> QED BY <1>7 DEF Q

(* task_create, with the send rights of the indices K inherited.           *)
LEMMA BeginStep ==
    ASSUME IInv, NEW t \in Tasks, NEW c \in Tasks, NEW p \in Ports, NEW K \in SUBSET Indices,
           \A i \in K : entry[t][i].bits = "send", Begin(t, c, p, K)
    PROVE  IInv'
<1> DEFINE e == [port |-> p, bits |-> "recv"]
           start == <<0, TaskIndex>>
           row == [i \in Indices |-> IF i \in K THEN entry[t][i] ELSE IF i = TaskIndex THEN e ELSE Empty]
           more == [q \in Ports |-> IF q = p THEN 1 ELSE
                       refs[q] + Cardinality({i \in K : entry[t][i].port = q})]
           top == CHOOSE u \in {i + 1 : i \in K \cup {TaskIndex}} : \A i \in K : i < u
<1>1. /\ e \in Entries /\ e # Empty /\ e.port = p /\ e.bits = "recv"
  BY PortAssumption DEF Entries, Empty
<1>2. /\ at[t] = "user" /\ at[c] = "none" /\ t # c /\ p \in arena /\ arena' = arena \ {p}
      /\ state' = [state EXCEPT ![p] = "ACTIVE"]
      /\ receiver' = [receiver EXCEPT ![p] = [task |-> c, name |-> start]]
      /\ queue' = [queue EXCEPT ![p] = <<>>] /\ refs' = more
      /\ kobject' = [kobject EXCEPT ![p] = c]
      /\ entry' = [entry EXCEPT ![c] = row] /\ used' = [used EXCEPT ![c] = top]
      /\ at' = [at EXCEPT ![c] = "user"]
      /\ gen' = gen /\ names' = names /\ freed' = freed /\ service' = service /\ ptr' = ptr
      /\ doomed' = doomed /\ owed' = owed
  BY DEF Begin, NewPort, dropVars
<1>3. /\ Active(t) /\ ~Active(c) /\ c # Daemon
      /\ entry[t][TaskIndex].bits = "recv" /\ TaskIndex \notin K
  BY <1>2, TaskAssumption DEF Active, IInv, TaskPorts
<1>4. /\ \A i \in Indices : entry[c][i] = Empty
      /\ names[c] = {} /\ freed[c] = {} /\ \A i \in Indices : gen[c][i] = 0
  BY <1>2, <1>3 DEF IInv, TablesShaped
<1>5. top \in 1 .. Size /\ TaskIndex < top /\ \A i \in K : i < top
  <2>1. top \in {i + 1 : i \in K \cup {TaskIndex}} /\ \A i \in K : i < top
    BY FirstUnused
  <2> HIDE DEF top
  <2>2. PICK i \in K \cup {TaskIndex} : top = i + 1
    BY <2>1
  <2>3. i \in Indices /\ i \in Nat /\ i >= 1 /\ i + 1 <= Size /\ TaskIndex = 1 /\ Size \in Nat
    BY IndexFacts DEF TaskIndex
  <2> QED BY <2>1, <2>2, <2>3
<1>6. row \in [Indices -> Entries]
  BY <1>1 DEF IInv, TypeOK, Entries
<1>7. ASSUME NEW q \in Ports
      PROVE  Cardinality({i \in K : entry[t][i].port = q}) \in Nat
  <2>1. IsFiniteSet(Indices)
    BY FS_Interval, SizeAssumption DEF Indices
  <2>2. IsFiniteSet({i \in K : entry[t][i].port = q})
    BY <2>1, FS_Subset
  <2> QED BY <2>2, FS_CardinalityType
<1>8. /\ \A q \in Ports : refs[q] \in Nat
      /\ more \in [Ports -> Nat] /\ refs'[p] = 1
      /\ \A q \in Ports \ {p} : refs'[q] = refs[q] + Cardinality({i \in K : entry[t][i].port = q})
  <2> DEFINE n(q) == Cardinality({i \in K : entry[t][i].port = q})
  <2>1. \A q \in Ports : n(q) \in Nat /\ refs[q] \in Nat
    BY <1>7 DEF IInv, TypeOK
  <2>2. more = [q \in Ports |-> IF q = p THEN 1 ELSE refs[q] + n(q)]
    OBVIOUS
  <2> HIDE DEF n, more
  <2>3. more \in [Ports -> Nat] /\ more[p] = 1 /\ \A q \in Ports \ {p} : more[q] = refs[q] + n(q)
    BY <2>1, <2>2
  <2> QED BY <1>2, <2>1, <2>3 DEF n
<1>9. start \in Names /\ start[1] = 0 /\ start[2] = TaskIndex
  BY IndexFacts
<1>10. \A i \in Indices : /\ i \in K => row[i] = entry[t][i]
                          /\ i \notin K /\ i = TaskIndex => row[i] = e
                          /\ i \notin K /\ i # TaskIndex => row[i] = Empty
  OBVIOUS
<1> HIDE DEF e, start, row, more, top
<1>11. /\ entry' \in [Tasks -> [Indices -> Entries]] /\ entry'[c] = row
       /\ \A u \in Tasks : u # c => entry'[u] = entry[u]
       /\ used' \in [Tasks -> 1 .. Size] /\ used'[c] = top
       /\ \A u \in Tasks : u # c => used'[u] = used[u]
  BY <1>2, <1>5, <1>6 DEF IInv, TypeOK
<1>12. /\ \A u \in Tasks, i \in Indices : u # c => entry'[u][i] = entry[u][i]
       /\ \A i \in K : entry'[c][i] = entry[t][i]
       /\ entry'[c][TaskIndex] = e
       /\ \A i \in Indices : i \notin K /\ i # TaskIndex => entry'[c][i] = Empty
       /\ \A u \in Tasks, i \in Indices : entry[u][i] # Empty => entry'[u][i] = entry[u][i]
  BY <1>3, <1>4, <1>10, <1>11, IndexFacts
<1>13. /\ state' \in [Ports -> {"unused", "ACTIVE", "ZOMBIE", "DEAD"}]
       /\ \A q \in Ports : state'[q] = IF q = p THEN "ACTIVE" ELSE state[q]
       /\ receiver' \in [Ports -> [task : Tasks, name : Names] \cup {Nobody}]
       /\ \A q \in Ports : receiver'[q] = IF q = p THEN [task |-> c, name |-> start] ELSE receiver[q]
       /\ queue' \in [Ports -> Seq({NoPort})]
       /\ \A q \in Ports : queue'[q] = IF q = p THEN <<>> ELSE queue[q]
       /\ kobject' \in [Ports -> Tasks \cup {NoTask}]
       /\ \A q \in Ports : kobject'[q] = IF q = p THEN c ELSE kobject[q]
       /\ at' \in [Tasks -> {"none", "user", "send", "append", "recv", "insert", "drop", "exit", "dead"}]
       /\ \A u \in Tasks : at'[u] = IF u = c THEN "user" ELSE at[u]
       /\ arena' \subseteq Ports
  BY <1>2, <1>9 DEF IInv, TypeOK, SpacesTyped
<1>14. \A q \in Ports : Len(queue'[q]) <= QLimit
  <2>1. Len(<<>>) = 0 /\ 0 <= QLimit
    BY IndexFacts
  <2>2. \A q \in Ports : Len(queue[q]) <= QLimit
    BY DEF IInv, TypeOK
  <2> QED BY <1>13, <2>1, <2>2
<1>15. TypeOK' /\ SpacesTyped'
  <2>1. SpacesTyped'
    BY <1>2, <1>13 DEF IInv, SpacesTyped
  <2>2. \A q \in Ports : receiver'[q] = Nobody \/ receiver'[q] \in [task : Tasks, name : Names]
    BY <1>13
  <2>3. /\ gen' \in [Tasks -> [Indices -> 0 .. MaxGen + 1]] /\ names' \in [Tasks -> SUBSET Indices]
        /\ \A u \in Tasks : freed'[u] \subseteq Names
        /\ service' \in Ports \cup {NoPort} /\ ptr' \in [Tasks -> Ports \cup {NoPort}]
        /\ doomed' \in [Tasks -> SUBSET Ports] /\ owed' \in [Tasks -> [Ports -> Nat]]
    BY <1>2 DEF IInv, TypeOK
  <2>4. refs' \in [Ports -> Nat]
    BY <1>2, <1>8
  <2> QED BY <1>11, <1>13, <1>14, <2>1, <2>2, <2>3, <2>4 DEF TypeOK
<1>16. \A u \in Tasks : /\ u # c => (at'[u] \notin {"none", "exit", "dead"} <=> Active(u))
                        /\ at'[c] \notin {"none", "exit", "dead"}
                        /\ at'[u] = "none" <=> u # c /\ at[u] = "none"
  BY <1>13 DEF Active
<1>17. TablesShaped'
  <2>1. ASSUME NEW u \in Tasks, NEW i \in Indices, entry'[u][i] # Empty
        PROVE  at'[u] \notin {"none", "exit", "dead"} /\ i < used'[u] /\ i \notin names'[u] /\ gen'[u][i] <= MaxGen
    <3>1. CASE u = c
      <4>1. i \in K \/ i = TaskIndex
        BY <1>12, <2>1, <3>1
      <4>2. i < top
        BY <1>5, <4>1
      <4>3. gen'[c][i] <= MaxGen
        BY <1>2, <1>4, IndexFacts
      <4> QED BY <1>2, <1>4, <1>11, <1>16, <3>1, <4>2, <4>3
    <3>2. CASE u # c
      <4>1. Active(u) /\ i < used[u] /\ i \notin names[u] /\ gen[u][i] <= MaxGen
        BY <1>12, <2>1, <3>2 DEF IInv, TablesShaped
      <4> QED BY <1>2, <1>11, <1>16, <3>2, <4>1
    <3> QED BY <3>1, <3>2
  <2>2. ASSUME NEW u \in Tasks, at'[u] = "none"
        PROVE  names'[u] = {} /\ freed'[u] = {} /\ \A i \in Indices : gen'[u][i] = 0
    BY <1>2, <1>16, <2>2 DEF IInv, TablesShaped
  <2>3. ASSUME NEW u \in Tasks, at'[u] \notin {"none", "exit", "dead"}, NEW i \in names'[u]
        PROVE  i < used'[u]
    <3>1. u # c /\ i \in names[u] /\ Active(u)
      BY <1>2, <1>4, <1>16, <2>3
    <3> QED BY <1>11, <3>1 DEF IInv, TablesShaped
  <2> QED BY <2>1, <2>2, <2>3 DEF TablesShaped, Active
<1>18. NamesPassed'
  BY <1>2 DEF IInv, NamesPassed
<1>19. /\ \A u \in Tasks, j \in Indices : entry[u][j].port # p
       /\ \A u \in Tasks : ~Destroys(u, p)
       /\ refs[p] = 0 /\ OwedIn(owed, p) = {} /\ DestroyersIn(doomed, at, ptr, p) = {}
       /\ RightsIn(entry, p) = {}
  BY <1>2, ArenaFree
<1>20. ReceiversRecorded'
  <2> SUFFICES ASSUME NEW u \in Tasks, NEW j \in Indices, entry'[u][j].bits = "recv"
               PROVE  /\ state'[entry'[u][j].port] = "ACTIVE"
                      /\ receiver'[entry'[u][j].port] = [task |-> u, name |-> <<gen'[u][j], j>>]
    BY DEF ReceiversRecorded
  <2>1. CASE u = c
    <3>1. j \notin K
      BY <1>12, <2>1
    <3>2. j = TaskIndex
      BY <1>12, <2>1, <3>1 DEF Empty
    <3>3. start = <<gen'[u][j], j>>
      BY <1>2, <1>4, <2>1, <3>2 DEF start
    <3> QED BY <1>1, <1>12, <1>13, <2>1, <3>2, <3>3
  <2>2. CASE u # c
    <3>1. entry'[u][j] = entry[u][j] /\ gen'[u][j] = gen[u][j]
      BY <1>2, <1>12, <2>2
    <3>2. /\ entry[u][j].port \in Ports /\ state[entry[u][j].port] = "ACTIVE"
          /\ receiver[entry[u][j].port] = [task |-> u, name |-> <<gen[u][j], j>>]
      BY <3>1, ReceiveRight
    <3>3. entry[u][j].port # p
      BY <1>19
    <3> QED BY <1>13, <3>1, <3>2, <3>3
  <2> QED BY <2>1, <2>2
<1>21. \A u \in Tasks, q \in Ports : Destroys(u, q)' <=> Destroys(u, q)
  BY <1>2, <1>13 DEF Destroys
<1>22. DestroyersOwn'
  <2> SUFFICES ASSUME NEW q \in Ports, NEW u \in Tasks, Destroys(u, q)
               PROVE  /\ at'[u] \in {"drop", "exit"}
                      /\ receiver'[q] # Nobody /\ receiver'[q].task = u
                      /\ \A v \in Tasks, i \in Indices : entry'[v][i] # [port |-> q, bits |-> "recv"]
                      /\ at'[u] = "drop" => gen'[u][receiver'[q].name[2]] > receiver'[q].name[1]
                      /\ q \in doomed'[u] => state'[q] = "ACTIVE" /\ ptr'[u] # q
                      /\ ptr'[u] = q => state'[q] = "ZOMBIE"
    BY <1>21 DEF DestroyersOwn
  <2>1. q # p
    BY <1>19
  <2>2. /\ at[u] \in {"drop", "exit"} /\ receiver[q] # Nobody /\ receiver[q].task = u
        /\ receiver[q].name[2] \in Indices
        /\ \A v \in Tasks, i \in Indices : entry[v][i] # [port |-> q, bits |-> "recv"]
        /\ at[u] = "drop" => gen[u][receiver[q].name[2]] > receiver[q].name[1]
        /\ q \in doomed[u] => state[q] = "ACTIVE" /\ ptr[u] # q
        /\ ptr[u] = q => state[q] = "ZOMBIE"
    BY Destroyer
  <2>3. receiver'[q] = receiver[q] /\ state'[q] = state[q] /\ at'[u] = at[u]
    BY <1>2, <1>13, <2>1, <2>2
  <2>4. ASSUME NEW v \in Tasks, NEW i \in Indices
        PROVE  entry'[v][i] # [port |-> q, bits |-> "recv"]
    <3>1. CASE v # c
      BY <1>12, <2>2, <3>1
    <3>2. CASE v = c /\ i \in K
      BY <1>12, <2>2, <3>2
    <3>3. CASE v = c /\ i \notin K
      <4>1. entry'[c][i] = e \/ entry'[c][i] = Empty
        BY <1>12, <3>3
      <4>2. e # [port |-> q, bits |-> "recv"] /\ Empty # [port |-> q, bits |-> "recv"]
        BY <1>1, <2>1 DEF Empty
      <4> QED BY <3>3, <4>1, <4>2
    <3> QED BY <3>1, <3>2, <3>3
  <2> QED BY <1>2, <2>2, <2>3, <2>4
<1>23. LiveOwned'
  <2> SUFFICES ASSUME NEW q \in Ports, state'[q] = "ACTIVE"
               PROVE  \/ \E u \in Tasks : Destroys(u, q)
                      \/ \E u \in Tasks, i \in Indices : entry'[u][i] = [port |-> q, bits |-> "recv"]
    BY <1>21 DEF LiveOwned
  <2>1. CASE q = p
    BY <1>12, <2>1, IndexFacts DEF e
  <2>2. CASE q # p
    <3>2. state[q] = "ACTIVE"
      BY <1>13, <2>2
    <3>3. CASE \E u \in Tasks : Destroys(u, q)
      BY <3>3
    <3>4. CASE \E u \in Tasks, i \in Indices : entry[u][i] = [port |-> q, bits |-> "recv"]
      <4>1. PICK u \in Tasks, i \in Indices : entry[u][i] = [port |-> q, bits |-> "recv"]
        BY <3>4
      <4>2. entry[u][i] # Empty
        BY <4>1 DEF Empty
      <4>3. entry'[u][i] = [port |-> q, bits |-> "recv"]
        BY <1>12, <4>1, <4>2
      <4> QED BY <4>3
    <3> QED BY <3>2, <3>3, <3>4 DEF IInv, LiveOwned
  <2> QED BY <2>1, <2>2
<1>24. TaskPorts'
  <2>1. ASSUME NEW u \in Tasks, at'[u] \notin {"none", "exit", "dead"}
        PROVE  entry'[u][TaskIndex].bits = "recv" /\ kobject'[entry'[u][TaskIndex].port] = u
    <3>1. CASE u = c
      BY <1>1, <1>12, <1>13, <3>1
    <3>2. CASE u # c
      <4>1. entry[u][TaskIndex].bits = "recv" /\ kobject[entry[u][TaskIndex].port] = u
        BY <1>16, <2>1, <3>2 DEF IInv, TaskPorts
      <4>2. entry[u][TaskIndex].port \in Ports /\ entry[u][TaskIndex].port # p
        BY <1>19, <4>1, ReceiveRight, IndexFacts
      <4>3. entry'[u][TaskIndex] = entry[u][TaskIndex]
        BY <1>12, <3>2, IndexFacts
      <4> QED BY <1>13, <4>1, <4>2, <4>3
    <3> QED BY <3>1, <3>2
  <2>2. at'[Daemon] \notin {"none", "exit", "dead"}
    BY <1>3, <1>16, TaskAssumption DEF IInv, TaskPorts
  <2> QED BY <2>1, <2>2 DEF TaskPorts, Active
<1>25. NothingOwed'
  BY <1>2, <1>13, <1>21 DEF IInv, NothingOwed
<1>26. PointersHeld'
  <2>1. \A u \in Tasks, q \in Ports : (\E i \in Indices : entry[u][i].port = q)
                                         => \E i \in Indices : entry'[u][i].port = q
    BY <1>12, PointersStay
  <2>2. service # NoPort => service \in Ports
    BY DEF IInv, TypeOK
  <2>3. /\ \A u \in Tasks : at[u] \in {"send", "append", "recv"} =>
              ptr[u] \in Ports /\ \E i \in Indices : entry[u][i].port = ptr[u]
        /\ \A u \in Tasks : at[u] = "insert" =>
              ptr[u] \in Ports /\ \E i \in Indices : entry[Daemon][i].port = ptr[u]
        /\ \A u \in Tasks : at[u] \in {"none", "user", "dead"} => ptr[u] = NoPort
        /\ service # NoPort => \E i \in Indices : entry[Daemon][i].port = service
    BY DEF IInv, PointersHeld
  <2>4. \A u \in Tasks : at'[u] \in {"send", "append", "recv"} =>
            ptr[u] \in Ports /\ \E i \in Indices : entry'[u][i].port = ptr[u]
    BY <1>13, <2>1, <2>3
  <2>5. \A u \in Tasks : at'[u] = "insert" =>
            ptr[u] \in Ports /\ \E i \in Indices : entry'[Daemon][i].port = ptr[u]
    BY <1>13, <2>1, <2>3, TaskAssumption
  <2>6. \A u \in Tasks : at'[u] \in {"none", "user", "dead"} => ptr[u] = NoPort
    BY <1>2, <1>13, <2>3
  <2>7. service # NoPort => \E i \in Indices : entry'[Daemon][i].port = service
    BY <2>1, <2>2, <2>3, TaskAssumption
  <2> QED BY <1>2, <2>4, <2>5, <2>6, <2>7 DEF PointersHeld
<1>27. AppendsFit'
  <2>1. \A u \in Tasks : at'[u] = "append" => ptr[u] \in Ports /\ Len(queue[ptr[u]]) < QLimit
    BY <1>13 DEF IInv, PointersHeld, AppendsFit
  <2>2. \A u \in Tasks : at'[u] = "append" => Len(queue'[ptr[u]]) < QLimit
    <3>1. Len(<<>>) = 0 /\ 0 < QLimit
      BY IndexFacts
    <3> QED BY <1>13, <2>1, <3>1
  <2>3. \A u \in Tasks : at'[u] = "append" => at[u] = "append"
    BY <1>13
  <2>4. \A u, v \in Tasks : at'[u] = "append" /\ at'[v] = "append" /\ ptr[u] = ptr[v] => u = v
    BY <2>3 DEF IInv, AppendsFit
  <2> QED BY <1>2, <2>2, <2>4 DEF AppendsFit
<1>28. RefsExact'
  <2>1. RefsFit(entry, doomed, at, ptr, owed, refs, arena)
    BY RefsFitNow DEF IInv
  <2>2. \A q \in Ports : DestroyersIn(doomed', at', ptr', q) = DestroyersIn(doomed, at, ptr, q)
    BY <1>21 DEF DestroyersIn, Destroys
  <2>3. ASSUME NEW q \in Ports
        PROVE  /\ refs'[q] = Cardinality(RightsIn(entry', q)) + Cardinality(DestroyersIn(doomed, at, ptr, q))
                             + Cardinality(OwedIn(owed, q))
               /\ q \in arena' <=> refs'[q] = 0
    <3>1. CASE q = p
      <4>1. Cardinality(OwedIn(owed, p)) = 0 /\ Cardinality(DestroyersIn(doomed, at, ptr, p)) = 0
        BY <1>19, FS_EmptySet
      <4>2. RightsIn(entry', p) = {<<c, TaskIndex>>}
        <5>1. ASSUME NEW h \in Tasks \X Indices
              PROVE  entry'[h[1]][h[2]].port = p <=> h = <<c, TaskIndex>>
          <6>1. h[1] \in Tasks /\ h[2] \in Indices /\ h = <<h[1], h[2]>>
            OBVIOUS
          <6>2. CASE h[1] # c
            BY <1>12, <1>19, <6>1, <6>2
          <6>3. CASE h[1] = c /\ h[2] \in K
            BY <1>3, <1>12, <1>19, <6>1, <6>3
          <6>4. CASE h[1] = c /\ h[2] \notin K /\ h[2] # TaskIndex
            BY <1>12, <6>1, <6>4, PortAssumption DEF Empty
          <6>5. CASE h[1] = c /\ h[2] = TaskIndex
            BY <1>1, <1>12, <6>1, <6>5
          <6> QED BY <6>2, <6>3, <6>4, <6>5
        <5>2. <<c, TaskIndex>> \in Tasks \X Indices
          BY IndexFacts
        <5> QED BY <5>1, <5>2 DEF RightsIn
      <4>3. Cardinality(RightsIn(entry', p)) = 1
        BY <4>2, FS_Singleton
      <4> QED BY <1>2, <1>8, <3>1, <4>1, <4>3
    <3>2. CASE q # p
      <4>1. \A i \in Indices : entry[c][i].port # q
        BY <1>4, PortAssumption DEF Empty
      <4>2. \A i \in Indices : i \notin K /\ i # TaskIndex => entry'[c][i].port # q
        BY <1>12, PortAssumption DEF Empty
      <4>3. entry'[c][TaskIndex].port = p
        BY <1>1, <1>12
      <4>4. Cardinality(RightsIn(entry', q)) =
               Cardinality(RightsIn(entry, q)) + Cardinality({i \in K : entry[t][i].port = q})
        <5>1. t # c /\ TaskIndex \notin K
          BY <1>2, <1>3
        <5>2. /\ \A u \in Tasks, i \in Indices : u # c => entry'[u][i] = entry[u][i]
              /\ \A i \in K : entry'[c][i] = entry[t][i]
          BY <1>12
        <5> QED BY <3>2, <4>1, <4>2, <4>3, <5>1, <5>2, BeginRights
      <4>5. /\ Cardinality(RightsIn(entry, q)) \in Nat /\ Cardinality(OwedIn(owed, q)) \in Nat
            /\ Cardinality(DestroyersIn(doomed, at, ptr, q)) \in Nat
        BY CountsFinite
      <4>6. Cardinality({i \in K : entry[t][i].port = q}) \in Nat
        BY <1>7
      <4>7. refs'[q] = refs[q] + Cardinality({i \in K : entry[t][i].port = q})
        BY <1>8, <3>2
      <4>8. /\ refs[q] = Cardinality(RightsIn(entry, q)) + Cardinality(DestroyersIn(doomed, at, ptr, q))
                         + Cardinality(OwedIn(owed, q))
            /\ q \in arena <=> refs[q] = 0
        BY <2>1 DEF RefsFit
      <4>9. refs[q] = 0 => Cardinality({i \in K : entry[t][i].port = q}) = 0
        <5>1. SUFFICES ASSUME refs[q] = 0 PROVE {i \in K : entry[t][i].port = q} = {}
          BY FS_EmptySet
        <5>2. \A u \in Tasks, i \in Indices : entry[u][i].port # q
          BY <4>8, <5>1, ArenaFree
        <5> QED BY <5>2
      <4> QED BY <1>2, <1>8, <3>2, <4>4, <4>5, <4>6, <4>7, <4>8, <4>9
    <3> QED BY <3>1, <3>2
  <2>4. RefsFit(entry', doomed', at', ptr', owed', refs', arena')
    BY <1>2, <2>2, <2>3 DEF RefsFit
  <2> QED BY <2>4, RefsFitNext
<1> QED BY <1>15, <1>17, <1>18, <1>20, <1>22, <1>23, <1>24, <1>25, <1>26, <1>27, <1>28 DEF IInv

-----------------------------------------------------------------------------
(* Steps that give rights up.                                              *)

(* What FreeName does, entry by entry.                                     *)
NameFreed(t, i) ==
    /\ entry' \in [Tasks -> [Indices -> Entries]]
    /\ gen' \in [Tasks -> [Indices -> 0 .. MaxGen + 1]]
    /\ used' \in [Tasks -> 1 .. Size] /\ names' \in [Tasks -> SUBSET Indices]
    /\ freed' \in [Tasks -> SUBSET Names] /\ used' = used
    /\ \A u \in Tasks, j \in Indices : entry'[u][j] = IF u = t /\ j = i THEN Empty ELSE entry[u][j]
    /\ \A u \in Tasks, j \in Indices : gen'[u][j] = IF u = t /\ j = i THEN gen[u][j] + 1 ELSE gen[u][j]
    /\ \A u \in Tasks, j \in Indices : gen'[u][j] >= gen[u][j] /\ gen[u][j] \in Nat
    /\ \A u \in Tasks : names'[u] = IF u = t THEN names[u] \cup {i} ELSE names[u]
    /\ \A u \in Tasks : freed'[u] = IF u = t THEN freed[u] \cup {<<gen[t][i], i>>} ELSE freed[u]
    /\ NamesPassed'

(* It does so for a name whose generation is within the bound.             *)
LEMMA FreeFacts ==
    ASSUME IInv, NEW t \in Tasks, NEW i \in Indices, gen[t][i] <= MaxGen, FreeName(t, i)
    PROVE  NameFreed(t, i)
<1>1. /\ entry \in [Tasks -> [Indices -> Entries]] /\ gen \in [Tasks -> [Indices -> 0 .. MaxGen + 1]]
      /\ used \in [Tasks -> 1 .. Size] /\ names \in [Tasks -> SUBSET Indices]
      /\ freed \in [Tasks -> SUBSET Names] /\ Empty \in Entries
  BY DEF IInv, TypeOK, SpacesTyped, Entries
<1>2. gen[t][i] \in Nat /\ gen[t][i] + 1 \in 0 .. MaxGen + 1 /\ <<gen[t][i], i>> \in Names
  <2>1. gen[t][i] \in 0 .. MaxGen + 1
    BY <1>1
  <2>2. gen[t][i] \in 0 .. MaxGen
    BY <2>1, IndexFacts
  <2> QED BY <2>2, IndexFacts
<1>3. /\ entry' = [entry EXCEPT ![t][i] = Empty] /\ gen' = [gen EXCEPT ![t][i] = gen[t][i] + 1]
      /\ names' = [names EXCEPT ![t] = names[t] \cup {i}]
      /\ freed' = [freed EXCEPT ![t] = freed[t] \cup {<<gen[t][i], i>>}] /\ used' = used
  BY DEF FreeName
<1>4. /\ entry' \in [Tasks -> [Indices -> Entries]]
      /\ \A u \in Tasks, j \in Indices : entry'[u][j] = IF u = t /\ j = i THEN Empty ELSE entry[u][j]
  BY <1>1, <1>3
<1>5. /\ gen' \in [Tasks -> [Indices -> 0 .. MaxGen + 1]]
      /\ \A u \in Tasks, j \in Indices : gen'[u][j] = IF u = t /\ j = i THEN gen[u][j] + 1 ELSE gen[u][j]
  BY <1>1, <1>2, <1>3
<1>6. \A u \in Tasks, j \in Indices : gen'[u][j] >= gen[u][j] /\ gen[u][j] \in Nat
  <2>1. \A u \in Tasks, j \in Indices : gen[u][j] \in Nat
    BY <1>1, IndexFacts
  <2> QED BY <1>5, <2>1
<1>7. /\ names' \in [Tasks -> SUBSET Indices]
      /\ \A u \in Tasks : names'[u] = IF u = t THEN names[u] \cup {i} ELSE names[u]
  BY <1>1, <1>3
<1>8. /\ freed' \in [Tasks -> SUBSET Names]
      /\ \A u \in Tasks : freed'[u] = IF u = t THEN freed[u] \cup {<<gen[t][i], i>>} ELSE freed[u]
  BY <1>1, <1>2, <1>3
<1>9. ASSUME NEW u \in Tasks, NEW m \in freed'[u] PROVE m[1] < gen'[u][m[2]]
  <2>1. CASE m \in freed[u]
    <3>1. m[1] < gen[u][m[2]] /\ m[1] \in Nat /\ m[2] \in Indices
      <4>1. m \in Names
        BY <1>1, <2>1
      <4>2. m[1] \in Nat /\ m[2] \in Indices
        BY <4>1, IndexFacts
      <4> QED BY <2>1, <4>2 DEF IInv, NamesPassed
    <3>2. gen'[u][m[2]] >= gen[u][m[2]] /\ gen[u][m[2]] \in Nat /\ gen'[u][m[2]] \in Nat
      BY <1>5, <1>6, <3>1, IndexFacts
    <3> QED BY <3>1, <3>2
  <2>2. CASE m \notin freed[u]
    <3>1. u = t /\ m = <<gen[t][i], i>>
      BY <1>8, <2>2, <1>9
    <3>2. m[1] = gen[t][i] /\ m[2] = i
      BY <3>1
    <3>3. gen'[u][m[2]] = gen[t][i] + 1
      BY <1>5, <3>1, <3>2
    <3> QED BY <1>2, <3>2, <3>3
  <2> QED BY <2>1, <2>2
<1>10. NamesPassed'
  BY <1>9 DEF NamesPassed
<1> QED BY <1>1, <1>3, <1>4, <1>5, <1>6, <1>7, <1>8, <1>10 DEF NameFreed

(* The rights, when an entry in use is freed: one less for its port.       *)
LEMMA FreeRights ==
    ASSUME NEW t \in Tasks, NEW i \in Indices, NEW p \in Ports, entry[t][i].port = p,
           \A u \in Tasks, j \in Indices : entry'[u][j] = IF u = t /\ j = i THEN Empty ELSE entry[u][j]
    PROVE  /\ \A q \in Ports \ {p} : RightsIn(entry', q) = RightsIn(entry, q)
           /\ Cardinality(RightsIn(entry', p)) = Cardinality(RightsIn(entry, p)) - 1
<1>1. \A q \in Ports : Empty.port # q
  BY PortAssumption DEF Empty
<1>2. ASSUME NEW q \in Ports \ {p} PROVE RightsIn(entry', q) = RightsIn(entry, q)
  <2>1. ASSUME NEW h \in Tasks \X Indices
        PROVE  entry'[h[1]][h[2]].port = q <=> entry[h[1]][h[2]].port = q
    <3>1. h[1] \in Tasks /\ h[2] \in Indices
      OBVIOUS
    <3>2. CASE h[1] = t /\ h[2] = i
      BY <1>1, <3>1, <3>2
    <3>3. CASE ~(h[1] = t /\ h[2] = i)
      BY <3>1, <3>3
    <3> QED BY <3>2, <3>3
  <2> QED BY <2>1 DEF RightsIn
<1>3. RightsIn(entry', p) = RightsIn(entry, p) \ {<<t, i>>}
  <2>1. ASSUME NEW h \in Tasks \X Indices
        PROVE  entry'[h[1]][h[2]].port = p <=> entry[h[1]][h[2]].port = p /\ h # <<t, i>>
    <3>1. h[1] \in Tasks /\ h[2] \in Indices /\ h = <<h[1], h[2]>>
      OBVIOUS
    <3>2. CASE h[1] = t /\ h[2] = i
      BY <1>1, <3>1, <3>2
    <3>3. CASE ~(h[1] = t /\ h[2] = i)
      BY <3>1, <3>3
    <3> QED BY <3>2, <3>3
  <2> QED BY <2>1 DEF RightsIn
<1>4. <<t, i>> \in RightsIn(entry, p)
  BY DEF RightsIn
<1>5. Cardinality(RightsIn(entry', p)) = Cardinality(RightsIn(entry, p)) - 1
  <2>1. IsFiniteSet(RightsIn(entry, p))
    BY CountsFinite
  <2>2. Cardinality(RightsIn(entry, p) \ {<<t, i>>}) = Cardinality(RightsIn(entry, p)) - 1
    BY <1>4, <2>1, FS_RemoveElement
  <2> QED BY <1>3, <2>2
<1> QED BY <1>2, <1>5

(* mach_port_deallocate_kernel: the entry becomes a port to destroy, or a  *)
(* reference to release.                                                   *)
LEMMA DeallocStep ==
    ASSUME IInv, NEW t \in Tasks, NEW i \in Indices, Dealloc(t, i), MayDrop(t, entry[t][i].port)
    PROVE  IInv'
<1> DEFINE e == entry[t][i]
           p == e.port
<1>1. /\ at[t] = "user" /\ i < used[t] /\ e.bits # "none" /\ FreeName(t, i)
      /\ at' = [at EXCEPT ![t] = "drop"] /\ ptr' = [ptr EXCEPT ![t] = NoPort]
      /\ arena' = arena /\ refs' = refs /\ state' = state /\ receiver' = receiver /\ queue' = queue
      /\ kobject' = kobject /\ service' = service
      /\ p # service /\ kobject[p] # t /\ \A c \in Tasks : at[c] = "insert" => ptr[c] # p
  BY DEF Dealloc, MayDrop, Goto, portVars
<1>2. /\ e \in Entries /\ e # Empty /\ p \in Ports /\ e.bits \in {"send", "recv"}
      /\ e = [port |-> p, bits |-> e.bits]
  <2>1. e \in Entries
    BY DEF IInv, TypeOK
  <2> HIDE DEF e
  <2> QED BY <1>1, <2>1, EntryFacts
<1>3. e.bits = "recv" => /\ state[p] = "ACTIVE" /\ receiver[p] = [task |-> t, name |-> <<gen[t][i], i>>]
                         /\ doomed' = [doomed EXCEPT ![t] = {p}] /\ owed' = owed
  <2>1. SUFFICES ASSUME e.bits = "recv"
                 PROVE  /\ state[p] = "ACTIVE" /\ receiver[p] = [task |-> t, name |-> <<gen[t][i], i>>]
                        /\ doomed' = [doomed EXCEPT ![t] = {p}] /\ owed' = owed
    OBVIOUS
  <2>2. state[p] = "ACTIVE" /\ receiver[p] = [task |-> t, name |-> <<gen[t][i], i>>]
    BY <2>1, ReceiveRight
  <2>3. receiver[p].task = t
    BY <2>2
  <2> QED BY <2>1, <2>2, <2>3 DEF Dealloc
<1>4. e.bits = "send" => owed' = [owed EXCEPT ![t] = Owes(p)] /\ doomed' = doomed
  BY DEF Dealloc
<1>5. /\ Active(t) /\ gen[t][i] <= MaxGen /\ ptr[t] = NoPort /\ doomed[t] = {} /\ owed[t] = Nothing
      /\ i # TaskIndex
  <2>1. Active(t)
    BY <1>1 DEF Active
  <2>2. gen[t][i] <= MaxGen
    BY <1>2 DEF IInv, TablesShaped
  <2>3. ptr[t] = NoPort /\ doomed[t] = {} /\ owed[t] = Nothing
    BY <1>1 DEF IInv, PointersHeld, NothingOwed
  <2>4. i # TaskIndex
    BY <1>1, <2>1 DEF IInv, TaskPorts
  <2> QED BY <2>1, <2>2, <2>3, <2>4
<1>6. /\ entry' \in [Tasks -> [Indices -> Entries]]
      /\ gen' \in [Tasks -> [Indices -> 0 .. MaxGen + 1]]
      /\ used' \in [Tasks -> 1 .. Size] /\ names' \in [Tasks -> SUBSET Indices]
      /\ freed' \in [Tasks -> SUBSET Names] /\ used' = used
      /\ \A u \in Tasks, j \in Indices : entry'[u][j] = IF u = t /\ j = i THEN Empty ELSE entry[u][j]
      /\ \A u \in Tasks, j \in Indices : gen'[u][j] = IF u = t /\ j = i THEN gen[u][j] + 1 ELSE gen[u][j]
      /\ \A u \in Tasks, j \in Indices : gen'[u][j] >= gen[u][j] /\ gen[u][j] \in Nat
      /\ \A u \in Tasks : names'[u] = IF u = t THEN names[u] \cup {i} ELSE names[u]
      /\ NamesPassed'
  <2>1. FreeName(t, i) /\ gen[t][i] <= MaxGen
    BY <1>1, <1>5
  <2>2. NameFreed(t, i)
    BY <2>1, FreeFacts
  <2> QED BY <2>2 DEF NameFreed
<1>7. /\ \A q \in Ports \ {p} : RightsIn(entry', q) = RightsIn(entry, q)
      /\ Cardinality(RightsIn(entry', p)) = Cardinality(RightsIn(entry, p)) - 1
  BY <1>2, <1>6, FreeRights
<1> HIDE DEF e, p
<1>8. /\ at' \in [Tasks -> {"none", "user", "send", "append", "recv", "insert", "drop", "exit", "dead"}]
      /\ ptr' \in [Tasks -> Ports \cup {NoPort}]
      /\ \A u \in Tasks : at'[u] = IF u = t THEN "drop" ELSE at[u]
      /\ \A u \in Tasks : ptr'[u] = ptr[u]
  BY <1>1, <1>5 DEF IInv, TypeOK
<1>9. /\ Owes(p) \in [Ports -> Nat] /\ Owes(p)[p] = 1 /\ \A q \in Ports \ {p} : Owes(p)[q] = 0
      /\ \A q \in Ports : Nothing[q] = 0
  BY <1>2 DEF Owes, Nothing
<1>10. /\ doomed' \in [Tasks -> SUBSET Ports] /\ owed' \in [Tasks -> [Ports -> Nat]]
       /\ \A u \in Tasks : u # t => doomed'[u] = doomed[u] /\ owed'[u] = owed[u]
       /\ e.bits = "recv" => doomed'[t] = {p} /\ owed'[t] = Nothing
       /\ e.bits = "send" => doomed'[t] = {} /\ owed'[t] = Owes(p)
  <2>1. doomed \in [Tasks -> SUBSET Ports] /\ owed \in [Tasks -> [Ports -> Nat]]
    BY DEF IInv, TypeOK
  <2>2. CASE e.bits = "recv"
    BY <1>2, <1>3, <1>5, <2>1, <2>2
  <2>3. CASE e.bits = "send"
    BY <1>2, <1>4, <1>5, <1>9, <2>1, <2>3
  <2> QED BY <1>2, <2>2, <2>3
<1>11. TypeOK' /\ SpacesTyped'
  <2>1. SpacesTyped'
    BY <1>1, <1>6 DEF IInv, SpacesTyped
  <2>2. /\ arena' \subseteq Ports /\ refs' \in [Ports -> Nat]
        /\ state' \in [Ports -> {"unused", "ACTIVE", "ZOMBIE", "DEAD"}]
        /\ \A q \in Ports : receiver'[q] = Nobody \/ receiver'[q] \in [task : Tasks, name : Names]
        /\ \A q \in Ports : Len(queue'[q]) <= QLimit
        /\ kobject' \in [Ports -> Tasks \cup {NoTask}] /\ service' \in Ports \cup {NoPort}
    BY <1>1 DEF IInv, TypeOK
  <2>3. \A u \in Tasks : freed'[u] \subseteq Names
    BY <1>6
  <2> QED BY <1>6, <1>8, <1>10, <2>1, <2>2, <2>3 DEF TypeOK
<1>12. \A u \in Tasks : /\ at'[u] \notin {"none", "exit", "dead"} <=> Active(u)
                        /\ at'[u] = "none" <=> at[u] = "none" /\ u # t
  BY <1>1, <1>8 DEF Active
<1>13. TablesShaped'
  <2>1. ASSUME NEW u \in Tasks, NEW j \in Indices, entry'[u][j] # Empty
        PROVE  at'[u] \notin {"none", "exit", "dead"} /\ j < used'[u] /\ j \notin names'[u] /\ gen'[u][j] <= MaxGen
    <3>1. ~(u = t /\ j = i) /\ entry[u][j] # Empty
      BY <1>6, <2>1
    <3>2. Active(u) /\ j < used[u] /\ j \notin names[u] /\ gen[u][j] <= MaxGen
      BY <3>1 DEF IInv, TablesShaped
    <3> QED BY <1>6, <1>12, <3>1, <3>2
  <2>2. ASSUME NEW u \in Tasks, at'[u] = "none"
        PROVE  names'[u] = {} /\ freed'[u] = {} /\ \A j \in Indices : gen'[u][j] = 0
    <3>1. at[u] = "none" /\ u # t
      BY <1>12, <2>2
    <3>2. freed'[u] = freed[u]
      BY <1>1, <3>1 DEF FreeName, IInv, SpacesTyped
    <3>3. names'[u] = names[u] /\ \A j \in Indices : gen'[u][j] = gen[u][j]
      BY <1>6, <3>1
    <3> QED BY <3>1, <3>2, <3>3 DEF IInv, TablesShaped
  <2>3. ASSUME NEW u \in Tasks, at'[u] \notin {"none", "exit", "dead"}, NEW j \in names'[u]
        PROVE  j < used'[u]
    <3>1. Active(u)
      BY <1>12, <2>3
    <3>2. CASE j \in names[u]
      BY <1>6, <3>1, <3>2 DEF IInv, TablesShaped
    <3>3. CASE j \notin names[u]
      BY <1>1, <1>6, <2>3, <3>3
    <3> QED BY <3>2, <3>3
  <2> QED BY <2>1, <2>2, <2>3 DEF TablesShaped, Active
<1>14. ReceiversRecorded'
  <2> SUFFICES ASSUME NEW u \in Tasks, NEW j \in Indices, entry'[u][j].bits = "recv"
               PROVE  /\ state[entry'[u][j].port] = "ACTIVE"
                      /\ receiver[entry'[u][j].port] = [task |-> u, name |-> <<gen'[u][j], j>>]
    BY <1>1 DEF ReceiversRecorded
  <2>1. ~(u = t /\ j = i)
    BY <1>6 DEF Empty
  <2>2. entry'[u][j] = entry[u][j] /\ gen'[u][j] = gen[u][j]
    BY <1>6, <2>1
  <2> QED BY <2>2, ReceiveRight
<1>15. ASSUME NEW u \in Tasks, NEW q \in Ports
       PROVE  /\ u # t => (Destroys(u, q)' <=> Destroys(u, q))
              /\ ~Destroys(t, q)
              /\ Destroys(t, q)' <=> e.bits = "recv" /\ q = p
  <2>1. ~Destroys(t, q)
    BY <1>1, <1>5 DEF Destroys
  <2>2. u # t => (Destroys(u, q)' <=> Destroys(u, q))
    BY <1>8, <1>10 DEF Destroys
  <2>3. Destroys(t, q)' <=> q \in doomed'[t]
    BY <1>5, <1>8, PortAssumption DEF Destroys
  <2> QED BY <1>2, <1>10, <2>1, <2>2, <2>3
<1>16. e.bits = "recv" => \A v \in Tasks, j \in Indices : entry'[v][j] # [port |-> p, bits |-> "recv"]
  <2> SUFFICES ASSUME e.bits = "recv", NEW v \in Tasks, NEW j \in Indices,
                      entry'[v][j] = [port |-> p, bits |-> "recv"]
               PROVE  FALSE
    OBVIOUS
  <2>1. ~(v = t /\ j = i)
    BY <1>6 DEF Empty
  <2>2. entry[v][j].port = p /\ entry[v][j].bits = "recv"
    BY <1>6, <2>1
  <2>3. receiver[p] = [task |-> v, name |-> <<gen[v][j], j>>]
    BY <2>2, ReceiveRight
  <2>4. receiver[p] = [task |-> t, name |-> <<gen[t][i], i>>]
    BY <1>3
  <2> QED BY <2>1, <2>3, <2>4
<1>17. DestroyersOwn'
  <2> SUFFICES ASSUME NEW q \in Ports, NEW u \in Tasks, Destroys(u, q)'
               PROVE  /\ at'[u] \in {"drop", "exit"}
                      /\ receiver'[q] # Nobody /\ receiver'[q].task = u
                      /\ \A v \in Tasks, j \in Indices : entry'[v][j] # [port |-> q, bits |-> "recv"]
                      /\ at'[u] = "drop" => gen'[u][receiver'[q].name[2]] > receiver'[q].name[1]
                      /\ q \in doomed'[u] => state'[q] = "ACTIVE" /\ ptr'[u] # q
                      /\ ptr'[u] = q => state'[q] = "ZOMBIE"
    BY DEF DestroyersOwn
  <2>1. CASE u # t
    <3>1. Destroys(u, q)
      BY <1>15, <2>1
    <3>2. /\ at[u] \in {"drop", "exit"} /\ receiver[q] # Nobody /\ receiver[q].task = u
          /\ receiver[q].name[2] \in Indices
          /\ \A v \in Tasks, j \in Indices : entry[v][j] # [port |-> q, bits |-> "recv"]
          /\ at[u] = "drop" => gen[u][receiver[q].name[2]] > receiver[q].name[1]
          /\ q \in doomed[u] => state[q] = "ACTIVE" /\ ptr[u] # q
          /\ ptr[u] = q => state[q] = "ZOMBIE"
      BY <3>1, Destroyer
    <3>3. at'[u] = at[u] /\ ptr'[u] = ptr[u] /\ doomed'[u] = doomed[u]
      BY <1>8, <1>10, <2>1
    <3>4. gen'[u][receiver[q].name[2]] = gen[u][receiver[q].name[2]]
      BY <1>6, <2>1, <3>2
    <3>5. ASSUME NEW v \in Tasks, NEW j \in Indices
          PROVE  entry'[v][j] # [port |-> q, bits |-> "recv"]
      <4>1. entry'[v][j] = entry[v][j] \/ entry'[v][j] = Empty
        BY <1>6
      <4> QED BY <3>2, <4>1 DEF Empty
    <3> QED BY <1>1, <3>2, <3>3, <3>4, <3>5
  <2>2. CASE u = t
    <3>1. e.bits = "recv" /\ q = p
      BY <1>15, <2>2
    <3>2. receiver'[q] = [task |-> t, name |-> <<gen[t][i], i>>] /\ state'[q] = "ACTIVE"
      BY <1>1, <1>3, <3>1
    <3>3. receiver'[q].task = t /\ receiver'[q].name[2] = i /\ receiver'[q].name[1] = gen[t][i]
      BY <3>2
    <3>4. receiver'[q] # Nobody
      BY <3>3, TaskAssumption DEF Nobody
    <3>5. gen'[t][i] > gen[t][i]
      BY <1>6
    <3>6. ptr'[t] # q
      BY <1>5, <1>8, PortAssumption
    <3> QED BY <1>8, <1>16, <2>2, <3>1, <3>2, <3>3, <3>4, <3>5, <3>6
  <2> QED BY <2>1, <2>2
<1>18. LiveOwned'
  <2> SUFFICES ASSUME NEW q \in Ports, state[q] = "ACTIVE"
               PROVE  \/ \E u \in Tasks : Destroys(u, q)'
                      \/ \E u \in Tasks, j \in Indices : entry'[u][j] = [port |-> q, bits |-> "recv"]
    BY <1>1 DEF LiveOwned
  <2>1. CASE \E u \in Tasks : Destroys(u, q)
    BY <1>15, <2>1
  <2>2. CASE \E u \in Tasks, j \in Indices : entry[u][j] = [port |-> q, bits |-> "recv"]
    <3>1. PICK u \in Tasks, j \in Indices : entry[u][j] = [port |-> q, bits |-> "recv"]
      BY <2>2
    <3>2. CASE u = t /\ j = i
      <4>1. e.bits = "recv" /\ q = p
        BY <3>1, <3>2 DEF e, p
      <4> QED BY <1>15, <4>1
    <3>3. CASE ~(u = t /\ j = i)
      <4>1. entry'[u][j] = [port |-> q, bits |-> "recv"]
        BY <1>6, <3>1, <3>3
      <4> QED BY <4>1
    <3> QED BY <3>2, <3>3
  <2> QED BY <2>1, <2>2 DEF IInv, LiveOwned
<1>19. TaskPorts'
  <2>1. ASSUME NEW u \in Tasks, Active(u)
        PROVE  entry'[u][TaskIndex].bits = "recv" /\ kobject[entry'[u][TaskIndex].port] = u
    <3>1. entry[u][TaskIndex].bits = "recv" /\ kobject[entry[u][TaskIndex].port] = u
      BY <2>1 DEF IInv, TaskPorts
    <3> QED BY <1>5, <1>6, <3>1, IndexFacts
  <2> QED BY <1>1, <1>12, <2>1, TaskAssumption DEF IInv, TaskPorts, Active
<1>20. NothingOwed'
  <2>1. ASSUME NEW u \in Tasks, at'[u] \notin {"drop", "exit"} PROVE doomed'[u] = {} /\ owed'[u] = Nothing
    <3>1. u # t /\ at[u] \notin {"drop", "exit"}
      BY <1>8, <2>1
    <3> QED BY <1>10, <3>1 DEF IInv, NothingOwed
  <2>2. ASSUME NEW u \in Tasks, NEW q \in Ports
        PROVE  owed'[u][q] <= Size /\ (Destroys(u, q)' => owed'[u][q] < Size)
    <3>1. CASE u # t
      BY <1>10, <1>15, <3>1 DEF IInv, NothingOwed
    <3>2. CASE u = t
      <4>1. owed'[t][q] = 0 \/ owed'[t][q] = 1
        BY <1>2, <1>9, <1>10
      <4> QED BY <3>2, <4>1, IndexFacts
    <3> QED BY <3>1, <3>2
  <2> QED BY <2>1, <2>2 DEF NothingOwed
<1>21. PointersHeld'
  <2>1. ASSUME NEW u \in Tasks, NEW q \in Ports, u # t \/ q # p, \E j \in Indices : entry[u][j].port = q
        PROVE  \E j \in Indices : entry'[u][j].port = q
    <3>1. PICK j \in Indices : entry[u][j].port = q
      BY <2>1
    <3>2. ~(u = t /\ j = i)
      BY <2>1, <3>1 DEF p, e
    <3> QED BY <1>6, <3>1, <3>2
  <2>2. service # NoPort => service \in Ports
    BY DEF IInv, TypeOK
  <2>3. /\ \A u \in Tasks : at[u] \in {"send", "append", "recv"} =>
              ptr[u] \in Ports /\ \E j \in Indices : entry[u][j].port = ptr[u]
        /\ \A u \in Tasks : at[u] = "insert" =>
              ptr[u] \in Ports /\ \E j \in Indices : entry[Daemon][j].port = ptr[u]
        /\ \A u \in Tasks : at[u] \in {"none", "user", "dead"} => ptr[u] = NoPort
        /\ service # NoPort => \E j \in Indices : entry[Daemon][j].port = service
    BY DEF IInv, PointersHeld
  <2>4. \A u \in Tasks : at'[u] \in {"send", "append", "recv"} =>
            ptr'[u] \in Ports /\ \E j \in Indices : entry'[u][j].port = ptr'[u]
    BY <1>8, <2>1, <2>3
  <2>5. \A u \in Tasks : at'[u] = "insert" =>
            ptr'[u] \in Ports /\ \E j \in Indices : entry'[Daemon][j].port = ptr'[u]
    BY <1>1, <1>8, <2>1, <2>3, TaskAssumption
  <2>6. \A u \in Tasks : at'[u] \in {"none", "user", "dead"} => ptr'[u] = NoPort
    BY <1>8, <2>3
  <2>7. service' # NoPort => \E j \in Indices : entry'[Daemon][j].port = service'
    BY <1>1, <2>1, <2>2, <2>3, TaskAssumption
  <2> QED BY <2>4, <2>5, <2>6, <2>7 DEF PointersHeld
<1>22. AppendsFit'
  <2>1. \A u \in Tasks : at'[u] = "append" <=> at[u] = "append"
    BY <1>1, <1>8
  <2> QED BY <1>1, <1>8, <2>1 DEF IInv, AppendsFit
<1>23. RefsExact'
  <2>1. RefsFit(entry, doomed, at, ptr, owed, refs, arena)
    BY RefsFitNow DEF IInv
  <2>2. ASSUME NEW q \in Ports, q # p \/ e.bits = "send"
        PROVE  DestroyersIn(doomed', at', ptr', q) = DestroyersIn(doomed, at, ptr, q)
    <3>1. \A u \in Tasks : Destroys(u, q)' <=> Destroys(u, q)
      BY <1>15, <2>2
    <3> QED BY <3>1 DEF DestroyersIn, Destroys
  <2>3. ASSUME NEW q \in Ports, q = p, e.bits = "recv"
        PROVE  Cardinality(DestroyersIn(doomed', at', ptr', q))
                   = Cardinality(DestroyersIn(doomed, at, ptr, q)) + 1
    <3>1. \A u \in Tasks : Destroys(u, q)' <=> Destroys(u, q) \/ u = t
      BY <1>15, <2>3
    <3>2. t \notin DestroyersIn(doomed, at, ptr, q)
      BY <1>15 DEF DestroyersIn, Destroys
    <3>3. DestroyersIn(doomed', at', ptr', q) = DestroyersIn(doomed, at, ptr, q) \cup {t}
      BY <3>1 DEF DestroyersIn, Destroys
    <3>4. IsFiniteSet(DestroyersIn(doomed, at, ptr, q))
      BY CountsFinite
    <3> QED BY <3>2, <3>3, <3>4, FS_AddElement
  <2>4. ASSUME NEW q \in Ports, q # p \/ e.bits = "recv" PROVE OwedIn(owed', q) = OwedIn(owed, q)
    <3>1. \A u \in Tasks : owed'[u][q] = owed[u][q]
      BY <1>2, <1>5, <1>9, <1>10, <2>4
    <3>2. \A h \in Tasks \X (1 .. Size) : owed'[h[1]][q] = owed[h[1]][q]
      BY <3>1
    <3> QED BY <3>2 DEF OwedIn
  <2>5. e.bits = "send" => Cardinality(OwedIn(owed', p)) = Cardinality(OwedIn(owed, p)) + 1
    <3>1. SUFFICES ASSUME e.bits = "send"
                   PROVE  Cardinality(OwedIn(owed', p)) = Cardinality(OwedIn(owed, p)) + 1
      OBVIOUS
    <3>2. owed[t][p] = 0 /\ owed'[t][p] = 1 /\ \A u \in Tasks : u # t => owed'[u][p] = owed[u][p]
      BY <1>2, <1>5, <1>9, <1>10, <3>1
    <3>3. <<t, 1>> \in Tasks \X (1 .. Size)
      BY IndexFacts
    <3>4. ASSUME NEW h \in Tasks \X (1 .. Size)
          PROVE  h[2] <= owed'[h[1]][p] <=> h[2] <= owed[h[1]][p] \/ h = <<t, 1>>
      <4>1. h[1] \in Tasks /\ h[2] \in Nat /\ h[2] >= 1 /\ h = <<h[1], h[2]>>
        BY IndexFacts
      <4>2. CASE h[1] = t
        BY <3>2, <4>1, <4>2
      <4>3. CASE h[1] # t
        BY <3>2, <4>1, <4>3
      <4> QED BY <4>2, <4>3
    <3>5. OwedIn(owed', p) = OwedIn(owed, p) \cup {<<t, 1>>}
      BY <3>3, <3>4 DEF OwedIn
    <3>6. <<t, 1>> \notin OwedIn(owed, p)
      <4>1. ~(1 <= owed[t][p])
        BY <3>2
      <4> QED BY <4>1 DEF OwedIn
    <3>7. IsFiniteSet(OwedIn(owed, p))
      BY CountsFinite
    <3> QED BY <3>5, <3>6, <3>7, FS_AddElement
  <2>6. ASSUME NEW q \in Ports
        PROVE  /\ refs[q] = Cardinality(RightsIn(entry', q)) + Cardinality(DestroyersIn(doomed', at', ptr', q))
                            + Cardinality(OwedIn(owed', q))
               /\ q \in arena <=> refs[q] = 0
    <3>1. /\ refs[q] = Cardinality(RightsIn(entry, q)) + Cardinality(DestroyersIn(doomed, at, ptr, q))
                       + Cardinality(OwedIn(owed, q))
          /\ q \in arena <=> refs[q] = 0
      BY <2>1 DEF RefsFit
    <3>2. /\ Cardinality(RightsIn(entry, q)) \in Nat /\ Cardinality(OwedIn(owed, q)) \in Nat
          /\ Cardinality(DestroyersIn(doomed, at, ptr, q)) \in Nat
      BY CountsFinite
    <3>3. CASE q # p
      BY <1>7, <2>2, <2>4, <3>1, <3>3
    <3>4. CASE q = p /\ e.bits = "recv"
      BY <1>7, <2>3, <2>4, <3>1, <3>2, <3>4
    <3>5. CASE q = p /\ e.bits = "send"
      BY <1>7, <2>2, <2>5, <3>1, <3>2, <3>5
    <3> QED BY <1>2, <3>3, <3>4, <3>5
  <2>7. RefsFit(entry', doomed', at', ptr', owed', refs', arena')
    BY <1>1, <2>6 DEF RefsFit
  <2> QED BY <2>7, RefsFitNext
<1> QED BY <1>6, <1>11, <1>13, <1>14, <1>17, <1>18, <1>19, <1>20, <1>21, <1>22, <1>23 DEF IInv

(* A set paired with one value has as many elements.                       *)
LEMMA RowCount ==
    ASSUME NEW t, NEW S, IsFiniteSet(S)
    PROVE  IsFiniteSet({t} \X S) /\ Cardinality({t} \X S) = Cardinality(S) /\ Cardinality(S) \in Nat
<1>1. IsFiniteSet({t}) /\ Cardinality({t}) = 1 /\ Cardinality(S) \in Nat
  BY FS_Singleton, FS_CardinalityType
<1>2. IsFiniteSet({t} \X S) /\ Cardinality({t} \X S) = Cardinality({t}) * Cardinality(S)
  BY <1>1, FS_Product
<1> QED BY <1>1, <1>2

(* Two sets without common elements.                                       *)
LEMMA DisjointCount ==
    ASSUME NEW S, NEW T, IsFiniteSet(S), IsFiniteSet(T), S \cap T = {}
    PROVE  IsFiniteSet(S \cup T) /\ Cardinality(S \cup T) = Cardinality(S) + Cardinality(T)
<1>1. /\ IsFiniteSet(S \cup T)
      /\ Cardinality(S \cup T) = Cardinality(S) + Cardinality(T) - Cardinality(S \cap T)
  BY FS_Union
<1>2. Cardinality(S \cap T) = 0
  BY FS_EmptySet
<1>3. Cardinality(S) \in Nat /\ Cardinality(T) \in Nat
  BY FS_CardinalityType
<1> QED BY <1>1, <1>2, <1>3

(* Only the debts of t differ.                                             *)
OthersOwe(o, o2, t, q) == \A u \in Tasks : u # t => o2[u][q] = o[u][q]

(* The debts, when those of one thread grow.                               *)
LEMMA OwedGrows ==
    ASSUME NEW o, NEW o2, NEW t \in Tasks, NEW q, OthersOwe(o, o2, t, q),
           o[t][q] \in Nat, o2[t][q] \in Nat, o[t][q] <= o2[t][q], o2[t][q] <= Size
    PROVE  Cardinality(OwedIn(o2, q)) + o[t][q] = Cardinality(OwedIn(o, q)) + o2[t][q]
<1> DEFINE k == o[t][q]
           n == o2[t][q]
<1>0. k \in Nat /\ n \in Nat /\ k <= n /\ n <= Size /\ o[t][q] = k /\ o2[t][q] = n
  OBVIOUS
<1> HIDE DEF k, n
<1> USE <1>0
<1> DEFINE T == {t} \X ((k + 1) .. n)
<1>1. IsFiniteSet((k + 1) .. n) /\ Cardinality((k + 1) .. n) = n - k
  <2>1. k + 1 \in Int /\ n \in Int
    OBVIOUS
  <2>2. /\ IsFiniteSet((k + 1) .. n)
        /\ Cardinality((k + 1) .. n) = IF k + 1 > n THEN 0 ELSE n - (k + 1) + 1
    BY <2>1, FS_Interval
  <2> QED BY <2>2
<1>2. IsFiniteSet(T) /\ Cardinality(T) = n - k
  BY <1>1, RowCount
<1>3. ASSUME NEW h \in Tasks \X (1 .. Size)
      PROVE  h[2] <= o2[h[1]][q] <=> h[2] <= o[h[1]][q] \/ h \in T
  <2>1. h[1] \in Tasks /\ h[2] \in Nat /\ h[2] >= 1 /\ h = <<h[1], h[2]>>
    BY IndexFacts
  <2>2. h \in T <=> h[1] = t /\ h[2] \in (k + 1) .. n
    BY <2>1
  <2> HIDE DEF T
  <2>3. CASE h[1] = t
    BY <2>1, <2>2, <2>3
  <2>4. CASE h[1] # t
    BY <2>1, <2>2, <2>4 DEF OthersOwe
  <2> QED BY <2>3, <2>4
<1>4. T \subseteq Tasks \X (1 .. Size)
  <2>1. (k + 1) .. n \subseteq 1 .. Size
    BY IndexFacts
  <2> QED BY <2>1
<1>5. OwedIn(o2, q) = OwedIn(o, q) \cup T
  <2> HIDE DEF T
  <2> QED BY <1>3, <1>4 DEF OwedIn
<1>6. OwedIn(o, q) \cap T = {}
  <2> SUFFICES ASSUME NEW h \in OwedIn(o, q), h \in T PROVE FALSE
    OBVIOUS
  <2>1. h[1] = t /\ h[2] \in (k + 1) .. n /\ h[2] <= o[h[1]][q]
    BY DEF OwedIn
  <2> QED BY <2>1
<1> HIDE DEF T
<1>7. IsFiniteSet(OwedIn(o, q)) /\ Cardinality(OwedIn(o, q)) \in Nat
  BY CountsFinite
<1>8. Cardinality(OwedIn(o2, q)) = Cardinality(OwedIn(o, q)) + Cardinality(T)
  BY <1>2, <1>5, <1>6, <1>7, DisjointCount
<1> QED BY <1>2, <1>7, <1>8

(* The rights, when a table is emptied: the send rights and the receive    *)
(* rights in it are gone.                                                  *)
LEMMA ExitRights ==
    ASSUME NEW t \in Tasks, NEW q \in Ports, \A i \in Indices : entry[t][i] \in Entries,
           \A u \in Tasks, i \in Indices : u # t => entry'[u][i] = entry[u][i],
           \A i \in Indices : entry'[t][i] = Empty
    PROVE  Cardinality(RightsIn(entry, q)) = Cardinality(RightsIn(entry', q))
               + Cardinality({i \in Indices : entry[t][i] = [port |-> q, bits |-> "send"]})
               + Cardinality({i \in Indices : entry[t][i] = [port |-> q, bits |-> "recv"]})
<1> DEFINE S == {i \in Indices : entry[t][i] = [port |-> q, bits |-> "send"]}
           R == {i \in Indices : entry[t][i] = [port |-> q, bits |-> "recv"]}
<1>1. IsFiniteSet(Indices)
  BY FS_Interval, SizeAssumption DEF Indices
<1>2. IsFiniteSet(S) /\ IsFiniteSet(R)
  BY <1>1, FS_Subset
<1>3. ASSUME NEW i \in Indices PROVE entry[t][i].port = q <=> i \in S \cup R
  <2>1. entry[t][i] \in Entries
    OBVIOUS
  <2>2. /\ entry[t][i] = Empty => entry[t][i].port = NoPort
        /\ entry[t][i] # Empty => entry[t][i].bits \in {"send", "recv"}
        /\ entry[t][i] = [port |-> entry[t][i].port, bits |-> entry[t][i].bits]
    BY <2>1, EntryFacts
  <2>3. ASSUME entry[t][i].port = q PROVE i \in S \cup R
    BY <2>2, <2>3, PortAssumption
  <2>4. ASSUME i \in S \cup R PROVE entry[t][i].port = q
    BY <2>4
  <2> QED BY <2>3, <2>4
<1>4. S \cap R = {}
  OBVIOUS
<1>5. S \cup R \subseteq Indices
  OBVIOUS
<1> HIDE DEF S, R
<1>6. /\ IsFiniteSet(S \cup R) /\ Cardinality(S \cup R) = Cardinality(S) + Cardinality(R)
  BY <1>2, <1>4, DisjointCount
<1> DEFINE T == {t} \X (S \cup R)
<1>7. IsFiniteSet(T) /\ Cardinality(T) = Cardinality(S) + Cardinality(R)
  BY <1>6, RowCount
<1>8. \A i \in Indices : entry'[t][i].port # q
  BY PortAssumption DEF Empty
<1>9. ASSUME NEW h \in Tasks \X Indices
      PROVE  entry[h[1]][h[2]].port = q <=> entry'[h[1]][h[2]].port = q \/ h \in T
  <2>1. h[1] \in Tasks /\ h[2] \in Indices /\ h = <<h[1], h[2]>>
    OBVIOUS
  <2>2. h \in T <=> h[1] = t /\ h[2] \in S \cup R
    BY <2>1
  <2> HIDE DEF T
  <2>3. CASE h[1] = t
    BY <1>3, <1>8, <2>1, <2>2, <2>3
  <2>4. CASE h[1] # t
    BY <2>1, <2>2, <2>4
  <2> QED BY <2>3, <2>4
<1>10. T \subseteq Tasks \X Indices
  BY <1>5
<1>11. RightsIn(entry', q) \cap T = {}
  <2> SUFFICES ASSUME NEW h \in RightsIn(entry', q), h \in T PROVE FALSE
    OBVIOUS
  <2>1. h[1] = t /\ h[2] \in Indices /\ entry'[h[1]][h[2]].port = q
    BY <1>5 DEF RightsIn
  <2> QED BY <1>8, <2>1
<1> HIDE DEF T
<1>12. RightsIn(entry, q) = RightsIn(entry', q) \cup T
  BY <1>9, <1>10 DEF RightsIn
<1>13. IsFiniteSet(RightsIn(entry', q)) /\ Cardinality(RightsIn(entry', q)) \in Nat
  BY CountsFinite
<1>14. Cardinality(RightsIn(entry, q)) = Cardinality(RightsIn(entry', q)) + Cardinality(T)
  BY <1>7, <1>11, <1>12, <1>13, DisjointCount
<1>15. Cardinality(S) \in Nat /\ Cardinality(R) \in Nat
  BY <1>2, FS_CardinalityType
<1>16. Cardinality(RightsIn(entry, q)) = Cardinality(RightsIn(entry', q)) + Cardinality(S) + Cardinality(R)
  BY <1>7, <1>13, <1>14, <1>15
<1> QED BY <1>16 DEF S, R

(* ipc_space_destroy empties the table: every right in it becomes a port   *)
(* to destroy or a reference to release.                                   *)
LEMMA ExitStep ==
    ASSUME IInv, NEW t \in Tasks, Exit(t)
    PROVE  IInv'
<1> DEFINE D == {p \in Ports : \E i \in Indices : entry[t][i] = [port |-> p, bits |-> "recv"]
                                                   /\ receiver[p].task = t}
           S(q) == {i \in Indices : entry[t][i] = [port |-> q, bits |-> "send"]}
           R(q) == {i \in Indices : entry[t][i] = [port |-> q, bits |-> "recv"]}
<1>1. /\ at[t] = "user" /\ t # Daemon
      /\ entry' = [entry EXCEPT ![t] = [i \in Indices |-> Empty]] /\ used' = [used EXCEPT ![t] = 1]
      /\ doomed' = [doomed EXCEPT ![t] = D] /\ owed' = [owed EXCEPT ![t] = Held(t)]
      /\ at' = [at EXCEPT ![t] = "exit"] /\ ptr' = [ptr EXCEPT ![t] = NoPort]
      /\ gen' = gen /\ names' = names /\ freed' = freed
      /\ arena' = arena /\ refs' = refs /\ state' = state /\ receiver' = receiver /\ queue' = queue
      /\ kobject' = kobject /\ service' = service
  BY DEF Exit, Goto, portVars
<1>2. Active(t) /\ ptr[t] = NoPort /\ doomed[t] = {} /\ owed[t] = Nothing
  BY <1>1 DEF Active, IInv, PointersHeld, NothingOwed
<1>3. ASSUME NEW q \in Ports
      PROVE  /\ IsFiniteSet(S(q)) /\ Cardinality(S(q)) \in Nat /\ Cardinality(S(q)) <= Size - 1
             /\ Held(t)[q] = Cardinality(S(q))
  <2>1. IsFiniteSet(Indices) /\ Cardinality(Indices) = Size - 1
    <3>1. IsFiniteSet(1 .. Size - 1) /\ Cardinality(1 .. Size - 1) = IF 1 > Size - 1 THEN 0 ELSE Size - 1 - 1 + 1
      <4>1. 1 \in Int /\ Size - 1 \in Int
        BY SizeAssumption
      <4> QED BY <4>1, FS_Interval
    <3> QED BY <3>1, SizeAssumption DEF Indices
  <2>2. IsFiniteSet(S(q)) /\ Cardinality(S(q)) <= Cardinality(Indices)
    BY <2>1, FS_Subset
  <2>3. Cardinality(S(q)) \in Nat
    BY <2>2, FS_CardinalityType
  <2>4. Held(t)[q] = Cardinality(S(q))
    BY DEF Held
  <2> QED BY <2>1, <2>2, <2>3, <2>4
<1>4. ASSUME NEW q \in Ports, NEW i \in R(q)
      PROVE  /\ state[q] = "ACTIVE" /\ receiver[q] = [task |-> t, name |-> <<gen[t][i], i>>]
             /\ q \in D /\ receiver[q] # Nobody /\ receiver[q].task = t
  <2>1. i \in Indices /\ entry[t][i] = [port |-> q, bits |-> "recv"]
    OBVIOUS
  <2>2. entry[t][i].bits = "recv" /\ entry[t][i].port = q
    BY <2>1
  <2>3. state[q] = "ACTIVE" /\ receiver[q] = [task |-> t, name |-> <<gen[t][i], i>>]
    BY <2>1, <2>2, ReceiveRight
  <2>4. receiver[q].task = t
    BY <2>3
  <2>5. receiver[q] # Nobody
    BY <2>4, TaskAssumption DEF Nobody
  <2> QED BY <2>1, <2>3, <2>4, <2>5
<1>5. ASSUME NEW q \in D PROVE q \in Ports /\ \E i \in Indices : i \in R(q)
  OBVIOUS
<1>6. ASSUME NEW q \in Ports
      PROVE  Cardinality(R(q)) = IF q \in D THEN 1 ELSE 0
  <2>1. CASE q \in D
    <3>1. PICK i \in Indices : i \in R(q)
      BY <1>5, <2>1
    <3>2. ASSUME NEW j \in R(q) PROVE j = i
      <4>1. /\ receiver[q] = [task |-> t, name |-> <<gen[t][i], i>>]
            /\ receiver[q] = [task |-> t, name |-> <<gen[t][j], j>>]
        BY <1>4, <3>1
      <4> HIDE DEF R
      <4> QED BY <4>1
    <3>3. R(q) = {i}
      BY <3>1, <3>2
    <3> QED BY <2>1, <3>3, FS_Singleton
  <2>2. CASE q \notin D
    <3>1. R(q) = {}
      BY <1>4, <2>2
    <3> QED BY <2>2, <3>1, FS_EmptySet
  <2> QED BY <2>1, <2>2
<1>7. D \subseteq Ports
  OBVIOUS
<1>8. ASSUME NEW u \in Tasks, NEW i \in Indices, NEW q \in D, u # t
      PROVE  entry[u][i] # [port |-> q, bits |-> "recv"]
  <2> SUFFICES ASSUME entry[u][i] = [port |-> q, bits |-> "recv"] PROVE FALSE
    OBVIOUS
  <2>1. entry[u][i].bits = "recv" /\ entry[u][i].port = q
    OBVIOUS
  <2>2. receiver[q] = [task |-> u, name |-> <<gen[u][i], i>>]
    BY <2>1, ReceiveRight
  <2>3. receiver[q].task = t
    BY <1>4, <1>5
  <2> QED BY <1>8, <2>2, <2>3
<1>9. \A i \in Indices, q \in Ports : entry[t][i] = [port |-> q, bits |-> "recv"] => i \in R(q)
  OBVIOUS
<1>10. ASSUME NEW q \in Ports
       PROVE  (\A u \in Tasks, i \in Indices : u # t => entry'[u][i] = entry[u][i])
              /\ (\A i \in Indices : entry'[t][i] = Empty)
              => Cardinality(RightsIn(entry, q)) =
                    Cardinality(RightsIn(entry', q)) + Cardinality(S(q)) + Cardinality(R(q))
  <2>1. \A i \in Indices : entry[t][i] \in Entries
    BY DEF IInv, TypeOK
  <2> QED BY <2>1, ExitRights
<1> HIDE DEF D, S, R
<1>11. Held(t) \in [Ports -> Nat]
  <2>1. Held(t) = [p \in Ports |-> Held(t)[p]]
    BY DEF Held
  <2>2. \A p \in Ports : Held(t)[p] \in Nat
    BY <1>3
  <2> QED BY <2>1, <2>2
<1>12. /\ entry' \in [Tasks -> [Indices -> Entries]] /\ used' \in [Tasks -> 1 .. Size]
       /\ \A i \in Indices : entry'[t][i] = Empty
       /\ \A u \in Tasks : u # t => entry'[u] = entry[u] /\ used'[u] = used[u]
       /\ \A u \in Tasks, i \in Indices : u # t => entry'[u][i] = entry[u][i]
  <2>1. Empty \in Entries /\ 1 \in 1 .. Size
    BY IndexFacts DEF Entries
  <2> QED BY <1>1, <2>1 DEF IInv, TypeOK
<1>13. /\ at' \in [Tasks -> {"none", "user", "send", "append", "recv", "insert", "drop", "exit", "dead"}]
       /\ ptr' \in [Tasks -> Ports \cup {NoPort}]
       /\ doomed' \in [Tasks -> SUBSET Ports] /\ owed' \in [Tasks -> [Ports -> Nat]]
       /\ at'[t] = "exit" /\ doomed'[t] = D /\ owed'[t] = Held(t)
       /\ \A u \in Tasks : u # t => at'[u] = at[u] /\ doomed'[u] = doomed[u] /\ owed'[u] = owed[u]
       /\ \A u \in Tasks : ptr'[u] = ptr[u]
  BY <1>1, <1>2, <1>7, <1>11 DEF IInv, TypeOK
<1>14. TypeOK' /\ SpacesTyped'
  <2>1. SpacesTyped'
    BY <1>1 DEF IInv, SpacesTyped
  <2>2. /\ gen' \in [Tasks -> [Indices -> 0 .. MaxGen + 1]] /\ names' \in [Tasks -> SUBSET Indices]
        /\ \A u \in Tasks : freed'[u] \subseteq Names
        /\ arena' \subseteq Ports /\ refs' \in [Ports -> Nat]
        /\ state' \in [Ports -> {"unused", "ACTIVE", "ZOMBIE", "DEAD"}]
        /\ \A q \in Ports : receiver'[q] = Nobody \/ receiver'[q] \in [task : Tasks, name : Names]
        /\ \A q \in Ports : Len(queue'[q]) <= QLimit
        /\ kobject' \in [Ports -> Tasks \cup {NoTask}] /\ service' \in Ports \cup {NoPort}
    BY <1>1 DEF IInv, TypeOK
  <2> QED BY <1>12, <1>13, <2>1, <2>2 DEF TypeOK
<1>15. \A u \in Tasks : /\ at'[u] \notin {"none", "exit", "dead"} <=> Active(u) /\ u # t
                        /\ at'[u] = "none" <=> at[u] = "none" /\ u # t
  BY <1>13 DEF Active
<1>16. TablesShaped'
  <2>1. ASSUME NEW u \in Tasks, NEW j \in Indices, entry'[u][j] # Empty
        PROVE  at'[u] \notin {"none", "exit", "dead"} /\ j < used'[u] /\ j \notin names'[u] /\ gen'[u][j] <= MaxGen
    <3>1. u # t /\ entry[u][j] # Empty
      BY <1>12, <2>1
    <3>2. Active(u) /\ j < used[u] /\ j \notin names[u] /\ gen[u][j] <= MaxGen
      BY <3>1 DEF IInv, TablesShaped
    <3> QED BY <1>1, <1>12, <1>15, <3>1, <3>2
  <2>2. ASSUME NEW u \in Tasks, at'[u] = "none"
        PROVE  names'[u] = {} /\ freed'[u] = {} /\ \A j \in Indices : gen'[u][j] = 0
    BY <1>1, <1>15, <2>2 DEF IInv, TablesShaped
  <2>3. ASSUME NEW u \in Tasks, at'[u] \notin {"none", "exit", "dead"}, NEW j \in names'[u]
        PROVE  j < used'[u]
    <3>1. Active(u) /\ u # t /\ j \in names[u]
      BY <1>1, <1>15, <2>3
    <3> QED BY <1>12, <3>1 DEF IInv, TablesShaped
  <2> QED BY <2>1, <2>2, <2>3 DEF TablesShaped, Active
<1>17. NamesPassed'
  BY <1>1 DEF IInv, NamesPassed
<1>18. ReceiversRecorded'
  <2> SUFFICES ASSUME NEW u \in Tasks, NEW j \in Indices, entry'[u][j].bits = "recv"
               PROVE  /\ state[entry'[u][j].port] = "ACTIVE"
                      /\ receiver[entry'[u][j].port] = [task |-> u, name |-> <<gen[u][j], j>>]
    BY <1>1 DEF ReceiversRecorded
  <2>1. entry'[u][j] = entry[u][j]
    BY <1>12 DEF Empty
  <2> QED BY <2>1, ReceiveRight
<1>19. ASSUME NEW u \in Tasks, NEW q \in Ports
       PROVE  /\ u # t => (Destroys(u, q)' <=> Destroys(u, q))
              /\ ~Destroys(t, q)
              /\ Destroys(t, q)' <=> q \in D
  <2>1. ~Destroys(t, q)
    BY <1>1, <1>2 DEF Destroys
  <2>2. u # t => (Destroys(u, q)' <=> Destroys(u, q))
    BY <1>13 DEF Destroys
  <2>3. Destroys(t, q)' <=> q \in doomed'[t]
    BY <1>2, <1>13, PortAssumption DEF Destroys
  <2> QED BY <1>13, <2>1, <2>2, <2>3
<1>20. DestroyersOwn'
  <2> SUFFICES ASSUME NEW q \in Ports, NEW u \in Tasks, Destroys(u, q)'
               PROVE  /\ at'[u] \in {"drop", "exit"}
                      /\ receiver'[q] # Nobody /\ receiver'[q].task = u
                      /\ \A v \in Tasks, j \in Indices : entry'[v][j] # [port |-> q, bits |-> "recv"]
                      /\ at'[u] = "drop" => gen'[u][receiver'[q].name[2]] > receiver'[q].name[1]
                      /\ q \in doomed'[u] => state'[q] = "ACTIVE" /\ ptr'[u] # q
                      /\ ptr'[u] = q => state'[q] = "ZOMBIE"
    BY DEF DestroyersOwn
  <2>1. CASE u # t
    <3>1. Destroys(u, q)
      BY <1>19, <2>1
    <3>2. /\ at[u] \in {"drop", "exit"} /\ receiver[q] # Nobody /\ receiver[q].task = u
          /\ \A v \in Tasks, j \in Indices : entry[v][j] # [port |-> q, bits |-> "recv"]
          /\ at[u] = "drop" => gen[u][receiver[q].name[2]] > receiver[q].name[1]
          /\ q \in doomed[u] => state[q] = "ACTIVE" /\ ptr[u] # q
          /\ ptr[u] = q => state[q] = "ZOMBIE"
      BY <3>1, Destroyer
    <3>3. at'[u] = at[u] /\ ptr'[u] = ptr[u] /\ doomed'[u] = doomed[u]
      BY <1>13, <2>1
    <3>4. ASSUME NEW v \in Tasks, NEW j \in Indices
          PROVE  entry'[v][j] # [port |-> q, bits |-> "recv"]
      <4>1. entry'[v][j] = entry[v][j] \/ entry'[v][j] = Empty
        BY <1>12
      <4> QED BY <3>2, <4>1 DEF Empty
    <3> QED BY <1>1, <3>2, <3>3, <3>4
  <2>2. CASE u = t
    <3>1. q \in D
      BY <1>19, <2>2
    <3>2. PICK i \in Indices : i \in R(q)
      BY <1>5, <3>1
    <3>3. state[q] = "ACTIVE" /\ receiver[q] # Nobody /\ receiver[q].task = t
      BY <1>4, <3>2
    <3>4. ptr'[t] # q /\ at'[t] = "exit"
      BY <1>2, <1>13, PortAssumption
    <3>5. ASSUME NEW v \in Tasks, NEW j \in Indices
          PROVE  entry'[v][j] # [port |-> q, bits |-> "recv"]
      <4>1. CASE v = t
        BY <1>12, <4>1 DEF Empty
      <4>2. CASE v # t
        BY <1>8, <1>12, <3>1, <4>2
      <4> QED BY <4>1, <4>2
    <3> QED BY <1>1, <2>2, <3>3, <3>4, <3>5
  <2> QED BY <2>1, <2>2
<1>21. LiveOwned'
  <2> SUFFICES ASSUME NEW q \in Ports, state[q] = "ACTIVE"
               PROVE  \/ \E u \in Tasks : Destroys(u, q)'
                      \/ \E u \in Tasks, j \in Indices : entry'[u][j] = [port |-> q, bits |-> "recv"]
    BY <1>1 DEF LiveOwned
  <2>1. CASE \E u \in Tasks : Destroys(u, q)
    BY <1>19, <2>1
  <2>2. CASE \E u \in Tasks, j \in Indices : entry[u][j] = [port |-> q, bits |-> "recv"]
    <3>1. PICK u \in Tasks, j \in Indices : entry[u][j] = [port |-> q, bits |-> "recv"]
      BY <2>2
    <3>2. CASE u = t
      <4>1. j \in R(q)
        BY <1>9, <3>1, <3>2
      <4>2. q \in D
        BY <1>4, <4>1
      <4> QED BY <1>19, <4>2
    <3>3. CASE u # t
      <4>1. entry'[u][j] = [port |-> q, bits |-> "recv"]
        BY <1>12, <3>1, <3>3
      <4> QED BY <4>1
    <3> QED BY <3>2, <3>3
  <2> QED BY <2>1, <2>2 DEF IInv, LiveOwned
<1>22. TaskPorts'
  <2>1. ASSUME NEW u \in Tasks, Active(u), u # t
        PROVE  entry'[u][TaskIndex].bits = "recv" /\ kobject[entry'[u][TaskIndex].port] = u
    <3>1. entry[u][TaskIndex].bits = "recv" /\ kobject[entry[u][TaskIndex].port] = u
      BY <2>1 DEF IInv, TaskPorts
    <3> QED BY <1>12, <2>1, <3>1, IndexFacts
  <2>2. at'[Daemon] \notin {"none", "exit", "dead"}
    BY <1>1, <1>15, TaskAssumption DEF IInv, TaskPorts
  <2> QED BY <1>1, <1>15, <2>1, <2>2 DEF TaskPorts, Active
<1>23. NothingOwed'
  <2>1. ASSUME NEW u \in Tasks, at'[u] \notin {"drop", "exit"} PROVE doomed'[u] = {} /\ owed'[u] = Nothing
    <3>1. u # t /\ at[u] \notin {"drop", "exit"}
      BY <1>13, <2>1
    <3> QED BY <1>13, <3>1 DEF IInv, NothingOwed
  <2>2. ASSUME NEW u \in Tasks, NEW q \in Ports
        PROVE  owed'[u][q] <= Size /\ (Destroys(u, q)' => owed'[u][q] < Size)
    <3>1. CASE u # t
      BY <1>13, <1>19, <3>1 DEF IInv, NothingOwed
    <3>2. CASE u = t
      <4>1. owed'[t][q] \in Nat /\ owed'[t][q] <= Size - 1
        BY <1>3, <1>13
      <4> QED BY <3>2, <4>1, IndexFacts
    <3> QED BY <3>1, <3>2
  <2> QED BY <2>1, <2>2 DEF NothingOwed
<1>24. PointersHeld'
  <2>1. /\ \A u \in Tasks : at[u] \in {"send", "append", "recv"} =>
              ptr[u] \in Ports /\ \E j \in Indices : entry[u][j].port = ptr[u]
        /\ \A u \in Tasks : at[u] = "insert" =>
              ptr[u] \in Ports /\ \E j \in Indices : entry[Daemon][j].port = ptr[u]
        /\ \A u \in Tasks : at[u] \in {"none", "user", "dead"} => ptr[u] = NoPort
        /\ service # NoPort => \E j \in Indices : entry[Daemon][j].port = service
    BY DEF IInv, PointersHeld
  <2>2. entry'[Daemon] = entry[Daemon]
    BY <1>1, <1>12, TaskAssumption
  <2>3. \A u \in Tasks : at'[u] \in {"send", "append", "recv"} =>
            ptr'[u] \in Ports /\ \E j \in Indices : entry'[u][j].port = ptr'[u]
    <3>1. \A u \in Tasks : at'[u] \in {"send", "append", "recv"} =>
              u # t /\ at[u] \in {"send", "append", "recv"}
      BY <1>13
    <3>2. \A u \in Tasks : u # t => entry'[u] = entry[u] /\ ptr'[u] = ptr[u]
      BY <1>12, <1>13
    <3> QED BY <2>1, <3>1, <3>2
  <2>4. \A u \in Tasks : at'[u] = "insert" =>
            ptr'[u] \in Ports /\ \E j \in Indices : entry'[Daemon][j].port = ptr'[u]
    BY <1>13, <2>1, <2>2
  <2>5. \A u \in Tasks : at'[u] \in {"none", "user", "dead"} => ptr'[u] = NoPort
    BY <1>13, <2>1
  <2>6. service' # NoPort => \E j \in Indices : entry'[Daemon][j].port = service'
    BY <1>1, <2>1, <2>2
  <2> QED BY <2>3, <2>4, <2>5, <2>6 DEF PointersHeld
<1>25. AppendsFit'
  <2>1. \A u \in Tasks : at'[u] = "append" <=> at[u] = "append"
    BY <1>1, <1>13
  <2> QED BY <1>1, <1>13, <2>1 DEF IInv, AppendsFit
<1>26. RefsExact'
  <2>1. RefsFit(entry, doomed, at, ptr, owed, refs, arena)
    BY RefsFitNow DEF IInv
  <2>2. ASSUME NEW q \in Ports
        PROVE  Cardinality(DestroyersIn(doomed', at', ptr', q))
                   = Cardinality(DestroyersIn(doomed, at, ptr, q)) + IF q \in D THEN 1 ELSE 0
    <3>1. \A u \in Tasks : Destroys(u, q)' <=> Destroys(u, q) \/ (u = t /\ q \in D)
      BY <1>19
    <3>2. t \notin DestroyersIn(doomed, at, ptr, q)
      BY <1>19 DEF DestroyersIn, Destroys
    <3>3. IsFiniteSet(DestroyersIn(doomed, at, ptr, q)) /\ Cardinality(DestroyersIn(doomed, at, ptr, q)) \in Nat
      BY CountsFinite
    <3>4. CASE q \in D
      <4>1. DestroyersIn(doomed', at', ptr', q) = DestroyersIn(doomed, at, ptr, q) \cup {t}
        BY <3>1, <3>4 DEF DestroyersIn, Destroys
      <4> QED BY <3>2, <3>3, <3>4, <4>1, FS_AddElement
    <3>5. CASE q \notin D
      <4>1. DestroyersIn(doomed', at', ptr', q) = DestroyersIn(doomed, at, ptr, q)
        BY <3>1, <3>5 DEF DestroyersIn, Destroys
      <4> QED BY <3>3, <3>5, <4>1
    <3> QED BY <3>4, <3>5
  <2>3. ASSUME NEW q \in Ports
        PROVE  Cardinality(OwedIn(owed', q)) = Cardinality(OwedIn(owed, q)) + Cardinality(S(q))
    <3>1. Cardinality(S(q)) \in Nat /\ Cardinality(S(q)) <= Size - 1 /\ Held(t)[q] = Cardinality(S(q))
      BY <1>3
    <3>2. owed[t][q] = 0 /\ owed'[t][q] = Cardinality(S(q))
      BY <1>2, <1>13, <3>1 DEF Nothing
    <3>3. /\ owed[t][q] \in Nat /\ owed'[t][q] \in Nat /\ owed[t][q] <= owed'[t][q]
          /\ owed'[t][q] <= Size
      BY <3>1, <3>2, IndexFacts
    <3>4. OthersOwe(owed, owed', t, q)
      BY <1>13 DEF OthersOwe
    <3>5. Cardinality(OwedIn(owed', q)) + owed[t][q] = Cardinality(OwedIn(owed, q)) + owed'[t][q]
      BY <3>3, <3>4, OwedGrows
    <3>6. Cardinality(OwedIn(owed, q)) \in Nat /\ Cardinality(OwedIn(owed', q)) \in Nat
      BY CountsFinite
    <3> QED BY <3>1, <3>2, <3>5, <3>6
  <2>4. ASSUME NEW q \in Ports
        PROVE  /\ refs[q] = Cardinality(RightsIn(entry', q)) + Cardinality(DestroyersIn(doomed', at', ptr', q))
                            + Cardinality(OwedIn(owed', q))
               /\ q \in arena <=> refs[q] = 0
    <3>1. /\ refs[q] = Cardinality(RightsIn(entry, q)) + Cardinality(DestroyersIn(doomed, at, ptr, q))
                       + Cardinality(OwedIn(owed, q))
          /\ q \in arena <=> refs[q] = 0
      BY <2>1 DEF RefsFit
    <3>2. /\ Cardinality(RightsIn(entry', q)) \in Nat /\ Cardinality(OwedIn(owed, q)) \in Nat
          /\ Cardinality(DestroyersIn(doomed, at, ptr, q)) \in Nat /\ Cardinality(S(q)) \in Nat
      BY <1>3, CountsFinite
    <3>3. Cardinality(RightsIn(entry, q)) =
              Cardinality(RightsIn(entry', q)) + Cardinality(S(q)) + Cardinality(R(q))
      BY <1>10, <1>12
    <3>4. Cardinality(R(q)) = IF q \in D THEN 1 ELSE 0
      BY <1>6
    <3> QED BY <2>2, <2>3, <3>1, <3>2, <3>3, <3>4
  <2>5. RefsFit(entry', doomed', at', ptr', owed', refs', arena')
    BY <1>1, <2>4 DEF RefsFit
  <2> QED BY <2>5, RefsFitNext
<1> QED BY <1>14, <1>16, <1>17, <1>18, <1>20, <1>21, <1>22, <1>23, <1>24, <1>25, <1>26 DEF IInv

(* ipc_port_destroy of a port that the thread is the receiver of.          *)
LEMMA ZombieStep ==
    ASSUME IInv, NEW t \in Tasks, NEW p \in Ports, Zombie(t, p)
    PROVE  IInv'
<1>1. /\ at[t] \in {"drop", "exit"} /\ ptr[t] = NoPort /\ p \in doomed[t]
      /\ doomed' = [doomed EXCEPT ![t] = doomed[t] \ {p}]
      /\ entry' = entry /\ gen' = gen /\ used' = used /\ names' = names /\ freed' = freed
      /\ arena' = arena /\ refs' = refs /\ receiver' = receiver /\ queue' = queue
      /\ kobject' = kobject /\ service' = service /\ at' = at /\ owed' = owed
  BY DEF Zombie, spaceVars
<1>2. Destroys(t, p)
  BY <1>1 DEF Destroys
<1>3. /\ state[p] = "ACTIVE" /\ receiver[p].task = t
      /\ \A v \in Tasks, i \in Indices : entry[v][i] # [port |-> p, bits |-> "recv"]
  BY <1>1, <1>2, Destroyer
<1>4. state' = [state EXCEPT ![p] = "ZOMBIE"] /\ ptr' = [ptr EXCEPT ![t] = p]
  BY <1>3 DEF Zombie
<1>5. /\ state' \in [Ports -> {"unused", "ACTIVE", "ZOMBIE", "DEAD"}]
      /\ \A q \in Ports : state'[q] = IF q = p THEN "ZOMBIE" ELSE state[q]
      /\ ptr' \in [Tasks -> Ports \cup {NoPort}]
      /\ \A u \in Tasks : ptr'[u] = IF u = t THEN p ELSE ptr[u]
      /\ doomed' \in [Tasks -> SUBSET Ports] /\ doomed'[t] = doomed[t] \ {p}
      /\ \A u \in Tasks : u # t => doomed'[u] = doomed[u]
  BY <1>1, <1>4 DEF IInv, TypeOK
<1>6. TypeOK' /\ SpacesTyped'
  BY <1>1, <1>5 DEF IInv, TypeOK, SpacesTyped
<1>7. TablesShaped' /\ NamesPassed'
  BY <1>1 DEF IInv, TablesShaped, NamesPassed, Active
<1>8. ReceiversRecorded'
  <2> SUFFICES ASSUME NEW u \in Tasks, NEW j \in Indices, entry[u][j].bits = "recv"
               PROVE  /\ state'[entry[u][j].port] = "ACTIVE"
                      /\ receiver[entry[u][j].port] = [task |-> u, name |-> <<gen[u][j], j>>]
    BY <1>1 DEF ReceiversRecorded
  <2>1. /\ entry[u][j].port \in Ports /\ state[entry[u][j].port] = "ACTIVE"
        /\ receiver[entry[u][j].port] = [task |-> u, name |-> <<gen[u][j], j>>]
    BY ReceiveRight
  <2>2. entry[u][j] \in Entries
    BY DEF IInv, TypeOK
  <2>3. entry[u][j] = [port |-> entry[u][j].port, bits |-> "recv"]
    BY <2>2, EntryFacts
  <2>4. entry[u][j].port # p
    BY <1>3, <2>3
  <2> QED BY <1>5, <2>1, <2>4
<1>9. ASSUME NEW u \in Tasks, NEW q \in Ports PROVE Destroys(u, q)' <=> Destroys(u, q)
  <2>1. CASE u = t
    BY <1>1, <1>5, <2>1, PortAssumption DEF Destroys
  <2>2. CASE u # t
    BY <1>1, <1>5, <2>2 DEF Destroys
  <2> QED BY <2>1, <2>2
<1>10. DestroyersOwn'
  <2> SUFFICES ASSUME NEW q \in Ports, NEW u \in Tasks, Destroys(u, q)
               PROVE  /\ at[u] \in {"drop", "exit"}
                      /\ receiver[q] # Nobody /\ receiver[q].task = u
                      /\ \A v \in Tasks, j \in Indices : entry[v][j] # [port |-> q, bits |-> "recv"]
                      /\ at[u] = "drop" => gen[u][receiver[q].name[2]] > receiver[q].name[1]
                      /\ q \in doomed'[u] => state'[q] = "ACTIVE" /\ ptr'[u] # q
                      /\ ptr'[u] = q => state'[q] = "ZOMBIE"
    BY <1>1, <1>9 DEF DestroyersOwn
  <2>1. /\ at[u] \in {"drop", "exit"} /\ receiver[q] # Nobody /\ receiver[q].task = u
        /\ \A v \in Tasks, j \in Indices : entry[v][j] # [port |-> q, bits |-> "recv"]
        /\ at[u] = "drop" => gen[u][receiver[q].name[2]] > receiver[q].name[1]
        /\ q \in doomed[u] => state[q] = "ACTIVE" /\ ptr[u] # q
        /\ ptr[u] = q => state[q] = "ZOMBIE"
    BY Destroyer
  <2>2. CASE u = t
    BY <1>1, <1>5, <2>1, <2>2
  <2>3. CASE u # t
    <3>1. q # p
      BY <1>3, <2>1, <2>3
    <3> QED BY <1>5, <2>1, <2>3, <3>1
  <2> QED BY <2>1, <2>2, <2>3
<1>11. LiveOwned'
  <2>1. \A q \in Ports : state'[q] = "ACTIVE" => state[q] = "ACTIVE"
    BY <1>5
  <2> QED BY <1>1, <1>9, <2>1 DEF IInv, LiveOwned
<1>12. TaskPorts'
  BY <1>1 DEF IInv, TaskPorts, Active
<1>13. NothingOwed'
  <2>1. \A u \in Tasks : at[u] \notin {"drop", "exit"} => doomed'[u] = {} /\ owed[u] = Nothing
    BY <1>1, <1>5 DEF IInv, NothingOwed
  <2> QED BY <1>1, <1>9, <2>1 DEF IInv, NothingOwed
<1>14. PointersHeld'
  <2>1. \A u \in Tasks : at[u] \notin {"drop", "exit"} => ptr'[u] = ptr[u]
    BY <1>1, <1>5
  <2> QED BY <1>1, <2>1 DEF IInv, PointersHeld
<1>15. AppendsFit'
  <2>1. \A u \in Tasks : at[u] = "append" => ptr'[u] = ptr[u]
    BY <1>1, <1>5
  <2> QED BY <1>1, <2>1 DEF IInv, AppendsFit
<1>16. RefsExact'
  <2>1. \A q \in Ports : DestroyersIn(doomed', at', ptr', q) = DestroyersIn(doomed, at, ptr, q)
    BY <1>9 DEF DestroyersIn, Destroys
  <2> QED BY <1>1, <2>1, RefsFitNow, RefsFitNext DEF IInv, RefsFit
<1> QED BY <1>6, <1>7, <1>8, <1>10, <1>11, <1>12, <1>13, <1>14, <1>15, <1>16 DEF IInv

(* ipc_port_release of a reference that is still counted.                  *)
LEMMA ReleaseStep ==
    ASSUME IInv, NEW t \in Tasks, NEW p \in Ports, Release(t, p)
    PROVE  IInv'
<1>1. /\ owed[t][p] > 0 /\ owed' = [owed EXCEPT ![t][p] = owed[t][p] - 1]
      /\ refs' = [refs EXCEPT ![p] = refs[p] - 1]
      /\ arena' = IF refs[p] = 1 THEN arena \cup {p} ELSE arena
      /\ entry' = entry /\ gen' = gen /\ used' = used /\ names' = names /\ freed' = freed
      /\ state' = state /\ receiver' = receiver /\ queue' = queue
      /\ kobject' = kobject /\ service' = service /\ at' = at /\ ptr' = ptr /\ doomed' = doomed
  BY DEF Release, spaceVars
<1>2. /\ owed \in [Tasks -> [Ports -> Nat]] /\ \A u \in Tasks, q \in Ports : owed[u][q] <= Size
      /\ refs \in [Ports -> Nat]
  BY DEF IInv, TypeOK, NothingOwed
<1>3. owed[t][p] \in Nat /\ owed[t][p] - 1 \in Nat
  BY <1>1, <1>2
<1>4. /\ owed' \in [Tasks -> [Ports -> Nat]] /\ owed'[t][p] = owed[t][p] - 1
      /\ \A u \in Tasks, q \in Ports : u # t \/ q # p => owed'[u][q] = owed[u][q]
      /\ \A u \in Tasks : u # t => owed'[u] = owed[u]
  BY <1>1, <1>2, <1>3
<1>5. Cardinality(OwedIn(owed, p)) = Cardinality(OwedIn(owed', p)) + 1
  <2>1. OthersOwe(owed', owed, t, p)
    BY <1>4 DEF OthersOwe
  <2>2. owed'[t][p] \in Nat /\ owed[t][p] \in Nat /\ owed'[t][p] <= owed[t][p] /\ owed[t][p] <= Size
    BY <1>2, <1>3, <1>4
  <2>3. Cardinality(OwedIn(owed, p)) + owed'[t][p] = Cardinality(OwedIn(owed', p)) + owed[t][p]
    BY <2>1, <2>2, OwedGrows
  <2>4. Cardinality(OwedIn(owed, p)) \in Nat /\ Cardinality(OwedIn(owed', p)) \in Nat
    BY CountsFinite
  <2> QED BY <1>4, <2>2, <2>3, <2>4
<1>6. ASSUME NEW q \in Ports, q # p PROVE OwedIn(owed', q) = OwedIn(owed, q)
  <2>1. \A h \in Tasks \X (1 .. Size) : owed'[h[1]][q] = owed[h[1]][q]
    BY <1>4, <1>6
  <2> QED BY <2>1 DEF OwedIn
<1>7. RefsFit(entry, doomed, at, ptr, owed, refs, arena)
  BY RefsFitNow DEF IInv
<1>8. /\ refs[p] = Cardinality(RightsIn(entry, p)) + Cardinality(DestroyersIn(doomed, at, ptr, p))
                   + Cardinality(OwedIn(owed, p))
      /\ p \in arena <=> refs[p] = 0
  BY <1>7 DEF RefsFit
<1>9. /\ Cardinality(RightsIn(entry, p)) \in Nat /\ Cardinality(OwedIn(owed', p)) \in Nat
      /\ Cardinality(DestroyersIn(doomed, at, ptr, p)) \in Nat
  BY CountsFinite
<1>10. /\ refs[p] - 1 = Cardinality(RightsIn(entry, p)) + Cardinality(DestroyersIn(doomed, at, ptr, p))
                        + Cardinality(OwedIn(owed', p))
       /\ refs[p] - 1 \in Nat /\ p \notin arena
  BY <1>5, <1>8, <1>9
<1>11. /\ refs' \in [Ports -> Nat] /\ refs'[p] = refs[p] - 1
       /\ \A q \in Ports : q # p => refs'[q] = refs[q]
       /\ arena' \subseteq Ports /\ \A q \in Ports : q # p => (q \in arena' <=> q \in arena)
  BY <1>1, <1>2, <1>10 DEF IInv, TypeOK
<1>12. p \in arena' <=> refs'[p] = 0
  BY <1>1, <1>2, <1>10, <1>11
<1>13. RefsExact'
  <2>1. ASSUME NEW q \in Ports
        PROVE  /\ refs'[q] = Cardinality(RightsIn(entry, q)) + Cardinality(DestroyersIn(doomed, at, ptr, q))
                             + Cardinality(OwedIn(owed', q))
               /\ q \in arena' <=> refs'[q] = 0
    <3>1. CASE q = p
      BY <1>10, <1>11, <1>12, <3>1
    <3>2. CASE q # p
      BY <1>6, <1>7, <1>11, <3>2 DEF RefsFit
    <3> QED BY <3>1, <3>2
  <2>2. RefsFit(entry', doomed', at', ptr', owed', refs', arena')
    BY <1>1, <2>1 DEF RefsFit
  <2> QED BY <2>2, RefsFitNext
<1>14. TypeOK' /\ SpacesTyped'
  BY <1>1, <1>4, <1>11 DEF IInv, TypeOK, SpacesTyped
<1>15. \A u \in Tasks, q \in Ports : Destroys(u, q)' <=> Destroys(u, q)
  BY <1>1 DEF Destroys
<1>16. NothingOwed'
  <2>1. at[t] \in {"drop", "exit"}
    <3>1. Nothing[p] = 0
      BY DEF Nothing
    <3> QED BY <1>1, <3>1 DEF IInv, NothingOwed
  <2>2. \A u \in Tasks : at[u] \notin {"drop", "exit"} => doomed[u] = {} /\ owed'[u] = Nothing
    BY <1>4, <2>1 DEF IInv, NothingOwed
  <2>3. ASSUME NEW u \in Tasks, NEW q \in Ports
        PROVE  owed'[u][q] <= Size /\ (Destroys(u, q) => owed'[u][q] < Size)
    <3>1. owed[u][q] <= Size /\ (Destroys(u, q) => owed[u][q] < Size)
      BY DEF IInv, NothingOwed
    <3>2. CASE u = t /\ q = p
      BY <1>3, <1>4, <3>1, <3>2, IndexFacts
    <3>3. CASE ~(u = t /\ q = p)
      BY <1>4, <3>1, <3>3
    <3> QED BY <3>2, <3>3
  <2> QED BY <1>1, <1>15, <2>2, <2>3 DEF NothingOwed
<1>17. TablesShaped' /\ NamesPassed' /\ ReceiversRecorded'
  BY <1>1 DEF IInv, TablesShaped, NamesPassed, ReceiversRecorded, Active
<1>18. DestroyersOwn'
  BY <1>1, <1>15 DEF IInv, DestroyersOwn
<1>19. LiveOwned'
  BY <1>1, <1>15 DEF IInv, LiveOwned
<1>20. TaskPorts' /\ PointersHeld' /\ AppendsFit'
  BY <1>1 DEF IInv, TaskPorts, PointersHeld, AppendsFit, Active
<1> QED BY <1>13, <1>14, <1>16, <1>17, <1>18, <1>19, <1>20 DEF IInv

(* The end of ipc_port_destroy: the name of the receiver is freed only in  *)
(* the table of an exited task, where its entry is empty already.          *)
LEMMA BuryStep ==
    ASSUME IInv, NEW t \in Tasks, Bury(t)
    PROVE  IInv'
<1> DEFINE x == ptr[t]
<1>1. PICK p \in Ports : p = x
  <2>1. x # NoPort
    BY DEF Bury
  <2> QED BY <2>1 DEF IInv, TypeOK
<1> DEFINE r == receiver[p]
<1>2. /\ at[t] \in {"drop", "exit"} /\ ptr[t] = p
      /\ queue' = [queue EXCEPT ![p] = <<>>] /\ receiver' = [receiver EXCEPT ![p] = Nobody]
      /\ state' = [state EXCEPT ![p] = "DEAD"] /\ ptr' = [ptr EXCEPT ![t] = NoPort]
      /\ owed' = [owed EXCEPT ![t][p] = owed[t][p] + 1]
      /\ arena' = arena /\ refs' = refs /\ kobject' = kobject /\ service' = service
      /\ at' = at /\ doomed' = doomed
      /\ IF gen[r.task][r.name[2]] = r.name[1] THEN FreeName(r.task, r.name[2]) ELSE UNCHANGED spaceVars
  BY <1>1 DEF Bury
<1>3. Destroys(t, p)
  BY <1>2 DEF Destroys
<1>4. /\ r # Nobody /\ r.task = t /\ r.name \in Names /\ r.name[2] \in Indices
      /\ \A v \in Tasks, i \in Indices : entry[v][i] # [port |-> p, bits |-> "recv"]
      /\ at[t] = "drop" => gen[t][r.name[2]] > r.name[1]
      /\ p \notin doomed[t] /\ owed[t][p] < Size
  BY <1>2, <1>3, Destroyer
<1>5. /\ entry' \in [Tasks -> [Indices -> Entries]]
      /\ gen' \in [Tasks -> [Indices -> 0 .. MaxGen + 1]]
      /\ used' \in [Tasks -> 1 .. Size] /\ names' \in [Tasks -> SUBSET Indices]
      /\ freed' \in [Tasks -> SUBSET Names] /\ used' = used /\ entry' = entry /\ NamesPassed'
      /\ \A u \in Tasks : u # t \/ at[t] = "drop" =>
            names'[u] = names[u] /\ freed'[u] = freed[u] /\ \A j \in Indices : gen'[u][j] = gen[u][j]
  <2>1. CASE gen[t][r.name[2]] = r.name[1]
    <3> DEFINE i == r.name[2]
    <3>1. i \in Indices /\ gen[t][i] <= MaxGen /\ FreeName(t, i) /\ gen[t][i] = r.name[1] /\ r.name[1] \in Nat
      BY <1>2, <1>4, <2>1, IndexFacts
    <3>2. at[t] = "exit"
      BY <1>2, <1>4, <3>1
    <3> HIDE DEF i
    <3>3. NameFreed(t, i)
      BY <3>1, FreeFacts
    <3>4. entry[t][i] = Empty
      BY <3>1, <3>2 DEF IInv, TablesShaped, Active
    <3>5. /\ entry' \in [Tasks -> [Indices -> Entries]]
          /\ gen' \in [Tasks -> [Indices -> 0 .. MaxGen + 1]]
          /\ used' \in [Tasks -> 1 .. Size] /\ names' \in [Tasks -> SUBSET Indices]
          /\ freed' \in [Tasks -> SUBSET Names] /\ used' = used
          /\ \A u \in Tasks, j \in Indices : entry'[u][j] = IF u = t /\ j = i THEN Empty ELSE entry[u][j]
          /\ \A u \in Tasks, j \in Indices : gen'[u][j] = IF u = t /\ j = i THEN gen[u][j] + 1 ELSE gen[u][j]
          /\ \A u \in Tasks : names'[u] = IF u = t THEN names[u] \cup {i} ELSE names[u]
          /\ \A u \in Tasks : freed'[u] = IF u = t THEN freed[u] \cup {<<gen[t][i], i>>} ELSE freed[u]
          /\ NamesPassed'
      BY <3>3 DEF NameFreed
    <3>6. entry' = entry
      <4>1. entry \in [Tasks -> [Indices -> Entries]]
        BY DEF IInv, TypeOK
      <4>2. \A u \in Tasks, j \in Indices : entry'[u][j] = entry[u][j]
        BY <3>4, <3>5
      <4>3. ASSUME NEW u \in Tasks PROVE entry'[u] = entry[u]
        <5>1. entry[u] \in [Indices -> Entries] /\ entry'[u] \in [Indices -> Entries]
          BY <3>5, <4>1
        <5>2. \A j \in Indices : entry'[u][j] = entry[u][j]
          BY <4>2
        <5> QED BY <5>1, <5>2
      <4> QED BY <3>5, <4>1, <4>3
    <3>7. \A u \in Tasks : u # t =>
            names'[u] = names[u] /\ freed'[u] = freed[u] /\ \A j \in Indices : gen'[u][j] = gen[u][j]
      BY <3>5
    <3> QED BY <3>2, <3>5, <3>6, <3>7
  <2>2. CASE gen[t][r.name[2]] # r.name[1]
    <3>1. entry' = entry /\ gen' = gen /\ used' = used /\ names' = names /\ freed' = freed
      BY <1>2, <1>4, <2>2 DEF spaceVars
    <3> QED BY <3>1 DEF IInv, TypeOK, SpacesTyped, NamesPassed
  <2> QED BY <2>1, <2>2
<1> HIDE DEF x, r
<1>6. /\ owed \in [Tasks -> [Ports -> Nat]] /\ owed[t][p] \in Nat /\ owed[t][p] + 1 \in Nat
  BY DEF IInv, TypeOK
<1>7. /\ queue' \in [Ports -> Seq({NoPort})]
      /\ \A q \in Ports : queue'[q] = IF q = p THEN <<>> ELSE queue[q]
      /\ receiver' \in [Ports -> [task : Tasks, name : Names] \cup {Nobody}]
      /\ \A q \in Ports : receiver'[q] = IF q = p THEN Nobody ELSE receiver[q]
      /\ state' \in [Ports -> {"unused", "ACTIVE", "ZOMBIE", "DEAD"}]
      /\ \A q \in Ports : state'[q] = IF q = p THEN "DEAD" ELSE state[q]
      /\ ptr' \in [Tasks -> Ports \cup {NoPort}]
      /\ \A u \in Tasks : ptr'[u] = IF u = t THEN NoPort ELSE ptr[u]
  <2>1. /\ queue \in [Ports -> Seq({NoPort})] /\ <<>> \in Seq({NoPort})
        /\ receiver \in [Ports -> [task : Tasks, name : Names] \cup {Nobody}]
        /\ state \in [Ports -> {"unused", "ACTIVE", "ZOMBIE", "DEAD"}]
        /\ ptr \in [Tasks -> Ports \cup {NoPort}]
    BY DEF IInv, TypeOK, SpacesTyped
  <2>2. /\ queue' \in [Ports -> Seq({NoPort})]
        /\ \A q \in Ports : queue'[q] = IF q = p THEN <<>> ELSE queue[q]
    BY <1>2, <2>1
  <2>3. /\ receiver' \in [Ports -> [task : Tasks, name : Names] \cup {Nobody}]
        /\ \A q \in Ports : receiver'[q] = IF q = p THEN Nobody ELSE receiver[q]
    BY <1>2, <2>1
  <2>4. /\ state' \in [Ports -> {"unused", "ACTIVE", "ZOMBIE", "DEAD"}]
        /\ \A q \in Ports : state'[q] = IF q = p THEN "DEAD" ELSE state[q]
        /\ ptr' \in [Tasks -> Ports \cup {NoPort}]
        /\ \A u \in Tasks : ptr'[u] = IF u = t THEN NoPort ELSE ptr[u]
    BY <1>2, <2>1
  <2> QED BY <2>2, <2>3, <2>4
<1>8. /\ owed' \in [Tasks -> [Ports -> Nat]] /\ owed'[t][p] = owed[t][p] + 1
      /\ \A u \in Tasks, q \in Ports : u # t \/ q # p => owed'[u][q] = owed[u][q]
      /\ \A u \in Tasks : u # t => owed'[u] = owed[u]
  BY <1>2, <1>6
<1>9. \A q \in Ports : Len(queue'[q]) <= QLimit
  <2>1. Len(<<>>) = 0 /\ 0 <= QLimit
    BY IndexFacts
  <2>2. \A q \in Ports : Len(queue[q]) <= QLimit
    BY DEF IInv, TypeOK
  <2> QED BY <1>7, <2>1, <2>2
<1>10. TypeOK' /\ SpacesTyped'
  <2>1. SpacesTyped'
    BY <1>5, <1>7 DEF SpacesTyped
  <2>2. \A q \in Ports : receiver'[q] = Nobody \/ receiver'[q] \in [task : Tasks, name : Names]
    BY <1>7
  <2>3. \A u \in Tasks : freed'[u] \subseteq Names
    BY <1>5
  <2>4. /\ arena' \subseteq Ports /\ refs' \in [Ports -> Nat]
        /\ kobject' \in [Ports -> Tasks \cup {NoTask}] /\ service' \in Ports \cup {NoPort}
        /\ at' \in [Tasks -> {"none", "user", "send", "append", "recv", "insert", "drop", "exit", "dead"}]
        /\ doomed' \in [Tasks -> SUBSET Ports]
    BY <1>2 DEF IInv, TypeOK
  <2> QED BY <1>5, <1>7, <1>8, <1>9, <2>1, <2>2, <2>3, <2>4 DEF TypeOK
<1>11. \A u \in Tasks : Active(u) => u # t \/ at[t] = "drop"
  BY <1>2 DEF Active
<1>12. TablesShaped'
  <2>1. ASSUME NEW u \in Tasks, NEW j \in Indices, entry'[u][j] # Empty
        PROVE  Active(u) /\ j < used'[u] /\ j \notin names'[u] /\ gen'[u][j] <= MaxGen
    <3>1. Active(u) /\ j < used[u] /\ j \notin names[u] /\ gen[u][j] <= MaxGen
      BY <1>5, <2>1 DEF IInv, TablesShaped
    <3> QED BY <1>5, <1>11, <3>1
  <2>2. ASSUME NEW u \in Tasks, at[u] = "none"
        PROVE  names'[u] = {} /\ freed'[u] = {} /\ \A j \in Indices : gen'[u][j] = 0
    <3>1. u # t
      BY <1>2, <2>2
    <3>2. names'[u] = names[u] /\ freed'[u] = freed[u] /\ \A j \in Indices : gen'[u][j] = gen[u][j]
      BY <1>5, <3>1
    <3> QED BY <2>2, <3>2 DEF IInv, TablesShaped
  <2>3. ASSUME NEW u \in Tasks, Active(u), NEW j \in names'[u] PROVE j < used'[u]
    <3>1. j \in names[u]
      BY <1>5, <1>11, <2>3
    <3> QED BY <1>5, <2>3, <3>1 DEF IInv, TablesShaped
  <2> QED BY <1>2, <2>1, <2>2, <2>3 DEF TablesShaped, Active
<1>13. ReceiversRecorded'
  <2> SUFFICES ASSUME NEW u \in Tasks, NEW j \in Indices, entry[u][j].bits = "recv"
               PROVE  /\ state'[entry[u][j].port] = "ACTIVE"
                      /\ receiver'[entry[u][j].port] = [task |-> u, name |-> <<gen'[u][j], j>>]
    BY <1>5 DEF ReceiversRecorded
  <2>1. /\ entry[u][j].port \in Ports /\ state[entry[u][j].port] = "ACTIVE"
        /\ receiver[entry[u][j].port] = [task |-> u, name |-> <<gen[u][j], j>>]
    BY ReceiveRight
  <2>2. entry[u][j] \in Entries
    BY DEF IInv, TypeOK
  <2>3. entry[u][j] = [port |-> entry[u][j].port, bits |-> "recv"] /\ entry[u][j] # Empty
    BY <2>2, EntryFacts
  <2>4. entry[u][j].port # p
    BY <1>4, <2>3
  <2>5. Active(u)
    BY <2>3 DEF IInv, TablesShaped
  <2>6. gen'[u][j] = gen[u][j]
    BY <1>5, <1>11, <2>5
  <2> QED BY <1>7, <2>1, <2>4, <2>6
<1>14. ASSUME NEW u \in Tasks, NEW q \in Ports
       PROVE  Destroys(u, q)' <=> Destroys(u, q) /\ ~(u = t /\ q = p)
  <2>1. CASE u = t
    BY <1>2, <1>4, <1>7, <2>1, PortAssumption DEF Destroys
  <2>2. CASE u # t
    BY <1>2, <1>7, <2>2 DEF Destroys
  <2> QED BY <2>1, <2>2
<1>15. ASSUME NEW u \in Tasks, NEW q \in Ports, Destroys(u, q), ~(u = t /\ q = p) PROVE q # p
  <2>1. receiver[q].task = u
    BY <1>15, Destroyer
  <2> QED BY <1>4, <1>15, <2>1 DEF r
<1>16. DestroyersOwn'
  <2> SUFFICES ASSUME NEW q \in Ports, NEW u \in Tasks, Destroys(u, q), ~(u = t /\ q = p)
               PROVE  /\ at[u] \in {"drop", "exit"}
                      /\ receiver'[q] # Nobody /\ receiver'[q].task = u
                      /\ \A v \in Tasks, j \in Indices : entry[v][j] # [port |-> q, bits |-> "recv"]
                      /\ at[u] = "drop" => gen'[u][receiver'[q].name[2]] > receiver'[q].name[1]
                      /\ q \in doomed[u] => state'[q] = "ACTIVE" /\ ptr'[u] # q
                      /\ ptr'[u] = q => state'[q] = "ZOMBIE"
    BY <1>2, <1>5, <1>14 DEF DestroyersOwn
  <2>1. q # p
    BY <1>15
  <2>2. /\ at[u] \in {"drop", "exit"} /\ receiver[q] # Nobody /\ receiver[q].task = u
        /\ receiver[q].name[2] \in Indices
        /\ \A v \in Tasks, j \in Indices : entry[v][j] # [port |-> q, bits |-> "recv"]
        /\ at[u] = "drop" => gen[u][receiver[q].name[2]] > receiver[q].name[1]
        /\ q \in doomed[u] => state[q] = "ACTIVE" /\ ptr[u] # q
        /\ ptr[u] = q => state[q] = "ZOMBIE"
    BY Destroyer
  <2>3. receiver'[q] = receiver[q] /\ state'[q] = state[q]
    BY <1>7, <2>1
  <2>4. at[u] = "drop" => gen'[u][receiver[q].name[2]] = gen[u][receiver[q].name[2]]
    <3>1. at[u] = "drop" => u # t \/ at[t] = "drop"
      OBVIOUS
    <3> QED BY <1>5, <2>2, <3>1
  <2>5. /\ q \in doomed[u] => ptr'[u] # q
        /\ ptr'[u] = q => ptr[u] = q
    BY <1>7, <2>2, PortAssumption
  <2> QED BY <2>2, <2>3, <2>4, <2>5
<1>17. LiveOwned'
  <2> SUFFICES ASSUME NEW q \in Ports, state'[q] = "ACTIVE"
               PROVE  \/ \E u \in Tasks : Destroys(u, q)'
                      \/ \E u \in Tasks, j \in Indices : entry[u][j] = [port |-> q, bits |-> "recv"]
    BY <1>5 DEF LiveOwned
  <2>1. q # p /\ state[q] = "ACTIVE"
    BY <1>7
  <2> QED BY <1>14, <2>1 DEF IInv, LiveOwned
<1>18. TaskPorts'
  BY <1>2, <1>5 DEF IInv, TaskPorts, Active
<1>19. NothingOwed'
  <2>1. \A u \in Tasks : at[u] \notin {"drop", "exit"} => doomed[u] = {} /\ owed'[u] = Nothing
    BY <1>2, <1>8 DEF IInv, NothingOwed
  <2>2. ASSUME NEW u \in Tasks, NEW q \in Ports
        PROVE  owed'[u][q] <= Size /\ (Destroys(u, q)' => owed'[u][q] < Size)
    <3>1. owed[u][q] <= Size /\ (Destroys(u, q) => owed[u][q] < Size)
      BY DEF IInv, NothingOwed
    <3>2. CASE u = t /\ q = p
      <4>1. owed'[t][p] <= Size
        BY <1>4, <1>6, <1>8, IndexFacts
      <4> QED BY <1>14, <3>2, <4>1
    <3>3. CASE ~(u = t /\ q = p)
      BY <1>8, <1>14, <3>1, <3>3
    <3> QED BY <3>2, <3>3
  <2> QED BY <1>2, <2>1, <2>2 DEF NothingOwed
<1>20. PointersHeld'
  <2>1. \A u \in Tasks : at[u] \notin {"drop", "exit"} => ptr'[u] = ptr[u]
    BY <1>2, <1>7
  <2> QED BY <1>2, <1>5, <2>1 DEF IInv, PointersHeld
<1>21. AppendsFit'
  <2>1. \A u \in Tasks : at[u] = "append" => ptr'[u] = ptr[u] /\ ptr[u] \in Ports
    BY <1>2, <1>7 DEF IInv, PointersHeld
  <2>2. \A u \in Tasks : at[u] = "append" => Len(queue'[ptr[u]]) < QLimit
    <3>1. Len(<<>>) = 0 /\ 0 < QLimit
      BY IndexFacts
    <3>2. \A u \in Tasks : at[u] = "append" => Len(queue[ptr[u]]) < QLimit
      BY DEF IInv, AppendsFit
    <3> QED BY <1>7, <2>1, <3>1, <3>2
  <2> QED BY <1>2, <2>1, <2>2 DEF IInv, AppendsFit
<1>22. RefsExact'
  <2>1. RefsFit(entry, doomed, at, ptr, owed, refs, arena)
    BY RefsFitNow DEF IInv
  <2>2. Cardinality(DestroyersIn(doomed', at', ptr', p)) = Cardinality(DestroyersIn(doomed, at, ptr, p)) - 1
    <3>1. \A u \in Tasks : Destroys(u, p)' <=> Destroys(u, p) /\ u # t
      BY <1>14
    <3>2. t \in DestroyersIn(doomed, at, ptr, p)
      BY <1>3 DEF DestroyersIn, Destroys
    <3>3. DestroyersIn(doomed', at', ptr', p) = DestroyersIn(doomed, at, ptr, p) \ {t}
      BY <3>1 DEF DestroyersIn, Destroys
    <3>4. IsFiniteSet(DestroyersIn(doomed, at, ptr, p))
      BY CountsFinite
    <3> QED BY <3>2, <3>3, <3>4, FS_RemoveElement
  <2>3. ASSUME NEW q \in Ports, q # p
        PROVE  DestroyersIn(doomed', at', ptr', q) = DestroyersIn(doomed, at, ptr, q)
    <3>1. \A u \in Tasks : Destroys(u, q)' <=> Destroys(u, q)
      BY <1>14, <2>3
    <3> QED BY <3>1 DEF DestroyersIn, Destroys
  <2>4. Cardinality(OwedIn(owed', p)) = Cardinality(OwedIn(owed, p)) + 1
    <3>1. OthersOwe(owed, owed', t, p)
      BY <1>8 DEF OthersOwe
    <3>2. owed[t][p] \in Nat /\ owed'[t][p] \in Nat /\ owed[t][p] <= owed'[t][p] /\ owed'[t][p] <= Size
      BY <1>4, <1>6, <1>8, IndexFacts
    <3>3. Cardinality(OwedIn(owed', p)) + owed[t][p] = Cardinality(OwedIn(owed, p)) + owed'[t][p]
      BY <3>1, <3>2, OwedGrows
    <3>4. Cardinality(OwedIn(owed, p)) \in Nat /\ Cardinality(OwedIn(owed', p)) \in Nat
      BY CountsFinite
    <3> QED BY <1>8, <3>2, <3>3, <3>4
  <2>5. ASSUME NEW q \in Ports, q # p PROVE OwedIn(owed', q) = OwedIn(owed, q)
    <3>1. \A h \in Tasks \X (1 .. Size) : owed'[h[1]][q] = owed[h[1]][q]
      BY <1>8, <2>5
    <3> QED BY <3>1 DEF OwedIn
  <2>6. ASSUME NEW q \in Ports
        PROVE  /\ refs[q] = Cardinality(RightsIn(entry, q)) + Cardinality(DestroyersIn(doomed', at', ptr', q))
                            + Cardinality(OwedIn(owed', q))
               /\ q \in arena <=> refs[q] = 0
    <3>1. /\ refs[q] = Cardinality(RightsIn(entry, q)) + Cardinality(DestroyersIn(doomed, at, ptr, q))
                       + Cardinality(OwedIn(owed, q))
          /\ q \in arena <=> refs[q] = 0
      BY <2>1 DEF RefsFit
    <3>2. /\ Cardinality(RightsIn(entry, q)) \in Nat /\ Cardinality(OwedIn(owed, q)) \in Nat
          /\ Cardinality(DestroyersIn(doomed, at, ptr, q)) \in Nat
      BY CountsFinite
    <3>3. CASE q = p
      BY <2>2, <2>4, <3>1, <3>2, <3>3
    <3>4. CASE q # p
      BY <2>3, <2>5, <3>1, <3>4
    <3> QED BY <3>3, <3>4
  <2>7. RefsFit(entry', doomed', at', ptr', owed', refs', arena')
    BY <1>2, <1>5, <2>6 DEF RefsFit
  <2> QED BY <2>7, RefsFitNext
<1> QED BY <1>5, <1>10, <1>12, <1>13, <1>16, <1>17, <1>18, <1>19, <1>20, <1>21, <1>22 DEF IInv

-----------------------------------------------------------------------------
(* The theorems.                                                           *)

(* The daemon begins with its task port and nothing else.                  *)
LEMMA InitInv == Init => IInv
<1> SUFFICES ASSUME Init PROVE IInv
  OBVIOUS
<1> DEFINE start == <<0, TaskIndex>>
<1>1. PICK p \in Ports :
        /\ entry = [t \in Tasks |-> [i \in Indices |->
              IF t = Daemon /\ i = TaskIndex THEN [port |-> p, bits |-> "recv"] ELSE Empty]]
        /\ gen = [t \in Tasks |-> [i \in Indices |-> 0]]
        /\ used = [t \in Tasks |-> IF t = Daemon THEN 2 ELSE 1]
        /\ names = [t \in Tasks |-> {}] /\ freed = [t \in Tasks |-> {}]
        /\ arena = Ports \ {p} /\ refs = Owes(p)
        /\ state = [q \in Ports |-> IF q = p THEN "ACTIVE" ELSE "unused"]
        /\ receiver = [q \in Ports |-> IF q = p THEN [task |-> Daemon, name |-> start] ELSE Nobody]
        /\ queue = [q \in Ports |-> <<>>]
        /\ kobject = [q \in Ports |-> IF q = p THEN Daemon ELSE NoTask]
        /\ service = NoPort
        /\ at = [t \in Tasks |-> IF t = Daemon THEN "user" ELSE "none"]
        /\ ptr = [t \in Tasks |-> NoPort]
        /\ doomed = [t \in Tasks |-> {}] /\ owed = [t \in Tasks |-> Nothing]
  BY DEF Init
<1> DEFINE e == [port |-> p, bits |-> "recv"]
<1>2. start \in Names /\ Daemon \in Tasks /\ TaskIndex \in Indices /\ TaskIndex = 1
  BY IndexFacts, TaskAssumption DEF TaskIndex
<1>3. e \in Entries /\ e # Empty /\ e.bits = "recv" /\ e.port = p /\ Empty \in Entries
      /\ Empty.bits = "none" /\ Empty.port = NoPort
  BY PortAssumption DEF Entries, Empty
<1>4. /\ \A t \in Tasks, i \in Indices : entry[t][i] = IF t = Daemon /\ i = TaskIndex THEN e ELSE Empty
      /\ \A t \in Tasks, i \in Indices : gen[t][i] = 0
      /\ \A t \in Tasks : /\ used[t] = IF t = Daemon THEN 2 ELSE 1
                          /\ names[t] = {} /\ freed[t] = {} /\ doomed[t] = {} /\ owed[t] = Nothing
                          /\ at[t] = IF t = Daemon THEN "user" ELSE "none"
                          /\ ptr[t] = NoPort
      /\ \A q \in Ports : /\ state[q] = IF q = p THEN "ACTIVE" ELSE "unused"
                          /\ receiver[q] = IF q = p THEN [task |-> Daemon, name |-> start] ELSE Nobody
                          /\ queue[q] = <<>>
                          /\ kobject[q] = IF q = p THEN Daemon ELSE NoTask
  BY <1>1
<1> HIDE DEF e, start
<1>5. /\ Owes(p) \in [Ports -> Nat] /\ Owes(p)[p] = 1 /\ \A q \in Ports \ {p} : Owes(p)[q] = 0
      /\ Nothing \in [Ports -> Nat] /\ \A q \in Ports : Nothing[q] = 0
  BY DEF Owes, Nothing
<1>6. entry \in [Tasks -> [Indices -> Entries]]
  BY <1>1, <1>3 DEF e
<1>7. gen \in [Tasks -> [Indices -> 0 .. MaxGen + 1]] /\ used \in [Tasks -> 1 .. Size]
  BY <1>1, IndexFacts
<1>8. /\ names \in [Tasks -> SUBSET Indices] /\ freed \in [Tasks -> SUBSET Names]
      /\ receiver \in [Ports -> [task : Tasks, name : Names] \cup {Nobody}]
      /\ state \in [Ports -> {"unused", "ACTIVE", "ZOMBIE", "DEAD"}]
      /\ kobject \in [Ports -> Tasks \cup {NoTask}]
      /\ at \in [Tasks -> {"none", "user", "send", "append", "recv", "insert", "drop", "exit", "dead"}]
      /\ ptr \in [Tasks -> Ports \cup {NoPort}] /\ doomed \in [Tasks -> SUBSET Ports]
  BY <1>1, <1>2
<1>9. owed \in [Tasks -> [Ports -> Nat]] /\ refs \in [Ports -> Nat]
  BY <1>1, <1>5
<1>10. queue \in [Ports -> Seq({NoPort})] /\ \A q \in Ports : Len(queue[q]) <= QLimit
  <2>1. <<>> \in Seq({NoPort}) /\ Len(<<>>) = 0 /\ 0 <= QLimit
    BY IndexFacts
  <2> QED BY <1>1, <2>1
<1>11. TypeOK /\ SpacesTyped
  <2>1. \A q \in Ports : receiver[q] = Nobody \/ receiver[q] \in [task : Tasks, name : Names]
    BY <1>8
  <2>2. \A t \in Tasks : freed[t] \subseteq Names
    BY <1>8
  <2>3. arena \subseteq Ports /\ service \in Ports \cup {NoPort}
    BY <1>1
  <2> QED BY <1>6, <1>7, <1>8, <1>9, <1>10, <2>1, <2>2, <2>3 DEF TypeOK, SpacesTyped
<1>12. \A t \in Tasks : Active(t) <=> t = Daemon
  BY <1>4 DEF Active
<1>13. TablesShaped
  <2>1. ASSUME NEW t \in Tasks, NEW i \in Indices, entry[t][i] # Empty
        PROVE  Active(t) /\ i < used[t] /\ i \notin names[t] /\ gen[t][i] <= MaxGen
    <3>1. t = Daemon /\ i = TaskIndex
      BY <1>4, <2>1
    <3> QED BY <1>2, <1>4, <1>12, <3>1, IndexFacts
  <2> QED BY <1>4, <2>1 DEF TablesShaped
<1>14. NamesPassed
  BY <1>4 DEF NamesPassed
<1>15. ReceiversRecorded
  <2> SUFFICES ASSUME NEW t \in Tasks, NEW i \in Indices, entry[t][i].bits = "recv"
               PROVE  /\ state[entry[t][i].port] = "ACTIVE"
                      /\ receiver[entry[t][i].port] = [task |-> t, name |-> <<gen[t][i], i>>]
    BY DEF ReceiversRecorded
  <2>1. t = Daemon /\ i = TaskIndex
    BY <1>3, <1>4
  <2>2. entry[t][i] = e /\ gen[t][i] = 0
    BY <1>4, <2>1
  <2> QED BY <1>3, <1>4, <2>1, <2>2 DEF start
<1>16. \A t \in Tasks, q \in Ports : ~Destroys(t, q)
  BY <1>4, PortAssumption DEF Destroys
<1>17. DestroyersOwn
  BY <1>16 DEF DestroyersOwn
<1>18. LiveOwned
  <2>1. \A q \in Ports : state[q] = "ACTIVE" => q = p
    BY <1>4
  <2>2. entry[Daemon][TaskIndex] = [port |-> p, bits |-> "recv"]
    BY <1>2, <1>4 DEF e
  <2> QED BY <1>2, <2>1, <2>2 DEF LiveOwned
<1>19. TaskPorts
  <2>1. entry[Daemon][TaskIndex] = e /\ kobject[p] = Daemon
    BY <1>2, <1>4
  <2> QED BY <1>2, <1>3, <1>12, <2>1 DEF TaskPorts
<1>20. NothingOwed
  BY <1>4, <1>5, <1>16, IndexFacts DEF NothingOwed
<1>21. PointersHeld
  BY <1>1, <1>4 DEF PointersHeld
<1>22. AppendsFit
  BY <1>4 DEF AppendsFit
<1>23. RefsExact
  <2>1. ASSUME NEW q \in Ports
        PROVE  Cardinality(DestroyersIn(doomed, at, ptr, q)) = 0 /\ Cardinality(OwedIn(owed, q)) = 0
    <3>1. DestroyersIn(doomed, at, ptr, q) = {}
      BY <1>16 DEF DestroyersIn, Destroys
    <3>2. OwedIn(owed, q) = {}
      <4>1. \A h \in Tasks \X (1 .. Size) : owed[h[1]][q] = 0 /\ h[2] \in Nat /\ h[2] >= 1
        BY <1>4, <1>5, IndexFacts
      <4>2. \A h \in Tasks \X (1 .. Size) : ~(h[2] <= owed[h[1]][q])
        BY <4>1
      <4> QED BY <4>2 DEF OwedIn
    <3> QED BY <3>1, <3>2, FS_EmptySet
  <2>2. RightsIn(entry, p) = {<<Daemon, TaskIndex>>}
    <3>1. ASSUME NEW h \in Tasks \X Indices
          PROVE  entry[h[1]][h[2]].port = p <=> h = <<Daemon, TaskIndex>>
      <4>1. h[1] \in Tasks /\ h[2] \in Indices /\ h = <<h[1], h[2]>>
        OBVIOUS
      <4>2. CASE h[1] = Daemon /\ h[2] = TaskIndex
        BY <1>3, <1>4, <4>1, <4>2
      <4>3. CASE ~(h[1] = Daemon /\ h[2] = TaskIndex)
        <5>1. entry[h[1]][h[2]] = Empty
          BY <1>4, <4>1, <4>3
        <5> QED BY <1>3, <4>1, <4>3, <5>1, PortAssumption
      <4> QED BY <4>2, <4>3
    <3>2. <<Daemon, TaskIndex>> \in Tasks \X Indices
      BY <1>2
    <3> QED BY <3>1, <3>2 DEF RightsIn
  <2>3. ASSUME NEW q \in Ports, q # p PROVE RightsIn(entry, q) = {}
    <3>1. ASSUME NEW h \in Tasks \X Indices PROVE entry[h[1]][h[2]].port # q
      <4>1. h[1] \in Tasks /\ h[2] \in Indices
        OBVIOUS
      <4>2. entry[h[1]][h[2]] = e \/ entry[h[1]][h[2]] = Empty
        BY <1>4, <4>1
      <4> QED BY <1>3, <2>3, <4>2, PortAssumption
    <3> QED BY <3>1 DEF RightsIn
  <2>4. Cardinality(RightsIn(entry, p)) = 1 /\ \A q \in Ports : q # p => Cardinality(RightsIn(entry, q)) = 0
    BY <2>2, <2>3, FS_Singleton, FS_EmptySet
  <2>5. /\ refs[p] = 1 /\ \A q \in Ports : q # p => refs[q] = 0
        /\ \A q \in Ports : q \in arena <=> q # p
    BY <1>1, <1>5
  <2>6. RefsFit(entry, doomed, at, ptr, owed, refs, arena)
    BY <2>1, <2>4, <2>5 DEF RefsFit
  <2> QED BY <2>6, RefsFitNow
<1> QED BY <1>11, <1>13, <1>14, <1>15, <1>17, <1>18, <1>19, <1>20, <1>21, <1>22, <1>23 DEF IInv

(* The invariant only reads the variables.                                 *)
LEMMA StutterStep == IInv /\ UNCHANGED vars => IInv'
<1> SUFFICES ASSUME IInv, UNCHANGED vars PROVE IInv'
  OBVIOUS
<1> USE DEF vars, spaceVars, portVars, dropVars
<1>1. TypeOK' /\ SpacesTyped'
  BY DEF IInv, TypeOK, SpacesTyped
<1>2. TablesShaped' /\ NamesPassed' /\ ReceiversRecorded'
  BY DEF IInv, TablesShaped, NamesPassed, ReceiversRecorded, Active
<1>3. \A u \in Tasks, q \in Ports : Destroys(u, q)' <=> Destroys(u, q)
  BY DEF Destroys
<1>4. DestroyersOwn'
  BY <1>3 DEF IInv, DestroyersOwn
<1>5. LiveOwned' /\ NothingOwed'
  BY <1>3 DEF IInv, LiveOwned, NothingOwed
<1>6. TaskPorts' /\ PointersHeld' /\ AppendsFit'
  BY DEF IInv, TaskPorts, PointersHeld, AppendsFit, Active
<1>7. RefsExact'
  BY RefsFitNow, RefsFitNext DEF IInv
<1> QED BY <1>1, <1>2, <1>4, <1>5, <1>6, <1>7 DEF IInv

(* Every step of a task keeps the invariant.                               *)
LEMMA NextInv == IInv /\ [Next]_vars => IInv'
<1> SUFFICES ASSUME IInv, [Next]_vars PROVE IInv'
  OBVIOUS
<1>1. ASSUME NEW t \in Tasks, Running(t) PROVE IInv'
  <2>1. ASSUME NEW p \in Ports, NEW n \in Names, Alloc(t, p, n) PROVE IInv'
    BY <2>1, AllocStep
  <2>2. ASSUME NEW c \in Tasks, NEW p \in Ports, Spawn(t, c, p) PROVE IInv'
    <3>1. {} \in SUBSET Indices /\ \A i \in {} : entry[t][i].bits = "send"
      OBVIOUS
    <3>2. Begin(t, c, p, {})
      BY <2>2 DEF Spawn
    <3> QED BY <3>1, <3>2, BeginStep
  <2>3. ASSUME NEW p \in Ports, Zombie(t, p) \/ Release(t, p) PROVE IInv'
    BY <2>3, ZombieStep, ReleaseStep
  <2>4. CASE Bury(t) \/ DropDone(t) \/ Exit(t)
    BY <2>4, BuryStep, QuietStep, ExitStep
  <2>5. ASSUME NEW n \in Names, ReceiveLookup(t, n) \/ InsertService(t, n) PROVE IInv'
    BY <2>5, MessageStep, InsertStep
  <2>6. ASSUME NEW n \in Names, t = Daemon /\ Register(t, n) PROVE IInv'
    BY <2>6, QuietStep
  <2>7. CASE ReceiveTimeout(t) \/ LookupService(t) \/ InsertFails(t)
    BY <2>7, MessageStep, QuietStep
  <2> QED BY <1>1, <2>1, <2>2, <2>3, <2>4, <2>5, <2>6, <2>7 DEF Running
<1>2. ASSUME NEW t \in Tasks, NEW c \in Tasks, NEW p \in Ports, Fork(t, c, p) PROVE IInv'
  <2> DEFINE K == {i \in Indices : entry[t][i].bits = "send"}
  <2>1. K \in SUBSET Indices /\ \A i \in K : entry[t][i].bits = "send"
    OBVIOUS
  <2>2. Begin(t, c, p, K)
    BY <1>2 DEF Fork
  <2> HIDE DEF K
  <2> QED BY <2>1, <2>2, BeginStep
<1>3. ASSUME NEW t \in Tasks, NEW i \in Indices, Dealloc(t, i) /\ MayDrop(t, entry[t][i].port) PROVE IInv'
  BY <1>3, DeallocStep
<1>4. ASSUME NEW t \in Tasks,
             (\E n \in Names : SendLookup(t, n)) \/ SendEnds(t) \/ SendCheck(t) \/ SendAppend(t) \/ Receive(t)
      PROVE  IInv'
  BY <1>4, MessageStep
<1>5. CASE UNCHANGED vars
  BY <1>5, StutterStep
<1>6. ASSUME NEW t \in Tasks, TaskStep(t) PROVE IInv'
  BY <1>1, <1>2, <1>3, <1>4, <1>6 DEF TaskStep
<1> QED BY <1>5, <1>6 DEF Next

(* The invariant holds in every behaviour of tasks and ports.              *)
THEOREM Invariance == Spec => []IInv
<1>1. IInv /\ [Next]_vars => IInv'
  BY NextInv
<1> QED BY <1>1, InitInv, PTL DEF Spec

(* The types of the tables, the ports and the threads' pointers.           *)
THEOREM TypeCorrect == Spec => []TypeOK
<1>1. IInv => TypeOK
  BY DEF IInv
<1> QED BY <1>1, Invariance, PTL

(* For any number of tasks, ports and indices: ip_references is the number *)
(* of rights in tables and of releases still to come, and a slot is in the *)
(* arena exactly when it is 0.                                             *)
THEOREM ReferencesExact == Spec => []RefsExact
<1>1. IInv => RefsExact
  BY DEF IInv
<1> QED BY <1>1, Invariance, PTL

(* An active port has one receive right, at the name the port records, or  *)
(* one destroyer, the receiver it records, and then no receive right.      *)
THEOREM SingleReceiver == Spec => []OneReceiver
<1>1. IInv => OneReceiver
  <2> SUFFICES ASSUME IInv, NEW p \in Ports, state[p] = "ACTIVE", p \notin arena
               PROVE  IF Destroying(p) # {}
                      THEN /\ Destroying(p) = {receiver[p].task}
                           /\ {h \in Rights(p) : entry[h[1]][h[2]].bits = "recv"} = {}
                      ELSE /\ {h \in Rights(p) : entry[h[1]][h[2]].bits = "recv"}
                                 = {<<receiver[p].task, receiver[p].name[2]>>}
                           /\ gen[receiver[p].task][receiver[p].name[2]] = receiver[p].name[1]
    BY DEF OneReceiver
  <2> DEFINE recv == {h \in Rights(p) : entry[h[1]][h[2]].bits = "recv"}
  <2>1. ASSUME NEW h \in recv
        PROVE  /\ h[1] \in Tasks /\ h[2] \in Indices /\ h = <<h[1], h[2]>>
               /\ entry[h[1]][h[2]] = [port |-> p, bits |-> "recv"]
    <3>1. h[1] \in Tasks /\ h[2] \in Indices /\ h = <<h[1], h[2]>> /\ entry[h[1]][h[2]].port = p
      BY DEF Rights
    <3>2. entry[h[1]][h[2]] \in Entries
      BY <3>1 DEF IInv, TypeOK
    <3>3. entry[h[1]][h[2]].bits = "recv"
      OBVIOUS
    <3> QED BY <3>1, <3>2, <3>3, EntryFacts
  <2>2. ASSUME NEW t \in Tasks, NEW i \in Indices, entry[t][i] = [port |-> p, bits |-> "recv"]
        PROVE  /\ <<t, i>> \in recv /\ receiver[p].task = t /\ receiver[p].name[2] = i
               /\ gen[receiver[p].task][receiver[p].name[2]] = receiver[p].name[1]
    <3>1. entry[t][i].port = p /\ entry[t][i].bits = "recv"
      BY <2>2
    <3>2. <<t, i>> \in recv
      BY <3>1 DEF Rights
    <3>3. receiver[p] = [task |-> t, name |-> <<gen[t][i], i>>]
      BY <3>1, ReceiveRight
    <3>4. receiver[p].task = t /\ receiver[p].name = <<gen[t][i], i>>
      BY <3>3
    <3> QED BY <3>2, <3>4
  <2>3. \A t \in Tasks : t \in Destroying(p) <=> Destroys(t, p)
    BY DEF Destroying, Destroys
  <2> HIDE DEF recv
  <2>4. CASE Destroying(p) # {}
    <3>1. PICK t \in Tasks : Destroys(t, p)
      BY <2>3, <2>4 DEF Destroying
    <3>2. /\ \A u \in Tasks : Destroys(u, p) => receiver[p].task = u
          /\ \A v \in Tasks, i \in Indices : entry[v][i] # [port |-> p, bits |-> "recv"]
      BY <3>1, Destroyer
    <3>3. Destroying(p) = {receiver[p].task}
      <4>1. Destroying(p) \subseteq Tasks
        BY DEF Destroying
      <4>2. receiver[p].task = t /\ t \in Destroying(p)
        BY <2>3, <3>1, <3>2
      <4> QED BY <2>3, <3>2, <4>1, <4>2
    <3>4. recv = {}
      BY <2>1, <3>2
    <3> QED BY <2>4, <3>3, <3>4 DEF recv
  <2>5. CASE Destroying(p) = {}
    <3>1. \A t \in Tasks : ~Destroys(t, p)
      BY <2>3, <2>5
    <3>2. PICK t \in Tasks, i \in Indices : entry[t][i] = [port |-> p, bits |-> "recv"]
      BY <3>1 DEF IInv, LiveOwned
    <3>3. <<t, i>> \in recv /\ receiver[p].task = t /\ receiver[p].name[2] = i
          /\ gen[receiver[p].task][receiver[p].name[2]] = receiver[p].name[1]
      BY <2>2, <3>2
    <3>4. ASSUME NEW h \in recv PROVE h = <<t, i>>
      <4>1. /\ h[1] \in Tasks /\ h[2] \in Indices /\ h = <<h[1], h[2]>>
            /\ entry[h[1]][h[2]] = [port |-> p, bits |-> "recv"]
        BY <2>1
      <4>2. receiver[p].task = h[1] /\ receiver[p].name[2] = h[2]
        BY <2>2, <4>1
      <4> QED BY <3>3, <4>1, <4>2
    <3>5. recv = {<<receiver[p].task, receiver[p].name[2]>>}
      BY <3>3, <3>4
    <3> QED BY <2>5, <3>3, <3>5 DEF recv
  <2> QED BY <2>4, <2>5
<1> QED BY <1>1, Invariance, PTL

(* A port that a thread keeps a pointer to without a reference is not      *)
(* recycled under it.                                                      *)
THEOREM NoRecycledPointer == Spec => []PointersPinned
<1>1. IInv => PointersPinned
  <2> SUFFICES ASSUME IInv, NEW t \in Tasks, ptr[t] # NoPort PROVE ptr[t] \notin arena
    BY DEF PointersPinned
  <2>1. ptr[t] \in Ports
    BY DEF IInv, TypeOK
  <2>2. CASE at[t] \in {"send", "append", "recv"}
    <3>1. \E u \in Tasks, i \in Indices : entry[u][i].port = ptr[t]
      BY <2>2 DEF IInv, PointersHeld
    <3> QED BY <2>1, <3>1, HeldNotFree
  <2>3. CASE at[t] = "insert"
    <3>1. \E u \in Tasks, i \in Indices : entry[u][i].port = ptr[t]
      BY <2>3, TaskAssumption DEF IInv, PointersHeld
    <3> QED BY <2>1, <3>1, HeldNotFree
  <2>4. CASE at[t] \in {"drop", "exit"}
    <3>1. Destroys(t, ptr[t])
      BY <2>4 DEF Destroys
    <3> QED BY <2>1, <3>1, HeldNotFree
  <2>5. at[t] \notin {"none", "user", "dead"}
    BY DEF IInv, PointersHeld
  <2> QED BY <2>2, <2>3, <2>4, <2>5 DEF IInv, TypeOK
<1> QED BY <1>1, Invariance, PTL

(* A name that its task has given up, or whose port is destroyed, denotes  *)
(* no right, although its index may be in use again: the generation of the *)
(* index has passed it.                                                    *)
THEOREM NamesNeverReturn == Spec => []StaleNamesDie
<1>1. IInv => StaleNamesDie
  <2> SUFFICES ASSUME IInv, NEW t \in Tasks, NEW n \in freed[t] PROVE Lookup(t, n, ToSend) = NoPort
    BY DEF StaleNamesDie
  <2>1. n \in Names /\ n[1] < gen[t][n[2]]
    BY DEF IInv, TypeOK, NamesPassed
  <2>2. n[1] \in Nat /\ n[2] \in Indices
    BY <2>1, IndexFacts
  <2>3. gen[t][n[2]] \in Nat
    <3>1. gen[t][n[2]] \in 0 .. MaxGen + 1
      BY <2>2 DEF IInv, TypeOK
    <3> QED BY <3>1, IndexFacts
  <2>4. gen[t][n[2]] # n[1]
    BY <2>1, <2>2, <2>3
  <2> QED BY <2>4 DEF Lookup
<1> QED BY <1>1, Invariance, PTL

=============================================================================
