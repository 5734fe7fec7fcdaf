----------------------------- MODULE MachPorts -----------------------------
(***************************************************************************)
(* Mach ports and the names tasks have for them (kernel/mach/ipc_port.c),  *)
(* the queueing of messages (kernel/mach/ipc_kmsg.c) and the system calls  *)
(* around them (kernel/bsd/syscall.c).                                     *)
(*                                                                         *)
(* A task has one thread; at[t] says where it is.  A thread keeps the port *)
(* pointer that ipc_port_lookup gave it without a reference, and a port    *)
(* can be destroyed by its receiver at any time.  What is_lock or ip_lock  *)
(* covers is one step, except where a reader does not take the lock.       *)
(*                                                                         *)
(* In Next messages carry no rights, one daemon registers services, and it *)
(* drops a port only when that port is no longer registered or being       *)
(* looked up; no task drops its task port.  MachReplies adds the rights in *)
(* messages.  A free arena slot or table index may be any of the free      *)
(* ones; the code takes the last one freed.                                *)
(***************************************************************************)
EXTENDS Integers, Sequences, FiniteSets

CONSTANTS
    Tasks, NoTask,   \* tasks ever created: an IPC space is never reused
    Daemon,          \* the first task, which registers services
    Ports, NoPort,   \* slots of s_port_arena
    Size,            \* is_table_size; index 0 is not used
    MaxGen,          \* bound: the 8-bit generation of an index
    QLimit           \* imq_qlimit

ASSUME TaskAssumption == Daemon \in Tasks /\ NoTask \notin Tasks /\ IsFiniteSet(Tasks)
ASSUME PortAssumption == NoPort \notin Ports
ASSUME SizeAssumption == Size \in Nat \ {0, 1} /\ MaxGen \in Nat /\ QLimit \in Nat \ {0}

VARIABLES
    entry,          \* entry[t][i]: ie_object and ie_bits
    gen,            \* ie_gen
    used,           \* is_table_used
    names,          \* the list from is_free_head
    freed,          \* history: names of t that have been freed
    arena,          \* slots that port_arena_alloc can return
    refs,           \* ip_references
    state,          \* ip_state
    receiver,       \* ip_receiver and ip_receiver_name
    queue,          \* ip_messages: the reply port of each message
    kobject,        \* ip_kobject
    service,        \* the port of the s_services entry
    at, ptr,        \* of a thread: where it is, the port it works on
    doomed, owed    \* of a thread: ports to destroy, references to release

spaceVars == <<entry, gen, used, names, freed>>
portVars == <<arena, refs, state, receiver, queue, kobject>>
dropVars == <<doomed, owed>>
vars == <<spaceVars, portVars, service, at, ptr, dropVars>>

Indices == 1 .. Size - 1
TaskIndex == 1   \* the first name of a space is its task port's
Names == (0 .. MaxGen) \X Indices
NoName == <<0, 0>>
Empty == [port |-> NoPort, bits |-> "none"]
Entries == [port : Ports, bits : {"send", "recv"}] \cup {Empty}
Nobody == [task |-> NoTask, name |-> NoName]
Owes(p) == [q \in Ports |-> IF q = p THEN 1 ELSE 0]
Nothing == [q \in Ports |-> 0]

TypeOK ==
    /\ entry \in [Tasks -> [Indices -> Entries]]
    /\ gen \in [Tasks -> [Indices -> 0 .. MaxGen + 1]]
    /\ used \in [Tasks -> 1 .. Size]
    /\ names \in [Tasks -> SUBSET Indices]
    /\ \A t \in Tasks : freed[t] \subseteq Names
    /\ arena \subseteq Ports
    /\ refs \in [Ports -> Nat]
    /\ state \in [Ports -> {"unused", "ACTIVE", "ZOMBIE", "DEAD"}]
    /\ \A p \in Ports : receiver[p] = Nobody \/ receiver[p] \in [task : Tasks, name : Names]
    /\ \A p \in Ports : Len(queue[p]) <= QLimit
    /\ kobject \in [Ports -> Tasks \cup {NoTask}]
    /\ service \in Ports \cup {NoPort}
    /\ at \in [Tasks -> {"none", "user", "send", "append", "recv", "insert",
                         "drop", "exit", "dead"}]
    /\ ptr \in [Tasks -> Ports \cup {NoPort}]
    /\ doomed \in [Tasks -> SUBSET Ports]
    /\ owed \in [Tasks -> [Ports -> Nat]]

Goto(t, l, p) == at' = [at EXCEPT ![t] = l] /\ ptr' = [ptr EXCEPT ![t] = p]
Return(t) == Goto(t, "user", NoPort)
Active(t) == at[t] \notin {"none", "exit", "dead"}

-----------------------------------------------------------------------------
(* The table of a space.                                                   *)

(* Mutant: a name that has been freed keeps its generation when reused.    *)
NewNameSameGen(t, n) ==
    \/ n[2] \in names[t] /\ n[1] = gen[t][n[2]] - 1
    \/ names[t] = {} /\ used[t] < Size /\ n = <<gen[t][used[t]], used[t]>>

(* space_alloc_name: a freed index under a new generation, or the next     *)
(* one.  Without any the callers fail and nothing changes.                 *)
NewName(t, n) ==
    \/ n[2] \in names[t] /\ n[1] = gen[t][n[2]] + 1
    \/ names[t] = {} /\ used[t] < Size /\ n = <<gen[t][used[t]], used[t]>>

TakeName(t, n, e) ==
    /\ NewName(t, n)
    /\ entry' = [entry EXCEPT ![t][n[2]] = e]
    /\ gen' = [gen EXCEPT ![t][n[2]] = n[1]]
    /\ used' = [used EXCEPT ![t] = IF n[2] = @ THEN @ + 1 ELSE @]
    /\ names' = [names EXCEPT ![t] = @ \ {n[2]}]
    /\ UNCHANGED freed

(* space_free_name                                                         *)
FreeName(t, i) ==
    /\ entry' = [entry EXCEPT ![t][i] = Empty]
    /\ gen' = [gen EXCEPT ![t][i] = @ + 1]
    /\ names' = [names EXCEPT ![t] = @ \cup {i}]
    /\ freed' = [freed EXCEPT ![t] = @ \cup {<<gen[t][i], i>>}]
    /\ UNCHANGED used

(* ipc_port_lookup: what a name denotes, if it has one of the rights.      *)
Lookup(t, n, rights) ==
    LET e == entry[t][n[2]] IN
    IF /\ Active(t) /\ n[2] < used[t] /\ gen[t][n[2]] = n[1]
       /\ e.bits \in rights /\ state[e.port] = "ACTIVE"
    THEN e.port ELSE NoPort

ToSend == {"send", "recv"}   \* a receive right is a send right too
ToReceive == {"recv"}

-----------------------------------------------------------------------------
(* The daemon has its task port.                                           *)
Init ==
    \E p \in Ports :
        LET start == <<0, TaskIndex>> IN
        /\ entry = [t \in Tasks |-> [i \in Indices |->
              IF t = Daemon /\ i = TaskIndex THEN [port |-> p, bits |-> "recv"] ELSE Empty]]
        /\ gen = [t \in Tasks |-> [i \in Indices |-> 0]]
        /\ used = [t \in Tasks |-> IF t = Daemon THEN 2 ELSE 1]
        /\ names = [t \in Tasks |-> {}]
        /\ freed = [t \in Tasks |-> {}]
        /\ arena = Ports \ {p}
        /\ refs = Owes(p)
        /\ state = [q \in Ports |-> IF q = p THEN "ACTIVE" ELSE "unused"]
        /\ receiver = [q \in Ports |-> IF q = p THEN [task |-> Daemon, name |-> start] ELSE Nobody]
        /\ queue = [q \in Ports |-> <<>>]
        /\ kobject = [q \in Ports |-> IF q = p THEN Daemon ELSE NoTask]
        /\ service = NoPort
        /\ at = [t \in Tasks |-> IF t = Daemon THEN "user" ELSE "none"]
        /\ ptr = [t \in Tasks |-> NoPort]
        /\ doomed = [t \in Tasks |-> {}]
        /\ owed = [t \in Tasks |-> Nothing]

(* port_arena_alloc and ipc_port_init_internal, which leaves ip_kobject.   *)
NewPort(p, t, n) ==
    /\ p \in arena
    /\ arena' = arena \ {p}
    /\ state' = [state EXCEPT ![p] = "ACTIVE"]
    /\ receiver' = [receiver EXCEPT ![p] = [task |-> t, name |-> n]]
    /\ queue' = [queue EXCEPT ![p] = <<>>]

(* ipc_port_alloc                                                          *)
Alloc(t, p, n) ==
    /\ at[t] = "user"
    /\ NewPort(p, t, n)
    /\ refs' = [refs EXCEPT ![p] = 1]
    /\ TakeName(t, n, [port |-> p, bits |-> "recv"])
    /\ UNCHANGED <<kobject, service, at, ptr, dropVars>>

(* task_create: a new space with a task port.  The child has the entries   *)
(* of the parent's indices kept as well, one reference for each, but under *)
(* the generations of its own table.                                       *)
Begin(t, c, p, kept) ==
    /\ at[t] = "user" /\ at[c] = "none"
    /\ NewPort(p, c, <<0, TaskIndex>>)
    /\ refs' = [q \in Ports |-> IF q = p THEN 1 ELSE
                   refs[q] + Cardinality({i \in kept : entry[t][i].port = q})]
    /\ kobject' = [kobject EXCEPT ![p] = c]
    /\ entry' = [entry EXCEPT ![c] = [i \in Indices |->
                    IF i \in kept THEN entry[t][i]
                    ELSE IF i = TaskIndex THEN [port |-> p, bits |-> "recv"] ELSE Empty]]
    /\ used' = [used EXCEPT ![c] = CHOOSE u \in {i + 1 : i \in kept \cup {TaskIndex}} :
                                       \A i \in kept : i < u]
    /\ at' = [at EXCEPT ![c] = "user"]
    /\ UNCHANGED <<gen, names, freed, service, ptr, dropVars>>

Spawn(t, c, p) == Begin(t, c, p, {})

(* Mutant: a child inherits receive rights as well.                        *)
ForkAll(t, c, p) == Begin(t, c, p, {i \in Indices \ {TaskIndex} : entry[t][i].bits # "none"})

(* sys_fork: receive rights are not inherited.                             *)
Fork(t, c, p) == Begin(t, c, p, {i \in Indices : entry[t][i].bits = "send"})

-----------------------------------------------------------------------------
(* Giving rights up.                                                       *)

(* What the environment of Next keeps to, see above.                       *)
MayDrop(t, p) ==
    /\ p # service /\ kobject[p] # t
    /\ \A c \in Tasks : at[c] = "insert" => ptr[c] # p

(* mach_port_deallocate_kernel of the last user reference.                 *)
Dealloc(t, i) ==
    /\ at[t] = "user" /\ i < used[t] /\ entry[t][i].bits # "none"
    /\ FreeName(t, i)
    /\ LET e == entry[t][i] IN
       IF e.bits = "recv" /\ receiver[e.port].task = t
       THEN doomed' = [doomed EXCEPT ![t] = {e.port}] /\ UNCHANGED owed
       ELSE owed' = [owed EXCEPT ![t] = Owes(e.port)] /\ UNCHANGED doomed
    /\ Goto(t, "drop", NoPort)
    /\ UNCHANGED <<portVars, service>>

(* The entries that ipc_space_destroy releases.                            *)
Held(t) ==
    [p \in Ports |-> Cardinality({i \in Indices : entry[t][i] = [port |-> p, bits |-> "send"]})]

(* ipc_space_destroy empties the table under the lock, and then destroys   *)
(* the ports the space receives from and releases the others.              *)
Exit(t) ==
    /\ at[t] = "user" /\ t # Daemon
    /\ entry' = [entry EXCEPT ![t] = [i \in Indices |-> Empty]]
    /\ used' = [used EXCEPT ![t] = 1]
    /\ doomed' = [doomed EXCEPT ![t] = {p \in Ports : \E i \in Indices :
                     /\ entry[t][i] = [port |-> p, bits |-> "recv"]
                     /\ receiver[p].task = t}]
    /\ owed' = [owed EXCEPT ![t] = Held(t)]
    /\ Goto(t, "exit", NoPort)
    /\ UNCHANGED <<gen, names, freed, portVars, service>>

(* ipc_port_destroy: only an active port; senders see the state without    *)
(* the lock.                                                               *)
Zombie(t, p) ==
    /\ at[t] \in {"drop", "exit"} /\ ptr[t] = NoPort /\ p \in doomed[t]
    /\ state' = [state EXCEPT ![p] = IF @ = "ACTIVE" THEN "ZOMBIE" ELSE @]
    /\ ptr' = [ptr EXCEPT ![t] = IF state[p] = "ACTIVE" THEN p ELSE NoPort]
    /\ doomed' = [doomed EXCEPT ![t] = @ \ {p}]
    /\ UNCHANGED <<spaceVars, arena, refs, receiver, queue, kobject, service, at, owed>>

(* ... and then drains the queue, frees the receiver's name if it still is *)
(* that of the port, and has the receiver's reference to release.          *)
Bury(t) ==
    LET p == ptr[t]
        r == receiver[p] IN
    /\ at[t] \in {"drop", "exit"} /\ p # NoPort
    /\ queue' = [queue EXCEPT ![p] = <<>>]
    /\ IF gen[r.task][r.name[2]] = r.name[1] THEN FreeName(r.task, r.name[2])
                                             ELSE UNCHANGED spaceVars
    /\ receiver' = [receiver EXCEPT ![p] = Nobody]
    /\ state' = [state EXCEPT ![p] = "DEAD"]
    /\ owed' = [owed EXCEPT ![t][p] = @ + 1]
    /\ ptr' = [ptr EXCEPT ![t] = NoPort]
    /\ UNCHANGED <<arena, refs, kobject, service, at, doomed>>

(* Mutant: the slot is recycled whoever else holds the port.               *)
ReleaseAny(t, p) ==
    /\ owed[t][p] > 0
    /\ owed' = [owed EXCEPT ![t][p] = @ - 1]
    /\ refs' = [refs EXCEPT ![p] = @ - 1]
    /\ arena' = arena \cup {p}
    /\ UNCHANGED <<spaceVars, state, receiver, queue, kobject, service, at, ptr, doomed>>

(* ipc_port_release: the last reference returns the slot to the arena.     *)
Release(t, p) ==
    /\ owed[t][p] > 0
    /\ owed' = [owed EXCEPT ![t][p] = @ - 1]
    /\ refs' = [refs EXCEPT ![p] = @ - 1]
    /\ arena' = IF refs[p] = 1 THEN arena \cup {p} ELSE arena
    /\ UNCHANGED <<spaceVars, state, receiver, queue, kobject, service, at, ptr, doomed>>

DropDone(t) ==
    /\ ptr[t] = NoPort /\ doomed[t] = {} /\ owed[t] = Nothing
    /\ \/ at[t] = "drop" /\ Return(t)
       \/ at[t] = "exit" /\ Goto(t, "dead", NoPort)
    /\ UNCHANGED <<spaceVars, portVars, service, dropVars>>

-----------------------------------------------------------------------------
(* sys_mach_msg: the port is looked up, and used later without a           *)
(* reference.                                                              *)
SendLookup(t, n) ==
    /\ at[t] = "user" /\ Lookup(t, n, ToSend) # NoPort
    /\ Goto(t, "send", Lookup(t, n, ToSend))
    /\ UNCHANGED <<spaceVars, portVars, service, dropVars>>

(* imq_lock is held between a sender's checks and the end of its append.   *)
Unlocked(p) == \A t \in Tasks : at[t] = "append" => ptr[t] # p

(* ipc_mqueue_send fails on a dead port and, at once or at its deadline,   *)
(* on a full queue; a message to a kernel object is served and freed.      *)
SendEnds(t) ==
    LET p == ptr[t] IN
    /\ at[t] = "send" /\ Unlocked(p)
    /\ \/ state[p] # "ACTIVE"
       \/ kobject[p] # NoTask
       \/ Len(queue[p]) >= QLimit
    /\ Return(t)
    /\ UNCHANGED <<spaceVars, portVars, service, dropVars>>

(* Mutant: the limit of the queue is passed by one.                        *)
SendCheckOverLimit(t) ==
    LET p == ptr[t] IN
    /\ at[t] = "send" /\ Unlocked(p)
    /\ state[p] = "ACTIVE" /\ kobject[p] = NoTask /\ Len(queue[p]) <= QLimit
    /\ Goto(t, "append", p)
    /\ UNCHANGED <<spaceVars, portVars, service, dropVars>>

SendCheck(t) ==
    LET p == ptr[t] IN
    /\ at[t] = "send" /\ Unlocked(p)
    /\ state[p] = "ACTIVE" /\ kobject[p] = NoTask /\ Len(queue[p]) < QLimit
    /\ Goto(t, "append", p)
    /\ UNCHANGED <<spaceVars, portVars, service, dropVars>>

(* ipc_port_destroy drains under ip_lock and not under imq_lock: a port    *)
(* that died meanwhile gets the message all the same.                      *)
SendAppend(t) ==
    /\ at[t] = "append"
    /\ queue' = [queue EXCEPT ![ptr[t]] = Append(@, NoPort)]
    /\ Return(t)
    /\ UNCHANGED <<spaceVars, arena, refs, state, receiver, kobject, service, dropVars>>

ReceiveLookup(t, n) ==
    /\ at[t] = "user" /\ Lookup(t, n, ToReceive) # NoPort
    /\ Goto(t, "recv", Lookup(t, n, ToReceive))
    /\ UNCHANGED <<spaceVars, portVars, service, dropVars>>

(* ipc_mqueue_receive takes the head of the queue or waits, until its      *)
(* deadline at the latest.                                                 *)
Dequeue(t) ==
    /\ at[t] = "recv" /\ Unlocked(ptr[t])
    /\ state[ptr[t]] = "ACTIVE" /\ queue[ptr[t]] # <<>>
    /\ queue' = [queue EXCEPT ![ptr[t]] = Tail(@)]

Receive(t) ==
    /\ Dequeue(t)
    /\ Return(t)
    /\ UNCHANGED <<spaceVars, arena, refs, state, receiver, kobject, service, dropVars>>

ReceiveTimeout(t) ==
    /\ at[t] = "recv" /\ queue[ptr[t]] = <<>>
    /\ Return(t)
    /\ UNCHANGED <<spaceVars, portVars, service, dropVars>>

-----------------------------------------------------------------------------
(* sys_mach_register_service: the registry has no reference to the port.   *)
Register(t, n) ==
    /\ at[t] = "user" /\ Lookup(t, n, ToSend) # NoPort
    /\ service' = Lookup(t, n, ToSend)
    /\ UNCHANGED <<spaceVars, portVars, at, ptr, dropVars>>

(* sys_mach_lookup_service reads the registry, and then takes a name and a *)
(* reference for a send right.                                             *)
LookupService(t) ==
    /\ at[t] = "user" /\ service # NoPort
    /\ Goto(t, "insert", service)
    /\ UNCHANGED <<spaceVars, portVars, service, dropVars>>

(* Mutant: the right takes no reference.                                   *)
InsertUncounted(t, n) ==
    /\ at[t] = "insert"
    /\ TakeName(t, n, [port |-> ptr[t], bits |-> "send"])
    /\ Return(t)
    /\ UNCHANGED <<portVars, service, dropVars>>

InsertService(t, n) ==
    /\ at[t] = "insert"
    /\ TakeName(t, n, [port |-> ptr[t], bits |-> "send"])
    /\ refs' = [refs EXCEPT ![ptr[t]] = @ + 1]
    /\ Return(t)
    /\ UNCHANGED <<arena, state, receiver, queue, kobject, service, dropVars>>

(* The table is full (or the generations of its free indices are at their *)
(* bound).                                                                 *)
InsertFails(t) ==
    /\ at[t] = "insert" /\ \A n \in Names : ~NewName(t, n)
    /\ Return(t)
    /\ UNCHANGED <<spaceVars, portVars, service, dropVars>>

-----------------------------------------------------------------------------
(* All steps but fork, mach_port_deallocate, and the passing of messages.  *)
Running(t) ==
    \/ \E p \in Ports, n \in Names : Alloc(t, p, n)
    \/ \E c \in Tasks, p \in Ports : Spawn(t, c, p)
    \/ \E p \in Ports : Zombie(t, p) \/ Release(t, p)
    \/ Bury(t) \/ DropDone(t) \/ Exit(t)
    \/ \E n \in Names : ReceiveLookup(t, n) \/ InsertService(t, n)
    \/ \E n \in Names : t = Daemon /\ Register(t, n)
    \/ ReceiveTimeout(t) \/ LookupService(t) \/ InsertFails(t)

TaskStep(t) ==
    \/ Running(t)
    \/ \E c \in Tasks, p \in Ports : Fork(t, c, p)
    \/ \E i \in Indices : Dealloc(t, i) /\ MayDrop(t, entry[t][i].port)
    \/ \E n \in Names : SendLookup(t, n)
    \/ SendEnds(t) \/ SendCheck(t) \/ SendAppend(t) \/ Receive(t)

Next == \E t \in Tasks : TaskStep(t)

Spec == Init /\ [][Next]_vars

-----------------------------------------------------------------------------
Rights(p) == {h \in Tasks \X Indices : entry[h[1]][h[2]].port = p}

(* Destructions of a port that have not given its reference back yet.      *)
Destroying(p) == {t \in Tasks : p \in doomed[t] \/ (at[t] \in {"drop", "exit"} /\ ptr[t] = p)}

Sum(f) == Cardinality({h \in Tasks \X (1 .. Size) : h[2] <= f[h[1]]})

(* The references of a port are its entries and the releases still owed,   *)
(* and the arena has exactly the ports without any: a port is not recycled *)
(* under a right, and none is lost.                                        *)
RefsExact ==
    \A p \in Ports :
        /\ refs[p] = Cardinality(Rights(p)) + Cardinality(Destroying(p))
                     + Sum([t \in Tasks |-> owed[t][p]])
        /\ p \in arena <=> refs[p] = 0

(* An active port has one receive right, and it is the name and the task   *)
(* the port itself records, unless that task is about to destroy it.       *)
OneReceiver ==
    \A p \in Ports : state[p] = "ACTIVE" /\ p \notin arena =>
        LET recv == {h \in Rights(p) : entry[h[1]][h[2]].bits = "recv"}
            r == receiver[p]
        IN  IF Destroying(p) # {} THEN Destroying(p) = {r.task} /\ recv = {}
            ELSE recv = {<<r.task, r.name[2]>>} /\ gen[r.task][r.name[2]] = r.name[1]

(* A port that a message or a lookup of another CPU is about is not        *)
(* recycled under it: a message ends in the port its name denoted, alive   *)
(* or dead, and never in a later one of the same slot.                     *)
PointersPinned == \A t \in Tasks : ptr[t] # NoPort => ptr[t] \notin arena

(* A name that a task has given up, or whose port it has destroyed, never  *)
(* denotes another right, although its index is in use again.              *)
StaleNamesDie ==
    \A t \in Tasks : \A n \in freed[t] : Lookup(t, n, ToSend) = NoPort
=============================================================================
