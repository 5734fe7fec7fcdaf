---------------------------- MODULE MachReplies ----------------------------
(***************************************************************************)
(* Rights in messages: the reply port of a message, or a port descriptor   *)
(* of a complex one, becomes a send right of the receiver                  *)
(* (ipc_kmsg_copyin, ipc_kmsg_copyout, ipc_port_copyout_send).  A message  *)
(* carries at most one port.  The rest is MachPorts, in the environment of *)
(* its Next.                                                               *)
(***************************************************************************)
EXTENDS MachPorts

VARIABLES
    local,     \* of a thread: ikm_local_port of the message it sends
    more       \* more[t][i]: ie_urefs - 1

replyVars == <<local, more>>

ReplyInit ==
    /\ Init
    /\ local = [t \in Tasks |-> NoPort]
    /\ more = [t \in Tasks |-> [i \in Indices |-> 0]]

Carry(t, p) == local' = [local EXCEPT ![t] = p]

(* ipc_kmsg_copyin of a message to n that carries r.                       *)
SendRight(t, n, r) ==
    /\ SendLookup(t, n)
    /\ Carry(t, Lookup(t, r, IF r = n THEN ToSend ELSE ToReceive))
    /\ UNCHANGED more

(* ipc_kobject_server answers through ipc_mqueue_send.                     *)
KernelServes(t) ==
    /\ at[t] = "send" /\ Unlocked(ptr[t])
    /\ state[ptr[t]] = "ACTIVE" /\ kobject[ptr[t]] # NoTask /\ local[t] # NoPort
    /\ Goto(t, "send", local[t])
    /\ Carry(t, NoPort)
    /\ UNCHANGED <<spaceVars, portVars, service, dropVars, more>>

AppendRight(t) ==
    /\ at[t] = "append"
    /\ queue' = [queue EXCEPT ![ptr[t]] = Append(@, local[t])]
    /\ Return(t)
    /\ Carry(t, NoPort)
    /\ UNCHANGED <<spaceVars, arena, refs, state, receiver, kobject, service, dropVars, more>>

ReceiveRight(t) ==
    /\ Dequeue(t)
    /\ Goto(t, "copyout", Head(queue[ptr[t]]))
    /\ UNCHANGED <<spaceVars, arena, refs, state, receiver, kobject, service, dropVars, replyVars>>

(* ipc_port_copyout_send: the receiver itself needs no right; a right it   *)
(* has gets one more user reference; a new one takes no port reference.    *)
HasSend(t, p) == {i \in Indices : i < used[t] /\ entry[t][i] = [port |-> p, bits |-> "send"]}

CopyoutSend(t) ==
    LET p == ptr[t] IN
    /\ at[t] = "copyout"
    /\ IF p = NoPort THEN UNCHANGED <<spaceVars, more>>
       ELSE IF receiver[p].task = t THEN UNCHANGED <<spaceVars, more>>
       ELSE IF HasSend(t, p) # {}
       THEN /\ \E i \in HasSend(t, p) : /\ \A j \in HasSend(t, p) : i <= j
                                        /\ more' = [more EXCEPT ![t][i] = @ + 1]
            /\ UNCHANGED spaceVars
       ELSE /\ \/ \E n \in Names : TakeName(t, n, [port |-> p, bits |-> "send"])
               \/ (\A n \in Names : ~NewName(t, n)) /\ UNCHANGED spaceVars
            /\ UNCHANGED more
    /\ Return(t)
    /\ UNCHANGED <<portVars, service, dropVars, local>>

(* mach_port_deallocate_kernel of a user reference that is not the last.   *)
DropUserRef(t, i) ==
    /\ at[t] = "user" /\ more[t][i] > 0
    /\ more' = [more EXCEPT ![t][i] = @ - 1]
    /\ UNCHANGED <<vars, local>>

ReplyStep(t) ==
    \/ /\ \/ Running(t)
          \/ \E i \in Indices : more[t][i] = 0 /\ Dealloc(t, i) /\ MayDrop(t, entry[t][i].port)
          \/ local[t] = NoPort /\ SendEnds(t)
          \/ SendCheck(t)
       /\ UNCHANGED replyVars
    \/ \E c \in Tasks, p \in Ports :
          /\ Fork(t, c, p)
          /\ more' = [more EXCEPT ![c] = more[t]]
          /\ UNCHANGED local
    \/ /\ local[t] # NoPort /\ (kobject[ptr[t]] = NoTask \/ state[ptr[t]] # "ACTIVE")
       /\ SendEnds(t)
       /\ Carry(t, NoPort)
       /\ UNCHANGED more
    \/ \E n, r \in Names : SendRight(t, n, r)
    \/ KernelServes(t) \/ AppendRight(t) \/ ReceiveRight(t) \/ CopyoutSend(t)
    \/ \E i \in Indices : DropUserRef(t, i)

ReplySpec == ReplyInit /\ [][\E t \in Tasks : ReplyStep(t)]_<<vars, replyVars>>

(* "Exactly one task holds receive rights for a given port", or none once  *)
(* the port is destroyed: no step of one task hands the port of another to *)
(* a third while its owner still receives from it.                         *)
OneReceivingTask ==
    \A p \in Ports, t, u \in Tasks :
        (\E i, j \in Indices : /\ entry[t][i] = [port |-> p, bits |-> "recv"]
                               /\ entry[u][j] = [port |-> p, bits |-> "recv"]) => t = u
=============================================================================
