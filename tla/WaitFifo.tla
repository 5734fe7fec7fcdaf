------------------------------ MODULE WaitFifo ------------------------------
(***************************************************************************)
(* What a wait queue promises (kernel/include/kernel/wait_queue.h): a      *)
(* blocked thread stays in its queue, in arrival order, until a wake-up    *)
(* takes it out, and a thread taken out is made runnable.  A thread may    *)
(* also block for a time, on no queue.                                     *)
(***************************************************************************)
EXTENDS Sequences, SequencesExt

CONSTANTS Threads, Queues

VARIABLES
    queue,    \* per wait queue, the blocked threads in arrival order
    waking,   \* threads taken out and not yet runnable
    blocked   \* threads that are not runnable

vars == <<queue, waking, blocked>>

Init ==
    /\ queue = [q \in Queues |-> <<>>]
    /\ waking = {}
    /\ blocked = {}

Sleep(t, q) ==
    /\ t \notin blocked
    /\ blocked' = blocked \cup {t}
    /\ queue' = [queue EXCEPT ![q] = Append(@, t)]
    /\ UNCHANGED waking

SleepUntil(t) ==
    /\ t \notin blocked
    /\ blocked' = blocked \cup {t}
    /\ UNCHANGED <<queue, waking>>

Expire ==
    /\ \E S \in SUBSET {t \in blocked : \A q \in Queues : t \notin ToSet(queue[q])} :
          waking' = waking \cup S
    /\ UNCHANGED <<queue, blocked>>

WakeupOne(q) ==
    /\ queue[q] # <<>>
    /\ waking' = waking \cup {Head(queue[q])}
    /\ queue' = [queue EXCEPT ![q] = Tail(@)]
    /\ UNCHANGED blocked

WakeupAll(q) ==
    /\ waking' = waking \cup ToSet(queue[q])
    /\ queue' = [queue EXCEPT ![q] = <<>>]
    /\ UNCHANGED blocked

Wake(t) ==
    /\ t \in waking
    /\ waking' = waking \ {t}
    /\ blocked' = blocked \ {t}
    /\ UNCHANGED queue

Next ==
    \/ \E q \in Queues : WakeupOne(q) \/ WakeupAll(q)
    \/ Expire
    \/ \E t \in Threads : Wake(t) \/ SleepUntil(t) \/ \E q \in Queues : Sleep(t, q)

Spec == Init /\ [][Next]_vars
=============================================================================
