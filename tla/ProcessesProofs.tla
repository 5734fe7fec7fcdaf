-------------------------- MODULE ProcessesProofs --------------------------
(***************************************************************************)
(* The life of a process for any size of the process table: a process      *)
(* always has a parent that can collect it, and is collected once.         *)
(***************************************************************************)
EXTENDS Processes, TLAPS, WellFoundedInduction

-----------------------------------------------------------------------------
(* The inductive invariant.                                                *)

(* The thread of n runs for a slot that is its own.                        *)
Owns(n) ==
    /\ ta_proc[n] \in Slots
    /\ p_state[ta_proc[n]] = "RUNNING"
    /\ p_pid[ta_proc[n]] = n

(* It has marked that slot: from here on the slot can be another's.        *)
Ending(n) == pc[n] \in {"notify", "signal"} /\ proc[n] = ta_proc[n]

Childless(s) == \A c \in Slots \ {Launchd} : InUse(c) => p_parent[c] # s

(* Where a thread has a slot in proc that is still marked RUNNING: a child *)
(* it is starting, or the process whose end it is carrying out.            *)
Holding == {"start", "reparent", "mark"}

(* launchd is always there to take over children, and nobody ends it.      *)
LaunchdRuns ==
    /\ p_state[Launchd] = "RUNNING" /\ p_pid[Launchd] = Launchd
    /\ pc[Launchd] \notin {"none", "dead"}
    /\ \A n \in Pids : proc[n] # Launchd

(* No two slots in use have the same pid, and a pid that is still to be    *)
(* given out has no thread and no history.                                 *)
PidsUnique ==
    /\ \A s \in Slots : InUse(s) => p_pid[s] \in 1 .. s_pid_seq - 1
    /\ \A s, t \in Slots : InUse(s) /\ InUse(t) /\ p_pid[s] = p_pid[t] => s = t
    /\ \A n \in Pids : n >= s_pid_seq => pc[n] = "none" /\ collected[n] = 0

(* A thread that has not marked its own slot owns it.                      *)
ThreadsOwn ==
    /\ \A s \in Slots : InUse(s) /\ pc[p_pid[s]] # "none" => ta_proc[p_pid[s]] = s
    /\ \A n \in Pids : pc[n] \notin {"none", "dead"} /\ ~Ending(n) => Owns(n)
    /\ \A n \in Pids :
          pc[n] \in {"none", "user", "scan", "recheck", "asleep", "dead"} => proc[n] = Null

(* A slot that is being started or ended is so by one thread, its own or   *)
(* its creator, and has no children when it is marked.  A slot that is     *)
(* about to be reaped is an exited child of the thread that reaps it.      *)
SlotsHeld ==
    /\ \A n \in Pids : pc[n] \in Holding =>
          /\ proc[n] \in Slots /\ p_state[proc[n]] = "RUNNING"
          /\ \/ pc[n] # "start" /\ proc[n] = ta_proc[n]
             \/ pc[p_pid[proc[n]]] = "none" /\ Childless(proc[n])
          /\ pc[n] = "mark" => Childless(proc[n])
    /\ \A m, n \in Pids : pc[m] \in Holding /\ pc[n] \in Holding /\ proc[m] = proc[n] => m = n
    /\ \A n \in Pids : pc[n] = "notify" => proc[n] \in Slots
    /\ \A n \in Pids : pc[n] = "reap" =>
          proc[n] \in Slots /\ p_state[proc[n]] = "EXITED" /\ p_parent[proc[n]] = ta_proc[n]

(* The thread of an exited process is past its last look at its own state. *)
ExitedEnds ==
    \A s \in Slots : p_state[s] = "EXITED" =>
        \/ pc[p_pid[s]] \in {"none", "dead"}
        \/ pc[p_pid[s]] \in {"notify", "signal"} /\ proc[p_pid[s]] = s

(* A collected process has no slot any more and never runs again.          *)
Gone ==
    \A n \in Pids : collected[n] # 0 =>
        /\ collected[n] = 1
        /\ pc[n] \in {"none", "dead"} \/ Ending(n)
        /\ \A s \in Slots : InUse(s) => p_pid[s] # n

IInv ==
    /\ TypeOK /\ LaunchdRuns /\ PidsUnique /\ ThreadsOwn /\ SlotsHeld /\ ExitedEnds /\ Gone
    /\ ParentAlive

-----------------------------------------------------------------------------
(* Lemmas.                                                                 *)

(* A non-empty set of slots has a lowest one.                              *)
LEMMA LowestIn ==
    ASSUME NEW S \in SUBSET Slots, S # {}
    PROVE  Lowest(S) \in S
<1>1. S \subseteq Nat
  BY BoundsAssumption DEF Slots
<1> DEFINE R == OpToRel(<, Nat)
<1>2. \A x, y \in Nat : y < x => <<y, x>> \in R
  BY DEF OpToRel
<1>3. IsWellFoundedOn(R, Nat)
  BY NatLessThanWellFounded
<1> HIDE DEF R
<1>4. PICK x \in S : \A y \in S : ~ (<<y, x>> \in R)
  BY <1>1, <1>3, WFMin
<1>5. ASSUME NEW y \in S PROVE x <= y
  <2>1. x \in Nat /\ y \in Nat
    BY <1>1
  <2>2. ~(y < x)
    BY <1>2, <1>4, <2>1
  <2> QED BY <2>1, <2>2
<1> QED BY <1>5 DEF Lowest

(* The slot proc_create takes is one without a process, never launchd's.   *)
LEMMA FreeSlotIn ==
    ASSUME FreeSlot # Null
    PROVE  FreeSlot \in Slots /\ ~InUse(FreeSlot)
<1> DEFINE S == {s \in Slots : ~InUse(s)}
<1>1. S # {} /\ FreeSlot = Lowest(S)
  BY DEF FreeSlot
<1>2. Lowest(S) \in S
  BY <1>1, LowestIn
<1> QED BY <1>1, <1>2

(* launchd's slot and pid are among the slots and the pids.                *)
LEMMA LaunchdIn ==
    /\ Launchd \in Slots /\ Launchd \in Pids /\ Launchd # Null /\ Launchd = 1
    /\ Null \notin Slots /\ Null \notin Pids /\ AnyPid \notin Pids
BY BoundsAssumption DEF Launchd, Slots, Pids, Null, AnyPid

(* The children of a process that has a slot are the slots that point to   *)
(* it: the pid they record leads to no other.                              *)
LEMMA ChildrenPoint ==
    ASSUME IInv, NEW s \in Slots, InUse(s), NEW c \in Children(s), c # Launchd
    PROVE  c \in Slots /\ InUse(c) /\ p_parent[c] = s
<1>1. c \in Slots /\ InUse(c) /\ (p_parent[c] = s \/ p_ppid[c] = p_pid[s])
  BY DEF Children
<1>2. /\ p_parent[c] \in Slots /\ p_state[p_parent[c]] = "RUNNING"
      /\ p_pid[p_parent[c]] = p_ppid[c]
  BY <1>1 DEF IInv, ParentAlive, TypeOK
<1>3. InUse(p_parent[c])
  BY <1>2 DEF InUse
<1> QED BY <1>1, <1>2, <1>3 DEF IInv, PidsUnique
(* A slot in use has a pid.                                                *)
LEMMA PidIn ==
    ASSUME IInv
    PROVE  /\ \A s \in Slots : p_state[s] # "FREE" => p_pid[s] \in Pids
           /\ \A s \in Slots : p_state[s] # "FREE" => p_pid[s] < s_pid_seq
<1>1. s_pid_seq \in 2 .. MaxPid + 1 /\ MaxPid \in Nat
  BY BoundsAssumption DEF IInv, TypeOK
<1>2. \A s \in Slots : p_state[s] # "FREE" => p_pid[s] \in 1 .. s_pid_seq - 1
  BY DEF IInv, PidsUnique, InUse
<1> QED BY <1>1, <1>2 DEF Pids

-----------------------------------------------------------------------------
(* How a step changes the thread that takes it.                            *)

Places == {"none", "user", "start", "reparent", "mark", "notify", "signal", "dead",
           "scan", "recheck", "asleep", "reap"}

(* Thread n goes to l, and its system call works on slot x.                *)
MovesTo(n, l, x) ==
    /\ pc' \in [Pids -> Places] /\ proc' \in [Pids -> Slots \cup {Null}]
    /\ \A m \in Pids : /\ pc'[m] = IF m = n THEN l ELSE pc[m]
                       /\ proc'[m] = IF m = n THEN x ELSE proc[m]

LocalsTyped ==
    target' \in [Pids -> Slots \cup {Null}] /\ want' \in [Pids -> Pids \cup {AnyPid}]

(* Between two system calls, while it waits, and when it sends a signal, a *)
(* thread keeps its slot and holds no other.                               *)
LEMMA WaitingStep ==
    ASSUME IInv, NEW n \in Pids, pc[n] \in {"user", "scan", "recheck", "asleep"},
           NEW l \in {"user", "scan", "recheck", "asleep", "signal"},
           MovesTo(n, l, Null), LocalsTyped, UNCHANGED <<slotVars, ta_proc, collected>>
    PROVE  IInv'
<1> USE DEF slotVars, InUse, Null
<1>1. Owns(n) /\ proc[n] = Null /\ n # Null /\ Null \notin Slots
  BY LaunchdIn DEF IInv, ThreadsOwn, Ending
<1>2. TypeOK'
  BY DEF IInv, TypeOK, MovesTo, LocalsTyped, Places
<1>3. LaunchdRuns'
  BY LaunchdIn DEF IInv, LaunchdRuns, MovesTo
<1>4. PidsUnique'
  BY <1>1 DEF IInv, PidsUnique, MovesTo
<1>5. \A s \in Slots : p_state[s] # "FREE" => p_pid[s] \in Pids
  BY PidIn
<1>6. ThreadsOwn'
  BY <1>1, <1>5 DEF IInv, ThreadsOwn, MovesTo, Ending, Owns
<1>7. SlotsHeld'
  BY <1>1, <1>5 DEF IInv, SlotsHeld, MovesTo, Holding, Childless
<1>8. ExitedEnds'
  BY <1>1, <1>5 DEF IInv, ExitedEnds, MovesTo, Owns
<1>9. Gone'
  BY <1>1 DEF IInv, Gone, MovesTo, Ending, Owns
<1>10. ParentAlive'
  BY <1>1, <1>5 DEF IInv, ParentAlive, PastReparent, MovesTo, TypeOK
<1> QED BY <1>2, <1>3, <1>4, <1>6, <1>7, <1>8, <1>9, <1>10 DEF IInv
(* wait4 finds an exited child of its own.                                 *)
LEMMA WaitFindStep ==
    ASSUME IInv, NEW n \in Pids, WaitFind(n)
    PROVE  IInv'
<1> DEFINE x == Lowest(FindWaitableChild(n))
<1>0. x \in Slots /\ p_state[x] = "EXITED" /\ p_parent[x] = ta_proc[n] /\ x # Launchd
  <2>1. Owns(n)
    BY DEF IInv, ThreadsOwn, Ending, WaitFind
  <2>2. FindWaitableChild(n) \in SUBSET Slots /\ FindWaitableChild(n) # {}
    BY DEF WaitFind, FindWaitableChild, Waited, Children
  <2>3. x \in FindWaitableChild(n)
    BY <2>2, LowestIn
  <2>4. x \in Children(ta_proc[n]) /\ p_state[x] = "EXITED"
    BY <2>3 DEF FindWaitableChild, Waited
  <2>5. x # Launchd
    BY <2>4 DEF IInv, LaunchdRuns
  <2> HIDE DEF x
  <2> QED BY <2>1, <2>4, <2>5, ChildrenPoint DEF Owns, InUse
<1> HIDE DEF x
<1> USE DEF slotVars, InUse, Null
<1>1. /\ pc[n] = "scan" /\ Owns(n) /\ proc[n] = Null /\ n # Null /\ Null \notin Slots
      /\ MovesTo(n, "reap", x) /\ LocalsTyped
      /\ UNCHANGED <<slotVars, ta_proc, collected>>
      /\ x \in Slots /\ p_state[x] = "EXITED" /\ p_parent[x] = ta_proc[n] /\ x # Launchd
  BY <1>0, LaunchdIn DEF IInv, TypeOK, ThreadsOwn, Ending, WaitFind, Goto, MovesTo, LocalsTyped,
     Places, x
<1>2. \A s \in Slots : p_state[s] # "FREE" => p_pid[s] \in Pids
  BY PidIn
<1>3. TypeOK'
  BY <1>1 DEF IInv, TypeOK, MovesTo, LocalsTyped, Places
<1>4. LaunchdRuns'
  BY <1>1, LaunchdIn DEF IInv, LaunchdRuns, MovesTo, Owns
<1>5. PidsUnique'
  BY <1>1 DEF IInv, PidsUnique, MovesTo
<1>6. ThreadsOwn'
  BY <1>1, <1>2 DEF IInv, ThreadsOwn, MovesTo, Ending, Owns
<1>7. SlotsHeld'
  BY <1>1, <1>2 DEF IInv, SlotsHeld, MovesTo, Holding, Childless, Owns
<1>8. ExitedEnds'
  BY <1>1, <1>2 DEF IInv, ExitedEnds, MovesTo, Owns
<1>9. Gone'
  BY <1>1 DEF IInv, Gone, MovesTo, Ending, Owns
<1>10. ParentAlive'
  BY <1>1, <1>2 DEF IInv, ParentAlive, PastReparent, MovesTo, TypeOK, Owns
<1> QED BY <1>3, <1>4, <1>5, <1>6, <1>7, <1>8, <1>9, <1>10 DEF IInv

(* The exit of the caller begins.                                          *)
LEMMA ExitCurrentStep ==
    ASSUME IInv, NEW n \in Pids, ExitCurrent(n)
    PROVE  IInv'
<1> USE DEF slotVars, InUse, Null
<1>1. /\ pc[n] = "user" /\ Owns(n) /\ proc[n] = Null /\ n # Null /\ Null \notin Slots
      /\ n # Launchd /\ MovesTo(n, "reparent", ta_proc[n]) /\ LocalsTyped
      /\ UNCHANGED <<slotVars, ta_proc, collected>>
  BY LaunchdIn DEF IInv, TypeOK, ThreadsOwn, Ending, ExitCurrent, Goto, MovesTo, LocalsTyped,
     Places
<1>2. \A s \in Slots : p_state[s] # "FREE" => p_pid[s] \in Pids
  BY PidIn
<1>3. TypeOK'
  BY <1>1 DEF IInv, TypeOK, MovesTo, LocalsTyped, Places
<1>4. LaunchdRuns'
  BY <1>1, LaunchdIn DEF IInv, LaunchdRuns, MovesTo, Owns
<1>5. PidsUnique'
  BY <1>1 DEF IInv, PidsUnique, MovesTo
<1>6. ThreadsOwn'
  BY <1>1, <1>2 DEF IInv, ThreadsOwn, MovesTo, Ending, Owns
<1>7. SlotsHeld'
  <2>1. \A m \in Pids : pc[m] \in Holding /\ proc[m] = ta_proc[n] => m = n
    <3>1. \A m \in Pids : pc[m] \in Holding => Owns(m)
      BY DEF IInv, ThreadsOwn, Ending, Holding
    <3> QED BY <1>1, <3>1 DEF IInv, SlotsHeld, Owns
  <2> QED BY <1>1, <1>2, <2>1 DEF IInv, SlotsHeld, MovesTo, Holding, Childless, Owns
<1>8. ExitedEnds'
  BY <1>1, <1>2 DEF IInv, ExitedEnds, MovesTo, Owns
<1>9. Gone'
  BY <1>1 DEF IInv, Gone, MovesTo, Ending, Owns
<1>10. ParentAlive'
  BY <1>1, <1>2 DEF IInv, ParentAlive, PastReparent, MovesTo, TypeOK, Owns
<1> QED BY <1>3, <1>4, <1>5, <1>6, <1>7, <1>8, <1>9, <1>10 DEF IInv

(* A child that got no thread is ended by its creator.                     *)
LEMMA NoThreadStep ==
    ASSUME IInv, NEW n \in Pids, NoThread(n)
    PROVE  IInv'
<1> USE DEF slotVars, InUse, Null
<1>1. /\ pc[n] = "start" /\ Owns(n) /\ n # Null /\ Null \notin Slots
      /\ MovesTo(n, "reparent", proc[n]) /\ LocalsTyped
      /\ UNCHANGED <<slotVars, ta_proc, collected>>
  BY LaunchdIn DEF IInv, TypeOK, ThreadsOwn, Ending, NoThread, Goto, MovesTo, LocalsTyped,
     Places
<1>2. \A s \in Slots : p_state[s] # "FREE" => p_pid[s] \in Pids
  BY PidIn
<1>3. TypeOK'
  BY <1>1 DEF IInv, TypeOK, MovesTo, LocalsTyped, Places
<1>4. LaunchdRuns'
  BY <1>1, LaunchdIn DEF IInv, LaunchdRuns, MovesTo, Owns
<1>5. PidsUnique'
  BY <1>1 DEF IInv, PidsUnique, MovesTo
<1>6. ThreadsOwn'
  BY <1>1, <1>2 DEF IInv, ThreadsOwn, MovesTo, Ending, Owns
<1>7. SlotsHeld'
  BY <1>1, <1>2 DEF IInv, SlotsHeld, MovesTo, Holding, Childless, Owns
<1>8. ExitedEnds'
  BY <1>1, <1>2 DEF IInv, ExitedEnds, MovesTo, Owns
<1>9. Gone'
  BY <1>1 DEF IInv, Gone, MovesTo, Ending, Owns
<1>10. ParentAlive'
  BY <1>1, <1>2 DEF IInv, ParentAlive, PastReparent, MovesTo, TypeOK, Owns
<1> QED BY <1>3, <1>4, <1>5, <1>6, <1>7, <1>8, <1>9, <1>10 DEF IInv

(* The exiting thread looks up whom to tell, in a slot that may be gone.   *)
LEMMA ReadParentStep ==
    ASSUME IInv, NEW n \in Pids, ReadParent(n)
    PROVE  IInv'
<1> USE DEF slotVars, InUse, Null
<1>1. /\ pc[n] = "notify" /\ proc[n] \in Slots /\ n # Null /\ Null \notin Slots
      /\ MovesTo(n, "signal", proc[n]) /\ LocalsTyped
      /\ UNCHANGED <<slotVars, ta_proc, collected>>
  BY LaunchdIn DEF IInv, TypeOK, SlotsHeld, ReadParent, Goto, MovesTo, LocalsTyped,
     Places
<1>2. \A s \in Slots : p_state[s] # "FREE" => p_pid[s] \in Pids
  BY PidIn
<1>3. TypeOK'
  BY <1>1 DEF IInv, TypeOK, MovesTo, LocalsTyped, Places
<1>4. LaunchdRuns'
  BY <1>1, LaunchdIn DEF IInv, LaunchdRuns, MovesTo, Owns
<1>5. PidsUnique'
  BY <1>1 DEF IInv, PidsUnique, MovesTo
<1>6. ThreadsOwn'
  BY <1>1, <1>2 DEF IInv, ThreadsOwn, MovesTo, Ending, Owns
<1>7. SlotsHeld'
  BY <1>1, <1>2 DEF IInv, SlotsHeld, MovesTo, Holding, Childless, Owns
<1>8. ExitedEnds'
  BY <1>1, <1>2 DEF IInv, ExitedEnds, MovesTo, Owns
<1>9. Gone'
  BY <1>1 DEF IInv, Gone, MovesTo, Ending, Owns
<1>10. ParentAlive'
  BY <1>1, <1>2 DEF IInv, ParentAlive, PastReparent, MovesTo, TypeOK, Owns
<1> QED BY <1>3, <1>4, <1>5, <1>6, <1>7, <1>8, <1>9, <1>10 DEF IInv
-----------------------------------------------------------------------------
(* The steps that change slots or several threads.                         *)

(* The child's thread becomes runnable.                                    *)
LEMMA StartThreadStep ==
    ASSUME IInv, NEW n \in Pids, StartThread(n)
    PROVE  IInv'
<1> USE DEF slotVars, InUse, Null
<1> DEFINE x == proc[n]
           k == p_pid[x]
<1>1. /\ pc[n] = "start" /\ Owns(n) /\ n # Null /\ Null \notin Slots
      /\ x \in Slots /\ p_state[x] = "RUNNING" /\ pc[k] = "none" /\ k \in Pids /\ k # n
      /\ Childless(x) /\ k # Launchd
  <2>1. pc[n] = "start" /\ Owns(n) /\ n # Null /\ Null \notin Slots
    BY LaunchdIn DEF IInv, ThreadsOwn, Ending, StartThread
  <2>2. x \in Slots /\ p_state[x] = "RUNNING" /\ pc[k] = "none" /\ Childless(x)
    BY <2>1 DEF IInv, SlotsHeld, Holding
  <2>3. k \in Pids
    BY <2>2, PidIn
  <2> QED BY <2>1, <2>2, <2>3 DEF IInv, LaunchdRuns
<1>2. /\ pc' \in [Pids -> Places]
      /\ \A m \in Pids : pc'[m] = IF m \in {n, k} THEN "user" ELSE pc[m]
      /\ ta_proc' \in [Pids -> Slots \cup {Null}]
      /\ \A m \in Pids : ta_proc'[m] = IF m = k THEN x ELSE ta_proc[m]
      /\ proc' \in [Pids -> Slots \cup {Null}]
      /\ \A m \in Pids : proc'[m] = IF m = n THEN Null ELSE proc[m]
      /\ LocalsTyped /\ UNCHANGED <<slotVars, collected>>
  BY <1>1 DEF IInv, TypeOK, StartThread, EndLocals, Places, LocalsTyped
<1>3. \A s \in Slots : p_state[s] # "FREE" => p_pid[s] \in Pids
  BY PidIn
<1>4. /\ \A s \in Slots : p_state[s] # "FREE" /\ p_pid[s] = k => s = x
      /\ k < s_pid_seq /\ collected[k] = 0 /\ proc[k] = Null
  BY <1>1, PidIn DEF IInv, PidsUnique, Gone, ThreadsOwn
<1>5. \A m \in Pids : pc[m] \in Holding /\ proc[m] = x => m = n
  BY <1>1 DEF IInv, SlotsHeld, Holding
<1> HIDE DEF x, k
<1>6. TypeOK'
  BY <1>2 DEF IInv, TypeOK, LocalsTyped, Places
<1>7. LaunchdRuns'
  BY <1>1, <1>2, LaunchdIn DEF IInv, LaunchdRuns
<1>8. PidsUnique'
  <2>1. s_pid_seq \in Nat /\ \A m \in Pids : m \in Nat
    BY BoundsAssumption DEF IInv, TypeOK, Pids
  <2>2. \A m \in Pids : m >= s_pid_seq => m # k /\ m # n
    BY <1>1, <1>4, <2>1 DEF IInv, PidsUnique
  <2> QED BY <1>2, <2>2 DEF IInv, PidsUnique
<1>9. ThreadsOwn'
  BY <1>1, <1>2, <1>3, <1>4 DEF IInv, ThreadsOwn, Ending, Owns, x, k
<1>10. SlotsHeld'
  BY <1>1, <1>2, <1>3, <1>4, <1>5 DEF IInv, SlotsHeld, Holding, Childless, x, k
<1>11. ExitedEnds'
  BY <1>1, <1>2, <1>3, <1>4 DEF IInv, ExitedEnds, Owns
<1>12. Gone'
  BY <1>1, <1>2, <1>4 DEF IInv, Gone, Ending, Owns
<1>13. ParentAlive'
  BY <1>1, <1>2, <1>3, <1>4 DEF IInv, ParentAlive, PastReparent, TypeOK, Owns
<1> QED BY <1>6, <1>7, <1>8, <1>9, <1>10, <1>11, <1>12, <1>13 DEF IInv

(* The children of an ending process go to launchd.                        *)
LEMMA ReparentStep ==
    ASSUME IInv, NEW n \in Pids, Reparent(n)
    PROVE  IInv'
<1> USE DEF slotVars, InUse, Null
<1> DEFINE x == proc[n]
<1>1. /\ pc[n] = "reparent" /\ Owns(n) /\ n # Null /\ Null \notin Slots /\ x # Launchd
      /\ x \in Slots /\ p_state[x] = "RUNNING"
      /\ x = ta_proc[n] \/ pc[p_pid[x]] = "none"
  BY LaunchdIn DEF IInv, ThreadsOwn, Ending, LaunchdRuns, SlotsHeld, Holding, Reparent
<1>2. /\ MovesTo(n, "mark", x) /\ LocalsTyped
      /\ UNCHANGED <<p_state, p_pid, s_pid_seq, ta_proc, collected>>
      /\ p_parent' = [s \in Slots |-> IF s \in Children(x) THEN Launchd ELSE p_parent[s]]
      /\ p_ppid' = [s \in Slots |-> IF s \in Children(x) THEN p_pid[Launchd] ELSE p_ppid[s]]
  BY <1>1 DEF IInv, TypeOK, Reparent, Goto, MovesTo, Places, LocalsTyped
<1>3. \A s \in Slots : p_state[s] # "FREE" => p_pid[s] \in Pids
  BY PidIn
<1>4. /\ Launchd \in Slots /\ Launchd \in Pids
      /\ p_state[Launchd] = "RUNNING" /\ p_pid[Launchd] = Launchd
      /\ pc[Launchd] # "dead" /\ proc[Launchd] # Launchd
  BY LaunchdIn DEF IInv, LaunchdRuns
<1>5. /\ \A s \in Slots \ {Launchd} : s \in Children(x) => p_parent[s] = x
      /\ \A s \in Slots \ {Launchd} : p_state[s] # "FREE" /\ p_parent[s] = x => s \in Children(x)
  BY <1>1, ChildrenPoint DEF Children
<1>6. \A m \in Pids : pc[m] = "reap" => ta_proc[m] # x /\ proc[m] # Launchd
  BY <1>1, <1>4 DEF IInv, ThreadsOwn, Ending, Owns, SlotsHeld
<1> HIDE DEF x
<1>7. TypeOK'
  <2>1. p_parent' \in [Slots -> Slots \cup {Null}] /\ p_ppid' \in [Slots -> 0 .. MaxPid]
    BY <1>2, <1>4 DEF IInv, TypeOK
  <2> QED BY <1>2, <2>1 DEF IInv, TypeOK, MovesTo, LocalsTyped, Places
<1>8. LaunchdRuns'
  BY <1>1, <1>2, <1>4 DEF IInv, LaunchdRuns, MovesTo
<1>9. PidsUnique'
  BY <1>1, <1>2 DEF IInv, PidsUnique, MovesTo
<1>10. ThreadsOwn'
  BY <1>1, <1>2, <1>3 DEF IInv, ThreadsOwn, MovesTo, Ending, Owns
<1>11. SlotsHeld'
  <2>1. ASSUME NEW c \in Slots \ {Launchd}, p_state[c] # "FREE"
        PROVE  p_parent'[c] # x /\ p_parent'[c] \in {p_parent[c], Launchd}
    BY <1>1, <1>2, <1>5, <2>1
  <2>2. ASSUME NEW m \in Pids, pc'[m] \in Holding
        PROVE  /\ pc[m] \in Holding /\ proc'[m] = proc[m] /\ proc[m] # Launchd
               /\ pc'[m] = "start" => pc[m] = "start"
               /\ m # n => pc'[m] = pc[m]
    BY <1>1, <1>2, <2>2 DEF MovesTo, Holding, IInv, LaunchdRuns, x
  <2>3. ASSUME NEW m \in Pids, pc'[m] \in Holding
        PROVE  /\ proc'[m] \in Slots /\ p_state'[proc'[m]] = "RUNNING"
               /\ \/ pc'[m] # "start" /\ proc'[m] = ta_proc'[m]
                  \/ pc'[p_pid'[proc'[m]]] = "none" /\ Childless(proc[m])'
               /\ pc'[m] = "mark" => Childless(proc[m])'
    BY <1>1, <1>2, <1>3, <2>1, <2>2, <2>3 DEF IInv, SlotsHeld, MovesTo, Holding, Childless, x, Owns
  <2>4. \A m \in Pids : pc'[m] = "reap" =>
           proc'[m] \in Slots /\ p_state'[proc'[m]] = "EXITED" /\ p_parent'[proc'[m]] = ta_proc'[m]
    BY <1>1, <1>2, <1>5, <1>6 DEF IInv, SlotsHeld, MovesTo
  <2> QED BY <1>1, <1>2, <2>2, <2>3, <2>4 DEF IInv, SlotsHeld, MovesTo, Holding
<1>12. ExitedEnds'
  BY <1>1, <1>2, <1>3 DEF IInv, ExitedEnds, MovesTo, Owns
<1>13. Gone'
  BY <1>1, <1>2 DEF IInv, Gone, MovesTo, Ending, Owns
<1>14. ParentAlive'
  <2> SUFFICES ASSUME NEW s \in Slots \ {Launchd}, p_state[s] # "FREE"
               PROVE  /\ p_parent'[s] # Null
                      /\ p_state[p_parent'[s]] = "RUNNING"
                      /\ p_pid[p_parent'[s]] = p_ppid'[s]
                      /\ ~PastReparent(p_parent[s])'
    BY <1>2 DEF ParentAlive
  <2>1. CASE s \in Children(x)
    BY <1>1, <1>2, <1>4, <2>1, LaunchdIn DEF PastReparent, MovesTo
  <2>2. CASE s \notin Children(x)
    BY <1>1, <1>2, <1>3, <1>5, <2>2 DEF IInv, ParentAlive, PastReparent, MovesTo, TypeOK
  <2> QED BY <2>1, <2>2
<1> QED BY <1>7, <1>8, <1>9, <1>10, <1>11, <1>12, <1>13, <1>14 DEF IInv
(* The slot is marked EXITED: its parent may take it from now on.          *)
LEMMA MarkExitedStep ==
    ASSUME IInv, NEW n \in Pids, MarkExited(n)
    PROVE  IInv'
<1> USE DEF slotVars, InUse, Null
<1> DEFINE x == proc[n]
<1>1. /\ pc[n] = "mark" /\ Owns(n) /\ n # Null /\ Null \notin Slots /\ x # Launchd
      /\ x \in Slots /\ p_state[x] = "RUNNING" /\ Childless(x)
      /\ x = ta_proc[n] \/ pc[p_pid[x]] = "none"
  BY LaunchdIn DEF IInv, ThreadsOwn, Ending, LaunchdRuns, SlotsHeld, Holding, MarkExited
<1>2. /\ MovesTo(n, "notify", x) /\ LocalsTyped
      /\ UNCHANGED <<p_pid, p_ppid, p_parent, s_pid_seq, ta_proc, collected>>
      /\ p_state' \in [Slots -> {"FREE", "RUNNING", "EXITED"}]
      /\ \A s \in Slots : p_state'[s] = IF s = x THEN "EXITED" ELSE p_state[s]
  BY <1>1 DEF IInv, TypeOK, MarkExited, Goto, MovesTo, Places, LocalsTyped
<1>3. \A s \in Slots : p_state[s] # "FREE" => p_pid[s] \in Pids
  BY PidIn
<1>4. \A m \in Pids : pc[m] \notin {"none", "dead"} /\ ~Ending(m) /\ m # n => ta_proc[m] # x
  BY <1>1 DEF IInv, ThreadsOwn, Owns
<1>5. \A m \in Pids : pc[m] \in Holding /\ proc[m] = x => m = n
  BY <1>1 DEF IInv, SlotsHeld, Holding
<1> HIDE DEF x
<1>6. TypeOK'
  BY <1>2 DEF IInv, TypeOK, MovesTo, LocalsTyped, Places
<1>7. LaunchdRuns'
  BY <1>1, <1>2, LaunchdIn DEF IInv, LaunchdRuns, MovesTo
<1>8. PidsUnique'
  BY <1>1, <1>2 DEF IInv, PidsUnique, MovesTo
<1>9. ThreadsOwn'
  BY <1>1, <1>2, <1>3, <1>4 DEF IInv, ThreadsOwn, MovesTo, Ending, Owns
<1>10. SlotsHeld'
  BY <1>1, <1>2, <1>3, <1>5 DEF IInv, SlotsHeld, MovesTo, Holding, Childless, Owns
<1>11. ExitedEnds'
  BY <1>1, <1>2, <1>3 DEF IInv, ExitedEnds, MovesTo, Owns
<1>12. Gone'
  BY <1>1, <1>2 DEF IInv, Gone, MovesTo, Ending, Owns
<1>13. ParentAlive'
  BY <1>1, <1>2, <1>3 DEF IInv, ParentAlive, PastReparent, MovesTo, TypeOK, Childless, Owns
<1> QED BY <1>6, <1>7, <1>8, <1>9, <1>10, <1>11, <1>12, <1>13 DEF IInv

(* The signal wakes a sleeping parent at most, and ends an ending thread.  *)
LEMMA ProcSignalStep ==
    ASSUME IInv, NEW n \in Pids, ProcSignal(n)
    PROVE  IInv'
<1> USE DEF slotVars, InUse, Null
<1> DEFINE end == IF proc[n] = ta_proc[n] THEN "dead" ELSE "user"
<1>1. /\ pc[n] = "signal" /\ n # Null /\ Null \notin Slots
      /\ proc[n] # ta_proc[n] => Owns(n)
  BY LaunchdIn DEF IInv, ThreadsOwn, Ending, ProcSignal
<1>2. /\ pc' \in [Pids -> Places]
      /\ \A m \in Pids : \/ m = n /\ pc'[m] = end
                         \/ m # n /\ pc'[m] = pc[m]
                         \/ m # n /\ pc[m] = "asleep" /\ pc'[m] = "scan"
      /\ proc' \in [Pids -> Slots \cup {Null}]
      /\ \A m \in Pids : proc'[m] = IF m = n THEN Null ELSE proc[m]
      /\ LocalsTyped /\ UNCHANGED <<slotVars, ta_proc, collected>>
  <2>1. pc \in [Pids -> Places]
    BY DEF IInv, TypeOK, Places
  <2>2. PICK woken \in {{m \in Pids : /\ target[n] # Null /\ m = p_pid[target[n]]
                                      /\ pc[m] = "asleep"}, {}} :
           pc' = [m \in Pids |-> IF m = n THEN end ELSE IF m \in woken THEN "scan" ELSE pc[m]]
    BY DEF ProcSignal
  <2>3. pc' \in [Pids -> Places]
    BY <2>1, <2>2 DEF Places
  <2>4. \A m \in Pids : \/ m = n /\ pc'[m] = end
                        \/ m # n /\ pc'[m] = pc[m]
                        \/ m # n /\ pc[m] = "asleep" /\ pc'[m] = "scan"
    <3> HIDE DEF end
    <3> QED BY <2>2
  <2> QED BY <2>3, <2>4 DEF IInv, TypeOK, ProcSignal, EndLocals, LocalsTyped
<1>3. \A s \in Slots : p_state[s] # "FREE" => p_pid[s] \in Pids
  BY PidIn
<1>4. n = Launchd => end = "user"
  BY <1>1, LaunchdIn DEF IInv, LaunchdRuns, ThreadsOwn
<1>5. /\ end \in {"dead", "user"}
      /\ end = "dead" <=> proc[n] = ta_proc[n]
  OBVIOUS
<1> HIDE DEF end
<1>6. TypeOK'
  BY <1>2 DEF IInv, TypeOK, LocalsTyped, Places
<1>7. LaunchdRuns'
  BY <1>1, <1>2, <1>4, LaunchdIn DEF IInv, LaunchdRuns
<1>8. PidsUnique'
  BY <1>1, <1>2 DEF IInv, PidsUnique
<1>9. ThreadsOwn'
  BY <1>1, <1>2, <1>3, <1>5 DEF IInv, ThreadsOwn, Ending, Owns
<1>10. SlotsHeld'
  BY <1>1, <1>2, <1>3, <1>5 DEF IInv, SlotsHeld, Holding, Childless
<1>11. ExitedEnds'
  BY <1>1, <1>2, <1>3, <1>5 DEF IInv, ExitedEnds, ThreadsOwn
<1>12. Gone'
  BY <1>1, <1>2, <1>5 DEF IInv, Gone, Ending
<1>13. ParentAlive'
  BY <1>1, <1>2, <1>3, <1>5 DEF IInv, ParentAlive, PastReparent, TypeOK, ThreadsOwn
<1> QED BY <1>6, <1>7, <1>8, <1>9, <1>10, <1>11, <1>12, <1>13 DEF IInv
(* wait4 frees the slot of the child and returns its pid.                  *)
LEMMA WaitReapStep ==
    ASSUME IInv, NEW n \in Pids, WaitReap(n)
    PROVE  IInv'
<1> USE DEF slotVars, InUse, Null
<1> DEFINE x == proc[n]
           k == p_pid[x]
<1>1. /\ pc[n] = "reap" /\ Owns(n) /\ n # Null /\ Null \notin Slots /\ x # Launchd
      /\ x \in Slots /\ p_state[x] = "EXITED" /\ p_parent[x] = ta_proc[n] /\ k \in Pids
  <2>1. pc[n] = "reap" /\ Owns(n) /\ n # Null /\ Null \notin Slots /\ x # Launchd
    BY LaunchdIn DEF IInv, ThreadsOwn, Ending, LaunchdRuns, WaitReap
  <2>2. x \in Slots /\ p_state[x] = "EXITED" /\ p_parent[x] = ta_proc[n]
    BY <2>1 DEF IInv, SlotsHeld
  <2> QED BY <2>1, <2>2, PidIn
<1>2. /\ MovesTo(n, "user", Null) /\ LocalsTyped /\ UNCHANGED <<s_pid_seq, ta_proc>>
      /\ p_state' \in [Slots -> {"FREE", "RUNNING", "EXITED"}]
      /\ p_pid' \in [Slots -> 0 .. MaxPid] /\ p_ppid' \in [Slots -> 0 .. MaxPid]
      /\ p_parent' \in [Slots -> Slots \cup {Null}] /\ collected' \in [Pids -> Nat]
      /\ \A s \in Slots : s # x => /\ p_state'[s] = p_state[s] /\ p_pid'[s] = p_pid[s]
                                   /\ p_ppid'[s] = p_ppid[s] /\ p_parent'[s] = p_parent[s]
      /\ p_state'[x] = "FREE"
      /\ \A m \in Pids : collected'[m] = IF m = k THEN collected[k] + 1 ELSE collected[m]
  <2>1. MovesTo(n, "user", Null) /\ LocalsTyped /\ UNCHANGED <<s_pid_seq, ta_proc>>
    BY DEF IInv, TypeOK, WaitReap, Return, EndLocals, Goto, MovesTo, Places, LocalsTyped
  <2>2. /\ p_state' \in [Slots -> {"FREE", "RUNNING", "EXITED"}] /\ p_state'[x] = "FREE"
        /\ p_pid' \in [Slots -> 0 .. MaxPid] /\ p_ppid' \in [Slots -> 0 .. MaxPid]
        /\ p_parent' \in [Slots -> Slots \cup {Null}]
        /\ \A s \in Slots : s # x => /\ p_state'[s] = p_state[s] /\ p_pid'[s] = p_pid[s]
                                     /\ p_ppid'[s] = p_ppid[s] /\ p_parent'[s] = p_parent[s]
    BY <1>1, BoundsAssumption DEF IInv, TypeOK, WaitReap
  <2>3. /\ collected' \in [Pids -> Nat]
        /\ \A m \in Pids : collected'[m] = IF m = k THEN collected[k] + 1 ELSE collected[m]
    BY <1>1 DEF IInv, TypeOK, WaitReap
  <2> QED BY <2>1, <2>2, <2>3
<1>3. \A s \in Slots : p_state[s] # "FREE" => p_pid[s] \in Pids
  BY PidIn
<1>4. /\ \A s \in Slots : p_state[s] # "FREE" /\ p_pid[s] = k => s = x
      /\ k < s_pid_seq /\ collected[k] = 0 /\ k # n
      /\ pc[k] \in {"none", "dead"} \/ (pc[k] \in {"notify", "signal"} /\ proc[k] = x)
      /\ pc[k] # "none" => ta_proc[k] = x
  <2>1. /\ \A s \in Slots : p_state[s] # "FREE" /\ p_pid[s] = k => s = x
        /\ pc[k] # "none" => ta_proc[k] = x
    BY <1>1 DEF IInv, PidsUnique, ThreadsOwn
  <2>2. k < s_pid_seq
    BY <1>1, PidIn
  <2>3. collected[k] = 0
    BY <1>1 DEF IInv, Gone
  <2>4. pc[k] \in {"none", "dead"} \/ (pc[k] \in {"notify", "signal"} /\ proc[k] = x)
    BY <1>1 DEF IInv, ExitedEnds
  <2> QED BY <1>1, <2>1, <2>2, <2>3, <2>4
<1>5. \A m \in Pids : pc[m] = "reap" /\ m # n => proc[m] # x
  BY <1>1 DEF IInv, SlotsHeld, ThreadsOwn, Ending, Owns
<1>6. \A s \in Slots \ {Launchd} : p_state[s] # "FREE" => p_parent[s] # x
  BY <1>1 DEF IInv, ParentAlive
<1> HIDE DEF x, k
<1>7. TypeOK'
  BY <1>2 DEF IInv, TypeOK, MovesTo, LocalsTyped, Places
<1>8. LaunchdRuns'
  BY <1>1, <1>2, LaunchdIn DEF IInv, LaunchdRuns, MovesTo
<1>9. PidsUnique'
  <2>1. s_pid_seq \in Nat /\ k \in Nat
    BY <1>1, BoundsAssumption DEF IInv, TypeOK, Pids
  <2>2. \A m \in Pids : m >= s_pid_seq => m # k /\ m # n
    BY <1>1, <1>4, <2>1 DEF IInv, PidsUnique
  <2>3. \A s \in Slots : p_state'[s] # "FREE" => p_state[s] # "FREE" /\ p_pid'[s] = p_pid[s]
    BY <1>2
  <2> QED BY <1>2, <2>2, <2>3 DEF IInv, PidsUnique, MovesTo
<1>10. ThreadsOwn'
  BY <1>1, <1>2, <1>3 DEF IInv, ThreadsOwn, MovesTo, Ending, Owns
<1>11. SlotsHeld'
  BY <1>1, <1>2, <1>3, <1>5 DEF IInv, SlotsHeld, MovesTo, Holding, Childless
<1>12. ExitedEnds'
  BY <1>1, <1>2, <1>3 DEF IInv, ExitedEnds, MovesTo, Owns
<1>13. Gone'
  BY <1>1, <1>2, <1>4 DEF IInv, Gone, MovesTo, Ending, Owns
<1>14. ParentAlive'
  BY <1>1, <1>2, <1>3, <1>6 DEF IInv, ParentAlive, PastReparent, MovesTo, TypeOK
<1> QED BY <1>7, <1>8, <1>9, <1>10, <1>11, <1>12, <1>13, <1>14 DEF IInv

(* fork and spawn: the new process takes a free slot and a fresh pid, and  *)
(* its parent is running.                                                  *)
LEMMA ProcCreateStep ==
    ASSUME IInv, NEW n \in Pids, pc[n] = "user", NEW par \in {ta_proc[n], Launchd},
           ProcCreate(n, par)
    PROVE  IInv'
<1> USE DEF slotVars, InUse, Null
<1> DEFINE x == FreeSlot
           k == s_pid_seq
<1>1. /\ Owns(n) /\ n # Null /\ Null \notin Slots /\ proc[n] = Null
      /\ x \in Slots /\ p_state[x] = "FREE" /\ x # Launchd /\ k \in Pids
      /\ Launchd \in Slots /\ Launchd \in Pids
  <2>1. Owns(n) /\ n # Null /\ Null \notin Slots /\ proc[n] = Null
    BY LaunchdIn DEF IInv, ThreadsOwn, Ending
  <2>2. x \in Slots /\ p_state[x] = "FREE"
    BY FreeSlotIn DEF ProcCreate
  <2>3. x # Launchd
    BY <2>2 DEF IInv, LaunchdRuns
  <2>4. k \in Pids
    BY BoundsAssumption DEF IInv, TypeOK, ProcCreate, Pids
  <2> QED BY <2>1, <2>2, <2>3, <2>4, LaunchdIn
<1>2. par \in Slots /\ p_state[par] = "RUNNING" /\ par # x /\ p_pid[par] \in Pids
  <2>1. par \in Slots /\ p_state[par] = "RUNNING"
    BY <1>1 DEF IInv, LaunchdRuns, Owns
  <2> QED BY <1>1, <2>1, PidIn
<1>3. /\ MovesTo(n, "start", x) /\ LocalsTyped /\ UNCHANGED <<ta_proc, collected>>
      /\ p_state' \in [Slots -> {"FREE", "RUNNING", "EXITED"}]
      /\ p_pid' \in [Slots -> 0 .. MaxPid] /\ p_ppid' \in [Slots -> 0 .. MaxPid]
      /\ p_parent' \in [Slots -> Slots \cup {Null}] /\ s_pid_seq' \in 2 .. MaxPid + 1
      /\ \A s \in Slots : s # x => /\ p_state'[s] = p_state[s] /\ p_pid'[s] = p_pid[s]
                                   /\ p_ppid'[s] = p_ppid[s] /\ p_parent'[s] = p_parent[s]
      /\ p_state'[x] = "RUNNING" /\ p_pid'[x] = k /\ p_parent'[x] = par
      /\ p_ppid'[x] = p_pid[par] /\ s_pid_seq' = k + 1
  <2> HIDE DEF x
  <2>1. MovesTo(n, "start", x) /\ LocalsTyped /\ UNCHANGED <<ta_proc, collected>>
    BY <1>1 DEF IInv, TypeOK, ProcCreate, Goto, MovesTo, Places, LocalsTyped, x
  <2>2. /\ p_state' = [p_state EXCEPT ![x] = "RUNNING"] /\ p_pid' = [p_pid EXCEPT ![x] = k]
        /\ p_ppid' = [p_ppid EXCEPT ![x] = p_pid[par]] /\ p_parent' = [p_parent EXCEPT ![x] = par]
        /\ s_pid_seq' = s_pid_seq + 1 /\ s_pid_seq <= MaxPid
    BY DEF ProcCreate, x
  <2>3. k \in 0 .. MaxPid /\ p_pid[par] \in 0 .. MaxPid /\ s_pid_seq' \in 2 .. MaxPid + 1
    BY <1>1, <1>2, <2>2, BoundsAssumption DEF IInv, TypeOK, Pids
  <2> QED BY <1>1, <1>2, <2>1, <2>2, <2>3 DEF IInv, TypeOK
<1>4. /\ \A s \in Slots : p_state[s] # "FREE" => p_pid[s] \in Pids /\ p_pid[s] # k
      /\ pc[k] = "none" /\ collected[k] = 0 /\ k # n /\ k # Launchd
      /\ \A m \in Pids : m >= s_pid_seq' => m >= s_pid_seq /\ m # k
      /\ \A s \in Slots : p_state[s] # "FREE" => p_pid[s] \in 1 .. s_pid_seq' - 1
      /\ k \in 1 .. s_pid_seq' - 1
  <2>1. k \in Nat /\ k \in Pids /\ MaxPid \in Nat /\ s_pid_seq' = k + 1
    BY <1>1, <1>3, BoundsAssumption DEF IInv, TypeOK, Pids
  <2>2. \A s \in Slots : p_state[s] # "FREE" =>
           p_pid[s] \in Pids /\ p_pid[s] < k /\ p_pid[s] \in 1 .. k - 1
    BY PidIn DEF IInv, PidsUnique
  <2>3. pc[k] = "none" /\ collected[k] = 0
    BY <2>1 DEF IInv, PidsUnique
  <2>4. k # n /\ k # Launchd
    BY <2>3, LaunchdIn DEF IInv, LaunchdRuns
  <2>5. \A m \in Pids : m >= s_pid_seq' => m >= s_pid_seq /\ m # k
    BY <2>1 DEF Pids
  <2>6. \A s \in Slots : p_state[s] # "FREE" => p_pid[s] \in 1 .. s_pid_seq' - 1
    BY <2>1, <2>2
  <2>7. k \in 1 .. s_pid_seq' - 1
    BY <2>1 DEF Pids
  <2>8. \A s \in Slots : p_state[s] # "FREE" => p_pid[s] \in Pids /\ p_pid[s] # k
    BY <2>1, <2>2 DEF Pids
  <2> QED BY <2>3, <2>4, <2>5, <2>6, <2>7, <2>8
<1>5. \A m \in Pids : pc[m] \in Holding => proc[m] # par /\ proc[m] # x
  <2>1. \A m \in Pids : pc[m] \in Holding =>
           /\ Owns(m) /\ proc[m] # Launchd /\ p_state[proc[m]] = "RUNNING"
           /\ proc[m] = ta_proc[m] \/ pc[p_pid[proc[m]]] = "none"
    BY DEF IInv, ThreadsOwn, Ending, Holding, SlotsHeld, LaunchdRuns
  <2> QED BY <1>1, <2>1 DEF Owns, Holding
<1>6. ~PastReparent(par)
  <2>1. CASE par = Launchd
    BY <2>1, <1>1 DEF IInv, LaunchdRuns, PastReparent
  <2>2. CASE par = ta_proc[n]
    BY <2>2, <1>1 DEF Owns, PastReparent
  <2> QED BY <2>1, <2>2
<1> HIDE DEF x, k
<1>7. TypeOK'
  BY <1>3 DEF IInv, TypeOK, MovesTo, LocalsTyped, Places
<1>8. LaunchdRuns'
  BY <1>1, <1>3, LaunchdIn DEF IInv, LaunchdRuns, MovesTo
<1>9. PidsUnique'
  <2>1. \A s \in Slots : p_state'[s] # "FREE" => p_pid'[s] \in 1 .. s_pid_seq' - 1
    BY <1>3, <1>4
  <2>2. \A s, t \in Slots :
           p_state'[s] # "FREE" /\ p_state'[t] # "FREE" /\ p_pid'[s] = p_pid'[t] => s = t
    BY <1>1, <1>3, <1>4 DEF IInv, PidsUnique
  <2>3. \A m \in Pids : m >= s_pid_seq' => pc'[m] = "none" /\ collected'[m] = 0
    BY <1>1, <1>3, <1>4 DEF IInv, PidsUnique, MovesTo
  <2> QED BY <2>1, <2>2, <2>3 DEF PidsUnique
<1>10. ThreadsOwn'
  <2>1. \A s \in Slots : p_state'[s] # "FREE" /\ pc'[p_pid'[s]] # "none" => ta_proc'[p_pid'[s]] = s
    BY <1>1, <1>3, <1>4 DEF IInv, ThreadsOwn, MovesTo
  <2>2. ASSUME NEW m \in Pids, pc'[m] \notin {"none", "dead"}, ~Ending(m)'
        PROVE  Owns(m)'
    <3>1. Owns(m)
      BY <1>1, <1>3, <2>2 DEF IInv, ThreadsOwn, MovesTo, Ending
    <3>2. ta_proc[m] # x
      BY <1>1, <3>1 DEF Owns
    <3> QED BY <1>3, <3>1, <3>2 DEF Owns
  <2>3. \A m \in Pids :
           pc'[m] \in {"none", "user", "scan", "recheck", "asleep", "dead"} => proc'[m] = Null
    BY <1>1, <1>3 DEF IInv, ThreadsOwn, MovesTo
  <2> QED BY <2>1, <2>2, <2>3 DEF ThreadsOwn
<1>11. SlotsHeld'
  <2>1. ASSUME NEW c \in Slots \ {Launchd}, p_state'[c] # "FREE"
        PROVE  /\ p_parent'[c] # x
               /\ p_parent'[c] = par \/ (p_state[c] # "FREE" /\ p_parent'[c] = p_parent[c])
    BY <1>1, <1>2, <1>3, <2>1 DEF IInv, ParentAlive
  <2>2. ASSUME NEW m \in Pids, pc'[m] \in Holding
        PROVE  /\ proc'[m] \in Slots /\ p_state'[proc'[m]] = "RUNNING"
               /\ \/ pc'[m] # "start" /\ proc'[m] = ta_proc'[m]
                  \/ pc'[p_pid'[proc'[m]]] = "none" /\ Childless(proc[m])'
               /\ pc'[m] = "mark" => Childless(proc[m])'
    <3>1. CASE m = n
      BY <1>1, <1>3, <1>4, <2>1, <3>1 DEF MovesTo, Childless
    <3>2. CASE m # n
      <4>1. /\ pc'[m] = pc[m] /\ proc'[m] = proc[m] /\ ta_proc'[m] = ta_proc[m]
            /\ pc[m] \in Holding
        BY <1>3, <2>2, <3>2 DEF MovesTo
      <4>2. /\ proc[m] \in Slots /\ p_state[proc[m]] = "RUNNING"
            /\ proc[m] # par /\ proc[m] # x
            /\ p_state'[proc[m]] = "RUNNING" /\ p_pid'[proc[m]] = p_pid[proc[m]]
        BY <1>3, <1>5, <4>1 DEF IInv, SlotsHeld
      <4>3. p_pid[proc[m]] \in Pids /\ (pc[p_pid[proc[m]]] = "none" => p_pid[proc[m]] # n)
        BY <1>4, <4>2
      <4>4. pc[p_pid[proc[m]]] = "none" => pc'[p_pid'[proc'[m]]] = "none"
        BY <1>3, <4>1, <4>2, <4>3 DEF MovesTo
      <4>5. Childless(proc[m]) => Childless(proc[m])'
        BY <2>1, <4>1, <4>2 DEF Childless
      <4>6. /\ \/ pc[m] # "start" /\ proc[m] = ta_proc[m]
               \/ pc[p_pid[proc[m]]] = "none" /\ Childless(proc[m])
            /\ pc[m] = "mark" => Childless(proc[m])
        BY <4>1 DEF IInv, SlotsHeld
      <4> QED BY <4>1, <4>2, <4>4, <4>5, <4>6
    <3> QED BY <3>1, <3>2
  <2>3. \A m, o \in Pids :
           pc'[m] \in Holding /\ pc'[o] \in Holding /\ proc'[m] = proc'[o] => m = o
    BY <1>3, <1>5 DEF IInv, SlotsHeld, MovesTo
  <2>4. \A m \in Pids : /\ pc'[m] = "notify" => proc'[m] \in Slots
                        /\ pc'[m] = "reap" => /\ proc'[m] \in Slots /\ p_state'[proc'[m]] = "EXITED"
                                              /\ p_parent'[proc'[m]] = ta_proc'[m]
    BY <1>1, <1>3 DEF IInv, SlotsHeld, MovesTo
  <2> QED BY <2>2, <2>3, <2>4 DEF SlotsHeld
<1>12. ExitedEnds'
  BY <1>1, <1>3, <1>4 DEF IInv, ExitedEnds, MovesTo, Owns
<1>13. Gone'
  BY <1>1, <1>3, <1>4 DEF IInv, Gone, MovesTo, Ending, Owns
<1>14. ParentAlive'
  BY <1>1, <1>2, <1>3, <1>4, <1>6 DEF IInv, ParentAlive, PastReparent, MovesTo, TypeOK
<1> QED BY <1>7, <1>8, <1>9, <1>10, <1>11, <1>12, <1>13, <1>14 DEF IInv

-----------------------------------------------------------------------------
(* The steps together.                                                     *)

(* The system calls that touch no slot: wait4 up to its find, and kill.    *)
LEMMA QuietStep ==
    ASSUME IInv, NEW n \in Pids,
           \/ \E s \in Slots : Kill(n, s)
           \/ \E pid \in Pids \cup {AnyPid} : Wait4(n, pid)
           \/ WaitNone(n) \/ WaitSleep(n) \/ WaitTimeout(n)
    PROVE  IInv'
<1>1. /\ pc \in [Pids -> Places] /\ proc \in [Pids -> Slots \cup {Null}]
      /\ target \in [Pids -> Slots \cup {Null}] /\ want \in [Pids -> Pids \cup {AnyPid}]
  BY DEF IInv, TypeOK, Places
<1>2. pc[n] \in {"user", "scan", "recheck", "asleep"} => proc[n] = Null
  BY DEF IInv, ThreadsOwn
<1>3. Null \in Slots \cup {Null} /\ AnyPid \in Pids \cup {AnyPid}
  OBVIOUS
<1>4. ASSUME NEW s \in Slots, Kill(n, s) PROVE IInv'
  <2>1. MovesTo(n, "signal", Null)
    BY <1>1, <1>2, <1>4 DEF Kill, Goto, MovesTo, Places
  <2>2. LocalsTyped
    BY <1>1, <1>4 DEF Kill, LocalsTyped
  <2> QED BY <1>4, <2>1, <2>2, WaitingStep DEF Kill
<1>5. ASSUME NEW pid \in Pids \cup {AnyPid}, Wait4(n, pid) PROVE IInv'
  <2>1. MovesTo(n, "scan", Null)
    BY <1>1, <1>2, <1>5 DEF Wait4, Goto, MovesTo, Places
  <2>2. LocalsTyped
    BY <1>1, <1>5 DEF Wait4, LocalsTyped
  <2> QED BY <1>5, <2>1, <2>2, WaitingStep DEF Wait4
<1>6. ASSUME Return(n) PROVE MovesTo(n, "user", Null) /\ LocalsTyped
  BY <1>1, <1>3, <1>6 DEF Return, Goto, EndLocals, MovesTo, Places, LocalsTyped
<1>7. CASE WaitNone(n)
  <2>1. \/ MovesTo(n, "user", Null) /\ LocalsTyped
        \/ MovesTo(n, "recheck", Null) /\ LocalsTyped
    <3>1. CASE Return(n)
      BY <1>6, <3>1
    <3>2. CASE Goto(n, "recheck") /\ UNCHANGED locals
      BY <1>1, <1>2, <1>7, <3>2 DEF WaitNone, Goto, MovesTo, Places, LocalsTyped, locals
    <3> QED BY <1>7, <3>1, <3>2 DEF WaitNone
  <2> QED BY <1>7, <2>1, WaitingStep DEF WaitNone
<1>8. CASE WaitSleep(n)
  <2>1. \/ MovesTo(n, "user", Null) /\ LocalsTyped
        \/ MovesTo(n, "asleep", Null) /\ LocalsTyped
    <3>1. CASE Return(n)
      BY <1>6, <3>1
    <3>2. CASE Goto(n, "asleep") /\ UNCHANGED locals
      BY <1>1, <1>2, <1>8, <3>2 DEF WaitSleep, Goto, MovesTo, Places, LocalsTyped, locals
    <3> QED BY <1>8, <3>1, <3>2 DEF WaitSleep
  <2> QED BY <1>8, <2>1, WaitingStep DEF WaitSleep
<1>9. CASE WaitTimeout(n)
  <2>1. MovesTo(n, "scan", Null)
    BY <1>1, <1>2, <1>9 DEF WaitTimeout, Goto, MovesTo, Places
  <2>2. LocalsTyped
    BY <1>1, <1>9 DEF WaitTimeout, LocalsTyped
  <2> QED BY <1>9, <2>1, <2>2, WaitingStep DEF WaitTimeout
<1> QED BY <1>4, <1>5, <1>7, <1>8, <1>9

(* At the start launchd runs alone.                                        *)
LEMMA InitInv ==
    Init => IInv
<1> SUFFICES ASSUME Init PROVE IInv
  OBVIOUS
<1> USE LaunchdIn DEF Init, InUse, Null
<1>1. TypeOK
  BY BoundsAssumption DEF TypeOK, AnyPid, Pids
<1>2. LaunchdRuns
  BY DEF LaunchdRuns
<1>3. PidsUnique
  BY BoundsAssumption DEF PidsUnique, Pids
<1>4. ThreadsOwn
  BY DEF ThreadsOwn, Owns, Ending
<1>5. SlotsHeld /\ ExitedEnds /\ Gone /\ ParentAlive
  BY DEF SlotsHeld, Holding, ExitedEnds, Gone, ParentAlive
<1> QED BY <1>1, <1>2, <1>3, <1>4, <1>5 DEF IInv

(* Every step of every thread keeps the invariant.                         *)
LEMMA NextInv ==
    IInv /\ [Next]_vars => IInv'
<1> SUFFICES ASSUME IInv, [Next]_vars PROVE IInv'
  OBVIOUS
<1>1. CASE UNCHANGED vars
  BY <1>1 DEF vars, slotVars, IInv, TypeOK, LaunchdRuns, PidsUnique, ThreadsOwn, SlotsHeld,
     ExitedEnds, Gone, ParentAlive, PastReparent, Owns, Ending, Childless, InUse
<1>2. ASSUME NEW n \in Pids, Call(n) PROVE IInv'
  <2>1. CASE Fork(n)
    BY <2>1, ProcCreateStep DEF Fork
  <2>2. CASE Spawn(n)
    BY <2>2, ProcCreateStep DEF Spawn
  <2> QED BY <1>2, <2>1, <2>2, ExitCurrentStep, QuietStep DEF Call
<1>3. ASSUME NEW n \in Pids, KernelStep(n) PROVE IInv'
  BY <1>3, StartThreadStep, NoThreadStep, ReparentStep, MarkExitedStep, ReadParentStep,
     ProcSignalStep, WaitFindStep, WaitReapStep, QuietStep DEF KernelStep
<1> QED BY <1>1, <1>2, <1>3 DEF Next

-----------------------------------------------------------------------------
(* The invariant holds in every reachable state.                           *)
THEOREM Invariance ==
    Spec => []IInv
BY InitInv, NextInv, PTL DEF Spec

(* Every variable keeps its type: no slot, pid or thread outside its table *)
(* is ever stored by fork, exit, wait4 or kill.                            *)
THEOREM TypeCorrect ==
    Spec => []TypeOK
<1>1. IInv => TypeOK
  BY DEF IInv
<1> QED BY <1>1, Invariance, PTL

(* A process has a live parent that has not yet handed its children over,  *)
(* through every race of exit, reparenting, fork and wait4.                *)
THEOREM ParentNeverLost ==
    Spec => []ParentAlive
<1>1. IInv => ParentAlive
  BY DEF IInv
<1> QED BY <1>1, Invariance, PTL

(* wait4 returns a process at most once, and only after its exit.          *)
THEOREM ReapedOnce ==
    Spec => []CollectedOnce
<1>1. IInv => CollectedOnce
  BY DEF IInv, TypeOK, Gone, Ending, CollectedOnce
<1> QED BY <1>1, Invariance, PTL
=============================================================================
