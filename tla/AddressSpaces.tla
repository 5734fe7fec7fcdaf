--------------------------- MODULE AddressSpaces ---------------------------
(***************************************************************************)
(* What user memory promises to a process: a private page-wise memory.     *)
(* fork gives the child a copy, and no step of one process changes a page  *)
(* of another.  CopyOnWrite implements it with shared frames.              *)
(***************************************************************************)
CONSTANTS
    Spaces,    \* address spaces (PML4 slots)
    Boot,      \* the one that exists at the start
    Pages,     \* user pages
    Stack,     \* those in the demand-zero stack window
    Values,    \* page contents
    Zero,      \* the contents of a fresh page
    Unmapped   \* what an unmapped page holds

VARIABLES
    live,      \* address spaces in use
    loading,   \* those an executable is being loaded into
    space      \* space[s][p]: contents of page p

vars == <<live, loading, space>>

Nothing == [p \in Pages |-> Unmapped]

Init ==
    /\ live = {Boot}
    /\ loading = {Boot}
    /\ space = [s \in Spaces |-> Nothing]

(* A process gets its pages from the loader, or zeroed: it never sees what *)
(* another left in a frame.                                                *)
Fill(s, p, v) ==
    /\ space[s][p] = Unmapped
    /\ s \in loading \/ v = Zero
    /\ space' = [space EXCEPT ![s][p] = v]
    /\ UNCHANGED <<live, loading>>

Store(s, p, v) ==
    /\ space[s][p] # Unmapped
    /\ space' = [space EXCEPT ![s][p] = v]
    /\ UNCHANGED <<live, loading>>

(* A copy-on-write fault in the stack window that finds no memory is       *)
(* answered like a fault on a missing page: with a page of zeros.          *)
Reset(s, p) == p \in Stack /\ Store(s, p, Zero)

Unmap(s, P) ==
    /\ space' = [space EXCEPT ![s] = [p \in Pages |-> IF p \in P THEN Unmapped ELSE @[p]]]
    /\ UNCHANGED <<live, loading>>

(* The child gets a copy of the pages for which there was memory.          *)
Fork(s, c, got) ==
    /\ c \notin live
    /\ live' = live \cup {c}
    /\ UNCHANGED loading
    /\ space' = [space EXCEPT ![c] =
                    [p \in Pages |-> IF p \in got THEN space[s][p] ELSE Unmapped]]

Exec(s) ==
    /\ loading' = loading \cup {s}
    /\ space' = [space EXCEPT ![s] = Nothing]
    /\ UNCHANGED live

Start(s) == loading' = loading \ {s} /\ UNCHANGED <<live, space>>

Exit(s) ==
    /\ live' = live \ {s}
    /\ loading' = loading \ {s}
    /\ space' = [space EXCEPT ![s] = Nothing]

Next ==
    \E s \in live :
        \/ \E p \in Pages, v \in Values : Fill(s, p, v) \/ Store(s, p, v)
        \/ \E p \in Pages : Reset(s, p)
        \/ \E P \in SUBSET Pages : Unmap(s, P)
        \/ \E c \in Spaces, got \in SUBSET Pages : Fork(s, c, got)
        \/ Exec(s) \/ Start(s) \/ Exit(s)

Spec == Init /\ [][Next]_vars
=============================================================================
