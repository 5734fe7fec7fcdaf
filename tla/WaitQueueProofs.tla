-------------------------- MODULE WaitQueueProofs --------------------------
(***************************************************************************)
(* Wait queues and the sleep list for any number of threads, queues and    *)
(* CPUs: a blocked thread can always be found by the wake-up that is meant *)
(* for it, and the linked lists implement first come, first served.        *)
(***************************************************************************)
EXTENDS WaitQueue, TLAPS, SequenceTheorems, FiniteSetTheorems, WellFoundedInduction

-----------------------------------------------------------------------------
(* Linked lists.                                                           *)

Injective(s) == \A i, j \in 1 .. Len(s) : s[i] = s[j] => i = j

(* The links of next chain the threads of s from p to Null.                *)
Chained(next, p, s) ==
    /\ s \in Seq(Threads)
    /\ Injective(s)
    /\ p = First(s)
    /\ \A i \in 1 .. Len(s) : next[s[i]] = IF i = Len(s) THEN Null ELSE s[i + 1]

(* The links of next lead from each element of s to the following one.     *)
Path(next, s) == \A i \in 1 .. Len(s) - 1 : next[s[i]] = s[i + 1]

(* A non-empty set of numbers has a least one.                             *)
LEMMA LeastNumber ==
    ASSUME NEW S \in SUBSET Nat, S # {}
    PROVE  \E x \in S : \A y \in S : x <= y
<1> DEFINE R == OpToRel(<, Nat)
<1>1. \A x, y \in Nat : y < x => <<y, x>> \in R
  BY DEF OpToRel
<1>2. IsWellFoundedOn(R, Nat)
  BY NatLessThanWellFounded
<1> HIDE DEF R
<1>3. PICK x \in S : \A y \in S : ~ (<<y, x>> \in R)
  BY <1>2, WFMin
<1>4. ASSUME NEW y \in S PROVE x <= y
  <2>1. x \in Nat /\ y \in Nat
    OBVIOUS
  <2>2. ~(y < x)
    BY <1>1, <1>3, <2>1
  <2> QED BY <2>1, <2>2
<1> QED BY <1>4

(* A list without repetitions is no longer than there are threads.         *)
LEMMA ListLen ==
    ASSUME NEW s \in Seq(Threads), Injective(s)
    PROVE  Len(s) \in Nat /\ Len(s) <= Cardinality(Threads) /\ Cardinality(Threads) \in Nat
           /\ s \in SeqOf(Threads, Cardinality(Threads))
<1>1. s \in [1 .. Len(s) -> Threads] /\ Len(s) \in Nat
  BY LenProperties
<1>2. s \in Injection(1 .. Len(s), Threads)
  BY <1>1 DEF Injection, IsInjective, Injective
<1>3. Cardinality(1 .. Len(s)) <= Cardinality(Threads)
  BY <1>2, FS_Injection, ThreadAssumption
<1>4. Cardinality(1 .. Len(s)) = Len(s)
  <2>1. 1 \in Int /\ Len(s) \in Int
    BY <1>1
  <2>2. Cardinality(1 .. Len(s)) = IF 1 > Len(s) THEN 0 ELSE Len(s) - 1 + 1
    BY <2>1, FS_Interval
  <2> QED BY <1>1, <2>2
<1>5. Cardinality(Threads) \in Nat
  BY FS_CardinalityType, ThreadAssumption
<1>6. s \in SeqOf(Threads, Cardinality(Threads))
  <2>1. Len(s) \in 0 .. Cardinality(Threads)
    BY <1>1, <1>3, <1>4, <1>5
  <2> QED BY <1>1, <2>1 DEF SeqOf
<1> QED BY <1>1, <1>3, <1>4, <1>5, <1>6

(* What is in SeqOf is a sequence.                                         *)
LEMMA SeqOfSeq ==
    ASSUME NEW S, NEW n \in Nat, NEW r \in SeqOf(S, n)
    PROVE  r \in Seq(S) /\ Len(r) \in 0 .. n /\ DOMAIN r = 1 .. Len(r)
<1>1. PICK m \in 0 .. n : r \in [1 .. m -> S]
  BY DEF SeqOf
<1>2. r \in Seq(S) /\ Len(r) = m
  BY <1>1
<1> QED BY <1>1, <1>2

(* Two walks along the same links from the same thread agree as far as     *)
(* both go.                                                                *)
LEMMA WalksAgree ==
    ASSUME NEW next, NEW r \in Seq(Threads), NEW s \in Seq(Threads),
           Len(r) >= 1, Len(s) >= 1, r[1] = s[1],
           Path(next, r), Path(next, s)
    PROVE  \A i \in 1 .. Len(r) : i <= Len(s) => r[i] = s[i]
<1> DEFINE S == {i \in 1 .. Len(r) : i <= Len(s) /\ r[i] # s[i]}
<1>1. Len(r) \in Nat /\ Len(s) \in Nat
  OBVIOUS
<1>2. SUFFICES ASSUME S # {} PROVE FALSE
  OBVIOUS
<1>3. S \in SUBSET Nat
  BY <1>1
<1> HIDE DEF S
<1>4. PICK x \in S : \A y \in S : x <= y
  BY <1>2, <1>3, LeastNumber
<1>5. x \in 1 .. Len(r) /\ x <= Len(s) /\ r[x] # s[x] /\ x # 1
  BY <1>4 DEF S
<1>6. x - 1 \in 1 .. Len(r) - 1 /\ x - 1 \in 1 .. Len(s) - 1 /\ x - 1 \in Nat
  BY <1>1, <1>5
<1>7. x - 1 \notin S
  BY <1>3, <1>4, <1>5, <1>6
<1>8. r[x - 1] = s[x - 1]
  BY <1>1, <1>5, <1>6, <1>7 DEF S
<1>9. next[r[x - 1]] = r[x - 1 + 1] /\ next[s[x - 1]] = s[x - 1 + 1]
  BY <1>6 DEF Path
<1>10. x - 1 + 1 = x
  BY <1>5
<1> QED BY <1>5, <1>8, <1>9, <1>10

(* Following the links of a chain gives the chain.                         *)
LEMMA ListIs ==
    ASSUME NEW next, NEW p, NEW s, Chained(next, p, s)
    PROVE  ListFrom(next, p) = s
<1>0. s \in Seq(Threads)
  BY DEF Chained
<1>d. DOMAIN s = 1 .. Len(s)
  BY <1>0
<1>1. /\ Injective(s) /\ p = First(s) /\ Len(s) \in Nat
      /\ \A i \in 1 .. Len(s) : s[i] \in Threads
      /\ \A i \in 1 .. Len(s) : next[s[i]] = IF i = Len(s) THEN Null ELSE s[i + 1]
  BY <1>0 DEF Chained
<1>2. CASE s = <<>>
  BY <1>1, <1>2 DEF ListFrom, First
<1>3. CASE s # <<>>
  <2> DEFINE N == Cardinality(Threads)
             Walk(r) == /\ r # <<>> /\ r[1] = p
                        /\ IsInjective(r)
                        /\ \A i \in 1 .. Len(r) - 1 : next[r[i]] = r[i + 1]
                        /\ next[Last(r)] \in {Null} \cup ToSet(r)
  <2>1. Len(s) >= 1 /\ p = s[1] /\ p \in Threads /\ p # Null
    BY <1>0, <1>1, <1>3, ThreadAssumption DEF First
  <2>2. ListFrom(next, p) = CHOOSE r \in SeqOf(Threads, N) : Walk(r)
    BY <2>1 DEF ListFrom
  <2>3. s \in SeqOf(Threads, N)
    BY <1>0, <1>1, ListLen
  <2>4. Walk(s)
    <3>1. \A i \in 1 .. Len(s) - 1 : next[s[i]] = s[i + 1]
      BY <1>1
    <3>2. next[s[Len(s)]] = Null
      BY <1>1, <2>1
    <3>3. IsInjective(s)
      BY <1>1, <1>d DEF IsInjective, Injective
    <3> QED BY <1>3, <2>1, <3>1, <3>2, <3>3 DEF Last
  <2>5. ASSUME NEW r \in SeqOf(Threads, N), Walk(r) PROVE r = s
    <3>0. r \in Seq(Threads) /\ DOMAIN r = 1 .. Len(r)
      BY SeqOfSeq, FS_CardinalityType, ThreadAssumption
    <3>1. Len(r) \in Nat /\ \A i \in 1 .. Len(r) : r[i] \in Threads
      BY <3>0
    <3>2. /\ r # <<>> /\ r[1] = s[1] /\ next[r[Len(r)]] \in {Null} \cup ToSet(r)
          /\ \A i \in 1 .. Len(r) - 1 : next[r[i]] = r[i + 1]
      BY <2>1, <2>5 DEF Last
    <3>3. Len(r) >= 1
      BY <3>0, <3>2
    <3>4. \A i \in 1 .. Len(s) - 1 : next[s[i]] = s[i + 1]
      BY <1>1
    <3>5. \A i \in 1 .. Len(r) : i <= Len(s) => r[i] = s[i]
      <4>1. r \in Seq(Threads) /\ s \in Seq(Threads) /\ Len(r) >= 1 /\ Len(s) >= 1
        BY <1>0, <2>1, <3>0, <3>3
      <4>2. r[1] = s[1] /\ Path(next, r) /\ Path(next, s)
        BY <3>2, <3>4 DEF Path
      <4> QED BY <4>1, <4>2, WalksAgree
    <3>6. ~ (Len(s) < Len(r))
      <4>1. SUFFICES ASSUME Len(s) < Len(r) PROVE FALSE
        OBVIOUS
      <4>2. Len(s) \in 1 .. Len(r) - 1 /\ Len(s) \in 1 .. Len(s) /\ Len(s) + 1 \in 1 .. Len(r)
        BY <1>1, <2>1, <3>1, <4>1
      <4>3. r[Len(s)] = s[Len(s)] /\ next[r[Len(s)]] = r[Len(s) + 1]
        BY <3>2, <3>5, <4>2
      <4>4. next[s[Len(s)]] = Null /\ r[Len(s) + 1] \in Threads
        BY <1>1, <3>1, <4>2
      <4> QED BY <4>3, <4>4, ThreadAssumption
    <3>7. ~ (Len(r) < Len(s))
      <4>1. SUFFICES ASSUME Len(r) < Len(s) PROVE FALSE
        OBVIOUS
      <4>2. Len(r) \in 1 .. Len(r) /\ Len(r) \in 1 .. Len(s) /\ Len(r) + 1 \in 1 .. Len(s)
        BY <1>1, <3>1, <3>3, <4>1
      <4>3. r[Len(r)] = s[Len(r)] /\ next[s[Len(r)]] = s[Len(r) + 1]
        BY <1>1, <3>5, <4>1, <4>2
      <4>4. s[Len(r) + 1] \in Threads
        BY <1>1, <4>2
      <4>5. s[Len(r) + 1] \in ToSet(r)
        BY <3>2, <4>3, <4>4, ThreadAssumption
      <4>6. PICK i \in 1 .. Len(r) : s[Len(r) + 1] = r[i]
        BY <3>0, <4>5 DEF ToSet
      <4>7. i \in 1 .. Len(s) /\ r[i] = s[i]
        BY <1>1, <3>1, <3>5, <4>1
      <4>8. i = Len(r) + 1
        BY <1>1, <4>2, <4>6, <4>7 DEF Injective
      <4> QED BY <3>1, <4>6, <4>8
    <3>8. Len(r) = Len(s)
      BY <1>1, <3>1, <3>6, <3>7
    <3>9. \A i \in 1 .. Len(s) : r[i] = s[i]
      BY <1>1, <3>5, <3>8
    <3> QED BY <1>0, <3>0, <3>8, <3>9, SeqEqual
  <2> HIDE DEF Walk, N
  <2> QED BY <2>2, <2>3, <2>4, <2>5
<1> QED BY <1>2, <1>3
-----------------------------------------------------------------------------
(* Sequences of threads.                                                   *)

In(t, s) == \E i \in 1 .. Len(s) : s[i] = t
Final(s) == IF s = <<>> THEN Null ELSE s[Len(s)]

(* r has the elements of s that are in S, in the order of s.               *)
Selects(s, S, r) ==
    /\ ToSet(r) = ToSet(s) \cap S
    /\ \A i, j \in DOMAIN r : i < j =>
          \E k, l \in DOMAIN s : k < l /\ s[k] = r[i] /\ s[l] = r[j]

(* ToSet in terms of positions.                                            *)
LEMMA ToSetIn ==
    ASSUME NEW S, NEW s \in Seq(S)
    PROVE  \A t : t \in ToSet(s) <=> In(t, s)
BY DEF ToSet, In

(* There is such an r for every s: otherwise take a shortest s without     *)
(* one, and look at it without its last element.                           *)
LEMMA SelectionExists ==
    ASSUME NEW S, NEW s \in Seq(Threads)
    PROVE  \E r \in SeqOf(S, Len(s)) : Selects(s, S, r)
<1> DEFINE Bad == {n \in Nat : \E u \in Seq(Threads) :
                      Len(u) = n /\ ~ \E r \in SeqOf(S, n) : Selects(u, S, r)}
<1>1. SUFFICES ASSUME Bad # {} PROVE FALSE
  <2>1. Len(s) \in Nat
    OBVIOUS
  <2> QED BY <2>1
<1>2. PICK n \in Bad : \A m \in Bad : n <= m
  <2> HIDE DEF Bad
  <2>1. Bad \in SUBSET Nat
    BY DEF Bad
  <2> QED BY <1>1, <2>1, LeastNumber
<1>3. PICK u \in Seq(Threads) : Len(u) = n /\ ~ \E r \in SeqOf(S, n) : Selects(u, S, r)
  BY <1>2
<1>4. n \in Nat /\ DOMAIN u = 1 .. n
  BY <1>2, <1>3
<1>5. CASE n = 0
  <2>1. <<>> \in SeqOf(S, n)
    <3>1. <<>> \in [1 .. 0 -> S] /\ 0 \in 0 .. n
      BY <1>4
    <3> QED BY <3>1 DEF SeqOf
  <2>2. ToSet(<<>>) = {} /\ ToSet(u) = {}
    BY <1>4, <1>5 DEF ToSet
  <2>3. Selects(u, S, <<>>)
    BY <2>2 DEF Selects
  <2> QED BY <1>3, <2>1, <2>3
<1>6. CASE n # 0
  <2> DEFINE m == n - 1
             f == [i \in 1 .. m |-> u[i]]
  <2>1. m \in Nat /\ m < n /\ m + 1 = n /\ m \notin Bad
    BY <1>2, <1>4, <1>6
  <2>2. f \in Seq(Threads) /\ Len(f) = m /\ DOMAIN f = 1 .. m
    <3>1. \A i \in 1 .. m : u[i] \in Threads
      BY <1>3, <1>4, <2>1
    <3> QED BY <2>1, <3>1
  <2>3. PICK r \in SeqOf(S, m) : Selects(f, S, r)
    BY <2>1, <2>2
  <2>4. r \in Seq(S) /\ Len(r) \in 0 .. m /\ DOMAIN r = 1 .. Len(r)
    BY <2>1, <2>3, SeqOfSeq
  <2>5. \A i \in 1 .. m : f[i] = u[i] /\ i \in 1 .. n /\ i < n
    BY <2>1
  <2>6. \A x : x \in ToSet(u) <=> x \in ToSet(f) \/ x = u[n]
    BY <1>4, <2>1, <2>2, <2>5 DEF ToSet
  <2>7. \A i, j \in DOMAIN r : i < j =>
           \E k, l \in DOMAIN u : k < l /\ u[k] = r[i] /\ u[l] = r[j]
    BY <1>4, <2>2, <2>3, <2>5 DEF Selects
  <2> HIDE DEF m, f
  <2>8. CASE u[n] \notin S
    <3>1. ToSet(r) = ToSet(u) \cap S
      BY <2>3, <2>6, <2>8 DEF Selects
    <3>2. r \in SeqOf(S, n)
      <4>1. r \in [1 .. Len(r) -> S] /\ Len(r) \in 0 .. n
        BY <1>4, <2>1, <2>4
      <4> QED BY <4>1 DEF SeqOf
    <3>3. Selects(u, S, r)
      BY <2>7, <3>1 DEF Selects
    <3> QED BY <1>3, <3>2, <3>3
  <2>9. CASE u[n] \in S
    <3> DEFINE a == Append(r, u[n])
    <3>1. /\ a \in Seq(S) /\ Len(a) = Len(r) + 1 /\ DOMAIN a = 1 .. Len(r) + 1
          /\ \A i \in 1 .. Len(r) : a[i] = r[i]
          /\ a[Len(r) + 1] = u[n]
      BY <2>4, <2>9
    <3> HIDE DEF a
    <3>2. a \in SeqOf(S, n)
      <4>1. a \in [1 .. Len(a) -> S] /\ Len(a) \in 0 .. n
        BY <1>4, <2>1, <2>4, <3>1
      <4> QED BY <4>1 DEF SeqOf
    <3>3. \A x : x \in ToSet(a) <=> x \in ToSet(r) \/ x = u[n]
      <4>1. \A i : i \in 1 .. Len(r) + 1 <=> i \in 1 .. Len(r) \/ i = Len(r) + 1
        BY <2>4
      <4>2. \A x : x \in ToSet(r) <=> \E i \in 1 .. Len(r) : x = r[i]
        BY <2>4 DEF ToSet
      <4>3. \A x : x \in ToSet(a) <=> \E i \in 1 .. Len(r) + 1 : x = a[i]
        BY <3>1 DEF ToSet
      <4>4. \A i \in 1 .. Len(r) : a[i] = r[i]
        BY <3>1
      <4>5. a[Len(r) + 1] = u[n]
        BY <3>1
      <4>6. ASSUME NEW x, x \in ToSet(a) PROVE x \in ToSet(r) \/ x = u[n]
        BY <4>1, <4>2, <4>3, <4>4, <4>5, <4>6
      <4>7. ASSUME NEW x, x \in ToSet(r) \/ x = u[n] PROVE x \in ToSet(a)
        <5>1. CASE x = u[n]
          <6>1. Len(r) + 1 \in 1 .. Len(r) + 1
            BY <4>1
          <6> QED BY <4>3, <4>5, <5>1, <6>1
        <5>2. CASE x \in ToSet(r)
          <6>1. PICK i \in 1 .. Len(r) : x = r[i]
            BY <4>2, <5>2
          <6>2. i \in 1 .. Len(r) + 1 /\ x = a[i]
            BY <4>1, <4>4, <6>1
          <6> QED BY <4>3, <6>2
        <5> QED BY <4>7, <5>1, <5>2
      <4> QED BY <4>6, <4>7
    <3>4. ToSet(a) = ToSet(u) \cap S
      BY <2>3, <2>6, <2>9, <3>3 DEF Selects
    <3>5. ASSUME NEW i \in DOMAIN a, NEW j \in DOMAIN a, i < j
          PROVE  \E k, l \in DOMAIN u : k < l /\ u[k] = a[i] /\ u[l] = a[j]
      <4>1. i \in 1 .. Len(r) /\ j \in 1 .. Len(r) + 1
        BY <2>4, <3>1, <3>5
      <4>2. CASE j \in 1 .. Len(r)
        BY <2>4, <2>7, <3>1, <3>5, <4>1, <4>2
      <4>3. CASE j = Len(r) + 1
        <5>1. r[i] \in ToSet(f)
          BY <2>3, <2>4, <4>1 DEF ToSet, Selects
        <5>2. PICK k \in 1 .. m : f[k] = r[i]
          BY <2>2, <5>1 DEF ToSet
        <5>3. k \in DOMAIN u /\ n \in DOMAIN u /\ k < n /\ u[k] = a[i] /\ u[n] = a[j]
          BY <1>4, <1>6, <2>5, <3>1, <4>1, <4>3, <5>2
        <5> QED BY <5>3
      <4> QED BY <2>4, <4>1, <4>2, <4>3
    <3>6. Selects(u, S, a)
      BY <3>4, <3>5 DEF Selects
    <3> QED BY <1>3, <3>2, <3>6
  <2> QED BY <2>8, <2>9
<1> QED BY <1>5, <1>6

(* Those has the elements it should have, each once.                       *)
LEMMA ThoseIs ==
    ASSUME NEW S \in SUBSET Threads, NEW s \in Seq(Threads), Injective(s)
    PROVE  /\ Those(s, S) \in Seq(Threads)
           /\ Injective(Those(s, S))
           /\ \A t : In(t, Those(s, S)) <=> In(t, s) /\ t \in S
<1> DEFINE r == Those(s, S)
<1>1. r \in SeqOf(S, Len(s)) /\ Selects(s, S, r)
  <2>1. \E x \in SeqOf(S, Len(s)) : Selects(s, S, x)
    BY SelectionExists
  <2>2. r = CHOOSE x \in SeqOf(S, Len(s)) : Selects(s, S, x)
    BY DEF Those, Selects
  <2> HIDE DEF r
  <2> QED BY <2>1, <2>2
<1> HIDE DEF r
<1>2. r \in Seq(S) /\ DOMAIN r = 1 .. Len(r)
  BY <1>1, SeqOfSeq
<1>3. r \in Seq(Threads) /\ Len(r) \in Nat
  BY <1>2
<1>4. \A t : In(t, r) <=> In(t, s) /\ t \in S
  <2>1. \A t : t \in ToSet(r) <=> In(t, r)
    BY <1>3, ToSetIn
  <2>2. \A t : t \in ToSet(s) <=> In(t, s)
    BY ToSetIn
  <2>3. ToSet(r) = ToSet(s) \cap S
    BY <1>1 DEF Selects
  <2> QED BY <2>1, <2>2, <2>3
<1>5. \A i, j \in 1 .. Len(r) : i < j => r[i] # r[j]
  <2>1. \A i, j \in 1 .. Len(r) : i < j =>
           \E k, l \in DOMAIN s : k < l /\ s[k] = r[i] /\ s[l] = r[j]
    BY <1>1, <1>2 DEF Selects
  <2>2. DOMAIN s = 1 .. Len(s) /\ Len(s) \in Nat
    OBVIOUS
  <2>3. \A k, l \in DOMAIN s : k < l => s[k] # s[l]
    BY <2>2 DEF Injective
  <2> QED BY <2>1, <2>3
<1>6. Injective(r)
  <2>1. SUFFICES ASSUME NEW i \in 1 .. Len(r), NEW j \in 1 .. Len(r), r[i] = r[j] PROVE i = j
    BY DEF Injective
  <2>2. ~(i < j) /\ ~(j < i)
    BY <1>5, <2>1
  <2> QED BY <2>2
<1> QED BY <1>3, <1>4, <1>6 DEF r

(* Reversing keeps the elements.                                           *)
LEMMA ReverseIs ==
    ASSUME NEW s \in Seq(Threads), Injective(s)
    PROVE  /\ Reverse(s) \in Seq(Threads)
           /\ Injective(Reverse(s))
           /\ \A t : In(t, Reverse(s)) <=> In(t, s)
<1> DEFINE r == Reverse(s)
<1>1. Len(s) \in Nat /\ \A i \in 1 .. Len(s) : s[i] \in Threads
  OBVIOUS
<1>2. \A i \in 1 .. Len(s) : Len(s) - i + 1 \in 1 .. Len(s) /\ Len(s) - (Len(s) - i + 1) + 1 = i
  BY <1>1
<1>3. r \in Seq(Threads) /\ Len(r) = Len(s) /\ \A i \in 1 .. Len(s) : r[i] = s[Len(s) - i + 1]
  BY <1>1, <1>2 DEF Reverse
<1> HIDE DEF r
<1>4. Injective(r)
  <2>1. SUFFICES ASSUME NEW i \in 1 .. Len(s), NEW j \in 1 .. Len(s), r[i] = r[j] PROVE i = j
    BY <1>3 DEF Injective
  <2>2. Len(s) - i + 1 = Len(s) - j + 1
    BY <1>2, <1>3, <2>1 DEF Injective
  <2> QED BY <1>1, <2>2
<1>5. \A t : In(t, r) <=> In(t, s)
  <2>1. ASSUME NEW t, In(t, r) PROVE In(t, s)
    BY <1>2, <1>3, <2>1 DEF In
  <2>2. ASSUME NEW t, In(t, s) PROVE In(t, r)
    <3>1. PICK i \in 1 .. Len(s) : s[i] = t
      BY <2>2 DEF In
    <3>2. r[Len(s) - i + 1] = t
      BY <1>2, <1>3, <3>1
    <3> QED BY <1>2, <1>3, <3>1, <3>2 DEF In
  <2> QED BY <2>1, <2>2
<1> QED BY <1>3, <1>4, <1>5 DEF r
-----------------------------------------------------------------------------
(* What the operations do to one list.                                     *)

(* A chain is a sequence of threads; its head is Null when it is empty.    *)
LEMMA ChainFacts ==
    ASSUME NEW next, NEW p, NEW s, Chained(next, p, s)
    PROVE  /\ s \in Seq(Threads) /\ Len(s) \in Nat /\ Injective(s)
           /\ \A i \in 1 .. Len(s) : s[i] \in Threads
           /\ p = Null <=> s = <<>>
           /\ s # <<>> => p = s[1] /\ Len(s) >= 1 /\ p \in Threads
           /\ \A t : In(t, s) => t \in Threads
           /\ p # Null => In(p, s)
<1>1. s \in Seq(Threads) /\ Injective(s) /\ p = First(s)
  BY DEF Chained
<1>2. Len(s) \in Nat /\ \A i \in 1 .. Len(s) : s[i] \in Threads
  BY <1>1
<1>3. s # <<>> => Len(s) >= 1
  BY <1>1
<1>4. s # <<>> => p = s[1] /\ p \in Threads /\ In(p, s)
  BY <1>1, <1>2, <1>3 DEF First, In
<1>5. p = Null <=> s = <<>>
  BY <1>1, <1>4, ThreadAssumption DEF First
<1>6. \A t : In(t, s) => t \in Threads
  BY <1>2 DEF In
<1> QED BY <1>1, <1>2, <1>3, <1>4, <1>5, <1>6

(* A chain none of whose links changes stays one.                          *)
LEMMA ChainKept ==
    ASSUME NEW n, NEW m, NEW p, NEW s, Chained(n, p, s),
           \A t \in Threads : In(t, s) => m[t] = n[t]
    PROVE  Chained(m, p, s)
<1>1. \A i \in 1 .. Len(s) : s[i] \in Threads /\ In(s[i], s)
  BY ChainFacts DEF In
<1> QED BY <1>1 DEF Chained

(* A thread joins at the end.                                              *)
LEMMA ChainAppend ==
    ASSUME NEW n, NEW m, NEW p, NEW s, Chained(n, p, s),
           NEW t \in Threads, ~In(t, s), m[t] = Null,
           NEW o, s = <<>> => o = t, s # <<>> => o = p,
           s # <<>> => m[Final(s)] = t,
           \A x \in Threads : In(x, s) /\ x # Final(s) => m[x] = n[x]
    PROVE  /\ Chained(m, o, Append(s, t))
           /\ \A x : In(x, Append(s, t)) <=> In(x, s) \/ x = t
<1>1. /\ s \in Seq(Threads) /\ Len(s) \in Nat /\ Injective(s)
      /\ s # <<>> => p = s[1] /\ Len(s) >= 1
  BY ChainFacts
<1> DEFINE a == Append(s, t)
<1>2. /\ a \in Seq(Threads) /\ Len(a) = Len(s) + 1
      /\ \A i \in 1 .. Len(s) : a[i] = s[i]
      /\ a[Len(s) + 1] = t
  BY <1>1
<1> HIDE DEF a
<1>3. \A i : i \in 1 .. Len(a) <=> i \in 1 .. Len(s) \/ i = Len(s) + 1
  BY <1>1, <1>2
<1>4. Injective(a)
  BY <1>1, <1>2, <1>3 DEF Injective, In
<1>5. First(a) = o
  <2>1. CASE s = <<>>
    <3>1. Len(s) = 0 /\ Len(a) = 1 /\ a[1] = t
      BY <1>2, <2>1
    <3>2. a # <<>>
      BY <3>1
    <3> QED BY <2>1, <3>1, <3>2 DEF First
  <2>2. CASE s # <<>>
    <3>1. 1 \in 1 .. Len(s) /\ a # <<>>
      BY <1>1, <1>2, <2>2
    <3> QED BY <1>1, <1>2, <2>2, <3>1 DEF First
  <2> QED BY <2>1, <2>2
<1>6. ASSUME NEW i \in 1 .. Len(a) PROVE m[a[i]] = IF i = Len(a) THEN Null ELSE a[i + 1]
  <2>1. CASE i = Len(s) + 1
    BY <1>2, <2>1
  <2>2. CASE i = Len(s) /\ i \in 1 .. Len(s)
    <3>1. s # <<>> /\ Final(s) = s[i]
      BY <2>2 DEF Final
    <3> QED BY <1>1, <1>2, <2>2, <3>1
  <2>3. CASE i \in 1 .. Len(s) - 1
    <3>2. i + 1 \in 1 .. Len(s) /\ i \in 1 .. Len(s) /\ i # Len(a) /\ i # Len(s)
      BY <1>1, <1>2, <2>3
    <3>1. n[s[i]] = s[i + 1]
      BY <3>2 DEF Chained
    <3>3. s # <<>> /\ Len(s) \in 1 .. Len(s) /\ i # Len(s)
      BY <1>1, <2>3
    <3>4. s[i] # Final(s) /\ In(s[i], s) /\ s[i] \in Threads
      BY <1>1, <3>2, <3>3 DEF Final, Injective, In
    <3> QED BY <1>2, <3>1, <3>2, <3>4
  <2> QED BY <1>1, <1>3, <2>1, <2>2, <2>3
<1>7. \A x : In(x, a) <=> In(x, s) \/ x = t
  <2>1. ASSUME NEW x, In(x, a) PROVE In(x, s) \/ x = t
    BY <1>2, <1>3, <2>1 DEF In
  <2>2. ASSUME NEW x, In(x, s) \/ x = t PROVE In(x, a)
    <3>1. CASE x = t
      <4>1. Len(s) + 1 \in 1 .. Len(a)
        BY <1>3
      <4> QED BY <1>2, <3>1, <4>1 DEF In
    <3>2. CASE In(x, s)
      <4>1. PICK i \in 1 .. Len(s) : s[i] = x
        BY <3>2 DEF In
      <4>2. i \in 1 .. Len(a) /\ a[i] = x
        BY <1>2, <1>3, <4>1
      <4> QED BY <4>2 DEF In
    <3> QED BY <2>2, <3>1, <3>2
  <2> QED BY <2>1, <2>2
<1>8. Chained(m, o, a)
  BY <1>2, <1>4, <1>5, <1>6 DEF Chained
<1> QED BY <1>7, <1>8 DEF a

(* The head leaves.                                                        *)
LEMMA ChainTail ==
    ASSUME NEW n, NEW m, NEW p, NEW s, Chained(n, p, s), s # <<>>,
           \A t \in Threads : In(t, s) /\ t # p => m[t] = n[t]
    PROVE  /\ Chained(m, n[p], Tail(s))
           /\ Head(s) = p
           /\ \A x : In(x, Tail(s)) <=> In(x, s) /\ x # p
<1>1. /\ s \in Seq(Threads) /\ Len(s) \in Nat /\ Injective(s)
      /\ p = s[1] /\ Len(s) >= 1
      /\ \A i \in 1 .. Len(s) : s[i] \in Threads
  BY ChainFacts
<1> DEFINE a == Tail(s)
<1>2. /\ a \in Seq(Threads) /\ Len(a) = Len(s) - 1
      /\ \A i \in 1 .. Len(a) : a[i] = s[i + 1]
  BY <1>1
<1> HIDE DEF a
<1>3. \A i \in 1 .. Len(a) : i + 1 \in 1 .. Len(s) /\ i + 1 # 1
  BY <1>1, <1>2
<1>4. Injective(a)
  <2>1. SUFFICES ASSUME NEW i \in 1 .. Len(a), NEW j \in 1 .. Len(a), a[i] = a[j] PROVE i = j
    BY DEF Injective
  <2>2. i + 1 = j + 1
    BY <1>1, <1>2, <1>3, <2>1 DEF Injective
  <2> QED BY <2>2
<1>5. n[p] = First(a)
  <2>0. 1 \in 1 .. Len(s)
    BY <1>1
  <2>1. n[s[1]] = IF 1 = Len(s) THEN Null ELSE s[1 + 1]
    BY <2>0 DEF Chained
  <2>2. CASE Len(s) = 1
    <3>1. Len(a) = 0
      BY <1>2, <2>2
    <3>2. a = <<>>
      BY <1>2, <3>1
    <3> QED BY <1>1, <2>1, <2>2, <3>2 DEF First
  <2>3. CASE Len(s) # 1
    <3>1. 1 \in 1 .. Len(a) /\ a # <<>> /\ 1 + 1 = 2
      BY <1>1, <1>2, <2>3
    <3>2. a[1] = s[1 + 1]
      BY <1>2, <3>1
    <3> QED BY <1>1, <2>1, <2>3, <3>1, <3>2 DEF First
  <2> QED BY <2>2, <2>3
<1>6. ASSUME NEW i \in 1 .. Len(a) PROVE m[a[i]] = IF i = Len(a) THEN Null ELSE a[i + 1]
  <2>1. s[i + 1] # p /\ In(s[i + 1], s) /\ s[i + 1] \in Threads
    BY <1>1, <1>3 DEF Injective, In
  <2>2. m[a[i]] = n[s[i + 1]]
    BY <1>2, <2>1
  <2>3. n[s[i + 1]] = IF i + 1 = Len(s) THEN Null ELSE s[i + 1 + 1]
    BY <1>3 DEF Chained
  <2>4. CASE i = Len(a)
    BY <1>1, <1>2, <2>2, <2>3, <2>4
  <2>5. CASE i # Len(a)
    <3>1. i + 1 \in 1 .. Len(a) /\ i + 1 # Len(s)
      BY <1>1, <1>2, <2>5
    <3> QED BY <1>2, <2>2, <2>3, <2>5, <3>1
  <2> QED BY <2>4, <2>5
<1>7. \A x : In(x, a) <=> In(x, s) /\ x # p
  <2>1. ASSUME NEW x, In(x, a) PROVE In(x, s) /\ x # p
    <3>1. PICK i \in 1 .. Len(a) : a[i] = x
      BY <2>1 DEF In
    <3>2. i + 1 \in 1 .. Len(s) /\ s[i + 1] = x /\ i + 1 # 1
      BY <1>2, <1>3, <3>1
    <3> QED BY <1>1, <3>2 DEF In, Injective
  <2>2. ASSUME NEW x, In(x, s), x # p PROVE In(x, a)
    <3>1. PICK i \in 1 .. Len(s) : s[i] = x
      BY <2>2 DEF In
    <3>2. i - 1 \in 1 .. Len(a) /\ i - 1 + 1 = i
      BY <1>1, <1>2, <2>2, <3>1
    <3>3. a[i - 1] = x
      BY <1>2, <3>1, <3>2
    <3> QED BY <3>2, <3>3 DEF In
  <2> QED BY <2>1, <2>2
<1>8. Chained(m, n[p], a)
  BY <1>2, <1>4, <1>5, <1>6 DEF Chained
<1>9. Head(s) = p
  BY <1>1
<1> QED BY <1>7, <1>8, <1>9 DEF a

(* One thread, and none.                                                   *)
LEMMA ChainOne ==
    ASSUME NEW n, NEW t \in Threads, n[t] = Null
    PROVE  Chained(n, t, <<t>>) /\ \A x : In(x, <<t>>) <=> x = t
<1>1. <<t>> \in Seq(Threads) /\ Len(<<t>>) = 1 /\ <<t>>[1] = t /\ <<t>> # <<>>
  OBVIOUS
<1>2. \A i : i \in 1 .. 1 <=> i = 1
  OBVIOUS
<1>3. Injective(<<t>>) /\ First(<<t>>) = t
  BY <1>1, <1>2 DEF Injective, First
<1> QED BY <1>1, <1>2, <1>3 DEF Chained, In

(* The empty list.                                                         *)
LEMMA ChainNone ==
    ASSUME NEW n
    PROVE  Chained(n, Null, <<>>) /\ \A x : ~In(x, <<>>)
BY DEF Chained, In, Injective, First

(* Chain links the threads of s and no other.                              *)
LEMMA ChainIs ==
    ASSUME NEW n \in [Threads -> Threads \cup {Null}], NEW s \in Seq(Threads), Injective(s)
    PROVE  /\ Chain(n, s) \in [Threads -> Threads \cup {Null}]
           /\ Chained(Chain(n, s), First(s), s)
           /\ \A t \in Threads : ~In(t, s) => Chain(n, s)[t] = n[t]
<1>1. Len(s) \in Nat /\ DOMAIN s = 1 .. Len(s)
  OBVIOUS
<1>2. \A i \in 1 .. Len(s) : s[i] \in Threads
  BY <1>1
<1>3. \A t \in Threads : ~In(t, s) => Chain(n, s)[t] = n[t]
  BY <1>1 DEF Chain, In
<1>4. ASSUME NEW i \in 1 .. Len(s)
      PROVE  Chain(n, s)[s[i]] = IF i = Len(s) THEN Null ELSE s[i + 1]
  <2>1. (CHOOSE j \in DOMAIN s : s[j] = s[i]) = i
    BY <1>1 DEF Injective
  <2>2. \E j \in DOMAIN s : s[j] = s[i]
    BY <1>1
  <2>3. s[i] \in Threads
    BY <1>2
  <2> QED BY <2>1, <2>2, <2>3 DEF Chain
<1>5. \A t \in Threads : Chain(n, s)[t] \in Threads \cup {Null}
  <2>1. ASSUME NEW t \in Threads, In(t, s) PROVE Chain(n, s)[t] \in Threads \cup {Null}
    <3>1. PICK i \in 1 .. Len(s) : s[i] = t
      BY <2>1 DEF In
    <3>2. Chain(n, s)[t] = IF i = Len(s) THEN Null ELSE s[i + 1]
      BY <1>4, <3>1
    <3>3. i # Len(s) => i + 1 \in 1 .. Len(s)
      OBVIOUS
    <3> QED BY <1>2, <3>2, <3>3
  <2> QED BY <1>3, <2>1
<1>6. Chain(n, s) \in [Threads -> Threads \cup {Null}]
  <2> DEFINE F(t) == Chain(n, s)[t]
  <2>1. Chain(n, s) = [t \in Threads |-> Chain(n, s)[t]]
    BY DEF Chain
  <2> QED BY <1>5, <2>1
<1>7. Chained(Chain(n, s), First(s), s)
  BY <1>4 DEF Chained
<1> QED BY <1>3, <1>6, <1>7
-----------------------------------------------------------------------------
(* The inductive invariant.                                                *)

(* The lists there are: the wait queues, the chains that are being woken   *)
(* and the sleep list.                                                     *)
QueueOf(q) == <<q, "queue">>
WalkOf(c) == <<c, "walk">>
Sleepers == <<Null, "sleep">>
Places == (Queues \X {"queue"}) \cup (Cpus \X {"walk"}) \cup {Sleepers}

HeadAt(head, sleep, w, r) ==
    IF r[2] = "queue" THEN head[r[1]] ELSE IF r[2] = "walk" THEN w[r[1]] ELSE sleep

Lists ==
    [r \in Places |-> ListFrom(th_wait_next, HeadAt(wq_head, s_sleep_list, walk, r))]

(* What the pointers are, if L are the lists: each is chained from its     *)
(* head to Null, no thread is on two of them, and the tails are right.     *)
Linked(next, head, tail, sleep, w, L) ==
    /\ L \in [Places -> Seq(Threads)]
    /\ \A r \in Places : Chained(next, HeadAt(head, sleep, w, r), L[r])
    /\ \A r, u \in Places : \A t \in Threads : In(t, L[r]) /\ In(t, L[u]) => r = u
    /\ \A q \in Queues : tail[q] = Final(L[QueueOf(q)])

(* The threads on the lists are those that wait, and one that nobody is    *)
(* waking yet is where it asked to be.                                     *)
Asked(r) == IF r[2] = "queue" THEN {r[1]} ELSE {"deadline"}
Occupied(th, asked, L) ==
    /\ \A t \in Threads : th[t] = "WAITING" <=> \E r \in Places : In(t, L[r])
    /\ \A r \in Places : \A t \in Threads : In(t, L[r]) /\ r[2] # "walk" => asked[t] = Asked(r)

IInv ==
    /\ TypeOK
    /\ \A t \in Threads : adding[t] = Null
    /\ Linked(th_wait_next, wq_head, wq_tail, s_sleep_list, walk, Lists)
    /\ Occupied(th_state, blocked_on, Lists)

(* Where the lists begin.                                                  *)
LEMMA PlaceFacts ==
    /\ Sleepers \in Places
    /\ \A q \in Queues : QueueOf(q) \in Places
    /\ \A c \in Cpus : WalkOf(c) \in Places
    /\ \A r \in Places : \/ r = Sleepers
                         \/ \E q \in Queues : r = QueueOf(q)
                         \/ \E c \in Cpus : r = WalkOf(c)
    /\ \A q \in Queues, c \in Cpus :
          QueueOf(q) # Sleepers /\ WalkOf(c) # Sleepers /\ QueueOf(q) # WalkOf(c)
    /\ \A q, u \in Queues : QueueOf(q) = QueueOf(u) => q = u
    /\ \A c, d \in Cpus : WalkOf(c) = WalkOf(d) => c = d
    /\ \A q \in Queues : Asked(QueueOf(q)) = {q} /\ QueueOf(q)[2] # "walk"
    /\ \A c \in Cpus : WalkOf(c)[2] = "walk"
    /\ Asked(Sleepers) = {"deadline"} /\ Sleepers[2] # "walk"
BY DEF Places, Sleepers, QueueOf, WalkOf, Asked

(* The heads of the three kinds of list.                                   *)
LEMMA HeadFacts ==
    ASSUME NEW h, NEW s, NEW w
    PROVE  /\ HeadAt(h, s, w, Sleepers) = s
           /\ \A q \in Queues : HeadAt(h, s, w, QueueOf(q)) = h[q]
           /\ \A c \in Cpus : HeadAt(h, s, w, WalkOf(c)) = w[c]
BY DEF HeadAt, Sleepers, QueueOf, WalkOf

(* If M are the lists of the pointers after a step, they are what List     *)
(* follows, and the invariant holds again.                                 *)
LEMMA Adopt ==
    ASSUME NEW M,
           Linked(th_wait_next', wq_head', wq_tail', s_sleep_list', walk', M),
           Occupied(th_state', blocked_on', M),
           th_state' \in [Threads -> {"RUNNING", "WAITING", "READY"}],
           th_wait_next' \in [Threads -> Threads \cup {Null}],
           th_due' \in [Threads -> BOOLEAN],
           wq_head' \in [Queues -> Threads \cup {Null}],
           wq_tail' \in [Queues -> Threads \cup {Null}],
           s_sleep_list' \in Threads \cup {Null},
           walk' \in [Cpus -> Threads \cup {Null}],
           blocked_on' \in [Threads -> SUBSET (Queues \cup {"deadline"})],
           adding' \in [Threads -> Queues \cup {Null}],
           \A t \in Threads : adding'[t] = Null
    PROVE  IInv' /\ Lists' = M
<1>1. \A r \in Places : ListFrom(th_wait_next', HeadAt(wq_head', s_sleep_list', walk', r)) = M[r]
  BY ListIs DEF Linked
<1>2. Lists' = [r \in Places |-> ListFrom(th_wait_next', HeadAt(wq_head', s_sleep_list', walk', r))]
  BY DEF Lists
<1>3. M = [r \in Places |-> M[r]]
  BY DEF Linked
<1>4. Lists' = M
  BY <1>1, <1>2, <1>3
<1>5. ASSUME NEW q \in Queues PROVE wq_head'[q] = Null <=> wq_tail'[q] = Null
  <2>0. QueueOf(q) \in Places
    BY PlaceFacts
  <2>1. HeadAt(wq_head', s_sleep_list', walk', QueueOf(q)) = wq_head'[q]
    BY DEF HeadAt, QueueOf
  <2>2. Chained(th_wait_next', wq_head'[q], M[QueueOf(q)])
    BY <2>0, <2>1 DEF Linked
  <2>3. wq_tail'[q] = Final(M[QueueOf(q)])
    BY DEF Linked
  <2>4. M[QueueOf(q)] # <<>> => Final(M[QueueOf(q)]) \in Threads
    BY <2>2, ChainFacts DEF Final
  <2> QED BY <2>2, <2>3, <2>4, ChainFacts, ThreadAssumption DEF Final
<1>6. TypeOK'
  BY <1>5 DEF TypeOK
<1> QED BY <1>4, <1>6 DEF IInv

(* The lists of a state in which the invariant holds.                      *)
LEMMA ListFacts ==
    ASSUME IInv
    PROVE  /\ \A q \in Queues :
                 /\ Lists[QueueOf(q)] = List(wq_head[q])
                 /\ Chained(th_wait_next, wq_head[q], Lists[QueueOf(q)])
                 /\ wq_tail[q] = Final(Lists[QueueOf(q)])
           /\ \A c \in Cpus :
                 /\ Lists[WalkOf(c)] = List(walk[c])
                 /\ Chained(th_wait_next, walk[c], Lists[WalkOf(c)])
           /\ Lists[Sleepers] = List(s_sleep_list)
           /\ Chained(th_wait_next, s_sleep_list, Lists[Sleepers])
           /\ \A r \in Places : Lists[r] \in Seq(Threads)
           /\ \A r \in Places : \A x : In(x, Lists[r]) => x \in Threads
           /\ \A t \in Threads : th_state[t] # "WAITING" => \A r \in Places : ~In(t, Lists[r])
<1>1. \A r \in Places : /\ Lists[r] = ListFrom(th_wait_next, HeadAt(wq_head, s_sleep_list, walk, r))
                        /\ Chained(th_wait_next, HeadAt(wq_head, s_sleep_list, walk, r), Lists[r])
  BY DEF IInv, Linked, Lists
<1>2. \A q \in Queues :
         /\ Lists[QueueOf(q)] = List(wq_head[q])
         /\ Chained(th_wait_next, wq_head[q], Lists[QueueOf(q)])
         /\ wq_tail[q] = Final(Lists[QueueOf(q)])
  BY <1>1, PlaceFacts, HeadFacts DEF List, IInv, Linked
<1>3. \A c \in Cpus :
         /\ Lists[WalkOf(c)] = List(walk[c])
         /\ Chained(th_wait_next, walk[c], Lists[WalkOf(c)])
  BY <1>1, PlaceFacts, HeadFacts DEF List
<1>4. /\ Lists[Sleepers] = List(s_sleep_list)
      /\ Chained(th_wait_next, s_sleep_list, Lists[Sleepers])
  BY <1>1, PlaceFacts, HeadFacts DEF List
<1>5. \A r \in Places : Lists[r] \in Seq(Threads) /\ \A x : In(x, Lists[r]) => x \in Threads
  BY <1>1, ChainFacts
<1>6. \A t \in Threads : th_state[t] # "WAITING" => \A r \in Places : ~In(t, Lists[r])
  BY DEF IInv, Occupied
<1> QED BY <1>2, <1>3, <1>4, <1>5, <1>6
-----------------------------------------------------------------------------
(* The actions.                                                            *)

HeadNow(r) == HeadAt(wq_head, s_sleep_list, walk, r)
HeadNext(r) == HeadAt(wq_head', s_sleep_list', walk', r)

(* A step that changes the lists at the places C, and there only.          *)
LEMMA Relink ==
    ASSUME IInv, NEW C \in SUBSET Places, NEW M \in [Places -> Seq(Threads)],
           \A r \in Places \ C : M[r] = Lists[r] /\ HeadNext(r) = HeadNow(r),
           \A r \in C : Chained(th_wait_next', HeadNext(r), M[r]),
           \A r \in Places \ C : \A t \in Threads :
              In(t, Lists[r]) => th_wait_next'[t] = th_wait_next[t],
           \A r \in C : \A t \in Threads : In(t, M[r]) =>
              \A u \in Places \ C : ~In(t, Lists[u]),
           \A r, u \in C : \A t \in Threads : In(t, M[r]) /\ In(t, M[u]) => r = u,
           \A q \in Queues : QueueOf(q) \in C => wq_tail'[q] = Final(M[QueueOf(q)]),
           \A q \in Queues : QueueOf(q) \notin C => wq_tail'[q] = wq_tail[q]
    PROVE  Linked(th_wait_next', wq_head', wq_tail', s_sleep_list', walk', M)
<1>1. ASSUME NEW r \in Places PROVE Chained(th_wait_next', HeadNext(r), M[r])
  <2>1. CASE r \in C
    BY <2>1
  <2>2. CASE r \notin C
    <3>1. Chained(th_wait_next, HeadNow(r), Lists[r])
      BY DEF IInv, Linked, HeadNow, HeadNext
    <3>2. \A t \in Threads : In(t, Lists[r]) => th_wait_next'[t] = th_wait_next[t]
      BY <2>2
    <3>3. Chained(th_wait_next', HeadNow(r), Lists[r])
      BY <3>1, <3>2, ChainKept
    <3> QED BY <2>2, <3>3
  <2> QED BY <2>1, <2>2
<1>2. \A r \in Places : HeadNext(r) = HeadAt(wq_head', s_sleep_list', walk', r)
  BY DEF HeadNext
<1>3. ASSUME NEW r \in Places, NEW u \in Places, NEW t \in Threads, In(t, M[r]), In(t, M[u])
      PROVE  r = u
  <2>1. CASE r \in C /\ u \in C
    BY <1>3, <2>1
  <2>2. CASE r \notin C /\ u \notin C
    <3>1. In(t, Lists[r]) /\ In(t, Lists[u])
      BY <1>3, <2>2
    <3> QED BY <3>1 DEF IInv, Linked
  <2>3. CASE r \in C /\ u \notin C
    BY <1>3, <2>3
  <2>4. CASE r \notin C /\ u \in C
    BY <1>3, <2>4
  <2> QED BY <2>1, <2>2, <2>3, <2>4
<1>4. ASSUME NEW q \in Queues PROVE wq_tail'[q] = Final(M[QueueOf(q)])
  <2>1. CASE QueueOf(q) \in C
    BY <2>1
  <2>2. CASE QueueOf(q) \notin C
    <3>1. QueueOf(q) \in Places
      BY PlaceFacts
    <3>2. M[QueueOf(q)] = Lists[QueueOf(q)]
      BY <2>2, <3>1
    <3> QED BY <2>2, <3>2 DEF IInv, Linked
  <2> QED BY <2>1, <2>2
<1> QED BY <1>1, <1>2, <1>3, <1>4 DEF Linked

(* A thread that runs blocks: it joins the list at A, on which it may be   *)
(* put anywhere.                                                           *)
LEMMA JoinStep ==
    ASSUME IInv, NEW t \in Threads, th_state[t] = "RUNNING",
           NEW A \in Places, A[2] # "walk", NEW s \in Seq(Threads),
           \A x : In(x, s) <=> In(x, Lists[A]) \/ x = t,
           Chained(th_wait_next', HeadNext(A), s),
           \A r \in Places : r # A => HeadNext(r) = HeadNow(r),
           \A x \in Threads : ~In(x, Lists[A]) /\ x # t => th_wait_next'[x] = th_wait_next[x],
           \A q \in Queues : QueueOf(q) = A => wq_tail'[q] = Final(s),
           \A q \in Queues : QueueOf(q) # A => wq_tail'[q] = wq_tail[q],
           th_state' = [th_state EXCEPT ![t] = "WAITING"],
           blocked_on' = [blocked_on EXCEPT ![t] = Asked(A)],
           adding' = adding, walk' = walk,
           th_due' \in [Threads -> BOOLEAN],
           th_wait_next' \in [Threads -> Threads \cup {Null}],
           wq_head' \in [Queues -> Threads \cup {Null}],
           wq_tail' \in [Queues -> Threads \cup {Null}],
           s_sleep_list' \in Threads \cup {Null}
    PROVE  IInv' /\ Lists' = [Lists EXCEPT ![A] = s]
<1> DEFINE M == [Lists EXCEPT ![A] = s]
<1>1. TypeOK /\ \A x \in Threads : adding[x] = Null
  BY DEF IInv
<1>2. \A r \in Places : ~In(t, Lists[r])
  BY ListFacts
<1>3. /\ M \in [Places -> Seq(Threads)] /\ M[A] = s
      /\ \A r \in Places : r # A => M[r] = Lists[r]
  <2>1. Lists \in [Places -> Seq(Threads)]
    BY DEF IInv, Linked
  <2> QED BY <2>1
<1> HIDE DEF M
<1>4. \A r \in Places, u \in Places : \A x \in Threads :
         In(x, Lists[r]) /\ In(x, Lists[u]) => r = u
  BY DEF IInv, Linked
<1>5. Linked(th_wait_next', wq_head', wq_tail', s_sleep_list', walk', M)
  <2>1. ASSUME NEW r \in Places \ {A}, NEW x \in Threads, In(x, Lists[r])
        PROVE  th_wait_next'[x] = th_wait_next[x]
    <3>1. ~In(x, Lists[A]) /\ x # t
      BY <1>2, <1>4, <2>1
    <3> QED BY <3>1
  <2>2. ASSUME NEW x \in Threads, In(x, M[A]), NEW u \in Places \ {A} PROVE ~In(x, Lists[u])
    <3>1. In(x, Lists[A]) \/ x = t
      BY <1>3, <2>2
    <3> QED BY <1>2, <1>4, <3>1
  <2>3. {A} \in SUBSET Places
    OBVIOUS
  <2>4. \A r \in Places \ {A} : M[r] = Lists[r] /\ HeadNext(r) = HeadNow(r)
    BY <1>3
  <2>5. \A r \in {A} : Chained(th_wait_next', HeadNext(r), M[r])
    BY <1>3
  <2>6. \A q \in Queues : QueueOf(q) \in {A} => wq_tail'[q] = Final(M[QueueOf(q)])
    BY <1>3
  <2>7. \A q \in Queues : QueueOf(q) \notin {A} => wq_tail'[q] = wq_tail[q]
    OBVIOUS
  <2> QED BY <1>3, <2>1, <2>2, <2>3, <2>4, <2>5, <2>6, <2>7, Relink
<1>6. Occupied(th_state', blocked_on', M)
  <2>1. /\ th_state'[t] = "WAITING" /\ blocked_on'[t] = Asked(A)
        /\ \A x \in Threads : x # t => th_state'[x] = th_state[x] /\ blocked_on'[x] = blocked_on[x]
    BY <1>1 DEF TypeOK
  <2>2. \A r \in Places : \A x : In(x, M[r]) <=> In(x, Lists[r]) \/ (r = A /\ x = t)
    BY <1>3
  <2>4. \A x \in Threads : th_state[x] = "WAITING" <=> \E r \in Places : In(x, Lists[r])
    BY DEF IInv, Occupied
  <2>5. ASSUME NEW x \in Threads
        PROVE  th_state'[x] = "WAITING" <=> \E r \in Places : In(x, M[r])
    <3>1. CASE x = t
      BY <2>1, <2>2, <3>1
    <3>2. CASE x # t
      BY <2>1, <2>2, <2>4, <3>2
    <3> QED BY <3>1, <3>2
  <2>6. ASSUME NEW r \in Places, NEW x \in Threads, In(x, M[r]), r[2] # "walk"
        PROVE  blocked_on'[x] = Asked(r)
    <3>1. CASE x = t
      BY <1>2, <2>1, <2>2, <2>6, <3>1
    <3>2. CASE x # t
      <4>1. In(x, Lists[r])
        BY <2>2, <2>6, <3>2
      <4> QED BY <2>1, <2>6, <3>2, <4>1 DEF IInv, Occupied
    <3> QED BY <3>1, <3>2
  <2> QED BY <2>5, <2>6 DEF Occupied
<1>7. Asked(A) \in SUBSET (Queues \cup {"deadline"})
  BY PlaceFacts
<1>8. /\ th_state' \in [Threads -> {"RUNNING", "WAITING", "READY"}]
      /\ blocked_on' \in [Threads -> SUBSET (Queues \cup {"deadline"})]
      /\ adding' \in [Threads -> Queues \cup {Null}]
      /\ walk' \in [Cpus -> Threads \cup {Null}]
      /\ \A x \in Threads : adding'[x] = Null
  BY <1>1, <1>7 DEF TypeOK
<1>9. IInv' /\ Lists' = M
  BY <1>5, <1>6, <1>8, Adopt
<1> QED BY <1>9 DEF M

(* A thread joins a wait queue at its tail.                                *)
LEMMA WaitQueueSleepStep ==
    ASSUME IInv, NEW t \in Threads, NEW q \in Queues, WaitQueueSleep(t, q)
    PROVE  /\ IInv'
           /\ Lists' = [Lists EXCEPT ![QueueOf(q)] = Append(@, t)]
<1> DEFINE Q == QueueOf(q)
           s == Lists[Q]
<1>1. TypeOK /\ \A x \in Threads : adding[x] = Null
  BY DEF IInv
<1>2. Q \in Places
  BY PlaceFacts
<1>3. /\ th_state[t] = "RUNNING" /\ \A r \in Places : ~In(t, Lists[r])
  BY ListFacts DEF WaitQueueSleep
<1>4. Chained(th_wait_next, wq_head[q], s) /\ wq_tail[q] = Final(s)
  BY ListFacts
<1>s. s = Lists[Q] /\ ~In(t, s)
  BY <1>2, <1>3
<1> HIDE DEF s, Q
<1>5. /\ s \in Seq(Threads) /\ Len(s) \in Nat /\ Injective(s)
      /\ s # <<>> => Len(s) >= 1 /\ wq_tail[q] = s[Len(s)] /\ wq_tail[q] \in Threads /\ In(wq_tail[q], s)
      /\ s = <<>> <=> wq_tail[q] = Null
  <2>1. /\ s \in Seq(Threads) /\ Len(s) \in Nat /\ Injective(s)
        /\ s # <<>> => Len(s) >= 1
        /\ \A i \in 1 .. Len(s) : s[i] \in Threads
    BY <1>4, ChainFacts
  <2>2. s # <<>> => /\ Len(s) >= 1 /\ wq_tail[q] = s[Len(s)] /\ wq_tail[q] \in Threads
                    /\ In(wq_tail[q], s)
    BY <1>4, <2>1 DEF Final, In
  <2>3. s = <<>> => wq_tail[q] = Null
    BY <1>4 DEF Final
  <2>4. wq_tail[q] = Null => s = <<>>
    BY <2>2, ThreadAssumption
  <2> QED BY <2>1, <2>2, <2>3, <2>4
<1>6. /\ th_wait_next'[t] = Null
      /\ s # <<>> => th_wait_next'[wq_tail[q]] = t
      /\ \A x \in Threads : x # t /\ x # wq_tail[q] => th_wait_next'[x] = th_wait_next[x]
      /\ th_wait_next' \in [Threads -> Threads \cup {Null}]
  <2>1. CASE s = <<>>
    BY <1>1, <1>5, <2>1 DEF WaitQueueSleep, Link, TypeOK
  <2>2. CASE s # <<>>
    <3>1. wq_tail[q] # t
      BY <1>5, <1>s, <2>2
    <3> QED BY <1>1, <1>5, <2>2, <3>1 DEF WaitQueueSleep, Link, TypeOK
  <2> QED BY <2>1, <2>2
<1>7. /\ wq_head'[q] = IF s = <<>> THEN t ELSE wq_head[q]
      /\ \A u \in Queues : u # q => wq_head'[u] = wq_head[u] /\ wq_tail'[u] = wq_tail[u]
      /\ wq_tail'[q] = t
      /\ wq_head' \in [Queues -> Threads \cup {Null}]
      /\ wq_tail' \in [Queues -> Threads \cup {Null}]
  BY <1>1, <1>5 DEF WaitQueueSleep, Link, TypeOK
<1>8. s_sleep_list' = s_sleep_list /\ walk' = walk
  BY DEF WaitQueueSleep
<1>9. \A x \in Threads : In(x, s) /\ x # Final(s) => th_wait_next'[x] = th_wait_next[x]
  BY <1>4, <1>6, <1>s
<1>10. /\ Chained(th_wait_next', wq_head'[q], Append(s, t))
       /\ \A x : In(x, Append(s, t)) <=> In(x, s) \/ x = t
  <2>2. s # <<>> => th_wait_next'[Final(s)] = t
    BY <1>4, <1>6
  <2>3. /\ Chained(th_wait_next', wq_head'[q], Append(s, t))
        /\ \A x : In(x, Append(s, t)) <=> In(x, s) \/ x = t
    <3>1. th_wait_next'[t] = Null
      BY <1>6
    <3>2. Chained(th_wait_next, wq_head[q], s)
      BY <1>4
    <3>3. ~In(t, s)
      BY <1>s
    <3>4. (s = <<>> => wq_head'[q] = t) /\ (s # <<>> => wq_head'[q] = wq_head[q])
      BY <1>7
    <3> QED BY <1>9, <2>2, <3>1, <3>2, <3>3, <3>4, ChainAppend
  <2> QED BY <2>3
<1>11. IInv' /\ Lists' = [Lists EXCEPT ![Q] = Append(s, t)]
  <2>1. \A r \in Places : r # Q => HeadNext(r) = HeadNow(r)
    BY <1>7, <1>8, PlaceFacts DEF HeadNow, HeadNext, HeadAt, Q, QueueOf, WalkOf, Sleepers
  <2>2. HeadNext(Q) = wq_head'[q]
    BY DEF HeadNow, HeadNext, HeadAt, Q, QueueOf
  <2>3. \A x \in Threads : ~In(x, Lists[Q]) /\ x # t => th_wait_next'[x] = th_wait_next[x]
    <3>1. ASSUME NEW x \in Threads, ~In(x, s) PROVE x # wq_tail[q]
      BY <1>5, <3>1, ThreadAssumption
    <3> QED BY <1>6, <1>s, <3>1
  <2>4. wq_tail'[q] = Final(Append(s, t))
    <3>1. Append(s, t) # <<>> /\ Len(Append(s, t)) = Len(s) + 1 /\ Append(s, t)[Len(s) + 1] = t
      BY <1>5
    <3> QED BY <1>7, <3>1 DEF Final
  <2>5. \A u \in Queues : QueueOf(u) = Q => u = q
    BY PlaceFacts DEF Q
  <2>6. Asked(Q) = {q} /\ Q[2] # "walk" /\ Append(s, t) \in Seq(Threads)
    BY <1>5, PlaceFacts DEF Q
  <2>7. /\ th_state' = [th_state EXCEPT ![t] = "WAITING"]
        /\ blocked_on' = [blocked_on EXCEPT ![t] = Asked(Q)]
        /\ adding' = adding
        /\ th_due' \in [Threads -> BOOLEAN] /\ s_sleep_list' \in Threads \cup {Null}
    BY <1>1, <2>6 DEF WaitQueueSleep, TypeOK
  <2>8. /\ \A u \in Queues : QueueOf(u) = Q => wq_tail'[u] = Final(Append(s, t))
        /\ \A u \in Queues : QueueOf(u) # Q => wq_tail'[u] = wq_tail[u]
    BY <1>7, <2>4, <2>5 DEF Q
  <2>9. \A x : In(x, Append(s, t)) <=> In(x, Lists[Q]) \/ x = t
    BY <1>10, <1>s
  <2>10. Chained(th_wait_next', HeadNext(Q), Append(s, t))
    BY <1>10, <2>2
  <2>11. /\ walk' = walk
         /\ th_wait_next' \in [Threads -> Threads \cup {Null}]
         /\ wq_head' \in [Queues -> Threads \cup {Null}]
         /\ wq_tail' \in [Queues -> Threads \cup {Null}]
    BY <1>6, <1>7, <1>8
  <2>12. th_state[t] = "RUNNING" /\ Q[2] # "walk" /\ Append(s, t) \in Seq(Threads)
    BY <1>3, <2>6
  <2> QED BY <1>2, <2>1, <2>3, <2>7, <2>8, <2>9, <2>10, <2>11, <2>12, JoinStep, ZenonT(30)
<1> QED BY <1>11 DEF Q, s

(* A thread in front of others.                                            *)
LEMMA PushIs ==
    ASSUME NEW t \in Threads, NEW s \in Seq(Threads), Injective(s), ~In(t, s)
    PROVE  /\ <<t>> \o s \in Seq(Threads) /\ Injective(<<t>> \o s)
           /\ First(<<t>> \o s) = t
           /\ \A x : In(x, <<t>> \o s) <=> In(x, s) \/ x = t
<1> DEFINE a == <<t>> \o s
<1>1. /\ a \in Seq(Threads) /\ Len(s) \in Nat /\ Len(a) = Len(s) + 1 /\ a[1] = t
      /\ \A i \in 1 .. Len(s) : a[i + 1] = s[i]
  OBVIOUS
<1> HIDE DEF a
<1>2. \A i \in 1 .. Len(a) : i # 1 => i - 1 \in 1 .. Len(s) /\ a[i] = s[i - 1]
  <2>1. ASSUME NEW i \in 1 .. Len(a), i # 1 PROVE i - 1 \in 1 .. Len(s) /\ a[i] = s[i - 1]
    <3>1. i - 1 \in 1 .. Len(s) /\ i - 1 + 1 = i
      BY <1>1, <2>1
    <3> QED BY <1>1, <3>1
  <2> QED BY <2>1
<1>3. ASSUME NEW i \in 1 .. Len(a), NEW j \in 1 .. Len(a), a[i] = a[j] PROVE i = j
  <2>1. CASE i = 1 /\ j # 1
    BY <1>1, <1>2, <1>3, <2>1 DEF In
  <2>2. CASE i # 1 /\ j = 1
    BY <1>1, <1>2, <1>3, <2>2 DEF In
  <2>3. CASE i # 1 /\ j # 1
    <3>1. i - 1 = j - 1
      BY <1>2, <1>3, <2>3 DEF Injective
    <3> QED BY <3>1
  <2> QED BY <2>1, <2>2, <2>3
<1>4. \A x : In(x, a) <=> In(x, s) \/ x = t
  <2>1. ASSUME NEW x, In(x, a) PROVE In(x, s) \/ x = t
    BY <1>1, <1>2, <2>1 DEF In
  <2>2. ASSUME NEW x, In(x, s) \/ x = t PROVE In(x, a)
    <3>1. CASE x = t
      <4>1. 1 \in 1 .. Len(a)
        BY <1>1
      <4> QED BY <1>1, <3>1, <4>1 DEF In
    <3>2. CASE In(x, s)
      <4>1. PICK i \in 1 .. Len(s) : s[i] = x
        BY <3>2 DEF In
      <4>2. i + 1 \in 1 .. Len(a) /\ a[i + 1] = x
        BY <1>1, <4>1
      <4> QED BY <4>2 DEF In
    <3> QED BY <2>2, <3>1, <3>2
  <2> QED BY <2>1, <2>2
<1>5. First(a) = t
  <2>1. a # <<>>
    BY <1>1
  <2> QED BY <1>1, <2>1 DEF First
<1>6. Injective(a)
  BY <1>3 DEF Injective
<1> QED BY <1>1, <1>4, <1>5, <1>6 DEF a

(* A thread goes to the front of the sleep list.                           *)
LEMMA ThreadSleepUntilStep ==
    ASSUME IInv, NEW t \in Threads, ThreadSleepUntil(t)
    PROVE  /\ IInv'
           /\ \A q \in Queues : Lists'[QueueOf(q)] = Lists[QueueOf(q)]
           /\ \A c \in Cpus : Lists'[WalkOf(c)] = Lists[WalkOf(c)]
<1> DEFINE L == Lists[Sleepers]
           s == <<t>> \o Those(L, Threads \ {t})
<1>1. TypeOK /\ Sleepers \in Places /\ Sleepers[2] # "walk" /\ Asked(Sleepers) = {"deadline"}
  BY PlaceFacts DEF IInv
<1>2. th_state[t] = "RUNNING" /\ ~In(t, L)
  BY <1>1, ListFacts DEF ThreadSleepUntil
<1>3. L = List(s_sleep_list) /\ L \in Seq(Threads) /\ Injective(L)
  <2>1. L = List(s_sleep_list) /\ Chained(th_wait_next, s_sleep_list, L)
    BY ListFacts
  <2> QED BY <2>1, ChainFacts
<1>4. /\ th_wait_next' = Chain(th_wait_next, s) /\ s_sleep_list' = t
      /\ wq_head' = wq_head /\ wq_tail' = wq_tail /\ walk' = walk /\ adding' = adding
      /\ th_state' = [th_state EXCEPT ![t] = "WAITING"]
      /\ blocked_on' = [blocked_on EXCEPT ![t] = {"deadline"}]
      /\ th_due' = [th_due EXCEPT ![t] = FALSE]
  BY <1>3 DEF ThreadSleepUntil, SleepListPush
<1> HIDE DEF L
<1>5. /\ s \in Seq(Threads) /\ Injective(s) /\ First(s) = t
      /\ \A x : In(x, s) <=> In(x, L) \/ x = t
  <2> DEFINE u == Those(L, Threads \ {t})
  <2>1. /\ u \in Seq(Threads) /\ Injective(u)
        /\ \A x : In(x, u) <=> In(x, L) /\ x \in Threads \ {t}
    BY <1>3, ThoseIs
  <2>2. \A x : In(x, L) => x \in Threads
    BY <1>1, ListFacts DEF L
  <2> HIDE DEF u
  <2>3. /\ <<t>> \o u \in Seq(Threads) /\ Injective(<<t>> \o u) /\ First(<<t>> \o u) = t
        /\ \A x : In(x, <<t>> \o u) <=> In(x, u) \/ x = t
    BY <2>1, PushIs
  <2> QED BY <1>2, <2>1, <2>2, <2>3 DEF u
<1> HIDE DEF s
<1>6. /\ th_wait_next' \in [Threads -> Threads \cup {Null}]
      /\ Chained(th_wait_next', t, s)
      /\ \A x \in Threads : ~In(x, s) => th_wait_next'[x] = th_wait_next[x]
  <2>1. th_wait_next \in [Threads -> Threads \cup {Null}]
    BY <1>1 DEF TypeOK
  <2> QED BY <1>4, <1>5, <2>1, ChainIs
<1>7. IInv' /\ Lists' = [Lists EXCEPT ![Sleepers] = s]
  <2>1. \A r \in Places : r # Sleepers => HeadNext(r) = HeadNow(r)
    BY <1>4, PlaceFacts DEF HeadNow, HeadNext, HeadAt, QueueOf, WalkOf, Sleepers
  <2>2. Chained(th_wait_next', HeadNext(Sleepers), s)
    <3>1. HeadNext(Sleepers) = t
      BY <1>4 DEF HeadNow, HeadNext, HeadAt, Sleepers
    <3> QED BY <1>6, <3>1
  <2>3. \A x \in Threads : ~In(x, Lists[Sleepers]) /\ x # t => th_wait_next'[x] = th_wait_next[x]
    BY <1>5, <1>6 DEF L
  <2>4. /\ \A q \in Queues : QueueOf(q) = Sleepers => wq_tail'[q] = Final(s)
        /\ \A q \in Queues : QueueOf(q) # Sleepers => wq_tail'[q] = wq_tail[q]
    <3>1. \A q \in Queues : QueueOf(q) # Sleepers
      BY DEF QueueOf, Sleepers
    <3> QED BY <1>4, <3>1
  <2>5. /\ th_state' = [th_state EXCEPT ![t] = "WAITING"]
        /\ blocked_on' = [blocked_on EXCEPT ![t] = Asked(Sleepers)]
        /\ adding' = adding /\ walk' = walk
    BY <1>1, <1>4
  <2>6. /\ th_due' \in [Threads -> BOOLEAN]
        /\ wq_head' \in [Queues -> Threads \cup {Null}]
        /\ wq_tail' \in [Queues -> Threads \cup {Null}]
        /\ s_sleep_list' \in Threads \cup {Null}
    BY <1>1, <1>4 DEF TypeOK
  <2>7. \A x : In(x, s) <=> In(x, Lists[Sleepers]) \/ x = t
    BY <1>5 DEF L
  <2>8. s \in Seq(Threads) /\ th_wait_next' \in [Threads -> Threads \cup {Null}]
    BY <1>5, <1>6
  <2>9. Sleepers \in Places /\ Sleepers[2] # "walk" /\ th_state[t] = "RUNNING"
    BY <1>1, <1>2
  <2> QED BY <2>1, <2>2, <2>3, <2>4, <2>5, <2>6, <2>7, <2>8, <2>9, JoinStep, ZenonT(30)
<1>8. \A r \in Places : r # Sleepers => Lists'[r] = Lists[r]
  <2>1. Lists \in [Places -> Seq(Threads)]
    BY DEF IInv, Linked
  <2> QED BY <1>7, <2>1
<1>9. \A q \in Queues : QueueOf(q) \in Places /\ QueueOf(q) # Sleepers
  BY PlaceFacts DEF QueueOf, Sleepers
<1>10. \A c \in Cpus : WalkOf(c) \in Places /\ WalkOf(c) # Sleepers
  BY PlaceFacts DEF WalkOf, Sleepers
<1> QED BY <1>7, <1>8, <1>9, <1>10

PointersTyped ==
    /\ th_wait_next \in [Threads -> Threads \cup {Null}]
    /\ wq_head \in [Queues -> Threads \cup {Null}]
    /\ wq_tail \in [Queues -> Threads \cup {Null}]
    /\ s_sleep_list \in Threads \cup {Null}
    /\ walk \in [Cpus -> Threads \cup {Null}]

(* The threads of l are those of s and those of w.                         *)
Split(l, s, w) ==
    /\ \A x : In(x, l) <=> In(x, s) \/ In(x, w)
    /\ \A x : ~(In(x, s) /\ In(x, w))

(* A step sets the tail of the queue at A to the last thread of s, and no  *)
(* other one.                                                              *)
TailSet(A, s) ==
    /\ \A q \in Queues : QueueOf(q) = A => wq_tail'[q] = Final(s)
    /\ \A q \in Queues : QueueOf(q) # A => wq_tail'[q] = wq_tail[q]

(* Heads and links that a step leaves alone, when it takes threads from A. *)
OthersKept(A, c) ==
    /\ \A r \in Places : r # A /\ r # WalkOf(c) => HeadNext(r) = HeadNow(r)
    /\ \A x \in Threads : ~In(x, Lists[A]) => th_wait_next'[x] = th_wait_next[x]
    /\ threadVars' = threadVars

(* The lists after that.                                                   *)
Taken(A, c, s, w) == [Lists EXCEPT ![A] = s, ![WalkOf(c)] = w]

(* A CPU that is not waking anybody takes threads from the list at A: s    *)
(* stay there, w are to be woken.                                          *)
LEMMA TakeStep ==
    ASSUME IInv, NEW c \in Cpus, walk[c] = Null,
           NEW A \in Places, A[2] # "walk",
           NEW s \in Seq(Threads), NEW w \in Seq(Threads),
           Split(Lists[A], s, w),
           Chained(th_wait_next', HeadNext(A), s),
           Chained(th_wait_next', walk'[c], w),
           OthersKept(A, c), TailSet(A, s), PointersTyped'
    PROVE  IInv' /\ Lists' = Taken(A, c, s, w)
<1> DEFINE W == WalkOf(c)
           M == [Lists EXCEPT ![A] = s, ![W] = w]
           C == {A, W}
<1> USE DEF Split, TailSet, OthersKept
<1>1. TypeOK /\ \A x \in Threads : adding[x] = Null
  BY DEF IInv
<1>2. W \in Places /\ W[2] = "walk" /\ W # A /\ C \in SUBSET Places
  BY PlaceFacts
<1>3. \A x : ~In(x, Lists[W])
  <2>1. Chained(th_wait_next, walk[c], Lists[W])
    BY ListFacts
  <2>2. Lists[W] = <<>>
    BY <2>1, ChainFacts
  <2> QED BY <2>2, ChainNone
<1>4. /\ M \in [Places -> Seq(Threads)] /\ M[A] = s /\ M[W] = w
      /\ \A r \in Places : r # A /\ r # W => M[r] = Lists[r]
  <2>1. Lists \in [Places -> Seq(Threads)]
    BY DEF IInv, Linked
  <2> QED BY <1>2, <2>1
<1>5. HeadNext(W) = walk'[c]
  BY DEF HeadNow, HeadNext, HeadAt, WalkOf
<1>6. \A q \in Queues : QueueOf(q) # W
  BY DEF QueueOf, WalkOf
<1> HIDE DEF M, W
<1>7. \A r \in Places, u \in Places : \A x \in Threads :
         In(x, Lists[r]) /\ In(x, Lists[u]) => r = u
  BY DEF IInv, Linked
<1>8. Linked(th_wait_next', wq_head', wq_tail', s_sleep_list', walk', M)
  <2>1. \A r \in Places \ C : M[r] = Lists[r] /\ HeadNext(r) = HeadNow(r)
    BY <1>4 DEF W
  <2>2. \A r \in C : Chained(th_wait_next', HeadNext(r), M[r])
    BY <1>4, <1>5
  <2>3. \A r \in Places \ C : \A x \in Threads :
           In(x, Lists[r]) => th_wait_next'[x] = th_wait_next[x]
    BY <1>7
  <2>4. \A r \in C : \A x \in Threads : In(x, M[r]) => \A u \in Places \ C : ~In(x, Lists[u])
    BY <1>4, <1>7
  <2>5. \A r, u \in C : \A x \in Threads : In(x, M[r]) /\ In(x, M[u]) => r = u
    BY <1>4
  <2>6. \A q \in Queues : QueueOf(q) \in C => wq_tail'[q] = Final(M[QueueOf(q)])
    BY <1>4, <1>6
  <2>7. \A q \in Queues : QueueOf(q) \notin C => wq_tail'[q] = wq_tail[q]
    OBVIOUS
  <2> HIDE DEF C
  <2> QED BY <1>2, <1>4, <2>1, <2>2, <2>3, <2>4, <2>5, <2>6, <2>7, Relink
<1>9. Occupied(th_state', blocked_on', M)
  <2>1. th_state' = th_state /\ blocked_on' = blocked_on
    BY DEF threadVars
  <2>2. \A x : (\E r \in Places : In(x, M[r])) <=> \E r \in Places : In(x, Lists[r])
    <3>1. ASSUME NEW x, NEW r \in Places, In(x, M[r]) PROVE \E u \in Places : In(x, Lists[u])
      BY <1>2, <1>4, <3>1
    <3>2. ASSUME NEW x, NEW r \in Places, In(x, Lists[r]) PROVE \E u \in Places : In(x, M[u])
      <4>1. CASE r = A
        BY <1>2, <1>4, <3>2, <4>1
      <4>2. CASE r # A
        BY <1>3, <1>4, <3>2, <4>2
      <4> QED BY <4>1, <4>2
    <3> QED BY <3>1, <3>2
  <2>3. \A r \in Places : \A x \in Threads : In(x, M[r]) /\ r[2] # "walk" => In(x, Lists[r])
    BY <1>2, <1>4
  <2> QED BY <2>1, <2>2, <2>3 DEF IInv, Occupied
<1>10. /\ th_state' \in [Threads -> {"RUNNING", "WAITING", "READY"}]
       /\ th_due' \in [Threads -> BOOLEAN]
       /\ blocked_on' \in [Threads -> SUBSET (Queues \cup {"deadline"})]
       /\ adding' \in [Threads -> Queues \cup {Null}]
       /\ \A x \in Threads : adding'[x] = Null
  BY <1>1 DEF TypeOK, threadVars
<1>11. IInv' /\ Lists' = M
  BY <1>8, <1>9, <1>10, Adopt DEF PointersTyped
<1> QED BY <1>11 DEF M, W, Taken

(* The first waiter of a queue is taken out.                               *)
LEMMA WakeupOneStep ==
    ASSUME IInv, NEW c \in Cpus, NEW q \in Queues, WakeupOne(c, q)
    PROVE  /\ IInv' /\ wq_head[q] \in Threads
           /\ Lists[QueueOf(q)] # <<>> /\ Head(Lists[QueueOf(q)]) = wq_head[q]
           /\ Lists' = [Lists EXCEPT ![QueueOf(q)] = Tail(Lists[QueueOf(q)]),
                                     ![WalkOf(c)] = <<wq_head[q]>>]
<1> DEFINE Q == QueueOf(q)
           L == Lists[Q]
           t == wq_head[q]
<1>1. TypeOK /\ Q \in Places /\ Q[2] # "walk"
  BY PlaceFacts DEF IInv
<1>2. Chained(th_wait_next, t, L) /\ wq_tail[q] = Final(L)
  BY ListFacts
<1>3. /\ walk[c] = Null /\ t # Null
      /\ wq_head' = [wq_head EXCEPT ![q] = th_wait_next[t]]
      /\ wq_tail' = IF th_wait_next[t] = Null THEN [wq_tail EXCEPT ![q] = Null] ELSE wq_tail
      /\ th_wait_next' = [th_wait_next EXCEPT ![t] = Null]
      /\ walk' = [walk EXCEPT ![c] = t]
      /\ threadVars' = threadVars /\ s_sleep_list' = s_sleep_list
  BY DEF WakeupOne
<1>L. L = Lists[Q]
  OBVIOUS
<1> HIDE DEF L, Q
<1>4. L # <<>> /\ t \in Threads /\ In(t, L) /\ L \in Seq(Threads)
  BY <1>2, <1>3, ChainFacts
<1>5. /\ th_wait_next'[t] = Null
      /\ \A x \in Threads : x # t => th_wait_next'[x] = th_wait_next[x]
      /\ th_wait_next' \in [Threads -> Threads \cup {Null}]
      /\ wq_head'[q] = th_wait_next[t]
      /\ \A u \in Queues : u # q => wq_head'[u] = wq_head[u] /\ wq_tail'[u] = wq_tail[u]
      /\ wq_tail'[q] = IF th_wait_next[t] = Null THEN Null ELSE wq_tail[q]
      /\ wq_head' \in [Queues -> Threads \cup {Null}]
      /\ wq_tail' \in [Queues -> Threads \cup {Null}]
      /\ walk'[c] = t
      /\ \A d \in Cpus : d # c => walk'[d] = walk[d]
      /\ walk' \in [Cpus -> Threads \cup {Null}]
      /\ s_sleep_list' \in Threads \cup {Null}
  BY <1>1, <1>3, <1>4 DEF TypeOK
<1>6. /\ Chained(th_wait_next', th_wait_next[t], Tail(L)) /\ Head(L) = t
      /\ \A x : In(x, Tail(L)) <=> In(x, L) /\ x # t
  <2>1. \A x \in Threads : In(x, L) /\ x # t => th_wait_next'[x] = th_wait_next[x]
    BY <1>5
  <2> QED BY <1>2, <1>4, <2>1, ChainTail
<1>7. Chained(th_wait_next', t, <<t>>) /\ \A x : In(x, <<t>>) <=> x = t
  BY <1>4, <1>5, ChainOne
<1>8. wq_tail'[q] = Final(Tail(L))
  <2>1. Tail(L) = <<>> <=> th_wait_next[t] = Null
    BY <1>6, ChainFacts
  <2>2. Tail(L) # <<>> => Final(Tail(L)) = Final(L)
    <3>1. /\ Len(L) \in Nat /\ Len(L) >= 1 /\ Len(Tail(L)) = Len(L) - 1
          /\ \A i \in 1 .. Len(L) - 1 : Tail(L)[i] = L[i + 1]
      BY <1>4
    <3>2. ASSUME Tail(L) # <<>> PROVE Len(L) - 1 \in 1 .. Len(L) - 1 /\ Len(L) - 1 + 1 = Len(L)
      BY <1>4, <3>1, <3>2
    <3> QED BY <1>4, <3>1, <3>2 DEF Final
  <2> QED BY <1>2, <1>5, <2>1, <2>2 DEF Final
<1>9. IInv' /\ Lists' = Taken(Q, c, Tail(L), <<t>>)
  <2>1. \A r \in Places : r # Q /\ r # WalkOf(c) => HeadNext(r) = HeadNow(r)
    BY <1>3, <1>5, PlaceFacts DEF HeadNow, HeadNext, HeadAt, QueueOf, WalkOf, Sleepers, Q
  <2>2. Chained(th_wait_next', HeadNext(Q), Tail(L)) /\ Chained(th_wait_next', walk'[c], <<t>>)
    <3>1. HeadNext(Q) = wq_head'[q]
      BY DEF HeadNow, HeadNext, HeadAt, QueueOf, Q
    <3> QED BY <1>5, <1>6, <1>7, <3>1
  <2>3. /\ \A x : In(x, Lists[Q]) <=> In(x, Tail(L)) \/ In(x, <<t>>)
        /\ \A x : ~(In(x, Tail(L)) /\ In(x, <<t>>))
    BY <1>4, <1>6, <1>7, <1>L
  <2>4. \A x \in Threads : ~In(x, Lists[Q]) => th_wait_next'[x] = th_wait_next[x]
    BY <1>4, <1>5, <1>L
  <2>5. /\ \A u \in Queues : QueueOf(u) = Q => wq_tail'[u] = Final(Tail(L))
        /\ \A u \in Queues : QueueOf(u) # Q => wq_tail'[u] = wq_tail[u]
    <3>1. \A u \in Queues : QueueOf(u) = Q => u = q
      BY DEF QueueOf, Q
    <3> QED BY <1>5, <1>8, <3>1 DEF Q
  <2>6. Tail(L) \in Seq(Threads) /\ <<t>> \in Seq(Threads)
    BY <1>4
  <2>7. PointersTyped'
    BY <1>5 DEF PointersTyped
  <2>8. walk[c] = Null /\ OthersKept(Q, c)
    BY <1>3, <2>1, <2>4 DEF OthersKept
  <2>9. Split(Lists[Q], Tail(L), <<t>>) /\ TailSet(Q, Tail(L))
    BY <2>3, <2>5 DEF Split, TailSet
  <2> HIDE DEF t
  <2> QED BY <1>1, <2>2, <2>6, <2>7, <2>8, <2>9, TakeStep
<1> QED BY <1>4, <1>6, <1>9 DEF L, Q, Taken

(* All waiters of a queue are taken out.                                   *)
LEMMA WakeupAllStep ==
    ASSUME IInv, NEW c \in Cpus, NEW q \in Queues, WakeupAll(c, q)
    PROVE  /\ IInv'
           /\ Lists' = [Lists EXCEPT ![QueueOf(q)] = <<>>, ![WalkOf(c)] = Lists[QueueOf(q)]]
<1> DEFINE Q == QueueOf(q)
           L == Lists[Q]
<1>1. TypeOK /\ Q \in Places /\ Q[2] # "walk"
  BY PlaceFacts DEF IInv
<1>2. Chained(th_wait_next, wq_head[q], L) /\ L \in Seq(Threads)
  BY ListFacts, ChainFacts
<1>3. /\ walk[c] = Null
      /\ walk' = [walk EXCEPT ![c] = wq_head[q]]
      /\ wq_head' = [wq_head EXCEPT ![q] = Null]
      /\ wq_tail' = [wq_tail EXCEPT ![q] = Null]
      /\ threadVars' = threadVars /\ s_sleep_list' = s_sleep_list /\ th_wait_next' = th_wait_next
  BY DEF WakeupAll
<1>L. L = Lists[Q]
  OBVIOUS
<1> HIDE DEF L, Q
<1>4. /\ wq_head'[q] = Null /\ wq_tail'[q] = Null
      /\ \A u \in Queues : u # q => wq_head'[u] = wq_head[u] /\ wq_tail'[u] = wq_tail[u]
      /\ walk'[c] = wq_head[q]
      /\ \A d \in Cpus : d # c => walk'[d] = walk[d]
      /\ th_wait_next' \in [Threads -> Threads \cup {Null}]
      /\ wq_head' \in [Queues -> Threads \cup {Null}]
      /\ wq_tail' \in [Queues -> Threads \cup {Null}]
      /\ walk' \in [Cpus -> Threads \cup {Null}]
      /\ s_sleep_list' \in Threads \cup {Null}
  BY <1>1, <1>3 DEF TypeOK
<1>5. \A r \in Places : r # Q /\ r # WalkOf(c) => HeadNext(r) = HeadNow(r)
  BY <1>3, <1>4, PlaceFacts DEF HeadNow, HeadNext, HeadAt, QueueOf, WalkOf, Sleepers, Q
<1>6. Chained(th_wait_next', HeadNext(Q), <<>>) /\ Chained(th_wait_next', walk'[c], L)
  <2>1. HeadNext(Q) = Null
    BY <1>4 DEF HeadNow, HeadNext, HeadAt, QueueOf, Q
  <2>2. Chained(th_wait_next', Null, <<>>)
    BY ChainNone
  <2> QED BY <1>2, <1>3, <1>4, <2>1, <2>2
<1>7. /\ \A x : In(x, Lists[Q]) <=> In(x, <<>>) \/ In(x, L)
      /\ \A x : ~(In(x, <<>>) /\ In(x, L))
  <2>1. \A x : ~In(x, <<>>)
    BY DEF In
  <2> QED BY <1>L, <2>1
<1>8. /\ \A u \in Queues : QueueOf(u) = Q => wq_tail'[u] = Final(<<>>)
      /\ \A u \in Queues : QueueOf(u) # Q => wq_tail'[u] = wq_tail[u]
  <2>1. \A u \in Queues : QueueOf(u) = Q => u = q
    BY DEF QueueOf, Q
  <2>2. Final(<<>>) = Null
    BY DEF Final
  <2> QED BY <1>4, <2>1, <2>2 DEF Q
<1>9. IInv' /\ Lists' = Taken(Q, c, <<>>, L)
  <2>1. \A x \in Threads : ~In(x, Lists[Q]) => th_wait_next'[x] = th_wait_next[x]
    BY <1>3
  <2>2. <<>> \in Seq(Threads) /\ L \in Seq(Threads)
    BY <1>2
  <2>3. walk[c] = Null /\ OthersKept(Q, c)
    BY <1>3, <1>5, <2>1 DEF OthersKept
  <2>4. Split(Lists[Q], <<>>, L) /\ TailSet(Q, <<>>)
    BY <1>7, <1>8 DEF Split, TailSet
  <2>5. PointersTyped'
    BY <1>4 DEF PointersTyped
  <2> QED BY <1>1, <1>6, <2>2, <2>3, <2>4, <2>5, TakeStep
<1> QED BY <1>9 DEF L, Q, Taken

(* The sleepers that are due leave the sleep list.                         *)
LEMMA TimerExpireStep ==
    ASSUME IInv, NEW c \in Cpus, TimerExpire(c)
    PROVE  /\ IInv'
           /\ \E s, w \in Seq(Threads) :
                 Split(Lists[Sleepers], s, w) /\ Lists' = Taken(Sleepers, c, s, w)
<1> DEFINE L == Lists[Sleepers]
           s == Those(L, Threads \ Due)
           e == Those(L, Due)
           w == Reverse(e)
<1>1. TypeOK /\ Sleepers \in Places /\ Sleepers[2] # "walk"
  BY PlaceFacts DEF IInv
<1>2. L = List(s_sleep_list) /\ Chained(th_wait_next, s_sleep_list, L)
  BY ListFacts
<1>3. /\ walk[c] = Null
      /\ s_sleep_list' = First(s)
      /\ th_wait_next' = Chain(Chain(th_wait_next, s), w)
      /\ walk' = [walk EXCEPT ![c] = First(w)]
      /\ threadVars' = threadVars /\ wq_head' = wq_head /\ wq_tail' = wq_tail
  BY <1>2 DEF TimerExpire
<1>4. L \in Seq(Threads) /\ Injective(L) /\ \A x : In(x, L) => x \in Threads
  BY <1>2, ChainFacts
<1> HIDE DEF L
<1>5. /\ s \in Seq(Threads) /\ Injective(s)
      /\ \A x : In(x, s) <=> In(x, L) /\ x \in Threads \ Due
  BY <1>4, ThoseIs
<1>6. /\ e \in Seq(Threads) /\ Injective(e)
      /\ \A x : In(x, e) <=> In(x, L) /\ x \in Due
  <2>1. Due \in SUBSET Threads
    BY DEF Due
  <2> QED BY <1>4, <2>1, ThoseIs
<1> HIDE DEF s, e
<1>7. /\ w \in Seq(Threads) /\ Injective(w)
      /\ \A x : In(x, w) <=> In(x, L) /\ x \in Due
  BY <1>6, ReverseIs
<1> HIDE DEF w
<1>8. Split(L, s, w)
  BY <1>4, <1>5, <1>7 DEF Split
<1>9. th_wait_next \in [Threads -> Threads \cup {Null}]
  BY <1>1 DEF TypeOK
<1> DEFINE n == Chain(th_wait_next, s)
<1>10. /\ n \in [Threads -> Threads \cup {Null}]
       /\ Chained(n, First(s), s)
       /\ \A x \in Threads : ~In(x, s) => n[x] = th_wait_next[x]
  BY <1>5, <1>9, ChainIs
<1> HIDE DEF n
<1>11. /\ th_wait_next' \in [Threads -> Threads \cup {Null}]
       /\ Chained(th_wait_next', First(w), w)
       /\ \A x \in Threads : ~In(x, w) => th_wait_next'[x] = n[x]
  <2>1. th_wait_next' = Chain(n, w)
    BY <1>3 DEF n
  <2> QED BY <1>7, <1>10, <2>1, ChainIs
<1>12. Chained(th_wait_next', First(s), s)
  <2>1. \A x \in Threads : In(x, s) => th_wait_next'[x] = n[x]
    BY <1>8, <1>11 DEF Split
  <2> QED BY <1>10, <2>1, ChainKept
<1>13. /\ First(s) \in Threads \cup {Null} /\ First(w) \in Threads \cup {Null}
  BY <1>11, <1>12, ChainFacts
<1>14. walk'[c] = First(w) /\ \A d \in Cpus : d # c => walk'[d] = walk[d]
  BY <1>1, <1>3 DEF TypeOK
<1>15. PointersTyped'
  BY <1>1, <1>3, <1>11, <1>13 DEF PointersTyped, TypeOK
<1>16. OthersKept(Sleepers, c)
  <2>1. \A r \in Places : r # Sleepers /\ r # WalkOf(c) => HeadNext(r) = HeadNow(r)
    BY <1>3, <1>14, PlaceFacts DEF HeadNow, HeadNext, HeadAt, QueueOf, WalkOf, Sleepers
  <2>2. \A x \in Threads : ~In(x, L) => th_wait_next'[x] = th_wait_next[x]
    BY <1>8, <1>10, <1>11 DEF Split
  <2> QED BY <1>3, <2>1, <2>2 DEF OthersKept, L
<1>17. TailSet(Sleepers, s)
  <2>1. \A q \in Queues : QueueOf(q) # Sleepers
    BY DEF QueueOf, Sleepers
  <2> QED BY <1>3, <2>1 DEF TailSet
<1>18. Chained(th_wait_next', HeadNext(Sleepers), s) /\ Chained(th_wait_next', walk'[c], w)
  <2>1. HeadNext(Sleepers) = First(s)
    BY <1>3 DEF HeadNext, HeadAt, Sleepers
  <2> QED BY <1>11, <1>12, <1>14, <2>1
<1>19. IInv' /\ Lists' = Taken(Sleepers, c, s, w)
  <2>1. Split(Lists[Sleepers], s, w) /\ walk[c] = Null
    BY <1>3, <1>8 DEF L
  <2> QED BY <1>1, <1>5, <1>7, <1>15, <1>16, <1>17, <1>18, <2>1, TakeStep
<1> QED BY <1>5, <1>7, <1>8, <1>19 DEF L

(* A thread of a chain is made runnable and leaves it.                     *)
LEMMA WakeNextStep ==
    ASSUME IInv, NEW c \in Cpus, WakeNext(c)
    PROVE  /\ IInv' /\ walk[c] \in Threads /\ In(walk[c], Lists[WalkOf(c)])
           /\ th_state' = [th_state EXCEPT ![walk[c]] = "READY"]
           /\ Lists' = [Lists EXCEPT ![WalkOf(c)] = Tail(Lists[WalkOf(c)])]
           /\ \A x : In(x, Tail(Lists[WalkOf(c)])) <=> In(x, Lists[WalkOf(c)]) /\ x # walk[c]
<1> DEFINE W == WalkOf(c)
           L == Lists[W]
           t == walk[c]
           M == [Lists EXCEPT ![W] = Tail(L)]
<1>1. TypeOK /\ W \in Places /\ W[2] = "walk" /\ \A x \in Threads : adding[x] = Null
  BY PlaceFacts DEF IInv
<1>2. Chained(th_wait_next, t, L) /\ L = Lists[W]
  BY ListFacts
<1>3. /\ t # Null
      /\ walk' = [walk EXCEPT ![c] = th_wait_next[t]]
      /\ th_wait_next' = [th_wait_next EXCEPT ![t] = Null]
      /\ ThreadWake(t)
      /\ UNCHANGED <<th_due, adding, blocked_on, wq_head, wq_tail, s_sleep_list>>
  BY DEF WakeNext
<1>4. /\ M \in [Places -> Seq(Threads)] /\ M[W] = Tail(L)
      /\ \A r \in Places : r # W => M[r] = Lists[r]
  <2>1. L \in Seq(Threads) /\ L # <<>>
    BY <1>2, <1>3, ChainFacts
  <2>2. Lists \in [Places -> Seq(Threads)]
    BY DEF IInv, Linked
  <2>3. Tail(L) \in Seq(Threads)
    BY <2>1
  <2> QED BY <1>1, <2>2, <2>3
<1>5. \A q \in Queues : QueueOf(q) # W
  BY DEF QueueOf, WalkOf
<1>6. \A r \in Places : r # W => HeadNext(r) = HeadNow(r)
  <2>1. \A d \in Cpus : d # c => walk'[d] = walk[d]
    BY <1>1, <1>3 DEF TypeOK
  <2> QED BY <1>3, <2>1, PlaceFacts DEF HeadNow, HeadNext, HeadAt, QueueOf, WalkOf, Sleepers
<1>7. HeadNext(W) = walk'[c]
  BY DEF HeadNext, HeadAt, WalkOf
<1> HIDE DEF L, W, M
<1>8. L # <<>> /\ t \in Threads /\ In(t, L)
  BY <1>2, <1>3, ChainFacts
<1>9. /\ th_wait_next' \in [Threads -> Threads \cup {Null}]
      /\ \A x \in Threads : x # t => th_wait_next'[x] = th_wait_next[x]
      /\ walk'[c] = th_wait_next[t]
      /\ walk' \in [Cpus -> Threads \cup {Null}]
  BY <1>1, <1>3, <1>8 DEF TypeOK
<1>10. /\ Chained(th_wait_next', th_wait_next[t], Tail(L))
       /\ \A x : In(x, Tail(L)) <=> In(x, L) /\ x # t
  <2>1. \A x \in Threads : In(x, L) /\ x # t => th_wait_next'[x] = th_wait_next[x]
    BY <1>9
  <2> QED BY <1>2, <1>8, <2>1, ChainTail
<1>11. \A r \in Places, u \in Places : \A x \in Threads :
          In(x, Lists[r]) /\ In(x, Lists[u]) => r = u
  BY DEF IInv, Linked
<1>12. th_state' = [th_state EXCEPT ![t] = "READY"]
  <2>1. th_state[t] = "WAITING"
    BY <1>1, <1>2, <1>8 DEF IInv, Occupied
  <2> QED BY <1>3, <2>1 DEF ThreadWake
<1>13. Linked(th_wait_next', wq_head', wq_tail', s_sleep_list', walk', M)
  <2> DEFINE C == {W}
  <2>1. \A r \in Places \ C : M[r] = Lists[r] /\ HeadNext(r) = HeadNow(r)
    BY <1>4, <1>6
  <2>2. \A r \in C : Chained(th_wait_next', HeadNext(r), M[r])
    BY <1>4, <1>7, <1>9, <1>10
  <2>3. \A r \in Places \ C : \A x \in Threads :
           In(x, Lists[r]) => th_wait_next'[x] = th_wait_next[x]
    BY <1>1, <1>2, <1>8, <1>9, <1>11
  <2>4. \A r \in C : \A x \in Threads : In(x, M[r]) => \A u \in Places \ C : ~In(x, Lists[u])
    <3>1. ASSUME NEW x \in Threads, In(x, M[W]), NEW u \in Places, u # W
          PROVE  ~In(x, Lists[u])
      <4>1. In(x, Tail(L))
        BY <1>4, <3>1
      <4>2. In(x, Lists[W])
        BY <1>2, <1>10, <4>1
      <4> QED BY <1>1, <1>11, <3>1, <4>2
    <3> QED BY <3>1
  <2>5. \A r, u \in C : \A x \in Threads : In(x, M[r]) /\ In(x, M[u]) => r = u
    OBVIOUS
  <2>6. \A q \in Queues : QueueOf(q) \in C => wq_tail'[q] = Final(M[QueueOf(q)])
    BY <1>5
  <2>7. \A q \in Queues : QueueOf(q) \notin C => wq_tail'[q] = wq_tail[q]
    BY <1>3
  <2>8. C \in SUBSET Places
    BY <1>1
  <2> HIDE DEF C
  <2> QED BY <1>4, <2>1, <2>2, <2>3, <2>4, <2>5, <2>6, <2>7, <2>8, Relink
<1>14. Occupied(th_state', blocked_on', M)
  <2>1. /\ th_state'[t] = "READY" /\ blocked_on' = blocked_on
        /\ \A x \in Threads : x # t => th_state'[x] = th_state[x]
    BY <1>1, <1>3, <1>8, <1>12 DEF TypeOK
  <2>2. \A r \in Places : \A x \in Threads : In(x, M[r]) <=> In(x, Lists[r]) /\ x # t
    <3>1. ASSUME NEW r \in Places, NEW x \in Threads PROVE In(x, M[r]) <=> In(x, Lists[r]) /\ x # t
      <4>1. CASE r = W
        BY <1>2, <1>4, <1>10, <4>1
      <4>2. CASE r # W
        BY <1>1, <1>2, <1>4, <1>8, <1>11, <4>2
      <4> QED BY <4>1, <4>2
    <3> QED BY <3>1
  <2>3. \A x \in Threads : th_state[x] = "WAITING" <=> \E r \in Places : In(x, Lists[r])
    BY DEF IInv, Occupied
  <2>4. \A x \in Threads : th_state'[x] = "WAITING" <=> \E r \in Places : In(x, M[r])
    BY <2>1, <2>2, <2>3
  <2>5. \A r \in Places : \A x \in Threads :
           In(x, M[r]) /\ r[2] # "walk" => blocked_on'[x] = Asked(r)
    BY <2>1, <2>2 DEF IInv, Occupied
  <2> QED BY <2>4, <2>5 DEF Occupied
<1>15. /\ th_state' \in [Threads -> {"RUNNING", "WAITING", "READY"}]
       /\ th_due' \in [Threads -> BOOLEAN]
       /\ blocked_on' \in [Threads -> SUBSET (Queues \cup {"deadline"})]
       /\ adding' \in [Threads -> Queues \cup {Null}]
       /\ \A x \in Threads : adding'[x] = Null
       /\ wq_head' \in [Queues -> Threads \cup {Null}]
       /\ wq_tail' \in [Queues -> Threads \cup {Null}]
       /\ s_sleep_list' \in Threads \cup {Null}
  BY <1>1, <1>3, <1>12 DEF TypeOK
<1>16. IInv' /\ Lists' = M
  BY <1>9, <1>13, <1>14, <1>15, Adopt
<1> QED BY <1>8, <1>10, <1>12, <1>16 DEF M, L, W

(* Steps that touch no list and let nobody wait or stop waiting.           *)
LEMMA QuietStep ==
    ASSUME IInv,
           UNCHANGED <<th_wait_next, wq_head, wq_tail, s_sleep_list, walk, adding>>,
           th_state' \in [Threads -> {"RUNNING", "WAITING", "READY"}],
           th_due' \in [Threads -> BOOLEAN],
           blocked_on' \in [Threads -> SUBSET (Queues \cup {"deadline"})],
           \A t \in Threads : th_state'[t] = "WAITING" <=> th_state[t] = "WAITING",
           \A t \in Threads : th_state[t] = "WAITING" => blocked_on'[t] = blocked_on[t]
    PROVE  IInv' /\ Lists' = Lists
<1>1. TypeOK /\ \A t \in Threads : adding[t] = Null
  BY DEF IInv
<1>2. Linked(th_wait_next', wq_head', wq_tail', s_sleep_list', walk', Lists)
  BY DEF IInv
<1>3. Occupied(th_state', blocked_on', Lists)
  <2>1. Occupied(th_state, blocked_on, Lists)
    BY DEF IInv
  <2> QED BY <2>1 DEF Occupied
<1>4. /\ adding' \in [Threads -> Queues \cup {Null}]
      /\ \A t \in Threads : adding'[t] = Null
      /\ th_wait_next' \in [Threads -> Threads \cup {Null}]
      /\ wq_head' \in [Queues -> Threads \cup {Null}]
      /\ wq_tail' \in [Queues -> Threads \cup {Null}]
      /\ s_sleep_list' \in Threads \cup {Null}
      /\ walk' \in [Cpus -> Threads \cup {Null}]
  BY <1>1 DEF TypeOK
<1> QED BY <1>2, <1>3, <1>4, Adopt

(* A woken thread runs; a deadline passes; nothing happens.                *)
LEMMA OtherSteps ==
    ASSUME IInv,
           \/ \E t \in Threads : Resume(t) \/ DeadlinePasses(t)
           \/ UNCHANGED vars
    PROVE  /\ IInv' /\ Lists' = Lists
           /\ \A t \in Threads : th_state'[t] = "WAITING" <=> th_state[t] = "WAITING"
<1>1. TypeOK
  BY DEF IInv
<1>2. CASE \E t \in Threads : Resume(t)
  <2>1. PICK t \in Threads : Resume(t)
    BY <1>2
  <2>2. /\ UNCHANGED <<th_wait_next, wq_head, wq_tail, s_sleep_list, walk, adding>>
        /\ th_state' \in [Threads -> {"RUNNING", "WAITING", "READY"}]
        /\ th_due' \in [Threads -> BOOLEAN]
        /\ blocked_on' \in [Threads -> SUBSET (Queues \cup {"deadline"})]
        /\ \A x \in Threads : th_state'[x] = "WAITING" <=> th_state[x] = "WAITING"
        /\ \A x \in Threads : th_state[x] = "WAITING" => blocked_on'[x] = blocked_on[x]
    BY <1>1, <2>1 DEF Resume, TypeOK
  <2> QED BY <2>2, QuietStep
<1>3. CASE \E t \in Threads : DeadlinePasses(t)
  <2>1. PICK t \in Threads : DeadlinePasses(t)
    BY <1>3
  <2>2. /\ UNCHANGED <<th_wait_next, wq_head, wq_tail, s_sleep_list, walk, adding>>
        /\ th_state' = th_state /\ blocked_on' = blocked_on
        /\ th_due' \in [Threads -> BOOLEAN]
    BY <1>1, <2>1 DEF DeadlinePasses, TypeOK
  <2> QED BY <1>1, <2>2, QuietStep DEF TypeOK
<1>4. CASE UNCHANGED vars
  <2>1. /\ UNCHANGED <<th_wait_next, wq_head, wq_tail, s_sleep_list, walk, adding>>
        /\ th_state' = th_state /\ blocked_on' = blocked_on /\ th_due' = th_due
    BY <1>4 DEF vars, threadVars
  <2> QED BY <1>1, <2>1, QuietStep DEF TypeOK
<1> QED BY <1>2, <1>3, <1>4

(* At first every list is empty.                                           *)
LEMMA InitInv == Init => IInv
<1> SUFFICES ASSUME Init PROVE IInv
  OBVIOUS
<1>1. TypeOK /\ \A t \in Threads : adding[t] = Null
  BY DEF Init, TypeOK
<1>2. \A r \in Places : HeadAt(wq_head, s_sleep_list, walk, r) = Null
  BY PlaceFacts DEF Init, HeadAt, QueueOf, WalkOf, Sleepers
<1>3. Chained(th_wait_next, Null, <<>>) /\ \A x : ~In(x, <<>>)
  BY ChainNone
<1>4. \A r \in Places : Lists[r] = <<>>
  BY <1>2 DEF Lists, ListFrom
<1>5. Lists \in [Places -> Seq(Threads)]
  <2>1. Lists = [r \in Places |-> Lists[r]]
    BY DEF Lists
  <2>2. <<>> \in Seq(Threads)
    OBVIOUS
  <2> QED BY <1>4, <2>1, <2>2
<1>6. \A q \in Queues : wq_tail[q] = Final(Lists[QueueOf(q)])
  BY <1>4, PlaceFacts DEF Init, Final
<1>7. Linked(th_wait_next, wq_head, wq_tail, s_sleep_list, walk, Lists)
  BY <1>2, <1>3, <1>4, <1>5, <1>6 DEF Linked
<1>8. Occupied(th_state, blocked_on, Lists)
  BY <1>3, <1>4 DEF Occupied, Init
<1> QED BY <1>1, <1>7, <1>8 DEF IInv

(* Every step preserves the invariant.                                     *)
LEMMA NextInv == IInv /\ [Next]_vars => IInv'
<1> SUFFICES ASSUME IInv, [Next]_vars PROVE IInv'
  OBVIOUS
<1>1. ASSUME NEW t \in Threads, NEW q \in Queues, WaitQueueSleep(t, q) PROVE IInv'
  BY <1>1, WaitQueueSleepStep
<1>2. ASSUME NEW t \in Threads, ThreadSleepUntil(t) PROVE IInv'
  BY <1>2, ThreadSleepUntilStep
<1>3. ASSUME NEW c \in Cpus, NEW q \in Queues, WakeupOne(c, q) PROVE IInv'
  BY <1>3, WakeupOneStep
<1>4. ASSUME NEW c \in Cpus, NEW q \in Queues, WakeupAll(c, q) PROVE IInv'
  BY <1>4, WakeupAllStep
<1>5. ASSUME NEW c \in Cpus, TimerExpire(c) PROVE IInv'
  BY <1>5, TimerExpireStep
<1>6. ASSUME NEW c \in Cpus, WakeNext(c) PROVE IInv'
  BY <1>6, WakeNextStep
<1>7. ASSUME NEW t \in Threads, Resume(t) \/ DeadlinePasses(t) PROVE IInv'
  BY <1>7, OtherSteps
<1>8. CASE UNCHANGED vars
  BY <1>8, OtherSteps
<1> QED BY <1>1, <1>2, <1>3, <1>4, <1>5, <1>6, <1>7, <1>8 DEF Next

(* The inductive invariant holds throughout.                               *)
THEOREM Invariance == Spec => []IInv
BY InitInv, NextInv, PTL DEF Spec

(* The pointers and states keep their types, and the two pointers of a     *)
(* queue are both set or both null (wait_queue.c).                         *)
THEOREM TypeCorrect == Spec => []TypeOK
<1>1. IInv => TypeOK
  BY DEF IInv
<1> QED BY <1>1, Invariance, PTL

(* The threads on the lists, as On gives them.                             *)
LEMMA OnFacts ==
    ASSUME IInv
    PROVE  \A x : /\ \A q \in Queues : x \in On(wq_head[q]) <=> In(x, Lists[QueueOf(q)])
                  /\ \A c \in Cpus : x \in On(walk[c]) <=> In(x, Lists[WalkOf(c)])
                  /\ x \in On(s_sleep_list) <=> In(x, Lists[Sleepers])
<1>1. ASSUME NEW r \in Places, NEW x PROVE x \in ToSet(Lists[r]) <=> In(x, Lists[r])
  BY ListFacts, ToSetIn
<1> QED BY <1>1, ListFacts, PlaceFacts DEF On

(* A waiting thread is on the list it asked for or is being woken.         *)
LEMMA Whereabouts ==
    ASSUME IInv, NEW t \in Threads, th_state[t] = "WAITING"
    PROVE  \/ BeingWoken(t)
           \/ \E q \in Queues : blocked_on[t] = {q} /\ t \in On(wq_head[q])
           \/ blocked_on[t] = {"deadline"} /\ t \in On(s_sleep_list)
<1>1. PICK r \in Places : In(t, Lists[r])
  BY DEF IInv, Occupied
<1>2. CASE r = Sleepers
  <2>1. blocked_on[t] = {"deadline"}
    BY <1>1, <1>2, PlaceFacts DEF IInv, Occupied
  <2> QED BY <1>1, <1>2, <2>1, OnFacts
<1>3. ASSUME NEW q \in Queues, r = QueueOf(q)
      PROVE  blocked_on[t] = {q} /\ t \in On(wq_head[q])
  <2>1. blocked_on[t] = {q}
    BY <1>1, <1>3, PlaceFacts DEF IInv, Occupied
  <2> QED BY <1>1, <1>3, <2>1, OnFacts
<1>4. ASSUME NEW c \in Cpus, r = WalkOf(c) PROVE BeingWoken(t)
  BY <1>1, <1>4, OnFacts DEF BeingWoken
<1> QED BY <1>2, <1>3, <1>4, PlaceFacts

(* A thread blocked on a wait queue can be found from the queue's head or  *)
(* is being woken (wait_queue_sleep, wait_queue_wakeup_one and _all).      *)
THEOREM WaitersFound == Spec => []WaitersReachable
<1>1. IInv => WaitersReachable
  <2> SUFFICES ASSUME IInv, NEW t \in Threads, NEW q \in Queues,
                      th_state[t] = "WAITING", q \in blocked_on[t]
               PROVE  t \in On(wq_head[q]) \/ BeingWoken(t)
    BY DEF WaitersReachable
  <2>1. \A u \in Queues : blocked_on[t] = {u} => u = q
    OBVIOUS
  <2>2. blocked_on[t] # {"deadline"}
    BY QueueAssumption
  <2> QED BY <2>1, <2>2, Whereabouts
<1> QED BY <1>1, Invariance, PTL

(* A thread blocked until a deadline can be found from the sleep list or   *)
(* is being woken (thread_sleep_until, timer_wake_sleepers).               *)
THEOREM SleepersFound == Spec => []SleepersReachable
<1>1. IInv => SleepersReachable
  <2> SUFFICES ASSUME IInv, NEW t \in Threads,
                      th_state[t] = "WAITING", "deadline" \in blocked_on[t]
               PROVE  t \in On(s_sleep_list) \/ BeingWoken(t)
    BY DEF SleepersReachable
  <2>1. \A u \in Queues : blocked_on[t] # {u}
    BY QueueAssumption
  <2> QED BY <2>1, Whereabouts
<1> QED BY <1>1, Invariance, PTL

-----------------------------------------------------------------------------
(* First come, first served.                                               *)

(* Queued and Woken in terms of the lists, in a state ...                  *)
LEMMA MapNow ==
    ASSUME IInv
    PROVE  /\ Queued = [q \in Queues |-> Lists[QueueOf(q)]]
           /\ Woken = {t \in Threads : \E c \in Cpus : In(t, Lists[WalkOf(c)])}
<1>1. Queued = [q \in Queues |-> Lists[QueueOf(q)]]
  BY ListFacts DEF Queued
<1>2. \A t \in Threads : BeingWoken(t) <=> \E c \in Cpus : In(t, Lists[WalkOf(c)])
  BY OnFacts DEF BeingWoken
<1> QED BY <1>1, <1>2 DEF Woken

(* ... and in the next one.                                                *)
LEMMA MapNext ==
    ASSUME IInv'
    PROVE  /\ Queued' = [q \in Queues |-> Lists'[QueueOf(q)]]
           /\ Woken' = {t \in Threads : \E c \in Cpus : In(t, Lists'[WalkOf(c)])}
<1>1. (IInv => /\ Queued = [q \in Queues |-> Lists[QueueOf(q)]]
               /\ Woken = {t \in Threads : \E c \in Cpus : In(t, Lists[WalkOf(c)])})'
  BY MapNow, PTL
<1> QED BY <1>1

(* A step of the promise, or none.                                         *)
FifoStep == [Fifo!Next]_(Fifo!vars)

(* Queued when one queue's list changes.                                   *)
LEMMA QueuedIs ==
    ASSUME IInv, IInv', NEW q \in Queues, NEW s, Lists'[QueueOf(q)] = s,
           \A u \in Queues : u # q => Lists'[QueueOf(u)] = Lists[QueueOf(u)]
    PROVE  Queued' = [Queued EXCEPT ![q] = s]
BY MapNow, MapNext

(* Woken when one CPU's chain changes.                                     *)
LEMMA WokenIs ==
    ASSUME IInv, IInv', NEW c \in Cpus,
           \A d \in Cpus : d # c => Lists'[WalkOf(d)] = Lists[WalkOf(d)],
           \A x : In(x, Lists[WalkOf(c)]) => In(x, Lists'[WalkOf(c)])
    PROVE  Woken' = Woken \cup {t \in Threads : In(t, Lists'[WalkOf(c)])}
BY MapNow, MapNext

(* Queued when no queue's list changes.                                    *)
LEMMA QueuedSame ==
    ASSUME IInv, IInv', \A q \in Queues : Lists'[QueueOf(q)] = Lists[QueueOf(q)]
    PROVE  Queued' = Queued
BY MapNow, MapNext

(* Woken when no CPU's chain changes.                                      *)
LEMMA WokenSame ==
    ASSUME IInv, IInv', \A c \in Cpus : Lists'[WalkOf(c)] = Lists[WalkOf(c)]
    PROVE  Woken' = Woken
BY MapNow, MapNext

(* wait_queue_sleep puts the thread behind those that wait already.        *)
LEMMA SleepRefines ==
    ASSUME IInv, NEW t \in Threads, NEW q \in Queues, WaitQueueSleep(t, q)
    PROVE  FifoStep
<1>1. IInv' /\ Lists' = [Lists EXCEPT ![QueueOf(q)] = Append(Lists[QueueOf(q)], t)]
  BY WaitQueueSleepStep
<1>2. Lists \in [Places -> Seq(Threads)] /\ TypeOK
  BY DEF IInv, Linked
<1>3. /\ Lists'[QueueOf(q)] = Append(Lists[QueueOf(q)], t)
      /\ \A u \in Queues : u # q => Lists'[QueueOf(u)] = Lists[QueueOf(u)]
      /\ \A c \in Cpus : Lists'[WalkOf(c)] = Lists[WalkOf(c)]
  BY <1>1, <1>2, PlaceFacts
<1>4. Queued[q] = Lists[QueueOf(q)]
  BY MapNow
<1>5. Queued' = [Queued EXCEPT ![q] = Append(Queued[q], t)]
  BY <1>1, <1>3, <1>4, QueuedIs
<1>6. Woken' = Woken
  BY <1>1, <1>3, WokenSame
<1>7. t \notin Blocked /\ Blocked' = Blocked \cup {t}
  BY <1>2 DEF WaitQueueSleep, Blocked, TypeOK
<1>8. Fifo!Sleep(t, q)
  BY <1>5, <1>6, <1>7 DEF Fifo!Sleep
<1> QED BY <1>8 DEF FifoStep, Fifo!Next

(* thread_sleep_until touches no queue.                                    *)
LEMMA SleepUntilRefines ==
    ASSUME IInv, NEW t \in Threads, ThreadSleepUntil(t)
    PROVE  FifoStep
<1>1. /\ IInv'
      /\ \A q \in Queues : Lists'[QueueOf(q)] = Lists[QueueOf(q)]
      /\ \A c \in Cpus : Lists'[WalkOf(c)] = Lists[WalkOf(c)]
  BY ThreadSleepUntilStep
<1>2. Queued' = Queued /\ Woken' = Woken
  BY <1>1, QueuedSame, WokenSame
<1>3. TypeOK
  BY DEF IInv
<1>4. t \notin Blocked /\ Blocked' = Blocked \cup {t}
  BY <1>3 DEF ThreadSleepUntil, Blocked, TypeOK
<1>5. Fifo!SleepUntil(t)
  BY <1>2, <1>4 DEF Fifo!SleepUntil
<1> QED BY <1>5 DEF FifoStep, Fifo!Next

(* wait_queue_wakeup_one takes the thread that has waited longest.         *)
LEMMA WakeupOneRefines ==
    ASSUME IInv, NEW c \in Cpus, NEW q \in Queues, WakeupOne(c, q)
    PROVE  FifoStep
<1> DEFINE L == Lists[QueueOf(q)]
<1>1. /\ IInv' /\ wq_head[q] \in Threads
      /\ L # <<>> /\ Head(L) = wq_head[q]
      /\ Lists' = [Lists EXCEPT ![QueueOf(q)] = Tail(L), ![WalkOf(c)] = <<wq_head[q]>>]
  BY WakeupOneStep
<1>2. Lists \in [Places -> Seq(Threads)]
  BY DEF IInv, Linked
<1>3. /\ Lists'[QueueOf(q)] = Tail(L)
      /\ Lists'[WalkOf(c)] = <<wq_head[q]>>
      /\ \A u \in Queues : u # q => Lists'[QueueOf(u)] = Lists[QueueOf(u)]
      /\ \A d \in Cpus : d # c => Lists'[WalkOf(d)] = Lists[WalkOf(d)]
  BY <1>1, <1>2, PlaceFacts
<1>4. Queued[q] = L
  BY MapNow
<1> HIDE DEF L
<1>5. Queued' = [Queued EXCEPT ![q] = Tail(Queued[q])]
  BY <1>1, <1>3, <1>4, QueuedIs
<1>6. \A x : ~In(x, Lists[WalkOf(c)])
  <2>1. Lists[WalkOf(c)] = <<>>
    BY ListFacts, ChainFacts DEF WakeupOne
  <2> QED BY <2>1, ChainNone
<1>7. \A x : In(x, <<wq_head[q]>>) <=> x = wq_head[q]
  BY DEF In
<1>8. Woken' = Woken \cup {wq_head[q]}
  BY <1>1, <1>3, <1>6, <1>7, WokenIs
<1>9. Blocked' = Blocked
  BY DEF WakeupOne, threadVars, Blocked
<1>10. Fifo!WakeupOne(q)
  BY <1>1, <1>4, <1>5, <1>8, <1>9 DEF Fifo!WakeupOne
<1> QED BY <1>10 DEF FifoStep, Fifo!Next

(* wait_queue_wakeup_all takes them all.                                   *)
LEMMA WakeupAllRefines ==
    ASSUME IInv, NEW c \in Cpus, NEW q \in Queues, WakeupAll(c, q)
    PROVE  FifoStep
<1> DEFINE L == Lists[QueueOf(q)]
<1>1. IInv' /\ Lists' = [Lists EXCEPT ![QueueOf(q)] = <<>>, ![WalkOf(c)] = L]
  BY WakeupAllStep
<1>2. Lists \in [Places -> Seq(Threads)] /\ L \in Seq(Threads)
  BY ListFacts, PlaceFacts DEF IInv, Linked
<1>3. /\ Lists'[QueueOf(q)] = <<>>
      /\ Lists'[WalkOf(c)] = L
      /\ \A u \in Queues : u # q => Lists'[QueueOf(u)] = Lists[QueueOf(u)]
      /\ \A d \in Cpus : d # c => Lists'[WalkOf(d)] = Lists[WalkOf(d)]
  BY <1>1, <1>2, PlaceFacts
<1>4. Queued[q] = L
  BY MapNow
<1> HIDE DEF L
<1>5. Queued' = [Queued EXCEPT ![q] = <<>>]
  BY <1>1, <1>3, <1>4, QueuedIs
<1>6. \A x : ~In(x, Lists[WalkOf(c)])
  <2>1. Lists[WalkOf(c)] = <<>>
    BY ListFacts, ChainFacts DEF WakeupAll
  <2> QED BY <2>1, ChainNone
<1>7. {t \in Threads : In(t, L)} = Fifo!ToSet(Queued[q])
  <2>1. \A t : t \in ToSet(L) <=> In(t, L)
    BY <1>2, ToSetIn
  <2>2. \A t : In(t, L) => t \in Threads
    BY <1>2 DEF In
  <2>3. Fifo!ToSet(L) = ToSet(L)
    BY DEF Fifo!ToSet, ToSet
  <2> QED BY <1>4, <2>1, <2>2, <2>3
<1>8. Woken' = Woken \cup Fifo!ToSet(Queued[q])
  BY <1>1, <1>3, <1>6, <1>7, WokenIs
<1>9. Blocked' = Blocked
  BY DEF WakeupAll, threadVars, Blocked
<1>10. Fifo!WakeupAll(q)
  BY <1>5, <1>8, <1>9 DEF Fifo!WakeupAll
<1> QED BY <1>10 DEF FifoStep, Fifo!Next

(* timer_wake_sleepers takes threads that wait on no queue.                *)
LEMMA ExpireRefines ==
    ASSUME IInv, NEW c \in Cpus, TimerExpire(c)
    PROVE  FifoStep
<1>1. IInv' /\ Lists \in [Places -> Seq(Threads)]
  BY TimerExpireStep DEF IInv, Linked
<1>2. PICK s \in Seq(Threads), w \in Seq(Threads) :
         Split(Lists[Sleepers], s, w) /\ Lists' = [Lists EXCEPT ![Sleepers] = s, ![WalkOf(c)] = w]
  BY TimerExpireStep DEF Taken
<1>3. /\ Lists'[WalkOf(c)] = w
      /\ \A u \in Queues : Lists'[QueueOf(u)] = Lists[QueueOf(u)]
      /\ \A d \in Cpus : d # c => Lists'[WalkOf(d)] = Lists[WalkOf(d)]
  BY <1>1, <1>2, PlaceFacts
<1>4. Queued' = Queued
  BY <1>1, <1>3, QueuedSame
<1>5. \A x : ~In(x, Lists[WalkOf(c)])
  <2>1. Lists[WalkOf(c)] = <<>>
    BY ListFacts, ChainFacts DEF TimerExpire
  <2> QED BY <2>1, ChainNone
<1> DEFINE S == {t \in Threads : In(t, w)}
<1>6. Woken' = Woken \cup S
  BY <1>1, <1>3, <1>5, WokenIs
<1>7. Blocked' = Blocked
  BY DEF TimerExpire, threadVars, Blocked
<1>8. ASSUME NEW t \in S PROVE t \in Blocked /\ \A q \in Queues : t \notin Fifo!ToSet(Queued[q])
  <2>1. t \in Threads /\ In(t, Lists[Sleepers])
    BY <1>2 DEF Split
  <2>2. th_state[t] = "WAITING"
    BY <2>1, PlaceFacts DEF IInv, Occupied
  <2>3. ASSUME NEW q \in Queues PROVE t \notin Fifo!ToSet(Queued[q])
    <3>1. ~In(t, Lists[QueueOf(q)])
      BY <2>1, PlaceFacts DEF IInv, Linked
    <3>2. Queued[q] = Lists[QueueOf(q)] /\ Lists[QueueOf(q)] \in Seq(Threads)
      BY MapNow, ListFacts, PlaceFacts
    <3>3. t \notin ToSet(Lists[QueueOf(q)])
      BY <3>1, <3>2, ToSetIn
    <3> QED BY <3>2, <3>3 DEF Fifo!ToSet, ToSet
  <2> QED BY <2>1, <2>2, <2>3 DEF Blocked
<1> HIDE DEF S
<1>9. Fifo!Expire
  <2>1. S \in SUBSET {t \in Blocked : \A q \in Queues : t \notin Fifo!ToSet(Queued[q])}
    BY <1>8
  <2> QED BY <1>4, <1>6, <1>7, <2>1 DEF Fifo!Expire
<1> QED BY <1>9 DEF FifoStep, Fifo!Next

(* An iteration of a waking loop makes a thread runnable that was taken    *)
(* out before.                                                             *)
LEMMA WakeRefines ==
    ASSUME IInv, NEW c \in Cpus, WakeNext(c)
    PROVE  FifoStep
<1> DEFINE t == walk[c]
           L == Lists[WalkOf(c)]
<1>1. /\ IInv' /\ t \in Threads /\ In(t, L)
      /\ th_state' = [th_state EXCEPT ![t] = "READY"]
      /\ Lists' = [Lists EXCEPT ![WalkOf(c)] = Tail(L)]
      /\ \A x : In(x, Tail(L)) <=> In(x, L) /\ x # t
  BY WakeNextStep
<1>2. Lists \in [Places -> Seq(Threads)] /\ TypeOK
  BY DEF IInv, Linked
<1>3. /\ Lists'[WalkOf(c)] = Tail(L)
      /\ \A u \in Queues : Lists'[QueueOf(u)] = Lists[QueueOf(u)]
      /\ \A d \in Cpus : d # c => Lists'[WalkOf(d)] = Lists[WalkOf(d)]
  BY <1>1, <1>2, PlaceFacts
<1>4. Queued' = Queued
  BY <1>1, <1>3, QueuedSame
<1>5. \A d \in Cpus : In(t, Lists[WalkOf(d)]) => d = c
  BY <1>1, PlaceFacts DEF IInv, Linked
<1>6. Blocked' = Blocked \ {t}
  BY <1>1, <1>2 DEF Blocked, TypeOK
<1>7. t \in Woken
  BY <1>1, MapNow
<1>8. ASSUME NEW x \in Threads
      PROVE  (\E d \in Cpus : In(x, Lists'[WalkOf(d)])) <=>
             (\E d \in Cpus : In(x, Lists[WalkOf(d)])) /\ x # t
  BY <1>1, <1>3, <1>5
<1>9. Woken' = Woken \ {t}
  BY <1>1, <1>8, MapNow, MapNext
<1> HIDE DEF t
<1>10. Fifo!Wake(t)
  BY <1>4, <1>6, <1>7, <1>9 DEF Fifo!Wake
<1> QED BY <1>1, <1>10 DEF FifoStep, Fifo!Next

(* At first nobody waits.                                                  *)
LEMMA InitRefines == Init => Fifo!Init
<1> SUFFICES ASSUME Init PROVE Fifo!Init
  OBVIOUS
<1>1. Queued = [q \in Queues |-> <<>>]
  BY DEF Init, Queued, List, ListFrom
<1>2. \A c \in Cpus : On(walk[c]) = {}
  BY DEF Init, On, List, ListFrom, ToSet
<1>3. Woken = {}
  BY <1>2 DEF Woken, BeingWoken
<1>4. Blocked = {}
  BY DEF Init, Blocked
<1> QED BY <1>1, <1>3, <1>4 DEF Fifo!Init

(* Every step is a step of the promise, or none.                           *)
LEMMA NextRefines == IInv /\ [Next]_vars => [Fifo!Next]_(Fifo!vars)
<1> SUFFICES ASSUME IInv, [Next]_vars PROVE FifoStep
  BY DEF FifoStep
<1>1. ASSUME \/ \E t \in Threads : Resume(t) \/ DeadlinePasses(t)
             \/ UNCHANGED vars
      PROVE  FifoStep
  <2>1. /\ IInv' /\ Lists' = Lists
        /\ \A t \in Threads : th_state'[t] = "WAITING" <=> th_state[t] = "WAITING"
    BY <1>1, OtherSteps
  <2>2. Queued' = Queued /\ Woken' = Woken
    BY <2>1, QueuedSame, WokenSame
  <2>3. Blocked' = Blocked
    BY <2>1 DEF Blocked
  <2> QED BY <2>2, <2>3 DEF FifoStep, Fifo!vars
<1>2. ASSUME NEW t \in Threads, NEW q \in Queues, WaitQueueSleep(t, q) PROVE FifoStep
  BY <1>2, SleepRefines
<1>3. ASSUME NEW t \in Threads, ThreadSleepUntil(t) PROVE FifoStep
  BY <1>3, SleepUntilRefines
<1>4. ASSUME NEW c \in Cpus, NEW q \in Queues, WakeupOne(c, q) PROVE FifoStep
  BY <1>4, WakeupOneRefines
<1>5. ASSUME NEW c \in Cpus, NEW q \in Queues, WakeupAll(c, q) PROVE FifoStep
  BY <1>5, WakeupAllRefines
<1>6. ASSUME NEW c \in Cpus, TimerExpire(c) PROVE FifoStep
  BY <1>6, ExpireRefines
<1>7. ASSUME NEW c \in Cpus, WakeNext(c) PROVE FifoStep
  BY <1>7, WakeRefines
<1> QED BY <1>1, <1>2, <1>3, <1>4, <1>5, <1>6, <1>7 DEF Next

(* The linked lists implement the promise of wait_queue.h: a thread stays  *)
(* in its queue, in arrival order, until a wake-up takes it out, and only  *)
(* threads that were taken out are made runnable.                          *)
THEOREM FirstComeFirstServed == Spec => ImplementsFifo
BY InitRefines, NextRefines, Invariance, PTL DEF Spec, ImplementsFifo, Fifo!Spec
=============================================================================
