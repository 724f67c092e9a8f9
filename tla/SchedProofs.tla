---------------------------- MODULE SchedProofs -----------------------------
(***************************************************************************)
(* Proofs about the scheduler, for every number of tasks and every set of  *)
(* signals the model allows.                                               *)
(***************************************************************************)
EXTENDS Sched, SequenceTheorems, WellFoundedInduction, TLAPS

-----------------------------------------------------------------------------
(* Least elements and queues.                                              *)

\* Every non-empty set of naturals has a least element.
LEMMA LeastNat ==
  ASSUME NEW S \in SUBSET Nat, S # {}
  PROVE  \E x \in S : \A y \in S : x <= y
<1>1. IsWellFoundedOn(OpToRel(<, Nat), Nat)
  BY NatLessThanWellFounded
<1>2. PICK x \in S : \A y \in S : ~(<<y, x>> \in OpToRel(<, Nat))
  BY <1>1, WFMin
<1>3. \A y \in S : ~(y < x)
  BY <1>2 DEF OpToRel
<1> QED
  BY <1>3

\* Min finds it.
LEMMA MinFacts ==
  ASSUME NEW S \in SUBSET Nat, S # {}
  PROVE  Min(S) \in S /\ \A y \in S : Min(S) <= y
BY LeastNat DEF Min

\* The choice of the tick and of exit is 0 or a position of the queue.
LEMMA BestIndexType ==
  ASSUME NEW q \in Seq(Ids), NEW T
  PROVE  BestIndex(q, T) = 0 \/ BestIndex(q, T) \in DOMAIN q
<1> DEFINE ready == {k \in DOMAIN q : T[q[k]].state = "Ready"}
           least == {k \in ready : \A j \in ready : Nice(q[k]) <= Nice(q[j])}
           nices == {Nice(q[k]) + 5 : k \in ready}
<1>1. CASE ready = {}
  BY <1>1 DEF BestIndex
<1>2. CASE ready # {}
  <2>1. \A k \in ready : Nice(q[k]) \in Int /\ Nice(q[k]) + 5 \in Nat
    BY DEF Nice
  <2>2. nices \in SUBSET Nat /\ nices # {}
    BY <1>2, <2>1
  <2>3. PICK x \in nices : \A y \in nices : x <= y
    BY <2>2, LeastNat
  <2>4. PICK k \in ready : x = Nice(q[k]) + 5
    OBVIOUS
  <2>5. ASSUME NEW j \in ready
        PROVE  Nice(q[k]) <= Nice(q[j])
    <3>1. Nice(q[j]) + 5 \in nices
      OBVIOUS
    <3>2. Nice(q[k]) + 5 <= Nice(q[j]) + 5
      BY <2>3, <2>4, <3>1
    <3> HIDE DEF ready
    <3> QED
      BY <2>1, <3>2
  <2>6. least \in SUBSET Nat /\ least # {}
    BY <2>5
  <2>7. Min(least) \in least
    BY <2>6, MinFacts
  <2>8. BestIndex(q, T) = Min(least)
    BY <1>2 DEF BestIndex
  <2> QED
    BY <2>7, <2>8
<1> QED
  BY <1>1, <1>2

\* Taking an element out of the queue.
LEMMA RemoveAtFacts ==
  ASSUME NEW q \in Seq(Ids), NEW k \in DOMAIN q, IsInjective(q)
  PROVE  /\ RemoveAt(q, k) \in Seq(Ids)
         /\ IsInjective(RemoveAt(q, k))
         /\ ToSet(RemoveAt(q, k)) = ToSet(q) \ {q[k]}
<1> DEFINE r == RemoveAt(q, k)
           a == SubSeq(q, 1, k - 1)
           b == SubSeq(q, k + 1, Len(q))
<1>1. k \in 1 .. Len(q) /\ Len(q) \in Nat /\ DOMAIN q = 1 .. Len(q)
  OBVIOUS
<1>2. a \in Seq(Ids) /\ Len(a) = k - 1 /\ \A i \in 1 .. k - 1 : a[i] = q[i]
  BY <1>1
<1>3. b \in Seq(Ids) /\ Len(b) = Len(q) - k /\ \A i \in 1 .. Len(q) - k : b[i] = q[k + i]
  BY <1>1
<1>4. r = a \o b
  BY DEF RemoveAt
<1> HIDE DEF a, b, r
<1>5. /\ r \in Seq(Ids) /\ Len(r) = Len(q) - 1
      /\ DOMAIN r = 1 .. Len(q) - 1
      /\ \A i \in 1 .. Len(q) - 1 : r[i] = IF i < k THEN q[i] ELSE q[i + 1]
  <2>1. r \in Seq(Ids) /\ Len(r) = Len(a) + Len(b)
    BY <1>2, <1>3, <1>4, ConcatProperties
  <2>2. Len(r) = Len(q) - 1 /\ DOMAIN r = 1 .. Len(q) - 1
    BY <1>1, <1>2, <1>3, <2>1
  <2>3. ASSUME NEW i \in 1 .. Len(q) - 1
        PROVE  r[i] = IF i < k THEN q[i] ELSE q[i + 1]
    <3>1. r[i] = IF i <= Len(a) THEN a[i] ELSE b[i - Len(a)]
      <4>1. i \in 1 .. Len(a) + Len(b)
        BY <2>1, <2>2
      <4> QED
        BY <1>2, <1>3, <1>4, <4>1, ConcatProperties
    <3>2. CASE i < k
      <4>1. i \in 1 .. k - 1 /\ i <= Len(a)
        BY <1>1, <1>2, <3>2
      <4> QED
        BY <1>2, <3>1, <3>2, <4>1
    <3>3. CASE ~(i < k)
      <4>1. i - (k - 1) \in 1 .. Len(q) - k /\ ~(i <= Len(a)) /\ k + (i - (k - 1)) = i + 1
        BY <1>1, <1>2, <3>3
      <4>2. r[i] = b[i - (k - 1)]
        BY <1>2, <3>1, <4>1
      <4>3. b[i - (k - 1)] = q[k + (i - (k - 1))]
        BY <1>3, <4>1
      <4> QED
        BY <3>3, <4>1, <4>2, <4>3
    <3> QED
      BY <3>2, <3>3
  <2> QED
    BY <2>1, <2>2, <2>3
<1>6. IsInjective(r)
  <2> SUFFICES ASSUME NEW i \in 1 .. Len(q) - 1, NEW j \in 1 .. Len(q) - 1, r[i] = r[j]
               PROVE  i = j
    BY <1>5 DEF IsInjective
  <2> DEFINE up(x) == IF x < k THEN x ELSE x + 1
  <2>1. up(i) \in DOMAIN q /\ up(j) \in DOMAIN q /\ q[up(i)] = q[up(j)]
    BY <1>1, <1>5
  <2>2. up(i) = up(j)
    BY <2>1 DEF IsInjective
  <2> QED
    BY <1>1, <2>2
<1>7. ToSet(r) \subseteq ToSet(q) \ {q[k]}
  BY <1>1, <1>5 DEF ToSet, IsInjective
<1>8. ASSUME NEW j \in DOMAIN q, q[j] # q[k]
      PROVE  q[j] \in ToSet(r)
  <2>1. CASE j < k
    BY <1>1, <1>5, <2>1 DEF ToSet
  <2>2. CASE j > k
    <3>1. j - 1 \in 1 .. Len(q) - 1 /\ r[j - 1] = q[j]
      BY <1>1, <1>5, <2>2
    <3> QED
      BY <3>1, <1>5 DEF ToSet
  <2> QED
    BY <1>1, <1>8, <2>1, <2>2
<1>9. ToSet(r) = ToSet(q) \ {q[k]}
  BY <1>7, <1>8 DEF ToSet
<1> QED
  BY <1>5, <1>6, <1>9 DEF r

\* Putting one at the end.
LEMMA AppendFacts ==
  ASSUME NEW q \in Seq(Ids), NEW i \in Ids
  PROVE  /\ Append(q, i) \in Seq(Ids)
         /\ ToSet(Append(q, i)) = ToSet(q) \cup {i}
         /\ IsInjective(q) /\ i \notin ToSet(q) => IsInjective(Append(q, i))
<1>1. /\ Append(q, i) \in Seq(Ids) /\ DOMAIN Append(q, i) = 1 .. Len(q) + 1
      /\ Append(q, i)[Len(q) + 1] = i /\ DOMAIN q = 1 .. Len(q) /\ Len(q) \in Nat
      /\ \A k \in 1 .. Len(q) : Append(q, i)[k] = q[k]
  OBVIOUS
<1>2. ToSet(Append(q, i)) = ToSet(q) \cup {i}
  BY <1>1 DEF ToSet
<1>3. ASSUME IsInjective(q), i \notin ToSet(q)
      PROVE  IsInjective(Append(q, i))
  BY <1>1, <1>3 DEF ToSet, IsInjective
<1> QED
  BY <1>1, <1>2, <1>3

\* What k steps of the retain leave.
Prefix(q, T, h, k) ==
  IF k = 0 THEN <<>>
  ELSE IF T[q[k]].state = "Exited" THEN h[k - 1] ELSE Append(h[k - 1], q[k])

\* The retain has a result at every step.
LEMMA PrefixesExist ==
  ASSUME NEW q \in Seq(Ids), NEW T
  PROVE  \E h \in [0 .. Len(q) -> Seq(Ids)] :
           \A k \in 0 .. Len(q) : h[k] = Prefix(q, T, h, k)
<1> DEFINE Upto(n) == \E h \in [0 .. n -> Seq(Ids)] :
                        \A k \in 0 .. n : h[k] = Prefix(q, T, h, k)
           bad == {n \in 0 .. Len(q) : ~Upto(n)}
<1>1. SUFFICES ASSUME bad # {} PROVE FALSE
  <2>1. Len(q) \in 0 .. Len(q)
    OBVIOUS
  <2> QED
    BY <2>1
<1>2. PICK n \in bad : \A m \in bad : n <= m
  <2>1. bad \in SUBSET Nat
    OBVIOUS
  <2> QED
    BY <1>1, <2>1, LeastNat
<1>3. CASE n = 0
  <2> DEFINE h == [k \in 0 .. n |-> <<>>]
  <2>1. h \in [0 .. n -> Seq(Ids)]
    <3>1. <<>> \in Seq(Ids)
      BY EmptySeq
    <3> QED
      BY <3>1
  <2>2. \A k \in 0 .. n : h[k] = Prefix(q, T, h, k)
    BY <1>3 DEF Prefix
  <2> QED
    BY <2>1, <2>2
<1>4. CASE n # 0
  <2>1. n \in 1 .. Len(q) /\ Len(q) \in Nat /\ n - 1 \in 0 .. Len(q) /\ n - 1 \notin bad
    <3>1. n \in 0 .. Len(q) /\ Len(q) \in Nat
      OBVIOUS
    <3>2. n \in 1 .. Len(q) /\ n - 1 \in 0 .. Len(q) /\ ~(n <= n - 1)
      BY <1>4, <3>1
    <3> HIDE DEF bad
    <3> QED
      BY <1>2, <3>1, <3>2
  <2>2. PICK g \in [0 .. n - 1 -> Seq(Ids)] :
               \A k \in 0 .. n - 1 : g[k] = Prefix(q, T, g, k)
    BY <2>1
  <2> DEFINE h == [k \in 0 .. n |-> IF k = n THEN Prefix(q, T, g, n) ELSE g[k]]
  <2>3. Prefix(q, T, g, n) \in Seq(Ids)
    <3>1. g[n - 1] \in Seq(Ids) /\ q[n] \in Ids
      BY <2>1, <2>2
    <3> QED
      BY <3>1, <2>1 DEF Prefix
  <2>4. h \in [0 .. n -> Seq(Ids)]
    BY <2>1, <2>3
  <2>5. ASSUME NEW k \in 0 .. n
        PROVE  h[k] = Prefix(q, T, h, k)
    <3>1. k # 0 => h[k - 1] = g[k - 1]
      BY <2>1
    <3>2. Prefix(q, T, h, k) = Prefix(q, T, g, k)
      BY <3>1 DEF Prefix
    <3> QED
      BY <2>1, <2>2, <3>2
  <2> HIDE DEF h
  <2>6. Upto(n)
    BY <2>4, <2>5
  <2> QED
    BY <2>6
<1> QED
  BY <1>3, <1>4

\* Retained is the last of these results.
LEMMA RetainedSteps ==
  ASSUME NEW q \in Seq(Ids), NEW T
  PROVE  \E h \in [0 .. Len(q) -> Seq(Ids)] :
           /\ \A k \in 0 .. Len(q) : h[k] = Prefix(q, T, h, k)
           /\ Retained(q, T) = h[Len(q)]
<1> DEFINE Def(h) == [k \in 0 .. Len(q) |-> Prefix(q, T, h, k)]
           F == CHOOSE h : h = Def(h)
<1>1. PICK h \in [0 .. Len(q) -> Seq(Ids)] :
             \A k \in 0 .. Len(q) : h[k] = Prefix(q, T, h, k)
  BY PrefixesExist
<1>2. h = Def(h)
  BY <1>1
<1>3. F = Def(F)
  BY <1>2
<1>4. Retained(q, T) = F[Len(q)]
  BY DEF Retained, Prefix
<1>5. F = h
  <2> DEFINE bad == {k \in 0 .. Len(q) : F[k] # h[k]}
  <2>1. \A k \in 0 .. Len(q) : F[k] = Prefix(q, T, F, k)
    BY <1>3
  <2> HIDE DEF F
  <2>2. ASSUME bad # {} PROVE FALSE
    <3>1. PICK n \in bad : \A m \in bad : n <= m
      <4>1. bad \in SUBSET Nat
        OBVIOUS
      <4> QED
        BY <2>2, <4>1, LeastNat
    <3>2. n \in 0 .. Len(q) /\ Len(q) \in Nat
      OBVIOUS
    <3>3. n # 0 => F[n - 1] = h[n - 1]
      <4> SUFFICES ASSUME n # 0 PROVE F[n - 1] = h[n - 1]
        OBVIOUS
      <4>1. n - 1 \in 0 .. Len(q) /\ ~(n <= n - 1)
        BY <3>2
      <4> QED
        BY <3>1, <4>1
    <3>4. Prefix(q, T, F, n) = Prefix(q, T, h, n)
      BY <3>3 DEF Prefix
    <3> QED
      BY <1>1, <2>1, <3>2, <3>4
  <2>3. \A k \in 0 .. Len(q) : F[k] = h[k]
    BY <2>2
  <2>4. h = [k \in 0 .. Len(q) |-> h[k]] /\ F = [k \in 0 .. Len(q) |-> F[k]]
    BY <1>3 DEF F
  <2> QED
    BY <2>3, <2>4
<1> QED
  BY <1>1, <1>4, <1>5

\* The retain keeps exactly the tasks that are not Exited, each one once.
LEMMA RetainedFacts ==
  ASSUME NEW q \in Seq(Ids), NEW T, IsInjective(q)
  PROVE  /\ Retained(q, T) \in Seq(Ids)
         /\ IsInjective(Retained(q, T))
         /\ ToSet(Retained(q, T)) = {i \in ToSet(q) : T[i].state # "Exited"}
<1>1. PICK h \in [0 .. Len(q) -> Seq(Ids)] :
             /\ \A k \in 0 .. Len(q) : h[k] = Prefix(q, T, h, k)
             /\ Retained(q, T) = h[Len(q)]
  BY RetainedSteps
<1> DEFINE Good(k) == /\ IsInjective(h[k])
                      /\ ToSet(h[k]) = {q[j] : j \in {m \in 1 .. k : T[q[m]].state # "Exited"}}
           bad == {k \in 0 .. Len(q) : ~Good(k)}
<1>2. Len(q) \in Nat /\ DOMAIN q = 1 .. Len(q)
  OBVIOUS
<1>3. ASSUME bad # {} PROVE FALSE
  <2>1. PICK n \in bad : \A m \in bad : n <= m
    <3>1. bad \in SUBSET Nat
      OBVIOUS
    <3> QED
      BY <1>3, <3>1, LeastNat
  <2>2. n \in 0 .. Len(q)
    OBVIOUS
  <2>3. CASE n = 0
    <3>1. h[n] = <<>>
      BY <1>1, <2>3, <2>2 DEF Prefix
    <3>2. IsInjective(<<>>) /\ ToSet(<<>>) = {}
      BY DEF IsInjective, ToSet
    <3> QED
      BY <2>3, <3>1, <3>2
  <2>4. CASE n # 0
    <3>1. n \in 1 .. Len(q) /\ n - 1 \in 0 .. Len(q) /\ ~(n <= n - 1)
      BY <1>2, <2>2, <2>4
    <3>2. n - 1 \notin bad
      BY <2>1, <3>1
    <3>3. Good(n - 1)
      BY <3>1, <3>2
    <3>4. h[n] = IF T[q[n]].state = "Exited" THEN h[n - 1] ELSE Append(h[n - 1], q[n])
      BY <1>1, <2>2, <2>4 DEF Prefix
    <3>5. h[n - 1] \in Seq(Ids) /\ q[n] \in Ids
      BY <3>1
    <3>6. q[n] \notin ToSet(h[n - 1])
      BY <1>2, <3>1, <3>3 DEF IsInjective
    <3>7. {m \in 1 .. n : T[q[m]].state # "Exited"} =
            {m \in 1 .. n - 1 : T[q[m]].state # "Exited"} \cup
            (IF T[q[n]].state # "Exited" THEN {n} ELSE {})
      BY <3>1
    <3>8. Good(n)
      <4> HIDE DEF bad
      <4>1. CASE T[q[n]].state = "Exited"
        BY <3>3, <3>4, <3>7, <4>1
      <4>2. CASE T[q[n]].state # "Exited"
        <5>1. IsInjective(h[n])
          BY <3>3, <3>4, <3>5, <3>6, <4>2, AppendFacts
        <5>2. ToSet(h[n]) = ToSet(h[n - 1]) \cup {q[n]}
          BY <3>4, <3>5, <4>2, AppendFacts
        <5> QED
          BY <3>3, <3>7, <4>2, <5>1, <5>2
      <4> QED
        BY <4>1, <4>2
    <3> QED
      BY <3>8
  <2> QED
    BY <2>3, <2>4
<1>4. Good(Len(q))
  <2>1. Len(q) \in 0 .. Len(q)
    BY <1>2
  <2>2. bad = {}
    BY <1>3
  <2> QED
    BY <2>1, <2>2
<1>5. Retained(q, T) \in Seq(Ids)
  BY <1>1, <1>2
<1> QED
  BY <1>1, <1>2, <1>4, <1>5 DEF ToSet

-----------------------------------------------------------------------------
(* The inductive invariant.  Between two decisions of the scheduler every  *)
(* task but the current one has its frame saved, and the current one lacks *)
(* it only while it waits (or is the idle task before the first tick).     *)

\* The Task objects.
TaskRec == [state : States, parent : Ids, tgid : Ids, saved : BOOLEAN,
            pend : SUBSET Sigs, mask : SUBSET Sigs,
            disp : [Sigs -> {"dfl", "ign", "hnd"}],
            pc : {"user", "wait", "sysret", "sysret_irq"}, want : SUBSET Ids]

\* A running task has left the queue; only a task put back there can be
\* current and queued.
RunningHasLeft == task[current].state = "Running" => current \notin ToSet(runq)

\* Without a frame there is only the current task, and only before the first
\* tick or in a wait that still has somebody to wait for.
FramesSaved ==
  \A i \in Ids : ~task[i].saved =>
    /\ i = current
    /\ i = Idle \/ (task[i].pc = "wait" /\ HasChildren /\ Zombies(task[i].want) = {})

IInv ==
  /\ TypeOK /\ RunqDistinct /\ RunningIsCurrent
  /\ RunningHasLeft /\ FramesSaved
  /\ mode # "panic"

\* In table T every runnable task is in q, or was outside the queue before.
Queued(T, q) == \A i \in Ids : T[i].state = "Ready" => i \in ToSet(q) \cup Stray

\* In table T the tasks below n exist and no other.
Counted(T, n) == \A i \in Ids : T[i].state # "none" <=> i < n

\* The step leaves no more runnable tasks outside the queue.
KeepsQueued == Stray' \subseteq Stray

\* A table and a queue between the end of one task's turn and the next choice.
Settled(T, q) ==
  /\ T \in [Ids -> TaskRec] /\ q \in Seq(Ids) /\ IsInjective(q)
  /\ \A i \in ToSet(q) : i < next_id
  /\ \A i \in Ids : T[i].saved /\ T[i].state # "Running"
  /\ Queued(T, q) /\ Counted(T, next_id)

\* The new machine satisfies the invariant.
LEMMA InitInv == Init => IInv
<1> SUFFICES ASSUME Init PROVE IInv
  OBVIOUS
<1> USE SchedAssumption DEF Init
<1>1. {0, 1, 2} \subseteq Ids
  BY DEF Ids
<1>2. \A st \in States, g \in Ids : NewTask(st, 0, g) \in TaskRec
  BY <1>1 DEF NewTask, TaskRec
<1>3. /\ task \in [Ids -> TaskRec]
      /\ \A i \in Ids : /\ task[i].saved <=> i # Idle
                        /\ task[i].state = IF i = Idle THEN "Running"
                             ELSE IF i \in {1, 2} THEN "Ready" ELSE "none"
  <2>1. [NewTask("Running", 0, 0) EXCEPT !.saved = FALSE] \in TaskRec
    BY <1>1 DEF NewTask, TaskRec, States
  <2>2. task \in [Ids -> TaskRec]
    BY <1>1, <1>2, <2>1 DEF Idle, InitPid, Kthread, States
  <2>3. ASSUME NEW i \in Ids
        PROVE  /\ task[i].saved <=> i # Idle
               /\ task[i].state = IF i = Idle THEN "Running"
                             ELSE IF i \in {1, 2} THEN "Ready" ELSE "none"
    BY DEF Idle, InitPid, Kthread, NewTask
  <2> QED
    BY <2>2, <2>3
<1>4. runq \in Seq(Ids) /\ DOMAIN runq = {1, 2} /\ runq[1] = 2 /\ runq[2] = 1
  BY <1>1 DEF Kthread, InitPid
<1>5. ToSet(runq) = {1, 2}
  BY <1>4 DEF ToSet
<1>6. TypeOK
  <2>1. cfs \in [Ids -> Nat] /\ current \in Ids /\ next_id \in 3 .. MaxId + 1
    BY <1>1 DEF Idle
  <2>2. Allocated
    <3>1. \A i \in Ids : i < 3 <=> i \in {0, 1, 2}
      BY DEF Ids
    <3>2. \A i \in Ids : task[i].state # "none" <=> i < 3
      BY <1>3, <3>1 DEF Idle
    <3> QED
      BY <1>5, <3>2 DEF Allocated, Idle
  <2> QED
    BY <1>3, <1>4, <2>1, <2>2 DEF TypeOK, TaskRec
<1>7. RunqDistinct
  BY <1>4 DEF RunqDistinct, IsInjective
<1>8. RunningIsCurrent
  BY <1>3 DEF RunningIsCurrent
<1>9. FramesSaved
  BY <1>3 DEF FramesSaved
<1>10. RunningHasLeft
  BY <1>5 DEF RunningHasLeft, Idle
<1> QED
  BY <1>6, <1>7, <1>8, <1>9, <1>10 DEF IInv

\* The typed parts of the invariant, as the lemmas below use them.
LEMMA Typed ==
  ASSUME IInv
  PROVE  /\ task \in [Ids -> TaskRec] /\ runq \in Seq(Ids) /\ current \in Ids
         /\ cfs \in [Ids -> Nat] /\ next_id \in 3 .. MaxId + 1
         /\ IsInjective(runq) /\ Allocated
BY DEF IInv, TypeOK, TaskRec, RunqDistinct

\* SIGCHLD changes no task but its target, which it may wake in the queue.
LEMMA NotifyFacts ==
  ASSUME NEW T \in [Ids -> TaskRec], NEW q, NEW p \in Ids
  PROVE  /\ NotifyChild(T, q, p) \in [Ids -> TaskRec]
         /\ \A i \in Ids :
              /\ NotifyChild(T, q, p)[i].saved = T[i].saved
              /\ NotifyChild(T, q, p)[i].parent = T[i].parent
              /\ \/ NotifyChild(T, q, p)[i].state = T[i].state
                 \/ /\ T[i].state = "Blocked" /\ i \in ToSet(q)
                    /\ NotifyChild(T, q, p)[i].state = "Ready"
<1> DEFINE r == [T[p] EXCEPT !.pend = @ \cup {SIGCHLD},
                             !.state = IF @ = "Blocked" THEN "Ready" ELSE @]
<1>1. CASE p \notin ToSet(q)
  BY <1>1 DEF NotifyChild
<1>2. CASE p \in ToSet(q)
  <2>1. T[p] \in TaskRec
    OBVIOUS
  <2>2. r \in TaskRec
    BY <2>1, SchedAssumption DEF TaskRec, States
  <2>3. /\ r.saved = T[p].saved /\ r.parent = T[p].parent
        /\ r.state = IF T[p].state = "Blocked" THEN "Ready" ELSE T[p].state
    BY <2>1 DEF TaskRec
  <2>4. NotifyChild(T, q, p) = [T EXCEPT ![p] = r]
    BY <1>2, <2>1 DEF NotifyChild, TaskRec
  <2> HIDE DEF r
  <2> QED
    BY <1>2, <2>2, <2>3, <2>4
<1> QED
  BY <1>1, <1>2

\* The signal loop of the tick ends in one of three ways.
LEMMA ScanFacts ==
  ASSUME NEW t \in TaskRec
  PROVE  /\ Scan(t).act \in {"Run", "Terminate", "Stop"}
         /\ Scan(t).pend \in SUBSET Sigs
<1> DEFINE caught == {s \in Deliverable(t) : t.disp[s] = "hnd"}
           seen   == {s \in Deliverable(t) : \A h \in caught : s < h}
           fatal  == {s \in seen : t.disp[s] = "dfl" /\ DefaultAction(s) # "Ignore"}
<1>1. t.pend \in SUBSET Sigs /\ Deliverable(t) \subseteq Sigs
  BY DEF TaskRec, Deliverable
<1>2. CASE fatal = {}
  BY <1>1, <1>2 DEF Scan
<1>3. CASE fatal # {}
  <2>1. fatal \in SUBSET Nat
    <3>1. Sigs \subseteq Nat
      BY SchedAssumption DEF SIGINT, SIGCHLD, SIGSTOP, SIGXCPU
    <3>2. fatal \subseteq Sigs
      BY <1>1
    <3> QED
      BY <3>1, <3>2
  <2>2. Min(fatal) \in fatal
    BY <1>3, <2>1, MinFacts
  <2>3. DefaultAction(Min(fatal)) \in {"Terminate", "Stop"}
    <3>1. DefaultAction(Min(fatal)) # "Ignore"
      BY <2>2
    <3> HIDE DEF fatal
    <3> QED
      BY <3>1 DEF DefaultAction
  <2>4. /\ Scan(t).act = DefaultAction(Min(fatal))
        /\ Scan(t).pend = t.pend \ {s \in seen : s <= Min(fatal)}
    BY <1>3 DEF Scan
  <2> QED
    BY <1>1, <2>3, <2>4
<1> QED
  BY <1>2, <1>3

\* A state in which every frame is saved satisfies the invariant when its
\* running task is current and has left the queue.
LEMMA NextInv ==
  ASSUME task' \in [Ids -> TaskRec], runq' \in Seq(Ids), IsInjective(runq'),
         \A i \in ToSet(runq') : i < next_id',
         current' \in Ids, current' < next_id',
         cfs' \in [Ids -> Nat], next_id' \in 3 .. MaxId + 1,
         mode' \in {"up", "halt", "hang"},
         \A i \in Ids : task'[i].state = "Running" => i = current' /\ i \notin ToSet(runq'),
         \A i \in Ids : task'[i].saved,
         Queued(task', runq') /\ Counted(task', next_id')
  PROVE  IInv' /\ KeepsQueued
<1>1. Allocated'
  BY DEF Allocated, Counted
<1>2. TypeOK' /\ RunqDistinct'
  BY <1>1 DEF TypeOK, TaskRec, RunqDistinct
<1>3. RunningIsCurrent' /\ RunningHasLeft'
  BY DEF RunningIsCurrent, RunningHasLeft
<1>4. FramesSaved'
  BY DEF FramesSaved
<1>5. KeepsQueued
  BY DEF KeepsQueued, Queued, Stray
<1> QED
  BY <1>2, <1>3, <1>4, <1>5 DEF IInv

\* The tick's choice of a queued task, whether it runs or is ended or stopped
\* by a signal, leads back to the invariant.
LEMMA SwitchInv ==
  ASSUME IInv, NEW T, NEW q, Settled(T, q), NEW k \in DOMAIN q,
         runq' = RemoveAt(q, k), SwitchTo(T, runq', q[k]),
         cfs' \in [Ids -> Nat], UNCHANGED <<next_id, mode>>
  PROVE  IInv' /\ KeepsQueued
<1> DEFINE n == q[k]
           scan == IF IsUser(n) THEN Scan(T[n]) ELSE [act |-> "Run", pend |-> T[n].pend]
           T1 == [T EXCEPT ![n].pend = scan.pend]
<1>1. /\ T \in [Ids -> TaskRec] /\ q \in Seq(Ids) /\ IsInjective(q)
      /\ \A i \in ToSet(q) : i < next_id
      /\ \A i \in Ids : T[i].saved /\ T[i].state # "Running"
      /\ Queued(T, q) /\ Counted(T, next_id)
  BY DEF Settled
<1>2. n \in Ids /\ n \in ToSet(q)
  BY <1>1 DEF ToSet
<1>3. /\ runq' \in Seq(Ids) /\ IsInjective(runq')
      /\ ToSet(runq') = ToSet(q) \ {n}
  BY <1>1, RemoveAtFacts
<1>4. scan.act \in {"Run", "Terminate", "Stop"} /\ scan.pend \in SUBSET Sigs
  <2>1. T[n] \in TaskRec
    BY <1>1, <1>2
  <2> QED
    BY <2>1, ScanFacts DEF TaskRec
<1>5. ASSUME NEW st \in States
      PROVE  /\ [T1 EXCEPT ![n].state = st] \in [Ids -> TaskRec]
             /\ \A i \in Ids : /\ [T1 EXCEPT ![n].state = st][i].saved
                               /\ [T1 EXCEPT ![n].state = st][i].state =
                                    IF i = n THEN st ELSE T[i].state
  <2> HIDE DEF n, scan
  <2> DEFINE r == [T[n] EXCEPT !.pend = scan.pend, !.state = st]
  <2>1. T[n] \in TaskRec /\ T[n].saved
    BY <1>1, <1>2
  <2>2. r \in TaskRec /\ r.saved /\ r.state = st
    BY <1>4, <2>1 DEF TaskRec
  <2>3. [T1 EXCEPT ![n].state = st] = [T EXCEPT ![n] = r]
    BY <1>1, <1>2, <2>1 DEF TaskRec
  <2> HIDE DEF r, T1
  <2> DEFINE U == [T EXCEPT ![n] = r]
  <2>4. U \in [Ids -> TaskRec]
    BY <1>1, <1>2, <2>2
  <2>5. \A i \in Ids : U[i].saved /\ U[i].state = IF i = n THEN st ELSE T[i].state
    BY <1>1, <1>2, <2>2
  <2> HIDE DEF U
  <2>6. [T1 EXCEPT ![n].state = st] = U
    BY <2>3 DEF U
  <2> QED
    BY <2>4, <2>5, <2>6
<1>6. T[n].saved /\ T[n].parent \in Ids
  BY <1>1, <1>2 DEF TaskRec
<1>7. /\ current \in Ids /\ current < next_id /\ next_id \in 3 .. MaxId + 1
      /\ mode \in {"up", "halt", "hang"}
  BY Typed DEF IInv, Allocated, TypeOK
<1> DEFINE Ran == task' = [T1 EXCEPT ![n].state = "Running"] /\ current' = n
           Died == /\ task' = NotifyChild([T1 EXCEPT ![n].state = "Zombie"], runq', T[n].parent)
                   /\ UNCHANGED current
           Halted == task' = [T1 EXCEPT ![n].state = "Blocked"] /\ UNCHANGED current
<1>8. Ran \/ Died \/ Halted
  BY <1>4, <1>6 DEF SwitchTo
<1> HIDE DEF n, scan, T1
<1>9. CASE Ran
  <2>1. task' \in [Ids -> TaskRec] /\ \A i \in Ids :
          task'[i].saved /\ task'[i].state = IF i = n THEN "Running" ELSE T[i].state
    BY <1>5, <1>9 DEF States
  <2>2. current' < next_id' /\ current' \in Ids /\ \A i \in ToSet(runq') : i < next_id'
    BY <1>1, <1>2, <1>3, <1>9
  <2>3. \A i \in Ids : task'[i].state = "Running" => i = current' /\ i \notin ToSet(runq')
    BY <1>1, <1>3, <1>9, <2>1
  <2>4. Queued(task', runq') /\ Counted(task', next_id')
    BY <1>1, <1>2, <1>3, <1>7, <2>1 DEF Queued, Counted
  <2> QED
    BY <1>3, <1>7, <2>1, <2>2, <2>3, <2>4, NextInv
<1>10. CASE Died
  <2> DEFINE Z == [T1 EXCEPT ![n].state = "Zombie"]
  <2>1. Z \in [Ids -> TaskRec] /\ \A i \in Ids :
          Z[i].saved /\ Z[i].state = IF i = n THEN "Zombie" ELSE T[i].state
    BY <1>5 DEF States
  <2>2. task' = NotifyChild(Z, runq', T[n].parent)
    BY <1>10
  <2> HIDE DEF Z
  <2>3. /\ task' \in [Ids -> TaskRec]
        /\ \A i \in Ids :
             /\ task'[i].saved = Z[i].saved
             /\ \/ task'[i].state = Z[i].state
                \/ /\ Z[i].state = "Blocked" /\ i \in ToSet(runq')
                   /\ task'[i].state = "Ready"
    BY <1>6, <2>1, <2>2, NotifyFacts
  <2>4. \A i \in Ids : task'[i].saved /\ task'[i].state # "Running"
    BY <1>1, <2>1, <2>3
  <2>5. Queued(task', runq') /\ Counted(task', next_id')
    <3>1. \A i \in Ids : task'[i].state = "Ready" => i \in ToSet(runq') \/ (T[i].state = "Ready" /\ i # n)
      BY <2>1, <2>3
    <3>2. \A i \in Ids : task'[i].state = "none" <=> T[i].state = "none" /\ i # n
      BY <1>3, <2>1, <2>3
    <3> QED
      BY <1>1, <1>2, <1>3, <1>7, <3>1, <3>2 DEF Queued, Counted
  <2>6. current' < next_id' /\ current' \in Ids /\ \A i \in ToSet(runq') : i < next_id'
    BY <1>1, <1>3, <1>7, <1>10
  <2> QED
    BY <1>3, <1>7, <2>3, <2>4, <2>5, <2>6, NextInv
<1>11. CASE Halted
  <2>1. task' \in [Ids -> TaskRec] /\ \A i \in Ids :
          task'[i].saved /\ task'[i].state = IF i = n THEN "Blocked" ELSE T[i].state
    BY <1>5, <1>11 DEF States
  <2>2. current' < next_id' /\ current' \in Ids /\ \A i \in ToSet(runq') : i < next_id'
    BY <1>1, <1>3, <1>7, <1>11
  <2>3. Queued(task', runq') /\ Counted(task', next_id')
    BY <1>1, <1>2, <1>3, <1>7, <2>1 DEF Queued, Counted
  <2> QED
    BY <1>1, <1>3, <1>7, <2>1, <2>2, <2>3, NextInv
<1> QED
  BY <1>8, <1>9, <1>10, <1>11

\* Dropping the Exited tasks from the queue leaves it settled.
LEMMA RetainSettled ==
  ASSUME NEW T, NEW q, Settled(T, q)
  PROVE  Settled(T, Retained(q, T))
BY RetainedFacts DEF Settled, Queued

\* A settled table that nobody is chosen from.
LEMMA NobodyInv ==
  ASSUME IInv, NEW T, NEW q, Settled(T, q), task' = T, runq' = q, UNCHANGED current,
         cfs' \in [Ids -> Nat], UNCHANGED next_id, mode' \in {"up", "halt", "hang"}
  PROVE  IInv' /\ KeepsQueued
<1>1. current \in Ids /\ current < next_id /\ next_id \in 3 .. MaxId + 1
  BY Typed DEF Allocated
<1> QED
  BY <1>1, NextInv DEF Settled

-----------------------------------------------------------------------------
(* The tick.                                                               *)

\* The end of a slice: the frame is saved, a running task is put back, the
\* Exited ones leave the queue.
LEMMA TickSettles ==
  ASSUME IInv, NEW T, NEW q,
         T = [SaveFrame(task) EXCEPT
                ![current].state = IF Requeue(task) THEN "Ready" ELSE @],
         q = IF Requeue(task) THEN Append(runq, current) ELSE runq
  PROVE  Settled(T, q)
<1> DEFINE st == IF Requeue(task) THEN "Ready" ELSE task[current].state
           r == [task[current] EXCEPT !.saved = TRUE, !.state = st]
<1>1. task \in [Ids -> TaskRec] /\ current \in Ids /\ runq \in Seq(Ids) /\ IsInjective(runq)
  BY Typed
<1>2. task[current] \in TaskRec
  BY <1>1
<1>3. r \in TaskRec /\ r.saved /\ r.state = st
  BY <1>2 DEF TaskRec, States
<1>4. T = [task EXCEPT ![current] = r]
  BY <1>1, <1>2 DEF SaveFrame, TaskRec
<1> HIDE DEF r
<1>5. T \in [Ids -> TaskRec]
  BY <1>1, <1>3, <1>4
<1>6. \A i \in Ids : i # current => T[i] = task[i]
  BY <1>1, <1>4
<1>7. T[current].saved /\ T[current].state = st
  BY <1>1, <1>3, <1>4
<1>8. \A i \in Ids : T[i].saved
  BY <1>6, <1>7 DEF IInv, FramesSaved
<1>9. \A i \in Ids : T[i].state # "Running"
  BY <1>6, <1>7 DEF IInv, RunningIsCurrent, Requeue
<1>10. Requeue(task) => current \notin ToSet(runq)
  BY DEF IInv, RunningHasLeft, Requeue
<1>11. /\ q \in Seq(Ids) /\ IsInjective(q)
       /\ ToSet(q) = IF Requeue(task) THEN ToSet(runq) \cup {current} ELSE ToSet(runq)
  BY <1>1, <1>10, AppendFacts
<1>12. \A i \in ToSet(q) : i < next_id
  BY <1>11, Typed DEF Allocated
<1>13. Queued(T, q)
  BY <1>6, <1>7, <1>11 DEF Queued, Stray
<1>14. Counted(T, next_id)
  BY <1>6, <1>7, Typed DEF Counted, Allocated
<1> QED
  BY <1>5, <1>8, <1>9, <1>11, <1>12, <1>13, <1>14 DEF Settled

\* A tick at the end of a slice keeps the invariant, whoever it chooses.
LEMMA TickSwitchInv ==
  ASSUME IInv, TickSwitch
  PROVE  IInv' /\ KeepsQueued
<1> DEFINE back == Requeue(task)
           T == [SaveFrame(task) EXCEPT ![current].state = IF back THEN "Ready" ELSE @]
           q0 == IF back THEN Append(runq, current) ELSE runq
           q == Retained(q0, T)
           c == [cfs EXCEPT ![current] = IF back /\ IsUser(current) THEN @ + 1 ELSE @]
           Pick(k) == runq' = RemoveAt(q, k) /\ SwitchTo(T, runq', q[k])
           Fallback == LET k == BestIndex(q, T) IN
                         IF k = 0 THEN task' = T /\ runq' = q /\ UNCHANGED current
                                  ELSE Pick(k)
<1>1. UNCHANGED <<next_id, mode>>
  BY DEF TickSwitch
<1>2. \/ (\A i \in Ids : c[i] = 0) /\ cfs' = c /\ Fallback
      \/ \E e \in Ids : /\ c[e] > 0
                        /\ cfs' = [c EXCEPT ![e] = @ - 1]
                        /\ IF FoundReady(q, T, e)
                           THEN Pick(CHOOSE k \in DOMAIN q : q[k] = e) ELSE Fallback
  BY DEF TickSwitch
<1>3. c \in [Ids -> Nat]
  BY Typed
<1>4. Settled(T, q0)
  BY TickSettles
<1> HIDE DEF T, q0, c
<1>5. Settled(T, q)
  BY <1>4, RetainSettled
<1>6. q \in Seq(Ids)
  BY <1>5 DEF Settled
<1> HIDE DEF q
<1>7. cfs' \in [Ids -> Nat]
  <2>1. ASSUME NEW e \in Ids, c[e] > 0, cfs' = [c EXCEPT ![e] = @ - 1]
        PROVE  cfs' \in [Ids -> Nat]
    BY <1>3, <2>1
  <2> QED
    BY <1>2, <1>3, <2>1
<1>8. ASSUME NEW k \in DOMAIN q, Pick(k) PROVE IInv' /\ KeepsQueued
  BY <1>1, <1>5, <1>7, <1>8, SwitchInv
<1>9. ASSUME Fallback PROVE IInv' /\ KeepsQueued
  <2>1. CASE BestIndex(q, T) = 0
    <3>1. mode' \in {"up", "halt", "hang"}
      BY <1>1 DEF IInv, TypeOK
    <3> QED
      BY <1>1, <1>5, <1>7, <1>9, <2>1, <3>1, NobodyInv
  <2>2. CASE BestIndex(q, T) # 0
    <3>1. BestIndex(q, T) \in DOMAIN q
      BY <1>6, <2>2, BestIndexType
    <3>2. Pick(BestIndex(q, T))
      BY <1>9, <2>2
    <3> QED
      BY <1>8, <3>1, <3>2
  <2> QED
    BY <2>1, <2>2
<1>10. ASSUME NEW e \in Ids, FoundReady(q, T, e), Pick(CHOOSE k \in DOMAIN q : q[k] = e)
       PROVE  IInv' /\ KeepsQueued
  <2>1. (CHOOSE k \in DOMAIN q : q[k] = e) \in DOMAIN q
    BY <1>10 DEF FoundReady, ToSet
  <2> QED
    BY <1>8, <1>10, <2>1
<1> HIDE DEF Pick, Fallback
<1> QED
  BY <1>2, <1>9, <1>10

-----------------------------------------------------------------------------
(* exit and exit_group.                                                    *)

\* The bookkeeping of exit leaves a settled table: the current task is a
\* zombie or gone, and nobody else was running.
LEMMA ExitSettles ==
  ASSUME IInv, NEW T0 \in [Ids -> TaskRec], NEW b \in BOOLEAN,
         \A i \in Ids : /\ T0[i].saved
                        /\ \/ T0[i].state = task[i].state
                           \/ i \in ToSet(runq) /\ T0[i].state = "Exited"
  PROVE  Settled(Reparented(Ended(T0, b)), runq)
<1> DEFINE E == Ended(T0, b)
           kids == {i \in ToSet(runq) : E[i].parent = current}
           T1 == [i \in Ids |-> IF i \in kids THEN [E[i] EXCEPT !.parent = InitPid] ELSE E[i]]
           p == T0[current].parent
           Fine(T) == /\ T \in [Ids -> TaskRec]
                      /\ \A i \in Ids : T[i].saved /\ T[i].state # "Running"
                      /\ Queued(T, runq) /\ Counted(T, next_id)
<1>1. /\ current \in Ids /\ runq \in Seq(Ids) /\ IsInjective(runq)
      /\ \A i \in Ids : task[i].state = "Running" => i = current
      /\ Queued(task, runq) /\ Counted(task, next_id) /\ current < next_id
      /\ \A i \in ToSet(runq) : i < next_id
  BY Typed DEF IInv, RunningIsCurrent, Queued, Stray, Counted, Allocated
<1>2. ASSUME NEW st \in {"Zombie", "Exited"}
      PROVE  Fine([T0 EXCEPT ![current].state = st])
  <2> DEFINE r == [T0[current] EXCEPT !.state = st]
             U == [T0 EXCEPT ![current] = r]
  <2>1. T0[current] \in TaskRec /\ T0[current].saved
    BY <1>1
  <2>2. r \in TaskRec /\ r.saved /\ r.state = st
    BY <2>1 DEF TaskRec, States
  <2>3. [T0 EXCEPT ![current].state = st] = U
    BY <1>1, <2>1 DEF TaskRec
  <2> HIDE DEF r
  <2>4. U \in [Ids -> TaskRec]
    BY <1>1, <2>2
  <2>5. \A i \in Ids : U[i] = IF i = current THEN r ELSE T0[i]
    BY <1>1
  <2> HIDE DEF U
  <2>6. \A i \in Ids : U[i].saved /\ U[i].state # "Running"
    BY <1>1, <2>2, <2>5
  <2>7. Queued(U, runq)
    BY <1>1, <2>2, <2>5 DEF Queued
  <2>8. Counted(U, next_id)
    BY <1>1, <2>2, <2>5 DEF Counted
  <2> QED
    BY <2>3, <2>4, <2>6, <2>7, <2>8
<1>3. ASSUME NEW T, Fine(T), NEW j \in Ids
      PROVE  Fine(NotifyChild(T, runq, j))
  <2> DEFINE N == NotifyChild(T, runq, j)
  <2>1. N \in [Ids -> TaskRec] /\ \A i \in Ids :
          /\ N[i].saved = T[i].saved
          /\ \/ N[i].state = T[i].state
             \/ T[i].state = "Blocked" /\ i \in ToSet(runq) /\ N[i].state = "Ready"
    BY <1>3, NotifyFacts
  <2> HIDE DEF N
  <2>2. Fine(N)
    BY <1>3, <2>1 DEF Queued, Counted
  <2> QED
    BY <2>2 DEF N
<1>4. p \in Ids
  BY <1>1 DEF TaskRec
<1>5. Fine(E)
  <2> HIDE DEF Fine
  <2>1. \/ E = [T0 EXCEPT ![current].state = "Exited"]
        \/ E = NotifyChild([T0 EXCEPT ![current].state = "Zombie"], runq, p)
    BY DEF Ended
  <2>2. Fine([T0 EXCEPT ![current].state = "Exited"]) /\ Fine([T0 EXCEPT ![current].state = "Zombie"])
    BY <1>2
  <2>3. Fine(NotifyChild([T0 EXCEPT ![current].state = "Zombie"], runq, p))
    BY <1>3, <1>4, <2>2
  <2> QED
    BY <2>1, <2>2, <2>3
<1>6. Reparented(E) = T1 \/ Reparented(E) = NotifyChild(T1, runq, InitPid)
  BY DEF Reparented
<1> HIDE DEF E
<1>7. InitPid \in Ids
  BY SchedAssumption DEF InitPid, Ids
<1>8. Fine(T1)
  <2>1. ASSUME NEW i \in Ids
        PROVE  T1[i] \in TaskRec /\ T1[i].saved = E[i].saved /\ T1[i].state = E[i].state
    <3> HIDE DEF kids
    <3>1. E[i] \in TaskRec
      BY <1>5
    <3>2. /\ [E[i] EXCEPT !.parent = InitPid] \in TaskRec
          /\ [E[i] EXCEPT !.parent = InitPid].saved = E[i].saved
          /\ [E[i] EXCEPT !.parent = InitPid].state = E[i].state
      BY <1>7, <3>1 DEF TaskRec
    <3> QED
      BY <3>1, <3>2
  <2>2. T1 \in [Ids -> TaskRec]
    BY <2>1
  <2> HIDE DEF T1
  <2> QED
    BY <1>5, <2>1, <2>2 DEF Queued, Counted
<1>9. Fine(Reparented(E))
  <2> HIDE DEF Fine, T1
  <2> QED
    BY <1>3, <1>6, <1>7, <1>8
<1> HIDE DEF T1
<1> QED
  BY <1>1, <1>9 DEF Settled, E

\* The exit's choice, an index into the queue as it was before the Exited
\* tasks left it, is still a task with a frame.
LEMMA ExitInv ==
  ASSUME IInv, NEW T0 \in [Ids -> TaskRec], NEW b \in BOOLEAN, ExitFrom(T0, b),
         \A i \in Ids : /\ T0[i].saved
                        /\ \/ T0[i].state = task[i].state
                           \/ i \in ToSet(runq) /\ T0[i].state = "Exited",
         UNCHANGED <<cfs, next_id>>
  PROVE  IInv' /\ KeepsQueued
<1> DEFINE T == Reparented(Ended(T0, b))
           k == BestIndex(runq, T)
           q == Retained(runq, T)
<1>1. \/ task' = T /\ runq' = q /\ mode' = "halt" /\ UNCHANGED current
      \/ /\ k # 0 /\ ~(k > Len(q))
         /\ task' = [T EXCEPT ![q[k]].state = "Running"]
         /\ runq' = RemoveAt(q, k)
         /\ mode' = IF T[q[k]].saved THEN "up" ELSE "panic"
         /\ current' = q[k]
  BY DEF ExitFrom
<1>2. Settled(T, runq)
  BY ExitSettles
<1>3. cfs' \in [Ids -> Nat] /\ next_id \in 3 .. MaxId + 1 /\ runq \in Seq(Ids)
  BY Typed
<1>4. k = 0 \/ k \in 1 .. Len(runq)
  BY <1>3, BestIndexType
<1> HIDE DEF T, k
<1>5. Settled(T, q)
  BY <1>2, RetainSettled
<1> HIDE DEF q
<1>6. /\ T \in [Ids -> TaskRec] /\ q \in Seq(Ids) /\ IsInjective(q)
      /\ \A i \in ToSet(q) : i < next_id
      /\ \A i \in Ids : T[i].saved /\ T[i].state # "Running"
      /\ Queued(T, q) /\ Counted(T, next_id)
  BY <1>5 DEF Settled
<1>7. CASE task' = T /\ runq' = q /\ mode' = "halt" /\ UNCHANGED current
  BY <1>3, <1>5, <1>7, NobodyInv
<1>8. CASE /\ k # 0 /\ ~(k > Len(q))
           /\ task' = [T EXCEPT ![q[k]].state = "Running"]
           /\ runq' = RemoveAt(q, k)
           /\ mode' = IF T[q[k]].saved THEN "up" ELSE "panic"
           /\ current' = q[k]
  <2> DEFINE n == q[k]
             r == [T[n] EXCEPT !.state = "Running"]
  <2>1. k \in DOMAIN q
    BY <1>3, <1>4, <1>6, <1>8
  <2>2. n \in Ids /\ n \in ToSet(q)
    BY <1>6, <2>1 DEF ToSet
  <2>3. runq' \in Seq(Ids) /\ IsInjective(runq') /\ ToSet(runq') = ToSet(q) \ {n}
    BY <1>6, <1>8, <2>1, RemoveAtFacts
  <2> HIDE DEF n
  <2>4. T[n] \in TaskRec /\ T[n].saved
    BY <1>6, <2>2
  <2>5. r \in TaskRec /\ r.saved /\ r.state = "Running"
    BY <2>4 DEF TaskRec, States
  <2>6. task' = [T EXCEPT ![n] = r]
    BY <1>6, <1>8, <2>2, <2>4 DEF TaskRec, n
  <2> HIDE DEF r
  <2>7. task' \in [Ids -> TaskRec] /\ \A i \in Ids : task'[i] = IF i = n THEN r ELSE T[i]
    BY <1>6, <2>2, <2>5, <2>6
  <2>8. \A i \in Ids : task'[i].saved
    BY <1>6, <2>5, <2>7
  <2>9. \A i \in Ids : task'[i].state = "Running" => i = n /\ i \notin ToSet(runq')
    BY <1>6, <2>3, <2>7
  <2>10. Queued(task', runq') /\ Counted(task', next_id')
    BY <1>3, <1>6, <2>2, <2>3, <2>5, <2>7 DEF Queued, Counted
  <2>11. current' = n /\ mode' = "up" /\ n < next_id' /\ \A i \in ToSet(runq') : i < next_id'
    BY <1>6, <1>8, <2>2, <2>3, <2>4 DEF n
  <2> QED
    BY <1>3, <2>2, <2>3, <2>7, <2>8, <2>9, <2>10, <2>11, NextInv
<1> QED
  BY <1>1, <1>7, <1>8

\* exit_group marks the queued threads of the group and ends the caller.
LEMMA ExitGroupFacts ==
  ASSUME NEW T \in [Ids -> TaskRec]
  PROVE  /\ GroupExited(T) \in [Ids -> TaskRec]
         /\ \A i \in Ids : /\ GroupExited(T)[i].saved = T[i].saved
                           /\ \/ GroupExited(T)[i].state = T[i].state
                              \/ i \in ToSet(runq) /\ GroupExited(T)[i].state = "Exited"
<1>1. ASSUME NEW i \in Ids
      PROVE  /\ GroupExited(T)[i] \in TaskRec
             /\ GroupExited(T)[i].saved = T[i].saved
             /\ \/ GroupExited(T)[i].state = T[i].state
                \/ i \in ToSet(runq) /\ GroupExited(T)[i].state = "Exited"
  <2>1. T[i] \in TaskRec
    OBVIOUS
  <2>2. /\ [T[i] EXCEPT !.state = "Exited"] \in TaskRec
        /\ [T[i] EXCEPT !.state = "Exited"].saved = T[i].saved
        /\ [T[i] EXCEPT !.state = "Exited"].state = "Exited"
    BY <2>1 DEF TaskRec, States
  <2>3. \/ GroupExited(T)[i] = T[i]
        \/ i \in ToSet(runq) /\ GroupExited(T)[i] = [T[i] EXCEPT !.state = "Exited"]
    BY DEF GroupExited
  <2> QED
    BY <2>1, <2>2, <2>3
<1>2. GroupExited(T) \in [Ids -> TaskRec]
  BY <1>1 DEF GroupExited
<1> QED
  BY <1>1, <1>2

-----------------------------------------------------------------------------
(* The other system calls.                                                 *)

\* A step that changes no queue, no frame and no wait, and changes states only
\* from Blocked to Ready.
LEMMA QuietInv ==
  ASSUME IInv, task' \in [Ids -> TaskRec],
         UNCHANGED <<runq, cfs, current, next_id>>, mode' \in {"up", "halt", "hang"},
         \A i \in Ids :
           /\ \/ task'[i].state = task[i].state
              \/ task[i].state = "Blocked" /\ task'[i].state = "Ready"
           /\ task'[i].saved = task[i].saved /\ task'[i].parent = task[i].parent
           /\ task[i].pc = "wait" => task'[i].pc = "wait" /\ task'[i].want = task[i].want
  PROVE  /\ IInv'
         /\ \A i \in Stray' \ Stray : task'[i].state # task[i].state /\ i \notin ToSet(runq)
<1>1. TypeOK' /\ RunqDistinct'
  <2>1. Allocated'
    BY Typed DEF Allocated
  <2> QED
    BY <2>1, Typed DEF TypeOK, TaskRec, RunqDistinct
<1>2. RunningIsCurrent' /\ RunningHasLeft'
  BY Typed DEF IInv, RunningIsCurrent, RunningHasLeft
<1>3. \A i \in Stray' \ Stray : task'[i].state # task[i].state /\ i \notin ToSet(runq)
  BY DEF Stray
<1>4. FramesSaved'
  <2>1. \A j \in ToSet(runq) : j \in Ids
    BY Typed DEF ToSet
  <2>2. \A k \in DOMAIN runq : runq[k] \in Ids
    BY Typed
  <2>3. \A k \in DOMAIN runq : task'[runq[k]].state = "Zombie" => task[runq[k]].state = "Zombie"
    BY <2>2
  <2>4. HasChildren => HasChildren'
    BY <2>1 DEF HasChildren
  <2>5. current' = current
    OBVIOUS
  <2>6. \A i \in Ids : ~task'[i].saved =>
          /\ i = current
          /\ \/ i = Idle
             \/ task[i].pc = "wait" /\ HasChildren /\ Zombies(task[i].want) = {}
    BY DEF IInv, FramesSaved
  <2>7. ASSUME NEW i \in Ids, task[i].pc = "wait", Zombies(task[i].want) = {}
        PROVE  (Zombies(task[i].want) = {})'
    BY <2>2, <2>3, <2>7 DEF Zombies
  <2> QED
    BY <2>4, <2>5, <2>6, <2>7 DEF FramesSaved
<1> QED
  BY <1>1, <1>2, <1>3, <1>4 DEF IInv

\* A quiet step of the current task alone, which is not in a wait.
LEMMA OwnInv ==
  ASSUME IInv, task[current].pc # "wait", NEW r \in TaskRec,
         task' = [task EXCEPT ![current] = r],
         r.state = task[current].state, r.saved = task[current].saved,
         r.parent = task[current].parent,
         UNCHANGED <<runq, cfs, current, next_id>>, mode' \in {"up", "halt", "hang"}
  PROVE  IInv' /\ KeepsQueued
<1>1. task \in [Ids -> TaskRec] /\ current \in Ids
  BY Typed
<1>2. task' \in [Ids -> TaskRec] /\ \A i \in Ids : task'[i] = IF i = current THEN r ELSE task[i]
  BY <1>1
<1>3. IInv' /\ \A i \in Stray' \ Stray : task'[i].state # task[i].state
  BY <1>2, QuietInv
<1> QED
  BY <1>2, <1>3 DEF KeepsQueued, Stray

\* tgkill adds the signal and wakes nobody.
Marked(T, i, s) == [T EXCEPT ![i].pend = @ \cup {s}]

\* SIGINT wakes the blocked task t, which is then u.
Woken(t, u) == t.state = "Blocked" /\ u.state = "Ready" /\ SIGINT \in u.pend

\* What kill, tgkill and Ctrl+C do to their target.
LEMMA SentFacts ==
  ASSUME NEW T \in [Ids -> TaskRec], NEW i \in Ids, NEW s \in Sigs,
         NEW U \in {Sent(T, i, s), Marked(T, i, s)}
  PROVE  /\ U \in [Ids -> TaskRec]
         /\ \A j \in Ids :
              /\ U[j].state = T[j].state \/ (j = i /\ Woken(T[j], U[j]))
              /\ U[j].saved = T[j].saved /\ U[j].parent = T[j].parent
              /\ U[j].pc = T[j].pc /\ U[j].want = T[j].want
<1> DEFINE r1 == [T[i] EXCEPT !.pend = @ \cup {s},
                    !.state = IF s = SIGINT /\ @ = "Blocked" THEN "Ready" ELSE @]
           r2 == [T[i] EXCEPT !.pend = @ \cup {s}]
<1>1. T[i] \in TaskRec
  OBVIOUS
<1>2. Sent(T, i, s) = [T EXCEPT ![i] = r1] /\ Marked(T, i, s) = [T EXCEPT ![i] = r2]
  BY <1>1 DEF Sent, Marked, TaskRec
<1>3. /\ r1 \in TaskRec /\ r1.saved = T[i].saved /\ r1.parent = T[i].parent
      /\ r1.pc = T[i].pc /\ r1.want = T[i].want
      /\ r1.state = T[i].state \/ Woken(T[i], r1)
  BY <1>1 DEF TaskRec, States, Woken
<1>4. /\ r2 \in TaskRec /\ r2.saved = T[i].saved /\ r2.parent = T[i].parent
      /\ r2.pc = T[i].pc /\ r2.want = T[i].want /\ r2.state = T[i].state
  BY <1>1 DEF TaskRec
<1> HIDE DEF r1, r2
<1>5. [T EXCEPT ![i] = r1] \in [Ids -> TaskRec] /\ [T EXCEPT ![i] = r2] \in [Ids -> TaskRec]
  BY <1>3, <1>4
<1>6. ASSUME NEW r \in {r1, r2}, NEW j \in Ids
      PROVE  /\ \/ [T EXCEPT ![i] = r][j].state = T[j].state
                \/ j = i /\ Woken(T[j], [T EXCEPT ![i] = r][j])
             /\ [T EXCEPT ![i] = r][j].saved = T[j].saved
             /\ [T EXCEPT ![i] = r][j].parent = T[j].parent
             /\ [T EXCEPT ![i] = r][j].pc = T[j].pc /\ [T EXCEPT ![i] = r][j].want = T[j].want
  BY <1>3, <1>4
<1>7. PICK r \in {r1, r2} : U = [T EXCEPT ![i] = r]
  BY <1>2
<1> QED
  BY <1>5, <1>6, <1>7

\* In user mode every frame is saved.
LEMMA UserSaved ==
  ASSUME IInv, current # Idle, task[current].pc # "wait"
  PROVE  \A i \in Ids : task[i].saved
BY DEF IInv, FramesSaved

\* fork and clone queue the new task once.
LEMMA SpawnInv ==
  ASSUME IInv, NEW g \in Ids, Spawn(g)
  PROVE  IInv' /\ KeepsQueued
<1> DEFINE n == next_id
           new == [NewTask("Ready", current, g) EXCEPT
                     !.mask = task[current].mask, !.disp = task[current].disp]
           r == [task[current] EXCEPT !.pc = "sysret"]
<1>1. /\ task \in [Ids -> TaskRec] /\ current \in Ids /\ runq \in Seq(Ids)
      /\ IsInjective(runq) /\ cfs \in [Ids -> Nat] /\ next_id \in 3 .. MaxId + 1
  BY Typed
<1>2. n \in Ids /\ n # current /\ n \notin ToSet(runq) /\ current < n
  <2>1. n \in Ids
    BY <1>1, SchedAssumption DEF Spawn, Ids
  <2> QED
    BY <2>1, <1>1, Typed DEF Allocated
<1>3. task[current] \in TaskRec
  BY <1>1
<1>4. new \in TaskRec /\ new.saved /\ new.state = "Ready"
  BY <1>1, <1>3 DEF NewTask, TaskRec, States
<1>5. r \in TaskRec /\ r.saved = task[current].saved /\ r.state = task[current].state
  BY <1>3 DEF TaskRec
<1>6. task' = [task EXCEPT ![n] = new, ![current] = r]
  BY <1>1, <1>2 DEF Spawn
<1>7. runq' = Append(runq, n) /\ next_id' = n + 1 /\ UNCHANGED <<current, mode>> /\ mode = "up"
  BY DEF Spawn, InUser
<1>8. cfs' \in [Ids -> Nat]
  BY <1>1, <1>2 DEF Spawn
<1>9. next_id' \in 3 .. MaxId + 1
  BY <1>1, <1>2, <1>7, SchedAssumption DEF Ids
<1>10. \A i \in Ids : task[i].saved
  BY UserSaved DEF Spawn, InUser, IsUser
<1> HIDE DEF n, new, r
<1>11. /\ task' \in [Ids -> TaskRec]
       /\ \A i \in Ids : task'[i] = IF i = current THEN r ELSE IF i = n THEN new ELSE task[i]
  BY <1>1, <1>2, <1>4, <1>5, <1>6
<1>12. runq' \in Seq(Ids) /\ IsInjective(runq') /\ ToSet(runq') = ToSet(runq) \cup {n}
  BY <1>1, <1>2, <1>7, AppendFacts
<1>13. \A i \in ToSet(runq') : i < next_id'
  <2>1. \A i \in ToSet(runq) : i \in Ids /\ i < n
    BY <1>1, Typed DEF Allocated, ToSet, n
  <2> QED
    BY <1>1, <1>2, <1>7, <1>12, <2>1 DEF Ids
<1>14. current' \in Ids /\ current' < next_id'
  BY <1>1, <1>2, <1>7 DEF Ids
<1>15. \A i \in Ids : task'[i].saved
  BY <1>4, <1>5, <1>10, <1>11
<1>16. \A i \in Ids : task'[i].state = "Running" => i = current' /\ i \notin ToSet(runq')
  BY <1>2, <1>4, <1>5, <1>7, <1>11, <1>12 DEF IInv, RunningIsCurrent, RunningHasLeft
<1>17. Queued(task', runq') /\ Counted(task', next_id')
  <2>1. Queued(task', runq')
    BY <1>4, <1>5, <1>11, <1>12 DEF Queued, Stray
  <2>2. Counted(task, n)
    BY Typed DEF Allocated, Counted, n
  <2>3. \A i \in Ids : i < n + 1 <=> i < n \/ i = n
    BY <1>1, <1>2 DEF Ids
  <2> QED
    BY <1>1, <1>2, <1>4, <1>5, <1>7, <1>11, <2>1, <2>2, <2>3 DEF Counted
<1>18. mode' \in {"up", "halt", "hang"}
  BY <1>7
<1> QED
  BY <1>8, <1>9, <1>11, <1>12, <1>13, <1>14, <1>15, <1>16, <1>17, <1>18, NextInv

\* A round of wait: it reaps, returns, or blocks without a frame.
LEMMA WaitInv ==
  ASSUME IInv, Wait
  PROVE  IInv' /\ KeepsQueued
<1>1. /\ task \in [Ids -> TaskRec] /\ current \in Ids /\ runq \in Seq(Ids)
      /\ IsInjective(runq) /\ cfs \in [Ids -> Nat] /\ next_id \in 3 .. MaxId + 1
  BY Typed
<1>2. /\ mode = "up" /\ IsUser(current) /\ task[current].pc \in {"user", "wait"}
      /\ UNCHANGED <<cfs, current, next_id, mode>>
  BY DEF Wait
<1> DEFINE out == IF task[current].pc = "wait" THEN "sysret_irq" ELSE "sysret"
<1>3. PICK want \in IF task[current].pc = "wait" THEN {task[current].want} ELSE Wants :
        \/ /\ Zombies(want) # {}
           /\ task' = [task EXCEPT ![runq[Min(Zombies(want))]].state = "Exited",
                                   ![current].pc = out, ![current].want = {}]
           /\ runq' = RemoveAt(runq, Min(Zombies(want)))
        \/ /\ ~HasChildren
           /\ task' = [task EXCEPT ![current].pc = out, ![current].want = {}]
           /\ UNCHANGED runq
        \/ /\ Zombies(want) = {} /\ HasChildren
           /\ task' = [task EXCEPT ![current].state = "Blocked", ![current].saved = FALSE,
                                   ![current].pc = "wait", ![current].want = want]
           /\ UNCHANGED runq
  BY DEF Wait
<1>4. task[current] \in TaskRec /\ current # Idle
  BY <1>1, <1>2 DEF IsUser
<1>5. want \in SUBSET Ids
  <2>1. task[current].want \in SUBSET Ids
    BY <1>4 DEF TaskRec
  <2>2. \A w \in Wants : w \in SUBSET Ids
    BY SchedAssumption DEF Wants, Ids
  <2> QED
    BY <2>1, <2>2
<1>6. out \in {"sysret", "sysret_irq"}
  OBVIOUS
<1> HIDE DEF out
<1>7. task[current].pc = "wait" => want = task[current].want
  OBVIOUS
<1>8. ASSUME Zombies(want) # {} \/ ~HasChildren
      PROVE  \A i \in Ids : task[i].saved
  BY <1>4, <1>7, <1>8 DEF IInv, FramesSaved
<1> DEFINE r == [task[current] EXCEPT !.pc = out, !.want = {}]
<1>9. r \in TaskRec /\ r.state = task[current].state /\ r.saved = task[current].saved
  BY <1>4, <1>6 DEF TaskRec
<1>10. CASE /\ Zombies(want) # {}
            /\ task' = [task EXCEPT ![runq[Min(Zombies(want))]].state = "Exited",
                                    ![current].pc = out, ![current].want = {}]
            /\ runq' = RemoveAt(runq, Min(Zombies(want)))
  <2> DEFINE k == Min(Zombies(want))
             z == runq[k]
             T == [task EXCEPT ![z].state = "Exited"]
             u == [T[current] EXCEPT !.pc = out, !.want = {}]
  <2>1. k \in Zombies(want)
    <3>1. Zombies(want) \in SUBSET Nat
      BY <1>1 DEF Zombies
    <3> QED
      BY <1>10, <3>1, MinFacts
  <2>2. k \in DOMAIN runq /\ task[z].state = "Zombie"
    BY <2>1 DEF Zombies
  <2> HIDE DEF k
  <2>3. z \in Ids /\ z \in ToSet(runq)
    BY <1>1, <2>2 DEF ToSet
  <2>4. runq' \in Seq(Ids) /\ IsInjective(runq') /\ ToSet(runq') = ToSet(runq) \ {z}
    BY <1>1, <1>10, <2>2, RemoveAtFacts DEF k
  <2>5. \A i \in Ids : task[i].saved
    BY <1>8, <1>10
  <2>6. task' = [T EXCEPT ![current].pc = out, ![current].want = {}]
    BY <1>10 DEF k
  <2> HIDE DEF z
  <2>7. /\ T \in [Ids -> TaskRec]
        /\ \A i \in Ids : T[i].saved /\ T[i].state = IF i = z THEN "Exited" ELSE task[i].state
    <3> DEFINE v == [task[z] EXCEPT !.state = "Exited"]
    <3>1. task[z] \in TaskRec /\ task[z].saved
      BY <1>1, <2>3, <2>5
    <3>2. v \in TaskRec /\ v.saved /\ v.state = "Exited"
      BY <3>1 DEF TaskRec, States
    <3>3. T = [task EXCEPT ![z] = v]
      BY <1>1, <2>3
    <3> HIDE DEF v, T
    <3>4. T \in [Ids -> TaskRec] /\ \A i \in Ids : T[i] = IF i = z THEN v ELSE task[i]
      BY <1>1, <2>3, <3>2, <3>3
    <3> QED
      BY <2>5, <3>2, <3>4
  <2> HIDE DEF T
  <2>8. T[current] \in TaskRec /\ T[current].saved
    BY <1>1, <2>7
  <2>9. u \in TaskRec /\ u.saved /\ u.state = T[current].state
    BY <1>6, <2>8 DEF TaskRec
  <2>10. task' = [T EXCEPT ![current] = u]
    BY <1>1, <2>6, <2>7, <2>8 DEF TaskRec
  <2> HIDE DEF u
  <2>11. task' \in [Ids -> TaskRec] /\ \A i \in Ids : task'[i] = IF i = current THEN u ELSE T[i]
    BY <1>1, <2>7, <2>9, <2>10
  <2>12. \A i \in Ids : /\ task'[i].saved
                        /\ task'[i].state = IF i = z THEN "Exited" ELSE task[i].state
    BY <1>1, <2>7, <2>9, <2>11
  <2>13. \A i \in Ids : task'[i].state = "Running" => i = current' /\ i \notin ToSet(runq')
    BY <1>2, <2>4, <2>12 DEF IInv, RunningIsCurrent, RunningHasLeft
  <2>14. Queued(task', runq') /\ Counted(task', next_id')
    BY <1>2, <2>2, <2>4, <2>12, Typed DEF Queued, Stray, Counted, Allocated, z
  <2>15. /\ \A i \in ToSet(runq') : i < next_id'
         /\ current' \in Ids /\ current' < next_id'
         /\ cfs' \in [Ids -> Nat] /\ next_id' \in 3 .. MaxId + 1 /\ mode' \in {"up", "halt", "hang"}
    BY <1>1, <1>2, <2>4, Typed DEF Allocated
  <2> QED
    BY <2>4, <2>11, <2>12, <2>13, <2>14, <2>15, NextInv
<1>11. CASE /\ ~HasChildren
            /\ task' = [task EXCEPT ![current].pc = out, ![current].want = {}]
            /\ UNCHANGED runq
  <2>1. task' = [task EXCEPT ![current] = r]
    BY <1>1, <1>4, <1>11 DEF TaskRec
  <2>2. \A i \in Ids : task[i].saved
    BY <1>8, <1>11
  <2> HIDE DEF r
  <2>3. task' \in [Ids -> TaskRec] /\ \A i \in Ids : task'[i] = IF i = current THEN r ELSE task[i]
    BY <1>1, <1>9, <2>1
  <2>4. \A i \in Ids : task'[i].saved /\ task'[i].state = task[i].state
    BY <1>9, <2>2, <2>3
  <2>5. \A i \in Ids : task'[i].state = "Running" => i = current' /\ i \notin ToSet(runq')
    BY <1>2, <1>11, <2>4 DEF IInv, RunningIsCurrent, RunningHasLeft
  <2>6. Queued(task', runq') /\ Counted(task', next_id')
    BY <1>2, <1>11, <2>4, Typed DEF Queued, Stray, Counted, Allocated
  <2>7. /\ \A i \in ToSet(runq') : i < next_id'
        /\ current' \in Ids /\ current' < next_id'
        /\ cfs' \in [Ids -> Nat] /\ next_id' \in 3 .. MaxId + 1 /\ mode' \in {"up", "halt", "hang"}
        /\ runq' \in Seq(Ids) /\ IsInjective(runq')
    BY <1>1, <1>2, <1>11, Typed DEF Allocated
  <2> QED
    BY <2>3, <2>4, <2>5, <2>6, <2>7, NextInv
<1>12. CASE /\ Zombies(want) = {} /\ HasChildren
            /\ task' = [task EXCEPT ![current].state = "Blocked", ![current].saved = FALSE,
                                    ![current].pc = "wait", ![current].want = want]
            /\ UNCHANGED runq
  <2> DEFINE v == [task[current] EXCEPT !.state = "Blocked", !.saved = FALSE,
                                        !.pc = "wait", !.want = want]
  <2>1. /\ v \in TaskRec /\ v.state = "Blocked" /\ v.pc = "wait" /\ v.want = want
        /\ v.parent = task[current].parent
    BY <1>4, <1>5 DEF TaskRec, States
  <2>2. task' = [task EXCEPT ![current] = v]
    BY <1>1, <1>4, <1>12 DEF TaskRec
  <2> HIDE DEF v
  <2>3. task' \in [Ids -> TaskRec] /\ \A i \in Ids : task'[i] = IF i = current THEN v ELSE task[i]
    BY <1>1, <2>1, <2>2
  <2>4. TypeOK' /\ RunqDistinct'
    <3>1. Allocated'
      BY <1>1, <1>2, <1>12, <2>1, <2>3, Typed DEF Allocated, Ids
    <3> QED
      BY <1>1, <1>2, <1>12, <2>3, <3>1 DEF TypeOK, TaskRec, RunqDistinct
  <2>5. RunningIsCurrent' /\ RunningHasLeft'
    BY <1>1, <1>2, <1>12, <2>1, <2>3 DEF IInv, RunningIsCurrent, RunningHasLeft
  <2>6. KeepsQueued
    BY <1>12, <2>1, <2>3 DEF KeepsQueued, Stray
  <2>7. FramesSaved'
    <3>1. \A i \in Ids : i # current => task'[i].saved
      BY <2>3 DEF IInv, FramesSaved
    <3>2. \A j \in ToSet(runq) : j \in Ids /\ task'[j].parent = task[j].parent
      BY <1>1, <2>1, <2>3 DEF ToSet
    <3>3. HasChildren'
      BY <1>2, <1>12, <3>2 DEF HasChildren
    <3>4. \A k \in DOMAIN runq : /\ task'[runq[k]].parent = task[runq[k]].parent
                                 /\ task'[runq[k]].state = "Zombie" => task[runq[k]].state = "Zombie"
      BY <1>1, <2>1, <2>3
    <3>5. (Zombies(task[current].want) = {})'
      <4>1. task'[current'].want = want
        BY <1>1, <1>2, <2>1, <2>3
      <4>2. {k \in DOMAIN runq : /\ task'[runq[k]].parent = current /\ runq[k] \in want
                                 /\ task'[runq[k]].state = "Zombie"} = {}
        BY <1>12, <3>4 DEF Zombies
      <4> QED
        BY <1>2, <1>12, <4>1, <4>2 DEF Zombies
    <3>6. task'[current'].pc = "wait"
      BY <1>1, <1>2, <2>1, <2>3
    <3> QED
      BY <1>2, <3>1, <3>3, <3>5, <3>6 DEF FramesSaved
  <2> QED
    BY <1>2, <2>4, <2>5, <2>6, <2>7 DEF IInv
<1> QED
  BY <1>3, <1>10, <1>11, <1>12

\* Delivery of signals on the way out of a system call.
LEMMA ReturnInv ==
  ASSUME IInv, SyscallReturn
  PROVE  IInv' /\ KeepsQueued
<1> DEFINE t == task[current]
           live == {s \in Deliverable(t) : t.disp[s] # "ign"}
           first == Min(live)
           rest == t.pend \ {s \in Deliverable(t) : live = {} \/ s < first}
<1>1. task \in [Ids -> TaskRec] /\ current \in Ids /\ t \in TaskRec
  BY Typed
<1>2. /\ mode = "up" /\ t.pc \in {"sysret", "sysret_irq"}
      /\ UNCHANGED <<runq, cfs, current, next_id>>
      /\ mode' \in {"up", "halt", "hang"}
  BY DEF SyscallReturn
<1>3. t.pend \in SUBSET Sigs /\ rest \in SUBSET Sigs /\ live \subseteq Sigs
  BY <1>1 DEF TaskRec, Deliverable
<1>4. \/ task' = [task EXCEPT ![current].pend = rest, ![current].pc = "user"]
      \/ /\ live # {} /\ t.disp[first] = "hnd"
         /\ \E noDefer, resetHand \in BOOLEAN, sa_mask \in SUBSET Blockable :
              task' = [task EXCEPT
                   ![current].pend = rest \ {first},
                   ![current].mask = IF noDefer THEN @ ELSE @ \cup {first} \cup sa_mask,
                   ![current].disp[first] = IF resetHand THEN "dfl" ELSE @,
                   ![current].pc = "user"]
      \/ task' = [task EXCEPT ![current].pend = rest \ {first}]
      \/ task' = [task EXCEPT ![current].pend = rest]
  BY DEF SyscallReturn
<1>5. live # {} => first \in Sigs
  <2>1. Sigs \subseteq Nat
    BY SchedAssumption DEF SIGINT, SIGCHLD, SIGSTOP, SIGXCPU
  <2>2. live \in SUBSET Nat
    BY <1>3, <2>1
  <2> QED
    BY <1>3, <2>2, MinFacts
<1> HIDE DEF live, first, rest
<1>6. CASE task' = [task EXCEPT ![current].pend = rest, ![current].pc = "user"]
  <2> DEFINE r == [t EXCEPT !.pend = rest, !.pc = "user"]
  <2>1. r \in TaskRec /\ r.state = t.state /\ r.saved = t.saved /\ r.parent = t.parent
    BY <1>1, <1>3 DEF TaskRec
  <2>2. task' = [task EXCEPT ![current] = r]
    BY <1>1, <1>6 DEF TaskRec
  <2> QED
    BY <1>2, <2>1, <2>2, OwnInv
<1>7. ASSUME live # {}, NEW noDefer \in BOOLEAN, NEW resetHand \in BOOLEAN,
             NEW sa_mask \in SUBSET Blockable,
             task' = [task EXCEPT
                   ![current].pend = rest \ {first},
                   ![current].mask = IF noDefer THEN @ ELSE @ \cup {first} \cup sa_mask,
                   ![current].disp[first] = IF resetHand THEN "dfl" ELSE @,
                   ![current].pc = "user"]
      PROVE  IInv' /\ KeepsQueued
  <2> DEFINE m == IF noDefer THEN t.mask ELSE t.mask \cup {first} \cup sa_mask
             d == [t.disp EXCEPT ![first] = IF resetHand THEN "dfl" ELSE @]
             r == [t EXCEPT !.pend = rest \ {first}, !.mask = m, !.disp = d, !.pc = "user"]
  <2>1. m \in SUBSET Sigs /\ d \in [Sigs -> {"dfl", "ign", "hnd"}]
    BY <1>1, <1>5, <1>7, SchedAssumption DEF TaskRec
  <2>2. task' = [task EXCEPT ![current] = r]
    BY <1>1, <1>7 DEF TaskRec
  <2> HIDE DEF m, d
  <2>3. r \in TaskRec /\ r.state = t.state /\ r.saved = t.saved /\ r.parent = t.parent
    BY <1>1, <1>3, <2>1 DEF TaskRec
  <2> QED
    BY <1>2, <2>2, <2>3, OwnInv
<1>8. ASSUME NEW left \in {rest, rest \ {first}},
             task' = [task EXCEPT ![current].pend = left]
      PROVE  IInv' /\ KeepsQueued
  <2> DEFINE r == [t EXCEPT !.pend = left]
  <2>1. r \in TaskRec /\ r.state = t.state /\ r.saved = t.saved /\ r.parent = t.parent
    BY <1>1, <1>3 DEF TaskRec
  <2>2. task' = [task EXCEPT ![current] = r]
    BY <1>1, <1>8 DEF TaskRec
  <2> QED
    BY <1>2, <2>1, <2>2, OwnInv
<1> QED
  BY <1>4, <1>6, <1>7, <1>8

\* kill, tgkill and Ctrl+C.
LEMMA SignalInv ==
  ASSUME IInv, Kill \/ CtrlC
  PROVE  IInv' /\ \A i \in Stray' \ Stray : WokenBySigint(i)
<1>1. task \in [Ids -> TaskRec] /\ current \in Ids
  BY Typed
<1>2. /\ UNCHANGED <<runq, cfs, current, next_id>>
      /\ mode' \in {"up", "halt", "hang"}
  BY DEF Kill, CtrlC, InUser, Preemptible
<1>3. CASE Kill
  <2>1. task[current].pc = "user"
    BY <1>3 DEF Kill, InUser
  <2>2. PICK i \in Ids, s \in Sigs :
        /\ Known(i)
        /\ \/ task' = [Sent(task, i, s) EXCEPT ![current].pc = "sysret"]
           \/ task' = [task EXCEPT ![i].pend = @ \cup {s}, ![current].pc = "sysret"]
    BY <1>3 DEF Kill
  <2>3. PICK U \in {Sent(task, i, s), Marked(task, i, s)} :
          task' = [U EXCEPT ![current].pc = "sysret"]
    BY <2>2 DEF Marked
  <2>4. U \in [Ids -> TaskRec] /\ \A j \in Ids :
              /\ U[j].state = task[j].state \/ (j = i /\ Woken(task[j], U[j]))
              /\ U[j].saved = task[j].saved /\ U[j].parent = task[j].parent
              /\ U[j].pc = task[j].pc /\ U[j].want = task[j].want
    BY <1>1, SentFacts
  <2> DEFINE r == [U[current] EXCEPT !.pc = "sysret"]
  <2>5. /\ r \in TaskRec /\ r.state = U[current].state /\ r.saved = U[current].saved
        /\ r.parent = U[current].parent /\ r.pend = U[current].pend
    <3>1. U[current] \in TaskRec
      BY <1>1, <2>4
    <3> QED
      BY <3>1 DEF TaskRec
  <2>6. task' = [U EXCEPT ![current] = r]
    BY <1>1, <2>3, <2>4 DEF TaskRec
  <2> HIDE DEF r
  <2>7. task' \in [Ids -> TaskRec] /\ \A j \in Ids : task'[j] = IF j = current THEN r ELSE U[j]
    BY <1>1, <2>4, <2>5, <2>6
  <2>8. \A j \in Ids :
           /\ task'[j].state = task[j].state \/ (j = i /\ Woken(task[j], task'[j]))
           /\ task'[j].saved = task[j].saved /\ task'[j].parent = task[j].parent
           /\ task[j].pc = "wait" => task'[j].pc = "wait" /\ task'[j].want = task[j].want
    BY <1>1, <2>1, <2>4, <2>5, <2>7 DEF Woken
  <2>9. IInv' /\ \A j \in Stray' \ Stray : task'[j].state # task[j].state /\ j \notin ToSet(runq)
    BY <1>2, <2>7, <2>8, QuietInv DEF Woken
  <2> QED
    BY <1>2, <2>2, <2>8, <2>9 DEF Stray, Known, Woken, WokenBySigint
<1>4. CASE CtrlC
  <2>1. SIGINT \in Sigs /\ \E i \in Ids : Known(i) /\ task' = Sent(task, i, SIGINT)
    BY <1>4 DEF CtrlC
  <2>2. PICK i \in Ids : Known(i) /\ task' = Sent(task, i, SIGINT)
    BY <2>1
  <2>3. task' \in [Ids -> TaskRec] /\ \A j \in Ids :
              /\ task'[j].state = task[j].state \/ (j = i /\ Woken(task[j], task'[j]))
              /\ task'[j].saved = task[j].saved /\ task'[j].parent = task[j].parent
              /\ task'[j].pc = task[j].pc /\ task'[j].want = task[j].want
    <3>1. task' \in {Sent(task, i, SIGINT), Marked(task, i, SIGINT)}
      BY <2>2
    <3> QED
      BY <1>1, <2>1, <3>1, SentFacts
  <2>4. IInv' /\ \A j \in Stray' \ Stray : task'[j].state # task[j].state /\ j \notin ToSet(runq)
    BY <1>2, <2>3, QuietInv DEF Woken
  <2> QED
    BY <1>2, <2>2, <2>3, <2>4 DEF Stray, Known, Woken, WokenBySigint
<1> QED
  BY <1>3, <1>4

\* Every step of the machine keeps the invariant, and only SIGINT makes a task
\* runnable outside the queue.
LEMMA StepInv ==
  ASSUME IInv, [Next]_vars
  PROVE  IInv' /\ \A i \in Stray' \ Stray : WokenBySigint(i)
<1> DEFINE Goal == IInv' /\ \A i \in Stray' \ Stray : WokenBySigint(i)
<1> SUFFICES Goal
  OBVIOUS
<1>0. IInv' /\ KeepsQueued => Goal
  BY DEF KeepsQueued
<1> HIDE DEF Goal
<1>1. /\ task \in [Ids -> TaskRec] /\ current \in Ids /\ task[current] \in TaskRec
      /\ cfs \in [Ids -> Nat] /\ runq \in Seq(Ids) /\ IsInjective(runq)
      /\ next_id \in 3 .. MaxId + 1
  BY Typed
<1>2. CASE UNCHANGED vars
  BY <1>0, <1>2 DEF vars, IInv, TypeOK, RunqDistinct, RunningIsCurrent, Allocated,
     RunningHasLeft, FramesSaved, HasChildren, Zombies, KeepsQueued, Stray
<1>3. CASE TickKeep
  <2> DEFINE r == [task[current] EXCEPT !.saved = TRUE]
  <2>1. /\ UNCHANGED <<runq, cfs, current, next_id, mode>> /\ mode = "up"
        /\ task' = [task EXCEPT ![current] = r]
    BY <1>1, <1>3 DEF TickKeep, SaveFrame, Preemptible, TaskRec
  <2>2. r \in TaskRec /\ r.saved /\ r.state = task[current].state
    BY <1>1 DEF TaskRec
  <2> HIDE DEF r
  <2>3. task' \in [Ids -> TaskRec] /\ \A i \in Ids : task'[i] = IF i = current THEN r ELSE task[i]
    BY <1>1, <2>1, <2>2
  <2>4. \A i \in Ids : task'[i].saved /\ task'[i].state = task[i].state
    BY <2>2, <2>3 DEF IInv, FramesSaved
  <2>5. \A i \in Ids : task'[i].state = "Running" => i = current' /\ i \notin ToSet(runq')
    BY <2>1, <2>4 DEF IInv, RunningIsCurrent, RunningHasLeft
  <2>6. Queued(task', runq') /\ Counted(task', next_id')
    BY <2>1, <2>4, Typed DEF Queued, Stray, Counted, Allocated
  <2>7. /\ \A i \in ToSet(runq') : i < next_id'
        /\ current' < next_id' /\ mode' \in {"up", "halt", "hang"}
    BY <2>1, Typed DEF Allocated
  <2> QED
    BY <1>0, <1>1, <2>1, <2>3, <2>4, <2>5, <2>6, <2>7, NextInv
<1>4. CASE TickSwitch
  BY <1>0, <1>4, TickSwitchInv
<1>5. CASE Fork
  <2>1. next_id \in Ids
    BY <1>1, <1>5, SchedAssumption DEF Fork, Spawn, Ids
  <2> QED
    BY <1>0, <1>5, <2>1, SpawnInv DEF Fork
<1>6. CASE CloneThread
  <2>1. task[current].tgid \in Ids
    BY <1>1 DEF TaskRec
  <2> QED
    BY <1>0, <1>6, <2>1, SpawnInv DEF CloneThread
<1>7. CASE Sigaction
  <2>1. PICK s \in Handled, d \in {"dfl", "ign", "hnd"} :
          task' = [task EXCEPT ![current].disp[s] = d, ![current].pc = "sysret"]
    BY <1>7 DEF Sigaction
  <2> DEFINE f == [task[current].disp EXCEPT ![s] = d]
             r == [task[current] EXCEPT !.disp = f, !.pc = "sysret"]
  <2>2. f \in [Sigs -> {"dfl", "ign", "hnd"}]
    BY <1>1, SchedAssumption DEF TaskRec
  <2>3. task' = [task EXCEPT ![current] = r]
    BY <1>1, <2>1 DEF TaskRec
  <2> HIDE DEF f
  <2>4. /\ r \in TaskRec /\ r.state = task[current].state
        /\ r.saved = task[current].saved /\ r.parent = task[current].parent
    BY <1>1, <2>2 DEF TaskRec
  <2> QED
    BY <1>0, <1>7, <2>3, <2>4, OwnInv DEF Sigaction, InUser
<1>8. CASE Sigprocmask
  <2>1. PICK m \in SUBSET Blockable :
          task' = [task EXCEPT ![current].mask = m, ![current].pc = "sysret"]
    BY <1>8 DEF Sigprocmask
  <2> DEFINE r == [task[current] EXCEPT !.mask = m, !.pc = "sysret"]
  <2>2. task' = [task EXCEPT ![current] = r]
    BY <1>1, <2>1 DEF TaskRec
  <2>3. m \in SUBSET Sigs
    BY SchedAssumption
  <2>4. /\ r \in TaskRec /\ r.state = task[current].state
        /\ r.saved = task[current].saved /\ r.parent = task[current].parent
    BY <1>1, <2>3 DEF TaskRec
  <2> QED
    BY <1>0, <1>8, <2>2, <2>4, OwnInv DEF Sigprocmask, InUser
<1>9. CASE Kill \/ CtrlC
  BY <1>9, SignalInv DEF Goal
<1>10. CASE ExitGroup
  <2>1. PICK b \in BOOLEAN : ExitFrom(GroupExited(task), b)
    BY <1>10 DEF ExitGroup
  <2>2. \A i \in Ids : task[i].saved
    BY <1>10, UserSaved DEF ExitGroup, InUser, IsUser
  <2>3. /\ GroupExited(task) \in [Ids -> TaskRec]
        /\ \A i \in Ids : /\ GroupExited(task)[i].saved
                          /\ \/ GroupExited(task)[i].state = task[i].state
                             \/ i \in ToSet(runq) /\ GroupExited(task)[i].state = "Exited"
    BY <1>1, <2>2, ExitGroupFacts
  <2> QED
    BY <1>0, <1>10, <2>1, <2>3, ExitInv DEF ExitGroup
<1>11. CASE ExitOne
  <2>1. PICK b \in BOOLEAN : ExitFrom(task, b)
    BY <1>11 DEF ExitOne
  <2>2. \A i \in Ids : task[i].saved
    BY <1>11, UserSaved DEF ExitOne
  <2> QED
    BY <1>0, <1>1, <1>11, <2>1, <2>2, ExitInv DEF ExitOne
<1>12. CASE Wait
  BY <1>0, <1>12, WaitInv
<1>13. CASE WaitNoHang
  <2> DEFINE r == [task[current] EXCEPT !.pc = "sysret"]
  <2>1. task' = [task EXCEPT ![current] = r]
    BY <1>1, <1>13 DEF WaitNoHang, TaskRec
  <2>2. /\ r \in TaskRec /\ r.state = task[current].state
        /\ r.saved = task[current].saved /\ r.parent = task[current].parent
    BY <1>1 DEF TaskRec
  <2> QED
    BY <1>0, <1>13, <2>1, <2>2, OwnInv DEF WaitNoHang, InUser
<1>14. CASE SyscallReturn
  BY <1>0, <1>14, ReturnInv
<1>15. CASE Stopped
  BY <1>2, <1>15 DEF Stopped
<1> QED
  BY <1>2, <1>3, <1>4, <1>5, <1>6, <1>7, <1>8, <1>9, <1>10, <1>11, <1>12, <1>13,
     <1>14, <1>15 DEF Next

-----------------------------------------------------------------------------
(* The theorems.                                                           *)

\* The inductive invariant holds in every state the scheduler reaches.
THEOREM SchedInvariant == Spec => []IInv
<1>1. IInv /\ [Next]_vars => IInv'
  BY StepInv
<1> QED
  BY <1>1, InitInv, PTL DEF Spec

\* Every task, queue and id keeps its type through every tick and call, and
\* current and the run queue only name tasks that were created.
THEOREM SchedTypes == Spec => []TypeOK
<1>1. IInv => TypeOK
  BY DEF IInv
<1> QED
  BY <1>1, SchedInvariant, PTL

\* on_timer_tick and exit_current_and_switch mark as Running only the task
\* they make current.
THEOREM SchedRunningIsCurrent == Spec => []RunningIsCurrent
<1>1. IInv => RunningIsCurrent
  BY DEF IInv
<1> QED
  BY <1>1, SchedInvariant, PTL

\* No sequence of forks, waits, signals and exits puts a task twice into runq.
THEOREM SchedRunqDistinct == Spec => []RunqDistinct
<1>1. IInv => RunqDistinct
  BY DEF IInv
<1> QED
  BY <1>1, SchedInvariant, PTL

\* The assertion of exit_current_and_switch never fails and the tick never
\* finds a chosen task without a trap frame: wait, which forgets the frame of
\* its caller, cannot return before a tick has saved it again.
THEOREM SchedResumedHasFrame == Spec => []ResumedHasFrame
<1>1. IInv => ResumedHasFrame
  <2> SUFFICES ASSUME IInv, NEW i \in ToSet(runq) \ {current}
               PROVE  task[i].saved /\ mode # "panic"
    BY DEF ResumedHasFrame, IInv
  <2>1. i \in Ids
    BY Typed DEF ToSet
  <2> QED
    BY <2>1 DEF IInv, FramesSaved
<1> QED
  BY <1>1, SchedInvariant, PTL

\* on_timer_tick, fork, wait and exit neither drop a runnable task from runq
\* nor wake one outside it; only send_signal does, by SIGINT to the Blocked
\* current task.
THEOREM SchedReadyStaysQueued == Spec => ReadyStaysQueued
<1>1. IInv /\ [Next]_vars => [\A i \in Stray' \ Stray : WokenBySigint(i)]_vars
  BY StepInv
<1> QED
  BY <1>1, SchedInvariant, PTL DEF Spec, ReadyStaysQueued
=============================================================================
