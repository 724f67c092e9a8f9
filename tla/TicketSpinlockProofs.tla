------------------------ MODULE TicketSpinlockProofs ------------------------
(***************************************************************************)
(* Proofs about the ticket spinlock, for every finite set of threads and   *)
(* every counter width larger than it.                                     *)
(***************************************************************************)
EXTENDS TicketSpinlock, Sequences, FiniteSetTheorems, TLAPS

\* Counter arithmetic: what one increment does to circular distances.
LEMMA DistFacts ==
  ASSUME Wrap \in Nat, NEW a \in Word, NEW b \in Word
  PROVE  /\ Dist(a, b) \in Word
         /\ Succ(a) \in Word
         /\ Dist(a, a) = 0
         /\ Dist(a, b) = 0 => a = b
         /\ Dist(a, b) < Wrap - 1 => Dist(a, Succ(b)) = Dist(a, b) + 1
         /\ a # b => Dist(Succ(a), b) = Dist(a, b) - 1
BY DEF Dist, Succ, Word

\* Distances are machine words.
LEMMA DistType ==
  ASSUME NEW a \in Word, NEW b \in Word
  PROVE  Dist(a, b) \in Nat
BY TicketAssumption DEF Dist, Word

\* The threads with a ticket are finitely many.
LEMMA OutstandingFinite ==
  /\ IsFiniteSet(Outstanding)
  /\ Cardinality(Outstanding) \in Nat
<1>1. IsFiniteSet(Threads)
  BY TicketAssumption
<1>2. Outstanding \subseteq Threads
  BY DEF Outstanding
<1> QED
  BY <1>1, <1>2, FS_Subset, FS_CardinalityType

\* A thread that holds no ticket leaves room for one more: the counters
\* cannot meet when it draws.
LEMMA RoomForOne ==
  ASSUME NEW t \in Threads, t \notin Outstanding
  PROVE  Cardinality(Outstanding) < Wrap - 1
<1>1. Outstanding \subseteq Threads
  BY DEF Outstanding
<1>2. Cardinality(Outstanding) <= Cardinality(Threads)
  BY <1>1, TicketAssumption, FS_Subset
<1>3. Cardinality(Outstanding) # Cardinality(Threads)
  BY <1>1, TicketAssumption, FS_Subset
<1> QED
  BY <1>2, <1>3, TicketAssumption, OutstandingFinite, FS_CardinalityType

\* The new lock satisfies the invariant.
LEMMA InitInv ==
  ASSUME Init
  PROVE  IInv
<1> USE DEF Init
<1>1. Outstanding = {} /\ Comparing = {}
  BY DEF Outstanding, Comparing
<1>2. 0 \in Word
  BY TicketAssumption, FS_CardinalityType DEF Word
<1>3. TypeOK
  BY <1>2 DEF TypeOK, PCs
<1>4. CountersMatchWaiters
  BY <1>1, <1>2, FS_EmptySet, DistFacts, TicketAssumption DEF CountersMatchWaiters
<1> QED
  BY <1>1, <1>3, <1>4
  DEF IInv, TicketsInWindow, TicketsDistinct, HolderIsServed, LoadsAreBehind

\* The invariant survives the drawing of a ticket by lock() or try_lock().
LEMMA DrawInv ==
  ASSUME IInv, NEW t \in Threads, Draw(t), now_serving' = now_serving,
         NEW to \in {"spin", "cs"}, pc' = [pc EXCEPT ![t] = to],
         pc[t] \in {"idle", "cas"},
         to = "cs" => next_ticket = now_serving
  PROVE  IInv'
<1> DEFINE d == Dist(now_serving, next_ticket)
<1> USE DEF IInv
<1>1. t \notin Outstanding
  BY DEF Outstanding
<1>2. d < Wrap - 1
  BY <1>1, RoomForOne DEF CountersMatchWaiters
<1>3. Outstanding' = Outstanding \cup {t}
  BY DEF Outstanding, TypeOK
<1>4. Comparing' = Comparing \ {t}
  BY DEF Comparing, TypeOK
<1>5. Dist(now_serving, next_ticket)' = d + 1
  BY <1>2, DistFacts, TicketAssumption DEF Draw, TypeOK
<1>6. TypeOK'
  <2>1. next_ticket' \in Word
    BY DistFacts, TicketAssumption DEF Draw, TypeOK
  <2>2. gap' \in [Threads -> Word]
    BY TicketAssumption DEF Draw, TypeOK, WindowOpen, Word
  <2> QED
    BY <2>1, <2>2 DEF Draw, TypeOK, PCs
<1>7. CountersMatchWaiters'
  BY <1>1, <1>3, <1>5, OutstandingFinite, FS_AddElement DEF CountersMatchWaiters
<1>8. \A u \in Outstanding : u # t /\ ticket'[u] = ticket[u]
  BY <1>1 DEF Draw, TypeOK, Outstanding
<1>9. ticket'[t] = next_ticket
  BY DEF Draw, TypeOK
<1>10. TicketsInWindow'
  <2>1. \A u \in Outstanding : Dist(now_serving, ticket[u]) < d
    BY DEF TicketsInWindow
  <2>2. \A u \in Outstanding : Dist(now_serving, ticket[u]) \in Int /\ d \in Int
    BY DistType DEF TypeOK, Outstanding
  <2>3. SUFFICES ASSUME NEW u \in Outstanding'
                 PROVE  Dist(now_serving, ticket'[u]) < d + 1
    BY <1>5 DEF TicketsInWindow
  <2>4. CASE u = t
    BY <1>9, <2>4, DistType DEF TypeOK
  <2>5. CASE u # t
    BY <1>3, <1>8, <2>1, <2>2, <2>5
  <2> QED
    BY <2>4, <2>5
<1>11. TicketsDistinct'
  <2>1. \A u \in Outstanding : ticket[u] # next_ticket
    BY DistType DEF TicketsInWindow, TypeOK
  <2> QED
    BY <1>3, <1>8, <1>9, <2>1 DEF TicketsDistinct
<1>12. HolderIsServed'
  BY <1>8, <1>9 DEF HolderIsServed, Outstanding, TypeOK
<1>13. LoadsAreBehind'
  <2>1. SUFFICES ASSUME NEW u \in Comparing, u # t
                 PROVE  /\ Dist(ticket[u], Succ(next_ticket)) = gap[u] + 1
                        /\ d + 1 <= gap[u] + 1
    BY <1>4, <1>5 DEF LoadsAreBehind, Comparing, Draw, TypeOK
  <2>2. gap[u] < Wrap - 1 /\ Dist(ticket[u], next_ticket) = gap[u] /\ d <= gap[u]
    BY DEF LoadsAreBehind, WindowOpen, Draw
  <2>3. gap[u] \in Int /\ d \in Int
    BY DistFacts, TicketAssumption DEF TypeOK, Word, Comparing
  <2> QED
    BY <2>2, <2>3, DistFacts, TicketAssumption DEF TypeOK, Comparing
<1> QED
  BY <1>6, <1>7, <1>10, <1>11, <1>12, <1>13

\* A step that moves only one thread, which holds no ticket before or after,
\* and leaves the words shared by the threads alone.
LEMMA LocalInv ==
  ASSUME IInv, NEW t \in Threads, UNCHANGED <<next_ticket, now_serving>>,
         NEW to \in PCs \ {"spin", "cs"}, pc' = [pc EXCEPT ![t] = to],
         t \notin Outstanding,
         NEW w \in Word, ticket' = [ticket EXCEPT ![t] = w],
         NEW g \in Word, gap' = [gap EXCEPT ![t] = g],
         t \in Comparing' => /\ Dist(w, next_ticket) = g
                             /\ Dist(now_serving, next_ticket) <= g
  PROVE  IInv'
<1> USE DEF IInv
<1>1. Outstanding' = Outstanding
  BY DEF Outstanding, TypeOK
<1>2. \A u \in Outstanding : ticket'[u] = ticket[u] /\ u \in Threads
  BY DEF Outstanding, TypeOK
<1>3. TypeOK'
  BY DEF TypeOK
<1>4. CountersMatchWaiters' /\ TicketsInWindow' /\ TicketsDistinct'
  BY <1>1, <1>2 DEF CountersMatchWaiters, TicketsInWindow, TicketsDistinct
<1>5. HolderIsServed'
  BY DEF HolderIsServed, TypeOK, Outstanding
<1>6. LoadsAreBehind'
  BY DEF LoadsAreBehind, TypeOK, Comparing
<1> QED
  BY <1>3, <1>4, <1>5, <1>6

\* The guard's drop serves the next ticket and keeps the invariant.
LEMMA UnlockInv ==
  ASSUME IInv, NEW t \in Threads, Unlock(t)
  PROVE  IInv'
<1> DEFINE d == Dist(now_serving, next_ticket)
<1> USE DEF IInv
<1>1. t \in Outstanding /\ ticket[t] = now_serving
  BY DEF Unlock, Outstanding, HolderIsServed
<1>2. Outstanding' = Outstanding \ {t} /\ Comparing' = Comparing /\ t \notin Comparing
  BY DEF Unlock, Return, Outstanding, Comparing, TypeOK
<1>3. now_serving # next_ticket
  BY <1>1, DistFacts, TicketAssumption DEF TicketsInWindow, TypeOK, Word
<1>4. now_serving' = Succ(now_serving) /\ next_ticket' = next_ticket
  BY <1>1 DEF Unlock
<1>5. Dist(now_serving, next_ticket)' = d - 1
  BY <1>3, <1>4, DistFacts, TicketAssumption DEF TypeOK
<1>6. TypeOK'
  <2>1. now_serving' \in Word /\ 0 \in Word
    BY <1>4, DistFacts, TicketAssumption DEF TypeOK, Word
  <2> QED
    BY <2>1 DEF Unlock, Return, TypeOK, PCs
<1>7. CountersMatchWaiters'
  BY <1>1, <1>2, <1>5, OutstandingFinite, FS_RemoveElement DEF CountersMatchWaiters
<1>8. \A u \in Outstanding \ {t} :
         ticket'[u] = ticket[u] /\ u \in Threads /\ ticket[u] # now_serving
  BY <1>1 DEF Unlock, Return, Outstanding, TypeOK, TicketsDistinct
<1>9. TicketsInWindow'
  <2>1. SUFFICES ASSUME NEW u \in Outstanding, u # t
                 PROVE  Dist(Succ(now_serving), ticket[u]) < d - 1
    BY <1>2, <1>4, <1>5, <1>8 DEF TicketsInWindow
  <2>2. Dist(now_serving, ticket[u]) < d
    BY DEF TicketsInWindow
  <2>3. Dist(Succ(now_serving), ticket[u]) = Dist(now_serving, ticket[u]) - 1
    BY <1>8, <2>1, DistFacts, TicketAssumption DEF TypeOK
  <2>4. Dist(now_serving, ticket[u]) \in Int /\ d \in Int
    BY <1>8, <2>1, DistFacts, TicketAssumption DEF TypeOK, Word
  <2> QED
    BY <2>2, <2>3, <2>4
<1>10. TicketsDistinct'
  BY <1>2, <1>8 DEF TicketsDistinct
<1>11. HolderIsServed'
  BY <1>1, <1>2, <1>8
  DEF HolderIsServed, Outstanding, TypeOK, Unlock, Return, TicketsDistinct
<1>12. LoadsAreBehind'
  <2>1. d \in Int /\ \A u \in Comparing : gap[u] \in Int
    <3>1. d \in Int
      BY DistType DEF TypeOK
    <3> QED
      BY <3>1 DEF TypeOK, Word, Comparing
  <2> QED
    BY <1>2, <1>5, <2>1 DEF LoadsAreBehind, Unlock, Return, TypeOK, Comparing
<1> QED
  BY <1>6, <1>7, <1>9, <1>10, <1>11, <1>12

\* A value loaded earlier that equals next_ticket means the lock is free now.
LEMMA EqualMeansFree ==
  ASSUME IInv, NEW t \in Comparing, ticket[t] = next_ticket
  PROVE  next_ticket = now_serving /\ Outstanding = {}
<1> USE DEF IInv
<1>1. gap[t] = 0
  BY DistFacts, TicketAssumption DEF LoadsAreBehind, Comparing, TypeOK
<1>2. Dist(now_serving, next_ticket) = 0
  BY <1>1, DistType DEF LoadsAreBehind, TypeOK
<1>3. Outstanding = {}
  BY <1>2, OutstandingFinite, FS_EmptySet DEF CountersMatchWaiters
<1> QED
  BY <1>2, <1>3, DistFacts, TicketAssumption DEF TypeOK

\* Every step of every thread keeps the invariant.
LEMMA StepInv ==
  ASSUME IInv, [Next]_vars
  PROVE  IInv'
<1>1. CASE UNCHANGED vars
  BY <1>1 DEF vars, IInv, TypeOK, CountersMatchWaiters, Outstanding, Comparing,
     TicketsInWindow, TicketsDistinct, HolderIsServed, LoadsAreBehind
<1>2. ASSUME NEW t \in Threads, ThreadNext(t)
      PROVE  IInv'
  <2> USE <1>2
  <2>0. 0 \in Word
    BY TicketAssumption DEF IInv, TypeOK, Word
  <2>1. CASE LockDraw(t)
    BY <2>1, DrawInv DEF LockDraw
  <2>2. CASE LockServed(t)
    <3>1. Outstanding' = Outstanding /\ Comparing' = Comparing
      BY <2>2 DEF LockServed, Outstanding, Comparing, IInv, TypeOK
    <3> QED
      BY <2>2, <3>1 DEF LockServed, IInv, TypeOK, PCs, CountersMatchWaiters,
         TicketsInWindow, TicketsDistinct, HolderIsServed, LoadsAreBehind
  <2>3. CASE Unlock(t)
    BY <2>3, UnlockInv
  <2>4. ASSUME NEW to \in {"try", "query"}, LoadServing(t, to)
        PROVE  IInv'
    <3>1. Dist(now_serving, next_ticket) \in Word
      BY DistFacts, TicketAssumption DEF IInv, TypeOK
    <3>2. Dist(now_serving, next_ticket) <= Dist(now_serving, next_ticket)
      BY DistType DEF IInv, TypeOK
    <3>3. t \notin Outstanding /\ now_serving \in Word
      BY <2>4 DEF LoadServing, Outstanding, IInv, TypeOK
    <3> QED
      BY <2>4, <3>1, <3>2, <3>3, LocalInv DEF LoadServing, PCs
  <2>5. CASE TryCompare(t)
    <3>1. t \in Comparing /\ Comparing' = Comparing /\ Outstanding' = Outstanding
      BY <2>5 DEF TryCompare, Outstanding, Comparing, IInv, TypeOK
    <3> QED
      BY <2>5, <3>1 DEF TryCompare, IInv, TypeOK, PCs, CountersMatchWaiters,
         TicketsInWindow, TicketsDistinct, HolderIsServed, LoadsAreBehind
  <2>6. CASE TryAcquire(t)
    <3>1. next_ticket = now_serving
      BY <2>6, EqualMeansFree DEF TryAcquire, Comparing
    <3> QED
      BY <2>6, <3>1, DrawInv DEF TryAcquire
  <2>7. ASSUME NEW to \in PCs, Return(t, to), to \in {"idle", "free", "busy"},
               UNCHANGED <<next_ticket, now_serving>>,
               pc[t] \in {"try", "cas", "query", "free", "busy"}
        PROVE  IInv'
    <3>1. t \notin Outstanding /\ t \notin Comparing'
      BY <2>7 DEF Outstanding, Comparing, Return, IInv, TypeOK
    <3> QED
      BY <2>0, <2>7, <3>1, LocalInv DEF Return, PCs
  <2>8. CASE TryFail(t)
    BY <2>7, <2>8 DEF TryFail, PCs
  <2>9. CASE QueryCompare(t)
    BY <2>7, <2>9 DEF QueryCompare, PCs
  <2>10. CASE QueryReturn(t)
    BY <2>7, <2>10 DEF QueryReturn, PCs
  <2> QED
    BY <2>1, <2>2, <2>3, <2>4, <2>5, <2>6, <2>8, <2>9, <2>10
    DEF ThreadNext, TryLoad, QueryLoad
<1> QED
  BY <1>1, <1>2 DEF Next

\* A step of one thread leaves the other threads where they are.
LEMMA OneThreadMoves ==
  ASSUME TypeOK, NEW u \in Threads, ThreadNext(u),
         NEW t \in Threads, pc'[t] # pc[t]
  PROVE  u = t
BY DEF ThreadNext, LockDraw, LockServed, Unlock, Return, LoadServing, TryLoad,
   TryCompare, TryAcquire, TryFail, QueryLoad, QueryCompare, QueryReturn, TypeOK

\* The inductive invariant holds in every reachable state: the two words and
\* the threads' tickets stay consistent through every wrap-around.
THEOREM TicketInvariant == Spec => []IInv
<1>1. Init => IInv
  BY InitInv
<1>2. IInv /\ [Next]_vars => IInv'
  BY StepInv
<1> QED
  BY <1>1, <1>2, PTL DEF Spec

\* TicketSpinlock::lock and try_lock hand out at most one guard at a time.
THEOREM TicketMutualExclusion == Spec => []MutualExclusion
<1>1. IInv => MutualExclusion
  BY DEF IInv, MutualExclusion, HolderIsServed, TicketsDistinct, Outstanding
<1> QED
  BY <1>1, TicketInvariant, PTL

\* try_lock takes the lock only when no thread holds or waits with a ticket.
THEOREM TicketTryNeverBarges == Spec => TryLockNeverBarges
<1> DEFINE A == \A t \in Threads :
                  pc[t] = "cas" /\ pc'[t] = "cs" => Outstanding = {}
<1>1. IInv /\ [Next]_vars => [A]_vars
  <2> SUFFICES ASSUME IInv, Next, NEW t \in Threads, pc[t] = "cas", pc'[t] = "cs"
               PROVE  Outstanding = {}
    OBVIOUS
  <2>1. PICK u \in Threads : ThreadNext(u)
    BY DEF Next
  <2>2. u = t
    BY <2>1, OneThreadMoves DEF IInv
  <2>3. TryAcquire(t)
    BY <2>1, <2>2 DEF ThreadNext, LockDraw, LockServed, Unlock, Return,
       LoadServing, TryLoad, TryCompare, TryFail, QueryLoad, QueryCompare,
       QueryReturn, IInv, TypeOK
  <2> QED
    BY <2>3, EqualMeansFree DEF TryAcquire, Comparing
<1> QED
  BY <1>1, TicketInvariant, PTL DEF Spec, TryLockNeverBarges

\* is_locked answers "free" only in a state where no ticket is outstanding.
THEOREM TicketUnlockedAnswer == Spec => UnlockedAnswerIsTrue
<1> DEFINE A == \A t \in Threads :
                  pc[t] = "query" /\ pc'[t] = "free" => Outstanding = {}
<1>1. IInv /\ [Next]_vars => [A]_vars
  <2> SUFFICES ASSUME IInv, Next, NEW t \in Threads, pc[t] = "query", pc'[t] = "free"
               PROVE  Outstanding = {}
    OBVIOUS
  <2>1. PICK u \in Threads : ThreadNext(u)
    BY DEF Next
  <2>2. u = t
    BY <2>1, OneThreadMoves DEF IInv
  <2>3. QueryCompare(t)
    BY <2>1, <2>2 DEF ThreadNext, LockDraw, LockServed, Unlock, Return,
       LoadServing, TryLoad, TryCompare, TryAcquire, TryFail, QueryLoad,
       QueryReturn, IInv, TypeOK
  <2>4. ticket[t] = next_ticket
    BY <2>3 DEF QueryCompare, Return, IInv, TypeOK
  <2> QED
    BY <2>4, EqualMeansFree DEF Comparing
<1> QED
  BY <1>1, TicketInvariant, PTL DEF Spec, UnlockedAnswerIsTrue

-----------------------------------------------------------------------------
(* The ticket lock implements the FIFO lock.  The queue is a function of   *)
(* the two words and the tickets, so the facts about it are stated for     *)
(* arbitrary values of them and used before and after a step.              *)

\* TicketQueue, for the values s, n and tk of the words and the holders O.
QueueAt(s, n, tk, O) ==
  [i \in 1 .. Dist(s, n) |-> CHOOSE t \in O : Dist(s, tk[t]) = i - 1]

\* What the invariant says of those values.
Tracked(s, n, tk, O) ==
  /\ s \in Word /\ n \in Word /\ tk \in [Threads -> Word] /\ O \subseteq Threads
  /\ Cardinality(O) = Dist(s, n)
  /\ \A t \in O : Dist(s, tk[t]) < Dist(s, n)
  /\ \A t, u \in O : tk[t] = tk[u] => t = u

\* Two words at the same distance from a third are equal.
LEMMA DistInjective ==
  ASSUME Wrap \in Nat, NEW a \in Word, NEW b \in Word, NEW c \in Word,
         Dist(a, b) = Dist(a, c)
  PROVE  b = c
BY DEF Dist, Word

\* As many tickets as places, all different: every place has one thread.
LEMMA EveryPlaceTaken ==
  ASSUME NEW s, NEW n, NEW tk, NEW O, Tracked(s, n, tk, O),
         NEW k \in 0 .. Dist(s, n) - 1
  PROVE  \E t \in O : Dist(s, tk[t]) = k
<1> DEFINE d == Dist(s, n)
           f == [t \in O |-> Dist(s, tk[t])]
<1>1. d \in Nat
  BY DistType DEF Tracked
<1>2. \A t \in O : Dist(s, tk[t]) \in 0 .. d - 1
  BY <1>1, DistType DEF Tracked
<1>3. f \in Injection(O, 0 .. d - 1)
  <2>1. f \in [O -> 0 .. d - 1]
    BY <1>2
  <2>2. ASSUME NEW t \in O, NEW u \in O, f[t] = f[u]
        PROVE  t = u
    <3>1. tk[t] = tk[u]
      BY <2>2, DistInjective, TicketAssumption DEF Tracked
    <3> QED
      BY <3>1 DEF Tracked
  <2> QED
    BY <2>1, <2>2 DEF Injection, IsInjective
<1>4. IsFiniteSet(0 .. d - 1) /\ Cardinality(0 .. d - 1) = d
  BY <1>1, FS_Interval
<1>5. Cardinality(O) = Cardinality(0 .. d - 1)
  BY <1>4 DEF Tracked
<1>6. f \in Surjection(O, 0 .. d - 1)
  BY <1>3, <1>4, <1>5, FS_Injection
<1> QED
  BY <1>6 DEF Surjection

\* The queue lists the threads by their place.
LEMMA QueueFacts ==
  ASSUME NEW s, NEW n, NEW tk, NEW O, Tracked(s, n, tk, O)
  PROVE  /\ Dist(s, n) \in Nat
         /\ QueueAt(s, n, tk, O) \in Seq(Threads)
         /\ Len(QueueAt(s, n, tk, O)) = Dist(s, n)
         /\ \A i \in 1 .. Dist(s, n) :
              /\ QueueAt(s, n, tk, O)[i] \in O
              /\ Dist(s, tk[QueueAt(s, n, tk, O)[i]]) = i - 1
<1>1. Dist(s, n) \in Nat
  BY DistType DEF Tracked
<1>2. ASSUME NEW i \in 1 .. Dist(s, n)
      PROVE  /\ QueueAt(s, n, tk, O)[i] \in O
             /\ Dist(s, tk[QueueAt(s, n, tk, O)[i]]) = i - 1
  <2>1. i - 1 \in 0 .. Dist(s, n) - 1
    BY <1>1
  <2>2. \E t \in O : Dist(s, tk[t]) = i - 1
    BY <2>1, EveryPlaceTaken
  <2> QED
    BY <2>2 DEF QueueAt
<1>3. QueueAt(s, n, tk, O) \in [1 .. Dist(s, n) -> Threads]
  BY <1>2 DEF QueueAt, Tracked
<1> QED
  BY <1>1, <1>2, <1>3

\* No other sequence lists them so.
LEMMA QueueUnique ==
  ASSUME NEW s, NEW n, NEW tk, NEW O, Tracked(s, n, tk, O),
         NEW q \in Seq(Threads), Len(q) = Dist(s, n),
         \A i \in 1 .. Dist(s, n) : q[i] \in O /\ Dist(s, tk[q[i]]) = i - 1
  PROVE  q = QueueAt(s, n, tk, O)
<1> DEFINE p == QueueAt(s, n, tk, O)
<1>1. /\ p \in Seq(Threads) /\ Len(p) = Dist(s, n) /\ Dist(s, n) \in Nat
      /\ \A i \in 1 .. Dist(s, n) : p[i] \in O /\ Dist(s, tk[p[i]]) = i - 1
  BY QueueFacts
<1>2. ASSUME NEW i \in 1 .. Dist(s, n)
      PROVE  q[i] = p[i]
  <2>1. Dist(s, tk[q[i]]) = Dist(s, tk[p[i]])
    BY <1>1
  <2>2. q[i] \in O /\ p[i] \in O
    BY <1>1
  <2> HIDE DEF p
  <2>3. tk[q[i]] = tk[p[i]]
    BY <2>1, <2>2, DistInjective, TicketAssumption DEF Tracked
  <2> QED
    BY <2>2, <2>3 DEF Tracked
<1> HIDE DEF p
<1>3. q = p
  BY <1>1, <1>2
<1> QED
  BY <1>3 DEF p

\* The invariant, as the facts above need it.
LEMMA InvTracked ==
  ASSUME IInv
  PROVE  /\ Tracked(now_serving, next_ticket, ticket, Outstanding)
         /\ TicketQueue = QueueAt(now_serving, next_ticket, ticket, Outstanding)
BY DEF IInv, TypeOK, CountersMatchWaiters, TicketsInWindow, TicketsDistinct,
   Tracked, TicketQueue, QueueAt, Outstanding

\* The same after a step.
LEMMA InvTrackedNext ==
  ASSUME IInv'
  PROVE  /\ Tracked(now_serving', next_ticket', ticket', Outstanding')
         /\ TicketQueue' = QueueAt(now_serving', next_ticket', ticket', Outstanding')
BY DEF IInv, TypeOK, CountersMatchWaiters, TicketsInWindow, TicketsDistinct,
   Tracked, TicketQueue, QueueAt, Outstanding

\* The queue as the invariant knows it.
LEMMA QueueNow ==
  ASSUME IInv
  PROVE  /\ Dist(now_serving, next_ticket) \in Nat
         /\ TicketQueue \in Seq(Threads)
         /\ Len(TicketQueue) = Dist(now_serving, next_ticket)
         /\ \A i \in 1 .. Dist(now_serving, next_ticket) :
              /\ TicketQueue[i] \in Outstanding
              /\ Dist(now_serving, ticket[TicketQueue[i]]) = i - 1
BY InvTracked, QueueFacts

\* A step that changes neither word nor the threads' tickets keeps the queue.
LEMMA SameQueue ==
  ASSUME IInv, IInv', UNCHANGED <<now_serving, next_ticket>>,
         Outstanding' = Outstanding,
         \A t \in Outstanding : ticket'[t] = ticket[t]
  PROVE  TicketQueue' = TicketQueue
<1>1. \A i \in 1 .. Dist(now_serving, next_ticket) :
         /\ TicketQueue[i] \in Outstanding'
         /\ Dist(now_serving', ticket'[TicketQueue[i]]) = i - 1
  BY QueueNow
<1>2. Len(TicketQueue) = Dist(now_serving', next_ticket')
  BY QueueNow
<1> QED
  BY <1>1, <1>2, QueueNow, InvTrackedNext, QueueUnique

\* Drawing a ticket appends the thread to the queue.
LEMMA DrawAppends ==
  ASSUME IInv, IInv', NEW t \in Threads, t \notin Outstanding, Draw(t),
         now_serving' = now_serving, Outstanding' = Outstanding \cup {t}
  PROVE  TicketQueue' = Append(TicketQueue, t)
<1> DEFINE d == Dist(now_serving, next_ticket)
           q == Append(TicketQueue, t)
<1>1. d < Wrap - 1
  BY RoomForOne DEF IInv, CountersMatchWaiters
<1>2. Dist(now_serving', next_ticket') = d + 1
  BY <1>1, DistFacts, TicketAssumption DEF Draw, IInv, TypeOK
<1>3. ticket'[t] = next_ticket /\ \A u \in Outstanding : ticket'[u] = ticket[u]
  BY DEF Draw, IInv, TypeOK, Outstanding
<1>4. d \in Nat /\ q \in Seq(Threads) /\ Len(q) = d + 1
  BY QueueNow
<1>5. ASSUME NEW i \in 1 .. d + 1
      PROVE  q[i] \in Outstanding' /\ Dist(now_serving', ticket'[q[i]]) = i - 1
  <2>1. CASE i = d + 1
    <3>1. q[i] = t
      BY <2>1, QueueNow
    <3> QED
      BY <2>1, <3>1, <1>3, <1>4
  <2>2. CASE i # d + 1
    <3>1. i \in 1 .. d /\ q[i] = TicketQueue[i]
      BY <2>2, <1>4, QueueNow
    <3> QED
      BY <3>1, <1>3, QueueNow
  <2> QED
    BY <2>1, <2>2
<1> HIDE DEF q
<1>6. q = QueueAt(now_serving', next_ticket', ticket', Outstanding')
  BY <1>2, <1>4, <1>5, InvTrackedNext, QueueUnique
<1> QED
  BY <1>6, InvTrackedNext DEF q

\* Dropping the guard removes the head of the queue.
LEMMA UnlockPops ==
  ASSUME IInv, IInv', NEW t \in Threads, Unlock(t)
  PROVE  TicketQueue' = Tail(TicketQueue)
<1> DEFINE d == Dist(now_serving, next_ticket)
           q == Tail(TicketQueue)
<1>1. t \in Outstanding /\ ticket[t] = now_serving
  BY DEF Unlock, Outstanding, HolderIsServed, IInv
<1>2. Outstanding' = Outstanding \ {t}
  BY DEF Unlock, Return, Outstanding, IInv, TypeOK
<1>3. now_serving # next_ticket
  BY <1>1, DistFacts, TicketAssumption DEF TicketsInWindow, TypeOK, Word, IInv
<1>4. now_serving' = Succ(now_serving) /\ next_ticket' = next_ticket
  BY <1>1 DEF Unlock
<1>5. Dist(now_serving', next_ticket') = d - 1
  BY <1>3, <1>4, DistFacts, TicketAssumption DEF TypeOK, IInv
<1>6. d \in Nat /\ d # 0
  BY <1>3, QueueNow, DistFacts, TicketAssumption DEF TypeOK, IInv
<1>7. q \in Seq(Threads) /\ Len(q) = d - 1 /\ \A i \in 1 .. d - 1 : q[i] = TicketQueue[i + 1]
  BY <1>6, QueueNow
<1>8. ASSUME NEW i \in 1 .. d - 1
      PROVE  q[i] \in Outstanding' /\ Dist(now_serving', ticket'[q[i]]) = i - 1
  <2> DEFINE u == TicketQueue[i + 1]
  <2>1. i + 1 \in 1 .. d /\ q[i] = u
    BY <1>6, <1>7
  <2>2. u \in Outstanding /\ Dist(now_serving, ticket[u]) = i
    BY <2>1, QueueNow
  <2> HIDE DEF u
  <2>3. ticket[u] \in Word /\ now_serving \in Word
    BY <2>2 DEF IInv, TypeOK, Outstanding
  <2>4. ticket[u] # now_serving
    BY <2>2, <2>3, DistFacts, TicketAssumption
  <2>5. u # t
    BY <2>4, <1>1
  <2>6. ticket'[u] = ticket[u]
    BY <2>2, <2>5 DEF Unlock, Return, IInv, TypeOK, Outstanding
  <2>7. Dist(Succ(now_serving), ticket[u]) = i - 1
    BY <2>2, <2>3, <2>4, DistFacts, TicketAssumption
  <2> QED
    BY <1>2, <1>4, <2>1, <2>2, <2>5, <2>6, <2>7
<1> HIDE DEF q
<1>9. q = QueueAt(now_serving', next_ticket', ticket', Outstanding')
  BY <1>5, <1>7, <1>8, InvTrackedNext, QueueUnique
<1> QED
  BY <1>9, InvTrackedNext DEF q

\* The thread whose ticket is served stands at the head of the queue.
LEMMA ServedIsHead ==
  ASSUME IInv, NEW t \in Outstanding, ticket[t] = now_serving
  PROVE  TicketQueue # <<>> /\ Head(TicketQueue) = t
<1>1. Dist(now_serving, ticket[t]) = 0
  BY DistFacts, TicketAssumption DEF IInv, TypeOK
<1>2. Dist(now_serving, next_ticket) \in Nat /\ 0 < Dist(now_serving, next_ticket)
  BY <1>1, QueueNow DEF IInv, TicketsInWindow
<1>3. TicketQueue[1] \in Outstanding /\ Dist(now_serving, ticket[TicketQueue[1]]) = 0
  BY <1>2, QueueNow
<1>4. ticket[TicketQueue[1]] = ticket[t]
  BY <1>1, <1>3, DistInjective, TicketAssumption DEF IInv, TypeOK, Outstanding
<1>5. TicketQueue[1] = t
  BY <1>3, <1>4 DEF IInv, TicketsDistinct
<1> QED
  BY <1>2, <1>5, QueueNow

\* lock(), try_lock() and the guard's drop are the operations of a lock whose
\* threads stand in one queue: guards are granted in the order in which the
\* tickets were drawn, for every wrap-around of the two words.
THEOREM TicketIsFifo == Spec => FifoSpec
<1>1. Init => Fifo!Init
  <2> SUFFICES ASSUME Init PROVE Fifo!Init
    OBVIOUS
  <2>1. Holders = {}
    BY DEF Init, Holders
  <2>2. 0 \in Word
    BY InitInv DEF IInv, TypeOK, Init
  <2>3. Dist(now_serving, next_ticket) = 0
    BY <2>2, DistFacts, TicketAssumption DEF Init
  <2>4. TicketQueue \in Seq(Threads) /\ Len(TicketQueue) = 0
    BY <2>3, InitInv, QueueNow
  <2>5. TicketQueue = <<>>
    BY <2>4
  <2> QED
    BY <2>1, <2>5 DEF Fifo!Init
<1>2. ASSUME IInv, IInv', [Next]_vars
      PROVE  [Fifo!Next]_<<TicketQueue, Holders>>
  <2> USE <1>2
  <2>1. CASE UNCHANGED vars
    BY <2>1, SameQueue DEF vars, Outstanding, Holders
  <2>2. ASSUME NEW t \in Threads, ThreadNext(t)
        PROVE  [Fifo!Next]_<<TicketQueue, Holders>>
    <3> USE <2>2
    <3>1. CASE LockDraw(t)
      <4>1. t \notin Outstanding /\ Outstanding' = Outstanding \cup {t}
        BY <3>1 DEF LockDraw, Outstanding, IInv, TypeOK
      <4>2. Holders' = Holders
        BY <3>1 DEF LockDraw, Holders, IInv, TypeOK
      <4>3. TicketQueue' = Append(TicketQueue, t)
        BY <3>1, <4>1, DrawAppends DEF LockDraw
      <4>4. ~\E i \in DOMAIN TicketQueue : TicketQueue[i] = t
        BY <4>1, QueueNow
      <4> QED
        BY <4>2, <4>3, <4>4 DEF Fifo!Next, Fifo!Request, Fifo!Waiting
    <3>2. CASE LockServed(t)
      <4>1. t \in Outstanding /\ Outstanding' = Outstanding
        BY <3>2 DEF LockServed, Outstanding, IInv, TypeOK
      <4>2. TicketQueue' = TicketQueue
        BY <3>2, <4>1, SameQueue DEF LockServed
      <4>3. Holders = {}
        BY <3>2 DEF LockServed, Holders, IInv, HolderIsServed, TicketsDistinct, Outstanding
      <4>4. Holders' = {t}
        BY <3>2, <4>3 DEF LockServed, Holders, IInv, TypeOK
      <4>5. TicketQueue # <<>> /\ Head(TicketQueue) = t
        BY <3>2, <4>1, ServedIsHead DEF LockServed
      <4> QED
        BY <4>2, <4>3, <4>4, <4>5 DEF Fifo!Next, Fifo!Grant
    <3>3. CASE Unlock(t)
      <4>1. Holders = {t}
        BY <3>3 DEF Unlock, Holders, IInv, HolderIsServed, TicketsDistinct, Outstanding
      <4>2. Holders' = {}
        BY <3>3, <4>1 DEF Unlock, Return, Holders, IInv, TypeOK
      <4>3. TicketQueue' = Tail(TicketQueue)
        BY <3>3, UnlockPops
      <4> QED
        BY <4>1, <4>2, <4>3 DEF Fifo!Next, Fifo!Release
    <3>4. CASE TryAcquire(t)
      <4>1. Outstanding = {} /\ next_ticket = now_serving
        BY <3>4, EqualMeansFree DEF TryAcquire, Comparing
      <4>2. Outstanding' = Outstanding \cup {t} /\ t \notin Outstanding
        BY <3>4, <4>1 DEF TryAcquire, Outstanding, IInv, TypeOK
      <4>3. TicketQueue' = Append(TicketQueue, t)
        BY <3>4, <4>2, DrawAppends DEF TryAcquire
      <4>4. Len(TicketQueue) = 0 /\ TicketQueue \in Seq(Threads)
        BY <4>1, QueueNow, DistFacts, TicketAssumption DEF IInv, TypeOK
      <4>5. TicketQueue = <<>> /\ TicketQueue' = <<t>>
        BY <4>3, <4>4
      <4>6. Holders = {}
        BY <4>1 DEF Holders, Outstanding
      <4>7. Holders' = {t}
        BY <3>4, <4>6 DEF TryAcquire, Holders, IInv, TypeOK
      <4> QED
        BY <4>5, <4>6, <4>7 DEF Fifo!Next, Fifo!Seize
    <3>5. ASSUME UNCHANGED <<next_ticket, now_serving>>,
                 NEW to \in PCs \ {"spin", "cs"}, pc' = [pc EXCEPT ![t] = to],
                 NEW w, ticket' = [ticket EXCEPT ![t] = w], t \notin Outstanding
          PROVE  UNCHANGED <<TicketQueue, Holders>>
      <4>1. Outstanding' = Outstanding /\ Holders' = Holders
        BY <3>5 DEF Outstanding, Holders, IInv, TypeOK
      <4>2. \A u \in Outstanding : ticket'[u] = ticket[u]
        BY <3>5 DEF Outstanding, IInv, TypeOK
      <4> QED
        BY <4>1, <4>2, <3>5, SameQueue
    <3>6. CASE TryCompare(t)
      <4>1. ticket' = [ticket EXCEPT ![t] = ticket[t]]
        BY <3>6 DEF TryCompare, IInv, TypeOK
      <4>2. "cas" \in PCs \ {"spin", "cs"} /\ t \notin Outstanding
        BY <3>6 DEF TryCompare, PCs, Outstanding
      <4> QED
        BY <3>5, <3>6, <4>1, <4>2 DEF TryCompare
    <3>7. CASE TryLoad(t) \/ QueryLoad(t)
      <4>1. t \notin Outstanding /\ {"try", "query"} \subseteq PCs \ {"spin", "cs"}
        BY <3>7 DEF TryLoad, QueryLoad, LoadServing, PCs, Outstanding
      <4> QED
        BY <3>5, <3>7, <4>1 DEF TryLoad, QueryLoad, LoadServing
    <3>8. CASE TryFail(t) \/ QueryCompare(t) \/ QueryReturn(t)
      <4>1. t \notin Outstanding /\ {"idle", "free", "busy"} \subseteq PCs \ {"spin", "cs"}
        BY <3>8 DEF TryFail, QueryCompare, QueryReturn, PCs, Outstanding
      <4> QED
        BY <3>5, <3>8, <4>1 DEF TryFail, QueryCompare, QueryReturn, Return
    <3> QED
      BY <3>1, <3>2, <3>3, <3>4, <3>6, <3>7, <3>8 DEF ThreadNext
  <2> QED
    BY <2>1, <2>2 DEF Next
<1> QED
  BY <1>1, <1>2, TicketInvariant, PTL DEF Spec, FifoSpec, Fifo!Spec, Fifo!vars

=============================================================================
