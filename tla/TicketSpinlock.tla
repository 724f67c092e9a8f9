--------------------------- MODULE TicketSpinlock ---------------------------
(***************************************************************************)
(* The ticket spinlock of kernel/src/sync.rs.  One atomic memory access of *)
(* the code (fetch_add, load, compare_exchange, store) is one step.  The   *)
(* two counters are machine words: they wrap at Wrap (2^32 in the code).   *)
(* A context's accesses happen in program order.  The code asks for less   *)
(* (the two loads of is_locked are Relaxed); x86-64 keeps loads in order,  *)
(* and that the compiler does too is assumed.                              *)
(***************************************************************************)
EXTENDS Integers, FiniteSets

CONSTANTS Threads,     \* the CPUs / contexts that share the lock
          Wrap         \* number of values of a counter word

\* Every context can be waiting and the counters still tell "empty" from "full".
ASSUME TicketAssumption ==
  /\ IsFiniteSet(Threads)
  /\ Wrap \in Nat
  /\ Cardinality(Threads) < Wrap

VARIABLES next_ticket, now_serving,
          pc,          \* where each thread is in lock, try_lock, is_locked
          ticket,      \* a thread's local word: its ticket or its guard's, or
                       \* the now_serving that try_lock / is_locked loaded
          gap          \* ghost: tickets drawn from that load to next_ticket

vars == <<next_ticket, now_serving, pc, ticket, gap>>

Word == 0 .. Wrap - 1

PCs == {"idle", "spin", "cs", "try", "cas", "query", "free", "busy"}

\* x.wrapping_add(1)
Succ(x) == IF x = Wrap - 1 THEN 0 ELSE x + 1

\* Number of increments that lead from a to b.
Dist(a, b) == IF a <= b THEN b - a ELSE b - a + Wrap

\* Threads inside an operation that compares an old load with next_ticket.
Comparing == {t \in Threads : pc[t] \in {"try", "cas", "query"}}

\* Threads that hold a ticket: the one being served and the ones waiting.
Outstanding == {t \in Threads : pc[t] \in {"spin", "cs"}}

Init ==
  /\ next_ticket = 0
  /\ now_serving = 0
  /\ pc = [t \in Threads |-> "idle"]
  /\ ticket = [t \in Threads |-> 0]
  /\ gap = [t \in Threads |-> 0]

\* The bound: no thread stays between its first load and its compare while
\* the counter runs once around (2^32 acquisitions inside one try_lock).
WindowOpen == \A t \in Comparing : gap[t] < Wrap - 1

\* t draws the value next_ticket; the gap of every other comparing thread grows.
Draw(t) ==
  /\ WindowOpen
  /\ next_ticket' = Succ(next_ticket)
  /\ ticket' = [ticket EXCEPT ![t] = next_ticket]
  /\ gap' = [u \in Threads |-> IF u \in Comparing \ {t} THEN gap[u] + 1 ELSE 0]

\* t returns to its caller, and its locals are dead.
Return(t, to) ==
  /\ pc' = [pc EXCEPT ![t] = to]
  /\ ticket' = [ticket EXCEPT ![t] = 0]
  /\ gap' = [gap EXCEPT ![t] = 0]

\* lock(): fetch_add on next_ticket.
LockDraw(t) ==
  /\ pc[t] = "idle"
  /\ Draw(t)
  /\ pc' = [pc EXCEPT ![t] = "spin"]
  /\ UNCHANGED now_serving

\* lock(): the load that ends the spin loop.
LockServed(t) ==
  /\ pc[t] = "spin"
  /\ now_serving = ticket[t]
  /\ pc' = [pc EXCEPT ![t] = "cs"]
  /\ UNCHANGED <<next_ticket, now_serving, ticket, gap>>

\* Mutant: the drop stores the ticket itself and nobody is served next.
Unlock_NoAdvance(t) ==
  /\ pc[t] = "cs"
  /\ now_serving' = ticket[t]
  /\ Return(t, "idle")
  /\ UNCHANGED next_ticket

\* Mutant: the drop marks the lock free instead of serving the next ticket.
Unlock_SkipsWaiters(t) ==
  /\ pc[t] = "cs"
  /\ now_serving' = next_ticket
  /\ Return(t, "idle")
  /\ UNCHANGED next_ticket

\* Guard drop: a store of ticket + 1 (not an increment of now_serving).
Unlock(t) ==
  /\ pc[t] = "cs"
  /\ now_serving' = Succ(ticket[t])
  /\ Return(t, "idle")
  /\ UNCHANGED next_ticket

\* try_lock() and is_locked() both start by loading now_serving.
LoadServing(t, to) ==
  /\ pc[t] = "idle"
  /\ ticket' = [ticket EXCEPT ![t] = now_serving]
  /\ gap' = [gap EXCEPT ![t] = Dist(now_serving, next_ticket)]
  /\ pc' = [pc EXCEPT ![t] = to]
  /\ UNCHANGED <<next_ticket, now_serving>>

TryLoad(t) == LoadServing(t, "try")

\* Mutant: try_lock never compares its two loads.
TryCompare_Unchecked(t) ==
  /\ pc[t] = "try"
  /\ ticket' = [ticket EXCEPT ![t] = next_ticket]
  /\ gap' = [gap EXCEPT ![t] = 0]
  /\ pc' = [pc EXCEPT ![t] = "cas"]
  /\ UNCHANGED <<next_ticket, now_serving>>

\* try_lock(): the load of next_ticket equals the first load ...
TryCompare(t) ==
  /\ pc[t] = "try"
  /\ ticket[t] = next_ticket
  /\ pc' = [pc EXCEPT ![t] = "cas"]
  /\ UNCHANGED <<next_ticket, now_serving, ticket, gap>>

\* ... and the compare_exchange from that value succeeds.
TryAcquire(t) ==
  /\ pc[t] = "cas"
  /\ next_ticket = ticket[t]
  /\ Draw(t)
  /\ pc' = [pc EXCEPT ![t] = "cs"]
  /\ UNCHANGED now_serving

\* The load or the compare_exchange finds another value: None.
TryFail(t) ==
  /\ pc[t] \in {"try", "cas"}
  /\ next_ticket # ticket[t]
  /\ Return(t, "idle")
  /\ UNCHANGED <<next_ticket, now_serving>>

QueryLoad(t) == LoadServing(t, "query")

\* Mutant: is_locked loads now_serving a second time instead of next_ticket.
QueryCompare_SameWord(t) ==
  /\ pc[t] = "query"
  /\ Return(t, IF ticket[t] = now_serving THEN "free" ELSE "busy")
  /\ UNCHANGED <<next_ticket, now_serving>>

\* is_locked(): load of next_ticket; the answer is serving != next.  Both loads
\* are Relaxed: this one comes second by the order of x86-64 loads only.
QueryCompare(t) ==
  /\ pc[t] = "query"
  /\ Return(t, IF ticket[t] = next_ticket THEN "free" ELSE "busy")
  /\ UNCHANGED <<next_ticket, now_serving>>

\* is_locked() returns its answer.
QueryReturn(t) ==
  /\ pc[t] \in {"free", "busy"}
  /\ Return(t, "idle")
  /\ UNCHANGED <<next_ticket, now_serving>>

ThreadNext(t) ==
  \/ LockDraw(t) \/ LockServed(t) \/ Unlock(t)
  \/ TryLoad(t) \/ TryCompare(t) \/ TryAcquire(t) \/ TryFail(t)
  \/ QueryLoad(t) \/ QueryCompare(t) \/ QueryReturn(t)

Next == \E t \in Threads : ThreadNext(t)

\* A CPU inside an operation keeps executing it, and a holder drops its guard;
\* nothing obliges an idle CPU to start an operation.
Fairness ==
  \A t \in Threads : /\ WF_vars(LockServed(t))
                     /\ WF_vars(Unlock(t))
                     /\ WF_vars(TryCompare(t) \/ TryAcquire(t) \/ TryFail(t))
                     /\ WF_vars(QueryCompare(t) \/ QueryReturn(t))

Spec == Init /\ [][Next]_vars /\ Fairness

-----------------------------------------------------------------------------
TypeOK ==
  /\ next_ticket \in Word
  /\ now_serving \in Word
  /\ pc \in [Threads -> PCs]
  /\ ticket \in [Threads -> Word]
  /\ gap \in [Threads -> Word]

\* At most one thread holds a guard, whether it came from lock() or try_lock()
\* and wherever the counters are in their wrap-around.
MutualExclusion ==
  \A t, u \in Threads : pc[t] = "cs" /\ pc[u] = "cs" => t = u

\* The ticket words never lose track of the waiters: the distance between the
\* counters is the number of threads holding a ticket, so "full" is never
\* mistaken for "empty" by try_lock and is_locked.
CountersMatchWaiters ==
  Cardinality(Outstanding) = Dist(now_serving, next_ticket)

\* try_lock() never passes a waiter: its compare_exchange succeeds only in a
\* state where no thread holds a ticket, although the value it compares with
\* was read two steps earlier.
TryLockNeverBarges ==
  [][\A t \in Threads :
       pc[t] = "cas" /\ pc'[t] = "cs" => Outstanding = {}]_vars

\* is_locked() answering "no" was true at its last load: no guard existed then.
UnlockedAnswerIsTrue ==
  [][\A t \in Threads :
       pc[t] = "query" /\ pc'[t] = "free" => Outstanding = {}]_vars

\* The doc comment's promise: FIFO order prevents starvation.
StarvationFree ==
  \A t \in Threads : pc[t] = "spin" ~> pc[t] = "cs"

-----------------------------------------------------------------------------
(* The inductive invariant, in named parts.                                *)

\* Tickets held lie between the one served and the next one to be drawn.
TicketsInWindow ==
  \A t \in Outstanding :
    Dist(now_serving, ticket[t]) < Dist(now_serving, next_ticket)

TicketsDistinct ==
  \A t, u \in Outstanding : ticket[t] = ticket[u] => t = u

HolderIsServed ==
  \A t \in Threads : pc[t] = "cs" => ticket[t] = now_serving

\* A loaded now_serving lies gap tickets behind next_ticket, and never ahead
\* of the present now_serving.
LoadsAreBehind ==
  \A t \in Comparing :
    /\ Dist(ticket[t], next_ticket) = gap[t]
    /\ Dist(now_serving, next_ticket) <= gap[t]

\* The two words of TicketSpinlock tell who holds and who waits, through their
\* wrap-around and for the loads that try_lock and is_locked made earlier.
IInv ==
  /\ TypeOK
  /\ CountersMatchWaiters
  /\ TicketsInWindow
  /\ TicketsDistinct
  /\ HolderIsServed
  /\ LoadsAreBehind

-----------------------------------------------------------------------------
(* Refinement: the lock is a FIFO queue of threads.  The queue lists the   *)
(* ticket holders by their distance from now_serving.                      *)
TicketQueue ==
  [i \in 1 .. Dist(now_serving, next_ticket) |->
     CHOOSE t \in Outstanding : Dist(now_serving, ticket[t]) = i - 1]

Holders == {t \in Threads : pc[t] = "cs"}

Fifo == INSTANCE FifoLock WITH queue <- TicketQueue, holder <- Holders

\* Every step of the ticket lock is a step of the FIFO queue lock: guards are
\* granted in the order in which the tickets were drawn.
FifoSpec == Fifo!Spec
=============================================================================
