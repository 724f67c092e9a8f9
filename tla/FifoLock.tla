------------------------------ MODULE FifoLock ------------------------------
(***************************************************************************)
(* What a fair spinlock promises: threads that asked for the lock stand in *)
(* a queue, and only the thread at its head can be the holder.             *)
(***************************************************************************)
EXTENDS Sequences, Integers

CONSTANT Threads

VARIABLES queue,       \* threads holding or waiting for the lock, oldest first
          holder       \* the set of threads that own a guard

vars == <<queue, holder>>

Waiting(t) == \E i \in DOMAIN queue : queue[i] = t

Init == queue = <<>> /\ holder = {}

\* A thread asks for the lock and takes its place in line.
Request(t) ==
  /\ ~Waiting(t)
  /\ queue' = Append(queue, t)
  /\ UNCHANGED holder

\* The head of the line becomes the holder.
Grant(t) ==
  /\ queue # <<>> /\ Head(queue) = t
  /\ holder = {}
  /\ holder' = {t}
  /\ UNCHANGED queue

\* A thread takes a lock nobody holds or waits for.
Seize(t) ==
  /\ queue = <<>> /\ holder = {}
  /\ queue' = <<t>>
  /\ holder' = {t}

Release(t) ==
  /\ holder = {t}
  /\ holder' = {}
  /\ queue' = Tail(queue)

Next == \E t \in Threads : Request(t) \/ Grant(t) \/ Seize(t) \/ Release(t)

Spec == Init /\ [][Next]_vars
=============================================================================
