# Stenzel OS kernel: TLA+ models and proofs

This directory holds a verification development for the kernel in
`src/stenzel-os-x86-ultra/kernel/src` (paths below are relative to it). It
consists of TLA+ modules translated from the Rust source, TLC configurations
that check them on small instances, and TLAPS proofs of the central results for
all values of the constants. `PROJECT.json` is the index: components, runs,
mutants, the map from definitions to source lines, findings, hazards, theorems.

## 1. Inventory of the system

The repository is one kernel of about 570 source files plus a small user land.
Most of it by volume is drivers, file-system formats, network protocols and the
graphical shell. The logic on which everything else depends is much smaller:

| Part | State | Operations | Interacts with |
|---|---|---|---|
| Locks (`sync.rs`) | ticket words; read-write word; sequence and data; saved interrupt flag | lock, try_lock, is_locked, read, write, guards' drops | every other part; interrupt handlers take the same locks |
| Scheduler (`sched/mod.rs`, `sched/cfs.rs`, `sched/rt.rs`) | tasks with state, saved frame, parent, group; run queue; CFS queue; current task; id counter | timer tick, fork, clone, exit, exit_group, wait, spawn | signals; system-call entry; timer and keyboard interrupts |
| Signals (`signal.rs`, `arch/x86_64_arch/syscall.rs`) | pending set, mask, dispositions per task | kill, tgkill, Ctrl+C, sigaction, sigprocmask, delivery on system-call return | scheduler wakes and ends tasks |
| Message queues (`ipc/msg.rs`) | table of queues, key map, id counter, byte counts | msgget, msgsnd, msgrcv, msgctl | credentials of the scheduler's current task; `IrqSafeMutex` |
| Files and pipes (`syscall/mod.rs`) | one global descriptor table and `next_fd`; pipe rings with two positions, a count, and counts of readers and writers | open, close, dup, dup2, fcntl, pipe, read, write | signals (SIGPIPE); nothing blocks |
| TCP (`net/tcp.rs`, `net/arp.rs`) | connection table, listeners with accept queues, next ephemeral port, ARP cache | listen, connect, accept, send, recv, close, segment handler, ARP resolution | the network; every send may poll, and a poll handles segments |
| Futex (`syscall/mod.rs`) | wait lists per address | wait, wake, requeue, time-out | scheduler, timer |
| Other IPC (`ipc/shm.rs`, `ipc/eventfd.rs`) | segments with attach counts and deferred removal; counters | shmget, shmat, shmdt, shmctl; read, write | memory management |
| Memory (`mm/`) | frame bitmap, copy-on-write counts, VMAs, swap slots | allocate, free, fault, map, unmap, swap | fork and exit |
| Storage, file systems, rest of the network, drivers, GUI, packages, security, compatibility, crypto | formats, caches, protocol control blocks, registers | — | system calls |

What is hard to test:

* **Lock words.** One atomic access at a time, by several CPUs, with values that
  were loaded earlier and words that wrap. The orders that matter last a few
  nanoseconds.
* **Interrupts.** A handler runs on the stack of the code it interrupted. If
  that code holds a lock the handler takes, the CPU is lost. Which of release
  and restore comes first in a guard's drop decides.
* **The scheduler.** One task object is referred to from the run queue, the CFS
  queue and `current`; a task's state says how the next tick treats it. Signals,
  wait and exit change that state between ticks.
* **The network.** Segments are lost, repeated and reordered, attempts to connect
  time out while their answers are under way, and a handler that sends may
  re-enter itself through the polling of ARP, with locks held.
* **Long sequences of legal calls**, such as duplicates, replacements and closes
  of descriptors that must keep a count right.
* **Failures half-way**, such as a receive that fails after the message has been
  taken out of its queue.

What makes each part correct: exclusion, order and progress of the locks; no
torn reads; interrupts off while held and restored after; one running task, no
runnable task lost or queued twice, every resumed task with a frame, zombies
that can be collected, system calls that return; for message queues, maps that
agree, order per type, and no loss; for pipes, counts that cover the descriptors
and a ring that is a stream; for TCP, streams in order whatever the network does,
ends that agree, connections handed out once, calls that return.

## 2. Modules

| Module | Models | Notes |
|---|---|---|
| `TicketSpinlock` | `TicketSpinlock<T>`, sync.rs 33–123 | a step per atomic access |
| `FifoLock` | what the ticket lock promises | abstract: a queue of threads; the ticket lock refines it |
| `RwSpinlock` | `RwSpinlock<T>`, sync.rs 396–578 | a step per atomic access |
| `IrqLocks` | `IrqSpinlock`, `IrqSafeMutex`, `IrqRwSpinlock`, sync.rs 229–368 and 583–697 | normal code and a handler per CPU |
| `SeqLock` | `SeqLock<T>`, sync.rs 722–812 | data copied word by word |
| `Sched` | sched/mod.rs, with signal.rs, syscall entry and signal system calls | a system call is one step up to signal delivery |
| `MsgQueue` | ipc/msg.rs | a call is one step under the table's lock |
| `FdPipe` | descriptors and pipes, syscall/mod.rs | a call is one step under the table's lock |
| `ByteStream` | what a pipe promises | abstract: bytes come out in the order they went in, boundedly many in between |
| `Tcp` | net/tcp.rs with `resolve` of net/arp.rs | two machines and a network |
| `MCTcp` | initial numbers for TLC | extends `Tcp` |
| `TicketSpinlockProofs`, `RwSpinlockProofs`, `IrqLocksProofs`, `SeqLockProofs`, `SchedProofs`, `MsgQueueProofs`, `FdPipeProofs`, `TcpProofs` | theorems about the module of that name | each extends it and `TLAPS` |

**TicketSpinlock.** `next_ticket` and `now_serving` are words modulo `Wrap`
(2^32 in the code). `pc` says where a thread is, `ticket` is the value its local
variable has. `gap` is a history variable: how far the word a thread has loaded
lies behind `next_ticket`; it tells a stale load from a current one after the
word has wrapped. The code guarantees at most as many tickets as threads and
the model assumes fewer threads than words. That no full lap happens between the
two loads of one `try_lock` or `is_locked` is a guard of `Draw`: 2^32 draws do not fit
there. Accesses happen in program order. For the two loads of `is_locked`, which are
Relaxed (sync.rs:97), that is what x86-64 does with loads, given that the compiler
keeps them in place, and not something the code asks for.

**RwSpinlock.** The word is the pair of its bit fields. Each context uses one
guard at a time. A context that reads twice, as in the example at sync.rs:386,
is outside the model and deadlocks with a waiting writer: see the hazards.

**IrqLocks.** Each CPU has one normal context and one handler. A step of the
handler is possible only after `Interrupt`, which needs the flag set, and the
normal context stands still until `Iret`. All operations of the three lock types
are operations on one lock: `spin` and `write` drop the guard before they
restore the flag, `mutex` and `read` restore it first. This is the order in
which Rust runs `drop` and then drops the fields, and the only way in which the
types differ here. The `try_` forms may fail whenever another context is in an
operation on the lock (`Contended`): it holds the lock, waits for it, or changed
the word between the load and the compare-exchange.

**SeqLock.** A writer assigns `Size` words one by one between two increments, a
reader copies them one by one between two loads. Loads and stores stay in
program order. The fences and orderings of the code demand this in all places but
one: the first `fetch_add` of a write has Release (sync.rs:799), which does not keep
the assignments behind it. On x86-64 it is a locked instruction and thereby a full
barrier, and the results hold there. `gap` serves as in the ticket lock.

**Sched.** `task` holds the Task objects; `runq`, `cfs`, `current`, `next_id`
are the fields of the scheduler. `cfs` is a count of entries per id, because
exit leaves entries behind. Which entry CFS hands out is left open, since the
properties must hold for every order of vruntime. Interrupts are off in a system
call (FMASK), so calls are steps; wait halts with interrupts on, so it is the
exception and shows as a task whose `pc` is `wait`. The exit of a kernel thread is no
system call, and a tick may fall between the unlock at sched/mod.rs:792 and the
switch at 824. By then `current` is the next task already, and the tick treats it
as it would right after the switch, so one step stands for both; only the content
of the frame it saves differs, and frames have none here. `Blockable` is the set of
signals that masks draw from, those of `sigprocmask` and the `sa_mask` of a handler
alike; a handler whose frame cannot be written loses the signal and the loop goes on. The filtering of the run queue
(`retain` in the code) is a recursive function, which the proofs can use. Return from a call runs the
loop of `check_and_deliver_signals`. `mode` records a halt, a hang or a failed
assertion.

**MsgQueue.** `queues` and `key_to_id` are the two maps. A message is type, size
and its number in the order of sends. `total_bytes` is a word modulo `Word`:
where the code's arithmetic leaves the range, the model either wraps (release
profile) or stops (`up`; the dev profile checks). A refused call leaves the
table as it is and is no step, and the answers of calls are not modelled.

**FdPipe.** `fds` and `next_fd` are the table, `pipes` the Pipe objects. All
processes share the table, and each call is one step: it holds the table's lock,
except that `sys_read` takes it twice (syscall/mod.rs:657 and 699), in between
which nobody runs on the one CPU with interrupts off. Byte n is the n-th written, so the ring's content shows where a byte
came from; `written` and `taken` are history. Descriptors without counts are of
kind `Other`. `alloc` hands out `next_fd` without looking whether `dup2` or
`F_DUPFD` has opened it, and the model does the same. Descriptors are numbered
from 0: the negative ones that `dup2` and `F_DUPFD` also accept behave alike.

**Tcp.** Machine c connects, machine s listens on one port, so a connection's key
is the ephemeral port of c; both run the same handler. `net` is the set of all
segments ever sent; delivering any of them at any time, again or never, is loss,
repetition and reordering at once. A call runs with interrupts disabled and
handles segments only where it polls, which is why `connect` is several steps
and the other calls are one. `Transmit` is the send path: the peer is in the ARP
cache, or the machine polls for the answer, and a segment handled by such a poll
takes the locks that the sender may be holding. `stuck` records that. A
`Busy` entry is a connection of c to a third machine that holds a port. A byte
is the sender's initial number and its position, so streams of different
attempts are told apart. Initial numbers, which `generate_isn` takes from a hash of
the time, are `Isn`, any sequence of numbers in any order; the one thing assumed of
them is that two lie at least `IsnGap` apart, round the number space (section 4). The RST for
a stray segment is sent, like the SYN|ACK, with the listeners locked. Left out are
fields that are written but decide nothing:
`snd_una`, windows, congestion control. The code retransmits nothing.

## 3. Runs

Passing runs:

| Run | Instance | Shows |
|---|---|---|
| `ticket` | 3 threads, words modulo 4 | exclusion, `try_lock` never barges, `is_locked` = no is true, refinement of `FifoLock`, nobody starves |
| `rw` | 3 contexts, count up to 3 | exclusion, no reader overtakes a waiting writer, a waiting writer gets in |
| `irq` | 2 CPUs with a handler each, operations that release first | guards are backed, no circular wait, interrupts off while held, flag restored |
| `seq` | 1 reader, 2 writers, 2 words, sequence modulo 4, 4 writes | no torn read, reads are current, reads end |
| `sched` | init, a kernel thread and one task made later; SIGINT, SIGCHLD with handlers and masks | ids and tasks agree, one running task, every task resumed has a frame, no Ready task comes to be outside the queue but by Ctrl+C |
| `sched_family` | two tasks made later; SIGCHLD, SIGSTOP | no task queued twice, frames |
| `msg` | two users, one queue at a time, ids up to 2, 3 messages of 2 types | key map and table agree, order per type, nothing lost |
| `fdpipe` | 5 descriptors, a pipe with a ring of 2, 4 bytes | counts cover the descriptors, end of file is final, refinement of `ByteStream` |
| `tcp` | 3 ports of which one or all are busy, 2 connects, 2 bytes one way and 1 back, buffer and backlog of 1, initial numbers in no order and the first about to wrap (`MCTcp`) | streams in order, `rcv_nxt` counts the bytes, both ends agree unless a port was reused, accepted once, no self-deadlock on the connection table, connect returns |

Violations, each of a sentence in the code:

| Run | Sentence | What TLC shows |
|---|---|---|
| `irq_mutex` | `IrqSafeMutex` exists "para evitar deadlocks" with handlers | interrupts come back before the mutex is released; a handler in between spins for ever. The scheduler's lock is of this type and the timer takes it |
| `sched_zombie` | the run queue is "for blocked/zombie tasks and task lookup" | an exiting task is not put there, so wait does not find it |
| `msg_bytes` | "Total bytes in queue" | a receive that answers E2BIG puts the message back without its bytes |

Bounds. Three threads are the least at which a holder, a waiter and a late comer
exist; words modulo 4 wrap several times. Two writers and one reader let a read
span one or more writes; readers do not affect each other. Two CPUs let a
handler wait for the other CPU as well as its own. A family of init and two more
tasks has parents, siblings, orphans and groups of threads; ids are never
used again, so `MaxId` bounds how many tasks are ever made. Queues do not affect
each other except through the table, and what is said of the table is proved for any
number of them, so TLC needs one queue at a time, made and removed again; ids
wrap after two. One pipe and its two sides, with room for duplicates of either,
let every order of dup, dup2, F_DUPFD and close happen; a ring of two is
full, half full and empty, and 4 bytes take its positions round twice; the proofs cover
more pipes. Two connects are a time-out and a retry; when the port counter
has come round the retry takes the same port again, and with all ports taken it finds none;
a second byte finds a full buffer. Numbers start two below the wrap. `MaxStamp` (sends), `MaxLen` (copies that failed peeks leave),
`MaxWrites`, `MaxId`, `MaxFd`, `MaxPipes`, `MaxBytes`, `MaxConnect`, `MaxOpen`,
`MaxSend` and `MaxReply` are the only bounds the code does not have.

Fairness. Weak fairness for each thread's next step once it has begun an
operation: a CPU that executes a loop or a critical section goes on executing
it, and an interrupt in between returns. That handlers do not wait for the code
they interrupted is not assumed here but the subject of `IrqLocks`. Nothing is
assumed about who begins an operation. `seq` has finitely many writes, which is
what makes reads end: under writers that never pause they need not, and the code
does not say so. In `Tcp`, weak fairness is assumed of the two loops of connect,
which its machine executes: the search for a port and the wait, whose number of
polls is bounded. Nothing is assumed of the network, the listener or the peer.
No fairness is assumed in `IrqLocks`, `Sched`, `MsgQueue` and `FdPipe`, where only
safety is checked; deadlocks appear there as `NoCircularWait` and `mode`.

Each property has a mutant: an operator next to the original (marked `Mutant`)
that changes it the way a slip would, under which TLC finds the property
violated.

## 4. Proofs

Every invariant, every action property and both refinements that the passing runs
check are also proved, for all values of the constants that the assumptions
allow. The theorems:

| Theorem | Statement |
|---|---|
| `TicketInvariant` | `Spec => []IInv` |
| `TicketMutualExclusion`, `TicketTryNeverBarges`, `TicketUnlockedAnswer` | exclusion and the two action properties |
| `TicketIsFifo` | refinement of `FifoLock` |
| `RwInvariant`, `RwExclusion`, `RwNoOvertaking` | the invariant, exclusion, writers before new readers |
| `IrqInvariant`, `IrqGuardsBacked`, `IrqFlagRestored` | for all operations: the invariant, guards are backed, the flag is restored |
| `IrqHeldWithIrqsOff`, `IrqNoCircularWait` | for guards of normal code that release first: interrupts off while held, no circular wait |
| `SeqInvariant`, `SeqNoTornRead`, `SeqReadIsCurrent` | the invariant, no torn read, reads are current |
| `SchedInvariant`, `SchedTypes`, `SchedRunningIsCurrent`, `SchedRunqDistinct`, `SchedResumedHasFrame` | the invariant, types, one running task, none queued twice, frames |
| `SchedReadyStaysQueued` | for all signals: no Ready task comes to be outside the queue, but by Ctrl+C on the Blocked current task |
| `MsgInvariant`, `MsgTypes`, `MsgKeysIndexed`, `MsgSendOrder`, `MsgLeavesByDelivery` | the invariant, types, maps that agree, order per type, nothing lost |
| `PipeInvariant`, `PipeTypes`, `PipeCounts`, `PipeEof`, `PipeStreams` | the invariant, rings and counts in range, counts cover descriptors, end of file is final, refinement of `ByteStream` |
| `TcpConnsNeverStuck`, `TcpAcceptedOnce` | no wait for the connection table by its holder, accepted once |
| `TcpTypes`, `TcpStreamInOrder`, `TcpNextCountsReceived`, `TcpAgreeUnlessReused` | types, streams in order, `rcv_nxt` counts the bytes, both ends agree |

* **Ticket lock**, for any finite set of threads smaller than the word. Exclusion
  is not inductive: two threads might hold equal tickets. The invariant says
  that tickets held are distinct and lie between the two words, that their
  number is the words' distance, and that loads lie behind. The distance is
  taken modulo the word size, so the proof covers the wrap. Lemmas on this
  distance carry the arithmetic. For the refinement, the abstract queue lists
  the threads by the distance of their tickets from `now_serving`. Distinct
  tickets, as many as the distance of the words, leave no place empty
  (`EveryPlaceTaken`, a pigeonhole argument), so this is a sequence and the only
  one (`QueueUnique`); drawing a ticket appends (`DrawAppends`), the guard's drop
  removes the head (`UnlockPops`), and who is served is the head (`ServedIsHead`).
* **Read-write lock**, for any finite set of contexts within the reader field.
  The count equals the number of read guards, the bit has one owner, and a
  compare-exchange is only ever tried on a word without the bit.
* **Interrupt-safe locks**, for any number of CPUs. The invariant (`Ownership`,
  `HandlerFlag`, `ThreadFlag`) ties the lock word to the contexts whose place in
  the code says that they own it, and the flag to where the normal code and the
  handler of a CPU are. It holds for every choice of operations, and so do
  backed guards and the restored flag. The other two results need
  `ThreadsReleaseFirst`: the guards of normal code are those that release before
  they restore, which are `IrqSpinlock` and the writers of `IrqRwSpinlock`.
  `IrqSafeMutex` and `IrqRwSpinlock::read` restore first, so they fall outside the
  hypothesis, and the run `irq_mutex` shows that they fall outside the result too.
  In the proof, an interrupted context owns nothing; hence readers wait for
  nobody, the owner of the bit only for readers, whoever spins only for the
  owner and the interrupted code only for its handler, which is no circle.
* **Sequence lock**, for any number of readers, writers and words. As long as the
  sequence has not moved, what a reader has copied is what the data is, and the
  sequence is odd exactly while the one writer assigns.
* **Scheduler**, for any number of tasks and any set of signals. What must hold
  is that whoever a tick or an exit resumes has a frame, although `wait` forgets
  the frame of its caller. The invariant (`FramesSaved`) says that only the current task
  can be without one, and only as the idle task before the first tick or in a
  wait that has children and no zombie to collect; so the wait cannot return
  before a tick has saved the frame again. A task that is Running is not in the
  queue, which is why putting it back does not put it there twice. Ids below
  `next_id` are those of tasks that were made, and the queue and `current` name no others (`Allocated`). That every
  Ready task is in the queue is no invariant: Ctrl+C wakes a task
  halted in wait without queueing it (section 5). `ReadyStaysQueued` says that
  this is the only step that does so, of all actions and with all signals; its
  proof goes through the same steps as the invariant's. The steps of a system call
  (ending threads, notifying a parent, reparenting, choosing the next task) have
  a lemma each, used by all calls that take them. What filtering the queue
  returns is proved by the least prefix for which it would be wrong.
* **Message queues**, for any number of queues, keys, types, sizes and callers.
  Whatever the selection, the message taken is the first of its type
  (`FirstOfType`), hence the oldest (`FirstIsOldest`), so neither handing it out
  (`ReceiveSound`) nor putting it to the front (`PutBackSound`) overtakes
  another. The strengthening is that nothing was received that has not been
  sent. For `LeavesByDelivery`, taking a message out leaves all the others, and
  what a failed receive has taken is at the front of the queue again.
* **Pipes**, for any ring size and any number of descriptors, pipes and bytes. The
  refinement needs to know what the ring holds: what was taken is the bytes 1 to
  `written` minus `count`, `count` bytes from `read_pos` on are the ones that
  follow, and the positions are those numbers modulo the size. The proof shows
  what filling and draining do to such a ring (the positions modulo the size are the work)
  and that each call changes one pipe at most. Counts cover descriptors because
  every call that adds an entry adds one to the count and removes at most the
  entry it subtracts; entries overwritten by `alloc` only make the counts larger.
* **TCP**, for any number of ports, segments and bytes. That the connection
  table is never waited for by its holder is a statement about ARP: who sends
  with the table locked has a connection in a state that it reached by receiving
  an answer, so it has sent before, so the peer is in the cache, which is never
  emptied. The invariant says that a machine without the entry has sent nothing
  and has no connections but unanswered ones. Accepted once needs that a queued
  or accepted key is in the table, where a SYN cannot enter it again.
  Streams are in order because a sequence number that is in order determines
  the stream and the position in it. Initial numbers lie `IsnGap` apart, further
  than a stream is long, and as many are handed out as `Isn` has: one per call of connect and one per entry of s, which never goes
  away (`Local`). So the segment that `rcv_nxt` accepts carries the bytes that
  follow those received, also across the wrap (`ExpectedRun`). `Pairs` says that a
  port has one SYN|ACK number, by which c is established, and that s has its
  number from a SYN in the network; `Sent` that no segment and no receiver is
  ahead of what its sender has sent. Each action changes at most one entry of a table
  to one that may follow it (`Follows`), and sends segments that agree with it.

The inductive invariants of `TicketSpinlock`, `RwSpinlock` and `SeqLock` are
invariants of their runs. Those stated in the proof modules were checked by TLC
with the constants of the runs before they were proved.

The assumptions are the named `ASSUME`s of the modules, which TLC evaluates in
each run; `ThreadsReleaseFirst` is a hypothesis of the
two theorems that need it, and the run `irq` satisfies it.
What `Tcp` says of streams rests on initial numbers that are far apart. In the code
they are hashes of the time and a counter, so this holds with high probability
and not always; where two of them come close, an old segment may pass for a new
one. `IsnGap` states what the results need, and nothing else is assumed of the
numbers.

Model-checked only are the liveness properties `StarvationFree`, `WriterDrains`,
`ReadsEnd` and `ConnectReturns`: reasoning under fairness needs ENABLED, which is
out of the prover's reach. The proofs of what recursive functions return go by a
least counterexample, since the library's induction rules cannot be instantiated
here. The three violations concern single behaviours and need TLC alone.

## 5. Behaviour seen in the models without a run

The scheduler model also reaches states in which a task blocked in wait is in no
queue, so that only its own CPU's halt loop can find it; in which `exit_group` uses an
index into the run queue after threads were dropped from it and halts with Ready
tasks (sched/mod.rs:774); and in which a task ended by the tick goes on running,
because the tick falls back on the interrupted task (sched/mod.rs:614). A task
ended by a signal does not hand its children to init. Ctrl+C makes a task halted
in wait Ready without queueing it, although it is meant to be woken ("acorda-o",
sched/mod.rs:1060), and the next tick forgets it; `ReadyStaysQueued` shows that no
other step loses a runnable task. A pending signal of default
disposition, for which a child's ordinary exit is enough (SIGCHLD), is taken and put
back for ever on the return from a system call (arch/x86_64_arch/syscall.rs:258),
where it was meant for the scheduler; the model ends in `mode` hang. In `ipc/msg.rs`, msgget
negates error numbers that are negative already, and a failed peek leaves a copy
behind. `IrqRwReadGuard` has the order of `IrqSafeMutex`.

In the pipes, an entry that `alloc` overwrites is never counted out, so a reader
may wait for an end of file that does not come. A read of an empty pipe answers 0
also while writers are left (syscall/mod.rs:737–748), which a caller cannot tell
from the end of file that the comments at 199 and 736 distinguish; `CountsCover` is
about the counts, not about this answer. In TCP, the handlers of a SYN and of a
stray segment poll with the listeners locked if the peer is not in the ARP cache, and a
repeated SYN then takes that lock a second time; closed connections keep their
ports, and when all are taken connect searches for ever; a connect that reuses the port
of one that timed out takes its late SYN|ACK; bytes that find the buffer full are
acknowledged; a FIN that overtakes data ends the connection; a full accept queue
leaves connections that nobody can accept, as does a FIN or RST that comes before
accept does (net/tcp.rs:609, 785). The hazards of `PROJECT.json` give the lines of
the others.

## 6. Not modelled

* Of the scheduler: vruntime and slice lengths, nice and affinity, exec,
  credentials, sessions, address spaces; the real-time queue and load balancing.
* Semaphores of `sync.rs` (without callers in the kernel), raw spinlocks.
* Of the descriptors: what is behind those that are not pipes.
* Of TCP: congestion control, windows, `snd_una`, checksums, `cleanup` (no caller);
  more than one listener; the socket layer above it.
* Futexes, shared memory, eventfd, copy-on-write: next, see below.
* Boot, drivers and devices: register-level I/O. File systems, storage,
  rest of the network: large formats and protocols; the block cache is a candidate. GUI,
  packages, installer, compatibility tables, cryptography: data and layout
  rather than control, or computations out of TLC's reach.
* Weak memory: the models have the order of x86-64, which is in two places more
  than the orderings in `sync.rs` ask for (97 and 799, section 2).

## 7. Plan

Done: the locks, the scheduler with signals, message queues, descriptors and pipes
and TCP over an unreliable network, with proofs of all the safety properties and
refinements that the runs check. In this order:

1. Proofs of results that no run states yet: a message is received at most
   once; an id of a task is never used again; the bytes of one TCP connection
   are a `ByteStream` as long as the receive buffer has room.
2. `Futex`: wait lists, requeue and time-out. A wake is not lost; a waiter is in
   one list at most, and in none after it returns.
3. `Shm`: attach counts and deferred removal. A segment is freed once, at the
   last detach. `Cow`: reference counts of frames over fork, fault and exit.
4. `RtRunqueue`: the bitmap and the cached highest priority agree with the lists.
5. Abstract specifications: a mailbox that `MsgQueue` implements; a process table
   (alive, zombie, collected) for `Sched`.
