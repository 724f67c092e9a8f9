------------------------------ MODULE IrqLocks ------------------------------
(***************************************************************************)
(* The interrupt-disabling wrappers of kernel/src/sync.rs (IrqSpinlock,    *)
(* IrqSafeMutex, IrqRwSpinlock) on CPUs where an interrupt handler takes   *)
(* the same lock as the code it interrupted.  The wrapped lock is taken at *)
(* its specification: exclusive owners have a bit, readers are a set (the  *)
(* detail is in TicketSpinlock and RwSpinlock).                            *)
(***************************************************************************)
EXTENDS Naturals, FiniteSets

CONSTANTS CPUs,
          ThreadOps, IsrOps     \* operations used by normal code and by handlers

Ops == {"spin", "mutex", "read", "write"}

ASSUME IrqAssumption == ThreadOps \subseteq Ops /\ IsrOps \subseteq Ops

VARIABLES irq,         \* the CPU's interrupt flag
          pc,          \* where each context is
          op, try,     \* its current operation, and whether it is the try_ form
          was,         \* irq_was_enabled, saved by the operation
          bit,         \* contexts that own the lock's exclusive bit
          readers      \* contexts with a read guard

vars == <<irq, pc, op, try, was, bit, readers>>

Contexts == CPUs \X {"thread", "isr"}
Cpu(x) == x[1]
Isr(c) == <<c, "isr">>
OpsOf(x) == IF x[2] = "isr" THEN IsrOps ELSE ThreadOps

\* Normal code is suspended while its CPU runs a handler.
Active(x) == x[2] = "isr" \/ pc[Isr(Cpu(x))] = "none"

Init ==
  /\ irq \in [CPUs -> BOOLEAN]
  /\ pc = [x \in Contexts |-> IF x[2] = "isr" THEN "none" ELSE "run"]
  /\ op = [x \in Contexts |-> "none"]
  /\ try = [x \in Contexts |-> FALSE]
  /\ was = [x \in Contexts |-> FALSE]
  /\ bit = {}
  /\ readers = {}

Goto(x, label) == pc' = [pc EXCEPT ![x] = label]

Restore(x) == irq' = [irq EXCEPT ![Cpu(x)] = @ \/ was[x]]

\* An interrupt is taken: the gate clears the flag.
Interrupt(c) ==
  /\ irq[c] /\ pc[Isr(c)] = "none"
  /\ irq' = [irq EXCEPT ![c] = FALSE]
  /\ Goto(Isr(c), "run")
  /\ UNCHANGED <<op, try, was, bit, readers>>

\* iret: the interrupted code had interrupts enabled.
Iret(c) ==
  /\ pc[Isr(c)] = "run"
  /\ irq' = [irq EXCEPT ![c] = TRUE]
  /\ Goto(Isr(c), "none")
  /\ UNCHANGED <<op, try, was, bit, readers>>

\* interrupts::disable(), the first step of every lock operation.
Disable(x) ==
  /\ Active(x) /\ pc[x] = "run"
  /\ \E o \in OpsOf(x), b \in BOOLEAN :
       op' = [op EXCEPT ![x] = o] /\ try' = [try EXCEPT ![x] = b]
  /\ was' = [was EXCEPT ![x] = irq[Cpu(x)]]
  /\ irq' = [irq EXCEPT ![Cpu(x)] = FALSE]
  /\ Goto(x, "off")
  /\ UNCHANGED <<bit, readers>>

\* The wrapped lock hands out a read guard ...
AcquireRead(x) ==
  /\ Active(x) /\ pc[x] = "off" /\ op[x] = "read"
  /\ bit = {}
  /\ readers' = readers \cup {x}
  /\ Goto(x, "in")
  /\ UNCHANGED <<irq, op, try, was, bit>>

\* Mutant: the exclusive bit is taken without looking at its owner.
AcquireBit_Unchecked(x) ==
  /\ Active(x) /\ pc[x] = "off" /\ op[x] # "read"
  /\ bit' = bit \cup {x}
  /\ Goto(x, "drain")
  /\ UNCHANGED <<irq, op, try, was, readers>>

\* ... or its exclusive bit; the blocking form sets it before readers leave.
AcquireBit(x) ==
  /\ Active(x) /\ pc[x] = "off" /\ op[x] # "read"
  /\ bit = {} /\ (try[x] => readers = {})
  /\ bit' = {x}
  /\ Goto(x, "drain")
  /\ UNCHANGED <<irq, op, try, was, readers>>

Drained(x) ==
  /\ Active(x) /\ pc[x] = "drain"
  /\ readers = {}
  /\ Goto(x, "in")
  /\ UNCHANGED <<irq, op, try, was, bit, readers>>

\* Another context is in an operation on the lock.
Contended(x) == \E y \in Contexts \ {x} : pc[y] \in {"off", "drain", "in", "drop"}

\* Mutant: the early return of try_lock leaves interrupts off.
TryFail_NoRestore(x) ==
  /\ Active(x) /\ pc[x] = "off" /\ try[x]
  /\ Contended(x)
  /\ Goto(x, "run")
  /\ UNCHANGED <<irq, op, try, was, bit, readers>>

\* try_lock, try_read, try_write: unavailable, restore and return None.  The
\* lock is held, or somebody waits for it, or another context, a reader even,
\* changed its word between the load and the compare-exchange.
TryFail(x) ==
  /\ Active(x) /\ pc[x] = "off" /\ try[x]
  /\ Contended(x)
  /\ Restore(x)
  /\ Goto(x, "run")
  /\ UNCHANGED <<op, try, was, bit, readers>>

Release(x) == bit' = bit \ {x} /\ readers' = readers \ {x}

\* Mutant: IrqSpinlockGuard and IrqRwWriteGuard without ManuallyDrop.
ReleasesFirst_Never(o) == o \notin Ops

\* Guards that hold the inner guard in ManuallyDrop release the lock first;
\* the others restore in drop() and release when their fields are dropped.
ReleasesFirst(o) == o \in {"spin", "write"}

\* The drop of a guard, first half ...
DropFirst(x) ==
  /\ Active(x) /\ pc[x] = "in"
  /\ IF ReleasesFirst(op[x]) THEN Release(x) /\ UNCHANGED irq
                             ELSE Restore(x) /\ UNCHANGED <<bit, readers>>
  /\ Goto(x, "drop")
  /\ UNCHANGED <<op, try, was>>

\* ... and second half.
DropSecond(x) ==
  /\ Active(x) /\ pc[x] = "drop"
  /\ IF ReleasesFirst(op[x]) THEN Restore(x) /\ UNCHANGED <<bit, readers>>
                             ELSE Release(x) /\ UNCHANGED irq
  /\ Goto(x, "run")
  /\ UNCHANGED <<op, try, was>>

\* The steps of an operation in progress.
Work(x) ==
  \/ AcquireRead(x) \/ AcquireBit(x) \/ Drained(x) \/ TryFail(x)
  \/ DropFirst(x) \/ DropSecond(x)

Next ==
  \/ \E c \in CPUs : Interrupt(c) \/ Iret(c)
  \/ \E x \in Contexts : Disable(x) \/ Work(x)

Spec == Init /\ [][Next]_vars

-----------------------------------------------------------------------------
TypeOK ==
  /\ irq \in [CPUs -> BOOLEAN]
  /\ pc \in [Contexts -> {"none", "run", "off", "drain", "in", "drop"}]
  /\ op \in [Contexts -> Ops \cup {"none"}]
  /\ try \in [Contexts -> BOOLEAN]
  /\ was \in [Contexts -> BOOLEAN]
  /\ bit \subseteq Contexts /\ readers \subseteq Contexts

\* The lock has at most one exclusive owner, and a guard in use is backed by
\* the lock: a reader is counted, an exclusive owner is alone.
GuardsBacked ==
  /\ TypeOK
  /\ Cardinality(bit) <= 1
  /\ \A x \in Contexts :
       pc[x] = "in" => IF op[x] = "read" THEN x \in readers
                                        ELSE bit = {x} /\ readers = {}

Blocking(x) == pc[x] = "off" /\ ~try[x]

\* y keeps x from going on: y is the handler that interrupted x, or holds what
\* x spins for.
WaitsFor(x, y) ==
  \/ ~Active(x) /\ y = Isr(Cpu(x))
  \/ Blocking(x) /\ y \in bit
  \/ pc[x] = "drain" /\ y \in readers

\* No set of contexts waits only for itself: in particular a handler never
\* spins on a lock held by the code it interrupted.
NoCircularWait ==
  ~ \E S \in SUBSET Contexts :
      S # {} /\ \A x \in S : \E y \in S : WaitsFor(x, y)

\* Interrupts stay disabled on the owner's CPU for as long as the lock is held.
HeldWithIrqsOff ==
  \A x \in bit : ~irq[Cpu(x)]

\* An operation returns with the interrupt flag as it found it, whether it
\* ends with the guard's drop or with a failed try_.
FlagRestored ==
  [][\A x \in Contexts :
       pc[x] \in {"off", "drop"} /\ pc'[x] = "run" => irq'[Cpu(x)] = was[x]]_vars
=============================================================================
