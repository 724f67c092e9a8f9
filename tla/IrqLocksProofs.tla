--------------------------- MODULE IrqLocksProofs ---------------------------
(***************************************************************************)
(* Proofs about the interrupt-disabling locks, for any number of CPUs.     *)
(* The invariant holds for every choice of operations; that no handler     *)
(* waits for the code it interrupted needs guards of normal code that      *)
(* release the lock before they restore the flag.                          *)
(***************************************************************************)
EXTENDS IrqLocks, FiniteSetTheorems, TLAPS

InOperation == {"off", "drain", "in", "drop"}

\* The lock belongs to x, by its exclusive bit or as a reader.
OwnsAt(label, o) == label \in {"drain", "in"} \/ (label = "drop" /\ ~ReleasesFirst(o))
Owns(x) == OwnsAt(pc[x], op[x])

\* Between disable() and the restore of the guard, or of a failed try_.
Disabled(x) == pc[x] \in {"off", "drain", "in"} \/ (pc[x] = "drop" /\ ReleasesFirst(op[x]))

\* Operations are known, and only handlers can be absent.
Shapes ==
  /\ TypeOK
  /\ \A x \in Contexts : pc[x] = "none" => x[2] = "isr"
  /\ \A x \in Contexts : pc[x] \in InOperation => op[x] \in OpsOf(x)

\* The exclusive bit and the readers are what the contexts in them think.
Ownership ==
  /\ \A x \in Contexts : x \in bit <=> op[x] # "read" /\ Owns(x)
  /\ \A x \in Contexts : x \in readers <=> op[x] = "read" /\ Owns(x) /\ pc[x] # "drain"
  /\ \A x, y \in bit : x = y
  /\ \A x \in bit : pc[x] # "drain" => readers = {}
  /\ \A x \in Contexts : pc[x] = "drain" => op[x] # "read"

\* A handler runs with interrupts off, and so do its operations.
HandlerFlag ==
  \A c \in CPUs : pc[Isr(c)] # "none" =>
    ~irq[c] /\ (pc[Isr(c)] \in InOperation => ~was[Isr(c)])

\* Normal code in an operation has the flag off and is not interrupted; once it
\* has restored the flag, the flag is the saved one, or was at the interrupt.
ThreadFlag ==
  \A c \in CPUs :
    LET x == <<c, "thread">> IN
      /\ Disabled(x) => ~irq[c] /\ pc[Isr(c)] = "none"
      /\ pc[x] = "drop" /\ ~ReleasesFirst(op[x])
           => IF pc[Isr(c)] = "none" THEN irq[c] = was[x] ELSE was[x]

IInv == Shapes /\ Ownership /\ HandlerFlag /\ ThreadFlag

\* Guards of normal code release first: IrqSpinlock and IrqRwSpinlock::write.
ThreadsReleaseFirst == \A o \in ThreadOps : ReleasesFirst(o)

-----------------------------------------------------------------------------
\* A context is the normal code or the handler of its CPU.
LEMMA ContextFacts ==
  /\ \A x \in Contexts : Cpu(x) \in CPUs /\ (x = Isr(Cpu(x)) \/ x = <<Cpu(x), "thread">>)
  /\ \A x \in Contexts : x[2] = "isr" <=> x = Isr(Cpu(x))
  /\ \A c \in CPUs : /\ Isr(c) \in Contexts /\ <<c, "thread">> \in Contexts
                     /\ Cpu(Isr(c)) = c /\ Cpu(<<c, "thread">>) = c
                     /\ Isr(c)[2] = "isr" /\ <<c, "thread">>[2] = "thread"
                     /\ Isr(c) # <<c, "thread">>
  /\ \A c, d \in CPUs : Isr(c) # <<d, "thread">>
BY DEF Contexts, Cpu, Isr

\* The new lock satisfies the invariant.
LEMMA InitInv == ASSUME Init PROVE IInv
<1> USE DEF Init
<1>1. Shapes  BY DEF Shapes, TypeOK, InOperation, Contexts
<1>2. Ownership  BY DEF Ownership, Owns, OwnsAt
<1>3. HandlerFlag  BY ContextFacts DEF HandlerFlag, InOperation
<1>4. ThreadFlag  BY ContextFacts DEF ThreadFlag, Disabled
<1>5. QED  BY <1>1, <1>2, <1>3, <1>4 DEF IInv

\* An interrupt comes and goes without touching what the contexts own.
LEMMA InterruptInv ==
  ASSUME IInv, NEW c \in CPUs, Interrupt(c) \/ Iret(c)
  PROVE  IInv'
<1> USE DEF IInv
<1>1. /\ \A x \in Contexts : x # Isr(c) => pc'[x] = pc[x]
      /\ pc[Isr(c)] \in {"none", "run"} /\ pc'[Isr(c)] \in {"none", "run"}
      /\ pc'[Isr(c)] # pc[Isr(c)]
      /\ irq' = [irq EXCEPT ![c] = pc'[Isr(c)] = "none"]
      /\ pc[Isr(c)] = "none" => irq[c]
      /\ UNCHANGED <<op, try, was, bit, readers>>
  BY ContextFacts DEF Interrupt, Iret, Goto, Shapes, TypeOK
<1>2. Shapes'
  BY <1>1, ContextFacts DEF Interrupt, Iret, Goto, Shapes, TypeOK, InOperation, OpsOf
<1>3. Ownership'
  BY <1>1, ContextFacts DEF Ownership, Owns, OwnsAt, Shapes, TypeOK
<1>4. HandlerFlag'
  BY <1>1, ContextFacts DEF HandlerFlag, Shapes, TypeOK, InOperation, Isr
<1>5. ThreadFlag'
  <2> SUFFICES ASSUME NEW d \in CPUs
               PROVE  LET x == <<d, "thread">> IN
                        /\ Disabled(x)' => ~irq'[d] /\ pc'[Isr(d)] = "none"
                        /\ pc'[x] = "drop" /\ ~ReleasesFirst(op'[x])
                             => IF pc'[Isr(d)] = "none" THEN irq'[d] = was'[x] ELSE was'[x]
    BY DEF ThreadFlag
  <2> DEFINE x == <<d, "thread">>
  <2>1. x \in Contexts /\ x # Isr(c) /\ pc'[x] = pc[x] /\ Disabled(x)' = Disabled(x)
    BY <1>1, ContextFacts DEF Disabled
  <2>2. d # c => Isr(d) # Isr(c) /\ pc'[Isr(d)] = pc[Isr(d)] /\ irq'[d] = irq[d]
    BY <1>1, ContextFacts DEF Shapes, TypeOK, Isr
  <2>3. irq'[c] = (pc'[Isr(c)] = "none")  BY <1>1 DEF Shapes, TypeOK
  <2>4. CASE d # c  BY <1>1, <2>1, <2>2, <2>4 DEF ThreadFlag
  <2>5. CASE d = c  BY <1>1, <2>1, <2>3, <2>5 DEF ThreadFlag
  <2>6. QED  BY <2>4, <2>5
<1>6. QED  BY <1>2, <1>3, <1>4, <1>5

\* What Active means: no handler stands between x and its CPU.
LEMMA ActiveFacts ==
  ASSUME IInv, NEW x \in Contexts, Active(x)
  PROVE  \/ x = Isr(Cpu(x)) 
         \/ x = <<Cpu(x), "thread">> /\ pc[Isr(Cpu(x))] = "none"
BY ContextFacts DEF Active

\* In an operation that has not restored the flag it is off, and a handler
\* saved it as off.
LEMMA FlagFacts ==
  ASSUME IInv, NEW x \in Contexts
  PROVE  /\ Disabled(x) => ~irq[Cpu(x)]
         /\ x = Isr(Cpu(x)) /\ pc[x] \in InOperation => ~irq[Cpu(x)] /\ ~was[x]
<1>1. CASE x = Isr(Cpu(x))
  BY <1>1, ContextFacts DEF IInv, HandlerFlag, Disabled, InOperation
<1>2. CASE x = <<Cpu(x), "thread">>
  BY <1>2, ContextFacts DEF IInv, ThreadFlag
<1>3. QED  BY <1>1, <1>2, ContextFacts

\* A step of one context keeps the flags right if it does so on its own CPU.
LEMMA FlagInv ==
  ASSUME IInv, NEW x \in Contexts, Active(x), pc[x] # "none", pc'[x] # "none",
         \A y \in Contexts : y # x => pc'[y] = pc[y] /\ op'[y] = op[y] /\ was'[y] = was[y],
         \A d \in CPUs : d # Cpu(x) => irq'[d] = irq[d],
         Disabled(x)' => ~irq'[Cpu(x)],
         x = Isr(Cpu(x)) => ~irq'[Cpu(x)] /\ (pc'[x] \in InOperation => ~was'[x]),
         pc'[x] = "drop" /\ ~ReleasesFirst(op'[x]) => irq'[Cpu(x)] = was'[x]
  PROVE  HandlerFlag' /\ ThreadFlag'
<1> SUFFICES ASSUME NEW c \in CPUs
             PROVE  LET y == <<c, "thread">> IN
                      /\ pc'[Isr(c)] # "none" =>
                           ~irq'[c] /\ (pc'[Isr(c)] \in InOperation => ~was'[Isr(c)])
                      /\ Disabled(y)' => ~irq'[c] /\ pc'[Isr(c)] = "none"
                      /\ pc'[y] = "drop" /\ ~ReleasesFirst(op'[y])
                           => IF pc'[Isr(c)] = "none" THEN irq'[c] = was'[y] ELSE was'[y]
  BY DEF HandlerFlag, ThreadFlag
<1> DEFINE y == <<c, "thread">>
           z == Isr(c)
<1>1. y \in Contexts /\ z \in Contexts /\ y # z /\ Cpu(y) = c /\ Cpu(z) = c  BY ContextFacts
<1>2. /\ pc[z] # "none" => ~irq[c] /\ (pc[z] \in InOperation => ~was[z])
      /\ Disabled(y) => ~irq[c] /\ pc[z] = "none"
      /\ pc[y] = "drop" /\ ~ReleasesFirst(op[y])
           => IF pc[z] = "none" THEN irq[c] = was[y] ELSE was[y]
  BY DEF IInv, HandlerFlag, ThreadFlag
<1>3. x # y => Disabled(y)' = Disabled(y)  BY <1>1 DEF Disabled
<1>4. CASE x = y
  <2>1. c = Cpu(x) /\ pc[z] = "none" /\ pc'[z] = pc[z] /\ was'[z] = was[z]
    BY <1>1, <1>4, ActiveFacts
  <2>2. QED  BY <1>4, <2>1
<1>5. CASE x = z
  <2>1. c = Cpu(x) /\ x = Isr(Cpu(x)) /\ pc'[y] = pc[y] /\ op'[y] = op[y] /\ was'[y] = was[y]
    BY <1>1, <1>5
  <2>2. QED  BY <1>2, <1>3, <1>5, <2>1, <1>1
<1>6. CASE x # y /\ x # z
  <2>1. c # Cpu(x)  BY <1>6, ContextFacts
  <2>2. irq'[c] = irq[c] /\ pc'[y] = pc[y] /\ op'[y] = op[y] /\ was'[y] = was[y]
        /\ pc'[z] = pc[z] /\ was'[z] = was[z]
    BY <1>1, <1>6, <2>1
  <2>3. QED  BY <1>2, <1>3, <1>6, <2>2
<1>7. QED  BY <1>4, <1>5, <1>6

\* The first step of an operation.
LEMMA DisableInv == ASSUME IInv, NEW x \in Contexts, Disable(x) PROVE IInv'
<1>1. PICK o \in OpsOf(x), b \in BOOLEAN :
        op' = [op EXCEPT ![x] = o] /\ try' = [try EXCEPT ![x] = b]
  BY DEF Disable
<1>2. /\ Active(x) /\ pc[x] = "run" /\ pc' = [pc EXCEPT ![x] = "off"]
      /\ was' = [was EXCEPT ![x] = irq[Cpu(x)]]
      /\ irq' = [irq EXCEPT ![Cpu(x)] = FALSE] /\ bit' = bit /\ readers' = readers
  BY DEF Disable, Goto
<1>3. Cpu(x) \in CPUs /\ TypeOK /\ o \in Ops
  BY ContextFacts, IrqAssumption DEF IInv, Shapes, OpsOf
<1>4. /\ pc'[x] = "off" /\ op'[x] = o /\ was'[x] = irq[Cpu(x)] /\ ~irq'[Cpu(x)]
      /\ \A y \in Contexts : y # x => pc'[y] = pc[y] /\ op'[y] = op[y] /\ was'[y] = was[y]
      /\ \A d \in CPUs : d # Cpu(x) => irq'[d] = irq[d]
  BY <1>1, <1>2, <1>3 DEF TypeOK
<1>5. Shapes'
  <2>1. TypeOK'  BY <1>1, <1>2, <1>3 DEF TypeOK
  <2>2. QED  BY <2>1, <1>4 DEF IInv, Shapes, InOperation, OpsOf
<1>6. Ownership'  BY <1>2, <1>4, <1>3 DEF IInv, Ownership, Owns, OwnsAt, TypeOK
<1>7. HandlerFlag' /\ ThreadFlag'
  <2>1. x = Isr(Cpu(x)) => ~irq[Cpu(x)]
    BY <1>2, <1>3 DEF IInv, HandlerFlag
  <2>2. QED  BY <1>2, <1>4, <2>1, FlagInv
<1>8. QED  BY <1>5, <1>6, <1>7 DEF IInv

\* A later step of an operation, if it keeps the ownership right and leaves the
\* flag as the context's new place asks.
LEMMA WorkStep ==
  ASSUME IInv, NEW x \in Contexts, Active(x), pc[x] \in InOperation,
         NEW to \in {"run", "drain", "in", "drop"}, pc' = [pc EXCEPT ![x] = to],
         UNCHANGED <<op, try, was>>,
         irq' = irq \/ Restore(x),
         bit' \subseteq bit \cup {x}, readers' \subseteq readers \cup {x},
         Ownership',
         Disabled(x)' => irq' = irq /\ Disabled(x),
         to = "drop" /\ ~ReleasesFirst(op[x]) => Restore(x) /\ Disabled(x)
  PROVE  IInv'
<1>1. TypeOK /\ Cpu(x) \in CPUs  BY ContextFacts DEF IInv, Shapes
<1>2. /\ pc'[x] = to
      /\ \A y \in Contexts : y # x => pc'[y] = pc[y] /\ op'[y] = op[y] /\ was'[y] = was[y]
  BY <1>1 DEF TypeOK
<1>3. /\ \A d \in CPUs : d # Cpu(x) => irq'[d] = irq[d]
      /\ irq'[Cpu(x)] = irq[Cpu(x)] \/ irq'[Cpu(x)] = (irq[Cpu(x)] \/ was[x])
      /\ irq' \in [CPUs -> BOOLEAN]
      /\ Restore(x) => irq'[Cpu(x)] = (irq[Cpu(x)] \/ was[x])
  BY <1>1 DEF Restore, TypeOK
<1>4. Shapes'
  <2>1. TypeOK'  BY <1>1, <1>3 DEF TypeOK
  <2>2. QED  BY <2>1, <1>2, <1>1 DEF IInv, Shapes, InOperation, OpsOf
<1>5. HandlerFlag' /\ ThreadFlag'
  <2>1. Disabled(x)' => ~irq'[Cpu(x)]  BY FlagFacts
  <2>2. x = Isr(Cpu(x)) => ~irq'[Cpu(x)] /\ (pc'[x] \in InOperation => ~was'[x])
    BY <1>3, FlagFacts, <1>1 DEF TypeOK
  <2>3. pc'[x] = "drop" /\ ~ReleasesFirst(op'[x]) => irq'[Cpu(x)] = was'[x]
    BY <1>1, <1>2, <1>3, FlagFacts DEF TypeOK
  <2>4. QED  BY <1>2, <1>3, <2>1, <2>2, <2>3, FlagInv DEF InOperation
<1>6. QED  BY <1>4, <1>5 DEF IInv

\* A step of one context keeps the ownership right if it does so for its own.
LEMMA OwnershipStep ==
  ASSUME IInv, NEW x \in Contexts, NEW to, pc' = [pc EXCEPT ![x] = to], op' = op,
         bit' \ {x} = bit \ {x}, readers' \ {x} = readers \ {x},
         bit' \subseteq Contexts, readers' \subseteq Contexts,
         x \in bit' <=> op[x] # "read" /\ OwnsAt(to, op[x]),
         x \in readers' <=> op[x] = "read" /\ OwnsAt(to, op[x]) /\ to # "drain",
         \A y, z \in bit' : y = z,
         \A y \in bit' : pc'[y] # "drain" => readers' = {},
         to = "drain" => op[x] # "read"
  PROVE  Ownership'
<1>1. pc'[x] = to /\ \A y \in Contexts : y # x => pc'[y] = pc[y]
  BY DEF IInv, Shapes, TypeOK
<1>2. ASSUME NEW y \in Contexts
      PROVE  /\ y \in bit' <=> op'[y] # "read" /\ OwnsAt(pc'[y], op'[y])
             /\ y \in readers' <=> op'[y] = "read" /\ OwnsAt(pc'[y], op'[y]) /\ pc'[y] # "drain"
             /\ pc'[y] = "drain" => op'[y] # "read"
  <2>1. CASE y = x  BY <1>1, <2>1
  <2>2. CASE y # x  BY <1>1, <2>2 DEF IInv, Ownership, Owns
  <2>3. QED  BY <2>1, <2>2
<1>3. QED  BY <1>2 DEF Ownership, Owns

\* The lock is handed out to a reader.
LEMMA AcquireReadInv == ASSUME IInv, NEW x \in Contexts, AcquireRead(x) PROVE IInv'
<1> USE DEF AcquireRead, Goto
<1>1. Ownership'
  BY OwnershipStep DEF OwnsAt, IInv, Shapes, TypeOK
<1>2. QED  BY <1>1, WorkStep DEF InOperation, Disabled

\* The exclusive bit is set.
LEMMA AcquireBitInv == ASSUME IInv, NEW x \in Contexts, AcquireBit(x) PROVE IInv'
<1> USE DEF AcquireBit, Goto
<1>1. x \notin readers  BY DEF IInv, Ownership, Owns, OwnsAt
<1>2. pc'[x] = "drain"  BY DEF IInv, Shapes, TypeOK
<1>3. Ownership'
  BY <1>1, <1>2, OwnershipStep DEF OwnsAt, IInv, Shapes, TypeOK
<1>4. QED  BY <1>3, WorkStep DEF InOperation, Disabled

\* The last reader has left.
LEMMA DrainedInv == ASSUME IInv, NEW x \in Contexts, Drained(x) PROVE IInv'
<1> USE DEF Drained, Goto
<1>1. x \in bit /\ op[x] # "read" /\ \A y, z \in bit : y = z
  BY DEF IInv, Ownership, Owns, OwnsAt
<1>2. Ownership'
  BY <1>1, OwnershipStep DEF OwnsAt, IInv, Shapes, TypeOK
<1>3. QED  BY <1>2, WorkStep DEF InOperation, Disabled

\* A try_ that fails owns nothing before or after.
LEMMA TryFailInv == ASSUME IInv, NEW x \in Contexts, TryFail(x) PROVE IInv'
<1> USE DEF TryFail, Goto
<1>1. x \notin bit /\ x \notin readers  BY DEF IInv, Ownership, Owns, OwnsAt
<1>2. pc'[x] = "run" /\ \A y \in bit : pc'[y] = pc[y]  BY <1>1 DEF IInv, Shapes, TypeOK
<1>3. Ownership'
  <2>1. /\ \A y, z \in bit : y = z
        /\ \A y \in bit : pc[y] # "drain" => readers = {}
    BY DEF IInv, Ownership
  <2>2. QED  BY <1>1, <1>2, <2>1, OwnershipStep DEF OwnsAt, IInv, Shapes, TypeOK
<1>4. ~Disabled(x)'  BY <1>2 DEF Disabled
<1>5. QED  BY <1>3, <1>4, WorkStep DEF InOperation, Disabled

\* The half of a drop that releases the lock ...
LEMMA ReleaseOwnership ==
  ASSUME IInv, NEW x \in Contexts, Release(x), NEW to, pc' = [pc EXCEPT ![x] = to], op' = op,
         ~OwnsAt(to, op[x]), to # "drain"
  PROVE  Ownership'
<1>1. \A y, z \in bit : y = z  BY DEF IInv, Ownership
<1>2. \A y \in bit : pc[y] # "drain" => readers = {}  BY DEF IInv, Ownership
<1>3. \A y \in bit' : pc'[y] = pc[y] /\ y \in bit
  BY DEF Release, IInv, Shapes, TypeOK
<1>4. /\ \A y, z \in bit' : y = z
      /\ \A y \in bit' : pc'[y] # "drain" => readers' = {}
  BY <1>1, <1>2, <1>3 DEF Release
<1>5. /\ bit' \subseteq Contexts /\ readers' \subseteq Contexts
      /\ x \notin bit' /\ x \notin readers'
      /\ bit' \ {x} = bit \ {x} /\ readers' \ {x} = readers \ {x}
  BY DEF Release, IInv, Shapes, TypeOK
<1>6. QED  BY <1>4, <1>5, OwnershipStep

\* ... and the half that restores the flag.
LEMMA RestoreOwnership ==
  ASSUME IInv, NEW x \in Contexts, UNCHANGED <<bit, readers>>,
         NEW to, pc' = [pc EXCEPT ![x] = to], op' = op, pc[x] # "drain", to # "drain",
         Owns(x) <=> OwnsAt(to, op[x])
  PROVE  Ownership'
<1>1. \A y, z \in bit : y = z  BY DEF IInv, Ownership
<1>2. \A y \in bit : pc[y] # "drain" => readers = {}  BY DEF IInv, Ownership
<1>3. \A y \in bit : pc'[y] # "drain" => pc[y] # "drain"
  BY DEF IInv, Shapes, TypeOK
<1>4. /\ x \in bit <=> op[x] # "read" /\ Owns(x)
      /\ x \in readers <=> op[x] = "read" /\ Owns(x)
  BY DEF IInv, Ownership
<1>5. QED
  BY <1>1, <1>2, <1>3, <1>4, OwnershipStep DEF IInv, Shapes, TypeOK

\* The drop of a guard, in either order.
LEMMA DropFirstInv == ASSUME IInv, NEW x \in Contexts, DropFirst(x) PROVE IInv'
<1> USE DEF DropFirst, Goto
<1>1. Owns(x) /\ (OwnsAt("drop", op[x]) <=> ~ReleasesFirst(op[x]))
  BY DEF Owns, OwnsAt
<1>2. Ownership'
  BY <1>1, ReleaseOwnership, RestoreOwnership
<1>3. pc'[x] = "drop"  BY DEF IInv, Shapes, TypeOK
<1>4. Disabled(x) /\ (Disabled(x)' => ReleasesFirst(op[x]))  BY <1>3 DEF Disabled
<1>5. QED  BY <1>2, <1>4, WorkStep DEF InOperation, Release

LEMMA DropSecondInv == ASSUME IInv, NEW x \in Contexts, DropSecond(x) PROVE IInv'
<1> USE DEF DropSecond, Goto
<1>1. (Owns(x) <=> ~ReleasesFirst(op[x])) /\ ~OwnsAt("run", op[x])
  BY DEF Owns, OwnsAt
<1>2. Ownership'
  BY <1>1, ReleaseOwnership, RestoreOwnership
<1>3. pc'[x] = "run"  BY DEF IInv, Shapes, TypeOK
<1>4. ~Disabled(x)'  BY <1>3 DEF Disabled
<1>5. QED  BY <1>2, <1>4, WorkStep DEF InOperation, Release

\* Every step keeps the invariant.
LEMMA StepInv == ASSUME IInv, [Next]_vars PROVE IInv'
<1>1. CASE UNCHANGED vars
  BY <1>1 DEF vars, IInv, Shapes, TypeOK, Ownership, Owns, OwnsAt, HandlerFlag, ThreadFlag, Disabled
<1>2. ASSUME NEW c \in CPUs, Interrupt(c) \/ Iret(c) PROVE IInv'
  BY <1>2, InterruptInv
<1>3. ASSUME NEW x \in Contexts, Disable(x) \/ Work(x) PROVE IInv'
  BY <1>3, DisableInv, AcquireReadInv, AcquireBitInv, DrainedInv, TryFailInv,
     DropFirstInv, DropSecondInv DEF Work
<1>4. QED  BY <1>1, <1>2, <1>3 DEF Next

-----------------------------------------------------------------------------
\* Owners, readers and flags agree in every state, for any number of CPUs and
\* whatever operations their code and handlers use.
THEOREM IrqInvariant == Spec => []IInv
<1>1. Init => IInv  BY InitInv
<1>2. IInv /\ [Next]_vars => IInv'  BY StepInv
<1>3. QED  BY <1>1, <1>2, PTL DEF Spec

\* A guard of IrqSpinlock, IrqSafeMutex or IrqRwSpinlock is backed by the lock.
THEOREM IrqGuardsBacked == Spec => []GuardsBacked
<1>1. IInv => GuardsBacked
  <2> SUFFICES ASSUME IInv PROVE GuardsBacked  OBVIOUS
  <2>1. TypeOK  BY DEF IInv, Shapes
  <2>2. \A x, y \in bit : x = y  BY DEF IInv, Ownership
  <2>3. Cardinality(bit) <= 1
    <3>1. CASE bit = {}  BY <3>1, FS_EmptySet
    <3>2. CASE bit # {}
      <4>1. PICK x : x \in bit  BY <3>2
      <4>2. bit = {x}  BY <2>2, <4>1
      <4>3. QED  BY <4>2, FS_Singleton
    <3>3. QED  BY <3>1, <3>2
  <2>4. ASSUME NEW x \in Contexts, pc[x] = "in"
        PROVE  IF op[x] = "read" THEN x \in readers ELSE bit = {x} /\ readers = {}
    BY <2>1, <2>2, <2>4 DEF IInv, Ownership, Owns, OwnsAt, TypeOK
  <2>5. QED  BY <2>1, <2>3, <2>4 DEF GuardsBacked
<1>2. QED  BY <1>1, IrqInvariant, PTL

\* The operations of all three types leave the flag as they found it.
THEOREM IrqFlagRestored == Spec => FlagRestored
<1> DEFINE A == \A x \in Contexts :
                  pc[x] \in {"off", "drop"} /\ pc'[x] = "run" => irq'[Cpu(x)] = was[x]
<1>1. IInv /\ [Next]_vars => [A]_vars
  <2> SUFFICES ASSUME IInv, Next, NEW x \in Contexts,
                      pc[x] \in {"off", "drop"}, pc'[x] = "run"
               PROVE  irq'[Cpu(x)] = was[x]
    OBVIOUS
  <2>1. TypeOK /\ Cpu(x) \in CPUs  BY ContextFacts DEF IInv, Shapes
  <2>2. ASSUME NEW c \in CPUs, Interrupt(c) \/ Iret(c) PROVE FALSE
    BY <2>1, <2>2, ContextFacts DEF Interrupt, Iret, Goto, TypeOK
  <2>3. PICK y \in Contexts : Disable(y) \/ Work(y)  BY <2>2 DEF Next
  <2>4. y = x /\ (TryFail(x) \/ DropSecond(x))
    BY <2>1, <2>3 DEF Disable, Work, AcquireRead, AcquireBit, Drained, TryFail, DropFirst,
       DropSecond, Goto, TypeOK
  <2>5. CASE Disabled(x)
    <3>1. ~irq[Cpu(x)] /\ Restore(x)
      BY <2>4, <2>5, FlagFacts DEF TryFail, DropSecond, Disabled
    <3>2. QED  BY <2>1, <3>1 DEF Restore, TypeOK
  <2>6. CASE ~Disabled(x)
    <3>1. Active(x) /\ pc[x] = "drop" /\ ~ReleasesFirst(op[x]) /\ irq' = irq
      BY <2>4, <2>6 DEF TryFail, DropSecond, Disabled
    <3>2. CASE x = Isr(Cpu(x))
      BY <2>1, <3>1, <3>2, FlagFacts DEF InOperation, TypeOK
    <3>3. CASE x = <<Cpu(x), "thread">> /\ pc[Isr(Cpu(x))] = "none"
      BY <2>1, <3>1, <3>3 DEF IInv, ThreadFlag
    <3>4. QED  BY <3>1, <3>2, <3>3, ActiveFacts
  <2>7. QED  BY <2>5, <2>6
<1>2. QED  BY <1>1, IrqInvariant, PTL DEF Spec, FlagRestored

-----------------------------------------------------------------------------
(* Normal code that releases first.                                        *)

\* Then interrupted code owns nothing, and owners have interrupts off.
LEMMA InterruptedOwnsNothing ==
  ASSUME IInv, ThreadsReleaseFirst, NEW x \in Contexts
  PROVE  /\ ~Active(x) => pc[x] = "run" \/ (pc[x] = "drop" /\ ~Owns(x))
         /\ Owns(x) => Active(x) /\ ~irq[Cpu(x)]
<1>1. CASE x = Isr(Cpu(x))
  BY <1>1, ContextFacts, FlagFacts DEF Active, Owns, OwnsAt, InOperation
<1>2. CASE x = <<Cpu(x), "thread">>
  <2>1. pc[x] \in InOperation => ReleasesFirst(op[x])
    <3>1. x[2] # "isr"  BY <1>2, ContextFacts
    <3>2. QED  BY <3>1 DEF ThreadsReleaseFirst, IInv, Shapes, OpsOf
  <2>2. Cpu(x) \in CPUs /\ pc[x] # "none" /\ pc[x] \in {"none", "run", "off", "drain", "in", "drop"}
    BY <1>2, ContextFacts DEF IInv, Shapes, TypeOK
  <2>3. Disabled(x) => ~irq[Cpu(x)] /\ pc[Isr(Cpu(x))] = "none"
    BY <1>2, <2>2 DEF IInv, ThreadFlag
  <2>4. QED  BY <2>1, <2>2, <2>3 DEF Disabled, Active, Owns, OwnsAt, InOperation
<1>3. QED  BY <1>1, <1>2, ContextFacts

\* The owner of IrqSpinlock, or of IrqRwSpinlock's write side, keeps interrupts
\* off on its CPU for as long as it has the lock.
THEOREM IrqHeldWithIrqsOff ==
  ASSUME ThreadsReleaseFirst
  PROVE  Spec => []HeldWithIrqsOff
<1>1. IInv => HeldWithIrqsOff
  BY InterruptedOwnsNothing DEF HeldWithIrqsOff, IInv, Ownership, Shapes, TypeOK
<1>2. QED  BY <1>1, IrqInvariant, PTL

\* Nobody waits in a circle, so no handler spins for the code it interrupted:
\* readers wait for nobody, the owner of the bit for readers, a spinning
\* context for the owner, and interrupted code for its handler.
THEOREM IrqNoCircularWait ==
  ASSUME ThreadsReleaseFirst
  PROVE  Spec => []NoCircularWait
<1>1. IInv => NoCircularWait
  <2> SUFFICES ASSUME IInv, NEW S \in SUBSET Contexts, S # {},
                      \A x \in S : \E y \in S : WaitsFor(x, y)
               PROVE  FALSE
    BY DEF NoCircularWait
  <2>1. \A x \in Contexts : x \in bit \/ x \in readers => Owns(x) /\ Active(x)
    BY InterruptedOwnsNothing DEF IInv, Ownership
  <2>2. S \cap readers = {}
    <3>1. \A x \in readers : x \in Contexts => pc[x] # "off" /\ pc[x] # "drain"
      BY DEF IInv, Ownership, Owns, OwnsAt
    <3>2. QED  BY <2>1, <3>1 DEF WaitsFor, Blocking
  <2>3. S \cap bit = {}
    <3>1. \A x \in bit : x \in Contexts => pc[x] # "off"
      BY DEF IInv, Ownership, Owns, OwnsAt
    <3>2. QED  BY <2>1, <2>2, <3>1 DEF WaitsFor, Blocking
  <2>4. \A x \in S : ~Active(x)
    BY <2>2, <2>3 DEF WaitsFor
  <2>5. PICK x \in S, y \in S : WaitsFor(x, y)
    OBVIOUS
  <2>6. y = Isr(Cpu(x))
    BY <2>2, <2>3, <2>5 DEF WaitsFor
  <2>7. Active(y)
    BY <2>5, <2>6, ContextFacts DEF Active
  <2>8. QED  BY <2>4, <2>7
<1>2. QED  BY <1>1, IrqInvariant, PTL
=============================================================================
