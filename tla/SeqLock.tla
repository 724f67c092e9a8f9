------------------------------ MODULE SeqLock -------------------------------
(***************************************************************************)
(* The sequence lock of kernel/src/sync.rs.  The protected value has       *)
(* several words, which closures copy or assign one at a time, so a read   *)
(* can overlap a write.  A word holds the number of the write that last    *)
(* assigned it.  Accesses happen in program order, which the orderings in  *)
(* the code demand except in one place, see WriteEnter.                    *)
(***************************************************************************)
EXTENDS Integers

CONSTANTS Readers, Writers,   \* contexts
          Size,               \* machine words in the protected value
          Wrap,               \* number of values of the sequence word (2^32)
          MaxWrites           \* bound on the writes of a behaviour

ASSUME SeqAssumption ==
  /\ Readers \cap Writers = {}
  /\ Size \in Nat \ {0}
  /\ Wrap \in Nat /\ Wrap > 0 /\ Wrap % 2 = 0
  /\ MaxWrites \in Nat

VARIABLES sequence, write_lock, data,
          pc,          \* where each context is
          at,          \* the next word a context copies or assigns
          seq1, snap,  \* a reader's first load and its copy
          gap,         \* ghost: increments of sequence since that load
          writes       \* ghost: number of the current or last write

vars == <<sequence, write_lock, data, pc, at, seq1, snap, gap, writes>>

Threads == Readers \cup Writers
Fields == 1 .. Size
Word == 0 .. Wrap - 1
Versions == 0 .. MaxWrites
PCs == {"idle", "load", "copy", "check", "done", "spin", "enter", "assign", "leave", "unlock"}

Succ(x) == IF x = Wrap - 1 THEN 0 ELSE x + 1
Dist(a, b) == IF a <= b THEN b - a ELSE b - a + Wrap

\* Readers between their two loads of the sequence.
Reading == {r \in Readers : pc[r] \in {"copy", "check"}}

Goto(t, label) == pc' = [pc EXCEPT ![t] = label]

Init ==
  /\ sequence = 0 /\ write_lock = FALSE
  /\ data = [i \in Fields |-> 0]
  /\ pc = [t \in Threads |-> "idle"]
  /\ at = [t \in Threads |-> 1]
  /\ seq1 = [r \in Readers |-> 0]
  /\ snap = [r \in Readers |-> [i \in Fields |-> 0]]
  /\ gap = [r \in Readers |-> 0]
  /\ writes = 0

UnchangedShared == UNCHANGED <<sequence, write_lock, data, writes>>
UnchangedReads == UNCHANGED <<seq1, snap>>

Read(r) ==
  /\ pc[r] = "idle"
  /\ Goto(r, "load")
  /\ UNCHANGED <<at, gap>> /\ UnchangedReads /\ UnchangedShared

\* Mutant: the reader does not look at the parity of its first load.
ReadLoad_AnyParity(r) ==
  /\ pc[r] = "load"
  /\ seq1' = [seq1 EXCEPT ![r] = sequence]
  /\ gap' = [gap EXCEPT ![r] = 0]
  /\ at' = [at EXCEPT ![r] = 1]
  /\ Goto(r, "copy")
  /\ UNCHANGED snap /\ UnchangedShared

\* The first load; an odd value is a write in progress and is loaded again.
ReadLoad(r) ==
  /\ pc[r] = "load"
  /\ sequence % 2 = 0
  /\ seq1' = [seq1 EXCEPT ![r] = sequence]
  /\ gap' = [gap EXCEPT ![r] = 0]
  /\ at' = [at EXCEPT ![r] = 1]
  /\ Goto(r, "copy")
  /\ UNCHANGED snap /\ UnchangedShared

\* The closure copies one word.
ReadCopy(r) ==
  /\ pc[r] = "copy"
  /\ snap' = [snap EXCEPT ![r] = [@ EXCEPT ![at[r]] = data[at[r]]]]
  /\ IF at[r] = Size THEN Goto(r, "check") /\ UNCHANGED at
                     ELSE at' = [at EXCEPT ![r] = @ + 1] /\ UNCHANGED pc
  /\ UNCHANGED <<seq1, gap>> /\ UnchangedShared

\* Mutant: the second load is not compared.
ReadCheck_Always(r) ==
  /\ pc[r] = "check"
  /\ Goto(r, "done")
  /\ UNCHANGED <<at, gap>> /\ UnchangedReads /\ UnchangedShared

\* The second load: an unchanged sequence returns the copy, else retry.
ReadCheck(r) ==
  /\ pc[r] = "check"
  /\ Goto(r, IF sequence = seq1[r] THEN "done" ELSE "load")
  /\ UNCHANGED <<at, gap>> /\ UnchangedReads /\ UnchangedShared

ReadReturn(r) ==
  /\ pc[r] = "done"
  /\ Goto(r, "idle")
  /\ snap' = [snap EXCEPT ![r] = [i \in Fields |-> 0]]
  /\ seq1' = [seq1 EXCEPT ![r] = 0]
  /\ gap' = [gap EXCEPT ![r] = 0]
  /\ UNCHANGED at /\ UnchangedShared

Write(w) ==
  /\ pc[w] = "idle" /\ writes < MaxWrites
  /\ Goto(w, "spin")
  /\ UNCHANGED <<at, gap>> /\ UnchangedReads /\ UnchangedShared

\* The compare_exchange on write_lock succeeds (a failure spins).
WriteLock(w) ==
  /\ pc[w] = "spin"
  /\ ~write_lock /\ writes < MaxWrites
  /\ write_lock' = TRUE
  /\ Goto(w, "enter")
  /\ UNCHANGED <<sequence, data, at, gap, writes>> /\ UnchangedReads

\* fetch_add(1) on the sequence.  The bound: no reader sleeps between its two
\* loads while the sequence runs once around (2^31 writes during one read).
Increment ==
  /\ \A r \in Reading : gap[r] < Wrap - 1
  /\ sequence' = Succ(sequence)
  /\ gap' = [r \in Readers |-> IF r \in Reading THEN gap[r] + 1 ELSE gap[r]]

\* Mutant: the writer forgets to make the sequence odd first.
WriteEnter_Silent(w) ==
  /\ pc[w] = "enter"
  /\ writes' = writes + 1
  /\ at' = [at EXCEPT ![w] = 1]
  /\ Goto(w, "assign")
  /\ UNCHANGED <<sequence, gap, write_lock, data>> /\ UnchangedReads

\* Sequence to odd: write in progress.  A fetch_add with Release does not keep
\* the assignments behind it; on x86-64 it is a locked instruction, a barrier.
WriteEnter(w) ==
  /\ pc[w] = "enter"
  /\ Increment
  /\ writes' = writes + 1
  /\ at' = [at EXCEPT ![w] = 1]
  /\ Goto(w, "assign")
  /\ UNCHANGED <<write_lock, data>> /\ UnchangedReads

\* The closure assigns one word.
WriteAssign(w) ==
  /\ pc[w] = "assign"
  /\ data' = [data EXCEPT ![at[w]] = writes]
  /\ IF at[w] = Size THEN Goto(w, "leave") /\ UNCHANGED at
                     ELSE at' = [at EXCEPT ![w] = @ + 1] /\ UNCHANGED pc
  /\ UNCHANGED <<sequence, write_lock, gap, writes>> /\ UnchangedReads

\* Mutant: the sequence stays odd after the write.
WriteLeave_Silent(w) ==
  /\ pc[w] = "leave"
  /\ Goto(w, "unlock")
  /\ UNCHANGED <<sequence, gap, write_lock, data, at, writes>> /\ UnchangedReads

\* Sequence to even: write complete.
WriteLeave(w) ==
  /\ pc[w] = "leave"
  /\ Increment
  /\ Goto(w, "unlock")
  /\ UNCHANGED <<write_lock, data, at, writes>> /\ UnchangedReads

WriteUnlock(w) ==
  /\ pc[w] = "unlock"
  /\ write_lock' = FALSE
  /\ Goto(w, "idle")
  /\ UNCHANGED <<sequence, data, at, gap, writes>> /\ UnchangedReads

ReaderStep(r) == ReadLoad(r) \/ ReadCopy(r) \/ ReadCheck(r) \/ ReadReturn(r)
WriterStep(w) ==
  WriteLock(w) \/ WriteEnter(w) \/ WriteAssign(w) \/ WriteLeave(w) \/ WriteUnlock(w)

Next ==
  \/ \E r \in Readers : Read(r) \/ ReaderStep(r)
  \/ \E w \in Writers : Write(w) \/ WriterStep(w)

\* Every context executes the operation it is in.
Fairness ==
  /\ \A r \in Readers : WF_vars(ReaderStep(r))
  /\ \A w \in Writers : WF_vars(WriterStep(w))

Spec == Init /\ [][Next]_vars /\ Fairness

-----------------------------------------------------------------------------
TypeOK ==
  /\ sequence \in Word
  /\ write_lock \in BOOLEAN
  /\ data \in [Fields -> Versions]
  /\ pc \in [Threads -> PCs]
  /\ at \in [Threads -> Fields]
  /\ seq1 \in [Readers -> Word]
  /\ snap \in [Readers -> [Fields -> Versions]]
  /\ gap \in [Readers -> Word]
  /\ writes \in Versions

\* A read never returns a mixture of two writes, however the copy of the words
\* overlaps the writers.
NoTornRead ==
  \A r \in Readers : pc[r] = "done" =>
    \A i, j \in Fields : snap[r][i] = snap[r][j]

\* A read is current: it returns the write that was complete at its last load,
\* so a later read never goes back in time.
ReadIsCurrent ==
  [][\A r \in Readers :
       pc[r] = "check" /\ pc'[r] = "done" => snap[r] = data]_vars

\* Readers are not held up for ever once the writers stop.
ReadsEnd ==
  \A r \in Readers : pc[r] = "load" ~> pc[r] = "done"

-----------------------------------------------------------------------------
(* The inductive invariant, in named parts.                                *)

\* The lock is owned by the one writer inside, and the sequence is odd exactly
\* while it assigns.
Locked == {w \in Writers : pc[w] \in {"enter", "assign", "leave", "unlock"}}
Assigning == {w \in Writers : pc[w] \in {"assign", "leave"}}

LockOwned ==
  /\ write_lock <=> Locked # {}
  /\ \A v, w \in Locked : v = w

OddWhileAssigning == sequence % 2 = 1 <=> Assigning # {}

\* Outside a write all words come from the last write; during one, the words
\* before the writer's position are new.
DataUniform ==
  /\ Assigning = {} => \A i \in Fields : data[i] = writes
  /\ \A w \in Writers : pc[w] = "leave" => \A i \in Fields : data[i] = writes
  /\ \A w \in Writers : pc[w] = "assign" =>
       \A i \in Fields : i < at[w] => data[i] = writes

RoomForWrite == \A w \in Writers : pc[w] = "enter" => writes < MaxWrites

\* A reader's copy agrees with the data as long as the sequence stands still.
CopyFaithful ==
  \A r \in Reading :
    /\ seq1[r] % 2 = 0
    /\ Dist(seq1[r], sequence) = gap[r]
    /\ gap[r] = 0 => \A i \in Fields :
         (pc[r] = "check" \/ i < at[r]) => snap[r][i] = data[i]

\* The sequence of SeqLock is odd exactly while its one writer assigns, and a
\* copy agrees with the data while the sequence stands still.
IInv ==
  /\ TypeOK
  /\ LockOwned
  /\ OddWhileAssigning
  /\ DataUniform
  /\ RoomForWrite
  /\ CopyFaithful
  /\ NoTornRead
=============================================================================
