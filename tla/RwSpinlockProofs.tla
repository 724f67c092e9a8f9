-------------------------- MODULE RwSpinlockProofs --------------------------
(***************************************************************************)
(* Proofs about the read-write spinlock, for every finite set of contexts  *)
(* that the reader field can count.                                        *)
(***************************************************************************)
EXTENDS RwSpinlock, FiniteSetTheorems, TLAPS

\* The readers are finitely many, so they can be counted.
LEMMA ReadersFinite ==
  /\ IsFiniteSet(Readers)
  /\ Cardinality(Readers) \in Nat
  /\ Cardinality(Readers) = 0 <=> Readers = {}
<1>1. Readers \subseteq Threads
  BY DEF Readers
<1> QED
  BY <1>1, RwAssumption, FS_Subset, FS_CardinalityType, FS_EmptySet

\* A context that is not reading leaves room in the reader field.
LEMMA RoomForReader ==
  ASSUME NEW t \in Threads, t \notin Readers
  PROVE  Cardinality(Readers) < ReaderMask
<1>1. Readers \subseteq Threads /\ Readers # Threads
  BY DEF Readers
<1>2. Cardinality(Readers) <= Cardinality(Threads)
  BY <1>1, RwAssumption, FS_Subset
<1>3. Cardinality(Readers) # Cardinality(Threads)
  BY <1>1, RwAssumption, FS_Subset
<1> QED
  BY <1>2, <1>3, RwAssumption, ReadersFinite, FS_CardinalityType

\* The new lock satisfies the invariant.
LEMMA InitInv ==
  ASSUME Init
  PROVE  IInv
<1>1. Readers = {} /\ Writers = {}
  BY DEF Init, Readers, Writers
<1>2. TypeOK
  BY RwAssumption DEF Init, TypeOK, Words, Zero, PCs
<1> QED
  BY <1>1, <1>2, FS_EmptySet
  DEF Init, IInv, ReadersCounted, WriterBitOwned, WriterAlone, LoadedClear, Zero

\* A step that takes no guard, drops none and leaves the word alone.
LEMMA LocalInv ==
  ASSUME IInv, NEW t \in Threads, state' = state,
         NEW to \in {"idle", "rload", "rcas", "tcas", "wload", "wcas"},
         pc[t] \notin {"read", "drain", "write"}, Goto(t, to),
         NEW w \in Words, seen' = [seen EXCEPT ![t] = w],
         to \in {"rcas", "tcas", "wcas"} => ~w.writer
  PROVE  IInv'
<1>1. Readers' = Readers /\ Writers' = Writers
  BY DEF Readers, Writers, Goto, IInv, TypeOK
<1>2. TypeOK'
  BY DEF TypeOK, Goto, IInv, PCs
<1>3. ReadersCounted' /\ WriterBitOwned'
  BY <1>1 DEF IInv, ReadersCounted, WriterBitOwned
<1>4. WriterAlone' /\ LoadedClear'
  BY <1>1 DEF IInv, TypeOK, Goto, WriterAlone, LoadedClear
<1> QED
  BY <1>2, <1>3, <1>4 DEF IInv

\* A reader that gets in is counted.
LEMMA ReadCasInv ==
  ASSUME IInv, NEW t \in Threads, ReadCas(t)
  PROVE  IInv'
<1> USE DEF IInv, ReadCas
<1>1. t \notin Readers /\ ~state.writer
  BY DEF Readers, LoadedClear
<1>2. Readers' = Readers \cup {t} /\ Writers' = Writers /\ Writers = {}
  BY <1>1 DEF Readers, Writers, Goto, TypeOK, WriterBitOwned
<1>3. state.readers < ReaderMask
  BY <1>1, RoomForReader DEF ReadersCounted
<1>4. state' = [state EXCEPT !.readers = @ + 1] /\ state.readers \in Nat
  BY <1>3, RwAssumption DEF Incremented, TypeOK, Words
<1>5. state' \in Words /\ state'.readers = state.readers + 1 /\ ~state'.writer
  BY <1>1, <1>3, <1>4, RwAssumption DEF TypeOK, Words
<1>6. TypeOK'
  BY <1>5, RwAssumption DEF TypeOK, Goto, PCs, Words, Zero
<1>7. ReadersCounted'
  <2>1. Cardinality(Readers') = Cardinality(Readers) + 1
    BY <1>1, <1>2, ReadersFinite, FS_AddElement
  <2> QED
    BY <1>5, <2>1 DEF ReadersCounted
<1>8. WriterBitOwned' /\ WriterAlone'
  BY <1>2, <1>5 DEF WriterBitOwned, WriterAlone, Writers
<1>9. LoadedClear'
  BY DEF LoadedClear, Goto, TypeOK
<1> QED
  BY <1>6, <1>7, <1>8, <1>9

\* A reader that leaves is counted out.
LEMMA ReadDropInv ==
  ASSUME IInv, NEW t \in Threads, ReadDrop(t)
  PROVE  IInv'
<1> USE DEF IInv, ReadDrop
<1>1. t \in Readers
  BY DEF Readers
<1>2. Readers' = Readers \ {t} /\ Writers' = Writers
  BY DEF Readers, Writers, Goto, TypeOK
<1>3. state.readers # 0 /\ state.readers \in Nat
  BY <1>1, ReadersFinite DEF ReadersCounted
<1>4. /\ state' \in Words /\ state'.readers = state.readers - 1
      /\ state'.writer = state.writer
  <2>1. state.readers - 1 \in 0 .. ReaderMask
    <3>1. state.readers \in 0 .. ReaderMask
      BY DEF TypeOK, Words
    <3> HIDE DEF IInv, ReadDrop
    <3> QED
      BY <1>3, <3>1, RwAssumption
  <2> QED
    BY <2>1 DEF TypeOK, Words
<1>5. TypeOK'
  BY <1>4 DEF TypeOK, Goto, PCs
<1>6. ReadersCounted'
  BY <1>1, <1>2, <1>4, ReadersFinite, FS_RemoveElement DEF ReadersCounted
<1>7. WriterBitOwned' /\ WriterAlone' /\ LoadedClear'
  BY <1>2, <1>4 DEF WriterBitOwned, WriterAlone, LoadedClear, Goto, TypeOK
<1> QED
  BY <1>5, <1>6, <1>7

\* t becomes the owner of the writer bit: waiting for readers, or at once
\* inside when there is none.
LEMMA TakeBitInv ==
  ASSUME IInv, NEW t \in Threads, ~state.writer, pc[t] \in {"idle", "wcas"},
         state' = [state EXCEPT !.writer = TRUE],
         NEW to \in {"drain", "write"}, Goto(t, to),
         to = "write" => Readers = {},
         NEW w \in Words, seen' = [seen EXCEPT ![t] = w]
  PROVE  IInv'
<1> USE DEF IInv
<1>1. Writers = {}
  BY DEF WriterBitOwned
<1>2. Readers' = Readers /\ Writers' = {t}
  BY <1>1 DEF Readers, Writers, Goto, TypeOK
<1>3. state' \in Words /\ state'.readers = state.readers /\ state'.writer
  BY DEF TypeOK, Words
<1>4. TypeOK'
  BY <1>3 DEF TypeOK, Goto, PCs
<1>5. ReadersCounted' /\ WriterBitOwned'
  BY <1>2, <1>3 DEF ReadersCounted, WriterBitOwned
<1>6. WriterAlone'
  BY <1>1, <1>2 DEF WriterAlone, Writers, Goto, TypeOK
<1>7. LoadedClear'
  BY DEF LoadedClear, Goto, TypeOK
<1> QED
  BY <1>4, <1>5, <1>6, <1>7

\* A writer that saw the count at zero is alone.
LEMMA WriteDrainedInv ==
  ASSUME IInv, NEW t \in Threads, WriteDrained(t)
  PROVE  IInv'
<1> USE DEF IInv, WriteDrained
<1>1. Readers' = Readers /\ Writers' = Writers
  BY DEF Readers, Writers, Goto, TypeOK
<1>2. Readers = {}
  BY ReadersFinite DEF ReadersCounted
<1>3. TypeOK'
  BY DEF TypeOK, Goto, PCs
<1>4. ReadersCounted' /\ WriterBitOwned' /\ WriterAlone' /\ LoadedClear'
  BY <1>1, <1>2
  DEF ReadersCounted, WriterBitOwned, WriterAlone, LoadedClear, Goto, TypeOK
<1> QED
  BY <1>3, <1>4

\* A writer that leaves gives its bit back.
LEMMA WriteDropInv ==
  ASSUME IInv, NEW t \in Threads, WriteDrop(t)
  PROVE  IInv'
<1> USE DEF IInv, WriteDrop
<1>1. t \in Writers /\ Readers' = Readers
  BY DEF Readers, Writers, Goto, TypeOK
<1>2. Writers' = {}
  BY <1>1 DEF Writers, WriterBitOwned, Goto, TypeOK
<1>3. state' \in Words /\ state'.readers = state.readers /\ ~state'.writer
  BY DEF TypeOK, Words
<1>4. TypeOK'
  BY <1>3 DEF TypeOK, Goto, PCs
<1>5. ReadersCounted' /\ WriterBitOwned'
  BY <1>1, <1>2, <1>3 DEF ReadersCounted, WriterBitOwned
<1>6. WriterAlone' /\ LoadedClear'
  BY <1>1 DEF WriterAlone, LoadedClear, Goto, TypeOK
<1> QED
  BY <1>4, <1>5, <1>6

\* Every step of every thread keeps the invariant.
LEMMA StepInv ==
  ASSUME IInv, [Next]_vars
  PROVE  IInv'
<1>1. CASE UNCHANGED vars
  BY <1>1 DEF vars, IInv, TypeOK, Readers, Writers, ReadersCounted,
     WriterBitOwned, WriterAlone, LoadedClear
<1>2. ASSUME NEW t \in Threads, ThreadNext(t)
      PROVE  IInv'
  <2> USE <1>2
  <2>1. Zero \in Words /\ seen[t] \in Words /\ state \in Words
    BY RwAssumption DEF Zero, Words, IInv, TypeOK
  <2>2. seen = [seen EXCEPT ![t] = seen[t]]
    BY DEF IInv, TypeOK
  <2>3. CASE Read(t) \/ Write(t)
    BY <2>1, <2>2, <2>3, LocalInv DEF Read, Write
  <2>4. CASE ReadLoad(t) \/ WriteLoad(t) \/ TryRead(t)
    BY <2>1, <2>4, LocalInv DEF ReadLoad, WriteLoad, TryRead, LoadClear
  <2>5. CASE ReadRetry(t) \/ WriteRetry(t) \/ TryReadFail(t)
    BY <2>1, <2>5, LocalInv DEF ReadRetry, WriteRetry, TryReadFail
  <2>6. CASE WriteCas(t)
    <3>1. ~state.writer
      BY <2>6 DEF WriteCas, IInv, LoadedClear
    <3> QED
      BY <2>1, <2>6, <3>1, TakeBitInv DEF WriteCas
  <2>7. CASE TryWrite(t)
    <3>1. ~state.writer /\ state' = [state EXCEPT !.writer = TRUE]
      BY <2>7 DEF TryWrite, Zero
    <3>2. Readers = {}
      BY <2>7, ReadersFinite DEF TryWrite, Zero, IInv, ReadersCounted
    <3> QED
      BY <2>1, <2>2, <2>7, <3>1, <3>2, TakeBitInv DEF TryWrite
  <2> QED
    BY <2>3, <2>4, <2>5, <2>6, <2>7, ReadCasInv, ReadDropInv, WriteDrainedInv,
       WriteDropInv DEF ThreadNext
<1> QED
  BY <1>1, <1>2 DEF Next

\* The word counts the readers, its bit belongs to at most one writer, and the
\* reader field never overflows into the bit.
THEOREM RwInvariant == Spec => []IInv
<1>1. Init => IInv
  BY InitInv
<1>2. IInv /\ [Next]_vars => IInv'
  BY StepInv
<1> QED
  BY <1>1, <1>2, PTL DEF Spec

\* RwSpinlock: a write guard never coexists with another guard.
THEOREM RwExclusion == Spec => []WriteExclusion
<1>1. IInv => WriteExclusion
  BY DEF IInv, WriteExclusion, WriterAlone, WriterBitOwned, Readers, Writers
<1> QED
  BY <1>1, RwInvariant, PTL

\* While a writer waits with its bit set, no reader gets in.
THEOREM RwNoOvertaking == Spec => NoOvertaking
<1> DEFINE A == (\E t \in Threads : pc[t] = "drain" /\ pc'[t] = "drain")
                  => Readers' \subseteq Readers
<1>1. IInv /\ [Next]_vars => [A]_vars
  <2> SUFFICES ASSUME IInv, NEW u \in Threads, ThreadNext(u),
                      NEW t \in Threads, pc[t] = "drain"
               PROVE  Readers' \subseteq Readers
    BY DEF Next
  <2>1. state.writer
    BY DEF IInv, WriterBitOwned, Writers
  <2>2. ~ReadCas(u)
    BY <2>1 DEF ReadCas, IInv, LoadedClear
  <2> QED
    BY <2>2 DEF ThreadNext, Read, ReadLoad, ReadRetry, ReadDrop, TryRead,
       TryReadFail, Write, WriteLoad, WriteCas, WriteRetry, WriteDrained,
       TryWrite, WriteDrop, LoadClear, Goto, Readers, IInv, TypeOK
<1> QED
  BY <1>1, RwInvariant, PTL DEF Spec, NoOvertaking

=============================================================================
