---------------------------- MODULE SeqLockProofs ---------------------------
(***************************************************************************)
(* Proofs about the sequence lock, for any number of readers and writers,  *)
(* any size of the protected value and any even width of the sequence.     *)
(***************************************************************************)
EXTENDS SeqLock, TLAPS

\* One increment: distance, parity and type.
LEMMA SuccFacts ==
  ASSUME NEW a \in Word, NEW b \in Word
  PROVE  /\ Succ(b) \in Word
         /\ Dist(a, a) = 0
         /\ Dist(a, b) \in Word
         /\ Dist(a, b) = 0 => a = b
         /\ Dist(a, b) < Wrap - 1 => Dist(a, Succ(b)) = Dist(a, b) + 1
BY SeqAssumption DEF Dist, Succ, Word

\* The increment changes the parity of the sequence, also when it wraps.
LEMMA SuccParity ==
  ASSUME NEW b \in Word
  PROVE  /\ b % 2 = 0 => Succ(b) % 2 = 1
         /\ b % 2 = 1 => Succ(b) % 2 = 0
         /\ b % 2 = 0 \/ b % 2 = 1
BY SeqAssumption DEF Succ, Word

\* The new lock satisfies the invariant.
LEMMA InitInv ==
  ASSUME Init
  PROVE  IInv
<1>1. Locked = {} /\ Assigning = {} /\ Reading = {}
  BY DEF Init, Locked, Assigning, Reading, Threads
<1>2. TypeOK
  <2>1. 0 \in Word /\ 0 \in Versions /\ 1 \in Fields
    BY SeqAssumption DEF Word, Versions, Fields
  <2> QED
    BY <2>1 DEF Init, TypeOK, PCs
<1>3. OddWhileAssigning
  BY <1>1 DEF Init, OddWhileAssigning
<1> QED
  BY <1>1, <1>2, <1>3
  DEF Init, IInv, LockOwned, DataUniform, RoomForWrite, CopyFaithful, NoTornRead,
      Threads

\* A reader whose sequence has not moved was not overtaken by a write.
LEMMA StillMeansEven ==
  ASSUME IInv, NEW r \in Reading, gap[r] = 0
  PROVE  sequence = seq1[r] /\ Assigning = {}
<1>1. r \in Readers /\ seq1[r] \in Word /\ sequence \in Word
  BY DEF Reading, IInv, TypeOK
<1>2. sequence = seq1[r] /\ seq1[r] % 2 = 0
  BY <1>1, SuccFacts DEF IInv, CopyFaithful
<1> QED
  BY <1>2 DEF IInv, OddWhileAssigning

\* What a step of reader r must establish when it leaves the shared state alone.
LEMMA ReaderInv ==
  ASSUME IInv, NEW r \in Readers, UnchangedShared,
         NEW to \in {"idle", "load", "copy", "check", "done"}, Goto(r, to), TypeOK',
         \A q \in Readers : q # r => /\ at'[q] = at[q] /\ seq1'[q] = seq1[q]
                                     /\ snap'[q] = snap[q] /\ gap'[q] = gap[q],
         \A w \in Writers : at'[w] = at[w],
         to \in {"copy", "check"} =>
           /\ seq1'[r] % 2 = 0
           /\ Dist(seq1'[r], sequence) = gap'[r]
           /\ gap'[r] = 0 => \A i \in Fields :
                (to = "check" \/ i < at'[r]) => snap'[r][i] = data[i],
         to = "done" => \A i, j \in Fields : snap'[r][i] = snap'[r][j]
  PROVE  IInv'
<1> USE DEF IInv, UnchangedShared
<1>1. \A w \in Writers : w # r /\ pc'[w] = pc[w]
  BY SeqAssumption DEF Goto, TypeOK, Threads
<1>2. Locked' = Locked /\ Assigning' = Assigning
  BY <1>1 DEF Locked, Assigning
<1>3. \A q \in Readers : pc'[q] = IF q = r THEN to ELSE pc[q]
  BY DEF Goto, TypeOK, Threads
<1>4. LockOwned' /\ OddWhileAssigning'
  BY <1>2 DEF LockOwned, OddWhileAssigning
<1>5. DataUniform' /\ RoomForWrite'
  BY <1>1, <1>2 DEF DataUniform, RoomForWrite
<1>6. CopyFaithful'
  BY <1>3 DEF CopyFaithful, Reading
<1>7. NoTornRead'
  BY <1>3 DEF NoTornRead
<1> QED
  BY <1>4, <1>5, <1>6, <1>7

\* The steps of read() keep the invariant.
LEMMA ReaderStepInv ==
  ASSUME IInv, NEW r \in Readers, Read(r) \/ ReaderStep(r)
  PROVE  IInv'
<1> USE DEF Threads
<1>0. TypeOK
  BY DEF IInv
<1>1. CASE Read(r)
  <2>1. TypeOK'
    BY <1>0, <1>1 DEF TypeOK, Read, Goto, UnchangedReads, UnchangedShared, PCs
  <2> QED
    BY <1>1, <2>1, ReaderInv DEF Read, UnchangedReads
<1>2. CASE ReadLoad(r)
  <2>1. TypeOK'
    BY <1>0, <1>2, SeqAssumption
    DEF TypeOK, ReadLoad, Goto, UnchangedShared, PCs, Fields, Word
  <2>2. Dist(sequence, sequence) = 0
    BY <1>0, SuccFacts DEF TypeOK
  <2>3. seq1'[r] = sequence /\ gap'[r] = 0 /\ at'[r] = 1
    BY <1>0, <1>2 DEF TypeOK, ReadLoad
  <2>4. \A q \in Threads : q # r => at'[q] = at[q]
    BY <1>0, <1>2 DEF TypeOK, ReadLoad
  <2>5. \A q \in Readers : q # r => seq1'[q] = seq1[q] /\ gap'[q] = gap[q]
    BY <1>0, <1>2 DEF TypeOK, ReadLoad
  <2>6. \A i \in Fields : ~(i < 1)
    BY DEF Fields
  <2> QED
    BY <1>2, <2>1, <2>2, <2>3, <2>4, <2>5, <2>6, SeqAssumption, ReaderInv
    DEF ReadLoad
<1>3. CASE ReadCopy(r)
  <2> DEFINE k == at[r]
  <2>1. k \in Fields /\ data[k] \in Versions /\ r \in Reading
    BY <1>0, <1>3 DEF TypeOK, ReadCopy, Reading
  <2>2. TypeOK'
    <3>1. snap' \in [Readers -> [Fields -> Versions]]
      BY <1>0, <1>3, <2>1 DEF TypeOK, ReadCopy
    <3>2. at' \in [Threads -> Fields]
      BY <1>0, <1>3, <2>1, SeqAssumption DEF TypeOK, ReadCopy, Fields
    <3>3. pc' \in [Threads -> PCs]
      BY <1>0, <1>3 DEF TypeOK, ReadCopy, Goto, PCs
    <3> QED
      BY <1>0, <1>3, <3>1, <3>2, <3>3 DEF TypeOK, ReadCopy, UnchangedShared
  <2>3. \A i \in Fields : snap'[r][i] = IF i = k THEN data[k] ELSE snap[r][i]
    BY <1>0, <1>3, <2>1 DEF TypeOK, ReadCopy
  <2>4. gap[r] = 0 => \A i \in Fields : i < k + 1 => snap'[r][i] = data[i]
    BY <1>3, <2>1, <2>3 DEF IInv, CopyFaithful, ReadCopy, Fields
  <2>5. \A q \in Readers : q # r => snap'[q] = snap[q]
    BY <1>0, <1>3 DEF TypeOK, ReadCopy
  <2>6. \A q \in Threads : q # r => at'[q] = at[q]
    BY <1>0, <1>3 DEF TypeOK, ReadCopy
  <2>7. seq1[r] % 2 = 0 /\ Dist(seq1[r], sequence) = gap[r]
    BY <2>1 DEF IInv, CopyFaithful
  <2>8. CASE k = Size
    <3>1. Goto(r, "check") /\ at' = at
      BY <1>3, <2>8 DEF ReadCopy
    <3>2. \A i \in Fields : i < k + 1
      BY <2>8, SeqAssumption DEF Fields
    <3> QED
      BY <1>3, <2>2, <2>4, <2>5, <2>7, <3>1, <3>2, ReaderInv DEF ReadCopy
  <2>9. CASE k # Size
    <3>1. Goto(r, "copy") /\ at'[r] = k + 1
      BY <1>0, <1>3, <2>9 DEF ReadCopy, Goto, TypeOK
    <3> QED
      BY <1>3, <2>2, <2>4, <2>5, <2>6, <2>7, <3>1, SeqAssumption, ReaderInv
      DEF ReadCopy
  <2> QED
    BY <2>8, <2>9
<1>4. CASE ReadCheck(r)
  <2> DEFINE to == IF sequence = seq1[r] THEN "done" ELSE "load"
  <2>1. TypeOK'
    BY <1>0, <1>4 DEF TypeOK, ReadCheck, Goto, UnchangedReads, UnchangedShared, PCs
  <2>2. r \in Reading
    BY <1>4 DEF ReadCheck, Reading
  <2>3. ASSUME to = "done"
        PROVE  \A i, j \in Fields : snap[r][i] = snap[r][j]
    <3>1. sequence = seq1[r] /\ seq1[r] \in Word
      BY <1>0, <2>3 DEF TypeOK
    <3>2. gap[r] = 0
      BY <2>2, <3>1, SuccFacts DEF IInv, CopyFaithful
    <3>3. \A i \in Fields : snap[r][i] = data[i]
      BY <1>4, <2>2, <3>2 DEF IInv, CopyFaithful, ReadCheck
    <3>4. \A i \in Fields : data[i] = writes
      BY <2>2, <3>2, StillMeansEven DEF IInv, DataUniform
    <3> QED
      BY <3>3, <3>4
  <2>4. to \in {"load", "done"} /\ Goto(r, to)
    BY <1>4 DEF ReadCheck
  <2> HIDE DEF to
  <2> QED
    BY <1>4, <2>1, <2>3, <2>4, ReaderInv DEF ReadCheck, UnchangedReads
<1>5. CASE ReadReturn(r)
  <2>1. TypeOK'
    BY <1>0, <1>5, SeqAssumption
    DEF TypeOK, ReadReturn, Goto, UnchangedShared, PCs, Versions, Word
  <2>2. \A q \in Readers : q # r =>
           snap'[q] = snap[q] /\ seq1'[q] = seq1[q] /\ gap'[q] = gap[q]
    BY <1>0, <1>5 DEF TypeOK, ReadReturn
  <2> QED
    BY <1>5, <2>1, <2>2, ReaderInv DEF ReadReturn
<1> QED
  BY <1>1, <1>2, <1>3, <1>4, <1>5 DEF ReaderStep

\* What a step of writer w leaves as it was for the readers.
LEMMA ReadersUntouched ==
  ASSUME TypeOK, NEW w \in Writers, NEW to, Goto(w, to), UnchangedReads
  PROVE  /\ Reading' = Reading
         /\ \A r \in Readers : pc'[r] = pc[r]
         /\ \A v \in Writers : pc'[v] = IF v = w THEN to ELSE pc[v]
BY SeqAssumption DEF TypeOK, Goto, Reading, Threads, UnchangedReads

\* Both increments of a write keep the readers' bookkeeping right: a reader
\* between its loads is now at a positive distance.
LEMMA IncrementFacts ==
  ASSUME IInv, Increment
  PROVE  /\ sequence' \in Word
         /\ gap' \in [Readers -> Word]
         /\ sequence % 2 = 0 => sequence' % 2 = 1
         /\ sequence % 2 = 1 => sequence' % 2 = 0
         /\ \A r \in Reading : Dist(seq1[r], sequence') = gap'[r] /\ gap'[r] # 0
<1>1. sequence \in Word /\ sequence' = Succ(sequence)
  BY DEF IInv, TypeOK, Increment
<1>2. \A r \in Reading : gap[r] < Wrap - 1 /\ gap[r] \in Word /\ gap'[r] = gap[r] + 1
  BY DEF IInv, TypeOK, Increment, Reading
<1>3. gap' \in [Readers -> Word]
  BY <1>2, SeqAssumption DEF IInv, TypeOK, Increment, Reading, Word
<1>4. \A r \in Reading : Dist(seq1[r], sequence) = gap[r] /\ seq1[r] \in Word
  BY DEF IInv, TypeOK, CopyFaithful, Reading
<1>5. \A r \in Reading : Dist(seq1[r], Succ(sequence)) = gap[r] + 1
  BY <1>1, <1>2, <1>4, SuccFacts
<1>6. \A r \in Reading : gap'[r] # 0
  BY <1>2 DEF Word
<1> QED
  BY <1>1, <1>2, <1>3, <1>5, <1>6, SuccFacts, SuccParity

\* The steps of write() keep the invariant.
LEMMA WriterStepInv ==
  ASSUME IInv, NEW w \in Writers, Write(w) \/ WriterStep(w)
  PROVE  IInv'
<1>0. TypeOK
  BY DEF IInv
<1>1. CASE Write(w)
  <2>1. TypeOK'
    BY <1>0, <1>1
    DEF TypeOK, Write, Goto, UnchangedReads, UnchangedShared, PCs, Threads
  <2>2. Goto(w, "spin") /\ UnchangedReads
    BY <1>1 DEF Write
  <2>3. Locked' = Locked /\ Assigning' = Assigning
    BY <1>0, <1>1, <2>2, ReadersUntouched DEF Locked, Assigning, Write
  <2> QED
    BY <1>0, <1>1, <2>1, <2>2, <2>3, ReadersUntouched
    DEF IInv, LockOwned, OddWhileAssigning, DataUniform, RoomForWrite,
        CopyFaithful, NoTornRead, Write, UnchangedReads, UnchangedShared, Reading
<1>2. CASE WriteLock(w)
  <2>1. TypeOK'
    BY <1>0, <1>2 DEF TypeOK, WriteLock, Goto, UnchangedReads, PCs, Threads
  <2>2. Goto(w, "enter") /\ UnchangedReads /\ Locked = {}
    BY <1>2 DEF WriteLock, IInv, LockOwned
  <2>3. Locked' = {w} /\ Assigning' = Assigning
    BY <1>0, <1>2, <2>2, ReadersUntouched DEF Locked, Assigning, WriteLock
  <2>4. LockOwned' /\ OddWhileAssigning'
    BY <1>2, <2>3 DEF LockOwned, OddWhileAssigning, WriteLock, IInv
  <2> QED
    BY <1>0, <1>2, <2>1, <2>2, <2>3, <2>4, ReadersUntouched
    DEF IInv, DataUniform, RoomForWrite, CopyFaithful, NoTornRead, WriteLock,
        UnchangedReads, Reading
<1>3. CASE WriteEnter(w)
  <2>1. w \in Locked /\ writes < MaxWrites
    BY <1>3 DEF WriteEnter, Locked, IInv, RoomForWrite
  <2>2. Assigning = {}
    BY <1>3, <2>1 DEF WriteEnter, IInv, LockOwned, Locked, Assigning
  <2>3. Goto(w, "assign") /\ UnchangedReads /\ Increment
    BY <1>3 DEF WriteEnter
  <2>4. sequence % 2 = 0
    BY <1>0, <2>2, SuccParity DEF IInv, OddWhileAssigning, TypeOK
  <2>5. TypeOK'
    <3>1. writes' \in Versions /\ at' \in [Threads -> Fields]
      <4>1. writes' \in Versions
        BY <1>0, <1>3, <2>1, SeqAssumption DEF WriteEnter, TypeOK, Versions
      <4>2. 1 \in Fields
        BY SeqAssumption DEF Fields
      <4> QED
        BY <1>0, <1>3, <4>1, <4>2 DEF WriteEnter, TypeOK
    <3> QED
      BY <1>0, <1>3, <2>3, <3>1, IncrementFacts
      DEF TypeOK, WriteEnter, Goto, UnchangedReads, PCs, Threads
  <2>6. Locked' = Locked /\ Assigning' = {w}
    BY <1>0, <2>1, <2>2, <2>3, ReadersUntouched DEF Locked, Assigning
  <2>7. LockOwned' /\ OddWhileAssigning'
    BY <1>3, <2>3, <2>4, <2>6, IncrementFacts
    DEF LockOwned, OddWhileAssigning, WriteEnter, IInv
  <2>8. DataUniform'
    <3>1. at'[w] = 1 /\ \A i \in Fields : ~(i < 1)
      BY <1>0, <1>3 DEF WriteEnter, TypeOK, Threads, Fields
    <3> QED
      BY <1>0, <2>2, <2>3, <2>6, <3>1, ReadersUntouched DEF DataUniform, Assigning
  <2>9. RoomForWrite'
    BY <1>0, <2>1, <2>3, ReadersUntouched DEF RoomForWrite, IInv, LockOwned, Locked
  <2>10. CopyFaithful' /\ NoTornRead'
    BY <1>0, <2>3, IncrementFacts, ReadersUntouched
    DEF CopyFaithful, NoTornRead, IInv, UnchangedReads
  <2> QED
    BY <2>5, <2>7, <2>8, <2>9, <2>10 DEF IInv
<1>4. CASE WriteAssign(w)
  <2> DEFINE k == at[w]
  <2>1. k \in Fields /\ w \in Locked /\ w \in Assigning /\ w \in Threads
    BY <1>0, <1>4 DEF WriteAssign, TypeOK, Locked, Assigning, Threads
  <2> DEFINE to == IF k = Size THEN "leave" ELSE "assign"
  <2>2. Goto(w, to)
    BY <1>0, <1>4, <2>1 DEF WriteAssign, Goto, TypeOK
  <2>3. UnchangedReads /\ to \in {"leave", "assign"}
    BY <1>4 DEF WriteAssign
  <2>4. at' \in [Threads -> Fields] /\ (k # Size => at'[w] = k + 1)
    BY <1>0, <1>4, <2>1, SeqAssumption DEF TypeOK, WriteAssign, Fields
  <2>5. /\ data' \in [Fields -> Versions]
        /\ \A i \in Fields : data'[i] = IF i = k THEN writes ELSE data[i]
    BY <1>0, <1>4, <2>1 DEF TypeOK, WriteAssign
  <2>6. TypeOK'
    <3>1. pc' \in [Threads -> PCs]
      BY <1>0, <2>2, <2>3 DEF TypeOK, Goto, PCs
    <3>2. UNCHANGED <<sequence, write_lock, seq1, snap, gap, writes>>
      BY <1>4, <2>3 DEF WriteAssign, UnchangedReads
    <3> QED
      BY <1>0, <2>4, <2>5, <3>1, <3>2 DEF TypeOK
  <2>7. Locked' = Locked /\ Assigning' = Assigning
    BY <1>0, <1>4, <2>1, <2>2, <2>3, ReadersUntouched
    DEF Locked, Assigning, WriteAssign
  <2>8. \A v \in Assigning : v = w
    BY <2>1 DEF IInv, LockOwned, Locked, Assigning
  <2>9. \A i \in Fields : i < k + 1 => data'[i] = writes
    BY <1>4, <2>1, <2>5 DEF IInv, DataUniform, WriteAssign, Fields
  <2>10. DataUniform'
    <3>1. k = Size => \A i \in Fields : i < k + 1
      BY SeqAssumption DEF Fields
    <3>2. writes' = writes
      BY <1>4 DEF WriteAssign
    <3>3. \A v \in Writers : pc'[v] \in {"assign", "leave"} => v = w
      BY <2>7, <2>8 DEF Assigning
    <3>4. pc'[w] = to
      BY <1>0, <2>2, <2>3, ReadersUntouched
    <3> QED
      BY <2>1, <2>4, <2>7, <2>9, <3>1, <3>2, <3>3, <3>4 DEF DataUniform
  <2>11. RoomForWrite' /\ LockOwned' /\ OddWhileAssigning'
    BY <1>0, <1>4, <2>2, <2>3, <2>7, ReadersUntouched
    DEF RoomForWrite, LockOwned, OddWhileAssigning, IInv, WriteAssign
  <2>12. \A r \in Reading : gap[r] # 0
    BY <2>1, StillMeansEven
  <2>13. CopyFaithful' /\ NoTornRead'
    BY <1>0, <1>4, <2>2, <2>3, <2>12, ReadersUntouched
    DEF CopyFaithful, NoTornRead, IInv, UnchangedReads, WriteAssign
  <2> QED
    BY <2>6, <2>10, <2>11, <2>13 DEF IInv
<1>5. CASE WriteLeave(w)
  <2>1. w \in Locked /\ w \in Assigning
    BY <1>5 DEF WriteLeave, Locked, Assigning
  <2>2. Goto(w, "unlock") /\ UnchangedReads /\ Increment
    BY <1>5 DEF WriteLeave
  <2>3. sequence % 2 = 1
    BY <2>1 DEF IInv, OddWhileAssigning
  <2>4. TypeOK'
    BY <1>0, <1>5, <2>2, IncrementFacts
    DEF TypeOK, WriteLeave, Goto, UnchangedReads, PCs, Threads
  <2>5. Locked' = Locked /\ Assigning' = {}
    BY <1>0, <2>1, <2>2, ReadersUntouched DEF Locked, Assigning, IInv, LockOwned
  <2>6. LockOwned' /\ OddWhileAssigning'
    <3>1. sequence' % 2 = 0
      BY <2>2, <2>3, IncrementFacts
    <3> QED
      BY <1>5, <2>5, <3>1 DEF LockOwned, OddWhileAssigning, WriteLeave, IInv
  <2>7. DataUniform' /\ RoomForWrite'
    BY <1>0, <1>5, <2>2, <2>5, ReadersUntouched
    DEF DataUniform, RoomForWrite, IInv, WriteLeave, Assigning
  <2>8. CopyFaithful' /\ NoTornRead'
    BY <1>0, <2>2, IncrementFacts, ReadersUntouched
    DEF CopyFaithful, NoTornRead, IInv, UnchangedReads
  <2> QED
    BY <2>4, <2>6, <2>7, <2>8 DEF IInv
<1>6. CASE WriteUnlock(w)
  <2>1. w \in Locked /\ Goto(w, "idle") /\ UnchangedReads
    BY <1>6 DEF WriteUnlock, Locked
  <2>2. TypeOK'
    BY <1>0, <1>6 DEF TypeOK, WriteUnlock, Goto, UnchangedReads, PCs, Threads
  <2>3. Locked' = {} /\ Assigning' = Assigning
    BY <1>0, <1>6, <2>1, ReadersUntouched
    DEF Locked, Assigning, WriteUnlock, IInv, LockOwned
  <2>4. LockOwned' /\ OddWhileAssigning'
    BY <1>6, <2>3 DEF LockOwned, OddWhileAssigning, WriteUnlock, IInv
  <2>5. DataUniform' /\ RoomForWrite'
    BY <1>0, <1>6, <2>1, <2>3, ReadersUntouched
    DEF DataUniform, RoomForWrite, IInv, WriteUnlock
  <2>6. Reading' = Reading /\ \A r \in Readers : pc'[r] = pc[r]
    BY <1>0, <2>1, ReadersUntouched
  <2>7. CopyFaithful'
    BY <1>6, <2>6 DEF CopyFaithful, IInv, WriteUnlock, UnchangedReads, Reading
  <2>8. NoTornRead'
    BY <1>6, <2>6 DEF NoTornRead, IInv, WriteUnlock, UnchangedReads
  <2> QED
    BY <2>2, <2>4, <2>5, <2>7, <2>8 DEF IInv
<1> QED
  BY <1>1, <1>2, <1>3, <1>4, <1>5, <1>6 DEF WriterStep

\* The sequence is odd exactly while a writer assigns, and a reader's copy
\* agrees with the data until the sequence moves.
THEOREM SeqInvariant == Spec => []IInv
<1>1. Init => IInv
  BY InitInv
<1>2. IInv /\ [Next]_vars => IInv'
  <2> SUFFICES ASSUME IInv, [Next]_vars PROVE IInv'
    OBVIOUS
  <2>1. CASE UNCHANGED vars
    BY <2>1 DEF vars, IInv, TypeOK, LockOwned, Locked, Assigning, DataUniform,
       OddWhileAssigning, RoomForWrite, CopyFaithful, Reading, NoTornRead
  <2> QED
    BY <2>1, ReaderStepInv, WriterStepInv DEF Next
<1> QED
  BY <1>1, <1>2, PTL DEF Spec

\* SeqLock::read never returns words of two different writes.
THEOREM SeqNoTornRead == Spec => []NoTornRead
<1>1. IInv => NoTornRead
  BY DEF IInv
<1> QED
  BY <1>1, SeqInvariant, PTL

\* A read that returns gives back the value as it is at its second load, for
\* any number of words: read() never answers with a write that was replaced.
THEOREM SeqReadIsCurrent == Spec => ReadIsCurrent
<1> DEFINE A == \A r \in Readers : pc[r] = "check" /\ pc'[r] = "done" => snap[r] = data
<1>1. IInv /\ [Next]_vars => [A]_vars
  <2> SUFFICES ASSUME IInv, Next, NEW r \in Readers, pc[r] = "check", pc'[r] = "done"
               PROVE  snap[r] = data
    OBVIOUS
  <2>1. TypeOK /\ r \in Reading
    BY DEF IInv, Reading
  <2>2. ASSUME NEW t \in Threads, NEW to, Goto(t, to)
        PROVE  t = r
    BY <2>1, <2>2 DEF Goto, TypeOK, Threads
  <2>3. ReadCheck(r)
    <3>1. ASSUME NEW q \in Readers, Read(q) \/ ReaderStep(q)
          PROVE  ReadCheck(r)
      <4>1. pc' # pc
        BY <2>1 DEF TypeOK, Threads
      <4>2. q = r
        BY <2>2, <3>1, <4>1
        DEF Read, ReaderStep, ReadLoad, ReadCopy, ReadCheck, ReadReturn, Threads
      <4> QED
        BY <3>1, <4>2 DEF Read, ReaderStep, ReadLoad, ReadCopy, ReadReturn
    <3>2. ASSUME NEW w \in Writers, Write(w) \/ WriterStep(w)
          PROVE  FALSE
      <4>1. pc' # pc /\ w # r
        BY <2>1, SeqAssumption DEF TypeOK, Threads
      <4> QED
        BY <2>2, <3>2, <4>1
        DEF Write, WriterStep, WriteLock, WriteEnter, WriteAssign, WriteLeave,
            WriteUnlock, Threads
    <3> QED
      BY <3>1, <3>2 DEF Next
  <2>4. sequence = seq1[r] /\ seq1[r] \in Word
    <3>1. pc'[r] = IF sequence = seq1[r] THEN "done" ELSE "load"
      BY <2>1, <2>3 DEF ReadCheck, Goto, TypeOK, Threads
    <3> QED
      BY <2>1, <3>1 DEF TypeOK
  <2>5. gap[r] = 0
    BY <2>1, <2>4, SuccFacts DEF IInv, CopyFaithful
  <2>6. \A i \in Fields : snap[r][i] = data[i]
    BY <2>1, <2>5 DEF IInv, CopyFaithful
  <2> QED
    BY <2>1, <2>6 DEF TypeOK
<1> QED
  BY <1>1, SeqInvariant, PTL DEF Spec, ReadIsCurrent
=============================================================================
