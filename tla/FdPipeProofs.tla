---------------------------- MODULE FdPipeProofs ----------------------------
(***************************************************************************)
(* The counts and the rings of pipes, for any table, any number of pipes   *)
(* and any size of their buffers.                                          *)
(***************************************************************************)
EXTENDS FdPipe, FiniteSetTheorems, SequenceTheorems, TLAPS

Kinds == {"PipeRead", "PipeWrite"}

\* The descriptors of one side of a pipe in a table, what an entry counts
\* for the side, and the side's count.
Refs(F, k, p) == {f \in Fds : F[f] = Entry(k, p)}
Part(e, k, p, d) == IF e = Entry(k, p) THEN d ELSE 0
Count(b, k) == IF k = "PipeRead" THEN b.readers ELSE b.writers

\* Every count covers the descriptors of its side.
Cover == \A p \in Pipes, k \in Kinds : Cardinality(Refs(fds, k, p)) <= Count(pipes[p], k)

\* No descriptor refers to a pipe that is not made yet.
Named == \A f \in Fds : fds[f].pipe <= made
Fresh == \A p \in Pipes : p > made => pipes[p] = NewPipe

\* The ring holds the bytes from the first that is not read to the last that
\* is written, from the read position on.
RingOf(data, read_pos, write_pos, count, written, taken) ==
  /\ written = Len(taken) + count
  /\ taken = [i \in 1 .. Len(taken) |-> i]
  /\ write_pos = (read_pos + count) % Size
  /\ \A k \in 0 .. count - 1 : data[(read_pos + k) % Size] = Len(taken) + 1 + k

Ring(b) == RingOf(b.data, b.read_pos, b.write_pos, b.count, b.written, b.taken)

IInv == TypeOK /\ Cover /\ Named /\ Fresh /\ \A p \in Pipes : Ring(pipes[p])

-----------------------------------------------------------------------------
(* Counts.                                                                 *)

\* Sets of descriptors are finite.
LEMMA RefsFinite ==
  ASSUME NEW F, NEW k, NEW p
  PROVE  IsFiniteSet(Refs(F, k, p)) /\ Cardinality(Refs(F, k, p)) \in Nat
<1>1. IsFiniteSet(Fds)  BY FS_Interval, FdPipeAssumption DEF Fds
<1>2. QED  BY <1>1, FS_Subset, FS_CardinalityType DEF Refs

\* The table G is F but for the entry of one descriptor.
Replaces(F, G, g, e) == G[g] = e /\ \A f \in Fds \ {g} : G[f] = F[f]

\* A descriptor that gets another entry leaves the side it was on and joins
\* the side that the entry names.
LEMMA RefsAfterSet ==
  ASSUME NEW F \in [Fds -> Entries], NEW g \in Fds, NEW e \in Entries, NEW k, NEW p,
         NEW G, Replaces(F, G, g, e)
  PROVE  Cardinality(Refs(G, k, p))
           = Cardinality(Refs(F, k, p)) + Part(e, k, p, 1)
                                        - Part(F[g], k, p, 1)
<1> DEFINE A == Refs(F, k, p)
           n == Cardinality(A)
           m == Cardinality(Refs(G, k, p))
<1>1. IsFiniteSet(A) /\ n \in Nat  BY RefsFinite
<1>2. g \in A <=> F[g] = Entry(k, p)  BY DEF Refs
<1>3. CASE e = Entry(k, p)
  <2>1. Refs(G, k, p) = A \cup {g}  BY <1>3 DEF Refs, Replaces
  <2>2. m = IF g \in A THEN n ELSE n + 1  BY <1>1, <2>1, FS_AddElement
  <2> HIDE DEF A, n, m
  <2>3. m = n + 1 - Part(F[g], k, p, 1)  BY <1>1, <1>2, <2>2 DEF Part
  <2>4. QED  BY <1>3, <2>3 DEF m, n, A, Part
<1>4. CASE e # Entry(k, p)
  <2>1. Refs(G, k, p) = A \ {g}  BY <1>4 DEF Refs, Replaces
  <2>2. m = IF g \in A THEN n - 1 ELSE n  BY <1>1, <2>1, FS_RemoveElement
  <2> HIDE DEF A, n, m
  <2>3. m = n + 0 - Part(F[g], k, p, 1)  BY <1>1, <1>2, <2>2 DEF Part
  <2>4. QED  BY <1>4, <2>3 DEF m, n, A, Part
<1>5. QED  BY <1>3, <1>4

\* A side that a descriptor refers to has a count of at least one.
LEMMA Referred ==
  ASSUME TypeOK, Cover, NEW f \in Fds, NEW k \in Kinds, NEW p \in Pipes, fds[f] = Entry(k, p)
  PROVE  Count(pipes[p], k) >= 1
<1>1. f \in Refs(fds, k, p)  BY DEF Refs
<1>2. IsFiniteSet(Refs(fds, k, p)) /\ Cardinality(Refs(fds, k, p)) \in Nat  BY RefsFinite
<1>3. Cardinality(Refs(fds, k, p)) # 0  BY <1>1, <1>2, FS_EmptySet
<1>4. Cardinality(Refs(fds, k, p)) <= Count(pipes[p], k)  BY DEF Cover
<1>5. Count(pipes[p], k) \in Nat  BY DEF TypeOK, PipeRecords, Count, Kinds
<1>6. QED  BY <1>2, <1>3, <1>4, <1>5

\* The same ring, whatever the counts.
SameRing(b, c) ==
  /\ c.taken = b.taken /\ c.count = b.count /\ c.data = b.data /\ c.written = b.written
  /\ c.read_pos = b.read_pos /\ c.write_pos = b.write_pos

\* Counted changes one count, of the side that the entry names, and no ring.
LEMMA CountedChanges ==
  ASSUME NEW P \in [Pipes -> PipeRecords], NEW e \in Entries, NEW d \in Int, NEW p \in Pipes,
         NEW Q, Q = Counted(P, e, d)
  PROVE  /\ SameRing(P[p], Q[p])
         /\ \A k \in Kinds :
              Count(Q[p], k) = Count(P[p], k) + Part(e, k, p, d)
         /\ p # e.pipe => Q[p] = P[p]
         /\ Q[p].readers \in Nat /\ Q[p].writers \in Nat => Q[p] \in PipeRecords
<1>1. P[p] \in PipeRecords  OBVIOUS
<1>2. CASE e = Entry("PipeRead", p)
  <2>1. Q[p] = [P[p] EXCEPT !.readers = @ + d]  BY <1>2 DEF Counted
  <2>2. e # Entry("PipeWrite", p) /\ p = e.pipe  BY <1>2 DEF Entry
  <2>3. SameRing(P[p], Q[p])  BY <1>1, <2>1 DEF SameRing, PipeRecords
  <2>4. Q[p].readers = P[p].readers + d /\ Q[p].writers = P[p].writers
    BY <1>1, <2>1 DEF PipeRecords
  <2>5. Q[p].readers \in Nat /\ Q[p].writers \in Nat => Q[p] \in PipeRecords
    BY <1>1, <2>1 DEF PipeRecords
  <2>6. P[p].writers \in Int  BY <1>1 DEF PipeRecords
  <2>7. QED  BY <1>2, <2>2, <2>3, <2>4, <2>5, <2>6 DEF Count, Kinds, Part
<1>3. CASE e = Entry("PipeWrite", p)
  <2>1. e # Entry("PipeRead", p) /\ p = e.pipe  BY <1>3 DEF Entry
  <2>2. Q[p] = [P[p] EXCEPT !.writers = @ + d]  BY <1>3, <2>1 DEF Counted
  <2>3. SameRing(P[p], Q[p])  BY <1>1, <2>2 DEF SameRing, PipeRecords
  <2>4. Q[p].writers = P[p].writers + d /\ Q[p].readers = P[p].readers
    BY <1>1, <2>2 DEF PipeRecords
  <2>5. Q[p].readers \in Nat /\ Q[p].writers \in Nat => Q[p] \in PipeRecords
    BY <1>1, <2>2 DEF PipeRecords
  <2>6. P[p].readers \in Int  BY <1>1 DEF PipeRecords
  <2>7. QED  BY <1>3, <2>1, <2>3, <2>4, <2>5, <2>6 DEF Count, Kinds, Part
<1>4. CASE e # Entry("PipeRead", p) /\ e # Entry("PipeWrite", p)
  <2>1. Q[p] = P[p]  BY <1>4 DEF Counted
  <2>2. SameRing(P[p], Q[p])  BY <2>1 DEF SameRing
  <2>3. \A k \in Kinds : e # Entry(k, p) /\ Count(P[p], k) \in Int
    BY <1>1, <1>4 DEF Kinds, Count, PipeRecords
  <2>4. QED  BY <1>1, <2>1, <2>2, <2>3 DEF Part
<1>5. QED  BY <1>2, <1>3, <1>4

\* One more descriptor keeps the types.
LEMMA CountedMore ==
  ASSUME NEW P \in [Pipes -> PipeRecords], NEW e \in Entries
  PROVE  Counted(P, e, 1) \in [Pipes -> PipeRecords]
<1> DEFINE Q == Counted(P, e, 1)
<1>1. ASSUME NEW p \in Pipes  PROVE Q[p] \in PipeRecords
  <2>1. P[p].readers \in Nat /\ P[p].writers \in Nat  BY DEF PipeRecords
  <2>2. /\ \A k \in Kinds : Count(Q[p], k) = Count(P[p], k) + Part(e, k, p, 1)
        /\ Q[p].readers \in Nat /\ Q[p].writers \in Nat => Q[p] \in PipeRecords
    BY CountedChanges
  <2> HIDE DEF Q
  <2>3. Q[p].readers \in Nat /\ Q[p].writers \in Nat  BY <2>1, <2>2 DEF Count, Kinds, Part
  <2>4. QED  BY <2>2, <2>3
<1>2. QED  BY <1>1 DEF Counted

\* A step that changes descriptors and counts, and keeps every side covered.
LEMMA Recounted ==
  ASSUME IInv,
         fds' \in [Fds -> Entries], next_fd' \in StdFds .. MaxFd + 1, made' = made,
         pipes' = [p \in Pipes |-> pipes'[p]],
         \A p \in Pipes :
           /\ SameRing(pipes[p], pipes'[p])
           /\ pipes'[p].readers \in Nat /\ pipes'[p].writers \in Nat => pipes'[p] \in PipeRecords
           /\ p > made => pipes'[p] = pipes[p]
           /\ \A k \in Kinds : /\ Count(pipes'[p], k) \in Int
                               /\ Cardinality(Refs(fds', k, p)) <= Count(pipes'[p], k),
         \A f \in Fds : fds'[f].pipe <= made
  PROVE  IInv'
<1> USE DEF IInv
<1>1. Cover' /\ Named' /\ Fresh'  BY DEF Cover, Named, Fresh
<1>2. ASSUME NEW p \in Pipes
      PROVE  pipes'[p] \in PipeRecords /\ Ring(pipes'[p])
  <2>1. pipes[p] \in PipeRecords /\ Ring(pipes[p])  BY DEF TypeOK
  <2>2. \A k \in Kinds : Count(pipes'[p], k) \in Nat
    <3>1. SUFFICES ASSUME NEW k \in Kinds  PROVE Count(pipes'[p], k) \in Nat
      OBVIOUS
    <3>2. Cardinality(Refs(fds', k, p)) \in Nat  BY RefsFinite
    <3>3. /\ Count(pipes'[p], k) \in Int
          /\ Cardinality(Refs(fds', k, p)) <= Count(pipes'[p], k)
      OBVIOUS
    <3>4. QED  BY <3>2, <3>3
  <2>3. pipes'[p].readers \in Nat /\ pipes'[p].writers \in Nat
    BY <2>2 DEF Count, Kinds
  <2>4. pipes'[p] \in PipeRecords  BY <2>3
  <2>5. QED  BY <2>1, <2>4 DEF Ring, SameRing
<1>3. TypeOK'  BY <1>2 DEF TypeOK
<1>4. QED  BY <1>1, <1>2, <1>3

\* dup, and F_DUPFD: a free or a taken descriptor becomes one like another.
LEMMA DupKeeps ==
  ASSUME IInv, NEW old \in Fds, NEW new \in Fds, made' = made,
         fds' = [fds EXCEPT ![new] = fds[old]], pipes' = Counted(pipes, fds[old], 1),
         next_fd' \in StdFds .. MaxFd + 1
  PROVE  IInv'
<1> DEFINE e == fds[old]
<1>1. /\ fds \in [Fds -> Entries] /\ e \in Entries /\ pipes \in [Pipes -> PipeRecords]
      /\ e.pipe <= made /\ made \in Nat
    BY DEF IInv, TypeOK, Named
<1>2. fds' \in [Fds -> Entries] /\ \A f \in Fds : fds'[f].pipe <= made
    BY <1>1 DEF IInv, Named
<1>3. ASSUME NEW p \in Pipes
      PROVE  /\ SameRing(pipes[p], pipes'[p])
             /\ pipes'[p].readers \in Nat /\ pipes'[p].writers \in Nat => pipes'[p] \in PipeRecords
             /\ p > made => pipes'[p] = pipes[p]
             /\ \A k \in Kinds : /\ Count(pipes'[p], k) \in Int
                                 /\ Cardinality(Refs(fds', k, p)) <= Count(pipes'[p], k)
  <2>1. /\ SameRing(pipes[p], pipes'[p])
        /\ pipes'[p].readers \in Nat /\ pipes'[p].writers \in Nat => pipes'[p] \in PipeRecords
        /\ \A k \in Kinds :
             Count(pipes'[p], k) = Count(pipes[p], k) + Part(e, k, p, 1)
        /\ p # e.pipe => pipes'[p] = pipes[p]
    BY <1>1, CountedChanges
  <2>2. p > made => p # e.pipe
    BY <1>1 DEF Pipes, Entries
  <2>3. ASSUME NEW k \in Kinds
        PROVE  /\ Count(pipes'[p], k) \in Int
               /\ Cardinality(Refs(fds', k, p)) <= Count(pipes'[p], k)
    <3>1. Cardinality(Refs(fds', k, p))
            = Cardinality(Refs(fds, k, p)) + Part(e, k, p, 1)
                                           - Part(fds[new], k, p, 1)
      <4>1. Replaces(fds, fds', new, e)  BY <1>1 DEF Replaces
      <4>2. QED  BY <1>1, <4>1, RefsAfterSet
    <3>2. Cardinality(Refs(fds, k, p)) \in Nat  BY RefsFinite
    <3>3. Cardinality(Refs(fds, k, p)) <= Count(pipes[p], k)  BY DEF IInv, Cover
    <3>4. Count(pipes[p], k) \in Int  BY <1>1 DEF Count, PipeRecords
    <3> HIDE DEF e
    <3>5. QED  BY <2>1, <3>1, <3>2, <3>3, <3>4 DEF Part
  <2>4. QED  BY <2>1, <2>2, <2>3
<1>4. pipes' = [p \in Pipes |-> pipes'[p]]  BY DEF Counted
<1>5. QED  BY <1>2, <1>3, <1>4, Recounted

\* dup2: the replaced descriptor is counted out.
LEMMA Dup2Keeps ==
  ASSUME IInv, NEW old \in Fds, NEW new \in Fds, sys_dup2(old, new)
  PROVE  IInv'
<1> DEFINE e == fds[old]
           o == fds[new]
           Q == Counted(pipes, e, 1)
<1>1. /\ fds \in [Fds -> Entries] /\ e \in Entries /\ o \in Entries
      /\ pipes \in [Pipes -> PipeRecords]
      /\ e.pipe <= made /\ o.pipe <= made /\ made \in Nat
    BY DEF IInv, TypeOK, Named
<1>2. /\ fds' = [fds EXCEPT ![new] = e] /\ pipes' = Counted(Q, o, -1)
      /\ next_fd' = next_fd /\ made' = made
    BY DEF sys_dup2
<1>3. fds' \in [Fds -> Entries] /\ \A f \in Fds : fds'[f].pipe <= made
    BY <1>1, <1>2 DEF IInv, Named
<1>4. Q \in [Pipes -> PipeRecords]  BY <1>1, CountedMore
<1> HIDE DEF Q
<1>5. ASSUME NEW p \in Pipes
      PROVE  /\ SameRing(pipes[p], pipes'[p])
             /\ pipes'[p].readers \in Nat /\ pipes'[p].writers \in Nat => pipes'[p] \in PipeRecords
             /\ p > made => pipes'[p] = pipes[p]
             /\ \A k \in Kinds : /\ Count(pipes'[p], k) \in Int
                                 /\ Cardinality(Refs(fds', k, p)) <= Count(pipes'[p], k)
  <2>1. /\ SameRing(pipes[p], Q[p])
        /\ \A k \in Kinds : Count(Q[p], k) = Count(pipes[p], k) + Part(e, k, p, 1)
        /\ p # e.pipe => Q[p] = pipes[p]
    BY <1>1, CountedChanges DEF Q
  <2>2. /\ SameRing(Q[p], pipes'[p])
        /\ pipes'[p].readers \in Nat /\ pipes'[p].writers \in Nat => pipes'[p] \in PipeRecords
        /\ \A k \in Kinds : Count(pipes'[p], k) = Count(Q[p], k) + Part(o, k, p, -1)
        /\ p # o.pipe => pipes'[p] = Q[p]
    BY <1>1, <1>2, <1>4, CountedChanges
  <2>3. p > made => p # e.pipe /\ p # o.pipe
    BY <1>1 DEF Pipes, Entries
  <2>4. SameRing(pipes[p], pipes'[p])  BY <2>1, <2>2 DEF SameRing
  <2>5. ASSUME NEW k \in Kinds
        PROVE  /\ Count(pipes'[p], k) \in Int
               /\ Cardinality(Refs(fds', k, p)) <= Count(pipes'[p], k)
    <3>1. Cardinality(Refs(fds', k, p))
            = Cardinality(Refs(fds, k, p)) + Part(e, k, p, 1) - Part(o, k, p, 1)
      <4>1. Replaces(fds, fds', new, e)  BY <1>1, <1>2 DEF Replaces
      <4>2. QED  BY <1>1, <4>1, RefsAfterSet
    <3>2. Cardinality(Refs(fds, k, p)) \in Nat  BY RefsFinite
    <3>3. Cardinality(Refs(fds, k, p)) <= Count(pipes[p], k)  BY DEF IInv, Cover
    <3>4. Count(pipes[p], k) \in Int  BY <1>1 DEF Count, PipeRecords
    <3> HIDE DEF e, o
    <3>5. QED  BY <2>1, <2>2, <3>1, <3>2, <3>3, <3>4 DEF Part
  <2>6. QED  BY <2>1, <2>2, <2>3, <2>4, <2>5
<1>6. pipes' = [p \in Pipes |-> pipes'[p]]  BY <1>2 DEF Counted
<1>7. next_fd' \in StdFds .. MaxFd + 1  BY <1>2 DEF IInv, TypeOK
<1>8. QED  BY <1>2, <1>3, <1>5, <1>6, <1>7, Recounted

\* close.
LEMMA CloseKeeps ==
  ASSUME IInv, NEW f \in Fds, sys_close(f)
  PROVE  IInv'
<1> DEFINE o == fds[f]
<1>1. /\ fds \in [Fds -> Entries] /\ o \in Entries /\ NoEntry \in Entries
      /\ pipes \in [Pipes -> PipeRecords]
      /\ o.pipe <= made /\ NoEntry.pipe <= made /\ made \in Nat
    BY DEF IInv, TypeOK, Named, NoEntry, Entry, Entries
<1>2. /\ fds' = [fds EXCEPT ![f] = NoEntry] /\ pipes' = Counted(pipes, o, -1)
      /\ next_fd' = next_fd /\ made' = made
    BY DEF sys_close
<1>3. fds' \in [Fds -> Entries] /\ \A g \in Fds : fds'[g].pipe <= made
    BY <1>1, <1>2 DEF IInv, Named
<1>4. ASSUME NEW p \in Pipes
      PROVE  /\ SameRing(pipes[p], pipes'[p])
             /\ pipes'[p].readers \in Nat /\ pipes'[p].writers \in Nat => pipes'[p] \in PipeRecords
             /\ p > made => pipes'[p] = pipes[p]
             /\ \A k \in Kinds : /\ Count(pipes'[p], k) \in Int
                                 /\ Cardinality(Refs(fds', k, p)) <= Count(pipes'[p], k)
  <2>1. /\ SameRing(pipes[p], pipes'[p])
        /\ pipes'[p].readers \in Nat /\ pipes'[p].writers \in Nat => pipes'[p] \in PipeRecords
        /\ \A k \in Kinds : Count(pipes'[p], k) = Count(pipes[p], k) + Part(o, k, p, -1)
        /\ p # o.pipe => pipes'[p] = pipes[p]
    <3> HIDE DEF o
    <3>1. -1 \in Int  OBVIOUS
    <3>2. QED  BY <1>1, <1>2, <3>1, CountedChanges
  <2>2. p > made => p # o.pipe
    BY <1>1 DEF Pipes, Entries
  <2>3. ASSUME NEW k \in Kinds
        PROVE  /\ Count(pipes'[p], k) \in Int
               /\ Cardinality(Refs(fds', k, p)) <= Count(pipes'[p], k)
    <3>1. Cardinality(Refs(fds', k, p))
            = Cardinality(Refs(fds, k, p)) + Part(NoEntry, k, p, 1) - Part(o, k, p, 1)
      <4>1. Replaces(fds, fds', f, NoEntry)  BY <1>1, <1>2 DEF Replaces
      <4>2. QED  BY <1>1, <4>1, RefsAfterSet
    <3>2. Cardinality(Refs(fds, k, p)) \in Nat  BY RefsFinite
    <3>3. Cardinality(Refs(fds, k, p)) <= Count(pipes[p], k)  BY DEF IInv, Cover
    <3>4. Count(pipes[p], k) \in Int  BY <1>1 DEF Count, PipeRecords
    <3>5. Part(NoEntry, k, p, 1) = 0  BY DEF Part, NoEntry, Entry, Kinds
    <3> HIDE DEF o
    <3>6. QED  BY <2>1, <3>1, <3>2, <3>3, <3>4, <3>5 DEF Part
  <2>4. QED  BY <2>1, <2>2, <2>3
<1>5. pipes' = [p \in Pipes |-> pipes'[p]]  BY <1>2 DEF Counted
<1>6. next_fd' \in StdFds .. MaxFd + 1  BY <1>2 DEF IInv, TypeOK
<1>7. QED  BY <1>2, <1>3, <1>4, <1>5, <1>6, Recounted

\* open and its like: a descriptor of another kind, perhaps in the place of
\* one that is still in use.
LEMMA OpenKeeps ==
  ASSUME IInv, sys_open
  PROVE  IInv'
<1> DEFINE e == Entry("Other", 0)
<1>1. /\ fds \in [Fds -> Entries] /\ e \in Entries /\ pipes \in [Pipes -> PipeRecords]
      /\ made \in Nat /\ e.pipe <= made /\ next_fd \in Fds
    BY FdPipeAssumption DEF IInv, TypeOK, Entry, Entries, sys_open, Fds
<1>2. /\ fds' = [fds EXCEPT ![next_fd] = e] /\ pipes' = pipes
      /\ next_fd' = next_fd + 1 /\ made' = made
    BY DEF sys_open
<1>3. fds' \in [Fds -> Entries] /\ \A g \in Fds : fds'[g].pipe <= made
    BY <1>1, <1>2 DEF IInv, Named
<1>4. ASSUME NEW p \in Pipes
      PROVE  /\ SameRing(pipes[p], pipes'[p]) /\ pipes'[p] \in PipeRecords
             /\ \A k \in Kinds : /\ Count(pipes'[p], k) \in Int
                                 /\ Cardinality(Refs(fds', k, p)) <= Count(pipes'[p], k)
  <2>1. SameRing(pipes[p], pipes'[p]) /\ pipes'[p] \in PipeRecords
    BY <1>1, <1>2 DEF SameRing
  <2>2. ASSUME NEW k \in Kinds
        PROVE  /\ Count(pipes'[p], k) \in Int
               /\ Cardinality(Refs(fds', k, p)) <= Count(pipes'[p], k)
    <3>1. Cardinality(Refs(fds', k, p))
            = Cardinality(Refs(fds, k, p)) + Part(e, k, p, 1) - Part(fds[next_fd], k, p, 1)
      <4>1. Replaces(fds, fds', next_fd, e)  BY <1>1, <1>2 DEF Replaces
      <4>2. QED  BY <1>1, <4>1, RefsAfterSet
    <3>2. Cardinality(Refs(fds, k, p)) \in Nat  BY RefsFinite
    <3>3. Cardinality(Refs(fds, k, p)) <= Count(pipes[p], k)  BY DEF IInv, Cover
    <3>4. Count(pipes'[p], k) \in Int /\ pipes'[p] = pipes[p]
      BY <1>1, <1>2 DEF Count, PipeRecords
    <3>5. Part(e, k, p, 1) = 0  BY DEF Part, Entry, Kinds
    <3> HIDE DEF e
    <3>6. QED  BY <3>1, <3>2, <3>3, <3>4, <3>5 DEF Part
  <2>3. QED  BY <2>1, <2>2
<1>5. pipes' = [p \in Pipes |-> pipes'[p]]  BY <1>1, <1>2
<1>6. next_fd' \in StdFds .. MaxFd + 1
  BY <1>2, FdPipeAssumption DEF IInv, TypeOK, sys_open
<1>7. QED  BY <1>2, <1>3, <1>4, <1>5, <1>6, Recounted

\* pipe: a new pipe has one descriptor on each side, and a count of one.
LEMMA PipeKeeps ==
  ASSUME IInv, sys_pipe
  PROVE  IInv'
<1> DEFINE n == made + 1
           r == Entry("PipeRead", n)
           w == Entry("PipeWrite", n)
           G == [fds EXCEPT ![next_fd] = r]
<1>1. /\ fds \in [Fds -> Entries] /\ pipes \in [Pipes -> PipeRecords]
      /\ made \in Nat /\ n \in Pipes /\ next_fd \in Fds /\ next_fd + 1 \in Fds
      /\ next_fd # next_fd + 1
    BY FdPipeAssumption DEF IInv, TypeOK, sys_pipe, Fds, Pipes
<1>2. /\ r \in Entries /\ w \in Entries  BY <1>1 DEF Entry, Entries
<1>3. /\ fds' = [G EXCEPT ![next_fd + 1] = w] /\ pipes' = pipes
      /\ next_fd' = next_fd + 2 /\ made' = n
    BY DEF sys_pipe
<1>4. G \in [Fds -> Entries] /\ fds' \in [Fds -> Entries]  BY <1>1, <1>2, <1>3
<1>5. TypeOK'
  BY <1>1, <1>3, <1>4, FdPipeAssumption DEF IInv, TypeOK, sys_pipe, Pipes
<1>6. Named'
  <2>1. r.pipe = n /\ w.pipe = n  BY DEF Entry
  <2>2. ASSUME NEW f \in Fds  PROVE fds'[f].pipe <= n
    <3>1. fds[f].pipe <= made /\ fds[f].pipe \in Int
      BY <1>1 DEF IInv, Named, Entries, Pipes
    <3>2. fds'[f] \in {fds[f], r, w}  BY <1>1, <1>3, <1>4
    <3>3. QED  BY <1>1, <2>1, <3>1, <3>2
  <2>3. QED  BY <1>3, <2>2 DEF Named
<1>7. Fresh' /\ \A p \in Pipes : Ring(pipes[p])'
  BY <1>1, <1>3 DEF IInv, Fresh, Pipes
<1>8. ASSUME NEW p \in Pipes, NEW k \in Kinds
      PROVE  Cardinality(Refs(fds', k, p)) <= Count(pipes[p], k)
  <2> DEFINE c == Cardinality(Refs(fds, k, p))
             m == Cardinality(Refs(G, k, p))
             z == Cardinality(Refs(fds', k, p))
  <2>1. m = c + Part(r, k, p, 1) - Part(fds[next_fd], k, p, 1)
    <3>1. Replaces(fds, G, next_fd, r)  BY <1>1 DEF Replaces
    <3> HIDE DEF G, r
    <3>2. QED  BY <1>1, <1>2, <3>1, RefsAfterSet
  <2>2. z = m + Part(w, k, p, 1) - Part(G[next_fd + 1], k, p, 1)
    <3> HIDE DEF G, w
    <3>1. Replaces(G, fds', next_fd + 1, w)  BY <1>1, <1>3, <1>4 DEF Replaces
    <3>2. QED  BY <1>1, <1>2, <1>4, <3>1, RefsAfterSet
  <2>3. c \in Nat /\ m \in Nat /\ z \in Nat  BY RefsFinite
  <2>4. c <= Count(pipes[p], k) /\ Count(pipes[p], k) \in Nat
    BY <1>1 DEF IInv, Cover, Count, PipeRecords
  <2>5. CASE p # n
    <3>1. Part(r, k, p, 1) = 0 /\ Part(w, k, p, 1) = 0  BY <2>5 DEF Part, Entry
    <3> HIDE DEF c, m, z, r, w, G
    <3>2. z <= c  BY <2>1, <2>2, <2>3, <3>1 DEF Part
    <3>3. QED  BY <2>3, <2>4, <3>2 DEF z
  <2>6. CASE p = n
    <3>1. Refs(fds, k, p) = {}
      BY <1>1, <2>6 DEF IInv, Named, Refs, Entry
    <3>2. c = 0  BY <3>1, FS_EmptySet
    <3>3. Count(pipes[p], k) = 1
      BY <1>1, <2>6 DEF IInv, Fresh, NewPipe, Count
    <3>4. Part(r, k, p, 1) + Part(w, k, p, 1) = 1
      BY <2>6 DEF Part, Entry, Kinds
    <3>5. Part(r, k, p, 1) \in Nat /\ Part(w, k, p, 1) \in Nat  BY DEF Part
    <3> HIDE DEF c, m, z, r, w, G
    <3>6. z <= 1  BY <2>1, <2>2, <2>3, <3>2, <3>4, <3>5 DEF Part
    <3>7. QED  BY <3>3, <3>6 DEF z
  <2>7. QED  BY <2>5, <2>6
<1>9. Cover'  BY <1>3, <1>8 DEF Cover
<1>10. QED  BY <1>5, <1>6, <1>7, <1>9 DEF IInv

-----------------------------------------------------------------------------
(* Rings.                                                                  *)

\* Division by the size, for the numbers that occur.
LEMMA ModSize ==
  ASSUME NEW x \in Int
  PROVE  /\ x \in 0 .. Size - 1 => x % Size = x
         /\ x \in Size .. 2 * Size - 1 => x % Size = x - Size
         /\ x \in -Size .. -1 => x % Size = x + Size
         /\ x % Size \in 0 .. Size - 1
<1>1. Size \in Nat \ {0}  BY FdPipeAssumption DEF Size
<1>2. x \in 0 .. Size - 1 => x % Size = x  BY <1>1
<1>3. x \in Size .. 2 * Size - 1 => x % Size = x - Size  BY <1>1
<1>4. x \in -Size .. -1 => x % Size = x + Size  BY <1>1
<1>5. x % Size \in 0 .. Size - 1  BY <1>1
<1>6. QED  BY <1>2, <1>3, <1>4, <1>5

\* A position of the ring.
LEMMA Position ==
  ASSUME NEW r \in 0 .. Size - 1, NEW j \in 0 .. Size
  PROVE  /\ (r + j) % Size = IF r + j < Size THEN r + j ELSE r + j - Size
         /\ (r + j) % Size \in 0 .. Size - 1
<1> DEFINE x == r + j
<1>1. Size \in Nat \ {0}  BY FdPipeAssumption DEF Size
<1>2. x \in 0 .. 2 * Size - 1 /\ x \in Int  BY <1>1
<1> HIDE DEF x
<1>3. x \in 0 .. Size - 1 => x % Size = x  BY <1>2, ModSize
<1>4. x \in Size .. 2 * Size - 1 => x % Size = x - Size  BY <1>2, ModSize
<1>5. x % Size = IF x < Size THEN x ELSE x - Size  BY <1>1, <1>2, <1>3, <1>4
<1>6. x % Size \in 0 .. Size - 1  BY <1>2, ModSize
<1>7. (r + j) % Size = IF r + j < Size THEN r + j ELSE r + j - Size  BY <1>1, <1>5 DEF x
<1>8. (r + j) % Size \in 0 .. Size - 1  BY <1>6 DEF x
<1>9. QED  BY <1>7, <1>8

\* The distance of two positions of the ring, from the second on.
LEMMA Distance ==
  ASSUME NEW r \in 0 .. Size - 1, NEW j \in 0 .. Size - 1, NEW k \in 0 .. Size,
         NEW x, x = (r + j) % Size, NEW y, y = (r + k) % Size
  PROVE  (x - y) % Size = IF j >= k THEN j - k ELSE j - k + Size
<1> DEFINE d == x - y
<1>1. Size \in Nat \ {0}  BY FdPipeAssumption DEF Size
<1>2. x = IF r + j < Size THEN r + j ELSE r + j - Size  BY <1>1, Position
<1>3. y = IF r + k < Size THEN r + k ELSE r + k - Size  BY <1>1, Position
<1>4. d \in {j - k, j - k + Size, j - k - Size} /\ d \in -Size .. Size - 1
  <2>1. QED  BY <1>1, <1>2, <1>3
<1> HIDE DEF d
<1>5. d \in Int  BY <1>1, <1>4
<1>6. d \in 0 .. Size - 1 => d % Size = d  BY <1>5, ModSize
<1>7. d \in -Size .. -1 => d % Size = d + Size  BY <1>5, ModSize
<1>8. d % Size = IF j >= k THEN j - k ELSE j - k + Size
  BY <1>1, <1>4, <1>5, <1>6, <1>7
<1>9. QED  BY <1>8 DEF d

\* Two moves along the ring are one move.
LEMMA Shift ==
  ASSUME NEW r \in 0 .. Size - 1, NEW a \in Nat, NEW b \in Nat, a + b <= Size,
         NEW x, x = (r + a) % Size
  PROVE  (x + b) % Size = (r + (a + b)) % Size
<1>1. Size \in Nat \ {0}  BY FdPipeAssumption DEF Size
<1>2. a \in 0 .. Size /\ b \in 0 .. Size /\ a + b \in 0 .. Size  BY <1>1
<1>3. x = IF r + a < Size THEN r + a ELSE r + a - Size  BY <1>2, Position
<1>4. x \in 0 .. Size - 1  BY <1>2, Position
<1>5. (x + b) % Size = IF x + b < Size THEN x + b ELSE x + b - Size
  BY <1>2, <1>4, Position
<1> DEFINE c == a + b
<1>6. (r + c) % Size = IF r + c < Size THEN r + c ELSE r + c - Size
  <2> HIDE DEF c
  <2>1. c \in 0 .. Size  BY <1>2 DEF c
  <2>2. QED  BY <2>1, Position
<1> DEFINE lhs == (x + b) % Size
           rhs == (r + c) % Size
<1> HIDE DEF lhs, rhs
<1>7. lhs = IF x + b < Size THEN x + b ELSE x + b - Size  BY <1>5 DEF lhs
<1>8. rhs = IF r + c < Size THEN r + c ELSE r + c - Size  BY <1>6 DEF rhs
<1>9. lhs = rhs  BY <1>1, <1>2, <1>3, <1>4, <1>7, <1>8
<1>10. QED  BY <1>9 DEF lhs, rhs

Fits(b, w) == w <= Size - b.count /\ b.written + w <= MaxBytes

\* A write that fits keeps the ring.
LEMMA FilledKeeps ==
  ASSUME NEW b \in PipeRecords, Ring(b), NEW w \in Nat, Fits(b, w)
  PROVE  Filled(b, w) \in PipeRecords /\ Ring(Filled(b, w))
<1> DEFINE c == Filled(b, w)
           n == b.count
           rp == b.read_pos
           wp == b.write_pos
           wr == b.written
           len == Len(b.taken)
<1>1. Size \in Nat \ {0} /\ MaxBytes \in Nat  BY FdPipeAssumption DEF Size
<1>2. /\ n \in 0 .. Size /\ rp \in 0 .. Size - 1 /\ wp \in 0 .. Size - 1
      /\ wr \in 0 .. MaxBytes /\ b.taken \in Seq(0 .. MaxBytes)
      /\ b.readers \in Nat /\ b.writers \in Nat
      /\ b.data \in [0 .. Size - 1 -> 0 .. MaxBytes]
      /\ w <= Size - n /\ wr + w <= MaxBytes
      /\ len \in Nat
  BY DEF PipeRecords, Fits
<1>3. /\ wr = len + n /\ wp = (rp + n) % Size
      /\ b.taken = [i \in 1 .. len |-> i]
      /\ \A k \in 0 .. n - 1 : b.data[(rp + k) % Size] = len + 1 + k
  BY DEF Ring, RingOf
<1>4. /\ c.data = Stored(b, w) /\ c.write_pos = (wp + w) % Size
      /\ c.count = n + w /\ c.written = wr + w
      /\ c.read_pos = rp /\ c.taken = b.taken /\ c.readers = b.readers /\ c.writers = b.writers
      /\ c = [data |-> Stored(b, w), write_pos |-> (wp + w) % Size, count |-> n + w,
              written |-> wr + w, read_pos |-> rp, taken |-> b.taken,
              readers |-> b.readers, writers |-> b.writers]
  BY DEF Filled
<1> HIDE DEF c, n, rp, wp, wr, len
<1>5. Stored(b, w) \in [0 .. Size - 1 -> 0 .. MaxBytes]
  <2>1. ASSUME NEW i \in 0 .. Size - 1
        PROVE  Stored(b, w)[i] \in 0 .. MaxBytes
    <3> DEFINE k == (i - wp) % Size
    <3>1. k \in 0 .. Size - 1
      <4>1. i - wp \in Int  BY <1>1, <1>2
      <4>2. QED  BY <4>1, ModSize
    <3> DEFINE v == Stored(b, w)[i]
               u == b.data[i]
    <3>2. v = IF k < w THEN wr + 1 + k ELSE u  BY DEF Stored, wp, wr
    <3>3. u \in 0 .. MaxBytes  BY <1>2
    <3>4. wr \in Nat /\ wr + w <= MaxBytes  BY <1>2
    <3> HIDE DEF k, v, u
    <3>5. v \in 0 .. MaxBytes  BY <1>1, <3>1, <3>2, <3>3, <3>4
    <3>6. QED  BY <3>5 DEF v
  <2>2. QED  BY <2>1 DEF Stored
<1>6. (wp + w) % Size = (rp + (n + w)) % Size
  <2>1. n \in Nat /\ n + w <= Size /\ rp \in 0 .. Size - 1 /\ wp = (rp + n) % Size
    BY <1>1, <1>2, <1>3
  <2>2. QED  BY <2>1, Shift
<1>7. (wp + w) % Size \in 0 .. Size - 1
  <2>1. wp + w \in Int  BY <1>1, <1>2
  <2>2. QED  BY <2>1, ModSize
<1>8. c \in PipeRecords
  <2>1. n + w \in 0 .. Size /\ wr + w \in 0 .. MaxBytes  BY <1>1, <1>2
  <2>2. QED  BY <1>2, <1>4, <1>5, <1>7, <2>1 DEF PipeRecords
<1>9. ASSUME NEW j \in 0 .. (n + w) - 1
      PROVE  Stored(b, w)[(rp + j) % Size] = len + 1 + j
  <2> DEFINE i == (rp + j) % Size
             k == (i - wp) % Size
  <2>1. j \in 0 .. Size - 1  BY <1>1, <1>2
  <2>2. i \in 0 .. Size - 1  BY <1>1, <1>2, <2>1, Position
  <2>3. k = IF j >= n THEN j - n ELSE j - n + Size
    BY <1>2, <1>3, <2>1, Distance
  <2>4. Stored(b, w)[i] = IF k < w THEN wr + 1 + k ELSE b.data[i]
    BY <2>2 DEF Stored, wp, wr
  <2>5. j < n => b.data[i] = len + 1 + j
    <3>1. j < n => j \in 0 .. n - 1  BY <1>2, <2>1
    <3>2. QED  BY <1>3, <3>1
  <2> DEFINE v == Stored(b, w)[i]
             u == b.data[i]
  <2>6. /\ n \in 0 .. Size /\ w <= Size - n /\ len \in Nat /\ wr = len + n
    BY <1>2, <1>3
  <2> HIDE DEF i, k, v, u
  <2>7. v = IF k < w THEN wr + 1 + k ELSE u  BY <2>4 DEF v, u
  <2>8. j < n => u = len + 1 + j  BY <2>5 DEF u
  <2>9. v = len + 1 + j
    <3>1. CASE j < n
      <4>1. ~(k < w)  BY <1>1, <2>1, <2>3, <2>6, <3>1
      <4>2. QED  BY <2>7, <2>8, <3>1, <4>1
    <3>2. CASE ~(j < n)
      <4>1. k < w /\ k = j - n  BY <1>1, <2>1, <2>3, <2>6, <3>2
      <4>2. v = wr + 1 + (j - n)  BY <2>7, <4>1
      <4>3. QED  BY <2>1, <2>6, <4>2
    <3>3. QED  BY <3>1, <3>2
  <2>10. QED  BY <2>9 DEF v, i
<1>10. Ring(c)
  <2>1. wr + w = len + (n + w)  BY <1>1, <1>2, <1>3
  <2>2. RingOf(Stored(b, w), rp, (wp + w) % Size, n + w, wr + w, b.taken)
    <3>1. \A k \in 0 .. (n + w) - 1 : Stored(b, w)[(rp + k) % Size] = len + 1 + k  BY <1>9
    <3>2. QED  BY <1>3, <1>6, <2>1, <3>1, Zenon DEF RingOf, len
  <2>3. QED  BY <1>4, <2>2 DEF Ring
<1>11. QED  BY <1>8, <1>10 DEF c

Has(b, r) == r <= b.count

\* A read of what there is keeps the ring, and hands out the next bytes.
LEMMA DrainedKeeps ==
  ASSUME NEW b \in PipeRecords, Ring(b), NEW r \in Nat, Has(b, r)
  PROVE  /\ Drained(b, r) \in PipeRecords /\ Ring(Drained(b, r))
         /\ Drained(b, r).taken = [i \in 1 .. Len(b.taken) + r |-> i]
<1> DEFINE c == Drained(b, r)
           n == b.count
           rp == b.read_pos
           nx == (rp + r) % Size
           tk == b.taken
           len == Len(tk)
           new == tk \o Front(b, r)
<1>1. Size \in Nat \ {0} /\ MaxBytes \in Nat  BY FdPipeAssumption DEF Size
<1>2. /\ n \in 0 .. Size /\ rp \in 0 .. Size - 1 /\ b.write_pos \in 0 .. Size - 1
      /\ b.written \in 0 .. MaxBytes /\ tk \in Seq(0 .. MaxBytes)
      /\ b.readers \in Nat /\ b.writers \in Nat
      /\ b.data \in [0 .. Size - 1 -> 0 .. MaxBytes]
      /\ r <= n /\ len \in Nat
  BY DEF PipeRecords, Has
<1>3. /\ b.written = len + n /\ b.write_pos = (rp + n) % Size
      /\ tk = [i \in 1 .. len |-> i]
      /\ \A k \in 0 .. n - 1 : b.data[(rp + k) % Size] = len + 1 + k
  BY DEF Ring, RingOf
<1>4. /\ c.data = b.data /\ c.write_pos = b.write_pos /\ c.count = n - r
      /\ c.written = b.written /\ c.read_pos = nx /\ c.taken = new
      /\ c = [read_pos |-> nx, count |-> n - r, taken |-> new,
              data |-> b.data, write_pos |-> b.write_pos, written |-> b.written,
              readers |-> b.readers, writers |-> b.writers]
  BY DEF Drained
<1> HIDE DEF c, n, rp
<1>5. Front(b, r) \in Seq(Int) /\ Len(Front(b, r)) = r
      /\ \A i \in 1 .. r : Front(b, r)[i] = len + i
  <2>1. ASSUME NEW i \in 1 .. r
        PROVE  Front(b, r)[i] = len + i
    <3>1. i - 1 \in 0 .. n - 1  BY <1>2
    <3>2. Front(b, r)[i] = b.data[(rp + (i - 1)) % Size]  BY DEF Front, rp
    <3>3. Front(b, r)[i] = len + 1 + (i - 1)  BY <1>3, <3>1, <3>2
    <3>4. QED  BY <1>2, <3>3
  <2>2. Front(b, r) = [i \in 1 .. r |-> Front(b, r)[i]]  BY DEF Front
  <2>3. \A i \in 1 .. r : Front(b, r)[i] \in Int  BY <1>2, <2>1
  <2>4. QED  BY <2>1, <2>2, <2>3
<1>6. new = [i \in 1 .. len + r |-> i]
  <2> DEFINE fr == Front(b, r)
  <2>1. tk \in Seq(Int)  BY <1>1, <1>2
  <2>2. /\ fr \in Seq(Int) /\ Len(fr) = r
        /\ \A i \in 1 .. r : fr[i] = len + i  BY <1>5
  <2> HIDE DEF fr, tk
  <2>3. /\ tk \o fr \in Seq(Int) /\ Len(tk \o fr) = len + r
        /\ \A i \in 1 .. len + r : (tk \o fr)[i] = IF i <= len THEN tk[i] ELSE fr[i - len]
    BY <2>1, <2>2, ConcatProperties
  <2>4. ASSUME NEW i \in 1 .. len + r  PROVE (tk \o fr)[i] = i
    <3>1. CASE i <= len
      <4>1. (tk \o fr)[i] = tk[i] /\ i \in 1 .. len  BY <1>2, <2>3, <3>1
      <4>2. QED  BY <1>3, <4>1
    <3>2. CASE ~(i <= len)
      <4>1. (tk \o fr)[i] = fr[i - len] /\ i - len \in 1 .. r
        BY <1>2, <2>3, <3>2
      <4>2. QED  BY <1>2, <2>2, <4>1
    <3>3. QED  BY <3>1, <3>2
  <2> DEFINE q == tk \o fr
  <2>5. q \in Seq(Int) /\ Len(q) = len + r /\ \A i \in 1 .. len + r : q[i] = i
    BY <2>3, <2>4
  <2> HIDE DEF q, len
  <2>6. q = [i \in 1 .. len + r |-> i]  BY <2>5
  <2>7. QED  BY <2>6 DEF q, fr
<1>7. Len(new) = len + r /\ new \in Seq(0 .. MaxBytes)
  <2>1. len + r \in Nat /\ len + r <= MaxBytes  BY <1>1, <1>2, <1>3
  <2> HIDE DEF new
  <2>2. QED  BY <1>1, <1>6, <2>1
<1>8. nx \in 0 .. Size - 1
  <2>1. rp + r \in Int  BY <1>1, <1>2
  <2>2. QED  BY <2>1, ModSize
<1> HIDE DEF nx, new, len, tk
<1>9. c \in PipeRecords
  <2>1. n - r \in 0 .. Size  BY <1>1, <1>2
  <2>2. QED  BY <1>2, <1>4, <1>7, <1>8, <2>1 DEF PipeRecords
<1>10. ASSUME NEW k \in Nat, k + r <= n
       PROVE  (nx + k) % Size = (rp + (r + k)) % Size
  <2>1. r + k <= Size /\ rp \in 0 .. Size - 1  BY <1>1, <1>2, <1>10
  <2>2. nx = (rp + r) % Size  BY DEF nx
  <2>3. QED  BY <2>1, <2>2, Shift
<1>11. Ring(c)
  <2>1. b.written = (len + r) + (n - r)  BY <1>1, <1>2, <1>3
  <2>2. b.write_pos = (nx + (n - r)) % Size
    <3>1. n - r \in Nat /\ (n - r) + r <= n /\ r + (n - r) = n  BY <1>1, <1>2
    <3>2. QED  BY <1>3, <1>10, <3>1
  <2>3. ASSUME NEW k \in 0 .. (n - r) - 1
        PROVE  b.data[(nx + k) % Size] = (len + r) + 1 + k
    <3>1. k \in Nat /\ k + r <= n /\ r + k \in 0 .. n - 1  BY <1>1, <1>2
    <3>2. b.data[(nx + k) % Size] = len + 1 + (r + k)  BY <1>3, <1>10, <3>1
    <3>3. QED  BY <1>2, <3>1, <3>2
  <2>4. RingOf(b.data, nx, b.write_pos, n - r, b.written, new)
    <3>1. \A k \in 0 .. (n - r) - 1 : b.data[(nx + k) % Size] = (len + r) + 1 + k
      BY <2>3
    <3>2. QED  BY <1>6, <1>7, <2>1, <2>2, <3>1, Zenon DEF RingOf
  <2>5. QED  BY <1>4, <2>4 DEF Ring
<1>12. QED  BY <1>4, <1>6, <1>9, <1>11 DEF c, len, tk

-----------------------------------------------------------------------------
(* The invariant.                                                          *)

\* A step inside one ring.
LEMMA RingStep ==
  ASSUME IInv, NEW p \in Pipes, p <= made, NEW c \in PipeRecords, Ring(c),
         c.readers = pipes[p].readers, c.writers = pipes[p].writers,
         pipes' = [pipes EXCEPT ![p] = c], UNCHANGED <<fds, next_fd, made>>
  PROVE  IInv'
<1>1. pipes \in [Pipes -> PipeRecords] /\ made \in Int  BY DEF IInv, TypeOK
<1>2. \A q \in Pipes : pipes'[q] = IF q = p THEN c ELSE pipes[q]  BY <1>1
<1>3. TypeOK'  BY <1>1 DEF IInv, TypeOK
<1>4. \A q \in Pipes, k \in Kinds : Count(pipes'[q], k) = Count(pipes[q], k)
  BY <1>2 DEF Count
<1>5. Cover'  BY <1>4 DEF IInv, Cover, Refs
<1>6. Named'  BY DEF IInv, Named
<1>7. Fresh'  BY <1>1, <1>2 DEF IInv, Fresh, Pipes
<1>8. \A q \in Pipes : Ring(pipes'[q])  BY <1>2 DEF IInv
<1>9. QED  BY <1>3, <1>5, <1>6, <1>7, <1>8 DEF IInv

\* A write fills the pipe of its descriptor as far as there is space.
LEMMA WriteStep ==
  ASSUME IInv, NEW f \in Fds, NEW n \in 1 .. MaxBytes, sys_write(f, n)
  PROVE  \E p \in Pipes, w \in Nat \ {0} :
           /\ fds[f] = Entry("PipeWrite", p) /\ p <= made
           /\ Fits(pipes[p], w)
           /\ pipes' = [pipes EXCEPT ![p] = Filled(pipes[p], w)]
           /\ UNCHANGED <<fds, next_fd, made>>
<1> DEFINE p == fds[f].pipe
           b == pipes[p]
           w == AtMost(n, Space(b))
<1>1. fds[f] \in Entries /\ fds[f].kind = "PipeWrite" /\ p <= made
  BY DEF IInv, TypeOK, Named, sys_write
<1>2. p \in Pipes /\ fds[f] = Entry("PipeWrite", p)  BY <1>1 DEF Entries, Entry
<1>3. b \in PipeRecords  BY <1>2 DEF IInv, TypeOK
<1>4. /\ Space(b) > 0 /\ b.written + n <= MaxBytes
      /\ pipes' = [pipes EXCEPT ![p] = Filled(b, w)] /\ UNCHANGED <<fds, next_fd, made>>
  BY DEF sys_write
<1>5. b.count \in 0 .. Size /\ b.written \in 0 .. MaxBytes /\ Size \in Nat /\ MaxBytes \in Nat
  BY <1>3, FdPipeAssumption DEF PipeRecords, Size
<1> DEFINE sp == Space(b)
           wr == b.written
           ct == b.count
<1>6. sp = Size - ct /\ sp > 0 /\ wr + n <= MaxBytes  BY <1>4 DEF Space
<1>7. w = IF n <= sp THEN n ELSE sp  BY DEF AtMost
<1>8. ct \in 0 .. Size /\ wr \in 0 .. MaxBytes  BY <1>5
<1> HIDE DEF w, sp, wr, ct
<1>9. w \in Nat \ {0} /\ w <= Size - ct /\ wr + w <= MaxBytes
  BY <1>5, <1>6, <1>7, <1>8
<1>10. Fits(b, w)  BY <1>9 DEF Fits, ct, wr
<1>11. QED  BY <1>1, <1>2, <1>4, <1>9, <1>10

\* A read takes as much as there is.
LEMMA ReadStep ==
  ASSUME IInv, NEW f \in Fds, NEW n \in 1 .. MaxBytes, sys_read(f, n)
  PROVE  \E p \in Pipes, r \in Nat \ {0} :
           /\ p <= made /\ Has(pipes[p], r)
           /\ pipes' = [pipes EXCEPT ![p] = Drained(pipes[p], r)]
           /\ UNCHANGED <<fds, next_fd, made>>
<1> DEFINE p == fds[f].pipe
           b == pipes[p]
           r == AtMost(n, b.count)
           ct == b.count
<1>1. fds[f] \in Entries /\ fds[f].kind = "PipeRead" /\ p <= made
  BY DEF IInv, TypeOK, Named, sys_read
<1>2. p \in Pipes  BY <1>1 DEF Entries
<1>3. b \in PipeRecords  BY <1>2 DEF IInv, TypeOK
<1>4. /\ ct > 0
      /\ pipes' = [pipes EXCEPT ![p] = Drained(b, r)] /\ UNCHANGED <<fds, next_fd, made>>
  BY DEF sys_read
<1>5. ct \in 0 .. Size /\ Size \in Nat /\ MaxBytes \in Nat
  BY <1>3, FdPipeAssumption DEF PipeRecords, Size
<1>6. r = IF n <= ct THEN n ELSE ct  BY DEF AtMost
<1> HIDE DEF r, ct
<1>7. r \in Nat \ {0} /\ r <= ct  BY <1>4, <1>5, <1>6
<1>8. Has(b, r)  BY <1>7 DEF Has, ct
<1>9. QED  BY <1>1, <1>2, <1>4, <1>7, <1>8

\* A new pipe is an empty ring.
LEMMA NewRing == NewPipe \in PipeRecords /\ Ring(NewPipe)
<1>1. Size \in Nat \ {0} /\ MaxBytes \in Nat  BY FdPipeAssumption DEF Size
<1>2. (0 + 0) % Size = 0  BY <1>1
<1>3. NewPipe \in PipeRecords  BY <1>1 DEF NewPipe, PipeRecords, Size
<1>4. RingOf(NewPipe.data, 0, 0, 0, 0, <<>>)  BY <1>1, <1>2 DEF RingOf
<1>5. QED  BY <1>3, <1>4 DEF Ring, NewPipe

\* The invariant holds of a new table.
LEMMA InitKeeps == Init => IInv
<1> SUFFICES ASSUME Init  PROVE IInv
  OBVIOUS
<1>1. TypeOK
  BY FdPipeAssumption, NewRing DEF Init, TypeOK, Entries, Entry, NoEntry
<1>2. Named /\ Fresh
  BY <1>1 DEF Init, Named, Fresh, Entry, NoEntry
<1>3. ASSUME NEW p \in Pipes, NEW k \in Kinds
      PROVE  Cardinality(Refs(fds, k, p)) <= Count(pipes[p], k)
  <2>1. Refs(fds, k, p) = {}  BY DEF Init, Refs, Entry, NoEntry, Kinds
  <2>2. Cardinality(Refs(fds, k, p)) = 0  BY <2>1, FS_EmptySet
  <2>3. Count(pipes[p], k) = 1  BY DEF Init, NewPipe, Count
  <2>4. QED  BY <2>2, <2>3
<1>4. QED  BY <1>1, <1>2, <1>3, NewRing DEF IInv, Cover, Init

\* Every system call keeps the invariant.
LEMMA NextKeeps == IInv /\ [Next]_vars => IInv'
<1> SUFFICES ASSUME IInv, [Next]_vars  PROVE IInv'
  OBVIOUS
<1>1. CASE sys_pipe  BY <1>1, PipeKeeps
<1>2. CASE sys_open  BY <1>2, OpenKeeps
<1>3. ASSUME NEW f \in Fds, sys_dup(f)  PROVE IInv'
  <2>1. /\ next_fd \in Fds /\ next_fd' \in StdFds .. MaxFd + 1 /\ made' = made
        /\ fds' = [fds EXCEPT ![next_fd] = fds[f]] /\ pipes' = Counted(pipes, fds[f], 1)
    BY <1>3, FdPipeAssumption DEF sys_dup, IInv, TypeOK, Fds
  <2>2. QED  BY <2>1, DupKeeps
<1>4. ASSUME NEW f \in Fds, sys_close(f)  PROVE IInv'
  BY <1>4, CloseKeeps
<1>5. ASSUME NEW f \in Fds, NEW g \in Fds, sys_dup2(f, g)  PROVE IInv'
  BY <1>5, Dup2Keeps
<1>6. ASSUME NEW f \in Fds, NEW g \in Fds, F_DUPFD(f, g)  PROVE IInv'
  <2>1. PICK new \in g .. MaxFd : fds' = [fds EXCEPT ![new] = fds[f]]
    BY <1>6 DEF F_DUPFD
  <2>2. /\ new \in Fds /\ next_fd' \in StdFds .. MaxFd + 1 /\ made' = made
        /\ pipes' = Counted(pipes, fds[f], 1)
    BY <1>6, FdPipeAssumption DEF F_DUPFD, IInv, TypeOK, Fds
  <2>3. QED  BY <2>1, <2>2, DupKeeps
<1>7. ASSUME NEW f \in Fds, NEW n \in 1 .. MaxBytes, sys_read(f, n)  PROVE IInv'
  <2>1. PICK p \in Pipes, r \in Nat \ {0} :
           /\ p <= made /\ Has(pipes[p], r)
           /\ pipes' = [pipes EXCEPT ![p] = Drained(pipes[p], r)]
           /\ UNCHANGED <<fds, next_fd, made>>
    BY <1>7, ReadStep
  <2>2. pipes[p] \in PipeRecords /\ Ring(pipes[p])  BY DEF IInv, TypeOK
  <2>3. Drained(pipes[p], r) \in PipeRecords /\ Ring(Drained(pipes[p], r))
    BY <2>1, <2>2, DrainedKeeps
  <2>4. /\ Drained(pipes[p], r).readers = pipes[p].readers
        /\ Drained(pipes[p], r).writers = pipes[p].writers
    BY DEF Drained
  <2>5. QED  BY <2>1, <2>3, <2>4, RingStep
<1>8. ASSUME NEW f \in Fds, NEW n \in 1 .. MaxBytes, sys_write(f, n)  PROVE IInv'
  <2>1. PICK p \in Pipes, w \in Nat \ {0} :
           /\ p <= made /\ Fits(pipes[p], w)
           /\ pipes' = [pipes EXCEPT ![p] = Filled(pipes[p], w)]
           /\ UNCHANGED <<fds, next_fd, made>>
    BY <1>8, WriteStep
  <2>2. pipes[p] \in PipeRecords /\ Ring(pipes[p])  BY DEF IInv, TypeOK
  <2>3. Filled(pipes[p], w) \in PipeRecords /\ Ring(Filled(pipes[p], w))
    BY <2>1, <2>2, FilledKeeps
  <2>4. /\ Filled(pipes[p], w).readers = pipes[p].readers
        /\ Filled(pipes[p], w).writers = pipes[p].writers
    BY DEF Filled
  <2>5. QED  BY <2>1, <2>3, <2>4, RingStep
<1>9. CASE UNCHANGED vars
  BY <1>9 DEF vars, IInv, TypeOK, Cover, Named, Fresh, Refs
<1>10. QED  BY <1>1, <1>2, <1>3, <1>4, <1>5, <1>6, <1>7, <1>8, <1>9 DEF Next

\* For tables and pipes of every size: the invariant, in every state that
\* system calls can reach.
THEOREM PipeInvariant == Spec => []IInv
<1>1. QED  BY InitKeeps, NextKeeps, PTL DEF Spec

\* Rings never hold more than their size, and no count ever wraps below zero.
THEOREM PipeTypes == Spec => []TypeOK
<1>1. IInv => TypeOK  BY DEF IInv
<1>2. QED  BY <1>1, PipeInvariant, PTL

\* Every count covers the descriptors of its side.
THEOREM PipeCounts == Spec => []CountsCover
<1>1. IInv => CountsCover
  <2> SUFFICES ASSUME IInv, NEW p \in 1 .. made
               PROVE  /\ Cardinality(ReadFds(p)) <= pipes[p].readers
                      /\ Cardinality(WriteFds(p)) <= pipes[p].writers
    BY DEF CountsCover
  <2>1. p \in Pipes  BY FdPipeAssumption DEF IInv, TypeOK, Pipes
  <2>2. ReadFds(p) = Refs(fds, "PipeRead", p) /\ WriteFds(p) = Refs(fds, "PipeWrite", p)
    BY DEF ReadFds, WriteFds, Refs
  <2>3. \A k \in Kinds : Cardinality(Refs(fds, k, p)) <= Count(pipes[p], k)
    BY <2>1 DEF IInv, Cover
  <2>4. Count(pipes[p], "PipeRead") = pipes[p].readers
        /\ Count(pipes[p], "PipeWrite") = pipes[p].writers
    BY DEF Count
  <2>5. QED  BY <2>2, <2>3, <2>4 DEF Kinds
<1>2. QED  BY <1>1, PipeInvariant, PTL

-----------------------------------------------------------------------------
(* What a step does to one pipe.                                           *)

\* dup, dup2, F_DUPFD and close leave the rings alone, and add no writer to a
\* pipe that has no descriptor for writing.
Quiet(p) ==
  /\ SameRing(pipes[p], pipes'[p])
  /\ (\A f \in Fds : fds[f] # Entry("PipeWrite", p)) => pipes'[p].writers = pipes[p].writers

\* One change of a count is quiet.
LEMMA CountedQuiet ==
  ASSUME NEW P \in [Pipes -> PipeRecords], NEW e \in Entries, NEW d \in Int, NEW p \in Pipes,
         NEW Q, Q = Counted(P, e, d)
  PROVE  /\ SameRing(P[p], Q[p])
         /\ e # Entry("PipeWrite", p) => Q[p].writers = P[p].writers
<1>1. SameRing(P[p], Q[p])
      /\ \A k \in Kinds : Count(Q[p], k) = Count(P[p], k) + Part(e, k, p, d)
  BY CountedChanges
<1>2. Count(Q[p], "PipeWrite") = Q[p].writers /\ Count(P[p], "PipeWrite") = P[p].writers
  BY DEF Count
<1>3. P[p].writers \in Nat  BY DEF PipeRecords
<1>4. e # Entry("PipeWrite", p) => Part(e, "PipeWrite", p, d) = 0  BY DEF Part
<1>5. Q[p].writers = P[p].writers + Part(e, "PipeWrite", p, d)  BY <1>1, <1>2 DEF Kinds
<1>6. QED  BY <1>1, <1>3, <1>4, <1>5

\* Every step is quiet for every pipe, or it is one write, or one read.
LEMMA StepCases ==
  ASSUME IInv, [Next]_vars
  PROVE  \/ \A p \in Pipes : Quiet(p)
         \/ \E p \in Pipes, w \in Nat \ {0}, f \in Fds :
              /\ fds[f] = Entry("PipeWrite", p) /\ Fits(pipes[p], w)
              /\ pipes' = [pipes EXCEPT ![p] = Filled(pipes[p], w)]
         \/ \E p \in Pipes, r \in Nat \ {0} :
              /\ Has(pipes[p], r)
              /\ pipes' = [pipes EXCEPT ![p] = Drained(pipes[p], r)]
<1>1. /\ pipes \in [Pipes -> PipeRecords] /\ fds \in [Fds -> Entries]  BY DEF IInv, TypeOK
<1>2. CASE pipes' = pipes  BY <1>2 DEF Quiet, SameRing
<1>3. ASSUME NEW f \in Fds, NEW d \in Int, pipes' = Counted(pipes, fds[f], d)
      PROVE  \A p \in Pipes : Quiet(p)
  <2>1. fds[f] \in Entries  BY <1>1
  <2>2. ASSUME NEW p \in Pipes
        PROVE  /\ SameRing(pipes[p], pipes'[p])
               /\ fds[f] # Entry("PipeWrite", p) => pipes'[p].writers = pipes[p].writers
    BY <1>1, <1>3, <2>1, CountedQuiet
  <2>3. QED  BY <2>2 DEF Quiet
<1>4. ASSUME NEW f \in Fds, NEW g \in Fds, sys_dup2(f, g)
      PROVE  \A p \in Pipes : Quiet(p)
  <2> DEFINE Q == Counted(pipes, fds[f], 1)
  <2>1. fds[f] \in Entries /\ fds[g] \in Entries /\ 1 \in Int /\ -1 \in Int  BY <1>1
  <2>2. Q \in [Pipes -> PipeRecords]  BY <1>1, <2>1, CountedMore
  <2>3. pipes' = Counted(Q, fds[g], -1)  BY <1>4 DEF sys_dup2
  <2>4. ASSUME NEW p \in Pipes
        PROVE  /\ SameRing(pipes[p], Q[p])
               /\ fds[f] # Entry("PipeWrite", p) => Q[p].writers = pipes[p].writers
    BY <1>1, <2>1, CountedQuiet
  <2> HIDE DEF Q
  <2>5. ASSUME NEW p \in Pipes
        PROVE  /\ SameRing(Q[p], pipes'[p])
               /\ fds[g] # Entry("PipeWrite", p) => pipes'[p].writers = Q[p].writers
    BY <2>1, <2>2, <2>3, CountedQuiet
  <2>6. QED  BY <2>4, <2>5 DEF Quiet, SameRing
<1>5. CASE \E f \in Fds : sys_dup(f) \/ sys_close(f)
  BY <1>3, <1>5 DEF sys_dup, sys_close
<1>6. CASE \E f, g \in Fds : sys_dup2(f, g) \/ F_DUPFD(f, g)
  BY <1>3, <1>4, <1>6 DEF F_DUPFD
<1>7. CASE \E f \in Fds, n \in 1 .. MaxBytes : sys_read(f, n) \/ sys_write(f, n)
  BY <1>7, ReadStep, WriteStep
<1>8. QED  BY <1>2, <1>5, <1>6, <1>7 DEF Next, vars, sys_pipe, sys_open

\* For every pipe: once it has no writer it never has one again, and nothing
\* more is written to it.
THEOREM PipeEof == Spec => EofIsFinal
<1>1. ASSUME IInv, [Next]_vars, NEW p \in 1 .. made, pipes[p].writers = 0
      PROVE  pipes'[p].writers = 0 /\ pipes'[p].written = pipes[p].written
  <2>1. /\ p \in Pipes /\ pipes \in [Pipes -> PipeRecords]
    BY <1>1, FdPipeAssumption DEF IInv, TypeOK, Pipes
  <2>2. ASSUME NEW f \in Fds  PROVE fds[f] # Entry("PipeWrite", p)
    <3>1. SUFFICES ASSUME fds[f] = Entry("PipeWrite", p)  PROVE FALSE
      OBVIOUS
    <3>2. Count(pipes[p], "PipeWrite") >= 1
      BY <1>1, <2>1, <3>1, Referred DEF IInv, Kinds
    <3>3. QED  BY <1>1, <3>2 DEF Count
  <2>3. CASE Quiet(p)  BY <1>1, <2>2, <2>3 DEF Quiet, SameRing
  <2>4. ASSUME NEW q \in Pipes, NEW w \in Nat \ {0}, NEW f \in Fds,
               fds[f] = Entry("PipeWrite", q), pipes' = [pipes EXCEPT ![q] = Filled(pipes[q], w)]
        PROVE  pipes'[p] = pipes[p]
    BY <2>1, <2>2, <2>4
  <2>5. ASSUME NEW q \in Pipes, NEW r \in Nat \ {0},
               pipes' = [pipes EXCEPT ![q] = Drained(pipes[q], r)]
        PROVE  pipes'[p].writers = pipes[p].writers /\ pipes'[p].written = pipes[p].written
    <3>1. pipes'[p] = IF p = q THEN Drained(pipes[p], r) ELSE pipes[p]  BY <2>1, <2>5
    <3>2. QED  BY <3>1 DEF Drained
  <2>6. QED  BY <1>1, <2>1, <2>3, <2>4, <2>5, StepCases
<1>2. IInv /\ [Next]_vars
        => [\A p \in 1 .. made : pipes[p].writers = 0
              => pipes'[p].writers = 0 /\ pipes'[p].written = pipes[p].written]_vars
  BY <1>1
<1>3. QED  BY <1>2, PipeInvariant, PTL DEF Spec, EofIsFinal

\* Pipes of any size implement byte streams: what is read from a pipe is what
\* was written to it, in order and once, and never more than the buffer's size
\* is written and not read.
THEOREM PipeStreams == Spec => PipesAreStreams
<1> DEFINE sent == [p \in Pipes |-> pipes[p].written]
           got == [p \in Pipes |-> pipes[p].taken]
<1>1. Init => Stream!Init  BY DEF Init, NewPipe, Stream!Init
<1>2. ASSUME IInv, [Next]_vars  PROVE [Stream!Next]_<<sent, got>>
  <2>1. /\ pipes \in [Pipes -> PipeRecords] /\ Size \in Nat \ {0}
        /\ \A p \in Pipes : Ring(pipes[p])
    BY <1>2, FdPipeAssumption DEF IInv, TypeOK, Size
  <2>2. CASE \A p \in Pipes : Quiet(p)
    <3>1. \A p \in Pipes : pipes'[p].written = pipes[p].written /\ pipes'[p].taken = pipes[p].taken
      BY <2>2 DEF Quiet, SameRing
    <3>2. QED  BY <3>1
  <2>3. ASSUME NEW p \in Pipes, NEW w \in Nat \ {0}, Fits(pipes[p], w),
               pipes' = [pipes EXCEPT ![p] = Filled(pipes[p], w)]
        PROVE  Stream!Write(p)
    <3> DEFINE b == pipes[p]
               wr == b.written
               len == Len(b.taken)
               ct == b.count
    <3>1. b \in PipeRecords /\ Ring(b)  BY <2>1
    <3>2. /\ wr \in Nat /\ len \in Nat /\ ct \in Nat /\ wr = len + ct /\ w <= Size - ct
      BY <2>3, <3>1 DEF PipeRecords, Ring, RingOf, Fits
    <3> HIDE DEF wr, len, ct
    <3>3. wr + w \in wr + 1 .. len + Size  BY <2>1, <3>2
    <3>4. \A q \in Pipes : /\ pipes'[q].taken = pipes[q].taken
                           /\ pipes'[q].written = IF q = p THEN wr + w ELSE pipes[q].written
      <4>1. \A q \in Pipes : pipes'[q] = IF q = p THEN Filled(pipes[p], w) ELSE pipes[q]
        BY <2>1, <2>3
      <4>2. QED  BY <4>1 DEF Filled, wr
    <3>5. got' = got  BY <3>4
    <3>6. sent' = [sent EXCEPT ![p] = wr + w]  BY <3>4
    <3>7. sent[p] = wr /\ Len(got[p]) = len  BY DEF wr, len
    <3>8. QED  BY <3>3, <3>5, <3>6, <3>7 DEF Stream!Write, Size
  <2>4. ASSUME NEW p \in Pipes, NEW r \in Nat \ {0}, Has(pipes[p], r),
               pipes' = [pipes EXCEPT ![p] = Drained(pipes[p], r)]
        PROVE  Stream!Read(p)
    <3> DEFINE b == pipes[p]
               wr == b.written
               len == Len(b.taken)
               ct == b.count
    <3>1. b \in PipeRecords /\ Ring(b)  BY <2>1
    <3>2. /\ wr \in Nat /\ len \in Nat /\ ct \in Nat /\ wr = len + ct /\ r <= ct
      BY <2>4, <3>1 DEF PipeRecords, Ring, RingOf, Has
    <3>3. Drained(b, r).taken = [i \in 1 .. len + r |-> i]
      BY <2>4, <3>1, DrainedKeeps
    <3>4. \A q \in Pipes : /\ pipes'[q].written = pipes[q].written
                           /\ pipes'[q].taken = IF q = p THEN [i \in 1 .. len + r |-> i]
                                                ELSE pipes[q].taken
      <4>1. \A q \in Pipes : pipes'[q] = IF q = p THEN Drained(pipes[p], r) ELSE pipes[q]
        BY <2>1, <2>4
      <4>2. \A q \in Pipes : pipes'[q].written = pipes[q].written  BY <4>1 DEF Drained
      <4>3. QED  BY <3>3, <4>1, <4>2
    <3> HIDE DEF wr, len, ct
    <3>5. len + r \in len + 1 .. wr  BY <3>2
    <3>6. sent' = sent  BY <3>4
    <3>7. got' = [got EXCEPT ![p] = [i \in 1 .. len + r |-> i]]  BY <3>4
    <3>8. sent[p] = wr /\ Len(got[p]) = len  BY DEF wr, len
    <3>9. QED  BY <3>5, <3>6, <3>7, <3>8 DEF Stream!Read
  <2>5. QED  BY <1>2, <2>2, <2>3, <2>4, StepCases DEF Stream!Next
<1>3. QED  BY <1>1, <1>2, PipeInvariant, PTL DEF Spec, PipesAreStreams, Stream!Spec

=============================================================================
