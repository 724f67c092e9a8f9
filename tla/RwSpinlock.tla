----------------------------- MODULE RwSpinlock -----------------------------
(***************************************************************************)
(* The read-write spinlock of kernel/src/sync.rs.  One atomic access to    *)
(* the state word is one step; the word is the pair of its two bit fields. *)
(***************************************************************************)
EXTENDS Integers, FiniteSets

CONSTANTS Threads,      \* contexts that take guards, one guard each
          ReaderMask    \* largest reader count the word can hold (2^31 - 1)

ASSUME RwAssumption ==
  /\ IsFiniteSet(Threads)
  /\ ReaderMask \in Nat
  /\ Cardinality(Threads) <= ReaderMask

VARIABLES state,        \* the atomic word: [writer, readers]
          pc,           \* where each thread is
          seen          \* the word as the thread last loaded it

vars == <<state, pc, seen>>

Zero == [writer |-> FALSE, readers |-> 0]
Words == [writer : BOOLEAN, readers : 0 .. ReaderMask]

PCs == {"idle", "rload", "rcas", "tcas", "read", "wload", "wcas", "drain", "write"}

Readers == {t \in Threads : pc[t] = "read"}
Writers == {t \in Threads : pc[t] \in {"drain", "write"}}

\* state + 1: a full reader field would carry into the writer bit.
Incremented(w) ==
  IF w.readers = ReaderMask THEN [writer |-> TRUE, readers |-> 0]
                            ELSE [w EXCEPT !.readers = @ + 1]

Goto(t, label) == pc' = [pc EXCEPT ![t] = label]

Init ==
  /\ state = Zero
  /\ pc = [t \in Threads |-> "idle"]
  /\ seen = [t \in Threads |-> Zero]

Read(t) == pc[t] = "idle" /\ Goto(t, "rload") /\ UNCHANGED <<state, seen>>

\* read() and write(): a load that finds the writer bit clear.
LoadClear(t, from, to) ==
  /\ pc[t] = from
  /\ ~state.writer
  /\ seen' = [seen EXCEPT ![t] = state]
  /\ Goto(t, to)
  /\ UNCHANGED state

ReadLoad(t) == LoadClear(t, "rload", "rcas")

\* Mutant: the compare_exchange of read() is a plain fetch_add.
ReadCas_Blind(t) ==
  /\ pc[t] \in {"rcas", "tcas"}
  /\ state' = Incremented(state)
  /\ seen' = [seen EXCEPT ![t] = Zero]
  /\ Goto(t, "read")

\* The compare_exchange of read() and try_read() succeeds.
ReadCas(t) ==
  /\ pc[t] \in {"rcas", "tcas"}
  /\ state = seen[t]
  /\ state' = Incremented(state)
  /\ seen' = [seen EXCEPT ![t] = Zero]
  /\ Goto(t, "read")

\* read() retries when the exchange fails, which the weak one may do at will.
ReadRetry(t) ==
  /\ pc[t] = "rcas"
  /\ seen' = [seen EXCEPT ![t] = Zero]
  /\ Goto(t, "rload")
  /\ UNCHANGED state

\* try_read(): the load; a set writer bit returns None with no effect.
TryRead(t) == LoadClear(t, "idle", "tcas")

TryReadFail(t) ==
  /\ pc[t] = "tcas"
  /\ state # seen[t]
  /\ seen' = [seen EXCEPT ![t] = Zero]
  /\ Goto(t, "idle")
  /\ UNCHANGED state

\* Mutant: a read guard's drop forgets to count itself out.
ReadDrop_Leak(t) ==
  /\ pc[t] = "read"
  /\ Goto(t, "idle")
  /\ UNCHANGED <<state, seen>>

\* RwSpinlockReadGuard drop: fetch_sub(1).
ReadDrop(t) ==
  /\ pc[t] = "read"
  /\ state' = [state EXCEPT !.readers = @ - 1]
  /\ Goto(t, "idle")
  /\ UNCHANGED seen

Write(t) == pc[t] = "idle" /\ Goto(t, "wload") /\ UNCHANGED <<state, seen>>

WriteLoad(t) == LoadClear(t, "wload", "wcas")

\* Mutant: write() enters as soon as its bit is set, without draining.
WriteCas_SkipDrain(t) ==
  /\ pc[t] = "wcas"
  /\ state = seen[t]
  /\ state' = [state EXCEPT !.writer = TRUE]
  /\ seen' = [seen EXCEPT ![t] = Zero]
  /\ Goto(t, "write")

\* write(): the exchange sets the writer bit, even with readers inside.
WriteCas(t) ==
  /\ pc[t] = "wcas"
  /\ state = seen[t]
  /\ state' = [state EXCEPT !.writer = TRUE]
  /\ seen' = [seen EXCEPT ![t] = Zero]
  /\ Goto(t, "drain")

WriteRetry(t) ==
  /\ pc[t] = "wcas"
  /\ seen' = [seen EXCEPT ![t] = Zero]
  /\ Goto(t, "wload")
  /\ UNCHANGED state

\* write(): the load that finds no reader left.
WriteDrained(t) ==
  /\ pc[t] = "drain"
  /\ state.readers = 0
  /\ Goto(t, "write")
  /\ UNCHANGED <<state, seen>>

\* try_write(): one exchange from 0; anything else returns None.
TryWrite(t) ==
  /\ pc[t] = "idle"
  /\ state = Zero
  /\ state' = [Zero EXCEPT !.writer = TRUE]
  /\ Goto(t, "write")
  /\ UNCHANGED seen

\* Mutant: the write guard's drop leaves the word alone.
WriteDrop_Idle(t) ==
  /\ pc[t] = "write"
  /\ Goto(t, "idle")
  /\ UNCHANGED <<state, seen>>

\* RwSpinlockWriteGuard drop: clear the writer bit.
WriteDrop(t) ==
  /\ pc[t] = "write"
  /\ state' = [state EXCEPT !.writer = FALSE]
  /\ Goto(t, "idle")
  /\ UNCHANGED seen

ThreadNext(t) ==
  \/ Read(t) \/ ReadLoad(t) \/ ReadCas(t) \/ ReadRetry(t) \/ ReadDrop(t)
  \/ TryRead(t) \/ TryReadFail(t)
  \/ Write(t) \/ WriteLoad(t) \/ WriteCas(t) \/ WriteRetry(t)
  \/ WriteDrained(t) \/ TryWrite(t) \/ WriteDrop(t)

Next == \E t \in Threads : ThreadNext(t)

\* Holders drop their guards and a spinning CPU keeps loading the word.
Fairness ==
  \A t \in Threads : /\ WF_vars(ReadDrop(t))
                     /\ WF_vars(WriteDrop(t))
                     /\ WF_vars(WriteDrained(t))
                     /\ WF_vars(ReadLoad(t) \/ ReadCas(t) \/ TryReadFail(t))
                     /\ WF_vars(WriteLoad(t) \/ WriteCas(t) \/ WriteRetry(t))

Spec == Init /\ [][Next]_vars /\ Fairness

-----------------------------------------------------------------------------
TypeOK ==
  /\ state \in Words
  /\ pc \in [Threads -> PCs]
  /\ seen \in [Threads -> Words]

\* A write guard excludes every other guard, of readers and of writers.
WriteExclusion ==
  \A t, u \in Threads : pc[t] = "write" /\ pc[u] \in {"read", "write"} => t = u

\* "Writers have priority over new readers": from the moment a writer has set
\* its bit until it holds the lock, the set of readers only shrinks.
NoOvertaking ==
  [][(\E t \in Threads : pc[t] = "drain" /\ pc'[t] = "drain")
       => Readers' \subseteq Readers]_vars

\* A writer that has set its bit gets the lock.
WriterDrains ==
  \A t \in Threads : pc[t] = "drain" ~> pc[t] = "write"

-----------------------------------------------------------------------------
(* The inductive invariant, in named parts.                                *)

ReadersCounted == state.readers = Cardinality(Readers)

WriterBitOwned ==
  /\ state.writer <=> Writers # {}
  /\ \A t, u \in Writers : t = u

WriterAlone == \A t \in Threads : pc[t] = "write" => Readers = {}

LoadedClear ==
  \A t \in Threads : pc[t] \in {"rcas", "tcas", "wcas"} => ~seen[t].writer

\* The state word of RwSpinlock tells the guards: it counts the readers, its top
\* bit belongs to one writer, and a compare_exchange is only tried on a word
\* without that bit.
IInv ==
  /\ TypeOK
  /\ ReadersCounted
  /\ WriterBitOwned
  /\ WriterAlone
  /\ LoadedClear
=============================================================================
