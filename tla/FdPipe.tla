------------------------------- MODULE FdPipe -------------------------------
(***************************************************************************)
(* The file descriptor table and the pipes of kernel/src/syscall/mod.rs:   *)
(* pipe, dup, dup2, fcntl(F_DUPFD), close, read and write.  There is one   *)
(* table for all processes.  A system call holds its lock with interrupts  *)
(* off on the one CPU that runs programs, so each is one step; sys_read    *)
(* takes the lock twice, first to see whether the descriptor is a console, *)
(* and nothing can run in between.                                         *)
(*                                                                         *)
(* Descriptors of consoles, files, directories, sockets and event counters *)
(* have no counts in this code and are all of kind "Other" here.           *)
(***************************************************************************)
EXTENDS Integers, Sequences, FiniteSets

CONSTANTS PIPE_BUF_SIZE,
          StdFds,       \* 3: the descriptors of the console in a new table
          MaxFd,        \* bound: highest descriptor in use
          MaxPipes,     \* bound: pipes ever made
          MaxBytes      \* bound: bytes ever written to a pipe

ASSUME FdPipeAssumption ==
  /\ {PIPE_BUF_SIZE, StdFds, MaxPipes, MaxBytes} \subseteq Nat \ {0}
  /\ MaxFd \in Nat /\ MaxFd > StdFds

VARIABLES fds,          \* FdTable.fds
          next_fd,      \* FdTable.next_fd
          pipes,        \* the Pipe objects
          made          \* number of them

vars == <<fds, next_fd, pipes, made>>

Fds == 0 .. MaxFd
Pipes == 1 .. MaxPipes

Entry(kind, p) == [kind |-> kind, pipe |-> p]
NoEntry == Entry("none", 0)
Entries == [kind : {"none", "Other"}, pipe : {0}]
             \cup [kind : {"PipeRead", "PipeWrite"}, pipe : Pipes]

\* Pipe and its PipeBuffer.  Byte n is the n-th written; written (their
\* number) and taken (the bytes read) are history.
NewPipe ==
  [data |-> [i \in 0 .. PIPE_BUF_SIZE - 1 |-> 0], read_pos |-> 0, write_pos |-> 0, count |-> 0,
   readers |-> 1, writers |-> 1, written |-> 0, taken |-> <<>>]

Init ==
  /\ fds = [f \in Fds |-> IF f < StdFds THEN Entry("Other", 0) ELSE NoEntry]
  /\ next_fd = StdFds
  /\ pipes = [p \in Pipes |-> NewPipe]
  /\ made = 0

-----------------------------------------------------------------------------
(* Counts: add_reader, add_writer, remove_reader, remove_writer.           *)

\* Mutant: a duplicate of a write side is not counted.
Counted_ReadersOnly(P, e, d) ==
  [p \in Pipes |-> IF e = Entry("PipeRead", p) THEN [P[p] EXCEPT !.readers = @ + d]
                   ELSE P[p]]

\* The pipes with d more descriptors like e.
Counted(P, e, d) ==
  [p \in Pipes |-> IF e = Entry("PipeRead", p) THEN [P[p] EXCEPT !.readers = @ + d]
                   ELSE IF e = Entry("PipeWrite", p) THEN [P[p] EXCEPT !.writers = @ + d]
                   ELSE P[p]]

-----------------------------------------------------------------------------
(* System calls.                                                           *)

\* alloc hands out next_fd whether that descriptor is free or not, and insert
\* replaces what it finds without closing it.
sys_pipe ==
  /\ next_fd + 1 <= MaxFd /\ made < MaxPipes
  /\ made' = made + 1
  /\ fds' = [fds EXCEPT ![next_fd] = Entry("PipeRead", made'),
                        ![next_fd + 1] = Entry("PipeWrite", made')]
  /\ next_fd' = next_fd + 2
  /\ UNCHANGED pipes

\* open, socket, accept, eventfd: a descriptor from alloc.
sys_open ==
  /\ next_fd <= MaxFd
  /\ fds' = [fds EXCEPT ![next_fd] = Entry("Other", 0)]
  /\ next_fd' = next_fd + 1
  /\ UNCHANGED <<pipes, made>>

Open(f) == fds[f].kind # "none"

\* Mutant: a duplicate of either side counts for both.
sys_dup_BothSides(old) ==
  /\ Open(old) /\ next_fd <= MaxFd
  /\ pipes' = LET p == fds[old].pipe
              IN  Counted(Counted(pipes, Entry("PipeRead", p), 1), Entry("PipeWrite", p), 1)
  /\ fds' = [fds EXCEPT ![next_fd] = fds[old]]
  /\ next_fd' = next_fd + 1
  /\ UNCHANGED made

sys_dup(old) ==
  /\ Open(old) /\ next_fd <= MaxFd
  /\ pipes' = Counted(pipes, fds[old], 1)
  /\ fds' = [fds EXCEPT ![next_fd] = fds[old]]
  /\ next_fd' = next_fd + 1
  /\ UNCHANGED made

\* What newfd was is closed.
sys_dup2(old, new) ==
  /\ Open(old) /\ old # new
  /\ pipes' = Counted(Counted(pipes, fds[old], 1), fds[new], -1)
  /\ fds' = [fds EXCEPT ![new] = fds[old]]
  /\ UNCHANGED <<next_fd, made>>

\* fcntl(F_DUPFD): the lowest free descriptor from min on.
F_DUPFD(old, min) ==
  /\ Open(old)
  /\ \E new \in {f \in min .. MaxFd : ~Open(f)} :
       /\ \A f \in min .. new - 1 : Open(f)
       /\ fds' = [fds EXCEPT ![new] = fds[old]]
  /\ pipes' = Counted(pipes, fds[old], 1)
  /\ UNCHANGED <<next_fd, made>>

sys_close(f) ==
  /\ Open(f)
  /\ pipes' = Counted(pipes, fds[f], -1)
  /\ fds' = [fds EXCEPT ![f] = NoEntry]
  /\ UNCHANGED <<next_fd, made>>

Size == PIPE_BUF_SIZE

AtMost(n, limit) == IF n <= limit THEN n ELSE limit

\* Mutant: the space is taken to be one byte larger than it is.
Space_OffByOne(b) == Size - b.count + 1

Space(b) == Size - b.count

\* The buffer with the next w bytes from write_pos on.
Stored(b, w) ==
  [i \in 0 .. Size - 1 |->
     LET k == (i - b.write_pos) % Size IN IF k < w THEN b.written + 1 + k ELSE b.data[i]]

\* Mutant: the write position moves on by one byte per call.
Filled_OneStep(b, w) ==
  [data |-> Stored(b, w), write_pos |-> (b.write_pos + 1) % Size,
   count |-> b.count + w, written |-> b.written + w,
   read_pos |-> b.read_pos, taken |-> b.taken, readers |-> b.readers, writers |-> b.writers]

\* PipeBuffer::write of w bytes.
Filled(b, w) ==
  [data |-> Stored(b, w), write_pos |-> (b.write_pos + w) % Size,
   count |-> b.count + w, written |-> b.written + w,
   read_pos |-> b.read_pos, taken |-> b.taken, readers |-> b.readers, writers |-> b.writers]

\* The next r bytes from read_pos on.
Front(b, r) == [i \in 1 .. r |-> b.data[(b.read_pos + i - 1) % Size]]

\* PipeBuffer::read of r bytes.
Drained(b, r) ==
  [read_pos |-> (b.read_pos + r) % Size, count |-> b.count - r, taken |-> b.taken \o Front(b, r),
   data |-> b.data, write_pos |-> b.write_pos, written |-> b.written,
   readers |-> b.readers, writers |-> b.writers]

\* Nothing is written without a reader (SIGPIPE and EPIPE), and no more than
\* there is space for.
sys_write(f, n) ==
  /\ fds[f].kind = "PipeWrite"
  /\ LET b == pipes[fds[f].pipe] IN
       /\ b.readers > 0 /\ Space(b) > 0
       /\ b.written + n <= MaxBytes
       /\ pipes' = [pipes EXCEPT ![fds[f].pipe] = Filled(b, AtMost(n, Space(b)))]
  /\ UNCHANGED <<fds, next_fd, made>>

\* An empty pipe changes nothing.  Its answer is 0, whether a writer is left or
\* not, so the reader cannot tell a pipe that is empty for now from its end.
sys_read(f, n) ==
  /\ fds[f].kind = "PipeRead"
  /\ LET b == pipes[fds[f].pipe] IN
       /\ b.count > 0
       /\ pipes' = [pipes EXCEPT ![fds[f].pipe] = Drained(b, AtMost(n, b.count))]
  /\ UNCHANGED <<fds, next_fd, made>>

Next ==
  \/ sys_pipe \/ sys_open
  \/ \E f \in Fds : sys_dup(f) \/ sys_close(f)
  \/ \E f, g \in Fds : sys_dup2(f, g) \/ F_DUPFD(f, g)
  \/ \E f \in Fds, n \in 1 .. MaxBytes : sys_read(f, n) \/ sys_write(f, n)

Spec == Init /\ [][Next]_vars

-----------------------------------------------------------------------------
PipeRecords ==
  [data : [0 .. Size - 1 -> 0 .. MaxBytes], read_pos : 0 .. Size - 1, write_pos : 0 .. Size - 1,
   count : 0 .. Size, readers : Nat, writers : Nat,
   written : 0 .. MaxBytes, taken : Seq(0 .. MaxBytes)]

\* Types; a ring never holds more than its size, and counts are never negative
\* (a usize would wrap).
TypeOK ==
  /\ fds \in [Fds -> Entries]
  /\ next_fd \in StdFds .. MaxFd + 1
  /\ made \in 0 .. MaxPipes
  /\ pipes \in [Pipes -> PipeRecords]

ReadFds(p) == {f \in Fds : fds[f] = Entry("PipeRead", p)}
WriteFds(p) == {f \in Fds : fds[f] = Entry("PipeWrite", p)}

\* The counts cover the descriptors: whatever was duplicated, replaced or
\* closed, has_readers and has_writers never deny a side that a descriptor
\* still refers to, so no writer gets EPIPE while a read descriptor is open.
CountsCover ==
  \A p \in 1 .. made :
    /\ Cardinality(ReadFds(p)) <= pipes[p].readers
    /\ Cardinality(WriteFds(p)) <= pipes[p].writers

\* End of file is final: once there is no writer, nothing is ever written.
EofIsFinal ==
  [][\A p \in 1 .. made : pipes[p].writers = 0
        => pipes'[p].writers = 0 /\ pipes'[p].written = pipes[p].written]_vars

Stream == INSTANCE ByteStream WITH
            Channels <- Pipes, Capacity <- PIPE_BUF_SIZE,
            sent <- [p \in Pipes |-> pipes[p].written],
            got <- [p \in Pipes |-> pipes[p].taken]

\* The pipes, rings with two positions and a count, are byte streams.
PipesAreStreams == Stream!Spec
=============================================================================
