----------------------------- MODULE ByteStream -----------------------------
(***************************************************************************)
(* What pipes promise: bounded channels whose bytes are read once each, in *)
(* the order in which they were written.  Byte n is the n-th written.      *)
(***************************************************************************)
EXTENDS Naturals, Sequences

CONSTANTS Channels,
          Capacity      \* bytes that may be written to a channel and not yet read

VARIABLES sent,         \* number of bytes written to each channel
          got           \* the bytes read from each channel

Init ==
  /\ sent = [c \in Channels |-> 0]
  /\ got = [c \in Channels |-> <<>>]

Write(c) ==
  /\ \E n \in sent[c] + 1 .. Len(got[c]) + Capacity : sent' = [sent EXCEPT ![c] = n]
  /\ UNCHANGED got

Read(c) ==
  /\ \E n \in Len(got[c]) + 1 .. sent[c] : got' = [got EXCEPT ![c] = [i \in 1 .. n |-> i]]
  /\ UNCHANGED sent

Next == \E c \in Channels : Write(c) \/ Read(c)

Spec == Init /\ [][Next]_<<sent, got>>
=============================================================================
