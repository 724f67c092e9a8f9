-------------------------------- MODULE Tcp ---------------------------------
(***************************************************************************)
(* The TCP of kernel/src/net/tcp.rs, with the next-hop resolution of       *)
(* net/arp.rs that every send goes through.  Two machines run this code: c *)
(* connects, s listens on one port.  A connection key is therefore the     *)
(* ephemeral port of c.                                                    *)
(*                                                                         *)
(* The network is the set of all segments ever sent.  It may deliver each  *)
(* of them to its destination any number of times, in any order, or never. *)
(*                                                                         *)
(* A system call runs with interrupts disabled, so the calls of a machine  *)
(* do not interleave with each other; segments are handled by the poll     *)
(* loops of the calls, at any time a call is made or in progress.          *)
(***************************************************************************)
EXTENDS Integers, Sequences, FiniteSets, FiniteSetsExt, SequencesExt

CONSTANTS PortLo, PortHi,   \* 49152 and 65534
          SeqSpace,         \* 2^32
          Isn, IsnGap,      \* the initial numbers in turn, and their least distance
          Mss,              \* 1460
          RecvCap,          \* 65536, capacity of a receive buffer
          Backlog,          \* 128, capacity of the accept queue
          Busy,             \* sets of ports that c's connections to other machines may have
          MaxConnect,       \* bound: calls of connect
          MaxOpen,          \* bound: connections c's programs have at a time
          MaxSend,          \* bound: bytes that c sends on a connection
          MaxReply          \* bound: bytes that s sends on a connection

\* How many initial numbers can be needed.
MaxIsns == MaxConnect + PortHi - PortLo

ASSUME TcpAssumption ==
  /\ {PortLo, PortHi, SeqSpace, IsnGap, Mss, RecvCap, Backlog, MaxConnect, MaxOpen, MaxSend}
       \subseteq Nat \ {0}
  /\ MaxReply \in Nat
  /\ PortLo < PortHi /\ Busy # {} /\ Busy \subseteq SUBSET (PortLo .. PortHi - 1)
  /\ MaxSend + 2 < IsnGap /\ MaxReply + 2 < IsnGap
  /\ Isn \in [0 .. MaxIsns - 1 -> 0 .. SeqSpace - 1]
  /\ \A k, l \in 0 .. MaxIsns - 1 : k # l => (Isn[k] - Isn[l]) % SeqSpace >= IsnGap

VARIABLES conns,        \* TCP_CONNECTIONS of each machine
          listening,    \* s: TCP_LISTENERS has the port
          accept_queue, \* s: its accept queue
          next_port,    \* c: NEXT_EPHEMERAL_PORT
          call,         \* c: where connect stands: "idle", "probe" or "wait"
          port,         \* c: the port connect has taken
          open,         \* the keys that connect and accept have returned
          arp,          \* the machine has the other one in its ARP cache
          stuck,        \* the lock that a machine waits for and holds itself
          isns,         \* initial sequence numbers handed out
          connects,     \* calls of connect so far
          net           \* every segment ever sent

vars == <<conns, listening, accept_queue, next_port, call, port, open, arp, stuck,
          isns, connects, net>>

Hosts == {"c", "s"}
Peer(h) == IF h = "c" THEN "s" ELSE "c"
Ports == PortLo .. PortHi - 1

\* "none" is no entry in the table, "Busy" an entry for another machine.
TcpStates == {"none", "Busy", "Closed", "SynSent", "SynReceived", "Established",
              "FinWait1", "FinWait2", "CloseWait", "LastAck", "TimeWait"}

\* Mutant: numbers do not wrap.
Wrap_Never(n) == n

\* wrapping_add.
Wrap(n) == n % SeqSpace

\* The next initial number: a hash of the time and a counter, any number as
\* long as it is far enough from the others.
generate_isn == Isn[isns]

\* TcpConnection, without the fields that are written but never read (snd_una,
\* rcv_wnd, the congestion control).  taken (the bytes recv has handed out) and dropped (a byte
\* found the receive buffer full) are history.
NewConn(state, rcv_nxt, irs) ==
  [state |-> state, iss |-> generate_isn,
   snd_nxt |-> Wrap(generate_isn + 1), rcv_nxt |-> rcv_nxt, irs |-> irs,
   recv_buffer |-> <<>>, taken |-> <<>>, dropped |-> FALSE]

NoConn == [state |-> "none", iss |-> 0, snd_nxt |-> 0, rcv_nxt |-> 0,
           irs |-> 0, recv_buffer |-> <<>>, taken |-> <<>>, dropped |-> FALSE]

Segment(h, p, flags, seq, ack, data) ==
  [to |-> Peer(h), port |-> p, flags |-> flags, seq |-> seq, ack |-> ack, data |-> data]

\* The n-th byte of the stream that a connection sends.
Byte(c, n) == <<c.iss, n>>

\* Bytes sent so far (one more after a FIN).
SentLen(c) == Wrap(c.snd_nxt - c.iss - 1)

Init ==
  /\ \E B \in Busy :
       conns = [h \in Hosts |-> [p \in Ports |->
                  IF h = "c" /\ p \in B THEN [NoConn EXCEPT !.state = "Busy"] ELSE NoConn]]
  /\ listening = FALSE
  /\ accept_queue = <<>>
  /\ next_port \in {PortLo, PortHi}
  /\ call = "idle" /\ port = PortLo
  /\ open = [h \in Hosts |-> {}]
  /\ arp \in [Hosts -> BOOLEAN]
  /\ stuck = [h \in Hosts |-> "no"]
  /\ isns = 0 /\ connects = 0
  /\ net = {}

-----------------------------------------------------------------------------
(* Sending.                                                                *)

\* Mutant: the answer is used but not entered into the cache.
Transmit_NoCache(h, lock, segs) ==
  \/ /\ \E answered \in BOOLEAN : net' = IF arp[h] \/ answered THEN net \cup segs ELSE net
     /\ UNCHANGED <<arp, stuck>>
  \/ /\ ~arp[h] /\ lock # "no" /\ \E m \in net : m.to = h
     /\ stuck' = [stuck EXCEPT ![h] = lock]
     /\ UNCHANGED <<arp, net>>

\* ipv4::send of some segments while the lock is held: the next hop is in the
\* ARP cache, or the machine broadcasts a request and polls until the answer
\* comes or a thousand polls are over; the request fills the other machine's
\* cache.  A segment that one of these polls receives takes the lock.
Transmit(h, lock, segs) ==
  \/ /\ arp[h]
     /\ net' = net \cup segs
     /\ UNCHANGED <<arp, stuck>>
  \/ /\ ~arp[h]
     /\ \E answered, heard \in BOOLEAN :
          /\ answered => heard
          /\ heard => stuck[Peer(h)] = "no"
          /\ arp' = [g \in Hosts |-> arp[g] \/ IF g = h THEN answered ELSE heard]
          /\ net' = IF answered THEN net \cup segs ELSE net
     /\ UNCHANGED stuck
  \/ /\ ~arp[h] /\ lock # "no"
     /\ \E m \in net : m.to = h
     /\ stuck' = [stuck EXCEPT ![h] = lock]
     /\ UNCHANGED <<arp, net>>

SetConn(h, p, c) == conns' = [conns EXCEPT ![h][p] = c]

\* Segments sent with TCP_CONNECTIONS locked, and the connection afterwards.
SendAndSet(h, p, segs, c) ==
  /\ Transmit(h, "conns", segs)
  /\ conns' = IF stuck'[h] = "no" THEN [conns EXCEPT ![h][p] = c] ELSE conns

-----------------------------------------------------------------------------
(* The calls of c and s.                                                   *)

Listen ==
  /\ stuck["s"] = "no" /\ ~listening
  /\ listening' = TRUE
  /\ UNCHANGED <<conns, accept_queue, next_port, call, port, open, arp, stuck, isns, connects, net>>

\* The port that one turn of connect's loop looks at, and where the next turn
\* goes on.
Candidate == IF next_port >= PortHi THEN PortLo ELSE next_port
NextCandidate == IF next_port >= PortHi THEN PortLo ELSE next_port + 1

InUse(p) == conns["c"][p].state # "none"

InProbe ==
  /\ stuck["c"] = "no"
  /\ \/ call = "probe"
     \/ call = "idle" /\ connects < MaxConnect /\ Cardinality(open["c"]) < MaxOpen
  /\ connects' = IF call = "idle" THEN connects + 1 ELSE connects
  /\ next_port' = NextCandidate

\* connect looks for a port that no connection has.
ConnectProbe ==
  /\ InProbe
  /\ InUse(Candidate)
  /\ call' = "probe"
  /\ UNCHANGED <<conns, listening, accept_queue, port, open, arp, stuck, isns, net>>

\* The SYN is sent before the connection is in the table; no lock is held.
ConnectSyn ==
  /\ InProbe
  /\ ~InUse(Candidate)
  /\ SetConn("c", Candidate, NewConn("SynSent", 0, 0))
  /\ Transmit("c", "no", {Segment("c", Candidate, {"SYN"}, generate_isn, 0, <<>>)})
  /\ call' = "wait" /\ port' = Candidate
  /\ isns' = isns + 1
  /\ UNCHANGED <<listening, accept_queue, open>>

\* Mutant: connect waits until the connection is established or refused.
ConnectDone_NoTimeout ==
  /\ stuck["c"] = "no" /\ call = "wait"
  /\ conns["c"][port].state \in {"Established", "Closed"}
  /\ call' = "idle"
  /\ open' = [open EXCEPT !["c"] = IF conns["c"][port].state = "Closed" THEN @ ELSE @ \cup {port}]
  /\ IF conns["c"][port].state = "Closed" THEN SetConn("c", port, NoConn) ELSE UNCHANGED conns
  /\ UNCHANGED <<listening, accept_queue, next_port, port, arp, stuck, isns, connects, net>>

\* connect's wait ends: established, refused, or after 5000 polls in another
\* state.
ConnectDone ==
  /\ stuck["c"] = "no" /\ call = "wait"
  /\ call' = "idle"
  /\ \/ /\ conns["c"][port].state = "Established"
        /\ open' = [open EXCEPT !["c"] = @ \cup {port}]
        /\ UNCHANGED conns
     \/ /\ conns["c"][port].state = "Closed"
        /\ SetConn("c", port, NoConn)
        /\ UNCHANGED open
     \/ /\ conns["c"][port].state \notin {"Established", "Closed"}
        /\ SetConn("c", port, NoConn)
        /\ UNCHANGED open
  /\ UNCHANGED <<listening, accept_queue, next_port, port, arp, stuck, isns, connects, net>>

\* Mutant: accept returns the connection and leaves it in the queue.
Accept_Keeps ==
  /\ stuck["s"] = "no"
  /\ \E i \in DOMAIN accept_queue :
       /\ conns["s"][accept_queue[i]].state = "Established"
       /\ open' = [open EXCEPT !["s"] = @ \cup {accept_queue[i]}]
  /\ UNCHANGED <<conns, listening, accept_queue, next_port, call, port, arp, stuck, isns,
                 connects, net>>

\* accept takes the first established connection of the queue.
Accept ==
  /\ stuck["s"] = "no"
  /\ \E i \in DOMAIN accept_queue :
       /\ conns["s"][accept_queue[i]].state = "Established"
       /\ \A j \in 1 .. i - 1 : conns["s"][accept_queue[j]].state # "Established"
       /\ accept_queue' = RemoveAt(accept_queue, i)
       /\ open' = [open EXCEPT !["s"] = @ \cup {accept_queue[i]}]
  /\ UNCHANGED <<conns, listening, next_port, call, port, arp, stuck, isns, connects, net>>

\* The machine is in no call, and the program has the key.
MayCall(h, p) == stuck[h] = "no" /\ (h = "c" => call = "idle") /\ p \in open[h]

\* data.chunks(mss), as segments from the connection's next number on.
Chunks(h, p, n) ==
  LET c == conns[h][p]
      len(i) == Min({Mss, n - (i - 1) * Mss})
  IN  {Segment(h, p, {"ACK"}, Wrap(c.snd_nxt + (i - 1) * Mss), c.rcv_nxt,
               [k \in 1 .. len(i) |-> Byte(c, SentLen(c) + (i - 1) * Mss + k)]) :
         i \in {j \in 1 .. n : (j - 1) * Mss < n}}

Send(h, p) ==
  /\ MayCall(h, p) /\ conns[h][p].state = "Established"
  /\ \E n \in 1 .. (IF h = "c" THEN MaxSend ELSE MaxReply) - SentLen(conns[h][p]) :
       SendAndSet(h, p, Chunks(h, p, n), [conns[h][p] EXCEPT !.snd_nxt = Wrap(@ + n)])
  /\ UNCHANGED <<listening, accept_queue, next_port, call, port, open, isns, connects>>

Recv(h, p) ==
  /\ MayCall(h, p)
  /\ \E n \in 1 .. Len(conns[h][p].recv_buffer) :
       SetConn(h, p, [conns[h][p] EXCEPT !.taken = @ \o SubSeq(conns[h][p].recv_buffer, 1, n),
                                         !.recv_buffer = SubSeq(@, n + 1, Len(@))])
  /\ UNCHANGED <<listening, accept_queue, next_port, call, port, open, arp, stuck, isns, connects, net>>

Close(h, p) ==
  /\ MayCall(h, p)
  /\ LET c == conns[h][p] IN
       /\ c.state \in {"Established", "CloseWait"}
       /\ SendAndSet(h, p, {Segment(h, p, {"FIN", "ACK"}, c.snd_nxt, c.rcv_nxt, <<>>)},
            [c EXCEPT !.snd_nxt = Wrap(@ + 1),
                      !.state = IF @ = "Established" THEN "FinWait1" ELSE "LastAck"])
  /\ UNCHANGED <<listening, accept_queue, next_port, call, port, open, isns, connects>>

-----------------------------------------------------------------------------
(* handle_packet.                                                          *)

Arrives(h, m) == stuck[h] = "no" /\ m \in net /\ m.to = h

\* Mutant: the SYN|ACK acknowledges the SYN and the connection does not.
RcvSyn_NoCount(m) ==
  /\ Arrives("s", m) /\ conns["s"][m.port].state = "none"
  /\ listening /\ m.flags = {"SYN"}
  /\ Transmit("s", "listeners",
       {Segment("s", m.port, {"SYN", "ACK"}, generate_isn, Wrap(m.seq + 1), <<>>)})
  /\ IF stuck'["s"] = "no"
     THEN /\ SetConn("s", m.port, NewConn("SynReceived", m.seq, Wrap(m.seq - 1)))
          /\ accept_queue' = IF Len(accept_queue) < Backlog
                             THEN Append(accept_queue, m.port) ELSE accept_queue
          /\ isns' = isns + 1
     ELSE UNCHANGED <<conns, accept_queue, isns>>
  /\ UNCHANGED <<listening, next_port, call, port, open, connects>>

\* A SYN for a new key at the listener: SYN|ACK, a place in the accept queue
\* if there is one left, and the connection in the table.  The listeners'
\* lock is held while the SYN|ACK is sent.
RcvSyn(m) ==
  /\ Arrives("s", m) /\ conns["s"][m.port].state = "none"
  /\ listening /\ m.flags = {"SYN"}
  /\ Transmit("s", "listeners",
       {Segment("s", m.port, {"SYN", "ACK"}, generate_isn, Wrap(m.seq + 1), <<>>)})
  /\ IF stuck'["s"] = "no"
     THEN /\ SetConn("s", m.port, NewConn("SynReceived", Wrap(m.seq + 1), m.seq))
          /\ accept_queue' = IF Len(accept_queue) < Backlog
                             THEN Append(accept_queue, m.port) ELSE accept_queue
          /\ isns' = isns + 1
     ELSE UNCHANGED <<conns, accept_queue, isns>>
  /\ UNCHANGED <<listening, next_port, call, port, open, connects>>

\* A SYN, with or without ACK, for which there is neither a connection nor a
\* listener is answered by RST, with the listeners' lock held.
RcvStray(h, m) ==
  /\ Arrives(h, m) /\ conns[h][m.port].state = "none"
  /\ ~(h = "s" /\ listening) /\ "SYN" \in m.flags
  /\ Transmit(h, "listeners", {Segment(h, m.port, {"RST", "ACK"}, 0, Wrap(m.seq + 1), <<>>)})
  /\ UNCHANGED <<conns, listening, accept_queue, next_port, call, port, open, isns, connects>>

\* process_segment in the given state, except for RST.
Arm(h, m, state) ==
  Arrives(h, m) /\ conns[h][m.port].state = state /\ "RST" \notin m.flags

Others == UNCHANGED <<listening, accept_queue, next_port, call, port, open, isns, connects>>

RcvRst(h, m) ==
  /\ Arrives(h, m) /\ conns[h][m.port].state # "none" /\ "RST" \in m.flags
  /\ SetConn(h, m.port, [conns[h][m.port] EXCEPT !.state = "Closed"])
  /\ UNCHANGED <<arp, stuck, net>> /\ Others

RcvInSynReceived(h, m) ==
  /\ Arm(h, m, "SynReceived")
  /\ "ACK" \in m.flags /\ m.ack = conns[h][m.port].snd_nxt
  /\ SetConn(h, m.port, [conns[h][m.port] EXCEPT !.state = "Established"])
  /\ UNCHANGED <<arp, stuck, net>> /\ Others

AckOf(h, p, nxt) == Segment(h, p, {"ACK"}, conns[h][p].snd_nxt, nxt, <<>>)

\* Mutant: the number that the SYN takes is not counted.
RcvInSynSent_NoCount(h, m) ==
  /\ Arm(h, m, "SynSent") /\ {"SYN", "ACK"} \subseteq m.flags
  /\ SendAndSet(h, m.port, {AckOf(h, m.port, Wrap(m.seq + 1))},
       [conns[h][m.port] EXCEPT !.irs = m.seq, !.rcv_nxt = m.seq, !.state = "Established"])
  /\ Others

\* Any SYN|ACK will do.
RcvInSynSent(h, m) ==
  /\ Arm(h, m, "SynSent") /\ {"SYN", "ACK"} \subseteq m.flags
  /\ SendAndSet(h, m.port, {AckOf(h, m.port, Wrap(m.seq + 1))},
       [conns[h][m.port] EXCEPT !.irs = m.seq, !.rcv_nxt = Wrap(m.seq + 1),
                                !.state = "Established"])
  /\ Others

\* Mutant: data is taken in the order in which it comes.
Expected_Any(c, m) == m.data # <<>>

Expected(c, m) == m.seq = c.rcv_nxt /\ m.data # <<>>

\* Data is taken in order only, and acknowledged even where the buffer had no
\* room for it; a FIN is taken whatever its number.
RcvInEstablished(h, m) ==
  /\ Arm(h, m, "Established")
  /\ LET c     == conns[h][m.port]
         fits  == Expected(c, m)
         fin   == "FIN" \in m.flags
         room  == RecvCap - Len(c.recv_buffer)
         data  == IF fits THEN m.data ELSE <<>>
         nxt   == Wrap(c.rcv_nxt + Len(data))
         acks  == (IF fits THEN {AckOf(h, m.port, nxt)} ELSE {})
                    \cup (IF fin THEN {AckOf(h, m.port, Wrap(nxt + 1))} ELSE {})
         after == [c EXCEPT !.recv_buffer = @ \o SubSeq(data, 1, Min({room, Len(data)})),
                            !.dropped = @ \/ Len(data) > room,
                            !.rcv_nxt = IF fin THEN Wrap(nxt + 1) ELSE nxt,
                            !.state = IF fin THEN "CloseWait" ELSE @]
     IN  \/ acks # {} /\ SendAndSet(h, m.port, acks, after)
         \/ acks = {} /\ SetConn(h, m.port, after) /\ UNCHANGED <<arp, stuck, net>>
  /\ Others

\* FinWait1 and FinWait2: any ACK acknowledges the FIN that was sent.
RcvInFinWait(h, m) ==
  /\ Arm(h, m, "FinWait1") \/ Arm(h, m, "FinWait2")
  /\ LET c   == conns[h][m.port]
         nxt == Wrap(c.rcv_nxt + 1)
     IN  IF "FIN" \in m.flags
         THEN SendAndSet(h, m.port, {AckOf(h, m.port, nxt)},
                [c EXCEPT !.rcv_nxt = nxt, !.state = "TimeWait"])
         ELSE /\ "ACK" \in m.flags
              /\ SetConn(h, m.port, [c EXCEPT !.state = "FinWait2"])
              /\ UNCHANGED <<arp, stuck, net>>
  /\ Others

RcvInLastAck(h, m) ==
  /\ Arm(h, m, "LastAck") /\ "ACK" \in m.flags
  /\ SetConn(h, m.port, [conns[h][m.port] EXCEPT !.state = "Closed"])
  /\ UNCHANGED <<arp, stuck, net>> /\ Others

-----------------------------------------------------------------------------
Next ==
  \/ Listen \/ ConnectProbe \/ ConnectSyn \/ ConnectDone \/ Accept
  \/ \E h \in Hosts, p \in Ports : Send(h, p) \/ Recv(h, p) \/ Close(h, p)
  \/ \E m \in net : RcvSyn(m)
  \/ \E h \in Hosts, m \in net :
       \/ RcvStray(h, m) \/ RcvRst(h, m) \/ RcvInSynReceived(h, m) \/ RcvInSynSent(h, m)
       \/ RcvInEstablished(h, m) \/ RcvInFinWait(h, m) \/ RcvInLastAck(h, m)

\* connect is a loop of its machine; nothing is assumed of the network.
Spec == Init /\ [][Next]_vars /\ WF_vars(ConnectProbe \/ ConnectSyn) /\ WF_vars(ConnectDone)

-----------------------------------------------------------------------------
\* Types of the connection tables, the calls and the network.
TypeOK ==
  /\ \A h \in Hosts, p \in Ports :
       /\ conns[h][p].state \in TcpStates
       /\ {conns[h][p].iss, conns[h][p].irs, conns[h][p].snd_nxt,
           conns[h][p].rcv_nxt} \subseteq 0 .. SeqSpace - 1
       /\ Len(conns[h][p].recv_buffer) <= RecvCap
  /\ accept_queue \in Seq(Ports) /\ Len(accept_queue) <= Backlog
  /\ next_port \in PortLo .. PortHi /\ port \in Ports
  /\ call \in {"idle", "probe", "wait"}
  /\ open \in [Hosts -> SUBSET Ports]
  /\ arp \in [Hosts -> BOOLEAN]
  /\ stuck \in [Hosts -> {"no", "listeners", "conns"}]

Received(c) == c.taken \o c.recv_buffer

\* What a connection hands to recv comes from one connection of the peer, in
\* the order it was sent and nothing twice, however the network loses, repeats
\* or reorders segments and whichever attempts to connect came before; and
\* nothing is missing in between unless the receive buffer was full.
StreamInOrder ==
  \A h \in Hosts, p \in Ports :
    LET c == conns[h][p]
        r == Received(c)
    IN  \A i, j \in DOMAIN r :
          /\ r[i][1] = r[j][1]
          /\ i < j => r[i][2] < r[j][2]
          /\ ~c.dropped => r[i][2] = i

\* While established, rcv_nxt counts exactly the bytes received, also across
\* the end of the number space.
NextCountsReceived ==
  \A h \in Hosts, p \in Ports :
    LET c == conns[h][p]
    IN  c.state = "Established" /\ ~c.dropped
          => c.rcv_nxt = Wrap(c.irs + 1 + Len(Received(c)))

Within(c, n) == Wrap(n - c.iss) \in 1 .. Wrap(c.snd_nxt - c.iss)

\* Once both ends are established, each expects a number that the other has
\* used or will use next: for every order, loss and repetition of segments, as
\* long as c has sent a single SYN from the port.  (A connect that reuses the
\* port of one that timed out takes the late SYN|ACK for its own.)
AgreeUnlessReused ==
  \A p \in Ports :
    LET c == conns["c"][p]
        s == conns["s"][p]
        syns == {m \in net : m.port = p /\ m.flags = {"SYN"}}
    IN  c.state = "Established" /\ s.state = "Established" /\ Cardinality(syns) = 1
          => Within(c, s.rcv_nxt) /\ Within(s, c.rcv_nxt)

\* A connection is handed out by accept once: it is not queued twice, nor
\* again after it was accepted.
AcceptedOnce ==
  /\ IsInjective(accept_queue)
  /\ ToSet(accept_queue) \cap open["s"] = {}

\* Every send may poll for an ARP answer, and most sends hold TCP_CONNECTIONS,
\* which the handler of a polled segment takes: but no machine ever waits for
\* TCP_CONNECTIONS while it holds it, because whoever has a connection to send
\* on has resolved the peer before, for its SYN or its SYN|ACK.
ConnsNeverStuck == \A h \in Hosts : stuck[h] # "conns"

\* A connect returns, whatever the network and the listener do, if some port
\* is free.  (Otherwise its search for a port goes on for ever.)
ConnectReturns ==
  (call = "wait" \/ (call = "probe" /\ \E p \in Ports : ~InUse(p))) ~> (call = "idle")
=============================================================================
