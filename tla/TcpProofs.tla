----------------------------- MODULE TcpProofs ------------------------------
(***************************************************************************)
(* Locks, ARP, the accept queue and the byte streams, for any number of    *)
(* ports, connections, segments and bytes, and any network.                *)
(***************************************************************************)
EXTENDS Tcp, SequenceTheorems, FiniteSetTheorems, TLAPS

St(h, p) == conns[h][p].state

\* What the proofs need to know of types.
Shapes ==
  /\ conns = [h \in Hosts |-> [p \in Ports |-> conns[h][p]]]
  /\ arp \in [Hosts -> BOOLEAN]
  /\ stuck \in [Hosts -> {"no", "listeners", "conns"}]
  /\ open \in [Hosts -> SUBSET Ports]
  /\ accept_queue \in Seq(Ports)
  /\ next_port \in PortLo .. PortHi /\ port \in Ports
  /\ \A m \in net : m.port \in Ports

\* A machine that has not resolved its peer has not gone beyond the handshake.
\* Before c has resolved s nothing is in the network at all; before s has
\* resolved c there are the SYNs of c, and connections that they made.
Unresolved ==
  /\ ~arp["c"] => net = {} /\ \A p \in Ports : St("s", p) = "none"
  /\ ~arp["s"] => /\ \A m \in net : m.to = "s" /\ m.flags = {"SYN"}
                  /\ \A p \in Ports : St("s", p) \in {"none", "SynReceived"}
  /\ ~(arp["c"] /\ arp["s"]) => \A p \in Ports : St("c", p) \in {"none", "Busy", "SynSent"}

LockInv == Shapes /\ Unresolved /\ ConnsNeverStuck

\* What is queued or accepted is in the table, and stays there.
QueueInv ==
  /\ Shapes /\ AcceptedOnce
  /\ \A h \in Hosts, p \in Ports : "state" \in DOMAIN conns[h][p]
  /\ \A i \in DOMAIN accept_queue : St("s", accept_queue[i]) # "none"
  /\ \A p \in open["s"] : St("s", p) # "none"

-----------------------------------------------------------------------------
\* A send reaches the network only when the next hop is known, keeps what the
\* caches hold, and gets stuck only on a machine that does not know its peer
\* and hears from it.
LEMMA TransmitEffect ==
  ASSUME Shapes, NEW h \in Hosts, NEW lock, NEW segs, Transmit(h, lock, segs)
  PROVE  /\ arp' \in [Hosts -> BOOLEAN]
         /\ \A g \in Hosts : arp[g] => arp'[g]
         /\ net' = net \/ (net' = net \cup segs /\ arp'[h])
         /\ \/ stuck' = stuck
            \/ /\ stuck' = [stuck EXCEPT ![h] = lock] /\ lock # "no"
               /\ ~arp[h] /\ \E m \in net : m.to = h
<1>1. arp \in [Hosts -> BOOLEAN]  BY DEF Shapes
<1>2. CASE arp[h] /\ net' = net \cup segs /\ UNCHANGED <<arp, stuck>>
  BY <1>1, <1>2
<1>3. ASSUME ~arp[h], NEW answered \in BOOLEAN, NEW heard \in BOOLEAN,
             arp' = [g \in Hosts |-> arp[g] \/ IF g = h THEN answered ELSE heard],
             net' = IF answered THEN net \cup segs ELSE net,
             stuck' = stuck
      PROVE  /\ arp' \in [Hosts -> BOOLEAN]
             /\ \A g \in Hosts : arp[g] => arp'[g]
             /\ net' = net \/ (net' = net \cup segs /\ arp'[h])
  <2>1. \A g \in Hosts : arp'[g] = (arp[g] \/ IF g = h THEN answered ELSE heard)
    BY <1>3
  <2>2. arp' \in [Hosts -> BOOLEAN]  BY <1>3
  <2>3. \A g \in Hosts : arp[g] => arp'[g]  BY <2>1
  <2>4. arp'[h] = (arp[h] \/ answered)  BY <2>1
  <2>5. QED  BY <1>3, <2>2, <2>3, <2>4
<1>4. CASE /\ ~arp[h] /\ lock # "no" /\ \E m \in net : m.to = h
           /\ stuck' = [stuck EXCEPT ![h] = lock]
           /\ UNCHANGED <<arp, net>>
  BY <1>1, <1>4
<1>5. QED  BY <1>2, <1>3, <1>4 DEF Transmit

Both == arp["c"] /\ arp["s"]

\* Whoever is beyond the handshake knows its peer, and so does the peer.
LEMMA BeyondHandshake ==
  ASSUME Unresolved, NEW h \in Hosts, NEW p \in Ports,
         St(h, p) \notin {"none", "Busy", "SynSent", "SynReceived"}
  PROVE  Both
<1>1. CASE h = "c"  BY <1>1 DEF Unresolved, Both
<1>2. CASE h = "s"  BY <1>2 DEF Unresolved, Both
<1>3. QED  BY <1>1, <1>2 DEF Hosts

\* And so do both, once something other than a SYN was sent.
LEMMA BeyondSyn ==
  ASSUME Unresolved, NEW m \in net, m.flags # {"SYN"}
  PROVE  Both
BY DEF Unresolved, Both

\* When both know each other they keep doing so, and no send gets stuck.
LEMMA BothKeep ==
  ASSUME LockInv, Both, NEW h \in Hosts, NEW lock, NEW segs, Transmit(h, lock, segs)
  PROVE  Both' /\ stuck' = stuck /\ arp' \in [Hosts -> BOOLEAN]
         /\ (net' = net \/ net' = net \cup segs)
<1>1. /\ arp' \in [Hosts -> BOOLEAN]
      /\ \A g \in Hosts : arp[g] => arp'[g]
      /\ net' = net \/ (net' = net \cup segs /\ arp'[h])
      /\ \/ stuck' = stuck
         \/ ~arp[h]
  BY TransmitEffect DEF LockInv
<1>2. arp[h]  BY DEF Both, Hosts
<1>3. QED  BY <1>1, <1>2 DEF Both, Hosts

\* One entry of a table changes.
LEMMA OneEntry ==
  ASSUME Shapes, NEW h \in Hosts, NEW p \in Ports, NEW c,
         conns' = [conns EXCEPT ![h][p] = c]
  PROVE  /\ conns' = [g \in Hosts |-> [q \in Ports |-> conns'[g][q]]]
         /\ \A g \in Hosts, q \in Ports :
              conns'[g][q] = IF g = h /\ q = p THEN c ELSE conns[g][q]
<1>1. conns = [g \in Hosts |-> [q \in Ports |-> conns[g][q]]]  BY DEF Shapes
<1>2. QED  BY <1>1

-----------------------------------------------------------------------------
(* Types.                                                                  *)

Tables(C) == C = [h \in Hosts |-> [p \in Ports |-> C[h][p]]]

\* A send with the connections locked, and the entry it leaves.
LEMMA SendShapes ==
  ASSUME Shapes, NEW h \in Hosts, NEW p \in Ports, NEW segs, NEW c,
         \A m \in segs : m.port \in Ports, SendAndSet(h, p, segs, c)
  PROVE  /\ Tables(conns') /\ arp' \in [Hosts -> BOOLEAN]
         /\ stuck' \in [Hosts -> {"no", "listeners", "conns"}]
         /\ \A m \in net' : m.port \in Ports
<1>1. /\ arp' \in [Hosts -> BOOLEAN]
      /\ net' = net \/ net' = net \cup segs
      /\ stuck' = stuck \/ stuck' = [stuck EXCEPT ![h] = "conns"]
  BY TransmitEffect DEF SendAndSet
<1>2. conns' = conns \/ conns' = [conns EXCEPT ![h][p] = c]  BY DEF SendAndSet
<1>3. Tables(conns')  BY <1>2, OneEntry DEF Tables, Shapes
<1>4. QED  BY <1>1, <1>3 DEF Shapes

\* Ports are ports.
LEMMA CandidateIsPort ==
  ASSUME Shapes
  PROVE  Candidate \in Ports /\ NextCandidate \in PortLo .. PortHi
<1>1. PortLo \in Nat /\ PortHi \in Nat /\ PortLo < PortHi  BY TcpAssumption
<1>2. next_port \in PortLo .. PortHi  BY DEF Shapes
<1>3. QED  BY <1>1, <1>2 DEF Candidate, NextCandidate, Ports

\* Removing an element leaves the others, in order.
LEMMA RemoveAtSeq ==
  ASSUME NEW q \in Seq(Ports), NEW i \in DOMAIN q
  PROVE  LET z == RemoveAt(q, i)
         IN  /\ z \in Seq(Ports) /\ DOMAIN z = 1 .. Len(q) - 1
             /\ \A j \in 1 .. Len(q) - 1 : z[j] = IF j < i THEN q[j] ELSE q[j + 1]
<1> DEFINE a == SubSeq(q, 1, i - 1)
           b == SubSeq(q, i + 1, Len(q))
<1>1. Len(q) \in Nat /\ i \in 1 .. Len(q)  OBVIOUS
<1>2. a \in Seq(Ports) /\ Len(a) = i - 1 /\ \A j \in 1 .. i - 1 : a[j] = q[j]  BY <1>1
<1>3. b \in Seq(Ports) /\ Len(b) = Len(q) - i /\ \A j \in 1 .. Len(q) - i : b[j] = q[i + j]
  BY <1>1
<1>4. RemoveAt(q, i) = a \o b  BY DEF RemoveAt
<1> HIDE DEF a, b
<1> DEFINE z == a \o b
<1>5. /\ z \in Seq(Ports) /\ Len(z) = Len(a) + Len(b)
      /\ \A j \in 1 .. Len(a) + Len(b) : z[j] = IF j <= Len(a) THEN a[j] ELSE b[j - Len(a)]
  <2> HIDE DEF z
  <2>1. QED  BY <1>2, <1>3, ConcatProperties DEF z
<1> HIDE DEF z
<1>6. z \in Seq(Ports) /\ Len(z) = Len(q) - 1  BY <1>1, <1>2, <1>3, <1>5
<1>7. ASSUME NEW j \in 1 .. Len(q) - 1
      PROVE  z[j] = IF j < i THEN q[j] ELSE q[j + 1]
  <2>1. CASE j < i
    <3>1. j \in 1 .. i - 1  BY <1>1, <2>1
    <3>2. z[j] = a[j]  BY <1>1, <1>2, <1>3, <1>5, <3>1
    <3>3. QED  BY <1>2, <2>1, <3>1, <3>2
  <2>2. CASE ~(j < i)
    <3>1. j - (i - 1) \in 1 .. Len(q) - i /\ i + (j - (i - 1)) = j + 1  BY <1>1, <2>2
    <3>2. j \in 1 .. Len(a) + Len(b) /\ ~(j <= Len(a)) /\ j - Len(a) = j - (i - 1)
      <4>1. Len(a) = i - 1 /\ Len(b) = Len(q) - i  BY <1>2, <1>3
      <4>2. QED  BY <1>1, <2>2, <4>1
    <3>3. z[j] = b[j - Len(a)]  BY <1>5, <3>2, Zenon
    <3>4. z[j] = b[j - (i - 1)]  BY <3>2, <3>3, Zenon
    <3>5. b[j - (i - 1)] = q[i + (j - (i - 1))]  BY <1>3, <3>1, Zenon
    <3>6. b[j - (i - 1)] = q[j + 1]  BY <3>1, <3>5, Zenon
    <3>7. QED  BY <2>2, <3>4, <3>6, Zenon
  <2>3. QED  BY <2>1, <2>2
<1>8. DOMAIN z = 1 .. Len(q) - 1  BY <1>6
<1>9. QED  BY <1>4, <1>6, <1>7, <1>8 DEF z

\* Every step keeps the shapes.
LEMMA NextShapes == ASSUME Shapes, [Next]_vars PROVE Shapes'
<1>1. CASE Listen \/ ConnectProbe \/ UNCHANGED vars
  BY <1>1, CandidateIsPort DEF Listen, ConnectProbe, InProbe, vars, Shapes
<1>2. CASE ConnectSyn
  <2> DEFINE seg == Segment("c", Candidate, {"SYN"}, generate_isn, 0, <<>>)
  <2>1. Candidate \in Ports /\ NextCandidate \in PortLo .. PortHi  BY CandidateIsPort
  <2>2. /\ arp' \in [Hosts -> BOOLEAN]
        /\ net' = net \/ net' = net \cup {seg}
        /\ stuck' = stuck
    BY <1>2, TransmitEffect DEF ConnectSyn, Hosts
  <2>3. seg.port = Candidate  BY DEF Segment
  <2>4. conns' = [conns EXCEPT !["c"][Candidate] = NewConn("SynSent", 0, 0)]
    BY <1>2 DEF ConnectSyn, SetConn
  <2>5. conns' = [h \in Hosts |-> [p \in Ports |-> conns'[h][p]]]
    BY <2>1, <2>4, OneEntry DEF Hosts
  <2> HIDE DEF seg
  <2>6. \A m \in net' : m.port \in Ports  BY <2>1, <2>2, <2>3 DEF Shapes
  <2>7. QED  BY <1>2, <2>1, <2>2, <2>5, <2>6 DEF ConnectSyn, InProbe, Shapes
<1>3. CASE ConnectDone
  <2>1. conns' = conns \/ conns' = [conns EXCEPT !["c"][port] = NoConn]
    BY <1>3 DEF ConnectDone, SetConn
  <2>2. port \in Ports  BY DEF Shapes
  <2>3. conns' = [h \in Hosts |-> [p \in Ports |-> conns'[h][p]]]
    BY <2>1, <2>2, OneEntry DEF Hosts, Shapes
  <2>4. open' \in [Hosts -> SUBSET Ports]
    BY <1>3, <2>2 DEF ConnectDone, Shapes
  <2>5. QED  BY <1>3, <2>3, <2>4 DEF ConnectDone, Shapes
<1>4. CASE Accept
  <2>1. PICK i \in DOMAIN accept_queue :
          /\ accept_queue' = RemoveAt(accept_queue, i)
          /\ open' = [open EXCEPT !["s"] = @ \cup {accept_queue[i]}]
    BY <1>4 DEF Accept
  <2>2. accept_queue \in Seq(Ports) /\ accept_queue[i] \in Ports  BY DEF Shapes
  <2>3. accept_queue' \in Seq(Ports)  BY <2>1, <2>2, RemoveAtSeq
  <2>4. open' \in [Hosts -> SUBSET Ports]  BY <2>1, <2>2 DEF Shapes
  <2>5. QED  BY <1>4, <2>3, <2>4 DEF Accept, Shapes
<1>5. ASSUME NEW h \in Hosts, NEW p \in Ports, NEW segs, NEW c,
             \A m \in segs : m.port \in Ports, SendAndSet(h, p, segs, c),
             UNCHANGED <<open, accept_queue, next_port, port>>
      PROVE  Shapes'
  BY <1>5, SendShapes DEF Shapes, Tables
<1>6. ASSUME NEW h \in Hosts, NEW p \in Ports, NEW c, SetConn(h, p, c),
             UNCHANGED <<arp, stuck, net, open, accept_queue, next_port, port>>
      PROVE  Shapes'
  BY <1>6, OneEntry DEF Shapes, SetConn
<1>7. \A h, p, fl, sq, ak, d : Segment(h, p, fl, sq, ak, d).port = p  BY DEF Segment
<1>8. ASSUME NEW h \in Hosts, NEW p \in Ports, Send(h, p) \/ Recv(h, p) \/ Close(h, p)
      PROVE  Shapes'
  <2>1. CASE Send(h, p)
    <3>1. ASSUME NEW n, NEW m \in Chunks(h, p, n)  PROVE m.port = p
      <4>1. \E sq, ak, d : m = Segment(h, p, {"ACK"}, sq, ak, d)  BY Zenon DEF Chunks
      <4>2. QED  BY <1>7, <4>1
    <3>2. QED  BY <1>5, <2>1, <3>1 DEF Send
  <2>2. CASE Recv(h, p)  BY <1>6, <2>2 DEF Recv
  <2>3. CASE Close(h, p)
    <3>1. \A fl, sq, ak, d : \A m \in {Segment(h, p, fl, sq, ak, d)} : m.port = p  BY <1>7
    <3>2. QED  BY <1>5, <2>3, <3>1 DEF Close
  <2>4. QED  BY <1>8, <2>1, <2>2, <2>3
<1>9. ASSUME NEW m \in net, RcvSyn(m)  PROVE Shapes'
  <2> DEFINE seg == Segment("s", m.port, {"SYN", "ACK"}, generate_isn, Wrap(m.seq + 1), <<>>)
             c == NewConn("SynReceived", Wrap(m.seq + 1), m.seq)
  <2>1. m.port \in Ports /\ seg.port = m.port  BY <1>7 DEF Shapes
  <2>2. /\ arp' \in [Hosts -> BOOLEAN]
        /\ net' = net \/ net' = net \cup {seg}
        /\ stuck' = stuck \/ stuck' = [stuck EXCEPT !["s"] = "listeners"]
    BY <1>9, TransmitEffect DEF RcvSyn, Hosts
  <2>3. conns' = conns \/ conns' = [conns EXCEPT !["s"][m.port] = c]
    BY <1>9 DEF RcvSyn, SetConn
  <2>4. accept_queue' = accept_queue \/ accept_queue' = Append(accept_queue, m.port)
    BY <1>9 DEF RcvSyn
  <2> HIDE DEF seg, c
  <2>5. conns' = [h \in Hosts |-> [p \in Ports |-> conns'[h][p]]]
    BY <2>1, <2>3, OneEntry DEF Hosts, Shapes
  <2>6. accept_queue' \in Seq(Ports)  BY <2>1, <2>4 DEF Shapes
  <2>7. QED  BY <1>9, <2>1, <2>2, <2>5, <2>6 DEF RcvSyn, Shapes
<1>10. ASSUME NEW h \in Hosts, NEW m \in net, RcvStray(h, m)  PROVE Shapes'
  <2> DEFINE seg == Segment(h, m.port, {"RST", "ACK"}, 0, Wrap(m.seq + 1), <<>>)
  <2>1. m.port \in Ports /\ seg.port = m.port  BY <1>7 DEF Shapes
  <2>2. /\ arp' \in [Hosts -> BOOLEAN]
        /\ net' = net \/ net' = net \cup {seg}
        /\ stuck' = stuck \/ stuck' = [stuck EXCEPT ![h] = "listeners"]
    BY <1>10, TransmitEffect DEF RcvStray
  <2> HIDE DEF seg
  <2>3. QED  BY <1>10, <2>1, <2>2 DEF RcvStray, Shapes
<1>11. ASSUME NEW h \in Hosts, NEW m \in net,
              \/ RcvRst(h, m) \/ RcvInSynReceived(h, m) \/ RcvInSynSent(h, m)
              \/ RcvInEstablished(h, m) \/ RcvInFinWait(h, m) \/ RcvInLastAck(h, m)
       PROVE  Shapes'
  <2>1. m.port \in Ports  BY DEF Shapes
  <2>2. \A n : AckOf(h, m.port, n).port = m.port  BY <1>7 DEF AckOf
  <2>3. CASE RcvRst(h, m)  BY <1>6, <2>1, <2>3 DEF RcvRst, Others
  <2>4. CASE RcvInSynReceived(h, m)  BY <1>6, <2>1, <2>4 DEF RcvInSynReceived, Others
  <2>5. CASE RcvInLastAck(h, m)  BY <1>6, <2>1, <2>5 DEF RcvInLastAck, Others
  <2>6. CASE RcvInSynSent(h, m)
    <3>1. \A n : \A x \in {AckOf(h, m.port, n)} : x.port \in Ports  BY <2>1, <2>2
    <3>2. QED  BY <1>5, <2>1, <2>6, <3>1 DEF RcvInSynSent, Others
  <2>7. CASE RcvInFinWait(h, m)
    <3>1. \A n : \A x \in {AckOf(h, m.port, n)} : x.port \in Ports  BY <2>1, <2>2
    <3>2. QED  BY <1>5, <1>6, <2>1, <2>7, <3>1 DEF RcvInFinWait, Others
  <2>8. CASE RcvInEstablished(h, m)
    <3>1. \/ \E acks, c : SendAndSet(h, m.port, acks, c) /\ \A x \in acks : x.port = m.port
          \/ \E c : SetConn(h, m.port, c) /\ UNCHANGED <<arp, stuck, net>>
      BY <2>2, <2>8 DEF RcvInEstablished
    <3>2. QED  BY <1>5, <1>6, <2>1, <2>8, <3>1 DEF RcvInEstablished, Others
  <2>9. QED  BY <1>11, <2>3, <2>4, <2>5, <2>6, <2>7, <2>8
<1>12. QED  BY <1>1, <1>2, <1>3, <1>4, <1>8, <1>9, <1>10, <1>11 DEF Next

-----------------------------------------------------------------------------
(* Locks.                                                                  *)

\* Every step keeps what is known of machines that are not resolved, and
\* leaves nobody waiting for the connections' lock.
LEMMA NextLock == ASSUME LockInv, [Next]_vars PROVE LockInv'
<1> USE DEF LockInv
<1>1. Shapes'  BY NextShapes
<1>2. ASSUME Both', stuck' = stuck  PROVE LockInv'
  BY <1>1, <1>2 DEF Both, Unresolved, ConnsNeverStuck
<1>3. ASSUME Both, NEW h \in Hosts, NEW p, NEW segs, NEW c, SendAndSet(h, p, segs, c)
      PROVE  LockInv'
  <2>1. Transmit(h, "conns", segs)  BY <1>3 DEF SendAndSet
  <2>2. Both' /\ stuck' = stuck  BY <1>3, <2>1, BothKeep
  <2>3. QED  BY <1>2, <2>2
<1>4. ASSUME Both, UNCHANGED <<arp, stuck>>  PROVE LockInv'
  BY <1>2, <1>4 DEF Both
<1>5. CASE UNCHANGED <<conns, arp, stuck, net>>
  BY <1>1, <1>5 DEF Unresolved, ConnsNeverStuck, St
<1>6. ASSUME NEW h \in Hosts, NEW p \in Ports, NEW c, SetConn(h, p, c),
             UNCHANGED <<arp, stuck, net>>, c.state \in {St(h, p), "none"}
      PROVE  LockInv'
  <2>1. \A g \in Hosts, q \in Ports :
          conns'[g][q] = IF g = h /\ q = p THEN c ELSE conns[g][q]
    BY <1>6 DEF SetConn, Shapes
  <2>2. \A g \in Hosts, q \in Ports : conns'[g][q].state \in {St(g, q), "none"}
    BY <1>6, <2>1 DEF St
  <2>3. ASSUME NEW q \in Ports
        PROVE  /\ conns'["s"][q].state \in {St("s", q), "none"}
               /\ conns'["c"][q].state \in {St("c", q), "none"}
    BY <2>2 DEF Hosts
  <2>4. Unresolved'  BY <1>6, <2>3 DEF Unresolved, St
  <2>5. QED  BY <1>1, <1>6, <2>4 DEF ConnsNeverStuck
<1>7. CASE Listen \/ ConnectProbe \/ Accept \/ UNCHANGED vars
  BY <1>5, <1>7 DEF Listen, ConnectProbe, Accept, vars
<1>8. CASE ConnectDone
  <2>1. NoConn.state = "none" /\ port \in Ports  BY DEF NoConn, Shapes
  <2>2. CASE UNCHANGED conns  BY <1>5, <1>8, <2>2 DEF ConnectDone
  <2>3. CASE SetConn("c", port, NoConn)
    BY <1>6, <1>8, <2>1, <2>3 DEF ConnectDone, Hosts
  <2>4. QED  BY <1>8, <2>2, <2>3 DEF ConnectDone
<1>9. CASE ConnectSyn
  <2> DEFINE seg == Segment("c", Candidate, {"SYN"}, generate_isn, 0, <<>>)
             c == NewConn("SynSent", 0, 0)
  <2>1. /\ \A g \in Hosts : arp[g] => arp'[g]
        /\ net' = net \/ (net' = net \cup {seg} /\ arp'["c"])
        /\ stuck' = stuck
    BY <1>9, TransmitEffect DEF ConnectSyn, Hosts
  <2>2. seg.to = "s" /\ seg.flags = {"SYN"} /\ c.state = "SynSent"
    BY DEF Segment, Peer, NewConn
  <2>3. Candidate \in Ports  BY CandidateIsPort
  <2>4. conns' = [conns EXCEPT !["c"][Candidate] = c]
    BY <1>9 DEF ConnectSyn, SetConn
  <2> HIDE DEF seg, c
  <2>5. \A g \in Hosts, q \in Ports :
          conns'[g][q] = IF g = "c" /\ q = Candidate THEN c ELSE conns[g][q]
    BY <2>3, <2>4 DEF Hosts, Shapes
  <2>6. ASSUME NEW q \in Ports
        PROVE  /\ conns'["s"][q] = conns["s"][q]
               /\ conns'["c"][q].state \in {St("c", q), "SynSent"}
    BY <2>2, <2>5 DEF Hosts, St
  <2>7. (arp["c"] => arp'["c"]) /\ (arp["s"] => arp'["s"])  BY <2>1 DEF Hosts
  <2>8. Unresolved'
    <3>1. ~arp'["c"] => net' = {} /\ \A p \in Ports : conns'["s"][p].state = "none"
      BY <2>1, <2>6, <2>7 DEF Unresolved, St
    <3>2. ~arp'["s"] => /\ \A m \in net' : m.to = "s" /\ m.flags = {"SYN"}
                        /\ \A p \in Ports : conns'["s"][p].state \in {"none", "SynReceived"}
      BY <2>1, <2>2, <2>6, <2>7 DEF Unresolved, St
    <3>3. ~(arp'["c"] /\ arp'["s"])
            => \A p \in Ports : conns'["c"][p].state \in {"none", "Busy", "SynSent"}
      BY <2>6, <2>7 DEF Unresolved, St
    <3>4. QED  BY <3>1, <3>2, <3>3 DEF Unresolved, St
  <2>9. QED  BY <1>1, <2>1, <2>8 DEF ConnsNeverStuck
<1>10. ASSUME NEW h \in Hosts, NEW p \in Ports, Send(h, p) \/ Close(h, p)  PROVE LockInv'
  <2>1. St(h, p) \in {"Established", "CloseWait"}  BY <1>10 DEF Send, Close, St
  <2>2. Both  BY <2>1, BeyondHandshake
  <2>3. QED  BY <1>3, <1>10, <2>2 DEF Send, Close
<1>11. ASSUME NEW h \in Hosts, NEW p \in Ports, Recv(h, p)  PROVE LockInv'
  <2>1. PICK n \in 1 .. Len(conns[h][p].recv_buffer) :
          SetConn(h, p, [conns[h][p] EXCEPT !.taken = @ \o SubSeq(conns[h][p].recv_buffer, 1, n),
                                            !.recv_buffer = SubSeq(@, n + 1, Len(@))])
    BY <1>11 DEF Recv
  <2> DEFINE c == [conns[h][p] EXCEPT !.taken = @ \o SubSeq(conns[h][p].recv_buffer, 1, n),
                                      !.recv_buffer = SubSeq(@, n + 1, Len(@))]
  <2>2. c.state = St(h, p)  BY DEF St
  <2> HIDE DEF c
  <2>3. SetConn(h, p, c)  BY <2>1 DEF c
  <2>4. QED  BY <1>6, <1>11, <2>2, <2>3 DEF Recv
<1>12. ASSUME NEW h \in Hosts, NEW lock \in {"no", "listeners"}, NEW segs, NEW m \in net,
              m.to = h, Transmit(h, lock, segs),
              \A p \in Ports : /\ conns'["c"][p] = conns["c"][p]
                               /\ conns'["s"][p].state \in {St("s", p), "SynReceived"}
       PROVE  LockInv'
  <2>1. /\ \A g \in Hosts : arp[g] => arp'[g]
        /\ net' = net \/ (net' = net \cup segs /\ arp'[h])
        /\ stuck' = stuck \/ (stuck' = [stuck EXCEPT ![h] = lock] /\ lock # "no")
    BY <1>12, TransmitEffect
  <2>2. (arp["c"] => arp'["c"]) /\ (arp["s"] => arp'["s"]) /\ arp["c"]
    BY <1>12, <2>1 DEF Hosts, Unresolved
  <2>3. ~arp'["s"] => /\ \A x \in net' : x.to = "s" /\ x.flags = {"SYN"}
                      /\ \A p \in Ports : conns'["s"][p].state \in {"none", "SynReceived"}
    <3>1. SUFFICES ASSUME ~arp'["s"]
                   PROVE  /\ \A x \in net' : x.to = "s" /\ x.flags = {"SYN"}
                          /\ \A p \in Ports : conns'["s"][p].state \in {"none", "SynReceived"}
      OBVIOUS
    <3>2. ~arp["s"] /\ h = "s"  BY <1>12, <2>2, <3>1 DEF Unresolved
    <3>3. net' = net  BY <2>1, <3>1, <3>2
    <3>4. QED  BY <1>12, <3>2, <3>3 DEF Unresolved, St
  <2>4. ~(arp'["c"] /\ arp'["s"])
          => \A p \in Ports : conns'["c"][p].state \in {"none", "Busy", "SynSent"}
    BY <1>12, <2>2 DEF Unresolved, St
  <2>5. Unresolved'  BY <2>2, <2>3, <2>4 DEF Unresolved, St
  <2>6. ConnsNeverStuck'  BY <2>1 DEF ConnsNeverStuck, Shapes
  <2>7. QED  BY <1>1, <2>5, <2>6
<1>13. ASSUME NEW m \in net, RcvSyn(m)  PROVE LockInv'
  <2> DEFINE c == NewConn("SynReceived", Wrap(m.seq + 1), m.seq)
  <2>1. m.port \in Ports /\ c.state = "SynReceived" /\ m.to = "s" /\ "s" \in Hosts
    BY <1>13 DEF Shapes, NewConn, RcvSyn, Arrives, Hosts
  <2>2. conns' = conns \/ conns' = [conns EXCEPT !["s"][m.port] = c]
    BY <1>13 DEF RcvSyn, SetConn
  <2> HIDE DEF c
  <2>3. \A p \in Ports : /\ conns'["c"][p] = conns["c"][p]
                         /\ conns'["s"][p].state \in {St("s", p), "SynReceived"}
    <3>1. CASE conns' = conns  BY <3>1 DEF St
    <3>2. CASE conns' = [conns EXCEPT !["s"][m.port] = c]
      <4>1. \A g \in Hosts, q \in Ports :
              conns'[g][q] = IF g = "s" /\ q = m.port THEN c ELSE conns[g][q]
        BY <2>1, <3>2 DEF Shapes
      <4>2. QED  BY <2>1, <4>1 DEF Hosts, St
    <3>3. QED  BY <2>2, <3>1, <3>2
  <2>4. \E segs : Transmit("s", "listeners", segs)  BY <1>13 DEF RcvSyn
  <2>5. QED  BY <1>12, <2>1, <2>3, <2>4
<1>14. ASSUME NEW h \in Hosts, NEW m \in net, RcvStray(h, m)  PROVE LockInv'
  <2>1. m.to = h /\ conns' = conns /\ \E segs : Transmit(h, "listeners", segs)
    BY <1>14 DEF RcvStray, Arrives
  <2>2. QED  BY <1>12, <2>1 DEF St
<1>15. ASSUME NEW h \in Hosts, NEW m \in net,
              \/ RcvRst(h, m) \/ RcvInSynReceived(h, m) \/ RcvInLastAck(h, m)
       PROVE  LockInv'
  <2>1. m.flags # {"SYN"}  BY <1>15 DEF RcvRst, RcvInSynReceived, RcvInLastAck
  <2>2. Both  BY <2>1, BeyondSyn
  <2>3. QED  BY <1>4, <1>15, <2>2 DEF RcvRst, RcvInSynReceived, RcvInLastAck
<1>16. ASSUME NEW h \in Hosts, NEW m \in net, RcvInSynSent(h, m)  PROVE LockInv'
  <2>1. m.flags # {"SYN"}  BY <1>16 DEF RcvInSynSent
  <2>2. Both  BY <2>1, BeyondSyn
  <2>3. QED  BY <1>3, <1>16, <2>2 DEF RcvInSynSent
<1>17. ASSUME NEW h \in Hosts, NEW m \in net, RcvInEstablished(h, m) \/ RcvInFinWait(h, m)
       PROVE  LockInv'
  <2>1. St(h, m.port) \in {"Established", "FinWait1", "FinWait2"} /\ m.port \in Ports
    BY <1>17 DEF RcvInEstablished, RcvInFinWait, Arm, St, Shapes
  <2>2. Both  BY <2>1, BeyondHandshake
  <2>3. \/ \E segs, c : SendAndSet(h, m.port, segs, c)
        \/ UNCHANGED <<arp, stuck>>
    BY <1>17 DEF RcvInEstablished, RcvInFinWait
  <2>4. QED  BY <1>3, <1>4, <2>2, <2>3
<1>18. QED
  BY <1>7, <1>8, <1>9, <1>10, <1>11, <1>13, <1>14, <1>15, <1>16, <1>17 DEF Next

\* Whatever the caches hold at first, the invariant holds.
LEMMA InitLock == Init => LockInv
<1> SUFFICES ASSUME Init  PROVE LockInv
  OBVIOUS
<1>1. PICK B \in Busy :
        conns = [h \in Hosts |-> [p \in Ports |->
                   IF h = "c" /\ p \in B THEN [NoConn EXCEPT !.state = "Busy"] ELSE NoConn]]
  BY DEF Init
<1>2. NoConn.state = "none" /\ [NoConn EXCEPT !.state = "Busy"].state = "Busy"  BY DEF NoConn
<1>3. \A p \in Ports : St("s", p) = "none" /\ St("c", p) \in {"none", "Busy"}
  BY <1>1, <1>2 DEF St, Hosts
<1>4. PortLo \in Nat /\ PortHi \in Nat /\ PortLo < PortHi  BY TcpAssumption
<1>5. conns = [h \in Hosts |-> [p \in Ports |-> conns[h][p]]]  BY <1>1
<1>6. Shapes  BY <1>4, <1>5 DEF Init, Shapes, Ports
<1>7. Unresolved  BY <1>3 DEF Init, Unresolved
<1>8. ConnsNeverStuck  BY DEF Init, ConnsNeverStuck
<1>9. QED  BY <1>6, <1>7, <1>8 DEF LockInv

\* No machine ever waits for TCP_CONNECTIONS while it holds it: for any ports,
\* connections and bytes, whatever the ARP caches hold at first, and however
\* the network loses, repeats and reorders segments.
THEOREM TcpConnsNeverStuck == Spec => []ConnsNeverStuck
<1>1. LockInv /\ [Next]_vars => LockInv'  BY NextLock
<1>2. LockInv => ConnsNeverStuck  BY DEF LockInv
<1>3. QED  BY <1>1, <1>2, InitLock, PTL DEF Spec

-----------------------------------------------------------------------------
(* The accept queue.                                                       *)

\* An entry with a state, which is one of the listener's only if it is not empty.
Entered(h, c) == "state" \in DOMAIN c /\ (h = "s" => c.state # "none")

\* A step that enters a connection and leaves the queue alone.
LEMMA EnterKeeps ==
  ASSUME QueueInv, Shapes', NEW h \in Hosts, NEW p \in Ports, NEW c, Entered(h, c),
         conns' = conns \/ conns' = [conns EXCEPT ![h][p] = c],
         accept_queue' = accept_queue, open'["s"] = open["s"]
  PROVE  QueueInv'
<1>1. \A g \in Hosts, q \in Ports :
        conns'[g][q] = conns[g][q] \/ (g = h /\ conns'[g][q] = c)
  <2>1. CASE conns' = conns  BY <2>1
  <2>2. CASE conns' = [conns EXCEPT ![h][p] = c]
    <3>1. \A g \in Hosts, q \in Ports :
            conns'[g][q] = IF g = h /\ q = p THEN c ELSE conns[g][q]
      BY <2>2 DEF QueueInv, Shapes
    <3>2. QED  BY <3>1
  <2>3. QED  BY <2>1, <2>2
<1>2. \A g \in Hosts, q \in Ports : "state" \in DOMAIN conns'[g][q]
  BY <1>1 DEF QueueInv, Entered
<1>3. \A q \in Ports : conns["s"][q].state # "none" => conns'["s"][q].state # "none"
  BY <1>1 DEF Entered, Hosts
<1>4. accept_queue \in Seq(Ports) /\ \A i \in DOMAIN accept_queue : accept_queue[i] \in Ports
  BY DEF QueueInv, Shapes
<1>5. open["s"] \subseteq Ports  BY DEF QueueInv, Shapes, Hosts
<1>6. AcceptedOnce'  BY DEF QueueInv, AcceptedOnce, IsInjective, ToSet
<1>7. QED  BY <1>2, <1>3, <1>4, <1>5, <1>6 DEF QueueInv, St

\* A new entry at the end of the queue, for a port that was not in the table.
LEMMA AppendKeeps ==
  ASSUME QueueInv, NEW p \in Ports, St("s", p) = "none"
  PROVE  LET z == Append(accept_queue, p)
         IN  /\ IsInjective(z) /\ ToSet(z) \cap open["s"] = {}
             /\ \A i \in DOMAIN z : z[i] = p \/ St("s", z[i]) # "none"
<1> DEFINE q == accept_queue
           z == Append(q, p)
           n == Len(q)
<1>1. q \in Seq(Ports) /\ n \in Nat /\ DOMAIN q = 1 .. n  BY DEF QueueInv, Shapes
<1>2. /\ \A i \in 1 .. n : St("s", q[i]) # "none" /\ q[i] # p /\ q[i] \notin open["s"]
      /\ \A i, j \in 1 .. n : q[i] = q[j] => i = j
  BY <1>1 DEF QueueInv, AcceptedOnce, IsInjective, ToSet
<1>3. DOMAIN z = 1 .. n + 1 /\ z[n + 1] = p /\ \A i \in 1 .. n : z[i] = q[i]  BY <1>1
<1>4. p \notin open["s"]  BY DEF QueueInv
<1> HIDE DEF z, q, n
<1>5. \A i \in 1 .. n + 1 : i \in 1 .. n \/ i = n + 1  BY <1>1
<1>6. \A i \in DOMAIN z : z[i] = p \/ St("s", z[i]) # "none"  BY <1>2, <1>3, <1>5
<1>7. \A i \in DOMAIN z : z[i] \notin open["s"]  BY <1>2, <1>3, <1>4, <1>5
<1>8. \A i, j \in DOMAIN z : z[i] = z[j] => i = j  BY <1>2, <1>3, <1>5
<1>9. IsInjective(z) /\ ToSet(z) \cap open["s"] = {}  BY <1>7, <1>8 DEF IsInjective, ToSet
<1>10. QED  BY <1>6, <1>9 DEF z, q

\* accept moves one connection from the queue to the program.
LEMMA AcceptKeeps ==
  ASSUME QueueInv, Shapes', Accept
  PROVE  QueueInv'
<1> DEFINE q == accept_queue
           z == accept_queue'
           n == Len(q)
<1>1. PICK i \in DOMAIN q :
        /\ conns["s"][q[i]].state = "Established"
        /\ z = RemoveAt(q, i) /\ open' = [open EXCEPT !["s"] = @ \cup {q[i]}]
  BY DEF Accept
<1>2. q \in Seq(Ports) /\ n \in Nat /\ DOMAIN q = 1 .. n /\ open \in [Hosts -> SUBSET Ports]
  BY DEF QueueInv, Shapes
<1>3. DOMAIN z = 1 .. n - 1 /\ \A j \in 1 .. n - 1 : z[j] = IF j < i THEN q[j] ELSE q[j + 1]
  BY <1>1, <1>2, RemoveAtSeq
<1>4. /\ \A j \in 1 .. n : St("s", q[j]) # "none" /\ q[j] \notin open["s"]
      /\ \A j, k \in 1 .. n : q[j] = q[k] => j = k
  BY <1>2 DEF QueueInv, AcceptedOnce, IsInjective, ToSet
<1>5. open'["s"] = open["s"] \cup {q[i]} /\ conns' = conns  BY <1>1, <1>2 DEF Accept, Hosts
<1>6. i \in 1 .. n  BY <1>2
<1> DEFINE w(j) == IF j < i THEN j ELSE j + 1
<1> HIDE DEF z, q, n
<1>7. \A j \in 1 .. n - 1 : w(j) \in 1 .. n /\ w(j) # i /\ z[j] = q[w(j)]
  BY <1>2, <1>3, <1>6
<1>8. \A j, k \in 1 .. n - 1 : w(j) = w(k) => j = k  BY <1>2, <1>6
<1> HIDE DEF w
<1>9. \A j, k \in 1 .. n - 1 : z[j] = z[k] => j = k  BY <1>4, <1>7, <1>8
<1>10. \A j \in 1 .. n - 1 : z[j] \notin open'["s"] /\ St("s", z[j]) # "none"
  BY <1>4, <1>5, <1>6, <1>7
<1>11. IsInjective(z) /\ ToSet(z) \cap open'["s"] = {}
  BY <1>3, <1>9, <1>10 DEF IsInjective, ToSet
<1>12. \A p \in open'["s"] : St("s", p) # "none"  BY <1>4, <1>5, <1>6 DEF QueueInv
<1>13. QED  BY <1>3, <1>5, <1>10, <1>11, <1>12 DEF QueueInv, AcceptedOnce, St, z

\* Every step keeps the queue.
LEMMA NextQueue == ASSUME QueueInv, [Next]_vars PROVE QueueInv'
<1>1. Shapes'  BY NextShapes DEF QueueInv
<1>2. ASSUME NEW h \in Hosts, NEW p \in Ports, NEW segs, NEW c, Entered(h, c),
             SendAndSet(h, p, segs, c), accept_queue' = accept_queue, open' = open
      PROVE  QueueInv'
  BY <1>1, <1>2, EnterKeeps DEF SendAndSet
<1>3. ASSUME NEW h \in Hosts, NEW p \in Ports, NEW c, Entered(h, c),
             SetConn(h, p, c), accept_queue' = accept_queue, open'["s"] = open["s"]
      PROVE  QueueInv'
  BY <1>1, <1>3, EnterKeeps DEF SetConn
<1>4. ASSUME conns' = conns, accept_queue' = accept_queue, open'["s"] = open["s"]
      PROVE  QueueInv'
  BY <1>1, <1>4 DEF QueueInv, AcceptedOnce, St
<1>5. CASE Listen \/ ConnectProbe \/ UNCHANGED vars
  BY <1>4, <1>5 DEF Listen, ConnectProbe, vars
<1>6. CASE ConnectSyn
  <2>1. Entered("c", NewConn("SynSent", 0, 0))  BY DEF Entered, NewConn
  <2>2. QED  BY <1>3, <1>6, <2>1, CandidateIsPort DEF ConnectSyn, QueueInv, Hosts
<1>7. CASE ConnectDone
  <2>1. Entered("c", NoConn) /\ port \in Ports  BY DEF Entered, NoConn, QueueInv, Shapes
  <2>2. open'["s"] = open["s"]  BY <1>7 DEF ConnectDone, QueueInv, Shapes, Hosts
  <2>3. QED  BY <1>3, <1>4, <1>7, <2>1, <2>2 DEF ConnectDone, Hosts
<1>8. CASE Accept  BY <1>1, <1>8, AcceptKeeps
<1>9. ASSUME NEW h \in Hosts, NEW p \in Ports  PROVE "state" \in DOMAIN conns[h][p]
  BY DEF QueueInv
<1>10. ASSUME NEW h \in Hosts, NEW p \in Ports, Send(h, p)  PROVE QueueInv'
  <2>1. PICK n : SendAndSet(h, p, Chunks(h, p, n),
                   [conns[h][p] EXCEPT !.snd_nxt = Wrap(@ + n)])
    BY <1>10 DEF Send
  <2>2. Entered(h, [conns[h][p] EXCEPT !.snd_nxt = Wrap(@ + n)])
    BY <1>9, <1>10 DEF Send, Entered
  <2>3. QED  BY <1>2, <1>10, <2>1, <2>2 DEF Send
<1>11. ASSUME NEW h \in Hosts, NEW p \in Ports, Recv(h, p)  PROVE QueueInv'
  <2>1. PICK n \in 1 .. Len(conns[h][p].recv_buffer) :
          SetConn(h, p, [conns[h][p] EXCEPT !.taken = @ \o SubSeq(conns[h][p].recv_buffer, 1, n),
                                            !.recv_buffer = SubSeq(@, n + 1, Len(@))])
    BY <1>11 DEF Recv
  <2> DEFINE c == [conns[h][p] EXCEPT !.taken = @ \o SubSeq(conns[h][p].recv_buffer, 1, n),
                                      !.recv_buffer = SubSeq(@, n + 1, Len(@))]
  <2>2. c.state = conns[h][p].state /\ "state" \in DOMAIN c  BY <1>9
  <2>3. h = "s" => conns[h][p].state # "none"  BY <1>11 DEF Recv, MayCall, QueueInv, St
  <2> HIDE DEF c
  <2>4. SetConn(h, p, c) /\ Entered(h, c)  BY <2>1, <2>2, <2>3 DEF c, Entered
  <2>5. QED  BY <1>3, <1>11, <2>4 DEF Recv
<1>12. ASSUME NEW h \in Hosts, NEW p \in Ports, Close(h, p)  PROVE QueueInv'
  <2> DEFINE c == [conns[h][p] EXCEPT !.snd_nxt = Wrap(@ + 1),
                                      !.state = IF @ = "Established" THEN "FinWait1" ELSE "LastAck"]
  <2>1. "state" \in DOMAIN c /\ c.state \in {"FinWait1", "LastAck"}  BY <1>9
  <2>2. \E segs : SendAndSet(h, p, segs, c)  BY <1>12 DEF Close
  <2> HIDE DEF c
  <2>3. Entered(h, c)  BY <2>1 DEF Entered
  <2>4. QED  BY <1>2, <1>12, <2>2, <2>3 DEF Close
<1>13. ASSUME NEW m \in net, RcvSyn(m)  PROVE QueueInv'
  <2> DEFINE c == NewConn("SynReceived", Wrap(m.seq + 1), m.seq)
             p == m.port
  <2>1. /\ p \in Ports /\ St("s", p) = "none" /\ "s" \in Hosts
        /\ c.state = "SynReceived" /\ Entered("s", c)
    BY <1>13 DEF QueueInv, Shapes, RcvSyn, St, NewConn, Entered, Hosts
  <2>2. open' = open /\ \/ conns' = conns /\ accept_queue' = accept_queue
                        \/ /\ conns' = [conns EXCEPT !["s"][p] = c]
                           /\ accept_queue' \in {accept_queue, Append(accept_queue, p)}
    BY <1>13 DEF RcvSyn, SetConn
  <2> HIDE DEF c, p
  <2>3. CASE accept_queue' = accept_queue
    BY <1>1, <2>1, <2>2, <2>3, EnterKeeps
  <2>4. CASE accept_queue' = Append(accept_queue, p) /\ conns' = [conns EXCEPT !["s"][p] = c]
    <3> DEFINE z == Append(accept_queue, p)
    <3>1. /\ IsInjective(z) /\ ToSet(z) \cap open["s"] = {}
          /\ \A i \in DOMAIN z : z[i] = p \/ St("s", z[i]) # "none"
      BY <2>1, AppendKeeps
    <3>2. z \in Seq(Ports) /\ \A i \in DOMAIN z : z[i] \in Ports
      <4>1. accept_queue \in Seq(Ports)  BY DEF QueueInv, Shapes
      <4>2. z \in Seq(Ports)  BY <2>1, <4>1
      <4> HIDE DEF z
      <4>3. QED  BY <4>2
    <3>3. \A g \in Hosts, q \in Ports :
            conns'[g][q] = IF g = "s" /\ q = p THEN c ELSE conns[g][q]
      BY <2>1, <2>4 DEF QueueInv, Shapes
    <3>4. \A g \in Hosts, q \in Ports : "state" \in DOMAIN conns'[g][q]
      BY <1>9, <2>1, <3>3 DEF Entered
    <3>5. \A q \in Ports : q = p \/ St("s", q) # "none" => conns'["s"][q].state # "none"
      BY <2>1, <3>3 DEF St
    <3>6. open["s"] \subseteq Ports /\ \A q \in open["s"] : St("s", q) # "none"
      BY <2>1 DEF QueueInv, Shapes
    <3> HIDE DEF z
    <3>7. accept_queue' = z  BY <2>4 DEF z
    <3>8. QED  BY <1>1, <2>2, <3>1, <3>2, <3>4, <3>5, <3>6, <3>7 DEF QueueInv, AcceptedOnce, St
  <2>5. QED  BY <2>2, <2>3, <2>4
<1>14. ASSUME NEW h \in Hosts, NEW m \in net, RcvStray(h, m)  PROVE QueueInv'
  BY <1>4, <1>14 DEF RcvStray
<1>15. ASSUME NEW h \in Hosts, NEW m \in net  PROVE m.port \in Ports
  BY DEF QueueInv, Shapes
<1>16. ASSUME NEW h \in Hosts, NEW p \in Ports, NEW st, st # "none"
       PROVE  Entered(h, [conns[h][p] EXCEPT !.state = st])
  BY <1>9, <1>16 DEF Entered
<1>17. ASSUME NEW h \in Hosts, NEW m \in net,
              RcvRst(h, m) \/ RcvInSynReceived(h, m) \/ RcvInLastAck(h, m)
       PROVE  QueueInv'
  <2>1. \E st : st # "none" /\ SetConn(h, m.port, [conns[h][m.port] EXCEPT !.state = st])
    BY <1>17 DEF RcvRst, RcvInSynReceived, RcvInLastAck
  <2>2. accept_queue' = accept_queue /\ open' = open
    BY <1>17 DEF RcvRst, RcvInSynReceived, RcvInLastAck, Others
  <2>3. QED  BY <1>3, <1>15, <1>16, <2>1, <2>2
<1>18. ASSUME NEW h \in Hosts, NEW m \in net, RcvInSynSent(h, m)  PROVE QueueInv'
  <2> DEFINE c == [conns[h][m.port] EXCEPT !.irs = m.seq, !.rcv_nxt = Wrap(m.seq + 1),
                                           !.state = "Established"]
  <2>1. "state" \in DOMAIN c /\ c.state = "Established"  BY <1>9, <1>15
  <2>2. \E segs : SendAndSet(h, m.port, segs, c)  BY <1>18 DEF RcvInSynSent
  <2> HIDE DEF c
  <2>3. Entered(h, c)  BY <2>1 DEF Entered
  <2>4. QED  BY <1>2, <1>15, <1>18, <2>2, <2>3 DEF RcvInSynSent, Others
<1>19. ASSUME NEW h \in Hosts, NEW m \in net, RcvInFinWait(h, m)  PROVE QueueInv'
  <2> DEFINE b == conns[h][m.port]
             n == Wrap(b.rcv_nxt + 1)
             c == [b EXCEPT !.rcv_nxt = n, !.state = "TimeWait"]
  <2>1. "state" \in DOMAIN c /\ c.state = "TimeWait"  BY <1>9, <1>15
  <2>2. \/ \E segs : SendAndSet(h, m.port, segs, c)
        \/ SetConn(h, m.port, [b EXCEPT !.state = "FinWait2"])
    BY <1>19 DEF RcvInFinWait
  <2> HIDE DEF c
  <2>3. Entered(h, c)  BY <2>1 DEF Entered
  <2>4. accept_queue' = accept_queue /\ open' = open  BY <1>19 DEF RcvInFinWait, Others
  <2>5. QED  BY <1>2, <1>3, <1>15, <1>16, <2>2, <2>3, <2>4
<1>20. ASSUME NEW h \in Hosts, NEW m \in net, RcvInEstablished(h, m)  PROVE QueueInv'
  <2> DEFINE b == conns[h][m.port]
             after(d, r, x, st) ==
               [b EXCEPT !.recv_buffer = @ \o SubSeq(d, 1, Min({r, Len(d)})),
                         !.dropped = @ \/ Len(d) > r, !.rcv_nxt = x, !.state = st]
  <2>1. b.state = "Established"  BY <1>20 DEF RcvInEstablished, Arm
  <2>2. ASSUME NEW d, NEW r, NEW x, NEW st \in {"Established", "CloseWait"}
        PROVE  Entered(h, after(d, r, x, st))
    BY <1>9, <1>15 DEF Entered
  <2>3. \E d, r, x : \E st \in {"Established", "CloseWait"} :
           \/ \E segs : SendAndSet(h, m.port, segs, after(d, r, x, st))
           \/ SetConn(h, m.port, after(d, r, x, st))
    <3> DEFINE fin == "FIN" \in m.flags
               d == IF Expected(b, m) THEN m.data ELSE <<>>
               nxt == Wrap(b.rcv_nxt + Len(d))
               r == RecvCap - Len(b.recv_buffer)
               x == IF fin THEN Wrap(nxt + 1) ELSE nxt
               st == IF fin THEN "CloseWait" ELSE b.state
    <3>1. \/ \E segs : SendAndSet(h, m.port, segs, after(d, r, x, st))
          \/ SetConn(h, m.port, after(d, r, x, st))
      BY <1>20 DEF RcvInEstablished
    <3>2. st \in {"Established", "CloseWait"}  BY <2>1
    <3> HIDE DEF d, r, x, st, after
    <3>3. QED  BY <3>1, <3>2
  <2>4. accept_queue' = accept_queue /\ open' = open  BY <1>20 DEF RcvInEstablished, Others
  <2> HIDE DEF after
  <2>5. QED  BY <1>2, <1>3, <1>15, <2>2, <2>3, <2>4
<1>21. QED
  BY <1>5, <1>6, <1>7, <1>8, <1>10, <1>11, <1>12, <1>13, <1>14, <1>17, <1>18, <1>19, <1>20
  DEF Next

\* Nothing is queued or accepted at first.
LEMMA InitQueue == Init => QueueInv
<1> SUFFICES ASSUME Init  PROVE QueueInv
  OBVIOUS
<1>1. Shapes  BY InitLock DEF LockInv
<1>2. \A h \in Hosts, p \in Ports : "state" \in DOMAIN conns[h][p]
  BY DEF Init, NoConn
<1>3. accept_queue = <<>> /\ open["s"] = {}  BY DEF Init, Hosts
<1>4. AcceptedOnce  BY <1>3 DEF AcceptedOnce, IsInjective, ToSet
<1>5. QED  BY <1>1, <1>2, <1>3, <1>4 DEF QueueInv

\* A connection is queued at most once and accepted at most once, for any
\* backlog and any number of connections, however often the network repeats
\* their segments.
THEOREM TcpAcceptedOnce == Spec => []AcceptedOnce
<1>1. QueueInv /\ [Next]_vars => QueueInv'  BY NextQueue
<1>2. QueueInv => AcceptedOnce  BY DEF QueueInv
<1>3. QED  BY <1>1, <1>2, InitQueue, PTL DEF Spec

-----------------------------------------------------------------------------
(* Sequence numbers.                                                       *)

Nums == 0 .. SeqSpace - 1

\* wrapping_add, in arithmetic: its range, a quotient, and small numbers.
LEMMA WrapNum == \A n \in Int : Wrap(n) \in Nums
BY TcpAssumption DEF Wrap, Nums

\* Every number is a multiple of the number space and what is left of it.
LEMMA WrapQuotient == ASSUME NEW n \in Int PROVE \E q \in Int : n = q * SeqSpace + Wrap(n)
<1>1. SeqSpace \in Nat \ {0}  BY TcpAssumption
<1>2. n \div SeqSpace \in Int /\ n = (n \div SeqSpace) * SeqSpace + (n % SeqSpace)  BY <1>1
<1>3. QED  BY <1>2 DEF Wrap

\* A number of the number space stays as it is.
LEMMA WrapSmall == \A n \in Nums : Wrap(n) = n
<1>1. SeqSpace \in Nat \ {0}  BY TcpAssumption
<1>2. QED  BY <1>1 DEF Wrap, Nums

\* No multiple of the number space but 0 is near 0.
LEMMA NoMultiple ==
  ASSUME NEW q \in Int, NEW r \in Int, -SeqSpace < r, r < SeqSpace, r = q * SeqSpace
  PROVE  r = 0
<1>1. SeqSpace \in Nat \ {0}  BY TcpAssumption
<1>2. CASE q >= 1  BY <1>1, <1>2
<1>3. CASE q <= -1  BY <1>1, <1>3
<1>4. QED  BY <1>1, <1>2, <1>3

\* Wrapping twice is wrapping once.
LEMMA WrapAdd ==
  ASSUME NEW a \in Int, NEW b \in Int
  PROVE  Wrap(Wrap(a) + b) = Wrap(a + b)
<1>1. SeqSpace \in Nat \ {0}  BY TcpAssumption
<1> DEFINE x == Wrap(a)
           y == Wrap(x + b)
           z == Wrap(a + b)
<1>2. x \in Nums /\ y \in Nums /\ z \in Nums  BY WrapNum DEF Nums
<1>3. PICK q \in Int : a = q * SeqSpace + x  BY WrapQuotient
<1>4. PICK q1 \in Int : x + b = q1 * SeqSpace + y  BY <1>2, WrapQuotient DEF Nums
<1>5. PICK q2 \in Int : a + b = q2 * SeqSpace + z  BY WrapQuotient
<1> HIDE DEF x, y, z
<1>6. z - y = (q + q1 - q2) * SeqSpace  BY <1>1, <1>2, <1>3, <1>4, <1>5 DEF Nums
<1>7. z - y = 0  BY <1>1, <1>2, <1>6, NoMultiple DEF Nums
<1>8. QED  BY <1>2, <1>7 DEF x, y, z, Nums

\* Numbers less than the number space apart wrap to different numbers.
LEMMA WrapSame ==
  ASSUME NEW a \in Int, NEW b \in Int, Wrap(a) = Wrap(b), a - b < SeqSpace, b - a < SeqSpace
  PROVE  a = b
<1>1. SeqSpace \in Nat \ {0}  BY TcpAssumption
<1> DEFINE x == Wrap(a)
<1>2. PICK q \in Int : a = q * SeqSpace + x  BY WrapQuotient
<1>3. PICK r \in Int : b = r * SeqSpace + x  BY WrapQuotient
<1>4. x \in Int  BY WrapNum DEF Nums
<1> HIDE DEF x
<1>5. a - b = (q - r) * SeqSpace  BY <1>1, <1>2, <1>3, <1>4
<1>6. QED  BY <1>1, <1>5, NoMultiple

\* How far a number is past the one after another: the bytes sent since iss,
\* or received since irs.
Past(x, i) == Wrap(x - i - 1)

\* The number after the initial one counts no byte, and every byte one more.
LEMMA PastFirst == ASSUME NEW i \in Nums PROVE Past(Wrap(i + 1), i) = 0
<1>1. SeqSpace \in Nat \ {0}  BY TcpAssumption
<1>2. Wrap(Wrap(i + 1) + (-i - 1)) = Wrap(i + 1 + (-i - 1))  BY <1>1, WrapAdd DEF Nums
<1>3. 0 \in Nums /\ i + 1 + (-i - 1) = 0  BY <1>1 DEF Nums
<1>4. Wrap(i + 1) \in Int  BY <1>1, WrapNum DEF Nums
<1>5. Wrap(i + 1) + (-i - 1) = Wrap(i + 1) - i - 1  BY <1>1, <1>4 DEF Nums
<1>6. QED  BY <1>2, <1>3, <1>5, WrapSmall DEF Past

\* A number n further on is n further past.
LEMMA PastMore ==
  ASSUME NEW x \in Nums, NEW i \in Nums, NEW n \in Nat, Past(x, i) + n < SeqSpace
  PROVE  Past(Wrap(x + n), i) = Past(x, i) + n
<1>1. SeqSpace \in Nat \ {0}  BY TcpAssumption
<1>2. Wrap(Wrap(x + n) + (-i - 1)) = Wrap(x + n + (-i - 1))  BY <1>1, WrapAdd DEF Nums
<1>3. Wrap(Wrap(x - i - 1) + n) = Wrap(x - i - 1 + n)  BY <1>1, WrapAdd DEF Nums
<1>4. x + n + (-i - 1) = x - i - 1 + n  BY <1>1 DEF Nums
<1>5. Wrap(x + n) \in Nums /\ Wrap(x - i - 1) \in Nums  BY <1>1, WrapNum DEF Nums
<1>6. Wrap(x + n) + (-i - 1) = Wrap(x + n) - i - 1  BY <1>1, <1>5 DEF Nums
<1>7. Wrap(x - i - 1) + n \in Nums  BY <1>1, <1>5 DEF Nums, Past
<1>8. Wrap(Wrap(x - i - 1) + n) = Wrap(x - i - 1) + n  BY <1>7, WrapSmall
<1>9. QED  BY <1>2, <1>3, <1>4, <1>6, <1>8 DEF Past

\* It determines the number.
LEMMA PastInverse ==
  ASSUME NEW x \in Nums, NEW i \in Nums
  PROVE  Past(x, i) \in Nums /\ x = Wrap(i + 1 + Past(x, i))
<1>1. SeqSpace \in Nat \ {0}  BY TcpAssumption
<1>2. Wrap(Wrap(x - i - 1) + (i + 1)) = Wrap(x - i - 1 + (i + 1))  BY <1>1, WrapAdd DEF Nums
<1>3. x - i - 1 + (i + 1) = x  BY <1>1 DEF Nums
<1>4. Wrap(x - i - 1) \in Nums  BY <1>1, WrapNum DEF Nums
<1>5. Wrap(x - i - 1) + (i + 1) = i + 1 + Wrap(x - i - 1)  BY <1>1, <1>4 DEF Nums
<1>6. Wrap(x) = x  BY WrapSmall
<1>7. QED  BY <1>2, <1>3, <1>4, <1>5, <1>6 DEF Past

-----------------------------------------------------------------------------
(* Initial numbers.                                                        *)

\* The initial numbers of the first K connections, and the longest stream.
Known(i, K) == \E k \in 0 .. K - 1 : i = Isn[k]
Limit == IsnGap - 3

\* The assumptions on the constants, as the arithmetic uses them.
LEMMA Sizes ==
  /\ SeqSpace \in Nat \ {0} /\ IsnGap \in Nat /\ MaxIsns \in Nat /\ Limit \in Nat
  /\ MaxSend \in Nat /\ MaxSend <= Limit /\ MaxReply \in Nat /\ MaxReply <= Limit
  /\ Limit + 3 <= SeqSpace
<1>1. /\ PortLo \in Nat /\ PortHi \in Nat /\ PortLo < PortHi /\ MaxConnect \in Nat \ {0}
      /\ SeqSpace \in Nat \ {0} /\ IsnGap \in Nat
      /\ MaxSend \in Nat \ {0} /\ MaxSend + 2 < IsnGap
      /\ MaxReply \in Nat /\ MaxReply + 2 < IsnGap
  BY TcpAssumption
<1>2. MaxIsns \in Nat /\ MaxIsns >= 2  BY <1>1 DEF MaxIsns
<1>3. IsnGap <= SeqSpace
  <2>1. 0 \in 0 .. MaxIsns - 1 /\ 1 \in 0 .. MaxIsns - 1  BY <1>2
  <2>2. Isn[0] \in 0 .. SeqSpace - 1 /\ Isn[1] \in 0 .. SeqSpace - 1
    BY <2>1, TcpAssumption
  <2>3. Wrap(Isn[0] - Isn[1]) >= IsnGap  BY <2>1, TcpAssumption DEF Wrap
  <2>4. Wrap(Isn[0] - Isn[1]) \in 0 .. SeqSpace - 1  BY <2>2, WrapNum, <1>1 DEF Nums
  <2>5. QED  BY <1>1, <2>3, <2>4
<1>4. QED  BY <1>1, <1>2, <1>3 DEF Limit

\* Initial numbers are numbers.
LEMMA IsnNum == ASSUME NEW k \in 0 .. MaxIsns - 1 PROVE Isn[k] \in Nums
BY TcpAssumption DEF Nums

\* The distance between two positions is that between their streams.
LEMMA WrapDistance ==
  ASSUME NEW i \in Nums, NEW j \in Nums, NEW a \in Nat, NEW b \in Nat,
         Wrap(i + 1 + a) = Wrap(j + 1 + b)
  PROVE  Wrap(j - i) = Wrap(a - b)
<1>1. i \in Int /\ j \in Int  BY Sizes DEF Nums
<1>2. Wrap(Wrap(i + 1 + a) + (0 - i - 1 - b)) = Wrap(i + 1 + a + (0 - i - 1 - b))
  BY <1>1, WrapAdd
<1>3. Wrap(Wrap(j + 1 + b) + (0 - i - 1 - b)) = Wrap(j + 1 + b + (0 - i - 1 - b))
  BY <1>1, WrapAdd
<1>4. i + 1 + a + (0 - i - 1 - b) = a - b /\ j + 1 + b + (0 - i - 1 - b) = j - i
  BY <1>1
<1>5. QED  BY <1>2, <1>3, <1>4

\* Offsets within a stream never lead from one connection's numbers to
\* another's.
LEMMA IsnApart ==
  ASSUME NEW K \in Nat, K <= MaxIsns, NEW i, NEW j, Known(i, K), Known(j, K),
         NEW a \in 0 .. Limit, NEW b \in 0 .. Limit, Wrap(i + 1 + a) = Wrap(j + 1 + b)
  PROVE  i = j /\ a = b
<1>1. PICK k \in 0 .. K - 1 : i = Isn[k]  BY DEF Known
<1>2. PICK l \in 0 .. K - 1 : j = Isn[l]  BY DEF Known
<1>3. k \in 0 .. MaxIsns - 1 /\ l \in 0 .. MaxIsns - 1  BY Sizes
<1>4. i \in Nums /\ j \in Nums  BY <1>1, <1>2, <1>3, IsnNum
<1>5. Wrap(j - i) = Wrap(a - b) /\ Wrap(i - j) = Wrap(b - a)
  BY <1>4, Sizes, WrapDistance
<1>6. a >= b => Wrap(a - b) = a - b  BY Sizes, WrapSmall DEF Nums
<1>7. b >= a => Wrap(b - a) = b - a  BY Sizes, WrapSmall DEF Nums
<1>8. k = l
  <2>1. SUFFICES ASSUME k # l  PROVE FALSE
    OBVIOUS
  <2>2. Wrap(j - i) >= IsnGap /\ Wrap(i - j) >= IsnGap
    BY <1>1, <1>2, <1>3, <2>1, TcpAssumption DEF Wrap
  <2>3. QED  BY <1>5, <1>6, <1>7, <2>2, Sizes DEF Limit
<1>9. i = j  BY <1>1, <1>2, <1>8
<1>10. i - j = 0 /\ j - i = 0 /\ Wrap(0) = 0
  BY <1>4, <1>9, Sizes, WrapSmall DEF Nums
<1>11. QED  BY <1>5, <1>6, <1>7, <1>9, <1>10, Sizes

\* In particular a fresh initial number is new.
LEMMA FreshIsn ==
  ASSUME NEW K \in Nat, K + 1 <= MaxIsns, NEW i, Known(i, K)
  PROVE  i # Isn[K]
<1>1. PICK k \in 0 .. K - 1 : i = Isn[k]  BY DEF Known
<1>2. k \in 0 .. MaxIsns - 1 /\ K \in 0 .. MaxIsns - 1 /\ k # K  BY Sizes
<1>3. Isn[k] \in Nums /\ Isn[K] \in Nums  BY <1>2, IsnNum
<1>4. Wrap(Isn[k] - Isn[K]) >= IsnGap  BY <1>2, TcpAssumption DEF Wrap
<1>5. SUFFICES ASSUME Isn[k] = Isn[K]  PROVE FALSE
  BY <1>1
<1>6. Isn[k] - Isn[K] = 0 /\ Wrap(0) = 0  BY <1>3, <1>5, Sizes, WrapSmall DEF Nums
<1>7. QED  BY <1>4, <1>6, Sizes DEF Limit

-----------------------------------------------------------------------------
(* One connection, and one segment.                                        *)

Bytes == Nums \X Nat
Flags == {"SYN", "ACK", "FIN", "RST"}
Conns ==
  [state : TcpStates, iss : Nums, snd_nxt : Nums, rcv_nxt : Nums, irs : Nums,
   recv_buffer : Seq(Bytes), taken : Seq(Bytes), dropped : BOOLEAN]
Segments ==
  [to : Hosts, port : Ports, flags : SUBSET Flags, seq : Nums, ack : Nums, data : Seq(Bytes)]

\* The bytes that the peer's stream has advanced by, dropped ones included.
Heard(c) == Past(c.rcv_nxt, c.irs)

Live(c) == c.state \in {"SynSent", "SynReceived", "Established"}

\* Nothing was sent or received.
Fresh(c) == SentLen(c) = 0 /\ Received(c) = <<>> /\ ~c.dropped

\* Received are bytes of the stream that begins at irs, in order and, unless
\* some were dropped, without a gap.
InOrder(c) ==
  LET r == Received(c)
  IN  /\ \A i \in 1 .. Len(r) : r[i][1] = c.irs /\ (~c.dropped => r[i][2] = i)
      /\ \A i, j \in 1 .. Len(r) : i < j => r[i][2] < r[j][2]

\* The received bytes end where the count of the stream stands.
Flowing(c) ==
  LET r == Received(c)
  IN  /\ SentLen(c) <= Limit /\ Heard(c) <= Limit
      /\ ~c.dropped => Heard(c) = Len(r)
      /\ \A i \in 1 .. Len(r) : r[i][2] <= Heard(c)

\* A connection, when K initial numbers have been handed out.
ConnOK(c, K) ==
  /\ c \in Conns /\ Len(c.recv_buffer) <= RecvCap
  /\ Live(c) => Known(c.iss, K)
  /\ c.state \in {"SynSent", "SynReceived"} => Fresh(c)
  /\ c.state = "SynReceived" => Heard(c) = 0 /\ Known(c.irs, K)
  /\ c.state = "Established" => Flowing(c) /\ Known(c.irs, K)
  /\ InOrder(c)

\* The stream that a segment's data belongs to, and the bytes before it.
Source(m) == m.data[1][1]
Before(m) == m.data[1][2] - 1

\* The data of a segment is a run of one stream, numbered by seq.
Run(m, K) ==
  /\ Known(Source(m), K) /\ Before(m) \in 0 .. Limit /\ Before(m) + Len(m.data) <= Limit
  /\ m.seq = Wrap(Source(m) + 1 + Before(m))
  /\ \A k \in 1 .. Len(m.data) : m.data[k] = <<Source(m), Before(m) + k>>

SegOK(m, K) ==
  /\ m \in Segments
  /\ "SYN" \in m.flags => m.data = <<>> /\ Known(m.seq, K)
  /\ m.data # <<>> => Run(m, K)

\* Neither a SYN nor data.
Quiet(m) == m \in Segments /\ "SYN" \notin m.flags /\ m.data = <<>>

\* A quiet segment claims nothing.
LEMMA QuietOK == ASSUME NEW m, Quiet(m), NEW K PROVE SegOK(m, K)
BY DEF Quiet, SegOK

\* What was known stays known.
LEMMA KnownMore ==
  ASSUME NEW K \in Nat
  PROVE  /\ \A i : Known(i, K) => Known(i, K + 1)
         /\ \A c : ConnOK(c, K) => ConnOK(c, K + 1)
         /\ \A m : SegOK(m, K) => SegOK(m, K + 1)
         /\ Known(Isn[K], K + 1)
<1>1. \A i : Known(i, K) => Known(i, K + 1)  BY DEF Known
<1>2. Known(Isn[K], K + 1)  BY DEF Known
<1>3. \A c : ConnOK(c, K) => ConnOK(c, K + 1)  BY <1>1 DEF ConnOK
<1>4. \A m : SegOK(m, K) => SegOK(m, K + 1)  BY <1>1 DEF SegOK, Run
<1>5. QED  BY <1>1, <1>2, <1>3, <1>4

\* The bytes received are a sequence, as long as its two parts.
LEMMA ReceivedSeq ==
  ASSUME NEW c \in Conns
  PROVE  /\ c.taken \in Seq(Bytes) /\ c.recv_buffer \in Seq(Bytes)
         /\ Received(c) \in Seq(Bytes) /\ Len(Received(c)) \in Nat
         /\ Len(Received(c)) = Len(c.taken) + Len(c.recv_buffer)
<1>1. c.taken \in Seq(Bytes) /\ c.recv_buffer \in Seq(Bytes)  BY DEF Conns
<1> DEFINE a == c.taken
           b == c.recv_buffer
<1> HIDE DEF a, b
<1>2. a \in Seq(Bytes) /\ b \in Seq(Bytes)  BY <1>1 DEF a, b
<1>3. a \o b \in Seq(Bytes) /\ Len(a \o b) = Len(a) + Len(b)  BY <1>2, ConcatProperties
<1>4. Len(a \o b) \in Nat  BY <1>3, LenProperties
<1>5. QED  BY <1>1, <1>3, <1>4 DEF Received, a, b

\* If nothing was received, then nothing is in the buffer.
LEMMA NothingReceived ==
  ASSUME NEW c \in Conns, Received(c) = <<>>
  PROVE  InOrder(c) /\ c.recv_buffer = <<>> /\ Len(c.recv_buffer) = 0
<1>1. /\ c.taken \in Seq(Bytes) /\ c.recv_buffer \in Seq(Bytes)
      /\ Len(Received(c)) = Len(c.taken) + Len(c.recv_buffer)
  BY ReceivedSeq
<1>2. Len(Received(c)) = 0  BY EmptySeq
<1>3. Len(c.taken) \in Nat /\ Len(c.recv_buffer) \in Nat  BY <1>1, LenProperties
<1>4. Len(c.recv_buffer) = 0
  <2>1. \A x, y \in Nat : x + y = 0 => y = 0  OBVIOUS
  <2>2. Len(c.taken) + Len(c.recv_buffer) = 0  BY <1>1, <1>2, Zenon
  <2>3. QED  BY <1>3, <2>1, <2>2, Zenon
<1>5. QED  BY <1>1, <1>2, <1>4, EmptySeq DEF InOrder

\* The empty sequence, and a buffer that can hold something.
LEMMA Empties == /\ <<>> \in Seq(Bytes) /\ Len(<<>>) = 0 /\ <<>> \o <<>> = <<>>
                 /\ RecvCap \in Nat \ {0}
<1>1. <<>> \in Seq(Bytes) /\ Len(<<>>) = 0 /\ <<>> \o <<>> = <<>>
  BY EmptySeq, ConcatEmptySeq
<1>2. QED  BY <1>1, TcpAssumption

\* No entry, an entry for another machine, and the two kinds of new ones.
LEMMA NoConnOK ==
  ASSUME NEW K \in Nat
  PROVE  ConnOK(NoConn, K) /\ ConnOK([NoConn EXCEPT !.state = "Busy"], K)
<1>1. 0 \in Nums  BY Sizes DEF Nums
<1>2. ASSUME NEW st \in {"none", "Busy"}, NEW c,
             c = [state |-> st, iss |-> 0, snd_nxt |-> 0, rcv_nxt |-> 0, irs |-> 0,
                  recv_buffer |-> <<>>, taken |-> <<>>, dropped |-> FALSE]
      PROVE  ConnOK(c, K)
  <2>1. c \in Conns /\ Received(c) = <<>>
    BY <1>1, <1>2, Empties DEF Conns, TcpStates, Received
  <2>2. InOrder(c) /\ Len(c.recv_buffer) <= RecvCap  BY <2>1, NothingReceived, Empties
  <2>3. c.state \in {"none", "Busy"}  BY <1>2
  <2>4. QED  BY <2>1, <2>2, <2>3 DEF ConnOK, Live
<1>3. QED  BY <1>2 DEF NoConn

\* A new connection has the next initial number, and an empty stream.
LEMMA NewConnOK ==
  ASSUME isns \in Nat, isns + 1 <= MaxIsns, NEW st \in {"SynSent", "SynReceived"}, NEW nxt \in Nums, NEW irs \in Nums,
         st = "SynReceived" => nxt = Wrap(irs + 1) /\ Known(irs, isns)
  PROVE  /\ ConnOK(NewConn(st, nxt, irs), isns + 1)
         /\ SentLen(NewConn(st, nxt, irs)) = 0
         /\ NewConn(st, nxt, irs).state = st /\ NewConn(st, nxt, irs).irs = irs
         /\ NewConn(st, nxt, irs).iss = Isn[isns]
<1> DEFINE c == NewConn(st, nxt, irs)
<1>1. generate_isn = Isn[isns] /\ generate_isn \in Nums  BY IsnNum, Sizes DEF generate_isn
<1>2. Wrap(generate_isn + 1) \in Nums  BY <1>1, Sizes, WrapNum DEF Nums
<1>3. c \in Conns  BY <1>1, <1>2, Empties DEF Conns, TcpStates, NewConn
<1>4. /\ c.state = st /\ c.iss = Isn[isns] /\ c.snd_nxt = Wrap(Isn[isns] + 1) /\ c.rcv_nxt = nxt
      /\ c.irs = irs /\ c.taken = <<>> /\ c.recv_buffer = <<>> /\ ~c.dropped
  BY <1>1 DEF NewConn
<1> HIDE DEF c
<1>5. Received(c) = <<>> /\ InOrder(c) /\ Len(c.recv_buffer) <= RecvCap
  <2>1. Received(c) = <<>>  BY <1>4, Empties DEF Received
  <2>2. QED  BY <1>3, <2>1, NothingReceived, Empties
<1>6. SentLen(c) = 0  BY <1>1, <1>4, PastFirst DEF SentLen, Past
<1>7. st = "SynReceived" => Heard(c) = 0  BY <1>4, PastFirst DEF Heard
<1>8. Known(c.iss, isns + 1) /\ (st = "SynReceived" => Known(c.irs, isns + 1))
  BY <1>4, KnownMore
<1>9. ConnOK(c, isns + 1)  BY <1>3, <1>4, <1>5, <1>6, <1>7, <1>8 DEF ConnOK, Fresh
<1>10. QED  BY <1>4, <1>6, <1>9 DEF c

\* A connection that is over keeps what it received.
LEMMA EndedOK ==
  ASSUME NEW K, NEW c, ConnOK(c, K), NEW d \in Conns, ~Live(d), d.irs = c.irs,
         d.taken = c.taken, d.recv_buffer = c.recv_buffer, d.dropped = c.dropped
  PROVE  ConnOK(d, K)
<1>1. Received(d) = Received(c)  BY DEF Received
<1>2. InOrder(d)  BY <1>1 DEF ConnOK, InOrder
<1>3. QED  BY <1>2 DEF ConnOK, Live

\* The handshake ends with an empty stream in either direction.
LEMMA EstablishedOK ==
  ASSUME NEW K, NEW c, ConnOK(c, K), c.state \in {"SynSent", "SynReceived"}, NEW d \in Conns,
         d.state = "Established", d.iss = c.iss, d.snd_nxt = c.snd_nxt,
         d.taken = c.taken, d.recv_buffer = c.recv_buffer, d.dropped = c.dropped,
         Heard(d) = 0, Known(d.irs, K)
  PROVE  ConnOK(d, K) /\ SentLen(d) = SentLen(c)
<1>1. Fresh(c) /\ Known(c.iss, K) /\ Len(c.recv_buffer) <= RecvCap  BY DEF ConnOK, Live
<1>2. Received(d) = <<>> /\ SentLen(d) = 0 /\ SentLen(d) = SentLen(c) /\ ~d.dropped
  BY <1>1 DEF Fresh, Received, SentLen
<1>3. InOrder(d)  BY <1>2, NothingReceived
<1>4. Len(Received(d)) = 0 /\ 1 .. 0 = {}  BY <1>2, Empties
<1>5. Flowing(d)  BY <1>2, <1>4, Sizes DEF Flowing
<1>6. QED  BY <1>1, <1>2, <1>3, <1>5 DEF ConnOK, Live

\* A send moves snd_nxt over the bytes sent.
LEMMA SendOK ==
  ASSUME NEW K, NEW c, ConnOK(c, K), c.state = "Established", NEW n \in Nat,
         SentLen(c) + n <= Limit
  PROVE  LET d == [c EXCEPT !.snd_nxt = Wrap(@ + n)]
         IN  ConnOK(d, K) /\ SentLen(d) = SentLen(c) + n
<1> DEFINE d == [c EXCEPT !.snd_nxt = Wrap(@ + n)]
<1>1. c \in Conns /\ c.snd_nxt \in Nums /\ c.iss \in Nums  BY DEF ConnOK, Conns
<1>2. Wrap(c.snd_nxt + n) \in Nums  BY <1>1, Sizes, WrapNum DEF Nums
<1>3. d \in Conns  BY <1>1, <1>2 DEF Conns
<1>4. /\ d.state = c.state /\ d.iss = c.iss /\ d.snd_nxt = Wrap(c.snd_nxt + n)
      /\ d.rcv_nxt = c.rcv_nxt /\ d.irs = c.irs /\ d.taken = c.taken
      /\ d.recv_buffer = c.recv_buffer /\ d.dropped = c.dropped
  BY <1>1 DEF Conns
<1> HIDE DEF d
<1>5. SentLen(c) = Past(c.snd_nxt, c.iss) /\ SentLen(d) = Past(Wrap(c.snd_nxt + n), c.iss)
  BY <1>4 DEF SentLen, Past
<1>6. Past(c.snd_nxt, c.iss) \in Nums  BY <1>1, PastInverse
<1>7. SentLen(d) = SentLen(c) + n
  <2>1. Past(c.snd_nxt, c.iss) + n < SeqSpace  BY <1>5, <1>6, Sizes DEF Nums
  <2>2. QED  BY <1>1, <1>5, <2>1, PastMore
<1>8. Received(d) = Received(c) /\ Heard(d) = Heard(c)  BY <1>4 DEF Received, Heard
<1>9. InOrder(d) /\ Flowing(d)  BY <1>4, <1>7, <1>8 DEF ConnOK, InOrder, Flowing
<1>10. ConnOK(d, K)  BY <1>3, <1>4, <1>9 DEF ConnOK, Live
<1>11. QED  BY <1>7, <1>10 DEF d

\* recv moves bytes from the buffer to the caller.
LEMMA RecvOK ==
  ASSUME NEW K, NEW c, ConnOK(c, K), NEW n \in 1 .. Len(c.recv_buffer)
  PROVE  LET d == [c EXCEPT !.taken = @ \o SubSeq(c.recv_buffer, 1, n),
                            !.recv_buffer = SubSeq(@, n + 1, Len(@))]
         IN  /\ ConnOK(d, K) /\ d.state = c.state /\ d.iss = c.iss /\ d.irs = c.irs
             /\ SentLen(d) = SentLen(c) /\ Heard(d) = Heard(c)
<1> DEFINE a == c.taken
           b == c.recv_buffer
           x == SubSeq(b, 1, n)
           y == SubSeq(b, n + 1, Len(b))
           d == [c EXCEPT !.taken = @ \o SubSeq(c.recv_buffer, 1, n),
                          !.recv_buffer = SubSeq(@, n + 1, Len(@))]
<1>1. c \in Conns /\ a \in Seq(Bytes) /\ b \in Seq(Bytes)  BY ReceivedSeq DEF ConnOK
<1>2. Len(b) \in Nat /\ n \in 1 .. Len(b) /\ \A i \in 1 .. Len(b) : b[i] \in Bytes
  BY <1>1, LenProperties, ElementOfSeq
<1>3. d.taken = a \o x /\ d.recv_buffer = y  BY <1>1 DEF Conns
<1>4. /\ d.state = c.state /\ d.iss = c.iss /\ d.snd_nxt = c.snd_nxt
      /\ d.rcv_nxt = c.rcv_nxt /\ d.irs = c.irs /\ d.dropped = c.dropped
  BY <1>1 DEF Conns
<1>5. x \in Seq(Bytes) /\ y \in Seq(Bytes) /\ Len(y) = Len(b) - n
  <2> HIDE DEF b
  <2>1. x \in Seq(Bytes)  BY <1>1, <1>2, SubSeqProperties
  <2>2. y \in Seq(Bytes) /\ Len(y) = IF n + 1 <= Len(b) THEN Len(b) - (n + 1) + 1 ELSE 0
    BY <1>1, <1>2, SubSeqProperties
  <2> HIDE DEF y
  <2>3. QED  BY <1>2, <2>1, <2>2
<1>6. x \o y = b
  <2> HIDE DEF b
  <2>1. x \o y = SubSeq(b, 1, Len(b))  BY <1>1, <1>2, ConcatAdjacentSubSeq
  <2>2. QED  BY <1>1, <2>1, SubSeqFull
<1>7. d \in Conns
  <2>1. a \o x \in Seq(Bytes)
    <3> HIDE DEF a, x
    <3>1. QED  BY <1>1, <1>5, ConcatProperties
  <2>2. QED  BY <1>1, <1>5, <2>1 DEF Conns
<1> HIDE DEF a, b, x, y
<1>8. (a \o x) \o y = a \o b
  <2>1. (a \o x) \o y = a \o (x \o y)  BY <1>1, <1>5, ConcatAssociative
  <2>2. QED  BY <1>6, <2>1
<1> HIDE DEF d
<1>9. Received(d) = Received(c)  BY <1>3, <1>8 DEF Received, a, b
<1>10. Heard(d) = Heard(c) /\ SentLen(d) = SentLen(c)  BY <1>4 DEF Heard, SentLen
<1>11. InOrder(d) /\ (c.state = "Established" => Flowing(d))
  BY <1>4, <1>9, <1>10 DEF ConnOK, InOrder, Flowing
<1>12. c.state \in {"SynSent", "SynReceived"} => Fresh(d)
  BY <1>4, <1>9, <1>10 DEF ConnOK, Fresh
<1>13. Len(d.recv_buffer) <= RecvCap
  <2>1. Len(b) <= RecvCap /\ Len(y) = Len(b) - n  BY <1>5 DEF ConnOK, b
  <2>2. Len(y) <= RecvCap  BY <1>2, <2>1, Empties
  <2>3. QED  BY <1>3, <2>2 DEF y
<1>14. ConnOK(d, K)  BY <1>4, <1>7, <1>10, <1>11, <1>12, <1>13 DEF ConnOK, Live
<1>15. QED  BY <1>4, <1>10, <1>14 DEF d

\* Appending is associative.
LEMMA BytesAssociative == \A s, t, u \in Seq(Bytes) : (s \o t) \o u = s \o (t \o u)
BY ConcatAssociative

\* The smaller of two numbers.
LEMMA MinOfTwo ==
  ASSUME NEW a \in Int, NEW b \in Int
  PROVE  Min({a, b}) = IF a <= b THEN a ELSE b
BY DEF Min

\* The connection after the next bytes of its stream: as many as the buffer
\* has room for, and all of them counted.
LEMMA TakeOK ==
  ASSUME NEW K, NEW c, ConnOK(c, K), c.state = "Established",
         NEW e \in Seq(Bytes), Heard(c) + Len(e) <= Limit,
         \A k \in 1 .. Len(e) : e[k] = <<c.irs, Heard(c) + k>>,
         NEW d \in Conns, d.irs = c.irs, d.taken = c.taken,
         d.recv_buffer = c.recv_buffer
                           \o SubSeq(e, 1, Min({RecvCap - Len(c.recv_buffer), Len(e)})),
         d.dropped = (c.dropped \/ Len(e) > RecvCap - Len(c.recv_buffer))
  PROVE  LET r == Received(d)
         IN  /\ InOrder(d) /\ Len(d.recv_buffer) <= RecvCap
             /\ ~d.dropped => Len(r) = Heard(c) + Len(e)
             /\ \A i \in 1 .. Len(r) : r[i][2] <= Heard(c) + Len(e)
<1> DEFINE a == c.taken
           b == c.recv_buffer
           room == RecvCap - Len(b)
           n == Min({room, Len(e)})
           x == SubSeq(e, 1, n)
           r == Received(c)
           z == r \o x
           H == Heard(c)
<1>1. /\ c \in Conns /\ a \in Seq(Bytes) /\ b \in Seq(Bytes) /\ r \in Seq(Bytes) /\ Len(r) \in Nat
      /\ Len(b) <= RecvCap /\ RecvCap \in Nat
  BY ReceivedSeq, Empties DEF ConnOK
<1>2. Len(b) \in Nat /\ Len(e) \in Nat /\ \A i \in 1 .. Len(e) : e[i] \in Bytes
  BY <1>1, LenProperties, ElementOfSeq
<1>3. n \in Nat /\ n <= Len(e) /\ n <= room /\ (Len(e) <= room => n = Len(e))
  <2>1. room \in Nat  BY <1>1, <1>2
  <2> HIDE DEF room
  <2>2. QED  BY <1>2, <2>1, MinOfTwo
<1>4. c.rcv_nxt \in Nums /\ c.irs \in Nums  BY <1>1 DEF Conns
<1>5. H \in Nat
  <2>1. H \in Nums  BY <1>4, PastInverse DEF Heard
  <2>2. QED  BY <2>1, Sizes DEF Nums
<1>6. /\ \A i \in 1 .. Len(r) : r[i][1] = c.irs /\ r[i][2] <= H /\ (~c.dropped => r[i][2] = i)
      /\ \A i, j \in 1 .. Len(r) : i < j => r[i][2] < r[j][2]
      /\ ~c.dropped => H = Len(r)
  BY DEF ConnOK, InOrder, Flowing
<1> HIDE DEF b, n, H, room, r, a
<1>7. x \in Seq(Bytes) /\ Len(x) = n /\ \A i \in 1 .. n : x[i] = e[i]
  <2>1. /\ x \in Seq(Bytes) /\ Len(x) = IF 1 <= n THEN n - 1 + 1 ELSE 0
        /\ \A i \in 1 .. n - 1 + 1 : x[i] = e[1 + i - 1]
    BY <1>2, <1>3, SubSeqProperties
  <2> HIDE DEF x
  <2>2. QED  BY <1>3, <2>1
<1> HIDE DEF x
<1>8. Received(d) = z /\ Len(d.recv_buffer) = Len(b) + n
  <2>1. d.recv_buffer = b \o x  BY DEF b, x, n, room
  <2>2. Received(d) = a \o (b \o x) /\ r = a \o b  BY <2>1 DEF Received, a, b, r
  <2>3. (a \o b) \o x = a \o (b \o x)
    <3>1. a \in Seq(Bytes) /\ b \in Seq(Bytes) /\ x \in Seq(Bytes)  BY <1>1, <1>7
    <3>2. QED  BY <3>1, BytesAssociative, Zenon
  <2>4. Len(b \o x) = Len(b) + Len(x)  BY <1>1, <1>7, ConcatProperties
  <2>5. QED  BY <1>7, <2>1, <2>2, <2>3, <2>4
<1>9. /\ z \in Seq(Bytes) /\ Len(z) = Len(r) + n
      /\ \A i \in 1 .. Len(r) + n : z[i] = IF i <= Len(r) THEN r[i] ELSE x[i - Len(r)]
  BY <1>1, <1>7, ConcatProperties
<1> HIDE DEF z
<1>10. \A k \in 1 .. n : x[k][1] = c.irs /\ x[k][2] = H + k
  <2>1. \A k \in 1 .. n : k \in 1 .. Len(e)  BY <1>2, <1>3
  <2>2. \A k \in 1 .. n : x[k] = <<c.irs, H + k>>  BY <1>7, <2>1 DEF H
  <2>3. QED  BY <2>2
<1>11. \A i \in 1 .. Len(z) :
         \/ i \in 1 .. Len(r) /\ z[i] = r[i]
         \/ i - Len(r) \in 1 .. n /\ i > Len(r) /\ z[i] = x[i - Len(r)]
  BY <1>1, <1>3, <1>9
<1>12. \A i \in 1 .. Len(z) :
         /\ z[i][1] = c.irs
         /\ i \in 1 .. Len(r) => z[i][2] = r[i][2] /\ z[i][2] <= H
         /\ ~(i \in 1 .. Len(r)) =>
              z[i][2] = H + (i - Len(r)) /\ i > Len(r) /\ i - Len(r) \in 1 .. n
  <2> SUFFICES ASSUME NEW i \in 1 .. Len(z)
               PROVE  /\ z[i][1] = c.irs
                      /\ i \in 1 .. Len(r) => z[i][2] = r[i][2] /\ z[i][2] <= H
                      /\ ~(i \in 1 .. Len(r)) =>
                           z[i][2] = H + (i - Len(r)) /\ i > Len(r) /\ i - Len(r) \in 1 .. n
    OBVIOUS
  <2>1. CASE i \in 1 .. Len(r) /\ z[i] = r[i]
    <3>1. r[i][1] = c.irs /\ r[i][2] <= H  BY <1>6, <2>1
    <3>2. QED  BY <2>1, <3>1, Zenon
  <2>2. CASE i - Len(r) \in 1 .. n /\ i > Len(r) /\ z[i] = x[i - Len(r)]
    <3>1. x[i - Len(r)][1] = c.irs /\ x[i - Len(r)][2] = H + (i - Len(r))  BY <1>10, <2>2, Zenon
    <3>2. ~(i \in 1 .. Len(r))  BY <1>1, <2>2
    <3>3. QED  BY <2>2, <3>1, <3>2, Zenon
  <2>3. QED  BY <1>11, <2>1, <2>2
<1>13. \A i \in 1 .. Len(r) : r[i][2] \in Nat
  <2>1. \A i \in 1 .. Len(r) : r[i] \in Bytes  BY <1>1, ElementOfSeq
  <2>2. QED  BY <2>1 DEF Bytes
<1>14. ASSUME NEW i \in 1 .. Len(z)  PROVE z[i][2] <= H + Len(e)
  <2>1. CASE i \in 1 .. Len(r)
    <3>1. z[i][2] \in Nat /\ z[i][2] <= H  BY <1>12, <1>13, <2>1
    <3>2. QED  BY <1>2, <1>5, <3>1
  <2>2. CASE ~(i \in 1 .. Len(r))
    <3>1. z[i][2] = H + (i - Len(r)) /\ i - Len(r) \in 1 .. n  BY <1>12, <2>2
    <3>2. H + (i - Len(r)) <= H + Len(e)  BY <1>1, <1>2, <1>3, <1>5, <3>1
    <3>3. QED  BY <3>1, <3>2
  <2>3. QED  BY <2>1, <2>2
<1>15. ASSUME NEW i \in 1 .. Len(z), NEW j \in 1 .. Len(z), i < j  PROVE z[i][2] < z[j][2]
  <2>1. CASE j \in 1 .. Len(r)
    <3>1. i \in 1 .. Len(r)  BY <1>1, <1>15, <2>1
    <3>2. r[i][2] < r[j][2]  BY <1>6, <1>15, <2>1, <3>1
    <3>3. QED  BY <1>12, <2>1, <3>1, <3>2
  <2>2. CASE ~(j \in 1 .. Len(r)) /\ i \in 1 .. Len(r)
    <3>1. z[i][2] \in Nat /\ z[i][2] <= H  BY <1>12, <1>13, <2>2
    <3>2. z[j][2] = H + (j - Len(r)) /\ j - Len(r) \in 1 .. n  BY <1>12, <2>2
    <3>3. H < H + (j - Len(r))  BY <1>1, <1>5, <3>2
    <3>4. H + (j - Len(r)) \in Int  BY <1>1, <1>5, <3>2
    <3>5. z[i][2] < H + (j - Len(r))  BY <1>5, <3>1, <3>3, <3>4
    <3>6. QED  BY <3>2, <3>5
  <2>3. CASE ~(j \in 1 .. Len(r)) /\ ~(i \in 1 .. Len(r))
    <3>1. z[i][2] = H + (i - Len(r)) /\ z[j][2] = H + (j - Len(r))  BY <1>12, <2>3
    <3>2. H + (i - Len(r)) < H + (j - Len(r))  BY <1>1, <1>5, <1>15
    <3>3. QED  BY <3>1, <3>2
  <2>4. QED  BY <2>1, <2>2, <2>3
<1>16. ~d.dropped => ~c.dropped /\ Len(e) <= room
  <2>1. room \in Int  BY <1>1, <1>2 DEF room
  <2>2. ~d.dropped => ~c.dropped /\ ~(Len(e) > room)  BY DEF room, b
  <2>3. QED  BY <1>2, <2>1, <2>2
<1>17. ~d.dropped => n = Len(e) /\ H = Len(r)  BY <1>3, <1>6, <1>16
<1>18. ~d.dropped => Len(z) = H + Len(e) /\ \A i \in 1 .. Len(z) : z[i][2] = i
  <2> SUFFICES ASSUME ~d.dropped, NEW i \in 1 .. Len(z)
               PROVE  Len(z) = H + Len(e) /\ z[i][2] = i
    BY <1>9, <1>17
  <2>1. CASE i \in 1 .. Len(r)  BY <1>6, <1>9, <1>12, <1>16, <1>17, <2>1
  <2>2. CASE ~(i \in 1 .. Len(r))
    <3>1. z[i][2] = H + (i - Len(r))  BY <1>12, <2>2
    <3>2. H = Len(r) /\ i \in Int  BY <1>17
    <3>3. H + (i - Len(r)) = i  BY <1>1, <3>2
    <3>4. QED  BY <1>9, <1>17, <3>1, <3>3
  <2>3. QED  BY <2>1, <2>2
<1>19. InOrder(d)  BY <1>8, <1>12, <1>15, <1>18 DEF InOrder
<1>20. Len(d.recv_buffer) <= RecvCap
  <2>1. Len(b) + n <= RecvCap  BY <1>1, <1>2, <1>3 DEF room
  <2>2. QED  BY <1>8, <2>1
<1>21. QED  BY <1>8, <1>14, <1>18, <1>19, <1>20 DEF H

\* The fields of a segment.
LEMMA SegmentFields ==
  ASSUME NEW h \in Hosts, NEW p \in Ports, NEW fl \in SUBSET Flags, NEW sq \in Nums,
         NEW ak \in Nums, NEW d \in Seq(Bytes)
  PROVE  LET m == Segment(h, p, fl, sq, ak, d)
         IN  /\ m \in Segments /\ m.to = Peer(h) /\ m.port = p
             /\ m.flags = fl /\ m.seq = sq /\ m.data = d
BY DEF Segment, Segments, Peer, Hosts

\* Everything sent without data and without SYN is quiet.
LEMMA QuietSegment ==
  ASSUME NEW h \in Hosts, NEW p \in Ports, NEW fl \in SUBSET Flags, "SYN" \notin fl,
         NEW sq \in Nums, NEW ak \in Nums
  PROVE  Quiet(Segment(h, p, fl, sq, ak, <<>>))
<1> DEFINE e == <<>>
           m == Segment(h, p, fl, sq, ak, e)
<1>1. e \in Seq(Bytes)  BY Empties
<1> HIDE DEF e
<1>2. m \in Segments /\ m.flags = fl /\ m.data = e  BY <1>1, SegmentFields
<1> HIDE DEF m
<1>3. Quiet(m)  BY <1>2, Zenon DEF Quiet, e
<1>4. QED  BY <1>3 DEF m, e

\* One segment of a send.
LEMMA ChunkOK ==
  ASSUME NEW K, NEW c, ConnOK(c, K), c.state = "Established", NEW n \in Nat,
         SentLen(c) + n <= Limit, NEW h \in Hosts, NEW p \in Ports,
         NEW o \in Nat, NEW l \in Nat \ {0}, o + l <= n
  PROVE  LET m == Segment(h, p, {"ACK"}, Wrap(c.snd_nxt + o), c.rcv_nxt,
                          [k \in 1 .. l |-> Byte(c, SentLen(c) + o + k)])
         IN  /\ SegOK(m, K) /\ m.to = Peer(h) /\ m.port = p /\ "SYN" \notin m.flags
             /\ Source(m) = c.iss /\ Before(m) + Len(m.data) <= SentLen(c) + n
<1> DEFINE S == SentLen(c)
           d == [k \in 1 .. l |-> Byte(c, S + o + k)]
           m == Segment(h, p, {"ACK"}, Wrap(c.snd_nxt + o), c.rcv_nxt, d)
<1>1. /\ c \in Conns /\ c.snd_nxt \in Nums /\ c.iss \in Nums /\ c.rcv_nxt \in Nums
      /\ Known(c.iss, K)
  BY DEF ConnOK, Conns, Live
<1>2. S \in Nums /\ c.snd_nxt = Wrap(c.iss + 1 + S)
  BY <1>1, PastInverse DEF SentLen, Past
<1>3. S \in Nat /\ c.iss \in Nat /\ c.snd_nxt \in Nat  BY <1>1, <1>2, Sizes DEF Nums
<1> HIDE DEF S
<1>4. \A k \in 1 .. l : Byte(c, S + o + k) \in Bytes /\ Byte(c, S + o + k) = <<c.iss, S + o + k>>
  BY <1>1, <1>3 DEF Byte, Bytes
<1>5. /\ d \in Seq(Bytes) /\ Len(d) = l
      /\ \A k \in 1 .. l : d[k] = <<c.iss, S + o + k>>
  <2>1. d \in [1 .. l -> Bytes]  BY <1>4
  <2>2. d \in Seq(Bytes) /\ Len(d) = l  BY <2>1
  <2>3. \A k \in 1 .. l : d[k] = Byte(c, S + o + k)  OBVIOUS
  <2> HIDE DEF d
  <2>4. QED  BY <1>4, <2>2, <2>3, Zenon
<1> HIDE DEF d
<1>6. Wrap(c.snd_nxt + o) \in Nums  BY <1>3, WrapNum
<1>7. /\ m \in Segments /\ m.to = Peer(h) /\ m.port = p /\ m.flags = {"ACK"}
      /\ m.seq = Wrap(c.snd_nxt + o) /\ m.data = d
  <2>1. {"ACK"} \in SUBSET Flags  BY DEF Flags
  <2>2. QED  BY <1>1, <1>5, <1>6, <2>1, SegmentFields
<1> HIDE DEF m
<1>8. d[1] = <<c.iss, S + o + 1>>  BY <1>5
<1>9. Source(m) = c.iss /\ Before(m) = S + o
  <2>1. d[1][1] = c.iss /\ d[1][2] = S + o + 1  BY <1>8
  <2>2. S + o + 1 - 1 = S + o  BY <1>3
  <2>3. d[1][2] - 1 = S + o
    <3> DEFINE u == d[1][2]
    <3>1. u = S + o + 1  BY <2>1
    <3> HIDE DEF u
    <3>2. u - 1 = S + o  BY <1>3, <3>1
    <3>3. QED  BY <3>2 DEF u
  <2>4. QED  BY <1>7, <2>1, <2>3, Zenon DEF Source, Before
<1>10. m.seq = Wrap(c.iss + 1 + (S + o))
  <2>1. Wrap(Wrap(c.iss + 1 + S) + o) = Wrap(c.iss + 1 + S + o)
    <3> DEFINE y == c.iss + 1 + S
    <3>1. y \in Int  BY <1>3
    <3> HIDE DEF y
    <3>2. Wrap(Wrap(y) + o) = Wrap(y + o)  BY <3>1, WrapAdd
    <3>3. QED  BY <3>2 DEF y
  <2>2. c.iss + 1 + S + o = c.iss + 1 + (S + o)  BY <1>3
  <2>3. QED  BY <1>2, <1>7, <2>1, <2>2
<1>11. S + o \in 0 .. Limit /\ S + o + l <= Limit /\ S + o + l <= S + n
  BY <1>3, Sizes DEF S
<1>12. Run(m, K)  BY <1>1, <1>5, <1>7, <1>9, <1>10, <1>11 DEF Run
<1>13. SegOK(m, K) /\ "SYN" \notin m.flags  BY <1>7, <1>12 DEF SegOK
<1>14. QED  BY <1>5, <1>7, <1>9, <1>11, <1>13 DEF m, d, S

\* All of them, finitely many.
LEMMA ChunksOK ==
  ASSUME NEW K, NEW h \in Hosts, NEW p \in Ports, ConnOK(conns[h][p], K),
         conns[h][p].state = "Established", NEW n \in Nat, SentLen(conns[h][p]) + n <= Limit
  PROVE  /\ IsFiniteSet(Chunks(h, p, n))
         /\ \A m \in Chunks(h, p, n) :
              /\ SegOK(m, K) /\ m.to = Peer(h) /\ m.port = p /\ "SYN" \notin m.flags
              /\ Source(m) = conns[h][p].iss
              /\ Before(m) + Len(m.data) <= SentLen(conns[h][p]) + n
<1> DEFINE c == conns[h][p]
           len(i) == Min({Mss, n - (i - 1) * Mss})
           I == {j \in 1 .. n : (j - 1) * Mss < n}
           seg(i) == Segment(h, p, {"ACK"}, Wrap(c.snd_nxt + (i - 1) * Mss), c.rcv_nxt,
                       [k \in 1 .. len(i) |-> Byte(c, SentLen(c) + (i - 1) * Mss + k)])
           f == [i \in I |-> seg(i)]
<1>1. Chunks(h, p, n) = {seg(i) : i \in I}  BY DEF Chunks
<1>2. IsFiniteSet(I)
  <2>1. IsFiniteSet(1 .. n)  BY FS_Interval
  <2>2. QED  BY <2>1, FS_Subset
<1>3. IsFiniteSet({seg(i) : i \in I})
  <2> HIDE DEF seg, I
  <2>1. f \in Surjection(I, {seg(i) : i \in I})  BY DEF Surjection
  <2>2. QED  BY <1>2, <2>1, FS_Surjection
<1>4. ASSUME NEW i \in I
      PROVE  /\ SegOK(seg(i), K) /\ seg(i).to = Peer(h) /\ seg(i).port = p
             /\ "SYN" \notin seg(i).flags
             /\ Source(seg(i)) = c.iss /\ Before(seg(i)) + Len(seg(i).data) <= SentLen(c) + n
  <2>1. Mss \in Nat \ {0}  BY TcpAssumption
  <2>2. (i - 1) * Mss \in Nat /\ (i - 1) * Mss < n
    <3>1. i - 1 \in Nat /\ (i - 1) * Mss < n  OBVIOUS
    <3>2. \A u, v \in Nat : u * v \in Nat  OBVIOUS
    <3>3. QED  BY <2>1, <3>1, <3>2
  <2> DEFINE o == (i - 1) * Mss
  <2> HIDE DEF o
  <2>3. o \in Nat /\ o < n  BY <2>2 DEF o
  <2>4. Min({Mss, n - o}) \in Nat \ {0} /\ o + Min({Mss, n - o}) <= n
    <3>1. n - o \in Int  BY <2>3
    <3>2. Min({Mss, n - o}) = IF Mss <= n - o THEN Mss ELSE n - o  BY <2>1, <3>1, MinOfTwo
    <3>3. QED  BY <2>1, <2>3, <3>2
  <2> DEFINE l == Min({Mss, n - o})
  <2> HIDE DEF l
  <2>5. l \in Nat \ {0} /\ o + l <= n  BY <2>4 DEF l
  <2>6. seg(i) = Segment(h, p, {"ACK"}, Wrap(c.snd_nxt + o), c.rcv_nxt,
                         [k \in 1 .. l |-> Byte(c, SentLen(c) + o + k)])
    BY DEF o, l
  <2> HIDE DEF seg, c
  <2>7. ConnOK(c, K) /\ c.state = "Established" /\ SentLen(c) + n <= Limit  BY DEF c
  <2>8. QED  BY <2>3, <2>5, <2>6, <2>7, ChunkOK
<1> HIDE DEF seg, I
<1>5. QED  BY <1>1, <1>3, <1>4 DEF c

\* What a connection that expects a segment's data makes of it.
LEMMA ExpectedRun ==
  ASSUME NEW K \in Nat, K <= MaxIsns, NEW c, ConnOK(c, K), c.state = "Established",
         NEW m, SegOK(m, K), Expected(c, m)
  PROVE  /\ Source(m) = c.irs /\ Before(m) = Heard(c) /\ Heard(c) + Len(m.data) <= Limit
         /\ \A k \in 1 .. Len(m.data) : m.data[k] = <<c.irs, Heard(c) + k>>
<1>1. c.rcv_nxt \in Nums /\ c.irs \in Nums /\ Known(c.irs, K) /\ Heard(c) <= Limit
  BY DEF ConnOK, Conns, Flowing
<1>2. Run(m, K) /\ m.seq = c.rcv_nxt  BY DEF SegOK, Expected
<1>3. Heard(c) \in Nums /\ c.rcv_nxt = Wrap(c.irs + 1 + Heard(c))  BY <1>1, PastInverse DEF Heard
<1>4. Heard(c) \in 0 .. Limit  BY <1>1, <1>3, Sizes DEF Nums
<1>5. Wrap(Source(m) + 1 + Before(m)) = Wrap(c.irs + 1 + Heard(c))  BY <1>2, <1>3 DEF Run
<1>6. Source(m) = c.irs /\ Before(m) = Heard(c)
  BY <1>1, <1>2, <1>4, <1>5, IsnApart DEF Run
<1>7. QED  BY <1>2, <1>6 DEF Run

-----------------------------------------------------------------------------
(* Streams.                                                                *)

\* c never waits for the last segment of a handshake, s never for the second.
Roles(h, c) ==
  /\ h = "c" => c.state # "SynReceived"
  /\ h = "s" => c.state \notin {"Busy", "SynSent"}
EntryOK(h, c, K) == Roles(h, c) /\ ConnOK(c, K)

Used == {p \in Ports : St("s", p) # "none"}
Probing == IF call = "probe" THEN 1 ELSE 0

\* Every entry and every segment; and an initial number is handed out once per
\* call of connect and once per entry of s, which never goes away.
Local ==
  /\ isns \in Nat /\ connects \in 0 .. MaxConnect /\ call \in {"idle", "probe", "wait"}
  /\ IsFiniteSet(net) /\ Len(accept_queue) <= Backlog
  /\ \A h \in Hosts, p \in Ports : EntryOK(h, conns[h][p], isns)
  /\ \A m \in net : SegOK(m, isns)
  /\ isns + Probing <= connects + Cardinality(Used)

\* There is one SYN|ACK for a port, which tells the number s has chosen; c is
\* established by it.  s has its number from a SYN in the network.  If there
\* is any SYN for a port, then c's connection has sent one.
SynOf(m, p) == m.port = p /\ m.flags = {"SYN"}
Pairs ==
  /\ \A m \in net : "SYN" \in m.flags /\ m.to = "c" =>
       conns["s"][m.port].state # "none" /\ m.seq = conns["s"][m.port].iss
  /\ \A p \in Ports : conns["c"][p].state = "Established" =>
       conns["s"][p].state # "none" /\ conns["c"][p].irs = conns["s"][p].iss
  /\ \A p \in Ports : conns["s"][p].state # "none" =>
       \E m \in net : SynOf(m, p) /\ m.seq = conns["s"][p].irs
  /\ \A p \in Ports : Live(conns["c"][p]) =>
       \/ \E m \in net : SynOf(m, p) /\ m.seq = conns["c"][p].iss
       \/ \A m \in net : ~SynOf(m, p)

\* What is in a segment, or was heard, has been sent: e is the entry of the
\* sender, if it is still the one whose stream this is.
SentBy(e, source, n) == Live(e) /\ source = e.iss => n <= SentLen(e)
Sent ==
  /\ \A m \in net : m.data # <<>> =>
       SentBy(conns[Peer(m.to)][m.port], Source(m), Before(m) + Len(m.data))
  /\ \A h \in Hosts, p \in Ports : conns[h][p].state = "Established" =>
       SentBy(conns[Peer(h)][p], conns[h][p].irs, Heard(conns[h][p]))

StreamInv == Local /\ Pairs /\ Sent

\* Entry d may follow entry c of machine h, when the peer's entry is e.
Follows(h, c, d, e) ==
  /\ h = "s" => d.iss = c.iss /\ d.irs = c.irs /\ (d.state = "none" <=> c.state = "none")
  /\ Live(d) => Live(c) /\ d.iss = c.iss /\ SentLen(c) <= SentLen(d)
  /\ d.state = "Established" =>
       /\ h = "c" => \/ c.state = "Established" /\ d.irs = c.irs
                     \/ e.state # "none" /\ d.irs = e.iss
       /\ SentBy(e, d.irs, Heard(d))

\* What was sent and what was heard are numbers of bytes.
LEMMA SentLenNat == ASSUME NEW c \in Conns PROVE SentLen(c) \in Nat /\ Heard(c) \in Nat
<1>1. c.snd_nxt \in Nums /\ c.iss \in Nums /\ c.rcv_nxt \in Nums /\ c.irs \in Nums  BY DEF Conns
<1>2. Past(c.snd_nxt, c.iss) \in Nums /\ Past(c.rcv_nxt, c.irs) \in Nums  BY <1>1, PastInverse
<1>3. QED  BY <1>2, Sizes DEF SentLen, Heard, Past, Nums

\* Every entry may follow itself.
LEMMA FollowsItself ==
  ASSUME StreamInv, NEW h \in Hosts, NEW p \in Ports
  PROVE  Follows(h, conns[h][p], conns[h][p], conns[Peer(h)][p])
<1>1. conns[h][p] \in Conns  BY DEF StreamInv, Local, EntryOK, ConnOK
<1>2. SentLen(conns[h][p]) \in Nat  BY <1>1, SentLenNat
<1>3. SentLen(conns[h][p]) <= SentLen(conns[h][p])  BY <1>2
<1>4. QED  BY <1>3 DEF StreamInv, Sent, Follows

\* When every entry follows its predecessor, and what is sent has no SYN and
\* belongs to what its sender has sent, the streams agree as before.
LEMMA FollowsKeeps ==
  ASSUME Shapes, StreamInv, Shapes',
         \A h \in Hosts, p \in Ports :
           /\ Follows(h, conns[h][p], conns'[h][p], conns[Peer(h)][p])
           /\ conns'[h][p] \in Conns,
         net \subseteq net',
         \A m \in net' : \/ m \in net
                         \/ /\ "SYN" \notin m.flags
                            /\ m.data # <<>> => SentBy(conns'[Peer(m.to)][m.port], Source(m),
                                                       Before(m) + Len(m.data))
  PROVE  Pairs' /\ Sent'
<1>1. "c" \in Hosts /\ "s" \in Hosts /\ Peer("c") = "s" /\ Peer("s") = "c"
  BY DEF Hosts, Peer
<1>2. \A m \in net : m.port \in Ports /\ m.to \in Hosts /\ Peer(m.to) \in Hosts
  BY DEF StreamInv, Local, SegOK, Segments, Peer, Hosts
<1>3. \A m \in net' : "SYN" \in m.flags => m \in net  OBVIOUS
<1>4. ASSUME NEW p \in Ports
      PROVE  /\ conns'["s"][p].iss = conns["s"][p].iss /\ conns'["s"][p].irs = conns["s"][p].irs
             /\ conns'["s"][p].state = "none" <=> conns["s"][p].state = "none"
             /\ Live(conns'["c"][p]) =>
                  Live(conns["c"][p]) /\ conns'["c"][p].iss = conns["c"][p].iss
             /\ conns'["c"][p].state = "Established" =>
                  \/ conns["c"][p].state = "Established" /\ conns'["c"][p].irs = conns["c"][p].irs
                  \/ conns["s"][p].state # "none" /\ conns'["c"][p].irs = conns["s"][p].iss
  BY <1>1 DEF Follows
<1>5. ASSUME NEW h \in Hosts, NEW p \in Ports, NEW src, NEW n \in Nat,
             SentBy(conns[h][p], src, n)
      PROVE  SentBy(conns'[h][p], src, n)
  <2>1. SUFFICES ASSUME Live(conns'[h][p]), src = conns'[h][p].iss
                 PROVE  n <= SentLen(conns'[h][p])
    BY DEF SentBy
  <2>2. /\ Live(conns[h][p]) /\ src = conns[h][p].iss
        /\ SentLen(conns[h][p]) <= SentLen(conns'[h][p])
    BY <2>1 DEF Follows
  <2>3. n <= SentLen(conns[h][p])  BY <1>5, <2>2 DEF SentBy
  <2>4. SentLen(conns[h][p]) \in Nat /\ SentLen(conns'[h][p]) \in Nat
    BY SentLenNat DEF StreamInv, Local, EntryOK, ConnOK
  <2>5. QED  BY <2>2, <2>3, <2>4
<1>6. \A m \in net' : "SYN" \in m.flags /\ m.to = "c" =>
        conns'["s"][m.port].state # "none" /\ m.seq = conns'["s"][m.port].iss
  BY <1>2, <1>3, <1>4 DEF StreamInv, Pairs
<1>7. \A p \in Ports : conns'["c"][p].state = "Established" =>
        conns'["s"][p].state # "none" /\ conns'["c"][p].irs = conns'["s"][p].iss
  BY <1>4 DEF StreamInv, Pairs
<1>8. \A p \in Ports : conns'["s"][p].state # "none" =>
        \E m \in net' : SynOf(m, p) /\ m.seq = conns'["s"][p].irs
  BY <1>4 DEF StreamInv, Pairs
<1>9. \A p \in Ports : Live(conns'["c"][p]) =>
        \/ \E m \in net' : SynOf(m, p) /\ m.seq = conns'["c"][p].iss
        \/ \A m \in net' : ~SynOf(m, p)
  <2>1. \A m, p : SynOf(m, p) => "SYN" \in m.flags  BY DEF SynOf
  <2>2. QED  BY <1>3, <1>4, <2>1 DEF StreamInv, Pairs
<1>10. ASSUME NEW m \in net', m.data # <<>>
       PROVE  SentBy(conns'[Peer(m.to)][m.port], Source(m), Before(m) + Len(m.data))
  <2>1. CASE m \in net
    <3>1. SentBy(conns[Peer(m.to)][m.port], Source(m), Before(m) + Len(m.data))
      BY <1>10, <2>1 DEF StreamInv, Sent
    <3>2. Before(m) + Len(m.data) \in Nat
      <4>1. Before(m) \in Nat /\ m.data \in Seq(Bytes)
        BY <1>10, <2>1, Sizes DEF StreamInv, Local, SegOK, Run, Segments
      <4>2. QED  BY <4>1, LenProperties
    <3>3. QED  BY <1>2, <1>5, <2>1, <3>1, <3>2
  <2>2. CASE m \notin net  BY <1>10, <2>2
  <2>3. QED  BY <2>1, <2>2
<1>11. ASSUME NEW h \in Hosts, NEW p \in Ports, conns'[h][p].state = "Established"
       PROVE  SentBy(conns'[Peer(h)][p], conns'[h][p].irs, Heard(conns'[h][p]))
  <2>1. SentBy(conns[Peer(h)][p], conns'[h][p].irs, Heard(conns'[h][p]))
    BY <1>11 DEF Follows
  <2>2. Heard(conns'[h][p]) \in Nat /\ Peer(h) \in Hosts  BY SentLenNat DEF Peer, Hosts
  <2>3. QED  BY <1>5, <2>1, <2>2
<1>12. Pairs'  BY <1>6, <1>7, <1>8, <1>9 DEF Pairs
<1>13. Sent'  BY <1>10, <1>11 DEF Sent, Heard, Source, Before
<1>14. QED  BY <1>12, <1>13

\* The entries of s are at most as many as there are ports.
LEMMA UsedFinite ==
  IsFiniteSet(Used) /\ Cardinality(Used) \in Nat /\ Cardinality(Used) <= PortHi - PortLo
<1>1. PortLo \in Nat /\ PortHi \in Nat /\ PortLo < PortHi  BY TcpAssumption
<1>2. IsFiniteSet(Ports) /\ Cardinality(Ports) = PortHi - PortLo  BY <1>1, FS_Interval DEF Ports
<1>3. Used \in SUBSET Ports  BY DEF Used
<1>4. QED  BY <1>2, <1>3, FS_Subset, FS_CardinalityType

\* There are numbers enough.
LEMMA IsnBound == ASSUME Local PROVE isns \in Nat /\ isns <= MaxIsns
<1>1. isns \in Nat /\ connects \in Nat /\ connects <= MaxConnect /\ Probing \in Nat
      /\ isns + Probing <= connects + Cardinality(Used)
  BY DEF Local, Probing
<1>2. PortLo \in Nat /\ PortHi \in Nat /\ MaxConnect \in Nat  BY TcpAssumption
<1> DEFINE u == Cardinality(Used)
<1>3. u \in Nat /\ u <= PortHi - PortLo  BY UsedFinite
<1> HIDE DEF u
<1>4. isns + Probing <= connects + u  BY <1>1 DEF u
<1>5. QED  BY <1>1, <1>2, <1>3, <1>4 DEF MaxIsns

\* One is left for a connect that has begun, ...
LEMMA ConnectNumber ==
  ASSUME Local, call = "probe" \/ (call = "idle" /\ connects < MaxConnect)
  PROVE  isns + 1 <= MaxIsns
<1> DEFINE u == Cardinality(Used)
<1>1. u \in Nat /\ u <= PortHi - PortLo  BY UsedFinite
<1>2. isns \in Nat /\ isns + Probing <= connects + u /\ connects \in 0 .. MaxConnect
  BY DEF Local
<1>3. MaxConnect \in Nat /\ PortLo \in Nat /\ PortHi \in Nat  BY TcpAssumption
<1>4. Probing = 1 \/ (Probing = 0 /\ connects < MaxConnect)  BY DEF Probing
<1> HIDE DEF u
<1>5. QED  BY <1>1, <1>2, <1>3, <1>4 DEF MaxIsns

\* ... and one for a port of the server that has no connection yet.
LEMMA AcceptNumber ==
  ASSUME Local, NEW p \in Ports, p \notin Used
  PROVE  isns + 1 <= MaxIsns
<1> DEFINE u == Cardinality(Used)
           v == Cardinality(Used \cup {p})
<1>1. MaxConnect \in Nat /\ PortLo \in Nat /\ PortHi \in Nat /\ PortLo < PortHi
  BY TcpAssumption
<1>2. u \in Nat /\ v = u + 1 /\ v <= PortHi - PortLo
  <2>1. Used \cup {p} \in SUBSET Ports  BY DEF Used
  <2>2. IsFiniteSet(Ports) /\ Cardinality(Ports) = PortHi - PortLo
    BY <1>1, FS_Interval DEF Ports
  <2>3. Cardinality(Used \cup {p}) <= Cardinality(Ports)  BY <2>1, <2>2, FS_Subset
  <2>4. QED  BY <2>2, <2>3, UsedFinite, FS_AddElement
<1>3. isns \in Nat /\ isns + Probing <= connects + u /\ connects \in 0 .. MaxConnect /\ Probing \in Nat
  BY DEF Local, Probing
<1> HIDE DEF u, v
<1>4. QED  BY <1>1, <1>2, <1>3 DEF MaxIsns

\* A step that replaces one entry by one that may follow it, and sends
\* segments without SYN that belong to what their sender has sent.
LEMMA FollowStep ==
  ASSUME Shapes, StreamInv, Shapes', NEW h \in Hosts, NEW p \in Ports, NEW d, NEW segs,
         EntryOK(h, d, isns), Follows(h, conns[h][p], d, conns[Peer(h)][p]),
         \/ conns' = conns /\ net' = net
         \/ conns' = [conns EXCEPT ![h][p] = d] /\ (net' = net \/ net' = net \cup segs),
         IsFiniteSet(segs),
         \A m \in segs : /\ SegOK(m, isns) /\ "SYN" \notin m.flags
                         /\ m.data # <<>> => /\ m.to = Peer(h) /\ m.port = p
                                             /\ SentBy(d, Source(m), Before(m) + Len(m.data)),
         isns' = isns, connects' = connects, call' \in {call, "idle"},
         Len(accept_queue') <= Backlog
  PROVE  StreamInv'
<1>1. ASSUME NEW g \in Hosts, NEW q \in Ports
      PROVE  /\ EntryOK(g, conns'[g][q], isns)
             /\ Follows(g, conns[g][q], conns'[g][q], conns[Peer(g)][q])
             /\ conns'[g][q] \in Conns
  <2>1. /\ EntryOK(g, conns[g][q], isns)
        /\ Follows(g, conns[g][q], conns[g][q], conns[Peer(g)][q])
    BY FollowsItself DEF StreamInv, Local
  <2>2. conns'[g][q] = conns[g][q] \/ (g = h /\ q = p /\ conns'[g][q] = d)
    <3>1. CASE conns' = conns  BY <3>1
    <3>2. CASE conns' = [conns EXCEPT ![h][p] = d]  BY <3>2, OneEntry
    <3>3. QED  BY <3>1, <3>2
  <2>3. QED  BY <2>1, <2>2 DEF EntryOK, ConnOK
<1>2. net' = net \/ (net' = net \cup segs /\ conns'[h][p] = d)
  BY OneEntry
<1>3. net \subseteq net' /\ IsFiniteSet(net')
  <2>1. IsFiniteSet(net)  BY DEF StreamInv, Local
  <2>2. IsFiniteSet(net \cup segs)  BY <2>1, FS_Union
  <2>3. QED  BY <1>2, <2>1, <2>2
<1>4. \A m \in net' : SegOK(m, isns)  BY <1>2 DEF StreamInv, Local
<1>5. Peer(Peer(h)) = h  BY DEF Peer, Hosts
<1>6. \A m \in net' : \/ m \in net
                      \/ /\ "SYN" \notin m.flags
                         /\ m.data # <<>> => SentBy(conns'[Peer(m.to)][m.port], Source(m),
                                                    Before(m) + Len(m.data))
  BY <1>2, <1>5
<1>7. Pairs' /\ Sent'  BY <1>1, <1>3, <1>6, FollowsKeeps
<1>8. Used' = Used
  <2>1. \A q \in Ports : conns'["s"][q].state = "none" <=> conns["s"][q].state = "none"
    BY <1>1 DEF Follows, Hosts
  <2>2. QED  BY <2>1 DEF Used, St
<1>9. isns' + Probing' <= connects' + Cardinality(Used')
  <2>1. isns \in Nat /\ connects \in Nat /\ isns + Probing <= connects + Cardinality(Used)
    BY DEF StreamInv, Local
  <2>2. CASE call' = call  BY <1>8, <2>1, <2>2 DEF Probing
  <2>3. CASE call' = "idle"
    <3>1. Probing' = 0 /\ Probing \in {0, 1}  BY <2>3 DEF Probing
    <3>2. Cardinality(Used) \in Nat  BY UsedFinite
    <3>3. isns <= connects + Cardinality(Used)  BY <2>1, <3>1, <3>2
    <3>4. QED  BY <1>8, <2>1, <3>1, <3>3
  <2>4. QED  BY <2>2, <2>3
<1>10. Local'  BY <1>1, <1>3, <1>4, <1>9 DEF StreamInv, Local
<1>11. QED  BY <1>7, <1>10 DEF StreamInv

\* What SendAndSet does on a machine that is not stuck.
LEMMA SendEffect ==
  ASSUME Shapes, NEW h \in Hosts, NEW p \in Ports, NEW segs, NEW d, stuck[h] = "no",
         SendAndSet(h, p, segs, d)
  PROVE  \/ conns' = conns /\ net' = net
         \/ conns' = [conns EXCEPT ![h][p] = d] /\ (net' = net \/ net' = net \cup segs)
<1>1. Transmit(h, "conns", segs)  BY DEF SendAndSet
<1>2. \/ stuck' = stuck /\ (net' = net \/ net' = net \cup segs)
      \/ stuck' = [stuck EXCEPT ![h] = "conns"] /\ net' = net
  BY <1>1 DEF Transmit
<1>3. stuck \in [Hosts -> {"no", "listeners", "conns"}]  BY DEF Shapes
<1>4. QED  BY <1>2, <1>3 DEF SendAndSet

\* A connection that is over, or an entry that c removes, follows any.
LEMMA OverFollows ==
  ASSUME StreamInv, NEW h \in Hosts, NEW p \in Ports, NEW d \in Conns, ~Live(d),
         d.state # "none", d.state # "Busy",
         h = "s" => d.iss = conns[h][p].iss /\ conns[h][p].state # "none",
         d.irs = conns[h][p].irs, d.taken = conns[h][p].taken,
         d.recv_buffer = conns[h][p].recv_buffer, d.dropped = conns[h][p].dropped
  PROVE  EntryOK(h, d, isns) /\ Follows(h, conns[h][p], d, conns[Peer(h)][p])
<1>1. ConnOK(conns[h][p], isns)  BY DEF StreamInv, Local, EntryOK
<1>2. ConnOK(d, isns)  BY <1>1, EndedOK
<1>3. QED  BY <1>2 DEF EntryOK, Roles, Follows, Live

\* What is known of an entry of a table.
LEMMA EntryFacts ==
  ASSUME StreamInv, NEW h \in Hosts, NEW p \in Ports
  PROVE  /\ ConnOK(conns[h][p], isns) /\ Roles(h, conns[h][p]) /\ conns[h][p] \in Conns
         /\ conns[h][p].snd_nxt \in Nums /\ conns[h][p].rcv_nxt \in Nums /\ conns[h][p].iss \in Nums
         /\ SentLen(conns[h][p]) \in Nat /\ Heard(conns[h][p]) \in Nat
<1>1. ConnOK(conns[h][p], isns) /\ Roles(h, conns[h][p])  BY DEF StreamInv, Local, EntryOK
<1>2. conns[h][p] \in Conns  BY <1>1 DEF ConnOK
<1>3. QED  BY <1>1, <1>2, SentLenNat DEF Conns

\* Most steps send nothing.
LEMMA NothingSent == IsFiniteSet({})
BY FS_EmptySet

\* Acknowledgements are quiet.
LEMMA AckQuiet ==
  ASSUME StreamInv, NEW h \in Hosts, NEW p \in Ports, NEW n \in Nums
  PROVE  Quiet(AckOf(h, p, n))
<1>1. conns[h][p].snd_nxt \in Nums  BY EntryFacts
<1>2. {"ACK"} \in SUBSET Flags /\ "SYN" \notin {"ACK"}  BY DEF Flags
<1>3. QED  BY <1>1, <1>2, QuietSegment DEF AckOf

\* Steps that send something quiet.
LEMMA QuietStep ==
  ASSUME Shapes, StreamInv, Shapes', NEW h \in Hosts, NEW p \in Ports, NEW d, NEW segs,
         EntryOK(h, d, isns), Follows(h, conns[h][p], d, conns[Peer(h)][p]),
         \/ conns' = [conns EXCEPT ![h][p] = d] /\ net' = net
         \/ stuck[h] = "no" /\ SendAndSet(h, p, segs, d),
         IsFiniteSet(segs), \A m \in segs : Quiet(m),
         isns' = isns, connects' = connects, call' \in {call, "idle"},
         accept_queue' = accept_queue
  PROVE  StreamInv'
<1>1. \/ conns' = conns /\ net' = net
      \/ conns' = [conns EXCEPT ![h][p] = d] /\ (net' = net \/ net' = net \cup segs)
  BY SendEffect
<1>2. \A m \in segs : SegOK(m, isns) /\ "SYN" \notin m.flags /\ m.data = <<>>
  BY QuietOK DEF Quiet
<1>3. Len(accept_queue') <= Backlog  BY DEF StreamInv, Local
<1>4. QED  BY <1>1, <1>2, <1>3, FollowStep

\* send, all of its segments or none.
LEMMA SendStream ==
  ASSUME Shapes, StreamInv, Shapes', NEW h \in Hosts, NEW p \in Ports, Send(h, p)
  PROVE  StreamInv'
<1> DEFINE c == conns[h][p]
           e == conns[Peer(h)][p]
<1>1. /\ ConnOK(c, isns) /\ Roles(h, c) /\ c \in Conns /\ c.state = "Established"
      /\ SentLen(c) \in Nat /\ Heard(c) \in Nat /\ stuck[h] = "no"
  BY EntryFacts DEF Send, MayCall
<1>2. PICK n \in 1 .. (IF h = "c" THEN MaxSend ELSE MaxReply) - SentLen(c) :
        SendAndSet(h, p, Chunks(h, p, n), [c EXCEPT !.snd_nxt = Wrap(@ + n)])
  BY DEF Send
<1>3. n \in Nat /\ SentLen(c) + n <= Limit
  <2>1. CASE h = "c"  BY <1>1, <1>2, <2>1, Sizes
  <2>2. CASE h # "c"  BY <1>1, <1>2, <2>2, Sizes
  <2>3. QED  BY <2>1, <2>2
<1> DEFINE d == [c EXCEPT !.snd_nxt = Wrap(@ + n)]
<1>4. /\ d.state = "Established" /\ d.iss = c.iss /\ d.irs = c.irs /\ d.rcv_nxt = c.rcv_nxt
  BY <1>1 DEF Conns
<1>5. ConnOK(d, isns) /\ SentLen(d) = SentLen(c) + n  BY <1>1, <1>3, SendOK
<1>6. /\ IsFiniteSet(Chunks(h, p, n))
      /\ \A m \in Chunks(h, p, n) :
           /\ SegOK(m, isns) /\ m.to = Peer(h) /\ m.port = p /\ "SYN" \notin m.flags
           /\ Source(m) = c.iss /\ Before(m) + Len(m.data) <= SentLen(c) + n
  BY <1>1, <1>3, ChunksOK
<1>7. \/ conns' = conns /\ net' = net
      \/ conns' = [conns EXCEPT ![h][p] = d] /\ (net' = net \/ net' = net \cup Chunks(h, p, n))
  BY <1>1, <1>2, SendEffect
<1> HIDE DEF d
<1>8. EntryOK(h, d, isns)  BY <1>1, <1>4, <1>5 DEF EntryOK, Roles
<1>9. Follows(h, c, d, e)
  <2>1. SentLen(c) <= SentLen(d)  BY <1>1, <1>3, <1>5
  <2>2. Live(c) /\ Heard(d) = Heard(c)  BY <1>1, <1>4 DEF Live, Heard
  <2>3. SentBy(e, c.irs, Heard(c))  BY <1>1 DEF StreamInv, Sent
  <2>4. QED  BY <1>1, <1>4, <2>1, <2>2, <2>3 DEF Follows
<1>10. \A m \in Chunks(h, p, n) : SentBy(d, Source(m), Before(m) + Len(m.data))
  BY <1>5, <1>6 DEF SentBy
<1>11. Len(accept_queue') <= Backlog /\ isns' = isns /\ connects' = connects /\ call' = call
  BY DEF Send, StreamInv, Local
<1>12. QED  BY <1>6, <1>7, <1>8, <1>9, <1>10, <1>11, FollowStep

\* recv moves bytes; what was received stays the same.
LEMMA RecvStream ==
  ASSUME Shapes, StreamInv, Shapes', NEW h \in Hosts, NEW p \in Ports, Recv(h, p)
  PROVE  StreamInv'
<1> DEFINE c == conns[h][p]
           e == conns[Peer(h)][p]
<1>1. /\ ConnOK(c, isns) /\ Roles(h, c) /\ c \in Conns
      /\ SentLen(c) \in Nat /\ Heard(c) \in Nat
  BY EntryFacts
<1>2. PICK n \in 1 .. Len(c.recv_buffer) :
        SetConn(h, p, [c EXCEPT !.taken = @ \o SubSeq(c.recv_buffer, 1, n),
                                !.recv_buffer = SubSeq(@, n + 1, Len(@))])
  BY DEF Recv
<1> DEFINE d == [c EXCEPT !.taken = @ \o SubSeq(c.recv_buffer, 1, n),
                          !.recv_buffer = SubSeq(@, n + 1, Len(@))]
<1>3. /\ ConnOK(d, isns) /\ d.state = c.state /\ d.iss = c.iss /\ d.irs = c.irs
      /\ SentLen(d) = SentLen(c) /\ Heard(d) = Heard(c)
  BY <1>1, RecvOK
<1>4. conns' = [conns EXCEPT ![h][p] = d]  BY <1>2 DEF SetConn
<1> HIDE DEF d
<1>5. EntryOK(h, d, isns)  BY <1>1, <1>3 DEF EntryOK, Roles
<1>6. Follows(h, c, d, e)
  <2>1. Follows(h, c, c, e)  BY FollowsItself
  <2>2. QED  BY <1>3, <2>1 DEF Follows, Live
<1>7. isns' = isns /\ connects' = connects /\ call' = call /\ accept_queue' = accept_queue
      /\ net' = net
  BY DEF Recv
<1>8. QED  BY <1>4, <1>5, <1>6, <1>7, NothingSent, QuietStep

\* close ends the stream with a FIN.
LEMMA CloseStream ==
  ASSUME Shapes, StreamInv, Shapes', NEW h \in Hosts, NEW p \in Ports, Close(h, p)
  PROVE  StreamInv'
<1> DEFINE c == conns[h][p]
           seg == Segment(h, p, {"FIN", "ACK"}, c.snd_nxt, c.rcv_nxt, <<>>)
           d == [c EXCEPT !.snd_nxt = Wrap(@ + 1),
                          !.state = IF @ = "Established" THEN "FinWait1" ELSE "LastAck"]
<1>1. c \in Conns /\ c.snd_nxt \in Nums /\ c.rcv_nxt \in Nums  BY EntryFacts
<1>2. /\ SendAndSet(h, p, {seg}, d) /\ stuck[h] = "no"
      /\ c.state \in {"Established", "CloseWait"}
  BY DEF Close, MayCall
<1>3. Wrap(c.snd_nxt + 1) \in Nums  BY <1>1, Sizes, WrapNum DEF Nums
<1>4. /\ d \in Conns /\ d.state \in {"FinWait1", "LastAck"} /\ d.iss = c.iss /\ d.irs = c.irs
      /\ d.taken = c.taken /\ d.recv_buffer = c.recv_buffer /\ d.dropped = c.dropped
  BY <1>1, <1>3 DEF Conns, TcpStates
<1>5. Quiet(seg) /\ IsFiniteSet({seg})
  <2>1. {"FIN", "ACK"} \in SUBSET Flags /\ "SYN" \notin {"FIN", "ACK"}  BY DEF Flags
  <2>2. QED  BY <1>1, <2>1, QuietSegment, FS_Singleton
<1> HIDE DEF d, seg
<1>6. EntryOK(h, d, isns) /\ Follows(h, c, d, conns[Peer(h)][p])
  BY <1>2, <1>4, OverFollows DEF Live
<1>7. isns' = isns /\ connects' = connects /\ call' = call /\ accept_queue' = accept_queue
  BY DEF Close
<1>8. QED  BY <1>2, <1>5, <1>6, <1>7, QuietStep

\* connect's wait is over.
LEMMA ConnectDoneStream ==
  ASSUME Shapes, StreamInv, Shapes', ConnectDone
  PROVE  StreamInv'
<1>1. "c" \in Hosts /\ port \in Ports  BY DEF Shapes, Hosts
<1>2. /\ isns' = isns /\ connects' = connects /\ call' = "idle" /\ accept_queue' = accept_queue
      /\ net' = net
  BY DEF ConnectDone
<1>3. \E d : /\ EntryOK("c", d, isns)
             /\ Follows("c", conns["c"][port], d, conns[Peer("c")][port])
             /\ conns' = [conns EXCEPT !["c"][port] = d]
  <2>1. CASE UNCHANGED conns
    <3> DEFINE d == conns["c"][port]
    <3>1. EntryOK("c", d, isns) /\ Follows("c", d, d, conns[Peer("c")][port])
      BY <1>1, FollowsItself DEF StreamInv, Local
    <3>2. conns' = [conns EXCEPT !["c"][port] = d]
      <4>1. conns = [h \in Hosts |-> [p \in Ports |-> conns[h][p]]]  BY DEF Shapes
      <4>2. conns = [conns EXCEPT !["c"][port] = conns["c"][port]]  BY <1>1, <4>1
      <4>3. QED  BY <2>1, <4>2
    <3>3. QED  BY <3>1, <3>2
  <2>2. CASE SetConn("c", port, NoConn)
    <3>1. ConnOK(NoConn, isns)  BY NoConnOK DEF StreamInv, Local
    <3>2. NoConn.state = "none"  BY DEF NoConn
    <3>3. /\ EntryOK("c", NoConn, isns)
          /\ Follows("c", conns["c"][port], NoConn, conns[Peer("c")][port])
      BY <3>1, <3>2 DEF EntryOK, Roles, Follows, Live
    <3>4. QED  BY <2>2, <3>3 DEF SetConn
  <2>3. QED  BY <2>1, <2>2 DEF ConnectDone
<1>4. QED  BY <1>1, <1>2, <1>3, NothingSent, QuietStep

\* Steps that leave the connections alone.
LEMMA IdleStream ==
  ASSUME Shapes, StreamInv, Shapes', conns' = conns, NEW segs, IsFiniteSet(segs),
         \A m \in segs : Quiet(m), net' = net \/ net' = net \cup segs,
         isns' = isns, connects' \in 0 .. MaxConnect, call' \in {"idle", "probe", "wait"},
         isns + Probing' <= connects' + Cardinality(Used), Len(accept_queue') <= Backlog
  PROVE  StreamInv'
<1>1. IsFiniteSet(net') /\ net \subseteq net'
  <2>1. IsFiniteSet(net \cup segs)  BY FS_Union DEF StreamInv, Local
  <2>2. QED  BY <2>1 DEF StreamInv, Local
<1>2. \A m \in net' : SegOK(m, isns) /\ (m \in net \/ ("SYN" \notin m.flags /\ m.data = <<>>))
  BY QuietOK DEF Quiet, StreamInv, Local
<1>3. Pairs' /\ Sent'
  <2>1. \A h \in Hosts, p \in Ports :
          /\ Follows(h, conns[h][p], conns'[h][p], conns[Peer(h)][p])
          /\ conns'[h][p] \in Conns
    BY FollowsItself, EntryFacts
  <2>2. QED  BY <1>1, <1>2, <2>1, FollowsKeeps
<1>4. Used' = Used  BY DEF Used, St
<1>5. Local'  BY <1>1, <1>2, <1>4 DEF StreamInv, Local
<1>6. QED  BY <1>3, <1>5 DEF StreamInv

\* Listening, looking for a port and accepting touch no stream.
LEMMA CallsStream ==
  ASSUME Shapes, StreamInv, Shapes', Listen \/ ConnectProbe \/ Accept \/ UNCHANGED vars
  PROVE  StreamInv'
<1>1. conns' = conns /\ net' = net /\ isns' = isns
  BY DEF Listen, ConnectProbe, Accept, vars
<1>2. isns \in Nat /\ connects \in 0 .. MaxConnect /\ isns + Probing <= connects + Cardinality(Used)
      /\ call \in {"idle", "probe", "wait"} /\ Len(accept_queue) <= Backlog
  BY DEF StreamInv, Local
<1>3. Cardinality(Used) \in Nat /\ MaxConnect \in Nat /\ Backlog \in Nat
  BY UsedFinite, TcpAssumption
<1>4. CASE ConnectProbe
  <2>1. /\ call' = "probe" /\ accept_queue' = accept_queue
        /\ connects' = IF call = "idle" THEN connects + 1 ELSE connects
        /\ call = "probe" \/ (call = "idle" /\ connects < MaxConnect)
    BY <1>4 DEF ConnectProbe, InProbe
  <2>2. Probing' = 1 /\ Probing = IF call = "probe" THEN 1 ELSE 0  BY <2>1 DEF Probing
  <2>3. connects' \in 0 .. MaxConnect /\ isns + Probing' <= connects' + Cardinality(Used)
    <3>1. CASE call = "probe"  BY <1>2, <1>3, <2>1, <2>2, <3>1
    <3>2. CASE call = "idle" /\ connects < MaxConnect  BY <1>2, <1>3, <2>1, <2>2, <3>2
    <3>3. QED  BY <2>1, <3>1, <3>2
  <2>4. QED  BY <1>1, <1>2, <2>1, <2>3, NothingSent, IdleStream
<1>5. CASE Listen \/ UNCHANGED vars
  <2>1. call' = call /\ connects' = connects /\ accept_queue' = accept_queue
    BY <1>5 DEF Listen, vars
  <2>2. Probing' = Probing  BY <2>1 DEF Probing
  <2>3. QED  BY <1>1, <1>2, <2>1, <2>2, NothingSent, IdleStream
<1>6. CASE Accept
  <2>1. PICK i \in DOMAIN accept_queue : accept_queue' = RemoveAt(accept_queue, i)
    BY <1>6 DEF Accept
  <2>2. accept_queue \in Seq(Ports) /\ accept_queue' \in Seq(Ports)  BY DEF Shapes
  <2>3. DOMAIN accept_queue' = 1 .. Len(accept_queue) - 1  BY <2>1, <2>2, RemoveAtSeq
  <2>4. Len(accept_queue') <= Backlog
    <3>1. Len(accept_queue) \in Nat /\ Len(accept_queue') \in Nat
          /\ DOMAIN accept_queue' = 1 .. Len(accept_queue')
          /\ DOMAIN accept_queue = 1 .. Len(accept_queue)
      BY <2>2, LenProperties
    <3>2. \A u, v \in Nat : 1 .. u = 1 .. v - 1 => u <= v
      <4> SUFFICES ASSUME NEW u \in Nat, NEW v \in Nat, 1 .. u = 1 .. v - 1, u > v  PROVE FALSE
        OBVIOUS
      <4>1. u \in 1 .. u /\ u \notin 1 .. v - 1  OBVIOUS
      <4>2. QED  BY <4>1
    <3>3. Len(accept_queue') <= Len(accept_queue)  BY <2>3, <3>1, <3>2
    <3>4. QED  BY <1>2, <1>3, <3>1, <3>3
  <2>5. call' = call /\ connects' = connects  BY <1>6 DEF Accept
  <2>6. Probing' = Probing  BY <2>5 DEF Probing
  <2>7. QED  BY <1>1, <1>2, <2>4, <2>5, <2>6, NothingSent, IdleStream
<1>7. QED  BY <1>4, <1>5, <1>6

\* A RST for a stray SYN touches no stream.
LEMMA StrayStream ==
  ASSUME Shapes, StreamInv, Shapes', NEW h \in Hosts, NEW m \in net, RcvStray(h, m)
  PROVE  StreamInv'
<1> DEFINE seg == Segment(h, m.port, {"RST", "ACK"}, 0, Wrap(m.seq + 1), <<>>)
<1>1. m.port \in Ports /\ m.seq \in Nums  BY DEF StreamInv, Local, SegOK, Segments
<1>2. 0 \in Nums /\ Wrap(m.seq + 1) \in Nums
  <2>1. m.seq + 1 \in Int  BY <1>1, Sizes DEF Nums
  <2>2. QED  BY <2>1, WrapNum, Sizes DEF Nums
<1>3. Quiet(seg) /\ IsFiniteSet({seg})
  <2>1. {"RST", "ACK"} \in SUBSET Flags /\ "SYN" \notin {"RST", "ACK"}  BY DEF Flags
  <2>2. QED  BY <1>1, <1>2, <2>1, QuietSegment, FS_Singleton
<1>4. net' = net \/ net' = net \cup {seg}  BY DEF RcvStray, Transmit
<1> HIDE DEF seg
<1>5. conns' = conns /\ isns' = isns /\ connects' = connects /\ call' = call
      /\ accept_queue' = accept_queue
  BY DEF RcvStray
<1>6. Probing' = Probing  BY <1>5 DEF Probing
<1>7. QED  BY <1>3, <1>4, <1>5, <1>6, IdleStream DEF StreamInv, Local

\* Segments that end a connection, or move it between its last states.
LEMMA EndStream ==
  ASSUME Shapes, StreamInv, Shapes', NEW h \in Hosts, NEW m \in net,
         RcvRst(h, m) \/ RcvInLastAck(h, m) \/ RcvInFinWait(h, m)
  PROVE  StreamInv'
<1> DEFINE p == m.port
           c == conns[h][p]
           nxt == Wrap(c.rcv_nxt + 1)
<1>1. p \in Ports /\ c \in Conns /\ c.rcv_nxt \in Nums /\ c.state # "none"
  BY EntryFacts DEF Shapes, RcvRst, RcvInLastAck, RcvInFinWait, Arm
<1>2. isns' = isns /\ connects' = connects /\ call' = call /\ accept_queue' = accept_queue
  BY DEF RcvRst, RcvInLastAck, RcvInFinWait, Others
<1>3. nxt \in Nums  BY <1>1, Sizes, WrapNum DEF Nums
<1>4. ASSUME NEW st \in {"Closed", "FinWait2"}, NEW d, d = [c EXCEPT !.state = st],
             conns' = [conns EXCEPT ![h][p] = d], net' = net
      PROVE  StreamInv'
  <2>1. /\ d \in Conns /\ d.state = st /\ d.iss = c.iss /\ d.irs = c.irs /\ d.taken = c.taken
        /\ d.recv_buffer = c.recv_buffer /\ d.dropped = c.dropped
    BY <1>1, <1>4 DEF Conns, TcpStates
  <2>2. EntryOK(h, d, isns) /\ Follows(h, c, d, conns[Peer(h)][p])
    BY <1>1, <1>4, <2>1, OverFollows DEF Live
  <2>3. QED  BY <1>1, <1>2, <1>4, <2>2, NothingSent, QuietStep
<1>5. CASE RcvRst(h, m) \/ RcvInLastAck(h, m)
  BY <1>4, <1>5 DEF RcvRst, RcvInLastAck, SetConn
<1>6. CASE RcvInFinWait(h, m)
  <2>1. CASE "FIN" \notin m.flags
    BY <1>4, <1>6, <2>1 DEF RcvInFinWait, SetConn
  <2>2. CASE "FIN" \in m.flags
    <3> DEFINE d == [c EXCEPT !.rcv_nxt = nxt, !.state = "TimeWait"]
    <3>1. SendAndSet(h, p, {AckOf(h, p, nxt)}, d) /\ stuck[h] = "no"
      BY <1>6, <2>2 DEF RcvInFinWait, Arm, Arrives
    <3>2. /\ d \in Conns /\ d.state = "TimeWait" /\ d.iss = c.iss /\ d.irs = c.irs
          /\ d.taken = c.taken /\ d.recv_buffer = c.recv_buffer /\ d.dropped = c.dropped
      BY <1>1, <1>3 DEF Conns, TcpStates
    <3> HIDE DEF d, nxt
    <3>3. EntryOK(h, d, isns) /\ Follows(h, c, d, conns[Peer(h)][p])
      BY <1>1, <3>2, OverFollows DEF Live
    <3>4. Quiet(AckOf(h, p, nxt)) /\ IsFiniteSet({AckOf(h, p, nxt)})
      BY <1>1, <1>3, AckQuiet, FS_Singleton
    <3>5. QED  BY <1>1, <1>2, <3>1, <3>3, <3>4, QuietStep
  <2>3. QED  BY <2>1, <2>2
<1>7. QED  BY <1>5, <1>6

\* The last segment of a handshake, at s.
LEMMA SynReceivedStream ==
  ASSUME Shapes, StreamInv, Shapes', NEW h \in Hosts, NEW m \in net, RcvInSynReceived(h, m)
  PROVE  StreamInv'
<1> DEFINE p == m.port
           c == conns[h][p]
           d == [c EXCEPT !.state = "Established"]
<1>1. /\ p \in Ports /\ c \in Conns /\ ConnOK(c, isns) /\ Roles(h, c) /\ c.state = "SynReceived"
  BY EntryFacts DEF Shapes, RcvInSynReceived, Arm
<1>2. /\ isns' = isns /\ connects' = connects /\ call' = call /\ accept_queue' = accept_queue
      /\ net' = net /\ conns' = [conns EXCEPT ![h][p] = d]
  BY DEF RcvInSynReceived, Others, SetConn
<1>3. /\ d \in Conns /\ d.state = "Established" /\ d.iss = c.iss /\ d.snd_nxt = c.snd_nxt
      /\ d.rcv_nxt = c.rcv_nxt /\ d.irs = c.irs
      /\ d.taken = c.taken /\ d.recv_buffer = c.recv_buffer /\ d.dropped = c.dropped
  BY <1>1 DEF Conns, TcpStates
<1> HIDE DEF d, c
<1>4. Heard(d) = 0 /\ Known(d.irs, isns)  BY <1>1, <1>3 DEF Heard, ConnOK
<1>5. ConnOK(d, isns) /\ SentLen(d) = SentLen(c)  BY <1>1, <1>3, <1>4, EstablishedOK
<1>6. h = "s"  BY <1>1 DEF Roles, Hosts
<1>7. SentBy(conns[Peer(h)][p], d.irs, Heard(d))
  <2>1. Peer(h) \in Hosts  BY DEF Peer, Hosts
  <2>2. SentLen(conns[Peer(h)][p]) \in Nat  BY <1>1, <2>1, EntryFacts
  <2>3. QED  BY <1>4, <2>2 DEF SentBy
<1>8. SentLen(c) <= SentLen(d)
  <2>1. SentLen(c) \in Nat  BY <1>1, SentLenNat
  <2>2. QED  BY <1>5, <2>1
<1>9. EntryOK(h, d, isns) /\ Follows(h, c, d, conns[Peer(h)][p])
  BY <1>1, <1>3, <1>5, <1>6, <1>7, <1>8 DEF EntryOK, Roles, Follows, Live
<1>10. QED  BY <1>1, <1>2, <1>9, NothingSent, QuietStep DEF c

\* The second segment of a handshake, at c.
LEMMA SynSentStream ==
  ASSUME Shapes, StreamInv, Shapes', NEW h \in Hosts, NEW m \in net, RcvInSynSent(h, m)
  PROVE  StreamInv'
<1> DEFINE p == m.port
           c == conns[h][p]
           nxt == Wrap(m.seq + 1)
           d == [c EXCEPT !.irs = m.seq, !.rcv_nxt = nxt, !.state = "Established"]
<1>1. /\ p \in Ports /\ c \in Conns /\ ConnOK(c, isns) /\ Roles(h, c) /\ c.state = "SynSent"
      /\ stuck[h] = "no" /\ "SYN" \in m.flags /\ m.to = h
  BY EntryFacts DEF Shapes, RcvInSynSent, Arm, Arrives
<1>2. /\ isns' = isns /\ connects' = connects /\ call' = call /\ accept_queue' = accept_queue
      /\ SendAndSet(h, p, {AckOf(h, p, nxt)}, d)
  BY DEF RcvInSynSent, Others
<1>3. SegOK(m, isns) /\ m.seq \in Nums /\ Known(m.seq, isns)
  BY <1>1 DEF StreamInv, Local, SegOK, Segments
<1>4. nxt \in Nums
  <2>1. m.seq + 1 \in Int  BY <1>3, Sizes DEF Nums
  <2>2. QED  BY <2>1, WrapNum
<1>5. /\ d \in Conns /\ d.state = "Established" /\ d.iss = c.iss /\ d.snd_nxt = c.snd_nxt
      /\ d.rcv_nxt = nxt /\ d.irs = m.seq
      /\ d.taken = c.taken /\ d.recv_buffer = c.recv_buffer /\ d.dropped = c.dropped
  <2> HIDE DEF nxt
  <2>1. QED  BY <1>1, <1>3, <1>4 DEF Conns, TcpStates
<1> HIDE DEF d, c
<1>6. Heard(d) = 0 /\ Known(d.irs, isns)  BY <1>3, <1>5, PastFirst DEF Heard
<1>7. ConnOK(d, isns) /\ SentLen(d) = SentLen(c)  BY <1>1, <1>5, <1>6, EstablishedOK
<1>8. h = "c" /\ Peer(h) = "s" /\ "s" \in Hosts  BY <1>1 DEF Roles, Hosts, Peer
<1>9. conns["s"][p].state # "none" /\ m.seq = conns["s"][p].iss
  BY <1>1, <1>8 DEF StreamInv, Pairs
<1>10. SentBy(conns[Peer(h)][p], d.irs, Heard(d))
  <2>1. SentLen(conns[Peer(h)][p]) \in Nat  BY <1>1, <1>8, EntryFacts
  <2>2. QED  BY <1>6, <2>1 DEF SentBy
<1>11. SentLen(c) <= SentLen(d)
  <2>1. SentLen(c) \in Nat  BY <1>1, SentLenNat
  <2>2. QED  BY <1>7, <2>1
<1>12. EntryOK(h, d, isns) /\ Follows(h, c, d, conns[Peer(h)][p])
  BY <1>1, <1>5, <1>7, <1>8, <1>9, <1>10, <1>11 DEF EntryOK, Roles, Follows, Live
<1> HIDE DEF nxt
<1>13. Quiet(AckOf(h, p, nxt)) /\ IsFiniteSet({AckOf(h, p, nxt)})
  BY <1>1, <1>4, AckQuiet, FS_Singleton
<1>14. QED  BY <1>1, <1>2, <1>12, <1>13, QuietStep DEF c

\* Data and FIN of an established connection.
LEMMA EstablishedStream ==
  ASSUME Shapes, StreamInv, Shapes', NEW h \in Hosts, NEW m \in net, RcvInEstablished(h, m)
  PROVE  StreamInv'
<1> DEFINE p == m.port
           c == conns[h][p]
           e == conns[Peer(h)][p]
           fits == Expected(c, m)
           fin == "FIN" \in m.flags
           room == RecvCap - Len(c.recv_buffer)
           data == IF fits THEN m.data ELSE <<>>
           nxt == Wrap(c.rcv_nxt + Len(data))
           last == Wrap(nxt + 1)
           acks == (IF fits THEN {AckOf(h, p, nxt)} ELSE {})
                     \cup (IF fin THEN {AckOf(h, p, last)} ELSE {})
           d == [c EXCEPT !.recv_buffer = @ \o SubSeq(data, 1, Min({room, Len(data)})),
                          !.dropped = @ \/ Len(data) > room,
                          !.rcv_nxt = IF fin THEN last ELSE nxt,
                          !.state = IF fin THEN "CloseWait" ELSE @]
<1>1. /\ p \in Ports /\ c \in Conns /\ ConnOK(c, isns) /\ Roles(h, c) /\ c.state = "Established"
      /\ stuck[h] = "no" /\ m.to = h /\ c.rcv_nxt \in Nums /\ c.irs \in Nums /\ Heard(c) \in Nat
      /\ SentLen(c) \in Nat
  <2>1. p \in Ports /\ c.state = "Established" /\ stuck[h] = "no" /\ m.to = h
    BY DEF Shapes, RcvInEstablished, Arm, Arrives
  <2>2. c \in Conns /\ ConnOK(c, isns) /\ Roles(h, c) /\ Heard(c) \in Nat /\ SentLen(c) \in Nat
    BY <2>1, EntryFacts
  <2>3. QED  BY <2>1, <2>2 DEF Conns
<1>2. \/ SendAndSet(h, p, acks, d)
      \/ conns' = [conns EXCEPT ![h][p] = d] /\ net' = net
  BY DEF RcvInEstablished, SetConn
<1>3. isns' = isns /\ connects' = connects /\ call' = call /\ accept_queue' = accept_queue
  BY DEF RcvInEstablished, Others
<1>4. SegOK(m, isns) /\ m.data \in Seq(Bytes)  BY DEF StreamInv, Local, SegOK, Segments
<1>5. isns \in Nat /\ isns <= MaxIsns  BY IsnBound DEF StreamInv
<1>6. /\ data \in Seq(Bytes) /\ Len(data) \in Nat /\ Heard(c) + Len(data) <= Limit
      /\ \A k \in 1 .. Len(data) : data[k] = <<c.irs, Heard(c) + k>>
      /\ fits => Source(m) = c.irs /\ Before(m) = Heard(c) /\ m.data # <<>>
  <2> HIDE DEF c
  <2>1. CASE fits
    <3>1. data = m.data /\ m.data # <<>>  BY <2>1 DEF Expected
    <3>2. /\ Source(m) = c.irs /\ Before(m) = Heard(c) /\ Heard(c) + Len(m.data) <= Limit
          /\ \A k \in 1 .. Len(m.data) : m.data[k] = <<c.irs, Heard(c) + k>>
      BY <1>1, <1>4, <1>5, <2>1, ExpectedRun
    <3>3. Len(m.data) \in Nat  BY <1>4, LenProperties
    <3> HIDE DEF data, fits
    <3>4. QED  BY <1>4, <3>1, <3>2, <3>3
  <2>2. CASE ~fits
    <3>1. data = <<>>  BY <2>2
    <3>2. Heard(c) <= Limit  BY <1>1 DEF ConnOK, Flowing
    <3> HIDE DEF data, fits
    <3>3. data \in Seq(Bytes) /\ Len(data) = 0  BY <3>1, Empties
    <3>4. QED  BY <1>1, <2>2, <3>2, <3>3
  <2>3. QED  BY <2>1, <2>2
<1>7. nxt \in Nums /\ last \in Nums
  <2> HIDE DEF data, c
  <2>1. c.rcv_nxt + Len(data) \in Int  BY <1>1, <1>6, Sizes DEF Nums
  <2>2. nxt \in Nums  BY <2>1, WrapNum
  <2> HIDE DEF nxt
  <2>3. nxt + 1 \in Int  BY <2>2, Sizes DEF Nums
  <2>4. QED  BY <2>2, <2>3, WrapNum
<1> HIDE DEF nxt, last, data, room, fin, fits
<1>8. /\ d.iss = c.iss /\ d.snd_nxt = c.snd_nxt /\ d.irs = c.irs /\ d.taken = c.taken
      /\ d.recv_buffer = c.recv_buffer \o SubSeq(data, 1, Min({room, Len(data)}))
      /\ d.dropped = (c.dropped \/ Len(data) > room)
      /\ d.rcv_nxt = IF fin THEN last ELSE nxt
      /\ d.state = IF fin THEN "CloseWait" ELSE "Established"
  BY <1>1 DEF Conns
<1>9. d \in Conns
  <2>1. c.recv_buffer \o SubSeq(data, 1, Min({room, Len(data)})) \in Seq(Bytes)
    <3> DEFINE b == c.recv_buffer
               x == SubSeq(data, 1, Min({room, Len(data)}))
    <3>1. b \in Seq(Bytes) /\ Len(b) \in Nat  BY <1>1, ReceivedSeq, LenProperties
    <3> HIDE DEF b
    <3>2. room \in Int  BY <3>1, Empties DEF room, b
    <3>3. Min({room, Len(data)}) \in Int /\ Min({room, Len(data)}) <= Len(data)
      BY <1>6, <3>2, MinOfTwo
    <3>4. \A i \in 1 .. Min({room, Len(data)}) : data[i] \in Bytes
      BY <1>6, <3>3, ElementOfSeq
    <3>5. x \in Seq(Bytes)
      <4> DEFINE k == Min({room, Len(data)})
      <4> HIDE DEF k
      <4>1. k \in Int /\ \A i \in 1 .. k : data[i] \in Bytes  BY <3>3, <3>4 DEF k
      <4>2. SubSeq(data, 1, k) \in Seq(Bytes)  BY <4>1, SubSeqProperties
      <4>3. QED  BY <4>2 DEF k
    <3> HIDE DEF x
    <3>6. b \o x \in Seq(Bytes)  BY <3>1, <3>5, ConcatProperties
    <3>7. QED  BY <3>6 DEF b, x
  <2>2. (c.dropped \/ Len(data) > room) \in BOOLEAN  OBVIOUS
  <2>3. QED  BY <1>1, <1>7, <2>1, <2>2 DEF Conns, TcpStates
<1> HIDE DEF d, c, e
<1>10. /\ InOrder(d) /\ Len(d.recv_buffer) <= RecvCap
       /\ ~d.dropped => Len(Received(d)) = Heard(c) + Len(data)
       /\ \A i \in 1 .. Len(Received(d)) : Received(d)[i][2] <= Heard(c) + Len(data)
  BY <1>1, <1>6, <1>8, <1>9, TakeOK DEF room
<1>11. EntryOK(h, d, isns) /\ Follows(h, c, d, e)
  <2>1. CASE fin
    <3>1. d.state = "CloseWait" /\ ~Live(d)  BY <1>8, <2>1 DEF Live
    <3>2. ConnOK(d, isns)  BY <1>9, <1>10, <3>1 DEF ConnOK
    <3>3. QED  BY <1>1, <1>8, <3>1, <3>2 DEF EntryOK, Roles, Follows
  <2>2. CASE ~fin
    <3>1. d.state = "Established" /\ d.rcv_nxt = nxt  BY <1>8, <2>2
    <3>2. Heard(d) = Heard(c) + Len(data)
      <4>1. Past(c.rcv_nxt, c.irs) + Len(data) < SeqSpace
        <5>1. Heard(c) + Len(data) < SeqSpace  BY <1>1, <1>6, Sizes
        <5>2. QED  BY <5>1 DEF Heard
      <4>2. Past(Wrap(c.rcv_nxt + Len(data)), c.irs) = Past(c.rcv_nxt, c.irs) + Len(data)
        BY <1>1, <1>6, <4>1, PastMore
      <4>3. QED  BY <1>8, <3>1, <4>2 DEF Heard, nxt
    <3>3. SentLen(d) = SentLen(c)  BY <1>8 DEF SentLen
    <3>4. SentLen(c) <= Limit /\ Known(c.iss, isns) /\ Known(c.irs, isns)
      BY <1>1 DEF ConnOK, Flowing, Live
    <3>5. Flowing(d)  BY <1>6, <1>10, <3>2, <3>3, <3>4 DEF Flowing
    <3>6. ConnOK(d, isns)  BY <1>8, <1>9, <1>10, <3>1, <3>4, <3>5 DEF ConnOK
    <3>7. SentBy(e, d.irs, Heard(d))
      <4>1. CASE fits
        <5>1. data = m.data  BY <4>1 DEF data
        <5>2. SentBy(e, Source(m), Before(m) + Len(m.data))
          BY <1>1, <1>6, <4>1 DEF StreamInv, Sent, e
        <5>3. QED  BY <1>6, <1>8, <3>2, <4>1, <5>1, <5>2
      <4>2. CASE ~fits
        <5>1. Len(data) = 0  BY <4>2, Empties DEF data
        <5>2. Heard(d) = Heard(c)  BY <1>1, <3>2, <5>1
        <5>3. SentBy(e, c.irs, Heard(c))  BY <1>1 DEF StreamInv, Sent, c, e
        <5>4. QED  BY <1>8, <5>2, <5>3
      <4>3. QED  BY <4>1, <4>2
    <3>8. SentLen(c) <= SentLen(d)  BY <1>1, <3>3
    <3>9. QED  BY <1>1, <1>8, <3>1, <3>6, <3>7, <3>8 DEF EntryOK, Roles, Follows, Live
  <2>3. QED  BY <2>1, <2>2
<1>12. IsFiniteSet(acks) /\ \A x \in acks : Quiet(x)
  <2>1. Quiet(AckOf(h, p, nxt)) /\ Quiet(AckOf(h, p, last))  BY <1>1, <1>7, AckQuiet
  <2>2. acks \in SUBSET {AckOf(h, p, nxt), AckOf(h, p, last)}  OBVIOUS
  <2>3. IsFiniteSet({AckOf(h, p, nxt)} \cup {AckOf(h, p, last)})
    BY FS_Singleton, FS_Union
  <2>4. {AckOf(h, p, nxt), AckOf(h, p, last)} = {AckOf(h, p, nxt)} \cup {AckOf(h, p, last)}
    OBVIOUS
  <2> HIDE DEF acks
  <2>5. QED  BY <2>1, <2>2, <2>3, <2>4, FS_Subset
<1> HIDE DEF acks
<1>13. QED  BY <1>1, <1>2, <1>3, <1>11, <1>12, QuietStep DEF c, e

\* A new connection has a number that no segment and no connection has met.
LEMMA FreshEntry ==
  ASSUME Shapes, StreamInv, Shapes', NEW h \in Hosts, NEW p \in Ports, NEW d, NEW segs,
         EntryOK(h, d, isns + 1), d.iss = Isn[isns], d.state # "Established",
         isns + 1 <= MaxIsns, conns' = [conns EXCEPT ![h][p] = d],
         net' = net \/ net' = net \cup segs, IsFiniteSet(segs),
         \A m \in segs : SegOK(m, isns + 1) /\ m.data = <<>>
  PROVE  /\ \A g \in Hosts, q \in Ports :
              /\ EntryOK(g, conns'[g][q], isns + 1)
              /\ conns'[g][q] = IF g = h /\ q = p THEN d ELSE conns[g][q]
         /\ \A m \in net' : SegOK(m, isns + 1)
         /\ IsFiniteSet(net') /\ net \subseteq net'
         /\ Sent'
<1>1. isns \in Nat  BY DEF StreamInv, Local
<1>2. \A g \in Hosts, q \in Ports : conns'[g][q] = IF g = h /\ q = p THEN d ELSE conns[g][q]
  <2>1. conns = [g \in Hosts |-> [q \in Ports |-> conns[g][q]]]  BY DEF Shapes
  <2>2. QED  BY <2>1
<1>3. ASSUME NEW g \in Hosts, NEW q \in Ports  PROVE EntryOK(g, conns'[g][q], isns + 1)
  <2>1. EntryOK(g, conns[g][q], isns)  BY DEF StreamInv, Local
  <2>2. EntryOK(g, conns[g][q], isns + 1)  BY <1>1, <2>1, KnownMore DEF EntryOK
  <2>3. QED  BY <1>2, <2>2
<1>4. \A m \in net : SegOK(m, isns) /\ SegOK(m, isns + 1)
  BY <1>1, KnownMore DEF StreamInv, Local
<1>5. IsFiniteSet(net')
  <2>1. IsFiniteSet(net)  BY DEF StreamInv, Local
  <2>2. IsFiniteSet(net \cup segs)  BY <2>1, FS_Union
  <2>3. QED  BY <2>1, <2>2
<1>6. ASSUME NEW g \in Hosts, NEW q \in Ports, NEW src, NEW n, Known(src, isns),
             SentBy(conns[g][q], src, n)
      PROVE  SentBy(conns'[g][q], src, n)
  <2>1. CASE g = h /\ q = p
    <3>1. src # d.iss  BY <1>1, <1>6, FreshIsn
    <3>2. conns'[g][q] = d  BY <1>2, <2>1
    <3>3. QED  BY <3>1, <3>2 DEF SentBy
  <2>2. CASE ~(g = h /\ q = p)
    <3>1. conns'[g][q] = conns[g][q]  BY <1>2, <2>2
    <3>2. QED  BY <1>6, <3>1
  <2>3. QED  BY <2>1, <2>2
<1>7. ASSUME NEW m \in net', m.data # <<>>
      PROVE  SentBy(conns'[Peer(m.to)][m.port], Source(m), Before(m) + Len(m.data))
  <2>1. m \in net  BY <1>7
  <2>2. Known(Source(m), isns) /\ m.port \in Ports /\ Peer(m.to) \in Hosts
    BY <1>4, <1>7, <2>1 DEF SegOK, Run, Segments, Peer, Hosts
  <2>3. SentBy(conns[Peer(m.to)][m.port], Source(m), Before(m) + Len(m.data))
    BY <1>7, <2>1 DEF StreamInv, Sent
  <2>4. QED  BY <1>6, <2>2, <2>3
<1>8. ASSUME NEW g \in Hosts, NEW q \in Ports, conns'[g][q].state = "Established"
      PROVE  SentBy(conns'[Peer(g)][q], conns'[g][q].irs, Heard(conns'[g][q]))
  <2>1. conns'[g][q] = conns[g][q]  BY <1>2, <1>8
  <2>2. Known(conns[g][q].irs, isns)
    BY <1>8, <2>1 DEF StreamInv, Local, EntryOK, ConnOK
  <2>3. Peer(g) \in Hosts  BY DEF Peer, Hosts
  <2>4. SentBy(conns[Peer(g)][q], conns[g][q].irs, Heard(conns[g][q]))
    BY <1>8, <2>1 DEF StreamInv, Sent
  <2>5. SentBy(conns'[Peer(g)][q], conns[g][q].irs, Heard(conns[g][q]))
    BY <1>6, <2>2, <2>3, <2>4
  <2>6. QED  BY <2>1, <2>5
<1>9. Sent'  BY <1>7, <1>8 DEF Sent, Heard, Source, Before
<1>10. QED  BY <1>2, <1>3, <1>4, <1>5, <1>9

\* connect's SYN.
LEMMA ConnectSynStream ==
  ASSUME LockInv, StreamInv, Shapes', ConnectSyn
  PROVE  StreamInv'
<1> DEFINE p == Candidate
           seg == Segment("c", p, {"SYN"}, generate_isn, 0, <<>>)
           d == NewConn("SynSent", 0, 0)
<1>1. Shapes /\ p \in Ports /\ "c" \in Hosts /\ "s" \in Hosts  BY CandidateIsPort DEF LockInv, Hosts
<1>2. isns \in Nat /\ 0 \in Nums /\ isns + 1 <= MaxIsns /\ isns \in 0 .. MaxIsns - 1
  <2>1. isns \in Nat /\ 0 \in Nums  BY Sizes DEF StreamInv, Local, Nums
  <2>2. call = "probe" \/ (call = "idle" /\ connects < MaxConnect)  BY DEF ConnectSyn, InProbe
  <2>3. isns + 1 <= MaxIsns  BY <2>2, ConnectNumber DEF StreamInv
  <2>4. QED  BY <2>1, <2>3, Sizes
<1>3. /\ ConnOK(d, isns + 1) /\ d.state = "SynSent" /\ d.iss = Isn[isns] /\ generate_isn = Isn[isns]
  BY <1>2, NewConnOK DEF generate_isn
<1>4. Known(generate_isn, isns + 1) /\ generate_isn \in Nums
  BY <1>2, <1>3, KnownMore, IsnNum
<1>5. /\ seg \in Segments /\ seg.to = "s" /\ seg.port = p /\ seg.flags = {"SYN"}
      /\ seg.seq = generate_isn /\ seg.data = <<>>
  <2> DEFINE none == <<>>
  <2>1. none \in Seq(Bytes) /\ {"SYN"} \in SUBSET Flags  BY Empties DEF Flags
  <2> HIDE DEF none
  <2>2. LET m == Segment("c", p, {"SYN"}, generate_isn, 0, none)
        IN  /\ m \in Segments /\ m.to = Peer("c") /\ m.port = p
            /\ m.flags = {"SYN"} /\ m.seq = generate_isn /\ m.data = none
    BY <1>1, <1>2, <1>4, <2>1, SegmentFields
  <2>3. Peer("c") = "s"  BY DEF Peer
  <2>4. QED  BY <2>2, <2>3 DEF none
<1>6. conns["c"][p].state = "none"  BY DEF ConnectSyn, InUse
<1>7. conns' = [conns EXCEPT !["c"][p] = d]  BY DEF ConnectSyn, SetConn
<1>8. net' = net \cup {seg} \/ (net' = net /\ ~arp["c"])  BY DEF ConnectSyn, Transmit
<1>9. /\ isns' = isns + 1 /\ call' = "wait" /\ accept_queue' = accept_queue
      /\ connects' = IF call = "idle" THEN connects + 1 ELSE connects
      /\ call = "probe" \/ (call = "idle" /\ connects < MaxConnect)
  BY DEF ConnectSyn, InProbe
<1> HIDE DEF d, seg, p
<1>10. Used' = Used
  <2>1. \A q \in Ports : conns'["s"][q] = conns["s"][q]  BY <1>1, <1>7, OneEntry
  <2>2. QED  BY <2>1 DEF Used, St
<1>11. /\ connects' \in 0 .. MaxConnect /\ isns' + Probing' <= connects' + Cardinality(Used')
       /\ isns + 1 <= MaxIsns
  <2> DEFINE u == Cardinality(Used)
  <2>1. u \in Nat /\ u <= PortHi - PortLo  BY UsedFinite
  <2>2. Probing' = 0 /\ Probing = IF call = "probe" THEN 1 ELSE 0  BY <1>9 DEF Probing
  <2>3. isns + Probing <= connects + u /\ connects \in 0 .. MaxConnect
    BY DEF StreamInv, Local
  <2>4. MaxConnect \in Nat /\ PortLo \in Nat /\ PortHi \in Nat  BY TcpAssumption
  <2> HIDE DEF u
  <2>5. connects' \in 0 .. MaxConnect /\ isns + 1 <= connects' + u
    <3>1. CASE call = "probe"
      <4>1. connects' = connects /\ Probing = 1  BY <1>9, <2>2, <3>1
      <4>2. QED  BY <1>2, <2>1, <2>3, <2>4, <4>1
    <3>2. CASE call = "idle" /\ connects < MaxConnect
      <4>1. connects' = connects + 1 /\ Probing = 0  BY <1>9, <2>2, <3>2
      <4>2. QED  BY <1>2, <2>1, <2>3, <2>4, <3>2, <4>1
    <3>3. QED  BY <1>9, <3>1, <3>2
  <2>6. isns + 1 <= MaxIsns
    <3>1. \A n \in 0 .. MaxConnect : isns + 1 <= n + u => isns + 1 <= MaxConnect + PortHi - PortLo
      BY <1>2, <2>1, <2>4
    <3>2. QED  BY <2>5, <3>1 DEF MaxIsns
  <2>7. isns' + Probing' <= connects' + u  BY <1>2, <1>9, <2>2, <2>5
  <2>8. QED  BY <1>10, <2>5, <2>6, <2>7 DEF u
<1>12. SegOK(seg, isns + 1)  BY <1>4, <1>5 DEF SegOK
<1>13. EntryOK("c", d, isns + 1)  BY <1>3 DEF EntryOK, Roles
<1>14. /\ \A g \in Hosts, q \in Ports :
            /\ EntryOK(g, conns'[g][q], isns + 1)
            /\ conns'[g][q] = IF g = "c" /\ q = p THEN d ELSE conns[g][q]
       /\ \A m \in net' : SegOK(m, isns + 1)
       /\ IsFiniteSet(net') /\ net \subseteq net'
       /\ Sent'
  <2>1. IsFiniteSet({seg})  BY FS_Singleton
  <2>2. \A m \in {seg} : SegOK(m, isns + 1) /\ m.data = <<>>  BY <1>5, <1>12
  <2>3. net' = net \/ net' = net \cup {seg}  BY <1>8
  <2>4. d.iss = Isn[isns] /\ d.state # "Established" /\ isns + 1 <= MaxIsns  BY <1>3, <1>11
  <2>5. QED  BY <1>1, <1>7, <1>13, <2>1, <2>2, <2>3, <2>4, FreshEntry
<1>15. \A q \in Ports : /\ conns'["s"][q] = conns["s"][q]
                        /\ conns'["c"][q] = IF q = p THEN d ELSE conns["c"][q]
  BY <1>1, <1>14
<1>16. Pairs'
  <2>1. \A m \in net' : "SYN" \in m.flags /\ m.to = "c" =>
          conns'["s"][m.port].state # "none" /\ m.seq = conns'["s"][m.port].iss
    <3>1. \A m \in net' : m.to = "c" => m \in net  BY <1>5, <1>8
    <3>2. \A m \in net : m.port \in Ports  BY <1>1 DEF Shapes
    <3>3. QED  BY <1>15, <3>1, <3>2 DEF StreamInv, Pairs
  <2>2. \A q \in Ports : conns'["c"][q].state = "Established" =>
          conns'["s"][q].state # "none" /\ conns'["c"][q].irs = conns'["s"][q].iss
    BY <1>3, <1>15 DEF StreamInv, Pairs
  <2>3. \A q \in Ports : conns'["s"][q].state # "none" =>
          \E m \in net' : SynOf(m, q) /\ m.seq = conns'["s"][q].irs
    BY <1>14, <1>15 DEF StreamInv, Pairs
  <2>4. ASSUME NEW q \in Ports, Live(conns'["c"][q])
        PROVE  \/ \E m \in net' : SynOf(m, q) /\ m.seq = conns'["c"][q].iss
               \/ \A m \in net' : ~SynOf(m, q)
    <3>1. CASE q = p
      <4>1. conns'["c"][q].iss = seg.seq /\ SynOf(seg, q)
        BY <1>3, <1>5, <1>15, <3>1 DEF SynOf
      <4>2. CASE net' = net \cup {seg}  BY <4>1, <4>2
      <4>3. CASE net' = net /\ ~arp["c"]  BY <4>3 DEF LockInv, Unresolved
      <4>4. QED  BY <1>8, <4>2, <4>3
    <3>2. CASE q # p
      <4>1. conns'["c"][q] = conns["c"][q] /\ ~SynOf(seg, q)  BY <1>5, <1>15, <3>2 DEF SynOf
      <4>2. \A m \in net' : SynOf(m, q) => m \in net  BY <1>8, <4>1
      <4>3. QED  BY <1>14, <2>4, <4>1, <4>2 DEF StreamInv, Pairs
    <3>3. QED  BY <3>1, <3>2
  <2>5. QED  BY <2>1, <2>2, <2>3, <2>4 DEF Pairs
<1>17. Local'  BY <1>2, <1>9, <1>11, <1>14 DEF StreamInv, Local
<1>18. QED  BY <1>14, <1>16, <1>17 DEF StreamInv

\* A SYN at the listener.
LEMMA SynStream ==
  ASSUME LockInv, StreamInv, Shapes', NEW m \in net, RcvSyn(m)
  PROVE  StreamInv'
<1> DEFINE p == m.port
           nxt == Wrap(m.seq + 1)
           seg == Segment("s", p, {"SYN", "ACK"}, generate_isn, nxt, <<>>)
           d == NewConn("SynReceived", nxt, m.seq)
<1>1. /\ Shapes /\ p \in Ports /\ "c" \in Hosts /\ "s" \in Hosts /\ stuck["s"] = "no"
      /\ conns["s"][p].state = "none" /\ m.flags = {"SYN"}
      /\ connects' = connects /\ call' = call
  BY DEF LockInv, Hosts, Shapes, RcvSyn, Arrives
<1>2. /\ isns \in Nat /\ SegOK(m, isns) /\ m.seq \in Nums /\ Known(m.seq, isns)
      /\ isns + 1 <= MaxIsns /\ isns \in 0 .. MaxIsns - 1
  <2>1. isns \in Nat /\ SegOK(m, isns) /\ m.seq \in Nums /\ Known(m.seq, isns)
    BY <1>1 DEF StreamInv, Local, SegOK, Segments
  <2>2. p \notin Used  BY <1>1 DEF Used, St
  <2>3. isns + 1 <= MaxIsns  BY <1>1, <2>2, AcceptNumber DEF StreamInv
  <2>4. QED  BY <2>1, <2>3, Sizes
<1>3. nxt \in Nums
  <2>1. m.seq + 1 \in Int  BY <1>2, Sizes DEF Nums
  <2>2. QED  BY <2>1, WrapNum
<1>4. /\ ConnOK(d, isns + 1) /\ d.state = "SynReceived" /\ d.iss = Isn[isns] /\ d.irs = m.seq
      /\ generate_isn = Isn[isns]
  BY <1>2, <1>3, NewConnOK DEF generate_isn
<1>5. Known(generate_isn, isns + 1) /\ generate_isn \in Nums
  BY <1>2, <1>4, KnownMore, IsnNum
<1>6. /\ seg \in Segments /\ seg.to = "c" /\ seg.port = p /\ seg.flags = {"SYN", "ACK"}
      /\ seg.seq = generate_isn /\ seg.data = <<>>
  <2> DEFINE none == <<>>
  <2>1. none \in Seq(Bytes) /\ {"SYN", "ACK"} \in SUBSET Flags  BY Empties DEF Flags
  <2> HIDE DEF none, nxt
  <2>2. LET x == Segment("s", p, {"SYN", "ACK"}, generate_isn, nxt, none)
        IN  /\ x \in Segments /\ x.to = Peer("s") /\ x.port = p
            /\ x.flags = {"SYN", "ACK"} /\ x.seq = generate_isn /\ x.data = none
    BY <1>1, <1>3, <1>5, <2>1, SegmentFields
  <2>3. Peer("s") = "c"  BY DEF Peer
  <2>4. QED  BY <2>2, <2>3 DEF none
<1>7. \/ /\ conns' = conns /\ net' = net /\ isns' = isns /\ accept_queue' = accept_queue
      \/ /\ conns' = [conns EXCEPT !["s"][p] = d] /\ isns' = isns + 1
         /\ net' = net \/ net' = net \cup {seg}
         /\ accept_queue' = accept_queue \/ (/\ Len(accept_queue) < Backlog
                                             /\ accept_queue' = Append(accept_queue, p))
  <2>1. \/ stuck' = stuck /\ (net' = net \/ net' = net \cup {seg})
        \/ stuck' = [stuck EXCEPT !["s"] = "listeners"] /\ net' = net
    BY DEF RcvSyn, Transmit
  <2>2. stuck \in [Hosts -> {"no", "listeners", "conns"}]  BY <1>1 DEF Shapes
  <2>3. CASE stuck'["s"] # "no"
    BY <1>1, <2>1, <2>3 DEF RcvSyn
  <2>4. CASE stuck'["s"] = "no"
    BY <1>1, <2>1, <2>2, <2>4 DEF RcvSyn, SetConn
  <2>5. QED  BY <2>3, <2>4
<1> HIDE DEF d, seg, nxt
<1>8. CASE conns' = conns /\ net' = net /\ isns' = isns /\ accept_queue' = accept_queue
  <2>1. Probing' = Probing  BY <1>1 DEF Probing
  <2>2. QED  BY <1>1, <1>8, <2>1, NothingSent, IdleStream DEF StreamInv, Local
<1>9. CASE /\ conns' = [conns EXCEPT !["s"][p] = d] /\ isns' = isns + 1
           /\ net' = net \/ net' = net \cup {seg}
           /\ accept_queue' = accept_queue \/ (/\ Len(accept_queue) < Backlog
                                               /\ accept_queue' = Append(accept_queue, p))
  <2>1. \A g \in Hosts, q \in Ports : conns'[g][q] = IF g = "s" /\ q = p THEN d ELSE conns[g][q]
    <3>1. conns = [g \in Hosts |-> [q \in Ports |-> conns[g][q]]]  BY <1>1 DEF Shapes
    <3>2. QED  BY <1>1, <1>9, <3>1
  <2>2. Used' = Used \cup {p} /\ p \notin Used
    <3>1. \A q \in Ports : conns'["s"][q] = IF q = p THEN d ELSE conns["s"][q]  BY <1>1, <2>1
    <3>2. QED  BY <1>1, <1>4, <3>1 DEF Used, St
  <2>3. Cardinality(Used') = Cardinality(Used) + 1  BY <2>2, UsedFinite, FS_AddElement
  <2>4. isns' + Probing' <= connects' + Cardinality(Used') /\ isns + 1 <= MaxIsns
    <3> DEFINE u == Cardinality(Used)
               v == Cardinality(Used')
    <3>1. u \in Nat /\ v = u + 1 /\ v <= PortHi - PortLo
      <4>1. Used' \in SUBSET Ports  BY DEF Used
      <4>2. PortLo \in Nat /\ PortHi \in Nat /\ PortLo < PortHi  BY TcpAssumption
      <4>3. IsFiniteSet(Ports) /\ Cardinality(Ports) = PortHi - PortLo
        BY <4>2, FS_Interval DEF Ports
      <4>4. Cardinality(Used') <= Cardinality(Ports)  BY <4>1, <4>3, FS_Subset
      <4>5. QED  BY <2>3, <4>3, <4>4, UsedFinite
    <3>2. isns + Probing <= connects + u /\ connects \in 0 .. MaxConnect
      BY DEF StreamInv, Local
    <3>3. MaxConnect \in Nat /\ PortLo \in Nat /\ PortHi \in Nat  BY TcpAssumption
    <3>4. Probing' = Probing /\ Probing \in Nat  BY <1>1 DEF Probing
    <3> HIDE DEF u, v
    <3>5. isns + 1 + Probing <= connects + v  BY <1>2, <3>1, <3>2, <3>4
    <3>6. isns + 1 <= MaxConnect + PortHi - PortLo  BY <1>2, <3>1, <3>2, <3>3, <3>4, <3>5
    <3>7. QED  BY <1>1, <1>9, <3>4, <3>5, <3>6 DEF v, MaxIsns
  <2>5. Len(accept_queue') <= Backlog
    <3>1. accept_queue \in Seq(Ports) /\ Len(accept_queue) \in Nat /\ Backlog \in Nat
      BY <1>1, LenProperties, TcpAssumption DEF Shapes
    <3>2. Len(Append(accept_queue, p)) = Len(accept_queue) + 1
      BY <1>1, <3>1, AppendProperties
    <3>3. CASE accept_queue' = accept_queue  BY <3>3 DEF StreamInv, Local
    <3>4. CASE Len(accept_queue) < Backlog /\ accept_queue' = Append(accept_queue, p)
      BY <3>1, <3>2, <3>4
    <3>5. QED  BY <1>9, <3>3, <3>4
  <2>6. /\ \A g \in Hosts, q \in Ports : EntryOK(g, conns'[g][q], isns + 1)
        /\ \A x \in net' : SegOK(x, isns + 1)
        /\ IsFiniteSet(net') /\ net \subseteq net'
        /\ Sent'
    <3>1. IsFiniteSet({seg})  BY FS_Singleton
    <3>2. SegOK(seg, isns + 1)  BY <1>5, <1>6 DEF SegOK
    <3>3. \A x \in {seg} : SegOK(x, isns + 1) /\ x.data = <<>>  BY <1>6, <3>2
    <3>4. EntryOK("s", d, isns + 1) /\ d.iss = Isn[isns] /\ d.state # "Established"
      BY <1>4 DEF EntryOK, Roles
    <3>5. net' = net \/ net' = net \cup {seg}  BY <1>9
    <3>6. conns' = [conns EXCEPT !["s"][p] = d]  BY <1>9
    <3>7. QED  BY <1>1, <2>4, <3>1, <3>3, <3>4, <3>5, <3>6, FreshEntry
  <2>7. \A q \in Ports : /\ conns'["c"][q] = conns["c"][q]
                         /\ conns'["s"][q] = IF q = p THEN d ELSE conns["s"][q]
    BY <1>1, <2>1
  <2>8. Pairs'
    <3>1. ASSUME NEW x \in net', "SYN" \in x.flags, x.to = "c"
          PROVE  conns'["s"][x.port].state # "none" /\ x.seq = conns'["s"][x.port].iss
      <4>1. CASE x = seg  BY <1>1, <1>4, <1>6, <2>7, <4>1
      <4>2. CASE x \in net
        <5>1. conns["s"][x.port].state # "none" /\ x.seq = conns["s"][x.port].iss
          BY <3>1, <4>2 DEF StreamInv, Pairs
        <5>2. x.port \in Ports /\ x.port # p  BY <1>1, <4>2, <5>1 DEF Shapes
        <5>3. QED  BY <2>7, <5>1, <5>2
      <4>3. QED  BY <1>9, <4>1, <4>2
    <3>2. \A q \in Ports : conns'["c"][q].state = "Established" =>
            conns'["s"][q].state # "none" /\ conns'["c"][q].irs = conns'["s"][q].iss
      BY <1>1, <2>7 DEF StreamInv, Pairs
    <3>3. ASSUME NEW q \in Ports, conns'["s"][q].state # "none"
          PROVE  \E x \in net' : SynOf(x, q) /\ x.seq = conns'["s"][q].irs
      <4>1. CASE q = p
        <5>1. SynOf(m, q) /\ m.seq = conns'["s"][q].irs /\ m \in net'
          BY <1>1, <1>4, <2>6, <2>7, <4>1 DEF SynOf
        <5>2. QED  BY <5>1
      <4>2. CASE q # p  BY <2>6, <2>7, <3>3, <4>2 DEF StreamInv, Pairs
      <4>3. QED  BY <4>1, <4>2
    <3>4. \A q \in Ports : Live(conns'["c"][q]) =>
            \/ \E x \in net' : SynOf(x, q) /\ x.seq = conns'["c"][q].iss
            \/ \A x \in net' : ~SynOf(x, q)
      <4>1. seg.flags # {"SYN"}  BY <1>6
      <4>2. \A x \in net', q \in Ports : SynOf(x, q) => x \in net  BY <1>9, <4>1 DEF SynOf
      <4>3. QED  BY <2>6, <2>7, <4>2 DEF StreamInv, Pairs
    <3>5. QED  BY <3>1, <3>2, <3>3, <3>4 DEF Pairs
  <2>9. Local'  BY <1>1, <1>2, <1>9, <2>4, <2>5, <2>6 DEF StreamInv, Local
  <2>10. QED  BY <2>6, <2>8, <2>9 DEF StreamInv
<1>10. QED  BY <1>7, <1>8, <1>9

\* Every step keeps the streams.
LEMMA NextStream == ASSUME LockInv, StreamInv, [Next]_vars PROVE StreamInv'
<1>1. Shapes /\ Shapes'  BY NextShapes DEF LockInv
<1>2. CASE Listen \/ ConnectProbe \/ Accept \/ UNCHANGED vars  BY <1>1, <1>2, CallsStream
<1>3. CASE ConnectSyn  BY <1>1, <1>3, ConnectSynStream
<1>4. CASE ConnectDone  BY <1>1, <1>4, ConnectDoneStream
<1>5. ASSUME NEW h \in Hosts, NEW p \in Ports, Send(h, p) \/ Recv(h, p) \/ Close(h, p)
      PROVE  StreamInv'
  BY <1>1, <1>5, SendStream, RecvStream, CloseStream
<1>6. ASSUME NEW m \in net, RcvSyn(m)  PROVE StreamInv'  BY <1>1, <1>6, SynStream
<1>7. ASSUME NEW h \in Hosts, NEW m \in net,
             \/ RcvStray(h, m) \/ RcvRst(h, m) \/ RcvInSynReceived(h, m) \/ RcvInSynSent(h, m)
             \/ RcvInEstablished(h, m) \/ RcvInFinWait(h, m) \/ RcvInLastAck(h, m)
      PROVE  StreamInv'
  BY <1>1, <1>7, StrayStream, EndStream, SynReceivedStream, SynSentStream, EstablishedStream
<1>8. QED  BY <1>2, <1>3, <1>4, <1>5, <1>6, <1>7 DEF Next

\* No connection and no segment at first.
LEMMA InitStream == Init => StreamInv
<1> SUFFICES ASSUME Init  PROVE StreamInv
  OBVIOUS
<1>1. PICK B \in Busy :
        conns = [h \in Hosts |-> [p \in Ports |->
                   IF h = "c" /\ p \in B THEN [NoConn EXCEPT !.state = "Busy"] ELSE NoConn]]
  BY DEF Init
<1>2. /\ isns = 0 /\ connects = 0 /\ call = "idle" /\ net = {} /\ accept_queue = <<>>
  BY DEF Init
<1>3. NoConn.state = "none" /\ [NoConn EXCEPT !.state = "Busy"].state = "Busy"  BY DEF NoConn
<1>4. ASSUME NEW h \in Hosts, NEW p \in Ports
      PROVE  /\ EntryOK(h, conns[h][p], isns) /\ conns[h][p].state \in {"none", "Busy"}
             /\ h = "s" => conns[h][p].state = "none"
  <2>1. conns[h][p] = IF h = "c" /\ p \in B THEN [NoConn EXCEPT !.state = "Busy"] ELSE NoConn
    BY <1>1
  <2>2. ConnOK(conns[h][p], isns)  BY <1>2, <2>1, NoConnOK
  <2>3. QED  BY <1>3, <2>1, <2>2 DEF EntryOK, Roles
<1>5. Cardinality(Used) \in Nat /\ Probing = 0  BY <1>2, UsedFinite DEF Probing
<1>6. IsFiniteSet(net) /\ Len(accept_queue) <= Backlog /\ connects \in 0 .. MaxConnect
  BY <1>2, FS_EmptySet, TcpAssumption
<1>7. Local  BY <1>2, <1>4, <1>5, <1>6 DEF Local
<1>8. "c" \in Hosts /\ "s" \in Hosts  BY DEF Hosts
<1>9. Pairs  BY <1>2, <1>4, <1>8 DEF Pairs, Live
<1>10. Sent  BY <1>2, <1>4 DEF Sent
<1>11. QED  BY <1>7, <1>9, <1>10 DEF StreamInv

\* What is known of streams holds always.
LEMMA StreamAlways == Spec => [](LockInv /\ StreamInv)
<1>1. Init => LockInv /\ StreamInv  BY InitLock, InitStream
<1>2. LockInv /\ StreamInv /\ [Next]_vars => (LockInv /\ StreamInv)'  BY NextLock, NextStream
<1>3. QED  BY <1>1, <1>2, PTL DEF Spec

\* The tables, the accept queue and the calls have their types, for any
\* number of ports, connections and segments; no receive buffer and no accept
\* queue goes over its capacity.
THEOREM TcpTypes == Spec => []TypeOK
<1>1. LockInv /\ StreamInv => TypeOK
  <2> SUFFICES ASSUME LockInv, StreamInv  PROVE TypeOK
    OBVIOUS
  <2>1. ASSUME NEW h \in Hosts, NEW p \in Ports
        PROVE  /\ conns[h][p].state \in TcpStates
               /\ {conns[h][p].iss, conns[h][p].irs, conns[h][p].snd_nxt,
                   conns[h][p].rcv_nxt} \subseteq 0 .. SeqSpace - 1
               /\ Len(conns[h][p].recv_buffer) <= RecvCap
    <3>1. conns[h][p] \in Conns /\ Len(conns[h][p].recv_buffer) <= RecvCap
      BY DEF StreamInv, Local, EntryOK, ConnOK
    <3>2. QED  BY <3>1 DEF Conns, Nums
  <2>2. QED  BY <2>1 DEF LockInv, Shapes, StreamInv, Local, TypeOK
<1>2. QED  BY <1>1, StreamAlways, PTL

\* What recv hands out is one stream of the peer, in order, nothing twice, and
\* nothing missing unless the buffer was full: for any lengths of segments,
\* buffers and streams, any number of connections, any loss, repetition and
\* reordering, and across the end of the number space.
THEOREM TcpStreamInOrder == Spec => []StreamInOrder
<1>1. StreamInv => StreamInOrder
  <2> SUFFICES ASSUME StreamInv, NEW h \in Hosts, NEW p \in Ports
               PROVE  LET c == conns[h][p]
                          r == Received(c)
                      IN  \A i, j \in DOMAIN r :
                            /\ r[i][1] = r[j][1]
                            /\ i < j => r[i][2] < r[j][2]
                            /\ ~c.dropped => r[i][2] = i
    BY DEF StreamInOrder
  <2> DEFINE c == conns[h][p]
             r == Received(c)
  <2>1. c \in Conns /\ InOrder(c)  BY DEF StreamInv, Local, EntryOK, ConnOK
  <2>2. DOMAIN r = 1 .. Len(r)  BY <2>1, ReceivedSeq, LenProperties
  <2> HIDE DEF c
  <2>3. /\ \A i \in 1 .. Len(r) : r[i][1] = c.irs /\ (~c.dropped => r[i][2] = i)
        /\ \A i, j \in 1 .. Len(r) : i < j => r[i][2] < r[j][2]
    BY <2>1 DEF InOrder
  <2> HIDE DEF r
  <2>4. \A i, j \in DOMAIN r : /\ r[i][1] = r[j][1]
                               /\ i < j => r[i][2] < r[j][2]
                               /\ ~c.dropped => r[i][2] = i
    BY <2>2, <2>3, Zenon
  <2>5. QED  BY <2>4 DEF r, c
<1>2. QED  BY <1>1, StreamAlways, PTL

\* rcv_nxt counts exactly the bytes received, whatever the numbers are.
THEOREM TcpNextCountsReceived == Spec => []NextCountsReceived
<1>1. StreamInv => NextCountsReceived
  <2> SUFFICES ASSUME StreamInv, NEW h \in Hosts, NEW p \in Ports,
                      conns[h][p].state = "Established", ~conns[h][p].dropped
               PROVE  conns[h][p].rcv_nxt = Wrap(conns[h][p].irs + 1 + Len(Received(conns[h][p])))
    BY DEF NextCountsReceived
  <2> DEFINE c == conns[h][p]
  <2>1. c \in Conns /\ Flowing(c)  BY DEF StreamInv, Local, EntryOK, ConnOK
  <2>2. c.rcv_nxt \in Nums /\ c.irs \in Nums  BY <2>1 DEF Conns
  <2>3. c.rcv_nxt = Wrap(c.irs + 1 + Heard(c))  BY <2>2, PastInverse DEF Heard
  <2>4. Heard(c) = Len(Received(c))  BY <2>1 DEF Flowing
  <2>5. QED  BY <2>3, <2>4
<1>2. QED  BY <1>1, StreamAlways, PTL

\* What the peer has heard is in the range of what was sent.
LEMMA HeardWithin ==
  ASSUME NEW c \in Conns, NEW x \in Nums, Past(x, c.iss) <= SentLen(c), SentLen(c) <= Limit
  PROVE  Within(c, x)
<1>1. c.iss \in Nums /\ c.snd_nxt \in Nums  BY DEF Conns
<1>2. ASSUME NEW y \in Nums, Past(y, c.iss) <= Limit
      PROVE  Wrap(y - c.iss) = Past(y, c.iss) + 1 /\ Past(y, c.iss) \in Nat
  <2> DEFINE i == c.iss
             n == Past(y, i)
  <2> HIDE DEF i
  <2>1. i \in Nums  BY <1>1 DEF i
  <2>2. n \in Nums /\ n <= Limit  BY <1>2, <2>1, PastInverse DEF i
  <2>3. Wrap(Wrap(y - i - 1) + 1) = Wrap(y - i - 1 + 1)
    <3>1. y - i - 1 \in Int  BY <2>1, Sizes DEF Nums
    <3>2. QED  BY <3>1, WrapAdd
  <2>4. y - i - 1 + 1 = y - i  BY <2>1, Sizes DEF Nums
  <2>5. n = Wrap(y - i - 1)  BY DEF Past
  <2> HIDE DEF n
  <2>6. n + 1 \in Nums /\ n \in Nat  BY <2>2, Sizes DEF Nums
  <2>7. Wrap(y - i) = n + 1  BY <2>3, <2>4, <2>5, <2>6, WrapSmall
  <2>8. QED  BY <2>6, <2>7 DEF n, i
<1>3. SentLen(c) = Past(c.snd_nxt, c.iss)  BY DEF SentLen, Past
<1>4. Wrap(c.snd_nxt - c.iss) = SentLen(c) + 1 /\ SentLen(c) \in Nat  BY <1>1, <1>2, <1>3
<1>5. Past(x, c.iss) \in Nums  BY <1>1, PastInverse
<1>6. Past(x, c.iss) <= Limit  BY <1>4, <1>5, Sizes DEF Nums
<1>7. Wrap(x - c.iss) = Past(x, c.iss) + 1 /\ Past(x, c.iss) \in Nat  BY <1>2, <1>6
<1>8. QED  BY <1>4, <1>7 DEF Within

\* With a single SYN from the port, both ends of an established connection
\* expect a number that the other has used or uses next, for any network.
THEOREM TcpAgreeUnlessReused == Spec => []AgreeUnlessReused
<1>1. StreamInv => AgreeUnlessReused
  <2> SUFFICES ASSUME StreamInv, NEW p \in Ports,
                      conns["c"][p].state = "Established", conns["s"][p].state = "Established",
                      Cardinality({m \in net : m.port = p /\ m.flags = {"SYN"}}) = 1
               PROVE  /\ Within(conns["c"][p], conns["s"][p].rcv_nxt)
                      /\ Within(conns["s"][p], conns["c"][p].rcv_nxt)
    BY DEF AgreeUnlessReused
  <2> DEFINE c == conns["c"][p]
             s == conns["s"][p]
             syns == {m \in net : m.port = p /\ m.flags = {"SYN"}}
  <2>1. "c" \in Hosts /\ "s" \in Hosts /\ Peer("c") = "s" /\ Peer("s") = "c"  BY DEF Hosts, Peer
  <2>2. /\ c \in Conns /\ s \in Conns /\ Live(c) /\ Live(s)
        /\ SentLen(c) <= Limit /\ SentLen(s) <= Limit
    BY <2>1 DEF StreamInv, Local, EntryOK, ConnOK, Live, Flowing
  <2>3. PICK x : syns = {x}
    <3>1. IsFiniteSet(net) /\ syns \in SUBSET net  BY DEF StreamInv, Local
    <3>2. IsFiniteSet(syns)  BY <3>1, FS_Subset
    <3>3. QED  BY <3>2, FS_Singleton
  <2>4. x \in net /\ SynOf(x, p) /\ \A m \in net : SynOf(m, p) => m = x  BY <2>3 DEF SynOf
  <2>5. \E m \in net : SynOf(m, p) /\ m.seq = s.irs  BY DEF StreamInv, Pairs
  <2>6. \/ \E m \in net : SynOf(m, p) /\ m.seq = c.iss
        \/ \A m \in net : ~SynOf(m, p)
    BY <2>2 DEF StreamInv, Pairs
  <2>7. s.irs = c.iss  BY <2>4, <2>5, <2>6
  <2>8. c.irs = s.iss  BY DEF StreamInv, Pairs
  <2>9. SentBy(c, s.irs, Heard(s)) /\ SentBy(s, c.irs, Heard(c))  BY <2>1 DEF StreamInv, Sent
  <2>10. Heard(s) <= SentLen(c) /\ Heard(c) <= SentLen(s)
    BY <2>2, <2>7, <2>8, <2>9 DEF SentBy
  <2>11. Past(s.rcv_nxt, c.iss) <= SentLen(c) /\ Past(c.rcv_nxt, s.iss) <= SentLen(s)
    BY <2>7, <2>8, <2>10 DEF Heard
  <2>12. s.rcv_nxt \in Nums /\ c.rcv_nxt \in Nums  BY <2>2 DEF Conns
  <2> HIDE DEF c, s
  <2>13. Within(c, s.rcv_nxt) /\ Within(s, c.rcv_nxt)  BY <2>2, <2>11, <2>12, HeardWithin
  <2>14. QED  BY <2>13 DEF c, s
<1>2. QED  BY <1>1, StreamAlways, PTL

=============================================================================
