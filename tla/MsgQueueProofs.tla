--------------------------- MODULE MsgQueueProofs ---------------------------
(***************************************************************************)
(* The key map and the order of the message queues, for any number of      *)
(* queues, keys, messages and callers.                                     *)
(***************************************************************************)
EXTENDS MsgQueue, TLAPS

\* A queue whose messages wait in order, and no message was received that
\* has not been sent.
Sound(q, n) ==
  /\ q \in Queues
  /\ \A t \in MTypes : q.got[t] <= n
  /\ \A i \in DOMAIN q.messages : InOrder(q, i, n)

\* SendOrder is not inductive alone: a first message of its type goes behind
\* whatever was received before it, so receipts must be bounded as well.
IInv ==
  /\ TypeOK /\ KeysIndexed
  /\ \A id \in DOMAIN queues : Sound(queues[id], stamp)

-----------------------------------------------------------------------------
\* Whatever the selection, the message taken is the first of its type.
LEMMA FirstOfType ==
  ASSUME NEW ms \in Seq(Messages), NEW typ \in Int, NEW except \in BOOLEAN,
         NEW i, Selects(ms, typ, except, i), NEW j \in 1 .. i - 1
  PROVE  ms[j].mtype # ms[i].mtype
<1>1. CASE typ = 0  BY <1>1 DEF Selects
<1>2. CASE typ > 0
  <2>1. (ms[i].mtype = typ) # except /\ (ms[j].mtype = typ) = except
    BY <1>2 DEF Selects
  <2>2. QED  BY <2>1
<1>3. CASE typ < 0  BY <1>3 DEF Selects
<1>4. QED  BY <1>1, <1>2, <1>3

\* Removing a message leaves a sequence that is shorter by one.
LEMMA WithoutIsSeq ==
  ASSUME NEW ms \in Seq(Messages), NEW i \in DOMAIN ms
  PROVE  /\ Without(ms, i) \in Seq(Messages)
         /\ Len(Without(ms, i)) = Len(ms) - 1
         /\ DOMAIN Without(ms, i) = 1 .. Len(ms) - 1
         /\ \A k \in 1 .. Len(ms) - 1 :
              LET x == IF k < i THEN k ELSE k + 1
              IN x \in DOMAIN ms /\ Without(ms, i)[k] = ms[x]
<1>1. Len(ms) \in Nat /\ i \in 1 .. Len(ms)  OBVIOUS
<1>2. \A j \in 1 .. Len(ms) - 1 : Without(ms, i)[j] \in Messages
  BY <1>1 DEF Without
<1>3. ASSUME NEW k \in 1 .. Len(ms) - 1
      PROVE  LET x == IF k < i THEN k ELSE k + 1
             IN x \in DOMAIN ms /\ Without(ms, i)[k] = ms[x]
  BY <1>1 DEF Without
<1>4. /\ Without(ms, i) \in Seq(Messages)
      /\ Len(Without(ms, i)) = Len(ms) - 1
      /\ DOMAIN Without(ms, i) = 1 .. Len(ms) - 1
  BY <1>1, <1>2 DEF Without
<1>5. QED  BY <1>3, <1>4

\* A created queue is sound.
LEMMA NewSound ==
  ASSUME NEW key \in Keys \cup {IPC_PRIVATE}, NEW u \in Uids, NEW g \in Gids,
         NEW mode \in Modes, NEW n \in 0 .. MaxStamp
  PROVE  Sound(MsgNew(key, u, g, mode), n)
<1>1. 0 \in 0 .. Word - 1 /\ MSGMNB \in 0 .. 4 * MSGMNB /\ 0 \in 0 .. MaxStamp
  BY MsgAssumption
<1>2. [t \in MTypes |-> 0] \in [MTypes -> 0 .. MaxStamp]  BY <1>1
<1>3. MsgNew(key, u, g, mode) \in Queues  BY <1>1, <1>2 DEF MsgNew, Queues
<1>4. QED  BY <1>3 DEF Sound, MsgNew

\* Sending appends a message newer than all the others.
LEMMA SendSound ==
  ASSUME NEW q, NEW n \in Nat, n < MaxStamp, Sound(q, n),
         NEW t \in MTypes, NEW size \in Sizes, NEW total \in 0 .. Word - 1,
         NEW qnum \in Nat
  PROVE  Sound([q EXCEPT !.messages = Append(@, [mtype |-> t, size |-> size, stamp |-> n + 1]),
                         !.total_bytes = total, !.qnum = qnum], n + 1)
<1> DEFINE m == [mtype |-> t, size |-> size, stamp |-> n + 1]
           r == [q EXCEPT !.messages = Append(@, m), !.total_bytes = total, !.qnum = qnum]
<1>1. m \in Messages  BY MsgAssumption DEF Messages
<1>2. q \in Queues /\ q.messages \in Seq(Messages)  BY DEF Sound, Queues
<1>3. Append(q.messages, m) \in Seq(Messages)  BY <1>1, <1>2
<1>4. r \in Queues /\ r.messages = Append(q.messages, m) /\ r.got = q.got
  BY <1>2, <1>3 DEF Queues
<1>5. /\ MaxStamp \in Nat /\ q.got \in [MTypes -> 0 .. MaxStamp]
      /\ \A x \in Messages : x.mtype \in MTypes /\ x.stamp \in Nat
  BY <1>2, MsgAssumption DEF Queues, Messages
<1> HIDE DEF m, r
<1>6. \A s \in MTypes : r.got[s] <= n + 1
  <2>1. \A s \in MTypes : q.got[s] <= n /\ q.got[s] \in Int  BY <1>5 DEF Sound
  <2>2. QED  BY <1>4, <2>1
<1>7. ASSUME NEW i \in DOMAIN r.messages PROVE InOrder(r, i, n + 1)
  <2>1. i \in 1 .. Len(q.messages) + 1 /\ Len(q.messages) \in Nat  BY <1>1, <1>2, <1>4
  <2>2. \A j \in 1 .. Len(q.messages) :
          q.messages[j] \in Messages /\ InOrder(q, j, n) /\ r.messages[j] = q.messages[j]
    BY <1>1, <1>2, <1>4 DEF Sound
  <2>3. CASE i <= Len(q.messages)
    <3>1. InOrder(q, i, n) /\ q.messages[i] \in Messages /\ r.messages[i] = q.messages[i]
      BY <2>1, <2>2, <2>3
    <3>2. \A j \in DOMAIN r.messages : j < i => j \in DOMAIN q.messages /\ r.messages[j] = q.messages[j]
      BY <1>1, <1>2, <1>4, <2>1, <2>2, <2>3
    <3>3. q.messages[i].stamp <= n + 1  BY <1>5, <3>1 DEF InOrder
    <3>4. QED  BY <1>4, <3>1, <3>2, <3>3 DEF InOrder
  <2>4. CASE i = Len(q.messages) + 1
    <3>1. r.messages[i] = m  BY <1>2, <1>4, <2>4
    <3>2. \A j \in 1 .. Len(q.messages) : r.messages[j].stamp <= n
      BY <2>2 DEF InOrder
    <3>3. DOMAIN r.messages = 1 .. Len(q.messages) + 1  BY <1>1, <1>2, <1>4
    <3>4. \A j \in 1 .. Len(q.messages) : r.messages[j].stamp \in Nat
      BY <1>5, <2>2
    <3>5. m.mtype = t /\ m.stamp = n + 1  BY DEF m
    <3>6. r.got[m.mtype] <= n + 1  BY <1>6, <3>5
    <3>7. QED  BY <2>1, <2>4, <3>1, <3>2, <3>3, <3>4, <3>5, <3>6 DEF InOrder
  <2>5. QED  BY <2>1, <2>3, <2>4
<1>8. QED  BY <1>4, <1>6, <1>7 DEF Sound, r, m

\* What the lemmas below use of the types.
LEMMA SoundTypes ==
  ASSUME NEW q, NEW n \in 0 .. MaxStamp, Sound(q, n)
  PROVE  /\ q \in Queues /\ q.messages \in Seq(Messages)
         /\ q.got \in [MTypes -> 0 .. MaxStamp] /\ n \in Nat
         /\ \A x \in Messages : x.mtype \in MTypes /\ x.size \in Nat /\ x.stamp \in 1 .. MaxStamp
         /\ \A i \in DOMAIN q.messages : q.messages[i] \in Messages
<1>1. MTypes \subseteq Nat /\ Sizes \subseteq Nat /\ MaxStamp \in Nat  BY MsgAssumption
<1>2. q \in Queues  BY DEF Sound
<1>3. q.messages \in Seq(Messages) /\ q.got \in [MTypes -> 0 .. MaxStamp]
  BY <1>2 DEF Queues
<1>4. \A x \in Messages : x.mtype \in MTypes /\ x.size \in Nat /\ x.stamp \in 1 .. MaxStamp
  BY <1>1 DEF Messages
<1>5. n \in Nat /\ \A i \in DOMAIN q.messages : q.messages[i] \in Messages
  BY <1>1, <1>3
<1>6. QED  BY <1>2, <1>3, <1>4, <1>5

\* The first message of its type is the oldest one of its type.
LEMMA FirstIsOldest ==
  ASSUME NEW q, NEW n \in 0 .. MaxStamp, Sound(q, n), NEW i \in DOMAIN q.messages,
         \A j \in 1 .. i - 1 : q.messages[j].mtype # q.messages[i].mtype,
         NEW k \in DOMAIN q.messages, q.messages[k].mtype = q.messages[i].mtype
  PROVE  q.messages[i].stamp <= q.messages[k].stamp
<1>1. q.messages[i].stamp \in Int /\ DOMAIN q.messages = 1 .. Len(q.messages)
      /\ Len(q.messages) \in Nat
  BY SoundTypes
<1>2. k = i \/ i < k  BY <1>1
<1>3. InOrder(q, k, n)  BY DEF Sound
<1>4. CASE i < k  BY <1>3, <1>4 DEF InOrder
<1>5. QED  BY <1>1, <1>2, <1>4

\* Removing a message leaves the others in order.
LEMMA RemovedSound ==
  ASSUME NEW q, NEW n \in 0 .. MaxStamp, Sound(q, n), NEW i \in DOMAIN q.messages
  PROVE  /\ Sound(Removed(q, i), n)
         /\ Removed(q, i).got = q.got
         /\ \A k \in DOMAIN Removed(q, i).messages :
              \E x \in DOMAIN q.messages : Removed(q, i).messages[k] = q.messages[x]
<1> DEFINE ms == q.messages
           w == Without(ms, i)
           r == Removed(q, i)
<1>1. /\ q \in Queues /\ ms \in Seq(Messages) /\ Len(ms) \in Nat /\ i \in 1 .. Len(ms)
      /\ ms[i].size \in Nat
  BY SoundTypes
<1>2. w \in Seq(Messages) /\ DOMAIN w = 1 .. Len(ms) - 1  BY <1>1, WithoutIsSeq
<1>3. (q.total_bytes - ms[i].size) % Word \in 0 .. Word - 1 /\ Len(ms) - 1 \in Nat
  <2>1. Word \in Nat /\ Word > 0  BY MsgAssumption
  <2>2. q.total_bytes - ms[i].size \in Int  BY <1>1, <2>1 DEF Queues
  <2>3. QED  BY <1>1, <2>1, <2>2
<1>4. r \in Queues /\ r.messages = w /\ r.got = q.got
  BY <1>1, <1>2, <1>3 DEF Removed, Queues
<1>5. \A k \in DOMAIN w : \E x \in DOMAIN ms :
        x = (IF k < i THEN k ELSE k + 1) /\ w[k] = ms[x]
  BY <1>1, <1>2, WithoutIsSeq
<1>6. ASSUME NEW j \in DOMAIN w PROVE InOrder(r, j, n)
  <2>1. PICK x \in DOMAIN ms : x = (IF j < i THEN j ELSE j + 1) /\ w[j] = ms[x]
    BY <1>5
  <2>2. InOrder(q, x, n)  BY DEF Sound
  <2>3. \A k \in DOMAIN w : k < j => \E y \in DOMAIN ms : y < x /\ w[k] = ms[y]
    BY <1>1, <1>2, <1>5, <2>1
  <2>4. QED  BY <1>4, <2>1, <2>2, <2>3 DEF InOrder
<1>7. QED  BY <1>4, <1>5, <1>6 DEF Sound

\* Receiving the first message of its type overtakes none.
LEMMA ReceiveSound ==
  ASSUME NEW q, NEW n \in 0 .. MaxStamp, Sound(q, n), NEW i \in DOMAIN q.messages,
         \A j \in 1 .. i - 1 : q.messages[j].mtype # q.messages[i].mtype
  PROVE  Sound([Removed(q, i) EXCEPT
                  !.got = [@ EXCEPT ![q.messages[i].mtype] = q.messages[i].stamp]], n)
<1> DEFINE m == q.messages[i]
           r == Removed(q, i)
           g == [q.got EXCEPT ![m.mtype] = m.stamp]
           d == [r EXCEPT !.got = g]
<1>1. Sound(r, n) /\ r.got = q.got  BY RemovedSound
<1>2. m.mtype \in MTypes /\ m.stamp \in 0 .. MaxStamp /\ m.stamp <= n
  <2>1. InOrder(q, i, n)  BY DEF Sound
  <2>2. QED  BY <2>1, SoundTypes DEF InOrder
<1>3. g \in [MTypes -> 0 .. MaxStamp]  BY <1>2, SoundTypes
<1>4. d \in Queues /\ d.messages = r.messages /\ d.got = g
  BY <1>1, <1>3 DEF Sound, Queues
<1>5. \A t \in MTypes : d.got[t] <= n  BY <1>2, <1>4, SoundTypes DEF Sound
<1>6. ASSUME NEW j \in DOMAIN r.messages PROVE InOrder(d, j, n)
  <2>1. \E k \in DOMAIN q.messages : r.messages[j] = q.messages[k]
    BY RemovedSound
  <2>2. InOrder(r, j, n)  BY <1>1 DEF Sound
  <2>3. r.messages[j].mtype = m.mtype => m.stamp <= r.messages[j].stamp
    BY <2>1, FirstIsOldest
  <2>4. r.messages[j].mtype \in MTypes  BY <2>1, SoundTypes
  <2>5. g[r.messages[j].mtype] <= r.messages[j].stamp
    <3>1. q.got[r.messages[j].mtype] <= r.messages[j].stamp  BY <1>1, <2>2 DEF InOrder
    <3>2. QED  BY <2>3, <2>4, <3>1, SoundTypes
  <2> HIDE DEF m, r, g, d
  <2>6. QED  BY <1>4, <2>2, <2>5 DEF InOrder
<1>7. QED  BY <1>1, <1>4, <1>5, <1>6 DEF Sound

\* A message older than all of its type may go to the front.
LEMMA FrontSound ==
  ASSUME NEW q, NEW n \in 0 .. MaxStamp, Sound(q, n), NEW m \in Messages,
         m.stamp <= n, q.got[m.mtype] <= m.stamp,
         \A k \in DOMAIN q.messages :
           q.messages[k].mtype = m.mtype => m.stamp <= q.messages[k].stamp
  PROVE  Sound([q EXCEPT !.messages = <<m>> \o @], n)
<1> DEFINE ms == q.messages
           f == <<m>> \o ms
           r == [q EXCEPT !.messages = f]
<1>1. q \in Queues /\ ms \in Seq(Messages) /\ Len(ms) \in Nat  BY SoundTypes
<1>2. /\ f \in Seq(Messages) /\ DOMAIN f = 1 .. Len(ms) + 1 /\ f[1] = m
      /\ \A j \in 2 .. Len(ms) + 1 : f[j] = ms[j - 1] /\ j - 1 \in DOMAIN ms
  BY <1>1
<1>3. r \in Queues /\ r.messages = f /\ r.got = q.got  BY <1>1, <1>2 DEF Queues
<1> HIDE DEF ms, f, r
<1>4. ASSUME NEW i \in DOMAIN f PROVE InOrder(r, i, n)
  <2>1. CASE i = 1  BY <1>2, <1>3, <2>1 DEF InOrder
  <2>2. CASE i # 1
    <3>1. i - 1 \in DOMAIN ms /\ f[i] = ms[i - 1]  BY <1>1, <1>2, <2>2
    <3>2. InOrder(q, i - 1, n)  BY <3>1 DEF Sound, ms
    <3>3. ASSUME NEW j \in DOMAIN f, j < i, f[j].mtype = f[i].mtype
          PROVE  f[j].stamp <= f[i].stamp
      <4>1. CASE j = 1  BY <1>2, <3>1, <3>3, <4>1 DEF ms
      <4>2. CASE j # 1
        <5>1. j - 1 \in DOMAIN ms /\ f[j] = ms[j - 1] /\ j - 1 < i - 1
          BY <1>1, <1>2, <3>3, <4>2
        <5>2. QED  BY <3>1, <3>2, <3>3, <5>1 DEF InOrder, ms
      <4>3. QED  BY <4>1, <4>2
    <3>4. QED  BY <1>3, <3>1, <3>2, <3>3 DEF InOrder, ms
  <2>3. QED  BY <2>1, <2>2
<1>5. Sound(r, n)  BY <1>3, <1>4 DEF Sound
<1>6. QED  BY <1>5 DEF r, f, ms

\* Putting the first message of its type to the front, removed or copied,
\* overtakes none.
LEMMA PutBackSound ==
  ASSUME NEW q, NEW n \in 0 .. MaxStamp, Sound(q, n), NEW i \in DOMAIN q.messages,
         \A j \in 1 .. i - 1 : q.messages[j].mtype # q.messages[i].mtype,
         NEW copy \in BOOLEAN
  PROVE  Sound(PutBack(q, i, copy), n)
<1> DEFINE m == q.messages[i]
           r == IF copy THEN q ELSE Removed(q, i)
<1>1. Sound(Removed(q, i), n) /\ Removed(q, i).got = q.got
  BY RemovedSound
<1>2. m \in Messages /\ m.stamp <= n /\ q.got[m.mtype] <= m.stamp
  <2>1. InOrder(q, i, n)  BY DEF Sound
  <2>2. QED  BY <2>1, SoundTypes DEF InOrder
<1>3. Sound(r, n) /\ r.got = q.got  BY <1>1
<1>4. \A k \in DOMAIN r.messages : \E x \in DOMAIN q.messages : r.messages[k] = q.messages[x]
  BY RemovedSound
<1>5. \A k \in DOMAIN r.messages : r.messages[k].mtype = m.mtype => m.stamp <= r.messages[k].stamp
  BY <1>4, FirstIsOldest
<1>6. PutBack(q, i, copy) = [r EXCEPT !.messages = <<m>> \o @]  BY DEF PutBack
<1> HIDE DEF m, r
<1>7. QED  BY <1>2, <1>3, <1>5, <1>6, FrontSound

\* Later sends do not disturb a queue.
LEMMA SoundLater ==
  ASSUME NEW q, NEW n \in 0 .. MaxStamp, NEW n2 \in n .. MaxStamp, Sound(q, n)
  PROVE  Sound(q, n2)
<1>1. \A i \in DOMAIN q.messages : InOrder(q, i, n) /\ q.messages[i].stamp \in Int
  BY SoundTypes DEF Sound
<1>2. \A i \in DOMAIN q.messages : InOrder(q, i, n2)
  BY <1>1, MsgAssumption DEF InOrder
<1>3. \A t \in MTypes : q.got[t] \in Int /\ q.got[t] <= n  BY SoundTypes, MsgAssumption DEF Sound
<1>4. \A t \in MTypes : q.got[t] <= n2  BY <1>3, MsgAssumption
<1>5. QED  BY <1>2, <1>4 DEF Sound

-----------------------------------------------------------------------------
\* A step that changes one queue, and not its key.
LEMMA Update ==
  ASSUME IInv, NEW id \in DOMAIN queues, NEW r, Sound(r, stamp'), r.key = queues[id].key,
         queues' = [queues EXCEPT ![id] = r], UNCHANGED <<key_to_id, next_id, up>>,
         stamp' \in stamp .. MaxStamp
  PROVE  IInv'
<1>1. DOMAIN queues' = DOMAIN queues
      /\ \A x \in DOMAIN queues : queues'[x] = IF x = id THEN r ELSE queues[x]
  OBVIOUS
<1>2. stamp \in 0 .. MaxStamp /\ stamp' \in 0 .. MaxStamp
  BY MsgAssumption DEF IInv, TypeOK
<1>3. \A x \in DOMAIN queues' : Sound(queues'[x], stamp')
  <2>1. \A x \in DOMAIN queues : Sound(queues[x], stamp')
    BY <1>2, SoundLater DEF IInv
  <2>2. QED  BY <1>1, <2>1
<1>4. KeysIndexed'
  <2>1. \A x \in DOMAIN queues : queues'[x].key = queues[x].key  BY <1>1
  <2>2. QED  BY <1>1, <2>1 DEF IInv, KeysIndexed
<1>5. TypeOK'
  <2>1. \A x \in DOMAIN queues' : queues'[x] \in Queues  BY <1>3 DEF Sound
  <2>2. QED  BY <1>1, <1>2, <2>1 DEF IInv, TypeOK
<1>6. QED  BY <1>3, <1>4, <1>5 DEF IInv

\* The empty table satisfies the invariant.
LEMMA InitIInv ==
  ASSUME Init PROVE IInv
BY MsgAssumption DEF Init, IInv, TypeOK, KeysIndexed

\* A queue made under a key that leads nowhere is the only one with that key.
LEMMA MsggetStep ==
  ASSUME IInv, NEW u \in Uids, NEW g \in Gids, NEW key \in Keys \cup {IPC_PRIVATE},
         NEW mode \in Modes, Msgget(u, g, key, mode)
  PROVE  IInv'
<1>1. PICK id \in Ids :
        /\ id \notin DOMAIN queues
        /\ queues' = Put(queues, id, MsgNew(key, u, g, mode)) /\ next_id' = id + 1
        /\ key_to_id' = IF key = IPC_PRIVATE THEN key_to_id ELSE Put(key_to_id, key, id)
        /\ stamp' = stamp /\ up' = up
  BY DEF Msgget, Allocates
<1> DEFINE q == MsgNew(key, u, g, mode)
<1>2. /\ DOMAIN queues' = DOMAIN queues \cup {id}
      /\ \A x \in DOMAIN queues' : queues'[x] = IF x = id THEN q ELSE queues[x]
  BY <1>1 DEF Put
<1>3. Sound(q, stamp) /\ q.key = key
  <2>1. stamp \in 0 .. MaxStamp  BY DEF IInv, TypeOK
  <2>2. Sound(q, stamp)  BY <2>1, NewSound
  <2>3. QED  BY <2>2 DEF MsgNew
<1> HIDE DEF q
<1>4. \A x \in DOMAIN queues' : Sound(queues'[x], stamp')  BY <1>1, <1>2, <1>3 DEF IInv
<1>5. KeysIndexed'
  <2>1. CASE key = IPC_PRIVATE
    <3>1. key_to_id' = key_to_id  BY <1>1, <2>1
    <3>2. QED  BY <1>1, <1>2, <1>3, <2>1, <3>1 DEF IInv, KeysIndexed
  <2>2. CASE key # IPC_PRIVATE
    <3>1. key \notin DOMAIN key_to_id  BY <2>2 DEF IInv, KeysIndexed, Msgget, Unknown
    <3>2. \A x \in DOMAIN queues : queues[x].key # key
      BY <2>2, <3>1 DEF IInv, KeysIndexed
    <3>3. /\ DOMAIN key_to_id' = DOMAIN key_to_id \cup {key}
          /\ \A k \in DOMAIN key_to_id' : key_to_id'[k] = IF k = key THEN id ELSE key_to_id[k]
      BY <1>1, <2>2 DEF Put
    <3>4. QED  BY <1>1, <1>2, <1>3, <3>1, <3>2, <3>3 DEF IInv, KeysIndexed
  <2>3. QED  BY <2>1, <2>2
<1>6. TypeOK'
  <2>1. \A x \in DOMAIN queues' : x \in Ids /\ queues'[x] \in Queues
    BY <1>2, <1>4 DEF Sound, IInv, TypeOK
  <2>2. next_id' \in 1 .. MaxId + 1  BY <1>1, MsgAssumption DEF Ids
  <2>3. /\ DOMAIN key_to_id' \subseteq Keys
        /\ \A k \in DOMAIN key_to_id' : key_to_id'[k] \in Ids
    BY <1>1 DEF Put, IInv, TypeOK
  <2>4. QED  BY <1>1, <2>1, <2>2, <2>3 DEF IInv, TypeOK
<1>7. QED  BY <1>4, <1>5, <1>6 DEF IInv

\* A message sent goes behind every other.
LEMMA MsgsndStep ==
  ASSUME IInv, NEW u, NEW g, NEW id \in DOMAIN queues, NEW t \in MTypes,
         NEW size \in Sizes, Msgsnd(u, g, id, t, size)
  PROVE  IInv'
<1> DEFINE q == queues[id]
           bytes == (q.total_bytes + size) % Word
           r == [q EXCEPT !.messages = Append(@, [mtype |-> t, size |-> size, stamp |-> stamp + 1]),
                          !.total_bytes = bytes, !.qnum = Len(q.messages) + 1]
<1>1. Sound(q, stamp) /\ stamp \in 0 .. MaxStamp  BY DEF IInv, TypeOK
<1>2. /\ stamp < MaxStamp /\ stamp' = stamp + 1 /\ queues' = [queues EXCEPT ![id] = r]
      /\ UNCHANGED <<key_to_id, next_id, up>>
  BY DEF Msgsnd
<1>3. bytes \in 0 .. Word - 1 /\ Len(q.messages) + 1 \in Nat
  <2>1. Word \in Nat /\ Word > 0 /\ size \in Nat  BY MsgAssumption
  <2>2. q.total_bytes \in Int /\ q.messages \in Seq(Messages)
    BY <1>1, <2>1 DEF Sound, Queues
  <2>3. QED  BY <2>1, <2>2
<1>4. Sound(r, stamp + 1)
  <2>1. stamp \in Nat  BY <1>1, MsgAssumption
  <2> HIDE DEF bytes
  <2>2. QED  BY <1>1, <1>2, <1>3, <2>1, SendSound
<1>5. r.key = q.key  BY <1>1 DEF Sound, Queues
<1>6. stamp' \in stamp .. MaxStamp  BY <1>1, <1>2, MsgAssumption
<1> HIDE DEF r, q, bytes
<1>7. QED  BY <1>2, <1>4, <1>5, <1>6, Update DEF q

\* A receive, kept or put back, starts from the first message of its type.
LEMMA ReceivedFirst ==
  ASSUME IInv, NEW u, NEW g, NEW id \in DOMAIN queues, NEW typ \in Int,
         NEW except \in BOOLEAN, NEW i, Received(u, g, id, typ, except, i)
  PROVE  /\ Sound(queues[id], stamp) /\ stamp \in 0 .. MaxStamp
         /\ i \in DOMAIN queues[id].messages
         /\ \A j \in 1 .. i - 1 :
              queues[id].messages[j].mtype # queues[id].messages[i].mtype
<1>1. Sound(queues[id], stamp) /\ stamp \in 0 .. MaxStamp  BY DEF IInv, TypeOK
<1>2. queues[id].messages \in Seq(Messages)  BY <1>1, SoundTypes
<1>3. Selects(queues[id].messages, typ, except, i)  BY DEF Received
<1>4. QED  BY <1>1, <1>2, <1>3, FirstOfType DEF Selects

\* A message received is the oldest of its type.
LEMMA MsgrcvStep ==
  ASSUME IInv, NEW u, NEW g, NEW id \in DOMAIN queues, NEW typ \in Int,
         NEW except \in BOOLEAN, NEW noerror, NEW msgsz,
         Msgrcv(u, g, id, typ, except, noerror, msgsz)
  PROVE  IInv'
<1> DEFINE q == queues[id]
           r(i) == [Removed(q, i) EXCEPT
                      !.got = [@ EXCEPT ![q.messages[i].mtype] = q.messages[i].stamp]]
<1>1. PICK i \in DOMAIN q.messages :
        /\ Received(u, g, id, typ, except, i)
        /\ queues' = [queues EXCEPT ![id] = r(i)]
        /\ UNCHANGED <<key_to_id, next_id, stamp, up>>
  BY DEF Msgrcv
<1>2. Sound(r(i), stamp)
  <2>1. /\ Sound(q, stamp) /\ stamp \in 0 .. MaxStamp
        /\ \A j \in 1 .. i - 1 : q.messages[j].mtype # q.messages[i].mtype
    BY <1>1, ReceivedFirst
  <2> HIDE DEF q
  <2>2. QED  BY <2>1, ReceiveSound
<1>3. r(i).key = q.key
  <2>1. q \in Queues  BY DEF IInv, TypeOK
  <2>2. QED  BY <2>1 DEF Removed, Queues
<1>4. stamp' \in stamp .. MaxStamp  BY <1>1, MsgAssumption DEF IInv, TypeOK
<1> HIDE DEF r, q
<1>5. QED  BY <1>1, <1>2, <1>3, <1>4, Update DEF q

\* A message put back to the front is the oldest of its type.
LEMMA MsgrcvTooBigStep ==
  ASSUME IInv, NEW u, NEW g, NEW id \in DOMAIN queues, NEW typ \in Int,
         NEW except \in BOOLEAN, NEW copy \in BOOLEAN, NEW msgsz,
         MsgrcvTooBig(u, g, id, typ, except, copy, msgsz)
  PROVE  IInv'
<1>1. PICK i \in DOMAIN queues[id].messages :
        /\ Received(u, g, id, typ, except, i)
        /\ queues' = [queues EXCEPT ![id] = PutBack(queues[id], i, copy)]
        /\ UNCHANGED <<key_to_id, next_id, stamp, up>>
  BY DEF MsgrcvTooBig
<1>2. Sound(PutBack(queues[id], i, copy), stamp)
  <2>1. /\ Sound(queues[id], stamp) /\ stamp \in 0 .. MaxStamp
        /\ \A j \in 1 .. i - 1 :
             queues[id].messages[j].mtype # queues[id].messages[i].mtype
    BY <1>1, ReceivedFirst
  <2>2. QED  BY <2>1, PutBackSound
<1>3. PutBack(queues[id], i, copy).key = queues[id].key
  <2>1. queues[id] \in Queues  BY DEF IInv, TypeOK
  <2>2. QED  BY <2>1 DEF PutBack, Removed, Queues
<1>4. stamp' \in stamp .. MaxStamp  BY <1>1, MsgAssumption DEF IInv, TypeOK
<1>5. QED  BY <1>1, <1>2, <1>3, <1>4, Update

\* A removal takes the queue and its key away together.
LEMMA RmidStep ==
  ASSUME IInv, NEW u, NEW id \in DOMAIN queues, Rmid(u, id)
  PROVE  IInv'
<1> DEFINE key == queues[id].key
<1>1. /\ DOMAIN queues' = DOMAIN queues \ {id}
      /\ \A x \in DOMAIN queues' : queues'[x] = queues[x]
      /\ UNCHANGED <<next_id, stamp, up>>
  BY DEF Rmid, Drop
<1>2. CASE key = IPC_PRIVATE
  <2>1. key_to_id' = key_to_id  BY <1>2 DEF Rmid
  <2>2. \A k \in DOMAIN key_to_id : key_to_id[k] # id
    BY <1>2, MsgAssumption DEF IInv, KeysIndexed, TypeOK
  <2>3. KeysIndexed'  BY <1>1, <2>1, <2>2 DEF IInv, KeysIndexed
  <2>4. QED  BY <1>1, <2>1, <2>3 DEF IInv, TypeOK
<1>3. CASE key # IPC_PRIVATE
  <2>1. /\ DOMAIN key_to_id' = DOMAIN key_to_id \ {key}
        /\ \A k \in DOMAIN key_to_id' : key_to_id'[k] = key_to_id[k]
    BY <1>3 DEF Rmid, Drop
  <2>2. \A k \in DOMAIN key_to_id' : key_to_id[k] # id
    BY <2>1 DEF IInv, KeysIndexed
  <2>3. \A x \in DOMAIN queues' : queues[x].key # key
    BY <1>1, <1>3 DEF IInv, KeysIndexed
  <2>4. KeysIndexed'  BY <1>1, <2>1, <2>2, <2>3 DEF IInv, KeysIndexed
  <2>5. QED  BY <1>1, <2>1, <2>4 DEF IInv, TypeOK
<1>4. QED  BY <1>2, <1>3

\* IPC_SET touches neither key nor messages.
LEMMA SetStep ==
  ASSUME IInv, NEW u, NEW id \in DOMAIN queues, NEW owner \in Uids, NEW group \in Gids,
         NEW mode \in Modes, NEW qbytes \in Limits, Set(u, id, owner, group, mode, qbytes)
  PROVE  IInv'
<1> DEFINE q == queues[id]
           r == [q EXCEPT !.uid = owner, !.gid = group, !.mode = mode, !.qbytes = Clamped(qbytes)]
<1>1. queues' = [queues EXCEPT ![id] = r] /\ UNCHANGED <<key_to_id, next_id, stamp, up>>
  BY DEF Set
<1>2. Clamped(qbytes) \in 0 .. 4 * MSGMNB  BY MsgAssumption DEF Clamped
<1>3. q \in Queues /\ Sound(q, stamp)  BY DEF IInv, TypeOK
<1>4. r \in Queues /\ r.key = q.key /\ r.messages = q.messages /\ r.got = q.got
  BY <1>2, <1>3 DEF Queues
<1> HIDE DEF q, r
<1>5. Sound(r, stamp)  BY <1>3, <1>4 DEF Sound, InOrder
<1>6. stamp' \in stamp .. MaxStamp  BY <1>1, MsgAssumption DEF IInv, TypeOK
<1>7. QED  BY <1>1, <1>4, <1>5, <1>6, Update DEF q

\* Every step of every call preserves the invariant.
LEMMA NextIInv ==
  ASSUME IInv, [Next]_vars PROVE IInv'
<1>1. CASE UNCHANGED vars
  BY <1>1 DEF vars, IInv, TypeOK, KeysIndexed
<1>2. CASE Halted
  BY <1>2 DEF Halted, vars, IInv, TypeOK, KeysIndexed
<1>3. ASSUME NEW u \in Uids, NEW g \in Gids, Calls(u, g) PROVE IInv'
  <2>1. Typs \subseteq Int
    <3>1. MTypes \subseteq Int  BY MsgAssumption
    <3>2. ASSUME NEW x \in Typs PROVE x \in Int
      <4>1. x = 0 \/ x \in MTypes \/ \E t \in MTypes : x = -t  BY DEF Typs
      <4>2. ASSUME NEW t \in MTypes, x = -t PROVE x \in Int
        <5>1. t \in Int  BY <3>1
        <5>2. QED  BY <4>2, <5>1
      <4>3. 0 \in Int  OBVIOUS
      <4>4. QED  BY <3>1, <4>1, <4>2, <4>3, Zenon
    <3>3. QED  BY <3>2
  <2>2. CASE \E key \in Keys \cup {IPC_PRIVATE}, mode \in Modes : Msgget(u, g, key, mode)
    BY <2>2, MsggetStep
  <2>3. ASSUME NEW id \in DOMAIN queues, NEW t \in MTypes, NEW size \in Sizes,
               Msgsnd(u, g, id, t, size)
        PROVE  IInv'
    BY <2>3, MsgsndStep
  <2>4. ASSUME NEW id \in DOMAIN queues, NEW typ \in Typs, NEW except \in BOOLEAN,
               NEW noerror \in BOOLEAN, NEW msgsz \in Buffers,
               Msgrcv(u, g, id, typ, except, noerror, msgsz)
        PROVE  IInv'
    BY <2>1, <2>4, MsgrcvStep
  <2>5. ASSUME NEW id \in DOMAIN queues, NEW typ \in Typs, NEW except \in BOOLEAN,
               NEW copy \in BOOLEAN, NEW msgsz \in Buffers,
               MsgrcvTooBig(u, g, id, typ, except, copy, msgsz)
        PROVE  IInv'
    BY <2>1, <2>5, MsgrcvTooBigStep
  <2>6. ASSUME up' = FALSE, UNCHANGED <<queues, key_to_id, next_id, stamp>> PROVE IInv'
    BY <2>6 DEF IInv, TypeOK, KeysIndexed
  <2>7. ASSUME NEW id \in DOMAIN queues, NEW typ \in Typs, NEW except \in BOOLEAN,
               MsgrcvPanic(u, g, id, typ, except)
        PROVE  IInv'
    BY <2>6, <2>7 DEF MsgrcvPanic
  <2>8. ASSUME NEW id \in DOMAIN queues, NEW size \in Sizes, MsgsndPanic(u, g, id, size)
        PROVE  IInv'
    BY <2>6, <2>8 DEF MsgsndPanic
  <2>9. ASSUME NEW id \in DOMAIN queues, Rmid(u, id) PROVE IInv'
    BY <2>9, RmidStep
  <2>10. ASSUME NEW id \in DOMAIN queues, NEW owner \in Uids, NEW group \in Gids,
                NEW mode \in Modes, NEW qbytes \in Limits,
                Set(u, id, owner, group, mode, qbytes)
         PROVE  IInv'
    BY <2>10, SetStep
  <2>11. QED
    BY <1>3, <2>2, <2>3, <2>4, <2>5, <2>7, <2>8, <2>9, <2>10 DEF Calls
<1>4. QED  BY <1>1, <1>2, <1>3 DEF Next

\* The invariant holds in every reachable state of the message queues.
THEOREM MsgInvariant == Spec => []IInv
<1>1. Init => IInv  BY InitIInv
<1>2. IInv /\ [Next]_vars => IInv'  BY NextIInv
<1>3. QED  BY <1>1, <1>2, PTL DEF Spec

\* msgget finds the live queue of a key and only that one, however queues
\* are made and removed and ids come round.
THEOREM MsgKeysIndexed == Spec => []KeysIndexed
<1>1. IInv => KeysIndexed  BY DEF IInv
<1>2. QED  BY <1>1, MsgInvariant, PTL

\* No message is ever received before an older one of its type.
THEOREM MsgSendOrder == Spec => []SendOrder
<1>1. IInv => SendOrder  BY DEF IInv, Sound, SendOrder
<1>2. QED  BY <1>1, MsgInvariant, PTL

\* Types of the table: the byte limits stay within the clamp of IPC_SET.
THEOREM MsgTypes == Spec => []TypeOK
<1>1. IInv => TypeOK  BY DEF IInv
<1>2. QED  BY <1>1, MsgInvariant, PTL

-----------------------------------------------------------------------------
\* Every message of q is in r, or was the one handed out last.
Kept(q, r) ==
  \A i \in DOMAIN q.messages :
    \/ \E j \in DOMAIN r.messages : r.messages[j] = q.messages[i]
    \/ r.got[q.messages[i].mtype] = q.messages[i].stamp

\* What a removal leaves behind.
LEMMA RemovedKeeps ==
  ASSUME NEW q \in Queues, NEW i \in DOMAIN q.messages, NEW x \in DOMAIN q.messages, x # i
  PROVE  /\ Removed(q, i).messages = Without(q.messages, i)
         /\ \E j \in DOMAIN Without(q.messages, i) : Without(q.messages, i)[j] = q.messages[x]
<1> DEFINE ms == q.messages
           w == Without(ms, i)
           y == IF x < i THEN x ELSE x - 1
<1>1. ms \in Seq(Messages) /\ Len(ms) \in Nat /\ i \in 1 .. Len(ms) /\ x \in 1 .. Len(ms)
  BY DEF Queues
<1>2. Removed(q, i).messages = w  BY DEF Removed, Queues
<1>3. y \in 1 .. Len(ms) - 1 /\ x = IF y < i THEN y ELSE y + 1  BY <1>1
<1>4. DOMAIN w = 1 .. Len(ms) - 1
  BY <1>1, WithoutIsSeq
<1>5. w[y] = ms[x]
  BY <1>3 DEF Without
<1> HIDE DEF w, y, ms
<1>6. QED  BY <1>2, <1>3, <1>4, <1>5 DEF w, ms

\* A receive hands out the one message it removes.
LEMMA ReceiveKeeps ==
  ASSUME NEW q \in Queues, NEW i \in DOMAIN q.messages
  PROVE  Kept(q, [Removed(q, i) EXCEPT
                    !.got = [@ EXCEPT ![q.messages[i].mtype] = q.messages[i].stamp]])
<1> DEFINE m == q.messages[i]
           r == Removed(q, i)
           g == [q.got EXCEPT ![m.mtype] = m.stamp]
           d == [r EXCEPT !.got = [@ EXCEPT ![m.mtype] = m.stamp]]
<1>1. m.mtype \in MTypes /\ q.got \in [MTypes -> 0 .. MaxStamp]
  <2>1. q.messages \in Seq(Messages) /\ q.got \in [MTypes -> 0 .. MaxStamp]  BY DEF Queues
  <2>2. m \in Messages  BY <2>1
  <2> HIDE DEF m
  <2>3. m.mtype \in MTypes  BY <2>2 DEF Messages
  <2>4. QED  BY <2>1, <2>3
<1>2. d.messages = r.messages /\ d.got = g  BY DEF Removed, Queues
<1>3. g[m.mtype] = m.stamp  BY <1>1
<1> HIDE DEF d, g, r
<1>4. ASSUME NEW x \in DOMAIN q.messages
      PROVE  \/ \E j \in DOMAIN d.messages : d.messages[j] = q.messages[x]
             \/ d.got[q.messages[x].mtype] = q.messages[x].stamp
  <2>1. CASE x = i  BY <1>2, <1>3, <2>1
  <2>2. CASE x # i
    <3>1. /\ r.messages = Without(q.messages, i)
          /\ \E j \in DOMAIN Without(q.messages, i) : Without(q.messages, i)[j] = q.messages[x]
      BY <2>2, RemovedKeeps DEF r
    <3>2. QED  BY <1>2, <3>1
  <2>3. QED  BY <2>1, <2>2
<1>5. Kept(q, d)  BY <1>4 DEF Kept
<1>6. QED  BY <1>5 DEF d, r

\* A message put back, or a copy of it put to the front, displaces none.
LEMMA PutBackKeeps ==
  ASSUME NEW q \in Queues, NEW i \in DOMAIN q.messages, NEW copy \in BOOLEAN
  PROVE  Kept(q, PutBack(q, i, copy))
<1> DEFINE m == q.messages[i]
           b == IF copy THEN q.messages ELSE Without(q.messages, i)
           f == <<m>> \o b
           d == PutBack(q, i, copy)
<1>1. q.messages \in Seq(Messages) /\ m \in Messages  BY DEF Queues
<1>2. Without(q.messages, i) \in Seq(Messages)
  BY <1>1, WithoutIsSeq
<1>3. b \in Seq(Messages) /\ Len(b) \in Nat /\ DOMAIN b = 1 .. Len(b)  BY <1>1, <1>2
<1>4. d.messages = f  BY DEF PutBack, Removed, Queues
<1> HIDE DEF b, m, d
<1>5. /\ DOMAIN f = 1 .. Len(b) + 1 /\ f[1] = m
      /\ \A k \in 1 .. Len(b) : f[k + 1] = b[k]
  BY <1>1, <1>3
<1>6. ASSUME NEW x \in DOMAIN q.messages
      PROVE  \E j \in DOMAIN d.messages : d.messages[j] = q.messages[x]
  <2>1. CASE x = i
    <3>1. 1 \in DOMAIN f  BY <1>3, <1>5
    <3>2. QED  BY <1>4, <1>5, <2>1, <3>1 DEF m
  <2>2. CASE x # i
    <3>1. \E k \in DOMAIN b : b[k] = q.messages[x]
      <4>1. \E k \in DOMAIN Without(q.messages, i) : Without(q.messages, i)[k] = q.messages[x]
        BY <2>2, RemovedKeeps
      <4>2. QED  BY <4>1 DEF b
    <3>2. PICK k \in 1 .. Len(b) : b[k] = q.messages[x]  BY <1>3, <3>1
    <3>3. k + 1 \in DOMAIN f /\ f[k + 1] = q.messages[x]  BY <1>3, <1>5, <3>2
    <3>4. QED  BY <1>4, <3>3
  <2>3. QED  BY <2>1, <2>2
<1>7. QED  BY <1>6 DEF Kept, d

\* Whatever a call does to a queue that it leaves in the table.
LEMMA NextKeeps ==
  ASSUME IInv, [Next]_vars, NEW id \in DOMAIN queues \cap DOMAIN queues'
  PROVE  Kept(queues[id], queues'[id])
<1>1. queues[id] \in Queues  BY DEF IInv, TypeOK
<1>2. ASSUME queues'[id] = queues[id] PROVE Kept(queues[id], queues'[id])
  BY <1>2 DEF Kept
<1>3. ASSUME NEW x \in DOMAIN queues, NEW r, queues' = [queues EXCEPT ![x] = r],
             x = id => Kept(queues[id], r)
      PROVE  Kept(queues[id], queues'[id])
  <2>1. CASE x = id  BY <1>3, <2>1
  <2>2. CASE x # id  BY <1>2, <1>3, <2>2
  <2>3. QED  BY <2>1, <2>2
<1>4. ASSUME NEW u \in Uids, NEW g \in Gids, Calls(u, g)
      PROVE  Kept(queues[id], queues'[id])
  <2>1. ASSUME NEW key, NEW mode, Msgget(u, g, key, mode)
        PROVE  Kept(queues[id], queues'[id])
    <3>1. PICK y \in Ids : Allocates(y) /\ queues' = Put(queues, y, MsgNew(key, u, g, mode))
      BY <2>1 DEF Msgget
    <3>2. y # id  BY <3>1 DEF Allocates
    <3>3. queues'[id] = queues[id]  BY <3>1, <3>2 DEF Put
    <3>4. QED  BY <1>2, <3>3
  <2>2. ASSUME NEW x \in DOMAIN queues, NEW t \in MTypes, NEW size \in Sizes,
               Msgsnd(u, g, x, t, size)
        PROVE  Kept(queues[id], queues'[id])
    <3> DEFINE q == queues[x]
               new == [mtype |-> t, size |-> size, stamp |-> stamp + 1]
               r == [q EXCEPT !.messages = Append(@, new),
                              !.total_bytes = (q.total_bytes + size) % Word,
                              !.qnum = Len(q.messages) + 1]
    <3>1. queues' = [queues EXCEPT ![x] = r]  BY <2>2 DEF Msgsnd
    <3>2. q \in Queues  BY DEF IInv, TypeOK
    <3>3. r.messages = Append(q.messages, new) /\ q.messages \in Seq(Messages)
      BY <3>2 DEF Queues
    <3> HIDE DEF q, r, new
    <3>4. \A i \in DOMAIN q.messages : i \in DOMAIN r.messages /\ r.messages[i] = q.messages[i]
      BY <3>3
    <3>5. Kept(q, r)  BY <3>4 DEF Kept
    <3>6. QED  BY <1>3, <3>1, <3>5 DEF q
  <2>3. ASSUME NEW x \in DOMAIN queues, NEW typ, NEW except, NEW noerror, NEW msgsz,
               Msgrcv(u, g, x, typ, except, noerror, msgsz)
        PROVE  Kept(queues[id], queues'[id])
    <3> DEFINE r(i) == [Removed(queues[x], i) EXCEPT
                 !.got = [@ EXCEPT ![queues[x].messages[i].mtype] = queues[x].messages[i].stamp]]
    <3>1. PICK i \in DOMAIN queues[x].messages : queues' = [queues EXCEPT ![x] = r(i)]
      BY <2>3 DEF Msgrcv
    <3>2. queues[x] \in Queues  BY DEF IInv, TypeOK
    <3>3. Kept(queues[x], r(i))  BY <3>2, ReceiveKeeps
    <3> HIDE DEF r
    <3>4. QED  BY <1>3, <3>1, <3>3
  <2>4. ASSUME NEW x \in DOMAIN queues, NEW typ, NEW except, NEW copy \in BOOLEAN, NEW msgsz,
               MsgrcvTooBig(u, g, x, typ, except, copy, msgsz)
        PROVE  Kept(queues[id], queues'[id])
    <3>1. PICK i \in DOMAIN queues[x].messages :
            queues' = [queues EXCEPT ![x] = PutBack(queues[x], i, copy)]
      BY <2>4 DEF MsgrcvTooBig
    <3>2. queues[x] \in Queues  BY DEF IInv, TypeOK
    <3>3. Kept(queues[x], PutBack(queues[x], i, copy))  BY <3>2, PutBackKeeps
    <3>4. QED  BY <1>3, <3>1, <3>3
  <2>5. ASSUME NEW x \in DOMAIN queues, NEW typ, NEW except, NEW size,
               MsgrcvPanic(u, g, x, typ, except) \/ MsgsndPanic(u, g, x, size)
        PROVE  Kept(queues[id], queues'[id])
    BY <1>2, <2>5 DEF MsgrcvPanic, MsgsndPanic
  <2>6. ASSUME NEW x \in DOMAIN queues, Rmid(u, x)
        PROVE  Kept(queues[id], queues'[id])
    <3>1. queues'[id] = queues[id]  BY <2>6 DEF Rmid, Drop
    <3>2. QED  BY <1>2, <3>1
  <2>7. ASSUME NEW x \in DOMAIN queues, NEW owner, NEW group, NEW mode, NEW qbytes,
               Set(u, x, owner, group, mode, qbytes)
        PROVE  Kept(queues[id], queues'[id])
    <3> DEFINE q == queues[x]
               r == [q EXCEPT !.uid = owner, !.gid = group, !.mode = mode,
                              !.qbytes = Clamped(qbytes)]
    <3>1. queues' = [queues EXCEPT ![x] = r]  BY <2>7 DEF Set
    <3>2. q \in Queues  BY DEF IInv, TypeOK
    <3>3. r.messages = q.messages  BY <3>2 DEF Queues
    <3> HIDE DEF q, r
    <3>4. Kept(q, r)  BY <3>3 DEF Kept
    <3>5. QED  BY <1>3, <3>1, <3>4 DEF q
  <2>8. QED
    BY <1>4, <2>1, <2>2, <2>3, <2>4, <2>5, <2>6, <2>7 DEF Calls
<1>5. CASE UNCHANGED vars \/ Halted  BY <1>2, <1>5 DEF Halted, vars
<1>6. QED  BY <1>4, <1>5 DEF Next

\* sys_msgrcv that answers E2BIG, sys_msgsnd and IPC_SET lose no message: one
\* leaves a queue that stays only into a receiver's buffer.
THEOREM MsgLeavesByDelivery == Spec => LeavesByDelivery
<1> DEFINE A == \A id \in DOMAIN queues \cap DOMAIN queues' :
                  \A i \in DOMAIN queues[id].messages :
                    LET m == queues[id].messages[i]
                    IN \/ \E j \in DOMAIN queues'[id].messages : queues'[id].messages[j] = m
                       \/ queues'[id].got[m.mtype] = m.stamp
<1>1. IInv /\ [Next]_vars => [A]_vars  BY NextKeeps DEF Kept
<1>2. QED  BY <1>1, MsgInvariant, PTL DEF Spec, LeavesByDelivery

=============================================================================
