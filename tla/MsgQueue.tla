------------------------------ MODULE MsgQueue ------------------------------
(***************************************************************************)
(* System V message queues, kernel/src/ipc/msg.rs.  Every call runs under  *)
(* the lock of the global table and is one step.  A call that is refused,  *)
(* msgget on an existing key, a peek and IPC_STAT leave the table as it    *)
(* was and are not steps.  Time stamps and pids of the status record are   *)
(* left out, and so is marked_for_removal, which nothing ever sets.        *)
(*                                                                         *)
(* A message is its type, its size and, as a history variable, its number  *)
(* in the order of the sends; got is, per type, the number of the last     *)
(* message a receiver was handed.                                          *)
(***************************************************************************)
EXTENDS Integers, Sequences, FiniteSets

CONSTANTS Uids, Gids,   \* effective ids of the callers; 0 is root
          Keys,         \* keys other than IPC_PRIVATE
          Modes,        \* permissions that creators and owners choose
          MTypes,       \* message types in use
          I64Max,       \* i64::MAX
          Sizes,        \* message sizes in use
          Buffers,      \* receive buffer sizes in use
          Limits,       \* values owners give to msg_qbytes
          MSGMNI,       \* largest number of queues
          MSGMNB,       \* default bytes of a queue
          MaxId,        \* i32::MAX, largest queue id
          Word,         \* 2^64, the width of total_bytes
          MaxStamp,     \* bound: messages ever sent
          MaxLen        \* bound: messages in one queue

IPC_PRIVATE == "IPC_PRIVATE"
ReadBits == <<"ur", "gr", "or">>
WriteBits == <<"uw", "gw", "ow">>

ASSUME MsgAssumption ==
  /\ I64Max \in Nat /\ MTypes \subseteq 1 .. I64Max
  /\ Sizes \subseteq Nat /\ Buffers \subseteq Nat /\ Limits \subseteq Nat
  /\ MSGMNI \in Nat /\ MSGMNB \in Nat /\ MaxId \in Nat /\ MSGMNI < MaxId
  /\ Word \in Nat /\ 4 * MSGMNB < Word /\ \A s \in Sizes : 4 * MSGMNB + s < Word
  /\ MaxStamp \in Nat /\ MaxLen \in Nat
  /\ IPC_PRIVATE \notin Keys

VARIABLES queues,       \* MsgQueueTable.queues
          key_to_id,    \* MsgQueueTable.key_to_id
          next_id,      \* MsgQueueTable.next_id; MaxId + 1 once it has wrapped
          stamp,        \* history: number of messages sent
          up            \* FALSE once an arithmetic check has panicked

vars == <<queues, key_to_id, next_id, stamp, up>>

Ids == 1 .. MaxId
Messages == [mtype : MTypes, size : Sizes, stamp : 1 .. MaxStamp]
Queues ==
  [key : Keys \cup {IPC_PRIVATE}, uid : Uids, gid : Gids, cuid : Uids, mode : Modes,
   qbytes : 0 .. 4 * MSGMNB, messages : Seq(Messages), total_bytes : 0 .. Word - 1, qnum : Nat,
   got : [MTypes -> 0 .. MaxStamp]]

Init ==
  /\ queues = << >> /\ key_to_id = << >> /\ next_id = 1
  /\ stamp = 0 /\ up = TRUE

\* f with x mapped to v, and f without x.
Put(f, x, v) == [y \in DOMAIN f \cup {x} |-> IF y = x THEN v ELSE f[y]]
Drop(f, x) == [y \in DOMAIN f \ {x} |-> f[y]]

MsgNew(key, u, g, mode) ==
  [key |-> key, uid |-> u, gid |-> g, cuid |-> u, mode |-> mode, qbytes |-> MSGMNB,
   messages |-> << >>, total_bytes |-> 0, qnum |-> 0, got |-> [t \in MTypes |-> 0]]

\* MsgPerm::can_read and can_write: the first class that fits decides.
May(q, u, g, bits) ==
  \/ u = 0
  \/ u = q.uid /\ bits[1] \in q.mode
  \/ u # q.uid /\ g = q.gid /\ bits[2] \in q.mode
  \/ u # q.uid /\ g # q.gid /\ bits[3] \in q.mode

MayControl(q, u) == u \in {0, q.uid, q.cuid}

\* id is what alloc_id finds: the first free id at or after next_id, going
\* round after i32::MAX.
Allocates(id) ==
  LET ahead(i) == (i - next_id) % MaxId
      free == Ids \ DOMAIN queues
  IN id \in free /\ \A o \in free : ahead(id) <= ahead(o)

-----------------------------------------------------------------------------
\* sys_msgget, where it makes a queue.
Unknown(key) == key \in DOMAIN key_to_id => key_to_id[key] \notin DOMAIN queues

Msgget(u, g, key, mode) ==
  /\ up
  /\ Cardinality(DOMAIN queues) < MSGMNI
  /\ key = IPC_PRIVATE \/ Unknown(key)
  /\ \E id \in Ids :
       /\ Allocates(id)
       /\ queues' = Put(queues, id, MsgNew(key, u, g, mode))
       /\ next_id' = id + 1
       /\ key_to_id' = IF key = IPC_PRIVATE THEN key_to_id ELSE Put(key_to_id, key, id)
  /\ UNCHANGED <<stamp, up>>

\* sys_msgsnd with MessageQueue::send.
Msgsnd(u, g, id, t, size) ==
  LET q == queues[id]
      bytes == q.total_bytes + size
  IN /\ up /\ stamp < MaxStamp /\ Len(q.messages) < MaxLen
     /\ May(q, u, g, WriteBits)
     /\ bytes % Word <= q.qbytes
     /\ stamp' = stamp + 1
     /\ queues' = [queues EXCEPT ![id] =
          [q EXCEPT !.messages = Append(@, [mtype |-> t, size |-> size, stamp |-> stamp + 1]),
                    !.total_bytes = bytes % Word, !.qnum = Len(q.messages) + 1]]
     /\ UNCHANGED <<key_to_id, next_id, up>>

\* i is the position MessageQueue::receive selects.
Selects(ms, typ, except, i) ==
  /\ i \in DOMAIN ms
  /\ \/ typ = 0 /\ i = 1
     \/ /\ typ > 0 /\ (ms[i].mtype = typ) # except
        /\ \A j \in 1 .. i - 1 : (ms[j].mtype = typ) = except
     \/ /\ typ < 0 /\ ms[i].mtype <= -typ /\ ms[i].mtype < I64Max
        /\ \A j \in DOMAIN ms : ms[j].mtype >= ms[i].mtype
        /\ \A j \in 1 .. i - 1 : ms[j].mtype # ms[i].mtype

\* ms without position i (VecDeque::remove).
Without(ms, i) == [j \in 1 .. Len(ms) - 1 |-> IF j < i THEN ms[j] ELSE ms[j + 1]]

\* MessageQueue::receive without MSG_COPY; the subtraction wraps round.
Removed(q, i) ==
  [q EXCEPT !.messages = Without(@, i), !.qnum = Len(q.messages) - 1,
            !.total_bytes = (@ - q.messages[i].size) % Word]

Received(u, g, id, typ, except, i) ==
  up /\ May(queues[id], u, g, ReadBits) /\ Selects(queues[id].messages, typ, except, i)

\* sys_msgrcv of a message that fits or may be truncated.
Msgrcv(u, g, id, typ, except, noerror, msgsz) ==
  \E i \in DOMAIN queues[id].messages :
    LET m == queues[id].messages[i]
    IN /\ Received(u, g, id, typ, except, i)
       /\ noerror \/ m.size <= msgsz
       /\ queues' = [queues EXCEPT ![id] =
            [Removed(queues[id], i) EXCEPT !.got = [@ EXCEPT ![m.mtype] = m.stamp]]]
       /\ UNCHANGED <<key_to_id, next_id, stamp, up>>

\* Mutant: a message too big goes to the back of the queue.
PutBack_Last(q, i, copy) ==
  LET r == IF copy THEN q ELSE Removed(q, i)
  IN [r EXCEPT !.messages = Append(@, q.messages[i])]

\* Mutant: a message too big is not put back.
PutBack_Never(q, i, copy) == IF copy THEN q ELSE Removed(q, i)

\* sys_msgrcv of a message that is too big: it is put back at the front, the
\* counts stay as receive left them, and a copy is put there as well.
PutBack(q, i, copy) ==
  LET r == IF copy THEN q ELSE Removed(q, i)
  IN [r EXCEPT !.messages = <<q.messages[i]>> \o @]

MsgrcvTooBig(u, g, id, typ, except, copy, msgsz) ==
  \E i \in DOMAIN queues[id].messages :
    /\ Received(u, g, id, typ, except, i)
    /\ queues[id].messages[i].size > msgsz
    /\ copy => Len(queues[id].messages) < MaxLen
    /\ queues' = [queues EXCEPT ![id] = PutBack(queues[id], i, copy)]
    /\ UNCHANGED <<key_to_id, next_id, stamp, up>>

\* The two sums with overflow checks compiled in, as the dev profile has them.
MsgrcvPanic(u, g, id, typ, except) ==
  \E i \in DOMAIN queues[id].messages :
    /\ Received(u, g, id, typ, except, i)
    /\ queues[id].total_bytes < queues[id].messages[i].size
    /\ up' = FALSE /\ UNCHANGED <<queues, key_to_id, next_id, stamp>>

MsgsndPanic(u, g, id, size) ==
  /\ up /\ May(queues[id], u, g, WriteBits)
  /\ queues[id].total_bytes + size >= Word
  /\ up' = FALSE /\ UNCHANGED <<queues, key_to_id, next_id, stamp>>

\* Mutant: a removal that leaves the key behind.
Rmid_KeepsKey(u, id) ==
  /\ up /\ MayControl(queues[id], u)
  /\ queues' = Drop(queues, id)
  /\ UNCHANGED <<key_to_id, next_id, stamp, up>>

\* sys_msgctl, IPC_RMID.
Rmid(u, id) ==
  /\ up /\ MayControl(queues[id], u)
  /\ queues' = Drop(queues, id)
  /\ key_to_id' = IF queues[id].key = IPC_PRIVATE THEN key_to_id ELSE Drop(key_to_id, queues[id].key)
  /\ UNCHANGED <<next_id, stamp, up>>

\* Mutant: an owner may set any limit.
Clamped_Never(n) == n

\* sys_msgctl, IPC_SET.
Clamped(n) == IF n <= 4 * MSGMNB THEN n ELSE 4 * MSGMNB

Set(u, id, owner, group, mode, qbytes) ==
  /\ up /\ MayControl(queues[id], u)
  /\ queues' = [queues EXCEPT ![id] =
       [@ EXCEPT !.uid = owner, !.gid = group, !.mode = mode, !.qbytes = Clamped(qbytes)]]
  /\ UNCHANGED <<key_to_id, next_id, stamp, up>>

Halted == ~up /\ UNCHANGED vars

Typs == {0} \cup MTypes \cup {-t : t \in MTypes}

Calls(u, g) ==
  \/ \E key \in Keys \cup {IPC_PRIVATE}, mode \in Modes : Msgget(u, g, key, mode)
  \/ \E id \in DOMAIN queues :
       \/ \E t \in MTypes, size \in Sizes : Msgsnd(u, g, id, t, size)
       \/ \E typ \in Typs, except \in BOOLEAN :
            \/ \E noerror \in BOOLEAN, msgsz \in Buffers :
                 Msgrcv(u, g, id, typ, except, noerror, msgsz)
            \/ \E copy \in BOOLEAN, msgsz \in Buffers :
                 MsgrcvTooBig(u, g, id, typ, except, copy, msgsz)
            \/ MsgrcvPanic(u, g, id, typ, except)
       \/ \E size \in Sizes : MsgsndPanic(u, g, id, size)
       \/ Rmid(u, id)
       \/ \E owner \in Uids, group \in Gids, mode \in Modes, qbytes \in Limits :
            Set(u, id, owner, group, mode, qbytes)

Next == Halted \/ \E u \in Uids, g \in Gids : Calls(u, g)

Spec == Init /\ [][Next]_vars

-----------------------------------------------------------------------------
\* Types of the table; the byte limit stays within the clamp of IPC_SET and the
\* id counter within one past i32::MAX (alloc_id, sys_msgctl).
TypeOK ==
  /\ DOMAIN queues \subseteq Ids /\ \A id \in DOMAIN queues : queues[id] \in Queues
  /\ DOMAIN key_to_id \subseteq Keys /\ \A k \in DOMAIN key_to_id : key_to_id[k] \in Ids
  /\ next_id \in 1 .. MaxId + 1 /\ stamp \in 0 .. MaxStamp /\ up \in BOOLEAN

\* The key map and the table agree in both directions, through removals,
\* re-creations under the same key and ids that come round again: a key leads
\* to the live queue made under it, and every such queue is found by its key
\* (sys_msgget l.318, sys_msgctl l.522).
KeysIndexed ==
  /\ \A k \in DOMAIN key_to_id :
       key_to_id[k] \in DOMAIN queues /\ queues[key_to_id[k]].key = k
  /\ \A id \in DOMAIN queues :
       queues[id].key = IPC_PRIVATE
         \/ (queues[id].key \in DOMAIN key_to_id /\ key_to_id[queues[id].key] = id)

\* Message i of q waits behind no later one of its type, and none was received.
InOrder(q, i, n) ==
  LET m == q.messages[i]
  IN /\ q.got[m.mtype] <= m.stamp /\ m.stamp <= n
     /\ \A j \in DOMAIN q.messages :
          j < i /\ q.messages[j].mtype = m.mtype => q.messages[j].stamp <= m.stamp

\* Messages of one type are received in the order they were sent, whatever
\* selection the receivers use and although a message too big for its buffer
\* goes back to the front of the queue instead of its place (sys_msgrcv l.466):
\* what waits was never overtaken by one of its type.
SendOrder ==
  \A id \in DOMAIN queues :
    \A i \in DOMAIN queues[id].messages : InOrder(queues[id], i, stamp)

\* A message leaves a queue that stays only by being handed to a receiver:
\* never by a receive that answers E2BIG, a send or a change of settings.
LeavesByDelivery ==
  [][\A id \in DOMAIN queues \cap DOMAIN queues' :
       \A i \in DOMAIN queues[id].messages :
         LET m == queues[id].messages[i]
         IN \/ \E j \in DOMAIN queues'[id].messages : queues'[id].messages[j] = m
            \/ queues'[id].got[m.mtype] = m.stamp]_vars

\* The counts that IPC_STAT reports and has_space trusts are those of the
\* messages in the queue ("Total bytes in queue", msg.rs l.137).
BytesCounted ==
  \A id \in DOMAIN queues :
    LET ms == queues[id].messages
        bytes[n \in 0 .. Len(ms)] == IF n = 0 THEN 0 ELSE bytes[n - 1] + ms[n].size
    IN queues[id].total_bytes = bytes[Len(ms)] /\ queues[id].qnum = Len(ms)

=============================================================================
