------------------------------- MODULE Sched --------------------------------
(***************************************************************************)
(* The scheduler of kernel/src/sched/mod.rs: task states, the run queue,   *)
(* the CFS queue, the timer tick, fork, clone, exit, exit_group, wait and  *)
(* signals, on the one CPU that schedules.                                 *)
(*                                                                         *)
(* A system call runs with interrupts disabled, so it is one step up to    *)
(* the delivery of signals on its way out; wait is the exception, it halts *)
(* with interrupts enabled and looks again after every tick.  The order in *)
(* which CFS hands out entries (by vruntime) and the length of a slice are *)
(* left open here.                                                         *)
(***************************************************************************)
EXTENDS Integers, Sequences, FiniteSets, FiniteSetsExt, SequencesExt

CONSTANTS MaxId,        \* bound: ids 0 .. MaxId are ever allocated
          Sigs,         \* signal numbers in use, SIGCHLD among them
          Handled,      \* signals for which programs may call sigaction
          Blockable     \* signals that programs may block

SIGINT == 2
SIGCHLD == 17
SIGSTOP == 19
SIGXCPU == 24

ASSUME SchedAssumption ==
  /\ MaxId \in Nat /\ MaxId >= 2
  /\ SIGCHLD \in Sigs /\ Sigs \subseteq {SIGINT, SIGCHLD, SIGSTOP, SIGXCPU}
  /\ Handled \subseteq Sigs \ {SIGSTOP} /\ Blockable \subseteq Sigs \ {SIGSTOP}

VARIABLES task,         \* the Task objects, by id
          runq,         \* Scheduler.runq
          cfs,          \* Scheduler.cfs_rq: number of entries per task id
          current,      \* Scheduler.current
          next_id,      \* NEXT_ID
          mode          \* "up", or how the machine stopped

vars == <<task, runq, cfs, current, next_id, mode>>

Ids == 0 .. MaxId
Idle == 0
InitPid == 1
Kthread == 2
IsUser(i) == i \notin {Idle, Kthread}
Nice(i) == CASE i = Idle -> 19 [] i = Kthread -> -5 [] OTHER -> 0

States == {"none", "Ready", "Running", "Blocked", "Zombie", "Exited"}

\* signal::default_action.
DefaultAction(s) ==
  CASE s \in {SIGINT, SIGXCPU} -> "Terminate" [] s = SIGSTOP -> "Stop" [] OTHER -> "Ignore"

NewTask(state, parent, tgid) ==
  [state |-> state, parent |-> parent, tgid |-> tgid, saved |-> TRUE,
   pend |-> {}, mask |-> {}, disp |-> [s \in Sigs |-> "dfl"], pc |-> "user",
   want |-> {}]

\* The machine once boot has spawned the test kernel thread and init.
Init ==
  /\ task = [i \in Ids |->
       CASE i = Idle    -> [NewTask("Running", 0, 0) EXCEPT !.saved = FALSE]
         [] i = InitPid -> NewTask("Ready", 0, InitPid)
         [] i = Kthread -> NewTask("Ready", 0, Kthread)
         [] OTHER       -> NewTask("none", 0, 0)]
  /\ runq = <<Kthread, InitPid>>
  /\ cfs = [i \in Ids |-> IF i = InitPid THEN 1 ELSE 0]
  /\ current = Idle
  /\ next_id = 3
  /\ mode = "up"

-----------------------------------------------------------------------------
(* Queue helpers, on explicit task tables and queues.                      *)

\* q without its Exited tasks, in its order (a retain or a drained VecDeque).
Retained(q, T) ==
  LET kept[k \in 0 .. Len(q)] ==
        IF k = 0 THEN <<>>
        ELSE IF T[q[k]].state = "Exited" THEN kept[k - 1]
             ELSE Append(kept[k - 1], q[k])
  IN  kept[Len(q)]

\* The index of the first Ready task of least nice value, 0 if there is none.
BestIndex(q, T) ==
  LET ready == {k \in DOMAIN q : T[q[k]].state = "Ready"}
      least == {k \in ready : \A j \in ready : Nice(q[k]) <= Nice(q[j])}
  IN  IF ready = {} THEN 0 ELSE Min(least)

\* Mutant: the parent is woken even when it is not in the queue.
NotifyChild_Anywhere(T, q, p) ==
  [T EXCEPT ![p].pend = @ \cup {SIGCHLD},
            ![p].state = IF @ = "Blocked" THEN "Ready" ELSE @]

\* SIGCHLD to a task of the queue, and a wake-up if it is blocked.
NotifyChild(T, q, p) ==
  IF p \notin ToSet(q) THEN T
  ELSE [T EXCEPT ![p].pend = @ \cup {SIGCHLD},
                 ![p].state = IF @ = "Blocked" THEN "Ready" ELSE @]

\* SignalState::dequeue hands out the pending signals that are not blocked,
\* lowest number first.
Deliverable(t) == t.pend \ t.mask

\* What the tick's signal loop does with the deliverable signals of t: it
\* drops them up to the first one with a handler, which stays pending, or to
\* the first one whose default action ends or stops the task.
Scan(t) ==
  LET caught == {s \in Deliverable(t) : t.disp[s] = "hnd"}
      seen   == {s \in Deliverable(t) : \A h \in caught : s < h}
      fatal  == {s \in seen : t.disp[s] = "dfl" /\ DefaultAction(s) # "Ignore"}
  IN  IF fatal = {} THEN [act |-> "Run", pend |-> t.pend \ seen]
      ELSE [act |-> DefaultAction(Min(fatal)),
            pend |-> t.pend \ {s \in seen : s <= Min(fatal)}]

-----------------------------------------------------------------------------
(* The timer tick.                                                         *)

\* The tick makes n the current task, or ends it or stops it by a signal and
\* goes back to the interrupted one.
SwitchTo(T, q, n) ==
  LET scan == IF IsUser(n) THEN Scan(T[n]) ELSE [act |-> "Run", pend |-> T[n].pend]
      T1   == [T EXCEPT ![n].pend = scan.pend]
  IN  CASE ~T[n].saved ->
             /\ task' = [T EXCEPT ![n].state = "Running"]
             /\ UNCHANGED current
        [] T[n].saved /\ scan.act = "Run" ->
             /\ task' = [T1 EXCEPT ![n].state = "Running"]
             /\ current' = n
        [] T[n].saved /\ scan.act = "Terminate" ->
             /\ task' = NotifyChild([T1 EXCEPT ![n].state = "Zombie"], q, T[n].parent)
             /\ UNCHANGED current
        [] T[n].saved /\ scan.act = "Stop" ->
             /\ task' = [T1 EXCEPT ![n].state = "Blocked"]
             /\ UNCHANGED current

Preemptible == mode = "up" /\ task[current].pc # "sysret"

\* Mutant: the tick saves the frame of user tasks only.
SaveFrame_UserOnly(T) == [T EXCEPT ![current].saved = @ \/ IsUser(current)]

\* Every tick saves the frame of the task it interrupts.
SaveFrame(T) == [T EXCEPT ![current].saved = TRUE]

\* A tick before the slice is over goes back to the task.
TickKeep ==
  /\ Preemptible
  /\ task' = SaveFrame(task)
  /\ UNCHANGED <<runq, cfs, current, next_id, mode>>

\* Mutant: the current task is queued whatever its state.
Requeue_Always(T) == TRUE

\* Mutant: the current task keeps its state when another is chosen.
Requeue_Never(T) == FALSE

\* The current task goes back into the queues if it is still running.
Requeue(T) == T[current].state = "Running"

\* The task of a CFS entry is looked up among the Ready ones.
FoundReady(q, T, e) == e \in ToSet(q) /\ T[e].state = "Ready"

\* A tick at the end of the slice.
TickSwitch ==
  /\ Preemptible
  /\ LET back == Requeue(task)
         T == [SaveFrame(task) EXCEPT ![current].state = IF back THEN "Ready" ELSE @]
         q == Retained(IF back THEN Append(runq, current) ELSE runq, T)
         c == [cfs EXCEPT ![current] = IF back /\ IsUser(current) THEN @ + 1 ELSE @]
         Pick(k) == runq' = RemoveAt(q, k) /\ SwitchTo(T, runq', q[k])
         Fallback == LET k == BestIndex(q, T) IN
                       IF k = 0 THEN task' = T /\ runq' = q /\ UNCHANGED current
                                ELSE Pick(k)
     IN  \/ /\ \A i \in Ids : c[i] = 0
            /\ cfs' = c
            /\ Fallback
         \/ \E e \in Ids :
              /\ c[e] > 0
              /\ cfs' = [c EXCEPT ![e] = @ - 1]
              /\ IF FoundReady(q, T, e)
                 THEN Pick(CHOOSE k \in DOMAIN q : q[k] = e)
                 ELSE Fallback
  /\ UNCHANGED <<next_id, mode>>

-----------------------------------------------------------------------------
(* System calls of the current task.                                       *)

InUser == mode = "up" /\ IsUser(current) /\ task[current].pc = "user"

\* fork and clone_thread: a Ready copy of the caller in both queues, with its
\* signal mask and dispositions and no pending signal.
Spawn(tgid) ==
  /\ InUser /\ next_id <= MaxId
  /\ task' = [task EXCEPT
       ![next_id] = [NewTask("Ready", current, tgid) EXCEPT
                       !.mask = task[current].mask, !.disp = task[current].disp],
       ![current].pc = "sysret"]
  /\ runq' = Append(runq, next_id)
  /\ cfs' = [cfs EXCEPT ![next_id] = @ + 1]
  /\ next_id' = next_id + 1
  /\ UNCHANGED <<current, mode>>

\* Mutant: a fork takes one id for the task and another for its group.
Fork_TwoIds ==
  /\ InUser /\ next_id <= MaxId
  /\ task' = [task EXCEPT ![next_id] = NewTask("Ready", current, next_id),
                          ![current].pc = "sysret"]
  /\ runq' = Append(runq, next_id)
  /\ next_id' = next_id + 2
  /\ UNCHANGED <<cfs, current, mode>>

Fork == Spawn(next_id)
CloneThread == Spawn(task[current].tgid)

\* sigaction on a signal that can be caught.
Sigaction ==
  /\ InUser
  /\ \E s \in Handled, d \in {"dfl", "ign", "hnd"} :
       task' = [task EXCEPT ![current].disp[s] = d, ![current].pc = "sysret"]
  /\ UNCHANGED <<runq, cfs, current, next_id, mode>>

\* rt_sigprocmask, and the mask that rt_sigreturn takes from the user's frame.
Sigprocmask ==
  /\ InUser
  /\ \E m \in SUBSET Blockable :
       task' = [task EXCEPT ![current].mask = m, ![current].pc = "sysret"]
  /\ UNCHANGED <<runq, cfs, current, next_id, mode>>

Known(i) == i = current \/ i \in ToSet(runq)

\* send_signal: pending, and for SIGINT awake from Blocked.
Sent(T, i, s) ==
  [T EXCEPT ![i].pend = @ \cup {s},
            ![i].state = IF s = SIGINT /\ @ = "Blocked" THEN "Ready" ELSE @]

\* kill and tgkill find the target as current or in the run queue; tgkill
\* (send_signal_to_thread) does not wake it.
Kill ==
  /\ InUser
  /\ \E i \in Ids \ {Idle}, s \in Sigs :
       /\ Known(i)
       /\ \/ task' = [Sent(task, i, s) EXCEPT ![current].pc = "sysret"]
          \/ task' = [task EXCEPT ![i].pend = @ \cup {s}, ![current].pc = "sysret"]
  /\ UNCHANGED <<runq, cfs, current, next_id, mode>>

\* Ctrl+C, in the keyboard interrupt: SIGINT to the foreground task or to the
\* current one, never to init.  Any task may be the foreground one.
CtrlC ==
  /\ Preemptible /\ SIGINT \in Sigs
  /\ \E i \in Ids \ {Idle, InitPid} : Known(i) /\ task' = Sent(task, i, SIGINT)
  /\ UNCHANGED <<runq, cfs, current, next_id, mode>>

\* exit_thread_group marks the queued threads of the group first.
GroupExited(T) ==
  [i \in Ids |-> IF i \in ToSet(runq) /\ T[i].tgid = T[current].tgid
                 THEN [T[i] EXCEPT !.state = "Exited"] ELSE T[i]]

\* The end of the current task as its parent sees it: Zombie and SIGCHLD, or
\* Exited when nobody will wait: no parent, or a queued parent that ignores
\* SIGCHLD or set SA_NOCLDWAIT, which each program may have done or not.
Ended(T, noCldWait) ==
  LET p == T[current].parent
      reap == p = 0 \/ (p \in ToSet(runq) /\ (noCldWait \/ T[p].disp[SIGCHLD] = "ign"))
  IN  IF reap THEN [T EXCEPT ![current].state = "Exited"]
              ELSE NotifyChild([T EXCEPT ![current].state = "Zombie"], runq, p)

\* The queued children go to init, which hears of the zombies among them.
Reparented(T) ==
  LET kids == {i \in ToSet(runq) : T[i].parent = current}
      T1 == [i \in Ids |-> IF i \in kids THEN [T[i] EXCEPT !.parent = InitPid] ELSE T[i]]
  IN  IF \E i \in kids : T[i].state = "Zombie" THEN NotifyChild(T1, runq, InitPid)
                                               ELSE T1

\* exit_current_and_switch: the choice is an index into the queue as it was
\* before the Exited tasks are removed from it.
ExitFrom(T0, noCldWait) ==
  LET T == Reparented(Ended(T0, noCldWait))
      k == BestIndex(runq, T)
      q == Retained(runq, T)
  IN  IF k = 0 \/ k > Len(q)
      THEN /\ task' = T /\ runq' = q /\ mode' = "halt"
           /\ UNCHANGED current
      ELSE /\ task' = [T EXCEPT ![q[k]].state = "Running"]
           /\ runq' = RemoveAt(q, k)
           /\ mode' = IF T[q[k]].saved THEN "up" ELSE "panic"
           /\ current' = q[k]

\* sys_exit_group of a user task.
ExitGroup ==
  /\ InUser
  /\ \E noCldWait \in BOOLEAN : ExitFrom(GroupExited(task), noCldWait)
  /\ UNCHANGED <<cfs, next_id>>

\* sys_exit of one thread, and kthread_exit.  The latter runs with interrupts
\* enabled: a tick between the end of its lock and its switch already finds
\* the chosen task as current, and is TickKeep or TickSwitch after this step.
ExitOne ==
  /\ mode = "up" /\ current # Idle /\ task[current].pc = "user"
  /\ \E noCldWait \in BOOLEAN : ExitFrom(task, noCldWait)
  /\ UNCHANGED <<cfs, next_id>>

\* The queue positions of the zombies a wait for the ids in want can reap.
Zombies(want) ==
  {k \in DOMAIN runq : /\ task[runq[k]].parent = current /\ runq[k] \in want
                       /\ task[runq[k]].state = "Zombie"}

\* waitpid(-1), or the id of one task that was forked.
Wants == {Ids} \cup {{i} : i \in 3 .. MaxId}

HasChildren == \E i \in ToSet(runq) : task[i].parent = current

\* wait_for_child_with_options enters its loop, for any child or for one, and
\* comes back to its head after each interrupt.  It reaps the first matching
\* zombie of the run queue; without a child there it is ECHILD; otherwise the
\* caller is marked Blocked, its frame is forgotten until the next tick, and
\* it halts with interrupts enabled.
Wait ==
  /\ mode = "up" /\ IsUser(current) /\ task[current].pc \in {"user", "wait"}
  /\ \E want \in IF task[current].pc = "wait" THEN {task[current].want} ELSE Wants :
       LET dead == Zombies(want)
           out  == IF task[current].pc = "wait" THEN "sysret_irq" ELSE "sysret"
       IN  \/ /\ dead # {}
              /\ task' = [task EXCEPT ![runq[Min(dead)]].state = "Exited",
                                      ![current].pc = out, ![current].want = {}]
              /\ runq' = RemoveAt(runq, Min(dead))
           \/ /\ ~HasChildren
              /\ task' = [task EXCEPT ![current].pc = out, ![current].want = {}]
              /\ UNCHANGED runq
           \/ /\ dead = {} /\ HasChildren
              /\ task' = [task EXCEPT ![current].state = "Blocked",
                                      ![current].saved = FALSE,
                                      ![current].pc = "wait",
                                      ![current].want = want]
              /\ UNCHANGED runq
  /\ UNCHANGED <<cfs, current, next_id, mode>>

\* waitpid with WNOHANG and no zombie returns at once.
WaitNoHang ==
  /\ InUser /\ HasChildren
  /\ \E want \in Wants : Zombies(want) = {}
  /\ task' = [task EXCEPT ![current].pc = "sysret"]
  /\ UNCHANGED <<runq, cfs, current, next_id, mode>>

\* check_and_deliver_signals on the way out: ignored signals are dropped, a
\* handler is entered, and a signal of default disposition is queued again
\* and dequeued again, with interrupts off.  A handler blocks its signal and
\* its sa_mask, any set, unless SA_NODEFER, and goes back to the default with
\* SA_RESETHAND.  When the signal frame cannot be set up the signal is lost
\* and the loop goes on.
SyscallReturn ==
  /\ mode = "up" /\ task[current].pc \in {"sysret", "sysret_irq"}
  /\ LET t    == task[current]
         live == {s \in Deliverable(t) : t.disp[s] # "ign"}
         first == Min(live)
         rest == t.pend \ {s \in Deliverable(t) : live = {} \/ s < first}
     IN  \/ /\ live = {}
            /\ task' = [task EXCEPT ![current].pend = rest, ![current].pc = "user"]
            /\ UNCHANGED mode
         \/ /\ live # {} /\ t.disp[first] = "hnd"
            /\ \/ \E noDefer, resetHand \in BOOLEAN, sa_mask \in SUBSET Blockable :
                    task' = [task EXCEPT
                      ![current].pend = rest \ {first},
                      ![current].mask = IF noDefer THEN @ ELSE @ \cup {first} \cup sa_mask,
                      ![current].disp[first] = IF resetHand THEN "dfl" ELSE @,
                      ![current].pc = "user"]
               \/ task' = [task EXCEPT ![current].pend = rest \ {first}]
            /\ UNCHANGED mode
         \/ /\ live # {} /\ t.disp[first] = "dfl"
            /\ task' = [task EXCEPT ![current].pend = rest]
            /\ mode' = IF t.pc = "sysret" THEN "hang" ELSE mode
  /\ UNCHANGED <<runq, cfs, current, next_id>>

\* The machine has stopped.
Stopped == mode # "up" /\ UNCHANGED vars

Next ==
  \/ TickKeep \/ TickSwitch
  \/ Fork \/ CloneThread \/ Sigaction \/ Sigprocmask \/ Kill \/ CtrlC \/ ExitGroup \/ ExitOne
  \/ Wait \/ WaitNoHang \/ SyscallReturn \/ Stopped

Spec == Init /\ [][Next]_vars

-----------------------------------------------------------------------------
\* Current and the run queue name tasks that were created, and NEXT_ID counts
\* those without a gap.
Allocated ==
  /\ current < next_id
  /\ \A i \in ToSet(runq) : i < next_id
  /\ \A i \in Ids : task[i].state # "none" <=> i < next_id

\* Types of the scheduler's state, in which every task that is named exists.
TypeOK ==
  /\ task \in [Ids -> [state : States, parent : Ids, tgid : Ids, saved : BOOLEAN,
                       pend : SUBSET Sigs, mask : SUBSET Sigs, disp : [Sigs -> {"dfl", "ign", "hnd"}],
                       pc : {"user", "wait", "sysret", "sysret_irq"},
                       want : SUBSET Ids]]
  /\ runq \in Seq(Ids)
  /\ cfs \in [Ids -> Nat]
  /\ current \in Ids
  /\ next_id \in 3 .. MaxId + 1
  /\ Allocated
  /\ mode \in {"up", "halt", "hang", "panic"}

\* One CPU runs one task: only the current task is ever in state Running.
RunningIsCurrent ==
  \A i \in Ids : task[i].state = "Running" => i = current

\* A task stands at most once in the run queue: two references to it there
\* would let it be resumed twice from one saved frame.
RunqDistinct == IsInjective(runq)

\* The runnable tasks that no queue holds: no tick will find them again.
Stray == {i \in Ids : task[i].state = "Ready" /\ i \notin ToSet(runq)}

\* The step wakes i, the current task, out of Blocked by SIGINT.
WokenBySigint(i) ==
  /\ i = current /\ current' = i
  /\ task[i].state = "Blocked" /\ SIGINT \in task'[i].pend

\* No tick, fork, wait or exit makes a task runnable outside the run queue or
\* drops a runnable one from it.  The one way for a task to get there is
\* send_signal's wake-up: SIGINT reaches the current task while it is Blocked,
\* still in its wait or back from it.
ReadyStaysQueued == [][\A i \in Stray' \ Stray : WokenBySigint(i)]_vars

\* A task the scheduler resumes has a saved frame (the assertion in
\* exit_current_and_switch, and the "BUG" message of the tick); the current
\* one, which may stand in the queue too, gets it from the tick before.
ResumedHasFrame ==
  /\ mode # "panic"
  /\ \A i \in ToSet(runq) \ {current} :
       task[i].state \in {"Ready", "Running"} => task[i].saved

-----------------------------------------------------------------------------
(* What comments in the code say, and the code does not do.                *)

\* The run queue is kept "for blocked/zombie tasks and task lookup": a zombie
\* whose parent lives can be found there by wait.
ZombieIsKnown ==
  \A i \in Ids :
    task[i].state = "Zombie" /\ task[task[i].parent].state \in {"Ready", "Running", "Blocked"}
      => Known(i)
=============================================================================
