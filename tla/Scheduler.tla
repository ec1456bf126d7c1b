------------------------------ MODULE Scheduler ------------------------------
(***************************************************************************)
(* The task scheduler of src/scheduler.c: a fixed pool of task slots, an   *)
(* intrusive FIFO ready queue threaded through task->next, current_task,   *)
(* and the timer tick that wakes sleepers and preempts the current task.   *)
(*                                                                         *)
(* Every operation is one atomic step: the code runs them with interrupts  *)
(* off (the tick runs inside the timer IRQ) or from the single thread of   *)
(* control, and none of them waits.  schedule() is an operator used by the *)
(* operations that call it, never a step of its own.                       *)
(*                                                                         *)
(* uint32_t fields wrap modulo 2^Width.  Task names, entry points and the  *)
(* saved registers are data no scheduling decision reads and are left out. *)
(***************************************************************************)
EXTENDS Integers, Sequences, FiniteSets

CONSTANTS
  MaxTasks,    \* MAX_TASKS, slots 0 .. MaxTasks - 1
  TimeSlice,   \* the time_slice task_create gives every task
  GraceTicks,  \* scheduler_tick preempts only once system_ticks > GraceTicks
  Width,       \* bits of uint32_t
  SleepTicks,  \* arguments of task_sleep
  MaxTaskId    \* bound on next_task_id, i.e. on the number of task_create

ASSUME MaxTasks \in Nat \ {0} /\ TimeSlice \in Nat \ {0}
ASSUME SleepTicks \subseteq Nat

VARIABLES
  tasks,            \* tasks[MAX_TASKS]: [id, state, time_remaining, sleep_until, next]
  task_queue_head,
  task_queue_tail,
  current_task,
  next_task_id,
  system_ticks,
  sleep_owed        \* history: ticks a task still has to sleep since task_sleep

vars == <<tasks, task_queue_head, task_queue_tail, current_task,
          next_task_id, system_ticks, sleep_owed>>

Slots == 0 .. MaxTasks - 1
NULL == -1
States == {"READY", "RUNNING", "SLEEPING", "TERMINATED"}

U32(x) == x % (2 ^ Width)

(***************************************************************************)
(* The queue and current_task as one record, so that the helpers of       *)
(* scheduler.c compose the way the C calls do.                             *)
(***************************************************************************)
KS == [tasks |-> tasks, head |-> task_queue_head, tail |-> task_queue_tail,
       current |-> current_task]

SetKS(k) ==
  /\ tasks' = k.tasks
  /\ task_queue_head' = k.head
  /\ task_queue_tail' = k.tail
  /\ current_task' = k.current

\* task_queue_add: clear task->next, then link it after the tail.
TaskQueueAdd(k, t) ==
  LET ts == [k.tasks EXCEPT ![t].next = NULL]
  IN  IF k.tail # NULL
      THEN [k EXCEPT !.tasks = [ts EXCEPT ![k.tail].next = t], !.tail = t]
      ELSE [k EXCEPT !.tasks = ts, !.head = t, !.tail = t]

\* task_queue_remove_next: [k |-> the new record, task |-> the head or NULL].
TaskQueueRemoveNext(k) ==
  IF k.head = NULL
  THEN [k |-> k, task |-> NULL]
  ELSE LET t  == k.head
           nh == k.tasks[t].next
       IN  [k |-> [k EXCEPT !.head = nh,
                            !.tail = IF nh = NULL THEN NULL ELSE @,
                            !.tasks = [k.tasks EXCEPT ![t].next = NULL]],
            task |-> t]

\* switch_to_task: bookkeeping only, the CPU state is not switched.
SwitchToTask(k, t) ==
  [k EXCEPT !.tasks[t].state = "RUNNING",
            !.tasks[t].time_remaining = TimeSlice,
            !.current = t]

\* Variant of schedule that installs the next task without demoting a
\* RUNNING current task.
ScheduleNoDemote(k) ==
  LET r == TaskQueueRemoveNext(k)
  IN  IF r.task = NULL THEN k ELSE SwitchToTask(r.k, r.task)

\* schedule: dequeue first; with an empty queue nothing changes.  A RUNNING
\* current task is demoted and re-queued before the switch.
Schedule(k) ==
  LET r  == TaskQueueRemoveNext(k)
      c  == r.k.current
      k1 == IF c # NULL /\ r.k.tasks[c].state = "RUNNING"
            THEN TaskQueueAdd([r.k EXCEPT !.tasks[c].state = "READY",
                                          !.tasks[c].time_remaining = TimeSlice], c)
            ELSE r.k
  IN  IF r.task = NULL THEN k ELSE SwitchToTask(k1, r.task)

\* The wake loop of scheduler_tick, slots in index order from i on.
RECURSIVE WakeFrom(_, _, _)
WakeFrom(k, i, now) ==
  IF i >= MaxTasks THEN k
  ELSE WakeFrom(IF k.tasks[i].state = "SLEEPING" /\ k.tasks[i].sleep_until <= now
                THEN TaskQueueAdd([k EXCEPT !.tasks[i].state = "READY"], i)
                ELSE k,
                i + 1, now)

\* Variant of the slice decrement on a signed counter.
ChargeTickSigned(k, c) == [k EXCEPT !.tasks[c].time_remaining = @ - 1]

\* current_task->time_remaining--, on a uint32_t.
ChargeTick(k, c) == [k EXCEPT !.tasks[c].time_remaining = U32(@ - 1)]

-----------------------------------------------------------------------------
(* scheduler_init, with next_task_id at its static initial value 1.       *)
Init ==
  /\ tasks = [s \in Slots |-> [id |-> 0, state |-> "TERMINATED",
                                time_remaining |-> 0, sleep_until |-> 0,
                                next |-> NULL]]
  /\ task_queue_head = NULL
  /\ task_queue_tail = NULL
  /\ current_task = NULL
  /\ next_task_id = 1
  /\ system_ticks = 0
  /\ sleep_owed = [s \in Slots |-> 0]

(* task_create: the first TERMINATED slot gets a fresh id and is queued.   *)
TaskCreate ==
  LET free == { s \in Slots : tasks[s].state = "TERMINATED" }
      t    == CHOOSE s \in free : \A u \in free : s <= u
      k0   == [KS EXCEPT !.tasks[t] = [@ EXCEPT !.id = next_task_id,
                                               !.state = "READY",
                                               !.time_remaining = TimeSlice,
                                               !.sleep_until = 0]]
  IN  /\ free # {}
      /\ next_task_id < MaxTaskId
      /\ SetKS(TaskQueueAdd(k0, t))
      /\ next_task_id' = U32(next_task_id + 1)
      /\ UNCHANGED <<system_ticks, sleep_owed>>

(* scheduler_tick: count the tick, wake due sleepers, and charge the tick *)
(* to current_task once the grace window is over; an exhausted slice calls *)
(* schedule().                                                             *)
SchedulerTick ==
  LET now == U32(system_ticks + 1)
      k0  == WakeFrom(KS, 0, now)
      c   == k0.current
      k1  == ChargeTick(k0, c)
      k2  == IF c # NULL /\ now > GraceTicks
             THEN IF k1.tasks[c].time_remaining = 0 THEN Schedule(k1) ELSE k1
             ELSE k0
  IN  /\ system_ticks' = now
      /\ SetKS(k2)
      /\ sleep_owed' = [s \in Slots |-> IF sleep_owed[s] > 0 THEN sleep_owed[s] - 1 ELSE 0]
      /\ UNCHANGED next_task_id

(* task_yield, from whatever code is running (a task or the kernel).       *)
TaskYield ==
  /\ SetKS(Schedule(KS))
  /\ UNCHANGED <<next_task_id, system_ticks, sleep_owed>>

(* task_sleep(ticks), a no-op without a current task.                      *)
TaskSleep(n) ==
  LET c == current_task
  IN  /\ c # NULL
      /\ SetKS(Schedule([KS EXCEPT !.tasks[c].state = "SLEEPING",
                                   !.tasks[c].sleep_until = U32(system_ticks + n)]))
      /\ sleep_owed' = [sleep_owed EXCEPT ![c] = n]
      /\ UNCHANGED <<next_task_id, system_ticks>>

(* task_exit, a no-op without a current task.                              *)
TaskExit ==
  LET c == current_task
  IN  /\ c # NULL
      /\ SetKS(Schedule([KS EXCEPT !.tasks[c].state = "TERMINATED",
                                   !.current = NULL]))
      /\ UNCHANGED <<next_task_id, system_ticks, sleep_owed>>

Next ==
  \/ TaskCreate
  \/ SchedulerTick
  \/ TaskYield
  \/ \E n \in SleepTicks : TaskSleep(n)
  \/ TaskExit

(* Spec section 4.3: the timer keeps interrupting, infinitely many ticks. *)
(* This is the spec's assumption, not what src/ does: nothing registers   *)
(* scheduler_tick for IRQ0.  Only the run that checks the spec's round    *)
(* robin claim uses it.  Yield, sleep and exit get no fairness.            *)
Fairness == []<><<SchedulerTick>>_vars

Spec == Init /\ [][Next]_vars /\ Fairness

-----------------------------------------------------------------------------
TypeOK ==
  /\ tasks \in [Slots -> [id : 0 .. MaxTaskId, state : States,
                          time_remaining : 0 .. 2 ^ Width - 1,
                          sleep_until : 0 .. 2 ^ Width - 1,
                          next : Slots \cup {NULL}]]
  /\ task_queue_head \in Slots \cup {NULL}
  /\ task_queue_tail \in Slots \cup {NULL}
  /\ current_task \in Slots \cup {NULL}
  /\ next_task_id \in 1 .. MaxTaskId
  /\ system_ticks \in 0 .. 2 ^ Width - 1
  /\ sleep_owed \in [Slots -> Nat]

(* schedule demotes a RUNNING current_task to READY before              *)
(* switch_to_task installs the next one, and task_sleep / task_exit change *)
(* current_task's state first: so only current_task is ever RUNNING.       *)
RunningIsCurrent ==
  \A t \in Slots : tasks[t].state = "RUNNING" => current_task = t

(* Sleep correctness (spec section 8): task_sleep(k) keeps the caller off *)
(* the ready queue and off the CPU for k ticks.                            *)
SleepRespected ==
  \A t \in Slots : tasks[t].state \in {"READY", "RUNNING"} => sleep_owed[t] = 0

(* scheduler_tick's time_remaining-- never takes a task's remaining slice *)
(* above its time slice, so the timer preempts it within TimeSlice ticks.  *)
TimeSliceBounded ==
  \A t \in Slots : tasks[t].time_remaining <= TimeSlice

\* The ready queue as task_queue_remove_next would hand it out: the slots
\* reached from task_queue_head through ->next.  The walk stops after
\* MaxTasks + 1 slots, so that a cycle shows up as a repeated slot.
RECURSIVE QueueFrom(_, _)
QueueFrom(t, n) ==
  IF t = NULL \/ n = 0 THEN << >> ELSE << t >> \o QueueFrom(tasks[t].next, n - 1)

ReadyQueue == QueueFrom(task_queue_head, MaxTasks + 1)

(* Spec section 2, ReadyQueue: a FIFO of READY tasks, each task in exactly *)
(* one state.  The list from task_queue_head holds no slot twice, ends at  *)
(* task_queue_tail, and holds only READY tasks; every READY task other     *)
(* than current_task is on it.  task_exit and task_sleep change the        *)
(* caller's state without unlinking it, and task_queue_add re-links a task *)
(* without checking that it is already queued.                             *)
ReadyQueueHoldsReady ==
  LET q == ReadyQueue
  IN  /\ \A i, j \in DOMAIN q : i # j => q[i] # q[j]
      /\ task_queue_tail = IF q = << >> THEN NULL ELSE q[Len(q)]
      /\ \A i \in DOMAIN q : tasks[q[i]].state = "READY"
      /\ \A t \in Slots : tasks[t].state = "READY" /\ t # current_task
                          => \E i \in DOMAIN q : q[i] = t

=============================================================================
