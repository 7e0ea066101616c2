-------------------------------- MODULE Sched --------------------------------
(***************************************************************************)
(* The scheduler of src/kernel/task.c with the interrupts that drive it:   *)
(* the 0xF0 vector (int $0xF0, or the LAPIC timer, which lapic_init arms   *)
(* for one shot on the boot CPU) and the PIT tick, which the boot CPU      *)
(* takes.  A step is what one CPU does between two points where another    *)
(* CPU or an interrupt can see a difference.                               *)
(*                                                                         *)
(* A continuation is a stack with what runs on it: one per task slot, and  *)
(* the boot stack of every CPU, which goes on as that CPU's idle task.     *)
(* Slot c holds the idle task of CPU c; wake is wake_tick - ticks, so that *)
(* the tick counter itself is not needed.                                  *)
(***************************************************************************)
EXTENDS Integers, FiniteSets

CONSTANTS
  NCPU, MAX_TASKS,
  NTASKS,         \* tasks created before task_start_bsp, besides the idle ones
  SleepTicks,     \* arguments of task_sleep
  Sleepers, Yielders, Exiters, Creators   \* slots whose code makes these calls

CPU == 0 .. (NCPU - 1)
Slot == 0 .. (MAX_TASKS - 1)
Boot(c) == MAX_TASKS + c
Cont == 0 .. (MAX_TASKS + NCPU - 1)
NULL == -1

ASSUME SchedAssumption ==
  /\ NCPU \in Nat \ {0} /\ MAX_TASKS \in Nat /\ NTASKS \in Nat
  /\ NCPU + NTASKS <= MAX_TASKS
  /\ SleepTicks \subseteq Nat
  /\ Sleepers \cup Yielders \cup Exiters \cup Creators \subseteq Slot \ CPU

VARIABLES
  state, ctx, wake, running_cpu, stack,   \* task_t fields, by slot
  current_task, last_pick,                \* by CPU
  sched_lock, scheduler_active,
  mode,           \* by CPU: in task code, or where in an interrupt handler
  exec,           \* by CPU: the continuation whose stack it is on
  target,         \* by CPU: the stack task_schedule_isr is about to return
  at,             \* by continuation: where it is
  self,           \* by continuation: cpu, then t, of task_trampoline
  ptr,            \* by continuation: cpu, then t, of task_sleep
  timer_armed     \* the one-shot LAPIC timer has not fired yet

task_vars == <<state, ctx, wake, running_cpu, stack>>
cpu_vars == <<current_task, last_pick>>
vars == <<task_vars, cpu_vars, sched_lock, scheduler_active, mode, exec, target,
          at, self, ptr, timer_armed>>

IsIdle(t) == t \in CPU
Allows(t, c) == IsIdle(t) => t = c      \* cpu_affinity: idle tasks are bound, others -1
BSP == 0

-----------------------------------------------------------------------------
(* task_pick_next, task_cleanup, task_find_free. *)

\* Mutant: tasks that run on a CPU count as runnable.
Candidates_Running(st, rc, c) == {t \in Slot : st[t] \in {"READY", "RUNNING"} /\ Allows(t, c)}

Candidates(st, rc, c) == {t \in Slot : st[t] = "READY" /\ rc[t] = NULL /\ Allows(t, c)}

\* How far the scan that starts behind last_pick walks before it meets t.
\* Mutant: the scan starts at slot 0.
Distance_FromZero(c, t) == t

Distance(c, t) == (t - last_pick[c] - 1) % MAX_TASKS

Nearest(c, S) == CHOOSE t \in S : \A u \in S : Distance(c, t) <= Distance(c, u)

task_pick_next(st, rc, c) ==
  LET all == Candidates(st, rc, c)
      busy == {t \in all : ~IsIdle(t)}
  IN  IF busy # {} THEN Nearest(c, busy)
      ELSE IF all # {} THEN Nearest(c, all) ELSE NULL

Zombies == {t \in Slot : state[t] = "ZOMBIE"}

Unused == {t \in Slot : state[t] = "UNUSED"}

-----------------------------------------------------------------------------
(* Boot: task_init, task_create for the first tasks, then every CPU starts. *)

Init ==
  /\ state = [t \in Slot |-> IF t < NCPU + NTASKS THEN "READY" ELSE "UNUSED"]
  /\ ctx = [t \in Slot |-> t]
  /\ wake = [t \in Slot |-> 0]
  /\ running_cpu = [t \in Slot |-> NULL]
  /\ stack = [t \in Slot |-> t < NCPU + NTASKS]
  /\ current_task = [c \in CPU |-> NULL] /\ last_pick = [c \in CPU |-> -1]
  /\ sched_lock = FALSE /\ scheduler_active = FALSE
  /\ mode = [c \in CPU |-> "task"] /\ exec = [c \in CPU |-> Boot(c)]
  /\ target = [c \in CPU |-> NULL]
  /\ at = [k \in Cont |-> IF k \in Slot THEN "start" ELSE "boot"]
  /\ self = [k \in Cont |-> NULL] /\ ptr = [k \in Cont |-> NULL]
  /\ timer_armed = TRUE

InTask(c) == mode[c] = "task"
Here(c, where) == InTask(c) /\ at[exec[c]] = where
GoTo(c, where) == at' = [at EXCEPT ![exec[c]] = where]

\* task_start_bsp and task_start_ap: take the idle slot without the lock.
Start(c) ==
  /\ Here(c, "boot")
  /\ current_task' = [current_task EXCEPT ![c] = c]
  /\ state' = [state EXCEPT ![c] = "RUNNING"]
  /\ running_cpu' = [running_cpu EXCEPT ![c] = c]
  /\ scheduler_active' = TRUE
  /\ GoTo(c, "yield_halt")
  /\ UNCHANGED <<ctx, wake, stack, last_pick, sched_lock, mode, exec, target, self, ptr, timer_armed>>

-----------------------------------------------------------------------------
(* What task code does.  Interrupts are enabled all along. *)

other_vars == <<sched_lock, scheduler_active, mode, exec, target, timer_armed>>

\* The trampoline looks its task up, cpu_index() first, and calls its entry; idle
\* entries halt.
EnterIndex(c) ==
  /\ Here(c, "start")
  /\ self' = [self EXCEPT ![exec[c]] = c]
  /\ GoTo(c, "enter")
  /\ UNCHANGED <<task_vars, cpu_vars, ptr, other_vars>>

Enter(c) ==
  LET k == exec[c]
      t == current_task[self[k]]
  IN  /\ Here(c, "enter")
      /\ self' = [self EXCEPT ![k] = t]
      /\ GoTo(c, IF t = NULL \/ IsIdle(t) THEN "halt" ELSE "run")
      /\ UNCHANGED <<task_vars, cpu_vars, ptr, other_vars>>

\* A task's next call: task_sleep starts by reading cpu_index().
CallSleep(c) ==
  /\ Here(c, "run") /\ exec[c] \in Sleepers
  /\ ptr' = [ptr EXCEPT ![exec[c]] = c]
  /\ GoTo(c, "sleep_read")
  /\ UNCHANGED <<task_vars, cpu_vars, self, other_vars>>

CallYield(c) ==
  /\ Here(c, "run") /\ exec[c] \in Yielders
  /\ GoTo(c, "yield_run")
  /\ UNCHANGED <<task_vars, cpu_vars, self, ptr, other_vars>>

CallCreate(c) ==
  /\ Here(c, "run") /\ exec[c] \in Creators
  /\ GoTo(c, "create_lock")
  /\ UNCHANGED <<task_vars, cpu_vars, self, ptr, other_vars>>

EntryReturns(c) ==
  /\ Here(c, "run") /\ exec[c] \in Exiters
  /\ GoTo(c, "exit_lock")
  /\ UNCHANGED <<task_vars, cpu_vars, self, ptr, other_vars>>

\* t = current_task[cpu], with the index read one step earlier.
SleepRead(c) ==
  LET k == exec[c]
      t == current_task[ptr[k]]
  IN  /\ Here(c, "sleep_read")
      /\ ptr' = [ptr EXCEPT ![k] = t]
      /\ GoTo(c, IF t = NULL THEN "run" ELSE "sleep_lock")
      /\ UNCHANGED <<task_vars, cpu_vars, self, other_vars>>

\* spin_lock: spins until the exchange finds the lock open.
Critical(where) == CASE where = "sleep_lock" -> "sleep_crit"
                     [] where = "exit_lock" -> "exit_crit"
                     [] where = "create_lock" -> "create_crit"

Acquire(c) ==
  /\ InTask(c) /\ at[exec[c]] \in {"sleep_lock", "exit_lock", "create_lock"}
  /\ ~sched_lock
  /\ sched_lock' = TRUE
  /\ GoTo(c, Critical(at[exec[c]]))
  /\ UNCHANGED <<task_vars, cpu_vars, self, ptr, scheduler_active, mode, exec, target, timer_armed>>

Release(c, where) ==
  /\ sched_lock' = FALSE
  /\ GoTo(c, where)
  /\ UNCHANGED <<cpu_vars, self, ptr, scheduler_active, mode, exec, target, timer_armed>>

SleepBody(c) ==
  LET t == ptr[exec[c]]
  IN  /\ Here(c, "sleep_crit")
      /\ state' = [state EXCEPT ![t] = "SLEEPING"]
      /\ \E n \in SleepTicks : wake' = [wake EXCEPT ![t] = n]
      /\ running_cpu' = [running_cpu EXCEPT ![t] = NULL]
      /\ UNCHANGED <<ctx, stack>>
      /\ Release(c, "yield_slept")

\* Mutant: the task frees the stack it is on.
ExitBody_FreesStack(c) ==
  /\ Here(c, "exit_crit")
  /\ state' = [state EXCEPT ![self[exec[c]]] = "ZOMBIE"]
  /\ running_cpu' = [running_cpu EXCEPT ![self[exec[c]]] = NULL]
  /\ stack' = [stack EXCEPT ![self[exec[c]]] = FALSE]
  /\ UNCHANGED <<ctx, wake>>
  /\ Release(c, "yield_halt")

ExitBody(c) ==
  LET t == self[exec[c]]
  IN  /\ Here(c, "exit_crit")
      /\ state' = [state EXCEPT ![t] = "ZOMBIE"]
      /\ running_cpu' = [running_cpu EXCEPT ![t] = NULL]
      /\ UNCHANGED <<ctx, wake, stack>>
      /\ Release(c, "yield_halt")

\* task_create_affinity: the first unused slot, if there is one and malloc gives a stack.
CreateBody(c) ==
  LET idx == CHOOSE t \in Unused : \A u \in Unused : t <= u
  IN  /\ Here(c, "create_crit")
      /\ \/ /\ Unused # {}
            /\ state' = [state EXCEPT ![idx] = "READY"]
            /\ stack' = [stack EXCEPT ![idx] = TRUE]
            /\ wake' = [wake EXCEPT ![idx] = 0]
            /\ running_cpu' = [running_cpu EXCEPT ![idx] = NULL]
            /\ ctx' = [ctx EXCEPT ![idx] = idx]
            /\ at' = [at EXCEPT ![idx] = "start", ![exec[c]] = "run"]
         \/ UNCHANGED task_vars /\ GoTo(c, "run")
      /\ sched_lock' = FALSE
      /\ UNCHANGED <<cpu_vars, self, ptr, scheduler_active, mode, exec, target, timer_armed>>

SleepReturns(c) ==
  /\ Here(c, "slept")
  /\ GoTo(c, "run")
  /\ UNCHANGED <<task_vars, cpu_vars, self, ptr, other_vars>>

\* task_yield: int $0xF0 once the scheduler is active.
AfterYield(where) == CASE where = "yield_run" -> "run"
                       [] where = "yield_slept" -> "slept"
                       [] where = "yield_halt" -> "halt"

task_yield(c) ==
  /\ InTask(c) /\ at[exec[c]] \in {"yield_run", "yield_slept", "yield_halt"}
  /\ mode' = [mode EXCEPT ![c] = IF scheduler_active THEN "isr" ELSE "task"]
  /\ GoTo(c, AfterYield(at[exec[c]]))
  /\ UNCHANGED <<task_vars, cpu_vars, self, ptr, sched_lock, scheduler_active, exec, target, timer_armed>>

-----------------------------------------------------------------------------
(* Interrupt handlers: interrupt gates, so nothing else happens on that CPU. *)

\* Mutant: the handlers go on without the lock.
TryLock_Ignored == scheduler_active

\* spin_try_lock, tried only when the scheduler is active.
TryLock == scheduler_active /\ ~sched_lock

InHandler(c, m) == mode' = [mode EXCEPT ![c] = m]
local_vars == <<at, self, ptr>>

\* The LAPIC timer: lapic_init leaves vector 0xF0 armed once, on the boot CPU.
TimerFires ==
  /\ InTask(BSP) /\ timer_armed
  /\ timer_armed' = FALSE
  /\ InHandler(BSP, "isr")
  /\ UNCHANGED <<task_vars, cpu_vars, sched_lock, scheduler_active, exec, target, local_vars>>

\* The PIT: timer_handler counts, task_tick tries the lock and gives up if it is taken.
Tick ==
  /\ InTask(BSP)
  /\ wake' = [t \in Slot |-> IF wake[t] > 0 THEN wake[t] - 1 ELSE 0]
  /\ sched_lock' = (sched_lock \/ TryLock)
  /\ InHandler(BSP, IF TryLock THEN "tick" ELSE "task")
  /\ UNCHANGED <<state, ctx, running_cpu, stack, cpu_vars, scheduler_active, exec, target, local_vars,
                 timer_armed>>

\* Mutants: every sleeper is due; the state is not looked at.
Due_Early == {t \in Slot : state[t] = "SLEEPING"}
Due_AnyState == {t \in Slot : state[t] \in {"SLEEPING", "RUNNING"} /\ wake[t] = 0}

Due == {t \in Slot : state[t] = "SLEEPING" /\ wake[t] = 0}

\* Mutant: spin_unlock is forgotten.
TickBody_KeepsLock ==
  /\ mode[BSP] = "tick"
  /\ state' = [t \in Slot |-> IF t \in Due THEN "READY" ELSE state[t]]
  /\ InHandler(BSP, "task")
  /\ UNCHANGED <<ctx, wake, running_cpu, stack, cpu_vars, sched_lock, scheduler_active, exec, target,
                 local_vars, timer_armed>>

TickBody ==
  /\ mode[BSP] = "tick"
  /\ state' = [t \in Slot |-> IF t \in Due THEN "READY" ELSE state[t]]
  /\ sched_lock' = FALSE
  /\ InHandler(BSP, "task")
  /\ UNCHANGED <<ctx, wake, running_cpu, stack, cpu_vars, scheduler_active, exec, target, local_vars,
                 timer_armed>>

\* task_schedule_isr up to spin_try_lock: without the lock the interrupted code goes on.
IsrTryLock(c) ==
  /\ mode[c] = "isr"
  /\ sched_lock' = (sched_lock \/ TryLock)
  /\ InHandler(c, IF TryLock THEN "pick" ELSE "task")
  /\ UNCHANGED <<task_vars, cpu_vars, scheduler_active, exec, target, local_vars, timer_armed>>

\* Mutant: the task that is switched out stays RUNNING.
Preempted_Stays(st, prev) == {}

\* The task that was running, which task_schedule_isr makes READY again.
Preempted(st, prev) == {t \in Slot : t = prev /\ st[t] = "RUNNING"}

\* Mutant: current_task is not updated.
NewCurrent_Old(prev, next) == prev

NewCurrent(prev, next) == IF next = NULL THEN prev ELSE next

NewLastPick(c, next) == IF next = NULL THEN last_pick[c] ELSE next

\* The body of task_schedule_isr, to its spin_unlock.
IsrSchedule(c) ==
  LET prev == current_task[c]
      cleaned == [t \in Slot |-> IF t \in Zombies THEN "UNUSED" ELSE state[t]]
      preempted == Preempted(cleaned, prev)
      st == [t \in Slot |-> IF t \in preempted THEN "READY" ELSE cleaned[t]]
      rc == [t \in Slot |-> IF t \in preempted \cup Zombies THEN NULL ELSE running_cpu[t]]
      next == task_pick_next(st, rc, c)
      now == IF next = NULL THEN prev ELSE next
  IN  /\ mode[c] = "pick"
      /\ stack' = [t \in Slot |-> stack[t] /\ t \notin Zombies]
      /\ ctx' = [t \in Slot |-> IF t = prev THEN exec[c] ELSE ctx[t]]
      /\ state' = [t \in Slot |-> IF t = now THEN "RUNNING" ELSE st[t]]
      /\ running_cpu' = [t \in Slot |-> IF t = now THEN c ELSE rc[t]]
      /\ current_task' = [current_task EXCEPT ![c] = NewCurrent(prev, next)]
      /\ last_pick' = [last_pick EXCEPT ![c] = NewLastPick(c, next)]
      /\ target' = [target EXCEPT ![c] = IF next = NULL THEN exec[c] ELSE ctx'[next]]
      /\ sched_lock' = FALSE
      /\ InHandler(c, "switch")
      /\ UNCHANGED <<wake, scheduler_active, exec, local_vars, timer_armed>>

\* isr_vector_0xf0 loads the stack it was given and returns from the interrupt.
IsrReturn(c) ==
  /\ mode[c] = "switch"
  /\ exec' = [exec EXCEPT ![c] = target[c]]
  /\ target' = [target EXCEPT ![c] = NULL]
  /\ InHandler(c, "task")
  /\ UNCHANGED <<task_vars, cpu_vars, sched_lock, scheduler_active, local_vars, timer_armed>>

-----------------------------------------------------------------------------
TaskStep(c) ==
  \/ Start(c)
  \/ EnterIndex(c)
  \/ Enter(c)
  \/ CallSleep(c)
  \/ CallYield(c)
  \/ CallCreate(c)
  \/ EntryReturns(c)
  \/ SleepRead(c)
  \/ Acquire(c)
  \/ SleepBody(c)
  \/ ExitBody(c)
  \/ CreateBody(c)
  \/ SleepReturns(c)
  \/ task_yield(c)

HandlerStep(c) ==
  \/ IsrTryLock(c)
  \/ IsrSchedule(c)
  \/ IsrReturn(c)

CpuStep(c) == TaskStep(c) \/ HandlerStep(c)

Next ==
  \/ \E c \in CPU : CpuStep(c)
  \/ TimerFires
  \/ Tick
  \/ TickBody

Spec == Init /\ [][Next]_vars

\* Handlers run to their end; the PIC keeps a tick until interrupts are enabled; the
\* code between two ticks advances.  The two are strong: each makes the other
\* impossible for a moment, again and again.
FairSpec ==
  /\ Spec
  /\ \A c \in CPU : SF_vars(TaskStep(c)) /\ WF_vars(HandlerStep(c))
  /\ SF_vars(Tick) /\ WF_vars(TickBody)

-----------------------------------------------------------------------------
(* Properties. *)

HoldsLock(c) == \/ mode[c] \in {"pick", "tick"}
                \/ /\ mode[c] \in {"task", "isr"}
                   /\ at[exec[c]] \in {"sleep_crit", "exit_crit", "create_crit"}

\* sched_lock is taken exactly while one CPU is inside a section it protects, though
\* ticks and 0xF0 interrupts arrive inside those sections (spin_lock does not
\* disable interrupts).
LockExclusive ==
  /\ sched_lock = (\E c \in CPU : HoldsLock(c))
  /\ \A c, d \in CPU : HoldsLock(c) /\ HoldsLock(d) => c = d

\* With one CPU, task code runs on the stack of the task current_task names (the boot
\* stack standing in for the idle task), so the next task_schedule_isr saves the
\* interrupted context in the task it belongs to; never on a stack task_cleanup has
\* freed; and, but on its way into or out of task_sleep or task_trampoline, as RUNNING.
OwnStack ==
  \A c \in CPU : InTask(c) =>
    /\ \/ exec[c] = current_task[c]
       \/ exec[c] = Boot(c) /\ current_task[c] \in {NULL, c}
    /\ exec[c] \in Slot => stack[exec[c]]
    /\ at[exec[c]] \in {"run", "slept", "sleep_read", "sleep_lock"} => state[current_task[c]] = "RUNNING"

\* cpu_affinity binds idle tasks: no CPU ever runs another CPU's idle task or boot stack.
IdleStaysHome ==
  \A c, d \in CPU : exec[c] \in {d, Boot(d)} => c = d

\* A task marked RUNNING is the current task of the CPU its running_cpu names.
RunningIsCurrent ==
  \A t \in Slot : state[t] = "RUNNING" => running_cpu[t] \in CPU /\ current_task[running_cpu[t]] = t

\* With one CPU, task_sleep(n) does not return before n ticks have passed.
SleepHonoured ==
  \A c \in CPU : Here(c, "slept") => wake[ptr[exec[c]]] = 0

\* No two processors are ever in a section of sched_lock, run each other's idle task,
\* or disagree on where a RUNNING task runs.
ProcessorsApart == LockExclusive /\ IdleStaysHome /\ RunningIsCurrent

Uses(c) == {exec[c], target[c]} \ {NULL}
SharesStack(c, d) == c # d /\ Uses(c) \cap Uses(d) # {}

\* What two processors on one stack do to it is not modelled: checks and proofs stop there.
StacksApart == \A c, d \in CPU : ~SharesStack(c, d)

\* task_schedule_isr gives out a stack another CPU is on only where its task left too
\* early: the task calls task_sleep, or its CPU has released the lock in
\* task_schedule_isr and not yet loaded its new stack. (Of tasks that do not exit, and
\* are not put to sleep by another that was moved inside task_sleep, between
\* cpu_index and current_task.)
SharesInWindow ==
  \A c, d \in CPU : SharesStack(c, d)' /\ ~SharesStack(c, d)
    => \A k \in (Uses(c) \cap Uses(d))' : \/ k \in Sleepers
                                          \/ \E e \in {c, d} : mode[e] = "switch" /\ exec[e] = k
SharedOnlyInWindow == [][SharesInWindow]_vars

\* The section of sched_lock always ends.
LockReleased == []<>(~sched_lock)

Runs(t) == \E c \in CPU : InTask(c) /\ exec[c] = t

\* With one CPU, as long as task_schedule_isr keeps being entered, every task runs again
\* and again or is gone: the scan of task_pick_next starts behind the last pick.
RoundRobin ==
  []<>(\E c \in CPU : mode[c] = "pick")
    => \A t \in Slot \ CPU : []<>(Runs(t) \/ state[t] \in {"UNUSED", "ZOMBIE"})

\* The background network task keeps running beside the desktop task.
BackgroundTaskRuns == \A t \in Sleepers : []<>Runs(t)

=============================================================================
