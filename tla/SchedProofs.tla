---------------------------- MODULE SchedProofs ----------------------------
(***************************************************************************)
(* What Sched.tla promises for every number of processors, of task slots   *)
(* and of tasks: as long as no two processors are on one stack, sched_lock *)
(* excludes, idle tasks stay home and RUNNING tasks are where they say     *)
(* (ProcessorsApart).  With one processor that is always so, and task code *)
(* runs on the stack of its task (OwnStack) and sleeps as long as it asked *)
(* (SleepHonoured).                                                        *)
(***************************************************************************)
EXTENDS Sched, WellFoundedInduction, TLAPS

Crit == {"sleep_crit", "exit_crit", "create_crit"}
Inside == {"run", "sleep_read", "sleep_lock", "exit_lock", "create_lock", "slept", "yield_run", "yield_slept"} \cup Crit
Places == {"start", "boot", "enter", "halt", "yield_halt"} \cup Inside

TypeOK ==
  /\ state \in [Slot -> {"UNUSED", "READY", "RUNNING", "SLEEPING", "ZOMBIE"}]
  /\ ctx \in [Slot -> Cont] /\ wake \in [Slot -> Nat] /\ running_cpu \in [Slot -> CPU \cup {NULL}]
  /\ stack \in [Slot -> BOOLEAN]
  /\ current_task \in [CPU -> Slot \cup {NULL}] /\ last_pick \in [CPU -> Slot \cup {NULL}]
  /\ sched_lock \in BOOLEAN /\ scheduler_active \in BOOLEAN /\ timer_armed \in BOOLEAN
  /\ mode \in [CPU -> {"task", "isr", "tick", "pick", "switch"}]
  /\ exec \in [CPU -> Cont] /\ target \in [CPU -> Cont \cup {NULL}]
  /\ at \in [Cont -> Places] /\ self \in [Cont -> Slot \cup {NULL}] /\ ptr \in [Cont -> Slot \cup {NULL}]

\* A continuation is that of a task on a CPU.
On(c, k, t) == k = t \/ (k = Boot(c) /\ t \in {NULL, c})

\* Each processor is, or is about to be, on the stack of its current task, and
\* what is saved of a task is a continuation of its own.
Matched ==
  /\ \A c \in CPU : mode[c] # "switch" => On(c, exec[c], current_task[c])
  /\ \A c \in CPU : mode[c] = "switch" => target[c] \in Cont /\ On(c, target[c], current_task[c])
  /\ \A c \in CPU : current_task[c] \in CPU => current_task[c] = c
  /\ \A t \in Slot : ctx[t] = t \/ (t \in CPU /\ ctx[t] = Boot(t))
  /\ \A k \in Cont : at[k] = "boot" => k \notin Slot
  /\ \A k \in Cont : at[k] = "enter" => self[k] \in CPU
  /\ \A k \in Cont : at[k] = "sleep_read" => ptr[k] \in CPU

\* A section of sched_lock that was begun is being gone through.
Entered == \A k \in Cont : at[k] \in Crit => \E c \in CPU : exec[c] = k /\ mode[c] \in {"task", "isr"}

Apart == TypeOK /\ Matched /\ Entered /\ ProcessorsApart

-----------------------------------------------------------------------------
(* Slots, processors and continuations; the scan of task_pick_next. *)

LEMMA Basics ==
  /\ CPU \subseteq Slot /\ Slot \subseteq Cont /\ BSP \in CPU
  /\ NULL \notin Cont /\ NULL \notin Slot /\ NULL \notin CPU
  /\ \A c \in CPU : Boot(c) \in Cont /\ Boot(c) \notin Slot
  /\ \A c, d \in CPU : Boot(c) = Boot(d) => c = d
  BY SchedAssumption DEF CPU, Slot, Cont, NULL, Boot, BSP

\* A set of natural numbers that is not empty has a least one.
LEMMA LeastExists ==
  ASSUME NEW S \in SUBSET Nat, S # {}
  PROVE  \E x \in S : \A y \in S : x <= y
<1> DEFINE R == {ss \in Nat \X Nat : ss[1] < ss[2]}
<1>1. OpToRel(<, Nat) = R
  BY Zenon DEF OpToRel
<1>2. IsWellFoundedOn(R, Nat)
  BY <1>1, NatLessThanWellFounded, Zenon
<1>3. \A x, y \in Nat : y < x => <<y, x>> \in R
  BY Zenon
<1> HIDE DEF R
<1>4. PICK x \in S : \A y \in S : ~(<<y, x>> \in R)
  BY <1>2, WFMin, Zenon
<1>5. \A y \in S : x <= y
  <2> TAKE y \in S
  <2>1. x \in Nat /\ y \in Nat
    BY Zenon
  <2>2. ~(y < x)
    BY <1>3, <1>4, <2>1, Zenon
  <2> QED  BY <2>1, <2>2
<1> QED  BY <1>5, Zenon

\* The scan ends on one of the tasks it may take.
LEMMA NearestIs ==
  ASSUME TypeOK, NEW c \in CPU, NEW S \in SUBSET Slot, S # {}
  PROVE  Nearest(c, S) \in S
<1>1. \A t \in Slot : Distance(c, t) \in Nat
  <2>1. last_pick[c] \in Slot \cup {NULL}
    BY Zenon DEF TypeOK
  <2>2. \A t \in Slot : t - last_pick[c] - 1 \in Int /\ MAX_TASKS > 0
    BY <2>1, SchedAssumption DEF Slot, NULL
  <2> QED  BY <2>2, SchedAssumption DEF Distance
<1> DEFINE D == {Distance(c, t) : t \in S}
<1>2. D \in SUBSET Nat /\ D # {}
  BY <1>1, Zenon
<1>3. PICK x \in D : \A y \in D : x <= y
  BY <1>2, LeastExists, Zenon
<1>4. PICK t \in S : x = Distance(c, t)
  BY <1>3, Zenon
<1>5. \E v \in S : \A u \in S : Distance(c, v) <= Distance(c, u)
  BY <1>3, <1>4, Zenon
<1> QED  BY <1>5, Zenon DEF Nearest

\* What task_pick_next gives is runnable, and there is something if anything is.
LEMMA PickIs ==
  ASSUME TypeOK, NEW c \in CPU, NEW st, NEW rc, NEW n, n = task_pick_next(st, rc, c)
  PROVE  /\ n # NULL => n \in Candidates(st, rc, c)
         /\ n = NULL => Candidates(st, rc, c) = {}
<1> DEFINE all == Candidates(st, rc, c)
           busy == {t \in all : ~IsIdle(t)}
<1>1. all \in SUBSET Slot /\ busy \in SUBSET Slot /\ busy \subseteq all
  BY Zenon DEF Candidates
<1>2. n = IF busy # {} THEN Nearest(c, busy) ELSE IF all # {} THEN Nearest(c, all) ELSE NULL
  BY Zenon DEF task_pick_next
<1> HIDE DEF all, busy
<1>3. CASE busy # {}
  <2>1. n \in busy
    BY <1>1, <1>2, <1>3, NearestIs, Zenon
  <2> QED  BY <1>1, <2>1, Basics, Zenon DEF all
<1>4. CASE busy = {} /\ all # {}
  <2>1. n \in all
    BY <1>1, <1>2, <1>4, NearestIs, Zenon
  <2> QED  BY <1>1, <2>1, Basics, Zenon DEF all
<1>5. CASE busy = {} /\ all = {}
  BY <1>2, <1>5, Zenon DEF all
<1> QED  BY <1>3, <1>4, <1>5, Zenon

-----------------------------------------------------------------------------
(* Each step keeps Apart as long as no two processors are on one stack. *)

\* A step of task code outside the sections of sched_lock, which changes where
\* its continuation is and what it remembers.
LEMMA LocalKeeps ==
  ASSUME Apart, NEW c \in CPU, InTask(c), at[exec[c]] \notin Crit,
         NEW w \in Places \ (Crit \cup {"boot"}), GoTo(c, w),
         NEW m \in {"task", "isr"}, mode' = [mode EXCEPT ![c] = m],
         self' \in [Cont -> Slot \cup {NULL}], ptr' \in [Cont -> Slot \cup {NULL}],
         \A k \in Cont \ {exec[c]} : self'[k] = self[k] /\ ptr'[k] = ptr[k],
         w = "enter" => self'[exec[c]] \in CPU, w = "sleep_read" => ptr'[exec[c]] \in CPU,
         UNCHANGED <<task_vars, cpu_vars, sched_lock, scheduler_active, exec, target, timer_armed>>
  PROVE  Apart'
<1>1. TypeOK'
  BY Zenon DEF Apart, TypeOK, GoTo, task_vars, cpu_vars
<1>2. exec[c] \in Cont /\ at \in [Cont -> Places] /\ mode \in [CPU -> {"task", "isr", "tick", "pick", "switch"}]
  BY Zenon DEF Apart, TypeOK
<1>3. Matched'
  BY <1>2, Basics DEF Apart, Matched, On, GoTo, InTask, task_vars, cpu_vars, Crit
<1>4. Entered'
  BY <1>2 DEF Apart, Entered, GoTo, InTask
<1>5. \A d \in CPU : HoldsLock(d)' = HoldsLock(d)
  BY <1>2 DEF HoldsLock, GoTo, InTask, Crit, Apart, TypeOK
<1>6. LockExclusive'
  BY <1>5, Zenon DEF Apart, ProcessorsApart, LockExclusive
<1>7. IdleStaysHome' /\ RunningIsCurrent'
  BY Zenon DEF Apart, ProcessorsApart, IdleStaysHome, RunningIsCurrent, task_vars, cpu_vars
<1> QED  BY <1>1, <1>3, <1>4, <1>6, <1>7, Zenon DEF Apart, ProcessorsApart


LEMMA TaskCodeKeeps ==
  ASSUME Apart, NEW c \in CPU,
         \/ EnterIndex(c) \/ Enter(c) \/ CallSleep(c) \/ CallYield(c) \/ CallCreate(c)
         \/ EntryReturns(c) \/ SleepRead(c) \/ SleepReturns(c) \/ task_yield(c)
  PROVE  Apart'
<1>0. /\ exec[c] \in Cont /\ mode = [mode EXCEPT ![c] = mode[c]] /\ CPU \subseteq Slot
      /\ self \in [Cont -> Slot \cup {NULL}] /\ ptr \in [Cont -> Slot \cup {NULL}]
      /\ \A d \in CPU : current_task[d] \in Slot \cup {NULL}
  BY Basics, Zenon DEF Apart, TypeOK
<1>1. CASE EnterIndex(c)
  <2>1. InTask(c) /\ GoTo(c, "enter") /\ self' = [self EXCEPT ![exec[c]] = c] /\ mode' = [mode EXCEPT ![c] = "task"]
    BY <1>1, <1>0, Zenon DEF EnterIndex, Here, InTask, other_vars
  <2>2. /\ self' \in [Cont -> Slot \cup {NULL}] /\ self'[exec[c]] \in CPU
        /\ \A k \in Cont \ {exec[c]} : self'[k] = self[k]
    BY <1>0, <2>1, Zenon
  <2>3. /\ at[exec[c]] \notin Crit /\ "enter" \in Places \ (Crit \cup {"boot"})
        /\ ptr' \in [Cont -> Slot \cup {NULL}] /\ ptr' = ptr
        /\ UNCHANGED <<task_vars, cpu_vars, sched_lock, scheduler_active, exec, target, timer_armed>>
    BY <1>0, <1>1, Zenon DEF EnterIndex, Here, other_vars, Crit, Places, Inside
  <2>4. \A k \in Cont \ {exec[c]} : self'[k] = self[k] /\ ptr'[k] = ptr[k]
    BY <2>2, <2>3, Zenon
  <2>5. "enter" = "enter" => self'[exec[c]] \in CPU
    BY <2>2, Zenon
  <2>6. "enter" = "sleep_read" => ptr'[exec[c]] \in CPU
    BY <2>2, Zenon
  <2>7. "task" \in {"task", "isr"}
    BY Zenon
  <2> QED  BY <2>1, <2>2, <2>3, <2>4, <2>5, <2>6, <2>7, LocalKeeps, Zenon
<1>2. CASE Enter(c)
  <2> DEFINE t == current_task[self[exec[c]]]
             w == IF t = NULL \/ IsIdle(t) THEN "halt" ELSE "run"
  <2>1. InTask(c) /\ GoTo(c, w) /\ self' = [self EXCEPT ![exec[c]] = t] /\ mode' = [mode EXCEPT ![c] = "task"]
    BY <1>2, <1>0, Zenon DEF Enter, Here, InTask, other_vars
  <2>2. t \in Slot \cup {NULL}
    BY <1>0, <1>2, Zenon DEF Enter, Here, Apart, Matched
  <2>3. w \in {"halt", "run"}
    BY Zenon
  <2> HIDE DEF t, w
  <2>4. self' \in [Cont -> Slot \cup {NULL}] /\ \A k \in Cont \ {exec[c]} : self'[k] = self[k]
    BY <1>0, <2>1, <2>2, Zenon
  <2> QED  BY <1>0, <1>2, <2>1, <2>3, <2>4, LocalKeeps, Zenon DEF Enter, Here, other_vars, Crit, Places, Inside
<1>3. CASE CallSleep(c)
  <2>1. InTask(c) /\ GoTo(c, "sleep_read") /\ ptr' = [ptr EXCEPT ![exec[c]] = c] /\ mode' = [mode EXCEPT ![c] = "task"]
    BY <1>3, <1>0, Zenon DEF CallSleep, Here, InTask, other_vars
  <2>2. /\ ptr' \in [Cont -> Slot \cup {NULL}] /\ ptr'[exec[c]] \in CPU
        /\ \A k \in Cont \ {exec[c]} : ptr'[k] = ptr[k]
    BY <1>0, <2>1, Zenon
  <2>3. /\ at[exec[c]] \notin Crit /\ "sleep_read" \in Places \ (Crit \cup {"boot"})
        /\ self' \in [Cont -> Slot \cup {NULL}] /\ self' = self
        /\ UNCHANGED <<task_vars, cpu_vars, sched_lock, scheduler_active, exec, target, timer_armed>>
    BY <1>0, <1>3, Zenon DEF CallSleep, Here, other_vars, Crit, Places, Inside
  <2>4. \A k \in Cont \ {exec[c]} : self'[k] = self[k] /\ ptr'[k] = ptr[k]
    BY <2>2, <2>3, Zenon
  <2>5. "sleep_read" = "enter" => self'[exec[c]] \in CPU
    BY <2>2, Zenon
  <2>6. "sleep_read" = "sleep_read" => ptr'[exec[c]] \in CPU
    BY <2>2, Zenon
  <2>7. "task" \in {"task", "isr"}
    OBVIOUS
  <2> QED  BY <2>1, <2>2, <2>3, <2>4, <2>5, <2>6, <2>7, LocalKeeps, Zenon
<1>4. CASE SleepRead(c)
  <2> DEFINE t == current_task[ptr[exec[c]]]
             w == IF t = NULL THEN "run" ELSE "sleep_lock"
  <2>1. InTask(c) /\ GoTo(c, w) /\ ptr' = [ptr EXCEPT ![exec[c]] = t] /\ mode' = [mode EXCEPT ![c] = "task"]
    BY <1>4, <1>0, Zenon DEF SleepRead, Here, InTask, other_vars
  <2>2. t \in Slot \cup {NULL}
    BY <1>0, <1>4, Zenon DEF SleepRead, Here, Apart, Matched
  <2>3. w \in {"run", "sleep_lock"}
    BY Zenon
  <2> HIDE DEF t, w
  <2>4. ptr' \in [Cont -> Slot \cup {NULL}] /\ \A k \in Cont \ {exec[c]} : ptr'[k] = ptr[k]
    BY <1>0, <2>1, <2>2, Zenon
  <2> QED  BY <1>0, <1>4, <2>1, <2>3, <2>4, LocalKeeps, Zenon DEF SleepRead, Here, other_vars, Crit, Places, Inside
<1>5. CASE CallYield(c) \/ CallCreate(c) \/ EntryReturns(c) \/ SleepReturns(c)
  <2>1. PICK w \in {"yield_run", "create_lock", "exit_lock", "run"} : GoTo(c, w)
    BY <1>5, Zenon DEF CallYield, CallCreate, EntryReturns, SleepReturns
  <2>2. /\ InTask(c) /\ mode' = [mode EXCEPT ![c] = "task"] /\ at[exec[c]] \in {"run", "slept"}
        /\ UNCHANGED <<task_vars, cpu_vars, self, ptr, other_vars>>
    BY <1>0, <1>5, Zenon DEF CallYield, CallCreate, EntryReturns, SleepReturns, Here, InTask, other_vars
  <2> QED  BY <1>0, <2>1, <2>2, LocalKeeps, Zenon DEF other_vars, Crit, Places, Inside
<1>6. CASE task_yield(c)
  <2>1. PICK w \in {"run", "slept", "halt"} : GoTo(c, w)
    BY <1>6, Zenon DEF task_yield, AfterYield
  <2>2. PICK m \in {"task", "isr"} : mode' = [mode EXCEPT ![c] = m]
    BY <1>6, Zenon DEF task_yield
  <2> QED  BY <1>0, <1>6, <2>1, <2>2, LocalKeeps, Zenon DEF task_yield, Crit, Places, Inside
<1> QED  BY <1>1, <1>2, <1>3, <1>4, <1>5, <1>6, Zenon

LEMMA StartKeeps ==
  ASSUME Apart, NEW c \in CPU, Start(c)
  PROVE  Apart'
<1>0. /\ exec[c] \in Cont /\ at \in [Cont -> Places] /\ mode \in [CPU -> {"task", "isr", "tick", "pick", "switch"}]
      /\ c \in Slot /\ at[exec[c]] = "boot" /\ mode[c] = "task"
  BY Basics, Zenon DEF Apart, TypeOK, Start, Here, InTask
<1>1. exec[c] = Boot(c) /\ current_task[c] \in {NULL, c}
  <2>1. exec[c] \notin Slot /\ On(c, exec[c], current_task[c]) /\ current_task[c] \in Slot \cup {NULL}
    BY <1>0, Zenon DEF Apart, Matched, TypeOK
  <2>2. exec[c] # current_task[c]
    BY <1>0, <2>1, Basics, Zenon
  <2> QED  BY <2>1, <2>2, Zenon DEF On
<1>2. TypeOK'
  BY <1>0, Zenon DEF Apart, TypeOK, Start, GoTo, Places
<1>3. Matched'
  <2>1. \A d \in CPU : On(d, exec[d], current_task[d]) => On(d, exec[d], current_task'[d])
    BY <1>0, <1>1, Zenon DEF Apart, TypeOK, Start, On
  <2>2. \A d \in CPU : On(d, target[d], current_task[d]) => (mode[d] = "switch" => On(d, target[d], current_task'[d]))
    BY <1>0, Zenon DEF Apart, TypeOK, Start, On
  <2>3. \A k \in Cont : at'[k] \in {"boot", "enter", "sleep_read"} => at'[k] = at[k]
    BY <1>0, Zenon DEF Start, GoTo
  <2> QED  BY <1>0, <2>1, <2>2, <2>3 DEF Apart, Matched, On, Start, TypeOK
<1>4. Entered'
  BY <1>0 DEF Apart, Entered, Start, GoTo, Crit
<1>5. \A d \in CPU : HoldsLock(d)' = HoldsLock(d)
  BY <1>0, Zenon DEF HoldsLock, Start, GoTo, Apart, TypeOK
<1>6. LockExclusive'
  BY <1>5, Zenon DEF Apart, ProcessorsApart, LockExclusive, Start
<1>7. IdleStaysHome'
  BY Zenon DEF Apart, ProcessorsApart, IdleStaysHome, Start
<1>8. RunningIsCurrent'
  BY <1>0, <1>1, Basics DEF Apart, ProcessorsApart, RunningIsCurrent, Start, TypeOK
<1> QED  BY <1>2, <1>3, <1>4, <1>6, <1>7, <1>8, Zenon DEF Apart, ProcessorsApart


\* spin_lock: the section is entered by one processor, because nobody else is on
\* this stack.
LEMMA AcquireKeeps ==
  ASSUME Apart, StacksApart, NEW c \in CPU, Acquire(c)
  PROVE  Apart'
<1>0. /\ exec[c] \in Cont /\ at \in [Cont -> Places] /\ mode[c] = "task" /\ ~sched_lock
      /\ at[exec[c]] \in {"sleep_lock", "exit_lock", "create_lock"}
      /\ UNCHANGED <<task_vars, cpu_vars, self, ptr, scheduler_active, mode, exec, target, timer_armed>>
      /\ sched_lock' = TRUE
  BY Zenon DEF Apart, TypeOK, Acquire, InTask
<1>1. PICK w \in Crit : at' = [at EXCEPT ![exec[c]] = w]
  BY <1>0, Zenon DEF Acquire, GoTo, Critical, Crit
<1>2. TypeOK'
  <2>1. at' \in [Cont -> Places]
    BY <1>0, <1>1, Zenon DEF Places, Inside
  <2> QED  BY <1>0, <2>1, Zenon DEF Apart, TypeOK, task_vars, cpu_vars
<1>3. Matched'
  <2>1. \A k \in Cont : at'[k] \in {"boot", "enter", "sleep_read"} => at'[k] = at[k]
    BY <1>0, <1>1, Zenon DEF Crit
  <2> QED  BY <1>0, <2>1, Zenon DEF Apart, Matched, On, task_vars, cpu_vars
<1>4. Entered'
  BY <1>0, <1>1, Zenon DEF Apart, Entered
<1>5. \A d \in CPU : ~HoldsLock(d)
  BY <1>0, Zenon DEF Apart, ProcessorsApart, LockExclusive
<1>6. \A d \in CPU \ {c} : exec[d] # exec[c]
  BY <1>0, Basics, Zenon DEF StacksApart, SharesStack, Uses
<1>7. \A d \in CPU \ {c} : ~HoldsLock(d)'
  <2> TAKE d \in CPU \ {c}
  <2>1. at'[exec[d]] = at[exec[d]]
    BY <1>1, <1>0, <1>6, Zenon DEF Apart, TypeOK
  <2> QED  BY <1>0, <1>5, <2>1, Zenon DEF HoldsLock
<1>8. HoldsLock(c)'
  BY <1>0, <1>1, Zenon DEF HoldsLock, Crit
<1>9. LockExclusive'
  BY <1>0, <1>7, <1>8, Zenon DEF LockExclusive
<1>10. IdleStaysHome' /\ RunningIsCurrent'
  BY <1>0, Zenon DEF Apart, ProcessorsApart, IdleStaysHome, RunningIsCurrent, task_vars, cpu_vars
<1> QED  BY <1>2, <1>3, <1>4, <1>9, <1>10, Zenon DEF Apart, ProcessorsApart

\* A section of sched_lock up to its spin_unlock: what is left in no section
\* cannot be in one afterwards.
LEMMA SectionKeeps ==
  ASSUME Apart, NEW c \in CPU, InTask(c), at[exec[c]] \in Crit, sched_lock' = FALSE,
         TypeOK', \A k \in Cont : at'[k] \in Crit => at'[k] = at[k] /\ k # exec[c],
         \A k \in Cont : at'[k] \in {"boot", "enter", "sleep_read"} => at'[k] = at[k],
         \A t \in Slot : ctx'[t] \in {t, ctx[t]},
         \A t \in Slot : state'[t] = "RUNNING" => state[t] = "RUNNING" /\ running_cpu'[t] = running_cpu[t],
         UNCHANGED <<cpu_vars, self, ptr, scheduler_active, mode, exec, target, timer_armed>>
  PROVE  Apart'
<1>1. Matched'
  BY DEF Apart, Matched, On, cpu_vars
<1>2. HoldsLock(c) /\ \A d \in CPU : HoldsLock(d) => d = c
  BY Zenon DEF HoldsLock, InTask, Crit, Apart, ProcessorsApart, LockExclusive
<1>3. \A k \in Cont : at'[k] \notin Crit
  <2> SUFFICES ASSUME NEW k \in Cont, at'[k] \in Crit PROVE FALSE
    BY Zenon
  <2>1. at[k] \in Crit /\ k # exec[c]
    BY Zenon
  <2>2. PICK d \in CPU : exec[d] = k /\ mode[d] \in {"task", "isr"}
    BY <2>1, Zenon DEF Apart, Entered
  <2>3. HoldsLock(d)
    BY <2>1, <2>2, Zenon DEF HoldsLock, Crit
  <2> QED  BY <1>2, <2>1, <2>2, <2>3, Zenon
<1>4. Entered'
  BY <1>3, Zenon DEF Entered
<1>5. \A d \in CPU : ~HoldsLock(d)'
  <2> TAKE d \in CPU
  <2>1. exec[d] \in Cont
    BY Zenon DEF Apart, TypeOK
  <2>2. mode[d] \notin {"pick", "tick"}
    BY <1>2, Zenon DEF HoldsLock, InTask
  <2> QED  BY <1>3, <2>1, <2>2, Zenon DEF HoldsLock, Crit
<1>6. LockExclusive'
  BY <1>5, Zenon DEF LockExclusive
<1>7. IdleStaysHome' /\ RunningIsCurrent'
  BY Zenon DEF Apart, ProcessorsApart, IdleStaysHome, RunningIsCurrent, cpu_vars
<1> QED  BY <1>1, <1>4, <1>6, <1>7, Zenon DEF Apart, ProcessorsApart

LEMMA BodiesKeep ==
  ASSUME Apart, NEW c \in CPU, SleepBody(c) \/ ExitBody(c) \/ CreateBody(c)
  PROVE  Apart'
<1>0. /\ exec[c] \in Cont /\ at \in [Cont -> Places] /\ InTask(c) /\ at[exec[c]] \in Crit /\ sched_lock' = FALSE
      /\ UNCHANGED <<cpu_vars, self, ptr, scheduler_active, mode, exec, target, timer_armed>>
  BY Zenon DEF Apart, TypeOK, SleepBody, ExitBody, CreateBody, Here, Release, Crit
<1>1. CASE SleepBody(c) \/ ExitBody(c)
  <2>1. PICK w \in {"yield_slept", "yield_halt"} : at' = [at EXCEPT ![exec[c]] = w]
    BY <1>1, Zenon DEF SleepBody, ExitBody, Release, GoTo
  <2>2. PICK t \in Slot \cup {NULL}, s \in {"SLEEPING", "ZOMBIE"} :
          state' = [state EXCEPT ![t] = s] /\ running_cpu' = [running_cpu EXCEPT ![t] = NULL]
    BY <1>0, <1>1, Zenon DEF SleepBody, ExitBody, Apart, TypeOK
  <2>3. wake' \in [Slot -> Nat] /\ UNCHANGED <<ctx, stack>>
    BY <1>1, SchedAssumption DEF SleepBody, ExitBody, Apart, TypeOK
  <2>4. at' \in [Cont -> Places]
    BY <1>0, <2>1, Zenon DEF Places, Inside
  <2>5. TypeOK'
    BY <1>0, <2>2, <2>3, <2>4, Zenon DEF Apart, TypeOK, cpu_vars
  <2>6. \A t2 \in Slot : state'[t2] = "RUNNING" => state[t2] = "RUNNING" /\ running_cpu'[t2] = running_cpu[t2]
    BY <2>2, Zenon DEF Apart, TypeOK
  <2>7. \A k \in Cont : at'[k] \in Crit \cup {"boot", "enter", "sleep_read"} => at'[k] = at[k] /\ k # exec[c]
    BY <1>0, <2>1, Zenon DEF Crit
  <2> QED  BY <1>0, <2>3, <2>5, <2>6, <2>7, SectionKeeps, Zenon
<1>2. CASE CreateBody(c)
  <2> DEFINE idx == CHOOSE t \in Unused : \A u \in Unused : t <= u
  <2>1. CASE UNCHANGED task_vars /\ GoTo(c, "run")
    <3>1. at' \in [Cont -> Places]
      BY <1>0, <2>1, Zenon DEF GoTo, Places, Inside
    <3>2. TypeOK'
      BY <1>0, <2>1, <3>1, Zenon DEF Apart, TypeOK, cpu_vars, task_vars
    <3>3. \A k \in Cont : at'[k] \in Crit \cup {"boot", "enter", "sleep_read"} => at'[k] = at[k] /\ k # exec[c]
      BY <1>0, <2>1, Zenon DEF GoTo, Crit
    <3> QED  BY <1>0, <2>1, <3>2, <3>3, SectionKeeps, Zenon DEF task_vars
  <2>2. CASE ~(UNCHANGED task_vars /\ GoTo(c, "run"))
    <3>1. /\ Unused # {}
          /\ state' = [state EXCEPT ![idx] = "READY"] /\ stack' = [stack EXCEPT ![idx] = TRUE]
          /\ wake' = [wake EXCEPT ![idx] = 0] /\ running_cpu' = [running_cpu EXCEPT ![idx] = NULL]
          /\ ctx' = [ctx EXCEPT ![idx] = idx]
          /\ at' = [at EXCEPT ![idx] = "start", ![exec[c]] = "run"]
      BY <1>2, <2>2, Zenon DEF CreateBody
    <3>2. idx \in Slot /\ idx \in Cont
      <4>1. Unused \in SUBSET Nat
        BY DEF Unused, Slot
      <4>2. \E t \in Unused : \A u \in Unused : t <= u
        BY <3>1, <4>1, LeastExists, Zenon
      <4>3. idx \in Unused
        BY <4>2, Zenon
      <4> QED  BY <4>3, Basics, Zenon DEF Unused
    <3> HIDE DEF idx
    <3>3. at' \in [Cont -> Places]
      BY <1>0, <3>1, <3>2, Zenon DEF Places, Inside
    <3>4. TypeOK'
      BY <1>0, <3>1, <3>2, <3>3, Basics, Zenon DEF Apart, TypeOK, cpu_vars
    <3>5. \A k \in Cont : at'[k] \in Crit \cup {"boot", "enter", "sleep_read"} => at'[k] = at[k] /\ k # exec[c]
      BY <1>0, <3>1, <3>2, Zenon DEF Crit
    <3>6. \A t \in Slot : state'[t] = "RUNNING" => state[t] = "RUNNING" /\ running_cpu'[t] = running_cpu[t]
      BY <3>1, Zenon DEF Apart, TypeOK
    <3>7. \A t \in Slot : ctx'[t] \in {t, ctx[t]}
      BY <3>1, Zenon DEF Apart, TypeOK
    <3> QED  BY <1>0, <3>4, <3>5, <3>6, <3>7, SectionKeeps, Zenon
  <2> QED  BY <2>1, <2>2, Zenon
<1> QED  BY <1>1, <1>2, Zenon

\* The handlers up to the section they try to enter.
LEMMA HandlersKeep ==
  ASSUME Apart, TimerFires \/ Tick \/ \E c \in CPU : IsrTryLock(c)
  PROVE  Apart'
<1>1. PICK c \in CPU, m \in {"isr", "tick", "pick", "task"} :
        /\ mode' = [mode EXCEPT ![c] = m]
        /\ mode[c] \in {"task", "isr"}
        /\ m \in {"tick", "pick"} => ~sched_lock /\ sched_lock' = TRUE
        /\ m \in {"isr", "task"} => sched_lock' = sched_lock
  <2>1. sched_lock \in BOOLEAN /\ scheduler_active \in BOOLEAN
    BY Zenon DEF Apart, TypeOK
  <2>2. CASE TimerFires
    BY <2>2, Basics, Zenon DEF TimerFires, InTask, InHandler
  <2>3. CASE Tick
    <3>1. CASE TryLock
      BY <2>1, <2>3, <3>1, Basics, Zenon DEF Tick, InTask, InHandler, TryLock
    <3>2. CASE ~TryLock
      BY <2>1, <2>3, <3>2, Basics, Zenon DEF Tick, InTask, InHandler
    <3> QED  BY <3>1, <3>2, Zenon
  <2>4. CASE \E c \in CPU : IsrTryLock(c)
    <3>1. PICK c \in CPU : IsrTryLock(c)
      BY <2>4, Zenon
    <3>2. CASE TryLock
      BY <2>1, <3>1, <3>2, Zenon DEF IsrTryLock, InHandler, TryLock
    <3>3. CASE ~TryLock
      BY <2>1, <3>1, <3>3, Zenon DEF IsrTryLock, InHandler
    <3> QED  BY <3>2, <3>3, Zenon
  <2> QED  BY <2>2, <2>3, <2>4, Zenon
<1>2. UNCHANGED <<state, ctx, running_cpu, stack, cpu_vars, scheduler_active, exec, target, at, self, ptr>>
  BY Zenon DEF TimerFires, Tick, IsrTryLock, task_vars, local_vars
<1>3. wake' \in [Slot -> Nat] /\ timer_armed' \in BOOLEAN /\ sched_lock' \in BOOLEAN
  <2>1. wake \in [Slot -> Nat] /\ timer_armed \in BOOLEAN /\ sched_lock \in BOOLEAN
    BY Zenon DEF Apart, TypeOK
  <2>2. sched_lock' \in BOOLEAN
    BY <1>1, <2>1, Zenon
  <2>3. timer_armed' \in BOOLEAN
    BY <2>1, Zenon DEF TimerFires, Tick, IsrTryLock
  <2>4. [t \in Slot |-> IF wake[t] > 0 THEN wake[t] - 1 ELSE 0] \in [Slot -> Nat]
    BY <2>1
  <2>5. wake' \in [Slot -> Nat]
    BY <2>1, <2>4, Zenon DEF TimerFires, Tick, IsrTryLock, task_vars
  <2> QED  BY <2>2, <2>3, <2>5, Zenon
<1>4. TypeOK'
  BY <1>1, <1>2, <1>3, Zenon DEF Apart, TypeOK, cpu_vars
<1>5. Matched'
  BY <1>1, <1>2 DEF Apart, TypeOK, Matched, On, cpu_vars
<1>6. /\ \A d \in CPU \ {c} : HoldsLock(d)' = HoldsLock(d)
      /\ HoldsLock(c)' = (m \in {"tick", "pick"} \/ HoldsLock(c))
  BY <1>1, <1>2, Zenon DEF HoldsLock, Apart, TypeOK
<1>7. sched_lock = (\E d \in CPU : HoldsLock(d)) /\ \A d, e \in CPU : HoldsLock(d) /\ HoldsLock(e) => d = e
  BY Zenon DEF Apart, ProcessorsApart, LockExclusive
<1>8. LockExclusive'
  <2>1. CASE m \in {"tick", "pick"}
    BY <1>1, <1>6, <1>7, <2>1, Zenon DEF LockExclusive
  <2>2. CASE m \in {"isr", "task"}
    BY <1>1, <1>6, <1>7, <2>2, Zenon DEF LockExclusive
  <2> QED  BY <2>1, <2>2, Zenon
<1>9. Entered'
  <2> SUFFICES ASSUME NEW k \in Cont, at[k] \in Crit PROVE \E d \in CPU : exec[d] = k /\ mode'[d] \in {"task", "isr"}
    BY <1>2, Zenon DEF Entered
  <2>1. PICK d \in CPU : exec[d] = k /\ mode[d] \in {"task", "isr"}
    BY Zenon DEF Apart, Entered
  <2>2. HoldsLock(d) /\ sched_lock
    BY <1>7, <2>1, Zenon DEF HoldsLock, Crit
  <2> QED  BY <1>1, <2>1, <2>2, Zenon DEF Apart, TypeOK
<1>10. IdleStaysHome' /\ RunningIsCurrent'
  BY <1>2, Zenon DEF Apart, ProcessorsApart, IdleStaysHome, RunningIsCurrent, cpu_vars
<1> QED  BY <1>4, <1>5, <1>8, <1>9, <1>10, Zenon DEF Apart, ProcessorsApart

\* A processor in the section of a handler holds the lock alone.
LEMMA HandlerAlone ==
  ASSUME Apart, NEW c \in CPU, mode[c] \in {"pick", "tick"}
  PROVE  /\ \A d \in CPU \ {c} : ~HoldsLock(d)
         /\ \A k \in Cont : at[k] \notin Crit
<1>1. HoldsLock(c) /\ \A d \in CPU : HoldsLock(d) => d = c
  BY Zenon DEF HoldsLock, Apart, ProcessorsApart, LockExclusive
<1>2. \A k \in Cont : at[k] \notin Crit
  <2> SUFFICES ASSUME NEW k \in Cont, at[k] \in Crit PROVE FALSE
    BY Zenon
  <2>1. PICK d \in CPU : exec[d] = k /\ mode[d] \in {"task", "isr"}
    BY Zenon DEF Apart, Entered
  <2>2. HoldsLock(d)
    BY <2>1, Zenon DEF HoldsLock, Crit
  <2> QED  BY <1>1, <2>1, <2>2, Zenon
<1> QED  BY <1>1, <1>2, Zenon

LEMMA TickBodyKeeps ==
  ASSUME Apart, TickBody
  PROVE  Apart'
<1>0. /\ BSP \in CPU /\ mode[BSP] = "tick" /\ sched_lock' = FALSE /\ mode' = [mode EXCEPT ![BSP] = "task"]
      /\ UNCHANGED <<ctx, wake, running_cpu, stack, cpu_vars, scheduler_active, exec, target, local_vars, timer_armed>>
      /\ state' = [t \in Slot |-> IF t \in Due THEN "READY" ELSE state[t]]
  BY Basics, Zenon DEF TickBody, InHandler
<1>1. TypeOK'
  BY <1>0, Zenon DEF Apart, TypeOK, cpu_vars, local_vars
<1>2. Matched'
  BY <1>0 DEF Apart, TypeOK, Matched, On, cpu_vars, local_vars
<1>3. (\A d \in CPU \ {BSP} : ~HoldsLock(d)) /\ \A k \in Cont : at[k] \notin Crit
  BY <1>0, HandlerAlone, Zenon
<1>4. Entered'
  BY <1>0, <1>3, Zenon DEF Entered, local_vars
<1>5. \A d \in CPU : ~HoldsLock(d)'
  BY <1>0, <1>3, Zenon DEF HoldsLock, local_vars, Crit, Apart, TypeOK
<1>6. LockExclusive'
  BY <1>0, <1>5, Zenon DEF LockExclusive
<1>7. IdleStaysHome' /\ RunningIsCurrent'
  BY <1>0, Zenon DEF Apart, ProcessorsApart, IdleStaysHome, RunningIsCurrent, cpu_vars
<1> QED  BY <1>1, <1>2, <1>4, <1>6, <1>7, Zenon DEF Apart, ProcessorsApart

\* The return from the interrupt: nobody is inside a section on the stack that is
\* gone to, because nobody else is on it.
LEMMA ReturnKeeps ==
  ASSUME Apart, StacksApart, NEW c \in CPU, IsrReturn(c)
  PROVE  Apart'
<1>0. /\ mode[c] = "switch" /\ exec' = [exec EXCEPT ![c] = target[c]] /\ target' = [target EXCEPT ![c] = NULL]
      /\ mode' = [mode EXCEPT ![c] = "task"]
      /\ UNCHANGED <<task_vars, cpu_vars, sched_lock, scheduler_active, local_vars, timer_armed>>
  BY Zenon DEF IsrReturn, InHandler
<1>1. target[c] \in Cont /\ On(c, target[c], current_task[c])
  BY <1>0, Zenon DEF Apart, Matched
<1>2. TypeOK'
  BY <1>0, <1>1, Zenon DEF Apart, TypeOK, task_vars, cpu_vars, local_vars
<1>3. Matched'
  BY <1>0, <1>1 DEF Apart, TypeOK, Matched, On, task_vars, cpu_vars, local_vars
<1>4. Entered'
  <2> SUFFICES ASSUME NEW k \in Cont, at[k] \in Crit PROVE \E d \in CPU : exec'[d] = k /\ mode'[d] \in {"task", "isr"}
    BY <1>0, Zenon DEF Entered, local_vars
  <2>1. PICK d \in CPU : exec[d] = k /\ mode[d] \in {"task", "isr"}
    BY Zenon DEF Apart, Entered
  <2> QED  BY <1>0, <2>1, Zenon DEF Apart, TypeOK
<1>5. at[target[c]] \notin Crit
  <2> SUFFICES ASSUME at[target[c]] \in Crit PROVE FALSE
    BY Zenon
  <2>1. PICK d \in CPU : exec[d] = target[c] /\ mode[d] \in {"task", "isr"}
    BY <1>1, Zenon DEF Apart, Entered
  <2>2. d # c /\ target[c] # NULL
    BY <1>0, <1>1, <2>1, Basics, Zenon
  <2>3. target[c] \in Uses(c) /\ target[c] \in Uses(d)
    BY <2>1, <2>2, Zenon DEF Uses
  <2> QED  BY <2>2, <2>3, Zenon DEF StacksApart, SharesStack
<1>6. \A d \in CPU : HoldsLock(d)' = HoldsLock(d)
  BY <1>0, <1>5, Zenon DEF HoldsLock, local_vars, Crit, Apart, TypeOK
<1>7. LockExclusive'
  BY <1>0, <1>6, Zenon DEF Apart, ProcessorsApart, LockExclusive
<1>8. \A d \in CPU : target[c] \in {d, Boot(d)} => c = d
  BY <1>1, Basics DEF On, Apart, Matched, TypeOK
<1>9. IdleStaysHome'
  BY <1>0, <1>8, Zenon DEF Apart, TypeOK, ProcessorsApart, IdleStaysHome
<1>10. RunningIsCurrent'
  BY <1>0, Zenon DEF Apart, ProcessorsApart, RunningIsCurrent, task_vars, cpu_vars
<1> QED  BY <1>2, <1>3, <1>4, <1>7, <1>9, <1>10, Zenon DEF Apart, ProcessorsApart

\* The body of task_schedule_isr: the interrupted context goes to the task it
\* belongs to, and what is chosen is allowed here and runs nowhere else.
LEMMA ScheduleKeeps ==
  ASSUME Apart, NEW c \in CPU, IsrSchedule(c)
  PROVE  Apart'
<1> DEFINE prev == current_task[c]
           cleaned == [t \in Slot |-> IF t \in Zombies THEN "UNUSED" ELSE state[t]]
           preempted == Preempted(cleaned, prev)
           st == [t \in Slot |-> IF t \in preempted THEN "READY" ELSE cleaned[t]]
           rc == [t \in Slot |-> IF t \in preempted \cup Zombies THEN NULL ELSE running_cpu[t]]
           next == task_pick_next(st, rc, c)
           now == IF next = NULL THEN prev ELSE next
<1>0. /\ mode[c] = "pick"
      /\ stack' = [t \in Slot |-> stack[t] /\ t \notin Zombies]
      /\ ctx' = [t \in Slot |-> IF t = prev THEN exec[c] ELSE ctx[t]]
      /\ state' = [t \in Slot |-> IF t = now THEN "RUNNING" ELSE st[t]]
      /\ running_cpu' = [t \in Slot |-> IF t = now THEN c ELSE rc[t]]
      /\ current_task' = [current_task EXCEPT ![c] = now]
      /\ last_pick' = [last_pick EXCEPT ![c] = IF next = NULL THEN last_pick[c] ELSE next]
      /\ target' = [target EXCEPT ![c] = IF next = NULL THEN exec[c] ELSE ctx'[next]]
      /\ sched_lock' = FALSE
      /\ mode' = [mode EXCEPT ![c] = "switch"]
      /\ UNCHANGED <<wake, scheduler_active, exec, local_vars, timer_armed>>
  BY Zenon DEF IsrSchedule, InHandler, NewCurrent, NewLastPick
<1>1. TypeOK /\ c \in Slot
  BY Basics, Zenon DEF Apart
<1>2. next \in Slot \cup {NULL} /\ (next # NULL => Allows(next, c))
  BY <1>1, PickIs, Zenon DEF Candidates
<1>3. prev \in Slot \cup {NULL} /\ exec[c] \in Cont /\ On(c, exec[c], prev) /\ (prev \in CPU => prev = c)
  BY <1>0, <1>1 DEF TypeOK, Apart, Matched
<1>4. \A t \in Slot : st[t] \in {"UNUSED", "READY", "RUNNING", "SLEEPING", "ZOMBIE"} /\ rc[t] \in CPU \cup {NULL}
  BY <1>1, Zenon DEF TypeOK
<1>5. \A t \in Slot : st[t] = "RUNNING" => state[t] = "RUNNING" /\ rc[t] = running_cpu[t] /\ t # prev
  BY <1>1, Zenon DEF TypeOK, Preempted, Zombies
<1> HIDE DEF next, st, rc, preempted, cleaned
<1>6. now \in Slot \cup {NULL} /\ (now \in CPU => now = c)
  BY <1>2, <1>3, Zenon DEF Allows, IsIdle
<1>7. \A t \in Slot : ctx'[t] = t \/ (t \in CPU /\ ctx'[t] = Boot(t))
  <2> TAKE t \in Slot
  <2>1. CASE t = prev
    BY <1>0, <1>3, <2>1, Basics, Zenon DEF On
  <2>2. CASE t # prev
    BY <1>0, <2>2, Zenon DEF Apart, Matched
  <2> QED  BY <2>1, <2>2, Zenon
<1>8. target'[c] \in Cont /\ On(c, target'[c], now)
  <2>1. target'[c] = IF next = NULL THEN exec[c] ELSE ctx'[next]
    BY <1>0, <1>1, Zenon DEF TypeOK
  <2>2. CASE next = NULL
    BY <1>3, <2>1, <2>2, Zenon
  <2>3. CASE next # NULL
    <3>1. next \in Slot /\ target'[c] = ctx'[next] /\ now = next
      BY <1>2, <2>1, <2>3, Zenon
    <3>2. ctx'[next] = next \/ (next \in CPU /\ ctx'[next] = Boot(next))
      BY <1>7, <3>1, Zenon
    <3>3. next \in CPU => next = c
      BY <1>2, <2>3, Zenon DEF Allows, IsIdle
    <3> QED  BY <3>1, <3>2, <3>3, Basics, Zenon DEF On
  <2> QED  BY <2>2, <2>3, Zenon
<1>9. TypeOK'
  <2>1. ctx' \in [Slot -> Cont]
    BY <1>0, <1>1, <1>3, Zenon DEF TypeOK
  <2>2. state' \in [Slot -> {"UNUSED", "READY", "RUNNING", "SLEEPING", "ZOMBIE"}]
    BY <1>0, <1>4, Zenon
  <2>3. running_cpu' \in [Slot -> CPU \cup {NULL}]
    BY <1>0, <1>4, Zenon
  <2>4. stack' \in [Slot -> BOOLEAN]
    BY <1>0, Zenon
  <2>5. current_task' \in [CPU -> Slot \cup {NULL}]
    BY <1>0, <1>1, <1>6, Zenon DEF TypeOK
  <2>6. last_pick' \in [CPU -> Slot \cup {NULL}]
    BY <1>0, <1>1, <1>2, Zenon DEF TypeOK
  <2>7. target' \in [CPU -> Cont \cup {NULL}]
    <3> DEFINE to == IF next = NULL THEN exec[c] ELSE ctx'[next]
    <3>1. target' = [target EXCEPT ![c] = to]
      BY <1>0, Zenon
    <3> HIDE DEF to
    <3>2. target'[c] = to
      BY <1>1, <3>1, Zenon DEF TypeOK
    <3> QED  BY <1>1, <1>8, <3>1, <3>2, Zenon DEF TypeOK
  <2> HIDE DEF now
  <2>8. mode' \in [CPU -> {"task", "isr", "tick", "pick", "switch"}]
    BY <1>0, <1>1, Zenon DEF TypeOK
  <2> QED  BY <1>0, <1>1, <2>1, <2>2, <2>3, <2>4, <2>5, <2>6, <2>7, <2>8, Zenon DEF TypeOK, local_vars
<1>10. Matched'
  <2>1. /\ \A d \in CPU \ {c} : mode'[d] = mode[d] /\ target'[d] = target[d] /\ current_task'[d] = current_task[d]
        /\ mode'[c] = "switch" /\ current_task'[c] = now
    BY <1>0, <1>1, Zenon DEF TypeOK
  <2> HIDE DEF now
  <2> QED  BY <1>0, <1>6, <1>7, <1>8, <2>1, SMTT(30) DEF Apart, Matched, On, local_vars
<1>11. (\A d \in CPU \ {c} : ~HoldsLock(d)) /\ \A k \in Cont : at[k] \notin Crit
  BY <1>0, HandlerAlone, Zenon
<1>12. Entered'
  BY <1>0, <1>11, Zenon DEF Entered, local_vars
<1>13. \A d \in CPU : ~HoldsLock(d)'
  BY <1>0, <1>1, <1>11, Zenon DEF HoldsLock, local_vars, TypeOK
<1>14. LockExclusive'
  BY <1>0, <1>13, Zenon DEF LockExclusive
<1>15. IdleStaysHome'
  BY <1>0, Zenon DEF Apart, ProcessorsApart, IdleStaysHome
<1>16. RunningIsCurrent'
  <2> SUFFICES ASSUME NEW t \in Slot, state'[t] = "RUNNING"
               PROVE  running_cpu'[t] \in CPU /\ current_task'[running_cpu'[t]] = t
    BY Zenon DEF RunningIsCurrent
  <2>1. CASE t = now
    BY <1>0, <1>1, <2>1, Zenon DEF TypeOK
  <2>2. CASE t # now
    <3>1. st[t] = "RUNNING" /\ running_cpu'[t] = rc[t]
      BY <1>0, <2>2, Zenon
    <3>2. state[t] = "RUNNING" /\ running_cpu'[t] = running_cpu[t] /\ t # prev
      BY <1>5, <3>1, Zenon
    <3>3. running_cpu[t] \in CPU /\ current_task[running_cpu[t]] = t
      BY <3>2, Zenon DEF Apart, ProcessorsApart, RunningIsCurrent
    <3> QED  BY <1>0, <1>1, <3>2, <3>3, Zenon DEF TypeOK
  <2> QED  BY <2>1, <2>2, Zenon
<1> QED  BY <1>9, <1>10, <1>12, <1>14, <1>15, <1>16 DEF Apart, ProcessorsApart

LEMMA InitApart == Init => Apart
<1> SUFFICES ASSUME Init PROVE Apart
  BY Zenon
<1>1. TypeOK
  <2>1. stack \in [Slot -> BOOLEAN]
    BY SchedAssumption DEF Init, Slot
  <2>2. last_pick \in [CPU -> Slot \cup {NULL}]
    BY Zenon DEF Init, NULL
  <2>3. at \in [Cont -> Places] /\ exec \in [CPU -> Cont] /\ ctx \in [Slot -> Cont]
    BY Basics, Zenon DEF Init, Places
  <2> QED  BY <2>1, <2>2, <2>3, Zenon DEF Init, TypeOK
<1>2. Matched
  BY Basics, Zenon DEF Init, Matched, On
<1>3. Entered
  BY Zenon DEF Init, Entered, Crit
<1>4. \A c \in CPU : ~HoldsLock(c)
  BY Basics, Zenon DEF Init, HoldsLock
<1>5. LockExclusive
  BY <1>4, Zenon DEF Init, LockExclusive
<1>6. IdleStaysHome
  BY Basics, Zenon DEF Init, IdleStaysHome
<1>7. RunningIsCurrent
  BY Zenon DEF Init, RunningIsCurrent
<1> QED  BY <1>1, <1>2, <1>3, <1>5, <1>6, <1>7, Zenon DEF Apart, ProcessorsApart

LEMMA StepKeepsApart ==
  ASSUME Apart, [StacksApart]_vars, [Next]_vars
  PROVE  Apart'
<1>1. CASE UNCHANGED vars
  <2>1. UNCHANGED <<state, ctx, wake, running_cpu, stack, current_task, last_pick, sched_lock, scheduler_active, mode, exec,
                    target, at, self, ptr, timer_armed>>
    BY <1>1, Zenon DEF vars, task_vars, cpu_vars
  <2>2. TypeOK' /\ Matched' /\ Entered'
    BY <2>1, Zenon DEF Apart, TypeOK, Matched, On, Entered
  <2>3. ProcessorsApart'
    BY <2>1, Zenon DEF Apart, ProcessorsApart, LockExclusive, HoldsLock, IdleStaysHome, RunningIsCurrent
  <2> QED  BY <2>2, <2>3, Zenon DEF Apart
<1> SUFFICES ASSUME StacksApart, Next PROVE Apart'
  BY <1>1, Zenon
<1>2. ASSUME NEW c \in CPU, TaskStep(c) PROVE Apart'
  BY <1>2, TaskCodeKeeps, StartKeeps, AcquireKeeps, BodiesKeep, Zenon DEF TaskStep
<1>3. ASSUME NEW c \in CPU, HandlerStep(c) PROVE Apart'
  BY <1>3, HandlersKeep, ScheduleKeeps, ReturnKeeps, Zenon DEF HandlerStep
<1>4. CASE TimerFires \/ Tick \/ TickBody
  BY <1>4, HandlersKeep, TickBodyKeeps, Zenon
<1> QED  BY <1>2, <1>3, <1>4, Zenon DEF Next, CpuStep

\* For every number of processors and of tasks: as long as no two processors are
\* on one stack, sched_lock is held by one processor at a time, idle tasks and
\* boot stacks stay on their own processor, and a task that is RUNNING is the
\* current one of the processor it names (task_schedule_isr, task_tick, task_sleep,
\* task_trampoline, task_create_affinity).
THEOREM ProcessorsApartHolds == Spec /\ [][StacksApart]_vars => []ProcessorsApart
<1>1. Apart /\ [StacksApart]_vars /\ [Next]_vars => Apart'
  BY StepKeepsApart, Zenon
<1>2. Apart => ProcessorsApart
  BY Zenon DEF Apart
<1> QED  BY InitApart, <1>1, <1>2, PTL DEF Spec

-----------------------------------------------------------------------------
(* When two processors get onto one stack.  No task exits here, and none is  *)
(* moved to another processor inside task_sleep between the reading of its   *)
(* processor and of its task: otherwise a task may lose its processor        *)
(* through no call of its own.                                               *)

\* task_sleep puts the task to sleep that called it.
SleepsItself == \A k \in Cont : at[k] \in {"sleep_lock", "sleep_crit"} => ptr[k] = k

\* The task of a stack is the processor's own: RUNNING on it, or one that sleeps.
Keeps(c, k) == k \in Slot \ CPU => k \in Sleepers \/ (state[k] = "RUNNING" /\ running_cpu[k] = c)

Windowed ==
  /\ \A c \in CPU : mode[c] # "switch" => target[c] = NULL /\ Keeps(c, exec[c])
  /\ \A c \in CPU : mode[c] = "switch" => Keeps(c, target[c])
  /\ \A k \in Cont : at[k] \in {"sleep_read", "sleep_lock", "sleep_crit"} => k \in Sleepers
  /\ \A k \in Cont : at[k] \notin {"exit_lock", "exit_crit"}
  /\ \A t \in Slot : state[t] # "ZOMBIE"

\* A step on which every processor keeps its stack, and its task if it runs.
LEMMA StaysWindowed ==
  ASSUME Windowed, UNCHANGED <<exec, target>>,
         \A d \in CPU : mode'[d] = "switch" <=> mode[d] = "switch",
         \A t \in (Slot \ CPU) \ Sleepers : state[t] = "RUNNING" => state'[t] = "RUNNING" /\ running_cpu'[t] = running_cpu[t],
         \A k \in Cont : at'[k] \in {"sleep_read", "sleep_lock", "sleep_crit"} => k \in Sleepers,
         \A k \in Cont : at'[k] \notin {"exit_lock", "exit_crit"},
         \A t \in Slot : state'[t] # "ZOMBIE"
  PROVE  Windowed'
<1>1. \A d \in CPU : \A k : Keeps(d, k) => Keeps(d, k)'
  BY Zenon DEF Keeps
<1>2. \A d \in CPU : mode'[d] # "switch" => target'[d] = NULL /\ Keeps(d, exec[d])'
  BY <1>1, Zenon DEF Windowed
<1>3. \A d \in CPU : mode'[d] = "switch" => Keeps(d, target[d])'
  BY <1>1, Zenon DEF Windowed
<1> QED  BY <1>2, <1>3, Zenon DEF Windowed, Keeps

LEMMA TaskCodeWindowed ==
  ASSUME Apart, Windowed, Exiters = {}, NEW c \in CPU,
         \/ EnterIndex(c) \/ Enter(c) \/ CallSleep(c) \/ CallYield(c) \/ CallCreate(c)
         \/ EntryReturns(c) \/ SleepRead(c) \/ SleepReturns(c) \/ task_yield(c) \/ Acquire(c)
  PROVE  Windowed'
<1>0. exec[c] \in Cont /\ at \in [Cont -> Places] /\ mode \in [CPU -> {"task", "isr", "tick", "pick", "switch"}]
  BY Zenon DEF Apart, TypeOK
<1>1. PICK w \in Places : GoTo(c, w) /\ w \notin {"exit_lock", "exit_crit"}
                          /\ (w \in {"sleep_read", "sleep_lock", "sleep_crit"} => exec[c] \in Sleepers)
  <2>1. CASE EnterIndex(c) \/ CallYield(c) \/ CallCreate(c) \/ SleepReturns(c)
    BY <2>1 DEF EnterIndex, CallYield, CallCreate, SleepReturns, Places, Inside
  <2>2. CASE Enter(c)
    BY <2>2 DEF Enter, Places, Inside
  <2>3. CASE CallSleep(c)
    BY <2>3, Zenon DEF CallSleep, Places, Inside
  <2>4. CASE EntryReturns(c)
    BY <2>4, Zenon DEF EntryReturns
  <2>5. CASE SleepRead(c)
    BY <1>0, <2>5, Zenon DEF SleepRead, Here, Windowed, Places, Inside
  <2>6. CASE task_yield(c)
    BY <2>6 DEF task_yield, AfterYield, Places, Inside
  <2>7. CASE Acquire(c)
    BY <1>0, <2>7, Zenon DEF Acquire, Critical, Windowed, Places, Inside, Crit
  <2> QED  BY <2>1, <2>2, <2>3, <2>4, <2>5, <2>6, <2>7, Zenon
<1>2. UNCHANGED <<state, running_cpu, exec, target>>
  BY Zenon DEF EnterIndex, Enter, CallSleep, CallYield, CallCreate, EntryReturns, SleepRead, SleepReturns, task_yield, Acquire,
         task_vars, other_vars
<1>3. InTask(c) /\ \E m \in {"task", "isr"} : mode' = [mode EXCEPT ![c] = m]
  <2>1. CASE task_yield(c)
    BY <2>1, Zenon DEF task_yield
  <2>2. CASE ~task_yield(c)
    <3>1. InTask(c) /\ mode' = mode
      BY <2>2, Zenon DEF EnterIndex, Enter, CallSleep, CallYield, CallCreate, EntryReturns, SleepRead, SleepReturns, Acquire, Here,
                  other_vars
    <3> QED  BY <1>0, <3>1, Zenon DEF InTask
  <2> QED  BY <2>1, <2>2, Zenon
<1>4. \A d \in CPU : mode'[d] = "switch" <=> mode[d] = "switch"
  BY <1>0, <1>3, Zenon DEF InTask
<1>5. \A k \in Cont : at'[k] = IF k = exec[c] THEN w ELSE at[k]
  BY <1>0, <1>1, Zenon DEF GoTo
<1>6. \A k \in Cont : /\ at'[k] \in {"sleep_read", "sleep_lock", "sleep_crit"} => k \in Sleepers
                      /\ at'[k] \notin {"exit_lock", "exit_crit"}
  BY <1>1, <1>5, Zenon DEF Windowed
<1>7. \A t \in Slot : state'[t] # "ZOMBIE"
  BY <1>2, Zenon DEF Windowed
<1> QED  BY <1>2, <1>4, <1>6, <1>7, StaysWindowed, Zenon

LEMMA BodiesWindowed ==
  ASSUME Apart, Windowed, SleepsItself, NEW c \in CPU, Start(c) \/ SleepBody(c) \/ ExitBody(c) \/ CreateBody(c)
  PROVE  Windowed'
<1>0. /\ exec[c] \in Cont /\ at \in [Cont -> Places] /\ c \in Slot
      /\ state \in [Slot -> {"UNUSED", "READY", "RUNNING", "SLEEPING", "ZOMBIE"}]
      /\ running_cpu \in [Slot -> CPU \cup {NULL}]
      /\ UNCHANGED <<exec, target, mode>>
  BY Basics, Zenon DEF Apart, TypeOK, Start, SleepBody, ExitBody, CreateBody, Release
<1>1. ~ExitBody(c)
  BY <1>0, Zenon DEF ExitBody, Here, Windowed
<1>2. CASE Start(c)
  <2>1. \A k \in Cont : at'[k] \in {at[k], "yield_halt"}
    BY <1>0, <1>2, Zenon DEF Start, GoTo
  <2>2. \A t \in Slot : t # c => state'[t] = state[t] /\ running_cpu'[t] = running_cpu[t]
    BY <1>0, <1>2, Zenon DEF Start
  <2>3. \A t \in Slot : state'[t] # "ZOMBIE"
    BY <1>0, <1>2, <2>2, Zenon DEF Start, Windowed
  <2>4. \A k \in Cont : /\ at'[k] \in {"sleep_read", "sleep_lock", "sleep_crit"} => k \in Sleepers
                        /\ at'[k] \notin {"exit_lock", "exit_crit"}
    BY <2>1, Zenon DEF Windowed
  <2> QED  BY <1>0, <2>2, <2>3, <2>4, StaysWindowed, Zenon
<1>3. CASE SleepBody(c)
  <2>1. ptr[exec[c]] = exec[c] /\ exec[c] \in Sleepers
    BY <1>0, <1>3, Zenon DEF SleepBody, Here, SleepsItself, Windowed
  <2>2. exec[c] \in Slot
    BY <2>1, SchedAssumption, Zenon
  <2>3. \A t \in Slot : t # exec[c] => state'[t] = state[t] /\ running_cpu'[t] = running_cpu[t]
    BY <1>0, <1>3, <2>1, Zenon DEF SleepBody
  <2>4. \A t \in Slot : state'[t] # "ZOMBIE"
    BY <1>0, <1>3, <2>1, <2>3, Zenon DEF SleepBody, Windowed
  <2>5. \A k \in Cont : at'[k] \in {at[k], "yield_slept"}
    BY <1>0, <1>3, Zenon DEF SleepBody, Release, GoTo
  <2>6. \A k \in Cont : /\ at'[k] \in {"sleep_read", "sleep_lock", "sleep_crit"} => k \in Sleepers
                        /\ at'[k] \notin {"exit_lock", "exit_crit"}
    BY <2>5, Zenon DEF Windowed
  <2> QED  BY <1>0, <2>1, <2>3, <2>4, <2>6, StaysWindowed, Zenon
<1>4. CASE CreateBody(c)
  <2> DEFINE idx == CHOOSE t \in Unused : \A u \in Unused : t <= u
  <2>1. CASE UNCHANGED task_vars /\ GoTo(c, "run")
    <3>1. \A k \in Cont : at'[k] \in {at[k], "run"}
      BY <1>0, <2>1, Zenon DEF GoTo
    <3>2. \A k \in Cont : /\ at'[k] \in {"sleep_read", "sleep_lock", "sleep_crit"} => k \in Sleepers
                          /\ at'[k] \notin {"exit_lock", "exit_crit"}
      BY <3>1, Zenon DEF Windowed
    <3>3. UNCHANGED <<state, running_cpu>> /\ \A t \in Slot : state'[t] # "ZOMBIE"
      BY <2>1, Zenon DEF task_vars, Windowed
    <3> QED  BY <1>0, <3>2, <3>3, StaysWindowed, Zenon
  <2>2. CASE ~(UNCHANGED task_vars /\ GoTo(c, "run"))
    <3>1. /\ Unused # {} /\ state' = [state EXCEPT ![idx] = "READY"]
          /\ running_cpu' = [running_cpu EXCEPT ![idx] = NULL]
          /\ at' = [at EXCEPT ![idx] = "start", ![exec[c]] = "run"]
      BY <1>4, <2>2, Zenon DEF CreateBody
    <3>2. idx \in Slot /\ idx \in Cont /\ state[idx] = "UNUSED"
      <4>1. Unused \in SUBSET Nat
        BY DEF Unused, Slot
      <4>2. \E t \in Unused : \A u \in Unused : t <= u
        BY <3>1, <4>1, LeastExists, Zenon
      <4>3. idx \in Unused
        BY <4>2, Zenon
      <4> QED  BY <4>3, Basics, Zenon DEF Unused
    <3> HIDE DEF idx
    <3>3. \A t \in Slot : t # idx => state'[t] = state[t] /\ running_cpu'[t] = running_cpu[t]
      BY <1>0, <3>1, Zenon
    <3>4. \A t \in Slot : state'[t] # "ZOMBIE"
      BY <1>0, <3>1, <3>2, <3>3, Zenon DEF Windowed
    <3>5. \A k \in Cont : at'[k] \in {at[k], "run", "start"}
      BY <1>0, <3>1, Zenon
    <3>6. \A k \in Cont : /\ at'[k] \in {"sleep_read", "sleep_lock", "sleep_crit"} => k \in Sleepers
                          /\ at'[k] \notin {"exit_lock", "exit_crit"}
      BY <3>5, Zenon DEF Windowed
    <3> QED  BY <1>0, <3>2, <3>3, <3>4, <3>6, StaysWindowed, Zenon
  <2> QED  BY <2>1, <2>2, Zenon
<1> QED  BY <1>1, <1>2, <1>3, <1>4, Zenon

LEMMA HandlersWindowed ==
  ASSUME Apart, Windowed, TimerFires \/ Tick \/ TickBody \/ \E c \in CPU : IsrTryLock(c)
  PROVE  Windowed'
<1>0. /\ mode \in [CPU -> {"task", "isr", "tick", "pick", "switch"}]
      /\ UNCHANGED <<exec, target, at, running_cpu>>
  BY Zenon DEF Apart, TypeOK, TimerFires, Tick, TickBody, IsrTryLock, task_vars, local_vars
<1>1. \E c \in CPU, m \in {"isr", "tick", "pick", "task"} : mode[c] # "switch" /\ mode' = [mode EXCEPT ![c] = m]
  BY Basics, Zenon DEF TimerFires, Tick, TickBody, IsrTryLock, InTask, InHandler
<1>2. \A d \in CPU : mode'[d] = "switch" <=> mode[d] = "switch"
  BY <1>0, <1>1, Zenon
<1>3. \A t \in Slot : state'[t] # "ZOMBIE" /\ (state[t] = "RUNNING" => state'[t] = "RUNNING")
  BY Zenon DEF TimerFires, Tick, TickBody, Due, IsrTryLock, task_vars, Windowed
<1>4. \A k \in Cont : /\ at'[k] \in {"sleep_read", "sleep_lock", "sleep_crit"} => k \in Sleepers
                      /\ at'[k] \notin {"exit_lock", "exit_crit"}
  BY <1>0, Zenon DEF Windowed
<1> QED  BY <1>0, <1>2, <1>3, <1>4, StaysWindowed, Zenon

LEMMA ReturnWindowed ==
  ASSUME Apart, Windowed, NEW c \in CPU, IsrReturn(c)
  PROVE  Windowed'
<1>0. /\ mode[c] = "switch" /\ UNCHANGED <<state, running_cpu, at>>
      /\ \A d \in CPU : /\ exec'[d] = IF d = c THEN target[c] ELSE exec[d]
                        /\ target'[d] = IF d = c THEN NULL ELSE target[d]
                        /\ mode'[d] = IF d = c THEN "task" ELSE mode[d]
  BY Zenon DEF IsrReturn, InHandler, task_vars, local_vars, Apart, TypeOK
<1>1. \A d \in CPU : \A k : Keeps(d, k)' <=> Keeps(d, k)
  BY <1>0, Zenon DEF Keeps
<1>2. \A d \in CPU : mode'[d] # "switch" => target'[d] = NULL /\ Keeps(d, exec'[d])
  BY <1>0, Zenon DEF Windowed
<1>3. \A d \in CPU : mode'[d] = "switch" => Keeps(d, target'[d])
  BY <1>0, Zenon DEF Windowed
<1> QED  BY <1>0, <1>2, <1>3, Zenon DEF Windowed, Keeps

\* What task_schedule_isr picks for a processor is not what another one keeps.
LEMMA ScheduleWindowed ==
  ASSUME Apart, StacksApart, Windowed, NEW c \in CPU, IsrSchedule(c)
  PROVE  Windowed' /\ SharesInWindow
<1> DEFINE prev == current_task[c]
           cleaned == [t \in Slot |-> IF t \in Zombies THEN "UNUSED" ELSE state[t]]
           preempted == Preempted(cleaned, prev)
           st == [t \in Slot |-> IF t \in preempted THEN "READY" ELSE cleaned[t]]
           rc == [t \in Slot |-> IF t \in preempted \cup Zombies THEN NULL ELSE running_cpu[t]]
           next == task_pick_next(st, rc, c)
           now == IF next = NULL THEN prev ELSE next
<1>0. /\ mode[c] = "pick"
      /\ ctx' = [t \in Slot |-> IF t = prev THEN exec[c] ELSE ctx[t]]
      /\ state' = [t \in Slot |-> IF t = now THEN "RUNNING" ELSE st[t]]
      /\ running_cpu' = [t \in Slot |-> IF t = now THEN c ELSE rc[t]]
      /\ target' = [target EXCEPT ![c] = IF next = NULL THEN exec[c] ELSE ctx'[next]]
      /\ mode' = [mode EXCEPT ![c] = "switch"]
      /\ UNCHANGED <<exec, at>>
  BY Zenon DEF IsrSchedule, InHandler, local_vars
<1>1. TypeOK /\ c \in Slot /\ CPU \subseteq Slot
  BY Basics, Zenon DEF Apart
<1>2. next # NULL => next \in Slot /\ st[next] = "READY" /\ (next \in CPU => next = c)
  BY <1>1, PickIs, SMTT(30) DEF Candidates, Allows, IsIdle
<1>3. prev \in Slot \cup {NULL} /\ exec[c] \in Cont /\ On(c, exec[c], prev) /\ (prev \in CPU => prev = c)
  BY <1>0, <1>1 DEF TypeOK, Apart, Matched
<1>4. \A t \in Slot : /\ st[t] # "ZOMBIE"
                      /\ st[t] = "READY" => t = prev \/ state[t] = "READY"
                      /\ state[t] = "RUNNING" /\ t # prev => st[t] = "RUNNING" /\ rc[t] = running_cpu[t]
  BY <1>1, Zenon DEF TypeOK, Preempted, Zombies, Windowed
<1> HIDE DEF next, st, rc, preempted, cleaned
<1>5. target'[c] = (IF next = NULL THEN exec[c] ELSE ctx'[next]) /\ \A d \in CPU \ {c} : target'[d] = target[d]
  BY <1>0, <1>1, Zenon DEF TypeOK
<1>6. \A k \in Slot \ CPU : (k = prev => k = exec[c]) /\ (k = exec[c] => k = prev)
  BY <1>3, Basics, Zenon DEF On
\* The stack that is gone to.
<1>7. \/ target'[c] = exec[c]
      \/ target'[c] = next /\ next # NULL
      \/ target'[c] = Boot(c)
  <2>1. CASE next = NULL
    BY <1>5, <2>1, Zenon
  <2>2. CASE next # NULL
    <3>1. next \in Slot /\ target'[c] = ctx'[next]
      BY <1>2, <1>5, <2>2, Zenon
    <3>2. ctx'[next] = IF next = prev THEN exec[c] ELSE ctx[next]
      BY <1>0, <3>1, Zenon
    <3>3. ctx[next] = next \/ (next \in CPU /\ ctx[next] = Boot(next))
      BY <3>1, Zenon DEF Apart, Matched
    <3> QED  BY <1>2, <2>2, <3>1, <3>2, <3>3, Zenon
  <2> QED  BY <2>1, <2>2, Zenon
<1>8. \A k \in Slot \ CPU : target'[c] = k => k = now
  <2> SUFFICES ASSUME NEW k \in Slot \ CPU, target'[c] = k PROVE k = now
    BY Zenon
  <2>1. k # Boot(c) /\ k # NULL
    BY Basics, Zenon
  <2>2. CASE next = NULL
    BY <1>5, <1>6, <2>2, Zenon
  <2>3. CASE next # NULL
    <3>1. next \in Slot /\ target'[c] = ctx'[next] /\ now = next
      BY <1>2, <1>5, <2>3, Zenon
    <3>2. ctx'[next] = IF next = prev THEN exec[c] ELSE ctx[next]
      BY <1>0, <3>1, Zenon
    <3>3. ctx[next] = next \/ (next \in CPU /\ ctx[next] = Boot(next))
      BY <3>1, Zenon DEF Apart, Matched
    <3> QED  BY <1>6, <3>1, <3>2, <3>3, Basics, Zenon
  <2> QED  BY <2>2, <2>3, Zenon
\* Another processor keeps its task.
<1>9. \A d \in CPU \ {c} : \A k \in (Slot \ CPU) \ Sleepers :
        k \in Uses(d) /\ state[k] = "RUNNING" => k # prev /\ k # next
  <2> SUFFICES ASSUME NEW d \in CPU \ {c}, NEW k \in (Slot \ CPU) \ Sleepers, k \in Uses(d), state[k] = "RUNNING"
               PROVE  k # prev /\ k # next
    BY Zenon
  <2>1. exec[c] \in Uses(c)
    BY <1>3, Basics, Zenon DEF Uses
  <2>2. k # exec[c]
    BY <2>1, Zenon DEF StacksApart, SharesStack
  <2>3. k # prev
    BY <1>6, <2>2, Zenon
  <2>4. st[k] = "RUNNING"
    BY <1>4, <2>3, Zenon
  <2> QED  BY <1>2, <2>3, <2>4, Basics, Zenon
<1>10. \A d \in CPU \ {c} : \A k \in Uses(d) : Keeps(d, k) => Keeps(d, k)'
  <2> SUFFICES ASSUME NEW d \in CPU \ {c}, NEW k \in Uses(d), k \in (Slot \ CPU) \ Sleepers, state[k] = "RUNNING",
                      running_cpu[k] = d
               PROVE  state'[k] = "RUNNING" /\ running_cpu'[k] = d
    BY Zenon DEF Keeps
  <2>1. k # prev /\ k # next
    BY <1>9, Zenon
  <2>2. st[k] = "RUNNING" /\ rc[k] = d
    BY <1>4, <2>1, Zenon
  <2> QED  BY <1>0, <2>1, <2>2, Zenon
<1>11. Windowed'
  <2>1. Keeps(c, target[c])'
    BY <1>0, <1>8, Zenon DEF Keeps
  <2>2. \A d \in CPU : mode'[d] = IF d = c THEN "switch" ELSE mode[d]
    BY <1>0, <1>1, Zenon DEF TypeOK
  <2>3. \A d \in CPU \ {c} : mode[d] # "switch" => target'[d] = NULL /\ Keeps(d, exec[d])'
    <3> SUFFICES ASSUME NEW d \in CPU \ {c}, mode[d] # "switch" PROVE target'[d] = NULL /\ Keeps(d, exec[d])'
      BY Zenon
    <3>1. target[d] = NULL /\ Keeps(d, exec[d])
      BY Zenon DEF Windowed
    <3>2. exec[d] \in Uses(d)
      BY <1>1, Basics DEF Uses, TypeOK
    <3>3. PICK k : k = exec[d]
      BY Zenon
    <3>4. Keeps(d, k)'
      BY <1>10, <3>1, <3>2, <3>3, Zenon
    <3> QED  BY <1>0, <1>5, <3>1, <3>3, <3>4, Zenon DEF Keeps
  <2>4. \A d \in CPU \ {c} : mode[d] = "switch" => Keeps(d, target[d])'
    <3> SUFFICES ASSUME NEW d \in CPU \ {c}, mode[d] = "switch" PROVE Keeps(d, target[d])'
      BY Zenon
    <3>1. Keeps(d, target[d]) /\ target[d] \in Cont
      BY Zenon DEF Windowed, Apart, Matched
    <3>2. target[d] \in Uses(d)
      BY <3>1, Basics, Zenon DEF Uses
    <3>3. PICK k : k = target[d]
      BY Zenon
    <3>4. Keeps(d, k)'
      BY <1>10, <3>1, <3>2, <3>3, Zenon
    <3>5. k = target'[d]
      BY <1>5, <3>3, Zenon
    <3> QED  BY <3>4, <3>5, Zenon DEF Keeps
  <2>5. \A t \in Slot : state'[t] # "ZOMBIE"
    BY <1>0, <1>4, Zenon
  <2>6. \A d \in CPU : mode'[d] # "switch" => target'[d] = NULL /\ Keeps(d, exec[d])'
    BY <2>2, <2>3, Zenon
  <2>7. \A d \in CPU : mode'[d] = "switch" => Keeps(d, target[d])'
    BY <2>1, <2>2, <2>4, Zenon DEF Keeps
  <2> QED  BY <1>0, <2>5, <2>6, <2>7, Zenon DEF Windowed
\* It goes to a stack another processor is on only in a window.
<1>12. \A d \in CPU \ {c} : \A k \in Uses(c)' \cap Uses(d) : k \in Sleepers \/ (mode[d] = "switch" /\ exec[d] = k)
  <2> SUFFICES ASSUME NEW d \in CPU \ {c}, NEW k \in Uses(c)' \cap Uses(d), ~(mode[d] = "switch" /\ exec[d] = k)
               PROVE  k \in Sleepers
    BY Zenon
  <2>1. k # exec[c]
    <3>1. exec[c] \in Uses(c)
      BY <1>3, Basics, Zenon DEF Uses
    <3> QED  BY <3>1, Zenon DEF StacksApart, SharesStack
  <2>2. k = target'[c]
    BY <1>0, <2>1, Zenon DEF Uses
  <2>3. On(d, k, current_task[d]) /\ Keeps(d, k)
    <3>1. CASE mode[d] = "switch"
      <4>1. k = target[d]
        BY <3>1, Zenon DEF Uses
      <4> QED  BY <3>1, <4>1, Zenon DEF Windowed, Apart, Matched
    <3>2. CASE mode[d] # "switch"
      <4>1. k = exec[d]
        BY <3>2, Zenon DEF Uses, Windowed
      <4> QED  BY <3>2, <4>1, Zenon DEF Windowed, Apart, Matched
    <3> QED  BY <3>1, <3>2, Zenon
  <2>4. current_task[d] \in Slot \cup {NULL} /\ (current_task[d] \in CPU => current_task[d] = d)
    BY <1>1, SMTT(30) DEF TypeOK, Apart, Matched
  <2>5. k # c /\ k # Boot(c)
    <3>0. d \in CPU /\ d # c /\ c \in Slot /\ Boot(c) \notin Slot /\ Boot(d) \notin Slot /\ Boot(c) # NULL /\ Boot(c) # Boot(d)
      BY Basics, Zenon
    <3>1. CASE k = current_task[d]
      BY <2>4, <3>0, <3>1, Zenon
    <3>2. CASE k = Boot(d)
      BY <3>0, <3>2, Zenon
    <3> QED  BY <2>3, <3>1, <3>2, Zenon DEF On
  <2>6. k = next /\ next # NULL
    BY <1>7, <2>1, <2>2, <2>5, Zenon
  <2>7. k \in Slot \ CPU /\ st[k] = "READY"
    BY <1>2, <2>5, <2>6, Zenon
  <2>8. k # prev
    BY <1>6, <2>1, <2>7, Zenon
  <2>9. state[k] = "READY"
    BY <1>4, <2>7, <2>8, Zenon
  <2> QED  BY <2>3, <2>7, <2>9, Zenon DEF Keeps
<1>13. SharesInWindow
  <2> SUFFICES ASSUME NEW x \in CPU, NEW y \in CPU, SharesStack(x, y)', ~SharesStack(x, y),
                      NEW k \in Uses(x)' \cap Uses(y)'
               PROVE  k \in Sleepers \/ \E e \in {x, y} : mode[e] = "switch" /\ exec[e] = k
    BY SMTT(30) DEF SharesInWindow
  <2>1. \A d \in CPU \ {c} : Uses(d)' = Uses(d)
    BY <1>0, <1>5, Zenon DEF Uses
  <2>2. x # y /\ (x = c \/ y = c)
    BY <2>1 DEF SharesStack
  <2> QED  BY <1>12, <2>1, <2>2, Zenon
<1> QED  BY <1>11, <1>13, Zenon

LEMMA StepWindowed ==
  ASSUME Apart, Windowed, Exiters = {}, [Next]_vars, [StacksApart /\ SleepsItself]_vars
  PROVE  Windowed' /\ [SharesInWindow]_vars
<1>1. CASE UNCHANGED vars
  <2>1. UNCHANGED <<state, running_cpu, mode, exec, target, at>>
    BY <1>1, Zenon DEF vars, task_vars, cpu_vars
  <2>2. Windowed'
    BY <2>1, Zenon DEF Windowed, Keeps
  <2> QED  BY <1>1, <2>2, Zenon
<1> SUFFICES ASSUME ~UNCHANGED vars PROVE Windowed' /\ SharesInWindow
  BY <1>1, Zenon
<1>2. StacksApart /\ SleepsItself /\ Next
  BY Zenon
<1>3. UNCHANGED <<exec, target>> => SharesInWindow
  BY Zenon DEF SharesInWindow, SharesStack, Uses
<1>4. ASSUME NEW c \in CPU, TaskStep(c) PROVE Windowed' /\ SharesInWindow
  <2>1. UNCHANGED <<exec, target>>
    BY <1>4, Zenon DEF TaskStep, Start, EnterIndex, Enter, CallSleep, CallYield, CallCreate, EntryReturns, SleepRead, Acquire,
                SleepBody, ExitBody, CreateBody, SleepReturns, task_yield, Release, other_vars
  <2>2. Windowed'
    BY <1>2, <1>4, TaskCodeWindowed, BodiesWindowed, Zenon DEF TaskStep
  <2> QED  BY <1>3, <2>1, <2>2, Zenon
<1>5. ASSUME NEW c \in CPU, HandlerStep(c) PROVE Windowed' /\ SharesInWindow
  <2>1. CASE IsrTryLock(c)
    <3>1. UNCHANGED <<exec, target>>
      BY <2>1, Zenon DEF IsrTryLock
    <3> QED  BY <1>3, <2>1, <3>1, HandlersWindowed, Zenon
  <2>2. CASE IsrSchedule(c)
    BY <1>2, <2>2, ScheduleWindowed, Zenon
  <2>3. CASE IsrReturn(c)
    <3>1. \A d \in CPU : Uses(d)' \subseteq Uses(d)
      BY <2>3, Zenon DEF IsrReturn, Uses, Apart, TypeOK
    <3>2. \A d, e \in CPU : SharesStack(d, e)' => SharesStack(d, e)
      BY <3>1, Zenon DEF SharesStack
    <3>3. SharesInWindow
      BY <3>2, Zenon DEF SharesInWindow
    <3> QED  BY <2>3, <3>3, ReturnWindowed, Zenon
  <2> QED  BY <1>5, <2>1, <2>2, <2>3, Zenon DEF HandlerStep
<1>6. CASE TimerFires \/ Tick \/ TickBody
  <2>1. UNCHANGED <<exec, target>>
    BY <1>6, Zenon DEF TimerFires, Tick, TickBody
  <2> QED  BY <1>3, <1>6, <2>1, HandlersWindowed, Zenon
<1> QED  BY <1>2, <1>4, <1>5, <1>6, Zenon DEF Next, CpuStep

\* For every number of processors, of slots and of tasks, of which none exits: as
\* long as the stacks are apart and task_sleep puts to sleep the task that called
\* it, the step that brings a second processor onto a stack brings it onto that of
\* a task that calls task_sleep, or of one that its processor has put back into the
\* table and not yet left (task_schedule_isr after its spin_unlock).
THEOREM SharedOnlyInWindowHolds ==
  Exiters = {} => (Spec /\ [][StacksApart /\ SleepsItself]_vars => SharedOnlyInWindow)
<1> SUFFICES ASSUME Exiters = {} PROVE Spec /\ [][StacksApart /\ SleepsItself]_vars => SharedOnlyInWindow
  BY Zenon
<1>1. Init => Apart /\ Windowed
  <2> SUFFICES ASSUME Init PROVE Windowed
    BY InitApart, Zenon
  <2>1. \A c \in CPU : exec[c] = Boot(c) /\ target[c] = NULL /\ mode[c] = "task"
    BY Zenon DEF Init
  <2>2. \A c \in CPU : Keeps(c, exec[c])
    BY <2>1, Basics DEF Keeps
  <2> QED  BY <2>1, <2>2, Zenon DEF Init, Windowed
<1>2. Apart /\ Windowed /\ [Next]_vars /\ [StacksApart /\ SleepsItself]_vars
        => (Apart /\ Windowed)' /\ [SharesInWindow]_vars
  BY StepKeepsApart, StepWindowed, Zenon
<1> QED  BY <1>1, <1>2, PTL DEF Spec, SharedOnlyInWindow

-----------------------------------------------------------------------------
(* One processor. *)

cur == current_task[BSP]
Home(t) == IF t \in {NULL, BSP} THEN Boot(BSP) ELSE t
InIsr == mode[BSP] \in {"isr", "pick"}

\* The continuations: which stack is in use, which are saved, and whose the
\* locals of task_trampoline and task_sleep are.
OwnConts ==
  /\ mode[BSP] # "switch" => exec[BSP] = Home(cur)
  /\ mode[BSP] = "switch" => target[BSP] = Home(cur)
  /\ \A t \in Slot : t # BSP => ctx[t] = t
  /\ cur \notin {NULL, BSP} => ctx[BSP] = Boot(BSP)
  /\ cur = NULL => ~scheduler_active /\ at[Boot(BSP)] = "boot" /\ mode[BSP] \in {"task", "isr"}
  /\ cur # NULL => scheduler_active /\ at[Boot(BSP)] # "boot"
  /\ \A k \in Cont : at[k] \in Inside => k \in Slot \ {BSP} /\ self[k] = k
  /\ \A k \in Cont : at[k] = "start" => k \in Slot
  /\ \A k \in Cont : at[k] = "enter" => k \in Slot \ {BSP}
  /\ \A k \in Cont : at[k] \in {"sleep_lock", "sleep_crit", "yield_slept", "slept"} => ptr[k] = k

\* The states: only the current task runs, or is on its way out; a task that
\* went to sleep wakes when its time has come.
OwnStates ==
  /\ state[BSP] \in {"READY", "RUNNING"}
  /\ \A t \in Slot : state[t] # "RUNNING" => running_cpu[t] = NULL
  /\ \A t \in Slot : stack[t] <=> state[t] # "UNUSED"
  /\ \A t \in Slot : state[t] = "ZOMBIE" => /\ t = cur /\ mode[BSP] # "switch"
                                            /\ at[t] = "yield_halt" \/ (at[t] = "halt" /\ InIsr)
  /\ cur # NULL => state[cur] # "UNUSED"
  /\ cur # NULL /\ state[cur] \in {"SLEEPING", "READY"}
       => mode[BSP] # "switch" /\ (at[cur] = "yield_slept" \/ (at[cur] = "slept" /\ InIsr))
  /\ \A t \in Slot : at[t] \in {"yield_slept", "slept"} => state[t] = "SLEEPING" \/ wake[t] = 0

Own == OwnConts /\ OwnStates

LEMMA OneProcessor ==
  ASSUME NCPU = 1
  PROVE  /\ CPU = {BSP} /\ BSP \in Slot /\ Slot \subseteq Cont
         /\ Boot(BSP) \in Cont /\ Boot(BSP) \notin Slot /\ NULL \notin Cont /\ NULL \notin Slot
         /\ Cont = Slot \cup {Boot(BSP)}
         /\ StacksApart
<1>1. CPU = {BSP}
  BY DEF CPU, BSP
<1>2. Cont = Slot \cup {Boot(BSP)}
  BY SchedAssumption, SMTT(30) DEF Cont, Slot, Boot, BSP
<1> QED  BY <1>1, <1>2, Basics, Zenon DEF StacksApart, SharesStack

\* The stack in use is that of the current task, or the boot stack.
LEMMA OnStack ==
  ASSUME NCPU = 1, Apart, Own, mode[BSP] # "switch", exec[BSP] \in Slot
  PROVE  cur = exec[BSP] /\ cur \in Slot \ {BSP} /\ state[cur] # "UNUSED" /\ scheduler_active
<1>1. exec[BSP] = Home(cur)
  BY Zenon DEF Own, OwnConts
<1>2. cur = exec[BSP] /\ cur \notin {NULL, BSP}
  BY <1>1, OneProcessor, Zenon DEF Home
<1> QED  BY <1>2, OneProcessor, Zenon DEF Own, OwnConts, OwnStates

\* Task code runs as RUNNING, but between a section and its yield.
LEMMA CurrentRuns ==
  ASSUME NCPU = 1, Apart, Own, InTask(BSP), exec[BSP] \in Slot,
         at[exec[BSP]] \notin {"yield_slept", "yield_halt"}
  PROVE  state[exec[BSP]] = "RUNNING"
<1>1. cur = exec[BSP] /\ cur \in Slot \ {BSP} /\ state[cur] # "UNUSED" /\ mode[BSP] = "task"
  BY OnStack, Zenon DEF InTask
<1>2. state[cur] # "ZOMBIE"
  BY <1>1, Zenon DEF Own, OwnStates, InIsr
<1>3. state[cur] \notin {"SLEEPING", "READY"}
  BY <1>1, OneProcessor, Zenon DEF Own, OwnStates, InIsr
<1>4. state[cur] \in {"UNUSED", "READY", "RUNNING", "SLEEPING", "ZOMBIE"}
  BY <1>1, Zenon DEF Apart, TypeOK
<1> QED  BY <1>1, <1>2, <1>3, <1>4, Zenon

\* What a step of task code outside the sections may change.
LocalOwn(w, m) ==
  LET k == exec[BSP]
  IN  /\ at' = [at EXCEPT ![k] = w] /\ mode' = [mode EXCEPT ![BSP] = m]
      /\ w \in Places \ {"boot", "start"} /\ m \in {"task", "isr"} /\ at[k] # "boot"
      /\ self' \in [Cont -> Slot \cup {NULL}] /\ ptr' \in [Cont -> Slot \cup {NULL}]
      /\ \A j \in Cont \ {k} : self'[j] = self[j] /\ ptr'[j] = ptr[j]
      /\ w \in Inside => k \in Slot \ {BSP} /\ self'[k] = k
      /\ w = "enter" => k \in Slot \ {BSP}
      /\ w \in {"sleep_lock", "sleep_crit", "yield_slept", "slept"} => ptr'[k] = k
      /\ k \in Slot => \/ state[k] = "RUNNING" /\ w \notin {"yield_slept", "slept"}
                       \/ at[k] = "yield_slept" /\ w = "slept" /\ m = "isr"
                       \/ at[k] = "yield_halt" /\ w = "halt" /\ m = "isr"
      /\ UNCHANGED <<task_vars, cpu_vars, scheduler_active, exec, target>>

LEMMA LocalOwnKeeps ==
  ASSUME NCPU = 1, Apart, Own, InTask(BSP), NEW w, NEW m, LocalOwn(w, m)
  PROVE  Own'
<1> DEFINE k == exec[BSP]
<1>0. /\ at \in [Cont -> Places] /\ BSP \in CPU /\ k \in Cont
      /\ at' = [at EXCEPT ![k] = w] /\ mode'[BSP] = m /\ mode[BSP] = "task"
      /\ UNCHANGED <<state, ctx, wake, running_cpu, stack, current_task, scheduler_active, exec, target>>
  BY OneProcessor, Zenon DEF Apart, TypeOK, LocalOwn, InTask, task_vars, cpu_vars
<1>1. /\ w \in Places \ {"boot", "start"} /\ m \in {"task", "isr"} /\ at[k] # "boot"
      /\ \A j \in Cont \ {k} : self'[j] = self[j] /\ ptr'[j] = ptr[j] /\ at'[j] = at[j]
      /\ at'[k] = w
  BY <1>0, Zenon DEF LocalOwn
<1>2. k = Home(cur) /\ cur # NULL
  BY <1>0, <1>1, Zenon DEF Own, OwnConts, Home
<1>3. OwnConts'
  <2>1. /\ mode'[BSP] # "switch" /\ exec'[BSP] = Home(cur)'
        /\ (\A t \in Slot : t # BSP => ctx'[t] = t) /\ (cur' \notin {NULL, BSP} => ctx'[BSP] = Boot(BSP))
    BY <1>0, <1>1, <1>2, Zenon DEF Own, OwnConts, Home, cur
  <2>2. cur' # NULL /\ scheduler_active' /\ at'[Boot(BSP)] # "boot"
    BY <1>0, <1>1, <1>2, OneProcessor, Zenon DEF Own, OwnConts, cur
  <2>3. \A j \in Cont : at'[j] \in Inside => j \in Slot \ {BSP} /\ self'[j] = j
    BY <1>1, SMTT(30) DEF Own, OwnConts, LocalOwn
  <2>4. /\ \A j \in Cont : at'[j] = "start" => j \in Slot
        /\ \A j \in Cont : at'[j] = "enter" => j \in Slot \ {BSP}
        /\ \A j \in Cont : at'[j] \in {"sleep_lock", "sleep_crit", "yield_slept", "slept"} => ptr'[j] = j
    BY <1>1, SMTT(30) DEF Own, OwnConts, LocalOwn
  <2> QED  BY <2>1, <2>2, <2>3, <2>4, Zenon DEF OwnConts
<1>4. OwnStates'
  <2>1. k \in Slot => cur = k
    BY <1>0, OnStack, Zenon
  <2>2. \A t \in Slot : state'[t] = "ZOMBIE" => /\ t = cur' /\ mode'[BSP] # "switch"
                                                /\ at'[t] = "yield_halt" \/ (at'[t] = "halt" /\ InIsr')
    <3>1. cur' = cur /\ state' = state
      BY <1>0, Zenon DEF cur
    <3>2. mode'[BSP] # "switch" /\ (m = "isr" => InIsr')
      BY <1>0, <1>1, Zenon DEF InIsr
    <3>3. ASSUME NEW t \in Slot, state[t] = "ZOMBIE" PROVE at'[t] = "yield_halt" \/ (at'[t] = "halt" /\ InIsr')
      <4>1. t = cur /\ at[t] = "yield_halt" /\ t # BSP
        BY <1>0, <3>3, OneProcessor, Zenon DEF Own, OwnStates, InIsr
      <4>2. t = k
        BY <1>2, <4>1, OneProcessor, Zenon DEF Home
      <4>3. w = "halt" /\ m = "isr"
        BY <3>3, <4>1, <4>2, Zenon DEF LocalOwn
      <4> QED BY <1>1, <3>2, <4>2, <4>3, Zenon
    <3>4. \A t \in Slot : state[t] = "ZOMBIE" => t = cur
      BY Zenon DEF Own, OwnStates
    <3> QED BY <3>1, <3>2, <3>3, <3>4, Zenon
  <2>3. cur' # NULL /\ state'[cur'] \in {"SLEEPING", "READY"}
          => mode'[BSP] # "switch" /\ (at'[cur'] = "yield_slept" \/ (at'[cur'] = "slept" /\ InIsr'))
    <3>1. cur \in Slot
      BY <1>0, <1>2, Zenon DEF Apart, TypeOK, cur
    <3> QED  BY <1>0, <1>1, <2>1, <3>1, OneProcessor, Zenon DEF Own, OwnStates, LocalOwn, InIsr, cur
  <2>4. \A t \in Slot : at'[t] \in {"yield_slept", "slept"} => state'[t] = "SLEEPING" \/ wake'[t] = 0
    BY <1>0, <1>1, OneProcessor, ZenonT(40) DEF Own, OwnStates, LocalOwn
  <2> QED  BY <1>0, <2>2, <2>3, <2>4, Zenon DEF Own, OwnStates, cur
<1> QED  BY <1>3, <1>4, Zenon DEF Own

LEMMA TaskCodeOwn ==
  ASSUME NCPU = 1, Apart, Own,
         \/ EnterIndex(BSP) \/ Enter(BSP) \/ CallSleep(BSP) \/ CallYield(BSP) \/ CallCreate(BSP)
         \/ EntryReturns(BSP) \/ SleepRead(BSP) \/ SleepReturns(BSP) \/ task_yield(BSP) \/ Acquire(BSP)
  PROVE  Own'
<1> DEFINE k == exec[BSP]
<1>0. /\ k \in Cont /\ mode = [mode EXCEPT ![BSP] = mode[BSP]] /\ InTask(BSP) /\ mode[BSP] # "switch"
      /\ self \in [Cont -> Slot \cup {NULL}] /\ ptr \in [Cont -> Slot \cup {NULL}] /\ at \in [Cont -> Places]
      /\ UNCHANGED <<task_vars, cpu_vars, scheduler_active, exec, target>>
  BY OneProcessor, Zenon DEF Apart, TypeOK, EnterIndex, Enter, CallSleep, CallYield, CallCreate, EntryReturns, SleepRead,
     SleepReturns, task_yield, Acquire, Here, InTask, other_vars
<1>1. k \in Slot => cur = k /\ k \in Slot \ {BSP} /\ scheduler_active
  BY <1>0, OnStack, Zenon
<1>2. k \in Slot /\ at[k] \notin {"yield_slept", "yield_halt"} => state[k] = "RUNNING"
  BY <1>0, CurrentRuns, Zenon
<1>3. at[k] \in Inside => k \in Slot \ {BSP} /\ self[k] = k
  BY <1>0, Zenon DEF Own, OwnConts
<1>4. CASE EnterIndex(BSP)
  <2>1. /\ at' = [at EXCEPT ![k] = "enter"] /\ self' = [self EXCEPT ![k] = BSP] /\ ptr' = ptr
        /\ at[k] = "start" /\ mode' = [mode EXCEPT ![BSP] = "task"]
    BY <1>0, <1>4, Zenon DEF EnterIndex, GoTo, Here, InTask, other_vars
  <2>2. k \in Slot
    BY <1>0, <2>1, Zenon DEF Own, OwnConts
  <2>3. LocalOwn("enter", "task")
    BY <1>0, <1>1, <1>2, <2>1, <2>2, OneProcessor, Zenon DEF LocalOwn, Places, Inside, Crit
  <2> QED  BY <1>0, <2>3, LocalOwnKeeps, Zenon
<1>5. CASE Enter(BSP)
  <2> DEFINE t == current_task[self[k]]
             w == IF t = NULL \/ IsIdle(t) THEN "halt" ELSE "run"
  <2>1. /\ at' = [at EXCEPT ![k] = w] /\ self' = [self EXCEPT ![k] = t] /\ ptr' = ptr
        /\ at[k] = "enter" /\ mode' = [mode EXCEPT ![BSP] = "task"]
    BY <1>0, <1>5, Zenon DEF Enter, GoTo, Here, InTask, other_vars
  <2>2. k \in Slot \ {BSP} /\ self[k] = BSP
    BY <1>0, <2>1, OneProcessor, Zenon DEF Own, OwnConts, Apart, Matched
  <2>3. t = k /\ w = "run"
    BY <1>1, <2>2, OneProcessor, Zenon DEF cur, IsIdle
  <2> HIDE DEF t, w
  <2>4. LocalOwn("run", "task")
    BY <1>0, <1>2, <2>1, <2>2, <2>3, Zenon DEF LocalOwn, Places, Inside
  <2> QED  BY <1>0, <2>4, LocalOwnKeeps, Zenon
<1>6. CASE CallSleep(BSP)
  <2>1. /\ at' = [at EXCEPT ![k] = "sleep_read"] /\ ptr' = [ptr EXCEPT ![k] = BSP] /\ self' = self
        /\ at[k] = "run" /\ mode' = [mode EXCEPT ![BSP] = "task"]
    BY <1>0, <1>6, Zenon DEF CallSleep, GoTo, Here, InTask, other_vars
  <2>2. LocalOwn("sleep_read", "task")
    BY <1>0, <1>2, <1>3, <2>1, OneProcessor, Zenon DEF LocalOwn, Places, Inside
  <2> QED  BY <1>0, <2>2, LocalOwnKeeps, Zenon
<1>7. CASE SleepRead(BSP)
  <2> DEFINE t == current_task[ptr[k]]
             w == IF t = NULL THEN "run" ELSE "sleep_lock"
  <2>1. /\ at' = [at EXCEPT ![k] = w] /\ ptr' = [ptr EXCEPT ![k] = t] /\ self' = self
        /\ at[k] = "sleep_read" /\ mode' = [mode EXCEPT ![BSP] = "task"]
    BY <1>0, <1>7, Zenon DEF SleepRead, GoTo, Here, InTask, other_vars
  <2>2. k \in Slot \ {BSP} /\ ptr[k] = BSP
    BY <1>0, <1>3, <2>1, OneProcessor, Zenon DEF Apart, Matched, Inside
  <2>3. t = k /\ w = "sleep_lock"
    BY <1>1, <2>2, OneProcessor, Zenon DEF cur
  <2> HIDE DEF t, w
  <2>4. LocalOwn("sleep_lock", "task")
    BY <1>0, <1>2, <1>3, <2>1, <2>2, <2>3, Zenon DEF LocalOwn, Places, Inside
  <2> QED  BY <1>0, <2>4, LocalOwnKeeps, Zenon
<1>8. CASE CallYield(BSP) \/ CallCreate(BSP) \/ EntryReturns(BSP) \/ SleepReturns(BSP)
  <2>1. PICK w \in {"yield_run", "create_lock", "exit_lock", "run"} : at' = [at EXCEPT ![k] = w]
    BY <1>8, Zenon DEF CallYield, CallCreate, EntryReturns, SleepReturns, GoTo
  <2>2. ptr' = ptr /\ self' = self /\ at[k] \in {"run", "slept"} /\ mode' = [mode EXCEPT ![BSP] = "task"]
    BY <1>0, <1>8, Zenon DEF CallYield, CallCreate, EntryReturns, SleepReturns, Here, InTask, other_vars
  <2>3. LocalOwn(w, "task")
    BY <1>0, <1>2, <1>3, <2>1, <2>2, Zenon DEF LocalOwn, Places, Inside
  <2> QED  BY <1>0, <2>3, LocalOwnKeeps, Zenon
<1>9. CASE Acquire(BSP)
  <2>1. PICK w \in Crit : at' = [at EXCEPT ![k] = w] /\ (w = "sleep_crit" => at[k] = "sleep_lock")
    BY <1>9, Zenon DEF Acquire, GoTo, Critical, Crit
  <2>2. /\ ptr' = ptr /\ self' = self /\ at[k] \in {"sleep_lock", "exit_lock", "create_lock"}
        /\ mode' = [mode EXCEPT ![BSP] = "task"]
    BY <1>0, <1>9, Zenon DEF Acquire, InTask
  <2>3. w = "sleep_crit" => ptr[k] = k
    BY <1>0, <2>1, Zenon DEF Own, OwnConts
  <2>4. LocalOwn(w, "task")
    BY <1>0, <1>2, <1>3, <2>1, <2>2, <2>3, Zenon DEF LocalOwn, Places, Inside, Crit
  <2> QED  BY <1>0, <2>4, LocalOwnKeeps, Zenon
<1>10. CASE task_yield(BSP)
  <2>1. at[k] # "boot" /\ at[k] \in {"yield_run", "yield_slept", "yield_halt"}
    BY <1>10, Zenon DEF task_yield
  <2>2. cur # NULL => scheduler_active
    BY Zenon DEF Own, OwnConts
  <2>3. cur # NULL
    BY <1>0, <2>1, Zenon DEF Own, OwnConts, Home
  <2>4. ptr' = ptr /\ self' = self /\ mode' = [mode EXCEPT ![BSP] = "isr"]
    BY <1>10, <2>2, <2>3, Zenon DEF task_yield
  <2>5. CASE at[k] = "yield_run"
    <3>1. at' = [at EXCEPT ![k] = "run"]
      BY <1>10, <2>5, Zenon DEF task_yield, AfterYield, GoTo
    <3>2. LocalOwn("run", "isr")
      BY <1>0, <1>2, <1>3, <2>4, <2>5, <3>1, Zenon DEF LocalOwn, Places, Inside
    <3> QED  BY <1>0, <3>2, LocalOwnKeeps, Zenon
  <2>6. CASE at[k] = "yield_slept"
    <3>1. at' = [at EXCEPT ![k] = "slept"]
      BY <1>10, <2>6, Zenon DEF task_yield, AfterYield, GoTo
    <3>2. ptr[k] = k
      BY <1>0, <2>6, Zenon DEF Own, OwnConts
    <3>3. LocalOwn("slept", "isr")
      BY <1>0, <1>3, <2>4, <2>6, <3>1, <3>2, Zenon DEF LocalOwn, Places, Inside
    <3> QED  BY <1>0, <3>3, LocalOwnKeeps, Zenon
  <2>7. CASE at[k] = "yield_halt"
    <3>1. at' = [at EXCEPT ![k] = "halt"]
      BY <1>10, <2>7, Zenon DEF task_yield, AfterYield, GoTo
    <3>2. LocalOwn("halt", "isr")
      BY <1>0, <2>4, <2>7, <3>1, Zenon DEF LocalOwn, Places, Inside, Crit
    <3> QED  BY <1>0, <3>2, LocalOwnKeeps, Zenon
  <2> QED  BY <2>1, <2>5, <2>6, <2>7, Zenon
<1> QED  BY <1>4, <1>5, <1>6, <1>7, <1>8, <1>9, <1>10, Zenon

LEMMA StartOwn ==
  ASSUME NCPU = 1, Apart, Own, Start(BSP)
  PROVE  Own'
<1>0. /\ TypeOK /\ BSP \in CPU /\ mode[BSP] = "task" /\ at[exec[BSP]] = "boot"
      /\ current_task' = [current_task EXCEPT ![BSP] = BSP] /\ state' = [state EXCEPT ![BSP] = "RUNNING"]
      /\ running_cpu' = [running_cpu EXCEPT ![BSP] = BSP] /\ scheduler_active' = TRUE
      /\ at' = [at EXCEPT ![exec[BSP]] = "yield_halt"]
      /\ UNCHANGED <<ctx, wake, stack, mode, exec, target, self, ptr>>
  BY OneProcessor, Zenon DEF Apart, Start, Here, InTask, GoTo
<1>1. exec[BSP] = Boot(BSP) /\ cur \in {NULL, BSP}
  <2>1. exec[BSP] \notin Slot /\ exec[BSP] = Home(cur) /\ cur \in Slot \cup {NULL}
    BY <1>0, Zenon DEF Apart, Matched, Own, OwnConts, TypeOK, cur
  <2> QED  BY <2>1, Zenon DEF Home
<1>2. cur = NULL /\ cur' = BSP
  BY <1>0, <1>1, Zenon DEF Own, OwnConts, TypeOK, cur
<1>3. \A j \in Cont : at'[j] = IF j = Boot(BSP) THEN "yield_halt" ELSE at[j]
  BY <1>0, <1>1, Zenon DEF TypeOK
<1>4. OwnConts'
  <2>1. /\ \A j \in Cont : at'[j] \in Inside => j \in Slot \ {BSP} /\ self'[j] = j
        /\ \A j \in Cont : at'[j] = "start" => j \in Slot
        /\ \A j \in Cont : at'[j] = "enter" => j \in Slot \ {BSP}
        /\ \A j \in Cont : at'[j] \in {"sleep_lock", "sleep_crit", "yield_slept", "slept"} => ptr'[j] = j
    <3>1. \A j \in Cont : at'[j] = "yield_halt" \/ at'[j] = at[j]
      BY <1>3, Zenon
    <3>2. "yield_halt" \notin Inside \cup {"start", "enter", "sleep_lock", "sleep_crit", "yield_slept", "slept"}
      BY Zenon DEF Inside, Crit
    <3> QED  BY <1>0, <3>1, <3>2, Zenon DEF Own, OwnConts
  <2>2. exec'[BSP] = Home(cur)'
    BY <1>0, <1>1, <1>2, Zenon DEF Home
  <2>3. at'[Boot(BSP)] # "boot" /\ cur' # NULL
    BY <1>2, <1>3, OneProcessor, Zenon
  <2> QED  BY <1>0, <1>2, <2>1, <2>2, <2>3, Zenon DEF Own, OwnConts
<1>5. OwnStates'
  <2>1. \A t \in Slot : /\ state'[t] = IF t = BSP THEN "RUNNING" ELSE state[t]
                        /\ running_cpu'[t] = IF t = BSP THEN BSP ELSE running_cpu[t]
                        /\ at'[t] = at[t]
    BY <1>0, <1>3, OneProcessor, SMTT(60) DEF TypeOK
  <2>2. \A t \in Slot : state[t] # "ZOMBIE"
    BY <1>2, OneProcessor, Zenon DEF Own, OwnStates
  <2> QED  BY <1>0, <1>2, <2>1, <2>2, OneProcessor, SMTT(30) DEF Own, OwnStates
<1> QED  BY <1>4, <1>5, Zenon DEF Own

LEMMA BodiesOwn ==
  ASSUME NCPU = 1, Apart, Own, SleepBody(BSP) \/ ExitBody(BSP)
  PROVE  Own'
<1> DEFINE k == exec[BSP]
<1>0. /\ TypeOK /\ BSP \in CPU /\ mode[BSP] = "task" /\ k \in Cont /\ at[k] \in Crit /\ InTask(BSP)
      /\ UNCHANGED <<ctx, stack, cpu_vars, self, ptr, scheduler_active, mode, exec, target>>
  BY OneProcessor, Zenon DEF Apart, TypeOK, SleepBody, ExitBody, Here, InTask, Release, Crit
<1>1. k \in Slot \ {BSP} /\ self[k] = k
  BY <1>0, Zenon DEF Own, OwnConts, Inside
<1>2. cur = k /\ cur' = k /\ state[k] = "RUNNING"
  BY <1>0, <1>1, OnStack, CurrentRuns, Zenon DEF cur, Crit, cpu_vars
<1>3. at[k] = "sleep_crit" => ptr[k] = k
  BY <1>0, Zenon DEF Own, OwnConts
<1>4. PICK s \in {"SLEEPING", "ZOMBIE"} :
        /\ state' = [state EXCEPT ![k] = s] /\ running_cpu' = [running_cpu EXCEPT ![k] = NULL]
        /\ at' = [at EXCEPT ![k] = IF s = "SLEEPING" THEN "yield_slept" ELSE "yield_halt"]
        /\ s = "SLEEPING" => at[k] = "sleep_crit"
        /\ \A t \in Slot \ {k} : wake'[t] = wake[t]
  <2>1. CASE SleepBody(BSP)
    <3>1. ptr[k] = k
      BY <1>3, <2>1, Zenon DEF SleepBody, Here
    <3>2. /\ state' = [state EXCEPT ![k] = "SLEEPING"] /\ running_cpu' = [running_cpu EXCEPT ![k] = NULL]
          /\ at' = [at EXCEPT ![k] = "yield_slept"] /\ at[k] = "sleep_crit"
      BY <2>1, <3>1, Zenon DEF SleepBody, Release, GoTo, Here
    <3>3. \E n \in SleepTicks : wake' = [wake EXCEPT ![k] = n]
      BY <2>1, <3>1, Zenon DEF SleepBody
    <3>4. \A t \in Slot \ {k} : wake'[t] = wake[t]
      BY <1>0, <3>3, Zenon DEF TypeOK
    <3> QED  BY <3>2, <3>4, Zenon
  <2>2. CASE ExitBody(BSP)
    <3>2. /\ state' = [state EXCEPT ![k] = "ZOMBIE"] /\ running_cpu' = [running_cpu EXCEPT ![k] = NULL]
          /\ at' = [at EXCEPT ![k] = "yield_halt"] /\ wake' = wake
      BY <1>1, <2>2, Zenon DEF ExitBody, Release, GoTo
    <3> QED  BY <3>2, Zenon
  <2> QED  BY <2>1, <2>2, Zenon
<1>5. \A j \in Cont : at'[j] = IF j = k THEN (IF s = "SLEEPING" THEN "yield_slept" ELSE "yield_halt") ELSE at[j]
  BY <1>0, <1>4, Zenon DEF TypeOK
<1>6. OwnConts'
  <2>1. /\ \A j \in Cont : at'[j] \in Inside => j \in Slot \ {BSP} /\ self'[j] = j
        /\ \A j \in Cont : at'[j] = "start" => j \in Slot
        /\ \A j \in Cont : at'[j] = "enter" => j \in Slot \ {BSP}
        /\ \A j \in Cont : at'[j] \in {"sleep_lock", "sleep_crit", "yield_slept", "slept"} => ptr'[j] = j
    <3>1. /\ "yield_slept" \notin {"start", "enter"} \cup Crit
          /\ "yield_halt" \notin {"start", "enter", "sleep_lock", "sleep_crit", "yield_slept", "slept"} \cup Crit
      BY Zenon DEF Crit
    <3>2. \A j \in Cont \ {k} : at'[j] = at[j]
      BY <1>5, Zenon
    <3>3. at'[k] \in {"yield_slept", "yield_halt"}
      BY <1>0, <1>5, Zenon
    <3>4. at'[k] = "yield_slept" => ptr[k] = k
      BY <1>0, <1>3, <1>4, <1>5, <3>1, Zenon
    <3>5. /\ at'[k] \notin {"start", "enter"}
          /\ at'[k] \in {"sleep_lock", "sleep_crit", "yield_slept", "slept"} => ptr[k] = k
      BY <3>1, <3>3, <3>4, Zenon
    <3> QED  BY <1>0, <1>1, <3>2, <3>5, Zenon DEF Own, OwnConts
  <2>2. at'[Boot(BSP)] = at[Boot(BSP)]
    BY <1>1, <1>5, OneProcessor, Zenon
  <2> QED  BY <1>0, <1>1, <1>2, <2>1, <2>2, Zenon DEF Own, OwnConts, Home
<1>7. OwnStates'
  <2>1. /\ \A t \in Slot \ {k} : state'[t] = state[t] /\ running_cpu'[t] = running_cpu[t] /\ at'[t] = at[t]
        /\ state'[k] = s /\ running_cpu'[k] = NULL
        /\ at'[k] = IF s = "SLEEPING" THEN "yield_slept" ELSE "yield_halt"
    BY <1>0, <1>1, <1>4, <1>5, OneProcessor DEF TypeOK
  <2>2. mode'[BSP] = "task" /\ stack' = stack /\ s # "UNUSED" /\ s # "RUNNING" /\ s # "READY"
    BY <1>0, <1>4, Zenon
  <2>3. \A t \in Slot : state'[t] = "ZOMBIE" => t = k
    BY <1>2, <2>1, Zenon DEF Own, OwnStates
  <2>4. \A t \in Slot : at'[t] \in {"yield_slept", "slept"} => state'[t] = "SLEEPING" \/ wake'[t] = 0
    <3>1. at'[k] \in {"yield_slept", "slept"} => state'[k] = "SLEEPING"
      <4>1. CASE s = "SLEEPING"  BY <2>1, <4>1, Zenon
      <4>2. CASE s = "ZOMBIE"
        <5>1. at'[k] = "yield_halt"  BY <2>1, <4>2, Zenon
        <5> QED  BY <5>1, Zenon
      <4> QED  BY <4>1, <4>2, Zenon
    <3>2. \A t \in Slot : at[t] \in {"yield_slept", "slept"} => state[t] = "SLEEPING" \/ wake[t] = 0
      BY Zenon DEF Own, OwnStates
    <3>3. ASSUME NEW t \in Slot \ {k}
          PROVE  at'[t] \in {"yield_slept", "slept"} => state'[t] = "SLEEPING" \/ wake'[t] = 0
      <4>1. at'[t] = at[t] /\ state'[t] = state[t] /\ wake'[t] = wake[t]
        BY <1>4, <2>1, Zenon
      <4> QED  BY <3>2, <4>1, Zenon
    <3> QED  BY <3>1, <3>3, Zenon
  <2>5. (\A t \in Slot : state'[t] # "RUNNING" => running_cpu'[t] = NULL) /\ \A t \in Slot : stack'[t] <=> state'[t] # "UNUSED"
    BY <1>2, <2>1, <2>2, Zenon DEF Own, OwnStates
  <2>6. state'[BSP] \in {"READY", "RUNNING"}
    BY <1>1, <2>1, OneProcessor, Zenon DEF Own, OwnStates
  <2> QED  BY <1>2, <1>4, <2>1, <2>2, <2>3, <2>4, <2>5, <2>6, Zenon DEF OwnStates
<1> QED  BY <1>6, <1>7, Zenon DEF Own

LEMMA CreateOwn ==
  ASSUME NCPU = 1, Apart, Own, CreateBody(BSP)
  PROVE  Own'
<1> DEFINE k == exec[BSP]
           idx == CHOOSE t \in Unused : \A u \in Unused : t <= u
<1>0. /\ TypeOK /\ BSP \in CPU /\ mode[BSP] = "task" /\ k \in Cont /\ at[k] \in Crit /\ InTask(BSP)
      /\ UNCHANGED <<cpu_vars, self, ptr, scheduler_active, mode, exec, target>>
  BY OneProcessor, Zenon DEF Apart, TypeOK, CreateBody, Here, InTask, Crit
<1>1. k \in Slot \ {BSP} /\ self[k] = k
  BY <1>0, Zenon DEF Own, OwnConts, Inside
<1>2. cur = k /\ state[k] = "RUNNING"
  BY <1>0, <1>1, OnStack, CurrentRuns, Zenon DEF cur, Crit, cpu_vars
<1>3. CASE UNCHANGED task_vars /\ GoTo(BSP, "run")
  <2>1. LocalOwn("run", "task")
    BY <1>0, <1>1, <1>2, <1>3, SMTT(30) DEF LocalOwn, GoTo, Places, Inside, TypeOK, Crit
  <2> QED  BY <1>0, <2>1, LocalOwnKeeps, Zenon
<1>4. CASE ~(UNCHANGED task_vars /\ GoTo(BSP, "run"))
  <2>1. /\ Unused # {}
        /\ state' = [state EXCEPT ![idx] = "READY"] /\ stack' = [stack EXCEPT ![idx] = TRUE]
        /\ wake' = [wake EXCEPT ![idx] = 0] /\ running_cpu' = [running_cpu EXCEPT ![idx] = NULL]
        /\ ctx' = [ctx EXCEPT ![idx] = idx]
        /\ at' = [at EXCEPT ![idx] = "start", ![k] = "run"]
    BY <1>4, Zenon DEF CreateBody
  <2>2. idx \in Slot /\ state[idx] = "UNUSED"
    <3>1. Unused \in SUBSET Nat
      BY DEF Unused, Slot
    <3>2. \E t \in Unused : \A u \in Unused : t <= u
      BY <2>1, <3>1, LeastExists, Zenon
    <3>3. idx \in Unused
      BY <3>2, Zenon
    <3> QED  BY <3>3, Zenon DEF Unused
  <2> HIDE DEF idx
  <2>3. idx # k /\ idx # BSP /\ idx \in Cont /\ idx # Boot(BSP) /\ k # Boot(BSP)
    BY <1>1, <1>2, <2>2, OneProcessor, Zenon DEF Own, OwnStates
  <2>4. \A j \in Cont : at'[j] = IF j = k THEN "run" ELSE IF j = idx THEN "start" ELSE at[j]
    BY <1>0, <2>1, <2>3, Zenon DEF TypeOK
  <2>5. OwnConts'
    <3>1. /\ \A j \in Cont : at'[j] \in Inside => j \in Slot \ {BSP} /\ self'[j] = j
          /\ \A j \in Cont : at'[j] = "start" => j \in Slot
          /\ \A j \in Cont : at'[j] = "enter" => j \in Slot \ {BSP}
          /\ \A j \in Cont : at'[j] \in {"sleep_lock", "sleep_crit", "yield_slept", "slept"} => ptr'[j] = j
      <4>1. "start" \notin Inside \cup {"enter", "sleep_lock", "sleep_crit", "yield_slept", "slept"}
        BY Zenon DEF Inside, Crit
      <4>2. "run" \notin {"start", "enter", "sleep_lock", "sleep_crit", "yield_slept", "slept"}
        BY Zenon
      <4>3. \A j \in Cont : (j = k /\ at'[j] = "run") \/ (j = idx /\ at'[j] = "start") \/ at'[j] = at[j]
        <5> TAKE j \in Cont
        <5>0. at'[j] = IF j = k THEN "run" ELSE IF j = idx THEN "start" ELSE at[j]
          BY <2>4, Zenon
        <5>1. j = k => at'[j] = "run"  BY <5>0, Zenon
        <5>2. j # k /\ j = idx => at'[j] = "start"  BY <5>0, Zenon
        <5>3. j # k /\ j # idx => at'[j] = at[j]  BY <5>0, Zenon
        <5> QED  BY <5>1, <5>2, <5>3, Zenon
      <4> QED  BY <1>0, <1>1, <2>2, <4>1, <4>2, <4>3, Zenon DEF Own, OwnConts
    <3>2. at'[Boot(BSP)] = at[Boot(BSP)] /\ cur' = cur
      BY <1>0, <2>3, <2>4, OneProcessor, Zenon DEF cur, cpu_vars
    <3>3. ctx'[BSP] = ctx[BSP] /\ \A t \in Slot : t # BSP => ctx'[t] = t
      BY <1>0, <2>1, <2>3, OneProcessor, SMTT(60) DEF TypeOK, Own, OwnConts
    <3> QED  BY <1>0, <3>1, <3>2, <3>3, Zenon DEF Own, OwnConts, Home
  <2>6. OwnStates'
    <3>1. /\ \A t \in Slot \ {idx} : state'[t] = state[t] /\ running_cpu'[t] = running_cpu[t] /\ stack'[t] = stack[t]
                                     /\ wake'[t] = wake[t]
          /\ state'[idx] = "READY" /\ running_cpu'[idx] = NULL /\ stack'[idx] = TRUE
      BY <1>0, <2>1, <2>2, Zenon DEF TypeOK
    <3>2. cur' = k /\ at'[idx] = "start" /\ at'[k] = "run" /\ \A t \in Slot \ {idx, k} : at'[t] = at[t]
      BY <1>0, <1>2, <2>3, <2>4, OneProcessor, Zenon DEF cur, cpu_vars
    <3>3. state'[k] = "RUNNING" /\ k \in Slot \ {idx} /\ BSP \in Slot \ {idx}
      BY <1>1, <1>2, <2>3, <3>1, OneProcessor, Zenon
    <3>4. \A t \in Slot : state'[t] # "ZOMBIE"
      <4>1. \A t \in Slot : state[t] = "ZOMBIE" => t = cur
        BY Zenon DEF Own, OwnStates
      <4>2. \A t \in Slot : state[t] # "ZOMBIE"
        BY <1>2, <4>1, Zenon
      <4> QED  BY <3>1, <4>2, Zenon
    <3>5. (\A t \in Slot : state'[t] # "RUNNING" => running_cpu'[t] = NULL) /\ \A t \in Slot : stack'[t] <=> state'[t] # "UNUSED"
      BY <3>1, Zenon DEF Own, OwnStates
    <3>6. \A t \in Slot : at'[t] \in {"yield_slept", "slept"} => state'[t] = "SLEEPING" \/ wake'[t] = 0
      <4>1. \A t \in Slot : at[t] \in {"yield_slept", "slept"} => state[t] = "SLEEPING" \/ wake[t] = 0
        BY Zenon DEF Own, OwnStates
      <4>2. ASSUME NEW t \in Slot \ {idx, k}
            PROVE  at'[t] \in {"yield_slept", "slept"} => state'[t] = "SLEEPING" \/ wake'[t] = 0
        <5>1. at'[t] = at[t] /\ state'[t] = state[t] /\ wake'[t] = wake[t]
          BY <3>1, <3>2, Zenon
        <5> QED  BY <4>1, <5>1, Zenon
      <4>3. at'[idx] \notin {"yield_slept", "slept"} /\ at'[k] \notin {"yield_slept", "slept"}
        BY <3>2, Zenon
      <4> QED  BY <4>2, <4>3, Zenon
    <3>7. state'[BSP] \in {"READY", "RUNNING"}
      BY <3>1, <3>3, Zenon DEF Own, OwnStates
    <3> QED  BY <3>2, <3>3, <3>4, <3>5, <3>6, <3>7, Zenon DEF OwnStates
  <2> QED  BY <2>5, <2>6, Zenon DEF Own
<1> QED  BY <1>3, <1>4, Zenon

\* The handlers up to their section.  Where the interrupted task is no longer
\* RUNNING the lock is open, so that task_schedule_isr goes on.
LEMMA HandlersOwn ==
  ASSUME NCPU = 1, Apart, Own, TimerFires \/ Tick \/ IsrTryLock(BSP)
  PROVE  Own'
<1>0. /\ TypeOK /\ BSP \in CPU /\ mode[BSP] \in {"task", "isr"}
      /\ UNCHANGED <<state, ctx, running_cpu, stack, current_task, scheduler_active, exec, target, at, self, ptr>>
      /\ cur' = cur
  BY OneProcessor, Zenon DEF Apart, TimerFires, Tick, IsrTryLock, InTask, task_vars, cpu_vars, local_vars, cur
<1>1. \A t \in Slot : wake'[t] = wake[t] \/ (wake[t] = 0 => wake'[t] = 0)
  BY <1>0, SMTT(30) DEF TimerFires, Tick, IsrTryLock, task_vars
<1>2. scheduler_active /\ mode[BSP] = "isr" /\ at[exec[BSP]] \notin Crit => ~sched_lock
  BY <1>0, OneProcessor, Zenon DEF Apart, ProcessorsApart, LockExclusive, HoldsLock, Crit
<1>3. /\ mode'[BSP] \in {"task", "isr", "tick", "pick"}
      /\ mode'[BSP] = "tick" => mode[BSP] = "task"
      /\ mode'[BSP] \in {"tick", "pick"} => scheduler_active
      /\ mode[BSP] = "isr" /\ scheduler_active /\ at[exec[BSP]] \notin Crit => mode'[BSP] = "pick"
  <2>1. CASE TimerFires
    BY <1>0, <2>1, Zenon DEF TimerFires, InHandler, InTask, TypeOK
  <2>2. CASE Tick
    BY <1>0, <2>2, Zenon DEF Tick, InHandler, InTask, TypeOK, TryLock
  <2>3. CASE IsrTryLock(BSP)
    BY <1>0, <1>2, <2>3, Zenon DEF IsrTryLock, InHandler, TypeOK, TryLock
  <2> QED  BY <2>1, <2>2, <2>3, Zenon
<1>4. OwnConts'
  BY <1>0, <1>3, Zenon DEF Own, OwnConts, Home
<1>5. OwnStates'
  <2>1. cur \in Slot /\ cur # BSP => exec[BSP] = cur /\ scheduler_active
    BY <1>0, OneProcessor, Zenon DEF Own, OwnConts, Home
  <2>2. cur = BSP => at[cur] \notin {"slept", "yield_slept"} /\ state[cur] # "ZOMBIE"
    BY <1>0, OneProcessor, Zenon DEF Own, OwnConts, OwnStates, Inside
  <2>3. cur \in Slot /\ at[cur] \in {"slept", "halt"} /\ InIsr /\ cur # BSP => InIsr'
    BY <1>0, <1>3, <2>1, Zenon DEF InIsr, Crit
  <2>4. \A t \in Slot : state'[t] = "ZOMBIE" => /\ t = cur' /\ mode'[BSP] # "switch"
                                                /\ at'[t] = "yield_halt" \/ (at'[t] = "halt" /\ InIsr')
    BY <1>0, <1>3, <2>2, <2>3, Zenon DEF Own, OwnStates
  <2>5. cur' # NULL /\ state'[cur'] \in {"SLEEPING", "READY"}
          => mode'[BSP] # "switch" /\ (at'[cur'] = "yield_slept" \/ (at'[cur'] = "slept" /\ InIsr'))
    BY <1>0, <1>3, <2>2, <2>3 DEF Own, OwnStates, TypeOK, cur
  <2> QED  BY <1>0, <1>1, <2>4, <2>5, Zenon DEF Own, OwnStates
<1> QED  BY <1>4, <1>5, Zenon DEF Own

LEMMA TickBodyOwn ==
  ASSUME NCPU = 1, Apart, Own, TickBody
  PROVE  Own'
<1>0. /\ TypeOK /\ BSP \in CPU /\ mode[BSP] = "tick" /\ mode'[BSP] = "task"
      /\ UNCHANGED <<ctx, wake, running_cpu, stack, current_task, scheduler_active, exec, target, at, self, ptr>>
      /\ cur' = cur
  BY OneProcessor, Zenon DEF Apart, TypeOK, TickBody, InHandler, cpu_vars, local_vars, cur
<1>1. \A t \in Slot : \/ state'[t] = state[t]
                      \/ state[t] = "SLEEPING" /\ wake[t] = 0 /\ state'[t] = "READY"
  BY Zenon DEF TickBody, Due
<1>2. cur # NULL
  BY <1>0, Zenon DEF Own, OwnConts
<1>3. cur \in Slot
  BY <1>0, <1>2, Zenon DEF TypeOK, cur
<1>4. OwnConts'
  BY <1>0, Zenon DEF Own, OwnConts, Home
<1>5. OwnStates'
  <2>1. \A t \in Slot : state'[t] = "ZOMBIE" => t = cur /\ at[t] = "yield_halt"
    BY <1>0, <1>1, Zenon DEF Own, OwnStates, InIsr
  <2>2. state'[cur] \in {"SLEEPING", "READY"} => at[cur] = "yield_slept"
    BY <1>0, <1>1, <1>2, <1>3, Zenon DEF Own, OwnStates, InIsr
  <2>3. \A t \in Slot : at'[t] \in {"yield_slept", "slept"} => state'[t] = "SLEEPING" \/ wake'[t] = 0
    BY <1>0, <1>1, Zenon DEF Own, OwnStates
  <2>4. /\ state'[BSP] \in {"READY", "RUNNING"}
        /\ \A t \in Slot : state'[t] # "RUNNING" => running_cpu'[t] = NULL
        /\ \A t \in Slot : stack'[t] <=> state'[t] # "UNUSED"
    <3>1. state'[BSP] \in {"READY", "RUNNING"}
      BY <1>1, OneProcessor, Zenon DEF Own, OwnStates
    <3>2. \A t \in Slot : state'[t] # "RUNNING" => running_cpu'[t] = NULL
      BY <1>0, <1>1, Zenon DEF Own, OwnStates
    <3>3. \A t \in Slot : stack'[t] <=> state'[t] # "UNUSED"
      BY <1>0, <1>1, Zenon DEF Own, OwnStates
    <3> QED  BY <3>1, <3>2, <3>3, Zenon
  <2>5. state'[cur] # "UNUSED"
    BY <1>1, <1>2, <1>3, Zenon DEF Own, OwnStates
  <2> QED  BY <1>0, <2>1, <2>2, <2>3, <2>4, <2>5, Zenon DEF OwnStates
<1> QED  BY <1>4, <1>5, Zenon DEF Own

LEMMA ReturnOwn ==
  ASSUME NCPU = 1, Apart, Own, IsrReturn(BSP)
  PROVE  Own'
<1>0. /\ TypeOK /\ BSP \in CPU /\ mode[BSP] = "switch" /\ mode'[BSP] = "task" /\ exec'[BSP] = target[BSP]
      /\ UNCHANGED <<state, ctx, wake, running_cpu, stack, current_task, scheduler_active, at, self, ptr>>
      /\ cur' = cur
  BY OneProcessor, Zenon DEF Apart, TypeOK, IsrReturn, InHandler, task_vars, cpu_vars, local_vars, cur
<1>1. OwnConts'
  BY <1>0, Zenon DEF Own, OwnConts, Home
<1>2. OwnStates'
  BY <1>0, Zenon DEF Own, OwnStates
<1> QED  BY <1>1, <1>2 DEF Own

LEMMA ScheduleOwn ==
  ASSUME NCPU = 1, Apart, Own, IsrSchedule(BSP)
  PROVE  Own'
<1> DEFINE prev == current_task[BSP]
           cleaned == [t \in Slot |-> IF t \in Zombies THEN "UNUSED" ELSE state[t]]
           preempted == Preempted(cleaned, prev)
           st == [t \in Slot |-> IF t \in preempted THEN "READY" ELSE cleaned[t]]
           rc == [t \in Slot |-> IF t \in preempted \cup Zombies THEN NULL ELSE running_cpu[t]]
           next == task_pick_next(st, rc, BSP)
           now == IF next = NULL THEN prev ELSE next
<1>0. /\ mode[BSP] = "pick"
      /\ stack' = [t \in Slot |-> stack[t] /\ t \notin Zombies]
      /\ ctx' = [t \in Slot |-> IF t = prev THEN exec[BSP] ELSE ctx[t]]
      /\ state' = [t \in Slot |-> IF t = now THEN "RUNNING" ELSE st[t]]
      /\ running_cpu' = [t \in Slot |-> IF t = now THEN BSP ELSE rc[t]]
      /\ current_task' = [current_task EXCEPT ![BSP] = now]
      /\ target' = [target EXCEPT ![BSP] = IF next = NULL THEN exec[BSP] ELSE ctx'[next]]
      /\ mode' = [mode EXCEPT ![BSP] = "switch"]
      /\ UNCHANGED <<wake, scheduler_active, exec, at, self, ptr>>
  BY Zenon DEF IsrSchedule, InHandler, NewCurrent, local_vars
<1>1. TypeOK /\ BSP \in CPU /\ BSP \in Slot
  BY OneProcessor, Zenon DEF Apart
<1>2. prev \in Slot /\ prev = cur /\ exec[BSP] = Home(prev)
  <2>1. prev = cur
    BY Zenon DEF cur
  <2>2. prev \in Slot \cup {NULL}
    BY <1>1, Zenon DEF TypeOK
  <2>3. prev # NULL /\ exec[BSP] = Home(prev)
    BY <1>0, <2>1, Zenon DEF Own, OwnConts
  <2> QED  BY <2>1, <2>2, <2>3, Zenon
<1>3. \A t \in Slot :
        /\ state[t] = "ZOMBIE" => st[t] = "UNUSED" /\ rc[t] = NULL
        /\ t = prev /\ state[t] = "RUNNING" => st[t] = "READY" /\ rc[t] = NULL
        /\ state[t] # "ZOMBIE" /\ (t # prev \/ state[t] # "RUNNING") => st[t] = state[t] /\ rc[t] = running_cpu[t]
  BY Zenon DEF Preempted, Zombies
<1>4. next # NULL => next \in Slot /\ st[next] = "READY"
  <2>1. next = task_pick_next(st, rc, BSP)
    BY Zenon
  <2> HIDE DEF next, st, rc
  <2>2. next # NULL => next \in Candidates(st, rc, BSP)
    BY <1>1, <2>1, PickIs, Zenon
  <2> QED  BY <2>2, Zenon DEF Candidates
<1>5. next = NULL => ~(st[BSP] = "READY" /\ rc[BSP] = NULL)
  <2>1. next = task_pick_next(st, rc, BSP)
    BY Zenon
  <2> HIDE DEF next, st, rc
  <2>2. next = NULL => Candidates(st, rc, BSP) = {}
    BY <1>1, <2>1, PickIs, Zenon
  <2>3. Allows(BSP, BSP)
    BY Zenon DEF Allows
  <2> QED  BY <1>1, <2>2, <2>3, Zenon DEF Candidates
<1> HIDE DEF next, st, rc, preempted, cleaned
<1>6. state[BSP] = "RUNNING" => BSP = prev
  BY <1>1, OneProcessor, Zenon DEF Apart, ProcessorsApart, RunningIsCurrent
<1>7. st[BSP] = "READY" /\ rc[BSP] = NULL
  <2>1. state[BSP] \in {"READY", "RUNNING"} /\ (state[BSP] # "RUNNING" => running_cpu[BSP] = NULL)
    BY <1>1, Zenon DEF Own, OwnStates
  <2> QED  BY <1>1, <1>3, <1>6, <2>1, Zenon
<1>8. next \in Slot /\ st[next] = "READY" /\ now = next /\ next # NULL
  BY <1>4, <1>5, <1>7, Zenon
<1> HIDE DEF now
<1>9. /\ mode'[BSP] = "switch" /\ cur' = next /\ target'[BSP] = ctx'[next]
      /\ \A t \in Slot : state'[t] = (IF t = next THEN "RUNNING" ELSE st[t])
      /\ \A t \in Slot : running_cpu'[t] = (IF t = next THEN BSP ELSE rc[t])
      /\ \A t \in Slot : ctx'[t] = (IF t = prev THEN Home(prev) ELSE ctx[t])
  <2>1. mode'[BSP] = "switch" /\ target'[BSP] = ctx'[next]
    BY <1>0, <1>1, <1>8, Zenon DEF TypeOK
  <2>2. cur' = next
    BY <1>0, <1>1, <1>8, Zenon DEF TypeOK, cur
  <2>3. \A t \in Slot : state'[t] = (IF t = next THEN "RUNNING" ELSE st[t])
    BY <1>0, <1>8, Zenon
  <2>4. \A t \in Slot : running_cpu'[t] = (IF t = next THEN BSP ELSE rc[t])
    BY <1>0, <1>8, Zenon
  <2>5. \A t \in Slot : ctx'[t] = (IF t = prev THEN Home(prev) ELSE ctx[t])
    BY <1>0, <1>2, Zenon
  <2> QED  BY <2>1, <2>2, <2>3, <2>4, <2>5, Zenon
<1>10. \A t \in Slot : ctx'[t] = Home(t)
  <2>1. Home(BSP) = Boot(BSP) /\ \A t \in Slot : t # BSP => Home(t) = t
    BY OneProcessor, Zenon DEF Home
  <2>2. (\A t \in Slot : t # BSP => ctx[t] = t) /\ (prev # BSP => ctx[BSP] = Boot(BSP))
    BY <1>2, OneProcessor, Zenon DEF Own, OwnConts
  <2>3. \A t \in Slot : t # prev => ctx[t] = Home(t)
    BY <2>1, <2>2, Zenon
  <2> TAKE t \in Slot
  <2>4. CASE t = prev  BY <1>9, <2>4, Zenon
  <2>5. CASE t # prev  BY <1>9, <2>3, <2>5, Zenon
  <2> QED  BY <2>4, <2>5, Zenon
<1>11. OwnConts'
  <2>1. scheduler_active /\ at[Boot(BSP)] # "boot"
    BY <1>2, OneProcessor, Zenon DEF Own, OwnConts
  <2>2. target'[BSP] = Home(cur)'
    BY <1>8, <1>9, <1>10, Zenon DEF Home
  <2>3. (\A t \in Slot : t # BSP => ctx'[t] = t) /\ ctx'[BSP] = Boot(BSP)
    BY <1>1, <1>10, OneProcessor, Zenon DEF Home
  <2> QED  BY <1>0, <1>8, <1>9, <2>1, <2>2, <2>3, Zenon DEF Own, OwnConts
<1>12. OwnStates'
  <2>1. \A t \in Slot : t \in Zombies <=> state[t] = "ZOMBIE"
    BY Zenon DEF Zombies
  <2>2. \A t \in Slot : st[t] # "ZOMBIE" /\ (st[t] = "UNUSED" <=> state[t] \in {"UNUSED", "ZOMBIE"})
    BY <1>3, Zenon
  <2>3. \A t \in Slot : st[t] # "RUNNING" => rc[t] = NULL
    BY <1>3, SMTT(60) DEF Own, OwnStates
  <2>4. /\ state'[BSP] \in {"READY", "RUNNING"}
        /\ \A t \in Slot : state'[t] # "RUNNING" => running_cpu'[t] = NULL
    BY <1>1, <1>7, <1>9, <2>3, Zenon
  <2>5. \A t \in Slot : stack'[t] <=> state'[t] # "UNUSED"
    <3> TAKE t \in Slot
    <3>1. stack'[t] <=> (stack[t] /\ t \notin Zombies)
      BY <1>0, Zenon
    <3>2. stack[t] <=> state[t] # "UNUSED"
      BY Zenon DEF Own, OwnStates
    <3>3. state'[t] # "UNUSED" <=> state[t] \notin {"UNUSED", "ZOMBIE"}
      BY <1>8, <1>9, <2>2, Zenon
    <3> QED  BY <2>1, <3>1, <3>2, <3>3, Zenon
  <2>6. state'[cur'] = "RUNNING" /\ \A t \in Slot : state'[t] # "ZOMBIE"
    BY <1>8, <1>9, <2>2, Zenon
  <2>7. \A t \in Slot : at'[t] \in {"yield_slept", "slept"} => state'[t] = "SLEEPING" \/ wake'[t] = 0
    <3> SUFFICES ASSUME NEW t \in Slot, at[t] \in {"yield_slept", "slept"} PROVE state'[t] = "SLEEPING" \/ wake[t] = 0
      BY <1>0, Zenon
    <3>1. state[t] = "SLEEPING" \/ wake[t] = 0
      BY Zenon DEF Own, OwnStates
    <3>2. state[t] = "SLEEPING" => st[t] = "SLEEPING" /\ t # next
      BY <1>3, <1>8, Zenon
    <3> QED  BY <1>9, <3>1, <3>2, Zenon
  <2> QED  BY <2>4, <2>5, <2>6, <2>7, Zenon DEF OwnStates
<1> QED  BY <1>11, <1>12 DEF Own

LEMMA InitOwn == ASSUME NCPU = 1, Init PROVE Own
<1>1. /\ cur = NULL /\ mode[BSP] = "task" /\ exec[BSP] = Boot(BSP) /\ ~scheduler_active
      /\ \A t \in Slot : at[t] = "start" /\ ctx[t] = t /\ running_cpu[t] = NULL /\ wake[t] = 0
      /\ at[Boot(BSP)] = "boot"
  BY OneProcessor, Zenon DEF Init, cur
<1>2. OwnConts
  BY <1>1, OneProcessor, Zenon DEF OwnConts, Home, Inside, Crit
<1>3. /\ \A t \in Slot : state[t] = IF t < NCPU + NTASKS THEN "READY" ELSE "UNUSED"
      /\ \A t \in Slot : stack[t] <=> t < NCPU + NTASKS
  BY Zenon DEF Init
<1>4. state[BSP] = "READY"
  BY <1>3, SchedAssumption, OneProcessor DEF BSP
<1>5. OwnStates
  BY <1>1, <1>3, <1>4, Zenon DEF OwnStates
<1> QED  BY <1>2, <1>5, Zenon DEF Own

LEMMA StepKeepsOwn ==
  ASSUME NCPU = 1, Apart, Own, [Next]_vars
  PROVE  Own'
<1>1. CASE UNCHANGED vars
  <2>1. UNCHANGED <<state, ctx, wake, running_cpu, stack, current_task, scheduler_active, mode, exec, target, at, self, ptr>>
    BY <1>1, Zenon DEF vars, task_vars, cpu_vars
  <2>2. OwnConts'
    BY <2>1, Zenon DEF Own, OwnConts, Home, cur
  <2>3. OwnStates'
    BY <2>1, Zenon DEF Own, OwnStates, cur, InIsr
  <2> QED  BY <2>2, <2>3, Zenon DEF Own
<1>2. CASE TaskStep(BSP)
  BY <1>2, TaskCodeOwn, StartOwn, BodiesOwn, CreateOwn, Zenon DEF TaskStep
<1>3. CASE HandlerStep(BSP)
  BY <1>3, HandlersOwn, ScheduleOwn, ReturnOwn, Zenon DEF HandlerStep
<1>4. CASE TimerFires \/ Tick \/ TickBody
  BY <1>4, HandlersOwn, TickBodyOwn, Zenon
<1>5. CPU = {BSP}
  BY OneProcessor, Zenon
<1> QED  BY <1>1, <1>2, <1>3, <1>4, <1>5, Zenon DEF Next, CpuStep

\* With one processor Apart and Own are kept together.
LEMMA OneProcessorKept == NCPU = 1 => (Spec => [](Apart /\ Own))
<1> SUFFICES ASSUME NCPU = 1 PROVE Spec => [](Apart /\ Own)
  BY Zenon
<1>1. Init => Apart /\ Own
  BY InitApart, InitOwn, Zenon
<1>2. Apart /\ Own /\ [Next]_vars => (Apart /\ Own)'
  BY OneProcessor, StepKeepsApart, StepKeepsOwn, Zenon
<1> QED  BY <1>1, <1>2, PTL DEF Spec

\* With one processor, and any number of slots and tasks: task code runs on the
\* stack of the task current_task names, never on one that task_cleanup has freed,
\* and as RUNNING but on its way into or out of task_sleep or task_trampoline.
THEOREM OwnStackHolds == NCPU = 1 => (Spec => []OwnStack)
<1> SUFFICES ASSUME NCPU = 1 PROVE Spec => []OwnStack
  BY Zenon
<1>1. Apart /\ Own => OwnStack
  <2> SUFFICES ASSUME Apart, Own, NEW c \in CPU, InTask(c)
               PROVE  /\ exec[c] = current_task[c] \/ (exec[c] = Boot(c) /\ current_task[c] \in {NULL, c})
                      /\ exec[c] \in Slot => stack[exec[c]]
                      /\ at[exec[c]] \in {"run", "slept", "sleep_read", "sleep_lock"} => state[current_task[c]] = "RUNNING"
    BY Zenon DEF OwnStack
  <2>1. c = BSP /\ mode[c] # "switch" /\ exec[c] \in Cont
    BY OneProcessor, SMTT(60) DEF InTask, Apart, TypeOK
  <2>2. On(c, exec[c], current_task[c])
    BY <2>1, Zenon DEF Apart, Matched
  <2>3. exec[c] \in Slot => stack[exec[c]]
    BY <2>1, OnStack, Zenon DEF Own, OwnStates
  <2>4. at[exec[c]] \in {"run", "slept", "sleep_read", "sleep_lock"} => state[current_task[c]] = "RUNNING"
    <3> HAVE at[exec[c]] \in {"run", "slept", "sleep_read", "sleep_lock"}
    <3>1. exec[c] \in Slot
      BY <2>1, Zenon DEF Own, OwnConts, Inside
    <3> QED  BY <2>1, <3>1, OnStack, CurrentRuns, Zenon DEF cur
  <2> QED  BY <2>2, <2>3, <2>4, Zenon DEF On
<1> QED  BY OneProcessorKept, <1>1, PTL

\* With one processor, and any number of slots and tasks, task_sleep(n) does not
\* return before n ticks of the PIT have passed, whatever wakes and interrupts
\* come in between (task_sleep, task_tick, task_schedule_isr).
THEOREM SleepHonouredHolds == NCPU = 1 => (Spec => []SleepHonoured)
<1> SUFFICES ASSUME NCPU = 1 PROVE Spec => []SleepHonoured
  OBVIOUS
<1>1. Apart /\ Own => SleepHonoured
  <2> SUFFICES ASSUME Apart, Own, NEW c \in CPU, Here(c, "slept") PROVE wake[ptr[exec[c]]] = 0
    BY Zenon DEF SleepHonoured
  <2>1. c = BSP /\ mode[c] # "switch" /\ InTask(c) /\ at[exec[c]] = "slept" /\ exec[c] \in Cont
    BY OneProcessor, SMTT(30) DEF Here, InTask, Apart, TypeOK
  <2>2. exec[c] \in Slot /\ ptr[exec[c]] = exec[c]
    BY <2>1, Zenon DEF Own, OwnConts, Inside
  <2>3. state[exec[c]] = "RUNNING"
    BY <2>1, <2>2, CurrentRuns, Zenon
  <2> QED  BY <2>1, <2>2, <2>3, Zenon DEF Own, OwnStates
<1> QED  BY OneProcessorKept, <1>1, PTL
=============================================================================
