------------------------------- MODULE Kmt -------------------------------
(***************************************************************************)
(* The kernel multithreading core: trap entry (os.c), the two interrupt    *)
(* handlers kmt_context_save and kmt_schedule, and the semaphores (kmt.c). *)
(*                                                                         *)
(* A step of a CPU is a maximal piece of code that other CPUs observe as   *)
(* one step.  A section guarded by task->status is one step.  The section  *)
(* of kmt_sem_wait guarded by sem->lock is one step, the one of            *)
(* kmt_sem_signal is two, because kmt_sem_wait reads sem->resource again   *)
(* after it released the lock and can see the value between the two.       *)
(*                                                                         *)
(* Every task runs a fixed program of semaphore operations, yields and     *)
(* system calls, for ever; everything else a task computes is abstracted.  *)
(***************************************************************************)
EXTENDS Integers, Sequences, FiniteSets

CONSTANTS Cpus,        \* the processors that execute os_run
          Tasks,       \* the tasks of task_list[1 .. task_cnt-1] (pid > 0)
          Sems,        \* the semaphores
          Program,     \* Program[t]: the operations task t repeats
          InitValue,   \* InitValue[s]: the value given to kmt_sem_init
          IrqSem,      \* semaphore the timer handler signals, or NULL
          MaxPermits,  \* bound: the timer stops signalling IrqSem there
          NULL,        \* the null pointer
          Idle         \* the idle task of the processor at hand (pid = 0)

Operation == [op : {"P", "V"}, sem : Sems]
               \cup [op : {"yield", "enter", "leave"}, sem : {NULL}]

ASSUME TaskAssumption == NULL \notin Tasks /\ Idle \notin Tasks /\ NULL # Idle
ASSUME FiniteAssumption == IsFiniteSet(Tasks)
ASSUME SemAssumption == NULL \notin Sems /\ IrqSem \in Sems \cup {NULL}
ASSUME CpuAssumption == NULL \notin Cpus
ASSUME ProgramAssumption ==
  \A t \in Tasks : Program[t] \in Seq(Operation) /\ Program[t] # <<>>
ASSUME ValueAssumption == InitValue \in [Sems -> Nat] /\ MaxPermits \in Nat

VARIABLES
  current,    \* current[c]: cpu_list[c].current_task
  save,       \* save[c]: cpu_list[c].save_task
  mode,       \* mode[c]: what CPU c is executing, see Modes
  target,     \* target[c]: the task claimed by the draw in progress
  block,      \* block[t]: task->block
  isRunning,  \* isRunning[t]: task->is_running
  nested,     \* nested[t]: task->nested_interrupt
  ctx,        \* ctx[t][i]: the trap level task->context[i] was saved at
  level,      \* level[t]: 1 while t is inside a system call, else 0
  resource,   \* resource[s]: sem->resource
  waiters,    \* waiters[s]: the tasks of sem->task_list[0 .. task_cnt-1]
  semlock,    \* semlock[s]: the CPU inside kmt_sem_signal(s), or NULL
  pc,         \* pc[t]: index of the operation t executes
  phase       \* phase[t]: how far t is in that operation, see Phases

cpuVars  == <<current, save, mode, target>>
taskVars == <<block, isRunning, nested, ctx, level>>
semVars  == <<resource, waiters, semlock>>
progVars == <<pc, phase>>
vars     == <<cpuVars, taskVars, semVars, progVars>>

\* "run": on the current task's stack, interrupts enabled.
\* "irq": in the timer handler, before kmt_sem_signal took the lock.
\* "wakeTask", "wakeIrq": in kmt_sem_signal after resource++, lock held.
\* "save", "sched", "claim", "iret": the stages of os_trap.
Modes == {"run", "irq", "wakeTask", "wakeIrq", "save", "sched", "claim", "iret"}

\* "start": the operation has not begun.
\* "reread": P released sem->lock and will test sem->resource again.
\* "wait": P has called yield() and has not returned.
Phases == {"start", "reread", "wait"}

Op(t)  == Program[t][pc[t]].op
Sem(t) == Program[t][pc[t]].sem

NextPc(t) == IF pc[t] = Len(Program[t]) THEN 1 ELSE pc[t] + 1

Finish(t) == /\ pc' = [pc EXCEPT ![t] = NextPc(t)]
             /\ phase' = [phase EXCEPT ![t] = "start"]

\* The tasks in the middle of kmt_sem_wait(s), past its locked section.
InP(s) == {t \in Tasks : phase[t] # "start" /\ Sem(t) = s}

\* The stack CPU c runs on: until the return from the trap it is that of the
\* task that was interrupted, which kmt_context_save recorded in save_task.
Stack(c) == IF mode[c] \in {"sched", "claim", "iret"} THEN save[c] ELSE current[c]

Init ==
  /\ current = [c \in Cpus |-> NULL]
  /\ save = [c \in Cpus |-> NULL]
  /\ mode = [c \in Cpus |-> "run"]
  /\ target = [c \in Cpus |-> NULL]
  /\ block = [t \in Tasks |-> FALSE]
  /\ isRunning = [t \in Tasks |-> FALSE]
  /\ nested = [t \in Tasks |-> 0]
  /\ ctx = [t \in Tasks |-> [i \in 0..1 |-> IF i = 0 THEN 0 ELSE NULL]]
  /\ level = [t \in Tasks |-> 0]
  /\ resource = InitValue
  /\ waiters = [s \in Sems |-> {}]
  /\ semlock = [s \in Sems |-> NULL]
  /\ pc = [t \in Tasks |-> 1]
  /\ phase = [t \in Tasks |-> "start"]

-----------------------------------------------------------------------------
(* The decisions and updates the actions below are made of.  A definition    *)
(* whose name ends in Slip is the next one with a plausible slip in it; no   *)
(* action uses it, the properties are tested against it.                     *)

\* kmt_sem_wait: the caller must yield.
MustYieldSlip(s) == resource[s] < -1
MustYield(s) == resource[s] < 0

\* kmt_sem_signal: someone is waiting for this unit.
MustWakeSlip(s) == resource[s] < 0 /\ waiters[s] # {}
MustWake(s) == resource[s] <= 0 /\ waiters[s] # {}

\* kmt_sem_signal: the two writes that release waiter w.
UnblockSlip(w) == UNCHANGED block
Unblock(w) == block' = [block EXCEPT ![w] = FALSE]

Dequeue(s, w) == waiters' = [waiters EXCEPT ![s] = @ \ {w}]

\* kmt_context_save: CPU c is off the stack of save_task for good.
MayReleaseSlip(c) == save[c] \in Tasks
MayRelease(c) == save[c] \in Tasks /\ save[c] # current[c]

\* kmt_schedule: the current task may go on.
SelfFitSlip(c) == current[c] \in Tasks
SelfFit(c) == current[c] \in Tasks /\ ~block[current[c]]

\* kmt_schedule: another task may be taken.
FitSlip(t) == ~block[t]
Fit(t) == ~isRunning[t] /\ ~block[t]

\* kmt_schedule: the context to return to is the one saved last.
PopSlip(t) == UNCHANGED nested
Pop(t) == nested' = [nested EXCEPT ![t] = @ - 1]

-----------------------------------------------------------------------------
(* Task code.  CPU c executes the current task t.                          *)

Running(c, t) == mode[c] = "run" /\ current[c] = t

\* kmt_sem_wait, the section guarded by sem->lock.
SemWaitLocked(c, t) ==
  /\ Running(c, t) /\ phase[t] = "start" /\ Op(t) = "P"
  /\ semlock[Sem(t)] = NULL
  /\ resource' = [resource EXCEPT ![Sem(t)] = @ - 1]
  /\ IF resource[Sem(t)] - 1 < 0
       THEN /\ waiters' = [waiters EXCEPT ![Sem(t)] = @ \cup {t}]
            /\ block' = [block EXCEPT ![t] = TRUE]
       ELSE UNCHANGED <<waiters, block>>
  /\ phase' = [phase EXCEPT ![t] = "reread"]
  /\ UNCHANGED <<cpuVars, isRunning, nested, ctx, level, semlock, pc>>

\* kmt_sem_wait, the test of sem->resource after the lock was released.
SemWaitReread(c, t) ==
  /\ Running(c, t) /\ phase[t] = "reread"
  /\ IF MustYield(Sem(t))
       THEN /\ mode' = [mode EXCEPT ![c] = "save"]
            /\ phase' = [phase EXCEPT ![t] = "wait"]
            /\ UNCHANGED pc
       ELSE /\ Finish(t)
            /\ UNCHANGED mode
  /\ UNCHANGED <<current, save, target, taskVars, semVars>>

\* kmt_sem_wait, the return from yield().
SemWaitReturn(c, t) ==
  /\ Running(c, t) /\ phase[t] = "wait"
  /\ Finish(t)
  /\ UNCHANGED <<cpuVars, taskVars, semVars>>

\* kmt_sem_signal up to and including resource++.
SemSignalInc(c, s) ==
  /\ semlock[s] = NULL
  /\ semlock' = [semlock EXCEPT ![s] = c]
  /\ resource' = [resource EXCEPT ![s] = @ + 1]
  /\ UNCHANGED <<waiters, current, save, target, taskVars>>

SemSignal(c, t) ==
  /\ Running(c, t) /\ phase[t] = "start" /\ Op(t) = "V"
  /\ SemSignalInc(c, Sem(t))
  /\ mode' = [mode EXCEPT ![c] = "wakeTask"]
  /\ Finish(t)

\* kmt_sem_signal, the rest: wake a random waiter and release the lock.
SemSignalWake(c, s) ==
  /\ mode[c] \in {"wakeTask", "wakeIrq"} /\ semlock[s] = c
  /\ IF MustWake(s)
       THEN \E w \in waiters[s] : Unblock(w) /\ Dequeue(s, w)
       ELSE UNCHANGED <<block, waiters>>
  /\ semlock' = [semlock EXCEPT ![s] = NULL]
  /\ mode' = [mode EXCEPT ![c] = IF @ = "wakeTask" THEN "run" ELSE "save"]
  /\ UNCHANGED <<current, save, target, isRunning, nested, ctx, level,
                 resource, progVars>>

\* A trap by yield(): the task's own, or that of the idle and boot loops.
Yield(c) ==
  /\ mode[c] = "run"
  /\ \/ /\ current[c] \in {Idle, NULL}
        /\ UNCHANGED progVars
     \/ /\ current[c] \in Tasks
        /\ phase[current[c]] = "start" /\ Op(current[c]) = "yield"
        /\ Finish(current[c])
  /\ mode' = [mode EXCEPT ![c] = "save"]
  /\ UNCHANGED <<current, save, target, taskVars, semVars>>

\* A system call trap: os_trap returns after the syscall handler, which
\* counts the level and enables interrupts.
SyscallEnter(c, t) ==
  /\ Running(c, t) /\ phase[t] = "start" /\ Op(t) = "enter" /\ level[t] = 0
  /\ nested' = [nested EXCEPT ![t] = @ + 1]
  /\ level' = [level EXCEPT ![t] = 1]
  /\ Finish(t)
  /\ UNCHANGED <<cpuVars, block, isRunning, ctx, semVars>>

\* The end of the syscall handler and the return to the user code.
SyscallLeave(c, t) ==
  /\ Running(c, t) /\ phase[t] = "start" /\ Op(t) = "leave" /\ level[t] = 1
  /\ nested' = [nested EXCEPT ![t] = @ - 1]
  /\ level' = [level EXCEPT ![t] = 0]
  /\ Finish(t)
  /\ UNCHANGED <<cpuVars, block, isRunning, ctx, semVars>>

-----------------------------------------------------------------------------
(* The trap path.  Interrupts are disabled from the trap to the return.    *)

\* A timer interrupt, possible whenever interrupts are enabled.
TimerTrap(c) ==
  /\ mode[c] = "run"
  /\ IF IrqSem = NULL THEN mode' = [mode EXCEPT ![c] = "save"]
                      ELSE /\ resource[IrqSem] < MaxPermits
                           /\ mode' = [mode EXCEPT ![c] = "irq"]
  /\ UNCHANGED <<current, save, target, taskVars, semVars, progVars>>

\* input_notify, first half of its kmt_sem_signal.
IrqSignal(c) ==
  /\ mode[c] = "irq" /\ IrqSem # NULL
  /\ SemSignalInc(c, IrqSem)
  /\ mode' = [mode EXCEPT ![c] = "wakeIrq"]
  /\ UNCHANGED progVars

\* kmt_context_save, and the entry of kmt_schedule that replaces a null
\* current_task.  Before the first trap of a CPU current_task is null and
\* what is stored through it goes to memory nobody reads.
ContextSave(c) ==
  LET t == current[c]
      o == save[c]
  IN /\ mode[c] = "save"
     /\ ctx' = [x \in Tasks |->
                  IF x = t THEN [ctx[x] EXCEPT ![nested[x]] = level[x]] ELSE ctx[x]]
     /\ nested' = [x \in Tasks |->
                  IF x = t THEN nested[x] + 1
                  ELSE IF MayRelease(c) /\ x = o THEN nested[x] - 1 ELSE nested[x]]
     /\ isRunning' = [x \in Tasks |-> IF MayRelease(c) /\ x = o THEN FALSE ELSE isRunning[x]]
     /\ save' = [save EXCEPT ![c] = t]
     /\ current' = [current EXCEPT ![c] = IF @ = NULL THEN Idle ELSE @]
     /\ mode' = [mode EXCEPT ![c] = "sched"]
     /\ UNCHANGED <<target, block, level, semVars, progVars>>

\* kmt_schedule draws the current task.
SchedSelf(c) ==
  /\ mode[c] = "sched" /\ SelfFit(c)
  /\ Pop(current[c])
  /\ mode' = [mode EXCEPT ![c] = "iret"]
  /\ UNCHANGED <<current, save, target, block, isRunning, ctx, level, semVars, progVars>>

\* kmt_schedule draws another task and takes it under its status lock.
SchedClaim(c, t) ==
  /\ mode[c] = "sched" /\ t # current[c] /\ Fit(t)
  /\ isRunning' = [isRunning EXCEPT ![t] = TRUE]
  /\ target' = [target EXCEPT ![c] = t]
  /\ mode' = [mode EXCEPT ![c] = "claim"]
  /\ UNCHANGED <<current, save, block, nested, ctx, level, semVars, progVars>>

\* The second test of block, after the status lock was released.
SchedConfirm(c) ==
  /\ mode[c] = "claim"
  /\ current' = [current EXCEPT ![c] = IF block[target[c]] THEN @ ELSE target[c]]
  /\ mode' = [mode EXCEPT ![c] = IF block[target[c]] THEN "sched" ELSE "iret"]
  /\ target' = [target EXCEPT ![c] = NULL]
  /\ UNCHANGED <<save, taskVars, semVars, progVars>>

\* Every draw hit a task that cannot run: fall back to the idle task.  The
\* draws are random with repetition, so one such task is enough.
Unfit(c, t) == IF t = current[c] THEN ~SelfFit(c) ELSE ~Fit(t)

SchedIdle(c) ==
  /\ mode[c] = "sched" /\ \E t \in Tasks : Unfit(c, t)
  /\ current' = [current EXCEPT ![c] = Idle]
  /\ mode' = [mode EXCEPT ![c] = "iret"]
  /\ UNCHANGED <<save, target, taskVars, semVars, progVars>>

\* The return from the trap: from here CPU c is on its current task's stack.
Iret(c) ==
  /\ mode[c] = "iret"
  /\ mode' = [mode EXCEPT ![c] = "run"]
  /\ UNCHANGED <<current, save, target, taskVars, semVars, progVars>>

-----------------------------------------------------------------------------
TaskStep(c, t) ==
  \/ SemWaitLocked(c, t) \/ SemWaitReread(c, t) \/ SemWaitReturn(c, t)
  \/ SemSignal(c, t) \/ SyscallEnter(c, t) \/ SyscallLeave(c, t)

TrapStep(c) ==
  \/ IrqSignal(c) \/ ContextSave(c) \/ SchedSelf(c) \/ SchedConfirm(c)
  \/ SchedIdle(c) \/ Iret(c)

CpuStep(c) ==
  \/ \E t \in Tasks : TaskStep(c, t) \/ SchedClaim(c, t)
  \/ \E s \in Sems : SemSignalWake(c, s)
  \/ Yield(c) \/ TrapStep(c)

Next == \E c \in Cpus : CpuStep(c) \/ TimerTrap(c)

Spec == Init /\ [][Next]_vars

-----------------------------------------------------------------------------
(* Fairness.  A CPU executes instructions as long as it has any.  A task that *)
(* can be drawn again and again is drawn, because the draws are random.       *)
(* A task that is executed again and again gets on with its program: timer    *)
(* interrupts are not so dense that it never completes an instruction, and a  *)
(* spinning CPU gets a lock that keeps being released.                        *)
(* Nothing is assumed about the timer: a task that blocks yields by itself.   *)

Drawn(t) ==
  \E c \in Cpus : SchedClaim(c, t) \/ (current[c] = t /\ SchedSelf(c))

Progress(t) == \E c \in Cpus : TaskStep(c, t)

FairSpec == /\ Spec
            /\ \A c \in Cpus : WF_vars(CpuStep(c))
            /\ \A t \in Tasks : SF_vars(Drawn(t)) /\ SF_vars(Progress(t))

-----------------------------------------------------------------------------
(* Properties.                                                             *)

\* Every variable keeps its type; in particular nested_interrupt stays in 0..2
\* and both context slots hold a context saved at some level (or nothing).
TypeOK ==
  /\ current \in [Cpus -> Tasks \cup {Idle, NULL}]
  /\ save \in [Cpus -> Tasks \cup {Idle, NULL}]
  /\ mode \in [Cpus -> Modes]
  /\ target \in [Cpus -> Tasks \cup {NULL}]
  /\ block \in [Tasks -> BOOLEAN]
  /\ isRunning \in [Tasks -> BOOLEAN]
  /\ nested \in [Tasks -> 0..2]
  /\ ctx \in [Tasks -> [0..1 -> {0, 1, NULL}]]
  /\ level \in [Tasks -> 0..1]
  /\ resource \in [Sems -> Int]
  /\ waiters \in [Sems -> SUBSET Tasks]
  /\ semlock \in [Sems -> Cpus \cup {NULL}]
  /\ pc \in [Tasks -> Nat]
  /\ \A t \in Tasks : pc[t] \in DOMAIN Program[t]
  /\ phase \in [Tasks -> Phases]

\* The tasks CPU c has a hold on: the one it is set to run, the one whose
\* stack it may still be on, and the one it has just taken.
Owns(c) == {current[c], save[c], target[c]} \cap Tasks

\* No two CPUs have a hold on the same task, so no two ever execute on one
\* stack, not even while a trap is still unwinding: the reason for save_task.
OwnersDisjoint ==
  \A c, d \in Cpus : c # d => Owns(c) \cap Owns(d) = {}

\* is_running says exactly that some CPU has a hold on the task: a task that
\* nobody holds is never lost to the scheduler by a stale flag.
RunningFlag ==
  \A t \in Tasks : isRunning[t] <=> \E c \in Cpus : t \in Owns(c)

\* CPU c has saved t's context and not yet popped it.
Pushed(c, t) ==
  save[c] = t /\ (current[c] # t \/ mode[c] \in {"sched", "claim"})

\* nested_interrupt of every task is the number of trap levels on its stack,
\* although one CPU increments it and, after a switch, a later trap of that
\* CPU decrements it: it never leads kmt_context_save outside context[2].
NestedDepth ==
  \A t \in Tasks :
    nested[t] = level[t] + (IF \E c \in Cpus : Pushed(c, t) THEN 1 ELSE 0)

\* The panic_ons of kmt_schedule never fire, and the context it returns is the
\* one saved where the task was interrupted (kernel or user level).
ScheduleSane ==
  \A c \in Cpus : mode[c] = "iret" =>
    /\ current[c] # NULL
    /\ current[c] \in Tasks =>
         /\ ~block[current[c]]
         /\ nested[current[c]] \in 0..1
         /\ ctx[current[c]][nested[current[c]]] = level[current[c]]

\* sem->task_list holds as many tasks as the counter is below zero (before
\* the increment, while a V is between its two halves).
WaiterCount ==
  \A s \in Sems :
    LET r == IF semlock[s] = NULL THEN resource[s] ELSE resource[s] - 1
    IN Cardinality(waiters[s]) = IF r < 0 THEN -r ELSE 0

\* The permits of s: those left plus those taken by tasks still inside P(s).
Permits(s) == resource[s] + Cardinality(InP(s))

\* Nobody returns from P without a permit, "if P fails it must not go on"
\* (the comment in kmt_sem_wait): the number of Ps completed never exceeds
\* the initial value plus the number of Vs.
NoPhantomPermit == \A s \in Sems : Permits(s) >= 0

\* The condition under which that is so: no task waits for two different
\* semaphores in the course of its program.
SinglePSem ==
  \A t \in Tasks : \A i, j \in DOMAIN Program[t] :
    Program[t][i].op = "P" /\ Program[t][j].op = "P" =>
      Program[t][i].sem = Program[t][j].sem

\* A blocked task is in the list of a semaphore: a V can still wake it.
BlockedIsQueued ==
  \A t \in Tasks : block[t] => \E s \in Sems : t \in waiters[s]

\* A queued task is blocked: the scheduler leaves it alone until a V chose it.
QueuedIsBlocked ==
  \A s \in Sems : \A t \in waiters[s] : block[t]

\* Every task is executed again and again: neither the scheduler's random
\* draws nor a wake-up lost between P and V starves it.
NoStarvation ==
  \A t \in Tasks : []<>(\E c \in Cpus : Running(c, t))

\* A task that starts a P returns from it.
PReturns ==
  \A t \in Tasks : phase[t] # "start" ~> phase[t] = "start"

\* The semaphores implement the abstract ones: a permit is a unit left in the
\* counter or one that a task still inside P has already subtracted.
Abstract == INSTANCE Semaphore WITH
              permits <- [s \in Sems |-> Permits(s)],
              inP <- [t \in Tasks |-> IF phase[t] = "start" THEN NULL ELSE Sem(t)],
              None <- NULL

ImplementsSemaphore == Abstract!Spec

=============================================================================
