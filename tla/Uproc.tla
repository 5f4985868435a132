-------------------------------- MODULE Uproc --------------------------------
(***************************************************************************)
(* Processes: the numbers, the table and the life of user processes in     *)
(* uproc.c, from fork to exit, with wait and kill, and the parts of        *)
(* os_trap and kmt_schedule that processes meet: the killed test and the   *)
(* draws from task_list.                                                   *)
(*                                                                         *)
(* System calls run with interrupts enabled, so a trap is possible between *)
(* any two steps of one; sections under a spin lock are one step.  What    *)
(* kmt promises of scheduling and semaphores is used as proved of Kmt:     *)
(* a task is on one CPU at most, P waits for a permit.  Memory is Vm's.    *)
(***************************************************************************)
EXTENDS Integers, Sequences, FiniteSetsExt

CONSTANTS
  Cpus,
  Idle,       \* a CPU's idle task
  Limit,      \* entries of task_list: 32768 in the code
  MaxTasks    \* bound: task_t objects ever allocated

ASSUME UprocAssumption ==
  /\ Limit \in Nat /\ Limit >= 2
  /\ MaxTasks \in Nat \ {0}
  /\ Idle \notin Nat

VARIABLES
  task_list,   \* entry -> task, 0 where it is NULL
  task_cnt,
  pids,        \* p_head ...: numbers of exited processes
  task,        \* the fields of task_t
  pc,          \* where the task's code is
  local,       \* new_id in kfork, status in kexit
  other,       \* new_task in kfork, father_task in kexit
  intrap,      \* the task exits from os_trap: interrupts are disabled
  current,     \* current_task of each CPU
  panic,
  made,        \* how many tasks were allocated
  stored,      \* history: how often a task's number was stored
  raced        \* history: two forks were inside new_pid at once

table == <<task_list, task_cnt, pids>>
history == <<made, stored, raced>>
vars == <<table, task, pc, local, other, intrap, current, panic, history>>

Tasks == 1..MaxTasks
Entries == 0..(Limit - 1)
NULL == 0

ForkPc == {"new_pid", "count", "list"}
WaitPc == {"sem_init", "sem_wait", "waiting"}
ExitPc == {"father", "signal", "store", "destroy", "stuck"}

(* uproc_create.  kmt_sem_init is not called: wait_sem is whatever the     *)
(* memory holds until the first wait.                                      *)
NewTask(ppid) ==
  [pid |-> 0, ppid |-> ppid, killed |-> FALSE, block |-> FALSE,
   retstate |-> 0, wait_sem |-> 0, sem_ready |-> FALSE]

(* uproc_init creates the first process, number 1. *)
Init ==
  /\ task_list = [n \in Entries |-> IF n = 1 THEN 1 ELSE NULL]
  /\ task_cnt = 2
  /\ pids = << >>
  /\ task = [t \in Tasks |-> [NewTask(0) EXCEPT !.pid = IF t = 1 THEN 1 ELSE 0]]
  /\ pc = [t \in Tasks |-> IF t = 1 THEN "user" ELSE "none"]
  /\ local = [t \in Tasks |-> 0]
  /\ other = [t \in Tasks |-> NULL]
  /\ intrap = [t \in Tasks |-> FALSE]
  /\ current = [c \in Cpus |-> Idle]
  /\ panic = FALSE
  /\ made = 1
  /\ stored = [t \in Tasks |-> 0]
  /\ raced = FALSE

OnCpu(t) == \E c \in Cpus : current[c] = t
At(t, where) == pc[t] = where /\ OnCpu(t) /\ ~panic
Goto(t, where) == pc' = [pc EXCEPT ![t] = where]

-----------------------------------------------------------------------------
(* fork *)

(* A system call is a trap: os_trap exits a killed task instead. *)
Calling(t) == At(t, "user") /\ ~task[t].killed

ForkEnter(t) ==
  /\ Calling(t)
  /\ made < MaxTasks
  /\ made' = made + 1
  /\ task' = [task EXCEPT ![made + 1] = NewTask(task[t].pid)]
  /\ pc' = [pc EXCEPT ![t] = "new_pid", ![made + 1] = "made"]
  /\ other' = [other EXCEPT ![t] = made + 1]
  /\ UNCHANGED <<table, local, intrap, current, panic, stored, raced>>

(* new_pid takes the next number; when the table is full, get_pid takes    *)
(* one of an exited process, and 0 if there is none.                       *)
Inside(t) == pc[t] = "count"
NewPid(t) ==
  /\ At(t, "new_pid")
  /\ IF task_cnt = Limit
     THEN /\ local' = [local EXCEPT ![t] = IF pids = << >> THEN 0 ELSE Head(pids)]
          /\ pids' = IF pids = << >> THEN pids ELSE Tail(pids)
          /\ Goto(t, "list")
          /\ raced' = raced
     ELSE /\ local' = [local EXCEPT ![t] = task_cnt]
          /\ Goto(t, "count")
          /\ pids' = pids
          /\ raced' = (raced \/ \E u \in Tasks : Inside(u))
  /\ UNCHANGED <<task_list, task_cnt, task, other, intrap, current, panic, made, stored>>

CountNumberSlip(t) ==
  /\ At(t, "count")
  /\ UNCHANGED task_cnt
  /\ Goto(t, "list")
  /\ UNCHANGED <<task_list, pids, task, local, other, intrap, current, panic, history>>
CountNumber(t) ==
  /\ At(t, "count")
  /\ task_cnt' = local[t] + 1
  /\ Goto(t, "list")
  /\ UNCHANGED <<task_list, pids, task, local, other, intrap, current, panic, history>>

ForkReturn(t) ==
  /\ At(t, "list")
  /\ task' = [task EXCEPT ![other[t]].pid = local[t]]
  /\ task_list' = [task_list EXCEPT ![local[t]] = other[t]]
  /\ pc' = [pc EXCEPT ![t] = "user", ![other[t]] = "user"]
  /\ UNCHANGED <<task_cnt, pids, local, other, intrap, current, panic, history>>

-----------------------------------------------------------------------------
(* wait *)

HasChild(t) ==
  \E n \in Entries : LET u == task_list[n]
                     IN u # NULL /\ task[u].ppid = task[t].pid /\ ~task[u].killed

(* retstate = 0, then the search; without a child the call returns -1. *)
WaitEnter(t) ==
  /\ Calling(t)
  /\ task' = [task EXCEPT ![t].retstate = 0]
  /\ Goto(t, IF HasChild(t) THEN "sem_init" ELSE "user")
  /\ UNCHANGED <<table, local, other, intrap, current, panic, history>>

WaitInit(t) ==
  /\ At(t, "sem_init")
  /\ task' = [task EXCEPT ![t].wait_sem = 0, ![t].sem_ready = TRUE]
  /\ Goto(t, "sem_wait")
  /\ UNCHANGED <<table, local, other, intrap, current, panic, history>>

WaitP(t) ==
  /\ At(t, "sem_wait")
  /\ task' = [task EXCEPT ![t].wait_sem = @ - 1, ![t].block = task[t].wait_sem <= 0]
  /\ Goto(t, "waiting")
  /\ UNCHANGED <<table, local, other, intrap, current, panic, history>>

(* *status = retstate and back to the caller. *)
WaitReturn(t) ==
  /\ At(t, "waiting") /\ ~task[t].block
  /\ Goto(t, "user")
  /\ UNCHANGED <<table, task, local, other, intrap, current, panic, history>>

-----------------------------------------------------------------------------
(* kill and exit *)

Kill(t, n) ==
  /\ Calling(t)
  /\ task_list[n] # NULL /\ ~task[task_list[n]].killed
  /\ task' = [task EXCEPT ![task_list[n]].killed = TRUE]
  /\ UNCHANGED <<table, pc, local, other, intrap, current, panic, history>>

(* killed is set first, with interrupts still enabled. *)
ExitEnter(t, status) ==
  /\ Calling(t)
  /\ task' = [task EXCEPT ![t].killed = TRUE]
  /\ local' = [local EXCEPT ![t] = status]
  /\ Goto(t, "father")
  /\ UNCHANGED <<table, other, intrap, current, panic, history>>

Father(t) == task_list[Min({n \in Entries \ {0} :
  task_list[n] # NULL /\ task[task_list[n]].pid = task[t].ppid})]

ExitFather(t) ==
  /\ At(t, "father")
  /\ IF task[t].ppid = 0
     THEN Goto(t, "store") /\ UNCHANGED <<task, other>>
     ELSE /\ task' = [task EXCEPT ![Father(t)].retstate = local[t]]
          /\ other' = [other EXCEPT ![t] = Father(t)]
          /\ Goto(t, "signal")
  /\ UNCHANGED <<table, local, intrap, current, panic, history>>

(* The signal.  If the father never waited, its semaphore is uninitialised *)
(* memory: the signal is lost, or the CPU spins on a word that looks       *)
(* locked.                                                                 *)
ExitSignal(t) ==
  /\ At(t, "signal")
  /\ LET f == other[t]
     IN IF task[f].sem_ready
        THEN /\ task' = [task EXCEPT ![f].wait_sem = @ + 1,
                                     ![f].block = @ /\ task[f].wait_sem + 1 > 0]
             /\ Goto(t, "store")
        ELSE /\ task' = task
             /\ \E after \in {"store", "stuck"} : Goto(t, after)
  /\ UNCHANGED <<table, local, other, intrap, current, panic, history>>

ExitStore(t) ==
  /\ At(t, "store")
  /\ pids' = Append(pids, task[t].pid)
  /\ stored' = [stored EXCEPT ![t] = @ + 1]
  /\ Goto(t, "destroy")
  /\ UNCHANGED <<task_list, task_cnt, task, local, other, intrap, current, panic, made, raced>>

(* destroy_task locks vme_lock, and locks it again where it should unlock  *)
(* it: the CPU spins with interrupts disabled.  kmt_teardown, which leaves *)
(* the task in task_list, and the free of the task are not reached.        *)
ExitDestroy(t) ==
  /\ At(t, "destroy")
  /\ Goto(t, "stuck")
  /\ UNCHANGED <<table, task, local, other, intrap, current, panic, history>>

-----------------------------------------------------------------------------
(* Traps of CPU c: the timer, and yield in sleep, in P and in idle. *)

Interruptible(c) ==
  LET t == current[c] IN t \in Tasks => ~intrap[t] /\ pc[t] # "stuck"

MustExitSlip(c) == FALSE
MustExit(c) == current[c] \in Tasks /\ task[current[c]].killed

(* os_trap calls exit for a killed task, also for one inside kexit. *)
TrapExit(c) ==
  /\ ~panic /\ Interruptible(c) /\ MustExit(c)
  /\ LET t == current[c]
     IN /\ intrap' = [intrap EXCEPT ![t] = TRUE]
        /\ local' = [local EXCEPT ![t] = 0]
        /\ Goto(t, "father")
  /\ UNCHANGED <<table, task, other, current, panic, history>>

Fits(c, n) ==
  LET t == task_list[n]
  IN t # NULL /\ ~task[t].block /\ (t = current[c] \/ ~OnCpu(t))

(* kmt_schedule draws entry n of 1..task_cnt-1 and takes its task. *)
Draw(c, n) ==
  /\ ~panic /\ Interruptible(c) /\ ~MustExit(c)
  /\ n \in 1..(task_cnt - 1) /\ Fits(c, n)
  /\ current' = [current EXCEPT ![c] = task_list[n]]
  /\ UNCHANGED <<table, task, pc, local, other, intrap, panic, history>>

(* All draws may hit one entry that does not fit. *)
DrawNone(c) ==
  /\ ~panic /\ Interruptible(c) /\ ~MustExit(c)
  /\ \E n \in 1..(task_cnt - 1) : ~Fits(c, n)
  /\ current' = [current EXCEPT ![c] = Idle]
  /\ UNCHANGED <<table, task, pc, local, other, intrap, panic, history>>

(* An empty entry is a task at address 0: with zeros there it is taken,    *)
(* and "No task to schedule" stops the kernel.                             *)
DrawEmpty(c) ==
  /\ ~panic /\ Interruptible(c) /\ ~MustExit(c)
  /\ \E n \in 1..(task_cnt - 1) : task_list[n] = NULL
  /\ panic' = TRUE
  /\ UNCHANGED <<table, task, pc, local, other, intrap, current, history>>

-----------------------------------------------------------------------------
Call(t) ==
  \/ ForkEnter(t) \/ WaitEnter(t)
  \/ \E n \in Entries : Kill(t, n)
  \/ \E status \in {1} : ExitEnter(t, status)

Continue(t) ==
  \/ NewPid(t) \/ CountNumber(t) \/ ForkReturn(t)
  \/ WaitInit(t) \/ WaitP(t) \/ WaitReturn(t)
  \/ ExitFather(t) \/ ExitSignal(t) \/ ExitStore(t) \/ ExitDestroy(t)

Trap(c) == TrapExit(c) \/ DrawNone(c) \/ DrawEmpty(c) \/ \E n \in Entries : Draw(c, n)

Next ==
  \/ \E t \in Tasks : Call(t) \/ Continue(t)
  \/ \E c \in Cpus : Trap(c)

Spec == Init /\ [][Next]_vars

(* The timer interrupts every CPU again and again, the draws reach every   *)
(* entry that fits again and again, and a call that has begun goes on.     *)
FairSpec ==
  /\ Spec
  /\ \A c \in Cpus : WF_vars(Trap(c)) /\ WF_vars(TrapExit(c))
  /\ \A c \in Cpus, n \in Entries : SF_vars(Draw(c, n))
  /\ \A t \in Tasks : WF_vars(Continue(t))

-----------------------------------------------------------------------------
TypeOK ==
  /\ task_list \in [Entries -> Tasks \cup {NULL}]
  /\ task_cnt \in 2..Limit
  /\ pc \in [Tasks -> {"none", "made", "user"} \cup ForkPc \cup WaitPc \cup ExitPc]
  /\ current \in [Cpus -> Tasks \cup {Idle}]
  /\ \A c, d \in Cpus : current[c] = current[d] /\ c # d => current[c] = Idle

(* Two processes have the same number only if two forks were inside        *)
(* new_pid at once, or if an exit was interrupted and began again, which   *)
(* stores the number twice.  Number 0 is what a fork gets that finds no    *)
(* number.                                                                 *)
HasNumber(t) == pc[t] \notin {"none", "made"} /\ task[t].pid # 0 /\ stored[t] = 0
NumbersUnique ==
  ~raced /\ (\A t \in Tasks : stored[t] <= 1) =>
    \A t, u \in Tasks : t # u /\ HasNumber(t) /\ HasNumber(u) => task[t].pid # task[u].pid

(* A killed process exits, unless it is blocked, no CPU is left that is    *)
(* not stuck in an exit, or the scheduler cannot draw it.                  *)
Exiting(t) == pc[t] \in ExitPc
CanBeDrawn(t) ==
  /\ ~panic /\ ~task[t].block
  /\ \E n \in 1..(task_cnt - 1) : task_list[n] = t
  /\ \E c \in Cpus : Interruptible(c)
KillTakesEffect ==
  \A t \in Tasks : task[t].killed ~> (Exiting(t) \/ ~CanBeDrawn(t))
=============================================================================
