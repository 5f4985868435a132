---------------------------- MODULE KmtProofs ----------------------------
(* Theorems about Kmt for every number of CPUs, tasks and semaphores.      *)
EXTENDS Kmt, FiniteSetTheorems, TLAPS

\* The stages of a trap are consistent with the three task pointers of a CPU.
ModeOK ==
  \A c \in Cpus :
    /\ mode[c] = "claim" <=> target[c] # NULL
    /\ mode[c] \in {"sched", "claim"} =>
         current[c] = save[c] \/ (current[c] = Idle /\ save[c] = NULL)
    /\ mode[c] = "claim" => target[c] # current[c] /\ target[c] # save[c]

\* CPU c executes task t or has not yet saved its context.
Active(c, t) == current[c] = t /\ mode[c] \notin {"sched", "claim", "iret"}

\* A task that is not being executed can be resumed from the slot of its level.
CtxOK ==
  \A t \in Tasks : (\A c \in Cpus : ~Active(c, t)) => ctx[t][level[t]] = level[t]

\* What a CPU has taken is not blocked, and what it is about to return to
\* exists and is not blocked either.
IretOK ==
  \A c \in Cpus :
    /\ mode[c] = "claim" => ~block[target[c]]
    /\ mode[c] = "iret" =>
         current[c] # NULL /\ (current[c] \in Tasks => ~block[current[c]])

SInv == /\ TypeOK /\ ModeOK /\ OwnersDisjoint /\ RunningFlag
        /\ NestedDepth /\ CtxOK /\ IretOK

THEOREM SInvInit == Init => SInv
<1> SUFFICES ASSUME Init PROVE SInv
    OBVIOUS
<1>1. TypeOK
  BY TaskAssumption, ProgramAssumption, ValueAssumption
     DEF Init, TypeOK, Modes, Phases
<1>2. ModeOK /\ CtxOK /\ IretOK
  BY TaskAssumption DEF Init, ModeOK, CtxOK, IretOK, Active
<1>3. OwnersDisjoint /\ RunningFlag
  BY TaskAssumption DEF Init, OwnersDisjoint, RunningFlag, Owns
<1>4. NestedDepth
  BY TaskAssumption DEF Init, NestedDepth, Pushed
<1> QED BY <1>1, <1>2, <1>3, <1>4 DEF SInv

-----------------------------------------------------------------------------
LEMMA OpType ==
  ASSUME TypeOK, NEW t \in Tasks
  PROVE  Program[t][pc[t]] \in Operation
BY ProgramAssumption DEF TypeOK

LEMMA SemType ==
  ASSUME TypeOK, NEW t \in Tasks, Op(t) \in {"P", "V"}
  PROVE  Sem(t) \in Sems
<1>1. Program[t][pc[t]] \in [op : {"P", "V"}, sem : Sems]
  BY OpType DEF Operation, Op
<1> QED BY <1>1 DEF Sem

LEMMA FinishType ==
  ASSUME TypeOK, NEW t \in Tasks, Finish(t)
  PROVE  /\ pc' \in [Tasks -> Nat]
         /\ \A u \in Tasks : pc'[u] \in DOMAIN Program[u]
         /\ phase' \in [Tasks -> Phases]
<1>1. NextPc(t) \in Nat /\ NextPc(t) \in DOMAIN Program[t]
  <2>1. pc[t] \in 1..Len(Program[t]) /\ Len(Program[t]) \in Nat
    BY ProgramAssumption DEF TypeOK
  <2>2. DOMAIN Program[t] = 1..Len(Program[t])
    BY ProgramAssumption
  <2> QED BY <2>1, <2>2 DEF NextPc
<1> QED BY <1>1 DEF Finish, TypeOK, Phases

-----------------------------------------------------------------------------
(* Task code changes neither the task pointers nor the running flags, so the *)
(* statements about them can only be disturbed through mode.                 *)

LEMMA SemWaitLockedSInv ==
  ASSUME SInv, NEW c \in Cpus, NEW t \in Tasks, SemWaitLocked(c, t)
  PROVE  SInv'
<1> USE DEF SInv, SemWaitLocked, Running, cpuVars
<1>1. TypeOK'
  <2>1. Sem(t) \in Sems
    BY SemType
  <2>2. block' \in [Tasks -> BOOLEAN]
    BY <2>1 DEF TypeOK
  <2>3. waiters' \in [Sems -> SUBSET Tasks]
    <3>1. CASE UNCHANGED waiters
      BY <3>1 DEF TypeOK
    <3>2. CASE waiters' = [waiters EXCEPT ![Sem(t)] = @ \cup {t}]
      BY <2>1, <3>2 DEF TypeOK
    <3> QED BY <3>1, <3>2
  <2>4. resource' \in [Sems -> Int] /\ phase' \in [Tasks -> Phases]
    BY <2>1 DEF TypeOK, Phases
  <2> QED BY <2>2, <2>3, <2>4 DEF TypeOK
<1>2. ModeOK'
  BY DEF ModeOK
<1>3. OwnersDisjoint' /\ RunningFlag'
  BY DEF OwnersDisjoint, RunningFlag, Owns
<1>4. NestedDepth'
  BY DEF NestedDepth, Pushed
<1>5. CtxOK'
  BY DEF CtxOK, Active
<1>6. IretOK'
  <2>1. \A u \in Tasks : u # t => block'[u] = block[u]
    BY DEF TypeOK
  <2>2. \A d \in Cpus : mode[d] \in {"claim", "iret"} =>
          t \notin {target[d], current[d]}
    BY DEF OwnersDisjoint, Owns
  <2>3. \A d \in Cpus : mode[d] = "claim" => target[d] \in Tasks
    BY DEF ModeOK, TypeOK
  <2> QED BY <2>1, <2>2, <2>3 DEF IretOK
<1> QED BY <1>1, <1>2, <1>3, <1>4, <1>5, <1>6

\* The modes in which a CPU has not yet entered kmt_context_save.
CodeModes == {"run", "irq", "wakeTask", "wakeIrq", "save"}

\* The other steps of task code and of the timer handler leave the scheduler's
\* state alone, move between these modes and can only unblock tasks.
LEMMA FrameSInv ==
  ASSUME SInv, TypeOK', NEW c \in Cpus, mode[c] \in CodeModes,
         NEW m \in CodeModes, mode' = [mode EXCEPT ![c] = m],
         UNCHANGED <<current, save, target, isRunning, nested, ctx, level>>,
         \A t \in Tasks : block'[t] => block[t]
  PROVE  SInv'
<1> USE DEF SInv
<1>1. \A d \in Cpus : mode[d] # mode'[d] =>
        {mode[d], mode'[d]} \cap {"sched", "claim", "iret"} = {}
  BY DEF TypeOK, CodeModes
<1>2. ModeOK'
  BY <1>1 DEF ModeOK
<1>3. OwnersDisjoint' /\ RunningFlag'
  BY DEF OwnersDisjoint, RunningFlag, Owns
<1>4. NestedDepth'
  <2>1. \A d \in Cpus, t \in Tasks : Pushed(d, t) <=> Pushed(d, t)'
    BY <1>1 DEF Pushed
  <2> QED BY <2>1 DEF NestedDepth
<1>5. CtxOK'
  BY <1>1 DEF CtxOK, Active
<1>6. IretOK'
  <2>1. \A d \in Cpus : mode[d] = "claim" => target[d] \in Tasks
    BY DEF ModeOK, TypeOK
  <2> QED BY <1>1, <2>1 DEF IretOK
<1> QED BY <1>2, <1>3, <1>4, <1>5, <1>6

LEMMA SemWaitRereadSInv ==
  ASSUME SInv, NEW c \in Cpus, NEW t \in Tasks, SemWaitReread(c, t)
  PROVE  SInv'
<1> USE DEF SemWaitReread, Running, taskVars, semVars
<1>1. CASE MustYield(Sem(t))
  <2>1. TypeOK'
    BY <1>1 DEF SInv, TypeOK, Modes, Phases
  <2> QED BY <1>1, <2>1, FrameSInv DEF CodeModes
<1>2. CASE ~MustYield(Sem(t))
  <2>1. TypeOK'
    BY <1>2, FinishType DEF SInv, TypeOK
  <2>2. mode' = [mode EXCEPT ![c] = "run"]
    BY <1>2 DEF SInv, TypeOK
  <2> QED BY <2>1, <2>2, FrameSInv DEF CodeModes
<1> QED BY <1>1, <1>2

LEMMA SemWaitReturnSInv ==
  ASSUME SInv, NEW c \in Cpus, NEW t \in Tasks, SemWaitReturn(c, t)
  PROVE  SInv'
<1> USE DEF SemWaitReturn, Running, cpuVars, taskVars, semVars
<1>1. TypeOK'
  BY FinishType DEF SInv, TypeOK
<1>2. mode' = [mode EXCEPT ![c] = "run"]
  BY DEF SInv, TypeOK
<1> QED BY <1>1, <1>2, FrameSInv DEF CodeModes

LEMMA SignalIncType ==
  ASSUME TypeOK, NEW c \in Cpus, NEW s \in Sems, SemSignalInc(c, s)
  PROVE  resource' \in [Sems -> Int] /\ semlock' \in [Sems -> Cpus \cup {NULL}]
BY DEF TypeOK, SemSignalInc

LEMMA SemSignalSInv ==
  ASSUME SInv, NEW c \in Cpus, NEW t \in Tasks, SemSignal(c, t)
  PROVE  SInv'
<1> USE DEF SemSignal, Running
<1>1. Sem(t) \in Sems
  BY SemType DEF SInv
<1>2. TypeOK'
  <2>1. mode' \in [Cpus -> Modes]
    BY DEF SInv, TypeOK, Modes
  <2> QED BY <1>1, <2>1, FinishType, SignalIncType
          DEF SInv, TypeOK, SemSignalInc, taskVars
<1> QED BY <1>2, FrameSInv DEF CodeModes, SemSignalInc, taskVars

LEMMA SemSignalWakeSInv ==
  ASSUME SInv, NEW c \in Cpus, NEW s \in Sems, SemSignalWake(c, s)
  PROVE  SInv'
<1> USE DEF SemSignalWake, progVars
<1>1. block' \in [Tasks -> BOOLEAN] /\ \A t \in Tasks : block'[t] => block[t]
  BY DEF SInv, TypeOK, Unblock
<1>2. waiters' \in [Sems -> SUBSET Tasks]
  <2>1. CASE UNCHANGED waiters
    BY <2>1 DEF SInv, TypeOK
  <2>2. CASE \E w \in waiters[s] : Dequeue(s, w)
    BY <2>2 DEF SInv, TypeOK, Dequeue
  <2> QED BY <2>1, <2>2
<1>3. semlock' \in [Sems -> Cpus \cup {NULL}]
  BY DEF SInv, TypeOK
<1>4. mode' \in [Cpus -> Modes]
  BY DEF SInv, TypeOK, Modes
<1>5. TypeOK'
  BY <1>1, <1>2, <1>3, <1>4 DEF SInv, TypeOK
<1>6. PICK m \in CodeModes : mode' = [mode EXCEPT ![c] = m]
  BY DEF SInv, TypeOK, CodeModes
<1> QED BY <1>1, <1>5, <1>6, FrameSInv DEF CodeModes

LEMMA YieldSInv ==
  ASSUME SInv, NEW c \in Cpus, Yield(c)
  PROVE  SInv'
<1> USE DEF Yield, taskVars, semVars, progVars
<1>1. /\ pc' \in [Tasks -> Nat]
      /\ \A u \in Tasks : pc'[u] \in DOMAIN Program[u]
      /\ phase' \in [Tasks -> Phases]
  BY FinishType DEF SInv, TypeOK
<1>2. TypeOK'
  BY <1>1 DEF SInv, TypeOK, Modes
<1> QED BY <1>2, FrameSInv DEF CodeModes

LEMMA TimerTrapSInv ==
  ASSUME SInv, NEW c \in Cpus, TimerTrap(c)
  PROVE  SInv'
<1> USE DEF TimerTrap, taskVars, semVars, progVars
<1>1. PICK m \in {"save", "irq"} : mode' = [mode EXCEPT ![c] = m]
  OBVIOUS
<1>2. TypeOK'
  BY <1>1 DEF SInv, TypeOK, Modes
<1> QED BY <1>1, <1>2, FrameSInv DEF CodeModes

LEMMA IrqSignalSInv ==
  ASSUME SInv, NEW c \in Cpus, IrqSignal(c)
  PROVE  SInv'
<1> USE DEF IrqSignal, progVars
<1>1. IrqSem \in Sems
  BY SemAssumption
<1>2. TypeOK'
  <2>1. mode' \in [Cpus -> Modes]
    BY DEF SInv, TypeOK, Modes
  <2> QED BY <1>1, <2>1, SignalIncType DEF SInv, TypeOK, SemSignalInc, taskVars
<1> QED BY <1>2, FrameSInv DEF CodeModes, SemSignalInc, taskVars

-----------------------------------------------------------------------------
(* System calls change the level and the nesting of the current task alike.  *)

LEMMA SyscallSInv ==
  ASSUME SInv, NEW c \in Cpus, NEW t \in Tasks,
         SyscallEnter(c, t) \/ SyscallLeave(c, t)
  PROVE  SInv'
<1> USE DEF SInv, SyscallEnter, SyscallLeave, Running, cpuVars, semVars
<1>1. nested[t] = level[t]
  <2>1. \A d \in Cpus : ~Pushed(d, t)
    BY DEF Pushed, OwnersDisjoint, Owns
  <2> QED BY <2>1 DEF NestedDepth, TypeOK
<1>2. /\ level' = [level EXCEPT ![t] = 1 - level[t]]
      /\ nested' = [nested EXCEPT ![t] = 1 - level[t]]
  BY <1>1 DEF TypeOK
<1>3. TypeOK'
  BY <1>2, FinishType DEF TypeOK
<1>4. ModeOK' /\ IretOK'
  BY DEF ModeOK, IretOK
<1>5. OwnersDisjoint' /\ RunningFlag'
  BY DEF OwnersDisjoint, RunningFlag, Owns
<1>6. NestedDepth'
  <2>1. \A d \in Cpus, u \in Tasks : Pushed(d, u) <=> Pushed(d, u)'
    BY DEF Pushed
  <2>2. \A d \in Cpus : ~Pushed(d, t)
    BY DEF Pushed, OwnersDisjoint, Owns
  <2> QED BY <1>2, <2>1, <2>2 DEF NestedDepth, TypeOK
<1>7. CtxOK'
  <2>1. Active(c, t)
    BY DEF Active
  <2>2. \A d \in Cpus, u \in Tasks : Active(d, u) <=> Active(d, u)'
    BY DEF Active
  <2> QED BY <1>2, <2>1, <2>2 DEF CtxOK, TypeOK
<1> QED BY <1>3, <1>4, <1>5, <1>6, <1>7

-----------------------------------------------------------------------------
(* The trap path.                                                          *)

LEMMA ContextSaveSInv ==
  ASSUME SInv, NEW c \in Cpus, ContextSave(c)
  PROVE  SInv'
<1> USE DEF SInv, ContextSave, semVars, progVars
<1> DEFINE t == current[c]
           o == save[c]
<1>1. target[c] = NULL
  BY DEF ModeOK
<1>2. t \in Tasks => nested[t] = level[t]
  <2>1. t \in Tasks => \A d \in Cpus : ~Pushed(d, t)
    BY DEF Pushed, OwnersDisjoint, Owns
  <2> QED BY <2>1 DEF NestedDepth, TypeOK
<1>3. MayRelease(c) => nested[o] = level[o] + 1 /\ o \in Tasks /\ o # t
  <2>1. MayRelease(c) => Pushed(c, o)
    BY DEF MayRelease, Pushed
  <2> QED BY <2>1 DEF MayRelease, NestedDepth, TypeOK
<1>4. TypeOK'
  <2>1. nested' \in [Tasks -> 0..2]
    BY <1>2, <1>3 DEF TypeOK
  <2>2. ctx' \in [Tasks -> [0..1 -> {0, 1, NULL}]]
    <3>1. ASSUME NEW u \in Tasks PROVE ctx'[u] \in [0..1 -> {0, 1, NULL}]
      <4>1. CASE u = t
        BY <1>2, <4>1 DEF TypeOK
      <4>2. CASE u # t
        BY <4>2 DEF TypeOK
      <4> QED BY <4>1, <4>2
    <3> QED BY <3>1
  <2>3. isRunning' \in [Tasks -> BOOLEAN]
    BY DEF TypeOK
  <2>4. mode' \in [Cpus -> Modes]
    BY DEF TypeOK, Modes
  <2>5. /\ current' \in [Cpus -> Tasks \cup {Idle, NULL}]
        /\ save' \in [Cpus -> Tasks \cup {Idle, NULL}]
    BY DEF TypeOK
  <2> QED BY <2>1, <2>2, <2>3, <2>4, <2>5 DEF TypeOK
<1>5. ModeOK'
  BY <1>1 DEF ModeOK, TypeOK
<1>6. /\ \A d \in Cpus : d # c => Owns(d)' = Owns(d)
      /\ Owns(c)' = {t} \cap Tasks
      /\ Owns(c) = {t, o} \cap Tasks
  BY <1>1, TaskAssumption DEF Owns, TypeOK
<1>7. OwnersDisjoint'
  BY <1>6 DEF OwnersDisjoint
<1>8. RunningFlag'
  <2> SUFFICES ASSUME NEW u \in Tasks
               PROVE  isRunning'[u] <=> \E d \in Cpus : u \in Owns(d)'
    BY DEF RunningFlag
  <2>1. CASE MayRelease(c) /\ u = o
    BY <2>1, <1>3, <1>6 DEF OwnersDisjoint, TypeOK
  <2>2. CASE ~(MayRelease(c) /\ u = o)
    <3>1. isRunning'[u] = isRunning[u]
      BY <2>2 DEF TypeOK
    <3>2. u \in Owns(c)' <=> u \in Owns(c)
      BY <2>2, <1>6 DEF MayRelease
    <3> QED BY <3>1, <3>2, <1>6 DEF RunningFlag
  <2> QED BY <2>1, <2>2
<1>9. NestedDepth'
  <2> SUFFICES ASSUME NEW u \in Tasks
               PROVE  nested'[u] = level[u] +
                        (IF \E d \in Cpus : Pushed(d, u)' THEN 1 ELSE 0)
    BY DEF NestedDepth
  <2>1. \A d \in Cpus : d # c => (Pushed(d, u)' <=> Pushed(d, u))
    BY DEF Pushed, TypeOK
  <2>2. Pushed(c, u)' <=> u = t
    BY TaskAssumption DEF Pushed, TypeOK
  <2>3. CASE u = t
    BY <2>2, <2>3, <1>2 DEF TypeOK
  <2>4. CASE u # t /\ MayRelease(c) /\ u = o
    <3>1. \A d \in Cpus : ~Pushed(d, u)'
      BY <2>1, <2>2, <2>4, <1>6 DEF Pushed, OwnersDisjoint, Owns
    <3>2. nested'[u] = nested[o] - 1 /\ nested[o] - 1 = level[u]
      BY <2>4, <1>3 DEF TypeOK
    <3> QED BY <3>1, <3>2 DEF TypeOK
  <2>5. CASE u # t /\ ~(MayRelease(c) /\ u = o)
    <3>1. ~Pushed(c, u)
      BY <2>5 DEF Pushed, MayRelease
    <3>2. nested'[u] = nested[u]
      BY <2>5
    <3>3. \A d \in Cpus : Pushed(d, u)' <=> Pushed(d, u)
      BY <3>1, <2>1, <2>2, <2>5
    <3> QED BY <3>2, <3>3 DEF NestedDepth
  <2> QED BY <2>3, <2>4, <2>5
<1>10. CtxOK'
  <2> SUFFICES ASSUME NEW u \in Tasks, \A d \in Cpus : ~Active(d, u)'
               PROVE  ctx'[u][level[u]] = level[u]
    BY DEF CtxOK
  <2>1. CASE u = t
    BY <2>1, <1>2 DEF TypeOK
  <2>2. CASE u # t
    <3>1. \A d \in Cpus : ~Active(d, u)
      BY <2>2 DEF Active, TypeOK
    <3> QED BY <2>2, <3>1 DEF CtxOK, TypeOK
  <2> QED BY <2>1, <2>2
<1>11. IretOK'
  BY DEF IretOK, TypeOK
<1> QED BY <1>4, <1>5, <1>7, <1>8, <1>9, <1>10, <1>11

LEMMA SchedSelfSInv ==
  ASSUME SInv, NEW c \in Cpus, SchedSelf(c)
  PROVE  SInv'
<1> USE DEF SInv, SchedSelf, SelfFit, semVars, progVars
<1> DEFINE t == current[c]
<1>1. save[c] = t /\ t \in Tasks
  BY TaskAssumption DEF ModeOK
<1>2. nested[t] = level[t] + 1
  BY <1>1 DEF NestedDepth, Pushed
<1>3. nested' = [nested EXCEPT ![t] = level[t]]
  <2>1. nested[t] - 1 = level[t]
    BY <1>1, <1>2 DEF TypeOK
  <2> QED BY <2>1 DEF Pop
<1>4. TypeOK'
  BY <1>1, <1>3 DEF TypeOK, Modes
<1>5. ModeOK'
  BY DEF ModeOK, TypeOK
<1>6. OwnersDisjoint' /\ RunningFlag'
  BY DEF OwnersDisjoint, RunningFlag, Owns
<1>7. NestedDepth'
  <2>1. \A u \in Tasks, d \in Cpus : u # t => (Pushed(d, u)' <=> Pushed(d, u))
    BY <1>1 DEF Pushed, TypeOK
  <2>2. \A d \in Cpus : ~Pushed(d, t)'
    BY <1>1 DEF Pushed, TypeOK, OwnersDisjoint, Owns
  <2> QED BY <1>1, <1>3, <2>1, <2>2 DEF NestedDepth, TypeOK
<1>8. CtxOK'
  BY DEF CtxOK, Active, TypeOK
<1>9. IretOK'
  BY <1>1, TaskAssumption DEF IretOK, TypeOK
<1> QED BY <1>4, <1>5, <1>6, <1>7, <1>8, <1>9

LEMMA SchedClaimSInv ==
  ASSUME SInv, NEW c \in Cpus, NEW t \in Tasks, SchedClaim(c, t)
  PROVE  SInv'
<1> USE DEF SInv, SchedClaim, Fit, semVars, progVars
<1>1. target[c] = NULL
  BY DEF ModeOK
<1>2. \A d \in Cpus : t \notin Owns(d)
  BY DEF RunningFlag
<1>3. /\ \A d \in Cpus : d # c => Owns(d)' = Owns(d)
      /\ Owns(c)' = Owns(c) \cup {t}
  BY <1>1, TaskAssumption DEF Owns, TypeOK
<1>4. TypeOK'
  BY DEF TypeOK, Modes
<1>5. ModeOK'
  BY <1>2, TaskAssumption DEF ModeOK, TypeOK, Owns
<1>6. OwnersDisjoint'
  BY <1>2, <1>3 DEF OwnersDisjoint
<1>7. RunningFlag'
  <2> SUFFICES ASSUME NEW u \in Tasks
               PROVE  isRunning'[u] <=> \E d \in Cpus : u \in Owns(d)'
    BY DEF RunningFlag
  <2>1. CASE u = t
    BY <2>1, <1>3 DEF TypeOK
  <2>2. CASE u # t
    <3>1. \A d \in Cpus : u \in Owns(d)' <=> u \in Owns(d)
      BY <2>2, <1>3
    <3> QED BY <2>2, <3>1 DEF RunningFlag, TypeOK
  <2> QED BY <2>1, <2>2
<1>8. NestedDepth'
  <2>1. \A u \in Tasks, d \in Cpus : Pushed(d, u)' <=> Pushed(d, u)
    BY DEF Pushed, TypeOK
  <2> QED BY <2>1 DEF NestedDepth
<1>9. CtxOK' /\ IretOK'
  BY DEF CtxOK, Active, IretOK, TypeOK
<1> QED BY <1>4, <1>5, <1>6, <1>7, <1>8, <1>9

LEMMA SchedConfirmSInv ==
  ASSUME SInv, NEW c \in Cpus, SchedConfirm(c)
  PROVE  SInv'
<1> USE DEF SInv, SchedConfirm, taskVars, semVars, progVars
<1> DEFINE t == target[c]
<1>1. t \in Tasks /\ t # current[c] /\ t # save[c] /\ ~block[t]
  BY DEF ModeOK, TypeOK, IretOK
<1>2. /\ current' = [current EXCEPT ![c] = t]
      /\ mode' = [mode EXCEPT ![c] = "iret"]
  BY <1>1
<1>3. current[c] \in Tasks => current[c] = save[c]
  BY TaskAssumption DEF ModeOK
<1>4. TypeOK'
  BY <1>1, <1>2 DEF TypeOK, Modes
<1>5. ModeOK'
  BY <1>2 DEF ModeOK, TypeOK
<1>6. \A d \in Cpus : Owns(d)' = Owns(d)
  BY <1>1, <1>2, <1>3, TaskAssumption DEF Owns, TypeOK
<1>7. OwnersDisjoint' /\ RunningFlag'
  BY <1>6 DEF OwnersDisjoint, RunningFlag
<1>8. NestedDepth'
  <2>1. \A u \in Tasks, d \in Cpus : Pushed(d, u)' <=> Pushed(d, u)
    BY <1>1, <1>2 DEF Pushed, TypeOK
  <2> QED BY <2>1 DEF NestedDepth
<1>9. CtxOK'
  BY <1>1, <1>2 DEF CtxOK, Active, TypeOK
<1>10. IretOK'
  BY <1>1, <1>2, TaskAssumption DEF IretOK, TypeOK
<1> QED BY <1>4, <1>5, <1>7, <1>8, <1>9, <1>10

LEMMA SchedIdleSInv ==
  ASSUME SInv, NEW c \in Cpus, SchedIdle(c)
  PROVE  SInv'
<1> USE DEF SInv, SchedIdle, taskVars, semVars, progVars
<1>1. current[c] \in Tasks => current[c] = save[c]
  BY TaskAssumption DEF ModeOK
<1>2. target[c] = NULL
  BY DEF ModeOK
<1>3. TypeOK'
  BY DEF TypeOK, Modes
<1>4. ModeOK'
  BY DEF ModeOK, TypeOK
<1>5. \A d \in Cpus : Owns(d)' = Owns(d)
  BY <1>1, TaskAssumption DEF Owns, TypeOK
<1>6. OwnersDisjoint' /\ RunningFlag'
  BY <1>5 DEF OwnersDisjoint, RunningFlag
<1>7. NestedDepth'
  <2>1. \A u \in Tasks, d \in Cpus : Pushed(d, u)' <=> Pushed(d, u)
    BY TaskAssumption DEF Pushed, TypeOK
  <2> QED BY <2>1 DEF NestedDepth
<1>8. CtxOK'
  BY TaskAssumption DEF CtxOK, Active, TypeOK
<1>9. IretOK'
  BY TaskAssumption DEF IretOK, TypeOK
<1> QED BY <1>3, <1>4, <1>6, <1>7, <1>8, <1>9

LEMMA IretSInv ==
  ASSUME SInv, NEW c \in Cpus, Iret(c)
  PROVE  SInv'
<1> USE DEF SInv, Iret, taskVars, semVars, progVars
<1>1. TypeOK'
  BY DEF TypeOK, Modes
<1>2. ModeOK' /\ IretOK'
  BY DEF ModeOK, IretOK, TypeOK
<1>3. OwnersDisjoint' /\ RunningFlag'
  BY DEF OwnersDisjoint, RunningFlag, Owns
<1>4. NestedDepth'
  <2>1. \A u \in Tasks, d \in Cpus : Pushed(d, u)' <=> Pushed(d, u)
    BY DEF Pushed, TypeOK
  <2> QED BY <2>1 DEF NestedDepth
<1>5. CtxOK'
  <2>1. \A u \in Tasks, d \in Cpus : Active(d, u) => Active(d, u)'
    BY DEF Active, TypeOK
  <2> QED BY <2>1 DEF CtxOK
<1> QED BY <1>1, <1>2, <1>3, <1>4, <1>5

-----------------------------------------------------------------------------
LEMMA SInvStep == SInv /\ [Next]_vars => SInv'
<1> SUFFICES ASSUME SInv, [Next]_vars PROVE SInv'
    OBVIOUS
<1>1. CASE UNCHANGED vars
  BY <1>1 DEF vars, cpuVars, taskVars, semVars, progVars, SInv, TypeOK, ModeOK,
     OwnersDisjoint, RunningFlag, NestedDepth, CtxOK, IretOK, Owns, Pushed, Active
<1>2. ASSUME NEW c \in Cpus, CpuStep(c) \/ TimerTrap(c) PROVE SInv'
  <2>1. ASSUME NEW t \in Tasks, TaskStep(c, t) PROVE SInv'
    BY <2>1, SemWaitLockedSInv, SemWaitRereadSInv, SemWaitReturnSInv,
       SemSignalSInv, SyscallSInv DEF TaskStep
  <2>2. ASSUME NEW t \in Tasks, SchedClaim(c, t) PROVE SInv'
    BY <2>2, SchedClaimSInv
  <2>3. ASSUME NEW s \in Sems, SemSignalWake(c, s) PROVE SInv'
    BY <2>3, SemSignalWakeSInv
  <2>4. CASE Yield(c) \/ TimerTrap(c)
    BY <2>4, YieldSInv, TimerTrapSInv
  <2>5. CASE TrapStep(c)
    BY <2>5, IrqSignalSInv, ContextSaveSInv, SchedSelfSInv, SchedConfirmSInv,
       SchedIdleSInv, IretSInv DEF TrapStep
  <2> QED BY <1>2, <2>1, <2>2, <2>3, <2>4, <2>5 DEF CpuStep
<1> QED BY <1>1, <1>2 DEF Next

\* The tables of cpu_list and task_list keep their types, and nested_interrupt
\* never leaves 0..2, on every machine.
THEOREM TypeCorrect == Spec => []TypeOK
<1>1. SInv => TypeOK
  BY DEF SInv
<1> QED BY <1>1, SInvInit, SInvStep, PTL DEF Spec

\* No two CPUs ever have a hold on one task, and is_running records exactly
\* which tasks are held: kmt_schedule never runs a task on two CPUs.
THEOREM SchedulerSafe == Spec => [](OwnersDisjoint /\ RunningFlag /\ NestedDepth)
<1>1. SInv => OwnersDisjoint /\ RunningFlag /\ NestedDepth
  BY DEF SInv
<1> QED BY <1>1, SInvInit, SInvStep, PTL DEF Spec

\* The panic_ons of kmt_schedule never fire and it resumes the right context.
THEOREM ScheduleNeverPanics == Spec => []ScheduleSane
<1>1. SInv => ScheduleSane
  <2> SUFFICES ASSUME SInv, NEW c \in Cpus, mode[c] = "iret", current[c] \in Tasks
               PROVE  /\ nested[current[c]] \in 0..1
                      /\ ctx[current[c]][nested[current[c]]] = level[current[c]]
    BY DEF ScheduleSane, SInv, IretOK
  <2> DEFINE t == current[c]
  <2>1. \A d \in Cpus : ~Pushed(d, t) /\ ~Active(d, t)
    BY DEF SInv, Pushed, Active, OwnersDisjoint, Owns
  <2>2. nested[t] = level[t] /\ level[t] \in 0..1
    BY <2>1 DEF SInv, NestedDepth, TypeOK
  <2> QED BY <2>1, <2>2 DEF SInv, CtxOK
<1> QED BY <1>1, SInvInit, SInvStep, PTL DEF Spec

-----------------------------------------------------------------------------
(* The semaphores of Kmt never hand out a permit they do not have, for any *)
(* number of CPUs, tasks and semaphores, when no task waits for two        *)
(* different semaphores.                                                   *)

\* Only a P has stages.
PhaseOK == \A t \in Tasks : phase[t] # "start" => Op(t) = "P"

\* A task is queued only on a semaphore its program waits for.
QueuedOK ==
  \A s \in Sems : \A t \in waiters[s] :
    \E i \in DOMAIN Program[t] : Program[t][i].op = "P" /\ Program[t][i].sem = s

\* The queued tasks are inside P.  The exception: between the two halves of a
\* V that raised the counter to zero or more, the last waiter may have read the
\* new value and left already.
QueuedInP ==
  \A s \in Sems :
    semlock[s] = NULL \/ resource[s] < 0 => waiters[s] \subseteq InP(s)

\* A task that yielded inside P and is still blocked is not being executed.
YieldOK ==
  \A c \in Cpus, t \in Tasks :
    current[c] = t /\ phase[t] = "wait" /\ block[t] => mode[c] \in {"save", "sched", "claim"}

WInv == /\ SInv /\ PhaseOK /\ QueuedIsBlocked /\ WaiterCount
        /\ QueuedOK /\ QueuedInP /\ YieldOK

-----------------------------------------------------------------------------
LEMMA InPFinish ==
  ASSUME TypeOK, NEW t \in Tasks, Finish(t), NEW s \in Sems
  PROVE  InP(s)' = InP(s) \ {t}
<1>1. phase'[t] = "start"
  BY DEF Finish, TypeOK
<1>2. \A u \in Tasks : u # t => phase'[u] = phase[u] /\ Sem(u)' = Sem(u)
  BY DEF Finish, TypeOK, Sem
<1> QED BY <1>1, <1>2 DEF InP

LEMMA InPBegin ==
  ASSUME TypeOK, NEW t \in Tasks, NEW s \in Sems, UNCHANGED pc,
         phase' = [phase EXCEPT ![t] = "reread"]
  PROVE  InP(s)' = IF s = Sem(t) THEN InP(s) \cup {t} ELSE InP(s) \ {t}
<1>1. \A u \in Tasks : Sem(u)' = Sem(u)
  BY DEF Sem
<1>2. \A u \in Tasks : phase'[u] = IF u = t THEN "reread" ELSE phase[u]
  BY DEF TypeOK
<1>3. phase'[t] # "start"
  BY <1>2
<1>4. CASE s = Sem(t)
  BY <1>1, <1>2, <1>3, <1>4 DEF InP
<1>5. CASE s # Sem(t)
  BY <1>1, <1>2, <1>3, <1>5 DEF InP
<1> QED BY <1>4, <1>5

LEMMA InPFinite ==
  ASSUME NEW s \in Sems
  PROVE  /\ IsFiniteSet(InP(s)) /\ Cardinality(InP(s)) \in Nat
         /\ TypeOK => IsFiniteSet(waiters[s]) /\ Cardinality(waiters[s]) \in Nat
<1>1. InP(s) \subseteq Tasks /\ (TypeOK => waiters[s] \subseteq Tasks)
  BY DEF InP, TypeOK
<1> QED BY <1>1, FiniteAssumption, FS_Subset, FS_CardinalityType

THEOREM WInvInit == Init => WInv
<1> SUFFICES ASSUME Init PROVE WInv
    OBVIOUS
<1>1. PhaseOK /\ QueuedIsBlocked /\ QueuedOK /\ QueuedInP /\ YieldOK
  BY DEF Init, PhaseOK, QueuedIsBlocked, QueuedOK, QueuedInP, YieldOK
<1>2. WaiterCount
  BY ValueAssumption, FS_EmptySet DEF Init, WaiterCount
<1> QED BY <1>1, <1>2, SInvInit DEF WInv

-----------------------------------------------------------------------------
\* Steps that leave the semaphores and the programs alone.
LEMMA SemFrame ==
  ASSUME WInv, SInv', UNCHANGED <<semVars, progVars, block>>, YieldOK'
  PROVE  WInv'
<1>1. PhaseOK' /\ QueuedIsBlocked' /\ WaiterCount'
  BY DEF WInv, semVars, progVars, PhaseOK, QueuedIsBlocked, WaiterCount, Op
<1>2. QueuedOK' /\ QueuedInP'
  BY DEF WInv, semVars, progVars, QueuedOK, QueuedInP, InP, Sem
<1> QED BY <1>1, <1>2 DEF WInv

\* Steps that complete an operation without stages and touch no semaphore.
LEMMA SemFinishFrame ==
  ASSUME WInv, SInv', NEW t \in Tasks, phase[t] = "start", Finish(t),
         UNCHANGED <<semVars, block>>, YieldOK'
  PROVE  WInv'
<1>1. PhaseOK'
  BY DEF WInv, SInv, TypeOK, PhaseOK, Finish, Op
<1>2. QueuedIsBlocked' /\ WaiterCount' /\ QueuedOK'
  BY DEF WInv, semVars, QueuedIsBlocked, WaiterCount, QueuedOK
<1>3. \A s \in Sems : InP(s)' = InP(s)
  BY InPFinish DEF WInv, SInv, InP
<1>4. QueuedInP'
  BY <1>3 DEF WInv, semVars, QueuedInP
<1> QED BY <1>1, <1>2, <1>4 DEF WInv

LEMMA SemWaitLockedWInv ==
  ASSUME WInv, NEW c \in Cpus, NEW t \in Tasks, SemWaitLocked(c, t)
  PROVE  WInv'
<1> USE DEF WInv
<1> DEFINE s == Sem(t)
<1>1. SInv' /\ TypeOK
  BY SemWaitLockedSInv DEF SInv
<1>2. s \in Sems /\ semlock[s] = NULL
  BY SemType, <1>1 DEF SemWaitLocked
<1>3. \A r \in Sems : InP(r)' = IF r = s THEN InP(r) \cup {t} ELSE InP(r)
  <2> SUFFICES ASSUME NEW r \in Sems
               PROVE  InP(r)' = IF r = s THEN InP(r) \cup {t} ELSE InP(r)
    OBVIOUS
  <2>1. t \notin InP(r)
    BY DEF InP, SemWaitLocked
  <2>2. InP(r)' = IF r = s THEN InP(r) \cup {t} ELSE InP(r) \ {t}
    BY <1>1, InPBegin DEF SemWaitLocked
  <2> QED BY <2>1, <2>2
<1>4. t \notin waiters[s]
  BY <1>2 DEF QueuedInP, SemWaitLocked, InP
<1>5. resource[s] \in Int /\ resource'[s] = resource[s] - 1 /\ semlock' = semlock
  BY <1>1, <1>2 DEF TypeOK, SemWaitLocked
<1>6. waiters'[s] = IF resource[s] - 1 < 0 THEN waiters[s] \cup {t} ELSE waiters[s]
  BY <1>1, <1>2 DEF TypeOK, SemWaitLocked
<1>7. \A r \in Sems : r # s => waiters'[r] = waiters[r] /\ resource'[r] = resource[r]
  BY <1>1, <1>2 DEF TypeOK, SemWaitLocked
<1>8. \A u \in Tasks : block'[u] = IF u = t THEN block[t] \/ resource[s] - 1 < 0
                                   ELSE block[u]
  BY <1>1 DEF TypeOK, SemWaitLocked
<1>9. PhaseOK'
  BY <1>1 DEF PhaseOK, SemWaitLocked, TypeOK, Op
<1>10. QueuedIsBlocked'
  <2> SUFFICES ASSUME NEW r \in Sems, NEW u \in waiters'[r] PROVE block'[u]
    BY DEF QueuedIsBlocked
  <2>1. u \in Tasks
    BY <1>1 DEF SInv, TypeOK
  <2>2. CASE u \in waiters[r]
    BY <2>1, <2>2, <1>8 DEF QueuedIsBlocked
  <2>3. CASE u \notin waiters[r]
    BY <2>1, <2>3, <1>6, <1>7, <1>8
  <2> QED BY <2>2, <2>3
<1>11. WaiterCount'
  <2> SUFFICES ASSUME NEW r \in Sems
               PROVE  LET v == IF semlock[r] = NULL THEN resource'[r] ELSE resource'[r] - 1
                      IN  Cardinality(waiters'[r]) = IF v < 0 THEN -v ELSE 0
    BY <1>5 DEF WaiterCount
  <2>1. CASE r = s
    <3>1. Cardinality(waiters[s] \cup {t}) = Cardinality(waiters[s]) + 1
      BY <1>1, <1>2, <1>4, InPFinite, FS_AddElement
    <3>2. Cardinality(waiters[s]) = IF resource[s] < 0 THEN -resource[s] ELSE 0
      BY <1>2 DEF WaiterCount
    <3> QED BY <2>1, <3>1, <3>2, <1>2, <1>5, <1>6
  <2>2. CASE r # s
    BY <2>2, <1>7 DEF WaiterCount
  <2> QED BY <2>1, <2>2
<1>12. QueuedOK'
  <2>1. pc[t] \in DOMAIN Program[t]
    BY <1>1 DEF TypeOK
  <2>2. Program[t][pc[t]].op = "P" /\ Program[t][pc[t]].sem = s
    BY DEF SemWaitLocked, Op, Sem
  <2> QED BY <2>1, <2>2, <1>6, <1>7 DEF QueuedOK
<1>13. QueuedInP'
  BY <1>2, <1>3, <1>5, <1>6, <1>7 DEF QueuedInP
<1>14. YieldOK'
  BY <1>1, <1>8 DEF YieldOK, SemWaitLocked, cpuVars, TypeOK
<1> QED BY <1>1, <1>9, <1>10, <1>11, <1>12, <1>13, <1>14

\* A task that leaves P(s) by reading sem->resource >= 0 again is not queued any
\* more, unless a V holds the lock.
LEMMA SemWaitRereadWInv ==
  ASSUME WInv, NEW c \in Cpus, NEW t \in Tasks, SemWaitReread(c, t)
  PROVE  WInv'
<1> USE DEF WInv
<1> DEFINE s == Sem(t)
<1>1. SInv' /\ TypeOK
  BY SemWaitRereadSInv DEF SInv
<1>2. UNCHANGED <<block, semVars>> /\ current[c] = t /\ mode[c] = "run"
  BY DEF SemWaitReread, taskVars, Running
<1>3. QueuedIsBlocked' /\ WaiterCount' /\ QueuedOK'
  BY <1>2 DEF semVars, QueuedIsBlocked, WaiterCount, QueuedOK
<1>4. Op(t) = "P" /\ s \in Sems /\ phase[t] = "reread"
  BY <1>1, SemType DEF SemWaitReread, PhaseOK
<1>5. CASE MustYield(s)
  <2>1. /\ phase' = [phase EXCEPT ![t] = "wait"] /\ UNCHANGED pc
        /\ mode' = [mode EXCEPT ![c] = "save"]
    BY <1>5 DEF SemWaitReread
  <2>2. PhaseOK'
    BY <2>1, <1>1, <1>4 DEF PhaseOK, TypeOK, Op
  <2>3. \A r \in Sems : InP(r)' = InP(r)
    BY <2>1, <1>1, <1>4 DEF InP, TypeOK, Sem
  <2>4. QueuedInP'
    BY <2>3, <1>2 DEF QueuedInP, semVars
  <2>5. YieldOK'
    <3>1. \A d \in Cpus : d # c => current[d] # t
      BY <1>2 DEF SInv, OwnersDisjoint, Owns
    <3> QED BY <3>1, <2>1, <1>1, <1>2 DEF YieldOK, TypeOK, SemWaitReread
  <2> QED BY <2>2, <2>4, <2>5, <1>1, <1>3
<1>6. CASE ~MustYield(s)
  <2>1. Finish(t) /\ UNCHANGED <<mode, current>>
    BY <1>6 DEF SemWaitReread
  <2>2. PhaseOK'
    BY <2>1, <1>1 DEF PhaseOK, TypeOK, Finish, Op
  <2>3. resource[s] \in Int /\ ~(resource[s] < 0)
    BY <1>6, <1>1, <1>4 DEF MustYield, TypeOK
  <2>4. semlock[s] = NULL => waiters[s] = {}
    BY <2>3, <1>1, <1>4, InPFinite, FS_EmptySet DEF WaiterCount
  <2>5. \A r \in Sems : InP(r)' = IF r = s THEN InP(r) \ {t} ELSE InP(r)
    BY <2>1, <1>1, InPFinish DEF InP
  <2>6. QueuedInP'
    BY <2>3, <2>4, <2>5, <1>2, <1>4 DEF QueuedInP, semVars
  <2>7. YieldOK'
    BY <2>1, <1>1, <1>2 DEF YieldOK, TypeOK, Finish
  <2> QED BY <2>2, <2>6, <2>7, <1>1, <1>3
<1> QED BY <1>5, <1>6

LEMMA SemWaitReturnWInv ==
  ASSUME WInv, NEW c \in Cpus, NEW t \in Tasks, SemWaitReturn(c, t)
  PROVE  WInv'
<1> USE DEF WInv
<1> DEFINE s == Sem(t)
<1>1. SInv' /\ TypeOK
  BY SemWaitReturnSInv DEF SInv
<1>2. UNCHANGED <<block, semVars, mode, current>> /\ current[c] = t /\ mode[c] = "run"
  BY DEF SemWaitReturn, taskVars, cpuVars, Running
<1>3. QueuedIsBlocked' /\ WaiterCount' /\ QueuedOK'
  BY <1>2 DEF semVars, QueuedIsBlocked, WaiterCount, QueuedOK
<1>4. Finish(t) /\ phase[t] = "wait"
  BY DEF SemWaitReturn
<1>5. PhaseOK'
  BY <1>1, <1>4 DEF PhaseOK, TypeOK, Finish, Op
<1>6. ~block[t]
  BY <1>2, <1>4 DEF YieldOK
<1>7. \A r \in Sems : InP(r)' = InP(r) \ {t} /\ t \notin waiters[r]
  BY <1>1, <1>4, <1>6, InPFinish DEF QueuedIsBlocked
<1>8. QueuedInP'
  BY <1>2, <1>7 DEF QueuedInP, semVars
<1>9. YieldOK'
  BY <1>1, <1>2, <1>4 DEF YieldOK, TypeOK, Finish
<1> QED BY <1>1, <1>3, <1>5, <1>8, <1>9

\* The first half of a V: the waiters are those of the counter before it.
LEMMA SignalIncWInv ==
  ASSUME WInv, NEW c \in Cpus, NEW s \in Sems, SemSignalInc(c, s)
  PROVE  /\ QueuedIsBlocked' /\ WaiterCount' /\ QueuedOK'
         /\ \A r \in Sems : semlock'[r] = NULL \/ resource'[r] < 0 =>
                              waiters'[r] \subseteq InP(r)
<1> USE DEF WInv
<1>1. /\ semlock[s] = NULL /\ semlock'[s] = c /\ c # NULL
      /\ resource[s] \in Int /\ resource'[s] = resource[s] + 1
      /\ \A r \in Sems : r # s => semlock'[r] = semlock[r] /\ resource'[r] = resource[r]
      /\ UNCHANGED <<waiters, block>>
  BY CpuAssumption DEF SemSignalInc, SInv, TypeOK, taskVars
<1>2. QueuedIsBlocked' /\ QueuedOK'
  BY <1>1 DEF QueuedIsBlocked, QueuedOK
<1>3. WaiterCount'
  <2> SUFFICES ASSUME NEW r \in Sems
               PROVE  LET v == IF semlock'[r] = NULL THEN resource'[r] ELSE resource'[r] - 1
                      IN  Cardinality(waiters[r]) = IF v < 0 THEN -v ELSE 0
    BY <1>1 DEF WaiterCount
  <2>1. CASE r = s
    <3>1. resource'[s] - 1 = resource[s]
      BY <1>1
    <3> QED BY <2>1, <3>1, <1>1 DEF WaiterCount
  <2>2. CASE r # s
    BY <2>2, <1>1 DEF WaiterCount
  <2> QED BY <2>1, <2>2
<1>4. \A r \in Sems : semlock'[r] = NULL \/ resource'[r] < 0 =>
                     waiters'[r] \subseteq InP(r)
  BY <1>1 DEF QueuedInP
<1> QED BY <1>2, <1>3, <1>4

LEMMA SemSignalWInv ==
  ASSUME WInv, NEW c \in Cpus, NEW t \in Tasks, SemSignal(c, t)
  PROVE  WInv'
<1> USE DEF WInv
<1>1. SInv' /\ TypeOK /\ Sem(t) \in Sems
  BY SemSignalSInv, SemType DEF SInv, SemSignal
<1>2. Finish(t) /\ phase[t] = "start" /\ SemSignalInc(c, Sem(t))
  BY DEF SemSignal
<1>3. PhaseOK'
  BY <1>1, <1>2 DEF PhaseOK, TypeOK, Finish, Op
<1>4. \A r \in Sems : InP(r)' = InP(r)
  BY <1>1, <1>2, InPFinish DEF InP
<1>5. QueuedIsBlocked' /\ WaiterCount' /\ QueuedOK' /\ QueuedInP'
  BY <1>1, <1>2, <1>4, SignalIncWInv DEF QueuedInP
<1>6. YieldOK'
  BY <1>1, <1>2 DEF YieldOK, TypeOK, Finish, SemSignal, SemSignalInc, taskVars, Running
<1> QED BY <1>1, <1>3, <1>5, <1>6

LEMMA IrqSignalWInv ==
  ASSUME WInv, NEW c \in Cpus, IrqSignal(c)
  PROVE  WInv'
<1> USE DEF WInv
<1>1. SInv' /\ TypeOK /\ IrqSem \in Sems
  BY IrqSignalSInv, SemAssumption DEF SInv, IrqSignal
<1>2. UNCHANGED progVars /\ SemSignalInc(c, IrqSem)
  BY DEF IrqSignal
<1>3. PhaseOK'
  BY <1>2 DEF PhaseOK, progVars, Op
<1>4. \A r \in Sems : InP(r)' = InP(r)
  BY <1>2 DEF InP, progVars, Sem
<1>5. QueuedIsBlocked' /\ WaiterCount' /\ QueuedOK' /\ QueuedInP'
  BY <1>1, <1>2, <1>4, SignalIncWInv DEF QueuedInP
<1>6. YieldOK'
  BY <1>1, <1>2 DEF YieldOK, TypeOK, progVars, IrqSignal, SemSignalInc, taskVars
<1> QED BY <1>1, <1>3, <1>5, <1>6

\* The second half of a V: the task it unblocks is queued nowhere else.
LEMMA SemSignalWakeWInv ==
  ASSUME SinglePSem, WInv, NEW c \in Cpus, NEW s \in Sems, SemSignalWake(c, s)
  PROVE  WInv'
<1> USE DEF WInv
<1>1. SInv' /\ TypeOK
  BY SemSignalWakeSInv DEF SInv
<1>2. /\ semlock[s] = c /\ c # NULL /\ semlock'[s] = NULL
      /\ \A r \in Sems : r # s => semlock'[r] = semlock[r]
      /\ UNCHANGED <<resource, progVars, current>> /\ resource[s] \in Int
  BY <1>1, CpuAssumption DEF SemSignalWake, TypeOK
<1>3. PhaseOK'
  BY <1>2 DEF PhaseOK, progVars, Op
<1>4. \A r \in Sems : InP(r)' = InP(r)
  BY <1>2 DEF InP, progVars, Sem
<1>5. YieldOK'
  <2>1. \A u \in Tasks : block'[u] => block[u]
    BY <1>1 DEF SemSignalWake, Unblock, TypeOK
  <2>2. \A d \in Cpus : mode'[d] = mode[d] \/ mode[d] \in {"wakeTask", "wakeIrq"}
    BY <1>1 DEF SemSignalWake, TypeOK
  <2> QED BY <2>1, <2>2, <1>2 DEF YieldOK, progVars
<1>6. Cardinality(waiters[s]) = IF resource[s] - 1 < 0 THEN -(resource[s] - 1) ELSE 0
  BY <1>2 DEF WaiterCount
<1>7. CASE MustWake(s)
  <2>1. PICK w \in waiters[s] : Unblock(w) /\ Dequeue(s, w)
    BY <1>7 DEF SemSignalWake
  <2>2. /\ w \in Tasks /\ block'[w] = FALSE
        /\ \A u \in Tasks : u # w => block'[u] = block[u]
        /\ waiters'[s] = waiters[s] \ {w}
        /\ \A r \in Sems : r # s => waiters'[r] = waiters[r]
    BY <2>1, <1>1 DEF Unblock, Dequeue, TypeOK
  <2>3. \A r \in Sems : w \notin waiters'[r]
    BY <2>1, <2>2 DEF QueuedOK, SinglePSem
  <2>4. QueuedIsBlocked'
    BY <2>2, <2>3, <1>1 DEF QueuedIsBlocked, SInv, TypeOK
  <2>5. QueuedOK'
    BY <2>2 DEF QueuedOK
  <2>6. Cardinality(waiters'[s]) = -resource[s]
    <3>1. Cardinality(waiters'[s]) = Cardinality(waiters[s]) - 1
      BY <2>1, <2>2, <1>1, InPFinite, FS_RemoveElement
    <3>2. resource[s] <= 0
      BY <1>7 DEF MustWake
    <3> QED BY <3>1, <3>2, <1>2, <1>6
  <2>7. WaiterCount'
    <3>1. \A r \in Sems : r # s => waiters'[r] = waiters[r] /\ semlock'[r] = semlock[r]
      BY <2>2, <1>2
    <3>2. resource[s] <= 0
      BY <1>7 DEF MustWake
    <3> QED BY <2>6, <3>1, <3>2, <1>2 DEF WaiterCount
  <2>8. QueuedInP'
    <3>1. resource[s] = 0 => waiters'[s] = {}
      <4>1. IsFiniteSet(waiters'[s])
        BY <2>2, <1>1, InPFinite, FS_RemoveElement
      <4> QED BY <2>6, <4>1, FS_EmptySet
    <3>2. resource[s] < 0 => waiters'[s] \subseteq InP(s)
      BY <2>2 DEF QueuedInP
    <3>3. resource[s] <= 0
      BY <1>7 DEF MustWake
    <3> QED BY <3>1, <3>2, <3>3, <2>2, <1>2, <1>4 DEF QueuedInP
  <2> QED BY <2>4, <2>5, <2>7, <2>8, <1>1, <1>3, <1>5
<1>8. CASE ~MustWake(s)
  <2>1. UNCHANGED <<block, waiters>>
    BY <1>8 DEF SemSignalWake
  <2>2. waiters[s] = {} /\ resource[s] >= 1
    BY <1>8, <1>2, <1>6, <1>1, InPFinite, FS_EmptySet DEF MustWake
  <2>3. QueuedIsBlocked' /\ QueuedOK'
    BY <2>1 DEF QueuedIsBlocked, QueuedOK
  <2>4. WaiterCount'
    BY <2>1, <2>2, <1>2, FS_EmptySet DEF WaiterCount
  <2>5. QueuedInP'
    BY <2>1, <2>2, <1>2, <1>4 DEF QueuedInP
  <2> QED BY <2>3, <2>4, <2>5, <1>1, <1>3, <1>5
<1> QED BY <1>7, <1>8

\* The steps of the trap path only move tasks between CPUs.
LEMMA TrapWInv ==
  ASSUME WInv, NEW c \in Cpus,
         \/ ContextSave(c) \/ SchedSelf(c) \/ SchedConfirm(c) \/ SchedIdle(c)
         \/ Iret(c) \/ TimerTrap(c) \/ \E t \in Tasks : SchedClaim(c, t)
  PROVE  WInv'
<1>1. SInv' /\ SInv
  BY ContextSaveSInv, SchedSelfSInv, SchedConfirmSInv, SchedIdleSInv, IretSInv,
     TimerTrapSInv, SchedClaimSInv DEF WInv
<1>2. UNCHANGED <<semVars, progVars, block>>
  BY DEF ContextSave, SchedSelf, SchedConfirm, SchedIdle, Iret, TimerTrap,
     SchedClaim, taskVars
<1>3. YieldOK'
  <2> USE DEF YieldOK, WInv, SInv, TypeOK, progVars
  <2>1. CASE ContextSave(c) \/ \E t \in Tasks : SchedClaim(c, t)
    BY <2>1, <1>2, TaskAssumption DEF ContextSave, SchedClaim
  <2>2. CASE SchedSelf(c) \/ SchedIdle(c)
    BY <2>2, <1>2, TaskAssumption DEF SchedSelf, SchedIdle, SelfFit
  <2>3. CASE Iret(c)
    BY <2>3, <1>2 DEF Iret
  <2>4. CASE TimerTrap(c)
    BY <2>4, <1>2 DEF TimerTrap
  <2>5. CASE SchedConfirm(c)
    <3>1. ~block[target[c]]
      BY <2>5 DEF SchedConfirm, IretOK
    <3>2. /\ current' = [current EXCEPT ![c] = target[c]]
          /\ mode' = [mode EXCEPT ![c] = "iret"]
      BY <2>5, <3>1 DEF SchedConfirm
    <3> QED BY <3>1, <3>2, <1>2
  <2> QED BY <1>1, <2>1, <2>2, <2>3, <2>4, <2>5
<1> QED BY <1>1, <1>2, <1>3, SemFrame

LEMMA CodeWInv ==
  ASSUME WInv, NEW c \in Cpus,
         Yield(c) \/ \E t \in Tasks : SyscallEnter(c, t) \/ SyscallLeave(c, t)
  PROVE  WInv'
<1>1. SInv' /\ SInv
  BY YieldSInv, SyscallSInv DEF WInv
<1>2. UNCHANGED <<semVars, block, current>>
  BY DEF Yield, SyscallEnter, SyscallLeave, taskVars, cpuVars
<1>3. CASE UNCHANGED progVars
  <2>1. YieldOK'
    BY <1>1, <1>2, <1>3 DEF YieldOK, WInv, SInv, TypeOK, progVars, Yield,
       SyscallEnter, SyscallLeave, cpuVars
  <2> QED BY <2>1, <1>1, <1>2, <1>3, SemFrame
<1>4. CASE \E t \in Tasks : phase[t] = "start" /\ Finish(t)
  <2>1. PICK t \in Tasks : phase[t] = "start" /\ Finish(t)
    BY <1>4
  <2>2. YieldOK'
    <3>1. \A u \in Tasks : phase'[u] = "wait" => phase[u] = "wait"
      BY <1>1, <2>1 DEF Finish, SInv, TypeOK
    <3>2. \A d \in Cpus : mode'[d] = mode[d] \/ mode'[d] = "save"
      BY <1>1 DEF Yield, SyscallEnter, SyscallLeave, cpuVars, SInv, TypeOK
    <3> QED BY <3>1, <3>2, <1>2 DEF YieldOK, WInv
  <2> QED BY <2>1, <2>2, <1>1, <1>2, SemFinishFrame
<1> QED BY <1>3, <1>4 DEF Yield, SyscallEnter, SyscallLeave

LEMMA WInvStep == SinglePSem /\ WInv /\ [Next]_vars => WInv'
<1> SUFFICES ASSUME SinglePSem, WInv, [Next]_vars PROVE WInv'
    OBVIOUS
<1>1. CASE UNCHANGED vars
  <2>1. SInv'
    BY <1>1, SInvStep DEF WInv
  <2> QED BY <1>1, <2>1, SemFrame
          DEF vars, cpuVars, taskVars, YieldOK, WInv, progVars
<1>2. ASSUME NEW c \in Cpus, CpuStep(c) \/ TimerTrap(c) PROVE WInv'
  <2>1. ASSUME NEW t \in Tasks, TaskStep(c, t) PROVE WInv'
    BY <2>1, SemWaitLockedWInv, SemWaitRereadWInv, SemWaitReturnWInv,
       SemSignalWInv, CodeWInv DEF TaskStep
  <2>2. ASSUME NEW t \in Tasks, SchedClaim(c, t) PROVE WInv'
    BY <2>2, TrapWInv
  <2>3. ASSUME NEW s \in Sems, SemSignalWake(c, s) PROVE WInv'
    BY <2>3, SemSignalWakeWInv
  <2>4. CASE Yield(c) \/ TimerTrap(c)
    BY <2>4, CodeWInv, TrapWInv
  <2>5. CASE TrapStep(c)
    BY <2>5, IrqSignalWInv, TrapWInv DEF TrapStep
  <2> QED BY <1>2, <2>1, <2>2, <2>3, <2>4, <2>5 DEF CpuStep
<1> QED BY <1>1, <1>2 DEF Next

-----------------------------------------------------------------------------
\* The counter is never below zero by more than the number of tasks inside P.
LEMMA WInvPermits == WInv => NoPhantomPermit
<1> SUFFICES ASSUME WInv, NEW s \in Sems PROVE Permits(s) >= 0
    BY DEF NoPhantomPermit
<1>1. resource[s] \in Int /\ Cardinality(InP(s)) \in Nat
  BY InPFinite DEF WInv, SInv, TypeOK
<1>2. CASE resource[s] < 0
  <2>1. waiters[s] \subseteq InP(s)
    BY <1>2 DEF WInv, QueuedInP
  <2>2. Cardinality(waiters[s]) <= Cardinality(InP(s))
    BY <2>1, InPFinite, FS_Subset
  <2>3. Cardinality(waiters[s]) >= -resource[s]
    BY <1>1, <1>2 DEF WInv, WaiterCount
  <2>4. Cardinality(waiters[s]) \in Nat
    BY InPFinite DEF WInv, SInv
  <2> QED BY <1>1, <2>2, <2>3, <2>4 DEF Permits
<1>3. CASE ~(resource[s] < 0)
  BY <1>1, <1>3 DEF Permits
<1> QED BY <1>2, <1>3

\* kmt_sem_wait never lets a task go on without a permit (the comment there),
\* on any number of CPUs, when no task waits for two different semaphores.
THEOREM SemaphoreSafe == SinglePSem => (Spec => []NoPhantomPermit)
<1> SUFFICES ASSUME SinglePSem PROVE Spec => []NoPhantomPermit
    OBVIOUS
<1>1. Init => WInv
  BY WInvInit
<1>2. WInv /\ [Next]_vars => WInv'
  BY WInvStep
<1>3. WInv => NoPhantomPermit
  BY WInvPermits
<1> QED BY <1>1, <1>2, <1>3, PTL DEF Spec

\* Under the same condition the list of a semaphore holds exactly as many tasks
\* as the counter says, and each of them is blocked.
THEOREM WaitListSafe == SinglePSem => (Spec => [](WaiterCount /\ QueuedIsBlocked))
<1> SUFFICES ASSUME SinglePSem PROVE Spec => [](WaiterCount /\ QueuedIsBlocked)
    OBVIOUS
<1>1. Init => WInv
  BY WInvInit
<1>2. WInv /\ [Next]_vars => WInv'
  BY WInvStep
<1>3. WInv => WaiterCount /\ QueuedIsBlocked
  BY DEF WInv
<1> QED BY <1>1, <1>2, <1>3, PTL DEF Spec

-----------------------------------------------------------------------------
(* The refinement.                                                         *)

\* The semaphore task t is inside P of, as the abstract semaphores see it.
AbsInP == [t \in Tasks |-> IF phase[t] = "start" THEN NULL ELSE Sem(t)]
AbsPermits == [s \in Sems |-> Permits(s)]

\* Steps that change neither a counter nor the set of tasks inside P stutter.
LEMMA AbsStutter ==
  ASSUME UNCHANGED resource,
         \A s \in Sems : InP(s)' = InP(s),
         \A t \in Tasks : phase'[t] # "start" <=> phase[t] # "start",
         \A t \in Tasks : phase'[t] # "start" => Sem(t)' = Sem(t)
  PROVE  UNCHANGED <<AbsPermits, AbsInP>>
<1>1. \A s \in Sems : Permits(s)' = Permits(s)
  BY DEF Permits
<1> QED BY <1>1 DEF AbsPermits, AbsInP

\* Whoever leaves P takes a permit that is there.
LEMMA LeaverHasPermit ==
  ASSUME WInv, NEW t \in Tasks, NEW s \in Sems, t \in InP(s),
         resource[s] >= 0 \/ t \notin waiters[s]
  PROVE  Permits(s) > 0
<1>1. resource[s] \in Int /\ Cardinality(InP(s)) \in Nat
  BY InPFinite DEF WInv, SInv, TypeOK
<1>2. /\ IsFiniteSet(InP(s) \ {t})
      /\ Cardinality(InP(s) \ {t}) = Cardinality(InP(s)) - 1
      /\ Cardinality(InP(s) \ {t}) \in Nat
  BY InPFinite, FS_RemoveElement, FS_CardinalityType
<1>3. CASE resource[s] >= 0
  BY <1>1, <1>2, <1>3 DEF Permits
<1>4. CASE ~(resource[s] >= 0)
  <2>1. waiters[s] \subseteq InP(s) \ {t}
    BY <1>1, <1>4 DEF WInv, QueuedInP
  <2>2. Cardinality(waiters[s]) <= Cardinality(InP(s)) - 1
    BY <2>1, <1>2, FS_Subset
  <2>3. Cardinality(waiters[s]) >= -resource[s]
    BY <1>1, <1>4 DEF WInv, WaiterCount
  <2>4. Cardinality(waiters[s]) \in Nat
    BY InPFinite DEF WInv, SInv
  <2> QED BY <1>1, <2>2, <2>3, <2>4 DEF Permits
<1> QED BY <1>3, <1>4

LEMMA LeaveIsEndP ==
  ASSUME WInv, NEW t \in Tasks, phase[t] # "start", Finish(t), UNCHANGED resource,
         resource[Sem(t)] >= 0 \/ t \notin waiters[Sem(t)]
  PROVE  \E s \in Sems : Abstract!EndP(t, s)
<1>0. PICK s \in Sems : s = Sem(t)
  BY SemType DEF WInv, SInv, PhaseOK
<1>1. TypeOK /\ s \in Sems /\ t \in InP(s)
  BY <1>0 DEF WInv, SInv, InP
<1>2. \A r \in Sems : Permits(r)' = IF r = s THEN Permits(r) - 1 ELSE Permits(r)
  <2> SUFFICES ASSUME NEW r \in Sems
               PROVE  Permits(r)' = IF r = s THEN Permits(r) - 1 ELSE Permits(r)
    OBVIOUS
  <2>1. InP(r)' = InP(r) \ {t} /\ (t \in InP(r) <=> r = s)
    BY <1>0, <1>1, InPFinish DEF InP
  <2>2. Cardinality(InP(r) \ {t}) = IF r = s THEN Cardinality(InP(r)) - 1
                                             ELSE Cardinality(InP(r))
    BY <2>1, InPFinite, FS_RemoveElement
  <2>3. resource[r] \in Int /\ Cardinality(InP(r)) \in Nat
    BY <1>1, InPFinite DEF TypeOK
  <2> QED BY <2>1, <2>2, <2>3 DEF Permits
<1>3. Permits(s) > 0
  BY <1>0, <1>1, LeaverHasPermit
<1>4. AbsInP[t] = s /\ AbsInP' = [AbsInP EXCEPT ![t] = NULL]
  <2>1. phase'[t] = "start"
    BY <1>1 DEF Finish, TypeOK
  <2>2. \A u \in Tasks : u # t => phase'[u] = phase[u] /\ Sem(u)' = Sem(u)
    BY <1>1 DEF Finish, TypeOK, Sem
  <2> QED BY <1>0, <2>1, <2>2 DEF AbsInP
<1>5. AbsPermits' = [AbsPermits EXCEPT ![s] = @ - 1]
  BY <1>1, <1>2 DEF AbsPermits
<1> QED BY <1>1, <1>3, <1>4, <1>5 DEF Abstract!EndP, AbsInP, AbsPermits

LEMMA LockedIsBeginP ==
  ASSUME WInv, NEW c \in Cpus, NEW t \in Tasks, SemWaitLocked(c, t)
  PROVE  \E s \in Sems : Abstract!BeginP(t, s)
<1>0. PICK s \in Sems : s = Sem(t)
  BY SemType DEF WInv, SInv, SemWaitLocked
<1>1. TypeOK /\ s \in Sems /\ phase[t] = "start"
  BY DEF WInv, SInv, SemWaitLocked
<1>2. \A r \in Sems : Permits(r)' = Permits(r)
  <2> SUFFICES ASSUME NEW r \in Sems PROVE Permits(r)' = Permits(r)
    OBVIOUS
  <2>1. InP(r)' = (IF r = s THEN InP(r) \cup {t} ELSE InP(r) \ {t}) /\ t \notin InP(r)
    BY <1>0, <1>1, InPBegin DEF SemWaitLocked, InP
  <2>2. resource'[r] = IF r = s THEN resource[r] - 1 ELSE resource[r]
    BY <1>0, <1>1 DEF SemWaitLocked, TypeOK
  <2>3. Cardinality(InP(r)') = IF r = s THEN Cardinality(InP(r)) + 1
                                        ELSE Cardinality(InP(r))
    BY <2>1, InPFinite, FS_AddElement, FS_RemoveElement
  <2>4. resource[r] \in Int /\ Cardinality(InP(r)) \in Nat
    BY <1>1, InPFinite DEF TypeOK
  <2> QED BY <2>2, <2>3, <2>4 DEF Permits
<1>3. AbsInP[t] = NULL /\ AbsInP' = [AbsInP EXCEPT ![t] = s]
  <2>1. phase'[t] # "start" /\ \A u \in Tasks : u # t => phase'[u] = phase[u]
    BY <1>1 DEF SemWaitLocked, TypeOK
  <2>2. \A u \in Tasks : Sem(u)' = Sem(u)
    BY DEF SemWaitLocked, Sem
  <2> QED BY <1>0, <1>1, <2>1, <2>2 DEF AbsInP
<1>4. AbsPermits' = AbsPermits
  BY <1>2 DEF AbsPermits
<1> QED BY <1>1, <1>3, <1>4 DEF Abstract!BeginP, AbsInP, AbsPermits

LEMMA IncIsV ==
  ASSUME WInv, NEW c \in Cpus, NEW s \in Sems, SemSignalInc(c, s),
         \/ UNCHANGED progVars
         \/ \E t \in Tasks : phase[t] = "start" /\ Finish(t)
  PROVE  Abstract!V(s)
<1>1. TypeOK
  BY DEF WInv, SInv
<1>2. /\ \A r \in Sems : InP(r)' = InP(r)
      /\ \A u \in Tasks : phase'[u] = phase[u] /\ (phase[u] # "start" => Sem(u)' = Sem(u))
  <2>1. CASE UNCHANGED progVars
    BY <2>1 DEF progVars, InP, Sem
  <2>2. CASE \E t \in Tasks : phase[t] = "start" /\ Finish(t)
    <3>1. PICK t \in Tasks : phase[t] = "start" /\ Finish(t)
      BY <2>2
    <3>2. \A r \in Sems : InP(r)' = InP(r)
      BY <1>1, <3>1, InPFinish DEF InP
    <3>3. \A u \in Tasks : phase'[u] = phase[u] /\ (u # t => Sem(u)' = Sem(u))
      BY <1>1, <3>1 DEF Finish, TypeOK, Sem
    <3> QED BY <3>1, <3>2, <3>3
  <2> QED BY <2>1, <2>2
<1>3. \A r \in Sems : Permits(r)' = IF r = s THEN Permits(r) + 1 ELSE Permits(r)
  <2>1. \A r \in Sems : resource[r] \in Int /\ Cardinality(InP(r)) \in Nat
    BY <1>1, InPFinite DEF TypeOK
  <2>2. \A r \in Sems : resource'[r] = IF r = s THEN resource[r] + 1 ELSE resource[r]
    BY <1>1 DEF SemSignalInc, TypeOK
  <2> QED BY <1>2, <2>1, <2>2 DEF Permits
<1>4. AbsInP' = AbsInP
  BY <1>2 DEF AbsInP
<1>5. AbsPermits' = [AbsPermits EXCEPT ![s] = @ + 1]
  BY <1>3 DEF AbsPermits
<1> QED BY <1>4, <1>5 DEF Abstract!V, AbsInP, AbsPermits

LEMMA RefinesInit == Init => Abstract!Init
<1> SUFFICES ASSUME Init PROVE Abstract!Init
    OBVIOUS
<1>1. \A s \in Sems : Permits(s) = InitValue[s]
  <2> SUFFICES ASSUME NEW s \in Sems PROVE Permits(s) = InitValue[s]
    OBVIOUS
  <2>1. InP(s) = {}
    BY DEF Init, InP
  <2>2. InitValue[s] \in Nat
    BY ValueAssumption
  <2> QED BY <2>1, <2>2, FS_EmptySet DEF Init, Permits
<1>2. AbsPermits = InitValue
  BY <1>1, ValueAssumption DEF AbsPermits
<1>3. AbsInP = [t \in Tasks |-> NULL]
  BY DEF Init, AbsInP
<1> QED BY <1>2, <1>3 DEF Abstract!Init, AbsPermits, AbsInP

LEMMA RefinesStep ==
  ASSUME WInv, [Next]_vars
  PROVE  [Abstract!Next]_(Abstract!vars)
<1> USE DEF WInv
<1>1. TypeOK
  BY DEF SInv
<1>2. ASSUME UNCHANGED <<AbsPermits, AbsInP>> PROVE UNCHANGED Abstract!vars
  BY <1>2 DEF Abstract!vars, AbsPermits, AbsInP
<1>3. ASSUME UNCHANGED <<resource, progVars>> PROVE UNCHANGED Abstract!vars
  BY <1>2, <1>3, AbsStutter DEF progVars, InP, Sem
<1>4. ASSUME NEW c \in Cpus, NEW t \in Tasks, SemWaitReread(c, t)
      PROVE  [Abstract!Next]_(Abstract!vars)
  <2>1. CASE MustYield(Sem(t))
    <3>1. UNCHANGED <<resource, pc>> /\ phase' = [phase EXCEPT ![t] = "wait"]
          /\ phase[t] = "reread"
      BY <1>4, <2>1 DEF SemWaitReread, semVars
    <3>2. \A u \in Tasks : (phase'[u] # "start" <=> phase[u] # "start") /\ Sem(u)' = Sem(u)
      BY <3>1, <1>1 DEF TypeOK, Sem
    <3>3. \A s \in Sems : InP(s)' = InP(s)
      BY <3>2 DEF InP
    <3> QED BY <3>1, <3>2, <3>3, <1>2, AbsStutter
  <2>2. CASE ~MustYield(Sem(t))
    <3>1. Finish(t) /\ phase[t] # "start" /\ UNCHANGED resource
      BY <1>4, <2>2 DEF SemWaitReread, semVars
    <3>2. resource[Sem(t)] >= 0
      BY <2>2, <3>1, <1>1, SemType DEF MustYield, TypeOK, PhaseOK
    <3>3. \E s \in Sems : Abstract!EndP(t, s)
      BY <3>1, <3>2, LeaveIsEndP
    <3> QED BY <3>3 DEF Abstract!Next
  <2> QED BY <2>1, <2>2
<1>5. ASSUME NEW c \in Cpus, NEW t \in Tasks, SemWaitReturn(c, t)
      PROVE  Abstract!Next
  <2>1. Finish(t) /\ phase[t] = "wait" /\ UNCHANGED resource /\ ~block[t]
    BY <1>5 DEF SemWaitReturn, semVars, Running, YieldOK
  <2>2. Sem(t) \in Sems
    BY <2>1, <1>1, SemType DEF PhaseOK
  <2>3. t \notin waiters[Sem(t)]
    BY <2>1, <2>2 DEF QueuedIsBlocked
  <2>4. \E s \in Sems : Abstract!EndP(t, s)
    BY <2>1, <2>3, LeaveIsEndP
  <2> QED BY <2>4 DEF Abstract!Next
<1>6. ASSUME NEW c \in Cpus, NEW t \in Tasks, SemWaitLocked(c, t)
      PROVE  Abstract!Next
  <2>1. \E s \in Sems : Abstract!BeginP(t, s)
    BY <1>6, LockedIsBeginP
  <2> QED BY <2>1 DEF Abstract!Next
<1>7. ASSUME NEW c \in Cpus, NEW t \in Tasks, SemSignal(c, t)
      PROVE  Abstract!Next
  BY <1>1, <1>7, IncIsV, SemType DEF SemSignal, Abstract!Next
<1>8. ASSUME NEW c \in Cpus, IrqSignal(c)
      PROVE  Abstract!Next
  BY <1>8, IncIsV, SemAssumption DEF IrqSignal, Abstract!Next
<1>9. ASSUME NEW c \in Cpus,
             Yield(c) \/ \E t \in Tasks : SyscallEnter(c, t) \/ SyscallLeave(c, t)
      PROVE  UNCHANGED Abstract!vars
  <2>1. UNCHANGED resource
    BY <1>9 DEF Yield, SyscallEnter, SyscallLeave, semVars
  <2>2. CASE UNCHANGED progVars
    BY <2>1, <2>2, <1>3
  <2>3. CASE \E t \in Tasks : phase[t] = "start" /\ Finish(t)
    <3>1. PICK t \in Tasks : phase[t] = "start" /\ Finish(t)
      BY <2>3
    <3>2. \A r \in Sems : InP(r)' = InP(r)
      BY <1>1, <3>1, InPFinish DEF InP
    <3>3. \A u \in Tasks : phase'[u] = phase[u] /\ (u # t => Sem(u)' = Sem(u))
      BY <1>1, <3>1 DEF Finish, TypeOK, Sem
    <3> QED BY <2>1, <3>1, <3>2, <3>3, <1>2, AbsStutter
  <2> QED BY <1>9, <2>2, <2>3 DEF Yield, SyscallEnter, SyscallLeave
<1>10. ASSUME NEW c \in Cpus, (\E s \in Sems : SemSignalWake(c, s)) \/ TimerTrap(c)
       PROVE  UNCHANGED Abstract!vars
  BY <1>3, <1>10 DEF SemSignalWake, TimerTrap, semVars
<1>11. ASSUME NEW c \in Cpus,
              \/ ContextSave(c) \/ SchedSelf(c) \/ SchedConfirm(c) \/ SchedIdle(c)
              \/ Iret(c) \/ \E t \in Tasks : SchedClaim(c, t)
       PROVE  UNCHANGED Abstract!vars
  BY <1>3, <1>11 DEF ContextSave, SchedSelf, SchedConfirm, SchedIdle, Iret,
     SchedClaim, semVars
<1>12. CASE UNCHANGED vars
  BY <1>3, <1>12 DEF vars, semVars
<1> QED BY <1>4, <1>5, <1>6, <1>7, <1>8, <1>9, <1>10, <1>11, <1>12
        DEF Next, CpuStep, TaskStep, TrapStep

\* kmt_sem_wait and kmt_sem_signal, with the scheduler below them, implement
\* counting semaphores, when no task waits for two different semaphores.
THEOREM SemaphoreRefinement == SinglePSem => (Spec => ImplementsSemaphore)
<1> SUFFICES ASSUME SinglePSem PROVE Spec => ImplementsSemaphore
    OBVIOUS
<1>1. Init => WInv
  BY WInvInit
<1>2. WInv /\ [Next]_vars => WInv'
  BY WInvStep
<1> QED BY <1>1, <1>2, RefinesInit, RefinesStep, PTL
        DEF Spec, ImplementsSemaphore, Abstract!Spec

-----------------------------------------------------------------------------
\* A task is blocked and queued in one step of P, and released and dequeued in
\* the second half of a V.
THEOREM BlockedStep == TypeOK /\ BlockedIsQueued /\ [Next]_vars => BlockedIsQueued'
<1> SUFFICES ASSUME TypeOK, BlockedIsQueued, [Next]_vars PROVE BlockedIsQueued'
    OBVIOUS
<1>1. CASE UNCHANGED <<block, waiters>>
  BY <1>1 DEF BlockedIsQueued
<1>2. ASSUME NEW c \in Cpus, NEW t \in Tasks, SemWaitLocked(c, t)
      PROVE  BlockedIsQueued'
  BY <1>2, SemType DEF SemWaitLocked, BlockedIsQueued, TypeOK
<1>3. ASSUME NEW c \in Cpus, NEW s \in Sems, SemSignalWake(c, s)
      PROVE  BlockedIsQueued'
  <2>1. CASE UNCHANGED <<block, waiters>>
    BY <1>1, <2>1
  <2>2. ASSUME NEW w \in waiters[s],
               block' = [block EXCEPT ![w] = FALSE],
               waiters' = [waiters EXCEPT ![s] = @ \ {w}]
        PROVE  BlockedIsQueued'
    <3>1. w \in Tasks /\ block \in [Tasks -> BOOLEAN] /\ waiters \in [Sems -> SUBSET Tasks]
      BY <2>2 DEF TypeOK
    <3>2. ASSUME NEW t \in Tasks, block'[t] PROVE block[t] /\ t # w
      BY <2>2, <3>1, <3>2
    <3>3. \A r \in Sems : waiters[r] \subseteq waiters'[r] \cup {w}
      BY <2>2, <3>1
    <3> QED BY <3>2, <3>3 DEF BlockedIsQueued
  <2> QED BY <1>3, <2>1, <2>2 DEF SemSignalWake, Unblock, Dequeue
<1>4. CASE UNCHANGED vars
  BY <1>1, <1>4 DEF vars, taskVars, semVars
<1>5. ASSUME NEW c \in Cpus, NEW t \in Tasks, TaskStep(c, t) \/ SchedClaim(c, t)
      PROVE  BlockedIsQueued'
  BY <1>1, <1>2, <1>5 DEF TaskStep, SemWaitReread, SemWaitReturn, SemSignal,
     SemSignalInc, SyscallEnter, SyscallLeave, SchedClaim, taskVars, semVars
<1>6. ASSUME NEW c \in Cpus, Yield(c) \/ TrapStep(c) \/ TimerTrap(c)
      PROVE  BlockedIsQueued'
  BY <1>1, <1>6 DEF Yield, TrapStep, TimerTrap, IrqSignal, SemSignalInc, ContextSave,
     SchedSelf, SchedConfirm, SchedIdle, Iret, taskVars, semVars
<1> QED BY <1>3, <1>4, <1>5, <1>6 DEF Next, CpuStep

\* No task is ever blocked without being in the list of a semaphore that can
\* release it.
THEOREM NobodyForgotten == Spec => []BlockedIsQueued
<1>1. Init => BlockedIsQueued
  BY DEF Init, BlockedIsQueued
<1>2. Spec => []TypeOK
  BY TypeCorrect
<1> QED BY <1>1, <1>2, BlockedStep, PTL DEF Spec
=============================================================================
