----------------------------- MODULE UprocProofs -----------------------------
(* Numbers of processes, for any number of CPUs, tasks and table entries:   *)
(* two processes share one only after a race of two forks or a second exit; *)
(* an exiting process always finds an entry for its father, and a process   *)
(* that is killed stays so and exits.                                       *)
EXTENDS Uproc, WellFoundedInduction, TLAPS

-----------------------------------------------------------------------------
(* The inductive invariant. *)

TaskRecord ==
  [pid : Entries, ppid : Entries, killed : BOOLEAN, block : BOOLEAN,
   retstate : Nat, wait_sem : Int, sem_ready : BOOLEAN]

Unborn == {"none", "made"}

UType ==
  /\ TypeOK
  /\ pids \in Seq(Entries)
  /\ task \in [Tasks -> TaskRecord]
  /\ local \in [Tasks -> Nat]
  /\ other \in [Tasks -> Tasks \cup {NULL}]
  /\ made \in Tasks
  /\ stored \in [Tasks -> Nat]
  /\ raced \in BOOLEAN

(* The task a fork has made and not yet entered is its own.                 *)
ForksApart ==
  /\ \A t \in Tasks : pc[t] = "none" <=> t > made
  /\ \A t \in Tasks : pc[t] \in ForkPc => pc[other[t]] = "made" /\ other[t] \in Tasks
  /\ \A t, u \in Tasks : t # u /\ pc[t] \in ForkPc /\ pc[u] \in ForkPc => other[t] # other[u]
  /\ \A t \in Tasks : pc[t] = "count" => local[t] \in 2 .. (Limit - 1)
  /\ \A t \in Tasks : pc[t] = "list" => local[t] \in Entries

(* An entry of task_list holds a task of that number, and whoever bears a   *)
(* number, or is a child of one that did, finds an entry.                   *)
TableOK ==
  /\ \A n \in Entries : task_list[n] # NULL =>
       pc[task_list[n]] \notin Unborn /\ task[task_list[n]].pid = n
  /\ \A c \in Cpus : current[c] \in Tasks => pc[current[c]] \notin Unborn
  /\ \A t \in Tasks : pc[t] \notin Unborn => task_list[task[t].pid] # NULL
  /\ \A t \in Tasks : task[t].ppid # 0 => task_list[task[t].ppid] # NULL

Clean == ~raced /\ \A t \in Tasks : stored[t] <= 1

Given(t) == pc[t] = "list" /\ local[t] # 0

(* A number belongs to a process, to a fork that was given it, or to        *)
(* p_head ..., and to one of them only; numbers from task_cnt on are fresh. *)
NumbersApart ==
  /\ \A t, u \in Tasks : t # u /\ HasNumber(t) /\ HasNumber(u) => task[t].pid # task[u].pid
  /\ \A t \in Tasks : HasNumber(t) => task[t].pid < task_cnt
  /\ \A t \in Tasks : Given(t) => local[t] < task_cnt
  /\ \A t, u \in Tasks : Given(t) /\ HasNumber(u) => local[t] # task[u].pid
  /\ \A t, u \in Tasks : t # u /\ Given(t) /\ Given(u) => local[t] # local[u]
  /\ \A i \in 1 .. Len(pids) : pids[i] < task_cnt
  /\ \A i \in 1 .. Len(pids), u \in Tasks :
       pids[i] # 0 => (HasNumber(u) => pids[i] # task[u].pid) /\ (Given(u) => pids[i] # local[u])
  /\ \A i, j \in 1 .. Len(pids) : i # j /\ pids[i] # 0 => pids[i] # pids[j]
  /\ \A t \in Tasks : pc[t] = "count" => local[t] = task_cnt
  /\ \A t, u \in Tasks : pc[t] = "count" /\ pc[u] = "count" => t = u

UInv == UType /\ ForksApart /\ TableOK /\ (Clean => NumbersApart)

-----------------------------------------------------------------------------
(* The search for the father. *)

Less == {ss \in Nat \X Nat : ss[1] < ss[2]}

LEMMA LeastNatural ==
  ASSUME NEW S, S \subseteq Nat, S # {}
  PROVE  \E n \in S : \A m \in S : n <= m
<1>1. IsWellFoundedOn(Less, Nat)
  BY NatLessThanWellFounded DEF Less, OpToRel
<1>2. PICK n \in S : \A m \in S : <<m, n>> \notin Less
  BY <1>1, WFMin
<1>3. ASSUME NEW m \in S PROVE n <= m
  <2>1. m \in Nat /\ n \in Nat
    OBVIOUS
  <2>2. ~(m < n)
    BY <1>2, <2>1 DEF Less
  <2> QED BY <2>1, <2>2
<1> QED BY <1>3

Fathers(t) == {n \in Entries \ {0} : task_list[n] # NULL /\ task[task_list[n]].pid = task[t].ppid}

LEMMA FatherThere ==
  ASSUME UInv, NEW t \in Tasks, task[t].ppid # 0
  PROVE  task[t].ppid \in Fathers(t) /\ Father(t) \in Tasks
<1>1. /\ task \in [Tasks -> TaskRecord] /\ task_list \in [Entries -> Tasks \cup {NULL}]
      /\ task[t].ppid \in Entries
  BY DEF UInv, UType, TypeOK, TaskRecord
<1>2. task[t].ppid \in Fathers(t)
  BY <1>1 DEF UInv, TableOK, Fathers
<1>3. Fathers(t) \subseteq Nat
  BY UprocAssumption DEF Fathers, Entries
<1>4. \E n \in Fathers(t) : \A m \in Fathers(t) : n <= m
  BY <1>2, <1>3, LeastNatural
<1>5. Min(Fathers(t)) \in Fathers(t)
  BY <1>4 DEF Min
<1>6. task_list[Min(Fathers(t))] \in Tasks
  BY <1>1, <1>5 DEF Fathers
<1> QED BY <1>2, <1>6 DEF Father, Fathers

-----------------------------------------------------------------------------
(* The initial state, and steps that leave the numbers alone. *)

LEMMA UInit == Init => UInv
<1> SUFFICES ASSUME Init PROVE UInv
    OBVIOUS
<1>1. /\ 0 \in Entries /\ 1 \in Entries /\ 1 \in Tasks /\ 0 \in Nat /\ 0 \in Int
      /\ Entries \subseteq Nat /\ 2 \in 2 .. Limit
  BY UprocAssumption DEF Entries, Tasks
<1>2. NewTask(0) \in TaskRecord /\ [NewTask(0) EXCEPT !.pid = 1] \in TaskRecord
      /\ [NewTask(0) EXCEPT !.pid = 0] \in TaskRecord
  BY <1>1 DEF NewTask, TaskRecord
<1>3. task \in [Tasks -> TaskRecord]
  BY <1>1, <1>2 DEF Init
<1>4. \A t \in Tasks : task[t].ppid = 0 /\ task[t].pid = IF t = 1 THEN 1 ELSE 0
  BY <1>2 DEF Init, NewTask
<1>5. TypeOK
  BY <1>1, UprocAssumption DEF Init, TypeOK, NULL, Tasks
<1>6. pids \in Seq(Entries) /\ Len(pids) = 0
  <2>1. pids = <<>>
    BY DEF Init
  <2> QED BY <2>1
<1>7. UType
  BY <1>1, <1>3, <1>5, <1>6 DEF Init, UType, NULL
<1>8. ForksApart
  BY <1>1 DEF Init, ForksApart, ForkPc, Tasks
<1>9. TableOK
  <2>1. \A c \in Cpus : current[c] \notin Tasks
    BY UprocAssumption DEF Init, Tasks
  <2> QED BY <1>1, <1>4, <2>1 DEF Init, TableOK, Unborn, NULL
<1>10. NumbersApart
  BY <1>1, <1>4, <1>6 DEF Init, NumbersApart, HasNumber, Given
<1> QED BY <1>7, <1>8, <1>9, <1>10 DEF UInv

(* Calls and traps that give and take no number: a task goes on in its      *)
(* call, leaves one, or is scheduled.                                       *)
LEMMA QuietKeeps ==
  ASSUME UInv, UType', UNCHANGED <<table, history>>,
         \A u \in Tasks : task'[u].pid = task[u].pid /\ task'[u].ppid = task[u].ppid,
         \A u \in Tasks : \/ pc'[u] = pc[u] /\ local'[u] = local[u] /\ other'[u] = other[u]
                          \/ pc[u] \notin Unborn /\ pc'[u] \notin Unborn \cup ForkPc,
         \A c \in Cpus : current'[c] \in Tasks => pc[current'[c]] \notin Unborn
  PROVE  UInv'
<1>1. UNCHANGED <<task_list, task_cnt, pids, made, stored, raced>>
  BY DEF table, history
<1>2. \A u \in Tasks : pc'[u] \in Unborn <=> pc[u] \in Unborn
  OBVIOUS
<1>3. \A u \in Tasks : pc'[u] \in ForkPc \cup Unborn =>
         pc'[u] = pc[u] /\ local'[u] = local[u] /\ other'[u] = other[u]
  OBVIOUS
<1>4. \A u \in Tasks : HasNumber(u)' <=> HasNumber(u)
  BY <1>1, <1>2 DEF HasNumber, Unborn
<1>5. \A u \in Tasks : Given(u)' => Given(u) /\ local'[u] = local[u]
  BY <1>3 DEF Given, ForkPc
<1>6. ForksApart'
  <2>1. ForksApart
    BY DEF UInv
  <2>2. \A u \in Tasks : pc'[u] = "none" <=> pc[u] = "none"
    BY <1>3 DEF Unborn
  <2>3. \A u \in Tasks : pc[u] = "made" => pc'[u] = "made"
    BY <1>3 DEF Unborn
  <2>4. \A u \in Tasks : pc'[u] \in ForkPc => pc'[other'[u]] = "made" /\ other'[u] \in Tasks
    BY <1>3, <2>1, <2>3 DEF ForksApart
  <2> QED BY <1>1, <1>3, <2>1, <2>2, <2>4 DEF ForksApart, ForkPc
<1>7. TableOK'
  <2>1. task_list \in [Entries -> Tasks \cup {NULL}] /\ current' \in [Cpus -> Tasks \cup {Idle}]
    BY DEF UInv, UType, TypeOK
  <2> QED BY <1>1, <1>2, <2>1 DEF UInv, TableOK
<1>8. ASSUME Clean' PROVE NumbersApart'
  <2>1. NumbersApart
    BY <1>1, <1>8 DEF UInv, Clean
  <2>2. \A u \in Tasks : pc'[u] = "count" => pc[u] = "count" /\ local'[u] = local[u]
    BY <1>3 DEF ForkPc
  <2> QED BY <1>1, <1>4, <1>5, <2>1, <2>2 DEF NumbersApart
<1> QED BY <1>6, <1>7, <1>8 DEF UInv

(* A task that runs is no longer being made.                                *)
LEMMA Running ==
  ASSUME UInv, NEW t \in Tasks, OnCpu(t)
  PROVE  pc[t] \notin Unborn
BY DEF UInv, TableOK, OnCpu

(* Two fields of one task change, neither of them a number.                 *)
LEMMA TwoFields ==
  ASSUME task \in [Tasks -> TaskRecord], NEW f \in Tasks, NEW w \in Int, NEW b \in BOOLEAN,
         \/ task' = [task EXCEPT ![f].wait_sem = w, ![f].block = b]
         \/ task' = [task EXCEPT ![f].wait_sem = w, ![f].sem_ready = b]
  PROVE  /\ task' \in [Tasks -> TaskRecord]
         /\ \A u \in Tasks : task'[u].pid = task[u].pid /\ task'[u].ppid = task[u].ppid
<1>1. ASSUME NEW r \in TaskRecord
      PROVE  /\ [r EXCEPT !.wait_sem = w] \in TaskRecord
             /\ [r EXCEPT !.wait_sem = w].pid = r.pid /\ [r EXCEPT !.wait_sem = w].ppid = r.ppid
  BY <1>1 DEF TaskRecord
<1>2. ASSUME NEW r \in TaskRecord
      PROVE  /\ [r EXCEPT !.block = b] \in TaskRecord /\ [r EXCEPT !.sem_ready = b] \in TaskRecord
             /\ [r EXCEPT !.block = b].pid = r.pid /\ [r EXCEPT !.block = b].ppid = r.ppid
             /\ [r EXCEPT !.sem_ready = b].pid = r.pid /\ [r EXCEPT !.sem_ready = b].ppid = r.ppid
  BY <1>2 DEF TaskRecord
<1> DEFINE one == [task EXCEPT ![f] = [task[f] EXCEPT !.wait_sem = w]]
<1>3. \/ task' = [one EXCEPT ![f] = [one[f] EXCEPT !.block = b]]
      \/ task' = [one EXCEPT ![f] = [one[f] EXCEPT !.sem_ready = b]]
  OBVIOUS
<1>4. /\ one \in [Tasks -> TaskRecord]
      /\ \A u \in Tasks : one[u].pid = task[u].pid /\ one[u].ppid = task[u].ppid
  BY <1>1
<1> HIDE DEF one
<1>5. one[f] \in TaskRecord
  BY <1>4
<1>6. CASE task' = [one EXCEPT ![f] = [one[f] EXCEPT !.block = b]]
  <2> DEFINE r == [one[f] EXCEPT !.block = b]
  <2>1. r \in TaskRecord /\ r.pid = one[f].pid /\ r.ppid = one[f].ppid
    BY <1>2, <1>5
  <2>2. task' = [one EXCEPT ![f] = r]
    BY <1>6
  <2> HIDE DEF r
  <2> QED BY <1>4, <2>1, <2>2
<1>7. CASE task' = [one EXCEPT ![f] = [one[f] EXCEPT !.sem_ready = b]]
  <2> DEFINE r == [one[f] EXCEPT !.sem_ready = b]
  <2>1. r \in TaskRecord /\ r.pid = one[f].pid /\ r.ppid = one[f].ppid
    BY <1>2, <1>5
  <2>2. task' = [one EXCEPT ![f] = r]
    BY <1>7
  <2> HIDE DEF r
  <2> QED BY <1>4, <2>1, <2>2
<1> QED BY <1>3, <1>6, <1>7

LEMMA WaitKeeps ==
  ASSUME UInv, NEW t \in Tasks,
         WaitEnter(t) \/ WaitInit(t) \/ WaitP(t) \/ WaitReturn(t)
  PROVE  UInv'
<1>1. /\ UNCHANGED <<table, local, other, intrap, current, panic, history>>
      /\ \E where \in {"user", "sem_init", "sem_wait", "waiting"} : pc' = [pc EXCEPT ![t] = where]
      /\ OnCpu(t)
  BY DEF WaitEnter, WaitInit, WaitP, WaitReturn, Goto, Calling, At
<1>2. /\ task \in [Tasks -> TaskRecord] /\ pc[t] \notin Unborn
      /\ pc \in [Tasks -> {"none", "made", "user"} \cup ForkPc \cup WaitPc \cup ExitPc]
  BY <1>1, Running DEF UInv, UType, TypeOK
<1>3. /\ task' \in [Tasks -> TaskRecord]
      /\ \A u \in Tasks : task'[u].pid = task[u].pid /\ task'[u].ppid = task[u].ppid
  <2>1. CASE WaitEnter(t)
    BY <1>2, <2>1 DEF WaitEnter, TaskRecord
  <2>2. CASE WaitInit(t)
    <3>1. task' = [task EXCEPT ![t].wait_sem = 0, ![t].sem_ready = TRUE]
      BY <2>2 DEF WaitInit
    <3>2. 0 \in Int /\ TRUE \in BOOLEAN
      OBVIOUS
    <3> QED BY <1>2, <3>1, <3>2, TwoFields, Zenon
  <2>3. CASE WaitP(t)
    <3>1. task' = [task EXCEPT ![t].wait_sem = task[t].wait_sem - 1, ![t].block = task[t].wait_sem <= 0]
      BY <1>2, <2>3 DEF WaitP
    <3>2. task[t].wait_sem - 1 \in Int /\ (task[t].wait_sem <= 0) \in BOOLEAN
      BY <1>2 DEF TaskRecord
    <3> QED BY <1>2, <3>1, <3>2, TwoFields
  <2>4. CASE WaitReturn(t)
    BY <1>2, <2>4 DEF WaitReturn
  <2> QED BY <2>1, <2>2, <2>3, <2>4
<1>4. UType'
  BY <1>1, <1>2, <1>3 DEF UInv, UType, TypeOK, table, history, WaitPc
<1>5. \A u \in Tasks : \/ pc'[u] = pc[u] /\ local'[u] = local[u] /\ other'[u] = other[u]
                       \/ pc[u] \notin Unborn /\ pc'[u] \notin Unborn \cup ForkPc
  BY <1>1, <1>2 DEF Unborn, ForkPc
<1>6. \A c \in Cpus : current'[c] \in Tasks => pc[current'[c]] \notin Unborn
  BY <1>1 DEF UInv, TableOK
<1> QED BY <1>1, <1>3, <1>4, <1>5, <1>6, QuietKeeps

LEMMA KillKeeps ==
  ASSUME UInv, NEW t \in Tasks, NEW n \in Entries, Kill(t, n)
  PROVE  UInv'
<1>1. UNCHANGED <<table, pc, local, other, intrap, current, panic, history>>
  BY DEF Kill
<1>2. /\ task' \in [Tasks -> TaskRecord]
      /\ \A u \in Tasks : task'[u].pid = task[u].pid /\ task'[u].ppid = task[u].ppid
  BY DEF Kill, UInv, UType, TaskRecord
<1>3. UType'
  BY <1>1, <1>2 DEF UInv, UType, TypeOK, table, history
<1>4. \A c \in Cpus : current'[c] \in Tasks => pc[current'[c]] \notin Unborn
  BY <1>1 DEF UInv, TableOK
<1> QED BY <1>1, <1>2, <1>3, <1>4, QuietKeeps

LEMMA ExitKeeps ==
  ASSUME UInv, NEW t \in Tasks,
         \/ ExitFather(t) \/ ExitSignal(t) \/ ExitDestroy(t)
         \/ \E status \in {1} : ExitEnter(t, status)
  PROVE  UInv'
<1>1. /\ UNCHANGED <<table, intrap, current, panic, history>>
      /\ \E where \in ExitPc : pc' = [pc EXCEPT ![t] = where]
      /\ \/ UNCHANGED local
         \/ local' = [local EXCEPT ![t] = 1]
      /\ \/ UNCHANGED other
         \/ task[t].ppid # 0 /\ other' = [other EXCEPT ![t] = Father(t)]
      /\ OnCpu(t)
  BY DEF ExitFather, ExitSignal, ExitDestroy, ExitEnter, Goto, Calling, At, ExitPc
<1>2. /\ task \in [Tasks -> TaskRecord] /\ pc[t] \notin Unborn
      /\ pc \in [Tasks -> {"none", "made", "user"} \cup ForkPc \cup WaitPc \cup ExitPc]
      /\ local \in [Tasks -> Nat] /\ other \in [Tasks -> Tasks \cup {NULL}]
  BY <1>1, Running DEF UInv, UType, TypeOK
<1>3. /\ task' \in [Tasks -> TaskRecord]
      /\ \A u \in Tasks : task'[u].pid = task[u].pid /\ task'[u].ppid = task[u].ppid
  <2>1. CASE ExitFather(t)
    BY <1>2, <2>1 DEF ExitFather, TaskRecord
  <2>2. CASE ExitSignal(t)
    <3>1. CASE task[other[t]].sem_ready
      <4> DEFINE f == other[t]
      <4>1. CASE f \in Tasks
        <5>1. task' = [task EXCEPT ![f].wait_sem = task[f].wait_sem + 1,
                                   ![f].block = task[f].block /\ task[f].wait_sem + 1 > 0]
          BY <1>2, <2>2, <3>1, <4>1 DEF ExitSignal
        <5>2. /\ task[f].wait_sem + 1 \in Int
              /\ (task[f].block /\ task[f].wait_sem + 1 > 0) \in BOOLEAN
          BY <1>2, <4>1 DEF TaskRecord
        <5> QED BY <1>2, <5>1, <5>2, TwoFields
      <4>2. CASE f \notin Tasks
        <5>1. task' = task
          BY <1>2, <2>2, <3>1, <4>2 DEF ExitSignal
        <5> QED BY <1>2, <5>1
      <4> QED BY <4>1, <4>2
    <3>2. CASE ~task[other[t]].sem_ready
      BY <1>2, <2>2, <3>2 DEF ExitSignal
    <3> QED BY <3>1, <3>2
  <2>3. CASE ExitDestroy(t)
    BY <1>2, <2>3 DEF ExitDestroy
  <2>4. CASE \E status \in {1} : ExitEnter(t, status)
    <3>1. task' = [task EXCEPT ![t].killed = TRUE]
      BY <2>4 DEF ExitEnter
    <3> QED BY <1>2, <3>1 DEF TaskRecord
  <2> QED BY <2>1, <2>2, <2>3, <2>4
<1>4. local' \in [Tasks -> Nat] /\ other' \in [Tasks -> Tasks \cup {NULL}]
  BY <1>1, <1>2, FatherThere
<1>5. UType'
  BY <1>1, <1>2, <1>3, <1>4 DEF UInv, UType, TypeOK, table, history
<1>6. \A u \in Tasks : \/ pc'[u] = pc[u] /\ local'[u] = local[u] /\ other'[u] = other[u]
                       \/ pc[u] \notin Unborn /\ pc'[u] \notin Unborn \cup ForkPc
  BY <1>1, <1>2 DEF Unborn, ForkPc, ExitPc
<1>7. \A c \in Cpus : current'[c] \in Tasks => pc[current'[c]] \notin Unborn
  BY <1>1 DEF UInv, TableOK
<1> QED BY <1>1, <1>3, <1>5, <1>6, <1>7, QuietKeeps

LEMMA TrapKeeps ==
  ASSUME UInv, NEW c \in Cpus, Trap(c)
  PROVE  UInv'
<1>1. UNCHANGED <<table, task, other, history>>
  BY DEF Trap, TrapExit, DrawNone, DrawEmpty, Draw
<1>2. /\ pc \in [Tasks -> {"none", "made", "user"} \cup ForkPc \cup WaitPc \cup ExitPc]
      /\ local \in [Tasks -> Nat] /\ current \in [Cpus -> Tasks \cup {Idle}]
      /\ task_list \in [Entries -> Tasks \cup {NULL}]
      /\ \A d, e \in Cpus : current[d] = current[e] /\ d # e => current[d] = Idle
  BY DEF UInv, UType, TypeOK
<1>3. CASE TrapExit(c)
  <2> PICK t \in Tasks : /\ t = current[c] /\ UNCHANGED current
                         /\ pc' = [pc EXCEPT ![t] = "father"]
                         /\ local' = [local EXCEPT ![t] = 0]
    BY <1>3 DEF TrapExit, MustExit, Goto
  <2>1. pc[t] \notin Unborn
    BY DEF UInv, TableOK
  <2>2. UType'
    BY <1>1, <1>2 DEF UInv, UType, TypeOK, table, history, ExitPc
  <2>3. \A u \in Tasks : \/ pc'[u] = pc[u] /\ local'[u] = local[u] /\ other'[u] = other[u]
                         \/ pc[u] \notin Unborn /\ pc'[u] \notin Unborn \cup ForkPc
    BY <1>1, <1>2, <2>1 DEF Unborn, ForkPc
  <2>4. \A d \in Cpus : current'[d] \in Tasks => pc[current'[d]] \notin Unborn
    BY DEF UInv, TableOK
  <2> QED BY <1>1, <2>2, <2>3, <2>4, QuietKeeps
<1>4. CASE \E n \in Entries : Draw(c, n)
  <2> PICK n \in Entries : Draw(c, n)
    BY <1>4
  <2> PICK t : t = task_list[n]
    OBVIOUS
  <2>1. /\ t \in Tasks /\ (t = current[c] \/ ~OnCpu(t)) /\ UNCHANGED <<pc, local>>
        /\ current' = [current EXCEPT ![c] = t]
    BY <1>2 DEF Draw, Fits
  <2>2. pc[t] \notin Unborn
    BY <2>1 DEF UInv, TableOK, NULL, Tasks
  <2>3. current' \in [Cpus -> Tasks \cup {Idle}]
    BY <1>2, <2>1
  <2>4. \A d, e \in Cpus : current'[d] = current'[e] /\ d # e => current'[d] = Idle
    BY <1>2, <2>1 DEF OnCpu
  <2>5. UType'
    BY <1>1, <2>1, <2>3, <2>4 DEF UInv, UType, TypeOK, table, history
  <2>6. \A d \in Cpus : current'[d] \in Tasks => pc[current'[d]] \notin Unborn
    BY <1>2, <2>1, <2>2 DEF UInv, TableOK
  <2> QED BY <1>1, <2>1, <2>5, <2>6, QuietKeeps
<1>5. CASE DrawNone(c) \/ DrawEmpty(c)
  <2>1. /\ UNCHANGED <<pc, local>>
        /\ \/ current' = [current EXCEPT ![c] = Idle]
           \/ UNCHANGED current
    BY <1>5 DEF DrawNone, DrawEmpty
  <2>2. UType'
    BY <1>1, <1>2, <2>1 DEF UInv, UType, TypeOK, table, history
  <2>3. \A d \in Cpus : current'[d] \in Tasks => pc[current'[d]] \notin Unborn
    BY <1>2, <2>1, UprocAssumption DEF UInv, TableOK, Tasks
  <2> QED BY <1>1, <2>1, <2>2, <2>3, QuietKeeps
<1> QED BY <1>3, <1>4, <1>5 DEF Trap

-----------------------------------------------------------------------------
(* Steps that give a number, or take one back. *)

LEMMA ForkKeeps ==
  ASSUME UInv, NEW t \in Tasks, ForkEnter(t)
  PROVE  UInv'
<1> DEFINE u == made + 1
<1>1. /\ UNCHANGED <<task_list, task_cnt, pids, local, current, stored, raced>>
      /\ pc[t] = "user" /\ OnCpu(t) /\ made' = u
      /\ pc' = [pc EXCEPT ![t] = "new_pid", ![u] = "made"]
      /\ other' = [other EXCEPT ![t] = u]
      /\ task' = [task EXCEPT ![u] = NewTask(task[t].pid)]
      /\ made < MaxTasks
  BY DEF ForkEnter, Calling, At, table
<1>2. UType /\ ForksApart /\ TableOK
  BY DEF UInv
<1>3. u \in Tasks /\ pc[u] = "none" /\ u # t /\ u > made
  BY <1>1, <1>2, UprocAssumption DEF UType, ForksApart, Tasks
<1> HIDE DEF u
<1>4. /\ pc'[t] = "new_pid" /\ pc'[u] = "made"
      /\ \A x \in Tasks : x # t /\ x # u => pc'[x] = pc[x] /\ other'[x] = other[x]
      /\ other'[t] = u
  BY <1>1, <1>2, <1>3 DEF UType, TypeOK
<1>5. NewTask(task[t].pid) \in TaskRecord /\ NewTask(task[t].pid).ppid = task[t].pid
      /\ task[t].pid \in Entries
  <2>1. task[t].pid \in Entries /\ 0 \in Entries /\ 0 \in Nat /\ 0 \in Int
    BY <1>2, UprocAssumption DEF UType, TaskRecord, Entries
  <2> QED BY <2>1 DEF NewTask, TaskRecord
<1>6. /\ task' \in [Tasks -> TaskRecord] /\ task'[u] = NewTask(task[t].pid)
      /\ \A x \in Tasks : x # u => task'[x] = task[x]
  BY <1>1, <1>2, <1>3, <1>5 DEF UType
<1>7. UType'
  <2>1. pc' \in [Tasks -> {"none", "made", "user"} \cup ForkPc \cup WaitPc \cup ExitPc]
    BY <1>1, <1>2 DEF UType, TypeOK, ForkPc
  <2>2. other' \in [Tasks -> Tasks \cup {NULL}]
    BY <1>1, <1>2, <1>3 DEF UType
  <2> QED BY <1>1, <1>2, <1>3, <1>6, <2>1, <2>2 DEF UType, TypeOK
<1>8. \A x \in Tasks : x # t => (pc'[x] \in ForkPc <=> pc[x] \in ForkPc) /\ (pc'[x] \in ForkPc => x # u)
  BY <1>3, <1>4 DEF ForkPc
<1>9. ForksApart'
  <2>1. \A x \in Tasks : pc'[x] = "none" <=> x > made'
    <3>1. \A x \in Tasks : x > made' <=> x > made /\ x # u
      BY <1>1, <1>2 DEF UType, Tasks, u
    <3>2. \A x \in Tasks : pc'[x] = "none" <=> pc[x] = "none" /\ x # u
      BY <1>1, <1>3, <1>4
    <3> QED BY <1>2, <3>1, <3>2 DEF ForksApart
  <2>2. \A x \in Tasks : x # t /\ pc'[x] \in ForkPc => other'[x] = other[x] /\ other[x] \in Tasks
                                                       /\ pc[other[x]] = "made" /\ other[x] # u
    <3> SUFFICES ASSUME NEW x \in Tasks, x # t, pc'[x] \in ForkPc
                 PROVE  other'[x] = other[x] /\ other[x] \in Tasks /\ pc[other[x]] = "made" /\ other[x] # u
        OBVIOUS
    <3>1. pc[x] \in ForkPc /\ x # u
      BY <1>8
    <3>2. other[x] \in Tasks /\ pc[other[x]] = "made"
      BY <1>2, <3>1 DEF ForksApart
    <3> QED BY <1>3, <1>4, <3>1, <3>2
  <2>3. \A x \in Tasks : pc'[x] \in ForkPc => pc'[other'[x]] = "made" /\ other'[x] \in Tasks
    <3> SUFFICES ASSUME NEW x \in Tasks, pc'[x] \in ForkPc
                 PROVE  pc'[other'[x]] = "made" /\ other'[x] \in Tasks
        OBVIOUS
    <3>1. CASE x = t
      BY <1>3, <1>4, <3>1
    <3>2. CASE x # t
      <4>1. other'[x] = other[x] /\ other[x] \in Tasks /\ pc[other[x]] = "made" /\ other[x] # u
        BY <2>2, <3>2
      <4>2. other[x] # t
        BY <1>1, <4>1
      <4> QED BY <1>4, <4>1, <4>2
    <3> QED BY <3>1, <3>2
  <2>4. \A x, y \in Tasks : x # y /\ pc'[x] \in ForkPc /\ pc'[y] \in ForkPc => other'[x] # other'[y]
    BY <1>2, <1>4, <1>8, <2>2 DEF ForksApart
  <2>5. \A x \in Tasks : pc'[x] \in {"count", "list"} => pc'[x] = pc[x]
    BY <1>3, <1>4
  <2> QED BY <1>1, <1>2, <2>1, <2>3, <2>4, <2>5 DEF ForksApart
<1>10. \A x \in Tasks : pc'[x] \notin Unborn <=> pc[x] \notin Unborn
  BY <1>1, <1>3, <1>4 DEF Unborn
<1>11. TableOK'
  <2>1. \A n \in Entries : task_list[n] # NULL => task_list[n] \in Tasks /\ task_list[n] # u
    BY <1>2, <1>3 DEF UType, TypeOK, TableOK, Unborn
  <2>2. \A x \in Tasks : task'[x].ppid # 0 => task_list[task'[x].ppid] # NULL
    <3>1. pc[t] \notin Unborn
      BY <1>1 DEF Unborn
    <3> QED BY <1>2, <1>5, <1>6, <3>1 DEF TableOK
  <2>3. \A x \in Tasks : pc[x] \notin Unborn => x # u
    BY <1>3 DEF Unborn
  <2> QED BY <1>1, <1>2, <1>6, <1>10, <2>1, <2>2, <2>3 DEF TableOK
<1>12. ASSUME Clean' PROVE NumbersApart'
  <2>1. NumbersApart
    BY <1>1, <1>12 DEF UInv, Clean
  <2>2. \A x \in Tasks : HasNumber(x)' => HasNumber(x) /\ task'[x].pid = task[x].pid
    BY <1>1, <1>3, <1>4, <1>6 DEF HasNumber
  <2>3. \A x \in Tasks : /\ Given(x)' <=> Given(x)
                         /\ pc'[x] = "count" <=> pc[x] = "count"
    BY <1>1, <1>3, <1>4 DEF Given
  <2>4. \A x \in Tasks : Given(x)' => Given(x) /\ local'[x] = local[x]
    BY <1>1, <2>3
  <2>5. UNCHANGED <<pids, task_cnt, local>>
    BY <1>1
  <2> QED BY <2>1, <2>2, <2>3, <2>4, <2>5 DEF NumbersApart
<1> QED BY <1>7, <1>9, <1>11, <1>12 DEF UInv

(* new_pid and get_pid; task_cnt is read here and counted a step later.     *)
LEMMA NewPidKeeps ==
  ASSUME UInv, NEW t \in Tasks, NewPid(t)
  PROVE  UInv'
<1>1. /\ UNCHANGED <<task_list, task_cnt, task, other, intrap, current, panic, made, stored>>
      /\ pc[t] = "new_pid" /\ OnCpu(t)
  BY DEF NewPid, At
<1>2. UType /\ ForksApart /\ TableOK
  BY DEF UInv
<1>3. \/ /\ task_cnt = Limit /\ pids = <<>> /\ pids' = pids /\ raced' = raced
         /\ local' = [local EXCEPT ![t] = 0] /\ pc' = [pc EXCEPT ![t] = "list"]
      \/ /\ task_cnt = Limit /\ pids # <<>> /\ pids' = Tail(pids) /\ raced' = raced
         /\ local' = [local EXCEPT ![t] = Head(pids)] /\ pc' = [pc EXCEPT ![t] = "list"]
      \/ /\ task_cnt # Limit /\ pids' = pids /\ raced' = (raced \/ \E u \in Tasks : Inside(u))
         /\ local' = [local EXCEPT ![t] = task_cnt] /\ pc' = [pc EXCEPT ![t] = "count"]
  BY DEF NewPid, Goto
<1>4. pids # <<>> =>
        /\ Head(pids) = pids[1] /\ pids[1] \in Entries /\ Len(pids) \in Nat /\ 1 \in 1 .. Len(pids)
        /\ Tail(pids) \in Seq(Entries) /\ Len(Tail(pids)) = Len(pids) - 1
        /\ \A i \in 1 .. Len(Tail(pids)) : Tail(pids)[i] = pids[i + 1] /\ i + 1 \in 1 .. Len(pids) /\ i + 1 # 1
  <2>1. pids \in Seq(Entries)
    BY <1>2 DEF UType
  <2> QED BY <2>1
<1>5. /\ pids' \in Seq(Entries) /\ local' \in [Tasks -> Nat] /\ raced' \in BOOLEAN
      /\ pc' \in [Tasks -> {"none", "made", "user"} \cup ForkPc \cup WaitPc \cup ExitPc]
  <2>1. pids' \in Seq(Entries)
    BY <1>2, <1>3, <1>4 DEF UType
  <2>2. 0 \in Nat /\ task_cnt \in Nat /\ Entries \subseteq Nat
    BY <1>2, UprocAssumption DEF UType, TypeOK, Entries
  <2>3. local' \in [Tasks -> Nat]
    BY <1>2, <1>3, <1>4, <2>2 DEF UType
  <2>4. raced' \in BOOLEAN
    BY <1>2, <1>3 DEF UType
  <2>5. pc' \in [Tasks -> {"none", "made", "user"} \cup ForkPc \cup WaitPc \cup ExitPc]
    BY <1>2, <1>3 DEF UType, TypeOK, ForkPc
  <2> QED BY <2>1, <2>3, <2>4, <2>5
<1>6. UType'
  BY <1>1, <1>2, <1>5 DEF UType, TypeOK
<1>7. /\ \A x \in Tasks : x # t => pc'[x] = pc[x] /\ local'[x] = local[x]
      /\ pc'[t] \in {"count", "list"} /\ pc[t] \in ForkPc /\ pc'[t] \in ForkPc
  BY <1>1, <1>2, <1>3 DEF UType, TypeOK, ForkPc
<1>8. /\ pc'[t] = "list" => local'[t] \in Entries
      /\ pc'[t] = "count" => local'[t] = task_cnt /\ task_cnt \in 2 .. (Limit - 1)
  <2>1. 0 \in Entries /\ (task_cnt # Limit => task_cnt \in 2 .. (Limit - 1))
    BY <1>2, UprocAssumption DEF UType, TypeOK, Entries
  <2> QED BY <1>2, <1>3, <1>4, <2>1 DEF UType, TypeOK
<1>9. ForksApart'
  <2>1. \A x \in Tasks : pc'[x] \in ForkPc <=> pc[x] \in ForkPc
    BY <1>7
  <2>2. \A x \in Tasks : pc'[x] \in {"none", "made"} \/ pc[x] \in {"none", "made"} => pc'[x] = pc[x]
    BY <1>7 DEF ForkPc
  <2> QED BY <1>1, <1>2, <1>7, <1>8, <2>1, <2>2 DEF ForksApart
<1>10. TableOK'
  <2>1. \A x \in Tasks : pc'[x] \in Unborn <=> pc[x] \in Unborn
    BY <1>7 DEF ForkPc, Unborn
  <2> QED BY <1>1, <1>2, <2>1 DEF TableOK, UType, TypeOK
<1>11. ASSUME Clean' PROVE NumbersApart'
  <2>1. NumbersApart
    BY <1>1, <1>3, <1>11 DEF UInv, Clean
  <2>2. \A x \in Tasks : HasNumber(x)' <=> HasNumber(x)
    BY <1>1, <1>7 DEF HasNumber, ForkPc
  <2>3. \A x \in Tasks : /\ x # t => (Given(x)' <=> Given(x))
                         /\ pc[x] = "count" => x # t
    BY <1>1, <1>7 DEF Given
  <2>4. CASE pc'[t] = "count"
    <3>1. /\ pids' = pids /\ local'[t] = task_cnt /\ ~Given(t)' /\ ~Given(t)
          /\ \A u \in Tasks : pc[u] # "count"
      BY <1>2, <1>3, <1>8, <1>11, <1>1, <2>4 DEF Clean, Given, Inside, UType, TypeOK
    <3>2. \A x \in Tasks : pc'[x] = "count" => x = t
      BY <1>7, <3>1
    <3> QED BY <1>1, <1>7, <2>1, <2>2, <2>3, <3>1, <3>2 DEF NumbersApart
  <2>5. CASE pc'[t] = "list"
    <3>1. \A x \in Tasks : pc'[x] = "count" <=> pc[x] = "count"
      BY <1>1, <1>7, <2>5
    <3>2. CASE pids = <<>>
      <4>1. pids' = pids /\ ~Given(t)' /\ ~Given(t)
        BY <1>1, <1>2, <1>3, <2>5, <3>2 DEF Given, UType, TypeOK
      <4> QED BY <1>1, <1>7, <2>1, <2>2, <2>3, <3>1, <4>1 DEF NumbersApart
    <3>3. CASE pids # <<>>
      <4>1. local'[t] = pids[1] /\ pids' = Tail(pids) /\ 1 \in 1 .. Len(pids)
        BY <1>2, <1>3, <1>4, <2>5, <3>3 DEF UType, TypeOK
      <4>2. \A i \in 1 .. Len(pids') : \E j \in 1 .. Len(pids) : j = i + 1 /\ j # 1 /\ pids'[i] = pids[j]
        BY <1>4, <3>3, <4>1
      <4>3. /\ pids[1] < task_cnt
            /\ \A x \in Tasks : pids[1] # 0 => (HasNumber(x) => pids[1] # task[x].pid)
                                               /\ (Given(x) => pids[1] # local[x])
        BY <2>1, <4>1 DEF NumbersApart
      <4>4. \A x \in Tasks : Given(x)' => local'[x] # 0
        BY DEF Given
      <4>5. /\ \A i \in 1 .. Len(pids') : pids'[i] < task_cnt
            /\ \A i \in 1 .. Len(pids'), x \in Tasks :
                 pids'[i] # 0 => (HasNumber(x) => pids'[i] # task[x].pid) /\ (Given(x) => pids'[i] # local[x])
            /\ \A i, j \in 1 .. Len(pids') : i # j /\ pids'[i] # 0 => pids'[i] # pids'[j]
            /\ \A i \in 1 .. Len(pids') : pids'[i] # 0 => pids'[i] # pids[1]
        BY <2>1, <4>1, <4>2 DEF NumbersApart
      <4>6. \A x, y \in Tasks : x # y /\ Given(x)' /\ Given(y)' => local'[x] # local'[y]
        BY <1>7, <2>1, <2>3, <4>1, <4>3, <4>4 DEF NumbersApart
      <4>7. \A x, y \in Tasks : Given(x)' /\ HasNumber(y)' => local'[x] # task'[y].pid
        BY <1>1, <1>7, <2>1, <2>2, <2>3, <4>1, <4>3, <4>4 DEF NumbersApart
      <4>8. \A i \in 1 .. Len(pids'), x \in Tasks :
              pids'[i] # 0 => (HasNumber(x)' => pids'[i] # task'[x].pid) /\ (Given(x)' => pids'[i] # local'[x])
        BY <1>1, <1>7, <2>2, <2>3, <4>1, <4>5
      <4>9. \A x \in Tasks : Given(x)' => local'[x] < task_cnt
        BY <1>7, <2>1, <2>3, <4>1, <4>3 DEF NumbersApart
      <4>10. \A x \in Tasks : pc'[x] = "count" => local'[x] = task_cnt
        BY <1>7, <2>1, <2>3, <3>1 DEF NumbersApart
      <4> QED BY <1>1, <2>1, <2>2, <3>1, <4>5, <4>6, <4>7, <4>8, <4>9, <4>10 DEF NumbersApart
    <3> QED BY <3>2, <3>3
  <2> QED BY <1>7, <2>4, <2>5
<1> QED BY <1>6, <1>9, <1>10, <1>11 DEF UInv

LEMMA CountKeeps ==
  ASSUME UInv, NEW t \in Tasks, CountNumber(t)
  PROVE  UInv'
<1>1. /\ UNCHANGED <<task_list, pids, task, local, other, intrap, current, panic, made, stored, raced>>
      /\ pc[t] = "count" /\ task_cnt' = local[t] + 1 /\ pc' = [pc EXCEPT ![t] = "list"]
  BY DEF CountNumber, At, Goto, history
<1>2. UType /\ ForksApart /\ TableOK
  BY DEF UInv
<1>3. local[t] \in 2 .. (Limit - 1) /\ Limit \in Nat
  BY <1>1, <1>2, UprocAssumption DEF ForksApart
<1>4. pc' \in [Tasks -> {"none", "made", "user"} \cup ForkPc \cup WaitPc \cup ExitPc]
  BY <1>1, <1>2 DEF UType, TypeOK, ForkPc
<1>5. task_cnt' \in 2 .. Limit
  BY <1>1, <1>3
<1>6. UType'
  BY <1>1, <1>2, <1>4, <1>5 DEF UType, TypeOK
<1>7. /\ \A x \in Tasks : x # t => pc'[x] = pc[x]
      /\ pc'[t] = "list"
  BY <1>1, <1>2 DEF UType, TypeOK
<1>8. ForksApart'
  <2>1. \A x \in Tasks : pc'[x] \in ForkPc <=> pc[x] \in ForkPc
    BY <1>1, <1>7 DEF ForkPc
  <2>2. \A x \in Tasks : pc'[x] \in {"none", "made"} \/ pc[x] \in {"none", "made"} => pc'[x] = pc[x]
    BY <1>1, <1>7
  <2>3. local[t] \in Entries
    BY <1>3 DEF Entries
  <2> QED BY <1>1, <1>2, <1>7, <2>1, <2>2, <2>3 DEF ForksApart
<1>9. TableOK'
  <2>1. \A x \in Tasks : pc'[x] \in Unborn <=> pc[x] \in Unborn
    BY <1>1, <1>7 DEF Unborn
  <2> QED BY <1>1, <1>2, <2>1 DEF TableOK, UType, TypeOK
<1>10. ASSUME Clean' PROVE NumbersApart'
  <2>1. NumbersApart
    BY <1>1, <1>10 DEF UInv, Clean
  <2>2. \A x \in Tasks : HasNumber(x)' <=> HasNumber(x)
    BY <1>1, <1>7 DEF HasNumber
  <2>3. /\ local[t] = task_cnt /\ task_cnt \in Nat /\ task_cnt' = task_cnt + 1
        /\ \A x \in Tasks : pc'[x] # "count"
    BY <1>1, <1>2, <1>7, <2>1 DEF NumbersApart, UType, TypeOK
  <2>4. \A x \in Tasks : x # t => (Given(x)' <=> Given(x)) /\ local'[x] = local[x]
    BY <1>1, <1>7 DEF Given
  <2>5. Entries \subseteq Nat /\ \A x \in Tasks : task[x].pid \in Nat /\ local[x] \in Nat
    BY <1>2, UprocAssumption DEF UType, TaskRecord, Entries
  <2>6. \A i \in 1 .. Len(pids) : pids[i] \in Nat
    <3>1. pids \in Seq(Entries)
      BY <1>2 DEF UType
    <3>2. \A i \in 1 .. Len(pids) : pids[i] \in Entries
      BY <3>1
    <3> QED BY <2>5, <3>2
  <2>7. /\ \A x \in Tasks : HasNumber(x) => task[x].pid < task_cnt
        /\ \A x \in Tasks : Given(x) => local[x] < task_cnt
        /\ \A i \in 1 .. Len(pids) : pids[i] < task_cnt
    BY <2>1 DEF NumbersApart
  <2>8. /\ \A x \in Tasks : HasNumber(x)' => task'[x].pid < task_cnt'
        /\ \A x \in Tasks : Given(x)' => local'[x] < task_cnt'
        /\ \A i \in 1 .. Len(pids') : pids'[i] < task_cnt'
    BY <1>1, <2>2, <2>3, <2>4, <2>5, <2>6, <2>7
  <2>9. \A x, y \in Tasks : Given(x)' /\ HasNumber(y)' => local'[x] # task'[y].pid
    <3>1. \A x, y \in Tasks : Given(x) /\ HasNumber(y) => local[x] # task[y].pid
      BY <2>1 DEF NumbersApart
    <3>2. \A y \in Tasks : HasNumber(y) => task[y].pid # local[t]
      BY <2>3, <2>5, <2>7
    <3> QED BY <1>1, <2>2, <2>4, <3>1, <3>2
  <2>10. \A x, y \in Tasks : x # y /\ Given(x)' /\ Given(y)' => local'[x] # local'[y]
    <3>1. \A x, y \in Tasks : x # y /\ Given(x) /\ Given(y) => local[x] # local[y]
      BY <2>1 DEF NumbersApart
    <3>2. \A y \in Tasks : Given(y) => local[y] # local[t]
      BY <2>3, <2>5, <2>7
    <3> QED BY <1>1, <2>4, <3>1, <3>2
  <2>11. \A i \in 1 .. Len(pids'), x \in Tasks :
            pids'[i] # 0 => (HasNumber(x)' => pids'[i] # task'[x].pid) /\ (Given(x)' => pids'[i] # local'[x])
    <3>1. \A i \in 1 .. Len(pids), x \in Tasks :
            pids[i] # 0 => (HasNumber(x) => pids[i] # task[x].pid) /\ (Given(x) => pids[i] # local[x])
      BY <2>1 DEF NumbersApart
    <3>2. \A i \in 1 .. Len(pids) : pids[i] # local[t]
      BY <2>3, <2>6, <2>7
    <3> QED BY <1>1, <2>2, <2>4, <3>1, <3>2
  <2>12. /\ \A x, y \in Tasks : x # y /\ HasNumber(x)' /\ HasNumber(y)' => task'[x].pid # task'[y].pid
         /\ \A i, j \in 1 .. Len(pids') : i # j /\ pids'[i] # 0 => pids'[i] # pids'[j]
    BY <1>1, <2>1, <2>2 DEF NumbersApart
  <2> QED BY <2>3, <2>8, <2>9, <2>10, <2>11, <2>12 DEF NumbersApart
<1> QED BY <1>6, <1>8, <1>9, <1>10 DEF UInv

(* The child gets its number and its entry, and may run.                    *)
LEMMA ReturnKeeps ==
  ASSUME UInv, NEW t \in Tasks, ForkReturn(t)
  PROVE  UInv'
<1> PICK u, n : u = other[t] /\ n = local[t]
  OBVIOUS
<1>1. /\ UNCHANGED <<task_cnt, pids, local, other, intrap, current, panic, history>>
      /\ pc[t] = "list"
      /\ task' = [task EXCEPT ![u].pid = n]
      /\ task_list' = [task_list EXCEPT ![n] = u]
      /\ pc' = [pc EXCEPT ![t] = "user", ![u] = "user"]
  BY DEF ForkReturn, At
<1>2. UType /\ ForksApart /\ TableOK
  BY DEF UInv
<1>3. u \in Tasks /\ pc[u] = "made" /\ u # t /\ n \in Entries
  BY <1>1, <1>2 DEF ForksApart, ForkPc
<1>4. /\ pc'[t] = "user" /\ pc'[u] = "user"
      /\ \A x \in Tasks : x # t /\ x # u => pc'[x] = pc[x]
  BY <1>1, <1>2, <1>3 DEF UType, TypeOK
<1>5. /\ task' \in [Tasks -> TaskRecord] /\ task'[u].pid = n
      /\ \A x \in Tasks : /\ task'[x].ppid = task[x].ppid
                          /\ x # u => task'[x].pid = task[x].pid
  <2>1. task \in [Tasks -> TaskRecord]
    BY <1>2 DEF UType
  <2>2. /\ [task[u] EXCEPT !.pid = n] \in TaskRecord
        /\ [task[u] EXCEPT !.pid = n].pid = n /\ [task[u] EXCEPT !.pid = n].ppid = task[u].ppid
    BY <1>3, <2>1 DEF TaskRecord
  <2> DEFINE r == [task[u] EXCEPT !.pid = n]
  <2>3. task' = [task EXCEPT ![u] = r]
    BY <1>1
  <2> HIDE DEF r
  <2>4. r \in TaskRecord /\ r.pid = n /\ r.ppid = task[u].ppid
    BY <2>2 DEF r
  <2> QED BY <1>3, <2>1, <2>3, <2>4
<1>6. /\ task_list' \in [Entries -> Tasks \cup {NULL}] /\ task_list'[n] = u /\ u # NULL
      /\ \A m \in Entries : m # n => task_list'[m] = task_list[m]
  BY <1>1, <1>2, <1>3 DEF UType, TypeOK, Tasks, NULL
<1>7. UType'
  <2>1. pc' \in [Tasks -> {"none", "made", "user"} \cup ForkPc \cup WaitPc \cup ExitPc]
    BY <1>1, <1>2 DEF UType, TypeOK
  <2> QED BY <1>1, <1>2, <1>5, <1>6, <2>1 DEF UType, TypeOK, history
<1>8. \A x \in Tasks : pc'[x] \in ForkPc \cup {"none"} => x # t /\ x # u /\ pc'[x] = pc[x]
  BY <1>4 DEF ForkPc
<1>9. ForksApart'
  <2>1. \A x \in Tasks : pc'[x] = "none" <=> pc[x] = "none"
    BY <1>1, <1>3, <1>4
  <2>2. \A x \in Tasks : pc'[x] \in ForkPc => other[x] \in Tasks /\ pc[other[x]] = "made" /\ other[x] # u
    <3> SUFFICES ASSUME NEW x \in Tasks, pc'[x] \in ForkPc
                 PROVE  other[x] \in Tasks /\ pc[other[x]] = "made" /\ other[x] # u
        OBVIOUS
    <3>1. x # t /\ pc[x] \in ForkPc /\ pc[t] \in ForkPc
      BY <1>1, <1>8 DEF ForkPc
    <3> QED BY <1>2, <3>1 DEF ForksApart
  <2>3. \A x \in Tasks : pc'[x] \in ForkPc => other'[x] \in Tasks /\ pc'[other'[x]] = "made"
    <3> SUFFICES ASSUME NEW x \in Tasks, pc'[x] \in ForkPc PROVE other'[x] \in Tasks /\ pc'[other'[x]] = "made"
        OBVIOUS
    <3>1. other[x] \in Tasks /\ pc[other[x]] = "made" /\ other[x] # u
      BY <2>2
    <3>2. other[x] # t
      BY <1>1, <3>1
    <3> QED BY <1>1, <1>4, <3>1, <3>2
  <2>4. \A x \in Tasks : pc'[x] \in {"count", "list"} => pc'[x] = pc[x]
    BY <1>8 DEF ForkPc
  <2> QED BY <1>1, <1>2, <1>8, <2>1, <2>3, <2>4 DEF ForksApart, history
<1>10. \A x \in Tasks : pc'[x] \in Unborn <=> pc[x] \in Unborn /\ x # u
  BY <1>1, <1>3, <1>4 DEF Unborn
<1>11. TableOK'
  <2>1. \A m \in Entries : task_list[m] # NULL => task_list[m] \in Tasks /\ task_list[m] # u
    BY <1>2, <1>3 DEF UType, TypeOK, TableOK, Unborn
  <2>2. \A m \in Entries : task_list[m] # NULL => task_list'[m] # NULL
    BY <1>6
  <2>3. \A m \in Entries : task_list'[m] # NULL =>
          pc'[task_list'[m]] \notin Unborn /\ task'[task_list'[m]].pid = m
    <3> SUFFICES ASSUME NEW m \in Entries, task_list'[m] # NULL
                 PROVE  pc'[task_list'[m]] \notin Unborn /\ task'[task_list'[m]].pid = m
        OBVIOUS
    <3>1. CASE m = n
      BY <1>4, <1>5, <1>6, <3>1 DEF Unborn
    <3>2. CASE m # n
      BY <1>2, <1>5, <1>6, <1>10, <2>1, <3>2 DEF TableOK
    <3> QED BY <3>1, <3>2
  <2>4. \A c \in Cpus : current'[c] \in Tasks => pc'[current'[c]] \notin Unborn
    BY <1>1, <1>2, <1>10 DEF TableOK
  <2>5. \A x \in Tasks : task[x].pid \in Entries /\ task[x].ppid \in Entries
    BY <1>2 DEF UType, TaskRecord
  <2>6. \A x \in Tasks : pc'[x] \notin Unborn => task_list'[task'[x].pid] # NULL
    BY <1>2, <1>5, <1>6, <1>10, <2>2, <2>5 DEF TableOK
  <2>7. \A x \in Tasks : task'[x].ppid # 0 => task_list'[task'[x].ppid] # NULL
    BY <1>2, <1>5, <2>2, <2>5 DEF TableOK
  <2> QED BY <2>3, <2>4, <2>6, <2>7 DEF TableOK
<1>12. ASSUME Clean' PROVE NumbersApart'
  <2>1. NumbersApart
    BY <1>1, <1>12 DEF UInv, Clean, history
  <2>2. /\ \A x \in Tasks : x # u => (HasNumber(x)' => HasNumber(x)) /\ task'[x].pid = task[x].pid
        /\ HasNumber(u)' => n # 0
    BY <1>1, <1>3, <1>4, <1>5 DEF HasNumber, history
  <2>3. \A x \in Tasks : Given(x)' => Given(x) /\ x # t /\ x # u /\ local'[x] = local[x]
    BY <1>1, <1>8 DEF Given, ForkPc
  <2>4. n # 0 => Given(t)
    BY <1>1 DEF Given
  <2>5. UNCHANGED <<task_cnt, pids, local>>
    BY <1>1
  <2>6. HasNumber(u)' => /\ n < task_cnt
                         /\ \A x \in Tasks : HasNumber(x) => n # task[x].pid
                         /\ \A x \in Tasks : x # t /\ Given(x) => n # local[x]
                         /\ \A i \in 1 .. Len(pids) : pids[i] # n
    BY <2>1, <2>2, <2>4 DEF NumbersApart
  <2>7. \A x, y \in Tasks : x # y /\ HasNumber(x)' /\ HasNumber(y)' => task'[x].pid # task'[y].pid
    BY <1>5, <2>1, <2>2, <2>6 DEF NumbersApart
  <2>8. \A x \in Tasks : HasNumber(x)' => task'[x].pid < task_cnt'
    BY <1>5, <2>1, <2>2, <2>5, <2>6 DEF NumbersApart
  <2>9. \A x, y \in Tasks : Given(x)' /\ HasNumber(y)' => local'[x] # task'[y].pid
    BY <1>5, <2>1, <2>2, <2>3, <2>6 DEF NumbersApart
  <2>10. \A i \in 1 .. Len(pids'), x \in Tasks :
            pids'[i] # 0 => (HasNumber(x)' => pids'[i] # task'[x].pid) /\ (Given(x)' => pids'[i] # local'[x])
    BY <1>5, <2>1, <2>2, <2>3, <2>5, <2>6 DEF NumbersApart
  <2>11. \A x \in Tasks : pc'[x] = "count" => pc[x] = "count" /\ local'[x] = local[x]
    BY <1>1, <1>8 DEF ForkPc
  <2>12. /\ \A x \in Tasks : Given(x)' => local'[x] < task_cnt'
         /\ \A x, y \in Tasks : x # y /\ Given(x)' /\ Given(y)' => local'[x] # local'[y]
         /\ \A i \in 1 .. Len(pids') : pids'[i] < task_cnt'
         /\ \A i, j \in 1 .. Len(pids') : i # j /\ pids'[i] # 0 => pids'[i] # pids'[j]
         /\ \A x \in Tasks : pc'[x] = "count" => local'[x] = task_cnt'
         /\ \A x, y \in Tasks : pc'[x] = "count" /\ pc'[y] = "count" => x = y
    BY <2>1, <2>3, <2>5, <2>11 DEF NumbersApart
  <2> QED BY <2>7, <2>8, <2>9, <2>10, <2>12 DEF NumbersApart
<1> QED BY <1>7, <1>9, <1>11, <1>12 DEF UInv

(* store_pid: the number of an exiting process goes to p_head ...           *)
LEMMA StoreKeeps ==
  ASSUME UInv, NEW t \in Tasks, ExitStore(t)
  PROVE  UInv'
<1> PICK n : n = task[t].pid
  OBVIOUS
<1>1. /\ UNCHANGED <<task_list, task_cnt, task, local, other, intrap, current, panic, made, raced>>
      /\ pc[t] = "store" /\ pc' = [pc EXCEPT ![t] = "destroy"]
      /\ pids' = Append(pids, n) /\ stored' = [stored EXCEPT ![t] = @ + 1]
  BY DEF ExitStore, At, Goto
<1>2. UType /\ ForksApart /\ TableOK
  BY DEF UInv
<1>3. n \in Entries
  BY <1>2 DEF UType, TaskRecord
<1>4. /\ pids' \in Seq(Entries) /\ Len(pids') = Len(pids) + 1 /\ Len(pids) \in Nat
      /\ pids'[Len(pids) + 1] = n
      /\ \A i \in 1 .. Len(pids) : pids'[i] = pids[i]
  <2>1. pids \in Seq(Entries)
    BY <1>2 DEF UType
  <2> QED BY <1>1, <1>3, <2>1
<1>5. /\ pc'[t] = "destroy"
      /\ \A x \in Tasks : x # t => pc'[x] = pc[x]
  BY <1>1, <1>2 DEF UType, TypeOK
<1>6. UType'
  <2>1. pc' \in [Tasks -> {"none", "made", "user"} \cup ForkPc \cup WaitPc \cup ExitPc]
    BY <1>1, <1>2 DEF UType, TypeOK, ExitPc
  <2>2. stored' \in [Tasks -> Nat]
    BY <1>1, <1>2 DEF UType
  <2> QED BY <1>1, <1>2, <1>4, <2>1, <2>2 DEF UType, TypeOK
<1>7. \A x \in Tasks : pc'[x] \in ForkPc \cup Unborn \/ pc[x] \in ForkPc \cup Unborn =>
         x # t /\ pc'[x] = pc[x]
  BY <1>1, <1>5 DEF ForkPc, Unborn
<1>8. ForksApart'
  <2>1. \A x \in Tasks : pc'[x] \in {"none", "count", "list"} \/ pc[x] \in {"none", "made"} => pc'[x] = pc[x]
    BY <1>7 DEF ForkPc, Unborn
  <2> QED BY <1>1, <1>2, <1>7, <2>1 DEF ForksApart
<1>9. TableOK'
  <2>1. \A x \in Tasks : pc'[x] \in Unborn <=> pc[x] \in Unborn
    BY <1>7
  <2> QED BY <1>1, <1>2, <2>1 DEF TableOK, UType, TypeOK
<1>10. ASSUME Clean' PROVE NumbersApart'
  <2>1. stored[t] = 0 /\ stored'[t] = 1 /\ \A x \in Tasks : x # t => stored'[x] = stored[x]
    <3>1. stored'[t] <= 1 /\ stored[t] \in Nat /\ stored'[t] = stored[t] + 1
      BY <1>1, <1>2, <1>10 DEF Clean, UType
    <3> QED BY <1>1, <1>2, <3>1 DEF UType
  <2>2. NumbersApart
    <3>1. Clean
      BY <1>1, <1>10, <2>1 DEF Clean
    <3> QED BY <3>1 DEF UInv
  <2>3. \A x \in Tasks : HasNumber(x)' => x # t /\ HasNumber(x)
    BY <1>1, <1>5, <2>1 DEF HasNumber
  <2>4. \A x \in Tasks : /\ Given(x)' => Given(x)
                         /\ pc'[x] = "count" => pc[x] = "count"
    BY <1>1, <1>5 DEF Given
  <2>5. n # 0 => HasNumber(t)
    BY <1>1, <2>1 DEF HasNumber
  <2>6. /\ n < task_cnt
        /\ n # 0 => /\ \A x \in Tasks : x # t /\ HasNumber(x) => n # task[x].pid
                    /\ \A x \in Tasks : Given(x) => n # local[x]
                    /\ \A i \in 1 .. Len(pids) : pids[i] # n
    <3>1. 0 < task_cnt
      BY <1>2 DEF UType, TypeOK
    <3> QED BY <2>2, <2>5, <3>1 DEF NumbersApart
  <2>7. \A i \in 1 .. Len(pids') : \/ i \in 1 .. Len(pids) /\ pids'[i] = pids[i]
                                   \/ i = Len(pids) + 1 /\ pids'[i] = n
    BY <1>4
  <2>8. \A i \in 1 .. Len(pids') : pids'[i] < task_cnt'
    BY <1>1, <2>2, <2>6, <2>7 DEF NumbersApart
  <2>9. \A i \in 1 .. Len(pids'), x \in Tasks :
            pids'[i] # 0 => (HasNumber(x)' => pids'[i] # task'[x].pid) /\ (Given(x)' => pids'[i] # local'[x])
    BY <1>1, <2>2, <2>3, <2>4, <2>6, <2>7 DEF NumbersApart
  <2>10. \A i, j \in 1 .. Len(pids') : i # j /\ pids'[i] # 0 => pids'[i] # pids'[j]
    BY <2>2, <2>6, <2>7 DEF NumbersApart
  <2>11. /\ \A x, y \in Tasks : x # y /\ HasNumber(x)' /\ HasNumber(y)' => task'[x].pid # task'[y].pid
         /\ \A x \in Tasks : HasNumber(x)' => task'[x].pid < task_cnt'
         /\ \A x \in Tasks : Given(x)' => local'[x] < task_cnt'
         /\ \A x, y \in Tasks : Given(x)' /\ HasNumber(y)' => local'[x] # task'[y].pid
         /\ \A x, y \in Tasks : x # y /\ Given(x)' /\ Given(y)' => local'[x] # local'[y]
         /\ \A x \in Tasks : pc'[x] = "count" => local'[x] = task_cnt'
         /\ \A x, y \in Tasks : pc'[x] = "count" /\ pc'[y] = "count" => x = y
    BY <1>1, <2>2, <2>3, <2>4 DEF NumbersApart
  <2> QED BY <2>8, <2>9, <2>10, <2>11 DEF NumbersApart
<1> QED BY <1>6, <1>8, <1>9, <1>10 DEF UInv

LEMMA UStutter ==
  ASSUME UInv, UNCHANGED vars
  PROVE  UInv'
<1>1. UNCHANGED <<table, history, task, pc, local, other, current>>
  BY DEF vars
<1>2. UType'
  BY <1>1 DEF UInv, UType, TypeOK, table, history
<1>3. \A c \in Cpus : current'[c] \in Tasks => pc[current'[c]] \notin Unborn
  BY <1>1 DEF UInv, TableOK
<1> QED BY <1>1, <1>2, <1>3, QuietKeeps

LEMMA UStep == UInv /\ [Next]_vars => UInv'
<1> SUFFICES ASSUME UInv, [Next]_vars PROVE UInv'
    OBVIOUS
<1>1. CASE UNCHANGED vars
  BY <1>1, UStutter
<1>2. ASSUME NEW t \in Tasks, Call(t) PROVE UInv'
  BY <1>2, ForkKeeps, WaitKeeps, KillKeeps, ExitKeeps DEF Call
<1>3. ASSUME NEW t \in Tasks, Continue(t) PROVE UInv'
  BY <1>3, NewPidKeeps, CountKeeps, ReturnKeeps, WaitKeeps, ExitKeeps, StoreKeeps DEF Continue
<1>4. ASSUME NEW c \in Cpus, Trap(c) PROVE UInv'
  BY <1>4, TrapKeeps
<1> QED BY <1>1, <1>2, <1>3, <1>4 DEF Next

LEMMA UInvariant == Spec => []UInv
<1> QED BY UInit, UStep, PTL DEF Spec

-----------------------------------------------------------------------------
(* A task is on one CPU at most, task_cnt stays within the table, and every *)
(* entry of task_list is a task.                                            *)
THEOREM UprocTyped == Spec => []TypeOK
<1>1. UInv => TypeOK
  BY DEF UInv, UType
<1> QED BY <1>1, UInvariant, PTL

(* new_pid, get_pid and store_pid give two living processes the same number *)
(* only where the code really races: two forks in new_pid at once, or an    *)
(* exit that a trap makes begin again.                                      *)
THEOREM NumbersDiffer == Spec => []NumbersUnique
<1>1. UInv => NumbersUnique
  BY DEF UInv, NumbersUnique, Clean, NumbersApart
<1> QED BY <1>1, UInvariant, PTL

(* kexit looks for its father in task_list and signals the entry it stopped *)
(* at, found or not.  It is always found: some entry has the father's       *)
(* number, in every interleaving and after every race, though the father    *)
(* may be gone and its number given to another process.                     *)
THEOREM FatherFound ==
  Spec => [](\A t \in Tasks : pc[t] = "father" /\ task[t].ppid # 0 =>
               \E n \in Entries \ {0} : /\ task_list[n] # NULL
                                        /\ task[task_list[n]].pid = task[t].ppid
                                        /\ Father(t) \in Tasks)
<1>1. UInv => (\A t \in Tasks : pc[t] = "father" /\ task[t].ppid # 0 =>
                 \E n \in Entries \ {0} : /\ task_list[n] # NULL
                                          /\ task[task_list[n]].pid = task[t].ppid
                                          /\ Father(t) \in Tasks)
  BY FatherThere DEF Fathers
<1> QED BY <1>1, UInvariant, PTL

-----------------------------------------------------------------------------
(* A kill cannot be taken back: what is safe about KillTakesEffect.           *)

KilledInv ==
  /\ \A t \in Tasks : Exiting(t) => task[t].killed
  /\ \A t \in Tasks : pc[t] \in Unborn => ~task[t].killed

(* The flag stays, an exit goes on to its end, and a killed process in user  *)
(* mode makes no call but exits.                                             *)
NoWayBack ==
  \A t \in Tasks :
    /\ task[t].killed => task'[t].killed
    /\ Exiting(t) => Exiting(t)'
    /\ task[t].killed /\ pc[t] = "user" => pc'[t] \in {"user", "father"}

(* Steps that leave killed as it is or set it, of tasks that are there, and  *)
(* move one task.                                                            *)
LEMMA KilledMoves ==
  ASSUME UInv, KilledInv, NEW t \in Tasks, NEW to, pc' = [pc EXCEPT ![t] = to],
         pc[t] \notin Unborn, to \notin Unborn,
         \A u \in Tasks : \/ task'[u].killed = task[u].killed
                          \/ task'[u].killed /\ pc[u] \notin Unborn,
         Exiting(t) => to \in ExitPc,
         to \in ExitPc => task'[t].killed,
         task[t].killed /\ pc[t] = "user" => to \in {"user", "father"}
  PROVE  KilledInv' /\ NoWayBack
<1>1. /\ pc'[t] = to /\ \A u \in Tasks : u # t => pc'[u] = pc[u]
  BY DEF UInv, UType, TypeOK
<1>2. \A u \in Tasks : u # t => (Exiting(u)' <=> Exiting(u))
  BY <1>1 DEF Exiting
<1>3. \A u \in Tasks : task[u].killed => task'[u].killed
  OBVIOUS
<1>4. Exiting(t)' <=> to \in ExitPc
  BY <1>1 DEF Exiting
<1>5. \A u \in Tasks : Exiting(u)' => task'[u].killed
  BY <1>2, <1>3, <1>4 DEF KilledInv
<1>6. \A u \in Tasks : pc'[u] \in Unborn => pc'[u] = pc[u]
  BY <1>1
<1>7. \A u \in Tasks : pc'[u] \in Unborn => ~task'[u].killed
  BY <1>6 DEF KilledInv
<1> QED BY <1>1, <1>2, <1>3, <1>4, <1>5, <1>7 DEF KilledInv, NoWayBack

LEMMA KilledStill ==
  ASSUME UInv, KilledInv, UNCHANGED <<task, pc>>
  PROVE  KilledInv' /\ NoWayBack
BY DEF KilledInv, NoWayBack, Exiting

LEMMA KilledWait ==
  ASSUME UInv, KilledInv, NEW t \in Tasks,
         WaitEnter(t) \/ WaitInit(t) \/ WaitP(t) \/ WaitReturn(t)
  PROVE  KilledInv' /\ NoWayBack
<1>1. PICK to \in {"user", "sem_init", "sem_wait", "waiting"} :
        /\ pc' = [pc EXCEPT ![t] = to]
        /\ task[t].killed /\ pc[t] = "user" => to = "user"
        /\ pc[t] \notin ExitPc
  BY DEF WaitEnter, WaitInit, WaitP, WaitReturn, Goto, Calling, At, ExitPc
<1>2. /\ task \in [Tasks -> TaskRecord] /\ pc[t] \notin Unborn
  BY Running DEF UInv, UType, WaitEnter, WaitInit, WaitP, WaitReturn, Calling, At
<1>3. \A u \in Tasks : task'[u].killed = task[u].killed
  BY <1>2 DEF WaitEnter, WaitInit, WaitP, WaitReturn, TaskRecord
<1> QED BY <1>1, <1>2, <1>3, KilledMoves DEF Exiting, ExitPc, Unborn

LEMMA KilledExit ==
  ASSUME UInv, KilledInv, NEW t \in Tasks,
         \/ ExitFather(t) \/ ExitSignal(t) \/ ExitStore(t) \/ ExitDestroy(t)
         \/ \E status \in {1} : ExitEnter(t, status)
  PROVE  KilledInv' /\ NoWayBack
<1>1. PICK to \in ExitPc : /\ pc' = [pc EXCEPT ![t] = to]
                           /\ pc[t] = "user" => to = "father"
  BY DEF ExitFather, ExitSignal, ExitStore, ExitDestroy, ExitEnter, Goto, Calling, At, ExitPc
<1>2. task \in [Tasks -> TaskRecord] /\ pc[t] \notin Unborn
  BY Running DEF UInv, UType, ExitFather, ExitSignal, ExitStore, ExitDestroy, ExitEnter, Calling, At
<1>3. CASE \E status \in {1} : ExitEnter(t, status)
  <2>1. task' = [task EXCEPT ![t].killed = TRUE]
    BY <1>3 DEF ExitEnter
  <2>2. task'[t].killed /\ \A u \in Tasks : u # t => task'[u].killed = task[u].killed
    BY <1>2, <2>1 DEF TaskRecord
  <2> QED BY <1>1, <1>2, <2>2, KilledMoves DEF Exiting, ExitPc, Unborn
<1>4. CASE ExitFather(t) \/ ExitSignal(t) \/ ExitStore(t) \/ ExitDestroy(t)
  <2>1. Exiting(t)
    BY <1>4 DEF ExitFather, ExitSignal, ExitStore, ExitDestroy, At, Exiting, ExitPc
  <2>2. \A u \in Tasks : task'[u].killed = task[u].killed
    BY <1>2, <1>4 DEF ExitFather, ExitSignal, ExitStore, ExitDestroy, TaskRecord
  <2> QED BY <1>1, <1>2, <2>1, <2>2, KilledMoves DEF KilledInv, Exiting, ExitPc, Unborn
<1> QED BY <1>3, <1>4

LEMMA KilledFork ==
  ASSUME UInv, KilledInv, NEW t \in Tasks,
         ForkEnter(t) \/ NewPid(t) \/ CountNumber(t) \/ ForkReturn(t)
  PROVE  KilledInv' /\ NoWayBack
<1>1. /\ task \in [Tasks -> TaskRecord] /\ ForksApart
      /\ pc \in [Tasks -> {"none", "made", "user"} \cup ForkPc \cup WaitPc \cup ExitPc]
      /\ made \in Tasks
  BY DEF UInv, UType, TypeOK
<1>2. CASE NewPid(t) \/ CountNumber(t)
  <2>1. PICK to \in {"count", "list"} : pc' = [pc EXCEPT ![t] = to]
    BY <1>2 DEF NewPid, CountNumber, Goto
  <2>2. pc[t] \in ForkPc /\ UNCHANGED task
    BY <1>2 DEF NewPid, CountNumber, At, ForkPc
  <2> QED BY <2>1, <2>2, KilledMoves DEF Exiting, ExitPc, ForkPc, Unborn
<1>3. CASE ForkReturn(t)
  <2>1. PICK u \in Tasks : u = other[t] /\ pc[u] = "made" /\ pc[t] = "list" /\ u # t
    BY <1>1, <1>3 DEF ForkReturn, At, ForksApart, ForkPc
  <2>2. \A x \in Tasks : task'[x].killed = task[x].killed
    <3>1. task' = [task EXCEPT ![u].pid = local[t]]
      BY <1>3, <2>1 DEF ForkReturn
    <3> QED BY <1>1, <3>1 DEF TaskRecord
  <2>3. pc' = [pc EXCEPT ![t] = "user", ![u] = "user"]
    BY <1>3, <2>1 DEF ForkReturn
  <2>4. pc'[t] = "user" /\ pc'[u] = "user" /\ \A x \in Tasks : x # t /\ x # u => pc'[x] = pc[x]
    BY <1>1, <2>1, <2>3
  <2>5. \A x \in Tasks : Exiting(x)' <=> Exiting(x)
    BY <2>1, <2>4 DEF Exiting, ExitPc
  <2>6. \A x \in Tasks : pc'[x] \in Unborn => pc[x] \in Unborn
    BY <2>4 DEF Unborn
  <2> QED BY <2>1, <2>2, <2>4, <2>5, <2>6 DEF KilledInv, NoWayBack
<1>4. CASE ForkEnter(t)
  <2>1. PICK u \in Tasks : u = made + 1 /\ pc[u] = "none"
    <3>1. made + 1 \in Tasks /\ made + 1 > made
      BY <1>1, <1>4, UprocAssumption DEF ForkEnter, Tasks
    <3> QED BY <1>1, <3>1 DEF ForksApart
  <2>2. pc[t] = "user" /\ ~task[t].killed /\ u # t
    BY <1>4, <2>1 DEF ForkEnter, Calling, At
  <2>3. pc' = [pc EXCEPT ![t] = "new_pid", ![u] = "made"] /\ task' = [task EXCEPT ![u] = NewTask(task[t].pid)]
    BY <1>4, <2>1 DEF ForkEnter
  <2>4. pc'[t] = "new_pid" /\ pc'[u] = "made" /\ \A x \in Tasks : x # t /\ x # u => pc'[x] = pc[x]
    BY <1>1, <2>2, <2>3
  <2>5. ~task'[u].killed /\ \A x \in Tasks : x # u => task'[x] = task[x]
    BY <1>1, <2>3 DEF NewTask
  <2>6. ~task[u].killed
    BY <2>1 DEF KilledInv, Unborn
  <2>7. \A x \in Tasks : Exiting(x)' <=> Exiting(x)
    BY <2>1, <2>2, <2>4 DEF Exiting, ExitPc
  <2>8. \A x \in Tasks : pc'[x] \in Unborn => pc[x] \in Unborn
    BY <2>1, <2>4 DEF Unborn
  <2> QED BY <2>1, <2>2, <2>4, <2>5, <2>6, <2>7, <2>8 DEF KilledInv, NoWayBack
<1> QED BY <1>2, <1>3, <1>4

LEMMA KilledKill ==
  ASSUME UInv, KilledInv, NEW t \in Tasks, NEW n \in Entries, Kill(t, n)
  PROVE  KilledInv' /\ NoWayBack
<1>1. PICK u \in Tasks : u = task_list[n] /\ pc[u] \notin Unborn
  BY DEF Kill, UInv, UType, TypeOK, TableOK
<1>2. task' = [task EXCEPT ![u].killed = TRUE] /\ UNCHANGED pc /\ task \in [Tasks -> TaskRecord]
  BY <1>1 DEF Kill, UInv, UType
<1>3. task'[u].killed /\ \A x \in Tasks : x # u => task'[x] = task[x]
  BY <1>2 DEF TaskRecord
<1> QED BY <1>1, <1>2, <1>3 DEF KilledInv, NoWayBack, Exiting

LEMMA KilledTrap ==
  ASSUME UInv, KilledInv, NEW c \in Cpus, Trap(c)
  PROVE  KilledInv' /\ NoWayBack
<1>1. CASE TrapExit(c)
  <2>1. PICK t \in Tasks : t = current[c] /\ task[t].killed
    BY <1>1 DEF TrapExit, MustExit
  <2>2. pc' = [pc EXCEPT ![t] = "father"] /\ UNCHANGED task
    BY <1>1, <2>1 DEF TrapExit, Goto
  <2>3. pc[t] \notin Unborn
    BY <2>1 DEF UInv, TableOK
  <2>4. task'[t].killed /\ \A u \in Tasks : task'[u].killed = task[u].killed
    BY <2>1, <2>2
  <2>5. "father" \in ExitPc /\ "father" \notin Unborn
    BY DEF ExitPc, Unborn
  <2> QED BY <2>1, <2>2, <2>3, <2>4, <2>5, KilledMoves
<1>2. CASE DrawNone(c) \/ DrawEmpty(c) \/ \E n \in Entries : Draw(c, n)
  BY <1>2, KilledStill DEF DrawNone, DrawEmpty, Draw
<1> QED BY <1>1, <1>2 DEF Trap

LEMMA KilledStep == UInv /\ KilledInv /\ [Next]_vars => KilledInv' /\ NoWayBack
<1> SUFFICES ASSUME UInv, KilledInv, [Next]_vars PROVE KilledInv' /\ NoWayBack
    OBVIOUS
<1>1. CASE UNCHANGED vars
  BY <1>1, KilledStill DEF vars
<1>2. ASSUME NEW t \in Tasks, Call(t) \/ Continue(t) PROVE KilledInv' /\ NoWayBack
  BY <1>2, KilledFork, KilledWait, KilledKill, KilledExit DEF Call, Continue
<1>3. ASSUME NEW c \in Cpus, Trap(c) PROVE KilledInv' /\ NoWayBack
  BY <1>3, KilledTrap
<1> QED BY <1>1, <1>2, <1>3 DEF Next

(* A process that was killed stays so, makes no further system call from    *)
(* user mode, and once it exits never leaves exit, whatever waits, forks,   *)
(* kills and traps come in between; and every process in exit is marked, so *)
(* that no wait takes it for a living child.                                *)
THEOREM KillIsFinal ==
  Spec => [](\A t \in Tasks : Exiting(t) => task[t].killed) /\ [][NoWayBack]_vars
<1>1. Init => KilledInv
  BY DEF Init, KilledInv, Exiting, ExitPc, NewTask, Unborn
<1>2. KilledInv => \A t \in Tasks : Exiting(t) => task[t].killed
  BY DEF KilledInv
<1> QED BY <1>1, <1>2, KilledStep, UInvariant, PTL DEF Spec
=============================================================================
