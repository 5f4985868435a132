----------------------------- MODULE PlcsProofs -----------------------------
(* For every number of workers and all strings: the barrier keeps the      *)
(* rounds apart and never deadlocks, the answer is that of the sequential  *)
(* table, and there is no endless run.                                     *)
EXTENDS Plcs, FiniteSetTheorems, WellFoundedInduction, TLAPS

Places == {"off", "read", "fill", "stop", "arrive", "gather", "reset",
           "release", "wait", "done"}

\* What the barrier is made of keeps its type.
BarrierType ==
  /\ MaxThreads \in Nat /\ T \in 2..MaxThreads
  /\ main \in 0..(T + 1)
  /\ pc \in [1..MaxThreads -> Places]
  /\ round \in [1..MaxThreads -> Nat]
  /\ next \in Nat /\ finished \in Nat
  /\ can_run \in [1..MaxThreads -> BOOLEAN]

\* The round the workers are gathering for: worker 1 opens the next one when it
\* resets the counter.
Coming == IF pc[1] \in {"release", "wait"} THEN round[1] + 1 ELSE round[1]

\* j has been counted for that round.
Arrived(j) == round[j] = Coming /\ pc[j] \in {"gather", "reset", "wait"}

\* j still stands at the barrier of the round before, and is or will be released.
Standing(j) ==
  /\ round[j] + 1 = Coming
  /\ pc[j] = "wait" \/ (j = 1 /\ pc[1] = "release")
  /\ can_run[j] \/ (pc[1] = "release" /\ next <= j)

WorkerInv(j) ==
  /\ pc[j] \in {"gather", "reset", "release"} => j = 1
  /\ round[j] = Coming \/ Standing(j)
  /\ round[j] = Coming /\ pc[j] \in {"arrive", "gather", "reset", "wait"} => ~can_run[j]
  /\ pc[1] = "release" /\ next <= j => ~can_run[j] /\ round[j] # Coming
  /\ j > main => pc[j] = "off"
  /\ pc[1] = "reset" => Arrived(j)

CounterInv == finished = Cardinality({j \in Workers : Arrived(j)})

BarrierInv ==
  /\ BarrierType
  /\ \A j \in Workers : WorkerInv(j)
  /\ pc[1] = "release" => next \in Workers
  /\ CounterInv

-----------------------------------------------------------------------------
LEMMA WorkerFacts ==
  ASSUME BarrierType
  PROVE  /\ 1 \in Workers /\ Workers \subseteq 1..MaxThreads
         /\ T \in Nat /\ main \in Nat /\ Coming \in Nat
         /\ \A j \in Workers : j \in Nat /\ j >= 1 /\ j <= T /\ round[j] \in Nat /\ pc[j] \in Places /\ can_run[j] \in BOOLEAN
BY DEF BarrierType, Workers, Coming

\* The counter of those who have arrived is as large as the set says.
LEMMA ArrivedFinite ==
  ASSUME BarrierType
  PROVE  /\ IsFiniteSet(Workers) /\ Cardinality(Workers) = T
         /\ IsFiniteSet({j \in Workers : Arrived(j)})
         /\ Cardinality({j \in Workers : Arrived(j)}) <= T
         /\ Cardinality({j \in Workers : Arrived(j)}) = T => \A j \in Workers : Arrived(j)
<1> DEFINE S == {j \in Workers : Arrived(j)}
<1>1. IsFiniteSet(Workers) /\ Cardinality(Workers) = T
  <2>1. 1 \in Int /\ T \in Int /\ ~(1 > T) /\ T - 1 + 1 = T
    BY DEF BarrierType
  <2>2. IsFiniteSet(1..T) /\ Cardinality(1..T) = IF 1 > T THEN 0 ELSE T - 1 + 1
    BY <2>1, FS_Interval
  <2> QED BY <2>1, <2>2 DEF Workers
<1>2. S \in SUBSET Workers
  OBVIOUS
<1>3. /\ IsFiniteSet(S) /\ Cardinality(S) <= T
      /\ Cardinality(Workers) = Cardinality(S) => Workers = S
  BY <1>1, <1>2, FS_Subset
<1> QED BY <1>1, <1>3

\* A step that changes neither who has arrived nor the counter keeps the count.
LEMMA CounterFrame ==
  ASSUME CounterInv, UNCHANGED <<T, finished>>,
         \A j \in Workers : Arrived(j)' <=> Arrived(j)
  PROVE  CounterInv'
<1>1. Workers' = Workers
  BY DEF Workers
<1>2. {j \in Workers : Arrived(j)}' = {j \in Workers : Arrived(j)}
  BY <1>1
<1> QED BY <1>2 DEF CounterInv

-----------------------------------------------------------------------------
LEMMA InitBarrier == Init => BarrierInv
<1> SUFFICES ASSUME Init PROVE BarrierInv
  OBVIOUS
<1>1. BarrierType
  BY BoundsAssumption DEF Init, BarrierType, Places
<1>2. \A j \in Workers : pc[j] = "off" /\ round[j] = 0 /\ Coming = 0
  BY <1>1, WorkerFacts DEF Init, Coming
<1>3. \A j \in Workers : WorkerInv(j) /\ ~Arrived(j)
  BY <1>1, <1>2, WorkerFacts DEF WorkerInv, Arrived
<1>4. CounterInv
  <2>1. {j \in Workers : Arrived(j)} = {}
    BY <1>3
  <2> QED BY <2>1, FS_EmptySet DEF CounterInv, Init
<1> QED BY <1>1, <1>2, <1>3, <1>4, WorkerFacts DEF BarrierInv

\* Reading an entry, filling cells and clearing the own flag: the worker stays
\* in the round and has not arrived.
LEMMA InsideRound ==
  ASSUME BarrierInv, NEW i \in Workers, NEW to \in {"fill", "stop", "arrive", "done"},
         pc[i] \in {"read", "fill", "stop"},
         pc' = [pc EXCEPT ![i] = to],
         (can_run' = can_run /\ to # "arrive") \/ can_run' = [can_run EXCEPT ![i] = FALSE],
         UNCHANGED <<T, main, round, next, finished>>
  PROVE  BarrierInv'
<1>1. BarrierType'
  BY DEF BarrierInv, BarrierType, Places
<1>2. Coming' = Coming /\ Workers' = Workers /\ (pc'[1] \in {"release", "reset"} <=> pc[1] \in {"release", "reset"})
      /\ (pc'[1] = "release" <=> pc[1] = "release")
  BY WorkerFacts DEF BarrierInv, BarrierType, Coming, Workers
<1>3. \A j \in Workers : j # i => pc'[j] = pc[j] /\ can_run'[j] = can_run[j]
  BY WorkerFacts DEF BarrierInv, BarrierType
<1>4. pc'[i] = to /\ (to = "arrive" => ~can_run'[i])
  BY WorkerFacts DEF BarrierInv, BarrierType
<1>5. \A j \in Workers : Arrived(j)' <=> Arrived(j)
  BY <1>2, <1>3, <1>4 DEF Arrived
<1>6. round[i] = Coming /\ i <= main /\ pc[1] # "reset"
  BY WorkerFacts DEF BarrierInv, WorkerInv, Standing, Arrived
<1>7. ASSUME NEW j \in Workers PROVE WorkerInv(j)'
  <2>1. CASE j = i
    BY <2>1, <1>2, <1>4, <1>6, WorkerFacts DEF BarrierInv, WorkerInv
  <2>2. CASE j # i
    BY <2>2, <1>2, <1>3, <1>5, WorkerFacts DEF BarrierInv, WorkerInv, Standing
  <2> QED BY <2>1, <2>2
<1>8. CounterInv'
  BY <1>5, CounterFrame DEF BarrierInv
<1> QED BY <1>1, <1>2, <1>7, <1>8 DEF BarrierInv
LEMMA ReadStep ==
  ASSUME BarrierInv, NEW i \in Workers, Read(i) \/ Fill(i) \/ Stop(i)
  PROVE  BarrierInv'
<1>1. CASE Read(i)
  <2>1. PICK to \in {"fill", "stop", "done"} : pc' = [pc EXCEPT ![i] = to]
    BY <1>1 DEF Read, Goto
  <2> QED BY <1>1, <2>1, InsideRound DEF Read, inputs
<1>2. CASE Fill(i)
  <2>1. PICK to \in {"fill", "stop"} : pc' = [pc EXCEPT ![i] = to]
    BY <1>2 DEF Fill, Goto
  <2> QED BY <1>2, <2>1, InsideRound DEF Fill, inputs
<1>3. CASE Stop(i)
  BY <1>3, InsideRound DEF Stop, Goto, inputs
<1> QED BY <1>1, <1>2, <1>3

LEMMA CreateStep == BarrierInv /\ Create => BarrierInv'
<1> SUFFICES ASSUME BarrierInv, Create PROVE BarrierInv'
  OBVIOUS
<1> DEFINE i == main + 1
<1>1. i \in Workers /\ pc[i] = "off" /\ round[i] = Coming
  BY WorkerFacts DEF BarrierInv, BarrierType, WorkerInv, Standing, Create, Workers
<1>2. pc' = [pc EXCEPT ![i] = "read"] /\ main' = i
      /\ UNCHANGED <<T, round, next, finished, can_run>>
  BY DEF Create, Goto, inputs
<1> HIDE DEF i
<1>3. BarrierType'
  BY <1>1, <1>2, WorkerFacts DEF BarrierInv, BarrierType, Places, Workers
<1>4. Coming' = Coming /\ Workers' = Workers
      /\ (pc'[1] = "reset" <=> pc[1] = "reset") /\ (pc'[1] = "release" <=> pc[1] = "release")
  BY <1>1, <1>2, WorkerFacts DEF BarrierInv, BarrierType, Coming, Workers
<1>5. pc'[i] = "read" /\ \A j \in Workers : j # i => pc'[j] = pc[j]
  BY <1>1, <1>2, WorkerFacts DEF BarrierInv, BarrierType
<1>6. \A j \in Workers : Arrived(j)' <=> Arrived(j)
  BY <1>1, <1>2, <1>4, <1>5 DEF Arrived
<1>7. pc[1] # "reset"
  BY <1>1 DEF BarrierInv, WorkerInv, Arrived
<1>8. ASSUME NEW j \in Workers PROVE WorkerInv(j)'
  <2>1. CASE j = i
    BY <2>1, <1>1, <1>2, <1>4, <1>5, <1>7, WorkerFacts DEF BarrierInv, WorkerInv
  <2>2. CASE j # i
    <3>1. j > main' => j > main
      BY <1>2, WorkerFacts DEF BarrierInv, i
    <3> QED BY <2>2, <3>1, <1>2, <1>4, <1>5, <1>6 DEF BarrierInv, WorkerInv, Standing
  <2> QED BY <2>1, <2>2
<1> QED BY <1>2, <1>3, <1>4, <1>6, <1>8, CounterFrame DEF BarrierInv

LEMMA JoinStep == BarrierInv /\ Join => BarrierInv'
<1> SUFFICES ASSUME BarrierInv, Join PROVE BarrierInv'
  OBVIOUS
<1>1. main = T /\ main' = T + 1 /\ UNCHANGED <<T, pc, round, next, finished, can_run>>
  BY DEF Join, inputs
<1>2. BarrierType' /\ Coming' = Coming /\ Workers' = Workers
  BY <1>1 DEF BarrierInv, BarrierType, Coming, Workers
<1>3. \A j \in Workers : WorkerInv(j)' /\ (Arrived(j)' <=> Arrived(j))
  BY <1>1, <1>2, WorkerFacts DEF BarrierInv, WorkerInv, Arrived, Standing
<1> QED BY <1>1, <1>2, <1>3, CounterFrame DEF BarrierInv

LEMMA ArriveStep ==
  ASSUME BarrierInv, NEW i \in Workers, Arrive(i)
  PROVE  BarrierInv'
<1> DEFINE to == IF i = 1 THEN "gather" ELSE "wait"
<1>1. /\ pc[i] = "arrive" /\ pc' = [pc EXCEPT ![i] = to] /\ finished' = finished + 1
      /\ UNCHANGED <<T, main, round, next, can_run>>
  BY DEF Arrive, Goto, inputs
<1>2. round[i] = Coming /\ ~can_run[i] /\ i <= main /\ pc[1] # "reset" /\ ~Arrived(i)
  BY <1>1, WorkerFacts DEF BarrierInv, WorkerInv, Standing, Arrived
<1>3. BarrierType'
  <2>1. to \in Places
    BY DEF Places
  <2> HIDE DEF to
  <2>2. finished' \in Nat
    BY <1>1 DEF BarrierInv, BarrierType
  <2> QED BY <1>1, <2>1, <2>2 DEF BarrierInv, BarrierType, Places
<1>4. pc'[i] = to /\ \A j \in Workers : j # i => pc'[j] = pc[j]
  BY <1>1, WorkerFacts DEF BarrierInv, BarrierType
<1>5. Coming' = Coming /\ Workers' = Workers /\ pc'[1] # "reset"
      /\ (pc'[1] = "release" <=> pc[1] = "release")
  BY <1>1, <1>2, <1>4, WorkerFacts DEF BarrierInv, Coming, Workers
<1>6. \A j \in Workers : Arrived(j)' <=> Arrived(j) \/ j = i
  BY <1>1, <1>2, <1>4, <1>5 DEF Arrived
<1>7. ASSUME NEW j \in Workers PROVE WorkerInv(j)'
  <2>1. CASE j = i
    BY <2>1, <1>1, <1>2, <1>4, <1>5, WorkerFacts DEF BarrierInv, WorkerInv
  <2>2. CASE j # i
    BY <2>2, <1>1, <1>4, <1>5, <1>6 DEF BarrierInv, WorkerInv, Standing
  <2> QED BY <2>1, <2>2
<1>8. CounterInv'
  <2>1. {j \in Workers : Arrived(j)}' = {j \in Workers : Arrived(j)} \cup {i}
    BY <1>5, <1>6
  <2>2. i \notin {j \in Workers : Arrived(j)} /\ IsFiniteSet({j \in Workers : Arrived(j)})
    BY <1>2, ArrivedFinite DEF BarrierInv
  <2>3. Cardinality({j \in Workers : Arrived(j)} \cup {i}) = Cardinality({j \in Workers : Arrived(j)}) + 1
    BY <2>2, FS_AddElement
  <2> QED BY <1>1, <2>1, <2>3 DEF CounterInv, BarrierInv
<1> QED BY <1>1, <1>3, <1>5, <1>7, <1>8 DEF BarrierInv
LEMMA GatherStep ==
  ASSUME BarrierInv, NEW i \in Workers, Gather(i)
  PROVE  BarrierInv'
<1>1. /\ pc[i] = "gather" /\ pc' = [pc EXCEPT ![i] = "reset"] /\ finished >= T
      /\ UNCHANGED <<T, main, round, next, can_run, finished>>
  BY DEF Gather, Goto, inputs
<1>2. i = 1
  BY <1>1 DEF BarrierInv, WorkerInv
<1>3. \A j \in Workers : Arrived(j)
  BY <1>1, ArrivedFinite, WorkerFacts DEF BarrierInv, CounterInv, BarrierType
<1>4. BarrierType'
  BY <1>1 DEF BarrierInv, BarrierType, Places
<1>5. pc'[1] = "reset" /\ \A j \in Workers : j # 1 => pc'[j] = pc[j]
  BY <1>1, <1>2, WorkerFacts DEF BarrierInv, BarrierType
<1>6. Coming' = Coming /\ Workers' = Workers
  BY <1>1, <1>2, <1>5 DEF Coming, Workers
<1>7. \A j \in Workers : Arrived(j)' <=> Arrived(j)
  BY <1>1, <1>2, <1>3, <1>5, <1>6 DEF Arrived
<1>8. ASSUME NEW j \in Workers PROVE WorkerInv(j)'
  BY <1>1, <1>2, <1>3, <1>5, <1>6, <1>7 DEF BarrierInv, WorkerInv, Arrived
<1> QED BY <1>1, <1>4, <1>5, <1>6, <1>7, <1>8, CounterFrame DEF BarrierInv

\* The next round is open, and nobody is in it yet.
LEMMA ResetStep ==
  ASSUME BarrierInv, NEW i \in Workers, Reset(i)
  PROVE  BarrierInv'
<1>1. /\ pc[i] = "reset" /\ pc' = [pc EXCEPT ![i] = "release"] /\ finished' = 0 /\ next' = 1
      /\ UNCHANGED <<T, main, round, can_run>>
  BY DEF Reset, Goto, inputs
<1>2. i = 1
  BY <1>1 DEF BarrierInv, WorkerInv
<1>3. \A j \in Workers : Arrived(j) /\ (j # 1 => pc[j] = "wait")
  BY <1>1, <1>2 DEF BarrierInv, WorkerInv, Arrived
<1>4. BarrierType'
  BY <1>1 DEF BarrierInv, BarrierType, Places
<1>5. pc'[1] = "release" /\ \A j \in Workers : j # 1 => pc'[j] = "wait"
  BY <1>1, <1>2, <1>3, WorkerFacts DEF BarrierInv, BarrierType
<1>6. Coming' = Coming + 1 /\ Workers' = Workers /\ Coming \in Nat
  BY <1>1, <1>2, <1>5, WorkerFacts DEF Coming, Workers, BarrierInv
<1>7. \A j \in Workers : round'[j] + 1 = Coming' /\ ~Arrived(j)'
  BY <1>1, <1>3, <1>6, WorkerFacts DEF Arrived, BarrierInv
<1>8. ASSUME NEW j \in Workers PROVE WorkerInv(j)'
  <2>1. round'[j] # Coming' /\ Standing(j)'
    BY <1>1, <1>5, <1>7, WorkerFacts DEF Standing, BarrierInv
  <2>2. ~can_run'[j] /\ (j > main' => pc'[j] = "off")
    BY <1>1, <1>3, WorkerFacts DEF WorkerInv, BarrierInv, Arrived
  <2> QED BY <2>1, <2>2, <1>5 DEF WorkerInv
<1>9. CounterInv'
  <2>1. {j \in Workers : Arrived(j)}' = {}
    BY <1>6, <1>7
  <2> QED BY <1>1, <2>1, FS_EmptySet DEF CounterInv
<1>10. next' \in Workers'
  BY <1>1, <1>6, WorkerFacts DEF BarrierInv
<1> QED BY <1>4, <1>6, <1>8, <1>9, <1>10 DEF BarrierInv

LEMMA ReleaseStep ==
  ASSUME BarrierInv, NEW i \in Workers, Release(i)
  PROVE  BarrierInv'
<1> DEFINE to == IF next = T THEN "wait" ELSE "release"
<1>1. /\ pc[i] = "release" /\ pc' = [pc EXCEPT ![i] = to] /\ next' = next + 1
      /\ can_run' = [can_run EXCEPT ![next] = TRUE]
      /\ UNCHANGED <<T, main, round, finished>>
  BY DEF Release, Goto, inputs
<1>2. i = 1 /\ next \in Workers
  BY <1>1 DEF BarrierInv, WorkerInv
<1>3. BarrierType'
  <2>1. to \in Places
    BY DEF Places
  <2> HIDE DEF to
  <2>2. next' \in Nat
    BY <1>1 DEF BarrierInv, BarrierType
  <2> QED BY <1>1, <2>1, <2>2 DEF BarrierInv, BarrierType, Places
<1>4. pc'[1] = to /\ \A j \in Workers : j # 1 => pc'[j] = pc[j]
  BY <1>1, <1>2, WorkerFacts DEF BarrierInv, BarrierType
<1>5. Coming' = Coming /\ Workers' = Workers /\ round[1] + 1 = Coming
  BY <1>1, <1>2, <1>4 DEF Coming, Workers
<1>6. can_run'[next] /\ \A j \in Workers : j # next => can_run'[j] = can_run[j]
  BY <1>1, <1>2, WorkerFacts DEF BarrierInv, BarrierType
<1>7. round[next] # Coming /\ round[1] # Coming
  BY <1>1, <1>2, <1>5, WorkerFacts DEF BarrierInv, WorkerInv
<1>8. \A j \in Workers : Arrived(j)' <=> Arrived(j)
  BY <1>1, <1>4, <1>5, <1>7 DEF Arrived
<1>9. ASSUME NEW j \in Workers PROVE WorkerInv(j)'
  <2>1. CASE round[j] = Coming
    <3>1. j # 1 /\ j # next /\ j < next
      BY <1>1, <1>2, <1>7, <2>1 DEF BarrierInv, WorkerInv
    <3> QED BY <2>1, <3>1, <1>1, <1>2, <1>4, <1>5, <1>6, WorkerFacts DEF BarrierInv, WorkerInv, BarrierType
  <2>2. CASE round[j] # Coming
    <3>1. Standing(j)
      BY <2>2 DEF BarrierInv, WorkerInv
    <3>2. can_run'[j] \/ (next < j /\ next # T)
      BY <3>1, <1>2, <1>6, WorkerFacts DEF Standing, BarrierInv, BarrierType
    <3>3. Standing(j)'
      BY <3>1, <3>2, <1>1, <1>2, <1>4, <1>5, WorkerFacts DEF Standing, BarrierInv, BarrierType
    <3> QED BY <2>2, <3>3, <1>1, <1>2, <1>4, <1>5 DEF BarrierInv, WorkerInv
  <2> QED BY <2>1, <2>2
<1>10. pc'[1] = "release" => next' \in Workers'
  BY <1>1, <1>2, <1>4, <1>5, WorkerFacts DEF BarrierInv, Workers, BarrierType
<1> QED BY <1>1, <1>3, <1>8, <1>9, <1>10, <1>5, CounterFrame DEF BarrierInv

LEMMA WaitStep ==
  ASSUME BarrierInv, NEW i \in Workers, Wait(i)
  PROVE  BarrierInv'
<1>1. /\ pc[i] = "wait" /\ can_run[i] /\ pc' = [pc EXCEPT ![i] = "read"]
      /\ round' = [round EXCEPT ![i] = @ + 1]
      /\ UNCHANGED <<T, main, next, finished, can_run>>
  BY DEF Wait, Goto, inputs
<1>2. round[i] + 1 = Coming /\ pc[1] # "reset" /\ i <= main
  BY <1>1, WorkerFacts DEF BarrierInv, WorkerInv, Standing, Arrived
<1>3. BarrierType'
  <2>1. round \in [1..MaxThreads -> Nat] /\ round[i] + 1 \in Nat
    BY WorkerFacts DEF BarrierInv, BarrierType
  <2>2. round' \in [1..MaxThreads -> Nat]
    BY <1>1, <2>1
  <2> QED BY <1>1, <2>2 DEF BarrierInv, BarrierType, Places
<1>4. /\ pc'[i] = "read" /\ round'[i] = Coming
      /\ \A j \in Workers : j # i => pc'[j] = pc[j] /\ round'[j] = round[j]
  BY <1>1, <1>2, WorkerFacts DEF BarrierInv, BarrierType
<1>5. Coming' = Coming /\ Workers' = Workers /\ pc'[1] # "reset"
      /\ (pc'[1] = "release" <=> pc[1] = "release")
  BY <1>1, <1>2, <1>4, WorkerFacts DEF Coming, Workers, BarrierInv
<1>6. \A j \in Workers : Arrived(j)' <=> Arrived(j)
  BY <1>1, <1>2, <1>4, <1>5, WorkerFacts DEF Arrived, BarrierInv
<1>7. pc[1] = "release" => i < next
  BY <1>1, <1>2, WorkerFacts DEF BarrierInv, WorkerInv, Standing
<1>8. ASSUME NEW j \in Workers PROVE WorkerInv(j)'
  <2>1. CASE j = i
    BY <2>1, <1>1, <1>2, <1>4, <1>5, <1>7, WorkerFacts DEF WorkerInv, BarrierInv
  <2>2. CASE j # i
    BY <2>2, <1>1, <1>2, <1>4, <1>5, <1>6 DEF WorkerInv, BarrierInv, Standing
  <2> QED BY <2>1, <2>2
<1> QED BY <1>1, <1>3, <1>5, <1>6, <1>8, CounterFrame DEF BarrierInv
LEMMA NextBarrier == BarrierInv /\ [Next]_vars => BarrierInv'
<1> SUFFICES ASSUME BarrierInv, [Next]_vars PROVE BarrierInv'
  OBVIOUS
<1>1. CASE Create
  BY <1>1, CreateStep
<1>2. CASE Join
  BY <1>2, JoinStep
<1>3. ASSUME NEW i \in Workers, Worker(i) PROVE BarrierInv'
  BY <1>3, ReadStep, ArriveStep, GatherStep, ResetStep, ReleaseStep, WaitStep DEF Worker
<1>4. CASE UNCHANGED vars
  <2>1. BarrierType' /\ Coming' = Coming /\ Workers' = Workers
    BY <1>4 DEF vars, BarrierInv, BarrierType, Coming, Workers
  <2>2. \A j \in Workers : WorkerInv(j)' /\ (Arrived(j)' <=> Arrived(j))
    BY <1>4, <2>1 DEF vars, BarrierInv, WorkerInv, Arrived, Standing
  <2> QED BY <1>4, <2>1, <2>2, CounterFrame DEF vars, BarrierInv
<1> QED BY <1>1, <1>2, <1>3, <1>4 DEF Next

LEMMA BarrierGivesRounds == BarrierInv => RoundsApart
<1> SUFFICES ASSUME BarrierInv, NEW i \in Workers, NEW j \in Workers, pc[i] = "fill"
             PROVE  /\ round[i] > 0 => Past(j, round[i] - 1)
                    /\ round[j] <= round[i]
  BY DEF RoundsApart
<1>1. round[i] = Coming
  BY DEF BarrierInv, WorkerInv, Standing
<1>2. CASE round[j] = Coming
  BY <1>1, <1>2, WorkerFacts DEF Past, BarrierInv
<1>3. CASE Standing(j)
  BY <1>1, <1>3, WorkerFacts DEF Past, BarrierInv, Standing
<1> QED BY <1>2, <1>3 DEF BarrierInv, WorkerInv

(* Whatever the strings and the number of workers, a worker fills its part *)
(* of a diagonal only when everybody is done with the one before and       *)
(* nobody has gone on to the next.                                         *)
THEOREM RoundsSeparate == Spec => []RoundsApart
BY InitBarrier, NextBarrier, BarrierGivesRounds, PTL DEF Spec

-----------------------------------------------------------------------------
(* What Table and Todo compute.  Both are recursive functions, so that first *)
(* there has to be one that satisfies their equations: the counterexample    *)
(* with the least argument would have a function for the arguments below.    *)

Less == {ss \in Nat \X Nat : ss[1] < ss[2]}

LEMMA Induction ==
  ASSUME NEW S, 0 \in S, \A k \in Nat : k \in S => k + 1 \in S
  PROVE  Nat \subseteq S
<1> SUFFICES ASSUME NEW x \in Nat, x \notin S PROVE FALSE
  OBVIOUS
<1> DEFINE C == {k \in Nat : k \notin S}
<1>1. IsWellFoundedOn(Less, Nat)
  BY NatLessThanWellFounded DEF Less, OpToRel
<1>2. PICK n \in C : \A m \in C : <<m, n>> \notin Less
  <2>1. C \subseteq Nat /\ C # {}
    OBVIOUS
  <2> HIDE DEF C
  <2> QED BY <1>1, <2>1, WFMin
<1>3. n \in Nat /\ n # 0 /\ n \notin S
  BY <1>2
<1>4. n - 1 \in Nat /\ n - 1 < n
  BY <1>3
<1>5. n - 1 \in S
  BY <1>2, <1>3, <1>4 DEF Less
<1> QED BY <1>3, <1>4, <1>5

InputOK == A \in Words /\ B \in Words /\ T \in 2..MaxThreads

LEMMA Lengths ==
  ASSUME InputOK
  PROVE  /\ N \in 1..MaxLen /\ M \in 1..MaxLen /\ MaxLen \in Nat /\ MaxThreads \in Nat
         /\ T \in Nat /\ T >= 2 /\ Rounds = 0..(N + M - 2)
<1>1. ASSUME NEW w \in Words PROVE Len(w) \in 1..MaxLen
  <2>1. PICK n \in 1..MaxLen : w \in [1..n -> Letters]
    BY DEF Words
  <2>2. n \in Nat /\ MaxLen \in Nat
    BY BoundsAssumption
  <2>3. w \in Seq(Letters) /\ Len(w) = n
    BY <2>1, <2>2
  <2> QED BY <2>3
<1> QED BY <1>1, BoundsAssumption DEF InputOK, N, M, Rounds

Squares == (-1..(N - 1)) \X (-1..(M - 1))

\* The longest common subsequence up to row r and column c, from those before.
Longest(f, r, c) ==
  IF r < 0 \/ c < 0 THEN 0
  ELSE Max2(Max2(f[<<r - 1, c>>], f[<<r, c - 1>>]), f[<<r - 1, c - 1>>] + Match(r, c))

\* f is right up to the diagonal k - 2.
RightUpTo(f, k) ==
  /\ f = [x \in Squares |-> f[x]]
  /\ \A r \in -1..(N - 1), c \in -1..(M - 1) : r + c + 2 <= k => f[<<r, c>>] = Longest(f, r, c)

LEMMA TableThere ==
  ASSUME InputOK
  PROVE  \E f : f = [x \in Squares |-> Longest(f, x[1], x[2])]
<1> DEFINE S == {k \in Nat : \E f : RightUpTo(f, k)}
<1>1. N \in Nat /\ N >= 1 /\ M \in Nat /\ M >= 1
  BY Lengths
<1>2. 0 \in S
  <2> DEFINE f == [x \in Squares |-> 0]
  <2>1. f = [x \in Squares |-> f[x]]
    OBVIOUS
  <2>2. ASSUME NEW r \in -1..(N - 1), NEW c \in -1..(M - 1), r + c + 2 <= 0
        PROVE  f[<<r, c>>] = Longest(f, r, c)
    BY <1>1, <2>2 DEF Longest, Squares
  <2> HIDE DEF f
  <2> QED BY <2>1, <2>2 DEF RightUpTo
<1>3. ASSUME NEW k \in Nat, k \in S PROVE k + 1 \in S
  <2>1. PICK f : RightUpTo(f, k)
    BY <1>3
  <2> DEFINE g == [x \in Squares |-> IF x[1] + x[2] + 2 = k + 1 THEN Longest(f, x[1], x[2]) ELSE f[x]]
  <2>2. g = [x \in Squares |-> g[x]]
    OBVIOUS
  <2>3. ASSUME NEW r \in -1..(N - 1), NEW c \in -1..(M - 1)
        PROVE  g[<<r, c>>] = IF r + c + 2 = k + 1 THEN Longest(f, r, c) ELSE f[<<r, c>>]
    BY DEF Squares
  <2> HIDE DEF g
  <2>4. ASSUME NEW r \in -1..(N - 1), NEW c \in -1..(M - 1), r + c + 2 <= k + 1
        PROVE  g[<<r, c>>] = Longest(g, r, c)
    <3>1. Longest(g, r, c) = Longest(f, r, c)
      <4>1. CASE r < 0 \/ c < 0
        BY <4>1 DEF Longest
      <4>2. CASE ~(r < 0 \/ c < 0)
        <5>1. /\ r - 1 \in -1..(N - 1) /\ c - 1 \in -1..(M - 1)
              /\ (r - 1) + c + 2 # k + 1 /\ r + (c - 1) + 2 # k + 1 /\ (r - 1) + (c - 1) + 2 # k + 1
          BY <1>1, <2>4, <4>2
        <5>2. /\ g[<<r - 1, c>>] = f[<<r - 1, c>>] /\ g[<<r, c - 1>>] = f[<<r, c - 1>>]
              /\ g[<<r - 1, c - 1>>] = f[<<r - 1, c - 1>>]
          BY <2>3, <5>1
        <5> QED BY <4>2, <5>2 DEF Longest
      <4> QED BY <4>1, <4>2
    <3>2. r + c + 2 = k + 1 \/ r + c + 2 <= k
      BY <1>1, <2>4
    <3> QED BY <2>1, <2>3, <3>1, <3>2 DEF RightUpTo
  <2> QED BY <2>2, <2>4 DEF RightUpTo
<1>4. N + M \in Nat
  BY <1>1
<1> HIDE DEF S
<1>5. N + M \in S
  BY <1>2, <1>3, <1>4, Induction
<1>6. PICK f : RightUpTo(f, N + M)
  BY <1>5 DEF S
<1>7. ASSUME NEW x \in Squares PROVE f[x] = Longest(f, x[1], x[2])
  <2>1. PICK r \in -1..(N - 1), c \in -1..(M - 1) : x = <<r, c>>
    BY DEF Squares
  <2>2. r + c + 2 <= N + M
    BY <1>1
  <2> QED BY <1>6, <2>1, <2>2 DEF RightUpTo
<1> QED BY <1>6, <1>7 DEF RightUpTo

LEMMA TableEquation ==
  ASSUME InputOK, NEW r \in -1..(N - 1), NEW c \in -1..(M - 1)
  PROVE  Table[<<r, c>>] = Longest(Table, r, c)
<1>1. PICK f : f = [x \in Squares |-> Longest(f, x[1], x[2])]
  BY TableThere
<1>2. Table = [x \in Squares |-> Longest(Table, x[1], x[2])]
  BY <1>1 DEF Table, Squares, Longest
<1>3. <<r, c>> \in Squares
  BY DEF Squares
<1> QED BY <1>2, <1>3

-----------------------------------------------------------------------------
(* The division of a diagonal among the workers. *)

NextPart(p, r, i) ==
  LET first == IF i = 1 THEN FirstRow(r) ELSE p[i - 1].end_row + 1
      col == IF i = 1 THEN FirstCol(r)
             ELSE p[i - 1].start_col - (p[i - 1].end_row - p[i - 1].start_row) - 1
  IN [start_col |-> col, start_row |-> first,
      end_row |-> Min2(first + Block(r, i) - 1, LastRow(r))]

PartsUpTo(p, r, k) ==
  /\ p = [i \in Workers |-> p[i]]
  /\ \A i \in Workers : i <= k => p[i] = NextPart(p, r, i)

LEMMA PartsThere ==
  ASSUME InputOK, NEW r
  PROVE  \E p : /\ p = [i \in Workers |-> NextPart(p, r, i)]
                /\ Todo(r) = [i \in Workers |-> IF i <= Min2(T, Size(r)) THEN p[i] ELSE Nothing]
<1> DEFINE S == {k \in Nat : \E p : PartsUpTo(p, r, k)}
<1>1. T \in Nat /\ Workers = 1..T
  BY Lengths DEF Workers
<1>2. 0 \in S
  <2> DEFINE p == [i \in Workers |-> 0]
  <2>1. p = [i \in Workers |-> p[i]]
    OBVIOUS
  <2>2. ~ \E i \in Workers : i <= 0
    BY <1>1
  <2> HIDE DEF p
  <2> QED BY <2>1, <2>2 DEF PartsUpTo
<1>3. ASSUME NEW k \in Nat, k \in S PROVE k + 1 \in S
  <2>1. PICK p : PartsUpTo(p, r, k)
    BY <1>3
  <2> DEFINE g == [i \in Workers |-> IF i = k + 1 THEN NextPart(p, r, i) ELSE p[i]]
  <2>2. /\ g = [i \in Workers |-> g[i]]
        /\ \A i \in Workers : g[i] = IF i = k + 1 THEN NextPart(p, r, i) ELSE p[i]
    OBVIOUS
  <2> HIDE DEF g
  <2>3. ASSUME NEW i \in Workers, i <= k + 1 PROVE g[i] = NextPart(g, r, i)
    <3>1. NextPart(g, r, i) = NextPart(p, r, i)
      <4>1. CASE i = 1
        BY <4>1 DEF NextPart
      <4>2. CASE i # 1
        <5>1. i - 1 \in Workers /\ i - 1 # k + 1
          BY <1>1, <2>3, <4>2
        <5>2. g[i - 1] = p[i - 1]
          BY <2>2, <5>1
        <5> QED BY <5>2 DEF NextPart
      <4> QED BY <4>1, <4>2
    <3>2. i = k + 1 \/ i <= k
      BY <1>1, <2>3
    <3> QED BY <2>1, <2>2, <3>1, <3>2 DEF PartsUpTo
  <2> QED BY <2>2, <2>3 DEF PartsUpTo
<1> HIDE DEF S
<1>4. T \in S
  BY <1>1, <1>2, <1>3, Induction
<1>5. PICK f : PartsUpTo(f, r, T)
  BY <1>4 DEF S
<1>6. f = [i \in Workers |-> NextPart(f, r, i)]
  BY <1>1, <1>5 DEF PartsUpTo
<1> DEFINE p == CHOOSE p : p = [i \in Workers |-> NextPart(p, r, i)]
<1>7. p = [i \in Workers |-> NextPart(p, r, i)]
  BY <1>6
<1>8. Todo(r) = [i \in Workers |-> IF i <= Min2(T, Size(r)) THEN p[i] ELSE Nothing]
  BY DEF Todo, NextPart
<1> QED BY <1>7, <1>8

LEMMA Quotients ==
  ASSUME NEW s \in Nat, NEW t \in Nat \ {0}
  PROVE  /\ s \div t \in Nat /\ s % t \in 0..(t - 1) /\ s = t * (s \div t) + (s % t)
         /\ s < t => s \div t = 0 /\ s % t = s
<1>1. s \div t \in Int /\ s % t \in 0..(t - 1) /\ s = t * (s \div t) + (s % t)
  OBVIOUS
<1> DEFINE q == s \div t
           m == s % t
<1> HIDE DEF q, m
<1>2. q \in Int /\ m \in 0..(t - 1) /\ s = t * q + m
  BY <1>1 DEF q, m
<1>3. q >= 0
  <2>1. q <= -1 => t * q <= -t
    BY <1>2
  <2> QED BY <1>2, <2>1
<1>4. s < t => q = 0
  <2>1. q >= 1 => t * q >= t
    BY <1>2
  <2> QED BY <1>2, <1>3, <2>1
<1>5. s < t => m = s
  BY <1>2, <1>4
<1> QED BY <1>1, <1>3, <1>4, <1>5 DEF q, m

\* The diagonal of a round lies inside the table.
LEMMA Diagonal ==
  ASSUME InputOK, NEW r \in Rounds
  PROVE  /\ FirstRow(r) \in Nat /\ LastRow(r) \in Nat /\ FirstRow(r) <= LastRow(r)
         /\ LastRow(r) <= N - 1 /\ LastRow(r) <= r /\ r - FirstRow(r) <= M - 1
         /\ FirstCol(r) = r - FirstRow(r)
         /\ Size(r) \in Nat \ {0} /\ LastRow(r) = FirstRow(r) + Size(r) - 1
<1>1. /\ N \in Nat /\ M \in Nat /\ N >= 1 /\ M >= 1
      /\ r \in Nat /\ r <= N + M - 2
  BY Lengths
<1>2. /\ FirstRow(r) = IF r < M THEN 0 ELSE r - M + 1
      /\ LastRow(r) = IF r < N THEN r ELSE N - 1
      /\ FirstCol(r) = IF r < M THEN r ELSE M - 1
  BY DEF FirstRow, LastRow, FirstCol
<1>3. Size(r) = LastRow(r) - FirstRow(r) + 1
  BY DEF Size
<1>4. /\ FirstRow(r) \in Nat /\ LastRow(r) \in Nat /\ FirstRow(r) <= LastRow(r)
      /\ LastRow(r) <= N - 1 /\ LastRow(r) <= r /\ r - FirstRow(r) <= M - 1
      /\ FirstCol(r) = r - FirstRow(r)
  BY <1>1, <1>2
<1> QED BY <1>3, <1>4

\* How many rows the workers before i have.
Before(r, i) == (i - 1) * (Size(r) \div T) + Min2(i - 1, Size(r) % T)
Needed(r) == Min2(T, Size(r))

\* Of s rows and t workers, worker i gets b: one more if it is among the first m.
Shared(t, s, i, q, m, b) ==
  /\ q = s \div t /\ m = s % t
  /\ i >= 1 /\ i <= t /\ i <= s
  /\ b = IF s < t THEN 1 ELSE q + (IF i <= m THEN 1 ELSE 0)
SumUp(t, s, i, q, m, b) ==
  /\ q \in Nat /\ m \in Nat /\ b \in Nat /\ b >= 1
  /\ (i - 1) * q + Min2(i - 1, m) + b = i * q + Min2(i, m)
  /\ i * q + Min2(i, m) <= s
  /\ i = Min2(t, s) => i * q + Min2(i, m) = s
  /\ (i - 1) * q + Min2(i - 1, m) \in Nat

LEMMA Sums ==
  ASSUME NEW T0 \in Nat \ {0}, NEW s \in Nat \ {0}, NEW i \in Nat, NEW q, NEW m, NEW b,
         Shared(T0, s, i, q, m, b)
  PROVE  SumUp(T0, s, i, q, m, b)
<1> USE DEF Shared
<1>1. /\ q \in Nat /\ m \in 0..(T0 - 1) /\ s = T0 * q + m /\ (s < T0 => q = 0 /\ m = s)
  BY Quotients
<1>2. s >= T0 => q >= 1
  <2>1. q = 0 => T0 * q = 0
    BY <1>1
  <2> QED BY <1>1, <2>1
<1>3. b = q + (IF i <= m THEN 1 ELSE 0) /\ b >= 1 /\ b \in Nat
  BY <1>1, <1>2
<1>4. (i - 1) * q = i * q - q /\ i * q \in Nat /\ (i - 1) * q \in Nat
  BY <1>1
<1>5. Min2(i, m) = Min2(i - 1, m) + (IF i <= m THEN 1 ELSE 0) /\ Min2(i - 1, m) \in Nat /\ Min2(i, m) \in Nat
  BY <1>1 DEF Min2
<1>6. (i - 1) * q + Min2(i - 1, m) + b = i * q + Min2(i, m)
  <2> DEFINE x == (i - 1) * q
             y == i * q
  <2>1. x = y - q /\ x \in Int /\ y \in Int
    BY <1>4
  <2> HIDE DEF x, y
  <2>2. x + Min2(i - 1, m) + b = y + Min2(i, m)
    BY <2>1, <1>1, <1>3, <1>5
  <2> QED BY <2>2 DEF x, y
<1>7. i * q <= T0 * q
  BY <1>1
<1>8. Min2(i, m) <= m
  BY <1>1 DEF Min2
<1>9. i * q + Min2(i, m) <= s
  <2> DEFINE x == T0 * q
             y == i * q
  <2>1. y <= x /\ s = x + m /\ x \in Int /\ y \in Int
    BY <1>1, <1>4, <1>7
  <2> HIDE DEF x, y
  <2>2. y + Min2(i, m) <= s
    BY <2>1, <1>1, <1>5, <1>8
  <2> QED BY <2>2 DEF y
<1>10. ASSUME i = Min2(T0, s) PROVE i * q + Min2(i, m) = s
  <2>1. CASE s < T0
    <3>1. i = s /\ q = 0 /\ m = s
      BY <1>1, <1>10, <2>1 DEF Min2
    <3> QED BY <3>1 DEF Min2
  <2>2. CASE s >= T0
    <3>1. i = T0 /\ Min2(i, m) = m
      BY <1>1, <1>10, <2>2 DEF Min2
    <3> QED BY <1>1, <3>1
  <2> QED BY <2>1, <2>2
<1>11. (i - 1) * q + Min2(i - 1, m) \in Nat
  BY <1>4, <1>5
<1> QED BY <1>1, <1>3, <1>6, <1>9, <1>10, <1>11 DEF SumUp

PartIs(p, r, i) ==
  /\ p[i].start_row = FirstRow(r) + Before(r, i)
  /\ p[i].end_row = FirstRow(r) + Before(r, i) + Block(r, i) - 1
  /\ p[i].start_col = r - (FirstRow(r) + Before(r, i))

LEMMA BeforeFacts ==
  ASSUME InputOK, NEW r \in Rounds, NEW i \in Nat, i >= 1, i <= Needed(r)
  PROVE  /\ i \in Workers
         /\ Before(r, i) \in Nat /\ Block(r, i) \in Nat /\ Block(r, i) >= 1
         /\ Before(r, i + 1) = Before(r, i) + Block(r, i)
         /\ Before(r, i) + Block(r, i) <= Size(r)
         /\ i = Needed(r) => Before(r, i) + Block(r, i) = Size(r)
<1> DEFINE q == Size(r) \div T
           m == Size(r) % T
<1>1. T \in Nat \ {0} /\ Size(r) \in Nat \ {0}
  BY Lengths, Diagonal
<1>2. i <= T /\ i <= Size(r) /\ (i = Needed(r) => i = Min2(T, Size(r)))
  BY <1>1 DEF Needed, Min2
<1>3. Block(r, i) = IF Size(r) < T THEN 1 ELSE q + (IF i <= m THEN 1 ELSE 0)
  BY DEF Block
<1>4. Before(r, i) = (i - 1) * q + Min2(i - 1, m) /\ Before(r, i + 1) = i * q + Min2(i, m)
  <2>1. (i + 1) - 1 = i
    OBVIOUS
  <2> QED BY <2>1 DEF Before
<1> HIDE DEF q, m
<1>5. q = Size(r) \div T /\ m = Size(r) % T
  BY DEF q, m
<1>6. PICK T0 \in Nat \ {0}, s \in Nat \ {0}, b \in {Block(r, i)} : T0 = T /\ s = Size(r)
  BY <1>1
<1>7. /\ q \in Nat /\ m \in Nat /\ b \in Nat /\ b >= 1
      /\ (i - 1) * q + Min2(i - 1, m) + b = i * q + Min2(i, m)
      /\ i * q + Min2(i, m) <= s
      /\ i = Min2(T0, s) => i * q + Min2(i, m) = s
      /\ (i - 1) * q + Min2(i - 1, m) \in Nat
  <2>1. Shared(T0, s, i, q, m, b)
    BY <1>2, <1>3, <1>5, <1>6 DEF Shared
  <2>2. PICK q0, m0 : q0 = q /\ m0 = m
    OBVIOUS
  <2>3. SumUp(T0, s, i, q0, m0, b)
    BY <2>1, <2>2, Sums
  <2> QED BY <2>2, <2>3 DEF SumUp
<1>8. i \in Workers
  BY <1>1, <1>2 DEF Workers
<1>9. Before(r, i) + b = Before(r, i + 1)
  BY <1>4, <1>7
<1> QED BY <1>2, <1>4, <1>6, <1>7, <1>8, <1>9

LEMMA PartsAre ==
  ASSUME InputOK, NEW r \in Rounds, NEW p, p = [i \in Workers |-> NextPart(p, r, i)],
         NEW x \in Nat, x >= 1, x <= Needed(r)
  PROVE  PartIs(p, r, x)
<1> DEFINE S == {k \in Nat : k + 1 <= Needed(r) => PartIs(p, r, k + 1)}
<1>1. /\ FirstRow(r) \in Nat /\ FirstCol(r) = r - FirstRow(r) /\ r \in Nat
      /\ LastRow(r) = FirstRow(r) + Size(r) - 1 /\ Size(r) \in Nat
      /\ T \in Nat /\ T >= 2 /\ Needed(r) \in Nat
  BY Diagonal, Lengths DEF Needed, Min2
<1>2. ASSUME NEW i \in Nat, i >= 1, i <= Needed(r)
      PROVE  /\ p[i] = NextPart(p, r, i)
             /\ Min2(FirstRow(r) + Before(r, i) + Block(r, i) - 1, LastRow(r))
                  = FirstRow(r) + Before(r, i) + Block(r, i) - 1
  <2>1. i \in Workers /\ Before(r, i) + Block(r, i) <= Size(r) /\ Before(r, i) \in Nat /\ Block(r, i) \in Nat
    BY <1>2, BeforeFacts
  <2>2. p[i] = NextPart(p, r, i)
    BY <2>1
  <2> QED BY <1>1, <2>1, <2>2 DEF Min2
<1>3. 0 \in S
  <2> SUFFICES ASSUME 1 <= Needed(r) PROVE PartIs(p, r, 1)
    OBVIOUS
  <2>1. Before(r, 1) = 0
    <3>1. Size(r) \div T \in Nat /\ Size(r) % T \in Nat
      <4>1. PICK s \in Nat, t \in Nat \ {0} : s = Size(r) /\ t = T
        BY <1>1
      <4>2. s \div t \in Nat /\ s % t \in 0..(t - 1)
        BY Quotients
      <4> QED BY <4>1, <4>2
    <3>2. Min2(0, Size(r) % T) = 0
      BY <3>1 DEF Min2
    <3>3. 0 * (Size(r) \div T) = 0
      BY <3>1
    <3> QED BY <3>2, <3>3 DEF Before
  <2>2. p[1] = [start_col |-> FirstCol(r), start_row |-> FirstRow(r),
                end_row |-> Min2(FirstRow(r) + Block(r, 1) - 1, LastRow(r))]
    BY <1>2 DEF NextPart
  <2>3. Min2(FirstRow(r) + 0 + Block(r, 1) - 1, LastRow(r)) = FirstRow(r) + 0 + Block(r, 1) - 1
    <3>1. Min2(FirstRow(r) + Before(r, 1) + Block(r, 1) - 1, LastRow(r))
            = FirstRow(r) + Before(r, 1) + Block(r, 1) - 1
      <4>1. PICK i \in Nat : i = 1 /\ i >= 1 /\ i <= Needed(r)
        OBVIOUS
      <4>2. Min2(FirstRow(r) + Before(r, i) + Block(r, i) - 1, LastRow(r))
              = FirstRow(r) + Before(r, i) + Block(r, i) - 1
        BY <1>2, <4>1
      <4> QED BY <4>1, <4>2
    <3> QED BY <2>1, <3>1
  <2>4. FirstRow(r) + 0 = FirstRow(r)
    BY <1>1
  <2> QED BY <1>1, <2>1, <2>2, <2>3, <2>4 DEF PartIs
<1>4. ASSUME NEW k \in Nat, k \in S PROVE k + 1 \in S
  <2> SUFFICES ASSUME (k + 1) + 1 <= Needed(r) PROVE PartIs(p, r, (k + 1) + 1)
    OBVIOUS
  <2> DEFINE i == k + 1
             n == (k + 1) + 1
  <2>1. /\ i \in Nat /\ i >= 1 /\ i <= Needed(r) /\ n \in Nat /\ n >= 1 /\ n # 1 /\ n - 1 = i /\ n <= Needed(r)
        /\ n = i + 1
    BY <1>1
  <2>2. PartIs(p, r, i)
    BY <1>4, <2>1
  <2> HIDE DEF i, n
  <2>3. /\ Before(r, n) = Before(r, i) + Block(r, i) /\ Before(r, i) \in Nat /\ Block(r, i) \in Nat
        /\ Before(r, n) \in Nat /\ Block(r, n) \in Nat
    BY <2>1, BeforeFacts
  <2>4. p[n] = [start_col |-> p[i].start_col - (p[i].end_row - p[i].start_row) - 1,
                start_row |-> p[i].end_row + 1,
                end_row |-> Min2(p[i].end_row + 1 + Block(r, n) - 1, LastRow(r))]
    BY <1>2, <2>1 DEF NextPart
  <2>5. p[i].end_row + 1 = FirstRow(r) + Before(r, n)
    BY <1>1, <2>2, <2>3 DEF PartIs
  <2>6. p[i].start_col - (p[i].end_row - p[i].start_row) - 1 = r - (FirstRow(r) + Before(r, n))
    BY <1>1, <2>2, <2>3 DEF PartIs
  <2>7. Min2(p[i].end_row + 1 + Block(r, n) - 1, LastRow(r)) = FirstRow(r) + Before(r, n) + Block(r, n) - 1
    BY <1>2, <2>1, <2>5
  <2>8. PartIs(p, r, n)
    BY <2>4, <2>5, <2>6, <2>7 DEF PartIs
  <2> QED BY <2>8 DEF n
<1> HIDE DEF S
<1>5. Nat \subseteq S
  BY <1>3, <1>4, Induction
<1>6. x - 1 \in S /\ (x - 1) + 1 = x
  BY <1>5
<1> QED BY <1>6 DEF S

\* What the workers need of their entries: rows of the diagonal, and together all.
Mine(i, todo, y) == ~Idle(i, todo) /\ y \in todo.start_row .. todo.end_row
DivisionOK(todo, r) ==
  /\ \A i \in Workers : ~Idle(i, todo[i]) =>
       /\ todo[i].start_row \in Nat /\ todo[i].end_row \in Nat
       /\ todo[i].start_row <= todo[i].end_row
       /\ FirstRow(r) <= todo[i].start_row /\ todo[i].end_row <= LastRow(r)
       /\ todo[i].start_col = r - todo[i].start_row
  /\ \A y \in FirstRow(r)..LastRow(r) : \E i \in Workers : Mine(i, todo[i], y)

LEMMA Division ==
  ASSUME InputOK, NEW r \in Rounds
  PROVE  DivisionOK(Todo(r), r)
<1>1. PICK p : /\ p = [i \in Workers |-> NextPart(p, r, i)]
               /\ Todo(r) = [i \in Workers |-> IF i <= Needed(r) THEN p[i] ELSE Nothing]
  BY PartsThere DEF Needed
<1>2. /\ FirstRow(r) \in Nat /\ LastRow(r) = FirstRow(r) + Size(r) - 1 /\ Size(r) \in Nat \ {0}
      /\ T \in Nat /\ T >= 2 /\ Needed(r) \in Nat /\ Needed(r) >= 1 /\ Needed(r) <= T
  BY Diagonal, Lengths DEF Needed, Min2
<1>3. ASSUME NEW i \in Nat, i >= 1, i <= Needed(r)
      PROVE  /\ i \in Workers /\ Todo(r)[i] = p[i] /\ PartIs(p, r, i)
             /\ p[i].start_row \in Nat /\ p[i].end_row \in Nat /\ p[i].start_row <= p[i].end_row
             /\ FirstRow(r) <= p[i].start_row /\ p[i].end_row <= LastRow(r)
             /\ p[i].start_col = r - p[i].start_row
             /\ i = Needed(r) => p[i].end_row = LastRow(r)
  <2>1. /\ i \in Workers /\ Before(r, i) \in Nat /\ Block(r, i) \in Nat /\ Block(r, i) >= 1
        /\ Before(r, i) + Block(r, i) <= Size(r)
        /\ i = Needed(r) => Before(r, i) + Block(r, i) = Size(r)
    BY <1>3, BeforeFacts
  <2>2. PartIs(p, r, i)
    BY <1>1, <1>3, PartsAre
  <2>3. Todo(r)[i] = p[i]
    BY <1>1, <1>3, <2>1
  <2> QED BY <1>2, <2>1, <2>2, <2>3 DEF PartIs
<1>4. ASSUME NEW i \in Nat, i >= 1, i + 1 <= Needed(r)
      PROVE  p[i + 1].start_row = p[i].end_row + 1
  <2>1. i <= Needed(r) /\ i + 1 \in Nat /\ i + 1 >= 1
    BY <1>2, <1>4
  <2>2. Before(r, i + 1) = Before(r, i) + Block(r, i) /\ Before(r, i) \in Nat /\ Block(r, i) \in Nat
    BY <1>4, <2>1, BeforeFacts
  <2>3. PartIs(p, r, i) /\ PartIs(p, r, i + 1)
    BY <1>3, <1>4, <2>1
  <2> QED BY <1>2, <2>2, <2>3 DEF PartIs
<1>5. ASSUME NEW i \in Workers PROVE Idle(i, Todo(r)[i]) <=> i > Needed(r)
  <2>1. i \in Nat /\ i >= 1
    BY <1>2 DEF Workers
  <2>2. CASE i > Needed(r)
    <3>1. Todo(r)[i] = Nothing /\ i # 1
      BY <1>1, <1>2, <2>1, <2>2
    <3> QED BY <3>1, <2>2 DEF Idle
  <2>3. CASE i <= Needed(r) /\ i = 1
    BY <1>2, <2>3 DEF Idle
  <2>4. CASE i <= Needed(r) /\ i # 1
    <3>1. i - 1 \in Nat /\ i - 1 >= 1 /\ (i - 1) + 1 = i /\ i - 1 <= Needed(r)
      BY <1>2, <2>1, <2>4
    <3>2. p[i].start_row = p[i - 1].end_row + 1
      BY <1>4, <2>4, <3>1
    <3>3. p[i - 1].end_row \in Nat
      BY <1>3, <3>1
    <3>4. Todo(r)[i] = p[i]
      BY <1>3, <2>1, <2>4
    <3>5. Todo(r)[i] # Nothing
      BY <3>2, <3>3, <3>4 DEF Nothing
    <3> QED BY <1>2, <2>1, <2>4, <3>5 DEF Idle
  <2> QED BY <1>2, <2>1, <2>2, <2>3, <2>4
<1> DEFINE Covered(k) == \A y \in FirstRow(r)..p[k].end_row :
                           \E i \in Workers : i <= k /\ y \in p[i].start_row .. p[i].end_row
           S == {k \in Nat : k + 1 <= Needed(r) => Covered(k + 1)}
<1>6. 0 \in S
  <2>1. p[1].start_row = FirstRow(r) /\ 1 \in Workers
    <3>1. 1 \in Workers
      BY <1>2, <1>3
    <3>2. p[1] = NextPart(p, r, 1)
      BY <1>1, <3>1
    <3> QED BY <3>1, <3>2 DEF NextPart
  <2> QED BY <2>1
<1>7. ASSUME NEW k \in Nat, k \in S PROVE k + 1 \in S
  <2> SUFFICES ASSUME (k + 1) + 1 <= Needed(r) PROVE Covered((k + 1) + 1)
    OBVIOUS
  <2>1. Covered(k + 1) /\ k + 1 \in Nat /\ k + 1 >= 1 /\ k + 1 <= Needed(r)
    BY <1>2, <1>7
  <2>2. p[(k + 1) + 1].start_row = p[k + 1].end_row + 1
    BY <1>4, <2>1
  <2>3. (k + 1) + 1 \in Workers /\ p[k + 1].end_row \in Nat
    BY <1>3, <2>1
  <2>4. ASSUME NEW y \in FirstRow(r)..p[(k + 1) + 1].end_row
        PROVE  \E i \in Workers : i <= (k + 1) + 1 /\ y \in p[i].start_row .. p[i].end_row
    <3>1. CASE y <= p[k + 1].end_row
      <4>1. y \in FirstRow(r)..p[k + 1].end_row
        BY <1>2, <2>3, <3>1
      <4>2. PICK i \in Workers : i <= k + 1 /\ y \in p[i].start_row .. p[i].end_row
        BY <2>1, <4>1
      <4>3. i <= (k + 1) + 1
        BY <1>2, <4>2 DEF Workers
      <4> QED BY <4>2, <4>3
    <3>2. CASE y > p[k + 1].end_row
      <4>1. y \in p[(k + 1) + 1].start_row .. p[(k + 1) + 1].end_row
        BY <1>2, <2>2, <2>3, <3>2
      <4> QED BY <2>3, <4>1
    <3> QED BY <1>2, <2>3, <3>1, <3>2
  <2> QED BY <2>4
<1> HIDE DEF S
<1>8. Needed(r) - 1 \in S /\ (Needed(r) - 1) + 1 = Needed(r)
  BY <1>2, <1>6, <1>7, Induction
<1>9. Covered(Needed(r)) /\ p[Needed(r)].end_row = LastRow(r)
  BY <1>2, <1>3, <1>8 DEF S
<1>10. ASSUME NEW y \in FirstRow(r)..LastRow(r) PROVE \E i \in Workers : Mine(i, Todo(r)[i], y)
  <2>1. PICK i \in Workers : i <= Needed(r) /\ y \in p[i].start_row .. p[i].end_row
    BY <1>9
  <2>2. i \in Nat /\ i >= 1
    BY <1>2 DEF Workers
  <2>3. Todo(r)[i] = p[i] /\ ~Idle(i, Todo(r)[i])
    BY <1>2, <1>3, <1>5, <2>1, <2>2
  <2> QED BY <2>1, <2>3 DEF Mine
<1>11. \A i \in Workers : ~Idle(i, Todo(r)[i]) => i \in Nat /\ i >= 1 /\ i <= Needed(r)
  BY <1>2, <1>5 DEF Workers
<1> QED BY <1>3, <1>10, <1>11 DEF DivisionOK

-----------------------------------------------------------------------------
(* What the workers have written is what Table says. *)

CacheCells == (0..(2 * MaxLen - 2)) \X (0..(MaxLen - 1))
DataType ==
  /\ InputOK
  /\ DOMAIN dp_cache = CacheCells
  /\ row \in [1..MaxThreads -> Nat]

\* Row y of round r, by worker j.
Filled(j, r, y) ==
  /\ Mine(j, thread_todo_list[r][j], y)
  /\ Past(j, r) \/ (round[j] = r /\ pc[j] = "fill" /\ y < row[j])

FillOK(j) ==
  /\ pc[j] = "fill" => round[j] \in Rounds /\ Mine(j, thread_todo_list[round[j]][j], row[j])
  /\ pc[j] = "done" => round[j] \notin Rounds

Right(r, y) == dp_cache[<<r, y>>] = Table[<<y, r - y>>]

\* What is left of the table is never written and stays zero.
LeftZero == \A x \in CacheCells : x[2] > x[1] => dp_cache[x] = 0

TableInv ==
  /\ DataType
  /\ \A r \in Rounds : DivisionOK(thread_todo_list[r], r)
  /\ LeftZero
  /\ \A j \in Workers : FillOK(j)
  /\ \A j \in Workers, r \in Rounds, y \in 0..(N - 1) : Filled(j, r, y) => Right(r, y)
  /\ AnswerSequential

LEMMA TableInt ==
  ASSUME InputOK, NEW r \in -1..(N - 1), NEW c \in -1..(M - 1)
  PROVE  Table[<<r, c>>] \in Int
<1> DEFINE S == {k \in Nat : \A x \in -1..(N - 1), y \in -1..(M - 1) :
                               x + y + 2 <= k => Table[<<x, y>>] \in Int}
<1>1. N \in Nat /\ N >= 1 /\ M \in Nat /\ M >= 1
  BY Lengths
<1>2. ASSUME NEW k \in Nat,
             \A x \in -1..(N - 1), y \in -1..(M - 1) : x + y + 2 < k => Table[<<x, y>>] \in Int,
             NEW x \in -1..(N - 1), NEW y \in -1..(M - 1), x + y + 2 <= k
      PROVE  Table[<<x, y>>] \in Int
  <2>1. Table[<<x, y>>] = Longest(Table, x, y)
    BY TableEquation
  <2>2. CASE x < 0 \/ y < 0
    BY <2>1, <2>2 DEF Longest
  <2>3. CASE ~(x < 0 \/ y < 0)
    <3>1. /\ x - 1 \in -1..(N - 1) /\ y - 1 \in -1..(M - 1)
          /\ (x - 1) + y + 2 < k /\ x + (y - 1) + 2 < k /\ (x - 1) + (y - 1) + 2 < k
      BY <1>1, <1>2, <2>3
    <3>2. Table[<<x - 1, y>>] \in Int /\ Table[<<x, y - 1>>] \in Int /\ Table[<<x - 1, y - 1>>] \in Int
      BY <1>2, <3>1
    <3>3. Match(x, y) \in Int
      BY DEF Match
    <3> QED BY <2>1, <2>3, <3>2, <3>3 DEF Longest, Max2
  <2> QED BY <2>2, <2>3
<1>3. 0 \in S
  <2>1. \A x \in -1..(N - 1), y \in -1..(M - 1) : ~(x + y + 2 < 0)
    BY <1>1
  <2>2. \A x \in -1..(N - 1), y \in -1..(M - 1) : x + y + 2 <= 0 => Table[<<x, y>>] \in Int
    BY <1>2, <2>1
  <2> QED BY <2>2
<1>4. ASSUME NEW k \in Nat, k \in S PROVE k + 1 \in S
  <2>1. ASSUME NEW x \in -1..(N - 1), NEW y \in -1..(M - 1), x + y + 2 < k + 1
        PROVE  Table[<<x, y>>] \in Int
    <3>1. x + y + 2 <= k
      BY <1>1, <2>1
    <3> QED BY <1>4, <3>1
  <2>2. PICK n \in Nat : n = k + 1
    OBVIOUS
  <2>3. \A x \in -1..(N - 1), y \in -1..(M - 1) : x + y + 2 < n => Table[<<x, y>>] \in Int
    BY <2>1, <2>2
  <2>4. \A x \in -1..(N - 1), y \in -1..(M - 1) : x + y + 2 <= n => Table[<<x, y>>] \in Int
    BY <1>2, <2>3
  <2> QED BY <2>2, <2>4
<1> HIDE DEF S
<1>5. N + M \in S
  BY <1>1, <1>3, <1>4, Induction
<1>6. r + c + 2 <= N + M
  BY <1>1
<1> QED BY <1>5, <1>6 DEF S

LEMMA TableEdge ==
  ASSUME InputOK, NEW r \in -1..(N - 1), NEW c \in -1..(M - 1), r < 0 \/ c < 0
  PROVE  Table[<<r, c>>] = 0
BY TableEquation DEF Longest

\* A worker that fills a cell reads what Table has there: a cell of an earlier
\* round, or one outside the table.
LEMMA ReadsRight ==
  ASSUME TableInv, BarrierInv, NEW i \in Workers, pc[i] = "fill",
         NEW x \in Int, x < round[i], NEW z \in -1..(N - 1), x - z \in -1..(M - 1)
  PROVE  DP_CACHE(x, z) = Table[<<z, x - z>>]
<1>1. /\ InputOK /\ N \in 1..MaxLen /\ M \in 1..MaxLen /\ MaxLen \in Nat
      /\ Rounds = 0..(N + M - 2) /\ round[i] \in Rounds
      /\ \A j \in Workers : round[j] \in Nat
  BY Lengths, WorkerFacts DEF TableInv, DataType, FillOK, BarrierInv
<1>2. CASE x < 0 \/ z < 0
  <2>1. z < 0 \/ x - z < 0
    BY <1>1, <1>2
  <2> QED BY <1>1, <1>2, <2>1, TableEdge DEF DP_CACHE
<1>3. CASE x >= 0 /\ z >= 0 /\ x - z < 0
  <2>1. <<x, z>> \in CacheCells /\ z > x
    BY <1>1, <1>3 DEF CacheCells
  <2>2. dp_cache[<<x, z>>] = 0
    BY <2>1 DEF TableInv, LeftZero
  <2> QED BY <1>1, <1>3, <2>2, TableEdge DEF DP_CACHE
<1>4. CASE x >= 0 /\ z >= 0 /\ x - z >= 0
  <2>1. x \in Rounds /\ z \in FirstRow(x)..LastRow(x) /\ z \in 0..(N - 1)
    BY <1>1, <1>4 DEF FirstRow, LastRow
  <2>2. PICK j \in Workers : Mine(j, thread_todo_list[x][j], z)
    BY <2>1 DEF TableInv, DivisionOK
  <2>3. Past(j, round[i] - 1)
    BY <1>1, <1>4, BarrierGivesRounds DEF RoundsApart
  <2>4. Past(j, x)
    BY <1>1, <1>4, <2>3 DEF Past
  <2>5. Right(x, z)
    BY <2>1, <2>2, <2>4 DEF TableInv, Filled
  <2> QED BY <1>4, <2>5 DEF Right, DP_CACHE
<1> QED BY <1>1, <1>2, <1>3, <1>4

LEMMA CellRight ==
  ASSUME TableInv, BarrierInv, NEW i \in Workers, pc[i] = "fill",
         NEW y \in 0..(N - 1), round[i] - y \in 0..(M - 1)
  PROVE  Cell(round[i], y, round[i] - y) = Table[<<y, round[i] - y>>]
<1>1. PICK r \in Int : r = round[i]
  BY WorkerFacts DEF BarrierInv
<1>2. N \in Nat /\ M \in Nat /\ InputOK
  BY Lengths DEF TableInv, DataType
<1> DEFINE c == r - y
<1>3. /\ c \in 0..(M - 1) /\ c \in -1..(M - 1) /\ c - 1 \in -1..(M - 1)
      /\ y \in -1..(N - 1) /\ y - 1 \in -1..(N - 1)
      /\ (r - 1) - y = c - 1 /\ (r - 1) - (y - 1) = c /\ (r - 2) - (y - 1) = c - 1
      /\ r - 1 < r /\ r - 2 < r /\ r - 1 \in Int /\ r - 2 \in Int
  BY <1>1, <1>2
<1> HIDE DEF c
<1>4. DP_CACHE(r - 1, y) = Table[<<y, c - 1>>]
  BY <1>1, <1>3, ReadsRight
<1>5. DP_CACHE(r - 1, y - 1) = Table[<<y - 1, c>>]
  BY <1>1, <1>3, ReadsRight
<1>6. DP_CACHE(r - 2, y - 1) = Table[<<y - 1, c - 1>>]
  BY <1>1, <1>3, ReadsRight
<1>7. Table[<<y, c>>] = Longest(Table, y, c)
  BY <1>2, <1>3, TableEquation
<1>8. Table[<<y, c - 1>>] \in Int /\ Table[<<y - 1, c>>] \in Int /\ Table[<<y - 1, c - 1>>] \in Int
  BY <1>2, <1>3, TableInt
<1>9. Cell(r, y, c) = Table[<<y, c>>]
  BY <1>3, <1>4, <1>5, <1>6, <1>7, <1>8 DEF Cell, Longest, Max2
<1> QED BY <1>1, <1>9 DEF c

-----------------------------------------------------------------------------
LEMMA SameInputs ==
  ASSUME UNCHANGED inputs
  PROVE  /\ Workers' = Workers /\ Rounds' = Rounds /\ N' = N /\ M' = M /\ T' = T /\ Table' = Table
         /\ InputOK' <=> InputOK
         /\ (\A r \in Rounds : DivisionOK(thread_todo_list[r], r))'
              <=> \A r \in Rounds : DivisionOK(thread_todo_list[r], r)
<1>1. A' = A /\ B' = B /\ T' = T /\ thread_todo_list' = thread_todo_list
  BY DEF inputs
<1>2. Workers' = Workers /\ Rounds' = Rounds /\ N' = N /\ M' = M
  BY <1>1 DEF Workers, Rounds, N, M
<1>3. Table' = Table
  BY <1>1 DEF Table, N, M, Match
<1>4. InputOK' <=> InputOK
  BY <1>1 DEF InputOK
<1>5. (\A r \in Rounds : DivisionOK(thread_todo_list[r], r))'
        <=> \A r \in Rounds : DivisionOK(thread_todo_list[r], r)
  BY <1>1, <1>2 DEF DivisionOK, Mine, Idle, FirstRow, LastRow
<1> QED BY <1>1, <1>2, <1>3, <1>4, <1>5

\* A step of one worker that writes no cell.
LEMMA OneWorker ==
  ASSUME TableInv, BarrierInv, NEW i \in Workers, UNCHANGED <<inputs, dp_cache, result>>,
         main' = T + 1 => main = T + 1,
         \A j \in Workers : j # i => UNCHANGED <<pc[j], round[j], row[j]>>,
         row' \in [1..MaxThreads -> Nat],
         FillOK(i)',
         \A r \in Rounds, y \in 0..(N - 1) : Filled(i, r, y)' => Filled(i, r, y)
  PROVE  TableInv'
<1>1. /\ Workers' = Workers /\ Rounds' = Rounds /\ N' = N /\ M' = M /\ T' = T /\ Table' = Table
      /\ InputOK' <=> InputOK
      /\ (\A r \in Rounds : DivisionOK(thread_todo_list[r], r))'
           <=> \A r \in Rounds : DivisionOK(thread_todo_list[r], r)
      /\ thread_todo_list' = thread_todo_list
  BY SameInputs DEF inputs
<1>2. DataType'
  BY <1>1 DEF TableInv, DataType
<1>3. LeftZero'
  BY DEF TableInv, LeftZero
<1>4. ASSUME NEW j \in Workers PROVE FillOK(j)'
  BY <1>1 DEF TableInv, FillOK, Mine, Idle
<1>5. ASSUME NEW j \in Workers, NEW r \in Rounds, NEW y \in 0..(N - 1), Filled(j, r, y)'
      PROVE  Right(r, y)'
  <2>1. Filled(j, r, y)
    BY <1>1, <1>5 DEF Filled, Past, Mine, Idle
  <2> QED BY <1>1, <2>1 DEF TableInv, Right
<1>6. AnswerSequential'
  BY <1>1 DEF TableInv, AnswerSequential
<1> QED BY <1>1, <1>2, <1>3, <1>4, <1>5, <1>6 DEF TableInv

LEMMA ReadFills ==
  ASSUME TableInv, BarrierInv, NEW i \in Workers, Read(i)
  PROVE  TableInv'
<1> DEFINE r == round[i]
           todo == thread_todo_list[r][i]
<1>1. /\ pc \in [1..MaxThreads -> Places] /\ i \in 1..MaxThreads /\ round[i] \in Nat
      /\ row \in [1..MaxThreads -> Nat]
  BY WorkerFacts DEF BarrierInv, BarrierType, TableInv, DataType
<1>2. /\ pc[i] = "read" /\ UNCHANGED <<inputs, main, round, dp_cache, result>>
      /\ UNCHANGED <<thread_todo_list, Rounds, T>>
  BY SameInputs DEF Read, inputs
<1>3. CASE r \notin Rounds
  <2>1. pc' = [pc EXCEPT ![i] = "done"] /\ row' = row
    BY <1>3 DEF Read, Goto
  <2>2. pc'[i] = "done" /\ \A j \in Workers : j # i => UNCHANGED <<pc[j], round[j], row[j]>>
    BY <1>1, <1>2, <2>1
  <2>3. FillOK(i)'
    BY <1>2, <1>3, <2>2 DEF FillOK
  <2>4. \A s \in Rounds, y \in 0..(N - 1) : Filled(i, s, y)' => Filled(i, s, y)
    BY <1>2, <1>3, <2>2 DEF Filled, Past, Mine, Idle
  <2> QED BY <1>1, <1>2, <2>1, <2>2, <2>3, <2>4, OneWorker
<1>4. CASE r \in Rounds /\ Idle(i, todo)
  <2>1. pc' = [pc EXCEPT ![i] = "stop"] /\ row' = row
    BY <1>4 DEF Read, Goto
  <2>2. pc'[i] = "stop" /\ \A j \in Workers : j # i => UNCHANGED <<pc[j], round[j], row[j]>>
    BY <1>1, <1>2, <2>1
  <2>3. FillOK(i)'
    BY <2>2 DEF FillOK
  <2>4. \A s \in Rounds, y \in 0..(N - 1) : Filled(i, s, y)' => Filled(i, s, y)
    BY <1>2, <1>4, <2>2 DEF Filled, Past, Mine, Idle
  <2> QED BY <1>1, <1>2, <2>1, <2>2, <2>3, <2>4, OneWorker
<1>5. CASE r \in Rounds /\ ~Idle(i, todo)
  <2>1. pc' = [pc EXCEPT ![i] = "fill"] /\ row' = [row EXCEPT ![i] = todo.start_row]
    BY <1>5 DEF Read, Goto
  <2>2. /\ todo.start_row \in Nat /\ todo.end_row \in Nat /\ todo.start_row <= todo.end_row
    BY <1>5 DEF TableInv, DivisionOK
  <2>3. /\ pc'[i] = "fill" /\ row'[i] = todo.start_row /\ row' \in [1..MaxThreads -> Nat]
        /\ \A j \in Workers : j # i => UNCHANGED <<pc[j], round[j], row[j]>>
    BY <1>1, <1>2, <2>1, <2>2
  <2>4. Mine(i, todo, todo.start_row)
    BY <1>5, <2>2 DEF Mine
  <2>5. FillOK(i)'
    BY <1>2, <1>5, <2>3, <2>4 DEF FillOK, Mine, Idle
  <2>6. ASSUME NEW s \in Rounds, NEW y \in 0..(N - 1), Filled(i, s, y)' PROVE Filled(i, s, y)
    <3>1. Mine(i, thread_todo_list[s][i], y)
      BY <1>2, <2>6 DEF Filled, Mine, Idle
    <3>2. s = r => ~(y < row'[i])
      BY <2>2, <2>3, <3>1 DEF Mine
    <3>3. round[i] > s
      BY <1>2, <2>3, <2>6, <3>2 DEF Filled, Past
    <3> QED BY <3>1, <3>3 DEF Filled, Past
  <2> QED BY <1>2, <2>3, <2>5, <2>6, OneWorker
<1> QED BY <1>3, <1>4, <1>5

\* Between its last cell of a round and the next round a worker fills nothing.
LEMMA BetweenRounds ==
  ASSUME TableInv, BarrierInv, NEW i \in Workers,
         Stop(i) \/ Arrive(i) \/ Gather(i) \/ Reset(i) \/ Release(i) \/ Wait(i)
  PROVE  TableInv'
<1> DEFINE Resting == {"stop", "arrive", "gather", "reset", "release", "wait"}
<1>1. /\ pc \in [1..MaxThreads -> Places] /\ i \in 1..MaxThreads
      /\ round \in [1..MaxThreads -> Nat] /\ row \in [1..MaxThreads -> Nat]
  BY WorkerFacts DEF BarrierInv, BarrierType, TableInv, DataType
<1>2. /\ UNCHANGED <<inputs, main, row, dp_cache, result>>
      /\ UNCHANGED <<thread_todo_list, T>> /\ pc[i] \in Resting
  BY DEF Stop, Arrive, Gather, Reset, Release, Wait, inputs
<1>3. \/ UNCHANGED round /\ \E to \in Resting : pc' = [pc EXCEPT ![i] = to]
      \/ round' = [round EXCEPT ![i] = @ + 1] /\ pc' = [pc EXCEPT ![i] = "read"]
  BY DEF Stop, Arrive, Gather, Reset, Release, Wait, Goto
<1>4. \/ round'[i] = round[i] /\ pc'[i] \in Resting
      \/ round'[i] = round[i] + 1 /\ pc'[i] = "read"
  BY <1>1, <1>3
<1>5. \A j \in Workers : j # i => UNCHANGED <<pc[j], round[j], row[j]>>
  <2>1. \A j \in 1..MaxThreads : j # i => pc'[j] = pc[j]
    BY <1>1, <1>3
  <2>2. \A j \in 1..MaxThreads : j # i => round'[j] = round[j]
    BY <1>1, <1>3
  <2>3. Workers \subseteq 1..MaxThreads
    BY WorkerFacts DEF BarrierInv
  <2> QED BY <1>2, <2>1, <2>2, <2>3
<1>6. FillOK(i)'
  BY <1>4 DEF FillOK
<1>7. ASSUME NEW s \in Rounds, NEW y \in 0..(N - 1), Filled(i, s, y)' PROVE Filled(i, s, y)
  <2>1. Mine(i, thread_todo_list[s][i], y)
    BY <1>2, <1>7 DEF Filled, Mine, Idle
  <2>2. round[i] \in Int /\ s \in Int
    BY <1>1, Lengths DEF TableInv, DataType
  <2>3. Past(i, s)
    BY <1>2, <1>4, <1>7, <2>2 DEF Filled, Past
  <2> QED BY <2>1, <2>3 DEF Filled
<1> QED BY <1>1, <1>2, <1>5, <1>6, <1>7, OneWorker

\* The step that writes a cell.
LEMMA FillFills ==
  ASSUME TableInv, BarrierInv, NEW i \in Workers, Fill(i)
  PROVE  TableInv'
<1>1. PICK r \in Rounds, y \in Nat, todo \in {thread_todo_list[round[i]][i]} :
        r = round[i] /\ y = row[i] /\ todo = thread_todo_list[r][i]
  <2>1. pc[i] = "fill" /\ row[i] \in Nat
    BY WorkerFacts DEF Fill, BarrierInv, TableInv, DataType
  <2> QED BY <2>1 DEF TableInv, FillOK
<1>2. /\ pc \in [1..MaxThreads -> Places] /\ i \in 1..MaxThreads /\ Workers \subseteq 1..MaxThreads
      /\ row \in [1..MaxThreads -> Nat] /\ pc[i] = "fill"
      /\ UNCHANGED <<inputs, main, round, result, thread_todo_list>>
      /\ row' = [row EXCEPT ![i] = @ + 1]
      /\ pc' = [pc EXCEPT ![i] = IF y = todo.end_row THEN "stop" ELSE "fill"]
      /\ dp_cache' = [dp_cache EXCEPT ![<<r, y>>] = Cell(r, y, todo.start_col - (y - todo.start_row))]
  BY <1>1, WorkerFacts DEF BarrierInv, BarrierType, TableInv, DataType, Fill, Goto, inputs
<1>3. /\ Workers' = Workers /\ Rounds' = Rounds /\ N' = N /\ M' = M /\ T' = T /\ Table' = Table
      /\ InputOK' <=> InputOK
      /\ (\A s \in Rounds : DivisionOK(thread_todo_list[s], s))'
           <=> \A s \in Rounds : DivisionOK(thread_todo_list[s], s)
  BY <1>2, SameInputs
<1>4. /\ Mine(i, todo, y) /\ todo.start_row \in Nat /\ todo.end_row \in Nat
      /\ FirstRow(r) <= todo.start_row /\ todo.end_row <= LastRow(r)
      /\ todo.start_col = r - todo.start_row
  BY <1>1, <1>2 DEF TableInv, FillOK, DivisionOK, Mine
<1>5. /\ r \in Nat /\ r <= N + M - 2 /\ y <= todo.end_row /\ y >= todo.start_row
      /\ y \in 0..(N - 1) /\ r - y \in 0..(M - 1) /\ <<r, y>> \in CacheCells
      /\ todo.start_col - (y - todo.start_row) = r - y
  <2>1. /\ N \in 1..MaxLen /\ M \in 1..MaxLen /\ MaxLen \in Nat /\ Rounds = 0..(N + M - 2)
        /\ FirstRow(r) \in Nat /\ LastRow(r) \in Nat
        /\ LastRow(r) <= N - 1 /\ LastRow(r) <= r /\ r - FirstRow(r) <= M - 1
    BY Lengths, Diagonal DEF TableInv, DataType
  <2>2. y \in todo.start_row .. todo.end_row
    BY <1>4 DEF Mine
  <2>3. PICK a \in Nat, b \in Nat : a = todo.start_row /\ b = todo.end_row
    BY <1>4
  <2>4. y >= a /\ y <= b /\ FirstRow(r) <= a /\ b <= LastRow(r) /\ todo.start_col = r - a
    BY <1>4, <2>2, <2>3
  <2>5. r \in Nat /\ r <= N + M - 2
    BY <2>1
  <2>6. y \in 0..(N - 1) /\ r - y \in 0..(M - 1)
    BY <2>1, <2>4, <2>5
  <2>7. r \in 0..(2 * MaxLen - 2) /\ y \in 0..(MaxLen - 1)
    BY <2>1, <2>5, <2>6
  <2>8. (r - a) - (y - a) = r - y
    BY <2>5
  <2> QED BY <2>3, <2>4, <2>5, <2>6, <2>7, <2>8 DEF CacheCells
<1>6. Cell(r, y, r - y) = Table[<<y, r - y>>]
  BY <1>1, <1>2, <1>5, CellRight
<1>7. /\ DOMAIN dp_cache' = CacheCells /\ dp_cache'[<<r, y>>] = Table[<<y, r - y>>]
      /\ \A x \in CacheCells : x # <<r, y>> => dp_cache'[x] = dp_cache[x]
  BY <1>2, <1>5, <1>6 DEF TableInv, DataType
<1>8. /\ row' \in [1..MaxThreads -> Nat] /\ row'[i] = y + 1 /\ round'[i] = r
      /\ pc'[i] = (IF y = todo.end_row THEN "stop" ELSE "fill")
      /\ \A j \in Workers : j # i => UNCHANGED <<pc[j], round[j], row[j]>>
  BY <1>1, <1>2
<1>9. DataType'
  BY <1>3, <1>7, <1>8 DEF TableInv, DataType
<1>10. LeftZero'
  <2>1. ASSUME NEW x \in CacheCells, x[2] > x[1] PROVE dp_cache'[x] = 0
    <3>1. x # <<r, y>>
      BY <1>5, <2>1
    <3> QED BY <1>7, <2>1, <3>1 DEF TableInv, LeftZero
  <2> QED BY <2>1 DEF LeftZero
<1>11. ASSUME NEW j \in Workers PROVE FillOK(j)'
  <2>1. CASE j # i
    BY <1>2, <1>3, <1>8, <2>1 DEF TableInv, FillOK, Mine, Idle
  <2>2. CASE j = i
    <3>1. pc'[i] = "fill" => Mine(i, todo, y + 1)
      BY <1>4, <1>5, <1>8 DEF Mine
    <3> QED BY <1>1, <1>2, <1>3, <1>8, <2>2, <3>1 DEF FillOK, Mine, Idle
  <2> QED BY <2>1, <2>2
<1>12. ASSUME NEW j \in Workers, NEW s \in Rounds, NEW z \in 0..(N - 1), Filled(j, s, z)'
       PROVE  Right(s, z)'
  <2>1. <<s, z>> \in CacheCells
    <3>1. /\ N \in 1..MaxLen /\ M \in 1..MaxLen /\ MaxLen \in Nat /\ Rounds = 0..(N + M - 2)
      BY Lengths DEF TableInv, DataType
    <3> QED BY <3>1 DEF CacheCells
  <2>2. CASE s = r /\ z = y
    BY <1>3, <1>7, <2>2 DEF Right
  <2>3. CASE ~(s = r /\ z = y)
    <3>1. Mine(j, thread_todo_list[s][j], z)
      BY <1>2, <1>12 DEF Filled, Mine, Idle
    <3>2. Past(j, s) \/ (round[j] = s /\ pc[j] = "fill" /\ z < row[j])
      <4>1. CASE j # i
        BY <1>2, <1>8, <1>12, <4>1 DEF Filled, Past
      <4>2. CASE j = i /\ s # r
        BY <1>1, <1>8, <1>12, <4>2 DEF Filled, Past
      <4>3. CASE j = i /\ s = r
        <5>1. z \in todo.start_row .. todo.end_row /\ z # y
          BY <1>1, <2>3, <3>1, <4>3 DEF Mine
        <5>2. ~(r > r)
          BY <1>5
        <5>3. pc'[i] = "stop" \/ z < y + 1
          BY <1>8, <1>12, <4>3, <5>2 DEF Filled, Past
        <5>4. z < y
          BY <1>4, <1>5, <1>8, <5>1, <5>3
        <5> QED BY <1>1, <1>2, <4>3, <5>4
      <4> QED BY <4>1, <4>2, <4>3
    <3>3. Right(s, z)
      BY <3>1, <3>2 DEF TableInv, Filled
    <3>4. <<s, z>> # <<r, y>>
      BY <2>3
    <3> QED BY <1>3, <1>7, <2>1, <3>3, <3>4 DEF Right
  <2> QED BY <2>2, <2>3
<1>13. AnswerSequential'
  BY <1>2, <1>3 DEF TableInv, AnswerSequential
<1> QED BY <1>3, <1>9, <1>10, <1>11, <1>12, <1>13 DEF TableInv

LEMMA CreateFills == TableInv /\ BarrierInv /\ Create => TableInv'
<1> SUFFICES ASSUME TableInv, BarrierInv, Create PROVE TableInv'
  OBVIOUS
<1>0. PICK i \in Workers : i = main + 1
  BY WorkerFacts DEF BarrierInv, BarrierType, Create, Workers
<1>1. /\ i \in Workers /\ pc[i] = "off" /\ main \in Nat /\ main < T /\ T \in Nat
      /\ pc \in [1..MaxThreads -> Places] /\ Workers \subseteq 1..MaxThreads
  BY <1>0, WorkerFacts DEF BarrierInv, BarrierType, WorkerInv, Create, Workers
<1>2. /\ UNCHANGED <<inputs, round, row, dp_cache, result, thread_todo_list, T>> /\ main' = i
      /\ pc' = [pc EXCEPT ![i] = "read"]
  BY <1>0 DEF Create, Goto, inputs
<1>3. main' # T + 1
  BY <1>0, <1>1, <1>2
<1>4. pc'[i] = "read" /\ \A j \in Workers : j # i => UNCHANGED <<pc[j], round[j], row[j]>>
  BY <1>1, <1>2
<1>5. FillOK(i)' /\ row' \in [1..MaxThreads -> Nat]
  <2>1. FillOK(i)'
    BY <1>4 DEF FillOK
  <2>2. row' = row
    BY <1>2
  <2> QED BY <2>1, <2>2 DEF TableInv, DataType
<1>6. \A s \in Rounds, y \in 0..(N - 1) : Filled(i, s, y)' => Filled(i, s, y)
  <2>1. round'[i] = round[i] /\ thread_todo_list' = thread_todo_list
    BY <1>2
  <2> QED BY <1>4, <2>1 DEF Filled, Past, Mine, Idle
<1>7. UNCHANGED <<inputs, dp_cache, result>> /\ (main' = T + 1 => main = T + 1)
  BY <1>2, <1>3
<1> QED BY <1>1, <1>4, <1>5, <1>6, <1>7, OneWorker

LEMMA JoinFills == TableInv /\ BarrierInv /\ Join => TableInv'
<1> SUFFICES ASSUME TableInv, BarrierInv, Join PROVE TableInv'
  OBVIOUS
<1>1. /\ UNCHANGED <<inputs, pc, round, row, dp_cache, thread_todo_list>>
      /\ result' = dp_cache[<<N + M - 2, N - 1>>]
      /\ \A j \in Workers : pc[j] = "done"
  BY DEF Join, inputs
<1>2. /\ Workers' = Workers /\ Rounds' = Rounds /\ N' = N /\ M' = M /\ T' = T /\ Table' = Table
      /\ InputOK' <=> InputOK
      /\ (\A s \in Rounds : DivisionOK(thread_todo_list[s], s))'
           <=> \A s \in Rounds : DivisionOK(thread_todo_list[s], s)
  BY <1>1, SameInputs
<1>3. N \in 1..MaxLen /\ M \in 1..MaxLen /\ MaxLen \in Nat /\ Rounds = 0..(N + M - 2)
  BY Lengths DEF TableInv, DataType
<1> DEFINE r == N + M - 2
<1>4. /\ r \in Rounds /\ N - 1 \in 0..(N - 1) /\ r - (N - 1) = M - 1
      /\ N - 1 \in FirstRow(r)..LastRow(r)
  BY <1>3 DEF FirstRow, LastRow
<1>5. PICK j \in Workers : Mine(j, thread_todo_list[r][j], N - 1)
  BY <1>4 DEF TableInv, DivisionOK
<1>6. Past(j, r)
  <2>1. round[j] \notin Rounds /\ round[j] \in Nat
    BY <1>1, WorkerFacts DEF TableInv, FillOK, BarrierInv
  <2> QED BY <1>3, <2>1 DEF Past
<1>7. Right(r, N - 1)
  BY <1>4, <1>5, <1>6 DEF TableInv, Filled
<1>8. result' = Table[<<N - 1, M - 1>>]
  BY <1>1, <1>4, <1>7 DEF Right
<1> HIDE DEF r
<1>9. AnswerSequential'
  BY <1>2, <1>8 DEF AnswerSequential
<1>10. DataType' /\ LeftZero' /\ \A k \in Workers : FillOK(k)'
  BY <1>1, <1>2 DEF TableInv, DataType, LeftZero, FillOK, Mine, Idle
<1>11. ASSUME NEW k \in Workers, NEW s \in Rounds, NEW z \in 0..(N - 1), Filled(k, s, z)'
       PROVE  Right(s, z)'
  BY <1>1, <1>2, <1>11 DEF TableInv, Filled, Past, Mine, Idle, Right
<1> QED BY <1>2, <1>9, <1>10, <1>11 DEF TableInv

LEMMA InitTable == Init => TableInv
<1> SUFFICES ASSUME Init PROVE TableInv
  OBVIOUS
<1>1. DataType
  BY DEF Init, DataType, InputOK, CacheCells
<1>2. /\ \A j \in Workers : pc[j] = "off" /\ round[j] = 0
      /\ \A r \in Rounds : thread_todo_list[r] = Todo(r)
      /\ main = 0 /\ T \in Nat
  BY <1>1, Lengths, InitBarrier, WorkerFacts DEF Init, BarrierInv, DataType
<1>3. \A r \in Rounds : DivisionOK(thread_todo_list[r], r)
  BY <1>1, <1>2, Division DEF DataType
<1>4. LeftZero
  BY DEF Init, LeftZero, CacheCells
<1>5. \A j \in Workers : FillOK(j)
  BY <1>2 DEF FillOK
<1>6. \A j \in Workers, r \in Rounds, y \in 0..(N - 1) : ~Filled(j, r, y)
  BY <1>1, <1>2, Lengths DEF Filled, Past, DataType
<1>7. AnswerSequential
  BY <1>2 DEF AnswerSequential
<1> QED BY <1>1, <1>3, <1>4, <1>5, <1>6, <1>7 DEF TableInv

LEMMA NextTable == TableInv /\ BarrierInv /\ [Next]_vars => TableInv'
<1> SUFFICES ASSUME TableInv, BarrierInv, [Next]_vars PROVE TableInv'
  OBVIOUS
<1>1. CASE Create
  BY <1>1, CreateFills
<1>2. CASE Join
  BY <1>2, JoinFills
<1>3. ASSUME NEW i \in Workers, Worker(i) PROVE TableInv'
  BY <1>3, ReadFills, FillFills, BetweenRounds DEF Worker
<1>4. CASE UNCHANGED vars
  <2>1. PICK i \in Workers : TRUE
    BY WorkerFacts DEF BarrierInv
  <2>2. UNCHANGED <<inputs, dp_cache, result, main, T, pc, round, row, thread_todo_list>>
    BY <1>4 DEF vars, inputs
  <2>3. FillOK(i)' /\ row' \in [1..MaxThreads -> Nat]
    BY <2>2, SameInputs DEF TableInv, DataType, FillOK, Mine, Idle
  <2>4. \A r \in Rounds, y \in 0..(N - 1) : Filled(i, r, y)' => Filled(i, r, y)
    BY <2>2 DEF Filled, Past, Mine, Idle
  <2> QED BY <2>2, <2>3, <2>4, OneWorker
<1> QED BY <1>1, <1>2, <1>3, <1>4 DEF Next

(* The printed answer is that of the sequential program, for all strings  *)
(* and all numbers of workers, in whatever order they run: every cell a    *)
(* worker reads is complete, and main's division leaves no cell out.       *)
THEOREM AnswersAgree == Spec => []AnswerSequential
<1>1. Init => TableInv /\ BarrierInv
  BY InitTable, InitBarrier
<1>2. TableInv /\ BarrierInv /\ [Next]_vars => (TableInv /\ BarrierInv)'
  BY NextTable, NextBarrier
<1>3. TableInv => AnswerSequential
  BY DEF TableInv
<1> QED BY <1>1, <1>2, <1>3, PTL DEF Spec

-----------------------------------------------------------------------------
(* Nobody waits for ever: somebody can always take a step until main has     *)
(* printed the answer, and no sequence of steps is endless.                  *)

\* The waits of the barrier are the only ones in a worker.
CanStep(i) ==
  \/ pc[i] \in {"read", "fill", "stop", "arrive", "reset", "release"}
  \/ pc[i] = "gather" /\ finished >= T
  \/ pc[i] = "wait" /\ can_run[i]

NobodyStuck ==
  \/ main < T \/ main = T + 1
  \/ \A i \in Workers : pc[i] = "done"
  \/ \E i \in Workers : CanStep(i)

\* A worker is created once, and is done after the last round and not before.
PlaceInv(j) ==
  /\ pc[j] = "off" => j > main
  /\ pc[j] \notin {"off", "read", "done"} => round[j] \in Rounds
  /\ pc[j] = "done" => round[j] \notin Rounds
  /\ round[j] <= N + M - 1
PlacesInv == InputOK /\ \A j \in Workers : PlaceInv(j)

LEMMA PlacesFacts ==
  ASSUME InputOK, BarrierInv
  PROVE  /\ N + M - 1 \in Nat /\ Rounds = 0..(N + M - 2)
         /\ \A j \in Workers : round[j] \in Nat
         /\ \A j \in Workers : round[j] \in Rounds <=> round[j] <= N + M - 2
BY Lengths, WorkerFacts DEF BarrierInv

LEMMA InitPlaces == Init => PlacesInv
<1> SUFFICES ASSUME Init PROVE PlacesInv
  OBVIOUS
<1>1. InputOK /\ BarrierInv
  BY InitBarrier DEF Init, InputOK
<1>2. \A j \in Workers : pc[j] = "off" /\ round[j] = 0 /\ j > main
  BY <1>1, WorkerFacts DEF Init, BarrierInv
<1> QED BY <1>1, <1>2, Lengths DEF PlacesInv, PlaceInv

LEMMA WorkerPlaces ==
  ASSUME PlacesInv, BarrierInv, NEW i \in Workers, Worker(i)
  PROVE  PlaceInv(i)' /\ UNCHANGED <<A, B, T, main>>
         /\ \A j \in Workers : j # i => pc'[j] = pc[j] /\ round'[j] = round[j]
<1>1. /\ pc \in [1..MaxThreads -> Places] /\ round \in [1..MaxThreads -> Nat] /\ i \in 1..MaxThreads
      /\ Workers \subseteq 1..MaxThreads /\ InputOK /\ PlaceInv(i)
  BY WorkerFacts DEF BarrierInv, BarrierType, PlacesInv
<1>2. /\ N + M - 1 \in Nat /\ Rounds = 0..(N + M - 2) /\ round[i] \in Nat
  BY <1>1, PlacesFacts
<1>3. CASE Read(i)
  <2>1. /\ pc[i] = "read" /\ round' = round /\ UNCHANGED <<A, B, T, main>>
        /\ \E p \in {"done", "stop", "fill"} :
             pc' = [pc EXCEPT ![i] = p] /\ (p = "done" <=> round[i] \notin Rounds)
    BY <1>3 DEF Read, Goto, inputs
  <2>2. Rounds' = Rounds /\ N' = N /\ M' = M
    BY <2>1 DEF Rounds, N, M
  <2> QED BY <1>1, <1>2, <2>1, <2>2 DEF PlaceInv
<1>4. CASE Fill(i) \/ Stop(i) \/ Arrive(i) \/ Gather(i) \/ Reset(i) \/ Release(i)
  <2>1. /\ round' = round /\ UNCHANGED <<A, B, T, main>>
        /\ pc[i] \in {"fill", "stop", "arrive", "gather", "reset", "release"}
        /\ \E p \in {"fill", "stop", "arrive", "gather", "reset", "release", "wait"} :
             pc' = [pc EXCEPT ![i] = p]
    <3>1. CASE Fill(i)
      BY <3>1 DEF Fill, Goto, inputs
    <3>2. CASE Stop(i) \/ Arrive(i) \/ Gather(i)
      BY <3>2 DEF Stop, Arrive, Gather, Goto, inputs
    <3>3. CASE Reset(i) \/ Release(i)
      BY <3>3 DEF Reset, Release, Goto, inputs
    <3> QED BY <1>4, <3>1, <3>2, <3>3
  <2>2. Rounds' = Rounds /\ N' = N /\ M' = M
    BY <2>1 DEF Rounds, N, M
  <2> QED BY <1>1, <1>2, <2>1, <2>2 DEF PlaceInv
<1>5. CASE Wait(i)
  <2>1. /\ pc[i] = "wait" /\ pc' = [pc EXCEPT ![i] = "read"] /\ UNCHANGED <<A, B, T, main>>
        /\ round' = [round EXCEPT ![i] = @ + 1]
    BY <1>5 DEF Wait, Goto, inputs
  <2>2. Rounds' = Rounds /\ N' = N /\ M' = M
    BY <2>1 DEF Rounds, N, M
  <2>3. round[i] \in Rounds
    BY <1>1, <2>1 DEF PlaceInv
  <2>4. round'[i] = round[i] + 1 /\ round[i] + 1 <= N + M - 1 /\ pc'[i] = "read"
    <3>1. N \in Nat /\ M \in Nat
      BY <1>1, Lengths
    <3>2. round[i] + 1 <= N + M - 1
      BY <1>2, <2>3, <3>1
    <3> QED BY <1>1, <2>1, <3>2
  <2> QED BY <1>1, <2>1, <2>2, <2>4 DEF PlaceInv
<1> QED BY <1>3, <1>4, <1>5 DEF Worker

LEMMA NextPlaces == PlacesInv /\ BarrierInv /\ [Next]_vars => PlacesInv'
<1> SUFFICES ASSUME PlacesInv, BarrierInv, [Next]_vars PROVE PlacesInv'
  OBVIOUS
<1>1. /\ pc \in [1..MaxThreads -> Places] /\ Workers \subseteq 1..MaxThreads
      /\ main \in Nat /\ T \in Nat /\ \A j \in Workers : j \in Nat
  BY WorkerFacts DEF BarrierInv, BarrierType
<1>2. ASSUME UNCHANGED <<A, B, T>> PROVE InputOK' /\ Rounds' = Rounds /\ N' = N /\ M' = M /\ Workers' = Workers
  BY <1>2 DEF InputOK, PlacesInv, Rounds, N, M, Workers
<1>3. CASE Create
  <2>1. pc' = [pc EXCEPT ![main + 1] = "read"] /\ main' = main + 1 /\ UNCHANGED <<A, B, T, round>>
        /\ main < T
    BY <1>3 DEF Create, Goto, inputs
  <2>2. main + 1 \in Workers /\ pc[main + 1] = "off"
    BY <1>1, <2>1 DEF BarrierInv, WorkerInv, Workers
  <2>3. ASSUME NEW j \in Workers PROVE PlaceInv(j)'
    <3>1. CASE j = main + 1
      BY <1>1, <1>2, <2>1, <2>2, <3>1 DEF PlaceInv, PlacesInv
    <3>2. CASE j # main + 1
      BY <1>1, <1>2, <2>1, <2>2, <3>2 DEF PlaceInv, PlacesInv
    <3> QED BY <3>1, <3>2
  <2> QED BY <1>2, <2>1, <2>3 DEF PlacesInv
<1>4. CASE Join
  <2>1. main = T /\ main' = T + 1 /\ UNCHANGED <<A, B, T, pc, round>> /\ \A i \in Workers : pc[i] = "done"
    BY <1>4 DEF Join, inputs
  <2> QED BY <1>2, <2>1 DEF PlaceInv, PlacesInv
<1>5. ASSUME NEW i \in Workers, Worker(i) PROVE PlacesInv'
  <2>1. /\ PlaceInv(i)' /\ UNCHANGED <<A, B, T, main>>
        /\ \A j \in Workers : j # i => pc'[j] = pc[j] /\ round'[j] = round[j]
    BY <1>5, WorkerPlaces
  <2>2. ASSUME NEW j \in Workers, j # i PROVE PlaceInv(j)'
    BY <1>2, <2>1, <2>2 DEF PlaceInv, PlacesInv
  <2> QED BY <1>2, <2>1, <2>2 DEF PlacesInv
<1>6. CASE UNCHANGED vars
  BY <1>2, <1>6 DEF vars, PlacesInv, PlaceInv
<1> QED BY <1>3, <1>4, <1>5, <1>6 DEF Next

LEMMA InvGivesStep == PlacesInv /\ BarrierInv => NobodyStuck
<1> SUFFICES ASSUME PlacesInv, BarrierInv, main = T, \A j \in Workers : ~CanStep(j)
             PROVE  \A i \in Workers : pc[i] = "done"
  BY WorkerFacts DEF NobodyStuck, BarrierInv, BarrierType
<1>1. /\ InputOK /\ 1 \in Workers
      /\ \A j \in Workers : j <= main /\ j \in Nat /\ round[j] \in Nat /\ pc[j] \in Places
      /\ main \in Nat /\ T \in Nat
  BY WorkerFacts DEF BarrierInv, PlacesInv
<1>2. ASSUME NEW j \in Workers PROVE pc[j] \in {"gather", "wait", "done"}
  BY <1>1, <1>2 DEF PlacesInv, PlaceInv, CanStep, Places
<1>3. ASSUME NEW j \in Workers PROVE round[j] = Coming
  <2>1. ~Standing(j)
    BY <1>1, <1>2, <1>3 DEF Standing, CanStep
  <2> QED BY <1>3, <2>1 DEF BarrierInv, WorkerInv
<1>4. CASE \E j \in Workers : pc[j] = "done"
  <2>1. Coming \notin Rounds
    BY <1>3, <1>4 DEF PlacesInv, PlaceInv
  <2> QED BY <1>2, <1>3, <2>1 DEF PlacesInv, PlaceInv
<1>5. CASE \A j \in Workers : pc[j] # "done"
  <2>1. \A j \in Workers : Arrived(j)
    BY <1>2, <1>3, <1>5 DEF Arrived
  <2>2. pc[1] = "gather"
    BY <1>1, <1>2, <1>3, <1>5 DEF Coming
  <2>3. finished = T
    <3>1. {j \in Workers : Arrived(j)} = Workers
      BY <2>1
    <3> QED BY <3>1, ArrivedFinite DEF BarrierInv, CounterInv
  <2> QED BY <1>1, <2>2, <2>3 DEF CanStep
<1> QED BY <1>4, <1>5

\* For any strings and any number of workers: the barrier does not deadlock.
\* Until all workers have returned and main has joined them, main can create a
\* worker or some worker finds its wait loop open.
THEOREM BarrierNeverStuck == Spec => []NobodyStuck
<1>1. Init => PlacesInv /\ BarrierInv
  BY InitPlaces, InitBarrier
<1>2. PlacesInv /\ BarrierInv /\ [Next]_vars => (PlacesInv /\ BarrierInv)'
  BY NextPlaces, NextBarrier
<1> QED BY <1>1, <1>2, InvGivesStep, PTL DEF Spec

\* How far a worker is within a round.
Order == [off |-> 0, read |-> 1, fill |-> 2, stop |-> 3, arrive |-> 4, gather |-> 5,
          reset |-> 6, release |-> 7, wait |-> 8, done |-> 9]

\* A worker goes to the next round, further in this one, to the next row, or
\* releases the next worker; ...
Forward(i) ==
  \/ round'[i] > round[i]
  \/ round'[i] = round[i] /\ Order[pc'[i]] > Order[pc[i]]
  \/ /\ round'[i] = round[i] /\ pc'[i] = pc[i]
     /\ \/ pc[i] = "fill" /\ row'[i] > row[i]
        \/ pc[i] = "release" /\ next' > next

\* ... and nobody else takes it back.
Untouched(i) ==
  /\ UNCHANGED <<round[i], pc[i], row[i]>>
  /\ pc[i] = "release" => next' = next

Advance ==
  \A i \in Workers : /\ Worker(i) => Forward(i)
                     /\ Forward(i) \/ Untouched(i)

\* All of that is bounded.
Bounded ==
  /\ main <= T + 1
  /\ \A i \in Workers : /\ round[i] <= N + M - 1
                        /\ pc[i] = "fill" => row[i] <= N - 1
                        /\ pc[i] = "release" => next <= T

LEMMA InvGivesBounds == PlacesInv /\ BarrierInv /\ TableInv => Bounded
<1> SUFFICES ASSUME PlacesInv, BarrierInv, TableInv, NEW i \in Workers
             PROVE  /\ main <= T + 1 /\ round[i] <= N + M - 1
                    /\ pc[i] = "fill" => row[i] <= N - 1
                    /\ pc[i] = "release" => next <= T
  BY WorkerFacts DEF Bounded, BarrierInv
<1>1. main <= T + 1 /\ T \in Nat
  BY DEF BarrierInv, BarrierType
<1>2. pc[i] = "fill" => row[i] <= N - 1
  <2> SUFFICES ASSUME pc[i] = "fill" PROVE row[i] <= N - 1
    OBVIOUS
  <2>1. round[i] \in Rounds /\ Mine(i, thread_todo_list[round[i]][i], row[i])
    BY DEF TableInv, FillOK
  <2> DEFINE r == round[i]
             e == thread_todo_list[round[i]][i].end_row
  <2>2. DivisionOK(thread_todo_list[r], r)
    BY <2>1 DEF TableInv
  <2>3. e \in Nat /\ e <= LastRow(r) /\ row[i] <= e
    BY <2>1, <2>2 DEF DivisionOK, Mine
  <2>4. LastRow(r) <= N - 1 /\ LastRow(r) \in Nat /\ N \in Nat
    BY <2>1, Lengths DEF LastRow, PlacesInv
  <2>5. row[i] \in Nat
    BY WorkerFacts DEF TableInv, DataType, BarrierInv
  <2> HIDE DEF e, r
  <2> QED BY <2>3, <2>4, <2>5
<1>3. pc[i] = "release" => next <= T
  <2>1. pc[i] = "release" => i = 1
    BY DEF BarrierInv, WorkerInv
  <2> QED BY <2>1, WorkerFacts DEF BarrierInv
<1> QED BY <1>1, <1>2, <1>3 DEF PlacesInv, PlaceInv

LEMMA WorkerForward ==
  ASSUME BarrierInv, DataType, NEW i \in Workers, Worker(i)
  PROVE  Forward(i) /\ \A j \in Workers : j # i => Untouched(j)
<1>1. /\ pc \in [1..MaxThreads -> Places] /\ round \in [1..MaxThreads -> Nat]
      /\ row \in [1..MaxThreads -> Nat] /\ i \in 1..MaxThreads /\ Workers \subseteq 1..MaxThreads
      /\ next \in Nat
  BY WorkerFacts DEF BarrierInv, BarrierType, DataType
<1>2. pc[i] \in {"reset", "release"} => i = 1 /\ \A j \in Workers : j # i => pc[j] # "release"
  BY DEF BarrierInv, WorkerInv
<1>3. CASE Read(i)
  <2>1. /\ pc[i] = "read" /\ UNCHANGED <<round, next>>
        /\ \E p \in {"fill", "stop", "done"} : pc' = [pc EXCEPT ![i] = p]
        /\ \E y : row' = [row EXCEPT ![i] = y] \/ row' = row
    BY <1>3 DEF Read, Goto
  <2>2. pc'[i] \in {"fill", "stop", "done"} /\ round'[i] = round[i]
    BY <1>1, <2>1
  <2>3. Forward(i)
    BY <2>1, <2>2 DEF Forward, Order
  <2>4. ASSUME NEW j \in Workers, j # i PROVE Untouched(j)
    BY <1>1, <2>1, <2>4 DEF Untouched
  <2> QED BY <2>3, <2>4
<1>4. CASE Fill(i)
  <2>1. /\ pc[i] = "fill" /\ row' = [row EXCEPT ![i] = @ + 1] /\ UNCHANGED <<round, next>>
        /\ \E p \in {"fill", "stop"} : pc' = [pc EXCEPT ![i] = p]
    BY <1>4 DEF Fill, Goto
  <2>2. row'[i] > row[i] /\ pc'[i] \in {"fill", "stop"} /\ round'[i] = round[i]
    BY <1>1, <2>1
  <2>3. Forward(i)
    BY <2>1, <2>2 DEF Forward, Order
  <2>4. ASSUME NEW j \in Workers, j # i PROVE Untouched(j)
    BY <1>1, <2>1, <2>4 DEF Untouched
  <2> QED BY <2>3, <2>4
<1>5. CASE Stop(i) \/ Arrive(i) \/ Gather(i)
  <2>1. /\ UNCHANGED <<round, row, next>>
        /\ \E p \in {"arrive", "gather", "wait", "reset"} :
             /\ pc' = [pc EXCEPT ![i] = p]
             /\ \/ pc[i] = "stop" /\ p = "arrive"
                \/ pc[i] = "arrive" /\ p \in {"gather", "wait"}
                \/ pc[i] = "gather" /\ p = "reset"
    BY <1>5 DEF Stop, Arrive, Gather, Goto
  <2>2. \/ pc[i] = "stop" /\ pc'[i] = "arrive"
        \/ pc[i] = "arrive" /\ pc'[i] \in {"gather", "wait"}
        \/ pc[i] = "gather" /\ pc'[i] = "reset"
    BY <1>1, <2>1
  <2>3. Forward(i)
    BY <2>1, <2>2 DEF Forward, Order
  <2>4. ASSUME NEW j \in Workers, j # i PROVE Untouched(j)
    BY <1>1, <2>1, <2>4 DEF Untouched
  <2> QED BY <2>3, <2>4
<1>6. CASE Reset(i)
  <2>1. /\ pc[i] = "reset" /\ pc' = [pc EXCEPT ![i] = "release"]
        /\ UNCHANGED <<round, row>>
    BY <1>6 DEF Reset, Goto
  <2>2. pc'[i] = "release"
    BY <1>1, <2>1
  <2>3. Forward(i)
    BY <2>1, <2>2 DEF Forward, Order
  <2>4. ASSUME NEW j \in Workers, j # i PROVE Untouched(j)
    BY <1>1, <1>2, <2>1, <2>4 DEF Untouched
  <2> QED BY <2>3, <2>4
<1>7. CASE Release(i)
  <2>1. /\ pc[i] = "release" /\ pc' = [pc EXCEPT ![i] = IF next = T THEN "wait" ELSE "release"]
        /\ UNCHANGED <<round, row>> /\ next' = next + 1
    BY <1>7 DEF Release, Goto
  <2>2. pc'[i] = "release" \/ pc'[i] = "wait"
    BY <1>1, <2>1
  <2>3. Forward(i)
    BY <1>1, <2>1, <2>2 DEF Forward, Order
  <2>4. ASSUME NEW j \in Workers, j # i PROVE Untouched(j)
    BY <1>1, <1>2, <2>1, <2>4 DEF Untouched
  <2> QED BY <2>3, <2>4
<1>8. CASE Wait(i)
  BY <1>1, <1>8 DEF Wait, Goto, Forward, Untouched
<1> QED BY <1>3, <1>4, <1>5, <1>6, <1>7, <1>8 DEF Worker

LEMMA NotBothWays ==
  ASSUME BarrierInv, NEW i \in Workers, Create \/ Join
  PROVE  (~Worker(i) /\ Untouched(i)) \/ (Create /\ Forward(i))
<1>1. main \in Nat /\ i \in Nat /\ pc \in [1..MaxThreads -> Places] /\ Workers \subseteq 1..MaxThreads
  BY WorkerFacts DEF BarrierInv, BarrierType
<1>2. CASE Join
  <2>1. UNCHANGED <<pc, round, row, next>> /\ pc[i] = "done"
    BY <1>2 DEF Join
  <2> QED BY <2>1 DEF Untouched, Worker, Read, Fill, Stop, Arrive, Gather, Reset, Release, Wait
<1>3. CASE Create
  <2>1. /\ pc' = [pc EXCEPT ![main + 1] = "read"] /\ UNCHANGED <<round, row, next>>
        /\ main + 1 \in Workers /\ pc[main + 1] = "off"
    <3>1. pc' = [pc EXCEPT ![main + 1] = "read"] /\ UNCHANGED <<round, row, next>> /\ main < T
      BY <1>3 DEF Create, Goto
    <3>2. main + 1 \in Workers
      BY <1>1, <3>1 DEF BarrierInv, Workers, BarrierType
    <3>3. pc[main + 1] = "off"
      BY <1>1, <3>2 DEF BarrierInv, WorkerInv
    <3> QED BY <3>1, <3>2, <3>3
  <2>2. ~Worker(i)
    <3>1. main' # main
      BY <1>1, <1>3 DEF Create
    <3> QED BY <3>1 DEF Worker, Read, Fill, Stop, Arrive, Gather, Reset, Release, Wait
  <2>3. CASE i = main + 1
    <3>1. pc[i] = "off" /\ pc'[i] = "read" /\ round'[i] = round[i]
      BY <1>1, <2>1, <2>3
    <3> QED BY <1>3, <3>1 DEF Forward, Order
  <2>4. CASE i # main + 1
    BY <1>1, <2>1, <2>2, <2>4 DEF Untouched
  <2> QED BY <2>3, <2>4
<1> QED BY <1>2, <1>3

LEMMA InvGivesAdvance == BarrierInv /\ DataType /\ [Next]_vars => [Advance /\ main' >= main]_vars
<1> SUFFICES ASSUME BarrierInv, DataType, Next PROVE Advance /\ main' >= main
  OBVIOUS
<1>1. CASE Create \/ Join
  <2>1. Advance
    BY <1>1, NotBothWays DEF Advance, Forward
  <2> QED BY <1>1, <2>1 DEF Create, Join, BarrierInv, BarrierType
<1>2. ASSUME NEW i \in Workers, Worker(i) PROVE Advance /\ main' >= main
  <2>1. Forward(i) /\ \A j \in Workers : j # i => Untouched(j)
    BY <1>2, WorkerForward
  <2>2. main' = main /\ main \in Nat
    BY <1>2 DEF Worker, Read, Fill, Stop, Arrive, Gather, Reset, Release, Wait, BarrierInv, BarrierType
  <2>3. ASSUME NEW j \in Workers, Worker(j) PROVE Forward(j)
    BY <2>3, WorkerForward
  <2> QED BY <2>1, <2>2, <2>3 DEF Advance
<1> QED BY <1>1, <1>2 DEF Next

\* For any strings and any number of workers: there is no endless run.  Every
\* step of a worker takes it forward, no step of another takes it back, and the
\* rounds, rows and releases are bounded; so the steps of all workers are finite
\* in number, and with BarrierNeverStuck they end only when all are done.
THEOREM StepsAreFinite == Spec => []Bounded /\ [][Advance /\ main' >= main]_vars
<1>1. Init => PlacesInv /\ BarrierInv /\ TableInv
  BY InitPlaces, InitBarrier, InitTable
<1>2. PlacesInv /\ BarrierInv /\ TableInv /\ [Next]_vars => (PlacesInv /\ BarrierInv /\ TableInv)'
  BY NextPlaces, NextBarrier, NextTable
<1>3. BarrierInv /\ TableInv /\ [Next]_vars => [Advance /\ main' >= main]_vars
  BY InvGivesAdvance DEF TableInv
<1> QED BY <1>1, <1>2, <1>3, InvGivesBounds, PTL DEF Spec

LEMMA NextInRange ==
  ASSUME BarrierInv, next \in 1..(MaxThreads + 1), [Next]_vars
  PROVE  next' \in 1..(MaxThreads + 1)
<1>1. MaxThreads \in Nat /\ T \in 2..MaxThreads
  BY DEF BarrierInv, BarrierType
<1>2. ASSUME NEW i \in Workers, Release(i) PROVE next' \in 1..(MaxThreads + 1)
  <2>1. i = 1 /\ pc[1] = "release" /\ next' = next + 1
    BY <1>2 DEF Release, BarrierInv, WorkerInv
  <2>2. next \in 1..T
    BY <2>1 DEF BarrierInv, Workers
  <2> QED BY <1>1, <2>1, <2>2
<1>3. ASSUME NEW i \in Workers, Reset(i) PROVE next' \in 1..(MaxThreads + 1)
  BY <1>1, <1>3 DEF Reset
<1>4. ASSUME NEW i \in Workers, Worker(i), ~Release(i), ~Reset(i) PROVE next' = next
  BY <1>4 DEF Worker, Read, Fill, Stop, Arrive, Gather, Wait
<1>5. CASE Create \/ Join \/ UNCHANGED vars
  BY <1>5 DEF Create, Join, vars
<1> QED BY <1>2, <1>3, <1>4, <1>5 DEF Next

\* For any strings and any number of workers: positions, rounds and rows keep
\* their types, and worker 1 never releases a worker that does not exist.
THEOREM PlcsTyped == Spec => []TypeOK
<1> DEFINE Inv == PlacesInv /\ BarrierInv /\ TableInv /\ next \in 1..(MaxThreads + 1)
<1>1. Init => Inv
  BY InitPlaces, InitBarrier, InitTable, BoundsAssumption DEF Init
<1>2. Inv /\ [Next]_vars => Inv'
  BY NextPlaces, NextBarrier, NextTable, NextInRange
<1>3. Inv => TypeOK
  BY DEF PlacesInv, InputOK, BarrierInv, BarrierType, TableInv, DataType, Places, TypeOK
<1> QED BY <1>1, <1>2, <1>3, PTL DEF Spec
=============================================================================
