-------------------------- MODULE SpinlockProofs --------------------------
(* Theorems about Spinlock for every number of CPUs, threads and locks and *)
(* any depth of nesting, and about Boot for every number of CPUs: the boot *)
(* stack, the order of the handlers, and whom a halt reaches.              *)
EXTENDS Spinlock, Boot, FiniteSetTheorems, SequenceTheorems, TLAPS

\* a cannot be interrupted: it holds a lock, or has disabled interrupts to take
\* or give back one.
Busy(a) == held[a] # {} \/ pc[a] \notin {"idle", "off"}

\* What is so of an actor by itself.
LocalInv(a) ==
  /\ IsFiniteSet(held[a])
  /\ pc[a] \in {"own", "clear", "drop"} => want[a] \in held[a]
  /\ pc[a] \in {"off", "count", "spin", "fail"} => want[a] \in Locks \ held[a]
  /\ pc[a] \in {"off", "count"} /\ held[a] = {} => (old[a] <=> a \in Threads)

\* How an actor and the CPU that executes it fit together.
ExecInv(c, a) ==
  Executes(c, a) =>
    /\ noff[c] = Pushes(a)
    /\ Busy(a) => ~ie[c]
    /\ ~Busy(a) => (ie[c] <=> a \in Threads)
    /\ Pushes(a) > 0 => (intena[c] <=> a \in Threads)
    /\ \A l \in held[a] :
         owner[l] = c \/ (pc[a] \in {"own", "drop"} /\ l = want[a])

\* Nobody is taken off a CPU while busy.
RestInv(a) == (\A c \in Cpus : ~Executes(c, a)) => ~Busy(a)

\* A CPU that runs nothing.
EmptyInv(c) == ~inIrq[c] /\ on[c] = None => ie[c] /\ noff[c] = 0

\* A thread is on one CPU.
OnceInv == \A c, d \in Cpus : c # d /\ on[c] # None => on[c] # on[d]

\* The word of a lock tells whether somebody has it.
WordInv == \A l \in Locks : word[l] <=> \E a \in Actors : l \in held[a]

SpinInv ==
  /\ TypeOK /\ OnceInv /\ WordInv /\ MutualExclusion
  /\ \A a \in Actors : LocalInv(a) /\ RestInv(a)
  /\ \A c \in Cpus : EmptyInv(c) /\ \A a \in Actors : ExecInv(c, a)

-----------------------------------------------------------------------------
LEMMA PushesFacts ==
  ASSUME NEW a \in Actors, LocalInv(a)
  PROVE  /\ Cardinality(held[a]) \in Nat
         /\ Pushes(a) \in Nat
         /\ ~Busy(a) => Pushes(a) = 0
         /\ Pushes(a) = 0 <=> held[a] = {} /\ pc[a] \notin {"spin", "fail", "pop"}
<1>1. Cardinality(held[a]) \in Nat
  BY FS_CardinalityType DEF LocalInv
<1>2. Cardinality(held[a]) = 0 <=> held[a] = {}
  BY FS_EmptySet DEF LocalInv
<1> QED BY <1>1, <1>2 DEF Pushes, Busy

LEMMA OneCpu ==
  ASSUME SpinInv, NEW a \in Actors, NEW c \in Cpus, NEW d \in Cpus,
         Executes(c, a), Executes(d, a)
  PROVE  c = d
BY ActorAssumption DEF SpinInv, OnceInv, TypeOK, Executes, Actors

LEMMA SpinInit == Init => SpinInv
<1> SUFFICES ASSUME Init PROVE SpinInv
    OBVIOUS
<1> USE ActorAssumption, LockAssumption DEF Init
<1>1. TypeOK
  BY DEF TypeOK, Actors, Pcs
<1>2. OnceInv /\ WordInv /\ MutualExclusion
  BY DEF OnceInv, WordInv, MutualExclusion
<1>3. ASSUME NEW a \in Actors PROVE LocalInv(a) /\ RestInv(a)
  BY FS_EmptySet DEF LocalInv, RestInv, Busy
<1>4. ASSUME NEW c \in Cpus
      PROVE EmptyInv(c) /\ \A a \in Actors : ExecInv(c, a)
  BY DEF EmptyInv, ExecInv, Executes, Actors
<1> QED BY <1>1, <1>2, <1>3, <1>4 DEF SpinInv

\* A step of the code of a changes nothing the others rely on.
LEMMA CodeFrame ==
  ASSUME SpinInv, NEW c \in Cpus, NEW a \in Actors, Executes(c, a),
         UNCHANGED <<on, inIrq>>,
         \A b \in Actors \ {a} :
           /\ pc'[b] = pc[b] /\ want'[b] = want[b]
           /\ old'[b] = old[b] /\ held'[b] = held[b],
         \A d \in Cpus \ {c} :
           ie'[d] = ie[d] /\ noff'[d] = noff[d] /\ intena'[d] = intena[d],
         \A l \in Locks :
           owner'[l] = owner[l] \/ \A b \in Actors \ {a} : l \notin held[b],
         TypeOK', WordInv', MutualExclusion', LocalInv(a)', ExecInv(c, a)'
  PROVE  SpinInv'
<1>1. \A d \in Cpus, b \in Actors : Executes(d, b)' <=> Executes(d, b)
  BY DEF Executes
<1>2. OnceInv'
  BY DEF SpinInv, OnceInv
<1>3. ASSUME NEW b \in Actors PROVE LocalInv(b)' /\ RestInv(b)'
  <2>1. CASE b = a
    BY <1>1, <2>1 DEF RestInv
  <2>2. CASE b # a
    BY <1>1, <2>2 DEF SpinInv, LocalInv, RestInv, Busy
  <2> QED BY <2>1, <2>2
<1>4. ASSUME NEW d \in Cpus PROVE EmptyInv(d)'
  BY ActorAssumption DEF SpinInv, EmptyInv, Executes, Actors
<1>5. ASSUME NEW d \in Cpus, NEW b \in Actors PROVE ExecInv(d, b)'
  <2>1. CASE d = c /\ b = a
    BY <2>1
  <2>2. CASE ~Executes(d, b)
    BY <1>1, <2>2 DEF ExecInv
  <2>3. CASE b # a /\ Executes(d, b)
    <3>1. d # c
      BY <2>3 DEF Executes
    <3>2. \A l \in held[b] : owner'[l] = owner[l]
      BY <2>3 DEF SpinInv, TypeOK
    <3> QED BY <1>1, <2>3, <3>1, <3>2 DEF SpinInv, ExecInv, Busy, Pushes
  <2>4. CASE b = a /\ d # c /\ Executes(d, b)
    BY <2>4, OneCpu
  <2> QED BY <2>1, <2>2, <2>3, <2>4
<1> QED BY <1>2, <1>3, <1>4, <1>5 DEF SpinInv

-----------------------------------------------------------------------------
\* The facts about the executing actor that the steps below start from.
LEMMA ExecFacts ==
  ASSUME SpinInv, NEW c \in Cpus, NEW a \in Actors, Executes(c, a)
  PROVE  /\ TypeOK /\ WordInv /\ MutualExclusion /\ LocalInv(a) /\ ExecInv(c, a)
         /\ noff[c] = Pushes(a)
BY DEF SpinInv, ExecInv

LEMMA BeginInv ==
  ASSUME SpinInv, NEW c \in Cpus, NEW a \in Actors, NEW l \in Locks,
         NEW t \in BOOLEAN, Begin(c, a, l, t)
  PROVE  SpinInv'
<1> USE DEF Begin, Goto, cpuVars, lockVars
<1>1. /\ TypeOK /\ WordInv /\ MutualExclusion /\ LocalInv(a) /\ ExecInv(c, a)
      /\ noff[c] = Pushes(a)
  BY ExecFacts
<1>2. TypeOK'
  BY <1>1 DEF TypeOK, Pcs
<1>3. WordInv' /\ MutualExclusion'
  BY <1>1 DEF WordInv, MutualExclusion
<1>4. LocalInv(a)'
  <2>1. ie[c] <=> a \in Threads /\ held[a] = {}
    BY <1>1 DEF ExecInv, Busy, TypeOK
  <2> QED BY <1>1, <2>1 DEF LocalInv, TypeOK, ExecInv, Busy
<1>5. ExecInv(c, a)'
  BY <1>1 DEF ExecInv, Executes, Busy, Pushes, TypeOK
<1> QED BY <1>1, <1>2, <1>3, <1>4, <1>5, CodeFrame DEF TypeOK

LEMMA DisableInv ==
  ASSUME SpinInv, NEW c \in Cpus, NEW a \in Actors, Disable(c, a)
  PROVE  SpinInv'
<1> USE DEF Disable, Goto, lockVars
<1>1. /\ TypeOK /\ WordInv /\ MutualExclusion /\ LocalInv(a) /\ ExecInv(c, a)
      /\ noff[c] = Pushes(a)
  BY ExecFacts
<1>2. TypeOK'
  BY <1>1 DEF TypeOK, Pcs
<1>3. WordInv' /\ MutualExclusion'
  BY <1>1 DEF WordInv, MutualExclusion
<1>4. LocalInv(a)'
  BY <1>1 DEF LocalInv, TypeOK
<1>5. ExecInv(c, a)'
  BY <1>1 DEF ExecInv, Executes, Busy, Pushes, TypeOK
<1> QED BY <1>1, <1>2, <1>3, <1>4, <1>5, CodeFrame DEF TypeOK

LEMMA CountInv ==
  ASSUME SpinInv, NEW c \in Cpus, NEW a \in Actors, Count(c, a)
  PROVE  SpinInv'
<1> USE DEF Count, Remember, Goto, lockVars
<1>1. /\ TypeOK /\ WordInv /\ MutualExclusion /\ LocalInv(a) /\ ExecInv(c, a)
      /\ noff[c] = Pushes(a)
  BY ExecFacts
<1>2. TypeOK'
  BY <1>1 DEF TypeOK, Pcs
<1>3. WordInv' /\ MutualExclusion'
  BY <1>1 DEF WordInv, MutualExclusion
<1>4. LocalInv(a)'
  BY <1>1 DEF LocalInv, TypeOK
<1>5. ExecInv(c, a)'
  <2>1. /\ Pushes(a) \in Nat /\ Cardinality(held[a]) \in Nat
        /\ Pushes(a) = 0 <=> held[a] = {}
    BY <1>1, PushesFacts
  <2>2. noff'[c] = Pushes(a)'
    BY <1>1, <2>1 DEF Pushes, TypeOK
  <2>3. ~ie'[c]
    BY <1>1 DEF ExecInv, Busy
  <2>4. intena'[c] <=> a \in Threads
    BY <1>1, <2>1 DEF ExecInv, LocalInv, TypeOK
  <2> QED BY <1>1, <2>2, <2>3, <2>4 DEF ExecInv, Busy, TypeOK
<1> QED BY <1>1, <1>2, <1>3, <1>4, <1>5, CodeFrame DEF TypeOK

LEMMA TakeInv ==
  ASSUME SpinInv, NEW c \in Cpus, NEW a \in Actors, Take(c, a)
  PROVE  SpinInv'
<1> USE DEF Take, CanTake, Goto, cpuVars
<1>1. /\ TypeOK /\ WordInv /\ MutualExclusion /\ LocalInv(a) /\ ExecInv(c, a)
      /\ noff[c] = Pushes(a)
  BY ExecFacts
<1>2. want[a] \in Locks \ held[a]
  BY <1>1 DEF LocalInv
<1>3. \A b \in Actors : want[a] \notin held[b]
  BY <1>1, <1>2 DEF WordInv
<1>4. TypeOK'
  BY <1>1, <1>2 DEF TypeOK, Pcs
<1>5. WordInv'
  BY <1>1, <1>2 DEF WordInv, TypeOK
<1>6. MutualExclusion'
  BY <1>1, <1>3 DEF MutualExclusion, TypeOK
<1>7. /\ IsFiniteSet(held'[a])
      /\ Cardinality(held'[a]) = Cardinality(held[a]) + 1
  <2>1. held'[a] = held[a] \cup {want[a]}
    BY <1>1 DEF TypeOK
  <2>2. IsFiniteSet(held[a])
    BY <1>1 DEF LocalInv
  <2>3. /\ IsFiniteSet(held[a] \cup {want[a]})
        /\ want[a] \notin held[a] =>
             Cardinality(held[a] \cup {want[a]}) = Cardinality(held[a]) + 1
    BY <2>2, FS_AddElement
  <2> QED BY <1>2, <2>1, <2>3
<1>8. LocalInv(a)'
  BY <1>1, <1>7 DEF LocalInv, TypeOK
<1>9. ExecInv(c, a)'
  <2>1. Pushes(a)' = Pushes(a) /\ Pushes(a) > 0
    BY <1>1, <1>7, PushesFacts DEF Pushes, TypeOK
  <2> QED BY <1>1, <2>1 DEF ExecInv, Executes, Busy, TypeOK
<1> QED BY <1>4, <1>5, <1>6, <1>8, <1>9, CodeFrame

LEMMA GiveUpInv ==
  ASSUME SpinInv, NEW c \in Cpus, NEW a \in Actors, GiveUp(c, a)
  PROVE  SpinInv'
<1> USE DEF GiveUp, Goto, cpuVars, lockVars
<1>1. /\ TypeOK /\ WordInv /\ MutualExclusion /\ LocalInv(a) /\ ExecInv(c, a)
      /\ noff[c] = Pushes(a)
  BY ExecFacts
<1>2. TypeOK'
  BY <1>1 DEF TypeOK, Pcs
<1>3. WordInv' /\ MutualExclusion'
  BY <1>1 DEF WordInv, MutualExclusion
<1>4. LocalInv(a)'
  BY <1>1 DEF LocalInv, TypeOK
<1>5. ExecInv(c, a)'
  BY <1>1 DEF ExecInv, Executes, Busy, Pushes, TypeOK
<1> QED BY <1>1, <1>2, <1>3, <1>4, <1>5, CodeFrame DEF TypeOK

LEMMA SetOwnerInv ==
  ASSUME SpinInv, NEW c \in Cpus, NEW a \in Actors, SetOwner(c, a)
  PROVE  SpinInv'
<1> USE DEF SetOwner, Finish, Goto, cpuVars
<1>1. /\ TypeOK /\ WordInv /\ MutualExclusion /\ LocalInv(a) /\ ExecInv(c, a)
      /\ noff[c] = Pushes(a)
  BY ExecFacts
<1>2. want[a] \in held[a] /\ want[a] \in Locks
  BY <1>1 DEF LocalInv, TypeOK
<1>3. TypeOK'
  BY <1>1 DEF TypeOK, Pcs
<1>4. WordInv' /\ MutualExclusion'
  BY <1>1 DEF WordInv, MutualExclusion
<1>5. LocalInv(a)'
  BY <1>1 DEF LocalInv, TypeOK
<1>6. ExecInv(c, a)'
  <2>1. Pushes(a)' = Pushes(a)
    BY <1>1 DEF Pushes, TypeOK
  <2>2. \A l \in held[a] : owner'[l] = c
    BY <1>1 DEF ExecInv, TypeOK
  <2> QED BY <1>1, <1>2, <2>1, <2>2 DEF ExecInv, Executes, Busy, TypeOK
<1>7. \A l \in Locks :
        owner'[l] = owner[l] \/ \A b \in Actors \ {a} : l \notin held[b]
  BY <1>1, <1>2 DEF MutualExclusion, TypeOK
<1> QED BY <1>1, <1>3, <1>4, <1>5, <1>6, <1>7, CodeFrame DEF TypeOK

LEMMA ReleaseInv ==
  ASSUME SpinInv, NEW c \in Cpus, NEW a \in Actors, NEW l \in Locks,
         Release(c, a, l)
  PROVE  SpinInv'
<1> USE DEF Release, Goto, cpuVars, lockVars
<1>1. /\ TypeOK /\ WordInv /\ MutualExclusion /\ LocalInv(a) /\ ExecInv(c, a)
      /\ noff[c] = Pushes(a)
  BY ExecFacts
<1>2. TypeOK'
  BY <1>1 DEF TypeOK, Pcs
<1>3. WordInv' /\ MutualExclusion'
  BY <1>1 DEF WordInv, MutualExclusion
<1>4. LocalInv(a)'
  BY <1>1 DEF LocalInv, TypeOK
<1>5. ExecInv(c, a)'
  BY <1>1 DEF ExecInv, Executes, Busy, Pushes, TypeOK
<1> QED BY <1>1, <1>2, <1>3, <1>4, <1>5, CodeFrame DEF TypeOK

LEMMA ClearOwnerInv ==
  ASSUME SpinInv, NEW c \in Cpus, NEW a \in Actors, ClearOwner(c, a)
  PROVE  SpinInv'
<1> USE DEF ClearOwner, Goto, cpuVars
<1>1. /\ TypeOK /\ WordInv /\ MutualExclusion /\ LocalInv(a) /\ ExecInv(c, a)
      /\ noff[c] = Pushes(a)
  BY ExecFacts
<1>2. want[a] \in held[a] /\ want[a] \in Locks
  BY <1>1 DEF LocalInv, TypeOK
<1>3. TypeOK'
  BY <1>1 DEF TypeOK, Pcs
<1>4. WordInv' /\ MutualExclusion'
  BY <1>1 DEF WordInv, MutualExclusion
<1>5. LocalInv(a)'
  BY <1>1 DEF LocalInv, TypeOK
<1>6. ExecInv(c, a)'
  BY <1>1, <1>2 DEF ExecInv, Executes, Busy, Pushes, TypeOK
<1>7. \A l \in Locks :
        owner'[l] = owner[l] \/ \A b \in Actors \ {a} : l \notin held[b]
  BY <1>1, <1>2 DEF MutualExclusion, TypeOK
<1> QED BY <1>3, <1>4, <1>5, <1>6, <1>7, CodeFrame

LEMMA DropInv ==
  ASSUME SpinInv, NEW c \in Cpus, NEW a \in Actors, Drop(c, a)
  PROVE  SpinInv'
<1> USE DEF Drop, Goto, cpuVars
<1>1. /\ TypeOK /\ WordInv /\ MutualExclusion /\ LocalInv(a) /\ ExecInv(c, a)
      /\ noff[c] = Pushes(a)
  BY ExecFacts
<1>2. want[a] \in held[a] /\ want[a] \in Locks
  BY <1>1 DEF LocalInv, TypeOK
<1>3. TypeOK'
  BY <1>1 DEF TypeOK, Pcs
<1>4. \A b \in Actors : held'[b] = IF b = a THEN held[a] \ {want[a]} ELSE held[b]
  BY <1>1 DEF TypeOK
<1>5. WordInv'
  <2>1. \A b \in Actors \ {a} : want[a] \notin held[b]
    BY <1>1, <1>2 DEF MutualExclusion
  <2> QED BY <1>1, <1>2, <1>4, <2>1 DEF WordInv, TypeOK
<1>6. MutualExclusion'
  BY <1>1, <1>4 DEF MutualExclusion
<1>7. /\ IsFiniteSet(held'[a])
      /\ Cardinality(held'[a]) = Cardinality(held[a]) - 1
  <2>1. IsFiniteSet(held[a])
    BY <1>1 DEF LocalInv
  <2> QED BY <1>2, <1>4, <2>1, FS_RemoveElement
<1>8. LocalInv(a)'
  BY <1>1, <1>7 DEF LocalInv, TypeOK
<1>9. ExecInv(c, a)'
  <2>1. Cardinality(held[a]) \in Nat /\ (Pushes(a) = 0 => held[a] = {})
        /\ Pushes(a) \in Nat
    BY <1>1, PushesFacts
  <2>2. Pushes(a)' = Pushes(a) /\ Pushes(a) > 0
    BY <1>1, <1>2, <1>7, <2>1 DEF Pushes, TypeOK
  <2> QED BY <1>1, <1>4, <2>2 DEF ExecInv, Executes, Busy, TypeOK
<1> QED BY <1>3, <1>4, <1>5, <1>6, <1>8, <1>9, CodeFrame

LEMMA PopOffInv ==
  ASSUME SpinInv, NEW c \in Cpus, NEW a \in Actors, PopOff(c, a)
  PROVE  SpinInv'
<1> USE DEF PopOff, Restore, Finish, Goto, lockVars
<1>1. /\ TypeOK /\ WordInv /\ MutualExclusion /\ LocalInv(a) /\ ExecInv(c, a)
      /\ noff[c] = Pushes(a)
  BY ExecFacts
<1>2. TypeOK'
  <2>1. ie' \in [Cpus -> BOOLEAN]
    <3>1. (IF noff[c] = 1 /\ intena[c] THEN TRUE ELSE ie[c]) \in BOOLEAN
      BY <1>1 DEF TypeOK
    <3> QED BY <1>1, <3>1 DEF TypeOK
  <2>2. noff' \in [Cpus -> Nat]
    BY <1>1 DEF TypeOK
  <2> QED BY <1>1, <2>1, <2>2 DEF TypeOK, Pcs
<1>3. WordInv' /\ MutualExclusion'
  BY <1>1 DEF WordInv, MutualExclusion
<1>4. LocalInv(a)'
  BY <1>1 DEF LocalInv, TypeOK
<1>5. ExecInv(c, a)'
  <2>1. /\ Cardinality(held[a]) \in Nat /\ Pushes(a) = Cardinality(held[a]) + 1
        /\ Cardinality(held[a]) = 0 <=> held[a] = {}
    BY <1>1, PushesFacts, FS_EmptySet DEF Pushes, LocalInv
  <2>2. noff'[c] = Pushes(a)' /\ Pushes(a)' = Cardinality(held[a])
    BY <1>1, <2>1 DEF Pushes, TypeOK
  <2>3. intena[c] <=> a \in Threads
    BY <1>1, <2>1 DEF ExecInv
  <2>4. ie'[c] <=> held[a] = {} /\ a \in Threads
    BY <1>1, <2>1, <2>3 DEF TypeOK
  <2> QED BY <1>1, <2>2, <2>3, <2>4 DEF ExecInv, Busy, TypeOK
<1> QED BY <1>1, <1>2, <1>3, <1>4, <1>5, CodeFrame DEF TypeOK

-----------------------------------------------------------------------------
\* What an interrupt and the return from it leave to show: TypeOK, the
\* uniqueness of threads, and the relation of CPUs to what they execute.
LEMMA SwitchFrame ==
  ASSUME SpinInv, UNCHANGED <<noff, intena, lockVars, actorVars>>,
         TypeOK', OnceInv',
         \A c \in Cpus : EmptyInv(c)' /\ \A a \in Actors : ExecInv(c, a)',
         \A a \in Actors : RestInv(a)'
  PROVE  SpinInv'
BY DEF SpinInv, lockVars, actorVars, WordInv, MutualExclusion, LocalInv

LEMMA InterruptInv ==
  ASSUME SpinInv, NEW c \in Cpus, Interrupt(c)
  PROVE  SpinInv'
<1> USE DEF Interrupt, lockVars, actorVars
<1> c \in Actors
  BY DEF Actors
<1>1. TypeOK /\ OnceInv /\ \A a \in Actors : LocalInv(a) /\ RestInv(a)
  BY DEF SpinInv
<1>2. TypeOK' /\ OnceInv'
  BY <1>1 DEF TypeOK, OnceInv
<1>3. \A a \in Actors : Executes(c, a) => ~Busy(a)
  BY DEF SpinInv, ExecInv
<1>4. ~Busy(c)
  BY <1>1, ActorAssumption DEF RestInv, Executes, TypeOK
<1>5. noff[c] = 0
  <2>1. CASE on[c] = None
    BY <2>1 DEF SpinInv, EmptyInv
  <2>2. CASE on[c] # None
    <3>1. on[c] \in Actors /\ Executes(c, on[c])
      BY <1>1, <2>2 DEF TypeOK, Actors, Executes
    <3> QED BY <1>1, <1>3, <3>1, PushesFacts DEF SpinInv, ExecInv
  <2> QED BY <2>1, <2>2
<1>6. Pushes(c) = 0 /\ held[c] = {}
  BY <1>1, <1>4, PushesFacts DEF Busy
<1>7. ASSUME NEW d \in Cpus, d # c, NEW a \in Actors
      PROVE  Executes(d, a)' <=> Executes(d, a)
  BY <1>1, <1>7 DEF Executes, TypeOK
<1>8. ASSUME NEW d \in Cpus
      PROVE  EmptyInv(d)' /\ \A a \in Actors : ExecInv(d, a)'
  <2>1. CASE d = c
    <3>1. inIrq'[c] /\ ~ie'[c] /\ c \notin Threads
      BY <1>1, ActorAssumption DEF TypeOK
    <3>2. \A a \in Actors : Executes(c, a)' => a = c
      BY <3>1 DEF Executes
    <3>3. ExecInv(c, c)'
      BY <1>4, <1>5, <1>6, <3>1 DEF ExecInv, Busy, Pushes
    <3>4. EmptyInv(c)'
      BY <3>1 DEF EmptyInv
    <3> QED BY <2>1, <3>2, <3>3, <3>4 DEF ExecInv
  <2>2. CASE d # c
    <3>1. EmptyInv(d)'
      BY <1>1, <2>2 DEF SpinInv, EmptyInv, TypeOK
    <3>2. \A a \in Actors : ExecInv(d, a)'
      BY <1>1, <1>7, <2>2 DEF SpinInv, ExecInv, Busy, Pushes, TypeOK
    <3> QED BY <3>1, <3>2
  <2> QED BY <2>1, <2>2
<1>9. ASSUME NEW a \in Actors PROVE RestInv(a)'
  BY <1>1, <1>3, <1>7 DEF RestInv, Busy
<1> QED BY <1>2, <1>8, <1>9, SwitchFrame

LEMMA ReturnInv ==
  ASSUME SpinInv, NEW c \in Cpus, NEW t \in Threads \cup {None}, Return(c, t)
  PROVE  SpinInv'
<1> USE DEF Return, lockVars, actorVars
<1> c \in Actors
  BY DEF Actors
<1>1. TypeOK /\ OnceInv /\ \A a \in Actors : LocalInv(a) /\ RestInv(a)
  BY DEF SpinInv
<1>2. TypeOK'
  BY <1>1 DEF TypeOK
<1>3. OnceInv'
  BY <1>1 DEF OnceInv, TypeOK
<1>4. Executes(c, c) /\ \A a \in Actors : Executes(c, a) => a = c
  BY DEF Executes
<1>5. ~Busy(c) /\ noff[c] = 0
  BY <1>1, <1>4, PushesFacts DEF SpinInv, ExecInv, Busy
<1>6. ASSUME NEW d \in Cpus, d # c, NEW a \in Actors
      PROVE  Executes(d, a)' <=> Executes(d, a)
  BY <1>1, <1>6 DEF Executes, TypeOK
<1>7. ASSUME t \in Threads
      PROVE  t \in Actors /\ ~Busy(t) /\ Pushes(t) = 0 /\ held[t] = {}
  <2>1. t \in Actors /\ \A d \in Cpus : ~Executes(d, t)
    BY <1>1, <1>7, ActorAssumption DEF Executes, Actors, TypeOK
  <2> QED BY <1>1, <2>1, PushesFacts DEF RestInv, Busy
<1>8. ASSUME NEW d \in Cpus
      PROVE  EmptyInv(d)' /\ \A a \in Actors : ExecInv(d, a)'
  <2>1. CASE d = c
    <3>1. EmptyInv(c)'
      BY <1>1, <1>5 DEF EmptyInv, TypeOK
    <3>2. ASSUME NEW a \in Actors, Executes(c, a)'
          PROVE  a = t /\ t \in Threads
      BY <1>1, <3>2, ActorAssumption DEF Executes, TypeOK, Actors
    <3>3. \A a \in Actors : ExecInv(c, a)'
      BY <1>1, <1>5, <1>7, <3>2 DEF ExecInv, Busy, Pushes, TypeOK
    <3> QED BY <2>1, <3>1, <3>3
  <2>2. CASE d # c
    <3>1. EmptyInv(d)'
      BY <1>1, <2>2 DEF SpinInv, EmptyInv, TypeOK
    <3>2. \A a \in Actors : ExecInv(d, a)'
      BY <1>1, <1>6, <2>2 DEF SpinInv, ExecInv, Busy, Pushes, TypeOK
    <3> QED BY <3>1, <3>2
  <2> QED BY <2>1, <2>2
<1>9. ASSUME NEW a \in Actors PROVE RestInv(a)'
  BY <1>1, <1>4, <1>5, <1>6 DEF RestInv, Busy
<1> QED BY <1>2, <1>3, <1>8, <1>9, SwitchFrame

LEMMA SpinStep == SpinInv /\ [Next]_vars => SpinInv'
<1> SUFFICES ASSUME SpinInv, [Next]_vars PROVE SpinInv'
    OBVIOUS
<1>1. ASSUME NEW c \in Cpus, NEW a \in Actors, CodeStep(c, a) PROVE SpinInv'
  <2>1. ASSUME NEW l \in Locks, Release(c, a, l) PROVE SpinInv'
    BY <2>1, ReleaseInv
  <2>2. ASSUME NEW l \in Locks, NEW t \in BOOLEAN, Begin(c, a, l, t) PROVE SpinInv'
    BY <2>2, BeginInv
  <2> QED BY <1>1, <2>1, <2>2, DisableInv, CountInv, TakeInv, GiveUpInv,
             SetOwnerInv, ClearOwnerInv, DropInv, PopOffInv DEF CodeStep
<1>2. ASSUME NEW c \in Cpus, Interrupt(c) PROVE SpinInv'
  BY <1>2, InterruptInv
<1>3. ASSUME NEW c \in Cpus, NEW t \in Threads \cup {None}, Return(c, t)
      PROVE  SpinInv'
  BY <1>3, ReturnInv
<1>4. CASE UNCHANGED vars
  <2> USE <1>4 DEF vars, cpuVars, lockVars, actorVars
  <2>1. TypeOK' /\ OnceInv' /\ WordInv' /\ MutualExclusion'
    BY DEF SpinInv, TypeOK, OnceInv, WordInv, MutualExclusion
  <2>2. \A c \in Cpus, a \in Actors : Executes(c, a)' <=> Executes(c, a)
    BY DEF Executes
  <2>3. \A a \in Actors : Pushes(a)' = Pushes(a) /\ (Busy(a)' <=> Busy(a))
    BY DEF Pushes, Busy
  <2>4. \A a \in Actors : LocalInv(a)' /\ RestInv(a)'
    BY <2>2, <2>3 DEF SpinInv, LocalInv, RestInv
  <2>5. \A c \in Cpus : EmptyInv(c)' /\ \A a \in Actors : ExecInv(c, a)'
    BY <2>2, <2>3 DEF SpinInv, EmptyInv, ExecInv
  <2> QED BY <2>1, <2>4, <2>5 DEF SpinInv
<1> QED BY <1>1, <1>2, <1>3, <1>4 DEF Next

LEMMA SpinInvariant == Spec => []SpinInv
BY SpinInit, SpinStep, PTL DEF Spec

-----------------------------------------------------------------------------
\* A lock is held by at most one thread or handler, whatever is interrupted and
\* wherever it continues (kmt_spin_lock, kmt_try_spin_lock, kmt_spin_unlock).
THEOREM SpinlockExcludes == Spec => [](TypeOK /\ MutualExclusion)
<1>1. SpinInv => TypeOK /\ MutualExclusion
  BY DEF SpinInv
<1> QED BY <1>1, SpinInvariant, PTL

\* Code that holds a lock or is counted in noff is executed with interrupts
\* disabled, and noff counts exactly its push_offs.
THEOREM LocksUninterruptible == Spec => [](LockedIsUninterruptible /\ NoffExact)
<1>1. SpinInv => LockedIsUninterruptible
  <2> SUFFICES ASSUME SpinInv, NEW a \in Actors, Pushes(a) > 0
               PROVE  \E c \in Cpus : Executes(c, a) /\ ~ie[c]
    BY DEF LockedIsUninterruptible
  <2>1. Busy(a)
    BY PushesFacts DEF SpinInv
  <2> QED BY <2>1 DEF SpinInv, RestInv, ExecInv
<1>2. SpinInv => NoffExact
  <2> SUFFICES ASSUME SpinInv, NEW c \in Cpus
               PROVE  noff[c] = IF \E a \in Actors : Executes(c, a)
                        THEN Pushes(CHOOSE a \in Actors : Executes(c, a)) ELSE 0
    BY DEF NoffExact
  <2>1. CASE \E a \in Actors : Executes(c, a)
    <3> DEFINE a == CHOOSE b \in Actors : Executes(c, b)
    <3>1. a \in Actors /\ Executes(c, a)
      BY <2>1
    <3> QED BY <2>1, <3>1, ExecFacts
  <2>2. CASE ~\E a \in Actors : Executes(c, a)
    BY <2>2 DEF SpinInv, EmptyInv, Executes, TypeOK, Actors
  <2> QED BY <2>1, <2>2
<1> QED BY <1>1, <1>2, SpinInvariant, PTL

\* The interrupt flag is given back as it was found, and neither holding() nor
\* pop_off panics.
THEOREM FlagSafe == Spec => [](FlagRestored /\ NoPanic)
<1>1. SpinInv => FlagRestored
  <2> SUFFICES ASSUME SpinInv, NEW c \in Cpus
      PROVE /\ inIrq[c] => ~ie[c]
            /\ ~inIrq[c] /\ noff[c] = 0
                 /\ (on[c] = None \/ pc[on[c]] \in {"idle", "off"}) => ie[c]
    BY DEF FlagRestored
  <2>1. TypeOK /\ \A a \in Actors : LocalInv(a) /\ ExecInv(c, a)
    BY DEF SpinInv
  <2>2. inIrq[c] => ~ie[c]
    BY <2>1, ActorAssumption DEF ExecInv, Executes, Actors
  <2>3. ASSUME ~inIrq[c], noff[c] = 0, on[c] # None, pc[on[c]] \in {"idle", "off"}
        PROVE  ie[c]
    <3>1. on[c] \in Threads /\ on[c] \in Actors /\ Executes(c, on[c])
      BY <2>1, <2>3 DEF TypeOK, Actors, Executes
    <3>2. Pushes(on[c]) = 0
      BY <2>1, <2>3, <3>1 DEF ExecInv
    <3> QED BY <2>1, <2>3, <3>1, <3>2, PushesFacts DEF ExecInv, Busy
  <2> QED BY <2>2, <2>3 DEF SpinInv, EmptyInv
<1>2. SpinInv => NoPanic
  <2> SUFFICES ASSUME SpinInv, NEW c \in Cpus, NEW a \in Actors, Executes(c, a)
      PROVE /\ pc[a] = "idle" => \A l \in held[a] : Holding(c, l)
            /\ pc[a] \in {"pop", "fail"} => ~ie[c] /\ noff[c] >= 1
    BY DEF NoPanic
  <2>1. pc[a] = "idle" => \A l \in held[a] : Holding(c, l)
    BY DEF SpinInv, ExecInv, WordInv, Holding, TypeOK
  <2>2. pc[a] \in {"pop", "fail"} => ~ie[c] /\ noff[c] >= 1
    BY ExecFacts, PushesFacts DEF ExecInv, Busy
  <2> QED BY <2>1, <2>2
<1> QED BY <1>1, <1>2, SpinInvariant, PTL

-----------------------------------------------------------------------------
(* The start of the CPUs: the boot stack has one user, for any number of      *)
(* them.                                                                      *)
BootPlaces == BootPc \cup KernelPc \cup HaltPc \cup DeadPc \cup {"off", "percpu_init", "ready"}

BootType ==
  /\ NCpu \in Nat \ {0}
  /\ boot_pc \in [Processors -> BootPlaces]
  /\ cpu \in [Processors -> Nat]
  /\ ipi \subseteq Processors

(* Until mpe_init CPU 0 is alone. *)
MainPc == {"load", "start_c", "bootcpu_init", "main", "os_init", "mpe_init"}
MainPhase ==
  /\ ~is_ap /\ ipi = {} /\ ap_ready = 0
  /\ \A d \in Processors \ {0} : boot_pc[d] = "off"

(* mpe_init has booted the CPUs below k, and not those above. *)
BootedBelow(k) == \A d \in Processors \ {0, k} : boot_pc[d] = IF d < k THEN "run" ELSE "off"

(* Between two of them. *)
NextPhase ==
  /\ ipi = {} /\ ap_ready = 0
  /\ BootedBelow(cpu[0])
  /\ cpu[0] \in Processors => boot_pc[cpu[0]] = "off"

(* CPU k boots: the interrupt is on the way, or it executes, or it has     *)
(* reported.                                                               *)
ApPc == {"load", "start_c", "othercpu_entry", "percpu_init", "ready"}
Booting(k) ==
  \/ ipi = {k} /\ boot_pc[k] = "off" /\ ap_ready = 0
  \/ ipi = {} /\ boot_pc[k] \in ApPc /\ ap_ready = 0
  \/ ipi = {} /\ boot_pc[k] = "run" /\ ap_ready = 1
WaitPhase ==
  /\ is_ap /\ cpu[0] \in Processors
  /\ BootedBelow(cpu[0]) /\ Booting(cpu[0])

RunPhase == ipi = {} /\ \A d \in Processors : boot_pc[d] = "run"

(* As long as nobody halted. *)
Upwards ==
  /\ boot_pc[0] \in MainPc \cup {"bootap", "wait", "run"}
  /\ boot_pc[0] \in MainPc => MainPhase
  /\ boot_pc[0] \in {"bootap", "wait"} => cpu[0] >= 1
  /\ boot_pc[0] = "bootap" => NextPhase
  /\ boot_pc[0] = "wait" => WaitPhase
  /\ boot_pc[0] = "run" => RunPhase

(* After a halt the boot record leads nowhere, and nobody changes it back. *)
Downwards ==
  /\ \A c \in Processors : boot_pc[c] \notin {"bootcpu_init", "main", "os_init", "mpe_init"}
  /\ \A c \in Processors : boot_pc[c] \in {"load", "start_c"} => is_ap
  /\ BootStackExclusive

BootInv ==
  /\ BootType
  /\ jmp_code # "spin" => Upwards
  /\ jmp_code = "spin" => Downwards

-----------------------------------------------------------------------------
LEMMA CpuFacts ==
  BootType => /\ 0 \in Processors /\ Processors \subseteq Int /\ NCpu \in Int
              /\ \A d \in Processors : d >= 0 /\ d < NCpu
BY DEF BootType, Processors

LEMMA PhaseGivesStack == BootInv => BootStackExclusive
<1> SUFFICES ASSUME BootInv, jmp_code # "spin",
                    NEW c \in Processors, NEW d \in Processors, OnBootStack(c),
                         OnBootStack(d), c # d
             PROVE  FALSE
  BY DEF BootInv, Downwards, BootStackExclusive
<1>0. BootType
  BY DEF BootInv
<1> USE <1>0, CpuFacts DEF OnBootStack, BootPc
<1>1. Upwards
  BY DEF BootInv
<1>2. boot_pc[0] \in MainPc => \A e \in Processors \ {0} : ~OnBootStack(e)
  BY <1>1 DEF Upwards, MainPhase
<1>3. boot_pc[0] = "bootap" => \A e \in Processors : ~OnBootStack(e)
  BY <1>1 DEF Upwards, NextPhase, BootedBelow
<1>4. boot_pc[0] = "wait" => \A e \in Processors \ {cpu[0]} : ~OnBootStack(e)
  BY <1>1 DEF Upwards, WaitPhase, BootedBelow
<1>5. boot_pc[0] = "run" => \A e \in Processors : ~OnBootStack(e)
  BY <1>1 DEF Upwards, RunPhase
<1> QED BY <1>1, <1>2, <1>3, <1>4, <1>5 DEF Upwards

LEMMA InitBoot == BootInit => BootInv
<1> SUFFICES ASSUME BootInit PROVE BootInv
  OBVIOUS
<1>1. BootType
  BY BootAssumption DEF BootInit, BootType, BootPlaces, BootPc
<1> QED BY <1>1, CpuFacts DEF BootInit, BootInv, Upwards, MainPhase, MainPc

-----------------------------------------------------------------------------
LEMMA BootTypeStep == BootInv /\ [BootNext]_bootVars => BootType'
<1> SUFFICES ASSUME BootType, [BootNext]_bootVars PROVE BootType'
  BY DEF BootInv
<1> USE CpuFacts DEF BootType, BootPlaces, BootPc, KernelPc, HaltPc,
     DeadPc, At, BootGoto
<1>1. ASSUME NEW c \in Processors, Receive(c) PROVE BootType'
  BY <1>1 DEF Receive, Fetch
<1>2. ASSUME NEW c \in Processors, halt(c) PROVE BootType'
  BY <1>2 DEF halt, FirstToStop
<1>3. ASSUME NEW c \in Processors, load_kernel(c) \/ start_c(c)
     \/ os_run(c) \/ SwitchStack(c) \/ PerCpuInit(c)
      PROVE  BootType'
  BY <1>3 DEF load_kernel, start_c, os_run, SwitchStack,
       PerCpuInit
<1>4. ASSUME NEW c \in Processors, Ready(c) \/ bootcpu_init(c)
     \/ cte_init(c) \/ os_init(c) \/ mpe_init(c)
      PROVE  BootType'
  <2>1. ipi' = ipi
    BY <1>4 DEF Ready, bootcpu_init, cte_init, os_init,
         mpe_init
  <2>2. cpu' \in [Processors -> Nat]
    BY <1>4 DEF Ready, bootcpu_init, cte_init, os_init,
         mpe_init
  <2>3. boot_pc' = boot_pc \/ \E p \in {"run", "main", "os_init", "mpe_init",
       "bootap"} : BootGoto(c, p)
    BY <1>4 DEF Ready, bootcpu_init, cte_init, os_init,
         mpe_init
  <2>4. boot_pc' \in [Processors -> BootPlaces]
    BY <2>3
  <2> QED BY <2>1, <2>2, <2>4
<1>5. ASSUME NEW c \in Processors, BootAp(c) PROVE BootType'
  <2>1. cpu[c] < NCpu => cpu[c] \in Processors
    BY DEF Processors
  <2> QED BY <1>5, <2>1 DEF bootap, BootAp
<1>6. ASSUME NEW c \in Processors, WaitAp(c) PROVE BootType'
  BY <1>6 DEF WaitAp
<1>7. ASSUME NEW c \in Processors, stop_the_world(c) PROVE BootType'
  <2>1. cpu[c] < NCpu => cpu[c] \in Processors
    BY DEF Processors
  <2>2. ipi' \subseteq Processors
    BY <1>7, <2>1 DEF bootap, stop_the_world
  <2>4. cpu' \in [Processors -> Nat]
    <3>1. cpu' = cpu \/ cpu' = [cpu EXCEPT ![c] = cpu[c] + 1]
      BY <1>7 DEF bootap, stop_the_world
    <3> QED BY <3>1
  <2>3. boot_pc' \in [Processors -> BootPlaces]
    BY <1>7 DEF bootap, stop_the_world
  <2> QED BY <2>2, <2>3, <2>4
<1>8. ASSUME NEW c \in Processors, Outw(c) PROVE BootType'
  BY <1>8 DEF Outw
<1>9. CASE UNCHANGED bootVars
  BY <1>9 DEF bootVars
<1> QED BY <1>1, <1>2, <1>3, <1>4, <1>5, <1>6, <1>7, <1>8, <1>9 DEF BootNext, Step

(* After a halt: who is on the boot stack may leave it, nobody gets there. *)
LEMMA DownwardStep ==
  ASSUME BootInv, jmp_code = "spin", [BootNext]_bootVars
  PROVE  jmp_code' = "spin" /\ Downwards'
<1> USE CpuFacts DEF BootInv, BootType, Downwards, BootStackExclusive,
     OnBootStack, At, BootGoto
<1>1. ASSUME NEW c \in Processors, Receive(c) PROVE jmp_code' = "spin" /\ Downwards'
  BY <1>1 DEF Receive, Fetch, boot, BootPc
<1>2. ASSUME NEW c \in Processors, halt(c) PROVE jmp_code' = "spin" /\ Downwards'
  BY <1>2 DEF halt, StopCode, FirstToStop, BootPc
<1>3. ASSUME NEW c \in Processors, load_kernel(c)
     \/ start_c(c) PROVE jmp_code' = "spin" /\ Downwards'
  BY <1>3 DEF load_kernel, start_c, boot, BootPc
<1>4. ASSUME NEW c \in Processors, os_run(c) \/ SwitchStack(c)
     \/ PerCpuInit(c) \/ Ready(c)
      PROVE  jmp_code' = "spin" /\ Downwards'
  BY <1>4 DEF os_run, SwitchStack, PerCpuInit, Ready, boot,
       BootPc
<1>5. ASSUME NEW c \in Processors PROVE ~bootcpu_init(c) /\ ~cte_init(c) /\ ~os_init(c) /\ ~mpe_init(c)
  BY DEF bootcpu_init, cte_init, os_init, mpe_init
<1>6. ASSUME NEW c \in Processors, BootAp(c)
     \/ WaitAp(c) PROVE jmp_code' = "spin" /\ Downwards'
  BY <1>6 DEF bootap, BootAp, WaitAp, boot, BootPc
<1>7. ASSUME NEW c \in Processors, stop_the_world(c)
     \/ Outw(c) PROVE jmp_code' = "spin" /\ Downwards'
  BY <1>7 DEF bootap, stop_the_world, Outw, boot, BootPc
<1>8. CASE UNCHANGED bootVars
  BY <1>8 DEF bootVars, boot
<1> QED BY <1>1, <1>2, <1>3, <1>4, <1>5, <1>6, <1>7, <1>8 DEF BootNext, Step

-----------------------------------------------------------------------------
(* A CPU halts: what the phases say of the others is what Downwards asks.  *)
LEMMA HaltStep ==
  ASSUME BootInv, jmp_code # "spin", NEW c \in Processors, halt(c)
  PROVE  jmp_code' = "spin" /\ Downwards'
<1> USE CpuFacts DEF BootInv, BootType
<1>1. /\ jmp_code' = "spin" /\ is_ap' = is_ap
      /\ boot_pc' = [boot_pc EXCEPT ![c] = "stop"] /\ boot_pc[c] \in KernelPc
  BY DEF halt, BootGoto, StopCode, FirstToStop
<1>2. BootStackExclusive'
  BY <1>1, PhaseGivesStack DEF BootStackExclusive, OnBootStack, BootPc
<1>3. ASSUME NEW d \in Processors, d # c
      PROVE  /\ boot_pc[d] \notin {"bootcpu_init", "main", "os_init", "mpe_init"}
             /\ boot_pc[d] \in {"load", "start_c"} => is_ap
  <2> USE DEF Upwards, KernelPc
  <2>1. CASE boot_pc[0] \in MainPc
    BY <1>1, <1>3, <2>1 DEF MainPhase
  <2>2. CASE boot_pc[0] = "bootap"
    BY <2>2, <1>3 DEF NextPhase, BootedBelow
  <2>3. CASE boot_pc[0] = "wait"
    BY <2>3, <1>3 DEF WaitPhase, BootedBelow, Booting, ApPc
  <2>4. CASE boot_pc[0] = "run"
    BY <2>4 DEF RunPhase
  <2> QED BY <2>1, <2>2, <2>3, <2>4
<1> QED BY <1>1, <1>2, <1>3 DEF Downwards

(* Where a CPU is tells which steps it can take. *)
LEMMA StepPlace ==
  ASSUME NEW c \in Processors, Step(c)
  PROVE  \/ boot_pc[c] = "load" /\ load_kernel(c)
         \/ boot_pc[c] = "start_c" /\ start_c(c)
         \/ boot_pc[c] = "run" /\ os_run(c)
         \/ boot_pc[c] = "othercpu_entry" /\ SwitchStack(c)
         \/ boot_pc[c] = "percpu_init" /\ PerCpuInit(c)
         \/ boot_pc[c] = "ready" /\ Ready(c)
         \/ boot_pc[c] = "bootcpu_init" /\ bootcpu_init(c)
         \/ boot_pc[c] = "main" /\ cte_init(c)
         \/ boot_pc[c] = "os_init" /\ os_init(c)
         \/ boot_pc[c] = "mpe_init" /\ mpe_init(c)
         \/ boot_pc[c] = "bootap" /\ BootAp(c)
         \/ boot_pc[c] = "wait" /\ WaitAp(c)
         \/ boot_pc[c] = "stop" /\ stop_the_world(c)
         \/ boot_pc[c] = "outw" /\ Outw(c)
BY DEF Step, At, load_kernel, start_c, os_run, SwitchStack, PerCpuInit, Ready, bootcpu_init,
       cte_init, os_init, mpe_init, BootAp, WaitAp, stop_the_world, Outw

LEMMA UpwardStep ==
  ASSUME BootInv, jmp_code # "spin", NEW c \in Processors, Receive(c) \/ Step(c)
  PROVE  jmp_code' # "spin" /\ Upwards'
<1> USE CpuFacts DEF BootInv, BootType, BootGoto, At
<1>1. CASE boot_pc[0] \in MainPc
  <2>1. MainPhase
    BY <1>1 DEF Upwards
  <2>2. c = 0 \/ (boot_pc[c] = "off" /\ c \notin ipi)
    BY <2>1 DEF MainPhase
  <2>3. c = 0 /\ (load_kernel(0) \/ start_c(0) \/ bootcpu_init(0)
       \/ cte_init(0) \/ os_init(0) \/ mpe_init(0))
    BY <1>1, <2>1, <2>2, StepPlace DEF MainPhase, MainPc, Receive
  <2>4. CASE ~mpe_init(0)
    BY <2>1, <2>3, <2>4 DEF MainPhase, MainPc, load_kernel, start_c,
         bootcpu_init, cte_init, os_init, boot, handlers,
         Upwards
  <2>5. CASE mpe_init(0)
    BY <2>1, <2>5 DEF MainPhase, MainPc, mpe_init, Upwards, NextPhase, BootedBelow
  <2> QED BY <2>4, <2>5
<1>2. CASE boot_pc[0] = "bootap"
  <2>1. NextPhase /\ cpu[0] >= 1
    BY <1>2 DEF Upwards
  <2>2. \A d \in Processors \ {0} : boot_pc[d] \in {"run", "off"}
    BY <2>1 DEF NextPhase, BootedBelow
  <2>3. (c = 0 /\ BootAp(0)) \/ os_run(c)
    BY <1>2, <2>1, <2>2, StepPlace DEF NextPhase, Receive
  <2>4. CASE os_run(c)
    BY <1>2, <2>1, <2>4 DEF os_run, NextPhase, BootedBelow, Upwards, boot,
         MainPc
  <2>5. CASE BootAp(0) /\ cpu[0] < NCpu
    <3>1. cpu[0] \in Processors \ {0}
      BY <2>1, <2>5 DEF Processors
    <3> QED BY <1>2, <2>1, <2>5, <3>1 DEF bootap, BootAp, NextPhase,
         BootedBelow, Booting, WaitPhase, Upwards, MainPc
  <2>6. CASE BootAp(0) /\ ~(cpu[0] < NCpu)
    BY <1>2, <2>1, <2>6 DEF bootap, BootAp, NextPhase, BootedBelow, RunPhase,
         Upwards, MainPc
  <2> QED BY <2>3, <2>4, <2>5, <2>6
<1>3. CASE boot_pc[0] = "wait"
  <2> DEFINE k == cpu[0]
  <2>1. WaitPhase /\ k >= 1 /\ k \in Processors \ {0}
    BY <1>3 DEF Upwards, WaitPhase
  <2>2. \A d \in Processors \ {0, k} : boot_pc[d] \in {"run", "off"} /\ d \notin ipi
    BY <2>1 DEF WaitPhase, BootedBelow, Booting
  <2>3. \/ c = 0 /\ WaitAp(0)
        \/ os_run(c)
        \/ c = k /\ (Receive(k) \/ load_kernel(k) \/ start_c(k)
             \/ SwitchStack(k) \/ PerCpuInit(k) \/ Ready(k))
    <3>1. CASE c = 0
      BY <1>3, <2>1, <3>1, StepPlace DEF WaitPhase, Booting, Receive
    <3>2. CASE c = k
      BY <2>1, <3>2, StepPlace DEF WaitPhase, Booting, ApPc
    <3>3. CASE c \notin {0, k}
      BY <2>2, <3>3, StepPlace DEF Receive
    <3> QED BY <3>1, <3>2, <3>3
  <2>4. CASE WaitAp(0)
    BY <1>3, <2>1, <2>4 DEF WaitAp, AfterReady, WaitPhase, BootedBelow,
         Booting, ApPc, NextPhase, Upwards, boot, MainPc
  <2>5. CASE os_run(c)
    BY <1>3, <2>1, <2>5 DEF os_run, WaitPhase, BootedBelow, Booting, Upwards,
         boot, MainPc
  <2>6. CASE Receive(k)
    BY <1>3, <2>1, <2>6 DEF Receive, Fetch, WaitPhase, BootedBelow, Booting,
         ApPc, Upwards, boot, MainPc
  <2>7. CASE load_kernel(k) \/ start_c(k)
    BY <1>3, <2>1, <2>7 DEF load_kernel, start_c, WaitPhase, BootedBelow,
         Booting, ApPc, Upwards, boot, MainPc
  <2>8. CASE SwitchStack(k) \/ PerCpuInit(k) \/ Ready(k)
    BY <1>3, <2>1, <2>8 DEF SwitchStack, PerCpuInit, Ready, WaitPhase,
         BootedBelow, Booting, ApPc, Upwards, boot, MainPc
  <2> QED BY <2>3, <2>4, <2>5, <2>6, <2>7, <2>8
<1>4. CASE boot_pc[0] = "run"
  <2>1. RunPhase
    BY <1>4 DEF Upwards
  <2>2. os_run(c)
    BY <2>1, StepPlace DEF RunPhase, Receive
  <2> QED BY <1>4, <2>1, <2>2 DEF os_run, RunPhase, Upwards, boot, MainPc
<1> QED BY <1>1, <1>2, <1>3, <1>4 DEF Upwards

LEMMA NextBoot == BootInv /\ [BootNext]_bootVars => BootInv'
<1> SUFFICES ASSUME BootInv, [BootNext]_bootVars PROVE BootInv'
  OBVIOUS
<1>1. BootType'
  BY BootTypeStep
<1>2. CASE jmp_code = "spin"
  BY <1>1, <1>2, DownwardStep DEF BootInv
<1>3. CASE jmp_code # "spin" /\ UNCHANGED bootVars
  BY <1>1, <1>3 DEF BootInv, bootVars, boot, Upwards, MainPhase, NextPhase,
       WaitPhase, RunPhase, BootedBelow, Booting
<1>4. CASE jmp_code # "spin" /\ BootNext
  BY <1>1, <1>4, HaltStep, UpwardStep DEF BootInv, BootNext
<1> QED BY <1>2, <1>3, <1>4

(* For any number of CPUs, wherever CPUs halt: mpe_init's handshake keeps  *)
(* all but one CPU off the stack they boot on.                             *)
THEOREM OneOnBootStack == BootSpec => []BootStackExclusive
BY InitBoot, NextBoot, PhaseGivesStack, PTL DEF BootSpec

-----------------------------------------------------------------------------
(* os_trap's walk: what a node adds to the handlers called before it. *)
NodeCalls(L, event, i, before) ==
  IF \/ L[i].event \notin {"null", event}
     \/ event = "syscall" /\ before # << >>
  THEN before ELSE Append(before, L[i].handler)

WalkOf(L, event, f) ==
  /\ f[0] = << >>
  /\ \A i \in 1 .. Len(L) : f[i] = NodeCalls(L, event, i, f[i - 1])

\* There is such a walk, for the lists of at most six handlers of this kernel.
LEMMA WalkThere ==
  ASSUME NEW L, NEW event, Len(L) \in 0 .. 6
  PROVE  \E f : WalkOf(L, event, f) /\ Calls(L, event) = f[Len(L)]
<1> DEFINE N(i, b) == NodeCalls(L, event, i, b)
<1>1. PICK n \in 0 .. 6 : n = Len(L)
  OBVIOUS
<1>2. \E g : g = [i \in 0 .. n |-> IF i = 0 THEN << >> ELSE N(i, g[i - 1])]
  <2>1. PICK a1, a2, a3 : a1 = N(1, << >>) /\ a2 = N(2, a1) /\ a3 = N(3, a2)
    OBVIOUS
  <2>2. PICK a4, a5, a6 : a4 = N(4, a3) /\ a5 = N(5, a4) /\ a6 = N(6, a5)
    OBVIOUS
  <2> HIDE DEF N
  <2>3. PICK g : g = [i \in 0 .. n |-> IF i = 0 THEN << >> ELSE IF i = 1 THEN a1 ELSE IF i = 2 THEN a2
                                        ELSE IF i = 3 THEN a3 ELSE IF i = 4 THEN a4
                                        ELSE IF i = 5 THEN a5 ELSE a6]
    OBVIOUS
  <2>4. ASSUME NEW i \in 0 .. n PROVE g[i] = IF i = 0 THEN << >> ELSE N(i, g[i - 1])
    <3>1. i \in 0 .. 6 /\ (i > 0 => i - 1 \in 0 .. n)
      BY <1>1
    <3>2. i = 0 \/ i = 1 \/ i = 2 \/ i = 3 \/ i = 4 \/ i = 5 \/ i = 6
      BY <3>1
    <3> QED BY <2>1, <2>2, <2>3, <3>1, <3>2
  <2> QED BY <2>3, <2>4
<1>3. PICK f : /\ f = [i \in 0 .. n |-> IF i = 0 THEN << >> ELSE N(i, f[i - 1])]
               /\ Calls(L, event) = f[n]
  BY <1>1, <1>2 DEF Calls, NodeCalls
<1>4. f[0] = << >> /\ \A i \in 1 .. n : f[i] = N(i, f[i - 1])
  BY <1>1, <1>3
<1> QED BY <1>1, <1>3, <1>4 DEF WalkOf
-----------------------------------------------------------------------------
(* The list after k of the registrations: the two of kmt_init at its end in  *)
(* their order, before them the others, the last one first.                  *)
Regs  == Registrations
Nodes == {Regs[i] : i \in 1 .. 6}

Listed(L, k) ==
  /\ L \in Seq(Nodes) /\ Len(L) = k
  /\ k = 1 => L[1] = Regs[1]
  /\ k >= 2 => /\ L[k - 1] = Regs[1] /\ L[k] = Regs[2]
               /\ \A i \in 1 .. k - 2 : L[i] = Regs[k + 1 - i]

LEMMA RegFacts ==
  /\ Regs \in Seq(Nodes) /\ Len(Regs) = 6
  /\ Regs[1].seq = 0 /\ Regs[1].event = "null" /\ Regs[1].handler = "kmt_context_save"
  /\ Regs[2].seq = 10000 /\ Regs[2].event = "null" /\ Regs[2].handler = "kmt_schedule"
  /\ Regs[3].seq = 0 /\ Regs[3].event = "syscall" /\ Regs[3].handler = "syscall"
  /\ Regs[4].seq = 0 /\ Regs[4].event = "pagefault" /\ Regs[4].handler = "page_fault"
  /\ Regs[5].seq = 0 /\ Regs[5].event = "iodev" /\ Regs[5].handler = "input_notify"
  /\ Regs[6].seq = 0 /\ Regs[6].event = "timer" /\ Regs[6].handler = "input_notify"
<1>1. PICK a, b, c : /\ a = IRQ(0, "null", "kmt_context_save") /\ b = IRQ(10000, "null", "kmt_schedule")
                     /\ c = IRQ(0, "syscall", "syscall")
  OBVIOUS
<1>2. PICK d, e, f : /\ d = IRQ(0, "pagefault", "page_fault") /\ e = IRQ(0, "iodev", "input_notify")
                     /\ f = IRQ(0, "timer", "input_notify")
  OBVIOUS
<1>3. Regs = <<a, b, c, d, e, f>>
  BY <1>1, <1>2 DEF Regs, Registrations
<1>4. /\ Len(Regs) = 6 /\ Regs[1] = a /\ Regs[2] = b /\ Regs[3] = c /\ Regs[4] = d
      /\ Regs[5] = e /\ Regs[6] = f
  BY ONLY <1>3
<1>5. a \in Nodes /\ b \in Nodes /\ c \in Nodes /\ d \in Nodes /\ e \in Nodes /\ f \in Nodes
  BY ONLY <1>4 DEF Nodes
<1>6. Regs \in Seq(Nodes)
  BY ONLY <1>3, <1>5
<1> QED BY <1>1, <1>2, <1>4, <1>6 DEF IRQ

LEMMA NodeFacts ==
  ASSUME NEW x \in Nodes
  PROVE  \E i \in 1 .. 6 : x = Regs[i]
BY DEF Nodes

\* In front of a list, and behind it.
LEMMA InsertFirst ==
  ASSUME NEW L \in Seq(Nodes), NEW x \in Nodes
  PROVE  /\ InsertAt(L, 1, x) \in Seq(Nodes) /\ Len(InsertAt(L, 1, x)) = Len(L) + 1
         /\ InsertAt(L, 1, x)[1] = x
         /\ \A i \in 2 .. Len(L) + 1 : InsertAt(L, 1, x)[i] = L[i - 1]
<1>1. SubSeq(L, 1, 0) = << >> /\ SubSeq(L, 1, Len(L)) = L /\ << >> \o <<x>> = <<x>>
  BY SubSeqEmpty, SubSeqFull
<1>2. InsertAt(L, 1, x) = <<x>> \o L
  BY <1>1 DEF InsertAt
<1>3. <<x>> \in Seq(Nodes) /\ Len(<<x>>) = 1 /\ <<x>>[1] = x /\ Len(L) \in Nat
  BY LenProperties
<1>4. /\ <<x>> \o L \in Seq(Nodes) /\ Len(<<x>> \o L) = 1 + Len(L)
      /\ \A i \in 1 .. 1 + Len(L) : (<<x>> \o L)[i] = IF i <= 1 THEN <<x>>[i] ELSE L[i - 1]
  <2>1. PICK t \in Seq(Nodes) : t = <<x>>
    BY <1>3
  <2>2. /\ t \o L \in Seq(Nodes) /\ Len(t \o L) = Len(t) + Len(L)
        /\ \A i \in 1 .. Len(t) + Len(L) : (t \o L)[i] = IF i <= Len(t) THEN t[i] ELSE L[i - Len(t)]
    BY ONLY L \in Seq(Nodes), t \in Seq(Nodes), ConcatProperties
  <2>3. Len(t) = 1
    BY <1>3, <2>1
  <2> QED BY ONLY <2>1, <2>2, <2>3
<1>5. PICK s : s = <<x>> \o L
  OBVIOUS
<1>6. s \in Seq(Nodes) /\ Len(s) = Len(L) + 1 /\ s[1] = x /\ \A i \in 2 .. Len(L) + 1 : s[i] = L[i - 1]
  BY ONLY <1>3, <1>4, <1>5
<1> QED BY ONLY <1>2, <1>5, <1>6

LEMMA InsertLast ==
  ASSUME NEW L \in Seq(Nodes), NEW x \in Nodes
  PROVE  /\ InsertAt(L, Len(L) + 1, x) \in Seq(Nodes)
         /\ Len(InsertAt(L, Len(L) + 1, x)) = Len(L) + 1
         /\ InsertAt(L, Len(L) + 1, x)[Len(L) + 1] = x
         /\ \A i \in 1 .. Len(L) : InsertAt(L, Len(L) + 1, x)[i] = L[i]
<1>0. PICK n : n = Len(L) + 1
  OBVIOUS
<1>1. n \in Nat /\ n - 1 = Len(L) /\ Len(L) < n /\ Len(L) \in Nat
  BY <1>0, LenProperties
<1>2. SubSeq(L, 1, n - 1) = L /\ SubSeq(L, n, Len(L)) = << >>
  BY <1>1, SubSeqEmpty, SubSeqFull
<1>3. InsertAt(L, n, x) = (L \o <<x>>) \o << >>
  BY <1>2 DEF InsertAt
<1> QED BY <1>0, <1>1, <1>3

\* os_on_irq with the next registration.
LEMMA ListGrows ==
  ASSUME NEW k \in 0 .. 5, NEW L, Listed(L, k)
  PROVE  Listed(OnIrq(L, Regs[k + 1]), k + 1)
<1>0. L \in Seq(Nodes) /\ Len(L) = k /\ k + 1 \in 1 .. 6 /\ DOMAIN L = 1 .. k
  BY LenProperties DEF Listed
<1>1. PICK x \in Nodes : x = Regs[k + 1]
  BY <1>0 DEF Nodes
<1>2. PICK later : later = {i \in DOMAIN L : L[i].seq >= x.seq}
  OBVIOUS
<1>3. PICK p : p = InsertPlace(L, x.seq) /\ p = IF later = {} THEN k + 1 ELSE Min(later)
  BY <1>0, <1>2 DEF InsertPlace
<1>4. PICK M : M = InsertAt(L, p, x) /\ M = OnIrq(L, Regs[k + 1])
  BY <1>1, <1>3 DEF OnIrq
<1>5. CASE k <= 1
  <2>1. later = {}
    BY <1>0, <1>1, <1>2, <1>5, RegFacts DEF Listed
  <2>2. p = k + 1
    BY <1>3, <2>1
  <2>3. /\ M \in Seq(Nodes) /\ Len(M) = k + 1 /\ M[k + 1] = x
        /\ \A i \in 1 .. k : M[i] = L[i]
    <3>1. M = InsertAt(L, Len(L) + 1, x)
      <4>1. p = Len(L) + 1
        BY <1>0, <2>2
      <4> QED BY ONLY <1>4, <4>1
    <3>2. /\ M \in Seq(Nodes) /\ Len(M) = Len(L) + 1 /\ M[Len(L) + 1] = x
          /\ \A i \in 1 .. Len(L) : M[i] = L[i]
      BY ONLY <1>0, x \in Nodes, <3>1, InsertLast
    <3> QED BY ONLY <1>0, <3>2
  <2> QED BY <1>0, <1>1, <1>4, <1>5, <2>3 DEF Listed
<1>6. CASE k >= 2
  <2>1. x.seq = 0
    <3>1. k = 2 \/ k = 3 \/ k = 4 \/ k = 5
      BY <1>6
    <3> QED BY <3>1, <1>1, RegFacts
  <2>2. \A i \in 1 .. k : L[i].seq \in Nat
    <3>1. \A j \in 1 .. 6 : Regs[j].seq \in Nat
      BY RegFacts
    <3>2. \A i \in 1 .. k : L[i] \in Nodes
      BY <1>0, ElementOfSeq
    <3> QED BY <3>1, <3>2, NodeFacts
  <2>3. later = 1 .. k
    BY <1>0, <1>2, <2>1, <2>2
  <2>4. Min(later) = 1
    <3>1. 1 \in later /\ (\A y \in later : 1 =< y) /\ \A z \in later : (\A y \in later : z =< y) => z = 1
      BY <2>3, <1>6
    <3> QED BY <3>1 DEF Min
  <2>5. p = 1
    BY <1>3, <1>6, <2>3, <2>4
  <2>6. /\ M \in Seq(Nodes) /\ Len(M) = k + 1 /\ M[1] = x
        /\ \A i \in 2 .. k + 1 : M[i] = L[i - 1]
    <3>1. M = InsertAt(L, 1, x)
      BY <1>4, <2>5
    <3> QED BY ONLY <1>0, x \in Nodes, <3>1, InsertFirst
  <2>7. M[k] = L[k - 1] /\ M[k + 1] = L[k]
    BY <1>6, <2>6
  <2>8. ASSUME NEW i \in 1 .. k - 1 PROVE M[i] = Regs[k + 2 - i]
    <3>1. CASE i = 1
      BY <3>1, <1>1, <2>6
    <3>2. CASE i # 1
      <4>1. i - 1 \in 1 .. k - 2 /\ i \in 2 .. k + 1 /\ k + 1 - (i - 1) = k + 2 - i
        BY <3>2
      <4> QED BY <4>1, <1>6, <2>6 DEF Listed
    <3> QED BY <3>1, <3>2
  <2>9. /\ (k + 1) - 1 = k /\ (k + 1) - 2 = k - 1 /\ (k + 1) + 1 = k + 2
    OBVIOUS
  <2> QED BY <1>4, <1>6, <2>6, <2>7, <2>8, <2>9 DEF Listed
<1> QED BY <1>5, <1>6
-----------------------------------------------------------------------------
(* The handlers called on a complete list. *)
OwnOf(event, k) ==
  IF event = "syscall" THEN <<"syscall">>
  ELSE IF event = "pagefault" THEN <<"page_fault">>
  ELSE IF event \in {"timer", "iodev"} /\ k = 6 THEN <<"input_notify">>
  ELSE << >>

LastOf(event) ==
  IF event = "syscall" THEN << >> ELSE <<"kmt_context_save", "kmt_schedule">>

LEMMA AppendOnes ==
  ASSUME NEW a, NEW b, NEW c
  PROVE  /\ Append(<< >>, a) = <<a>> /\ Append(<<a>>, b) = <<a, b>>
         /\ Append(<<a, b>>, c) = <<a, b, c>> /\ <<a>> # << >>
         /\ <<a>> \o <<b, c>> = <<a, b, c>> /\ << >> \o <<b, c>> = <<b, c>>
         /\ <<a>> \o << >> = <<a>>
<1>0. PICK S : a \in S /\ b \in S /\ c \in S
  <2>1. a \in {a, b, c} /\ b \in {a, b, c} /\ c \in {a, b, c}
    OBVIOUS
  <2> QED BY <2>1
<1>1. PICK s : s = <<a>>
  OBVIOUS
<1>2. PICK t : t = <<b, c>>
  OBVIOUS
<1>3. PICK u : u = <<a, b, c>>
  OBVIOUS
<1>4. PICK v : v = <<a, b>>
  OBVIOUS
<1>5. s \in Seq(S) /\ Len(s) = 1 /\ s[1] = a
  BY ONLY <1>0, <1>1
<1>6. t \in Seq(S) /\ Len(t) = 2 /\ t[1] = b /\ t[2] = c
  BY ONLY <1>0, <1>2
<1>7. u \in Seq(S) /\ Len(u) = 3 /\ u[1] = a /\ u[2] = b /\ u[3] = c
  BY ONLY <1>0, <1>3
<1>8. v \in Seq(S) /\ Len(v) = 2 /\ v[1] = a /\ v[2] = b
  BY ONLY <1>0, <1>4
<1>9. Append(<< >>, a) = s
  BY <1>1
<1>10. Append(s, b) = v
  <2>1. PICK w : w = Append(s, b)
    OBVIOUS
  <2>3. /\ Append(s, b) \in Seq(S) /\ Len(Append(s, b)) = Len(s) + 1
        /\ \A i \in 1 .. Len(s) : Append(s, b)[i] = s[i]
        /\ Append(s, b)[Len(s) + 1] = b
    BY <1>0, <1>5, AppendProperties
  <2>2. w \in Seq(S) /\ Len(w) = 2 /\ w[1] = a /\ w[2] = b
    BY ONLY <1>5, <2>1, <2>3
  <2> QED BY ONLY <1>8, <2>1, <2>2, SeqEqual
<1>11. Append(v, c) = u
  <2>1. PICK w : w = Append(v, c)
    OBVIOUS
  <2>3. /\ Append(v, c) \in Seq(S) /\ Len(Append(v, c)) = Len(v) + 1
        /\ \A i \in 1 .. Len(v) : Append(v, c)[i] = v[i]
        /\ Append(v, c)[Len(v) + 1] = c
    <3>1. v \in Seq(S) /\ c \in S
      BY <1>0, <1>8
    <3> QED BY ONLY <3>1, AppendProperties
  <2>2. w \in Seq(S) /\ Len(w) = 3 /\ w[1] = a /\ w[2] = b /\ w[3] = c
    BY ONLY <1>8, <2>1, <2>3
  <2> QED BY ONLY <1>7, <2>1, <2>2, SeqEqual
<1>12. s \o t = u
  <2>1. PICK w : w = s \o t
    OBVIOUS
  <2>2. w \in Seq(S) /\ Len(w) = 3 /\ \A i \in 1 .. 3 : w[i] = IF i <= 1 THEN s[i] ELSE t[i - 1]
    <3>1. /\ s \o t \in Seq(S) /\ Len(s \o t) = Len(s) + Len(t)
          /\ \A i \in 1 .. Len(s) + Len(t) : (s \o t)[i] = IF i <= Len(s) THEN s[i] ELSE t[i - Len(s)]
      BY <1>5, <1>6, ConcatProperties
    <3> QED BY ONLY <1>5, <1>6, <2>1, <3>1
  <2>3. w[1] = a /\ w[2] = b /\ w[3] = c
    BY ONLY <1>5, <1>6, <2>2
  <2>4. w = u
    BY ONLY <1>7, <2>2, <2>3, SeqEqual
  <2> QED BY ONLY <2>1, <2>4
<1>13. << >> \o t = t /\ s \o << >> = s
  BY ONLY <1>5, <1>6, ConcatEmptySeq
<1>14. s # << >>
  <2>1. << >> \in Seq(S) /\ a \in S
    BY ONLY <1>0, EmptySeq
  <2>2. Append(<< >>, a) # << >>
    BY ONLY <2>1, AppendProperties
  <2> QED BY ONLY <1>9, <2>2
<1> QED BY ONLY <1>1, <1>2, <1>3, <1>4, <1>9, <1>10, <1>11, <1>12, <1>13, <1>14

\* A node for another event adds nothing, and the first for this one its handler.
LEMMA NodeAdds ==
  ASSUME NEW L, NEW event, NEW i, NEW before
  PROVE  /\ L[i].event \notin {"null", event} => NodeCalls(L, event, i, before) = before
         /\ L[i].event = event /\ before = << >> => NodeCalls(L, event, i, before) = <<L[i].handler>>
BY AppendOnes DEF NodeCalls

LEMMA ListCalls ==
  ASSUME NEW k \in {4, 6}, NEW L, Listed(L, k), NEW event \in Events
  PROVE  Calls(L, event) = OwnOf(event, k) \o LastOf(event)
<1>0. L \in Seq(Nodes) /\ Len(L) = k
  BY DEF Listed
<1>1. PICK f : WalkOf(L, event, f) /\ Calls(L, event) = f[k]
  <2>1. Len(L) \in 0 .. 6
    BY <1>0
  <2>2. PICK f : WalkOf(L, event, f) /\ Calls(L, event) = f[Len(L)]
    BY <2>1, WalkThere
  <2> QED BY <2>2, <1>0
<1>2. f[0] = << >> /\ \A i \in 1 .. k : f[i] = NodeCalls(L, event, i, f[i - 1])
  BY <1>0, <1>1 DEF WalkOf
<1>3. event \in {"timer", "iodev", "pagefault", "yield", "error", "syscall"}
  BY DEF Events
<1>4. f[k - 2] = OwnOf(event, k)
  <2>1. CASE k = 4
    <3>1. L[1] = Regs[4] /\ L[2] = Regs[3]
      BY <2>1 DEF Listed
    <3>2. f[1] = NodeCalls(L, event, 1, << >>) /\ f[2] = NodeCalls(L, event, 2, f[1])
      BY <2>1, <1>2
    <3>3. f[1] = IF event = "pagefault" THEN <<"page_fault">> ELSE << >>
      BY <3>1, <3>2, <1>3, RegFacts, NodeAdds
    <3>4. f[2] = IF event = "syscall" THEN <<"syscall">> ELSE f[1]
      BY <3>1, <3>2, <3>3, <1>3, RegFacts, NodeAdds
    <3> QED BY <2>1, <3>3, <3>4 DEF OwnOf
  <2>2. CASE k = 6
    <3>1. L[1] = Regs[6] /\ L[2] = Regs[5] /\ L[3] = Regs[4] /\ L[4] = Regs[3]
      BY <2>2 DEF Listed
    <3>2. /\ f[1] = NodeCalls(L, event, 1, << >>) /\ f[2] = NodeCalls(L, event, 2, f[1])
          /\ f[3] = NodeCalls(L, event, 3, f[2]) /\ f[4] = NodeCalls(L, event, 4, f[3])
      BY <2>2, <1>2
    <3>3. f[1] = IF event = "timer" THEN <<"input_notify">> ELSE << >>
      BY <3>1, <3>2, <1>3, RegFacts, NodeAdds
    <3>4. f[2] = IF event = "iodev" THEN <<"input_notify">> ELSE f[1]
      <4>1. CASE event = "iodev"
        <5>1. f[1] = << >> /\ L[2].event = event /\ L[2].handler = "input_notify"
          BY <3>1, <3>3, <4>1, RegFacts
        <5> QED BY <3>2, <4>1, <5>1, NodeAdds
      <4>2. CASE event # "iodev"
        BY <3>1, <3>2, <4>2, <1>3, RegFacts, NodeAdds
      <4> QED BY <4>1, <4>2
    <3>5. f[3] = IF event = "pagefault" THEN <<"page_fault">> ELSE f[2]
      BY <3>1, <3>2, <3>3, <3>4, <1>3, RegFacts, NodeAdds
    <3>6. f[4] = IF event = "syscall" THEN <<"syscall">> ELSE f[3]
      BY <3>1, <3>2, <3>3, <3>4, <3>5, <1>3, RegFacts, NodeAdds
    <3> QED BY <2>2, <3>3, <3>4, <3>5, <3>6, <1>3 DEF OwnOf
  <2> QED BY <2>1, <2>2
<1>5. L[k - 1] = Regs[1] /\ L[k] = Regs[2]
  BY DEF Listed
<1>6. f[k - 1] = NodeCalls(L, event, k - 1, f[k - 2]) /\ f[k] = NodeCalls(L, event, k, f[k - 1])
  <2>1. k - 1 \in 1 .. k /\ k \in 1 .. k /\ (k - 1) - 1 = k - 2
    OBVIOUS
  <2> QED BY <2>1, <1>2
<1>7. CASE event = "syscall"
  <2>1. f[k - 2] = <<"syscall">> /\ LastOf(event) = << >> /\ OwnOf(event, k) = <<"syscall">>
    BY <1>4, <1>7 DEF OwnOf, LastOf
  <2>2. f[k] = <<"syscall">>
    BY <1>5, <1>6, <1>7, <2>1, AppendOnes DEF NodeCalls
  <2> QED BY <1>1, <2>1, <2>2, AppendOnes
<1>8. CASE event # "syscall"
  <2>1. /\ f[k - 1] = Append(OwnOf(event, k), "kmt_context_save")
        /\ f[k] = Append(f[k - 1], "kmt_schedule")
    BY <1>4, <1>5, <1>6, <1>8, RegFacts DEF NodeCalls
  <2>2. LastOf(event) = <<"kmt_context_save", "kmt_schedule">>
    BY <1>8 DEF LastOf
  <2>3. OwnOf(event, k) = << >> \/ OwnOf(event, k) = <<"page_fault">> \/ OwnOf(event, k) = <<"input_notify">>
    BY <1>8 DEF OwnOf
  <2>4. f[k] = OwnOf(event, k) \o LastOf(event)
    BY <2>1, <2>2, <2>3, AppendOnes
  <2> QED BY <1>1, <2>4
<1> QED BY <1>7, <1>8
LEMMA BuildFacts ==
  ASSUME NEW B \in Builds
  PROVE  /\ Len(B) \in {4, 6} /\ DOMAIN B = 1 .. Len(B) /\ 1 .. Len(B) \subseteq 1 .. 6
         /\ \A i \in 1 .. Len(B) : B[i] = Regs[i]
<1>1. CASE B = Regs
  BY <1>1, RegFacts, LenProperties
<1>2. CASE B = SubSeq(Regs, 1, 4)
  <2>1. \A i \in 1 .. 4 : Regs[i] \in Nodes
    BY DEF Nodes
  <2>2. /\ SubSeq(Regs, 1, 4) \in Seq(Nodes) /\ Len(SubSeq(Regs, 1, 4)) = 4
        /\ \A i \in 1 .. 4 : SubSeq(Regs, 1, 4)[i] = Regs[i]
    BY <2>1, SubSeqProperties
  <2> QED BY <1>2, <2>2, LenProperties
<1> QED BY <1>1, <1>2 DEF Builds, Regs

LEMMA CallsComplete ==
  ASSUME build \in Builds, Listed(irqs, Len(build)), NEW event \in Events
  PROVE  Complete(event)
<1>1. PICK k \in {4, 6} : k = Len(build)
  BY BuildFacts
<1>2. DOMAIN build = 1 .. k /\ \A i \in 1 .. k : build[i] = Regs[i]
  BY <1>1, BuildFacts
<1>3. PICK own : own = {<<build[i].handler>> : i \in Own(event)}
  OBVIOUS
<1>4. event \in {"timer", "iodev", "pagefault", "yield", "error", "syscall"}
  BY DEF Events
<1>5. OwnOf(event, k) \in IF own = {} THEN {<< >>} ELSE own
  <2>1. ASSUME NEW i \in 1 .. k, Regs[i].event = event PROVE <<Regs[i].handler>> \in own
    BY <2>1, <1>2, <1>3 DEF Own
  <2>2. ASSUME \A i \in 1 .. k : Regs[i].event # event PROVE own = {}
    BY <2>2, <1>2, <1>3 DEF Own
  <2>3. \A i \in 1 .. k : i = 1 \/ i = 2 \/ i = 3 \/ i = 4 \/ (k = 6 /\ i = 5) \/ (k = 6 /\ i = 6)
    OBVIOUS
  <2>4. 3 \in 1 .. k /\ 4 \in 1 .. k /\ (k = 6 => 5 \in 1 .. k /\ 6 \in 1 .. k)
    OBVIOUS
  <2>5. CASE event = "syscall"
    BY <2>1, <2>4, <2>5, RegFacts DEF OwnOf
  <2>6. CASE event = "pagefault"
    BY <2>1, <2>4, <2>6, RegFacts DEF OwnOf
  <2>7. CASE event \in {"timer", "iodev"} /\ k = 6
    BY <2>1, <2>4, <2>7, RegFacts DEF OwnOf
  <2>8. CASE ~(event \in {"syscall", "pagefault"} \/ (event \in {"timer", "iodev"} /\ k = 6))
    <3>1. \A i \in 1 .. k : Regs[i].event # event
      BY <2>3, <2>8, <1>4, RegFacts
    <3>2. OwnOf(event, k) = << >>
      BY <2>8 DEF OwnOf
    <3> QED BY <2>2, <3>1, <3>2
  <2> QED BY <2>5, <2>6, <2>7, <2>8
<1>6. Calls(irqs, event) = OwnOf(event, k) \o LastOf(event)
  BY <1>1, ListCalls
<1> QED BY <1>3, <1>5, <1>6 DEF Complete, LastOf

-----------------------------------------------------------------------------
(* Who can be interrupted has its idt and the complete list.  Before mpe_init *)
(* the boot CPU is alone, and fills the list; afterwards is_ap keeps the      *)
(* image, and with it the list, from being loaded again.                      *)
HandlersSet == user_handler /\ Listed(irqs, Len(build))

HasHandlers == {"mpe_init", "bootap", "wait", "run", "othercpu_entry", "percpu_init", "ready"}
HasIdt      == {"main", "os_init", "mpe_init", "bootap", "wait", "run", "ready"}

HandlersAt(c) ==
  /\ boot_pc[c] \in HasHandlers => HandlersSet
  /\ boot_pc[c] = "os_init" => user_handler /\ \E k \in 0 .. Len(build) : Listed(irqs, k)
  /\ boot_pc[c] \in {"bootcpu_init", "main"} => Listed(irqs, 0)
  /\ boot_pc[c] = "start_c" /\ ~is_ap => Listed(irqs, 0)
  /\ boot_pc[c] \in HasIdt => idtr[c]
  /\ enabled[c] => boot_pc[c] = "run"

HandlersInv ==
  /\ build \in Builds
  /\ idtr \in [Processors -> BOOLEAN] /\ enabled \in [Processors -> BOOLEAN]
  /\ is_ap => HandlersSet
  /\ \A c \in Processors : HandlersAt(c)

LEMMA InvGivesOrder == HandlersInv => TrapOrder
BY CallsComplete DEF HandlersInv, HandlersAt, HandlersSet, HasHandlers, HasIdt, TrapOrder

LEMMA ListEmpty == Listed(<< >>, 0)
BY EmptySeq DEF Listed

LEMMA HandlersInit == BootInit => HandlersInv
BY ListEmpty DEF BootInit, HandlersInv, HandlersAt, HasHandlers, HasIdt

\* Whoever fills the list is alone.
Filling(c) ==
  \/ boot_pc[c] \in {"bootcpu_init", "main", "os_init", "mpe_init"}
  \/ boot_pc[c] \in {"load", "start_c"} /\ ~is_ap

LEMMA FillsAlone ==
  ASSUME BootInv, NEW c \in Processors, Filling(c)
  PROVE  ~is_ap /\ \A d \in Processors \ {c} : boot_pc[d] = "off"
<1> USE CpuFacts DEF BootInv, BootType
<1>1. jmp_code # "spin" /\ Upwards
  BY DEF Downwards, Filling
<1>2. CASE boot_pc[0] \in MainPc
  BY <1>1, <1>2 DEF Upwards, MainPhase, Filling
<1>3. CASE boot_pc[0] = "bootap"
  BY <1>1, <1>3 DEF Upwards, NextPhase, BootedBelow, Filling
<1>4. CASE boot_pc[0] = "wait"
  BY <1>1, <1>4 DEF Upwards, WaitPhase, BootedBelow, Booting, ApPc, Filling
<1>5. CASE boot_pc[0] = "run"
  BY <1>1, <1>5 DEF Upwards, RunPhase, Filling
<1> QED BY <1>1, <1>2, <1>3, <1>4, <1>5 DEF Upwards
\* A step of c that leaves the list as it is.
LEMMA ListKept ==
  ASSUME BootInv, HandlersInv, UNCHANGED handlers,
         NEW c \in Processors, NEW p, NEW i \in BOOLEAN, NEW e \in BOOLEAN,
         boot_pc' = [boot_pc EXCEPT ![c] = p],
         idtr' = [idtr EXCEPT ![c] = i], enabled' = [enabled EXCEPT ![c] = e],
         is_ap => is_ap', is_ap' => HandlersSet,
         p \in HasHandlers => HandlersSet,
         p = "os_init" => user_handler /\ \E k \in 0 .. Len(build) : Listed(irqs, k),
         p \in {"bootcpu_init", "main"} => Listed(irqs, 0),
         p = "start_c" /\ ~is_ap' => Listed(irqs, 0),
         p \in HasIdt => i, e => p = "run"
  PROVE  HandlersInv'
<1>1. build' = build /\ irqs' = irqs /\ user_handler' = user_handler /\ HandlersSet' = HandlersSet
  BY DEF handlers, HandlersSet
<1>2. ASSUME NEW d \in Processors PROVE HandlersAt(d)'
  <2>1. /\ boot_pc'[d] = IF d = c THEN p ELSE boot_pc[d]
        /\ idtr'[d] = IF d = c THEN i ELSE idtr[d] 
        /\ enabled'[d] = IF d = c THEN e ELSE enabled[d]
    BY DEF BootInv, BootType, HandlersInv
  <2>2. HandlersAt(d)
    BY DEF HandlersInv
  <2>3. CASE d = c
    BY <1>1, <2>1, <2>3 DEF HandlersAt
  <2>4. CASE d # c
    BY <1>1, <2>1, <2>2, <2>4 DEF HandlersAt
  <2> QED BY <2>3, <2>4
<1>3. idtr' \in [Processors -> BOOLEAN] /\ enabled' \in [Processors -> BOOLEAN]
  BY DEF HandlersInv
<1> QED BY <1>1, <1>2, <1>3 DEF HandlersInv

\* The steps that change it are made by one who is alone.
LEMMA ListChanged ==
  ASSUME BootInv, HandlersInv, NEW c \in Processors, Filling(c), NEW p,
         boot_pc' = [boot_pc EXCEPT ![c] = p], build' = build,
         UNCHANGED <<idtr, enabled, is_ap>>,
         p \in HasHandlers => HandlersSet',
         p = "os_init" => user_handler' /\ \E k \in 0 .. Len(build) : Listed(irqs', k),
         p \in {"bootcpu_init", "main", "start_c"} => Listed(irqs', 0),
         p \in HasIdt => idtr[c], p # "run", boot_pc[c] # "run"
  PROVE  HandlersInv'
<1>1. ~is_ap /\ \A d \in Processors \ {c} : boot_pc[d] = "off"
  BY FillsAlone
<1>2. ASSUME NEW d \in Processors PROVE HandlersAt(d)'
  <2>1. boot_pc'[d] = IF d = c THEN p ELSE boot_pc[d]
    BY DEF BootInv, BootType
  <2>2. HandlersAt(d)
    BY DEF HandlersInv
  <2>3. CASE d = c
    BY <2>1, <2>2, <2>3 DEF HandlersAt
  <2>4. CASE d # c
    BY <1>1, <2>1, <2>2, <2>4 DEF HandlersAt, HasHandlers, HasIdt
  <2> QED BY <2>3, <2>4
<1> QED BY <1>1, <1>2 DEF HandlersInv

LEMMA HandlersStep == BootInv /\ HandlersInv /\ [BootNext]_bootVars => HandlersInv'
<1> SUFFICES ASSUME BootInv, HandlersInv, [BootNext]_bootVars PROVE HandlersInv'
  OBVIOUS
<1>0. /\ boot_pc \in [Processors -> BootPlaces]
      /\ idtr \in [Processors -> BOOLEAN] /\ enabled \in [Processors -> BOOLEAN]
  BY DEF BootInv, BootType, HandlersInv
<1>1. ASSUME NEW c \in Processors, Receive(c) PROVE HandlersInv'
  <2>1. /\ boot_pc' = [boot_pc EXCEPT ![c] = Fetch(jmp_code)]
        /\ idtr' = [idtr EXCEPT ![c] = FALSE] /\ enabled' = [enabled EXCEPT ![c] = FALSE]
        /\ UNCHANGED <<handlers, is_ap>>
    BY <1>1 DEF Receive, BootGoto, boot
  <2>2. Fetch(jmp_code) \in {"spin", "load"}
    BY DEF Fetch
  <2> QED BY <2>1, <2>2, ListKept DEF HasHandlers, HasIdt, HandlersInv
<1>2. ASSUME NEW c \in Processors, halt(c) PROVE HandlersInv'
  <2>1. /\ boot_pc' = [boot_pc EXCEPT ![c] = "stop"] /\ idtr' = [idtr EXCEPT ![c] = idtr[c]]
        /\ enabled' = [enabled EXCEPT ![c] = FALSE] /\ UNCHANGED <<handlers, is_ap>>
    BY <1>0, <1>2 DEF halt, BootGoto
  <2> QED BY <1>0, <2>1, ListKept DEF HasHandlers, HasIdt, HandlersInv
<1>3. ASSUME NEW c \in Processors, load_kernel(c) PROVE HandlersInv'
  <2>1. /\ boot_pc' = [boot_pc EXCEPT ![c] = "start_c"] /\ boot_pc[c] = "load"
        /\ UNCHANGED <<idtr, enabled, is_ap, build>>
    BY <1>3 DEF load_kernel, BootGoto, At, boot, flags
  <2>2. CASE is_ap
    <3>1. /\ UNCHANGED handlers
          /\ idtr' = [idtr EXCEPT ![c] = idtr[c]] /\ enabled' = [enabled EXCEPT ![c] = enabled[c]]
      BY <1>0, <1>3, <2>1, <2>2 DEF load_kernel, handlers
    <3>2. ~enabled[c]
      BY <2>1 DEF HandlersInv, HandlersAt
    <3> QED BY <1>0, <2>1, <2>2, <3>1, <3>2, ListKept DEF HasHandlers, HasIdt, HandlersInv
  <2>3. CASE ~is_ap
    <3>1. Listed(irqs', 0) /\ Filling(c)
      BY <1>3, <2>1, <2>3, ListEmpty DEF load_kernel, Filling
    <3> QED BY <2>1, <3>1, ListChanged DEF HasHandlers, HasIdt
  <2> QED BY <2>2, <2>3
<1>4. ASSUME NEW c \in Processors, cte_init(c) PROVE HandlersInv'
  <2>1. /\ boot_pc' = [boot_pc EXCEPT ![c] = "os_init"] /\ boot_pc[c] = "main"
        /\ UNCHANGED <<idtr, enabled, is_ap, build, irqs>> /\ user_handler'
    BY <1>4 DEF cte_init, BootGoto, At, boot, flags
  <2>2. Listed(irqs, 0) /\ idtr[c] /\ 0 \in 0 .. Len(build)
    BY <2>1, BuildFacts DEF HandlersInv, HandlersAt, HasIdt
  <2> QED BY <2>1, <2>2, ListChanged DEF HasHandlers, Filling
<1>5. ASSUME NEW c \in Processors, os_init(c) PROVE HandlersInv'
  <2>1. /\ boot_pc[c] = "os_init" /\ UNCHANGED <<idtr, enabled, is_ap, build, user_handler>>
    BY <1>5 DEF os_init, At, boot, flags
  <2>2. PICK k \in 0 .. Len(build) : Listed(irqs, k) /\ k = Len(irqs)
    BY <2>1 DEF HandlersInv, HandlersAt, Listed
  <2>3. user_handler /\ idtr[c] /\ Len(build) \in {4, 6} /\ Filling(c)
    BY <2>1, BuildFacts DEF HandlersInv, HandlersAt, HasIdt, Filling
  <2>4. CASE k < Len(build)
    <3>1. /\ boot_pc' = [boot_pc EXCEPT ![c] = "os_init"]
          /\ irqs' = OnIrq(irqs, build[k + 1])
      BY <1>0, <1>5, <2>1, <2>2, <2>4 DEF os_init
    <3>2. k \in 0 .. 5 /\ k + 1 \in 0 .. Len(build) /\ k + 1 \in 1 .. Len(build)
      <4>1. PICK n \in {4, 6} : n = Len(build)
        BY <2>3
      <4>2. k \in 0 .. n /\ k < n
        BY <4>1, <2>2, <2>4
      <4> QED BY ONLY <4>1, <4>2
    <3>3. build[k + 1] = Regs[k + 1]
      BY <3>2, BuildFacts DEF HandlersInv
    <3>4. Listed(irqs', k + 1)
      BY <2>2, <3>1, <3>2, <3>3, ListGrows
    <3> QED BY <2>1, <2>3, <3>1, <3>2, <3>4, ListChanged DEF HasHandlers
  <2>5. CASE k = Len(build)
    <3>1. boot_pc' = [boot_pc EXCEPT ![c] = "mpe_init"] /\ irqs' = irqs
      BY <1>5, <2>2, <2>3, <2>5 DEF os_init, BootGoto
    <3>2. HandlersSet'
      BY <2>1, <2>2, <2>3, <2>5, <3>1 DEF HandlersSet
    <3> QED BY <2>1, <2>3, <3>1, <3>2, ListChanged
  <2> QED BY <2>2, <2>3, <2>4, <2>5
<1>6. ASSUME NEW c \in Processors, start_c(c) PROVE HandlersInv'
  <2>1. /\ boot_pc' = [boot_pc EXCEPT ![c] = IF is_ap THEN "othercpu_entry" ELSE "bootcpu_init"]
        /\ boot_pc[c] = "start_c" /\ UNCHANGED <<handlers, is_ap>>
        /\ idtr' = [idtr EXCEPT ![c] = idtr[c]] /\ enabled' = [enabled EXCEPT ![c] = enabled[c]]
    BY <1>0, <1>6 DEF start_c, BootGoto, At, boot, flags
  <2>2. ~enabled[c] /\ (~is_ap => Listed(irqs, 0)) /\ (is_ap => HandlersSet)
    BY <2>1 DEF HandlersInv, HandlersAt
  <2> QED BY <1>0, <2>1, <2>2, ListKept DEF HasHandlers, HasIdt
<1>7. ASSUME NEW c \in Processors, os_run(c) PROVE HandlersInv'
  <2>1. /\ boot_pc' = [boot_pc EXCEPT ![c] = "run"] /\ boot_pc[c] = "run"
        /\ UNCHANGED <<handlers, is_ap>>
        /\ idtr' = [idtr EXCEPT ![c] = idtr[c]] /\ enabled' = [enabled EXCEPT ![c] = TRUE]
    BY <1>0, <1>7 DEF os_run, At, boot
  <2>2. idtr[c] /\ HandlersSet
    BY <2>1 DEF HandlersInv, HandlersAt, HasIdt, HasHandlers
  <2> QED BY <1>0, <2>1, <2>2, ListKept
<1>8. ASSUME NEW c \in Processors,
             SwitchStack(c) \/ Ready(c) \/ mpe_init(c) \/ WaitAp(c)
      PROVE  HandlersInv'
  <2>1. PICK p \in HasHandlers \ {"os_init"} :
          /\ boot_pc' = [boot_pc EXCEPT ![c] = p] /\ boot_pc[c] \in HasHandlers \ {"run"}
          /\ UNCHANGED <<handlers, is_ap>> /\ (p \in HasIdt => boot_pc[c] \in HasIdt)
          /\ idtr' = [idtr EXCEPT ![c] = idtr[c]] /\ enabled' = [enabled EXCEPT ![c] = enabled[c]]
    BY <1>0, <1>8 DEF SwitchStack, Ready, mpe_init, WaitAp, BootGoto, At, boot,
                      flags, HasHandlers, HasIdt
  <2>2. ~enabled[c] /\ HandlersSet /\ (p \in HasIdt => idtr[c])
    BY <2>1 DEF HandlersInv, HandlersAt, HasIdt
  <2>3. p \notin {"bootcpu_init", "main", "start_c", "os_init"}
    BY DEF HasHandlers
  <2> QED BY <1>0, <2>1, <2>2, <2>3, ListKept
<1>9. ASSUME NEW c \in Processors, PerCpuInit(c) \/ bootcpu_init(c) PROVE HandlersInv'
  <2>1. PICK p \in {"ready", "main"} :
          /\ boot_pc' = [boot_pc EXCEPT ![c] = p]
          /\ boot_pc[c] = IF p = "ready" THEN "percpu_init" ELSE "bootcpu_init"
          /\ UNCHANGED <<handlers, is_ap>>
          /\ idtr' = [idtr EXCEPT ![c] = TRUE] /\ enabled' = [enabled EXCEPT ![c] = enabled[c]]
    BY <1>0, <1>9 DEF PerCpuInit, bootcpu_init, BootGoto, At, boot
  <2>2. ~enabled[c] /\ (p = "ready" => HandlersSet) /\ (p = "main" => Listed(irqs, 0)) /\ (is_ap => HandlersSet)
    BY <2>1 DEF HandlersInv, HandlersAt, HasHandlers
  <2> QED BY <1>0, <2>1, <2>2, ListKept DEF HasHandlers
<1>10. ASSUME NEW c \in Processors, BootAp(c) PROVE HandlersInv'
  <2>1. PICK p \in {"wait", "run"} :
          /\ boot_pc' = [boot_pc EXCEPT ![c] = p] /\ boot_pc[c] = "bootap"
          /\ UNCHANGED handlers /\ (is_ap => is_ap')
          /\ idtr' = [idtr EXCEPT ![c] = idtr[c]] /\ enabled' = [enabled EXCEPT ![c] = enabled[c]]
    BY <1>0, <1>10 DEF BootAp, BootGoto, At, flags
  <2>2. ~enabled[c] /\ HandlersSet /\ idtr[c]
    BY <2>1 DEF HandlersInv, HandlersAt, HasHandlers, HasIdt
  <2> QED BY <1>0, <2>1, <2>2, ListKept
<1>11. ASSUME NEW c \in Processors, stop_the_world(c) \/ Outw(c) PROVE HandlersInv'
  <2>1. PICK p \in {"stop", "outw", "hlt"} :
          /\ boot_pc' = [boot_pc EXCEPT ![c] = p] /\ boot_pc[c] \in {"stop", "outw"}
          /\ UNCHANGED <<handlers, is_ap>>
          /\ idtr' = [idtr EXCEPT ![c] = idtr[c]] /\ enabled' = [enabled EXCEPT ![c] = enabled[c]]
    BY <1>0, <1>11 DEF stop_the_world, Outw, BootGoto, At, boot, flags
  <2>2. ~enabled[c] /\ (is_ap => HandlersSet)
    BY <2>1 DEF HandlersInv, HandlersAt
  <2> QED BY <1>0, <2>1, <2>2, ListKept DEF HasHandlers, HasIdt
<1>12. CASE UNCHANGED bootVars
  BY <1>12 DEF bootVars, boot, handlers, flags, HandlersInv, HandlersAt, HandlersSet
<1> QED BY <1>1, <1>2, <1>3, <1>4, <1>5, <1>6, <1>7, <1>8, <1>9, <1>10, <1>11, <1>12
        DEF BootNext, Step

\* For any number of CPUs, wherever CPUs halt: a CPU whose interrupts are
\* enabled has its idt, and os_on_irq has put the handlers of all events in the
\* order in which os_trap must call them.
THEOREM HandlersInOrder == BootSpec => []TrapOrder
BY InitBoot, NextBoot, HandlersInit, HandlersStep, InvGivesOrder, PTL DEF BootSpec

-----------------------------------------------------------------------------
(* The stop of all CPUs.  A CPU is silenced when it executes nothing that can *)
(* be seen any more, or the INIT is on the way that will make it so.          *)
Silenced(d) == d \in ipi \/ boot_pc[d] \in DeadPc \cup {"outw"}

(* Who has come to the end of stop_the_world has left out nobody.             *)
HaltReachesAll ==
  \A c \in Processors : boot_pc[c] \in {"outw", "hlt"} => \A d \in Processors : Silenced(d)

(* After the first halt, as long as no two CPUs stop the others at once: one  *)
(* CPU is at it, and is not to be stopped itself, or all are silenced.        *)
Stopper(c) == boot_pc[c] = "stop" /\ c \notin ipi
HaltGoesOn ==
  jmp_code = "spin" => \/ \E c \in Processors : Stopper(c)
                       \/ \A d \in Processors : Silenced(d)

(* How far the loop of stop_the_world has come.                               *)
StopsBelow(c) ==
  /\ boot_pc[c] = "stop" => \A d \in Processors : d < cpu[c] => d = c \/ Silenced(d)
  /\ boot_pc[c] \in {"outw", "hlt"} => \A d \in Processors : Silenced(d)
HaltInv == jmp_code = "spin" => \A c \in Processors : StopsBelow(c)

LEMMA NobodyStopsYet ==
  ASSUME BootInv, jmp_code # "spin", NEW c \in Processors
  PROVE  boot_pc[c] \notin {"stop", "outw", "hlt", "spin"}
<1> USE CpuFacts DEF BootInv, BootType
<1>1. Upwards
  OBVIOUS
<1>2. CASE boot_pc[0] \in MainPc
  BY <1>1, <1>2 DEF Upwards, MainPhase, MainPc
<1>3. CASE boot_pc[0] = "bootap"
  BY <1>1, <1>3 DEF Upwards, NextPhase, BootedBelow
<1>4. CASE boot_pc[0] = "wait"
  BY <1>1, <1>4 DEF Upwards, WaitPhase, BootedBelow, Booting, ApPc
<1>5. CASE boot_pc[0] = "run"
  BY <1>1, <1>5 DEF Upwards, RunPhase
<1> QED BY <1>1, <1>2, <1>3, <1>4, <1>5 DEF Upwards

(* Whoever halts is not about to be reset, unless it is after another halt.   *)
LEMMA FirstHalt ==
  ASSUME BootInv, jmp_code # "spin", NEW c \in Processors, boot_pc[c] \in KernelPc
  PROVE  c \notin ipi
<1> USE CpuFacts DEF BootInv, BootType
<1>1. Upwards
  OBVIOUS
<1>2. CASE boot_pc[0] \in MainPc
  BY <1>1, <1>2 DEF Upwards, MainPhase
<1>3. CASE boot_pc[0] = "bootap"
  BY <1>1, <1>3 DEF Upwards, NextPhase
<1>4. CASE boot_pc[0] = "wait"
  BY <1>1, <1>4 DEF Upwards, WaitPhase, Booting, KernelPc
<1>5. CASE boot_pc[0] = "run"
  BY <1>1, <1>5 DEF Upwards, RunPhase
<1> QED BY <1>1, <1>2, <1>3, <1>4, <1>5 DEF Upwards

(* The record stays as the first halt has left it.                            *)
LEMMA RecordStays ==
  ASSUME BootInv, jmp_code = "spin", BootNext
  PROVE  jmp_code' = "spin"
BY DownwardStep DEF BootInv

(* What a step of one CPU does to the others, and to what silences them.      *)
LEMMA StopFrame ==
  ASSUME BootInv, jmp_code = "spin", NEW c \in Processors, Receive(c) \/ Step(c) \/ halt(c)
  PROVE  /\ \A d \in Processors : d # c => boot_pc'[d] = boot_pc[d] /\ cpu'[d] = cpu[d]
         /\ \A d \in Processors : d \in ipi => d \in ipi' \/ (d = c /\ boot_pc'[d] = "spin")
         /\ \A d \in Processors : Silenced(d) => Silenced(d)'
<1> USE DEF BootInv, BootType, BootGoto
<1>1. CASE Receive(c)
  BY <1>1 DEF Receive, Fetch, Silenced, DeadPc
<1>2. CASE halt(c)
  <2>1. /\ boot_pc' = [boot_pc EXCEPT ![c] = "stop"] /\ boot_pc[c] \in KernelPc
        /\ cpu' = [cpu EXCEPT ![c] = 0] /\ ipi' = ipi
    BY <1>2 DEF halt, FirstToStop
  <2> QED BY <2>1 DEF Silenced, DeadPc, KernelPc
<1>3. CASE Step(c) /\ boot_pc[c] \notin {"outw", "stop", "bootap"}
  <2>1. /\ ipi' = ipi /\ \A d \in Processors : d # c => boot_pc'[d] = boot_pc[d] /\ cpu'[d] = cpu[d]
        /\ boot_pc[c] \notin DeadPc \cup {"outw"}
    <3>1. CASE load_kernel(c) \/ start_c(c) \/ os_run(c) \/ SwitchStack(c) \/ PerCpuInit(c)
      BY <3>1, StepPlace, <1>3 DEF load_kernel, start_c, os_run, SwitchStack, PerCpuInit, DeadPc
    <3>2. CASE Ready(c) \/ bootcpu_init(c) \/ cte_init(c) \/ os_init(c) \/ mpe_init(c) \/ WaitAp(c)
      BY <3>2, StepPlace, <1>3 DEF Ready, bootcpu_init, cte_init, os_init, mpe_init, WaitAp, DeadPc
    <3> QED BY <1>3, <3>1, <3>2, StepPlace
  <2> QED BY <2>1 DEF Silenced
<1>4. CASE BootAp(c) /\ boot_pc[c] = "bootap"
  BY <1>4 DEF BootAp, bootap, Silenced, DeadPc
<1>5. CASE stop_the_world(c) /\ boot_pc[c] = "stop"
  BY <1>5 DEF stop_the_world, bootap, Silenced, DeadPc
<1>6. CASE Outw(c) /\ boot_pc[c] = "outw"
  BY <1>6 DEF Outw, Silenced, DeadPc
<1> QED BY <1>1, <1>2, <1>3, <1>4, <1>5, <1>6, StepPlace

(* The steps by which a CPU is in the stop of the others, or comes there.     *)
LEMMA StopSteps ==
  ASSUME BootInv, NEW c \in Processors, Receive(c) \/ Step(c) \/ halt(c)
  PROVE  \/ halt(c) /\ boot_pc[c] \in KernelPc /\ boot_pc'[c] = "stop" /\ cpu'[c] = 0 /\ ipi' = ipi
         \/ stop_the_world(c) /\ boot_pc[c] = "stop"
         \/ Outw(c) /\ boot_pc[c] = "outw" /\ boot_pc'[c] = "hlt" /\ ipi' = ipi
         \/ /\ ~halt(c) /\ boot_pc'[c] \notin {"stop", "outw", "hlt"}
            /\ (boot_pc[c] # "stop" \/ c \in ipi)
<1> USE DEF BootInv, BootType, BootGoto
<1>1. CASE halt(c)
  BY <1>1 DEF halt, FirstToStop
<1>2. CASE Receive(c) /\ ~halt(c)
  BY <1>2 DEF Receive, Fetch
<1>3. CASE Step(c) /\ ~halt(c)
  <2>1. CASE boot_pc[c] \in {"load", "start_c", "run", "othercpu_entry", "percpu_init"}
    BY <1>3, <2>1, StepPlace DEF load_kernel, start_c, os_run, SwitchStack, PerCpuInit
  <2>2. CASE boot_pc[c] \in {"ready", "bootcpu_init", "main", "os_init", "mpe_init", "wait", "bootap"}
    BY <1>3, <2>2, StepPlace DEF Ready, bootcpu_init, cte_init, os_init, mpe_init, WaitAp, BootAp
  <2>3. CASE boot_pc[c] \in {"stop", "outw"}
    BY <1>3, <2>3, StepPlace DEF Outw
  <2> QED BY <1>3, <2>1, <2>2, <2>3, StepPlace
<1> QED BY <1>1, <1>2, <1>3

(* One round of the loop of stop_the_world, and its end.                      *)
LEMMA StopRound ==
  ASSUME BootInv, NEW c \in Processors, stop_the_world(c), boot_pc[c] = "stop"
  PROVE  \/ /\ boot_pc'[c] = "stop" /\ cpu[c] \in Processors /\ cpu'[c] = cpu[c] + 1
            /\ (cpu[c] = c \/ cpu[c] \in ipi') /\ (c \in ipi' => c \in ipi)
         \/ boot_pc'[c] = "outw" /\ ipi' = ipi /\ \A d \in Processors : d < cpu[c]
<1> USE DEF BootInv, BootType, BootGoto
<1>1. cpu[c] \in Nat /\ NCpu \in Nat /\ Processors = 0 .. NCpu - 1
  BY DEF Processors
<1>2. CASE cpu[c] < NCpu
  BY <1>1, <1>2 DEF stop_the_world, bootap
<1>3. CASE ~(cpu[c] < NCpu)
  BY <1>1, <1>3 DEF stop_the_world
<1> QED BY <1>2, <1>3

LEMMA HaltInvStep == BootInv /\ HaltInv /\ [BootNext]_bootVars => HaltInv'
<1> SUFFICES ASSUME BootInv, HaltInv, [BootNext]_bootVars, jmp_code' = "spin",
                    NEW e \in Processors
             PROVE  StopsBelow(e)'
  BY DEF HaltInv
<1>1. CASE UNCHANGED bootVars
  BY <1>1 DEF bootVars, boot, HaltInv, StopsBelow, Silenced
<1>2. CASE BootNext
  <2>1. PICK c \in Processors : Receive(c) \/ Step(c) \/ halt(c)
    BY <1>2 DEF BootNext
  <2>2. CASE jmp_code # "spin"
    <3>1. halt(c)
      BY <1>2, <2>1, <2>2, UpwardStep
    <3>2. boot_pc' = [boot_pc EXCEPT ![c] = "stop"] /\ cpu' = [cpu EXCEPT ![c] = 0]
      BY <3>1 DEF halt, FirstToStop, BootGoto
    <3>3. \A d \in Processors : boot_pc[d] \notin {"stop", "outw", "hlt"}
      BY <2>2, NobodyStopsYet
    <3>4. boot_pc'[e] \notin {"outw", "hlt"} /\ (boot_pc'[e] = "stop" => cpu'[e] = 0)
      BY <3>2, <3>3 DEF BootInv, BootType
    <3> QED BY <3>4, CpuFacts DEF StopsBelow, BootInv, BootType
  <2>3. CASE jmp_code = "spin"
    <3>1. /\ \A d \in Processors : d # c => boot_pc'[d] = boot_pc[d] /\ cpu'[d] = cpu[d]
          /\ \A d \in Processors : Silenced(d) => Silenced(d)'
      BY <2>1, <2>3, StopFrame
    <3>2. StopsBelow(e)
      BY <2>3 DEF HaltInv
    <3>3. CASE e # c
      BY <3>1, <3>2, <3>3 DEF StopsBelow
    <3>4. CASE e = c
      <4>1. CASE halt(c) /\ boot_pc'[c] = "stop" /\ cpu'[c] = 0
        BY <3>4, <4>1, CpuFacts DEF StopsBelow, BootInv
      <4>2. CASE stop_the_world(c) /\ boot_pc[c] = "stop"
        <5>1. CASE /\ boot_pc'[c] = "stop" /\ cpu[c] \in Processors /\ cpu'[c] = cpu[c] + 1
                   /\ cpu[c] = c \/ cpu[c] \in ipi'
          <6>1. ASSUME NEW d \in Processors, d < cpu'[c], d # c PROVE Silenced(d)'
            <7>1. d < cpu[c] \/ d = cpu[c]
              BY <5>1, <6>1, CpuFacts DEF BootInv, BootType
            <7> QED BY <3>1, <3>2, <3>4, <4>2, <5>1, <6>1, <7>1 DEF StopsBelow, Silenced
          <6> QED BY <3>4, <5>1, <6>1 DEF StopsBelow
        <5>2. CASE boot_pc'[c] = "outw" /\ \A d \in Processors : d < cpu[c]
          <6>1. ASSUME NEW d \in Processors PROVE Silenced(d)'
            BY <3>1, <3>2, <3>4, <4>2, <5>2 DEF StopsBelow, Silenced
          <6> QED BY <3>4, <5>2, <6>1 DEF StopsBelow
        <5> QED BY <4>2, <5>1, <5>2, StopRound
      <4>3. CASE boot_pc[c] = "outw" /\ boot_pc'[c] = "hlt"
        BY <3>1, <3>2, <3>4, <4>3 DEF StopsBelow
      <4>4. CASE boot_pc'[c] \notin {"stop", "outw", "hlt"}
        BY <3>4, <4>4 DEF StopsBelow
      <4> QED BY <2>1, <4>1, <4>2, <4>3, <4>4, StopSteps
    <3> QED BY <3>3, <3>4
  <2> QED BY <2>2, <2>3
<1> QED BY <1>1, <1>2

\* For any number of CPUs, also when several halt at once: a CPU that leaves
\* the loop of __am_stop_the_world has sent the INIT to every other CPU, and no
\* CPU that was stopped comes back to life.
THEOREM HaltIsForAll == BootSpec => []HaltReachesAll
<1>1. BootInit => HaltInv
  BY DEF BootInit, HaltInv
<1>2. BootInv /\ HaltInv => HaltReachesAll
  BY NobodyStopsYet DEF HaltInv, HaltReachesAll, StopsBelow
<1> QED BY <1>1, <1>2, InitBoot, NextBoot, HaltInvStep, PTL DEF BootSpec

(* CPUs which mpe_init has not come to when somebody halts never execute, so  *)
(* none of them is stopping the others when mpe_init goes on and starts it.   *)
Unbooted(k, e) == e > k \/ (e = k /\ boot_pc[0] = "bootap")
LateInv ==
  jmp_code = "spin" => \A c \in Processors : boot_pc[c] \in {"bootap", "wait"} =>
    /\ c = 0
    /\ \A e \in Processors \ {0} : Unbooted(cpu[0], e) => boot_pc[e] \in {"off", "spin"}

LEMMA LateAtFirst ==
  ASSUME BootInv, jmp_code # "spin", NEW c \in Processors, boot_pc[c] \in {"bootap", "wait"}
  PROVE  /\ c = 0
         /\ \A e \in Processors \ {0} : Unbooted(cpu[0], e) => boot_pc[e] = "off"
<1> USE CpuFacts DEF BootInv, BootType
<1>1. Upwards
  OBVIOUS
<1>2. CASE boot_pc[0] \in MainPc
  BY <1>1, <1>2 DEF Upwards, MainPhase, MainPc
<1>3. CASE boot_pc[0] = "bootap"
  <2>1. NextPhase
    BY <1>1, <1>3 DEF Upwards
  <2>2. c = 0
    BY <2>1 DEF NextPhase, BootedBelow
  <2>3. ASSUME NEW e \in Processors \ {0}, Unbooted(cpu[0], e) PROVE boot_pc[e] = "off"
    BY <2>1, <2>3 DEF NextPhase, BootedBelow, Unbooted
  <2> QED BY <2>2, <2>3
<1>4. CASE boot_pc[0] = "wait"
  <2>1. WaitPhase
    BY <1>1, <1>4 DEF Upwards
  <2>2. c = 0
    BY <2>1 DEF WaitPhase, BootedBelow, Booting, ApPc
  <2>3. ASSUME NEW e \in Processors \ {0}, Unbooted(cpu[0], e) PROVE boot_pc[e] = "off"
    BY <1>4, <2>1, <2>3 DEF WaitPhase, BootedBelow, Unbooted
  <2> QED BY <2>2, <2>3
<1>5. CASE boot_pc[0] = "run"
  BY <1>1, <1>5 DEF Upwards, RunPhase
<1> QED BY <1>1, <1>2, <1>3, <1>4, <1>5 DEF Upwards

LEMMA LateStep == BootInv /\ LateInv /\ [BootNext]_bootVars => LateInv'
<1> SUFFICES ASSUME BootInv, LateInv, [BootNext]_bootVars, jmp_code' = "spin",
                    NEW b \in Processors, boot_pc'[b] \in {"bootap", "wait"}
             PROVE  /\ b = 0
                    /\ \A e \in Processors \ {0} :
                         Unbooted(cpu[0], e)' => boot_pc'[e] \in {"off", "spin"}
  BY DEF LateInv
<1>0. 0 \in Processors /\ Processors \subseteq Int /\ cpu \in [Processors -> Nat]
  BY CpuFacts DEF BootInv, BootType
<1>1. CASE UNCHANGED bootVars
  BY <1>1 DEF bootVars, boot, LateInv, Unbooted
<1>2. CASE BootNext /\ jmp_code # "spin"
  <2>1. PICK c \in Processors : halt(c)
    BY <1>2, UpwardStep DEF BootNext
  <2>2. boot_pc' = [boot_pc EXCEPT ![c] = "stop"] /\ cpu' = [cpu EXCEPT ![c] = 0]
        /\ boot_pc[c] \in KernelPc
    BY <2>1 DEF halt, FirstToStop, BootGoto
  <2>3. b # c /\ boot_pc[b] \in {"bootap", "wait"}
    BY <2>2 DEF BootInv, BootType
  <2>4. /\ b = 0
        /\ \A e \in Processors \ {0} : Unbooted(cpu[0], e) => boot_pc[e] = "off"
    BY <1>2, <2>3, LateAtFirst
  <2>5. cpu'[0] = cpu[0] /\ boot_pc'[0] = boot_pc[0]
    BY <1>0, <2>2, <2>3, <2>4 DEF BootInv, BootType
  <2>6. ASSUME NEW e \in Processors \ {0}, Unbooted(cpu[0], e)' PROVE boot_pc'[e] \in {"off", "spin"}
    <3>1. boot_pc[e] = "off"
      BY <2>4, <2>5, <2>6 DEF Unbooted
    <3> QED BY <2>2, <3>1 DEF KernelPc
  <2> QED BY <2>4, <2>6
<1>3. CASE BootNext /\ jmp_code = "spin"
  <2>1. PICK c \in Processors : Receive(c) \/ Step(c) \/ halt(c)
    BY <1>3 DEF BootNext
  <2>2. \A d \in Processors : d # c => boot_pc'[d] = boot_pc[d] /\ cpu'[d] = cpu[d]
    BY <1>3, <2>1, StopFrame
  <2>3. /\ boot_pc[b] \in {"bootap", "wait"}
        /\ \/ b # c
           \/ BootAp(b) /\ boot_pc[b] = "bootap" /\ boot_pc'[b] = "wait" /\ cpu'[b] = cpu[b]
           \/ WaitAp(b) /\ boot_pc[b] = "wait" /\ boot_pc'[b] = "bootap" /\ cpu'[b] = cpu[b] + 1
    <3>1. CASE b # c
      BY <2>2, <3>1
    <3>2. CASE b = c /\ Receive(c)
      BY <1>3, <3>2 DEF Receive, Fetch, BootGoto, BootInv, BootType
    <3>3. CASE b = c /\ halt(c)
      BY <3>3 DEF halt, BootGoto, BootInv, BootType
    <3>4. CASE b = c /\ Step(c)
      <4>1. boot_pc[c] \notin {"bootcpu_init", "main", "os_init", "mpe_init"}
        BY <1>3 DEF BootInv, Downwards
      <4> USE DEF BootInv, BootType, BootGoto
      <4>2. CASE boot_pc[c] \in {"load", "start_c", "run", "othercpu_entry", "percpu_init", "ready"}
        BY <3>4, <4>2, StepPlace DEF load_kernel, start_c, os_run, SwitchStack, PerCpuInit, Ready
      <4>3. CASE boot_pc[c] \in {"stop", "outw"}
        BY <3>4, <4>3, StepPlace DEF Outw, stop_the_world
      <4>4. CASE boot_pc[c] = "bootap"
        BY <3>4, <4>4, StepPlace DEF BootAp
      <4>5. CASE boot_pc[c] = "wait"
        BY <3>4, <4>5, StepPlace DEF WaitAp
      <4> QED BY <3>4, <4>1, <4>2, <4>3, <4>4, <4>5, StepPlace
    <3> QED BY <2>1, <3>1, <3>2, <3>3, <3>4
  <2>4. /\ b = 0
        /\ \A e \in Processors \ {0} : Unbooted(cpu[0], e) => boot_pc[e] \in {"off", "spin"}
    BY <1>3, <2>3 DEF LateInv
  <2>5. ASSUME NEW e \in Processors \ {0}, Unbooted(cpu[0], e)' PROVE Unbooted(cpu[0], e)
    BY <1>0, <2>2, <2>3, <2>4, <2>5 DEF Unbooted
  <2>6. ASSUME NEW e \in Processors \ {0}, boot_pc[e] \in {"off", "spin"}
        PROVE  boot_pc'[e] \in {"off", "spin"}
    <3>1. CASE e = c /\ Receive(c)
      BY <1>3, <3>1 DEF Receive, Fetch, BootGoto, BootInv, BootType
    <3>2. ~halt(e) /\ ~Step(e)
      BY <2>6, StepPlace DEF halt, KernelPc
    <3> QED BY <2>1, <2>2, <2>6, <3>1, <3>2
  <2> QED BY <2>4, <2>5, <2>6
<1> QED BY <1>1, <1>2, <1>3

LEMMA GoesOnStep ==
  BootInv /\ HaltInv /\ LateInv /\ HaltGoesOn /\ OneStops /\ OneStops' /\ [BootNext]_bootVars
    => HaltGoesOn'
<1> SUFFICES ASSUME BootInv, HaltInv, LateInv, HaltGoesOn, OneStops, OneStops',
                    [BootNext]_bootVars,
                    jmp_code' = "spin", ~\A d \in Processors : Silenced(d)'
             PROVE  \E e \in Processors : Stopper(e)'
  BY DEF HaltGoesOn
<1>1. CASE UNCHANGED bootVars
  BY <1>1 DEF bootVars, boot, HaltGoesOn, Stopper, Silenced
<1>2. CASE BootNext
  <2>1. PICK c \in Processors : Receive(c) \/ Step(c) \/ halt(c)
    BY <1>2 DEF BootNext
  <2>2. CASE jmp_code # "spin"
    <3>1. halt(c)
      BY <1>2, <2>1, <2>2, UpwardStep
    <3>2. boot_pc' = [boot_pc EXCEPT ![c] = "stop"] /\ boot_pc[c] \in KernelPc /\ ipi' = ipi
      BY <3>1 DEF halt, BootGoto
    <3>3. c \notin ipi
      BY <2>2, <3>2, FirstHalt
    <3> QED BY <3>2, <3>3 DEF Stopper, BootInv, BootType
  <2>3. CASE jmp_code = "spin"
    <3>1. /\ \A d \in Processors : d # c => boot_pc'[d] = boot_pc[d] /\ cpu'[d] = cpu[d]
          /\ \A d \in Processors : Silenced(d) => Silenced(d)'
      BY <2>1, <2>3, StopFrame
    <3>2. PICK e \in Processors : Stopper(e)
      BY <2>3, <3>1 DEF HaltGoesOn
    <3>3. \A d \in Processors : d # e => boot_pc[d] # "stop"
      BY <3>2 DEF OneStops, Stopper
    <3>4. CASE c = e
      <4>1. CASE stop_the_world(c)
        <5>1. CASE boot_pc'[c] = "stop" /\ (c \in ipi' => c \in ipi)
          BY <3>2, <3>4, <5>1 DEF Stopper
        <5>2. CASE boot_pc'[c] = "outw" /\ \A d \in Processors : d < cpu[c]
          <6>1. ASSUME NEW d \in Processors PROVE Silenced(d)'
            BY <2>3, <3>1, <3>2, <3>4, <5>2 DEF HaltInv, StopsBelow, Stopper, Silenced
          <6> QED BY <6>1
        <5> QED BY <3>2, <3>4, <4>1, <5>1, <5>2, StopRound DEF Stopper
      <4> QED BY <2>1, <3>2, <3>4, <4>1, StopSteps DEF Stopper, KernelPc
    <3>5. CASE c # e
      <4>1. boot_pc'[e] = "stop" /\ boot_pc'[c] # "stop"
        BY <3>1, <3>2, <3>5 DEF Stopper, OneStops
      <4>2. boot_pc[c] # "stop" /\ boot_pc[e] = "stop" /\ e \notin ipi
        BY <3>2, <3>3, <3>5 DEF Stopper
      <4>3. CASE BootAp(c) /\ boot_pc[c] = "bootap"
        <5>1. c = 0 /\ \A d \in Processors \ {0} : Unbooted(cpu[0], d) => boot_pc[d] \in {"off", "spin"}
          BY <2>3, <4>3 DEF LateInv
        <5>2. cpu[0] # e
          BY <3>5, <4>2, <4>3, <5>1 DEF Unbooted
        <5>3. e \notin ipi'
          BY <4>2, <4>3, <5>1, <5>2 DEF BootAp, bootap
        <5> QED BY <4>1, <5>3 DEF Stopper
      <4>4. CASE ~(BootAp(c) /\ boot_pc[c] = "bootap")
        <5>1. ipi' \subseteq ipi
          <6>1. CASE Receive(c) \/ halt(c)
            BY <6>1 DEF Receive, halt
          <6>2. CASE load_kernel(c) \/ start_c(c) \/ os_run(c) \/ SwitchStack(c) \/ PerCpuInit(c)
            BY <6>2 DEF load_kernel, start_c, os_run, SwitchStack, PerCpuInit
          <6>3. CASE \/ Ready(c) \/ bootcpu_init(c) \/ cte_init(c) \/ os_init(c) \/ mpe_init(c)
                     \/ WaitAp(c) \/ Outw(c)
            BY <6>3 DEF Ready, bootcpu_init, cte_init, os_init, mpe_init, WaitAp, Outw
          <6> QED BY <2>1, <4>2, <4>4, <6>1, <6>2, <6>3, StepPlace
        <5> QED BY <4>1, <4>2, <5>1 DEF Stopper
      <4> QED BY <4>3, <4>4
    <3> QED BY <3>4, <3>5
  <2> QED BY <2>2, <2>3
<1> QED BY <1>1, <1>2

\* For any number of CPUs: as long as no two CPUs stop the others at the same
\* time, a halt is for all.  The loop of __am_stop_the_world goes on until every
\* CPU is silenced, and is not cut off by an INIT for the CPU that executes it.
THEOREM HaltNotCutOff == BootSpec /\ []OneStops => []HaltGoesOn
<1>1. BootInit => HaltInv /\ LateInv /\ HaltGoesOn
  BY DEF BootInit, HaltInv, LateInv, HaltGoesOn
<1> QED BY <1>1, InitBoot, NextBoot, HaltInvStep, LateStep, GoesOnStep, PTL DEF BootSpec

(* A CPU waits for the one whose number is in its loop variable, so this      *)
(* variable does not go beyond the number of CPUs.                            *)
BootTypeInv ==
  /\ BootTypeOK
  /\ \A c \in Processors : boot_pc[c] = "wait" => cpu[c] < NCpu

\* For any number of CPUs: a CPU is at a known place, INITs go to CPUs that
\* exist, and the loops of mpe_init and __am_stop_the_world stay in their range.
THEOREM BootTyped == BootSpec => []BootTypeOK
<1>1. BootInit => BootTypeInv
  BY BootAssumption DEF BootInit, BootTypeInv, BootTypeOK, BootPc, Processors
<1>2. BootTypeInv /\ [BootNext]_bootVars => BootTypeInv'
  <2> SUFFICES ASSUME BootTypeInv, [BootNext]_bootVars PROVE BootTypeInv'
    OBVIOUS
  <2>0. NCpu \in Nat \ {0} /\ Processors \subseteq 0 .. NCpu
    BY BootAssumption DEF Processors
  <2> USE <2>0 DEF BootTypeInv, BootTypeOK, BootGoto
  <2>1. CASE UNCHANGED bootVars
    BY <2>1 DEF bootVars
  <2> USE DEF BootPc, KernelPc, HaltPc, DeadPc
  <2>4. ASSUME NEW c \in Processors, Receive(c) PROVE BootTypeInv'
    BY <2>4 DEF Receive, Fetch
  <2>5. ASSUME NEW c \in Processors, halt(c) PROVE BootTypeInv'
    BY <2>5 DEF halt, FirstToStop
  <2>6. ASSUME NEW c \in Processors, load_kernel(c) \/ start_c(c) PROVE BootTypeInv'
    BY <2>6 DEF load_kernel, start_c
  <2>7. ASSUME NEW c \in Processors, os_run(c) \/ SwitchStack(c) \/ PerCpuInit(c) \/ Ready(c)
        PROVE  BootTypeInv'
    BY <2>7 DEF os_run, SwitchStack, PerCpuInit, Ready
  <2>8. ASSUME NEW c \in Processors, bootcpu_init(c) \/ cte_init(c) \/ os_init(c) PROVE BootTypeInv'
    <3>1. CASE boot_pc' = boot_pc
      BY <2>8, <3>1 DEF bootcpu_init, cte_init, os_init
    <3>2. CASE boot_pc' # boot_pc
      BY <2>8, <3>2 DEF bootcpu_init, cte_init, os_init
    <3> QED BY <3>1, <3>2
  <2>9. ASSUME NEW c \in Processors, mpe_init(c) PROVE BootTypeInv'
    <3>1. boot_pc' = [boot_pc EXCEPT ![c] = "bootap"] /\ cpu' = [cpu EXCEPT ![c] = 1]
          /\ UNCHANGED <<ipi, ap_ready>> /\ 1 \in 0 .. NCpu
      BY <2>0, <2>9 DEF mpe_init
    <3> QED BY <3>1
  <2>10. ASSUME NEW c \in Processors, BootAp(c) PROVE BootTypeInv'
    <3>1. CASE cpu[c] < NCpu
      <4>1. cpu[c] \in Processors
        BY <3>1 DEF Processors
      <4> QED BY <2>10, <3>1, <4>1 DEF BootAp, bootap
    <3>2. CASE ~(cpu[c] < NCpu)
      BY <2>10, <3>2 DEF BootAp
    <3> QED BY <3>1, <3>2
  <2>11. ASSUME NEW c \in Processors, WaitAp(c) PROVE BootTypeInv'
    BY <2>11 DEF WaitAp, AfterReady, At
  <2>12. ASSUME NEW c \in Processors, stop_the_world(c) PROVE BootTypeInv'
    <3>1. CASE cpu[c] < NCpu
      <4>1. cpu[c] \in Processors /\ cpu[c] + 1 \in 0 .. NCpu
        BY <3>1 DEF Processors
      <4>2. /\ boot_pc' = boot_pc /\ boot_pc[c] = "stop" /\ cpu' = [cpu EXCEPT ![c] = cpu[c] + 1]
            /\ ipi' \in {ipi, ipi \cup {cpu[c]}} /\ ap_ready' = ap_ready
        BY <2>12, <3>1 DEF stop_the_world, bootap, boot, At
      <4> QED BY <4>1, <4>2
    <3>2. CASE ~(cpu[c] < NCpu)
      BY <2>12, <3>2 DEF stop_the_world
    <3> QED BY <3>1, <3>2
  <2>13. ASSUME NEW c \in Processors, Outw(c) PROVE BootTypeInv'
    BY <2>13 DEF Outw
  <2> QED BY <2>1, <2>4, <2>5, <2>6, <2>7, <2>8, <2>9, <2>10, <2>11, <2>12, <2>13 DEF BootNext, Step
<1>3. BootTypeInv => BootTypeOK
  BY DEF BootTypeInv
<1> QED BY <1>1, <1>2, <1>3, PTL DEF BootSpec
=============================================================================
