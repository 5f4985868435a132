----------------------------- MODULE Spinlock -----------------------------
(***************************************************************************)
(* The spin locks of kmt.c over the words of lock.c: push_off and pop_off  *)
(* keep interrupts disabled while a CPU holds any lock.  Threads take and  *)
(* release locks; a CPU whose interrupts are enabled may at any point run  *)
(* an interrupt handler, which takes locks too, and may return from it to  *)
(* another thread.  Interrupted code may so continue on another CPU.       *)
(***************************************************************************)
EXTENDS Integers, FiniteSets

CONSTANTS Cpus, Threads,
          Locks,     \* numbers: a lock is awaited only above the ones held
          MaxHeld,   \* bound: locks one thread or handler holds at a time
          None

ASSUME ActorAssumption ==
  Cpus \cap Threads = {} /\ None \notin Cpus /\ None \notin Threads
ASSUME LockAssumption == Locks \subseteq Nat /\ None \notin Locks

\* Code that takes locks: the threads, and the interrupt handler of each CPU.
Actors == Threads \cup Cpus

VARIABLES
  ie,      \* ie[c]: interrupts are enabled on CPU c
  noff,    \* noff[c]: cpu_list[c].interrupt.noff
  intena,  \* intena[c]: cpu_list[c].interrupt.intena
  on,      \* on[c]: the thread CPU c runs or has interrupted, or None
  inIrq,   \* inIrq[c]: CPU c runs its interrupt handler
  word,    \* word[l]: lk->lock is 1
  owner,   \* owner[l]: lk->cpu_num (None for -1)
  pc,      \* pc[a]: where actor a is
  want,    \* want[a]: the lock of the operation in progress
  try,     \* try[a]: that operation is kmt_try_spin_lock
  old,     \* old[a]: the local variable of push_off (TRUE when out of use)
  held     \* held[a]: the locks a has taken and not given back

cpuVars   == <<ie, noff, intena, on, inIrq>>
lockVars  == <<word, owner>>
actorVars == <<pc, want, try, old, held>>
vars      == <<cpuVars, lockVars, actorVars>>

\* "idle": outside; "off", "count": in push_off; "spin": at the exchange;
\* "own": lock taken; "fail": exchange failed, before pop_off; "clear", "drop",
\* "pop": in kmt_spin_unlock.
Pcs == {"idle", "off", "count", "spin", "own", "fail", "clear", "drop", "pop"}

\* CPU c executes the code of a.
Executes(c, a) == IF inIrq[c] THEN a = c ELSE a = on[c]

Goto(a, where) == pc' = [pc EXCEPT ![a] = where]

Init ==
  /\ ie = [c \in Cpus |-> TRUE]
  /\ noff = [c \in Cpus |-> 0]
  /\ intena = [c \in Cpus |-> FALSE]
  /\ on = [c \in Cpus |-> None]
  /\ inIrq = [c \in Cpus |-> FALSE]
  /\ word = [l \in Locks |-> FALSE]
  /\ owner = [l \in Locks |-> None]
  /\ pc = [a \in Actors |-> "idle"]
  /\ want = [a \in Actors |-> None]
  /\ try = [a \in Actors |-> FALSE]
  /\ old = [a \in Actors |-> TRUE]
  /\ held = [a \in Actors |-> {}]

-----------------------------------------------------------------------------
\* push_off reads the interrupt flag; interrupts may still be enabled.
Begin(c, a, l, t) ==
  /\ Executes(c, a) /\ pc[a] = "idle"
  /\ l \notin held[a] /\ Cardinality(held[a]) < MaxHeld
  /\ t \/ \A k \in held[a] : k < l
  /\ old' = [old EXCEPT ![a] = ie[c]]
  /\ want' = [want EXCEPT ![a] = l]
  /\ try' = [try EXCEPT ![a] = t]
  /\ Goto(a, "off")
  /\ UNCHANGED <<cpuVars, lockVars, held>>

\* push_off: iset(false).
DisableSlip(c, a) ==
  /\ Executes(c, a) /\ pc[a] = "off"
  /\ Goto(a, "count")
  /\ UNCHANGED <<cpuVars, lockVars, want, try, old, held>>
Disable(c, a) ==
  /\ Executes(c, a) /\ pc[a] = "off"
  /\ ie' = [ie EXCEPT ![c] = FALSE]
  /\ Goto(a, "count")
  /\ UNCHANGED <<noff, intena, on, inIrq, lockVars, want, try, old, held>>

\* push_off: the outermost call remembers the flag it read.
RememberSlip(c, a) == intena' = [intena EXCEPT ![c] = old[a]]
Remember(c, a) == intena' = [intena EXCEPT ![c] = IF noff[c] = 0 THEN old[a] ELSE @]

Count(c, a) ==
  /\ Executes(c, a) /\ pc[a] = "count"
  /\ Remember(c, a)
  /\ noff' = [noff EXCEPT ![c] = @ + 1]
  /\ old' = [old EXCEPT ![a] = TRUE]
  /\ Goto(a, "spin")
  /\ UNCHANGED <<ie, on, inIrq, lockVars, want, try, held>>

\* atomic_xchg(lk, 1) returned 0.
CanTakeSlip(l) == word[l] \in BOOLEAN
CanTake(l) == ~word[l]

Take(c, a) ==
  /\ Executes(c, a) /\ pc[a] = "spin" /\ CanTake(want[a])
  /\ word' = [word EXCEPT ![want[a]] = TRUE]
  /\ held' = [held EXCEPT ![a] = @ \cup {want[a]}]
  /\ Goto(a, "own")
  /\ UNCHANGED <<cpuVars, owner, want, try, old>>

\* It returned 1: kmt_spin_lock tries again, kmt_try_spin_lock gives up.
GiveUp(c, a) ==
  /\ Executes(c, a) /\ pc[a] = "spin" /\ word[want[a]] /\ try[a]
  /\ Goto(a, "fail")
  /\ UNCHANGED <<cpuVars, lockVars, want, try, old, held>>

\* The operation in progress is over.
Finish(a) ==
  /\ Goto(a, "idle")
  /\ want' = [want EXCEPT ![a] = None]
  /\ try' = [try EXCEPT ![a] = FALSE]

SetOwner(c, a) ==
  /\ Executes(c, a) /\ pc[a] = "own"
  /\ owner' = [owner EXCEPT ![want[a]] = c]
  /\ Finish(a)
  /\ UNCHANGED <<cpuVars, word, old, held>>

\* kmt_spin_unlock: holding(lk), which leaves noff as it was.
Holding(c, l) == word[l] /\ owner[l] = c

Release(c, a, l) ==
  /\ Executes(c, a) /\ pc[a] = "idle" /\ l \in held[a]
  /\ Holding(c, l)
  /\ want' = [want EXCEPT ![a] = l]
  /\ Goto(a, "clear")
  /\ UNCHANGED <<cpuVars, lockVars, try, old, held>>

ClearOwner(c, a) ==
  /\ Executes(c, a) /\ pc[a] = "clear"
  /\ owner' = [owner EXCEPT ![want[a]] = None]
  /\ Goto(a, "drop")
  /\ UNCHANGED <<cpuVars, word, want, try, old, held>>

\* atomic_xchg(lk, 0).
Drop(c, a) ==
  /\ Executes(c, a) /\ pc[a] = "drop"
  /\ word' = [word EXCEPT ![want[a]] = FALSE]
  /\ held' = [held EXCEPT ![a] = @ \ {want[a]}]
  /\ Goto(a, "pop")
  /\ UNCHANGED <<cpuVars, owner, want, try, old>>

\* pop_off: the outermost call restores the flag.
RestoreSlip(c) == ie' = [ie EXCEPT ![c] = intena[c]]
Restore(c) == ie' = [ie EXCEPT ![c] = IF noff[c] = 1 /\ intena[c] THEN TRUE ELSE @]

PopOff(c, a) ==
  /\ Executes(c, a) /\ pc[a] \in {"pop", "fail"}
  /\ ~ie[c] /\ noff[c] >= 1
  /\ noff' = [noff EXCEPT ![c] = @ - 1]
  /\ Restore(c)
  /\ Finish(a)
  /\ UNCHANGED <<intena, on, inIrq, lockVars, old, held>>

-----------------------------------------------------------------------------
\* An interrupt gate clears the flag.
Interrupt(c) ==
  /\ ie[c] /\ ~inIrq[c]
  /\ ie' = [ie EXCEPT ![c] = FALSE]
  /\ inIrq' = [inIrq EXCEPT ![c] = TRUE]
  /\ UNCHANGED <<noff, intena, on, lockVars, actorVars>>

\* The handler returns, to the interrupted thread or to one no CPU is on; the
\* saved context of either has interrupts enabled.
Return(c, t) ==
  /\ inIrq[c] /\ pc[c] = "idle" /\ held[c] = {}
  /\ t # None => \A d \in Cpus : d # c => on[d] # t
  /\ on' = [on EXCEPT ![c] = t]
  /\ inIrq' = [inIrq EXCEPT ![c] = FALSE]
  /\ ie' = [ie EXCEPT ![c] = TRUE]
  /\ UNCHANGED <<noff, intena, lockVars, actorVars>>

CodeStep(c, a) ==
  \/ \E l \in Locks : Release(c, a, l) \/ \E t \in BOOLEAN : Begin(c, a, l, t)
  \/ Disable(c, a) \/ Count(c, a) \/ Take(c, a) \/ GiveUp(c, a) \/ SetOwner(c, a)
  \/ ClearOwner(c, a) \/ Drop(c, a) \/ PopOff(c, a)

Next == \E c \in Cpus :
  \/ \E a \in Actors : CodeStep(c, a)
  \/ Interrupt(c)
  \/ \E t \in Threads \cup {None} : Return(c, t)

Spec == Init /\ [][Next]_vars

-----------------------------------------------------------------------------
\* Every variable has its type; lk->cpu_num names a CPU or nobody.
TypeOK ==
  /\ ie \in [Cpus -> BOOLEAN] /\ noff \in [Cpus -> Nat]
  /\ intena \in [Cpus -> BOOLEAN] /\ on \in [Cpus -> Threads \cup {None}]
  /\ inIrq \in [Cpus -> BOOLEAN]
  /\ word \in [Locks -> BOOLEAN] /\ owner \in [Locks -> Cpus \cup {None}]
  /\ pc \in [Actors -> Pcs] /\ want \in [Actors -> Locks \cup {None}]
  /\ try \in [Actors -> BOOLEAN] /\ old \in [Actors -> BOOLEAN]
  /\ held \in [Actors -> SUBSET Locks]

\* A lock is held by at most one thread or handler.
MutualExclusion ==
  \A a, b \in Actors : a # b => held[a] \cap held[b] = {}

\* The push_offs of a that are not yet undone.
Pushes(a) ==
  Cardinality(held[a]) + (IF pc[a] \in {"spin", "fail", "pop"} THEN 1 ELSE 0)

\* Code that holds a lock, or has counted itself in noff, is being executed with
\* interrupts disabled: it is never interrupted, so never waits for a handler
\* that spins for its lock, and never moves to another CPU.
LockedIsUninterruptible ==
  \A a \in Actors : Pushes(a) > 0 => \E c \in Cpus : Executes(c, a) /\ ~ie[c]

\* noff counts exactly the locks of the code its CPU executes: nothing is left
\* over from code that was interrupted or moved away.
NoffExact ==
  \A c \in Cpus :
    noff[c] = IF \E a \in Actors : Executes(c, a)
                THEN Pushes(CHOOSE a \in Actors : Executes(c, a)) ELSE 0

\* When a thread is done with its locks interrupts are enabled again, and while
\* a handler runs they stay disabled, whatever locks it takes and releases.
FlagRestored ==
  \A c \in Cpus :
    /\ inIrq[c] => ~ie[c]
    /\ ~inIrq[c] /\ noff[c] = 0 /\ (on[c] = None \/ pc[on[c]] \in {"idle", "off"}) => ie[c]

\* The panics: holding() is true of every lock that is released, and pop_off
\* runs with interrupts disabled and noff at least 1.
NoPanic ==
  /\ \A c \in Cpus, a \in Actors : Executes(c, a) =>
       /\ pc[a] = "idle" => \A l \in held[a] : Holding(c, l)
       /\ pc[a] \in {"pop", "fail"} => ~ie[c] /\ noff[c] >= 1
=============================================================================
