------------------------------ MODULE MCKmt ------------------------------
(* Instances of Kmt: the workloads of os.c and of the devices.             *)
EXTENDS Kmt, TLC

CONSTANTS t1, t2, t3, empty, fill, lock, cooked, kbdirq

P(s) == [op |-> "P", sem |-> s]
V(s) == [op |-> "V", sem |-> s]
Act(o) == [op |-> o, sem |-> NULL]

\* Tproduce and Tconsume (os.c, DEBUG_STARVE): one producer, one consumer.
Producer == <<P(empty), V(fill)>>
Consumer == <<P(fill), V(empty)>>
PairProgram == t1 :> Producer @@ t3 :> Consumer
ProdConsValue == empty :> 1 @@ fill :> 0

\* A reader of the terminal and the daemon that fills its line buffer
\* (tty_read and tty_cook in dev_tty.c).
TtyProgram ==
  t1 :> <<P(cooked), P(lock), V(lock)>> @@
  t2 :> <<P(lock), V(cooked), V(lock)>> @@
  t3 :> <<P(lock), V(lock)>>
TtyValue == lock :> 1 @@ cooked :> 0

\* A user task that takes the terminal's lock inside a system call and gives up
\* the CPU with it in its hands (tty_write), the keyboard daemon, which waits for
\* the signal of the timer handler (dev_input.c), and the terminal's daemon.
DeviceProgram ==
  t1 :> <<Act("enter"), P(lock), Act("yield"), V(lock), Act("leave")>> @@
  t2 :> <<P(kbdirq)>> @@
  t3 :> <<P(lock), V(lock)>>
DeviceValue == kbdirq :> 0 @@ lock :> 1

CpuSymmetry == Permutations(Cpus)
=============================================================================
