---------------------------- MODULE Semaphore ----------------------------
(***************************************************************************)
(* What the semaphores promise: a task that entered P(s) leaves it only by *)
(* taking one of the permits of s, and V(s) adds a permit.  How the tasks  *)
(* are blocked, queued, woken and scheduled is left to the implementation. *)
(***************************************************************************)
EXTENDS Naturals

CONSTANTS Tasks, Sems, InitValue, None

VARIABLES permits,  \* permits[s]: permits of s that nobody has taken
          inP       \* inP[t]: the semaphore t is in P of, or None

vars == <<permits, inP>>

Init == /\ permits = InitValue
        /\ inP = [t \in Tasks |-> None]

BeginP(t, s) == /\ inP[t] = None
                /\ inP' = [inP EXCEPT ![t] = s]
                /\ UNCHANGED permits

EndP(t, s) == /\ inP[t] = s /\ permits[s] > 0
              /\ permits' = [permits EXCEPT ![s] = @ - 1]
              /\ inP' = [inP EXCEPT ![t] = None]

V(s) == /\ permits' = [permits EXCEPT ![s] = @ + 1]
        /\ UNCHANGED inP

Next == \E s \in Sems : V(s) \/ \E t \in Tasks : BeginP(t, s) \/ EndP(t, s)

Spec == Init /\ [][Next]_vars
=============================================================================
