----------------------------- MODULE Allocator -----------------------------
(***************************************************************************)
(* What an allocator promises: the block chosen for a call shares no memory *)
(* with one that is in use or chosen for another call.                     *)
(***************************************************************************)
CONSTANTS Clients,   \* who may have a call in progress
          Extents    \* the sets of memory units that may be one block

VARIABLES inUse,     \* the extents in use
          served     \* served[c]: the extent chosen for the call of c, {} for none

Taken == (UNION inUse) \cup (UNION {served[c] : c \in Clients})

Init == inUse = {} /\ served = [c \in Clients |-> {}]

\* The allocator chooses an extent for a call ...
Choose(c, x) ==
  /\ served[c] = {} /\ x \cap Taken = {}
  /\ served' = [served EXCEPT ![c] = x]
  /\ UNCHANGED inUse

\* ... which the call returns.
Deliver(c) ==
  /\ served[c] # {}
  /\ inUse' = inUse \cup {served[c]}
  /\ served' = [served EXCEPT ![c] = {}]

\* Both at once.
Alloc(x) ==
  /\ x \cap Taken = {}
  /\ inUse' = inUse \cup {x}
  /\ UNCHANGED served

Free(x) ==
  /\ x \in inUse
  /\ inUse' = inUse \ {x}
  /\ UNCHANGED served

Next ==
  \/ \E c \in Clients : Deliver(c) \/ \E x \in Extents : Choose(c, x)
  \/ \E x \in Extents : Alloc(x) \/ Free(x)

Spec == Init /\ [][Next]_<<inUse, served>>
=============================================================================
