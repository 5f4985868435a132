------------------------------- MODULE Buddy -------------------------------
(***************************************************************************)
(* The page allocator of tbma.c.  Memory is cut into areas, each under a   *)
(* segment tree with a spin lock.  A node stands for an aligned block and  *)
(* holds the size (a power of two, by its exponent) of the largest block   *)
(* it can give.  An allocation tries the trees in turn, passing over those *)
(* that are locked; a free waits for the tree of its address.              *)
(***************************************************************************)
EXTENDS Integers, FiniteSets

CONSTANTS Cpus,
          TreeNum,             \* tree_num
          MinSize, MaxSize,    \* S_4K and S_16M, 12 and 24
          BootPages            \* pages slab_init takes and never gives back

Depth == MaxSize - MinSize

\* calculate_addr_helper, the powers of two, and the 8192 after its last entry.
Power[k \in 0 .. Depth + 1] == IF k = 0 THEN 1 ELSE 2 * Power[k - 1]

ASSUME SizeAssumption ==
  /\ TreeNum \in Nat \ {0} /\ BootPages \in Nat \ {0}
  /\ MinSize \in Nat /\ MaxSize \in Nat /\ 2 <= MinSize /\ MinSize <= MaxSize
  /\ BootPages <= Power[Depth]

VARIABLES
  tree,     \* tree[i][n]: node n of all_trees[i]
  locked,   \* locked[i]: tree_locks[i] is 1
  live,     \* the blocks, <<tree, node>>, in the hands of callers
  pc,       \* pc[c]: where the call CPU c executes is
  req,      \* req[c]: the size it asks for (MinSize when it does not)
  at,       \* at[c]: the tree it tries or has locked (1 when none)
  hand      \* hand[c]: the block it has taken or frees, <<>> for none

vars == <<tree, locked, live, pc, req, at, hand>>

FULL_USED    == 0
GET_DEPARTED == 1

Sizes == MinSize .. MaxSize
Trees == 1 .. TreeNum
Nodes == 1 .. Power[Depth + 1] - 1

Left(n)  == 2 * n
Right(n) == 2 * n + 1
Sibling(n) == IF n % 2 = 0 THEN n + 1 ELSE n - 1
Larger(x, y) == IF x >= y THEN x ELSE y

\* The size of the block a node stands for: a power of two nodes have each size.
\* Every node starts as one free block.
Size == [n \in Nodes |->
  CHOOSE s \in Sizes : Power[MaxSize - s] <= n /\ n < Power[MaxSize - s + 1]]
initialize_tree == [n \in Nodes |-> Size[n]]

\* convert_index_to_addr, from the start of the area and in smallest blocks.
Addr == [n \in Nodes |-> (n - Power[MaxSize - Size[n]]) * Power[Size[n] - MinSize]]
End  == [n \in Nodes |-> Addr[n] + Power[Size[n] - MinSize]]

Block(i, n) == <<i, n>>

-----------------------------------------------------------------------------
\* get_the_free_space_in_tree: the node it visits at each size, the left child
\* when that can give the block.
Visit(t, want) ==
  LET at_[s \in Sizes] ==
        IF s = MaxSize THEN 1
        ELSE IF t[Left(at_[s + 1])] >= want THEN Left(at_[s + 1]) ELSE Right(at_[s + 1])
  IN  at_

\* The asserts on the way.
VisitFits(t, want) ==
  LET on == Visit(t, want)
  IN  \A s \in want .. MaxSize : want <= t[on[s]] /\ t[on[s]] <= s

\* The node taken is marked, the nodes above it are refreshed when the call for
\* the node below returns.
RefreshSlip(old, want, l, r) == Larger(l, r)
Refresh(old, want, l, r) == IF old = want THEN GET_DEPARTED ELSE Larger(l, r)

TakenSlip(n) == Size[n]
Taken(n) == FULL_USED

WayUp(t, want) ==
  LET on == Visit(t, want)
      up[s \in want .. MaxSize] ==
        IF s = want THEN Taken(on[s])
        ELSE Refresh(t[on[s]], want, up[s - 1], t[Sibling(on[s - 1])])
  IN  up

AfterTake(t, want) ==
  LET on == Visit(t, want)
      up == WayUp(t, want)
  IN  [n \in Nodes |-> IF Size[n] >= want /\ n = on[Size[n]] THEN up[Size[n]] ELSE t[n]]

\* free_tree_ptr: the node over address a at each size, and where it stops.
Over(a) ==
  LET on[s \in Sizes] ==
        IF s = MaxSize THEN 1
        ELSE IF a < Addr[on[s + 1]] + Power[s - MinSize] THEN Left(on[s + 1]) ELSE Right(on[s + 1])
  IN  on

StopsAt(t, a) ==
  LET on == Over(a) IN {s \in Sizes : Addr[on[s]] = a /\ t[on[s]] = FULL_USED}
FreedSize(t, a) ==
  LET stops == StopsAt(t, a) IN CHOOSE s \in stops : \A r \in stops : r <= s

MergeSlip(s, l, r) == Larger(l, r)
MergeEitherSlip(s, l, r) == IF l = s - 1 \/ r = s - 1 THEN s ELSE Larger(l, r)
Merge(s, l, r) == IF l = s - 1 /\ r = s - 1 THEN s ELSE Larger(l, r)

WayBack(t, a, stop) ==
  LET on == Over(a)
      up[s \in stop .. MaxSize] ==
        IF s = stop THEN s ELSE Merge(s, up[s - 1], t[Sibling(on[s - 1])])
  IN  up

AfterFree(t, a) ==
  LET on   == Over(a)
      stop == FreedSize(t, a)
      up   == WayBack(t, a, stop)
  IN  [n \in Nodes |-> IF Size[n] >= stop /\ n = on[Size[n]] THEN up[Size[n]] ELSE t[n]]

\* The asserts on the way down and back.
FreeFits(t, a) ==
  LET on  == Over(a)
      new == AfterFree(t, a)
  IN  \A s \in FreedSize(t, a) .. MaxSize :
        t[on[s]] <= s /\ new[on[s]] \notin {FULL_USED, GET_DEPARTED}

-----------------------------------------------------------------------------
\* slab_init takes the first pages of the first tree, one after the other.
Booted[k \in 0 .. BootPages] ==
  IF k = 0 THEN initialize_tree ELSE AfterTake(Booted[k - 1], MinSize)
BootTree == Booted[BootPages]

Pages == {n \in Nodes : Size[n] = MinSize}
BootBlocks == {Block(1, n) : n \in {m \in Pages : Addr[m] < BootPages}}

Init ==
  /\ tree = [i \in Trees |-> IF i = 1 THEN BootTree ELSE initialize_tree]
  /\ locked = [i \in Trees |-> FALSE]
  /\ live = {}
  /\ pc = [c \in Cpus |-> "idle"]
  /\ req = [c \in Cpus |-> MinSize]
  /\ at = [c \in Cpus |-> 1]
  /\ hand = [c \in Cpus |-> <<>>]

\* bbma_alloc of a size that is not refused.
bbma_alloc(c, s) ==
  /\ pc[c] = "idle"
  /\ pc' = [pc EXCEPT ![c] = "scan"]
  /\ req' = [req EXCEPT ![c] = s]
  /\ at' = [at EXCEPT ![c] = 1]
  /\ UNCHANGED <<tree, locked, live, hand>>

CanLockSlip(i) == i \in Trees
CanLock(i) == ~locked[i]

\* find_available_tree: try_lock, or on to the next tree.
TryTree(c) ==
  /\ pc[c] = "scan" /\ at[c] \in Trees
  /\ IF CanLock(at[c])
       THEN /\ locked' = [locked EXCEPT ![at[c]] = TRUE]
            /\ pc' = [pc EXCEPT ![c] = "look"]
            /\ UNCHANGED at
       ELSE /\ at' = [at EXCEPT ![c] = @ + 1]
            /\ UNCHANGED <<locked, pc>>
  /\ UNCHANGED <<tree, live, req, hand>>

\* The locked tree cannot give the block.
PassTree(c) ==
  /\ pc[c] = "look" /\ tree[at[c]][1] < req[c]
  /\ locked' = [locked EXCEPT ![at[c]] = FALSE]
  /\ at' = [at EXCEPT ![c] = @ + 1]
  /\ pc' = [pc EXCEPT ![c] = "scan"]
  /\ UNCHANGED <<tree, live, req, hand>>

\* It can: get_the_free_space_in_tree.
TakeBlock(c) ==
  /\ pc[c] = "look" /\ tree[at[c]][1] >= req[c]
  /\ VisitFits(tree[at[c]], req[c])
  /\ tree' = [tree EXCEPT ![at[c]] = AfterTake(@, req[c])]
  /\ hand' = [hand EXCEPT ![c] = Block(at[c], Visit(tree[at[c]], req[c])[req[c]])]
  /\ pc' = [pc EXCEPT ![c] = "unlock"]
  /\ req' = [req EXCEPT ![c] = MinSize]
  /\ UNCHANGED <<locked, live, at>>

\* No tree was left: NULL.
NoTree(c) ==
  /\ pc[c] = "scan" /\ at[c] > TreeNum
  /\ pc' = [pc EXCEPT ![c] = "idle"]
  /\ req' = [req EXCEPT ![c] = MinSize]
  /\ at' = [at EXCEPT ![c] = 1]
  /\ UNCHANGED <<tree, locked, live, hand>>

\* bbma_free of a block its caller owns.
bbma_free(c, b) ==
  /\ pc[c] = "idle" /\ b \in live
  /\ live' = live \ {b}
  /\ hand' = [hand EXCEPT ![c] = b]
  /\ at' = [at EXCEPT ![c] = b[1]]
  /\ pc' = [pc EXCEPT ![c] = "wait"]
  /\ UNCHANGED <<tree, locked, req>>

LockToFree(c) ==
  /\ pc[c] = "wait" /\ CanLock(at[c])
  /\ locked' = [locked EXCEPT ![at[c]] = TRUE]
  /\ pc' = [pc EXCEPT ![c] = "give"]
  /\ UNCHANGED <<tree, live, req, at, hand>>

GiveBlock(c) ==
  /\ pc[c] = "give"
  /\ StopsAt(tree[at[c]], Addr[hand[c][2]]) # {}
  /\ FreeFits(tree[at[c]], Addr[hand[c][2]])
  /\ tree' = [tree EXCEPT ![at[c]] = AfterFree(@, Addr[hand[c][2]])]
  /\ hand' = [hand EXCEPT ![c] = <<>>]
  /\ pc' = [pc EXCEPT ![c] = "unlock"]
  /\ UNCHANGED <<locked, live, req, at>>

\* The tree is unlocked; an allocation returns its block.
Unlock(c) ==
  /\ pc[c] = "unlock"
  /\ locked' = [locked EXCEPT ![at[c]] = FALSE]
  /\ live' = live \cup ({hand[c]} \ {<<>>})
  /\ hand' = [hand EXCEPT ![c] = <<>>]
  /\ pc' = [pc EXCEPT ![c] = "idle"]
  /\ at' = [at EXCEPT ![c] = 1]
  /\ UNCHANGED <<tree, req>>

Step(c) ==
  \/ TryTree(c) \/ PassTree(c) \/ TakeBlock(c) \/ NoTree(c)
  \/ LockToFree(c) \/ GiveBlock(c) \/ Unlock(c)

Next == \E c \in Cpus :
  \/ \E s \in Sizes : bbma_alloc(c, s)
  \/ \E b \in live : bbma_free(c, b)
  \/ Step(c)

Spec == Init /\ [][Next]_vars

-----------------------------------------------------------------------------
\* Every variable has its type; a node holds a size it can have, or a mark.
TypeOK ==
  /\ tree \in [Trees -> [Nodes -> Sizes \cup {FULL_USED, GET_DEPARTED}]]
  /\ \A i \in Trees, n \in Nodes : tree[i][n] <= Size[n]
  /\ locked \in [Trees -> BOOLEAN]
  /\ live \subseteq Trees \X Nodes
  /\ pc \in [Cpus -> {"idle", "scan", "look", "wait", "give", "unlock"}]
  /\ req \in [Cpus -> Sizes] /\ at \in [Cpus -> 1 .. TreeNum + 1]
  /\ hand \in [Cpus -> {<<>>} \cup Trees \X Nodes]

\* A tree is read and written by one CPU at a time, the one that locked it; no
\* unlock opens a tree under another CPU.
TreeExclusive ==
  \A i \in Trees :
    Cardinality({c \in Cpus : pc[c] \in {"look", "give", "unlock"} /\ at[c] = i})
      = (IF locked[i] THEN 1 ELSE 0)

\* Blocks that are not free: in use, in the hands of a call, or slab_init's.
Held == live \cup BootBlocks \cup {hand[c] : c \in {d \in Cpus : hand[d] # <<>>}}

\* The memory of node m lies in that of n; they share memory.
Inside(m, n)  == Addr[n] <= Addr[m] /\ End[m] <= End[n]
Overlap(m, n) == Addr[m] < End[n] /\ Addr[n] < End[m]

\* The block of node n shares memory with a block somebody has.
Touched(i, n) == \E b \in Held : b[1] = i /\ Overlap(b[2], n)

\* FULL_USED marks exactly the nodes whose block somebody has, so the address
\* alone leads bbma_free to the block that was handed out there, whatever was
\* split and merged since, and never to another, and no assert of free_tree_ptr
\* fails.  determine_which_tree asserts that it lies above the start of the
\* memory: slab_init keeps the first page.
FreeFindsBlock ==
  /\ \A i \in Trees, n \in Nodes : tree[i][n] = FULL_USED <=> Block(i, n) \in Held
  /\ \A b \in Held \ BootBlocks :
       /\ b[1] = 1 => Addr[b[2]] > 0
       /\ StopsAt(tree[b[1]], Addr[b[2]]) # {}
       /\ Over(Addr[b[2]])[FreedSize(tree[b[1]], Addr[b[2]])] = b[2]
       /\ FreeFits(tree[b[1]], Addr[b[2]])

\* A size in a node is a promise: below it lies a free block at least as large,
\* unless the node lies inside a block in use.  So the asserts of the descent hold.
PromiseKept ==
  /\ \A i \in Trees, n \in Nodes :
       tree[i][n] \in Sizes =>
         \/ \E b \in Held : b[1] = i /\ Inside(n, b[2])
         \/ \E m \in Nodes : Inside(m, n) /\ Size[m] >= tree[i][n] /\ ~Touched(i, m)
  /\ \A i \in Trees, s \in Sizes : tree[i][1] >= s => VisitFits(tree[i], s)

\* Free neighbours are always merged: memory in which no block is held is offered
\* as one block, so fragmentation ends when its blocks are freed.
FreeIsMerged ==
  \A i \in Trees, n \in Nodes : ~Touched(i, n) => tree[i][n] = Size[n]

\* The memory of a block, in smallest blocks.
Extent(b) ==
  {<<b[1], a>> : a \in Addr[b[2]] .. End[b[2]] - 1}

Memory == INSTANCE Allocator WITH
  Extents <- {Extent(b) : b \in (Trees \X Nodes) \ BootBlocks},
  Clients <- Cpus,
  inUse   <- {Extent(b) : b \in live},
  served  <- [c \in Cpus |-> IF pc[c] = "unlock" /\ hand[c] # <<>> THEN Extent(hand[c]) ELSE {}]

\* bbma_alloc and bbma_free are an allocator: no two blocks in use overlap.
ImplementsAllocator == Memory!Spec
=============================================================================
