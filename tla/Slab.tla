------------------------------- MODULE Slab -------------------------------
(***************************************************************************)
(* The small-block allocator of slab.c behind kalloc and kfree (pmm.c).    *)
(* Each CPU has a list of pages per size class and allocates only from its *)
(* own pages, with interrupts disabled; any CPU frees into any page.  A    *)
(* page starts with a header holding its lock, its list of free blocks and *)
(* their number.  Pages come from the page allocator, whose promise        *)
(* (module Allocator) is all that is used of it here.                      *)
(***************************************************************************)
EXTENDS Integers, Sequences, FiniteSets, SequencesExt

CONSTANTS Cpus,
          Pages,       \* the pages the page allocator manages
          Classes,     \* slab sizes
          Count,       \* Count[k]: blocks of class k in a page
          FirstWords,  \* what owners of whole pages may leave in the first word
          None

ASSUME CountAssumption == Count \in [Classes -> Nat \ {0}]
ASSUME PagesAssumption == None \notin Pages /\ FirstWords \subseteq BOOLEAN

VARIABLES
  use,     \* use[p]: "free", "whole" (a caller's), or its <<cpu, class>>
  word,    \* word[p]: the first word of page p, slab_lock of a slab page, is not 0
  next,    \* next[p]: next_slab_stick
  list,    \* list[p]: the free blocks, by number, in list order
  count,   \* count[p]: current_slab_free_space
  area,    \* area[c][k]: cpu_own_area, the newest page of the list
  live,    \* the small blocks, <<page, number>>, in the hands of callers
  pc,      \* pc[c]: where the call CPU c executes is
  class,   \* class[c]: the class it asks for
  page,    \* page[c]: the page it is at
  block,   \* block[c]: the block it was given or frees
  seen     \* seen[c]: the free list as it was read

heap   == <<use, next, area>>
blocks == <<list, count, live>>
cpu    == <<pc, class, page, block, seen>>
vars   == <<heap, word, blocks, cpu>>

\* initialize_a_slab_new_page pushes the blocks in the order of their addresses.
NewList(k) == [i \in 1 .. Count[k] |-> Count[k] + 1 - i]

Boot == Cpus \X Classes

\* After slab_init: a page for every CPU and class, its first block taken by the
\* call and never used.
Init ==
  \E give \in [Boot -> Pages] :
    /\ IsInjective(give)
    /\ use = [p \in Pages |->
         IF \E b \in Boot : give[b] = p THEN CHOOSE b \in Boot : give[b] = p ELSE <<"free">>]
    /\ word = [p \in Pages |-> FALSE]
    /\ next = [p \in Pages |-> None]
    /\ list = [p \in Pages |-> IF use[p] \in Boot THEN Tail(NewList(use[p][2])) ELSE <<>>]
    /\ count = [p \in Pages |-> Len(list[p])]
    /\ area = [c \in Cpus |-> [k \in Classes |-> give[<<c, k>>]]]
    /\ live = {}
    /\ pc = [c \in Cpus |-> "idle"]
    /\ class = [c \in Cpus |-> None]
    /\ page = [c \in Cpus |-> None]
    /\ block = [c \in Cpus |-> None]
    /\ seen = [c \in Cpus |-> <<>>]

Goto(c, where) == pc' = [pc EXCEPT ![c] = where]

\* The call of c is over.
Return(c) ==
  /\ Goto(c, "idle")
  /\ class' = [class EXCEPT ![c] = None]
  /\ page' = [page EXCEPT ![c] = None]
  /\ block' = [block EXCEPT ![c] = None]
  /\ seen' = [seen EXCEPT ![c] = <<>>]

-----------------------------------------------------------------------------
\* slab_alloc of a size of class k: search the CPU's own pages, newest first.
slab_alloc(c, k) ==
  /\ pc[c] = "idle"
  /\ Goto(c, "search")
  /\ class' = [class EXCEPT ![c] = k]
  /\ page' = [page EXCEPT ![c] = area[c][k]]
  /\ UNCHANGED <<heap, word, blocks, block, seen>>

\* spin_lock on the header of the page.
CanLockSlip(p) == p \in Pages
CanLock(p) == ~word[p]

LockPage(c) ==
  /\ pc[c] \in {"search", "wait"} /\ page[c] # None /\ CanLock(page[c])
  /\ word' = [word EXCEPT ![page[c]] = TRUE]
  /\ Goto(c, IF pc[c] = "search" THEN "look" ELSE "push")
  /\ UNCHANGED <<heap, blocks, class, page, block, seen>>

\* A full page is unlocked and the next one tried.
PassedSlip(c) == next[page[c]]
Passed(c) == page[c]

PassPage(c) ==
  /\ pc[c] = "look" /\ count[page[c]] = 0
  /\ word' = [p \in Pages |-> IF p = Passed(c) THEN FALSE ELSE word[p]]
  /\ page' = [page EXCEPT ![c] = next[page[c]]]
  /\ Goto(c, "search")
  /\ UNCHANGED <<heap, blocks, class, block, seen>>

\* find_the_free_space_in_slab reads the first free block ...
FirstBlock(c) ==
  /\ pc[c] = "look" /\ count[page[c]] > 0 /\ list[page[c]] # <<>>
  /\ block' = [block EXCEPT ![c] = <<page[c], Head(list[page[c]])>>]
  /\ seen' = [seen EXCEPT ![c] = list[page[c]]]
  /\ Goto(c, "take")
  /\ UNCHANGED <<heap, word, blocks, class, page>>

\* ... and unlinks it.
RestSlip(s) == s
Rest(s) == Tail(s)

TakeBlock(c) ==
  /\ pc[c] = "take"
  /\ list' = [list EXCEPT ![page[c]] = Rest(seen[c])]
  /\ count' = [count EXCEPT ![page[c]] = @ - 1]
  /\ Goto(c, "unlock")
  /\ UNCHANGED <<heap, word, live, class, page, block, seen>>

UnlockTaken(c) ==
  /\ pc[c] = "unlock"
  /\ word' = [word EXCEPT ![page[c]] = FALSE]
  /\ live' = live \cup {block[c]}
  /\ Return(c)
  /\ UNCHANGED <<heap, list, count>>

\* request_a_slab_from_bbma: no page of the CPU has room.  The header of the new
\* page is set up, all but its lock, whose word stays as the last owner left it.
LinkedSlip(c) == None
Linked(c) == area[c][class[c]]

GrowBy(c, p) ==
  /\ pc[c] = "search" /\ page[c] = None /\ use[p] = <<"free">>
  /\ use' = [use EXCEPT ![p] = <<c, class[c]>>]
  /\ next' = [next EXCEPT ![p] = Linked(c)]
  /\ area' = [area EXCEPT ![c][class[c]] = p]
  /\ list' = [list EXCEPT ![p] = NewList(class[c])]
  /\ count' = [count EXCEPT ![p] = Count[class[c]]]
  /\ page' = [page EXCEPT ![c] = p]
  /\ UNCHANGED <<word, live, pc, class, block, seen>>

\* bbma_alloc has given no page: NULL.
GrowFails(c) ==
  /\ pc[c] = "search" /\ page[c] = None
  /\ Return(c)
  /\ UNCHANGED <<heap, word, blocks>>

\* slab_free: the header is found by clearing the low bits of the address.
slab_free(c, b) ==
  /\ pc[c] = "idle" /\ b \in live
  /\ live' = live \ {b}
  /\ block' = [block EXCEPT ![c] = b]
  /\ page' = [page EXCEPT ![c] = b[1]]
  /\ Goto(c, "wait")
  /\ UNCHANGED <<heap, word, list, count, class, seen>>

ReadList(c) ==
  /\ pc[c] = "push"
  /\ seen' = [seen EXCEPT ![c] = list[page[c]]]
  /\ Goto(c, "link")
  /\ UNCHANGED <<heap, word, blocks, class, page, block>>

CountSlip(n) == n
CountUp(n) == n + 1

PushBlock(c) ==
  /\ pc[c] = "link"
  /\ list' = [list EXCEPT ![page[c]] = <<block[c][2]>> \o seen[c]]
  /\ count' = [count EXCEPT ![page[c]] = CountUp(@)]
  /\ Goto(c, "open")
  /\ UNCHANGED <<heap, word, live, class, page, block, seen>>

UnlockFreed(c) ==
  /\ pc[c] = "open"
  /\ word' = [word EXCEPT ![page[c]] = FALSE]
  /\ Return(c)
  /\ UNCHANGED <<heap, blocks>>

\* Sizes over 2 KB go to the page allocator: here, a whole page.  Its owner may
\* leave anything in the first word.
AllocWhole(c, p) ==
  /\ pc[c] = "idle" /\ use[p] = <<"free">>
  /\ use' = [use EXCEPT ![p] = <<"whole">>]
  /\ UNCHANGED <<next, area, word, blocks, cpu>>

FreeWhole(c, p) ==
  /\ pc[c] = "idle" /\ use[p] = <<"whole">>
  /\ use' = [use EXCEPT ![p] = <<"free">>]
  /\ \E w \in FirstWords : word' = [word EXCEPT ![p] = w]
  /\ UNCHANGED <<next, area, blocks, cpu>>

Step(c) ==
  \/ PassPage(c) \/ FirstBlock(c) \/ TakeBlock(c) \/ UnlockTaken(c)
  \/ GrowFails(c) \/ \E p \in Pages : GrowBy(c, p)
  \/ ReadList(c) \/ PushBlock(c) \/ UnlockFreed(c)

Next == \E c \in Cpus :
  \/ \E k \in Classes : slab_alloc(c, k)
  \/ \E b \in live : slab_free(c, b)
  \/ \E p \in Pages : AllocWhole(c, p) \/ FreeWhole(c, p)
  \/ LockPage(c)
  \/ Step(c)

Spec == Init /\ [][Next]_vars

\* A CPU in a call goes on executing it, interrupts being disabled, and a spin
\* lock that is free again and again is taken at last.
FairSpec == Spec /\ \A c \in Cpus : WF_vars(Step(c)) /\ SF_vars(LockPage(c))

-----------------------------------------------------------------------------
Numbers == UNION {1 .. Count[k] : k \in Classes}
Places == Pages \X Numbers

\* Every variable has its type; a page's blocks are those of its class.
TypeOK ==
  /\ use \in [Pages -> {<<"free">>, <<"whole">>} \cup Boot]
  /\ word \in [Pages -> BOOLEAN]
  /\ next \in [Pages -> Pages \cup {None}]
  /\ \A p \in Pages : list[p] \in Seq(IF use[p] \in Boot THEN 1 .. Count[use[p][2]] ELSE {})
  /\ count \in [Pages -> Nat]
  /\ area \in [Cpus -> [Classes -> Pages]]
  /\ live \subseteq Places
  /\ pc \in [Cpus -> {"idle", "search", "look", "take", "unlock", "wait", "push", "link", "open"}]
  /\ class \in [Cpus -> Classes \cup {None}]
  /\ page \in [Cpus -> Pages \cup {None}]
  /\ block \in [Cpus -> Places \cup {None}]

Inside(c) == pc[c] \in {"look", "take", "unlock", "push", "link", "open"}

\* The header and the free list of a page are used by one CPU at a time, the one
\* that locked it, though the page's own CPU allocates while others free.
PageExclusive ==
  \A p \in Pages : use[p] \in Boot =>
    Cardinality({c \in Cpus : Inside(c) /\ page[c] = p}) = (IF word[p] THEN 1 ELSE 0)

\* Blocks a CPU has unlinked and not handed out, or not linked in again.
InHand(c) == pc[c] \in {"unlock", "wait", "push", "link"}
Handled(p) == {c \in Cpus : InHand(c) /\ block[c][1] = p}

\* Every block of a page is in exactly one place: free, in use or on its way;
\* none is given twice and, but for the one slab_init drops, none is lost.  And
\* current_slab_free_space, the only thing an allocation tests, is the length of
\* the list it then takes from: the list is never found empty.
BlocksAccounted ==
  \A p \in Pages : use[p] \in Boot =>
    /\ count[p] = Len(list[p])
    /\ IsInjective(list[p])
    /\ \A c, d \in Handled(p) : c # d => block[c] # block[d]
    /\ LET free == {<<p, i>> : i \in ToSet(list[p])}
           way  == {block[c] : c \in Handled(p)}
           out  == {b \in live : b[1] = p}
           lost == Count[use[p][2]] - Cardinality(free) - Cardinality(way) - Cardinality(out)
       IN  /\ free \cap way = {} /\ free \cap out = {} /\ way \cap out = {}
           /\ lost = IF next[p] = None THEN 1 ELSE 0

\* The pages from p on.
From(p) ==
  LET far[n \in 0 .. Cardinality(Pages)] ==
        IF n = 0 THEN {p} ELSE far[n - 1] \cup {next[q] : q \in far[n - 1] \ {None}}
  IN  far[Cardinality(Pages)]

\* A page once taken for a CPU and class stays within reach of that CPU, and the
\* search of the list ends.
PagesReachable ==
  \A c \in Cpus, k \in Classes :
    From(area[c][k]) = {p \in Pages : use[p] = <<c, k>>} \cup {None}

\* kalloc and kfree are an allocator, of blocks and of whole pages together.
Units(p) == {p} \X (Numbers \cup {0})
Memory == INSTANCE Allocator WITH
  Extents <- {{b} : b \in Places} \cup {Units(p) : p \in Pages},
  Clients <- Cpus,
  inUse   <- {{b} : b \in live} \cup {Units(p) : p \in {q \in Pages : use[q] = <<"whole">>}},
  served  <- [c \in Cpus |-> IF pc[c] = "unlock" THEN {block[c]} ELSE {}]

ImplementsAllocator == Memory!Spec

\* Every call returns.
CallsReturn == \A c \in Cpus : pc[c] # "idle" ~> pc[c] = "idle"
=============================================================================
