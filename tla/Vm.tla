--------------------------------- MODULE Vm ---------------------------------
(***************************************************************************)
(* The memory of user processes (uproc.c over map of vme.c): the areas of  *)
(* a process, its list of mapped pages, its page table, and the counts of  *)
(* mappings per frame that copy on write relies on; mmap, page faults,     *)
(* fork and exit.                                                          *)
(*                                                                         *)
(* Areas and pages of a process are changed by that process alone; counts  *)
(* and frames are shared.  A step is what one process does up to the next  *)
(* point at which another CPU may change a count or a frame it looks at.   *)
(* A process that gives up frames does so with interrupts disabled and so  *)
(* keeps its CPU; one that has exited keeps it for good (see Uproc).       *)
(***************************************************************************)
EXTENDS Integers, FiniteSets, SequencesExt

CONSTANTS
  Procs,      \* processes, numbered in the order of their creation
  Frames,     \* physical pages
  NPages,     \* pages of the user area
  Kinds,      \* of areas: "rw", "ro" (private) and "shared" (writable)
  Data,       \* what a page may contain
  NCpus,
  None

Area == [lo : Nat, hi : Nat, kind : Kinds]
Entry == [pa : Frames, w : BOOLEAN]

ASSUME VmAssumption ==
  /\ IsFiniteSet(Procs) /\ Procs = 1..Cardinality(Procs)
  /\ NPages \in Nat \ {0} /\ NCpus \in Nat \ {0}
  /\ "rw" \in Kinds /\ Kinds \subseteq {"rw", "ro", "shared"}
  /\ None \notin Frames \cup Entry \cup Area \cup Seq(Area)

VARIABLES
  pc,         \* "none", "user", "fork", "drop", "exit" or "stuck"
  areas,      \* vm_area_head ...: [lo, hi, kind], hi excluded
  mapped,     \* mapped_page_head ...: pairs of a page and a frame
  pt,         \* the page table: [pa, w] or None
  drop,       \* the frame whose count is to be decremented or tested
  dropped,    \* its count has been decremented
  cow,        \* cow_table
  used,       \* frames allocated from pmm
  content,    \* of frames
  panic,
  mem,        \* history: what a process wrote, or its father had at the fork
  raced,      \* history: a count was changed between its decrement and its test
  uncounted,  \* history: a fork shared a page that is not private and writable
  refreed     \* history: a frame that was free has been freed

proc == <<pc, areas, mapped, pt, drop, dropped>>
memory == <<cow, used, content>>
history == <<mem, raced, uncounted, refreed>>
vars == <<proc, memory, panic, history>>

Pages == 1..NPages
Range2(lo, n) == lo..(lo + n - 1)
Writable(kind) == kind \in {"rw", "shared"}

-----------------------------------------------------------------------------
(* Areas. *)

Behind(as, page) == {i \in DOMAIN as : as[i].hi > page}
First(S) == CHOOSE i \in S : \A j \in S : i <= j

(* get_suitable_addr: n pages are free from start on, or behind an area.   *)
Fits(as, at, n) == \A i \in DOMAIN as : as[i].lo >= at + n \/ as[i].hi <= at
Suitable(as, start, n) ==
  First({at \in {start} \cup {as[i].hi : i \in Behind(as, start)} : Fits(as, at, n)})

(* insert_vme_node: None if the area overlaps one of the list. *)
InsertSlip(as, a) == IF \E i \in DOMAIN as : as[i].lo < a.hi /\ a.lo < as[i].hi
                     THEN None ELSE Append(as, a)
Insert(as, a) ==
  LET later == Behind(as, a.lo)
  IN IF later = {} THEN Append(as, a)
     ELSE IF as[First(later)].lo >= a.hi THEN InsertAt(as, First(later), a)
     ELSE None

(* find_vme_node: the area around n pages from page on, or None. *)
Find(as, page, n) ==
  LET later == Behind(as, page)
      a == as[First(later)]
  IN IF later = {} THEN None
     ELSE IF a.lo <= page /\ a.hi >= page + n THEN a ELSE None

(* new_vme_node and insert_vme_node, as kmmap calls them. *)
NewArea(as, start, n, kind) ==
  LET lo == Suitable(as, start, n)
  IN Insert(as, [lo |-> lo, hi |-> lo + n, kind |-> kind])

-----------------------------------------------------------------------------
(* Pages: a memory m of one process is its list and its table. *)

(* pgmap of the pages in DOMAIN entry, and pgunmap of those in V; map      *)
(* panics on a page that is mapped, or is not, and delete_map_page on a    *)
(* page that is not in the list.                                           *)
pgmap(m, entry) ==
  [list |-> m.list \cup {<<v, entry[v].pa>> : v \in DOMAIN entry},
   table |-> [v \in Pages |-> IF v \in DOMAIN entry THEN entry[v] ELSE m.table[v]],
   panic |-> m.panic \/ \E v \in DOMAIN entry : m.table[v] # None]
pgunmapSlip(m, V) ==
  [list |-> m.list,
   table |-> [v \in Pages |-> IF v \in V THEN None ELSE m.table[v]],
   panic |-> m.panic]
pgunmap(m, V) ==
  [list |-> {e \in m.list : e[1] \notin V},
   table |-> [v \in Pages |-> IF v \in V THEN None ELSE m.table[v]],
   panic |-> m.panic \/ \E v \in V : m.table[v] = None \/ \A e \in m.list : e[1] # v]

Listed(p) == {e[1] : e \in mapped[p]}
FrameOf(p, v) == CHOOSE f \in Frames : <<v, f>> \in mapped[p]

Memory(p) == [list |-> mapped[p], table |-> pt[p], panic |-> panic]
SetMemory(p, m) ==
  /\ mapped' = [mapped EXCEPT ![p] = m.list]
  /\ pt' = [pt EXCEPT ![p] = m.table]
  /\ panic' = m.panic

Free == Frames \ used

-----------------------------------------------------------------------------
Init ==
  /\ pc = [p \in Procs |-> IF p = 1 THEN "user" ELSE "none"]
  /\ areas = [p \in Procs |-> << >>]
  /\ mapped = [p \in Procs |-> {}]
  /\ pt = [p \in Procs |-> [v \in Pages |-> None]]
  /\ drop = [p \in Procs |-> None]
  /\ dropped = [p \in Procs |-> FALSE]
  /\ cow = [f \in Frames |-> 0]
  /\ used = {}
  /\ content \in [Frames -> Data]
  /\ panic = FALSE
  /\ mem = [p \in Procs |-> [v \in Pages |-> None]]
  /\ raced = FALSE /\ uncounted = FALSE /\ refreed = FALSE

(* Processes that hold a CPU with interrupts disabled. *)
Busy == {p \in Procs : pc[p] \in {"drop", "exit", "stuck"}}
Runs(p, where) == pc[p] = where /\ Cardinality(Busy) < NCpus /\ ~panic
Goto(p, where) == pc' = [pc EXCEPT ![p] = where]

(* mmap: an area of n pages, from start on if that is free. *)
Mmap(p, start, n, kind) ==
  /\ Runs(p, "user")
  /\ Suitable(areas[p], start, n) + n - 1 \in Pages  \* asserted by get_suitable_addr
  /\ LET new == NewArea(areas[p], start, n, kind)
     IN IF new = None
        THEN panic' = TRUE /\ areas' = areas
        ELSE areas' = [areas EXCEPT ![p] = new] /\ panic' = panic
  /\ UNCHANGED <<pc, mapped, pt, drop, dropped, memory, history>>

(* mmap with MAP_UNMAP: if the pages are inside one area they are unmapped. *)
(* Their frames are neither counted nor freed, the area stays.              *)
Munmap(p, start, n) ==
  /\ Runs(p, "user")
  /\ Find(areas[p], start, n) # None
  /\ SetMemory(p, pgunmap(Memory(p), Range2(start, n) \cap Listed(p)))
  /\ UNCHANGED <<pc, areas, drop, dropped, memory, history>>

Write(p, v, d) ==
  /\ Runs(p, "user")
  /\ pt[p][v] # None /\ pt[p][v].w
  /\ content' = [content EXCEPT ![pt[p][v].pa] = d]
  /\ mem' = [mem EXCEPT ![p][v] = d]
  /\ UNCHANGED <<proc, cow, used, panic, raced, uncounted, refreed>>

(* page_fault on a page that is not mapped: a new frame, in a new area of  *)
(* one page if there is none around it.                                    *)
FaultNew(p, v, f) ==
  /\ Runs(p, "user")
  /\ pt[p][v] = None /\ f \in Free
  /\ used' = used \cup {f}
  /\ LET around == Find(areas[p], v, 1)
         new == IF around = None THEN NewArea(areas[p], v, 1, "rw") ELSE areas[p]
         kind == IF around = None THEN "rw" ELSE around.kind
         m == pgmap(Memory(p), [x \in {v} |-> [pa |-> f, w |-> Writable(kind)]])
     IN /\ areas' = [areas EXCEPT ![p] = IF new = None THEN @ ELSE new]
        /\ SetMemory(p, [m EXCEPT !.panic = @ \/ new = None])
  /\ mem' = [mem EXCEPT ![p][v] = content[f]]
  /\ UNCHANGED <<pc, drop, dropped, cow, content, raced, uncounted, refreed>>

(* page_fault on a mapped page: a copy, mapped with the area's protection. *)
(* Then the count of the old frame is decremented; its number is read from *)
(* the page record that pgunmap has freed, which pgmap may have reused, so *)
(* that it may be the new frame's.                                         *)
FaultCopy(p, v, f, gone) ==
  /\ Runs(p, "user")
  /\ pt[p][v] # None /\ ~pt[p][v].w /\ f \in Free
  /\ gone \in {pt[p][v].pa, f}
  /\ used' = used \cup {f}
  /\ content' = [content EXCEPT ![f] = content[pt[p][v].pa]]
  /\ SetMemory(p, pgmap(pgunmap(Memory(p), {v}),
                        [x \in {v} |-> [pa |-> f, w |-> Writable(Find(areas[p], v, 1).kind)]]))
  /\ drop' = [drop EXCEPT ![p] = gone]
  /\ Goto(p, "drop")
  /\ UNCHANGED <<areas, dropped, cow, mem, raced, uncounted, refreed>>

(* dec_cow_cnt, then get_cow_cnt and the free: two acquisitions of cow_lock. *)
Tested(f) == \E q \in Procs : dropped[q] /\ drop[q] = f
Dec(p) ==
  /\ pc[p] \in {"drop", "exit"} /\ drop[p] # None /\ ~dropped[p] /\ ~panic
  /\ cow' = [cow EXCEPT ![drop[p]] = @ - 1]
  /\ dropped' = [dropped EXCEPT ![p] = TRUE]
  /\ raced' = (raced \/ Tested(drop[p]))
  /\ UNCHANGED <<pc, areas, mapped, pt, drop, used, content, panic, mem, uncounted, refreed>>

Unneeded(f) == cow[f] = 0
FreeIfLast(p) ==
  /\ dropped[p] /\ ~panic
  /\ used' = IF Unneeded(drop[p]) THEN used \ {drop[p]} ELSE used
  /\ refreed' = (refreed \/ (Unneeded(drop[p]) /\ drop[p] \notin used))
  /\ dropped' = [dropped EXCEPT ![p] = FALSE]
  /\ drop' = [drop EXCEPT ![p] = None]
  /\ Goto(p, IF pc[p] = "drop" THEN "user" ELSE "exit")
  /\ UNCHANGED <<areas, mapped, pt, cow, content, panic, mem, raced, uncounted>>

(* fork_cow_mapping: private writable pages nobody shares yet get another  *)
(* frame, counted once and read only.  A frame is allocated for the other  *)
(* pages too, and forgotten.                                               *)
IsPrivate(p, v) == Find(areas[p], v, 1).kind = "rw"
Moved(p) == {e \in mapped[p] : cow[e[2]] = 0 /\ IsPrivate(p, e[1])}
ForkCowMapping(p, to) ==
  /\ Runs(p, "user")
  /\ Cardinality({q \in Procs : pc[q] = "none"}) > Cardinality({q \in Procs : pc[q] = "fork"})
  /\ mapped[p] # {}
  /\ LET fresh == {e[1] : e \in {x \in mapped[p] : cow[x[2]] = 0}}
         moved == {e[1] : e \in Moved(p)}
     IN /\ to \in [fresh -> Free] /\ IsInjective(to)
        /\ used' = used \cup {to[v] : v \in fresh}
        /\ SetMemory(p, pgmap(pgunmap(Memory(p), moved), [v \in moved |-> [pa |-> to[v], w |-> FALSE]]))
        /\ cow' = [f \in Frames |-> IF \E v \in moved : to[v] = f THEN cow[f] + 1 ELSE cow[f]]
  /\ Goto(p, "fork")
  /\ UNCHANGED <<areas, drop, dropped, content, history>>

(* fork_copying_vme_pages and fork_coppying_new_mapped_pages: the child    *)
(* gets the same areas and the same frames, with the areas' protection.    *)
InheritSlip(e) == cow
Inherit(e) == [f \in Frames |-> cow[f] + (IF \E x \in e : x[2] = f THEN 1 ELSE 0)]
ForkChild(p) ==
  /\ Runs(p, "fork")
  /\ LET q == First({r \in Procs : pc[r] = "none"})
         entry == [v \in Listed(p) |->
                     [pa |-> FrameOf(p, v), w |-> Writable(Find(areas[p], v, 1).kind)]]
     IN /\ areas' = [areas EXCEPT ![q] = areas[p]]
        /\ SetMemory(q, pgmap(Memory(q), entry))
        /\ cow' = Inherit(mapped[p])
        /\ mem' = [mem EXCEPT ![q] = mem[p]]
        /\ pc' = [pc EXCEPT ![p] = "user", ![q] = "user"]
  /\ uncounted' = (uncounted \/ \E e \in mapped[p] : ~IsPrivate(p, e[1]))
  /\ raced' = (raced \/ \E e \in mapped[p] : Tested(e[2]))
  /\ UNCHANGED <<drop, dropped, used, content, refreed>>

(* exit, by system call, or in a trap of a killed process, which may be    *)
(* inside fork.  destroy_mapped_pages goes through the list; the page      *)
(* table stays as it is until unprotect.                                   *)
Exit(p) ==
  /\ Runs(p, "user") \/ Runs(p, "fork")
  /\ Goto(p, "exit")
  /\ UNCHANGED <<areas, mapped, pt, drop, dropped, memory, panic, history>>

DestroyPage(p, e) ==
  /\ pc[p] = "exit" /\ drop[p] = None /\ ~panic
  /\ e \in mapped[p]
  /\ mapped' = [mapped EXCEPT ![p] = @ \ {e}]
  /\ drop' = [drop EXCEPT ![p] = e[2]]
  /\ UNCHANGED <<pc, areas, pt, dropped, memory, panic, history>>

(* destroy_vme_area and unprotect; then the second lock of vme_lock. *)
Destroyed(p) ==
  /\ pc[p] = "exit" /\ drop[p] = None /\ mapped[p] = {} /\ ~panic
  /\ areas' = [areas EXCEPT ![p] = << >>]
  /\ pt' = [pt EXCEPT ![p] = [v \in Pages |-> None]]
  /\ Goto(p, "stuck")
  /\ UNCHANGED <<mapped, drop, dropped, memory, panic, history>>

Next ==
  \E p \in Procs :
    \/ \E start \in Pages, n \in Pages, kind \in Kinds : Mmap(p, start, n, kind)
    \/ \E start \in Pages, n \in Pages : Munmap(p, start, n)
    \/ \E v \in Pages, d \in Data : Write(p, v, d)
    \/ \E v \in Pages, f \in Frames : FaultNew(p, v, f)
    \/ \E v \in Pages, f, gone \in Frames : FaultCopy(p, v, f, gone)
    \/ Dec(p) \/ FreeIfLast(p)
    \/ \E V \in SUBSET Pages : \E to \in [V -> Free] : ForkCowMapping(p, to)
    \/ ForkChild(p) \/ Exit(p) \/ Destroyed(p)
    \/ \E e \in mapped[p] : DestroyPage(p, e)

Spec == Init /\ [][Next]_vars

-----------------------------------------------------------------------------
Mapped(p) == {v \in Pages : pt[p][v] # None}

TypeOK ==
  /\ pc \in [Procs -> {"none", "user", "fork", "drop", "exit", "stuck"}]
  /\ areas \in [Procs -> Seq(Area)]
  /\ mapped \in [Procs -> SUBSET (Pages \X Frames)]
  /\ pt \in [Procs -> [Pages -> Entry \cup {None}]]
  /\ drop \in [Procs -> Frames \cup {None}] /\ dropped \in [Procs -> BOOLEAN]
  /\ cow \in [Frames -> Int]
  /\ used \subseteq Frames
  /\ {panic, raced, uncounted, refreed} \subseteq BOOLEAN

(* The list of mapped pages and the page table of a living process say the *)
(* same, so that none of the panics of map, delete_map_page and mmap is    *)
(* ever reached.                                                           *)
TablesAgree ==
  /\ ~panic
  /\ \A p \in Procs : pc[p] \notin {"exit", "stuck"} =>
       mapped[p] = {<<v, pt[p][v].pa>> : v \in Mapped(p)}

(* Areas are in order and disjoint, and every mapped page is in one: fork  *)
(* and the page fault handler use the area of a page without a test.       *)
AreasSound ==
  \A p \in Procs :
    /\ \A i, j \in DOMAIN areas[p] : i < j => areas[p][i].hi <= areas[p][j].lo
    /\ \A v \in Mapped(p) : Find(areas[p], v, 1) # None

(* No process maps a frame that has been freed, and no frame is freed      *)
(* twice, as long as nobody changes the count of a frame while another     *)
(* process is between the decrement and the test of that count, and fork   *)
(* has shared pages of private writable areas only.                        *)
NoFreedMapped ==
  ~raced /\ ~uncounted =>
    /\ ~refreed
    /\ \A p \in Procs : pc[p] \in {"user", "fork", "drop"} =>
         \A v \in Mapped(p) : pt[p][v].pa \in used

(* Copy on write: in a private area a process reads what it wrote, or what *)
(* its father had there at the fork.                                       *)
PrivateCopies ==
  \A p \in Procs : pc[p] = "user" =>
    \A v \in Mapped(p) : IsPrivate(p, v) => content[pt[p][v].pa] = mem[p][v]
=============================================================================
