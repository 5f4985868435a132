------------------------------ MODULE VmProofs ------------------------------
(* Areas, page tables and counts of frames, for any number of processes,   *)
(* frames, pages and CPUs: the tables agree, the areas are sound, and no   *)
(* process maps a freed frame unless one of the two races named in Vm has  *)
(* happened.                                                               *)
EXTENDS Vm, FiniteSetTheorems, WellFoundedInduction, TLAPS

-----------------------------------------------------------------------------
(* The inductive invariant, in five parts: types, areas, tables, numbers   *)
(* of processes, and counts of frames.                                     *)

(* The areas of a list are not empty, in order and disjoint; a page is in  *)
(* one of them.                                                            *)
Ordered(al) ==
  /\ \A i \in DOMAIN al : al[i].lo < al[i].hi
  /\ \A i, j \in DOMAIN al : i < j => al[i].hi <= al[j].lo
Covers(al, v) == \E i \in DOMAIN al : al[i].lo <= v /\ v < al[i].hi

AreasOK == \A p \in Procs : Ordered(areas[p]) /\ \A v \in Mapped(p) : Covers(areas[p], v)

(* The list and the table of one process say the same.                     *)
Table == [Pages -> Entry \cup {None}]
InTable(table) == {<<v, table[v].pa>> : v \in {w \in Pages : table[w] # None}}

TablesOK ==
  /\ ~panic
  /\ \A p \in Procs :
       /\ pc[p] \notin {"exit", "stuck"} => mapped[p] = InTable(pt[p])
       /\ pc[p] \in {"exit", "stuck"} => mapped[p] \subseteq InTable(pt[p])
       /\ pc[p] = "none" => Mapped(p) = {}

DropsOK ==
  \A p \in Procs : /\ drop[p] # None => pc[p] \in {"drop", "exit"}
                   /\ dropped[p] => drop[p] # None

(* Every process in fork finds a child.                                    *)
In(where) == {p \in Procs : pc[p] = where}
RoomForChildren == Cardinality(In("fork")) <= Cardinality(In("none"))

(* What refers to a frame: the pages where processes map it, and 0 for a   *)
(* process about to decrement its count.                                   *)
Users(f) ==
  {x \in Procs \X (0..NPages) :
     IF x[2] = 0 THEN drop[x[1]] = f /\ ~dropped[x[1]] ELSE <<x[2], f>> \in mapped[x[1]]}
CountOK(c, n) == IF c > 0 THEN n <= c ELSE n <= c + 2

FrameCounted(f) ==
  /\ CountOK(cow[f], Cardinality(Users(f)))
  /\ f \notin used => cow[f] = 0 /\ Users(f) = {} /\ ~Tested(f)
  /\ Tested(f) /\ cow[f] = 0 => Users(f) = {}
  /\ \A p, q \in Procs : dropped[p] /\ dropped[q] /\ drop[p] = f /\ drop[q] = f => p = q

(* A process maps a frame once, and shares no private frame before fork    *)
(* has given it a count.                                                   *)
MappedOnce == \A p \in Procs : \A d, e \in mapped[p] : d[2] = e[2] => d = e
ForksCounted ==
  \A p \in Procs : pc[p] = "fork" =>
    \A e \in mapped[p] : IsPrivate(p, e[1]) => cow[e[2]] # 0

CountsOK == ~refreed /\ MappedOnce /\ ForksCounted /\ \A f \in Frames : FrameCounted(f)

Clean == ~raced /\ ~uncounted

Structure == TypeOK /\ AreasOK /\ TablesOK /\ DropsOK

VInv == Structure /\ RoomForChildren /\ (Clean => CountsOK)

-----------------------------------------------------------------------------
(* Least elements. *)

Less == {ss \in Nat \X Nat : ss[1] < ss[2]}

LEMMA LeastNatural ==
  ASSUME NEW S, S \subseteq Nat, S # {}
  PROVE  First(S) \in S /\ \A j \in S : First(S) <= j
<1>1. IsWellFoundedOn(Less, Nat)
  BY NatLessThanWellFounded DEF Less, OpToRel
<1>2. PICK n \in S : \A m \in S : <<m, n>> \notin Less
  BY <1>1, WFMin
<1>3. ASSUME NEW m \in S PROVE n <= m
  <2>1. m \in Nat /\ n \in Nat
    OBVIOUS
  <2>2. ~(m < n)
    BY <1>2, <2>1 DEF Less
  <2> QED BY <2>1, <2>2
<1> QED BY <1>3 DEF First

-----------------------------------------------------------------------------
(* Areas. *)

LEMMA AreaFields ==
  ASSUME NEW al \in Seq(Area)
  PROVE  /\ Len(al) \in Nat /\ DOMAIN al = 1..Len(al)
         /\ \A i \in DOMAIN al :
              /\ i \in Nat
              /\ al[i] \in Area /\ al[i].lo \in Nat /\ al[i].hi \in Nat /\ al[i].kind \in Kinds
              /\ al[i] # None
<1>1. Len(al) \in Nat /\ DOMAIN al = 1..Len(al)
  OBVIOUS
<1>2. \A i \in 1..Len(al) : al[i] \in Area
  OBVIOUS
<1>3. \A a \in Area : a.lo \in Nat /\ a.hi \in Nat /\ a.kind \in Kinds
  BY DEF Area
<1>4. None \notin Area
  BY VmAssumption
<1> QED
  BY <1>1, <1>2, <1>3, <1>4

LEMMA FirstBehind ==
  ASSUME NEW al \in Seq(Area), NEW page \in Nat, Behind(al, page) # {}
  PROVE  /\ First(Behind(al, page)) \in DOMAIN al
         /\ al[First(Behind(al, page))].hi > page
         /\ \A i \in DOMAIN al : i < First(Behind(al, page)) => al[i].hi <= page
<1>1. /\ Behind(al, page) \subseteq DOMAIN al
      /\ \A i \in DOMAIN al : i \in Behind(al, page) <=> al[i].hi > page
  BY DEF Behind
<1>2. Behind(al, page) \subseteq Nat
  BY <1>1, AreaFields
<1>3. /\ First(Behind(al, page)) \in Behind(al, page)
      /\ \A j \in Behind(al, page) : First(Behind(al, page)) <= j
  BY <1>2, LeastNatural
<1> HIDE DEF First
<1> DEFINE k == First(Behind(al, page))
<1>4. k \in DOMAIN al /\ k \in Nat /\ al[k].hi > page
  BY <1>1, <1>2, <1>3
<1>5. ASSUME NEW i \in DOMAIN al, i < k
      PROVE  al[i].hi <= page
  <2>1. i \in Nat /\ al[i].hi \in Nat
    BY AreaFields
  <2>2. i \notin Behind(al, page)
    BY <1>3, <1>4, <1>5, <2>1
  <2> QED
    BY <1>1, <2>1, <2>2
<1> QED
  BY <1>4, <1>5

(* find_vme_node finds the area around a page, and only such an area.      *)
LEMMA FindsCover ==
  ASSUME NEW al \in Seq(Area), Ordered(al), NEW v \in Nat
  PROVE  /\ Covers(al, v) <=> Find(al, v, 1) # None
         /\ Find(al, v, 1) # None => Find(al, v, 1) \in Area
<1> DEFINE k == First(Behind(al, v))
<1>0. /\ Behind(al, v) # {} =>
           k \in DOMAIN al /\ al[k].hi > v /\ \A j \in DOMAIN al : j < k => al[j].hi <= v
      /\ \A i \in DOMAIN al : i \in Behind(al, v) <=> al[i].hi > v
      /\ Find(al, v, 1) = IF Behind(al, v) = {} THEN None
                          ELSE IF al[k].lo <= v /\ al[k].hi >= v + 1 THEN al[k] ELSE None
  BY FirstBehind DEF Find, Behind
<1> HIDE DEF k
<1>1. ASSUME Covers(al, v)
      PROVE  Behind(al, v) # {} /\ al[k].lo <= v /\ al[k].hi >= v + 1
  <2>1. PICK i \in DOMAIN al : al[i].lo <= v /\ v < al[i].hi
    BY <1>1 DEF Covers
  <2>2. Behind(al, v) # {}
    BY <1>0, <2>1, AreaFields
  <2>3. k \in DOMAIN al /\ al[k].hi > v /\ \A j \in DOMAIN al : j < k => al[j].hi <= v
    BY <1>0, <2>2
  <2>4. /\ i \in Nat /\ al[i].hi \in Nat /\ al[i].lo \in Nat
        /\ k \in Nat /\ al[k].hi \in Nat /\ al[k].lo \in Nat
    BY <2>1, <2>3, AreaFields
  <2>5. ~(i < k)
    BY <2>1, <2>3, <2>4
  <2>6. ~(k < i)
    BY <2>1, <2>3, <2>4 DEF Ordered
  <2>7. k = i
    BY <2>4, <2>5, <2>6
  <2> QED
    BY <2>1, <2>2, <2>4, <2>7
<1>2. ASSUME Behind(al, v) # {}, al[k].lo <= v, al[k].hi >= v + 1
      PROVE  Covers(al, v)
  <2>1. k \in DOMAIN al /\ al[k].hi \in Nat
    BY <1>0, <1>2, AreaFields
  <2>2. v < al[k].hi
    BY <2>1, <1>2
  <2> QED
    BY <1>2, <2>1, <2>2 DEF Covers
<1>3. Behind(al, v) # {} => al[k] \in Area /\ al[k] # None
  BY <1>0, AreaFields
<1> QED
  BY <1>0, <1>1, <1>2, <1>3

(* get_suitable_addr always finds a place, where the pages fit.            *)
LEMMA SuitableFits ==
  ASSUME NEW al \in Seq(Area), Ordered(al), NEW start \in Nat, NEW n \in Nat
  PROVE  /\ Suitable(al, start, n) \in Nat /\ Fits(al, Suitable(al, start, n), n)
         /\ Fits(al, start, n) => Suitable(al, start, n) = start
<1> DEFINE C == {at \in {start} \cup {al[i].hi : i \in Behind(al, start)} : Fits(al, at, n)}
<1>1. \A c \in C : c \in Nat /\ c >= start /\ Fits(al, c, n)
  BY AreaFields DEF Behind
<1>2. ASSUME Behind(al, start) = {} PROVE C # {}
  <2>1. \A i \in DOMAIN al : al[i].hi <= start
    BY <1>2, AreaFields DEF Behind
  <2>2. Fits(al, start, n)
    BY <2>1 DEF Fits
  <2> QED
    BY <2>2
<1>3. ASSUME Behind(al, start) # {} PROVE C # {}
  <2>1. PICK i \in DOMAIN al : al[i].hi > start
    BY <1>3 DEF Behind
  <2>2. Len(al) \in DOMAIN al /\ Len(al) \in Nat /\ i \in Nat /\ i <= Len(al)
    BY <2>1, AreaFields
  <2>3. \A j \in DOMAIN al : al[j].hi <= al[Len(al)].hi
    <3>1. ASSUME NEW j \in DOMAIN al PROVE al[j].hi <= al[Len(al)].hi
      <4>1. /\ j \in Nat /\ al[j].hi \in Nat /\ al[Len(al)].hi \in Nat /\ al[Len(al)].lo \in Nat
            /\ j <= Len(al)
        BY <2>2, AreaFields
      <4>2. CASE j = Len(al)
        BY <4>1, <4>2
      <4>3. CASE j < Len(al)
        <5>1. al[j].hi <= al[Len(al)].lo /\ al[Len(al)].lo < al[Len(al)].hi
          BY <2>2, <4>3 DEF Ordered
        <5> QED
          BY <4>1, <5>1
      <4> QED
        BY <2>2, <4>1, <4>2, <4>3
    <3> QED
      BY <3>1
  <2>4. al[Len(al)].hi > start
    BY <2>1, <2>2, <2>3, AreaFields
  <2>5. al[Len(al)].hi \in C
    BY <2>2, <2>3, <2>4 DEF Behind, Fits
  <2> QED
    BY <2>5
<1>4. C # {} /\ C \subseteq Nat
  BY <1>1, <1>2, <1>3
<1>5. Suitable(al, start, n) = First(C)
  BY DEF Suitable
<1>6. First(C) \in C /\ \A c \in C : First(C) <= c
  BY <1>4, LeastNatural
<1>7. Fits(al, start, n) => start \in C
  OBVIOUS
<1> HIDE DEF C
<1> QED
  BY <1>1, <1>5, <1>6, <1>7

LEMMA Concatenated ==
  ASSUME NEW S, NEW s \in Seq(S), NEW t \in Seq(S)
  PROVE  /\ s \o t \in Seq(S) /\ Len(s \o t) = Len(s) + Len(t)
         /\ \A i \in 1 .. (Len(s) + Len(t)) :
              (s \o t)[i] = IF i <= Len(s) THEN s[i] ELSE t[i - Len(s)]
OBVIOUS

LEMMA InsertSeq ==
  ASSUME NEW S, NEW l \in Seq(S), NEW a \in S, NEW k \in 1..Len(l)
  PROVE  /\ InsertAt(l, k, a) \in Seq(S) /\ Len(InsertAt(l, k, a)) = Len(l) + 1
         /\ \A i \in 1 .. (Len(l) + 1) :
              InsertAt(l, k, a)[i] = IF i < k THEN l[i] ELSE IF i = k THEN a ELSE l[i - 1]
<1> DEFINE head == SubSeq(l, 1, k - 1)
           tail == SubSeq(l, k, Len(l))
<1>1. Len(l) \in Nat /\ k \in Nat /\ k >= 1 /\ k <= Len(l)
  OBVIOUS
<1>2. /\ head \in Seq(S) /\ Len(head) = k - 1
      /\ \A i \in 1 .. (k - 1) : head[i] = l[i]
  BY <1>1
<1>3. /\ tail \in Seq(S) /\ Len(tail) = Len(l) - k + 1
      /\ \A i \in 1 .. (Len(l) - k + 1) : tail[i] = l[i + k - 1]
  BY <1>1
<1>4. InsertAt(l, k, a) = head \o <<a>> \o tail
  BY DEF InsertAt
<1> HIDE DEF head, tail
<1> DEFINE front == head \o <<a>>
<1>5. /\ front \in Seq(S) /\ Len(front) = k
      /\ \A i \in 1 .. k : front[i] = IF i < k THEN l[i] ELSE a
  BY <1>1, <1>2
<1>6. InsertAt(l, k, a) = front \o tail
  BY <1>4
<1> HIDE DEF front
<1>7. /\ front \o tail \in Seq(S) /\ Len(front \o tail) = Len(l) + 1
      /\ \A i \in 1 .. (Len(l) + 1) : (front \o tail)[i] = IF i <= k THEN front[i] ELSE tail[i - k]
  <2>1. Len(front) + Len(tail) = Len(l) + 1 /\ Len(front) = k
    BY <1>1, <1>3, <1>5
  <2>2. /\ front \o tail \in Seq(S) /\ Len(front \o tail) = Len(front) + Len(tail)
        /\ \A i \in 1 .. (Len(front) + Len(tail)) :
             (front \o tail)[i] = IF i <= Len(front) THEN front[i] ELSE tail[i - Len(front)]
    BY <1>3, <1>5, Concatenated
  <2> QED
    BY <2>1, <2>2
<1>8. ASSUME NEW i \in 1 .. (Len(l) + 1)
      PROVE  (front \o tail)[i] = IF i < k THEN l[i] ELSE IF i = k THEN a ELSE l[i - 1]
  <2>1. CASE i <= k
    BY <1>1, <1>5, <1>7, <2>1
  <2>2. CASE i > k
    <3>1. i - k \in 1 .. (Len(l) - k + 1) /\ (i - k) + k - 1 = i - 1
      BY <1>1, <2>2
    <3>2. tail[i - k] = l[i - 1]
      BY <1>3, <3>1
    <3>3. ~(i <= k) /\ ~(i < k) /\ i # k
      BY <1>1, <2>2
    <3>4. (front \o tail)[i] = tail[i - k]
      BY <1>7, <3>3
    <3> QED
      BY <3>2, <3>3, <3>4
  <2>3. i <= k \/ i > k
    BY <1>1
  <2> QED
    BY <2>1, <2>2, <2>3
<1> QED
  BY <1>6, <1>7, <1>8

(* insert_vme_node keeps the list in order, and all it covered covered.    *)
LEMMA Inserted ==
  ASSUME NEW al \in Seq(Area), Ordered(al), NEW a \in Area, a.lo < a.hi,
         Fits(al, a.lo, a.hi - a.lo)
  PROVE  /\ Insert(al, a) \in Seq(Area) /\ Ordered(Insert(al, a))
         /\ \A v \in Nat : Covers(al, v) => Covers(Insert(al, a), v)
         /\ \A v \in Nat : a.lo <= v /\ v < a.hi => Covers(Insert(al, a), v)
<1>1. a.lo \in Nat /\ a.hi \in Nat
  BY DEF Area
<1> DEFINE new == Insert(al, a)
           k == IF Behind(al, a.lo) = {} THEN Len(al) + 1 ELSE First(Behind(al, a.lo))
<1>2. \A i \in DOMAIN al : al[i].lo >= a.hi \/ al[i].hi <= a.lo
  BY <1>1, AreaFields DEF Fits
<1>3. /\ k \in 1 .. (Len(al) + 1)
      /\ \A i \in DOMAIN al : i < k => al[i].hi <= a.lo
      /\ \A i \in DOMAIN al : i >= k => al[i].lo >= a.hi
      /\ new = IF Behind(al, a.lo) = {} THEN Append(al, a) ELSE InsertAt(al, k, a)
  <2>1. CASE Behind(al, a.lo) = {}
    <3>1. \A i \in DOMAIN al : al[i].hi <= a.lo
      BY <1>1, <2>1, AreaFields DEF Behind
    <3>2. k = Len(al) + 1 /\ new = Append(al, a)
      BY <2>1 DEF Insert
    <3> QED
      BY <2>1, <3>1, <3>2, AreaFields
  <2>2. CASE Behind(al, a.lo) # {}
    <3>1. /\ k \in DOMAIN al /\ al[k].hi > a.lo
          /\ \A i \in DOMAIN al : i < k => al[i].hi <= a.lo
      BY <1>1, <2>2, FirstBehind
    <3>2. /\ k \in Nat /\ k >= 1 /\ k <= Len(al) /\ Len(al) \in Nat
          /\ al[k].hi \in Nat /\ al[k].lo \in Nat
      BY <3>1, AreaFields
    <3>3. al[k].lo >= a.hi
      BY <1>1, <1>2, <3>1, <3>2
    <3>4. ASSUME NEW i \in DOMAIN al, i >= k PROVE al[i].lo >= a.hi
      <4>1. i \in Nat /\ al[i].lo \in Nat /\ al[i].hi \in Nat
        BY AreaFields
      <4>2. i > k => al[k].hi <= al[i].lo
        BY <3>1, <3>2, <4>1 DEF Ordered
      <4>3. al[k].lo < al[k].hi
        BY <3>1 DEF Ordered
      <4>4. CASE i = k
        BY <3>3, <4>4
      <4>5. CASE i > k
        BY <1>1, <3>2, <3>3, <4>1, <4>2, <4>3, <4>5
      <4> QED
        BY <3>2, <3>4, <4>1, <4>4, <4>5
    <3>5. k = First(Behind(al, a.lo))
      BY <2>2
    <3>6. new = InsertAt(al, k, a)
      BY <2>2, <3>3, <3>5 DEF Insert
    <3> QED
      BY <2>2, <3>1, <3>2, <3>4, <3>6
  <2> QED
    BY <2>1, <2>2
<1> HIDE DEF k
<1>4. Len(al) \in Nat /\ DOMAIN al = 1..Len(al)
  BY AreaFields
<1>5. /\ new \in Seq(Area) /\ Len(new) = Len(al) + 1
      /\ \A i \in 1 .. (Len(al) + 1) :
           new[i] = IF i < k THEN al[i] ELSE IF i = k THEN a ELSE al[i - 1]
  <2>1. CASE Behind(al, a.lo) = {}
    <3>1. k = Len(al) + 1 /\ new = Append(al, a)
      BY <1>3, <2>1 DEF k
    <3> HIDE DEF new
    <3>2. /\ Append(al, a) \in Seq(Area) /\ Len(Append(al, a)) = Len(al) + 1
          /\ \A i \in 1 .. (Len(al) + 1) : Append(al, a)[i] = IF i = Len(al) + 1 THEN a ELSE al[i]
      BY <1>4
    <3>3. \A i \in 1 .. (Len(al) + 1) : i < Len(al) + 1 <=> i # Len(al) + 1
      BY <1>4
    <3> QED
      BY <3>1, <3>2, <3>3
  <2>2. CASE Behind(al, a.lo) # {}
    <3>1. k \in 1..Len(al)
      BY <1>1, <1>4, <2>2, FirstBehind DEF k
    <3>2. new = InsertAt(al, k, a)
      BY <1>3, <2>2
    <3> HIDE DEF new
    <3>3. /\ InsertAt(al, k, a) \in Seq(Area) /\ Len(InsertAt(al, k, a)) = Len(al) + 1
          /\ \A i \in 1 .. (Len(al) + 1) :
               InsertAt(al, k, a)[i] = IF i < k THEN al[i] ELSE IF i = k THEN a ELSE al[i - 1]
      BY <3>1, InsertSeq
    <3> QED
      BY <3>2, <3>3
  <2> QED
    BY <2>1, <2>2
<1> HIDE DEF new
<1>6. DOMAIN new = 1 .. (Len(al) + 1)
  BY <1>5
<1>7. Ordered(new)
  <2>1. ASSUME NEW i \in DOMAIN new PROVE new[i].lo < new[i].hi
    <3>1. i \in Nat /\ k \in Nat
      BY <1>3, <1>4, <1>6
    <3>2. CASE i < k
      <4>1. i \in DOMAIN al /\ new[i] = al[i]
        BY <1>3, <1>4, <1>5, <1>6, <3>1, <3>2
      <4> QED
        BY <4>1 DEF Ordered
    <3>3. CASE i = k
      BY <1>5, <1>6, <3>1, <3>3
    <3>4. CASE i > k
      <4>1. i - 1 \in DOMAIN al /\ new[i] = al[i - 1]
        BY <1>3, <1>4, <1>5, <1>6, <3>1, <3>4
      <4> QED
        BY <4>1 DEF Ordered
    <3> QED
      BY <3>1, <3>2, <3>3, <3>4
  <2>2. ASSUME NEW i \in DOMAIN new, NEW j \in DOMAIN new, i < j
        PROVE  new[i].hi <= new[j].lo
    <3>1. i \in Nat /\ j \in Nat /\ k \in Nat
      BY <1>3, <1>4, <1>6
    <3>2. CASE j < k
      <4>1. i \in DOMAIN al /\ j \in DOMAIN al /\ new[i] = al[i] /\ new[j] = al[j]
        BY <1>3, <1>4, <1>5, <1>6, <2>2, <3>1, <3>2
      <4> QED
        BY <2>2, <4>1 DEF Ordered
    <3>3. CASE j = k
      <4>1. i \in DOMAIN al /\ i < k /\ new[i] = al[i] /\ new[j] = a
        BY <1>3, <1>4, <1>5, <1>6, <2>2, <3>1, <3>3
      <4> QED
        BY <1>3, <4>1
    <3>4. CASE i = k
      <4>1. j - 1 \in DOMAIN al /\ j - 1 >= k /\ new[i] = a /\ new[j] = al[j - 1]
        BY <1>3, <1>4, <1>5, <1>6, <2>2, <3>1, <3>4
      <4>2. al[j - 1].lo >= a.hi /\ al[j - 1].lo \in Nat
        BY <1>3, <4>1, AreaFields
      <4> QED
        BY <1>1, <4>1, <4>2
    <3>5. CASE i > k
      <4>1. /\ i - 1 \in DOMAIN al /\ j - 1 \in DOMAIN al /\ i - 1 < j - 1
            /\ new[i] = al[i - 1] /\ new[j] = al[j - 1]
        BY <1>3, <1>4, <1>5, <1>6, <2>2, <3>1, <3>5
      <4> QED
        BY <4>1 DEF Ordered
    <3>6. CASE i < k /\ k < j
      <4>1. /\ i \in DOMAIN al /\ j - 1 \in DOMAIN al
            /\ new[i] = al[i] /\ new[j] = al[j - 1] /\ j - 1 >= k
        BY <1>3, <1>4, <1>5, <1>6, <2>2, <3>1, <3>6
      <4>2. al[i].hi <= a.lo /\ al[j - 1].lo >= a.hi
        BY <1>3, <1>4, <1>5, <1>6, <2>2, <3>1, <3>6, <4>1
      <4>3. al[i].hi \in Nat /\ al[j - 1].lo \in Nat
        BY <1>3, <1>4, <1>6, <3>1, <3>6, AreaFields
      <4> QED
        BY <1>1, <4>1, <4>2, <4>3
    <3> QED
      BY <2>2, <3>1, <3>2, <3>3, <3>4, <3>5, <3>6
  <2> QED
    BY <2>1, <2>2 DEF Ordered
<1>8. ASSUME NEW v \in Nat, Covers(al, v) PROVE Covers(new, v)
  <2>1. PICK i \in DOMAIN al : al[i].lo <= v /\ v < al[i].hi
    BY <1>8 DEF Covers
  <2>2. CASE i < k
    BY <1>3, <1>4, <1>5, <1>6, <2>1, <2>2 DEF Covers
  <2>3. CASE i >= k
    <3>1. i + 1 \in DOMAIN new /\ new[i + 1] = al[i]
      BY <1>3, <1>4, <1>5, <1>6, <2>1, <2>3
    <3> QED
      BY <2>1, <3>1 DEF Covers
  <2> QED
    BY <1>3, <1>4, <2>1, <2>2, <2>3
<1>9. ASSUME NEW v \in Nat, a.lo <= v, v < a.hi PROVE Covers(new, v)
  <2>1. k \in DOMAIN new /\ new[k] = a
    BY <1>3, <1>4, <1>5, <1>6
  <2> QED
    BY <1>9, <2>1 DEF Covers
<1> QED
  BY <1>5, <1>7, <1>8, <1>9 DEF new

(* What kmmap gets: a list in order that also covers the n pages it asked  *)
(* for, at start if that was free.                                         *)
LEMMA NewAreaSound ==
  ASSUME NEW al \in Seq(Area), Ordered(al), NEW start \in Nat, NEW n \in Nat, n > 0,
         NEW kind \in Kinds
  PROVE  /\ NewArea(al, start, n, kind) \in Seq(Area) /\ Ordered(NewArea(al, start, n, kind))
         /\ NewArea(al, start, n, kind) # None
         /\ \A v \in Nat : Covers(al, v) => Covers(NewArea(al, start, n, kind), v)
         /\ Fits(al, start, n) => Covers(NewArea(al, start, n, kind), start)
<1> DEFINE lo == Suitable(al, start, n)
           a == [lo |-> lo, hi |-> lo + n, kind |-> kind]
<1>1. lo \in Nat /\ Fits(al, lo, n) /\ (Fits(al, start, n) => lo = start)
  BY SuitableFits
<1>2. NewArea(al, start, n, kind) = Insert(al, a)
  BY DEF NewArea
<1> HIDE DEF lo
<1>3. a \in Area /\ a.lo = lo /\ a.hi = lo + n /\ a.lo < a.hi /\ a.hi - a.lo = n
  BY <1>1 DEF Area
<1> HIDE DEF a
<1>4. /\ Insert(al, a) \in Seq(Area) /\ Ordered(Insert(al, a))
      /\ \A v \in Nat : Covers(al, v) => Covers(Insert(al, a), v)
      /\ \A v \in Nat : a.lo <= v /\ v < a.hi => Covers(Insert(al, a), v)
  BY <1>1, <1>3, Inserted
<1>5. Fits(al, start, n) => a.lo <= start /\ start < a.hi
  BY <1>1, <1>3
<1>6. None \notin Seq(Area)
  BY VmAssumption
<1> QED
  BY <1>2, <1>4, <1>5, <1>6

-----------------------------------------------------------------------------
(* Pages. *)

Good(m) == m.table \in Table /\ m.list = InTable(m.table) /\ m.panic = FALSE

(* pgunmap of pages that are mapped, and pgmap of pages that are not, keep *)
(* list and table together and do not panic.                               *)
LEMMA UnmapGood ==
  ASSUME NEW m, Good(m), NEW V \in SUBSET Pages, \A v \in V : m.table[v] # None
  PROVE  /\ Good(pgunmap(m, V))
         /\ pgunmap(m, V).list = {e \in m.list : e[1] \notin V}
         /\ pgunmap(m, V).table = [v \in Pages |-> IF v \in V THEN None ELSE m.table[v]]
<1> DEFINE L == {e \in m.list : e[1] \notin V}
           T == [v \in Pages |-> IF v \in V THEN None ELSE m.table[v]]
<1>1. /\ pgunmap(m, V).list = L /\ pgunmap(m, V).table = T
      /\ pgunmap(m, V).panic
           = (m.panic \/ \E v \in V : m.table[v] = None \/ \A e \in m.list : e[1] # v)
  BY DEF pgunmap
<1>2. \A v \in V : \E e \in m.list : e[1] = v
  <2>1. ASSUME NEW v \in V PROVE <<v, m.table[v].pa>> \in m.list
    BY DEF Good, InTable
  <2> QED
    BY <2>1
<1>3. m.panic = FALSE
  BY DEF Good
<1>4. ~(\E v \in V : m.table[v] = None \/ \A e \in m.list : e[1] # v)
  BY <1>2
<1>5. pgunmap(m, V).panic = FALSE
  BY <1>1, <1>3, <1>4
<1>6. T \in Table
  BY DEF Good, Table
<1>7. L = InTable(T)
  <2>1. m.list = InTable(m.table)
    BY DEF Good
  <2>2. \A v \in Pages : T[v] # None <=> v \notin V /\ m.table[v] # None
    OBVIOUS
  <2>3. \A v \in Pages : v \notin V => T[v] = m.table[v]
    OBVIOUS
  <2> HIDE DEF T
  <2>4. ASSUME NEW e PROVE e \in L <=> e \in InTable(T)
    <3>1. e \in L <=> e[1] \notin V /\ \E v \in Pages : m.table[v] # None /\ e = <<v, m.table[v].pa>>
      BY <2>1 DEF InTable
    <3>2. e \in InTable(T) <=> \E v \in Pages : T[v] # None /\ e = <<v, T[v].pa>>
      BY DEF InTable
    <3> QED
      BY <2>2, <2>3, <3>1, <3>2
  <2> QED
    BY <2>4
<1> QED
  BY <1>1, <1>5, <1>6, <1>7 DEF Good

LEMMA MapGood ==
  ASSUME NEW m, Good(m), NEW V \in SUBSET Pages, NEW entry \in [V -> Entry],
         \A v \in V : m.table[v] = None
  PROVE  /\ Good(pgmap(m, entry))
         /\ pgmap(m, entry).list = m.list \cup {<<v, entry[v].pa>> : v \in V}
         /\ pgmap(m, entry).table = [v \in Pages |-> IF v \in V THEN entry[v] ELSE m.table[v]]
<1> DEFINE L == m.list \cup {<<v, entry[v].pa>> : v \in V}
           T == [v \in Pages |-> IF v \in V THEN entry[v] ELSE m.table[v]]
<1>1. DOMAIN entry = V
  OBVIOUS
<1>2. /\ pgmap(m, entry).list = L /\ pgmap(m, entry).table = T
      /\ pgmap(m, entry).panic = (m.panic \/ \E v \in V : m.table[v] # None)
  BY <1>1 DEF pgmap
<1>3. m.panic = FALSE
  BY DEF Good
<1>4. pgmap(m, entry).panic = FALSE
  BY <1>2, <1>3
<1>5. T \in Table
  BY DEF Good, Table
<1>6. L = InTable(T)
  <2>1. \A v \in V : entry[v] # None
    BY VmAssumption
  <2> QED
    BY <2>1 DEF Good, InTable
<1> QED
  BY <1>2, <1>4, <1>5, <1>6 DEF Good

LEMMA MemoryGood ==
  ASSUME TypeOK, TablesOK, NEW p \in Procs, pc[p] \notin {"exit", "stuck"}
  PROVE  Good(Memory(p)) /\ Memory(p).list = mapped[p] /\ Memory(p).table = pt[p]
<1>1. pt[p] \in Table
  BY DEF TypeOK, Table
<1>2. panic = FALSE
  BY DEF TablesOK
<1>3. mapped[p] = InTable(pt[p])
  BY DEF TablesOK
<1> QED
  BY <1>1, <1>2, <1>3 DEF Good, Memory

LEMMA InTableTyped ==
  ASSUME NEW T \in Table
  PROVE  /\ InTable(T) \subseteq Pages \X Frames
         /\ \A v \in Pages : T[v] # None => T[v] \in Entry /\ T[v].pa \in Frames /\ T[v].w \in BOOLEAN
<1>1. \A v \in Pages : T[v] # None => T[v] \in Entry
  BY DEF Table
<1>2. \A e \in Entry : e.pa \in Frames /\ e.w \in BOOLEAN
  BY DEF Entry
<1> QED
  BY <1>1, <1>2 DEF InTable

-----------------------------------------------------------------------------
(* Areas, pages and types, action by action. *)

LEMMA PageIsNatural == ASSUME NEW v \in Pages PROVE v \in Nat /\ v > 0 /\ v <= NPages
BY VmAssumption DEF Pages

LEMMA EntryMade ==
  ASSUME NEW f \in Frames, NEW kind
  PROVE  [pa |-> f, w |-> Writable(kind)] \in Entry
<1>1. Writable(kind) \in BOOLEAN
  BY DEF Writable
<1> HIDE DEF Writable
<1> QED
  BY <1>1 DEF Entry

LEMMA PageCovered ==
  ASSUME TypeOK, AreasOK, NEW p \in Procs, NEW v \in Pages, pt[p][v] # None
  PROVE  Find(areas[p], v, 1) # None /\ Find(areas[p], v, 1) \in Area
<1>1. areas[p] \in Seq(Area) /\ Ordered(areas[p]) /\ Covers(areas[p], v)
  BY DEF TypeOK, AreasOK, Mapped
<1> QED
  BY <1>1, PageIsNatural, FindsCover

(* One process's memory is set to a good one, with areas that cover it.    *)
LEMMA MemoryChanged ==
  ASSUME TypeOK, AreasOK, TablesOK, NEW q \in Procs, NEW m, Good(m),
         NEW al \in Seq(Area), Ordered(al),
         \A v \in Pages : m.table[v] # None => Covers(al, v),
         SetMemory(q, m), areas' = [areas EXCEPT ![q] = al],
         pc'[q] # "none",
         \A r \in Procs : r # q => pc'[r] = pc[r] \/ (pc[r] = "fork" /\ pc'[r] = "user")
  PROVE  /\ AreasOK' /\ TablesOK' /\ panic' = FALSE
         /\ areas' \in [Procs -> Seq(Area)]
         /\ mapped' \in [Procs -> SUBSET (Pages \X Frames)]
         /\ pt' \in [Procs -> [Pages -> Entry \cup {None}]]
<1>1. m.table \in Table /\ m.list = InTable(m.table) /\ m.panic = FALSE
  BY DEF Good
<1>2. m.list \subseteq Pages \X Frames
  BY <1>1, InTableTyped
<1>3. /\ mapped' = [mapped EXCEPT ![q] = m.list] /\ pt' = [pt EXCEPT ![q] = m.table]
      /\ panic' = FALSE
  BY <1>1 DEF SetMemory
<1>4. /\ areas' \in [Procs -> Seq(Area)]
      /\ mapped' \in [Procs -> SUBSET (Pages \X Frames)]
      /\ pt' \in [Procs -> [Pages -> Entry \cup {None}]]
  BY <1>1, <1>2, <1>3 DEF TypeOK, Table
<1>5. /\ areas'[q] = al /\ mapped'[q] = m.list /\ pt'[q] = m.table
      /\ \A r \in Procs : r # q => areas'[r] = areas[r] /\ mapped'[r] = mapped[r] /\ pt'[r] = pt[r]
  BY <1>3 DEF TypeOK
<1>6. AreasOK'
  <2>1. ASSUME NEW r \in Procs
        PROVE  Ordered(areas'[r]) /\ \A v \in Pages : pt'[r][v] # None => Covers(areas'[r], v)
    <3>1. CASE r = q
      BY <1>5, <3>1
    <3>2. CASE r # q
      BY <1>5, <3>2 DEF AreasOK, Mapped
    <3> QED
      BY <3>1, <3>2
  <2> QED
    BY <2>1 DEF AreasOK, Mapped
<1>7. TablesOK'
  <2>1. ASSUME NEW r \in Procs
        PROVE  /\ pc'[r] \notin {"exit", "stuck"} => mapped'[r] = InTable(pt'[r])
               /\ pc'[r] \in {"exit", "stuck"} => mapped'[r] \subseteq InTable(pt'[r])
               /\ pc'[r] = "none" => \A v \in Pages : pt'[r][v] = None
    <3>1. CASE r = q
      BY <1>1, <1>5, <3>1
    <3>2. CASE r # q
      BY <1>5, <3>2 DEF TablesOK, Mapped
    <3> QED
      BY <3>1, <3>2
  <2> QED
    BY <1>3, <2>1 DEF TablesOK, Mapped, InTable
<1> QED
  BY <1>3, <1>4, <1>6, <1>7

LEMMA MmapKeeps ==
  ASSUME Structure, NEW p \in Procs, NEW start \in Pages, NEW n \in Pages, NEW kind \in Kinds,
         Mmap(p, start, n, kind)
  PROVE  Structure'
<1> DEFINE new == NewArea(areas[p], start, n, kind)
<1>1. areas[p] \in Seq(Area) /\ Ordered(areas[p])
  BY DEF Structure, TypeOK, AreasOK
<1>2. /\ new \in Seq(Area) /\ Ordered(new) /\ new # None
      /\ \A v \in Nat : Covers(areas[p], v) => Covers(new, v)
  BY <1>1, PageIsNatural, NewAreaSound
<1>3. areas' = [areas EXCEPT ![p] = new] /\ panic' = panic
  BY <1>2 DEF Mmap
<1> HIDE DEF new
<1>4. UNCHANGED <<pc, mapped, pt, drop, dropped, cow, used, raced, uncounted, refreed>>
  BY DEF Mmap, memory, history
<1>5. TypeOK'
  BY <1>2, <1>3, <1>4 DEF Structure, TypeOK
<1>6. AreasOK'
  <2>1. ASSUME NEW r \in Procs
        PROVE  Ordered(areas'[r]) /\ \A v \in Pages : pt'[r][v] # None => Covers(areas'[r], v)
    <3>1. CASE r = p
      <4>1. areas'[p] = new
        BY <1>3 DEF Structure, TypeOK
      <4> QED
        BY <1>2, <1>4, <3>1, <4>1, PageIsNatural DEF Structure, AreasOK, Mapped
    <3>2. CASE r # p
      <4>1. areas'[r] = areas[r]
        BY <1>3, <3>2 DEF Structure, TypeOK
      <4> QED
        BY <1>4, <4>1 DEF Structure, AreasOK, Mapped
    <3> QED
      BY <3>1, <3>2
  <2> QED
    BY <2>1 DEF AreasOK, Mapped
<1>7. TablesOK' /\ DropsOK'
  BY <1>3, <1>4 DEF Structure, TablesOK, DropsOK, Mapped, InTable
<1> QED
  BY <1>5, <1>6, <1>7 DEF Structure

LEMMA ListedPages ==
  ASSUME TypeOK, NEW p \in Procs
  PROVE  Listed(p) \subseteq Pages
<1>1. mapped[p] \subseteq Pages \X Frames
  BY DEF TypeOK
<1>2. \A e \in mapped[p] : e[1] \in Pages
  BY <1>1
<1> QED
  BY <1>2 DEF Listed

LEMMA MunmapKeeps ==
  ASSUME Structure, NEW p \in Procs, NEW start \in Pages, NEW n \in Pages, Munmap(p, start, n)
  PROVE  Structure'
<1>1. PICK V \in SUBSET Pages : V = Range2(start, n) \cap Listed(p)
  BY ListedPages DEF Structure
<1>2. pc[p] = "user"
  BY DEF Munmap, Runs
<1>3. Good(Memory(p)) /\ Memory(p).list = mapped[p] /\ Memory(p).table = pt[p]
  BY <1>2, MemoryGood DEF Structure
<1>4. \A v \in V : pt[p][v] # None
  BY <1>1, <1>3 DEF Listed, Good, InTable
<1>5. PICK m : m = pgunmap(Memory(p), V)
  OBVIOUS
<1>6. Good(m) /\ m.table = [v \in Pages |-> IF v \in V THEN None ELSE pt[p][v]]
  BY <1>3, <1>4, <1>5, UnmapGood
<1>7. PICK al : al = areas[p]
  OBVIOUS
<1>8. al \in Seq(Area) /\ Ordered(al) /\ \A v \in Pages : m.table[v] # None => Covers(al, v)
  BY <1>6, <1>7 DEF Structure, TypeOK, AreasOK, Mapped
<1>9. /\ SetMemory(p, m) /\ areas' = [areas EXCEPT ![p] = al]
      /\ UNCHANGED <<pc, drop, dropped, cow, used, raced, uncounted, refreed>>
  BY <1>1, <1>5, <1>7 DEF Munmap, Structure, TypeOK, memory, history
<1>10. /\ AreasOK' /\ TablesOK' /\ panic' = FALSE
       /\ areas' \in [Procs -> Seq(Area)]
       /\ mapped' \in [Procs -> SUBSET (Pages \X Frames)]
       /\ pt' \in [Procs -> [Pages -> Entry \cup {None}]]
  BY <1>2, <1>6, <1>8, <1>9, MemoryChanged DEF Structure
<1>11. TypeOK' /\ DropsOK'
  BY <1>9, <1>10 DEF Structure, TypeOK, DropsOK
<1> QED
  BY <1>10, <1>11 DEF Structure

(* Setting the panic field of a memory, as FaultNew does.                  *)
LEMMA PanicSet ==
  ASSUME NEW m, NEW entry, NEW b
  PROVE  /\ [pgmap(m, entry) EXCEPT !.panic = b].list = pgmap(m, entry).list
         /\ [pgmap(m, entry) EXCEPT !.panic = b].table = pgmap(m, entry).table
         /\ [pgmap(m, entry) EXCEPT !.panic = b].panic = b
BY DEF pgmap

(* The areas page_fault leaves cover the page, and all they covered.       *)
LEMMA FaultAreas ==
  ASSUME TypeOK, AreasOK, NEW p \in Procs, NEW v \in Pages, NEW al,
         al = IF Find(areas[p], v, 1) = None THEN NewArea(areas[p], v, 1, "rw") ELSE areas[p]
  PROVE  /\ al \in Seq(Area) /\ Ordered(al) /\ al # None
         /\ \A x \in Nat : Covers(areas[p], x) => Covers(al, x)
         /\ Covers(al, v)
<1>1. areas[p] \in Seq(Area) /\ Ordered(areas[p]) /\ v \in Nat
  BY PageIsNatural DEF TypeOK, AreasOK
<1>2. CASE Find(areas[p], v, 1) = None
  <2>1. ~Covers(areas[p], v)
    BY <1>1, <1>2, FindsCover
  <2>2. Fits(areas[p], v, 1)
    BY <1>1, <2>1, AreaFields DEF Covers, Fits
  <2> QED
    BY <1>1, <1>2, <2>2, NewAreaSound, VmAssumption
<1>3. CASE Find(areas[p], v, 1) # None
  BY <1>1, <1>3, FindsCover, VmAssumption
<1> QED
  BY <1>2, <1>3

LEMMA FaultNewMemory ==
  ASSUME Structure, NEW p \in Procs, NEW v \in Pages, NEW f \in Frames, FaultNew(p, v, f)
  PROVE  \E m, al :
           /\ Good(m) /\ m.list = mapped[p] \cup {<<v, f>>}
           /\ \A x \in Pages : m.table[x] # None => x = v \/ pt[p][x] # None
           /\ SetMemory(p, m) /\ areas' = [areas EXCEPT ![p] = al]
           /\ al \in Seq(Area) /\ Ordered(al) /\ Covers(al, v)
           /\ \A x \in Nat : Covers(areas[p], x) => Covers(al, x)
           /\ UNCHANGED <<pc, drop, dropped, cow, raced, uncounted, refreed>>
           /\ used' = used \cup {f}
<1> DEFINE around == Find(areas[p], v, 1)
           new == IF around = None THEN NewArea(areas[p], v, 1, "rw") ELSE areas[p]
           kind == IF around = None THEN "rw" ELSE around.kind
           entry == [x \in {v} |-> [pa |-> f, w |-> Writable(kind)]]
           m0 == pgmap(Memory(p), entry)
<1>1. /\ pc[p] = "user" /\ pt[p][v] = None /\ f \in Free
      /\ areas' = [areas EXCEPT ![p] = IF new = None THEN @ ELSE new]
      /\ SetMemory(p, [m0 EXCEPT !.panic = @ \/ new = None])
      /\ UNCHANGED <<pc, drop, dropped, cow, raced, uncounted, refreed>>
      /\ used' = used \cup {f}
  BY DEF FaultNew, Runs
<1>2. /\ new \in Seq(Area) /\ Ordered(new) /\ new # None /\ Covers(new, v)
      /\ \A x \in Nat : Covers(areas[p], x) => Covers(new, x)
  BY FaultAreas DEF Structure
<1>3. entry \in [{v} -> Entry] /\ entry[v].pa = f
  BY EntryMade
<1>4. Good(Memory(p)) /\ Memory(p).list = mapped[p] /\ Memory(p).table = pt[p]
  BY <1>1, MemoryGood DEF Structure
<1> HIDE DEF new, entry
<1>5. /\ Good(m0) /\ m0.list = mapped[p] \cup {<<x, entry[x].pa>> : x \in {v}}
      /\ m0.table = [x \in Pages |-> IF x \in {v} THEN entry[x] ELSE pt[p][x]]
  BY <1>1, <1>3, <1>4, MapGood
<1>6. m0.list = mapped[p] \cup {<<v, f>>}
  BY <1>3, <1>5
<1> DEFINE m1 == [m0 EXCEPT !.panic = @ \/ new = None]
<1>7. m1.list = m0.list /\ m1.table = m0.table /\ m1.panic = (m0.panic \/ new = None)
  BY PanicSet
<1>8. (m0.panic \/ new = None) = FALSE
  BY <1>2, <1>5 DEF Good
<1>9. SetMemory(p, m1) /\ areas' = [areas EXCEPT ![p] = new]
  BY <1>1, <1>2
<1> HIDE DEF m0, m1
<1>10. Good(m1)
  BY <1>5, <1>7, <1>8 DEF Good
<1>11. \A x \in Pages : m1.table[x] # None => x = v \/ pt[p][x] # None
  BY <1>5, <1>7
<1> QED
  BY <1>1, <1>2, <1>6, <1>7, <1>9, <1>10, <1>11

LEMMA FaultNewKeeps ==
  ASSUME Structure, NEW p \in Procs, NEW v \in Pages, NEW f \in Frames, FaultNew(p, v, f)
  PROVE  Structure'
<1>1. PICK m, al :
           /\ Good(m) /\ m.list = mapped[p] \cup {<<v, f>>}
           /\ \A x \in Pages : m.table[x] # None => x = v \/ pt[p][x] # None
           /\ SetMemory(p, m) /\ areas' = [areas EXCEPT ![p] = al]
           /\ al \in Seq(Area) /\ Ordered(al) /\ Covers(al, v)
           /\ \A x \in Nat : Covers(areas[p], x) => Covers(al, x)
           /\ UNCHANGED <<pc, drop, dropped, cow, raced, uncounted, refreed>>
           /\ used' = used \cup {f}
  BY FaultNewMemory
<1>2. \A x \in Pages : m.table[x] # None => Covers(al, x)
  BY <1>1, PageIsNatural DEF Structure, AreasOK, Mapped
<1>3. pc[p] = "user" /\ pc' = pc
  BY <1>1 DEF FaultNew, Runs
<1>4. /\ AreasOK' /\ TablesOK' /\ panic' = FALSE
      /\ areas' \in [Procs -> Seq(Area)]
      /\ mapped' \in [Procs -> SUBSET (Pages \X Frames)]
      /\ pt' \in [Procs -> [Pages -> Entry \cup {None}]]
  BY <1>1, <1>2, <1>3, MemoryChanged DEF Structure
<1>5. TypeOK' /\ DropsOK'
  BY <1>1, <1>4 DEF Structure, TypeOK, DropsOK
<1> QED
  BY <1>4, <1>5 DEF Structure

LEMMA FaultCopyMemory ==
  ASSUME Structure, NEW p \in Procs, NEW v \in Pages, NEW f \in Frames, NEW gone \in Frames,
         FaultCopy(p, v, f, gone)
  PROVE  \E m :
           /\ Good(m)
           /\ m.list = {e \in mapped[p] : e[1] # v} \cup {<<v, f>>}
           /\ \A x \in Pages : m.table[x] # None => pt[p][x] # None
           /\ SetMemory(p, m)
           /\ drop' = [drop EXCEPT ![p] = gone] /\ pc' = [pc EXCEPT ![p] = "drop"]
           /\ UNCHANGED <<areas, dropped, cow, raced, uncounted, refreed>>
           /\ used' = used \cup {f}
<1> DEFINE entry == [x \in {v} |-> [pa |-> f, w |-> Writable(Find(areas[p], v, 1).kind)]]
           m0 == pgunmap(Memory(p), {v})
           m == pgmap(m0, entry)
<1>1. /\ pc[p] = "user" /\ pt[p][v] # None
      /\ SetMemory(p, m)
      /\ drop' = [drop EXCEPT ![p] = gone] /\ pc' = [pc EXCEPT ![p] = "drop"]
      /\ UNCHANGED <<areas, dropped, cow, raced, uncounted, refreed>>
      /\ used' = used \cup {f}
  BY DEF FaultCopy, Runs, Goto
<1>2. entry \in [{v} -> Entry] /\ entry[v].pa = f
  BY EntryMade
<1>3. Good(Memory(p)) /\ Memory(p).list = mapped[p] /\ Memory(p).table = pt[p]
  BY <1>1, MemoryGood DEF Structure
<1> HIDE DEF entry
<1>4. /\ Good(m0) /\ m0.list = {e \in mapped[p] : e[1] \notin {v}}
      /\ m0.table = [x \in Pages |-> IF x \in {v} THEN None ELSE pt[p][x]]
  BY <1>1, <1>3, UnmapGood
<1> HIDE DEF m0
<1>5. /\ Good(m) /\ m.list = m0.list \cup {<<x, entry[x].pa>> : x \in {v}}
      /\ m.table = [x \in Pages |-> IF x \in {v} THEN entry[x] ELSE m0.table[x]]
  BY <1>2, <1>4, MapGood
<1>6. m.list = {e \in mapped[p] : e[1] # v} \cup {<<v, f>>}
  BY <1>2, <1>4, <1>5
<1>7. \A x \in Pages : m.table[x] # None => pt[p][x] # None
  BY <1>1, <1>4, <1>5
<1> HIDE DEF m
<1> QED
  BY <1>1, <1>5, <1>6, <1>7

LEMMA FaultCopyKeeps ==
  ASSUME Structure, NEW p \in Procs, NEW v \in Pages, NEW f \in Frames, NEW gone \in Frames,
         FaultCopy(p, v, f, gone)
  PROVE  Structure'
<1>1. PICK m :
           /\ Good(m)
           /\ \A x \in Pages : m.table[x] # None => pt[p][x] # None
           /\ SetMemory(p, m)
           /\ drop' = [drop EXCEPT ![p] = gone] /\ pc' = [pc EXCEPT ![p] = "drop"]
           /\ UNCHANGED <<areas, dropped, cow, raced, uncounted, refreed>>
           /\ used' = used \cup {f}
  BY FaultCopyMemory
<1>2. PICK al : al = areas[p]
  OBVIOUS
<1>3. /\ al \in Seq(Area) /\ Ordered(al) /\ areas' = [areas EXCEPT ![p] = al]
      /\ \A x \in Pages : m.table[x] # None => Covers(al, x)
  BY <1>1, <1>2 DEF Structure, TypeOK, AreasOK, Mapped
<1>4. /\ pc'[p] = "drop" /\ \A r \in Procs : r # p => pc'[r] = pc[r]
      /\ drop'[p] = gone /\ \A r \in Procs : r # p => drop'[r] = drop[r]
  BY <1>1 DEF Structure, TypeOK
<1>5. /\ AreasOK' /\ TablesOK' /\ panic' = FALSE
      /\ areas' \in [Procs -> Seq(Area)]
      /\ mapped' \in [Procs -> SUBSET (Pages \X Frames)]
      /\ pt' \in [Procs -> [Pages -> Entry \cup {None}]]
  BY <1>1, <1>3, <1>4, MemoryChanged DEF Structure
<1>6. DropsOK'
  <2>1. dropped[p] => FALSE
    BY <1>1 DEF FaultCopy, Runs, Structure, DropsOK
  <2> QED
    BY <1>1, <1>4, <2>1, VmAssumption DEF Structure, DropsOK
<1>7. TypeOK'
  BY <1>1, <1>5 DEF Structure, TypeOK
<1> QED
  BY <1>5, <1>6, <1>7 DEF Structure

(* fork_cow_mapping: which pages are moved, and where to.                  *)
Fresh(p) == {e[1] : e \in {x \in mapped[p] : cow[x[2]] = 0}}
MovedPages(p) == {e[1] : e \in Moved(p)}

LEMMA ForkCowMemory ==
  ASSUME Structure, NEW p \in Procs, NEW to, ForkCowMapping(p, to)
  PROVE  \E m :
           /\ Good(m)
           /\ m.list = {e \in mapped[p] : e[1] \notin MovedPages(p)}
                         \cup {<<v, to[v]>> : v \in MovedPages(p)}
           /\ \A x \in Pages : m.table[x] # None => pt[p][x] # None
           /\ SetMemory(p, m) /\ pc' = [pc EXCEPT ![p] = "fork"]
           /\ to \in [Fresh(p) -> Free] /\ IsInjective(to)
           /\ MovedPages(p) \subseteq Fresh(p) /\ MovedPages(p) \subseteq Pages
           /\ used' = used \cup {to[v] : v \in Fresh(p)}
           /\ cow' = [f \in Frames |-> IF \E v \in MovedPages(p) : to[v] = f
                                       THEN cow[f] + 1 ELSE cow[f]]
           /\ UNCHANGED <<areas, drop, dropped, raced, uncounted, refreed>>
<1> DEFINE V == MovedPages(p)
           entry == [v \in V |-> [pa |-> to[v], w |-> FALSE]]
           m0 == pgunmap(Memory(p), V)
           m == pgmap(m0, entry)
<1>1. /\ pc[p] = "user" /\ to \in [Fresh(p) -> Free] /\ IsInjective(to)
      /\ SetMemory(p, m) /\ pc' = [pc EXCEPT ![p] = "fork"]
      /\ used' = used \cup {to[v] : v \in Fresh(p)}
      /\ cow' = [f \in Frames |-> IF \E v \in V : to[v] = f THEN cow[f] + 1 ELSE cow[f]]
      /\ UNCHANGED <<areas, drop, dropped, raced, uncounted, refreed>>
  BY DEF ForkCowMapping, Runs, Goto, Fresh, MovedPages, history
<1>2. V \subseteq Listed(p) /\ V \subseteq Fresh(p)
  BY DEF MovedPages, Moved, Fresh, Listed
<1>3. V \in SUBSET Pages
  BY <1>2, ListedPages DEF Structure
<1>4. Good(Memory(p)) /\ Memory(p).list = mapped[p] /\ Memory(p).table = pt[p]
  BY <1>1, MemoryGood DEF Structure
<1>5. \A v \in V : pt[p][v] # None
  BY <1>2, <1>4 DEF Listed, Good, InTable
<1>6. entry \in [V -> Entry] /\ \A v \in V : entry[v].pa = to[v]
  <2>1. \A v \in V : to[v] \in Frames
    BY <1>1, <1>2 DEF Free
  <2> HIDE DEF V
  <2>2. \A v \in V : [pa |-> to[v], w |-> FALSE] \in Entry
    BY <2>1 DEF Entry
  <2> QED
    BY <2>2
<1> HIDE DEF V, entry
<1>7. /\ Good(m0) /\ m0.list = {e \in mapped[p] : e[1] \notin V}
      /\ m0.table = [x \in Pages |-> IF x \in V THEN None ELSE pt[p][x]]
  BY <1>3, <1>4, <1>5, UnmapGood
<1> HIDE DEF m0
<1>8. /\ Good(m) /\ m.list = m0.list \cup {<<v, entry[v].pa>> : v \in V}
      /\ m.table = [x \in Pages |-> IF x \in V THEN entry[x] ELSE m0.table[x]]
  <2>1. \A v \in V : m0.table[v] = None
    BY <1>3, <1>7
  <2>2. Good(m0) /\ V \in SUBSET Pages /\ entry \in [V -> Entry]
    BY <1>3, <1>6, <1>7
  <2>3. /\ Good(pgmap(m0, entry))
        /\ pgmap(m0, entry).list = m0.list \cup {<<v, entry[v].pa>> : v \in V}
        /\ pgmap(m0, entry).table = [v \in Pages |-> IF v \in V THEN entry[v] ELSE m0.table[v]]
    BY <2>1, <2>2, MapGood
  <2> QED
    BY <2>3
<1>9. m.list = {e \in mapped[p] : e[1] \notin V} \cup {<<v, to[v]>> : v \in V}
  BY <1>6, <1>7, <1>8
<1>10. \A x \in Pages : m.table[x] # None => pt[p][x] # None
  BY <1>5, <1>7, <1>8
<1> HIDE DEF m
<1> QED
  BY <1>1, <1>2, <1>3, <1>8, <1>9, <1>10 DEF V

LEMMA ForkCowKeeps ==
  ASSUME Structure, NEW p \in Procs, NEW to, ForkCowMapping(p, to)
  PROVE  Structure'
<1>1. PICK m :
           /\ Good(m)
           /\ \A x \in Pages : m.table[x] # None => pt[p][x] # None
           /\ SetMemory(p, m) /\ pc' = [pc EXCEPT ![p] = "fork"]
           /\ to \in [Fresh(p) -> Free]
           /\ used' = used \cup {to[v] : v \in Fresh(p)}
           /\ cow' = [f \in Frames |-> IF \E v \in MovedPages(p) : to[v] = f
                                       THEN cow[f] + 1 ELSE cow[f]]
           /\ UNCHANGED <<areas, drop, dropped, raced, uncounted, refreed>>
  BY ForkCowMemory
<1>2. PICK al : al = areas[p]
  OBVIOUS
<1>3. /\ al \in Seq(Area) /\ Ordered(al) /\ areas' = [areas EXCEPT ![p] = al]
      /\ \A x \in Pages : m.table[x] # None => Covers(al, x)
  BY <1>1, <1>2 DEF Structure, TypeOK, AreasOK, Mapped
<1>4. /\ pc'[p] = "fork" /\ \A r \in Procs : r # p => pc'[r] = pc[r]
      /\ pc[p] = "user"
  BY <1>1 DEF Structure, TypeOK, ForkCowMapping, Runs
<1>5. /\ AreasOK' /\ TablesOK' /\ panic' = FALSE
      /\ areas' \in [Procs -> Seq(Area)]
      /\ mapped' \in [Procs -> SUBSET (Pages \X Frames)]
      /\ pt' \in [Procs -> [Pages -> Entry \cup {None}]]
  BY <1>1, <1>3, <1>4, MemoryChanged DEF Structure
<1>6. DropsOK'
  BY <1>1, <1>4 DEF Structure, DropsOK
<1>7. \A v \in Fresh(p) : to[v] \in Frames
  BY <1>1 DEF Free
<1>8. used' \subseteq Frames
  BY <1>1, <1>7 DEF Structure, TypeOK
<1>9. cow' \in [Frames -> Int]
  <2>1. \A f \in Frames : cow[f] \in Int
    BY DEF Structure, TypeOK
  <2> QED
    BY <1>1, <2>1
<1>10. pc' \in [Procs -> {"none", "user", "fork", "drop", "exit", "stuck"}]
  BY <1>1 DEF Structure, TypeOK
<1>11. TypeOK'
  BY <1>1, <1>5, <1>8, <1>9, <1>10 DEF Structure, TypeOK
<1> QED
  BY <1>5, <1>6, <1>11 DEF Structure

LEMMA SomeOf ==
  ASSUME NEW S, IsFiniteSet(S)
  PROVE  Cardinality(S) \in Nat /\ (S # {} <=> Cardinality(S) > 0)
BY FS_CardinalityType, FS_EmptySet

LEMMA InFinite ==
  ASSUME NEW where
  PROVE  IsFiniteSet(In(where)) /\ Cardinality(In(where)) \in Nat
<1>1. In(where) \subseteq Procs
  BY DEF In
<1> QED
  BY <1>1, VmAssumption, FS_Subset, FS_CardinalityType

(* The child of a fork is a process nobody has used.                       *)
LEMMA ChildThere ==
  ASSUME TypeOK, RoomForChildren, NEW p \in Procs, pc[p] = "fork"
  PROVE  First(In("none")) \in Procs /\ pc[First(In("none"))] = "none"
<1>1. In("fork") # {}
  BY DEF In
<1>2. Cardinality(In("fork")) > 0
  BY <1>1, InFinite, SomeOf
<1>3. Cardinality(In("none")) > 0
  BY <1>2, InFinite DEF RoomForChildren
<1>4. In("none") # {}
  BY <1>3, InFinite, SomeOf
<1>5. In("none") \subseteq Nat
  BY VmAssumption, FS_CardinalityType DEF In
<1>6. First(In("none")) \in In("none")
  BY <1>4, <1>5, LeastNatural
<1> HIDE DEF First
<1> QED
  BY <1>6 DEF In

LEMMA ForkChildMemory ==
  ASSUME Structure, RoomForChildren, NEW p \in Procs, ForkChild(p)
  PROVE  \E q, m :
           /\ q \in Procs /\ pc[p] = "fork" /\ pc[q] = "none" /\ mapped[q] = {}
           /\ Good(m) /\ m.list = mapped[p]
           /\ \A x \in Pages : m.table[x] # None => pt[p][x] # None
           /\ SetMemory(q, m) /\ areas' = [areas EXCEPT ![q] = areas[p]]
           /\ pc' = [pc EXCEPT ![p] = "user", ![q] = "user"]
           /\ cow' = Inherit(mapped[p])
           /\ uncounted' = (uncounted \/ \E e \in mapped[p] : ~IsPrivate(p, e[1]))
           /\ raced' = (raced \/ \E e \in mapped[p] : Tested(e[2]))
           /\ UNCHANGED <<drop, dropped, used, refreed>>
<1> DEFINE q == First(In("none"))
           entry == [v \in Listed(p) |->
                       [pa |-> FrameOf(p, v), w |-> Writable(Find(areas[p], v, 1).kind)]]
           m == pgmap(Memory(q), entry)
<1>1. /\ pc[p] = "fork"
      /\ SetMemory(q, m) /\ areas' = [areas EXCEPT ![q] = areas[p]]
      /\ pc' = [pc EXCEPT ![p] = "user", ![q] = "user"]
      /\ cow' = Inherit(mapped[p])
      /\ uncounted' = (uncounted \/ \E e \in mapped[p] : ~IsPrivate(p, e[1]))
      /\ raced' = (raced \/ \E e \in mapped[p] : Tested(e[2]))
      /\ UNCHANGED <<drop, dropped, used, refreed>>
  BY DEF ForkChild, Runs, In
<1>2. q \in Procs /\ pc[q] = "none"
  BY <1>1, ChildThere DEF Structure
<1> HIDE DEF q
<1>3. /\ Good(Memory(q)) /\ Memory(q).list = mapped[q] /\ Memory(q).table = pt[q]
      /\ Good(Memory(p)) /\ Memory(p).list = mapped[p] /\ Memory(p).table = pt[p]
  BY <1>1, <1>2, MemoryGood DEF Structure
<1>4. \A x \in Pages : pt[q][x] = None
  BY <1>2 DEF Structure, TablesOK, Mapped
<1>5. mapped[q] = {}
  BY <1>3, <1>4 DEF Good, InTable
<1>6. /\ Listed(p) \in SUBSET Pages
      /\ \A v \in Listed(p) : FrameOf(p, v) \in Frames /\ <<v, FrameOf(p, v)>> \in mapped[p]
      /\ \A e \in mapped[p] : e[1] \in Listed(p) /\ e = <<e[1], FrameOf(p, e[1])>>
  <2>1. mapped[p] \subseteq Pages \X Frames
    BY DEF Structure, TypeOK
  <2>2. \A e \in mapped[p] : e[1] \in Pages /\ e[2] \in Frames /\ e = <<e[1], e[2]>>
    BY <2>1
  <2>3. \A v \in Listed(p) : \E f \in Frames : <<v, f>> \in mapped[p]
    BY <2>2 DEF Listed
  <2>4. \A v \in Listed(p) : FrameOf(p, v) \in Frames /\ <<v, FrameOf(p, v)>> \in mapped[p]
    BY <2>3 DEF FrameOf
  <2>5. \A d, e \in mapped[p] : d[1] = e[1] => d = e
    BY <1>3 DEF Good, InTable
  <2>6. \A e \in mapped[p] : e[1] \in Listed(p)
    BY DEF Listed
  <2>7. ASSUME NEW e \in mapped[p] PROVE e = <<e[1], FrameOf(p, e[1])>>
    <3>1. <<e[1], FrameOf(p, e[1])>> \in mapped[p]
      BY <2>4, <2>6
    <3> QED
      BY <2>5, <3>1
  <2> QED
    BY <2>4, <2>6, <2>7, ListedPages DEF Structure
<1>7. entry \in [Listed(p) -> Entry] /\ \A v \in Listed(p) : entry[v].pa = FrameOf(p, v)
  BY <1>6, EntryMade
<1> HIDE DEF entry
<1>8. /\ Good(m) /\ m.list = mapped[q] \cup {<<v, entry[v].pa>> : v \in Listed(p)}
      /\ m.table = [x \in Pages |-> IF x \in Listed(p) THEN entry[x] ELSE pt[q][x]]
  <2>1. /\ Good(Memory(q)) /\ Listed(p) \in SUBSET Pages /\ entry \in [Listed(p) -> Entry]
        /\ \A v \in Listed(p) : Memory(q).table[v] = None
    BY <1>3, <1>4, <1>6, <1>7
  <2>2. /\ Good(m) /\ m.list = Memory(q).list \cup {<<v, entry[v].pa>> : v \in Listed(p)}
        /\ m.table = [x \in Pages |-> IF x \in Listed(p) THEN entry[x] ELSE Memory(q).table[x]]
    BY <2>1, MapGood
  <2> QED
    BY <1>3, <2>2
<1>9. m.list = mapped[p]
  BY <1>5, <1>6, <1>7, <1>8
<1>10. \A x \in Pages : m.table[x] # None => pt[p][x] # None
  <2>1. ASSUME NEW x \in Listed(p) PROVE pt[p][x] # None
    <3>1. <<x, FrameOf(p, x)>> \in InTable(pt[p])
      BY <1>3, <1>6 DEF Good
    <3>2. PICK w \in Pages : pt[p][w] # None /\ <<x, FrameOf(p, x)>> = <<w, pt[p][w].pa>>
      BY <3>1 DEF InTable
    <3> QED
      BY <3>2
  <2> HIDE DEF m
  <2> QED
    BY <1>4, <1>8, <2>1
<1> HIDE DEF m
<1> QED
  BY <1>1, <1>2, <1>5, <1>8, <1>9, <1>10

LEMMA ForkChildKeeps ==
  ASSUME Structure, RoomForChildren, NEW p \in Procs, ForkChild(p)
  PROVE  Structure'
<1>1. PICK q, m :
           /\ q \in Procs /\ pc[p] = "fork" /\ pc[q] = "none"
           /\ Good(m)
           /\ \A x \in Pages : m.table[x] # None => pt[p][x] # None
           /\ SetMemory(q, m) /\ areas' = [areas EXCEPT ![q] = areas[p]]
           /\ pc' = [pc EXCEPT ![p] = "user", ![q] = "user"]
           /\ cow' = Inherit(mapped[p])
           /\ uncounted' = (uncounted \/ \E e \in mapped[p] : ~IsPrivate(p, e[1]))
           /\ raced' = (raced \/ \E e \in mapped[p] : Tested(e[2]))
           /\ UNCHANGED <<drop, dropped, used, refreed>>
  BY ForkChildMemory
<1>2. PICK al : al = areas[p]
  OBVIOUS
<1>3. /\ al \in Seq(Area) /\ Ordered(al) /\ areas' = [areas EXCEPT ![q] = al]
      /\ \A x \in Pages : m.table[x] # None => Covers(al, x)
  BY <1>1, <1>2 DEF Structure, TypeOK, AreasOK, Mapped
<1>4. /\ p # q /\ pc'[p] = "user" /\ pc'[q] = "user"
      /\ \A r \in Procs : r # p /\ r # q => pc'[r] = pc[r]
      /\ pc' \in [Procs -> {"none", "user", "fork", "drop", "exit", "stuck"}]
  BY <1>1 DEF Structure, TypeOK
<1>5. /\ AreasOK' /\ TablesOK' /\ panic' = FALSE
      /\ areas' \in [Procs -> Seq(Area)]
      /\ mapped' \in [Procs -> SUBSET (Pages \X Frames)]
      /\ pt' \in [Procs -> [Pages -> Entry \cup {None}]]
  BY <1>1, <1>3, <1>4, MemoryChanged DEF Structure
<1>6. DropsOK'
  BY <1>1, <1>4 DEF Structure, DropsOK
<1>7. cow' \in [Frames -> Int]
  <2>1. \A f \in Frames : cow[f] \in Int
    BY DEF Structure, TypeOK
  <2> QED
    BY <1>1, <2>1 DEF Inherit
<1>8. raced' \in BOOLEAN /\ uncounted' \in BOOLEAN
  BY <1>1
<1>9. TypeOK'
  BY <1>1, <1>4, <1>5, <1>7, <1>8 DEF Structure, TypeOK
<1> QED
  BY <1>5, <1>6, <1>9 DEF Structure

LEMMA OthersKeep ==
  ASSUME Structure, NEW p \in Procs,
         \/ \E v \in Pages, d \in Data : Write(p, v, d)
         \/ Dec(p) \/ FreeIfLast(p) \/ Exit(p) \/ Destroyed(p)
         \/ \E e \in mapped[p] : DestroyPage(p, e)
  PROVE  Structure'
<1> USE DEF Structure
<1>1. CASE \E v \in Pages, d \in Data : Write(p, v, d)
  <2>1. UNCHANGED <<pc, areas, mapped, pt, drop, dropped, cow, used, panic, raced, uncounted, refreed>>
    BY <1>1 DEF Write, proc
  <2> QED
    BY <2>1 DEF TypeOK, AreasOK, TablesOK, DropsOK, Mapped, InTable
<1>2. CASE Dec(p)
  <2>1. /\ UNCHANGED <<pc, areas, mapped, pt, drop, used, panic, uncounted, refreed>>
        /\ dropped' = [dropped EXCEPT ![p] = TRUE] /\ drop[p] # None
        /\ cow' = [cow EXCEPT ![drop[p]] = @ - 1]
        /\ raced' = (raced \/ Tested(drop[p]))
    BY <1>2 DEF Dec
  <2>2. AreasOK' /\ TablesOK' /\ DropsOK'
    BY <2>1 DEF TypeOK, AreasOK, TablesOK, DropsOK, Mapped, InTable
  <2>3. cow' \in [Frames -> Int] /\ raced' \in BOOLEAN /\ dropped' \in [Procs -> BOOLEAN]
    BY <2>1 DEF TypeOK
  <2> QED
    BY <2>1, <2>2, <2>3 DEF TypeOK
<1>3. CASE FreeIfLast(p)
  <2>1. /\ UNCHANGED <<areas, mapped, pt, cow, panic, uncounted, raced>>
        /\ dropped[p] /\ used' = IF Unneeded(drop[p]) THEN used \ {drop[p]} ELSE used
        /\ refreed' = (refreed \/ (Unneeded(drop[p]) /\ drop[p] \notin used))
        /\ dropped' = [dropped EXCEPT ![p] = FALSE] /\ drop' = [drop EXCEPT ![p] = None]
        /\ pc' = [pc EXCEPT ![p] = IF pc[p] = "drop" THEN "user" ELSE "exit"]
    BY <1>3 DEF FreeIfLast, Goto
  <2>2. pc[p] \in {"drop", "exit"}
    BY <2>1 DEF DropsOK
  <2>3. /\ pc'[p] \in {"user", "exit"} /\ (pc'[p] = "exit" <=> pc[p] = "exit")
        /\ \A r \in Procs : r # p => pc'[r] = pc[r]
    BY <2>1, <2>2 DEF TypeOK
  <2>4. AreasOK' /\ TablesOK'
    BY <2>1, <2>2, <2>3 DEF TypeOK, AreasOK, TablesOK, Mapped, InTable
  <2>5. DropsOK'
    BY <2>1, <2>3 DEF TypeOK, DropsOK
  <2>6. used' \subseteq Frames /\ refreed' \in BOOLEAN
    BY <2>1 DEF TypeOK
  <2>7. pc' \in [Procs -> {"none", "user", "fork", "drop", "exit", "stuck"}]
    BY <2>1 DEF TypeOK
  <2> QED
    BY <2>1, <2>4, <2>5, <2>6, <2>7 DEF TypeOK
<1>4. CASE Exit(p)
  <2>1. /\ UNCHANGED <<areas, mapped, pt, drop, dropped, cow, used, panic, raced, uncounted, refreed>>
        /\ pc' = [pc EXCEPT ![p] = "exit"] /\ pc[p] \in {"user", "fork"}
    BY <1>4 DEF Exit, Goto, Runs, memory, history
  <2>2. /\ pc'[p] = "exit" /\ \A r \in Procs : r # p => pc'[r] = pc[r]
        /\ pc' \in [Procs -> {"none", "user", "fork", "drop", "exit", "stuck"}]
    BY <2>1 DEF TypeOK
  <2>3. TypeOK'
    BY <2>1, <2>2 DEF TypeOK
  <2> QED
    BY <2>1, <2>2, <2>3 DEF AreasOK, TablesOK, DropsOK, Mapped, InTable
<1>5. CASE \E e \in mapped[p] : DestroyPage(p, e)
  <2>1. PICK e \in mapped[p] : DestroyPage(p, e)
    BY <1>5
  <2>2. /\ UNCHANGED <<pc, areas, pt, dropped, cow, used, panic, raced, uncounted, refreed>>
        /\ mapped' = [mapped EXCEPT ![p] = @ \ {e}] /\ drop' = [drop EXCEPT ![p] = e[2]]
        /\ pc[p] = "exit"
    BY <2>1 DEF DestroyPage, memory, history
  <2>3. /\ mapped'[p] \subseteq mapped[p] /\ \A r \in Procs : r # p => mapped'[r] = mapped[r]
        /\ mapped' \in [Procs -> SUBSET (Pages \X Frames)]
    BY <2>2 DEF TypeOK
  <2>4. e[2] \in Frames
    BY DEF TypeOK
  <2>5. TypeOK'
    BY <2>2, <2>3, <2>4 DEF TypeOK
  <2>6. TablesOK'
    BY <2>2, <2>3 DEF TablesOK, Mapped, InTable
  <2>7. DropsOK'
    BY <2>2, <2>4, VmAssumption DEF TypeOK, DropsOK
  <2> QED
    BY <2>2, <2>5, <2>6, <2>7 DEF AreasOK, Mapped
<1>6. CASE Destroyed(p)
  <2>1. /\ UNCHANGED <<mapped, drop, dropped, cow, used, panic, raced, uncounted, refreed>>
        /\ areas' = [areas EXCEPT ![p] = << >>]
        /\ pt' = [pt EXCEPT ![p] = [v \in Pages |-> None]]
        /\ pc' = [pc EXCEPT ![p] = "stuck"] /\ drop[p] = None /\ mapped[p] = {}
    BY <1>6 DEF Destroyed, Goto, memory, history
  <2>2. /\ pc'[p] = "stuck" /\ areas'[p] = << >> /\ pt'[p] = [v \in Pages |-> None]
        /\ \A r \in Procs : r # p => pc'[r] = pc[r] /\ areas'[r] = areas[r] /\ pt'[r] = pt[r]
        /\ pc' \in [Procs -> {"none", "user", "fork", "drop", "exit", "stuck"}]
        /\ areas' \in [Procs -> Seq(Area)]
        /\ pt' \in [Procs -> [Pages -> Entry \cup {None}]]
    BY <2>1 DEF TypeOK
  <2>3. TypeOK'
    BY <2>1, <2>2 DEF TypeOK
  <2>4. Ordered(<< >>)
    BY DEF Ordered
  <2>5. AreasOK'
    <3>1. ASSUME NEW r \in Procs
          PROVE  Ordered(areas'[r]) /\ \A v \in Pages : pt'[r][v] # None => Covers(areas'[r], v)
      <4>1. CASE r = p
        BY <2>2, <2>4, <4>1
      <4>2. CASE r # p
        <5>1. areas'[r] = areas[r] /\ pt'[r] = pt[r]
          BY <2>2, <4>2
        <5> QED
          BY <5>1 DEF AreasOK, Mapped
      <4> QED
        BY <4>1, <4>2
    <3> QED
      BY <3>1 DEF AreasOK, Mapped
  <2>6. TablesOK'
    BY <2>1, <2>2 DEF TablesOK, Mapped, InTable
  <2>7. DropsOK'
    BY <2>1, <2>2 DEF DropsOK
  <2> QED
    BY <2>3, <2>5, <2>6, <2>7
<1> QED
  BY <1>1, <1>2, <1>3, <1>4, <1>5, <1>6

-----------------------------------------------------------------------------
(* Children. *)

LEMMA RoomKept ==
  ASSUME TypeOK, DropsOK, RoomForChildren, [Next]_vars
  PROVE  RoomForChildren'
<1> DEFINE F == In("fork")
           N == In("none")
<1>1. /\ IsFiniteSet(F) /\ IsFiniteSet(N) /\ Cardinality(F) \in Nat /\ Cardinality(N) \in Nat
      /\ Cardinality(F) <= Cardinality(N)
  BY InFinite DEF RoomForChildren
<1>2. ASSUME NEW p \in Procs, NEW to, ForkCowMapping(p, to)
      PROVE  RoomForChildren'
  <2>1. /\ pc' = [pc EXCEPT ![p] = "fork"] /\ pc[p] = "user"
        /\ Cardinality(N) > Cardinality(F)
    BY <1>2 DEF ForkCowMapping, Goto, Runs, In
  <2>2. F' = F \cup {p} /\ N' = N
    BY <2>1 DEF In, TypeOK
  <2> HIDE DEF F, N
  <2>3. Cardinality(F \cup {p}) <= Cardinality(F) + 1
    <3>1. Cardinality(F \cup {p}) = IF p \in F THEN Cardinality(F) ELSE Cardinality(F) + 1
      BY <1>1, FS_AddElement
    <3> QED
      BY <1>1, <3>1
  <2>4. Cardinality(F \cup {p}) \in Nat
    BY <1>1, FS_AddElement, FS_CardinalityType
  <2>5. Cardinality(F)' <= Cardinality(N)'
    BY <1>1, <2>1, <2>2, <2>3, <2>4
  <2> QED
    BY <2>5 DEF RoomForChildren, F, N
<1>3. ASSUME NEW p \in Procs, ForkChild(p)
      PROVE  RoomForChildren'
  <2>1. PICK q : q = First(In("none"))
    OBVIOUS
  <2>2. q \in Procs /\ pc[q] = "none" /\ pc[p] = "fork"
    BY <1>3, <2>1, ChildThere DEF ForkChild, Runs
  <2>3. pc' = [pc EXCEPT ![p] = "user", ![q] = "user"]
    BY <1>3, <2>1 DEF ForkChild, In
  <2>4. F' = F \ {p} /\ N' = N \ {q} /\ p \in F /\ q \in N
    BY <2>2, <2>3 DEF In, TypeOK
  <2>5. Cardinality(F \ {p}) = Cardinality(F) - 1 /\ Cardinality(N \ {q}) = Cardinality(N) - 1
    BY <1>1, <2>4, FS_RemoveElement
  <2> HIDE DEF F, N
  <2>6. Cardinality(F)' <= Cardinality(N)'
    BY <1>1, <2>4, <2>5
  <2> QED
    BY <2>6 DEF RoomForChildren, F, N
<1>4. ASSUME F' \subseteq F, N' = N
      PROVE  RoomForChildren'
  <2> HIDE DEF F, N
  <2>1. PICK S : S = F'
    OBVIOUS
  <2>2. S \subseteq F
    BY <1>4, <2>1
  <2>3. Cardinality(S) <= Cardinality(F) /\ Cardinality(S) \in Nat
    BY <1>1, <2>2, FS_Subset, FS_CardinalityType
  <2>4. Cardinality(F)' <= Cardinality(N)'
    BY <1>1, <1>4, <2>1, <2>3
  <2> QED
    BY <2>4 DEF RoomForChildren, F, N
<1>5. ASSUME NEW p \in Procs, NEW w, w \notin {"fork", "none"}, pc[p] # "none",
             pc' = [pc EXCEPT ![p] = w]
      PROVE  F' \subseteq F /\ N' = N
  BY <1>5 DEF In, TypeOK
<1>6. pc' = pc => F' \subseteq F /\ N' = N
  BY DEF In
<1> HIDE DEF F, N
<1>7. ASSUME NEW p \in Procs,
             \/ \E start \in Pages, n \in Pages, kind \in Kinds : Mmap(p, start, n, kind)
             \/ \E start \in Pages, n \in Pages : Munmap(p, start, n)
             \/ \E v \in Pages, d \in Data : Write(p, v, d)
             \/ \E v \in Pages, f \in Frames : FaultNew(p, v, f)
             \/ Dec(p)
             \/ \E e \in mapped[p] : DestroyPage(p, e)
      PROVE  pc' = pc
  BY <1>7 DEF Mmap, Munmap, Write, FaultNew, Dec, DestroyPage, proc
<1>8. ASSUME NEW p \in Procs,
             (\E v \in Pages, f, gone \in Frames : FaultCopy(p, v, f, gone)) \/ Exit(p)
             \/ Destroyed(p)
      PROVE  \E w : w \notin {"fork", "none"} /\ pc[p] # "none" /\ pc' = [pc EXCEPT ![p] = w]
  BY <1>8 DEF FaultCopy, Exit, Destroyed, Goto, Runs
<1>9. CASE UNCHANGED vars
  BY <1>4, <1>6, <1>9 DEF vars, proc
<1>10. CASE Next
  <2>1. PICK p \in Procs :
    \/ \E start \in Pages, n \in Pages, kind \in Kinds : Mmap(p, start, n, kind)
    \/ \E start \in Pages, n \in Pages : Munmap(p, start, n)
    \/ \E v \in Pages, d \in Data : Write(p, v, d)
    \/ \E v \in Pages, f \in Frames : FaultNew(p, v, f)
    \/ \E v \in Pages, f, gone \in Frames : FaultCopy(p, v, f, gone)
    \/ Dec(p) \/ FreeIfLast(p)
    \/ \E V \in SUBSET Pages : \E to \in [V -> Free] : ForkCowMapping(p, to)
    \/ ForkChild(p) \/ Exit(p) \/ Destroyed(p)
    \/ \E e \in mapped[p] : DestroyPage(p, e)
    BY <1>10 DEF Next
  <2>2. CASE FreeIfLast(p)
    <3>1. PICK w : w = IF pc[p] = "drop" THEN "user" ELSE "exit"
      OBVIOUS
    <3>2. pc[p] # "none" /\ w \notin {"fork", "none"} /\ pc' = [pc EXCEPT ![p] = w]
      BY <2>2, <3>1 DEF FreeIfLast, Goto, DropsOK
    <3> QED
      BY <1>4, <1>5, <3>2
  <2> QED
    BY <1>2, <1>3, <1>4, <1>5, <1>6, <1>7, <1>8, <2>1, <2>2
<1> QED
  BY <1>9, <1>10

-----------------------------------------------------------------------------
LEMMA StructureKept ==
  ASSUME Structure, RoomForChildren, [Next]_vars
  PROVE  Structure' /\ RoomForChildren'
<1>1. RoomForChildren'
  BY RoomKept DEF Structure
<1>2. CASE UNCHANGED vars
  <2>1. UNCHANGED <<pc, areas, mapped, pt, drop, dropped, cow, used, panic, raced, uncounted, refreed>>
    BY <1>2 DEF vars, proc, memory, history
  <2>2. TypeOK'
    BY <2>1 DEF Structure, TypeOK
  <2>3. AreasOK' /\ TablesOK' /\ DropsOK'
    BY <2>1 DEF Structure, AreasOK, TablesOK, DropsOK, Mapped, InTable
  <2> QED
    BY <1>1, <2>2, <2>3 DEF Structure
<1>3. CASE Next
  <2>1. PICK p \in Procs :
    \/ \E start \in Pages, n \in Pages, kind \in Kinds : Mmap(p, start, n, kind)
    \/ \E start \in Pages, n \in Pages : Munmap(p, start, n)
    \/ \E v \in Pages, d \in Data : Write(p, v, d)
    \/ \E v \in Pages, f \in Frames : FaultNew(p, v, f)
    \/ \E v \in Pages, f, gone \in Frames : FaultCopy(p, v, f, gone)
    \/ Dec(p) \/ FreeIfLast(p)
    \/ \E V \in SUBSET Pages : \E to \in [V -> Free] : ForkCowMapping(p, to)
    \/ ForkChild(p) \/ Exit(p) \/ Destroyed(p)
    \/ \E e \in mapped[p] : DestroyPage(p, e)
    BY <1>3 DEF Next
  <2> QED
    BY <1>1, <2>1, MmapKeeps, MunmapKeeps, FaultNewKeeps, FaultCopyKeeps, ForkCowKeeps,
       ForkChildKeeps, OthersKeep
<1> QED
  BY <1>1, <1>2, <1>3

LEMMA StructureInit ==
  ASSUME Init
  PROVE  Structure /\ RoomForChildren
<1>1. TypeOK
  <2>1. << >> \in Seq(Area)
    OBVIOUS
  <2>2. /\ pc \in [Procs -> {"none", "user", "fork", "drop", "exit", "stuck"}]
        /\ areas \in [Procs -> Seq(Area)]
        /\ mapped \in [Procs -> SUBSET (Pages \X Frames)]
    BY <2>1 DEF Init
  <2>3. /\ pt \in [Procs -> [Pages -> Entry \cup {None}]]
        /\ drop \in [Procs -> Frames \cup {None}] /\ dropped \in [Procs -> BOOLEAN]
    BY DEF Init
  <2>4. cow \in [Frames -> Int] /\ used \subseteq Frames
    BY DEF Init
  <2>5. {panic, raced, uncounted, refreed} \subseteq BOOLEAN
    BY DEF Init
  <2> QED
    BY <2>2, <2>3, <2>4, <2>5 DEF TypeOK
<1>2. AreasOK
  BY DEF Init, AreasOK, Ordered, Mapped
<1>3. TablesOK
  <2>1. \A p \in Procs : mapped[p] = {} /\ (\A v \in Pages : pt[p][v] = None)
    BY DEF Init
  <2>2. \A p \in Procs : pc[p] \notin {"exit", "stuck"}
    BY DEF Init
  <2> QED
    BY <2>1, <2>2 DEF Init, TablesOK, Mapped, InTable
<1>4. DropsOK
  BY DEF Init, DropsOK
<1>5. RoomForChildren
  <2>1. In("fork") = {}
    BY DEF Init, In
  <2> QED
    BY <2>1, FS_EmptySet, InFinite DEF RoomForChildren
<1> QED
  BY <1>1, <1>2, <1>3, <1>4, <1>5 DEF Structure

LEMMA StructureAlways == Spec => [](Structure /\ RoomForChildren)
<1>1. Init => Structure /\ RoomForChildren
  BY StructureInit
<1>2. Structure /\ RoomForChildren /\ [Next]_vars => (Structure /\ RoomForChildren)'
  BY StructureKept
<1> QED
  BY <1>1, <1>2, PTL DEF Spec

(* Every variable keeps its type.                                          *)
THEOREM VmTyped == Spec => []TypeOK
<1>1. Structure => TypeOK
  BY DEF Structure
<1> QED
  BY <1>1, StructureAlways, PTL

(* List and page table of a living process always say the same, and no     *)
(* panic of map, delete_map_page and mmap is ever reached.                 *)
THEOREM TablesAlwaysAgree == Spec => []TablesAgree
<1>1. Structure => TablesAgree
  BY DEF Structure, TablesOK, TablesAgree, InTable, Mapped
<1> QED
  BY <1>1, StructureAlways, PTL

(* The areas of a process are in order and disjoint, and page_fault and    *)
(* fork find an area around every page that is mapped.                     *)
THEOREM AreasAlwaysSound == Spec => []AreasSound
<1>1. ASSUME Structure PROVE AreasSound
  <2>1. ASSUME NEW p \in Procs
        PROVE  /\ \A i, j \in DOMAIN areas[p] : i < j => areas[p][i].hi <= areas[p][j].lo
               /\ \A v \in Mapped(p) : Find(areas[p], v, 1) # None
    <3>1. Ordered(areas[p])
      BY <1>1 DEF Structure, AreasOK
    <3>2. \A v \in Mapped(p) : Find(areas[p], v, 1) # None
      BY <1>1, PageCovered DEF Structure, Mapped
    <3> QED
      BY <3>1, <3>2 DEF Ordered
  <2> QED
    BY <2>1 DEF AreasSound
<1> QED
  BY <1>1, StructureAlways, PTL

-----------------------------------------------------------------------------
(* Counts of frames. *)

LEMMA UsersAre ==
  ASSUME NEW f \in Frames
  PROVE  /\ Users(f) \subseteq Procs \X (0..NPages)
         /\ \A p \in Procs, v \in Pages : <<p, v>> \in Users(f) <=> <<v, f>> \in mapped[p]
         /\ \A p \in Procs : <<p, 0>> \in Users(f) <=> drop[p] = f /\ ~dropped[p]
<1>1. NPages \in Nat /\ Pages \subseteq 0..NPages /\ 0 \notin Pages /\ 0 \in 0..NPages
  BY VmAssumption DEF Pages
<1>2. ASSUME NEW p \in Procs, NEW v \in 0..NPages
      PROVE  <<p, v>> \in Users(f)
               <=> IF v = 0 THEN drop[p] = f /\ ~dropped[p] ELSE <<v, f>> \in mapped[p]
  BY DEF Users
<1> QED
  BY <1>1, <1>2 DEF Users

LEMMA UserShape ==
  ASSUME NEW S, S \subseteq Procs \X (0..NPages), NEW u \in S
  PROVE  \E p \in Procs, v \in Pages \cup {0} : u = <<p, v>>
<1>1. 0..NPages = Pages \cup {0}
  BY VmAssumption DEF Pages
<1> QED
  BY <1>1

LEMMA UsersFinite ==
  ASSUME NEW S, S \subseteq Procs \X (0..NPages)
  PROVE  IsFiniteSet(S) /\ Cardinality(S) \in Nat
<1>1. IsFiniteSet(0..NPages)
  BY VmAssumption, FS_Interval
<1>2. IsFiniteSet(Procs \X (0..NPages))
  BY <1>1, VmAssumption, FS_Product
<1> QED
  BY <1>2, FS_Subset, FS_CardinalityType

(* Sizes of small changes of a finite set.                                 *)
LEMMA Sizes ==
  ASSUME NEW S, IsFiniteSet(S)
  PROVE  /\ Cardinality(S) \in Nat
         /\ \A T : T \subseteq S => IsFiniteSet(T) /\ Cardinality(T) \in Nat /\ Cardinality(T) <= Cardinality(S)
         /\ \A x : IsFiniteSet(S \cup {x}) /\ Cardinality(S \cup {x}) <= Cardinality(S) + 1
         /\ \A x \in S : IsFiniteSet(S \ {x}) /\ Cardinality(S \ {x}) = Cardinality(S) - 1
         /\ \A x \in S : \A y \in S : x # y => Cardinality(S) >= 2
<1>1. Cardinality(S) \in Nat
  BY FS_CardinalityType
<1>2. \A T : T \subseteq S => IsFiniteSet(T) /\ Cardinality(T) \in Nat /\ Cardinality(T) <= Cardinality(S)
  BY FS_Subset, FS_CardinalityType
<1>3. ASSUME NEW x
      PROVE  IsFiniteSet(S \cup {x}) /\ Cardinality(S \cup {x}) <= Cardinality(S) + 1
  <2>1. /\ IsFiniteSet(S \cup {x})
        /\ Cardinality(S \cup {x}) = IF x \in S THEN Cardinality(S) ELSE Cardinality(S) + 1
    BY FS_AddElement
  <2> QED
    BY <1>1, <2>1
<1>4. ASSUME NEW x \in S
      PROVE  IsFiniteSet(S \ {x}) /\ Cardinality(S \ {x}) = Cardinality(S) - 1
  BY FS_RemoveElement
<1>5. ASSUME NEW x \in S, NEW y \in S, x # y
      PROVE  Cardinality(S) >= 2
  <2>1. y \in S \ {x} /\ IsFiniteSet(S \ {x}) /\ Cardinality(S \ {x}) = Cardinality(S) - 1
    BY <1>4, <1>5
  <2>2. Cardinality(S \ {x}) > 0 /\ Cardinality(S \ {x}) \in Nat
    BY <2>1, SomeOf
  <2> QED
    BY <1>1, <2>1, <2>2
<1> QED
  BY <1>1, <1>2, <1>3, <1>4, <1>5

LEMMA CountLess ==
  ASSUME NEW c \in Int, NEW n \in Nat, NEW k \in Nat, CountOK(c, n), k <= n
  PROVE  CountOK(c, k)
BY DEF CountOK

(* Fewer users and the same counts.                                        *)
LEMMA FewerUsers ==
  ASSUME TypeOK, TypeOK', CountsOK, UNCHANGED <<drop, dropped, cow, used, refreed>>,
         \A r \in Procs : mapped'[r] \subseteq mapped[r],
         \A r \in Procs : pc'[r] = "fork" => pc[r] = "fork" /\ areas'[r] = areas[r]
  PROVE  CountsOK'
<1>1. ASSUME NEW f \in Frames PROVE FrameCounted(f)'
  <2>1. PICK S : S = Users(f)'
    OBVIOUS
  <2>2. FrameCounted(f)
    BY DEF CountsOK
  <2>3. S \subseteq Users(f)
    BY <2>1 DEF Users
  <2>4. Users(f) \subseteq Procs \X (0..NPages)
    BY UsersAre
  <2>5. Cardinality(S) \in Nat /\ Cardinality(Users(f)) \in Nat /\ Cardinality(S) <= Cardinality(Users(f))
    BY <2>3, <2>4, UsersFinite, Sizes
  <2>6. CountOK(cow[f], Cardinality(S))
    BY <2>2, <2>5, CountLess DEF FrameCounted, TypeOK
  <2>7. CountOK(cow[f], Cardinality(Users(f)))'
    BY <2>1, <2>6 DEF CountOK
  <2>8. Users(f) = {} => Users(f)' = {}
    BY <2>1, <2>3
  <2>9. Tested(f)' = Tested(f)
    BY DEF Tested
  <2> QED
    BY <2>2, <2>7, <2>8, <2>9 DEF FrameCounted
<1>2. MappedOnce'
  BY DEF CountsOK, MappedOnce
<1>3. ForksCounted'
  BY DEF CountsOK, ForksCounted, IsPrivate
<1> QED
  BY <1>1, <1>2, <1>3 DEF CountsOK

(* The user of a frame is a page of a process or its pending decrement.    *)
LEMMA SameUsers ==
  ASSUME NEW S, NEW T, S \subseteq Procs \X (0..NPages),
         \A p \in Procs, v \in Pages \cup {0} : <<p, v>> \in S => <<p, v>> \in T
  PROVE  S \subseteq T
BY UserShape

LEMMA UsedIfMapped ==
  ASSUME TypeOK, CountsOK, NEW p \in Procs, NEW e \in mapped[p]
  PROVE  /\ e[1] \in Pages /\ e[2] \in Frames /\ e = <<e[1], e[2]>>
         /\ <<p, e[1]>> \in Users(e[2]) /\ e[2] \in used
<1>1. e[1] \in Pages /\ e[2] \in Frames /\ e = <<e[1], e[2]>>
  <2>1. mapped[p] \subseteq Pages \X Frames
    BY DEF TypeOK
  <2> QED
    BY <2>1
<1>2. <<p, e[1]>> \in Users(e[2])
  BY <1>1, UsersAre
<1> QED
  BY <1>1, <1>2 DEF CountsOK, FrameCounted

LEMMA DecCounts ==
  ASSUME Structure, CountsOK, NEW p \in Procs, Dec(p), ~raced'
  PROVE  CountsOK'
<1>1. PICK f : f = drop[p]
  OBVIOUS
<1>2. /\ UNCHANGED <<pc, areas, mapped, pt, drop, used, panic, uncounted, refreed>>
      /\ dropped' = [dropped EXCEPT ![p] = TRUE] /\ f # None /\ ~dropped[p]
      /\ cow' = [cow EXCEPT ![f] = @ - 1]
      /\ ~Tested(f)
  BY <1>1 DEF Dec
<1>3. f \in Frames /\ drop[p] = f
  BY <1>1, <1>2 DEF Structure, TypeOK
<1>4. /\ \A r \in Procs : dropped'[r] = (dropped[r] \/ r = p)
      /\ cow'[f] = cow[f] - 1 /\ cow[f] \in Int
      /\ \A g \in Frames : g # f => cow'[g] = cow[g]
  BY <1>2, <1>3 DEF Structure, TypeOK
<1>5. <<p, 0>> \in Users(f)
  BY <1>2, <1>3, UsersAre
<1>6. ASSUME NEW g \in Frames
      PROVE  Users(g)' = IF g = f THEN Users(f) \ {<<p, 0>>} ELSE Users(g)
  <2>1. ASSUME NEW r \in Procs, NEW v \in 0..NPages
        PROVE  (IF v = 0 THEN drop[r] = g /\ ~dropped'[r] ELSE <<v, g>> \in mapped[r])
                 <=> /\ IF v = 0 THEN drop[r] = g /\ ~dropped[r] ELSE <<v, g>> \in mapped[r]
                     /\ ~(g = f /\ r = p /\ v = 0)
    BY <1>3, <1>4
  <2>2. Users(g)' = {x \in Procs \X (0..NPages) :
                       IF x[2] = 0 THEN drop[x[1]] = g /\ ~dropped'[x[1]]
                       ELSE <<x[2], g>> \in mapped[x[1]]}
    BY <1>2 DEF Users
  <2>3. \A x \in Procs \X (0..NPages) :
          x \in Users(g)' <=> x \in Users(g) /\ ~(g = f /\ x = <<p, 0>>)
    BY <2>1, <2>2 DEF Users
  <2>4. Users(g)' \subseteq Procs \X (0..NPages) /\ Users(g) \subseteq Procs \X (0..NPages)
    BY <2>2, UsersAre
  <2>5. PICK S : S = Users(g)'
    OBVIOUS
  <2>6. CASE g = f
    <3>1. S = Users(f) \ {<<p, 0>>}
      BY <2>3, <2>4, <2>5, <2>6
    <3> QED
      BY <2>5, <2>6, <3>1
  <2>7. CASE g # f
    <3>1. S = Users(g)
      BY <2>3, <2>4, <2>5, <2>7
    <3> QED
      BY <2>5, <2>7, <3>1
  <2> QED
    BY <2>6, <2>7
<1> DEFINE n == Cardinality(Users(f))
<1>7. IsFiniteSet(Users(f)) /\ n \in Nat /\ CountOK(cow[f], n)
  BY <1>3, UsersAre, UsersFinite DEF CountsOK, FrameCounted
<1>8. Cardinality(Users(f) \ {<<p, 0>>}) = n - 1 /\ n >= 1
  <2>1. IsFiniteSet(Users(f) \ {<<p, 0>>}) /\ Cardinality(Users(f) \ {<<p, 0>>}) = n - 1
    BY <1>5, <1>7, Sizes
  <2>2. n > 0
    BY <1>5, <1>7, SomeOf
  <2> QED
    BY <1>7, <2>1, <2>2
<1> HIDE DEF n
<1>9. FrameCounted(f)'
  <2>1. CountOK(cow[f] - 1, n - 1)
    BY <1>4, <1>7, <1>8 DEF CountOK
  <2>2. CountOK(cow[f], Cardinality(Users(f)))'
    BY <1>3, <1>4, <1>6, <1>8, <2>1 DEF CountOK
  <2>3. f \in used'
    BY <1>2, <1>3, <1>5 DEF CountsOK, FrameCounted
  <2>4. cow'[f] = 0 => Users(f)' = {}
    <3>1. ASSUME cow'[f] = 0 PROVE Users(f) \ {<<p, 0>>} = {}
      <4>1. n = 1
        BY <1>4, <1>7, <1>8, <3>1 DEF CountOK
      <4>2. /\ IsFiniteSet(Users(f) \ {<<p, 0>>})
            /\ Cardinality(Users(f) \ {<<p, 0>>}) = 0
        BY <1>5, <1>7, <1>8, <4>1, Sizes
      <4> QED
        BY <4>2, SomeOf
    <3> QED
      BY <1>3, <1>6, <3>1
  <2>5. \A r \in Procs : dropped'[r] /\ drop[r] = f => r = p
    BY <1>2, <1>4 DEF Tested
  <2> QED
    BY <1>2, <2>2, <2>3, <2>4, <2>5 DEF FrameCounted
<1>10. ASSUME NEW g \in Frames, g # f PROVE FrameCounted(g)'
  <2>1. FrameCounted(g)
    BY DEF CountsOK
  <2>2. Users(g)' = Users(g) /\ cow'[g] = cow[g]
    BY <1>4, <1>6, <1>10
  <2>3. \A r \in Procs : drop[r] = g => dropped'[r] = dropped[r]
    BY <1>3, <1>4, <1>10 DEF Structure, TypeOK
  <2>4. Tested(g)' <=> Tested(g)
    BY <1>2, <2>3 DEF Tested
  <2>5. CountOK(cow[g], Cardinality(Users(g)))'
    BY <2>1, <2>2 DEF FrameCounted, CountOK
  <2> QED
    BY <1>2, <2>1, <2>2, <2>3, <2>4, <2>5 DEF FrameCounted
<1>11. MappedOnce' /\ ~refreed'
  BY <1>2 DEF CountsOK, MappedOnce
<1>12. ForksCounted'
  <2>1. ASSUME NEW r \in Procs, pc[r] = "fork", NEW e \in mapped[r], IsPrivate(r, e[1])
        PROVE  cow'[e[2]] # 0
    <3>1. cow[e[2]] # 0 /\ e[2] \in Frames /\ e[1] \in Pages /\ <<r, e[1]>> \in Users(e[2])
      BY <2>1, UsedIfMapped DEF Structure, CountsOK, ForksCounted
    <3>2. CASE e[2] = f
      <4>1. <<r, e[1]>> # <<p, 0>>
        BY <3>1, PageIsNatural
      <4>2. n >= 2
        BY <1>5, <1>7, <3>1, <3>2, <4>1, Sizes DEF n
      <4> QED
        BY <1>4, <1>7, <3>2, <4>2 DEF CountOK
    <3> QED
      BY <1>4, <3>1, <3>2
  <2> QED
    BY <1>2, <2>1 DEF ForksCounted, IsPrivate
<1> QED
  BY <1>9, <1>10, <1>11, <1>12 DEF CountsOK

LEMMA FreeCounts ==
  ASSUME Structure, CountsOK, NEW p \in Procs, FreeIfLast(p)
  PROVE  CountsOK'
<1>1. PICK f : f = drop[p]
  OBVIOUS
<1>2. /\ UNCHANGED <<areas, mapped, pt, cow, panic, uncounted, raced>>
      /\ dropped[p] /\ used' = IF cow[f] = 0 THEN used \ {f} ELSE used
      /\ refreed' = (refreed \/ (cow[f] = 0 /\ f \notin used))
      /\ dropped' = [dropped EXCEPT ![p] = FALSE] /\ drop' = [drop EXCEPT ![p] = None]
      /\ pc' = [pc EXCEPT ![p] = IF pc[p] = "drop" THEN "user" ELSE "exit"]
  BY <1>1 DEF FreeIfLast, Goto, Unneeded
<1>3. f \in Frames /\ drop[p] = f /\ Tested(f)
  BY <1>1, <1>2 DEF Structure, TypeOK, DropsOK, Tested
<1>4. /\ dropped'[p] = FALSE /\ drop'[p] = None
      /\ \A r \in Procs : r # p => dropped'[r] = dropped[r] /\ drop'[r] = drop[r] /\ pc'[r] = pc[r]
      /\ pc'[p] # "fork"
  BY <1>2 DEF Structure, TypeOK
<1>5. f \in used /\ (cow[f] = 0 => Users(f) = {})
  BY <1>3 DEF CountsOK, FrameCounted
<1>6. ASSUME NEW g \in Frames PROVE FrameCounted(g)'
  <2>1. FrameCounted(g)
    BY DEF CountsOK
  <2>2. Users(g)' = Users(g)
    <3>1. ASSUME NEW r \in Procs
          PROVE  drop'[r] = g /\ ~dropped'[r] <=> drop[r] = g /\ ~dropped[r]
      BY <1>2, <1>4, VmAssumption
    <3> QED
      BY <1>2, <3>1 DEF Users
  <2>3. \A r \in Procs : dropped'[r] => r # p /\ dropped[r] /\ drop'[r] = drop[r]
    BY <1>4
  <2>4. Tested(g)' => Tested(g)
    BY <2>3 DEF Tested
  <2>5. g = f => ~Tested(f)'
    <3>1. \A r \in Procs : dropped[r] /\ drop[r] = f => r = p
      BY <1>2, <1>3 DEF CountsOK, FrameCounted
    <3> QED
      BY <2>3, <3>1 DEF Tested
  <2>6. CountOK(cow[g], Cardinality(Users(g)))'
    BY <1>2, <2>1, <2>2 DEF FrameCounted, CountOK
  <2>7. g \notin used' => cow[g] = 0 /\ Users(g) = {} /\ ~Tested(g)'
    BY <1>2, <1>5, <2>1, <2>4, <2>5 DEF FrameCounted
  <2> QED
    BY <1>2, <2>1, <2>2, <2>3, <2>4, <2>6, <2>7 DEF FrameCounted
<1>7. MappedOnce'
  BY <1>2 DEF CountsOK, MappedOnce
<1>8. ForksCounted'
  BY <1>2, <1>4 DEF CountsOK, ForksCounted, IsPrivate
<1>9. ~refreed'
  BY <1>2, <1>5 DEF CountsOK
<1> QED
  BY <1>6, <1>7, <1>8, <1>9 DEF CountsOK

LEMMA DestroyCounts ==
  ASSUME Structure, CountsOK, NEW p \in Procs, NEW e \in mapped[p], DestroyPage(p, e)
  PROVE  CountsOK'
<1>1. /\ UNCHANGED <<pc, areas, pt, dropped, cow, used, panic, raced, uncounted, refreed>>
      /\ mapped' = [mapped EXCEPT ![p] = @ \ {e}] /\ drop' = [drop EXCEPT ![p] = e[2]]
      /\ pc[p] = "exit" /\ drop[p] = None
  BY DEF DestroyPage, memory, history
<1>2. PICK f : f = e[2]
  OBVIOUS
<1>3. /\ e[1] \in Pages /\ f \in Frames /\ e = <<e[1], f>>
      /\ <<p, e[1]>> \in Users(f) /\ f \in used
  BY <1>2, UsedIfMapped DEF Structure
<1>4. ~dropped[p]
  BY <1>1 DEF Structure, DropsOK
<1>5. /\ drop'[p] = f /\ \A r \in Procs : r # p => drop'[r] = drop[r]
      /\ mapped'[p] = mapped[p] \ {e} /\ \A r \in Procs : r # p => mapped'[r] = mapped[r]
  BY <1>1, <1>2 DEF Structure, TypeOK
<1>6. ASSUME NEW g \in Frames PROVE FrameCounted(g)'
  <2>1. FrameCounted(g)
    BY DEF CountsOK
  <2>2. PICK S : S = Users(g)'
    OBVIOUS
  <2>3. /\ S \subseteq Procs \X (0..NPages)
        /\ \A r \in Procs, v \in Pages : <<r, v>> \in S <=> <<v, g>> \in mapped'[r]
        /\ \A r \in Procs : <<r, 0>> \in S <=> drop'[r] = g /\ ~dropped[r]
    <3>1. 0 \notin Pages /\ 0 \in 0..NPages /\ Pages \subseteq 0..NPages
      BY VmAssumption DEF Pages
    <3> QED
      BY <1>1, <2>2, <3>1 DEF Users
  <2>4. Users(g) \subseteq Procs \X (0..NPages)
    BY UsersAre
  <2> DEFINE T == IF g = f THEN (Users(g) \ {<<p, e[1]>>}) \cup {<<p, 0>>} ELSE Users(g)
  <2>5. S \subseteq T
    <3>1. ASSUME NEW r \in Procs, NEW v \in Pages, <<r, v>> \in S PROVE <<r, v>> \in T
      <4>1. <<v, g>> \in mapped'[r] /\ <<v, g>> \in mapped[r]
        BY <1>5, <2>3, <3>1
      <4>2. <<r, v>> \in Users(g)
        BY <4>1, UsersAre
      <4>3. g = f => <<r, v>> # <<p, e[1]>>
        BY <1>3, <1>5, <4>1
      <4> QED
        BY <4>2, <4>3
    <3>2. ASSUME NEW r \in Procs, <<r, 0>> \in S PROVE <<r, 0>> \in T
      <4>1. drop'[r] = g /\ ~dropped[r]
        BY <2>3, <3>2
      <4>2. CASE r = p
        BY <1>5, <4>1, <4>2
      <4>3. CASE r # p
        <5>1. <<r, 0>> \in Users(g)
          BY <1>5, <4>1, <4>3, UsersAre
        <5> QED
          BY <4>3, <5>1
      <4> QED
        BY <4>2, <4>3
    <3> HIDE DEF T
    <3> QED
      BY <2>3, <3>1, <3>2, SameUsers
  <2>6. /\ IsFiniteSet(T) /\ Cardinality(T) \in Nat
        /\ Cardinality(T) <= Cardinality(Users(g)) /\ Cardinality(Users(g)) \in Nat
    <3>1. IsFiniteSet(Users(g)) /\ Cardinality(Users(g)) \in Nat
      BY <2>4, UsersFinite
    <3>2. CASE g = f
      <4> DEFINE U == Users(g) \ {<<p, e[1]>>}
      <4>1. IsFiniteSet(U) /\ Cardinality(U) = Cardinality(Users(g)) - 1
        BY <1>3, <3>1, <3>2, Sizes
      <4> HIDE DEF U
      <4>2. IsFiniteSet(U \cup {<<p, 0>>}) /\ Cardinality(U \cup {<<p, 0>>}) <= Cardinality(U) + 1
        BY <4>1, Sizes
      <4>3. Cardinality(U \cup {<<p, 0>>}) \in Nat
        BY <4>2, FS_CardinalityType
      <4>4. T = U \cup {<<p, 0>>}
        BY <3>2 DEF U
      <4> HIDE DEF T
      <4>5. Cardinality(U \cup {<<p, 0>>}) <= Cardinality(Users(g))
        BY <3>1, <4>1, <4>2, <4>3
      <4> QED
        BY <3>1, <4>2, <4>3, <4>4, <4>5
    <3>3. CASE g # f
      BY <3>1, <3>3
    <3> QED
      BY <3>2, <3>3
  <2> HIDE DEF T
  <2>7. Cardinality(S) \in Nat /\ Cardinality(S) <= Cardinality(T)
    BY <2>5, <2>6, Sizes
  <2>8. CountOK(cow[g], Cardinality(S))
    <3>1. Cardinality(S) <= Cardinality(Users(g))
      BY <2>6, <2>7
    <3> QED
      BY <2>1, <2>6, <2>7, <3>1, CountLess DEF FrameCounted, Structure, TypeOK
  <2>9. CountOK(cow[g], Cardinality(Users(g)))'
    BY <1>1, <2>2, <2>8 DEF CountOK
  <2>10. Tested(g)' <=> Tested(g)
    BY <1>1, <1>4, <1>5 DEF Tested
  <2>11. Users(g) = {} => Users(g)' = {}
    BY <1>3, <2>2, <2>5 DEF T
  <2>12. \A r \in Procs : dropped[r] => drop'[r] = drop[r]
    BY <1>4, <1>5
  <2> QED
    BY <1>1, <2>1, <2>9, <2>10, <2>11, <2>12 DEF FrameCounted
<1>7. MappedOnce'
  BY <1>1, <1>5 DEF CountsOK, MappedOnce
<1>8. ForksCounted'
  BY <1>1, <1>5 DEF CountsOK, ForksCounted, IsPrivate
<1> QED
  BY <1>1, <1>6, <1>7, <1>8 DEF CountsOK

(* What the users of a frame become when one process gets another list of  *)
(* pages or another frame to give up.                                      *)
LEMMA UsersNext ==
  ASSUME NEW g \in Frames, NEW S, S = Users(g)'
  PROVE  /\ S \subseteq Procs \X (0..NPages)
         /\ \A r \in Procs, v \in Pages : <<r, v>> \in S <=> <<v, g>> \in mapped'[r]
         /\ \A r \in Procs : <<r, 0>> \in S <=> drop'[r] = g /\ ~dropped'[r]
<1>1. 0 \notin Pages /\ 0 \in 0..NPages /\ Pages \subseteq 0..NPages
  BY VmAssumption DEF Pages
<1> QED
  BY <1>1 DEF Users

LEMMA FaultNewCounts ==
  ASSUME Structure, CountsOK, NEW p \in Procs, NEW v \in Pages, NEW f \in Frames,
         FaultNew(p, v, f)
  PROVE  CountsOK'
<1>1. PICK m, al :
           /\ Good(m) /\ m.list = mapped[p] \cup {<<v, f>>}
           /\ \A x \in Pages : m.table[x] # None => x = v \/ pt[p][x] # None
           /\ SetMemory(p, m) /\ areas' = [areas EXCEPT ![p] = al]
           /\ al \in Seq(Area) /\ Ordered(al) /\ Covers(al, v)
           /\ \A x \in Nat : Covers(areas[p], x) => Covers(al, x)
           /\ UNCHANGED <<pc, drop, dropped, cow, raced, uncounted, refreed>>
           /\ used' = used \cup {f}
  BY FaultNewMemory
<1>2. pc[p] = "user" /\ f \notin used
  BY DEF FaultNew, Runs, Free
<1>3. /\ mapped'[p] = mapped[p] \cup {<<v, f>>}
      /\ \A r \in Procs : r # p => mapped'[r] = mapped[r] /\ areas'[r] = areas[r]
  BY <1>1 DEF SetMemory, Structure, TypeOK
<1>4. cow[f] = 0 /\ Users(f) = {} /\ ~Tested(f)
  BY <1>2 DEF CountsOK, FrameCounted
<1>5. ASSUME NEW g \in Frames PROVE FrameCounted(g)'
  <2>1. FrameCounted(g)
    BY DEF CountsOK
  <2>2. PICK S : S = Users(g)'
    OBVIOUS
  <2>3. /\ S \subseteq Procs \X (0..NPages)
        /\ \A r \in Procs, x \in Pages : <<r, x>> \in S <=> <<x, g>> \in mapped'[r]
        /\ \A r \in Procs : <<r, 0>> \in S <=> drop[r] = g /\ ~dropped[r]
    BY <1>1, <2>2, UsersNext
  <2>4. CASE g = f
    <3> DEFINE T == {<<p, v>>}
    <3>1. \A r \in Procs, x \in Pages \cup {0} : <<r, x>> \in S => <<r, x>> \in T
      BY <1>3, <1>4, <2>3, <2>4, UsersAre
    <3>2. IsFiniteSet(T) /\ Cardinality(T) = 1
      BY FS_Singleton
    <3> HIDE DEF T
    <3>3. Cardinality(S) \in Nat /\ Cardinality(S) <= 1
      <4>1. S \subseteq T
        BY <2>3, <3>1, SameUsers
      <4> QED
        BY <3>2, <4>1, Sizes
    <3>4. CountOK(cow[g], Cardinality(S))
      BY <1>4, <2>4, <3>3 DEF CountOK
    <3>5. CountOK(cow[g], Cardinality(Users(g)))'
      BY <1>1, <2>2, <3>4 DEF CountOK
    <3>6. ~Tested(g)' /\ g \in used'
      BY <1>1, <1>4, <2>4 DEF Tested
    <3> QED
      BY <1>1, <2>1, <3>5, <3>6 DEF FrameCounted
  <2>5. CASE g # f
    <3>1. \A r \in Procs, x \in Pages \cup {0} : <<r, x>> \in S <=> <<r, x>> \in Users(g)
      BY <1>3, <2>3, <2>5, UsersAre
    <3>2. S = Users(g)
      <4>1. S \subseteq Users(g)
        BY <2>3, <3>1, SameUsers
      <4>2. Users(g) \subseteq S
        BY <3>1, UsersAre, SameUsers
      <4> QED
        BY <4>1, <4>2
    <3>3. CountOK(cow[g], Cardinality(Users(g)))'
      BY <1>1, <2>1, <2>2, <3>2 DEF CountOK, FrameCounted
    <3>4. Tested(g)' <=> Tested(g)
      BY <1>1 DEF Tested
    <3>5. Users(g)' = Users(g)
      BY <2>2, <3>2
    <3> QED
      BY <1>1, <2>1, <3>3, <3>4, <3>5 DEF FrameCounted
  <2> QED
    BY <2>4, <2>5
<1>6. MappedOnce'
  <2>1. \A e \in mapped[p] : e[2] # f
    BY <1>2, UsedIfMapped DEF Structure
  <2>2. ASSUME NEW r \in Procs, NEW d \in mapped'[r], NEW e \in mapped'[r], d[2] = e[2]
        PROVE  d = e
    BY <1>3, <2>1, <2>2 DEF CountsOK, MappedOnce
  <2> QED
    BY <2>2 DEF MappedOnce
<1>7. ForksCounted'
  BY <1>1, <1>2, <1>3 DEF CountsOK, ForksCounted, IsPrivate
<1> QED
  BY <1>1, <1>5, <1>6, <1>7 DEF CountsOK

LEMMA FaultCopyCounts ==
  ASSUME Structure, CountsOK, NEW p \in Procs, NEW v \in Pages, NEW f \in Frames,
         NEW gone \in Frames, FaultCopy(p, v, f, gone)
  PROVE  CountsOK'
<1>1. PICK m :
           /\ Good(m)
           /\ m.list = {e \in mapped[p] : e[1] # v} \cup {<<v, f>>}
           /\ \A x \in Pages : m.table[x] # None => pt[p][x] # None
           /\ SetMemory(p, m)
           /\ drop' = [drop EXCEPT ![p] = gone] /\ pc' = [pc EXCEPT ![p] = "drop"]
           /\ UNCHANGED <<areas, dropped, cow, raced, uncounted, refreed>>
           /\ used' = used \cup {f}
  BY FaultCopyMemory
<1>2. /\ pc[p] = "user" /\ f \notin used /\ pt[p][v] # None
      /\ gone \in {pt[p][v].pa, f}
  BY DEF FaultCopy, Runs, Free
<1>3. PICK old : old = pt[p][v].pa
  OBVIOUS
<1>4. <<v, old>> \in mapped[p]
  BY <1>2, <1>3, MemoryGood DEF Structure, Good, InTable
<1>5. /\ mapped'[p] = {e \in mapped[p] : e[1] # v} \cup {<<v, f>>}
      /\ \A r \in Procs : r # p => mapped'[r] = mapped[r]
      /\ drop'[p] = gone /\ \A r \in Procs : r # p => drop'[r] = drop[r]
      /\ pc'[p] = "drop" /\ \A r \in Procs : r # p => pc'[r] = pc[r]
  BY <1>1 DEF SetMemory, Structure, TypeOK
<1>6. cow[f] = 0 /\ Users(f) = {} /\ ~Tested(f)
  BY <1>2 DEF CountsOK, FrameCounted
<1>7. drop[p] = None /\ ~dropped[p]
  BY <1>2 DEF Structure, DropsOK
<1>8. old \in Frames /\ old \in used /\ old # f /\ <<p, v>> \in Users(old)
  BY <1>2, <1>4, UsedIfMapped DEF Structure
<1>9. ASSUME NEW g \in Frames PROVE FrameCounted(g)'
  <2>1. FrameCounted(g)
    BY DEF CountsOK
  <2>2. PICK S : S = Users(g)'
    OBVIOUS
  <2>3. /\ S \subseteq Procs \X (0..NPages)
        /\ \A r \in Procs, x \in Pages : <<r, x>> \in S <=> <<x, g>> \in mapped'[r]
        /\ \A r \in Procs : <<r, 0>> \in S <=> drop'[r] = g /\ ~dropped[r]
    BY <1>1, <2>2, UsersNext
  <2>4. Tested(g)' <=> Tested(g)
    BY <1>1, <1>5, <1>7 DEF Tested
  <2>5. \A r \in Procs : dropped[r] => drop'[r] = drop[r]
    BY <1>5, <1>7
  <2>6. IsFiniteSet(Users(g)) /\ Cardinality(Users(g)) \in Nat /\ cow[g] \in Int
    BY UsersAre, UsersFinite DEF Structure, TypeOK
  <2>7. CASE g = f
    <3> DEFINE T == {<<p, v>>} \cup {<<p, 0>>}
    <3>1. ASSUME NEW r \in Procs, NEW x \in Pages \cup {0}, <<r, x>> \in S
          PROVE  <<r, x>> \in T
      <4>1. CASE x = 0
        <5>1. drop'[r] = f /\ ~dropped[r]
          BY <2>3, <2>7, <3>1, <4>1
        <5>2. <<r, 0>> \notin Users(f)
          BY <1>6
        <5>3. r = p
          BY <1>5, <5>1, <5>2, UsersAre
        <5> QED
          BY <4>1, <5>3
      <4>2. CASE x \in Pages
        <5>1. <<x, f>> \in mapped'[r]
          BY <2>3, <2>7, <3>1, <4>2
        <5>2. <<x, f>> \notin mapped[r]
          BY <1>6, <4>2, UsersAre
        <5> QED
          BY <1>5, <5>1, <5>2
      <4> QED
        BY <4>1, <4>2
    <3>2. IsFiniteSet(T) /\ Cardinality(T) <= 2
      <4> DEFINE U == {<<p, v>>}
      <4>1. IsFiniteSet(U) /\ Cardinality(U) = 1
        BY FS_Singleton
      <4> HIDE DEF U
      <4>2. /\ IsFiniteSet(U \cup {<<p, 0>>})
            /\ Cardinality(U \cup {<<p, 0>>}) <= Cardinality(U) + 1
        BY <4>1, Sizes
      <4>3. Cardinality(U \cup {<<p, 0>>}) <= 2
        BY <4>1, <4>2
      <4> QED
        BY <4>2, <4>3 DEF U
    <3> HIDE DEF T
    <3>3. S \subseteq T
      BY <2>3, <3>1, SameUsers
    <3>4. Cardinality(S) \in Nat /\ Cardinality(S) <= 2
      BY <3>2, <3>3, Sizes
    <3>5. CountOK(cow[g], Cardinality(S))
      BY <1>6, <2>7, <3>4 DEF CountOK
    <3>6. CountOK(cow[g], Cardinality(Users(g)))'
      BY <1>1, <2>2, <3>5 DEF CountOK
    <3>7. ~Tested(g)' /\ g \in used'
      BY <1>1, <1>6, <2>4, <2>7
    <3> QED
      BY <1>1, <2>1, <2>5, <3>6, <3>7 DEF FrameCounted
  <2>8. CASE g # f
    <3> DEFINE T == IF g = old THEN (Users(g) \ {<<p, v>>}) \cup {<<p, 0>>} ELSE Users(g)
    <3>1. ASSUME NEW r \in Procs, NEW x \in Pages \cup {0}, <<r, x>> \in S
          PROVE  <<r, x>> \in T
      <4>1. CASE x = 0
        <5>1. drop'[r] = g /\ ~dropped[r]
          BY <2>3, <3>1, <4>1
        <5>2. CASE r = p
          BY <1>2, <1>3, <1>5, <2>8, <4>1, <5>1, <5>2
        <5>3. CASE r # p
          <6>1. <<r, 0>> \in Users(g)
            BY <1>5, <5>1, <5>3, UsersAre
          <6> QED
            BY <4>1, <5>3, <6>1
        <5> QED
          BY <5>2, <5>3
      <4>2. CASE x \in Pages
        <5>1. <<x, g>> \in mapped'[r]
          BY <2>3, <3>1, <4>2
        <5>2. <<x, g>> \in mapped[r] /\ (r = p => x # v)
          BY <1>5, <2>8, <5>1
        <5>3. <<r, x>> \in Users(g)
          BY <4>2, <5>2, UsersAre
        <5> QED
          BY <5>2, <5>3
      <4> QED
        BY <4>1, <4>2
    <3>2. IsFiniteSet(T) /\ Cardinality(T) <= Cardinality(Users(g))
      <4>1. CASE g = old
        <5> DEFINE U == Users(g) \ {<<p, v>>}
        <5>1. IsFiniteSet(U) /\ Cardinality(U) = Cardinality(Users(g)) - 1
          BY <1>8, <2>6, <4>1, Sizes
        <5> HIDE DEF U
        <5>2. IsFiniteSet(U \cup {<<p, 0>>}) /\ Cardinality(U \cup {<<p, 0>>}) <= Cardinality(U) + 1
          BY <5>1, Sizes
        <5>3. Cardinality(U \cup {<<p, 0>>}) \in Nat
          BY <5>2, FS_CardinalityType
        <5>4. T = U \cup {<<p, 0>>}
          BY <4>1 DEF U
        <5> HIDE DEF T
        <5>5. Cardinality(U \cup {<<p, 0>>}) <= Cardinality(Users(g))
          BY <2>6, <5>1, <5>2, <5>3
        <5> QED
          BY <5>2, <5>4, <5>5
      <4>2. CASE g # old
        <5>1. T = Users(g)
          BY <4>2
        <5> HIDE DEF T
        <5> QED
          BY <2>6, <5>1
      <4> QED
        BY <4>1, <4>2
    <3>3. Users(g) = {} => T = {}
      BY <1>8
    <3> HIDE DEF T
    <3>4. S \subseteq T
      BY <2>3, <3>1, SameUsers
    <3>5. Cardinality(S) \in Nat /\ Cardinality(S) <= Cardinality(T) /\ Cardinality(T) \in Nat
      BY <3>2, <3>4, Sizes
    <3>6. CountOK(cow[g], Cardinality(S))
      <4>1. Cardinality(S) <= Cardinality(Users(g))
        BY <2>6, <3>2, <3>5
      <4> QED
        BY <2>1, <2>6, <3>5, <4>1, CountLess DEF FrameCounted
    <3>7. CountOK(cow[g], Cardinality(Users(g)))'
      BY <1>1, <2>2, <3>6 DEF CountOK
    <3>8. Users(g) = {} => Users(g)' = {}
      BY <2>2, <3>3, <3>4
    <3> QED
      BY <1>1, <2>1, <2>4, <2>5, <3>7, <3>8 DEF FrameCounted
  <2> QED
    BY <2>7, <2>8
<1>10. MappedOnce'
  <2>1. \A e \in mapped[p] : e[2] # f
    BY <1>2, UsedIfMapped DEF Structure
  <2>2. ASSUME NEW r \in Procs, NEW d \in mapped'[r], NEW e \in mapped'[r], d[2] = e[2]
        PROVE  d = e
    BY <1>5, <2>1, <2>2 DEF CountsOK, MappedOnce
  <2> QED
    BY <2>2 DEF MappedOnce
<1>11. ForksCounted'
  BY <1>1, <1>5 DEF CountsOK, ForksCounted, IsPrivate
<1> QED
  BY <1>1, <1>9, <1>10, <1>11 DEF CountsOK

LEMMA ForkCowCounts ==
  ASSUME Structure, CountsOK, NEW p \in Procs, NEW to, ForkCowMapping(p, to)
  PROVE  CountsOK'
<1> DEFINE V == MovedPages(p)
<1>1. PICK m :
           /\ Good(m)
           /\ m.list = {e \in mapped[p] : e[1] \notin MovedPages(p)}
                         \cup {<<v, to[v]>> : v \in MovedPages(p)}
           /\ \A x \in Pages : m.table[x] # None => pt[p][x] # None
           /\ SetMemory(p, m) /\ pc' = [pc EXCEPT ![p] = "fork"]
           /\ to \in [Fresh(p) -> Free] /\ IsInjective(to)
           /\ MovedPages(p) \subseteq Fresh(p) /\ MovedPages(p) \subseteq Pages
           /\ used' = used \cup {to[v] : v \in Fresh(p)}
           /\ cow' = [f \in Frames |-> IF \E v \in MovedPages(p) : to[v] = f
                                       THEN cow[f] + 1 ELSE cow[f]]
           /\ UNCHANGED <<areas, drop, dropped, raced, uncounted, refreed>>
  BY ForkCowMemory
<1>2. /\ mapped'[p] = {e \in mapped[p] : e[1] \notin V} \cup {<<v, to[v]>> : v \in V}
      /\ \A r \in Procs : r # p => mapped'[r] = mapped[r]
      /\ pc'[p] = "fork" /\ \A r \in Procs : r # p => pc'[r] = pc[r]
  BY <1>1 DEF SetMemory, Structure, TypeOK
<1>3. \A v \in Fresh(p) : to[v] \in Frames /\ to[v] \notin used
  BY <1>1 DEF Free
<1>4. /\ V \subseteq Fresh(p) /\ V \subseteq Pages
      /\ \A v, w \in V : to[v] = to[w] => v = w
  BY <1>1 DEF IsInjective
<1>5. \A e \in mapped[p] : e[1] \notin V /\ IsPrivate(p, e[1]) => cow[e[2]] # 0
  BY DEF MovedPages, Moved
<1> HIDE DEF V
<1>6. ASSUME NEW g \in Frames
      PROVE  /\ cow'[g] = IF \E v \in V : to[v] = g THEN cow[g] + 1 ELSE cow[g]
             /\ cow[g] \in Int
  BY <1>1 DEF Structure, TypeOK, V
<1>7. \A g \in Frames : g \notin used => cow[g] = 0 /\ Users(g) = {} /\ ~Tested(g)
  BY DEF CountsOK, FrameCounted
<1>8. ASSUME NEW g \in Frames PROVE FrameCounted(g)'
  <2>1. FrameCounted(g)
    BY DEF CountsOK
  <2>2. PICK S : S = Users(g)'
    OBVIOUS
  <2>3. /\ S \subseteq Procs \X (0..NPages)
        /\ \A r \in Procs, x \in Pages : <<r, x>> \in S <=> <<x, g>> \in mapped'[r]
        /\ \A r \in Procs : <<r, 0>> \in S <=> drop[r] = g /\ ~dropped[r]
    BY <1>1, <2>2, UsersNext
  <2>4. Tested(g)' <=> Tested(g)
    BY <1>1 DEF Tested
  <2>5. CASE \E v \in V : to[v] = g
    <3>1. PICK v \in V : to[v] = g
      BY <2>5
    <3>2. cow[g] = 0 /\ Users(g) = {} /\ ~Tested(g) /\ cow'[g] = 1
      BY <1>3, <1>4, <1>6, <1>7, <3>1
    <3> DEFINE T == {<<p, v>>}
    <3>3. ASSUME NEW r \in Procs, NEW x \in Pages \cup {0}, <<r, x>> \in S
          PROVE  <<r, x>> \in T
      <4>1. <<r, x>> \notin Users(g)
        BY <3>2
      <4>2. x # 0
        BY <2>3, <3>3, <4>1, UsersAre
      <4>3. <<x, g>> \in mapped'[r] /\ <<x, g>> \notin mapped[r]
        BY <2>3, <3>3, <4>1, <4>2, UsersAre
      <4>4. r = p /\ \E w \in V : <<x, g>> = <<w, to[w]>>
        BY <1>2, <4>3
      <4> QED
        BY <1>4, <3>1, <4>4
    <3>4. IsFiniteSet(T) /\ Cardinality(T) = 1
      BY FS_Singleton
    <3> HIDE DEF T
    <3>5. S \subseteq T
      BY <2>3, <3>3, SameUsers
    <3>6. Cardinality(S) \in Nat /\ Cardinality(S) <= 1
      BY <3>4, <3>5, Sizes
    <3>7. CountOK(1, Cardinality(S))
      BY <3>6 DEF CountOK
    <3>8. CountOK(cow[g], Cardinality(Users(g)))'
      BY <2>2, <3>2, <3>7 DEF CountOK
    <3>9. g \in used'
      BY <1>1, <1>4, <3>1
    <3> QED
      BY <1>1, <2>1, <2>4, <3>2, <3>8, <3>9 DEF FrameCounted
  <2>6. CASE ~\E v \in V : to[v] = g
    <3>1. ASSUME NEW r \in Procs, NEW x \in Pages \cup {0}, <<r, x>> \in S
          PROVE  <<r, x>> \in Users(g)
      <4>1. CASE x = 0
        BY <2>3, <3>1, <4>1, UsersAre
      <4>2. CASE x \in Pages
        <5>1. <<x, g>> \in mapped'[r]
          BY <2>3, <3>1, <4>2
        <5>2. <<x, g>> \in mapped[r]
          BY <1>2, <2>6, <5>1
        <5> QED
          BY <4>2, <5>2, UsersAre
      <4> QED
        BY <4>1, <4>2
    <3>2. S \subseteq Users(g)
      BY <2>3, <3>1, SameUsers
    <3>3. IsFiniteSet(Users(g)) /\ Cardinality(Users(g)) \in Nat
      BY UsersAre, UsersFinite
    <3>4. Cardinality(S) \in Nat /\ Cardinality(S) <= Cardinality(Users(g))
      BY <3>2, <3>3, Sizes
    <3>5. CountOK(cow[g], Cardinality(S))
      BY <1>6, <2>1, <3>3, <3>4, CountLess DEF FrameCounted
    <3>6. cow'[g] = cow[g]
      BY <1>6, <2>6
    <3>7. CountOK(cow[g], Cardinality(Users(g)))'
      BY <2>2, <3>5, <3>6 DEF CountOK
    <3>8. Users(g) = {} => Users(g)' = {}
      BY <2>2, <3>2
    <3>9. g \notin used' => g \notin used
      BY <1>1
    <3> QED
      BY <1>1, <2>1, <2>4, <3>6, <3>7, <3>8, <3>9 DEF FrameCounted
  <2> QED
    BY <2>5, <2>6
<1>9. \A r \in Procs : \A e \in mapped[r] : e[2] \in used /\ e[2] \in Frames
  BY UsedIfMapped DEF Structure
<1>10. MappedOnce'
  <2>1. ASSUME NEW r \in Procs, NEW d \in mapped'[r], NEW e \in mapped'[r], d[2] = e[2]
        PROVE  d = e
    <3>1. CASE r # p
      BY <1>2, <2>1, <3>1 DEF CountsOK, MappedOnce
    <3>2. CASE d \in mapped[p] /\ e \in mapped[p] /\ r = p
      BY <2>1, <3>2 DEF CountsOK, MappedOnce
    <3>3. CASE r = p /\ d \notin mapped[p]
      <4>1. PICK v \in V : d = <<v, to[v]>>
        BY <1>2, <3>3
      <4>2. e \notin mapped[p]
        BY <1>3, <1>4, <1>9, <2>1, <4>1
      <4>3. PICK w \in V : e = <<w, to[w]>>
        BY <1>2, <3>3, <4>2
      <4> QED
        BY <1>4, <2>1, <4>1, <4>3
    <3>4. CASE r = p /\ e \notin mapped[p]
      <4>1. PICK v \in V : e = <<v, to[v]>>
        BY <1>2, <3>4
      <4>2. d \notin mapped[p]
        BY <1>3, <1>4, <1>9, <2>1, <4>1
      <4>3. PICK w \in V : d = <<w, to[w]>>
        BY <1>2, <3>4, <4>2
      <4> QED
        BY <1>4, <2>1, <4>1, <4>3
    <3> QED
      BY <3>1, <3>2, <3>3, <3>4
  <2> QED
    BY <2>1 DEF MappedOnce
<1>11. ForksCounted'
  <2>1. ASSUME NEW r \in Procs, pc'[r] = "fork", NEW e \in mapped'[r], IsPrivate(r, e[1])
        PROVE  cow'[e[2]] # 0
    <3>1. CASE e \in mapped[r]
      <4>1. e[2] \in Frames /\ e[2] \in used
        BY <1>9, <3>1
      <4>2. cow'[e[2]] = cow[e[2]]
        BY <1>3, <1>4, <1>6, <4>1
      <4>3. CASE r = p
        <5>1. e[1] \notin V \/ \E v \in V : e = <<v, to[v]>>
          BY <1>2, <2>1, <4>3
        <5>2. e[1] \notin V
          BY <1>3, <1>4, <4>1, <5>1
        <5> QED
          BY <1>5, <2>1, <3>1, <4>2, <4>3, <5>2
      <4>4. CASE r # p
        <5>1. pc[r] = "fork"
          BY <1>2, <2>1, <4>4
        <5> QED
          BY <2>1, <3>1, <4>2, <5>1 DEF CountsOK, ForksCounted
      <4> QED
        BY <4>3, <4>4
    <3>2. CASE e \notin mapped[r]
      <4>1. PICK v \in V : e = <<v, to[v]>>
        BY <1>2, <2>1, <3>2
      <4>2. cow[to[v]] = 0 /\ cow'[to[v]] = cow[to[v]] + 1
        BY <1>3, <1>4, <1>6, <1>7
      <4> QED
        BY <4>1, <4>2
    <3> QED
      BY <3>1, <3>2
  <2> QED
    BY <1>1, <2>1 DEF ForksCounted, IsPrivate
<1> QED
  BY <1>1, <1>8, <1>10, <1>11 DEF CountsOK

LEMMA ForkChildCounts ==
  ASSUME Structure, RoomForChildren, CountsOK, NEW p \in Procs, ForkChild(p), ~raced', ~uncounted'
  PROVE  CountsOK'
<1>1. PICK q, m :
           /\ q \in Procs /\ pc[p] = "fork" /\ pc[q] = "none" /\ mapped[q] = {}
           /\ Good(m) /\ m.list = mapped[p]
           /\ \A x \in Pages : m.table[x] # None => pt[p][x] # None
           /\ SetMemory(q, m) /\ areas' = [areas EXCEPT ![q] = areas[p]]
           /\ pc' = [pc EXCEPT ![p] = "user", ![q] = "user"]
           /\ cow' = Inherit(mapped[p])
           /\ uncounted' = (uncounted \/ \E e \in mapped[p] : ~IsPrivate(p, e[1]))
           /\ raced' = (raced \/ \E e \in mapped[p] : Tested(e[2]))
           /\ UNCHANGED <<drop, dropped, used, refreed>>
  BY ForkChildMemory
<1>2. /\ mapped'[q] = mapped[p] /\ \A r \in Procs : r # q => mapped'[r] = mapped[r]
      /\ \A r \in Procs : r # p /\ r # q => pc'[r] = pc[r] /\ areas'[r] = areas[r]
      /\ pc'[p] = "user" /\ pc'[q] = "user"
  BY <1>1 DEF SetMemory, Structure, TypeOK
<1>3. \A e \in mapped[p] : ~Tested(e[2]) /\ cow[e[2]] # 0
  BY <1>1 DEF CountsOK, ForksCounted
<1> DEFINE Has(g) == \E e \in mapped[p] : e[2] = g
<1>4. ASSUME NEW g \in Frames
      PROVE  cow'[g] = (IF Has(g) THEN cow[g] + 1 ELSE cow[g]) /\ cow[g] \in Int
  <2>1. cow'[g] = cow[g] + (IF Has(g) THEN 1 ELSE 0)
    BY <1>1 DEF Inherit
  <2>2. cow[g] \in Int
    BY DEF Structure, TypeOK
  <2> HIDE DEF Has
  <2> QED
    BY <2>1, <2>2
<1> HIDE DEF Has
<1>5. ASSUME NEW g \in Frames PROVE FrameCounted(g)'
  <2>1. FrameCounted(g)
    BY DEF CountsOK
  <2>2. PICK S : S = Users(g)'
    OBVIOUS
  <2>3. /\ S \subseteq Procs \X (0..NPages)
        /\ \A r \in Procs, x \in Pages : <<r, x>> \in S <=> <<x, g>> \in mapped'[r]
        /\ \A r \in Procs : <<r, 0>> \in S <=> drop[r] = g /\ ~dropped[r]
    BY <1>1, <2>2, UsersNext
  <2>4. Tested(g)' <=> Tested(g)
    BY <1>1 DEF Tested
  <2>5. IsFiniteSet(Users(g)) /\ Cardinality(Users(g)) \in Nat
    BY UsersAre, UsersFinite
  <2>6. CASE Has(g)
    <3>1. PICK e \in mapped[p] : e[2] = g
      BY <2>6 DEF Has
    <3>2. /\ e[1] \in Pages /\ e = <<e[1], g>> /\ <<p, e[1]>> \in Users(g) /\ g \in used
          /\ cow[g] # 0 /\ ~Tested(g)
      BY <1>3, <3>1, UsedIfMapped DEF Structure
    <3> DEFINE T == Users(g) \cup {<<q, e[1]>>}
    <3>3. ASSUME NEW r \in Procs, NEW x \in Pages \cup {0}, <<r, x>> \in S
          PROVE  <<r, x>> \in T
      <4>1. CASE x = 0
        BY <2>3, <3>3, <4>1, UsersAre
      <4>2. CASE x \in Pages /\ r # q
        BY <1>2, <2>3, <3>3, <4>2, UsersAre
      <4>3. CASE x \in Pages /\ r = q
        <5>1. <<x, g>> \in mapped[p]
          BY <1>2, <2>3, <3>3, <4>3
        <5>2. x = e[1]
          BY <3>1, <5>1 DEF CountsOK, MappedOnce
        <5> QED
          BY <4>3, <5>2
      <4> QED
        BY <4>1, <4>2, <4>3
    <3>4. IsFiniteSet(T) /\ Cardinality(T) <= Cardinality(Users(g)) + 1
      BY <2>5, Sizes
    <3> HIDE DEF T
    <3>5. S \subseteq T
      BY <2>3, <3>3, SameUsers
    <3>6. /\ Cardinality(S) \in Nat /\ Cardinality(T) \in Nat /\ Cardinality(S) <= Cardinality(T)
      BY <3>4, <3>5, Sizes
    <3>7. Cardinality(S) <= Cardinality(Users(g)) + 1
      BY <2>5, <3>4, <3>6
    <3>8. CountOK(cow[g], Cardinality(Users(g)))
      BY <2>1 DEF FrameCounted
    <3>9. CountOK(cow[g] + 1, Cardinality(S))
      BY <1>4, <2>5, <3>2, <3>6, <3>7, <3>8 DEF CountOK
    <3>10. cow'[g] = cow[g] + 1
      BY <1>4, <2>6
    <3>11. CountOK(cow[g], Cardinality(Users(g)))'
      BY <2>2, <3>9, <3>10 DEF CountOK
    <3>12. g \in used' /\ ~Tested(g)'
      BY <1>1, <2>4, <3>2
    <3> QED
      BY <1>1, <2>1, <3>11, <3>12 DEF FrameCounted
  <2>7. CASE ~Has(g)
    <3>1. ASSUME NEW r \in Procs, NEW x \in Pages \cup {0}, <<r, x>> \in S
          PROVE  <<r, x>> \in Users(g)
      <4>1. CASE x = 0
        BY <2>3, <3>1, <4>1, UsersAre
      <4>2. CASE x \in Pages
        <5>1. <<x, g>> \in mapped'[r]
          BY <2>3, <3>1, <4>2
        <5>2. r # q
          BY <1>2, <2>7, <5>1 DEF Has
        <5> QED
          BY <1>2, <4>2, <5>1, <5>2, UsersAre
      <4> QED
        BY <4>1, <4>2
    <3>2. S \subseteq Users(g)
      BY <2>3, <3>1, SameUsers
    <3>3. Cardinality(S) \in Nat /\ Cardinality(S) <= Cardinality(Users(g))
      BY <2>5, <3>2, Sizes
    <3>4. CountOK(cow[g], Cardinality(S))
      BY <1>4, <2>1, <2>5, <3>3, CountLess DEF FrameCounted
    <3>5. cow'[g] = cow[g]
      BY <1>4, <2>7
    <3>6. CountOK(cow[g], Cardinality(Users(g)))'
      BY <2>2, <3>4, <3>5 DEF CountOK
    <3>7. Users(g) = {} => Users(g)' = {}
      BY <2>2, <3>2
    <3> QED
      BY <1>1, <2>1, <2>4, <3>5, <3>6, <3>7 DEF FrameCounted
  <2> QED
    BY <2>6, <2>7
<1>6. MappedOnce'
  BY <1>1, <1>2 DEF CountsOK, MappedOnce
<1>7. ForksCounted'
  <2>1. ASSUME NEW r \in Procs, r # p, r # q, pc[r] = "fork", NEW e \in mapped[r],
               IsPrivate(r, e[1])
        PROVE  cow'[e[2]] # 0
    <3>1. PICK g : g = e[2]
      OBVIOUS
    <3>2. /\ cow[g] # 0 /\ g \in Frames /\ <<r, e[1]>> \in Users(g)
      BY <2>1, <3>1, UsedIfMapped DEF Structure, CountsOK, ForksCounted
    <3>3. CASE Has(g)
      <4>1. PICK d \in mapped[p] : d[2] = g
        BY <3>3 DEF Has
      <4>2. <<p, d[1]>> \in Users(g)
        BY <4>1, UsedIfMapped DEF Structure
      <4>3. IsFiniteSet(Users(g)) /\ Cardinality(Users(g)) \in Nat
        BY <3>2, UsersAre, UsersFinite
      <4>4. <<p, d[1]>> # <<r, e[1]>>
        BY <2>1
      <4>5. Cardinality(Users(g)) >= 2
        BY <3>2, <4>2, <4>3, <4>4, Sizes
      <4>6. CountOK(cow[g], Cardinality(Users(g)))
        BY <3>2 DEF CountsOK, FrameCounted
      <4>7. cow'[g] = cow[g] + 1 /\ cow[g] \in Int
        BY <1>4, <3>2, <3>3
      <4> QED
        BY <3>1, <3>2, <4>3, <4>5, <4>6, <4>7 DEF CountOK
    <3>4. CASE ~Has(g)
      BY <1>4, <3>1, <3>2, <3>4
    <3> QED
      BY <3>3, <3>4
  <2> QED
    BY <1>2, <2>1 DEF ForksCounted, IsPrivate
<1> QED
  BY <1>1, <1>5, <1>6, <1>7 DEF CountsOK

LEMMA QuietCounts ==
  ASSUME Structure, Structure', CountsOK, NEW p \in Procs,
         \/ \E start \in Pages, n \in Pages, kind \in Kinds : Mmap(p, start, n, kind)
         \/ \E start \in Pages, n \in Pages : Munmap(p, start, n)
         \/ \E v \in Pages, d \in Data : Write(p, v, d)
         \/ Exit(p) \/ Destroyed(p)
  PROVE  CountsOK'
<1>1. CASE \E start \in Pages, n \in Pages, kind \in Kinds : Mmap(p, start, n, kind)
  <2>1. /\ UNCHANGED <<pc, mapped, drop, dropped, cow, used, refreed>> /\ pc[p] = "user"
        /\ areas' = areas \/ \E new : areas' = [areas EXCEPT ![p] = new]
    BY <1>1 DEF Mmap, Runs, memory, history
  <2>2. \A r \in Procs : r # p => areas'[r] = areas[r]
    BY <2>1 DEF Structure, TypeOK
  <2> QED
    BY <2>1, <2>2, FewerUsers DEF Structure
<1>2. CASE \E start \in Pages, n \in Pages : Munmap(p, start, n)
  <2>1. PICK V : /\ SetMemory(p, pgunmap(Memory(p), V))
                 /\ UNCHANGED <<pc, areas, drop, dropped, cow, used, refreed>>
    BY <1>2 DEF Munmap, memory, history
  <2>2. pgunmap(Memory(p), V).list \subseteq mapped[p]
    BY DEF pgunmap, Memory
  <2>3. \A r \in Procs : mapped'[r] \subseteq mapped[r]
    BY <2>1, <2>2 DEF SetMemory, Structure, TypeOK
  <2> QED
    BY <2>1, <2>3, FewerUsers DEF Structure
<1>3. CASE (\E v \in Pages, d \in Data : Write(p, v, d)) \/ Exit(p) \/ Destroyed(p)
  <2>1. UNCHANGED <<mapped, drop, dropped, cow, used, refreed>>
    BY <1>3 DEF Write, Exit, Destroyed, proc, memory, history
  <2>2. \A r \in Procs : pc'[r] = "fork" => pc[r] = "fork" /\ areas'[r] = areas[r]
    BY <1>3 DEF Write, Exit, Destroyed, proc, Goto, Structure, TypeOK
  <2> QED
    BY <2>1, <2>2, FewerUsers DEF Structure
<1> QED
  BY <1>1, <1>2, <1>3

LEMMA CleanBefore ==
  ASSUME TypeOK, [Next]_vars, Clean'
  PROVE  Clean
<1>1. CASE UNCHANGED vars
  BY <1>1 DEF vars, history, Clean
<1>2. CASE Next
  <2>1. PICK p \in Procs :
    \/ \E start \in Pages, n \in Pages, kind \in Kinds : Mmap(p, start, n, kind)
    \/ \E start \in Pages, n \in Pages : Munmap(p, start, n)
    \/ \E v \in Pages, d \in Data : Write(p, v, d)
    \/ \E v \in Pages, f \in Frames : FaultNew(p, v, f)
    \/ \E v \in Pages, f, gone \in Frames : FaultCopy(p, v, f, gone)
    \/ Dec(p) \/ FreeIfLast(p)
    \/ \E V \in SUBSET Pages : \E to \in [V -> Free] : ForkCowMapping(p, to)
    \/ ForkChild(p) \/ Exit(p) \/ Destroyed(p)
    \/ \E e \in mapped[p] : DestroyPage(p, e)
    BY <1>2 DEF Next
  <2>2. CASE Dec(p)
    BY <2>2 DEF Dec, Clean
  <2>3. CASE ForkChild(p)
    BY <2>3 DEF ForkChild, Clean
  <2>4. CASE Exit(p) \/ Destroyed(p) \/ \E e \in mapped[p] : DestroyPage(p, e)
    <3>1. UNCHANGED history
      BY <2>4 DEF Exit, Destroyed, DestroyPage
    <3> QED
      BY <3>1 DEF history, Clean
  <2>5. CASE FreeIfLast(p) \/ \E V \in SUBSET Pages : \E to \in [V -> Free] : ForkCowMapping(p, to)
    <3>1. UNCHANGED <<raced, uncounted>>
      BY <2>5 DEF FreeIfLast, ForkCowMapping, history
    <3> QED
      BY <3>1 DEF Clean
  <2>6. CASE \/ \E start \in Pages, n \in Pages, kind \in Kinds : Mmap(p, start, n, kind)
             \/ \E start \in Pages, n \in Pages : Munmap(p, start, n)
    <3>1. UNCHANGED history
      BY <2>6 DEF Mmap, Munmap
    <3> QED
      BY <3>1 DEF history, Clean
  <2>7. CASE \/ \E v \in Pages, d \in Data : Write(p, v, d)
             \/ \E v \in Pages, f \in Frames : FaultNew(p, v, f)
             \/ \E v \in Pages, f, gone \in Frames : FaultCopy(p, v, f, gone)
    <3>1. UNCHANGED <<raced, uncounted>>
      BY <2>7 DEF Write, FaultNew, FaultCopy
    <3> QED
      BY <3>1 DEF Clean
  <2> QED
    BY <2>1, <2>2, <2>3, <2>4, <2>5, <2>6, <2>7
<1> QED
  BY <1>1, <1>2

-----------------------------------------------------------------------------
LEMMA VInvKept ==
  ASSUME VInv, [Next]_vars
  PROVE  VInv'
<1>1. Structure' /\ RoomForChildren'
  BY StructureKept DEF VInv
<1>2. ASSUME Clean' PROVE CountsOK'
  <2>1. Structure /\ RoomForChildren /\ CountsOK /\ ~raced' /\ ~uncounted'
    BY <1>2, CleanBefore DEF VInv, Structure, Clean
  <2>2. CASE UNCHANGED vars
    <3>1. UNCHANGED <<pc, areas, mapped, drop, dropped, cow, used, refreed>>
      BY <2>2 DEF vars, proc, memory, history
    <3> QED
      BY <1>1, <2>1, <3>1, FewerUsers DEF Structure
  <2>3. CASE Next
    <3>1. PICK p \in Procs :
      \/ \E start \in Pages, n \in Pages, kind \in Kinds : Mmap(p, start, n, kind)
      \/ \E start \in Pages, n \in Pages : Munmap(p, start, n)
      \/ \E v \in Pages, d \in Data : Write(p, v, d)
      \/ \E v \in Pages, f \in Frames : FaultNew(p, v, f)
      \/ \E v \in Pages, f, gone \in Frames : FaultCopy(p, v, f, gone)
      \/ Dec(p) \/ FreeIfLast(p)
      \/ \E V \in SUBSET Pages : \E to \in [V -> Free] : ForkCowMapping(p, to)
      \/ ForkChild(p) \/ Exit(p) \/ Destroyed(p)
      \/ \E e \in mapped[p] : DestroyPage(p, e)
      BY <2>3 DEF Next
    <3> QED
      BY <1>1, <2>1, <3>1, QuietCounts, FaultNewCounts, FaultCopyCounts, DecCounts, FreeCounts,
         ForkCowCounts, ForkChildCounts, DestroyCounts
  <2> QED
    BY <2>2, <2>3
<1> QED
  BY <1>1, <1>2 DEF VInv

LEMMA VInvInit ==
  ASSUME Init
  PROVE  VInv
<1>1. Structure /\ RoomForChildren
  BY StructureInit
<1>2. CountsOK
  <2>1. ASSUME NEW f \in Frames PROVE FrameCounted(f)
    <3>1. Users(f) = {}
      BY VmAssumption DEF Init, Users
    <3>2. cow[f] = 0 /\ ~Tested(f)
      BY DEF Init, Tested
    <3>3. CountOK(0, 0)
      BY DEF CountOK
    <3> QED
      BY <3>1, <3>2, <3>3, FS_EmptySet DEF Init, FrameCounted
  <2>2. MappedOnce /\ ForksCounted /\ ~refreed
    BY DEF Init, MappedOnce, ForksCounted
  <2> QED
    BY <2>1, <2>2 DEF CountsOK
<1> QED
  BY <1>1, <1>2 DEF VInv

(* No frame is freed while a process maps it, and none twice, unless a     *)
(* count was changed between its decrement and its test, or a fork has     *)
(* shared a page that is not private and writable.                         *)
THEOREM NoFreedFrameMapped == Spec => []NoFreedMapped
<1>1. Init => VInv
  BY VInvInit
<1>2. VInv /\ [Next]_vars => VInv'
  BY VInvKept
<1>3. ASSUME VInv PROVE NoFreedMapped
  <2>1. ASSUME Clean PROVE ~refreed
    BY <1>3, <2>1 DEF VInv, CountsOK
  <2>2. ASSUME Clean, NEW p \in Procs, pc[p] \in {"user", "fork", "drop"}, NEW v \in Mapped(p)
        PROVE  pt[p][v].pa \in used
    <3>1. <<v, pt[p][v].pa>> \in mapped[p]
      BY <1>3, <2>2 DEF VInv, Structure, TablesOK, InTable, Mapped
    <3> QED
      BY <1>3, <2>2, <3>1, UsedIfMapped DEF VInv, Structure
  <2> QED
    BY <2>1, <2>2 DEF NoFreedMapped, Clean
<1> QED
  BY <1>1, <1>2, <1>3, PTL DEF Spec
=============================================================================
