----------------------------- MODULE SlabProofs -----------------------------
(* Small blocks are given out once and none is lost, for any number of CPUs, *)
(* pages and size classes and any number of blocks in a page; kalloc and     *)
(* kfree implement the abstract allocator; and the page locks do not         *)
(* deadlock.                                                                 *)
EXTENDS Slab, FiniteSetTheorems, WellFoundedInduction, TLAPS

-----------------------------------------------------------------------------
(* The inductive invariant. *)

SlabType ==
  /\ use \in [Pages -> {<<"free">>, <<"whole">>} \cup Boot]
  /\ word \in [Pages -> BOOLEAN]
  /\ next \in [Pages -> Pages \cup {None}]
  /\ list \in [Pages -> Seq(Nat)]
  /\ count \in [Pages -> Int]
  /\ area \in [Cpus -> [Classes -> Pages]]
  /\ live \subseteq Places
  /\ pc \in [Cpus -> {"idle", "search", "look", "take", "unlock", "wait", "push", "link", "open"}]
  /\ class \in [Cpus -> Classes \cup {None}]
  /\ page \in [Cpus -> Pages \cup {None}]
  /\ block \in [Cpus -> Places \cup {None}]
  /\ seen \in [Cpus -> Seq(Nat)]

IsSlab(p) == use[p] \in Boot

(* A list of pages belongs to one CPU and class, and so does its head. *)
ListsOwned ==
  /\ \A p \in Pages : IsSlab(p) /\ next[p] # None => use[next[p]] = use[p]
  /\ \A c \in Cpus, k \in Classes : use[area[c][k]] = <<c, k>>

(* What a CPU knows in a call, by how far it is. *)
AtOwnPage(c) == page[c] \in Pages /\ class[c] \in Classes /\ use[page[c]] = <<c, class[c]>>
CallOK(c) ==
  /\ pc[c] = "search" => class[c] \in Classes /\ (page[c] # None => AtOwnPage(c))
  /\ pc[c] \in {"look", "take", "unlock"} => AtOwnPage(c)
  /\ pc[c] \in {"unlock", "wait", "push", "link", "open"} =>
       block[c] \in Places /\ page[c] = block[c][1] /\ IsSlab(page[c])
  /\ pc[c] = "take" =>
       seen[c] = list[page[c]] /\ seen[c] # <<>> /\ block[c] = <<page[c], Head(seen[c])>>
  /\ pc[c] = "link" => seen[c] = list[page[c]]

(* Who is inside a page has locked it, and is alone there.  A lock word     *)
(* nobody has set is zero, if owners of whole pages leave zero behind.      *)
LocksHeld ==
  /\ \A c \in Cpus : Inside(c) => word[page[c]]
  /\ \A c, d \in Cpus : c # d /\ Inside(c) /\ Inside(d) => page[c] # page[d]
  /\ FirstWords \subseteq {FALSE} =>
       \A p \in Pages : word[p] => \E c \in Cpus : Inside(c) /\ page[c] = p

(* Blocks in the hands of CPUs and callers are blocks of slab pages, and    *)
(* no two CPUs have the same.                                               *)
NumbersOf(p) == 1 .. Count[use[p][2]]
Valid(b) == b \in Places /\ IsSlab(b[1]) /\ b[2] \in NumbersOf(b[1])
HandsOK ==
  /\ \A c \in Cpus : InHand(c) => Valid(block[c])
  /\ \A c, d \in Cpus : c # d /\ InHand(c) /\ InHand(d) => block[c] # block[d]
  /\ \A b \in live : Valid(b)

(* Where block i of page p is. *)
InList(p, i)  == i \in ToSet(list[p])
OnWay(p, i)   == \E c \in Cpus : InHand(c) /\ block[c] = <<p, i>>
InUse(p, i)   == <<p, i>> \in live
Dropped(p, i) == next[p] = None /\ i = Count[use[p][2]]

ExactlyOne(p, i) ==
  /\ InList(p, i) \/ OnWay(p, i) \/ InUse(p, i) \/ Dropped(p, i)
  /\ ~(InList(p, i) /\ OnWay(p, i))
  /\ ~(InList(p, i) /\ InUse(p, i))
  /\ ~(OnWay(p, i) /\ InUse(p, i))
  /\ Dropped(p, i) => ~InList(p, i) /\ ~OnWay(p, i) /\ ~InUse(p, i)

ListOK(p) ==
  /\ list[p] \in Seq(NumbersOf(p))
  /\ IsInjective(list[p])
  /\ count[p] = Len(list[p])

BlocksOK ==
  \A p \in Pages :
    /\ IsSlab(p) => ListOK(p) /\ \A i \in NumbersOf(p) : ExactlyOne(p, i)
    /\ ~IsSlab(p) => list[p] = <<>> /\ count[p] = 0

SlabInv ==
  /\ SlabType
  /\ ListsOwned
  /\ \A c \in Cpus : CallOK(c)
  /\ LocksHeld
  /\ HandsOK
  /\ BlocksOK

-----------------------------------------------------------------------------
(* Free lists. *)

LEMMA KindsDiffer == <<"free">> # <<"whole">> /\ <<"free">> \notin Boot /\ <<"whole">> \notin Boot
<1>1. ASSUME NEW x, x \in Boot PROVE Len(x) = 2
  BY <1>1 DEF Boot
<1>2. Len(<<"free">>) = 1 /\ Len(<<"whole">>) = 1
  OBVIOUS
<1>3. <<"free">>[1] = "free" /\ <<"whole">>[1] = "whole"
  OBVIOUS
<1> QED BY <1>1, <1>2, <1>3

LEMMA NumbersAreNat ==
  ASSUME NEW n \in Nat, NEW s \in Seq(1 .. n)
  PROVE  s \in Seq(Nat)
<1>1. Len(s) \in Nat /\ s = [i \in 1 .. Len(s) |-> s[i]] /\ \A i \in 1 .. Len(s) : s[i] \in 1 .. n
  OBVIOUS
<1>2. \A i \in 1 .. Len(s) : s[i] \in Nat
  BY <1>1
<1>3. [i \in 1 .. Len(s) |-> s[i]] \in Seq(Nat)
  BY <1>1, <1>2
<1> QED BY <1>1, <1>3

(* Taking the first block off a list without repetitions. *)
LEMMA ListTail ==
  ASSUME NEW S, NEW s \in Seq(S), s # <<>>, IsInjective(s)
  PROVE  /\ Tail(s) \in Seq(S) /\ Len(Tail(s)) = Len(s) - 1 /\ Len(s) > 0
         /\ IsInjective(Tail(s))
         /\ Head(s) \in S /\ Head(s) \in ToSet(s)
         /\ \A x : x \in ToSet(Tail(s)) <=> x \in ToSet(s) /\ x # Head(s)
<1>1. /\ Tail(s) \in Seq(S) /\ Len(Tail(s)) = Len(s) - 1 /\ Len(s) > 0
      /\ Head(s) = s[1] /\ Len(s) \in Nat /\ DOMAIN s = 1 .. Len(s)
      /\ DOMAIN Tail(s) = 1 .. Len(s) - 1
  OBVIOUS
<1>2. \A i \in 1 .. Len(s) - 1 : Tail(s)[i] = s[i + 1]
  OBVIOUS
<1>3. IsInjective(Tail(s))
  BY <1>1, <1>2 DEF IsInjective
<1>4. Head(s) \in S /\ Head(s) \in ToSet(s)
  BY <1>1 DEF ToSet
<1>5. ASSUME NEW x PROVE x \in ToSet(Tail(s)) <=> x \in ToSet(s) /\ x # Head(s)
  <2>1. ASSUME x \in ToSet(Tail(s)) PROVE x \in ToSet(s) /\ x # Head(s)
    <3>1. PICK i \in 1 .. Len(s) - 1 : x = Tail(s)[i]
      BY <2>1, <1>1 DEF ToSet
    <3>2. x = s[i + 1] /\ i + 1 \in 1 .. Len(s) /\ i + 1 # 1 /\ 1 \in 1 .. Len(s)
      BY <3>1, <1>1, <1>2
    <3> QED BY <3>2, <1>1 DEF ToSet, IsInjective
  <2>2. ASSUME x \in ToSet(s), x # Head(s) PROVE x \in ToSet(Tail(s))
    <3>1. PICK i \in 1 .. Len(s) : x = s[i]
      BY <2>2, <1>1 DEF ToSet
    <3>2. i # 1
      BY <3>1, <2>2, <1>1
    <3>3. i - 1 \in 1 .. Len(s) - 1 /\ Tail(s)[i - 1] = s[i]
      BY <3>2, <1>1, <1>2
    <3> QED BY <3>1, <3>3, <1>1 DEF ToSet
  <2> QED BY <2>1, <2>2
<1> QED BY <1>1, <1>3, <1>4, <1>5

(* Linking a block in at the head. *)
LEMMA ListPush ==
  ASSUME NEW S, NEW s \in Seq(S), IsInjective(s), NEW n \in S, n \notin ToSet(s)
  PROVE  /\ <<n>> \o s \in Seq(S) /\ Len(<<n>> \o s) = Len(s) + 1
         /\ IsInjective(<<n>> \o s)
         /\ \A x : x \in ToSet(<<n>> \o s) <=> x \in ToSet(s) \/ x = n
<1> DEFINE t == <<n>> \o s
<1>1. t \in Seq(S) /\ Len(t) = Len(s) + 1 /\ Len(s) \in Nat
  OBVIOUS
<1>2. DOMAIN s = 1 .. Len(s) /\ DOMAIN t = 1 .. Len(s) + 1
  BY <1>1
<1>3. t[1] = n /\ \A i \in 1 .. Len(s) : t[i + 1] = s[i]
  OBVIOUS
<1>4. \A i \in 1 .. Len(s) + 1 : i = 1 \/ (i - 1 \in 1 .. Len(s) /\ t[i] = s[i - 1])
  BY <1>1, <1>3
<1>5. \A i \in 1 .. Len(s) : s[i] # n
  BY <1>2 DEF ToSet
<1> HIDE DEF t
<1>6. ASSUME NEW i \in DOMAIN t, NEW j \in DOMAIN t, t[i] = t[j] PROVE i = j
  <2>1. i \in 1 .. Len(s) + 1 /\ j \in 1 .. Len(s) + 1
    BY <1>2
  <2>2. CASE i = 1 \/ j = 1
    BY <1>3, <1>4, <1>5, <1>6, <2>1, <2>2
  <2>3. CASE i # 1 /\ j # 1
    <3>1. i - 1 \in 1 .. Len(s) /\ j - 1 \in 1 .. Len(s) /\ s[i - 1] = s[j - 1]
      BY <1>4, <1>6, <2>1, <2>3
    <3>2. i - 1 = j - 1
      BY <3>1, <1>2 DEF IsInjective
    <3> QED BY <3>2, <2>1
  <2> QED BY <2>2, <2>3
<1>7. ASSUME NEW x PROVE x \in ToSet(t) <=> x \in ToSet(s) \/ x = n
  <2>1. ASSUME x \in ToSet(t) PROVE x \in ToSet(s) \/ x = n
    <3>1. PICK i \in 1 .. Len(s) + 1 : x = t[i]
      BY <2>1, <1>2 DEF ToSet
    <3> QED BY <3>1, <1>2, <1>3, <1>4 DEF ToSet
  <2>2. ASSUME x \in ToSet(s) PROVE x \in ToSet(t)
    <3>1. PICK i \in 1 .. Len(s) : x = s[i]
      BY <2>2, <1>2 DEF ToSet
    <3>2. i + 1 \in 1 .. Len(s) + 1 /\ t[i + 1] = x
      BY <3>1, <1>1, <1>3
    <3> QED BY <3>2, <1>2 DEF ToSet
  <2>3. n \in ToSet(t)
    <3>1. 1 \in 1 .. Len(s) + 1
      BY <1>1
    <3> QED BY <3>1, <1>2, <1>3 DEF ToSet
  <2> QED BY <2>1, <2>2, <2>3
<1>8. IsInjective(t)
  BY <1>6 DEF IsInjective
<1>9. t = <<n>> \o s
  BY DEF t
<1> QED BY <1>1, <1>7, <1>8, <1>9

(* The list of a new page has every block once, the last one first. *)
LEMMA ListNew ==
  ASSUME NEW k \in Classes
  PROVE  /\ NewList(k) \in Seq(1 .. Count[k]) /\ NewList(k) # <<>>
         /\ Len(NewList(k)) = Count[k] /\ Head(NewList(k)) = Count[k]
         /\ IsInjective(NewList(k))
         /\ \A x : x \in ToSet(NewList(k)) <=> x \in 1 .. Count[k]
<1> DEFINE n == Count[k]
           s == NewList(k)
<1>1. n \in Nat \ {0}
  BY CountAssumption
<1>2. s = [i \in 1 .. n |-> n + 1 - i]
  BY DEF NewList
<1> HIDE DEF n, s
<1>3. \A i \in 1 .. n : n + 1 - i \in 1 .. n
  BY <1>1
<1>4. s \in Seq(1 .. n) /\ Len(s) = n /\ DOMAIN s = 1 .. n /\ s # <<>>
  BY <1>1, <1>2, <1>3
<1>5. Head(s) = n
  BY <1>1, <1>2, <1>4
<1>6. IsInjective(s)
  BY <1>1, <1>2 DEF IsInjective
<1>7. ASSUME NEW x PROVE x \in ToSet(s) <=> x \in 1 .. n
  <2>1. x \in ToSet(s) => x \in 1 .. n
    BY <1>2, <1>3 DEF ToSet
  <2>2. ASSUME x \in 1 .. n PROVE x \in ToSet(s)
    <3>1. n + 1 - x \in 1 .. n /\ s[n + 1 - x] = x
      BY <1>1, <1>2, <2>2
    <3> QED BY <3>1, <1>4 DEF ToSet
  <2> QED BY <2>1, <2>2
<1> QED BY <1>4, <1>5, <1>6, <1>7 DEF n, s

-----------------------------------------------------------------------------
(* The initial state. *)

LEMMA SlabInit == Init => SlabInv
<1> SUFFICES ASSUME Init PROVE SlabInv
    OBVIOUS
<1> PICK give \in [Boot -> Pages] :
      /\ IsInjective(give)
      /\ use = [p \in Pages |->
           IF \E b \in Boot : give[b] = p THEN CHOOSE b \in Boot : give[b] = p ELSE <<"free">>]
      /\ area = [c \in Cpus |-> [k \in Classes |-> give[<<c, k>>]]]
  BY DEF Init
<1>1. /\ \A b \in Boot : use[give[b]] = b
      /\ \A p \in Pages : IsSlab(p) => use[p] \in Boot /\ give[use[p]] = p
      /\ \A p \in Pages : ~IsSlab(p) => use[p] = <<"free">>
  <2>1. \A b, d \in Boot : give[b] = give[d] => b = d
    BY DEF IsInjective
  <2>2. ASSUME NEW b \in Boot PROVE use[give[b]] = b
    BY <2>1
  <2>3. ASSUME NEW p \in Pages
        PROVE  IF \E b \in Boot : give[b] = p
               THEN use[p] \in Boot /\ give[use[p]] = p ELSE use[p] = <<"free">>
    OBVIOUS
  <2> QED BY <2>2, <2>3, KindsDiffer DEF IsSlab
<1>2. \A p \in Pages : IsSlab(p) =>
         /\ use[p][2] \in Classes
         /\ list[p] = Tail(NewList(use[p][2]))
  BY DEF Init, IsSlab, Boot
<1>3. \A p \in Pages : ~IsSlab(p) => list[p] = <<>>
  BY DEF Init, IsSlab
<1>4. ASSUME NEW p \in Pages, IsSlab(p)
      PROVE  /\ ListOK(p) /\ count[p] \in Int
             /\ \A i \in NumbersOf(p) : InList(p, i) <=> i # Count[use[p][2]]
  <2> DEFINE k == use[p][2]
  <2>1. k \in Classes /\ list[p] = Tail(NewList(k)) /\ Count[k] \in Nat
    BY <1>2, <1>4, CountAssumption
  <2> HIDE DEF k
  <2>2. /\ NewList(k) \in Seq(1 .. Count[k]) /\ NewList(k) # <<>> /\ IsInjective(NewList(k))
        /\ Head(NewList(k)) = Count[k]
        /\ \A x : x \in ToSet(NewList(k)) <=> x \in 1 .. Count[k]
    BY <2>1, ListNew
  <2>3. /\ list[p] \in Seq(1 .. Count[k]) /\ IsInjective(list[p])
        /\ \A x : x \in ToSet(list[p]) <=> x \in ToSet(NewList(k)) /\ x # Count[k]
    BY <2>1, <2>2, ListTail
  <2>4. count[p] = Len(list[p]) /\ Len(list[p]) \in Int
    BY <2>3 DEF Init
  <2> QED BY <2>2, <2>3, <2>4 DEF k, ListOK, NumbersOf, InList
<1>5. \A p \in Pages : list[p] \in Seq(Nat) /\ count[p] \in Int
  <2> SUFFICES ASSUME NEW p \in Pages PROVE list[p] \in Seq(Nat) /\ count[p] \in Int
      OBVIOUS
  <2>1. CASE IsSlab(p)
    <3>1. list[p] \in Seq(1 .. Count[use[p][2]]) /\ count[p] \in Int
      BY <1>4, <2>1 DEF ListOK, NumbersOf
    <3>2. Count[use[p][2]] \in Nat
      BY <1>2, <2>1, CountAssumption
    <3> QED BY <3>1, <3>2, NumbersAreNat
  <2>2. CASE ~IsSlab(p)
    <3>1. list[p] = <<>> /\ count[p] = Len(list[p])
      BY <1>3, <2>2 DEF Init
    <3>2. <<>> \in Seq(Nat) /\ Len(<<>>) = 0
      OBVIOUS
    <3> QED BY <3>1, <3>2
  <2> QED BY <2>1, <2>2
<1>6. SlabType
  <2>1. list \in [Pages -> Seq(Nat)] /\ count \in [Pages -> Int]
    BY <1>5 DEF Init
  <2>2. use \in [Pages -> {<<"free">>, <<"whole">>} \cup Boot]
    <3>1. \A p \in Pages : use[p] \in {<<"free">>, <<"whole">>} \cup Boot
      BY <1>1
    <3> QED BY <3>1
  <2>3. area \in [Cpus -> [Classes -> Pages]]
    BY DEF Boot
  <2>4. seen \in [Cpus -> Seq(Nat)]
    <3>1. <<>> \in Seq(Nat)
      OBVIOUS
    <3> QED BY <3>1 DEF Init
  <2>5. /\ word \in [Pages -> BOOLEAN] /\ next \in [Pages -> Pages \cup {None}]
        /\ live \subseteq Places /\ class \in [Cpus -> Classes \cup {None}]
        /\ page \in [Cpus -> Pages \cup {None}] /\ block \in [Cpus -> Places \cup {None}]
        /\ \A c \in Cpus : pc[c] = "idle"
        /\ pc = [c \in Cpus |-> "idle"]
    BY DEF Init
  <2> QED BY <2>1, <2>2, <2>3, <2>4, <2>5 DEF SlabType
<1>7. ListsOwned
  <2>1. \A c \in Cpus, k \in Classes : <<c, k>> \in Boot
    BY DEF Boot
  <2>2. \A c \in Cpus, k \in Classes : use[area[c][k]] = <<c, k>>
    BY <1>1, <2>1
  <2>3. \A p \in Pages : next[p] = None
    BY DEF Init
  <2> QED BY <2>2, <2>3 DEF ListsOwned
<1>8. \A c \in Cpus : CallOK(c) /\ ~Inside(c) /\ ~InHand(c)
  BY DEF Init, CallOK, Inside, InHand
<1>9. LocksHeld /\ HandsOK
  BY <1>8 DEF Init, LocksHeld, HandsOK
<1>10. BlocksOK
  <2>1. \A p \in Pages : \A i : ~OnWay(p, i) /\ ~InUse(p, i)
    BY <1>8 DEF Init, OnWay, InUse
  <2>2. \A p \in Pages : \A i : Dropped(p, i) <=> i = Count[use[p][2]]
    BY DEF Init, Dropped
  <2>3. \A p \in Pages : ~IsSlab(p) => list[p] = <<>> /\ count[p] = 0
    BY <1>3 DEF Init
  <2> QED BY <1>4, <2>1, <2>2, <2>3 DEF BlocksOK, ExactlyOne
<1> QED BY <1>6, <1>7, <1>8, <1>9, <1>10 DEF SlabInv

-----------------------------------------------------------------------------
(* What a step leaves alone. *)

LEMMA OthersFrame ==
  ASSUME SlabInv, NEW c \in Cpus, NEW d \in Cpus \ {c},
         pc'[d] = pc[d], class'[d] = class[d], page'[d] = page[d],
         block'[d] = block[d], seen'[d] = seen[d],
         \A p \in Pages : IsSlab(p) => use'[p] = use[p],
         Inside(d) => list'[page[d]] = list[page[d]]
  PROVE  CallOK(d)'
<1>1. CallOK(d) /\ SlabType
  BY DEF SlabInv
<1>2. \A k \in Classes : <<d, k>> \in Boot
  BY DEF Boot
<1>3. AtOwnPage(d) => AtOwnPage(d)'
  BY <1>1, <1>2 DEF AtOwnPage, IsSlab
<1>4. pc[d] \in {"unlock", "wait", "push", "link", "open"} => IsSlab(page[d])'
  BY <1>1 DEF CallOK, IsSlab, SlabType, Places
<1> QED BY <1>1, <1>3, <1>4 DEF CallOK, Inside

LEMMA ListsFrame ==
  ASSUME SlabInv, UNCHANGED heap
  PROVE  ListsOwned'
BY DEF SlabInv, ListsOwned, IsSlab, heap

LEMMA LocksFrame ==
  ASSUME SlabInv, UNCHANGED word,
         \A d \in Cpus : (Inside(d)' <=> Inside(d)) /\ (Inside(d) => page'[d] = page[d])
  PROVE  LocksHeld'
BY DEF SlabInv, LocksHeld

LEMMA BlocksFrame ==
  ASSUME SlabInv, UNCHANGED <<use, next, blocks>>,
         \A d \in Cpus : (InHand(d)' <=> InHand(d)) /\ (InHand(d) => block'[d] = block[d])
  PROVE  HandsOK' /\ BlocksOK'
<1>1. HandsOK'
  BY DEF SlabInv, HandsOK, Valid, IsSlab, NumbersOf, blocks
<1>2. \A p, i : /\ InList(p, i)' <=> InList(p, i)
                /\ OnWay(p, i)' <=> OnWay(p, i)
                /\ InUse(p, i)' <=> InUse(p, i)
                /\ Dropped(p, i)' <=> Dropped(p, i)
  BY DEF InList, OnWay, InUse, Dropped, blocks
<1>3. \A p : (IsSlab(p)' <=> IsSlab(p)) /\ (ListOK(p)' <=> ListOK(p)) /\ NumbersOf(p)' = NumbersOf(p)
  BY DEF IsSlab, ListOK, NumbersOf, blocks
<1> QED BY <1>1, <1>2, <1>3 DEF SlabInv, BlocksOK, ExactlyOne, blocks

(* One block changes its place, the others do not. *)
LEMMA BlockMoves ==
  ASSUME SlabInv, UNCHANGED <<use, next>>, NEW b, Valid(b),
         \A p \in Pages : \A i : <<p, i>> # b =>
           /\ InList(p, i)' <=> InList(p, i)
           /\ OnWay(p, i)' <=> OnWay(p, i)
           /\ InUse(p, i)' <=> InUse(p, i),
         ExactlyOne(b[1], b[2])',
         \A p \in Pages : IsSlab(p) => ListOK(p)',
         \A p \in Pages : ~IsSlab(p) => list'[p] = list[p] /\ count'[p] = count[p]
  PROVE  BlocksOK'
<1>1. \A p : (IsSlab(p)' <=> IsSlab(p)) /\ NumbersOf(p)' = NumbersOf(p)
  BY DEF IsSlab, NumbersOf
<1>2. \A p, i : Dropped(p, i)' <=> Dropped(p, i)
  BY DEF Dropped
<1>3. b = <<b[1], b[2]>>
  BY DEF Valid, Places
<1>4. ASSUME NEW p \in Pages, NEW i \in NumbersOf(p), IsSlab(p)
      PROVE  ExactlyOne(p, i)'
  <2>1. CASE <<p, i>> = b
    <3>1. p = b[1] /\ i = b[2]
      BY <2>1
    <3> QED BY <3>1
  <2>2. CASE <<p, i>> # b
    <3>1. ExactlyOne(p, i)
      BY <1>4 DEF SlabInv, BlocksOK
    <3>2. /\ InList(p, i)' <=> InList(p, i)
          /\ OnWay(p, i)' <=> OnWay(p, i)
          /\ InUse(p, i)' <=> InUse(p, i)
      BY <2>2 DEF InList, OnWay, InHand, InUse
    <3>3. Dropped(p, i)' <=> Dropped(p, i)
      BY <1>2 DEF Dropped
    <3> QED BY <3>1, <3>2, <3>3 DEF ExactlyOne
  <2> QED BY <2>1, <2>2
<1>5. \A p \in Pages : ~IsSlab(p) => list'[p] = <<>> /\ count'[p] = 0
  BY DEF SlabInv, BlocksOK
<1> QED BY <1>1, <1>4, <1>5 DEF BlocksOK

(* A CPU that finds the page it is at locked or unlocks it. *)
LEMMA LocksChange ==
  ASSUME SlabInv, NEW c \in Cpus, page[c] \in Pages,
         \A d \in Cpus \ {c} : (Inside(d)' <=> Inside(d)) /\ page'[d] = page[d],
         \/ /\ ~word[page[c]] /\ word' = [word EXCEPT ![page[c]] = TRUE]
            /\ ~Inside(c) /\ Inside(c)' /\ page'[c] = page[c]
         \/ /\ word' = [word EXCEPT ![page[c]] = FALSE]
            /\ Inside(c) /\ ~Inside(c)'
  PROVE  LocksHeld'
<1>1. LocksHeld /\ word \in [Pages -> BOOLEAN] /\ page \in [Cpus -> Pages \cup {None}]
  BY DEF SlabInv, SlabType
<1>2. CASE /\ ~word[page[c]] /\ word' = [word EXCEPT ![page[c]] = TRUE]
           /\ ~Inside(c) /\ Inside(c)' /\ page'[c] = page[c]
  <2>1. \A d \in Cpus : page'[d] = page[d] /\ (Inside(d)' <=> Inside(d) \/ d = c)
    BY <1>2 DEF Inside
  <2>2. \A d \in Cpus : Inside(d) => page[d] # page[c]
    BY <1>1, <1>2 DEF LocksHeld
  <2>3. \A d \in Cpus : Inside(d)' => word'[page'[d]]
    BY <1>1, <1>2, <2>1 DEF LocksHeld
  <2>4. \A d, e \in Cpus : d # e /\ Inside(d)' /\ Inside(e)' => page'[d] # page'[e]
    BY <1>1, <2>1, <2>2 DEF LocksHeld
  <2>5. ASSUME FirstWords \subseteq {FALSE}, NEW p \in Pages, word'[p]
        PROVE  \E d \in Cpus : Inside(d)' /\ page'[d] = p
    BY <1>1, <1>2, <2>1, <2>5 DEF LocksHeld
  <2> QED BY <2>3, <2>4, <2>5 DEF LocksHeld
<1>3. CASE /\ word' = [word EXCEPT ![page[c]] = FALSE]
           /\ Inside(c) /\ ~Inside(c)'
  <2>1. \A d \in Cpus : Inside(d)' => d # c /\ Inside(d) /\ page'[d] = page[d]
    BY <1>3 DEF Inside
  <2>2. \A d \in Cpus : Inside(d) /\ d # c => Inside(d)' /\ page'[d] = page[d]
    BY <1>3 DEF Inside
  <2>3. \A d \in Cpus : Inside(d)' => word'[page'[d]]
    BY <1>1, <1>3, <2>1 DEF LocksHeld
  <2>4. \A d, e \in Cpus : d # e /\ Inside(d)' /\ Inside(e)' => page'[d] # page'[e]
    BY <1>1, <2>1 DEF LocksHeld
  <2>5. ASSUME FirstWords \subseteq {FALSE}, NEW p \in Pages, word'[p]
        PROVE  \E d \in Cpus : Inside(d)' /\ page'[d] = p
    BY <1>1, <1>3, <2>2, <2>5 DEF LocksHeld
  <2> QED BY <2>3, <2>4, <2>5 DEF LocksHeld
<1> QED BY <1>2, <1>3

LEMMA OnePlace ==
  ASSUME SlabInv, NEW b, Valid(b)
  PROVE  /\ ExactlyOne(b[1], b[2]) /\ ListOK(b[1]) /\ b[1] \in Pages /\ IsSlab(b[1])
         /\ b = <<b[1], b[2]>> /\ b[2] \in NumbersOf(b[1])
BY DEF SlabInv, BlocksOK, Valid, Places

-----------------------------------------------------------------------------
(* Allocation. *)

LEMMA OwnPage ==
  ASSUME SlabInv, NEW c \in Cpus,
         pc[c] \in {"look", "take", "unlock"} \/ (pc[c] = "search" /\ page[c] # None)
  PROVE  AtOwnPage(c) /\ page[c] \in Pages /\ IsSlab(page[c])
<1>1. AtOwnPage(c)
  BY DEF SlabInv, CallOK
<1> QED BY <1>1 DEF AtOwnPage, IsSlab, Boot

LEMMA AllocKeeps ==
  ASSUME SlabInv, NEW c \in Cpus, NEW k \in Classes, slab_alloc(c, k)
  PROVE  SlabInv'
<1>1. SlabType'
  BY DEF SlabInv, slab_alloc, SlabType, Goto, heap, blocks
<1>2. ListsOwned'
  BY ListsFrame DEF slab_alloc
<1>3. CallOK(c)'
  BY DEF SlabInv, ListsOwned, SlabType, slab_alloc, CallOK, AtOwnPage, Goto, heap
<1>4. ASSUME NEW d \in Cpus \ {c} PROVE CallOK(d)'
  BY OthersFrame DEF SlabInv, SlabType, slab_alloc, Goto, heap, blocks
<1>5. LocksHeld'
  BY LocksFrame DEF SlabInv, SlabType, slab_alloc, Inside, Goto
<1>6. HandsOK' /\ BlocksOK'
  BY BlocksFrame DEF SlabInv, SlabType, slab_alloc, InHand, Goto, heap
<1> QED BY <1>1, <1>2, <1>3, <1>4, <1>5, <1>6 DEF SlabInv

LEMMA LockKeeps ==
  ASSUME SlabInv, NEW c \in Cpus, LockPage(c)
  PROVE  SlabInv'
<1>1. SlabType'
  BY DEF SlabInv, LockPage, SlabType, Goto, heap, blocks
<1>2. ListsOwned'
  BY ListsFrame DEF LockPage
<1>3. CallOK(c)'
  BY DEF SlabInv, SlabType, LockPage, CallOK, AtOwnPage, IsSlab, Goto, heap, blocks
<1>4. ASSUME NEW d \in Cpus \ {c} PROVE CallOK(d)'
  BY OthersFrame DEF SlabInv, SlabType, LockPage, Goto, heap, blocks
<1>5. LocksHeld'
  <2>1. /\ page[c] \in Pages /\ ~word[page[c]] /\ word' = [word EXCEPT ![page[c]] = TRUE]
        /\ page' = page /\ pc[c] \in {"search", "wait"} /\ pc'[c] \in {"look", "push"}
        /\ \A d \in Cpus \ {c} : pc'[d] = pc[d]
    BY DEF SlabInv, SlabType, LockPage, CanLock, Goto
  <2> QED BY <2>1, LocksChange DEF Inside
<1>6. HandsOK' /\ BlocksOK'
  BY BlocksFrame DEF SlabInv, SlabType, LockPage, InHand, Goto, heap
<1> QED BY <1>1, <1>2, <1>3, <1>4, <1>5, <1>6 DEF SlabInv

LEMMA PassKeeps ==
  ASSUME SlabInv, NEW c \in Cpus, PassPage(c)
  PROVE  SlabInv'
<1>0. AtOwnPage(c) /\ page[c] \in Pages /\ IsSlab(page[c])
  BY OwnPage DEF PassPage
<1>1. SlabType'
  BY <1>0 DEF SlabInv, PassPage, SlabType, Goto, heap, blocks
<1>2. ListsOwned'
  BY ListsFrame DEF PassPage
<1>3. CallOK(c)'
  BY <1>0 DEF SlabInv, SlabType, ListsOwned, PassPage, CallOK, AtOwnPage, Goto, heap
<1>4. ASSUME NEW d \in Cpus \ {c} PROVE CallOK(d)'
  BY OthersFrame DEF SlabInv, SlabType, PassPage, Goto, heap, blocks
<1>5. LocksHeld'
  <2>1. /\ page[c] \in Pages /\ pc[c] = "look" /\ pc'[c] = "search"
        /\ \A d \in Cpus \ {c} : pc'[d] = pc[d] /\ page'[d] = page[d]
        /\ word' = [word EXCEPT ![page[c]] = FALSE]
    BY <1>0 DEF SlabInv, SlabType, PassPage, Passed, Goto
  <2> QED BY <2>1, LocksChange DEF Inside
<1>6. HandsOK' /\ BlocksOK'
  BY BlocksFrame DEF SlabInv, SlabType, PassPage, InHand, Goto, heap
<1> QED BY <1>1, <1>2, <1>3, <1>4, <1>5, <1>6 DEF SlabInv

LEMMA FirstKeeps ==
  ASSUME SlabInv, NEW c \in Cpus, FirstBlock(c)
  PROVE  SlabInv'
<1>0. AtOwnPage(c) /\ page[c] \in Pages /\ IsSlab(page[c])
  BY OwnPage DEF FirstBlock
<1> DEFINE n == Head(list[page[c]])
<1>1. n \in NumbersOf(page[c]) /\ NumbersOf(page[c]) \subseteq Numbers /\ list[page[c]] \in Seq(Nat)
  <2>1. ListOK(page[c]) /\ list[page[c]] # <<>>
    BY <1>0 DEF SlabInv, BlocksOK, FirstBlock
  <2>2. n \in NumbersOf(page[c])
    BY <2>1, ListTail DEF ListOK
  <2>3. use[page[c]][2] \in Classes
    BY <1>0 DEF AtOwnPage
  <2> QED BY <1>0, <2>2, <2>3 DEF NumbersOf, Numbers, SlabInv, SlabType
<1> HIDE DEF n
<1>2. block' = [block EXCEPT ![c] = <<page[c], n>>] /\ <<page[c], n>> \in Places
  BY <1>0, <1>1 DEF FirstBlock, n, Places
<1>3. SlabType'
  BY <1>0, <1>1, <1>2 DEF SlabInv, FirstBlock, SlabType, Goto, heap, blocks
<1>4. ListsOwned'
  BY ListsFrame DEF FirstBlock
<1>5. CallOK(c)'
  BY <1>0 DEF SlabInv, SlabType, FirstBlock, CallOK, AtOwnPage, Goto, heap, blocks
<1>6. ASSUME NEW d \in Cpus \ {c} PROVE CallOK(d)'
  BY OthersFrame DEF SlabInv, SlabType, FirstBlock, Goto, heap, blocks
<1>7. LocksHeld'
  BY LocksFrame DEF SlabInv, SlabType, FirstBlock, Inside, Goto
<1>8. HandsOK' /\ BlocksOK'
  BY BlocksFrame DEF SlabInv, SlabType, FirstBlock, InHand, Goto, heap
<1> QED BY <1>3, <1>4, <1>5, <1>6, <1>7, <1>8 DEF SlabInv

(* Unlinking: the block comes from the list into the hand of the CPU.  That *)
(* the list is still as it was read is due to the lock.                     *)
LEMMA TakeKeeps ==
  ASSUME SlabInv, NEW c \in Cpus, TakeBlock(c)
  PROVE  SlabInv'
<1>0. PICK p, s, n : p = page[c] /\ s = list[p] /\ n = Head(s)
  OBVIOUS
<1>1. /\ AtOwnPage(c) /\ p \in Pages /\ IsSlab(p)
      /\ seen[c] = s /\ s # <<>> /\ block[c] = <<p, n>> /\ pc[c] = "take" /\ Inside(c)
  BY <1>0, OwnPage DEF TakeBlock, SlabInv, CallOK, Inside
<1>2. ListOK(p) /\ \A i \in NumbersOf(p) : ExactlyOne(p, i)
  BY <1>0, <1>1 DEF SlabInv, BlocksOK
<1>3. /\ Tail(s) \in Seq(NumbersOf(p)) /\ Len(Tail(s)) = Len(s) - 1 /\ IsInjective(Tail(s))
      /\ n \in NumbersOf(p) /\ n \in ToSet(s)
      /\ \A x : x \in ToSet(Tail(s)) <=> x \in ToSet(s) /\ x # n
  BY <1>0, <1>1, <1>2, ListTail DEF ListOK
<1>4. /\ list' = [list EXCEPT ![p] = Tail(s)]
      /\ count' = [count EXCEPT ![p] = @ - 1]
      /\ pc' = [pc EXCEPT ![c] = "unlock"]
      /\ UNCHANGED <<heap, word, live, class, page, block, seen>>
  BY <1>0, <1>1 DEF TakeBlock, Rest, Goto
<1>5. Valid(block[c])
  <2>1. use[p][2] \in Classes
    BY <1>0, <1>1 DEF AtOwnPage
  <2>2. n \in Numbers
    BY <1>3, <2>1 DEF NumbersOf, Numbers
  <2> QED BY <1>0, <1>1, <1>3, <2>2 DEF Valid, Places
<1>7. SlabType'
  <2>1. Tail(s) \in Seq(Nat)
    <3>1. Count[use[p][2]] \in Nat
      BY <1>0, <1>1, CountAssumption DEF IsSlab, Boot
    <3> QED BY <1>3, <3>1, NumbersAreNat DEF NumbersOf
  <2> QED BY <1>1, <1>4, <2>1 DEF SlabInv, SlabType, heap
<1>8. ListsOwned'
  BY <1>4, ListsFrame
<1>9. CallOK(c)'
  <2>1. AtOwnPage(c)' /\ pc'[c] = "unlock"
    BY <1>1, <1>4 DEF SlabInv, SlabType, AtOwnPage, heap
  <2>2. block'[c] \in Places /\ page'[c] = block'[c][1] /\ IsSlab(page[c])'
    BY <1>0, <1>1, <1>4, <1>5 DEF Valid, IsSlab, heap
  <2> QED BY <2>1, <2>2 DEF CallOK
<1>10. ASSUME NEW d \in Cpus \ {c} PROVE CallOK(d)'
  <2>1. Inside(d) => page[d] # p
    BY <1>0, <1>1 DEF SlabInv, LocksHeld
  <2> QED BY <1>4, <2>1, OthersFrame DEF SlabInv, SlabType, heap
<1>11. LocksHeld'
  BY <1>0, <1>1, <1>4, LocksFrame DEF SlabInv, SlabType, Inside
<1>12. ~OnWay(p, n) /\ ~InUse(p, n) /\ InList(p, n) /\ ~Dropped(p, n)
  BY <1>0, <1>2, <1>3 DEF ExactlyOne, InList
<1>13. HandsOK'
  <2>1. \A d \in Cpus : InHand(d)' <=> InHand(d) \/ d = c
    BY <1>0, <1>1, <1>4 DEF InHand, SlabInv, SlabType
  <2>2. \A d \in Cpus : InHand(d) => block[d] # block[c]
    BY <1>0, <1>1, <1>12 DEF OnWay
  <2>3. \A b : Valid(b)' <=> Valid(b)
    BY <1>4 DEF Valid, IsSlab, NumbersOf, heap
  <2> QED BY <1>4, <1>5, <2>1, <2>2, <2>3 DEF SlabInv, HandsOK
<1>14. BlocksOK'
  <2>1. ASSUME NEW q \in Pages, NEW i, <<q, i>> # block[c]
        PROVE  /\ InList(q, i)' <=> InList(q, i)
               /\ OnWay(q, i)' <=> OnWay(q, i)
               /\ InUse(q, i)' <=> InUse(q, i)
    <3>1. InList(q, i)' <=> InList(q, i)
      BY <1>0, <1>1, <1>3, <1>4, <2>1 DEF InList, SlabInv, SlabType
    <3>2. OnWay(q, i)' <=> OnWay(q, i)
      BY <1>0, <1>1, <1>4, <2>1 DEF OnWay, InHand, SlabInv, SlabType
    <3> QED BY <1>4, <3>1, <3>2 DEF InUse
  <2>2. ExactlyOne(p, n)'
    <3>1. ~InList(p, n)'
      BY <1>0, <1>1, <1>3, <1>4 DEF InList, SlabInv, SlabType
    <3>2. OnWay(p, n)'
      BY <1>0, <1>1, <1>4 DEF OnWay, InHand, SlabInv, SlabType
    <3>3. ~InUse(p, n)' /\ ~Dropped(p, n)'
      BY <1>4, <1>12 DEF InUse, Dropped, heap
    <3> QED BY <3>1, <3>2, <3>3 DEF ExactlyOne
  <2>3. ASSUME NEW q \in Pages, IsSlab(q) PROVE ListOK(q)'
    <3>1. CASE q = p
      BY <1>0, <1>1, <1>2, <1>3, <1>4, <3>1 DEF ListOK, NumbersOf, SlabInv, SlabType, heap
    <3>2. CASE q # p
      BY <1>4, <2>3, <3>2 DEF ListOK, NumbersOf, SlabInv, BlocksOK, SlabType, heap
    <3> QED BY <3>1, <3>2
  <2>4. \A q \in Pages : ~IsSlab(q) => list'[q] = list[q] /\ count'[q] = count[q]
    BY <1>0, <1>1, <1>4 DEF SlabInv, SlabType
  <2>5. block[c][1] = p /\ block[c][2] = n
    BY <1>1
  <2> QED BY <1>4, <1>5, <2>1, <2>2, <2>3, <2>4, <2>5, BlockMoves DEF heap, InList, OnWay, InUse, InHand
<1> QED BY <1>7, <1>8, <1>9, <1>10, <1>11, <1>13, <1>14 DEF SlabInv

(* The call returns: its block passes from the CPU to the caller. *)
LEMMA DeliverKeeps ==
  ASSUME SlabInv, NEW c \in Cpus, UnlockTaken(c)
  PROVE  SlabInv'
<1>0. PICK b : b = block[c]
  OBVIOUS
<1>1. /\ pc[c] = "unlock" /\ page[c] \in Pages /\ b \in Places /\ Inside(c) /\ InHand(c)
      /\ Valid(b) /\ b = <<b[1], b[2]>> /\ b[1] \in Pages
  BY <1>0, OwnPage DEF UnlockTaken, SlabInv, CallOK, Inside, InHand, HandsOK, Places
<1>2. /\ pc' = [pc EXCEPT ![c] = "idle"] /\ live' = live \cup {b}
      /\ word' = [word EXCEPT ![page[c]] = FALSE]
      /\ class' = [class EXCEPT ![c] = None] /\ page' = [page EXCEPT ![c] = None]
      /\ block' = [block EXCEPT ![c] = None] /\ seen' = [seen EXCEPT ![c] = <<>>]
      /\ UNCHANGED <<heap, list, count>>
  BY <1>0 DEF UnlockTaken, Return, Goto
<1>3. SlabType'
  <2>1. <<>> \in Seq(Nat)
    OBVIOUS
  <2> QED BY <1>1, <1>2, <2>1 DEF SlabInv, SlabType, heap
<1>4. ListsOwned'
  BY <1>2, ListsFrame
<1>5. CallOK(c)'
  BY <1>2 DEF SlabInv, SlabType, CallOK
<1>6. ASSUME NEW d \in Cpus \ {c} PROVE CallOK(d)'
  BY <1>2, OthersFrame DEF SlabInv, SlabType, heap
<1>7. LocksHeld'
  <2>1. /\ ~Inside(c)'
        /\ \A d \in Cpus \ {c} : (Inside(d)' <=> Inside(d)) /\ page'[d] = page[d]
    BY <1>2 DEF Inside, SlabInv, SlabType
  <2> QED BY <1>1, <1>2, <2>1, LocksChange DEF Inside
<1>8. \A d \in Cpus : (InHand(d)' <=> InHand(d) /\ d # c) /\ (d # c => block'[d] = block[d])
  BY <1>2 DEF InHand, SlabInv, SlabType
<1>9. HandsOK'
  <2>1. \A x : Valid(x)' <=> Valid(x)
    BY <1>2 DEF Valid, IsSlab, NumbersOf, heap
  <2> QED BY <1>1, <1>2, <1>8, <2>1 DEF SlabInv, HandsOK
<1>10. BlocksOK'
  <2>1. \A d \in Cpus : InHand(d) /\ d # c => block[d] # b
    BY <1>0, <1>1 DEF SlabInv, HandsOK
  <2>2. ASSUME NEW q \in Pages, NEW i
        PROVE  /\ InList(q, i)' <=> InList(q, i)
               /\ OnWay(q, i)' <=> OnWay(q, i) /\ <<q, i>> # b
               /\ InUse(q, i)' <=> InUse(q, i) \/ <<q, i>> = b
               /\ Dropped(q, i)' <=> Dropped(q, i)
    <3>1. OnWay(q, i)' <=> OnWay(q, i) /\ <<q, i>> # b
      BY <1>0, <1>8, <2>1 DEF OnWay, InHand
    <3> QED BY <1>2, <3>1 DEF InList, InUse, Dropped, heap
  <2>3. ExactlyOne(b[1], b[2])'
    <3>1. ExactlyOne(b[1], b[2]) /\ OnWay(b[1], b[2])
      BY <1>0, <1>1, OnePlace DEF OnWay
    <3> QED BY <1>1, <2>2, <3>1 DEF ExactlyOne
  <2>4. \A q \in Pages : IsSlab(q) => ListOK(q)'
    BY <1>2 DEF SlabInv, BlocksOK, ListOK, NumbersOf, heap
  <2>5. \A q \in Pages : \A i : <<q, i>> # b =>
          /\ InList(q, i)' <=> InList(q, i)
          /\ OnWay(q, i)' <=> OnWay(q, i)
          /\ InUse(q, i)' <=> InUse(q, i)
    BY <2>2 DEF InList, OnWay, InUse, InHand
  <2> QED BY <1>1, <1>2, <2>3, <2>4, <2>5, BlockMoves DEF heap, InList, OnWay, InUse, InHand
<1> QED BY <1>3, <1>4, <1>5, <1>6, <1>7, <1>9, <1>10 DEF SlabInv

LEMMA GrowFailsKeeps ==
  ASSUME SlabInv, NEW c \in Cpus, GrowFails(c)
  PROVE  SlabInv'
<1>1. SlabType'
  <2>1. <<>> \in Seq(Nat)
    OBVIOUS
  <2> QED BY <2>1 DEF SlabInv, GrowFails, Return, SlabType, Goto, heap, blocks
<1>2. ListsOwned'
  BY ListsFrame DEF GrowFails
<1>3. CallOK(c)'
  BY DEF SlabInv, SlabType, GrowFails, Return, CallOK, Goto
<1>4. ASSUME NEW d \in Cpus \ {c} PROVE CallOK(d)'
  BY OthersFrame DEF SlabInv, SlabType, GrowFails, Return, Goto, heap, blocks
<1>5. LocksHeld'
  BY LocksFrame DEF SlabInv, SlabType, GrowFails, Return, Inside, Goto
<1>6. HandsOK' /\ BlocksOK'
  BY BlocksFrame DEF SlabInv, SlabType, GrowFails, Return, InHand, Goto, heap
<1> QED BY <1>1, <1>2, <1>3, <1>4, <1>5, <1>6 DEF SlabInv

(* A new page comes with all its blocks free. *)
LEMMA GrowKeeps ==
  ASSUME SlabInv, NEW c \in Cpus, NEW p \in Pages, GrowBy(c, p)
  PROVE  SlabInv'
<1>0. PICK k : k = class[c]
  OBVIOUS
<1>1. k \in Classes /\ pc[c] = "search" /\ use[p] = <<"free">> /\ ~IsSlab(p) /\ <<c, k>> \in Boot
  BY <1>0, KindsDiffer DEF GrowBy, SlabInv, CallOK, IsSlab, Boot
<1>2. /\ use' = [use EXCEPT ![p] = <<c, k>>]
      /\ next' = [next EXCEPT ![p] = area[c][k]]
      /\ area' = [area EXCEPT ![c][k] = p]
      /\ list' = [list EXCEPT ![p] = NewList(k)]
      /\ count' = [count EXCEPT ![p] = Count[k]]
      /\ page' = [page EXCEPT ![c] = p]
      /\ UNCHANGED <<word, live, pc, class, block, seen>>
  BY <1>0 DEF GrowBy, Linked
<1>3. /\ NewList(k) \in Seq(1 .. Count[k]) /\ Len(NewList(k)) = Count[k] /\ Count[k] \in Nat
      /\ IsInjective(NewList(k))
      /\ \A x : x \in ToSet(NewList(k)) <=> x \in 1 .. Count[k]
  BY <1>1, ListNew, CountAssumption
<1>4. area[c][k] \in Pages /\ area[c][k] # None /\ use[area[c][k]] = <<c, k>>
  BY <1>1, PagesAssumption DEF SlabInv, SlabType, ListsOwned
<1>5. \A q \in Pages : IsSlab(q) => q # p /\ use'[q] = use[q] /\ next'[q] = next[q]
  BY <1>1, <1>2 DEF SlabInv, SlabType
<1>6. SlabType'
  <2>1. NewList(k) \in Seq(Nat) /\ Count[k] \in Int
    BY <1>3, NumbersAreNat
  <2>2. area' \in [Cpus -> [Classes -> Pages]]
    BY <1>1, <1>2 DEF SlabInv, SlabType
  <2> QED BY <1>1, <1>2, <1>4, <2>1, <2>2 DEF SlabInv, SlabType
<1>7. ListsOwned'
  <2>1. ASSUME NEW q \in Pages, IsSlab(q)', next'[q] # None PROVE use'[next'[q]] = use'[q]
    <3>1. CASE q = p
      BY <1>1, <1>2, <1>4, <3>1 DEF SlabInv, SlabType
    <3>2. CASE q # p
      <4>1. IsSlab(q) /\ next'[q] = next[q] /\ use'[q] = use[q]
        BY <1>2, <2>1, <3>2 DEF IsSlab, SlabInv, SlabType
      <4>2. next[q] \in Pages /\ use[next[q]] = use[q]
        BY <2>1, <4>1 DEF SlabInv, SlabType, ListsOwned
      <4> QED BY <1>5, <4>1, <4>2 DEF IsSlab
    <3> QED BY <3>1, <3>2
  <2>2. ASSUME NEW d \in Cpus, NEW l \in Classes PROVE use'[area'[d][l]] = <<d, l>>
    <3>1. CASE d = c /\ l = k
      BY <1>1, <1>2, <3>1 DEF SlabInv, SlabType
    <3>2. CASE ~(d = c /\ l = k)
      <4>1. area'[d][l] = area[d][l]
        BY <1>1, <1>2, <3>2 DEF SlabInv, SlabType
      <4>2. area[d][l] \in Pages /\ use[area[d][l]] = <<d, l>> /\ <<d, l>> \in Boot
        BY DEF SlabInv, SlabType, ListsOwned, Boot
      <4> QED BY <1>5, <4>1, <4>2 DEF IsSlab
    <3> QED BY <3>1, <3>2
  <2> QED BY <2>1, <2>2 DEF ListsOwned
<1>8. CallOK(c)'
  BY <1>0, <1>1, <1>2 DEF SlabInv, SlabType, CallOK, AtOwnPage
<1>9. ASSUME NEW d \in Cpus \ {c} PROVE CallOK(d)'
  <2>1. Inside(d) => page[d] \in Pages /\ IsSlab(page[d])
    <3>1. pc[d] \in {"look", "take"} => page[d] \in Pages /\ IsSlab(page[d])
      BY OwnPage
    <3>2. pc[d] \in {"unlock", "push", "link", "open"} => page[d] \in Pages /\ IsSlab(page[d])
      BY DEF SlabInv, CallOK, Places
    <3> QED BY <3>1, <3>2 DEF Inside
  <2>2. Inside(d) => list'[page[d]] = list[page[d]]
    BY <1>1, <1>2, <2>1 DEF SlabInv, SlabType
  <2> QED BY <1>2, <1>5, <2>2, OthersFrame DEF SlabInv, SlabType
<1>10. LocksHeld'
  BY <1>1, <1>2, LocksFrame DEF SlabInv, SlabType, Inside
<1>11. HandsOK'
  <2>1. \A b : Valid(b) => Valid(b)'
    BY <1>5 DEF Valid, IsSlab, NumbersOf, Places
  <2> QED BY <1>2, <2>1 DEF SlabInv, HandsOK, InHand
<1>12. BlocksOK'
  <2>1. \A i : OnWay(p, i)' <=> FALSE
    BY <1>1, <1>2 DEF OnWay, InHand, SlabInv, HandsOK, Valid
  <2>2. \A i : InUse(p, i)' <=> FALSE
    BY <1>1, <1>2 DEF InUse, SlabInv, HandsOK, Valid
  <2>3. IsSlab(p)' /\ NumbersOf(p)' = 1 .. Count[k] /\ list'[p] = NewList(k)
        /\ count'[p] = Count[k] /\ next'[p] # None
    BY <1>1, <1>2, <1>4 DEF IsSlab, NumbersOf, SlabInv, SlabType
  <2>4. ListOK(p)' /\ \A i \in NumbersOf(p)' : ExactlyOne(p, i)'
    <3>1. ListOK(p)'
      BY <1>3, <2>3 DEF ListOK
    <3>2. ASSUME NEW i \in NumbersOf(p)' PROVE ExactlyOne(p, i)'
      BY <1>3, <2>1, <2>2, <2>3 DEF ExactlyOne, InList, Dropped, OnWay, InUse, InHand
    <3> QED BY <3>1, <3>2
  <2>5. ASSUME NEW q \in Pages, q # p
        PROVE  /\ IsSlab(q)' => ListOK(q)' /\ \A i \in NumbersOf(q)' : ExactlyOne(q, i)'
               /\ ~IsSlab(q)' => list'[q] = <<>> /\ count'[q] = 0
    <3>1. /\ use'[q] = use[q] /\ next'[q] = next[q] /\ list'[q] = list[q] /\ count'[q] = count[q]
          /\ live' = live /\ pc' = pc /\ block' = block
      BY <1>2, <2>5 DEF SlabInv, SlabType
    <3>2. /\ IsSlab(q)' <=> IsSlab(q)
          /\ ListOK(q)' <=> ListOK(q)
          /\ NumbersOf(q)' = NumbersOf(q)
      BY <3>1 DEF IsSlab, ListOK, NumbersOf
    <3>3. ASSUME NEW i PROVE ExactlyOne(q, i)' <=> ExactlyOne(q, i)
      BY <3>1 DEF ExactlyOne, InList, OnWay, InHand, InUse, Dropped
    <3>4. /\ IsSlab(q) => ListOK(q) /\ \A i \in NumbersOf(q) : ExactlyOne(q, i)
          /\ ~IsSlab(q) => list[q] = <<>> /\ count[q] = 0
      BY DEF SlabInv, BlocksOK
    <3>5. IsSlab(q)' => \A i \in NumbersOf(q)' : ExactlyOne(q, i)'
      BY <3>2, <3>3, <3>4
    <3> QED BY <3>1, <3>2, <3>4, <3>5
  <2> QED BY <2>3, <2>4, <2>5 DEF BlocksOK
<1> QED BY <1>6, <1>7, <1>8, <1>9, <1>10, <1>11, <1>12 DEF SlabInv

-----------------------------------------------------------------------------
(* Freeing. *)

LEMMA FreeKeeps ==
  ASSUME SlabInv, NEW c \in Cpus, NEW b \in live, slab_free(c, b)
  PROVE  SlabInv'
<1>1. /\ pc[c] = "idle" /\ b \in Places /\ b[1] \in Pages /\ Valid(b) /\ b = <<b[1], b[2]>>
      /\ ~Inside(c) /\ ~InHand(c)
  BY DEF slab_free, SlabInv, SlabType, HandsOK, Places, Inside, InHand
<1>2. /\ pc' = [pc EXCEPT ![c] = "wait"] /\ live' = live \ {b}
      /\ page' = [page EXCEPT ![c] = b[1]] /\ block' = [block EXCEPT ![c] = b]
      /\ UNCHANGED <<heap, word, list, count, class, seen>>
  BY DEF slab_free, Goto
<1>3. SlabType'
  BY <1>1, <1>2 DEF SlabInv, SlabType, heap
<1>4. ListsOwned'
  BY <1>2, ListsFrame
<1>5. CallOK(c)'
  BY <1>1, <1>2 DEF SlabInv, SlabType, CallOK, Valid, IsSlab, heap
<1>6. ASSUME NEW d \in Cpus \ {c} PROVE CallOK(d)'
  BY <1>2, OthersFrame DEF SlabInv, SlabType, heap
<1>7. LocksHeld'
  BY <1>1, <1>2, LocksFrame DEF SlabInv, SlabType, Inside
<1>8. \A d \in Cpus : (InHand(d)' <=> InHand(d) \/ d = c) /\ (d # c => block'[d] = block[d])
  BY <1>1, <1>2 DEF InHand, SlabInv, SlabType
<1>9. \A d \in Cpus : InHand(d) => block[d] # b
  BY <1>1, OnePlace DEF ExactlyOne, OnWay, InUse
<1>10. HandsOK'
  <2>1. \A x : Valid(x)' <=> Valid(x)
    BY <1>2 DEF Valid, IsSlab, NumbersOf, heap
  <2>2. block'[c] = b
    BY <1>2 DEF SlabInv, SlabType
  <2> QED BY <1>1, <1>2, <1>8, <1>9, <2>1, <2>2 DEF SlabInv, HandsOK
<1>11. BlocksOK'
  <2>1. ASSUME NEW q \in Pages, NEW i
        PROVE  /\ InList(q, i)' <=> InList(q, i)
               /\ OnWay(q, i)' <=> OnWay(q, i) \/ <<q, i>> = b
               /\ InUse(q, i)' <=> InUse(q, i) /\ <<q, i>> # b
               /\ Dropped(q, i)' <=> Dropped(q, i)
    <3>1. block'[c] = b
      BY <1>2 DEF SlabInv, SlabType
    <3>2. OnWay(q, i)' <=> OnWay(q, i) \/ <<q, i>> = b
      BY <1>1, <1>8, <3>1 DEF OnWay, InHand
    <3> QED BY <1>2, <3>2 DEF InList, InUse, Dropped, heap
  <2>2. ExactlyOne(b[1], b[2])'
    <3>1. ExactlyOne(b[1], b[2]) /\ InUse(b[1], b[2])
      BY <1>1, OnePlace DEF InUse
    <3> QED BY <1>1, <2>1, <3>1 DEF ExactlyOne
  <2>3. \A q \in Pages : IsSlab(q) => ListOK(q)'
    BY <1>2 DEF SlabInv, BlocksOK, ListOK, NumbersOf, heap
  <2>4. ASSUME NEW q \in Pages, NEW i, <<q, i>> # b
        PROVE  /\ InList(q, i)' <=> InList(q, i)
               /\ OnWay(q, i)' <=> OnWay(q, i)
               /\ InUse(q, i)' <=> InUse(q, i)
    BY <2>1, <2>4
  <2> QED BY <1>1, <1>2, <2>2, <2>3, <2>4, BlockMoves DEF heap, InList, OnWay, InUse, InHand
<1> QED BY <1>3, <1>4, <1>5, <1>6, <1>7, <1>10, <1>11 DEF SlabInv

LEMMA ReadKeeps ==
  ASSUME SlabInv, NEW c \in Cpus, ReadList(c)
  PROVE  SlabInv'
<1>0. page[c] \in Pages
  BY DEF SlabInv, ReadList, CallOK, Places
<1>1. SlabType'
  BY <1>0 DEF SlabInv, ReadList, SlabType, Goto, heap, blocks
<1>2. ListsOwned'
  BY ListsFrame DEF ReadList
<1>3. CallOK(c)'
  BY DEF SlabInv, SlabType, ReadList, CallOK, IsSlab, Goto, heap, blocks
<1>4. ASSUME NEW d \in Cpus \ {c} PROVE CallOK(d)'
  BY OthersFrame DEF SlabInv, SlabType, ReadList, Goto, heap, blocks
<1>5. LocksHeld'
  BY LocksFrame DEF SlabInv, SlabType, ReadList, Inside, Goto
<1>6. HandsOK' /\ BlocksOK'
  BY BlocksFrame DEF SlabInv, SlabType, ReadList, InHand, Goto, heap
<1> QED BY <1>1, <1>2, <1>3, <1>4, <1>5, <1>6 DEF SlabInv

LEMMA UnlockKeeps ==
  ASSUME SlabInv, NEW c \in Cpus, UnlockFreed(c)
  PROVE  SlabInv'
<1>0. page[c] \in Pages /\ pc[c] = "open"
  BY DEF SlabInv, UnlockFreed, CallOK, Places
<1>1. SlabType'
  <2>1. <<>> \in Seq(Nat)
    OBVIOUS
  <2> QED BY <1>0, <2>1 DEF SlabInv, UnlockFreed, Return, SlabType, Goto, heap, blocks
<1>2. ListsOwned'
  BY ListsFrame DEF UnlockFreed
<1>3. CallOK(c)'
  BY DEF SlabInv, SlabType, UnlockFreed, Return, CallOK, Goto
<1>4. ASSUME NEW d \in Cpus \ {c} PROVE CallOK(d)'
  BY OthersFrame DEF SlabInv, SlabType, UnlockFreed, Return, Goto, heap, blocks
<1>5. LocksHeld'
  <2>1. /\ word' = [word EXCEPT ![page[c]] = FALSE] /\ Inside(c) /\ ~Inside(c)'
        /\ \A d \in Cpus \ {c} : (Inside(d)' <=> Inside(d)) /\ page'[d] = page[d]
    BY <1>0 DEF UnlockFreed, Return, Goto, Inside, SlabInv, SlabType
  <2> QED BY <1>0, <2>1, LocksChange DEF Inside
<1>6. HandsOK' /\ BlocksOK'
  BY BlocksFrame DEF SlabInv, SlabType, UnlockFreed, Return, InHand, Goto, heap
<1> QED BY <1>1, <1>2, <1>3, <1>4, <1>5, <1>6 DEF SlabInv

(* Linking in: the block goes from the hand of the CPU to the list, which   *)
(* is still as it was read, due to the lock.                                *)
LEMMA PushKeeps ==
  ASSUME SlabInv, NEW c \in Cpus, PushBlock(c)
  PROVE  SlabInv'
<1>0. PICK p, s, n : p = page[c] /\ s = list[p] /\ n = block[c][2]
  OBVIOUS
<1>1. /\ p \in Pages /\ IsSlab(p) /\ seen[c] = s /\ block[c] = <<p, n>> /\ pc[c] = "link"
      /\ Inside(c) /\ InHand(c) /\ Valid(block[c]) /\ n \in NumbersOf(p)
  <2>1. pc[c] = "link" /\ Inside(c) /\ InHand(c)
    BY DEF PushBlock, Inside, InHand
  <2>2. Valid(block[c]) /\ page[c] = block[c][1] /\ seen[c] = s
    BY <1>0, <2>1 DEF SlabInv, CallOK, HandsOK
  <2> QED BY <1>0, <2>1, <2>2 DEF Valid, Places
<1>2. ListOK(p) /\ ExactlyOne(p, n) /\ OnWay(p, n)
  BY <1>1 DEF SlabInv, BlocksOK, OnWay
<1>3. /\ <<n>> \o s \in Seq(NumbersOf(p)) /\ Len(<<n>> \o s) = Len(s) + 1
      /\ IsInjective(<<n>> \o s)
      /\ \A x : x \in ToSet(<<n>> \o s) <=> x \in ToSet(s) \/ x = n
  <2>1. s \in Seq(NumbersOf(p)) /\ IsInjective(s) /\ n \notin ToSet(s)
    BY <1>0, <1>2 DEF ListOK, ExactlyOne, InList
  <2> QED BY <1>1, <2>1, ListPush
<1>4. /\ list' = [list EXCEPT ![p] = <<n>> \o s]
      /\ count' = [count EXCEPT ![p] = @ + 1]
      /\ pc' = [pc EXCEPT ![c] = "open"]
      /\ UNCHANGED <<heap, word, live, class, page, block, seen>>
  BY <1>0, <1>1 DEF PushBlock, CountUp, Goto
<1>5. SlabType'
  <2>1. <<n>> \o s \in Seq(Nat)
    <3>1. Count[use[p][2]] \in Nat
      BY <1>1, CountAssumption DEF IsSlab, Boot
    <3> QED BY <1>3, <3>1, NumbersAreNat DEF NumbersOf
  <2> QED BY <1>1, <1>4, <2>1 DEF SlabInv, SlabType, heap
<1>6. ListsOwned'
  BY <1>4, ListsFrame
<1>7. CallOK(c)'
  BY <1>0, <1>1, <1>4 DEF SlabInv, SlabType, CallOK, IsSlab, heap
<1>8. ASSUME NEW d \in Cpus \ {c} PROVE CallOK(d)'
  <2>1. Inside(d) => page[d] # p
    BY <1>0, <1>1 DEF SlabInv, LocksHeld
  <2> QED BY <1>4, <2>1, OthersFrame DEF SlabInv, SlabType, heap
<1>9. LocksHeld'
  BY <1>1, <1>4, LocksFrame DEF SlabInv, SlabType, Inside
<1>10. \A d \in Cpus : InHand(d)' <=> InHand(d) /\ d # c
  BY <1>1, <1>4 DEF InHand, SlabInv, SlabType
<1>11. HandsOK'
  <2>1. \A b : Valid(b)' <=> Valid(b)
    BY <1>4 DEF Valid, IsSlab, NumbersOf, heap
  <2> QED BY <1>4, <1>10, <2>1 DEF SlabInv, HandsOK
<1>12. BlocksOK'
  <2>1. ASSUME NEW q \in Pages, NEW i
        PROVE  /\ InUse(q, i)' <=> InUse(q, i)
               /\ Dropped(q, i)' <=> Dropped(q, i)
               /\ OnWay(q, i)' <=> OnWay(q, i) /\ <<q, i>> # <<p, n>>
    <3>1. \A d \in Cpus : InHand(d) /\ d # c => block[d] # block[c]
      BY <1>1 DEF SlabInv, HandsOK
    <3>2. OnWay(q, i)' <=> OnWay(q, i) /\ <<q, i>> # <<p, n>>
      BY <1>1, <1>4, <1>10, <3>1 DEF OnWay, InHand
    <3> QED BY <1>4, <3>2 DEF InUse, Dropped, heap
  <2>2. ASSUME NEW q \in Pages, NEW i, <<q, i>> # <<p, n>> PROVE InList(q, i)' <=> InList(q, i)
    <3>1. CASE q = p
      <4>1. list'[q] = <<n>> \o s /\ list[q] = s /\ i # n
        BY <1>0, <1>1, <1>4, <2>2, <3>1 DEF SlabInv, SlabType
      <4> QED BY <1>3, <4>1 DEF InList
    <3>2. CASE q # p
      BY <1>4, <3>2 DEF InList, SlabInv, SlabType
    <3> QED BY <3>1, <3>2
  <2>3. InList(p, n)'
    BY <1>1, <1>3, <1>4 DEF InList, SlabInv, SlabType
  <2>4. ExactlyOne(p, n)'
    BY <1>1, <1>2, <2>1, <2>3 DEF ExactlyOne
  <2>5. ASSUME NEW q \in Pages, IsSlab(q) PROVE ListOK(q)'
    <3>1. CASE q = p
      BY <1>0, <1>1, <1>2, <1>3, <1>4, <3>1 DEF ListOK, NumbersOf, SlabInv, SlabType, heap
    <3>2. CASE q # p
      BY <1>4, <2>5, <3>2 DEF ListOK, NumbersOf, SlabInv, BlocksOK, SlabType, heap
    <3> QED BY <3>1, <3>2
  <2>6. \A q \in Pages : ~IsSlab(q) => list'[q] = list[q] /\ count'[q] = count[q]
    BY <1>1, <1>4 DEF SlabInv, SlabType
  <2>7. \A q \in Pages : \A i : <<q, i>> # <<p, n>> =>
          /\ InList(q, i)' <=> InList(q, i)
          /\ OnWay(q, i)' <=> OnWay(q, i)
          /\ InUse(q, i)' <=> InUse(q, i)
    BY <2>1, <2>2 DEF InList, OnWay, InUse, InHand
  <2>8. Valid(<<p, n>>) /\ <<p, n>>[1] = p /\ <<p, n>>[2] = n
    BY <1>1
  <2> QED BY <1>4, <2>4, <2>5, <2>6, <2>7, <2>8, BlockMoves DEF heap, InList, OnWay, InUse, InHand
<1> QED BY <1>5, <1>6, <1>7, <1>8, <1>9, <1>11, <1>12 DEF SlabInv

-----------------------------------------------------------------------------
(* Whole pages. *)

LEMMA WholeKeeps ==
  ASSUME SlabInv, NEW c \in Cpus, NEW p \in Pages, AllocWhole(c, p) \/ FreeWhole(c, p)
  PROVE  SlabInv'
<1>1. /\ ~IsSlab(p) /\ ~IsSlab(p)' /\ UNCHANGED <<next, area, blocks, cpu>>
      /\ \A q \in Pages : q # p => use'[q] = use[q] /\ word'[q] = word[q]
      /\ word' \in [Pages -> BOOLEAN]
      /\ use' \in [Pages -> {<<"free">>, <<"whole">>} \cup Boot]
      /\ word'[p] \in {word[p]} \cup FirstWords
  BY KindsDiffer, PagesAssumption DEF SlabInv, SlabType, AllocWhole, FreeWhole, IsSlab
<1>2. \A q \in Pages : /\ IsSlab(q)' <=> IsSlab(q)
                       /\ IsSlab(q) => use'[q] = use[q]
  BY <1>1 DEF IsSlab
<1>3. SlabType'
  BY <1>1 DEF SlabInv, SlabType, blocks, cpu
<1>4. ListsOwned'
  <2>1. ASSUME NEW q \in Pages, IsSlab(q), next[q] # None PROVE use'[next[q]] = use'[q]
    <3>1. next[q] \in Pages /\ use[next[q]] = use[q] /\ IsSlab(next[q])
      BY <2>1 DEF SlabInv, SlabType, ListsOwned, IsSlab
    <3> QED BY <1>2, <2>1, <3>1
  <2>2. ASSUME NEW d \in Cpus, NEW l \in Classes PROVE use'[area[d][l]] = <<d, l>>
    <3>1. area[d][l] \in Pages /\ use[area[d][l]] = <<d, l>>
      BY DEF SlabInv, SlabType, ListsOwned
    <3>2. <<d, l>> \in Boot
      BY DEF Boot
    <3> QED BY <1>2, <3>1, <3>2 DEF IsSlab
  <2> QED BY <1>1, <1>2, <2>1, <2>2 DEF ListsOwned
<1>5. ASSUME NEW d \in Cpus PROVE CallOK(d)'
  <2>1. CallOK(d)
    BY DEF SlabInv
  <2>2. AtOwnPage(d) => AtOwnPage(d)'
    BY <1>1, <1>2 DEF AtOwnPage, IsSlab, Boot, cpu
  <2>3. block[d] \in Places /\ page[d] = block[d][1] /\ IsSlab(page[d]) => IsSlab(page[d])'
    BY <1>1, <1>2 DEF Places, IsSlab, cpu
  <2> QED BY <1>1, <2>1, <2>2, <2>3 DEF CallOK, blocks, cpu
<1>6. \A d \in Cpus : Inside(d) => page[d] \in Pages /\ page[d] # p
  <2> SUFFICES ASSUME NEW d \in Cpus, Inside(d) PROVE page[d] \in Pages /\ IsSlab(page[d])
      BY <1>1
  <2>1. pc[d] \in {"look", "take"} => page[d] \in Pages /\ IsSlab(page[d])
    BY OwnPage
  <2>2. pc[d] \in {"unlock", "push", "link", "open"} => page[d] \in Pages /\ IsSlab(page[d])
    BY DEF SlabInv, CallOK, Places
  <2> QED BY <2>1, <2>2 DEF Inside
<1>7. LocksHeld'
  <2>1. \A d \in Cpus : Inside(d)' => word'[page'[d]]
    BY <1>1, <1>6 DEF SlabInv, LocksHeld, Inside, cpu
  <2>2. \A d, e \in Cpus : d # e /\ Inside(d)' /\ Inside(e)' => page'[d] # page'[e]
    BY <1>1 DEF SlabInv, LocksHeld, Inside, cpu
  <2>3. ASSUME FirstWords \subseteq {FALSE}, NEW q \in Pages, word'[q]
        PROVE  \E d \in Cpus : Inside(d)' /\ page'[d] = q
    <3>1. word[q]
      BY <1>1, <2>3
    <3> QED BY <1>1, <2>3, <3>1 DEF SlabInv, LocksHeld, Inside, cpu
  <2> QED BY <2>1, <2>2, <2>3 DEF LocksHeld
<1>8. HandsOK'
  <2>1. \A b : Valid(b) => Valid(b)'
    BY <1>2 DEF Valid, NumbersOf, Places
  <2> QED BY <1>1, <2>1 DEF SlabInv, HandsOK, InHand, blocks, cpu
<1>9. BlocksOK'
  <2>1. ASSUME NEW q \in Pages, IsSlab(q)
        PROVE  ListOK(q)' /\ \A i \in NumbersOf(q)' : ExactlyOne(q, i)'
    <3>1. use'[q] = use[q] /\ NumbersOf(q)' = NumbersOf(q)
      BY <1>2, <2>1 DEF NumbersOf
    <3>2. ListOK(q) /\ \A i \in NumbersOf(q) : ExactlyOne(q, i)
      BY <2>1 DEF SlabInv, BlocksOK
    <3>3. ASSUME NEW i PROVE ExactlyOne(q, i)' <=> ExactlyOne(q, i)
      BY <1>1, <3>1 DEF ExactlyOne, InList, OnWay, InHand, InUse, Dropped, blocks, cpu
    <3>4. ListOK(q)'
      BY <1>1, <3>1, <3>2 DEF ListOK, blocks
    <3> QED BY <3>1, <3>2, <3>3, <3>4
  <2>2. \A q \in Pages : ~IsSlab(q) => list'[q] = <<>> /\ count'[q] = 0
    BY <1>1 DEF SlabInv, BlocksOK, blocks
  <2> QED BY <1>2, <2>1, <2>2 DEF BlocksOK
<1> QED BY <1>3, <1>4, <1>5, <1>7, <1>8, <1>9 DEF SlabInv

-----------------------------------------------------------------------------
LEMMA SlabStutter ==
  ASSUME SlabInv, UNCHANGED vars
  PROVE  SlabInv'
<1>1. UNCHANGED <<heap, word, blocks, cpu, pc, class, page, block, seen, list, count, live, use, next>>
  BY DEF vars, cpu, blocks, heap
<1>2. SlabType'
  BY <1>1 DEF SlabInv, SlabType, heap
<1>3. ListsOwned' /\ LocksHeld'
  BY <1>1, ListsFrame, LocksFrame DEF Inside
<1>4. \A c \in Cpus : CallOK(c)'
  BY <1>1 DEF SlabInv, CallOK, AtOwnPage, IsSlab
<1>5. HandsOK' /\ BlocksOK'
  BY <1>1, BlocksFrame DEF InHand
<1> QED BY <1>2, <1>3, <1>4, <1>5 DEF SlabInv

LEMMA SlabStep == SlabInv /\ [Next]_vars => SlabInv'
<1> SUFFICES ASSUME SlabInv, [Next]_vars PROVE SlabInv'
    OBVIOUS
<1>1. CASE UNCHANGED vars
  BY <1>1, SlabStutter
<1>2. CASE Next
  <2> PICK c \in Cpus :
        \/ \E k \in Classes : slab_alloc(c, k)
        \/ \E b \in live : slab_free(c, b)
        \/ \E p \in Pages : AllocWhole(c, p) \/ FreeWhole(c, p)
        \/ LockPage(c)
        \/ Step(c)
    BY <1>2 DEF Next
  <2>1. CASE \E k \in Classes : slab_alloc(c, k)
    BY <2>1, AllocKeeps
  <2>2. CASE \E b \in live : slab_free(c, b)
    BY <2>2, FreeKeeps
  <2>3. CASE \E p \in Pages : AllocWhole(c, p) \/ FreeWhole(c, p)
    BY <2>3, WholeKeeps
  <2>4. CASE LockPage(c)
    BY <2>4, LockKeeps
  <2>5. CASE Step(c)
    BY <2>5, PassKeeps, FirstKeeps, TakeKeeps, DeliverKeeps, GrowFailsKeeps, GrowKeeps,
       ReadKeeps, PushKeeps, UnlockKeeps DEF Step
  <2> QED BY <2>1, <2>2, <2>3, <2>4, <2>5
<1> QED BY <1>1, <1>2

LEMMA SlabInvariant == Spec => []SlabInv
<1>1. Init => SlabInv
  BY SlabInit
<1>2. SlabInv /\ [Next]_vars => SlabInv'
  BY SlabStep
<1> QED BY <1>1, <1>2, PTL DEF Spec

-----------------------------------------------------------------------------
(* One CPU at a time. *)

(* Of all that may look at, take from or add to the free list of a page,    *)
(* the page's own CPU in slab_alloc and any CPU in slab_free, at most one   *)
(* is between spin_lock and spin_unlock of slab_lock, whatever the word     *)
(* held when the page was made.                                             *)
THEOREM OneInside ==
  Spec => [](\A c, d \in Cpus : c # d /\ Inside(c) /\ Inside(d) => page[c] # page[d])
<1>1. SlabInv => \A c, d \in Cpus : c # d /\ Inside(c) /\ Inside(d) => page[c] # page[d]
  BY DEF SlabInv, LocksHeld
<1> QED BY <1>1, SlabInvariant, PTL

(* slab_lock of a page says whether some CPU is inside, and it is one, if   *)
(* owners of whole pages leave their first word zero.  request_a_slab_from_ *)
(* bbma does not initialise the lock, so without the condition a page may   *)
(* be locked by nobody.                                                     *)
THEOREM LockWordTold == FirstWords \subseteq {FALSE} => (Spec => []PageExclusive)
<1> SUFFICES ASSUME FirstWords \subseteq {FALSE} PROVE Spec => []PageExclusive
    OBVIOUS
<1>1. SlabInv => PageExclusive
  <2> SUFFICES ASSUME SlabInv, NEW p \in Pages
               PROVE  Cardinality({c \in Cpus : Inside(c) /\ page[c] = p})
                        = (IF word[p] THEN 1 ELSE 0)
      BY DEF PageExclusive
  <2> DEFINE In == {c \in Cpus : Inside(c) /\ page[c] = p}
  <2>1. CASE word[p]
    <3>1. PICK c \in Cpus : Inside(c) /\ page[c] = p
      BY <2>1 DEF SlabInv, LocksHeld
    <3>2. In = {c}
      BY <3>1 DEF SlabInv, LocksHeld
    <3> QED BY <2>1, <3>2, FS_Singleton
  <2>2. CASE ~word[p]
    <3>1. In = {}
      BY <2>2 DEF SlabInv, LocksHeld
    <3> QED BY <2>2, <3>1, FS_EmptySet
  <2> QED BY <2>1, <2>2
<1> QED BY <1>1, SlabInvariant, PTL

-----------------------------------------------------------------------------
(* No two CPUs wait for each other.  Calls that are not returned are at a     *)
(* place where they can go on, or spin for a page whose holder can.           *)
CanGo(c) ==
  \/ pc[c] \in {"search", "wait"} /\ page[c] # None /\ CanLock(page[c])
  \/ pc[c] = "search" /\ page[c] = None
  \/ pc[c] = "look" /\ (count[page[c]] = 0 \/ (count[page[c]] > 0 /\ list[page[c]] # <<>>))
  \/ pc[c] \in {"take", "unlock", "push", "link", "open"}

CallsGoOn ==
  \A c \in Cpus : pc[c] # "idle" =>
    \/ CanGo(c)
    \/ \E d \in Cpus \ {c} : Inside(d) /\ page[d] = page[c] /\ CanGo(d)

(* A CPU inside a page stays there for three steps at most, and unlocks the  *)
(* page as it leaves.                                                        *)
Depth == [look |-> 1, take |-> 2, unlock |-> 3, push |-> 1, link |-> 2, open |-> 3]
SectionsEnd ==
  \A c \in Cpus : Inside(c) =>
    \/ pc'[c] = pc[c] /\ page'[c] = page[c]
    \/ Inside(c)' /\ page'[c] = page[c] /\ Depth[pc'[c]] = Depth[pc[c]] + 1
    \/ ~Inside(c)' /\ ~word'[page[c]]

LEMMA HolderGoes ==
  ASSUME SlabInv, NEW d \in Cpus, Inside(d)
  PROVE  CanGo(d)
<1>1. CASE pc[d] = "look"
  <2>1. page[d] \in Pages /\ IsSlab(page[d])
    <3>1. AtOwnPage(d)
      BY <1>1 DEF SlabInv, CallOK
    <3>2. <<d, class[d]>> \in Boot
      BY <3>1 DEF AtOwnPage, Boot
    <3> QED BY <3>1, <3>2 DEF AtOwnPage, IsSlab
  <2>2. ListOK(page[d])
    BY <2>1 DEF SlabInv, BlocksOK
  <2>3. count[page[d]] \in Nat /\ (count[page[d]] > 0 => list[page[d]] # <<>>)
    BY <2>2 DEF ListOK
  <2> QED BY <1>1, <2>3 DEF CanGo
<1>2. CASE pc[d] # "look"
  BY <1>2 DEF Inside, CanGo
<1> QED BY <1>1, <1>2

LEMMA InvGivesGoing == FirstWords \subseteq {FALSE} /\ SlabInv => CallsGoOn
<1> SUFFICES ASSUME FirstWords \subseteq {FALSE}, SlabInv, NEW c \in Cpus, pc[c] # "idle", ~CanGo(c)
             PROVE  \E d \in Cpus \ {c} : Inside(d) /\ page[d] = page[c] /\ CanGo(d)
  BY DEF CallsGoOn
<1>1. ~Inside(c)
  BY HolderGoes
<1>2. pc[c] \in {"search", "wait"}
  BY <1>1 DEF SlabInv, SlabType, Inside
<1>3. page[c] \in Pages
  BY <1>2 DEF SlabInv, SlabType, CanGo, CallOK, Places
<1>4. word[page[c]]
  BY <1>2, <1>3, PagesAssumption DEF CanGo, CanLock
<1>5. PICK d \in Cpus : Inside(d) /\ page[d] = page[c]
  BY <1>3, <1>4 DEF SlabInv, LocksHeld
<1> QED BY <1>1, <1>5, HolderGoes

LEMMA SectionStep == SlabInv /\ [Next]_vars => SectionsEnd
<1> SUFFICES ASSUME SlabInv, [Next]_vars, NEW c \in Cpus, Inside(c)
             PROVE  \/ pc'[c] = pc[c] /\ page'[c] = page[c]
                    \/ Inside(c)' /\ page'[c] = page[c] /\ Depth[pc'[c]] = Depth[pc[c]] + 1
                    \/ ~Inside(c)' /\ ~word'[page[c]]
  BY DEF SectionsEnd
<1>1. /\ pc \in [Cpus -> {"idle", "search", "look", "take", "unlock", "wait", "push", "link", "open"}]
      /\ page \in [Cpus -> Pages \cup {None}] /\ word \in [Pages -> BOOLEAN]
  BY DEF SlabInv, SlabType
<1>2. page[c] \in Pages
  BY DEF SlabInv, CallOK, AtOwnPage, Inside, Places
<1>3. CASE UNCHANGED <<pc, page>>
  BY <1>3
<1>4. ASSUME NEW d \in Cpus, UNCHANGED <<pc, page>> \/ \E w, q : pc' = [pc EXCEPT ![d] = w] /\ page' = [page EXCEPT ![d] = q],
             d # c
      PROVE  pc'[c] = pc[c] /\ page'[c] = page[c]
  BY <1>1, <1>4
<1>5. ASSUME NEW d \in Cpus, Step(d) \/ LockPage(d) \/ (\E k \in Classes : slab_alloc(d, k))
                               \/ (\E b \in live : slab_free(d, b))
                               \/ (\E p \in Pages : AllocWhole(d, p) \/ FreeWhole(d, p))
      PROVE  UNCHANGED <<pc, page>> \/ \E w, q : pc' = [pc EXCEPT ![d] = w] /\ page' = [page EXCEPT ![d] = q]
  <2>1. pc = [pc EXCEPT ![d] = pc[d]] /\ page = [page EXCEPT ![d] = page[d]]
    BY <1>1
  <2>2. CASE LockPage(d) \/ FirstBlock(d) \/ TakeBlock(d) \/ ReadList(d) \/ PushBlock(d)
    <3>1. page' = page /\ \E w : pc' = [pc EXCEPT ![d] = w]
      BY <2>2 DEF LockPage, FirstBlock, TakeBlock, ReadList, PushBlock, Goto
    <3> QED BY <2>1, <3>1
  <2>3. CASE \E p \in Pages : GrowBy(d, p)
    <3>1. pc' = pc /\ \E q : page' = [page EXCEPT ![d] = q]
      BY <2>3 DEF GrowBy
    <3> QED BY <2>1, <3>1
  <2>4. CASE PassPage(d) \/ UnlockTaken(d) \/ UnlockFreed(d) \/ GrowFails(d)
    BY <2>4 DEF PassPage, UnlockTaken, UnlockFreed, GrowFails, Goto, Return
  <2>5. CASE (\E k \in Classes : slab_alloc(d, k)) \/ (\E b \in live : slab_free(d, b))
    BY <2>5 DEF slab_alloc, slab_free, Goto
  <2>6. CASE \E p \in Pages : AllocWhole(d, p) \/ FreeWhole(d, p)
    BY <2>6 DEF AllocWhole, FreeWhole, cpu
  <2> QED BY <1>5, <2>2, <2>3, <2>4, <2>5, <2>6 DEF Step
<1>6. CASE FirstBlock(c) \/ TakeBlock(c) \/ ReadList(c) \/ PushBlock(c)
  <2>1. /\ page' = page
        /\ \/ pc[c] = "look" /\ pc' = [pc EXCEPT ![c] = "take"]
           \/ pc[c] = "take" /\ pc' = [pc EXCEPT ![c] = "unlock"]
           \/ pc[c] = "push" /\ pc' = [pc EXCEPT ![c] = "link"]
           \/ pc[c] = "link" /\ pc' = [pc EXCEPT ![c] = "open"]
    BY <1>6 DEF FirstBlock, TakeBlock, ReadList, PushBlock, Goto
  <2>2. \/ pc[c] = "look" /\ pc'[c] = "take"
        \/ pc[c] = "take" /\ pc'[c] = "unlock"
        \/ pc[c] = "push" /\ pc'[c] = "link"
        \/ pc[c] = "link" /\ pc'[c] = "open"
    BY <1>1, <2>1
  <2> QED BY <2>1, <2>2 DEF Inside, Depth
<1>7. CASE PassPage(c)
  <2>1. pc' = [pc EXCEPT ![c] = "search"] /\ word' = [p \in Pages |-> IF p = page[c] THEN FALSE ELSE word[p]]
    BY <1>7 DEF PassPage, Passed, Goto
  <2> QED BY <1>1, <1>2, <2>1 DEF Inside
<1>8. CASE UnlockTaken(c) \/ UnlockFreed(c)
  <2>1. pc' = [pc EXCEPT ![c] = "idle"] /\ word' = [word EXCEPT ![page[c]] = FALSE]
    BY <1>8 DEF UnlockTaken, UnlockFreed, Return, Goto
  <2> QED BY <1>1, <1>2, <2>1 DEF Inside
<1>9. ~LockPage(c) /\ ~GrowFails(c) /\ (\A p \in Pages : ~GrowBy(c, p))
      /\ (\A k \in Classes : ~slab_alloc(c, k)) /\ (\A b \in live : ~slab_free(c, b))
      /\ (\A p \in Pages : ~AllocWhole(c, p) /\ ~FreeWhole(c, p))
  BY DEF Inside, LockPage, GrowFails, GrowBy, slab_alloc, slab_free, AllocWhole, FreeWhole
<1>10. CASE UNCHANGED vars
  BY <1>3, <1>10 DEF vars, cpu
<1>11. CASE Next
  <2>1. PICK d \in Cpus : Step(d) \/ LockPage(d) \/ (\E k \in Classes : slab_alloc(d, k))
                            \/ (\E b \in live : slab_free(d, b))
                            \/ (\E p \in Pages : AllocWhole(d, p) \/ FreeWhole(d, p))
    BY <1>11 DEF Next
  <2>2. CASE d = c
    BY <1>6, <1>7, <1>8, <1>9, <2>1, <2>2 DEF Step
  <2>3. CASE d # c
    BY <1>4, <1>5, <2>1, <2>3
  <2> QED BY <2>2, <2>3
<1> QED BY <1>10, <1>11

(* If owners of whole pages leave their first word zero, the page locks do  *)
(* not deadlock: a call can go on or waits for a CPU that can, is inside    *)
(* that page for three steps at most and unlocks it.  A full page is        *)
(* unlocked before the next one is locked, so nobody holds one and waits.   *)
THEOREM NoCallStuck ==
  FirstWords \subseteq {FALSE} => (Spec => []CallsGoOn /\ [][SectionsEnd]_vars)
<1> SUFFICES ASSUME FirstWords \subseteq {FALSE} PROVE Spec => []CallsGoOn /\ [][SectionsEnd]_vars
    OBVIOUS
<1>1. SlabInv => CallsGoOn
  BY InvGivesGoing
<1> QED BY <1>1, SectionStep, SlabInvariant, PTL DEF Spec

-----------------------------------------------------------------------------
(* Every block is in one place. *)

(* Four sets that have no member in common and make up a fifth.             *)
LEMMA FourParts ==
  ASSUME NEW S, IsFiniteSet(S), NEW A, NEW B, NEW C, NEW D,
         S = A \cup B \cup C \cup D,
         A \cap B = {}, A \cap C = {}, B \cap C = {},
         D \cap (A \cup B \cup C) = {}
  PROVE  Cardinality(S) - Cardinality(A) - Cardinality(B) - Cardinality(C) = Cardinality(D)
<1> DEFINE AB == A \cup B
           ABC == AB \cup C
<1>1. /\ IsFiniteSet(A) /\ IsFiniteSet(B) /\ IsFiniteSet(C) /\ IsFiniteSet(D)
      /\ IsFiniteSet(AB) /\ IsFiniteSet(ABC)
  BY FS_Subset
<1>2. /\ Cardinality(A) \in Nat /\ Cardinality(B) \in Nat
      /\ Cardinality(C) \in Nat /\ Cardinality(D) \in Nat
  BY <1>1, FS_CardinalityType
<1>3. AB \cap C = {} /\ ABC \cap D = {} /\ S = ABC \cup D
  OBVIOUS
<1>4. Cardinality({}) = 0
  BY FS_EmptySet
<1>5. Cardinality(AB) = Cardinality(A) + Cardinality(B) - Cardinality(A \cap B)
  BY <1>1, FS_Union
<1> HIDE DEF AB
<1>6. Cardinality(ABC) = Cardinality(AB) + Cardinality(C) - Cardinality(AB \cap C)
  BY <1>1, FS_Union
<1> HIDE DEF ABC
<1>7. Cardinality(S) = Cardinality(ABC) + Cardinality(D) - Cardinality(ABC \cap D)
  BY <1>1, <1>3, FS_Union
<1>8. Cardinality(A \cap B) = 0 /\ Cardinality(AB \cap C) = 0 /\ Cardinality(ABC \cap D) = 0
  BY <1>3, <1>4
<1> QED BY <1>2, <1>5, <1>6, <1>7, <1>8

(* The blocks of a slab page are as many as its class has in a page.        *)
LEMMA BlocksOfPage ==
  ASSUME NEW p, NEW n \in Nat
  PROVE  IsFiniteSet({p} \X (1 .. n)) /\ Cardinality({p} \X (1 .. n)) = n
<1>1. IsFiniteSet({p}) /\ Cardinality({p}) = 1
  BY FS_Singleton
<1>2. IsFiniteSet(1 .. n) /\ Cardinality(1 .. n) = n
  BY FS_Interval
<1>3. /\ IsFiniteSet({p} \X (1 .. n))
      /\ Cardinality({p} \X (1 .. n)) = Cardinality({p}) * Cardinality(1 .. n)
  BY <1>1, <1>2, FS_Product
<1> QED BY <1>1, <1>2, <1>3

(* What slab_alloc and slab_free keep true of every slab page: its counter  *)
(* is the length of its free list, no block is on the list twice, no two    *)
(* CPUs carry the same block, and of the blocks the page was cut into each  *)
(* is free, on its way or in use, all but the one slab_init never frees.    *)
THEOREM NoBlockLost == Spec => []BlocksAccounted
<1>1. SlabInv => BlocksAccounted
  <2> SUFFICES ASSUME SlabInv, NEW p \in Pages, IsSlab(p)
               PROVE  /\ count[p] = Len(list[p])
                      /\ IsInjective(list[p])
                      /\ \A c, d \in Handled(p) : c # d => block[c] # block[d]
                      /\ LET free == {<<p, i>> : i \in ToSet(list[p])}
                             way  == {block[c] : c \in Handled(p)}
                             out  == {b \in live : b[1] = p}
                             lost == Count[use[p][2]] - Cardinality(free) - Cardinality(way) - Cardinality(out)
                         IN  /\ free \cap way = {} /\ free \cap out = {} /\ way \cap out = {}
                             /\ lost = IF next[p] = None THEN 1 ELSE 0
      BY DEF BlocksAccounted, IsSlab
  <2> DEFINE free == {<<p, i>> : i \in ToSet(list[p])}
             way  == {block[c] : c \in Handled(p)}
             out  == {b \in live : b[1] = p}
             drop == IF next[p] = None THEN {<<p, Count[use[p][2]]>>} ELSE {}
             all  == {p} \X NumbersOf(p)
             n    == Count[use[p][2]]
  <2>1. ListOK(p) /\ \A i \in NumbersOf(p) : ExactlyOne(p, i)
    BY DEF SlabInv, BlocksOK
  <2>2. n \in Nat \ {0} /\ NumbersOf(p) = 1 .. n
    BY CountAssumption DEF IsSlab, Boot, NumbersOf
  <2>3. \A c, d \in Handled(p) : c # d => block[c] # block[d]
    BY DEF SlabInv, HandsOK, Handled
  <2>4. \A i \in NumbersOf(p) : /\ <<p, i>> \in free <=> InList(p, i)
                                /\ <<p, i>> \in way <=> OnWay(p, i)
                                /\ <<p, i>> \in out <=> InUse(p, i)
                                /\ <<p, i>> \in drop <=> Dropped(p, i)
    <3> SUFFICES ASSUME NEW i \in NumbersOf(p)
                 PROVE  /\ <<p, i>> \in free <=> InList(p, i)
                        /\ <<p, i>> \in way <=> OnWay(p, i)
                        /\ <<p, i>> \in out <=> InUse(p, i)
                        /\ <<p, i>> \in drop <=> Dropped(p, i)
        OBVIOUS
    <3>1. <<p, i>> \in free <=> InList(p, i)
      BY DEF InList
    <3>2. <<p, i>> \in way <=> OnWay(p, i)
      BY DEF OnWay, Handled
    <3>3. <<p, i>> \in out <=> InUse(p, i)
      BY DEF InUse
    <3>4. <<p, i>> \in drop <=> Dropped(p, i)
      BY DEF Dropped
    <3> QED BY <3>1, <3>2, <3>3, <3>4
  <2>5. free \subseteq all /\ way \subseteq all /\ out \subseteq all /\ drop \subseteq all
    <3>1. free \subseteq all
      <4>1. ToSet(list[p]) \subseteq NumbersOf(p)
        BY <2>1 DEF ListOK, ToSet
      <4> QED BY <4>1
    <3>2. ASSUME NEW c \in Handled(p) PROVE block[c] \in all
      <4>1. Valid(block[c]) /\ block[c][1] = p
        BY DEF SlabInv, HandsOK, Handled
      <4> QED BY <4>1 DEF Valid, Places
    <3>3. ASSUME NEW b \in live, b[1] = p PROVE b \in all
      <4>1. Valid(b)
        BY DEF SlabInv, HandsOK
      <4> QED BY <3>3, <4>1 DEF Valid, Places
    <3>4. drop \subseteq all
      BY <2>2
    <3> QED BY <3>1, <3>2, <3>3, <3>4
  <2>6. \A b \in all : \E i \in NumbersOf(p) : b = <<p, i>>
    OBVIOUS
  <2> HIDE DEF free, way, out, drop, n
  <2>7. /\ all = free \cup way \cup out \cup drop
        /\ free \cap way = {} /\ free \cap out = {} /\ way \cap out = {}
        /\ drop \cap (free \cup way \cup out) = {}
    <3>1. ASSUME NEW b \in all
          PROVE  /\ b \in free \/ b \in way \/ b \in out \/ b \in drop
                 /\ ~(b \in free /\ b \in way) /\ ~(b \in free /\ b \in out) /\ ~(b \in way /\ b \in out)
                 /\ b \in drop => b \notin free /\ b \notin way /\ b \notin out
      BY <2>1, <2>4, <2>6 DEF ExactlyOne
    <3> HIDE DEF all
    <3> QED BY <2>5, <3>1
  <2>8. IsFiniteSet(all) /\ Cardinality(all) = n
    BY <2>2, BlocksOfPage
  <2>9. Cardinality(drop) = IF next[p] = None THEN 1 ELSE 0
    BY FS_Singleton, FS_EmptySet DEF drop
  <2>10. n - Cardinality(free) - Cardinality(way) - Cardinality(out) = Cardinality(drop)
    <3> HIDE DEF all
    <3>1. Cardinality(all) - Cardinality(free) - Cardinality(way) - Cardinality(out) = Cardinality(drop)
      BY <2>7, <2>8, FourParts
    <3> QED BY <2>8, <3>1
  <2>11. count[p] = Len(list[p]) /\ IsInjective(list[p])
    BY <2>1 DEF ListOK
  <2> QED BY <2>3, <2>7, <2>9, <2>10, <2>11 DEF free, way, out, n
<1> QED BY <1>1, SlabInvariant, PTL

-----------------------------------------------------------------------------
(* kalloc and kfree are an allocator. *)

Whole(S) == {Units(p) : p \in {q \in S : use[q] = <<"whole">>}}
InUseNow == {{b} : b \in live} \cup Whole(Pages)
ServedNow == [c \in Cpus |-> IF pc[c] = "unlock" THEN {block[c]} ELSE {}]
TakenNow == (UNION InUseNow) \cup (UNION {ServedNow[c] : c \in Cpus})

(* Number 0 stands for the header, which no small block contains.          *)
LEMMA UnitsApart ==
  ASSUME NEW p \in Pages
  PROVE  /\ <<p, 0>> \in Units(p)
         /\ \A b \in Places : Units(p) # {b}
         /\ \A b \in Places : b \in Units(p) <=> b[1] = p
         /\ \A q \in Pages : q # p => Units(q) \cap Units(p) = {}
<1>1. 0 \notin Numbers
  BY CountAssumption DEF Numbers
<1> QED BY <1>1 DEF Units, Places

(* What is in use or chosen in a page: its small blocks, or all of it.      *)
LEMMA TakenAre ==
  ASSUME SlabInv, NEW b
  PROVE  b \in TakenNow <=> \/ b \in live
                            \/ \E c \in Cpus : pc[c] = "unlock" /\ block[c] = b
                            \/ \E p \in Pages : use[p] = <<"whole">> /\ b \in Units(p)
<1> DEFINE Small == UNION {{x} : x \in live}
           Chosen == UNION {ServedNow[c] : c \in Cpus}
           Pagewise == UNION Whole(Pages)
<1>1. b \in Small <=> b \in live
  OBVIOUS
<1>2. b \in Pagewise <=> \E p \in Pages : use[p] = <<"whole">> /\ b \in Units(p)
  BY DEF Whole
<1>3. b \in Chosen <=> \E c \in Cpus : pc[c] = "unlock" /\ block[c] = b
  <2>1. \A c \in Cpus : b \in ServedNow[c] <=> pc[c] = "unlock" /\ block[c] = b
    BY DEF ServedNow
  <2> QED BY <2>1
<1>4. b \in TakenNow <=> b \in Small \/ b \in Pagewise \/ b \in Chosen
  BY DEF TakenNow, InUseNow
<1> HIDE DEF Small, Chosen, Pagewise
<1> QED BY <1>1, <1>2, <1>3, <1>4

LEMMA MemoryInit == Init => Memory!Init
<1> SUFFICES ASSUME Init PROVE Memory!Init
    OBVIOUS
<1>1. live = {} /\ \A c \in Cpus : pc[c] # "unlock"
  BY DEF Init
<1>2. \A p \in Pages : use[p] # <<"whole">>
  <2> PICK give \in [Boot -> Pages] :
        use = [p \in Pages |->
           IF \E b \in Boot : give[b] = p THEN CHOOSE b \in Boot : give[b] = p ELSE <<"free">>]
    BY DEF Init
  <2>1. \A p \in Pages : use[p] \in Boot \cup {<<"free">>}
    OBVIOUS
  <2> QED BY <2>1, KindsDiffer
<1> QED BY <1>1, <1>2 DEF Memory!Init

LEMMA MemoryFrame ==
  ASSUME UNCHANGED live,
         \A p \in Pages : use'[p] = <<"whole">> <=> use[p] = <<"whole">>,
         \A c \in Cpus : /\ pc'[c] = "unlock" <=> pc[c] = "unlock"
                         /\ pc[c] = "unlock" => block'[c] = block[c]
  PROVE  UNCHANGED <<InUseNow, ServedNow>>
<1>1. {q \in Pages : use'[q] = <<"whole">>} = {q \in Pages : use[q] = <<"whole">>}
  OBVIOUS
<1>2. Whole(Pages)' = Whole(Pages)
  BY <1>1 DEF Whole
<1>3. ServedNow' = ServedNow
  BY DEF ServedNow
<1> QED BY <1>2, <1>3 DEF InUseNow

(* find_the_free_space_in_slab chooses a block ...                          *)
LEMMA TakeChooses ==
  ASSUME SlabInv, NEW c \in Cpus, TakeBlock(c)
  PROVE  \E b \in Places : Memory!Choose(c, {b})
<1>1. /\ pc[c] = "take" /\ pc' = [pc EXCEPT ![c] = "unlock"] /\ UNCHANGED <<heap, live, block>>
  BY DEF TakeBlock, Goto
<1>2. /\ page[c] \in Pages /\ IsSlab(page[c])
      /\ seen[c] = list[page[c]] /\ seen[c] # <<>>
      /\ block[c] = <<page[c], Head(seen[c])>> /\ block[c] \in Places \cup {None}
  BY <1>1, OwnPage DEF SlabInv, CallOK, SlabType
<1> DEFINE p == page[c]
           n == Head(list[p])
<1>3. ListOK(p) /\ \A i \in NumbersOf(p) : ExactlyOne(p, i)
  BY <1>2 DEF SlabInv, BlocksOK
<1>4. n \in NumbersOf(p) /\ InList(p, n)
  BY <1>2, <1>3, ListTail DEF ListOK, InList
<1>5. ~OnWay(p, n) /\ ~InUse(p, n)
  BY <1>3, <1>4 DEF ExactlyOne
<1>6. block[c] = <<p, n>> /\ <<p, n>> \in Places
  <2>1. use[p][2] \in Classes
    BY <1>2 DEF IsSlab, Boot
  <2>2. n \in Numbers
    BY <1>4, <2>1 DEF Numbers, NumbersOf
  <2> QED BY <1>2, <2>2 DEF Places
<1>7. <<p, n>> \notin TakenNow
  <2>1. <<p, n>> \notin live
    BY <1>5 DEF InUse
  <2>2. \A d \in Cpus : pc[d] = "unlock" => block[d] # <<p, n>>
    BY <1>5 DEF OnWay, InHand
  <2>3. \A q \in Pages : use[q] = <<"whole">> => <<p, n>> \notin Units(q)
    BY <1>2, KindsDiffer DEF Units, IsSlab
  <2> QED BY <2>1, <2>2, <2>3, TakenAre
<1>8. ServedNow[c] = {} /\ ServedNow' = [ServedNow EXCEPT ![c] = {<<p, n>>}]
  <2>1. pc \in [Cpus -> {"idle", "search", "look", "take", "unlock", "wait", "push", "link", "open"}]
    BY DEF SlabInv, SlabType
  <2> HIDE DEF p, n
  <2> QED BY <1>1, <1>6, <2>1 DEF ServedNow
<1>9. InUseNow' = InUseNow
  BY <1>1 DEF InUseNow, Whole, heap
<1> HIDE DEF p, n
<1> PICK b \in Places : b = block[c]
  BY <1>6
<1>10. Memory!Choose(c, {b})
  <2>1. Memory!Taken = TakenNow
    BY DEF Memory!Taken, TakenNow, InUseNow, ServedNow, Whole
  <2>2. {b} \cap TakenNow = {}
    BY <1>6, <1>7
  <2>3. ServedNow[c] = {} /\ ServedNow' = [ServedNow EXCEPT ![c] = {b}]
    BY <1>6, <1>8
  <2> HIDE DEF TakenNow
  <2> QED BY <1>9, <2>1, <2>2, <2>3 DEF Memory!Choose, InUseNow, ServedNow, Whole
<1> QED BY <1>10

(* ... which kalloc returns after spin_unlock.                              *)
LEMMA UnlockDelivers ==
  ASSUME SlabInv, NEW c \in Cpus, UnlockTaken(c)
  PROVE  Memory!Deliver(c)
<1>1. /\ pc[c] = "unlock" /\ pc' = [pc EXCEPT ![c] = "idle"] /\ UNCHANGED heap
      /\ live' = live \cup {block[c]} /\ block' = [block EXCEPT ![c] = None]
  BY DEF UnlockTaken, Return, Goto
<1>2. /\ pc \in [Cpus -> {"idle", "search", "look", "take", "unlock", "wait", "push", "link", "open"}]
      /\ block \in [Cpus -> Places \cup {None}]
  BY DEF SlabInv, SlabType
<1>3. ServedNow[c] = {block[c]} /\ ServedNow' = [ServedNow EXCEPT ![c] = {}]
  BY <1>1, <1>2 DEF ServedNow
<1>4. InUseNow' = InUseNow \cup {ServedNow[c]}
  <2>1. Whole(Pages)' = Whole(Pages)
    BY <1>1 DEF Whole, heap
  <2>2. {{b} : b \in live'} = {{b} : b \in live} \cup {{block[c]}}
    BY <1>1
  <2> QED BY <1>3, <2>1, <2>2 DEF InUseNow
<1> QED BY <1>3, <1>4 DEF Memory!Deliver, InUseNow, ServedNow, Whole

(* slab_free gives a block back when it is called.                          *)
LEMMA FreeFrees ==
  ASSUME SlabInv, NEW c \in Cpus, NEW b \in live, slab_free(c, b)
  PROVE  b \in Places /\ Memory!Free({b})
<1>1. /\ pc[c] = "idle" /\ pc' = [pc EXCEPT ![c] = "wait"] /\ UNCHANGED heap
      /\ live' = live \ {b} /\ block' = [block EXCEPT ![c] = b]
  BY DEF slab_free, Goto
<1>2. /\ pc \in [Cpus -> {"idle", "search", "look", "take", "unlock", "wait", "push", "link", "open"}]
      /\ block \in [Cpus -> Places \cup {None}]
      /\ b \in Places
  BY DEF SlabInv, SlabType
<1>3. ServedNow' = ServedNow
  BY <1>1, <1>2 DEF ServedNow
<1>4. InUseNow' = InUseNow \ {{b}} /\ {b} \in InUseNow
  <2>1. Whole(Pages)' = Whole(Pages) /\ {b} \notin Whole(Pages)
    BY <1>1, <1>2, UnitsApart DEF Whole, heap
  <2>2. {{x} : x \in live'} = {{x} : x \in live} \ {{b}}
    BY <1>1
  <2> QED BY <2>1, <2>2 DEF InUseNow
<1> QED BY <1>2, <1>3, <1>4 DEF Memory!Free, InUseNow, ServedNow, Whole

(* Whole pages come from bbma_alloc and go back to it.                      *)
LEMMA WholeAllocates ==
  ASSUME SlabInv, NEW c \in Cpus, NEW p \in Pages, AllocWhole(c, p)
  PROVE  Memory!Alloc(Units(p))
<1>1. /\ use[p] = <<"free">> /\ use' = [use EXCEPT ![p] = <<"whole">>] /\ UNCHANGED <<live, pc, block>>
      /\ use \in [Pages -> {<<"free">>, <<"whole">>} \cup Boot]
  BY DEF SlabInv, SlabType, AllocWhole, blocks, cpu
<1>2. Units(p) \cap TakenNow = {}
  <2> SUFFICES ASSUME NEW b \in Units(p), b \in TakenNow PROVE FALSE
      OBVIOUS
  <2>1. ~IsSlab(p) /\ use[p] # <<"whole">> /\ b[1] = p
    BY <1>1, KindsDiffer DEF IsSlab, Units
  <2>2. CASE b \in live \/ \E d \in Cpus : pc[d] = "unlock" /\ block[d] = b
    <3>1. Valid(b)
      BY <2>2 DEF SlabInv, HandsOK, InHand
    <3> QED BY <2>1, <3>1 DEF Valid
  <2>3. CASE \E q \in Pages : use[q] = <<"whole">> /\ b \in Units(q)
    BY <2>1, <2>3, UnitsApart
  <2> QED BY <2>2, <2>3, TakenAre
<1>3. ServedNow' = ServedNow
  BY <1>1 DEF ServedNow
<1>4. InUseNow' = InUseNow \cup {Units(p)}
  <2>1. {q \in Pages : use'[q] = <<"whole">>} = {q \in Pages : use[q] = <<"whole">>} \cup {p}
    BY <1>1
  <2>2. Whole(Pages)' = Whole(Pages) \cup {Units(p)}
    BY <2>1 DEF Whole
  <2> QED BY <1>1, <2>2 DEF InUseNow
<1> QED BY <1>2, <1>3, <1>4 DEF Memory!Alloc, Memory!Taken, TakenNow, InUseNow, ServedNow, Whole

LEMMA WholeFrees ==
  ASSUME SlabInv, NEW c \in Cpus, NEW p \in Pages, FreeWhole(c, p)
  PROVE  Memory!Free(Units(p))
<1>1. /\ use[p] = <<"whole">> /\ use' = [use EXCEPT ![p] = <<"free">>] /\ UNCHANGED <<live, pc, block>>
      /\ use \in [Pages -> {<<"free">>, <<"whole">>} \cup Boot] /\ live \subseteq Places
  BY DEF SlabInv, SlabType, FreeWhole, blocks, cpu
<1>2. ServedNow' = ServedNow
  BY <1>1 DEF ServedNow
<1>3. InUseNow' = InUseNow \ {Units(p)} /\ Units(p) \in InUseNow
  <2>1. {q \in Pages : use'[q] = <<"whole">>} = {q \in Pages : use[q] = <<"whole">>} \ {p}
    BY <1>1, KindsDiffer
  <2>2. \A q \in Pages : Units(q) = Units(p) => q = p
    BY UnitsApart
  <2>3. Whole(Pages)' = Whole(Pages) \ {Units(p)}
    BY <2>1, <2>2 DEF Whole
  <2>4. \A b \in live : {b} # Units(p)
    BY <1>1, UnitsApart
  <2>5. Units(p) \in Whole(Pages)
    BY <1>1 DEF Whole
  <2> QED BY <1>1, <2>3, <2>4, <2>5 DEF InUseNow
<1> QED BY <1>2, <1>3 DEF Memory!Free, InUseNow, ServedNow, Whole

LEMMA MemoryStep == SlabInv /\ [Next]_vars => [Memory!Next]_<<InUseNow, ServedNow>>
<1> SUFFICES ASSUME SlabInv, [Next]_vars PROVE [Memory!Next]_<<InUseNow, ServedNow>>
    OBVIOUS
<1>1. /\ pc \in [Cpus -> {"idle", "search", "look", "take", "unlock", "wait", "push", "link", "open"}]
      /\ block \in [Cpus -> Places \cup {None}]
      /\ use \in [Pages -> {<<"free">>, <<"whole">>} \cup Boot]
  BY DEF SlabInv, SlabType
<1>2. CASE UNCHANGED vars
  <2>1. UNCHANGED <<live, use, pc, block>>
    BY <1>2 DEF vars, heap, blocks, cpu
  <2> QED BY <2>1, MemoryFrame
<1>3. CASE Next
  <2> PICK c \in Cpus :
        \/ \E k \in Classes : slab_alloc(c, k)
        \/ \E b \in live : slab_free(c, b)
        \/ \E p \in Pages : AllocWhole(c, p) \/ FreeWhole(c, p)
        \/ LockPage(c)
        \/ Step(c)
    BY <1>3 DEF Next
  <2>1. CASE \/ \E k \in Classes : slab_alloc(c, k)
             \/ LockPage(c) \/ PassPage(c) \/ FirstBlock(c) \/ GrowFails(c)
             \/ ReadList(c) \/ PushBlock(c) \/ UnlockFreed(c)
    <3>1. /\ UNCHANGED <<live, use>>
          /\ \E where \in {"idle", "search", "look", "take", "wait", "push", "link", "open"} :
               pc' = [pc EXCEPT ![c] = where]
          /\ \/ UNCHANGED block
             \/ \E b : block' = [block EXCEPT ![c] = b]
          /\ pc[c] # "unlock"
      BY <2>1 DEF slab_alloc, LockPage, PassPage, FirstBlock, GrowFails, ReadList, PushBlock,
         UnlockFreed, Goto, Return, heap, blocks, cpu
    <3> QED BY <1>1, <3>1, MemoryFrame
  <2>2. CASE \E p \in Pages : GrowBy(c, p)
    <3>1. PICK p \in Pages : GrowBy(c, p)
      BY <2>2
    <3>2. /\ UNCHANGED <<live, pc, block>> /\ use[p] = <<"free">>
          /\ use' = [use EXCEPT ![p] = <<c, class[c]>>]
      BY <3>1 DEF GrowBy
    <3>3. <<c, class[c]>> # <<"whole">> /\ <<"free">> # <<"whole">>
      BY KindsDiffer
    <3> QED BY <1>1, <3>2, <3>3, MemoryFrame
  <2>3. CASE TakeBlock(c)
    <3> PICK b \in Places : Memory!Choose(c, {b})
      BY <2>3, TakeChooses
    <3> QED BY DEF Memory!Next
  <2>4. CASE UnlockTaken(c)
    BY <2>4, UnlockDelivers DEF Memory!Next
  <2>5. CASE \E b \in live : slab_free(c, b)
    BY <2>5, FreeFrees DEF Memory!Next
  <2>6. CASE \E p \in Pages : AllocWhole(c, p) \/ FreeWhole(c, p)
    BY <2>6, WholeAllocates, WholeFrees DEF Memory!Next
  <2> QED BY <2>1, <2>2, <2>3, <2>4, <2>5, <2>6 DEF Step
<1> QED BY <1>2, <1>3

(* A small block, given out by slab_alloc and taken back by slab_free, and  *)
(* a page of bbma_alloc never overlap anything in use or about to be        *)
(* returned: together they implement the abstract allocator.  The block is  *)
(* chosen when it is unlinked and delivered when the page is unlocked.      *)
THEOREM KallocRefinement == Spec => ImplementsAllocator
<1>1. Init => SlabInv
  BY SlabInit
<1>2. SlabInv /\ [Next]_vars => SlabInv'
  BY SlabStep
<1> QED BY <1>1, <1>2, MemoryInit, MemoryStep, PTL
        DEF Spec, ImplementsAllocator, Memory!Spec, InUseNow, ServedNow, Whole

-----------------------------------------------------------------------------
(* Every variable keeps its type: above all the counter of free blocks is   *)
(* never negative, and a list holds only blocks that its page was cut into. *)
THEOREM SlabTyped == Spec => []TypeOK
<1>1. SlabInv => TypeOK
  <2> SUFFICES ASSUME SlabInv PROVE TypeOK
      OBVIOUS
  <2>1. \A p \in Pages : list[p] \in Seq(IF use[p] \in Boot THEN 1 .. Count[use[p][2]] ELSE {})
    <3> SUFFICES ASSUME NEW p \in Pages
                 PROVE  list[p] \in Seq(IF use[p] \in Boot THEN 1 .. Count[use[p][2]] ELSE {})
        OBVIOUS
    <3>1. CASE IsSlab(p)
      BY <3>1 DEF SlabInv, BlocksOK, ListOK, NumbersOf, IsSlab
    <3>2. CASE ~IsSlab(p)
      <4>1. list[p] = <<>> /\ <<>> \in Seq({})
        BY <3>2 DEF SlabInv, BlocksOK
      <4> QED BY <3>2, <4>1 DEF IsSlab
    <3> QED BY <3>1, <3>2
  <2>2. \A p \in Pages : count[p] \in Nat
    <3> SUFFICES ASSUME NEW p \in Pages PROVE count[p] \in Nat
        OBVIOUS
    <3>1. CASE IsSlab(p)
      <4>1. list[p] \in Seq(NumbersOf(p)) /\ count[p] = Len(list[p])
        BY <3>1 DEF SlabInv, BlocksOK, ListOK
      <4> QED BY <4>1
    <3>2. CASE ~IsSlab(p)
      BY <3>2 DEF SlabInv, BlocksOK
    <3> QED BY <3>1, <3>2
  <2>3. count \in [Pages -> Nat]
    BY <2>2 DEF SlabInv, SlabType
  <2> QED BY <2>1, <2>3 DEF TypeOK, SlabInv, SlabType
<1> QED BY <1>1, SlabInvariant, PTL
-----------------------------------------------------------------------------
(* The lists of pages.                                                      *)

(* Induction over an interval of numbers, from the least that would fail.   *)
Less == {ss \in Nat \X Nat : ss[1] < ss[2]}

LEMMA LeastNatural ==
  ASSUME NEW S, S \subseteq Nat, S # {}
  PROVE  \E n \in S : \A m \in S : n <= m
<1>1. IsWellFoundedOn(Less, Nat)
  BY NatLessThanWellFounded DEF Less, OpToRel
<1>2. PICK n \in S : \A m \in S : <<m, n>> \notin Less
  BY <1>1, WFMin
<1>3. ASSUME NEW m \in S PROVE n <= m
  <2>1. m \in Nat /\ n \in Nat
    OBVIOUS
  <2>2. ~(m < n)
    BY <1>2, <2>1 DEF Less
  <2> QED BY <2>1, <2>2
<1> QED BY <1>3

LEMMA Induction ==
  ASSUME NEW S, NEW b \in Nat, 0 \in S, \A k \in 0 .. b : k \in S /\ k < b => k + 1 \in S
  PROVE  0 .. b \subseteq S
<1> DEFINE C == {k \in 0 .. b : k \notin S}
<1> SUFFICES ASSUME C # {} PROVE FALSE
  OBVIOUS
<1>1. PICK n \in C : \A m \in C : n <= m
  <2>1. C \subseteq Nat
    OBVIOUS
  <2> HIDE DEF C
  <2> QED BY <2>1, LeastNatural
<1>2. n \in 0 .. b /\ n \notin S /\ n # 0
  BY <1>1
<1>3. n - 1 \in 0 .. b /\ n - 1 < n /\ n - 1 < b /\ (n - 1) + 1 = n
  BY <1>2
<1>4. n - 1 \in S
  <2>1. n - 1 \notin C
    BY <1>1, <1>3, <1>2
  <2> QED BY <2>1, <1>3
<1> QED BY <1>2, <1>3, <1>4

(* The pages of a CPU and class are one list: f[1] is the newest, f[n] the  *)
(* one slab_init took.                                                      *)
Own(c, k) == {p \in Pages : use[p] = <<c, k>>}
IsPageList(f, n, c, k) ==
  /\ f \in [1 .. n -> Own(c, k)]
  /\ f[1] = area[c][k]
  /\ \A i \in 1 .. n - 1 : next[f[i]] = f[i + 1]
  /\ next[f[n]] = None
  /\ \A p \in Own(c, k) : \E i \in 1 .. n : f[i] = p
  /\ \A i, j \in 1 .. n : f[i] = f[j] => i = j
OneList == \A c \in Cpus, k \in Classes : \E n \in Nat \ {0} : \E f : IsPageList(f, n, c, k)

LEMMA InitList == Init => OneList
<1> SUFFICES ASSUME Init, NEW c \in Cpus, NEW k \in Classes
             PROVE  \E n \in Nat \ {0} : \E f : IsPageList(f, n, c, k)
  BY DEF OneList
<1>1. PICK give \in [Boot -> Pages] :
        /\ IsInjective(give)
        /\ use = [p \in Pages |->
             IF \E b \in Boot : give[b] = p THEN CHOOSE b \in Boot : give[b] = p ELSE <<"free">>]
        /\ next = [p \in Pages |-> None]
        /\ area = [d \in Cpus |-> [l \in Classes |-> give[<<d, l>>]]]
  BY DEF Init
<1> DEFINE q == give[<<c, k>>]
           f == [i \in 1 .. 1 |-> q]
<1>2. <<c, k>> \in Boot /\ q \in Pages /\ area[c][k] = q
  BY <1>1 DEF Boot
<1>3. ASSUME NEW b \in Boot, NEW e \in Boot, give[b] = give[e] PROVE b = e
  BY <1>1, <1>3 DEF IsInjective
<1>4. ASSUME NEW p \in Pages PROVE use[p] = <<c, k>> <=> p = q
  <2>1. ASSUME NEW b \in Boot, give[b] = p PROVE use[p] = b
    BY <1>1, <1>3, <2>1
  <2>2. (\A b \in Boot : give[b] # p) => use[p] = <<"free">>
    BY <1>1
  <2> QED BY <1>2, <2>1, <2>2, KindsDiffer
<1>5. Own(c, k) = {q}
  BY <1>2, <1>4 DEF Own
<1>6. f \in [1 .. 1 -> Own(c, k)] /\ f[1] = q /\ next[q] = None
  BY <1>1, <1>2, <1>5
<1> HIDE DEF q, f
<1>7. IsPageList(f, 1, c, k)
  BY <1>2, <1>5, <1>6 DEF IsPageList
<1> QED BY <1>7

(* A list that no step of another call touches.                             *)
LEMMA ListFrame ==
  ASSUME NEW c \in Cpus, NEW k \in Classes, NEW n \in Nat \ {0}, NEW f, IsPageList(f, n, c, k),
         Own(c, k)' = Own(c, k), area'[c][k] = area[c][k],
         \A p \in Own(c, k) : next'[p] = next[p]
  PROVE  IsPageList(f, n, c, k)'
<1>1. \A i \in 1 .. n : f[i] \in Own(c, k)
  BY DEF IsPageList
<1>2. \A i \in 1 .. n - 1 : i \in 1 .. n
  OBVIOUS
<1>3. n \in 1 .. n
  OBVIOUS
<1> QED BY <1>1, <1>2, <1>3 DEF IsPageList

LEMMA GrowList ==
  ASSUME SlabInv, OneList, NEW c \in Cpus, NEW p \in Pages, GrowBy(c, p)
  PROVE  OneList'
<1>0. PICK k : k = class[c]
  OBVIOUS
<1>1. k \in Classes /\ use[p] = <<"free">> /\ \A d, l : <<"free">> # <<d, l>>
  <2>1. ASSUME NEW d, NEW l PROVE Len(<<"free">>) # Len(<<d, l>>)
    OBVIOUS
  <2> QED BY <1>0, <2>1 DEF GrowBy, SlabInv, CallOK
<1>2. /\ use' = [use EXCEPT ![p] = <<c, k>>]
      /\ next' = [next EXCEPT ![p] = area[c][k]]
      /\ area' = [area EXCEPT ![c][k] = p]
      /\ use \in [Pages -> {<<"free">>, <<"whole">>} \cup Boot] /\ next \in [Pages -> Pages \cup {None}]
      /\ area \in [Cpus -> [Classes -> Pages]]
  BY <1>0 DEF GrowBy, Linked, SlabInv, SlabType
<1>3. \A d, l : p \notin Own(d, l)
  BY <1>1 DEF Own
<1>4. ASSUME NEW d \in Cpus, NEW l \in Classes, <<d, l>> # <<c, k>>
      PROVE  \E n \in Nat \ {0} : \E f : IsPageList(f, n, d, l)'
  <2>1. PICK n \in Nat \ {0} : \E f : IsPageList(f, n, d, l)
    BY DEF OneList
  <2>2. PICK f : IsPageList(f, n, d, l)
    BY <2>1
  <2>3. Own(d, l)' = Own(d, l)
    <3>1. \A q \in Pages : use'[q] = <<d, l>> <=> use[q] = <<d, l>>
      BY <1>1, <1>2, <1>4
    <3> QED BY <3>1 DEF Own
  <2>4. area'[d][l] = area[d][l]
    BY <1>2, <1>4
  <2>5. \A q \in Own(d, l) : next'[q] = next[q]
    BY <1>2, <1>3 DEF Own
  <2>6. IsPageList(f, n, d, l)'
    BY <2>2, <2>3, <2>4, <2>5, ListFrame
  <2> QED BY <2>6
<1>5. \E n \in Nat \ {0} : \E f : IsPageList(f, n, c, k)'
  <2>1. PICK n \in Nat \ {0} : \E f : IsPageList(f, n, c, k)
    BY <1>1 DEF OneList
  <2>2. PICK f : IsPageList(f, n, c, k)
    BY <2>1
  <2> DEFINE g == [i \in 1 .. n + 1 |-> IF i = 1 THEN p ELSE f[i - 1]]
  <2>3. Own(c, k)' = Own(c, k) \cup {p}
    <3>1. \A q \in Pages : use'[q] = <<c, k>> <=> use[q] = <<c, k>> \/ q = p
      BY <1>1, <1>2
    <3> QED BY <3>1 DEF Own
  <2>4. area'[c][k] = p /\ next'[p] = area[c][k] /\ \A q \in Own(c, k) : next'[q] = next[q] /\ q # p
    BY <1>1, <1>2, <1>3 DEF Own
  <2>5. g[1] = p /\ \A i \in 2 .. n + 1 : g[i] = f[i - 1] /\ f[i - 1] \in Own(c, k) /\ i - 1 \in 1 .. n
    BY <2>2 DEF IsPageList
  <2>6. DOMAIN g = 1 .. n + 1 /\ g = [i \in 1 .. n + 1 |-> g[i]]
    OBVIOUS
  <2> HIDE DEF g
  <2>7. \A i \in 1 .. n + 1 : i = 1 \/ i \in 2 .. n + 1
    OBVIOUS
  <2>8. g \in [1 .. n + 1 -> Own(c, k)']
    BY <2>3, <2>5, <2>6, <2>7
  <2>9. ASSUME NEW i \in 1 .. (n + 1) - 1 PROVE next'[g[i]] = g[i + 1]
    <3>1. CASE i = 1
      <4>1. g[i + 1] = f[1] /\ g[i] = p
        BY <2>5, <3>1
      <4>2. f[1] = area[c][k]
        BY <2>2 DEF IsPageList
      <4> QED BY <2>4, <4>1, <4>2
    <3>2. CASE i # 1
      <4>1. i \in 2 .. n + 1 /\ i + 1 \in 2 .. n + 1 /\ i - 1 \in 1 .. n - 1 /\ (i + 1) - 1 = (i - 1) + 1
        BY <3>2
      <4>2. next[f[i - 1]] = f[(i - 1) + 1]
        BY <2>2, <4>1 DEF IsPageList
      <4>3. g[i] = f[i - 1] /\ g[i + 1] = f[(i + 1) - 1] /\ f[i - 1] \in Own(c, k)
        BY <2>5, <4>1
      <4> QED BY <2>4, <4>1, <4>2, <4>3
    <3> QED BY <3>1, <3>2
  <2>10. next'[g[n + 1]] = None
    <3>1. n + 1 \in 2 .. n + 1 /\ (n + 1) - 1 = n
      OBVIOUS
    <3>2. g[n + 1] = f[n] /\ f[n] \in Own(c, k)
      BY <2>5, <3>1
    <3>3. next[f[n]] = None
      BY <2>2 DEF IsPageList
    <3> QED BY <2>4, <3>2, <3>3
  <2>11. ASSUME NEW q \in Own(c, k)' PROVE \E i \in 1 .. n + 1 : g[i] = q
    <3>1. CASE q = p
      <4>1. 1 \in 1 .. n + 1
        OBVIOUS
      <4> QED BY <2>5, <3>1, <4>1
    <3>2. CASE q \in Own(c, k)
      <4>1. PICK i \in 1 .. n : f[i] = q
        BY <2>2, <3>2 DEF IsPageList
      <4>2. i + 1 \in 2 .. n + 1 /\ (i + 1) - 1 = i /\ i + 1 \in 1 .. n + 1
        OBVIOUS
      <4> QED BY <2>5, <4>1, <4>2
    <3> QED BY <2>3, <3>1, <3>2
  <2>12. ASSUME NEW i \in 1 .. n + 1, NEW j \in 1 .. n + 1, g[i] = g[j] PROVE i = j
    <3>1. CASE i # 1 /\ j # 1
      <4>1. g[i] = f[i - 1] /\ g[j] = f[j - 1] /\ i - 1 \in 1 .. n /\ j - 1 \in 1 .. n
        BY <2>5, <2>7, <3>1
      <4>2. f[i - 1] = f[j - 1]
        BY <2>12, <4>1
      <4>3. i - 1 = j - 1
        BY <2>2, <4>1, <4>2 DEF IsPageList
      <4> QED BY <4>3
    <3>2. CASE i = 1 \/ j = 1
      BY <2>4, <2>5, <2>7, <2>12, <3>2
    <3> QED BY <3>1, <3>2
  <2>13. IsPageList(g, n + 1, c, k)'
    BY <2>4, <2>5, <2>8, <2>9, <2>10, <2>11, <2>12 DEF IsPageList
  <2> QED BY <2>13
<1>6. \A d \in Cpus, l \in Classes : \E n \in Nat \ {0} : \E f : IsPageList(f, n, d, l)'
  BY <1>4, <1>5
<1> QED BY <1>6 DEF OneList

LEMMA ListStep == SlabInv /\ OneList /\ [Next]_vars => OneList'
<1> SUFFICES ASSUME SlabInv, OneList, [Next]_vars PROVE OneList'
  OBVIOUS
<1>1. CASE \E c \in Cpus, p \in Pages : GrowBy(c, p)
  BY <1>1, GrowList
<1>2. ASSUME UNCHANGED <<next, area>>, \A c \in Cpus, k \in Classes : Own(c, k)' = Own(c, k)
      PROVE  OneList'
  <2>1. ASSUME NEW c \in Cpus, NEW k \in Classes
        PROVE  \E n \in Nat \ {0} : \E f : IsPageList(f, n, c, k)'
    <3>1. PICK n \in Nat \ {0} : \E f : IsPageList(f, n, c, k)
      BY DEF OneList
    <3>2. PICK f : IsPageList(f, n, c, k)
      BY <3>1
    <3>3. IsPageList(f, n, c, k)'
      BY <1>2, <3>2, ListFrame
    <3> QED BY <3>3
  <2> QED BY <2>1 DEF OneList
<1>3. CASE UNCHANGED heap
  BY <1>2, <1>3 DEF heap, Own
<1>4. ASSUME NEW c \in Cpus, NEW p \in Pages, AllocWhole(c, p) \/ FreeWhole(c, p) PROVE OneList'
  <2>1. ASSUME NEW d \in Cpus, NEW k \in Classes PROVE Own(d, k)' = Own(d, k)
    <3>1. <<d, k>> \in Boot /\ use \in [Pages -> {<<"free">>, <<"whole">>} \cup Boot]
      BY DEF Boot, SlabInv, SlabType
    <3>2. \A q \in Pages : use'[q] = <<d, k>> <=> use[q] = <<d, k>>
      BY <1>4, <3>1, KindsDiffer DEF AllocWhole, FreeWhole
    <3> QED BY <3>2 DEF Own
  <2> QED BY <1>2, <1>4, <2>1 DEF AllocWhole, FreeWhole
<1>5. \/ UNCHANGED heap
      \/ \E c \in Cpus, p \in Pages : GrowBy(c, p)
      \/ \E c \in Cpus, p \in Pages : AllocWhole(c, p) \/ FreeWhole(c, p)
  BY DEF Next, Step, slab_alloc, LockPage, PassPage, FirstBlock, TakeBlock, UnlockTaken, GrowFails,
     slab_free, ReadList, PushBlock, UnlockFreed, vars
<1> QED BY <1>1, <1>3, <1>4, <1>5

LEMMA ListInvariant == Spec => []OneList
<1>1. Init => OneList
  BY InitList
<1> QED BY <1>1, SlabInvariant, ListStep, PTL DEF Spec

(* The first j + 1 pages of a list, and None once there are fewer.          *)
Reached(f, n, j) == {f[i] : i \in {x \in 1 .. n : x <= j + 1}} \cup {y \in {None} : n <= j}

LEMMA FurtherReached ==
  ASSUME SlabInv, NEW c \in Cpus, NEW k \in Classes, NEW n \in Nat \ {0}, NEW f, IsPageList(f, n, c, k),
         NEW j \in Nat \ {0}
  PROVE  Reached(f, n, j) =
           Reached(f, n, j - 1) \cup {next[q] : q \in Reached(f, n, j - 1) \ {None}}
<1> DEFINE Before == Reached(f, n, j - 1)
<1>1. ASSUME NEW i \in 1 .. n
      PROVE  /\ f[i] \in Pages /\ f[i] # None
             /\ i # n => i + 1 \in 1 .. n /\ next[f[i]] = f[i + 1]
             /\ i = n => next[f[i]] = None
  <2>1. f[i] \in Own(c, k)
    BY DEF IsPageList
  <2>2. i # n => i \in 1 .. n - 1 /\ i + 1 \in 1 .. n
    OBVIOUS
  <2> QED BY <2>1, <2>2, PagesAssumption DEF Own, IsPageList
<1>2. \A x : x \in Before <=> (\E i \in 1 .. n : i <= j /\ x = f[i]) \/ (x = None /\ n <= j - 1)
  BY DEF Reached
<1>3. \A x : x \in Reached(f, n, j) <=> (\E i \in 1 .. n : i <= j + 1 /\ x = f[i]) \/ (x = None /\ n <= j)
  BY DEF Reached
<1> HIDE DEF Before
<1>4. ASSUME NEW x \in Reached(f, n, j) PROVE x \in Before \cup {next[q] : q \in Before \ {None}}
  <2>1. CASE x = None /\ n <= j
    <3>1. n \in 1 .. n
      OBVIOUS
    <3>2. f[n] \in Before \ {None} /\ next[f[n]] = None
      BY <1>1, <1>2, <2>1, <3>1
    <3> QED BY <2>1, <3>2
  <2>2. ASSUME NEW i \in 1 .. n, i <= j + 1, x = f[i]
        PROVE  x \in Before \cup {next[q] : q \in Before \ {None}}
    <3>1. CASE i <= j
      BY <1>2, <2>2, <3>1
    <3>2. CASE i = j + 1
      <4>1. j \in 1 .. n /\ j # n /\ j <= j
        BY <3>2
      <4>2. f[j] \in Before \ {None} /\ next[f[j]] = x
        BY <1>1, <1>2, <2>2, <3>2, <4>1
      <4> QED BY <4>2
    <3> QED BY <2>2, <3>1, <3>2
  <2> QED BY <1>3, <2>1, <2>2
<1>5. ASSUME NEW x \in Before PROVE x \in Reached(f, n, j)
  BY <1>2, <1>3
<1>6. ASSUME NEW q \in Before \ {None} PROVE next[q] \in Reached(f, n, j)
  <2>1. PICK i \in 1 .. n : i <= j /\ q = f[i]
    BY <1>2
  <2>2. CASE i = n
    BY <1>1, <1>3, <2>1, <2>2
  <2>3. CASE i # n
    <3>1. i + 1 \in 1 .. n /\ next[q] = f[i + 1] /\ i + 1 <= j + 1
      BY <1>1, <2>1, <2>3
    <3> QED BY <1>3, <3>1
  <2> QED BY <2>2, <2>3
<1> QED BY <1>4, <1>5, <1>6 DEF Before

LEMMA FromIs ==
  ASSUME IsFiniteSet(Pages), SlabInv, NEW c \in Cpus, NEW k \in Classes, NEW n \in Nat \ {0}, NEW f,
         IsPageList(f, n, c, k)
  PROVE  From(area[c][k]) = Own(c, k) \cup {None}
<1> DEFINE N == Cardinality(Pages)
           D == 0 .. N
           p == area[c][k]
           E(h) == [j \in D |-> IF j = 0 THEN {p} ELSE h[j - 1] \cup {next[q] : q \in h[j - 1] \ {None}}]
           g == [j \in D |-> Reached(f, n, j)]
<1>1. N \in Nat /\ n <= N
  <2>1. f \in Injection(1 .. n, Pages)
    <3>1. f \in [1 .. n -> Pages]
      BY DEF IsPageList, Own
    <3>2. DOMAIN f = 1 .. n
      BY <3>1
    <3> QED BY <3>1, <3>2 DEF Injection, IsInjective, IsPageList
  <2>2. Cardinality(1 .. n) = n
    BY FS_Interval
  <2> QED BY <2>1, <2>2, FS_Injection, FS_CardinalityType
<1> HIDE DEF N
<1>2. Reached(f, n, 0) = {p}
  <2>1. {x \in 1 .. n : x <= 0 + 1} = {1} /\ ~(n <= 0)
    OBVIOUS
  <2> QED BY <2>1 DEF Reached, IsPageList
<1>3. ASSUME NEW j \in D, j # 0
      PROVE  j - 1 \in D /\ g[j] = g[j - 1] \cup {next[q] : q \in g[j - 1] \ {None}}
  <2>1. j \in Nat \ {0} /\ j - 1 \in D
    BY <1>1, <1>3
  <2> QED BY <2>1, FurtherReached
<1>4. 0 \in D /\ g[0] = {p}
  BY <1>1, <1>2
<1>5. g = E(g)
  <2>1. \A j \in D : g[j] = E(g)[j]
    BY <1>3, <1>4
  <2>2. DOMAIN E(g) = D /\ DOMAIN g = D /\ g = [j \in D |-> g[j]] /\ E(g) = [j \in D |-> E(g)[j]]
    OBVIOUS
  <2> HIDE DEF E, g
  <2> QED BY <2>1, <2>2
<1>6. PICK far : far = E(far) /\ From(p) = far[N]
  <2>1. From(p) = (CHOOSE h : h = E(h))[N]
    BY DEF From, N
  <2>2. (CHOOSE h : h = E(h)) = E(CHOOSE h : h = E(h))
    <3> HIDE DEF E, g
    <3> QED BY <1>5
  <2> QED BY <2>1, <2>2
<1> DEFINE S == {j \in D : far[j] = g[j]}
<1>7. 0 \in S
  BY <1>4, <1>6
<1>8. ASSUME NEW j \in D, j \in S, j < N PROVE j + 1 \in S
  <2>1. j + 1 \in D /\ j + 1 # 0 /\ (j + 1) - 1 = j
    BY <1>1, <1>8
  <2>2. far[j + 1] = far[j] \cup {next[q] : q \in far[j] \ {None}}
    BY <1>6, <2>1
  <2>3. g[j + 1] = g[j] \cup {next[q] : q \in g[j] \ {None}}
    BY <1>3, <2>1
  <2>4. far[j] = g[j]
    BY <1>8
  <2> HIDE DEF g
  <2> QED BY <2>1, <2>2, <2>3, <2>4
<1>9. N \in D /\ D \subseteq S
  <2> HIDE DEF S
  <2> QED BY <1>1, <1>7, <1>8, Induction
<1>10. From(p) = Reached(f, n, N)
  BY <1>6, <1>9
<1>11. Reached(f, n, N) = Own(c, k) \cup {None}
  <2>1. \A i \in 1 .. n : i <= N + 1 /\ f[i] \in Own(c, k)
    BY <1>1 DEF IsPageList
  <2>2. \A q \in Own(c, k) : \E i \in 1 .. n : f[i] = q
    BY DEF IsPageList
  <2> QED BY <1>1, <2>1, <2>2 DEF Reached
<1> QED BY <1>10, <1>11

(* Theorem: with finitely many pages, however the CPUs grow their lists, a    *)
(* page once taken for a CPU and class is reached by the search from          *)
(* cpu_own_area, which ends: the pages form one list without a cycle, though  *)
(* request_a_slab_from_bbma links them in without a lock.                     *)
THEOREM NoPageLost == IsFiniteSet(Pages) => (Spec => []PagesReachable)
<1> SUFFICES ASSUME IsFiniteSet(Pages) PROVE Spec => []PagesReachable
  OBVIOUS
<1>1. SlabInv /\ OneList => PagesReachable
  <2> SUFFICES ASSUME SlabInv, OneList, NEW c \in Cpus, NEW k \in Classes
               PROVE  From(area[c][k]) = {p \in Pages : use[p] = <<c, k>>} \cup {None}
    BY DEF PagesReachable
  <2>1. PICK n \in Nat \ {0} : \E f : IsPageList(f, n, c, k)
    BY DEF OneList
  <2>2. PICK f : IsPageList(f, n, c, k)
    BY <2>1
  <2> QED BY <2>2, FromIs DEF Own
<1> QED BY <1>1, SlabInvariant, ListInvariant, PTL
=============================================================================
