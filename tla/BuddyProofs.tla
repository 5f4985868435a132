---------------------------- MODULE BuddyProofs ----------------------------
(* The segment trees of the page allocator, for any number of trees and CPUs  *)
(* and trees of any depth: no block is given out twice, freed memory is whole *)
(* again, and the calls do not hold one another up for good.                  *)
EXTENDS Buddy, FiniteSetTheorems, WellFoundedInduction, TLAPS

(* Recursive functions over an interval of numbers: the one with the least    *)
(* end that did not exist would extend the one before.                        *)
Less == {ss \in Nat \X Nat : ss[1] < ss[2]}

LEMMA LeastNatural ==
  ASSUME NEW S, S \subseteq Nat, S # {}
  PROVE  \E n \in S : \A m \in S : n <= m
<1>1. IsWellFoundedOn(Less, Nat)
  BY NatLessThanWellFounded DEF Less, OpToRel
<1>2. PICK n \in S : \A m \in S : <<m, n>> \notin Less
  BY <1>1, WFMin
<1>3. ASSUME NEW m \in S PROVE n <= m
  <2>1. m \in Nat /\ n \in Nat
    OBVIOUS
  <2>2. ~(m < n)
    BY <1>2, <2>1 DEF Less
  <2> QED BY <2>1, <2>2
<1> QED BY <1>3

LEMMA Induction ==
  ASSUME NEW S, NEW a \in Nat, NEW b \in Nat, a \in S,
         \A k \in a .. b : k \in S /\ k < b => k + 1 \in S
  PROVE  a .. b \subseteq S
<1> DEFINE C == {k \in a .. b : k \notin S}
<1> SUFFICES ASSUME C # {} PROVE FALSE
  OBVIOUS
<1>1. PICK n \in C : \A m \in C : n <= m
  <2>1. C \subseteq Nat
    OBVIOUS
  <2> HIDE DEF C
  <2> QED BY <2>1, LeastNatural
<1>2. n \in a .. b /\ n \notin S /\ n # a
  BY <1>1
<1>3. n - 1 \in a .. b /\ n - 1 < n /\ n - 1 < b
  BY <1>2
<1>4. n - 1 \in S
  <2>1. n - 1 \notin C
    BY <1>1, <1>3, <1>2
  <2> QED BY <2>1, <1>3
<1>5. (n - 1) + 1 \in S
  BY <1>3, <1>4
<1> QED BY <1>2, <1>5

\* Each value from the one before.
IsChain(f, n, V, v, G) ==
  f \in [0 .. n -> V] /\ f[0] = v /\ \A k \in 1 .. n : f[k] = G[<<k, f[k - 1]>>]

LEMMA Chain ==
  ASSUME NEW V, NEW n \in Nat, NEW v \in V, NEW G \in [Nat \X V -> V]
  PROVE  \E f : IsChain(f, n, V, v, G)
<1> DEFINE S == {k \in Nat : \E f : IsChain(f, k, V, v, G)}
<1>1. 0 \in S
  <2> DEFINE f == [i \in 0 .. 0 |-> v]
  <2>1. f \in [0 .. 0 -> V] /\ f[0] = v /\ \A j \in 1 .. 0 : f[j] = G[<<j, f[j - 1]>>]
    OBVIOUS
  <2> HIDE DEF f
  <2> QED BY <2>1 DEF IsChain
<1>2. ASSUME NEW k \in 0 .. n, k \in S PROVE k + 1 \in S
  <2>1. PICK f \in [0 .. k -> V] : f[0] = v /\ \A j \in 1 .. k : f[j] = G[<<j, f[j - 1]>>]
    BY <1>2 DEF IsChain
  <2> DEFINE g == [i \in 0 .. k + 1 |-> IF i = k + 1 THEN G[<<k + 1, f[k]>>] ELSE f[i]]
  <2>2. f[k] \in V /\ k + 1 \in Nat /\ G[<<k + 1, f[k]>>] \in V
    OBVIOUS
  <2>3. g \in [0 .. k + 1 -> V]
    BY <2>2
  <2>4. g[0] = v /\ g[k + 1] = G[<<k + 1, f[k]>>] /\ \A i \in 0 .. k : g[i] = f[i]
    BY <2>1
  <2>5. ASSUME NEW j \in 1 .. k + 1 PROVE g[j] = G[<<j, g[j - 1]>>]
    <3>1. CASE j = k + 1
      <4>1. j - 1 = k /\ g[k] = f[k]
        BY <3>1, <2>4
      <4> QED BY <2>4, <3>1, <4>1
    <3>2. CASE j \in 1 .. k
      <4>1. j \in 0 .. k /\ j - 1 \in 0 .. k
        BY <3>2
      <4> QED BY <2>1, <2>4, <3>2, <4>1
    <3> QED BY <3>1, <3>2
  <2> HIDE DEF g
  <2> QED BY <2>3, <2>4, <2>5 DEF IsChain
<1>3. 0 .. n \subseteq S
  <2> HIDE DEF S
  <2> QED BY <1>1, <1>2, Induction
<1> QED BY <1>3
-----------------------------------------------------------------------------
(* Powers of two. *)

LEMMA Numbers ==
  /\ MinSize \in Nat /\ MaxSize \in Nat /\ Depth \in Nat /\ 2 <= MinSize /\ MinSize <= MaxSize
  /\ MaxSize = MinSize + Depth /\ TreeNum \in Nat \ {0} /\ BootPages \in Nat \ {0}
BY SizeAssumption DEF Depth

LEMMA PowerIs ==
  /\ Power \in [0 .. Depth + 1 -> Nat]
  /\ Power[0] = 1
  /\ \A k \in 1 .. Depth + 1 : Power[k] = 2 * Power[k - 1]
<1> DEFINE G == [x \in Nat \X Nat |-> 2 * x[2]]
           D == 0 .. Depth + 1
<1>1. G \in [Nat \X Nat -> Nat] /\ Depth + 1 \in Nat
  BY Numbers
<1>2. \A k, x \in Nat : G[<<k, x>>] = 2 * x
  OBVIOUS
<1> HIDE DEF G
<1>3. PICK f : IsChain(f, Depth + 1, Nat, 1, G)
  BY <1>1, Chain
<1>4. f \in [D -> Nat] /\ f[0] = 1 /\ \A k \in 1 .. Depth + 1 : f[k] = G[<<k, f[k - 1]>>]
  BY <1>3 DEF IsChain
<1>5. ASSUME NEW k \in D PROVE f[k] = IF k = 0 THEN 1 ELSE 2 * f[k - 1]
  <2>1. CASE k = 0
    BY <2>1, <1>4
  <2>2. CASE k # 0
    <3>1. k \in 1 .. Depth + 1 /\ k - 1 \in D /\ k \in Nat
      BY <2>2, Numbers
    <3> QED BY <3>1, <2>2, <1>2, <1>4
  <2> QED BY <2>1, <2>2
<1>6. f = [k \in D |-> IF k = 0 THEN 1 ELSE 2 * f[k - 1]]
  BY <1>4, <1>5
<1>7. Power = [k \in D |-> IF k = 0 THEN 1 ELSE 2 * Power[k - 1]]
  BY <1>6 DEF Power
<1>8. ASSUME NEW k \in D PROVE Power[k] = f[k]
  <2> DEFINE S == {j \in D : Power[j] = f[j]}
  <2>1. 0 \in S
    BY <1>4, <1>7, Numbers
  <2>2. ASSUME NEW j \in D, j \in S, j < Depth + 1 PROVE j + 1 \in S
    <3>1. j + 1 \in D /\ j + 1 # 0 /\ (j + 1) - 1 = j
      BY <2>2, Numbers
    <3> QED BY <1>5, <1>7, <2>2, <3>1
  <2> HIDE DEF S
  <2>3. D \subseteq S
    <3>1. 0 \in Nat /\ Depth + 1 \in Nat
      BY Numbers
    <3> QED BY <2>1, <2>2, <3>1, Induction
  <2> QED BY <2>3 DEF S
<1>9. Power \in [D -> Nat]
  BY <1>7, <1>8, <1>4
<1>10. ASSUME NEW k \in 1 .. Depth + 1 PROVE Power[k] = 2 * Power[k - 1]
  BY <1>7, Numbers
<1>11. Power[0] = 1
  BY <1>7, Numbers
<1> QED BY <1>9, <1>10, <1>11

LEMMA PowerFacts ==
  ASSUME NEW k \in 0 .. Depth
  PROVE  /\ Power[k] \in Nat /\ Power[k] > 0
         /\ Power[k + 1] \in Nat /\ Power[k + 1] = 2 * Power[k]
<1> DEFINE S == {j \in 0 .. Depth + 1 : Power[j] > 0}
<1>1. 0 \in S
  BY PowerIs, Numbers
<1>2. ASSUME NEW j \in 0 .. Depth + 1, j \in S, j < Depth + 1 PROVE j + 1 \in S
  <2>1. j + 1 \in 1 .. Depth + 1 /\ (j + 1) - 1 = j /\ j + 1 \in 0 .. Depth + 1
    BY <1>2, Numbers
  <2>2. Power[j + 1] = 2 * Power[j] /\ Power[j] \in Nat
    BY <2>1, PowerIs
  <2> QED BY <1>2, <2>1, <2>2
<1> HIDE DEF S
<1>3. 0 .. Depth + 1 \subseteq S
  BY <1>1, <1>2, Numbers, Induction
<1>4. k \in 0 .. Depth + 1 /\ k + 1 \in 1 .. Depth + 1 /\ k + 1 \in 0 .. Depth + 1 /\ (k + 1) - 1 = k
  BY Numbers
<1>5. Power[k] > 0
  BY <1>3, <1>4 DEF S
<1> QED BY <1>4, <1>5, PowerIs

LEMMA PowerGrows ==
  ASSUME NEW j \in 0 .. Depth + 1, NEW k \in 0 .. Depth + 1, j <= k
  PROVE  Power[j] \in Nat /\ Power[k] \in Nat /\ Power[j] <= Power[k]
<1> DEFINE S == {i \in j .. Depth + 1 : Power[j] <= Power[i]}
<1>1. j \in S
  BY PowerIs, Numbers
<1>2. ASSUME NEW i \in j .. Depth + 1, i \in S, i < Depth + 1 PROVE i + 1 \in S
  <2>1. i + 1 \in j .. Depth + 1 /\ i \in 0 .. Depth
    BY <1>2, Numbers
  <2>2. Power[i + 1] = 2 * Power[i] /\ Power[i] \in Nat /\ Power[j] \in Nat /\ Power[i + 1] \in Nat
    BY <2>1, PowerFacts, PowerIs
  <2> QED BY <1>2, <2>1, <2>2
<1> HIDE DEF S
<1>3. j .. Depth + 1 \subseteq S
  BY <1>1, <1>2, Numbers, Induction
<1>4. k \in j .. Depth + 1
  BY Numbers
<1> QED BY <1>3, <1>4, PowerIs DEF S

-----------------------------------------------------------------------------
(* Nodes, their sizes and addresses. *)

\* How many blocks of size s a tree has, and of how many smallest blocks each is.
Number(s) == Power[MaxSize - s]
Length(s) == Power[s - MinSize]

LEMMA LevelFacts ==
  ASSUME NEW s \in Sizes
  PROVE  /\ s \in Nat /\ s >= 2 /\ Number(s) \in Nat /\ Number(s) > 0 /\ Length(s) \in Nat /\ Length(s) > 0
         /\ s # MaxSize => s + 1 \in Sizes /\ Number(s) = 2 * Number(s + 1) /\ Length(s + 1) = 2 * Length(s)
         /\ s # MinSize => s - 1 \in Sizes /\ Number(s - 1) = 2 * Number(s) /\ Length(s) = 2 * Length(s - 1)
         /\ Number(MaxSize) = 1 /\ Length(MinSize) = 1 /\ MinSize \in Sizes /\ MaxSize \in Sizes
<1>1. MaxSize - s \in 0 .. Depth /\ s - MinSize \in 0 .. Depth /\ s \in Nat /\ s >= 2
  BY Numbers DEF Sizes
<1>2. Number(s) \in Nat /\ Number(s) > 0 /\ Length(s) \in Nat /\ Length(s) > 0
  BY <1>1, PowerFacts DEF Number, Length
<1>3. ASSUME s # MaxSize
      PROVE  s + 1 \in Sizes /\ Number(s) = 2 * Number(s + 1) /\ Length(s + 1) = 2 * Length(s)
  <2>1. /\ s + 1 \in Sizes /\ MaxSize - (s + 1) \in 0 .. Depth
        /\ (MaxSize - (s + 1)) + 1 = MaxSize - s /\ (s + 1) - MinSize = (s - MinSize) + 1
    BY <1>3, Numbers DEF Sizes
  <2> QED BY <1>1, <2>1, PowerFacts DEF Number, Length
<1>4. ASSUME s # MinSize
      PROVE  s - 1 \in Sizes /\ Number(s - 1) = 2 * Number(s) /\ Length(s) = 2 * Length(s - 1)
  <2>1. /\ s - 1 \in Sizes /\ (s - 1) - MinSize \in 0 .. Depth
        /\ MaxSize - (s - 1) = (MaxSize - s) + 1 /\ s - MinSize = ((s - 1) - MinSize) + 1
    BY <1>4, Numbers DEF Sizes
  <2> QED BY <1>1, <2>1, PowerFacts DEF Number, Length
<1>5. MinSize \in Sizes /\ MaxSize \in Sizes /\ MaxSize - MaxSize = 0 /\ MinSize - MinSize = 0
  BY Numbers DEF Sizes
<1> QED BY <1>1, <1>2, <1>3, <1>4, <1>5, PowerIs DEF Number, Length

LEMMA NodeNumbers == Power[Depth + 1] \in Nat /\ Nodes \subseteq Nat /\ \A n \in Nodes : n >= 1
<1>1. Power[Depth + 1] \in Nat
  BY PowerIs, Numbers
<1> QED BY <1>1 DEF Nodes

\* The nodes of one size are in a row.
LEMMA SizeIs ==
  ASSUME NEW n \in Nodes
  PROVE  /\ Size[n] \in Sizes
         /\ Number(Size[n]) <= n /\ n < 2 * Number(Size[n])
         /\ \A s \in Sizes : Number(s) <= n /\ n < 2 * Number(s) => s = Size[n]
<1>1. \A s \in Sizes : Power[MaxSize - s + 1] = 2 * Number(s) /\ Number(s) \in Nat
                       /\ MaxSize - s \in 0 .. Depth
  <2> SUFFICES ASSUME NEW s \in Sizes
               PROVE  Power[MaxSize - s + 1] = 2 * Number(s) /\ Number(s) \in Nat
                      /\ MaxSize - s \in 0 .. Depth
    OBVIOUS
  <2>1. MaxSize - s \in 0 .. Depth
    BY Numbers DEF Sizes
  <2> QED BY <2>1, PowerFacts DEF Number
<1>2. n \in Nat /\ n >= 1 /\ n < Power[Depth + 1] /\ Power[Depth + 1] \in Nat
  BY NodeNumbers DEF Nodes
<1> DEFINE S == {k \in 0 .. Depth : n < Power[k + 1]}
<1>3. Depth \in S
  BY <1>2, Numbers
<1>4. PICK k \in S : \A j \in S : k <= j
  <2>1. S \subseteq Nat /\ S # {}
    BY <1>3
  <2> HIDE DEF S
  <2> QED BY <2>1, LeastNatural
<1>5. k \in 0 .. Depth /\ n < Power[k + 1] /\ Power[k] \in Nat
  BY PowerFacts
<1>6. Power[k] <= n
  <2>1. CASE k = 0
    BY <2>1, <1>2, PowerIs
  <2>2. CASE k # 0
    <3>1. k - 1 \in 0 .. Depth /\ (k - 1) + 1 = k /\ k - 1 < k
      BY <2>2, <1>5, Numbers
    <3>2. k - 1 \notin S
      BY <1>4, <3>1, <1>5
    <3> QED BY <3>1, <3>2, <1>5, <1>2
  <2> QED BY <2>1, <2>2
<1>7. MaxSize - k \in Sizes /\ MaxSize - (MaxSize - k) = k
  BY <1>5, Numbers DEF Sizes
<1>8. Size[n] \in Sizes /\ Power[MaxSize - Size[n]] <= n /\ n < Power[MaxSize - Size[n] + 1]
  BY <1>5, <1>6, <1>7 DEF Size
<1>9. ASSUME NEW s \in Sizes, NEW r \in Sizes, Number(s) <= n, n < 2 * Number(s),
             Number(r) <= n, n < 2 * Number(r), s < r
      PROVE  FALSE
  <2>1. /\ MaxSize - s \in 0 .. Depth + 1 /\ MaxSize - r + 1 \in 0 .. Depth + 1
        /\ MaxSize - r + 1 <= MaxSize - s
    BY <1>9, Numbers DEF Sizes
  <2>2. Power[MaxSize - r + 1] <= Power[MaxSize - s]
    BY <2>1, PowerGrows
  <2> QED BY <2>2, <1>1, <1>2, <1>9 DEF Number
<1>10. \A s \in Sizes : s \in Int
  BY LevelFacts
<1>11. Number(Size[n]) <= n /\ n < 2 * Number(Size[n])
  BY <1>1, <1>8 DEF Number
<1>12. ASSUME NEW s \in Sizes, Number(s) <= n, n < 2 * Number(s) PROVE s = Size[n]
  BY <1>8, <1>9, <1>10, <1>11, <1>12
<1> QED BY <1>8, <1>11, <1>12

LEMMA LevelNodes ==
  ASSUME NEW s \in Sizes, NEW n \in Nat, Number(s) <= n, n < 2 * Number(s)
  PROVE  n \in Nodes /\ Size[n] = s
<1>1. MaxSize - s \in 0 .. Depth /\ MaxSize - s + 1 \in 0 .. Depth + 1 /\ Depth + 1 \in 0 .. Depth + 1
      /\ MaxSize - s + 1 <= Depth + 1
  BY Numbers DEF Sizes
<1>2. 2 * Number(s) = Power[MaxSize - s + 1] /\ Number(s) > 0 /\ Number(s) \in Nat
  BY <1>1, PowerFacts DEF Number
<1>3. Power[MaxSize - s + 1] <= Power[Depth + 1] /\ Power[Depth + 1] \in Nat
      /\ Power[MaxSize - s + 1] \in Nat
  BY <1>1, PowerGrows
<1>4. n \in Nodes
  BY <1>2, <1>3 DEF Nodes
<1> QED BY <1>4, SizeIs

LEMMA Times ==
  /\ \A x, y \in Nat : x * y \in Nat /\ (2 * x) * y = x * (2 * y) /\ (2 * x + 1) * y = x * (2 * y) + y
  /\ \A x, y, z \in Nat : x + 1 <= y => x * z + z <= y * z
<1>1. ASSUME NEW x \in Nat, NEW y \in Nat
      PROVE  x * y \in Nat /\ (2 * x) * y = x * (2 * y) /\ (2 * x + 1) * y = x * (2 * y) + y
  OBVIOUS
<1>2. ASSUME NEW x \in Nat, NEW y \in Nat, NEW z \in Nat, x + 1 <= y PROVE x * z + z <= y * z
  <2>1. PICK d \in Nat : y = x + 1 + d
    <3>1. y - (x + 1) \in Nat /\ y = x + 1 + (y - (x + 1))
      BY <1>2
    <3> QED BY <3>1
  <2>2. y * z = x * z + z + d * z
    BY <2>1
  <2>3. d * z >= 0 /\ x * z \in Int /\ d * z \in Int
    OBVIOUS
  <2> QED BY <2>2, <2>3
<1> QED BY <1>1, <1>2

LEMMA AddrIs ==
  ASSUME NEW n \in Nodes
  PROVE  /\ Addr[n] = (n - Number(Size[n])) * Length(Size[n])
         /\ End[n] = Addr[n] + Length(Size[n])
         /\ Addr[n] \in Nat /\ End[n] \in Nat /\ Addr[n] < End[n]
<1>1. Addr[n] = (n - Number(Size[n])) * Length(Size[n]) /\ End[n] = Addr[n] + Length(Size[n])
  BY DEF Addr, End, Number, Length
<1>2. n - Number(Size[n]) \in Nat /\ Length(Size[n]) \in Nat /\ Length(Size[n]) > 0
  BY SizeIs, LevelFacts, NodeNumbers
<1>3. Addr[n] \in Nat
  BY <1>1, <1>2, Times
<1> QED BY <1>1, <1>2, <1>3

LEMMA RootFacts == 1 \in Nodes /\ Size[1] = MaxSize /\ Addr[1] = 0 /\ End[1] = Length(MaxSize)
<1>1. MaxSize \in Sizes /\ Number(MaxSize) = 1
  BY Numbers, LevelFacts DEF Sizes
<1>2. 1 \in Nodes /\ Size[1] = MaxSize
  BY <1>1, LevelNodes
<1>3. Length(MaxSize) \in Nat /\ (1 - 1) * Length(MaxSize) = 0
  <2>1. Length(MaxSize) \in Nat
    BY <1>1, LevelFacts
  <2> QED BY <2>1
<1>4. Addr[1] = (1 - 1) * Length(MaxSize) /\ End[1] = Addr[1] + Length(MaxSize)
  BY <1>1, <1>2, AddrIs
<1> QED BY <1>2, <1>3, <1>4

LEMMA ChildFacts ==
  ASSUME NEW n \in Nodes, Size[n] # MinSize
  PROVE  /\ Size[n] - 1 \in Sizes
         /\ Left(n) \in Nodes /\ Size[Left(n)] = Size[n] - 1
         /\ Right(n) \in Nodes /\ Size[Right(n)] = Size[n] - 1
         /\ Addr[Left(n)] = Addr[n] /\ End[Left(n)] = Addr[n] + Length(Size[n] - 1)
         /\ Addr[Right(n)] = Addr[n] + Length(Size[n] - 1) /\ End[Right(n)] = End[n]
<1> DEFINE s == Size[n]
           x == n - Number(s)
<1>1. /\ s \in Sizes /\ s - 1 \in Sizes /\ Number(s) \in Nat /\ Number(s - 1) = 2 * Number(s)
      /\ Length(s - 1) \in Nat /\ Length(s) = 2 * Length(s - 1)
  BY SizeIs, LevelFacts
<1>2. n \in Nat /\ Number(s) <= n /\ n < 2 * Number(s)
  BY SizeIs, NodeNumbers
<1>3. /\ Left(n) \in Nat /\ Number(s - 1) <= Left(n) /\ Left(n) < 2 * Number(s - 1)
      /\ Right(n) \in Nat /\ Number(s - 1) <= Right(n) /\ Right(n) < 2 * Number(s - 1)
  BY <1>1, <1>2 DEF Left, Right
<1>4. Left(n) \in Nodes /\ Size[Left(n)] = s - 1 /\ Right(n) \in Nodes /\ Size[Right(n)] = s - 1
  BY <1>1, <1>3, LevelNodes
<1>5. x \in Nat /\ Left(n) - Number(s - 1) = 2 * x /\ Right(n) - Number(s - 1) = 2 * x + 1
  BY <1>1, <1>2 DEF Left, Right
<1>6. Addr[n] = x * Length(s) /\ End[n] = Addr[n] + Length(s) /\ Addr[n] \in Nat
  BY AddrIs
<1>7. /\ Addr[Left(n)] = (2 * x) * Length(s - 1) /\ End[Left(n)] = Addr[Left(n)] + Length(s - 1)
      /\ Addr[Right(n)] = (2 * x + 1) * Length(s - 1) /\ End[Right(n)] = Addr[Right(n)] + Length(s - 1)
  BY <1>4, <1>5, AddrIs
<1>8. /\ (2 * x) * Length(s - 1) = x * (2 * Length(s - 1))
      /\ (2 * x + 1) * Length(s - 1) = x * (2 * Length(s - 1)) + Length(s - 1)
  <2> HIDE DEF x
  <2> QED BY <1>1, <1>5, Times
<1>9. Addr[Left(n)] = Addr[n] /\ Addr[Right(n)] = Addr[n] + Length(s - 1)
  BY <1>1, <1>6, <1>7, <1>8
<1> QED BY <1>1, <1>4, <1>6, <1>7, <1>9

LEMMA Siblings ==
  ASSUME NEW n \in Nodes
  PROVE  Sibling(Left(n)) = Right(n) /\ Sibling(Right(n)) = Left(n)
<1>1. n \in Nat /\ (2 * n) % 2 = 0 /\ (2 * n + 1) % 2 = 1
  BY NodeNumbers
<1> QED BY <1>1 DEF Sibling, Left, Right

\* Blocks of one size are beside each other.
LEMMA SameSize ==
  ASSUME NEW m \in Nodes, NEW n \in Nodes, Size[m] = Size[n], Addr[m] < End[n], Addr[n] < End[m]
  PROVE  m = n
<1> DEFINE s == Size[n]
<1>1. s \in Sizes /\ Number(s) \in Nat /\ Length(s) \in Nat /\ m \in Nat /\ n \in Nat
      /\ m - Number(s) \in Nat /\ n - Number(s) \in Nat
  BY SizeIs, LevelFacts, NodeNumbers
<1>2. /\ Addr[m] = (m - Number(s)) * Length(s) /\ End[m] = Addr[m] + Length(s) /\ Addr[m] \in Nat
      /\ Addr[n] = (n - Number(s)) * Length(s) /\ End[n] = Addr[n] + Length(s) /\ Addr[n] \in Nat
  BY AddrIs
<1>3. ASSUME m < n PROVE FALSE
  <2>1. (m - Number(s)) + 1 <= n - Number(s)
    BY <1>1, <1>3
  <2>2. (m - Number(s)) * Length(s) + Length(s) <= (n - Number(s)) * Length(s)
    BY <1>1, <2>1, Times
  <2> QED BY <1>1, <1>2, <2>2
<1>4. ASSUME n < m PROVE FALSE
  <2>1. (n - Number(s)) + 1 <= m - Number(s)
    BY <1>1, <1>4
  <2>2. (n - Number(s)) * Length(s) + Length(s) <= (m - Number(s)) * Length(s)
    BY <1>1, <2>1, Times
  <2> QED BY <1>1, <1>2, <2>2
<1> QED BY <1>1, <1>3, <1>4

LEMMA SizeInduction ==
  ASSUME NEW S, NEW lo \in Sizes, lo \in S, \A s \in lo .. MaxSize : s \in S /\ s # MaxSize => s + 1 \in S
  PROVE  lo .. MaxSize \subseteq S
<1>1. lo \in Nat /\ MaxSize \in Nat
  BY Numbers DEF Sizes
<1> QED BY <1>1, Induction

LEMMA DownInduction ==
  ASSUME NEW S, MaxSize \in S, \A s \in Sizes : s \in S /\ s # MinSize => s - 1 \in S
  PROVE  Sizes \subseteq S
<1> DEFINE R == {k \in 0 .. Depth : MaxSize - k \in S}
<1>1. 0 \in R
  BY Numbers
<1>2. ASSUME NEW k \in 0 .. Depth, k \in R, k < Depth PROVE k + 1 \in R
  <2>1. MaxSize - k \in Sizes /\ MaxSize - k # MinSize /\ (MaxSize - k) - 1 = MaxSize - (k + 1)
        /\ k + 1 \in 0 .. Depth
    BY <1>2, Numbers DEF Sizes
  <2> QED BY <1>2, <2>1
<1> HIDE DEF R
<1>3. 0 .. Depth \subseteq R
  <2>1. 0 \in Nat /\ Depth \in Nat
    BY Numbers
  <2> QED BY <1>1, <1>2, <2>1, Induction
<1>4. ASSUME NEW s \in Sizes PROVE s \in S
  <2>1. MaxSize - s \in 0 .. Depth /\ MaxSize - (MaxSize - s) = s
    BY Numbers DEF Sizes
  <2>2. MaxSize - s \in R
    BY <1>3, <2>1
  <2> QED BY <2>1, <2>2 DEF R
<1> QED BY <1>4

LEMMA WholeTree ==
  ASSUME NEW n \in Nodes
  PROVE  End[n] <= Length(MaxSize)
<1> DEFINE S == {s \in Sizes : Number(s) * Length(s) = Length(MaxSize)}
<1>1. MaxSize \in S
  BY Numbers, LevelFacts DEF Sizes
<1>2. ASSUME NEW s \in Sizes, s \in S, s # MinSize PROVE s - 1 \in S
  <2>1. /\ s - 1 \in Sizes /\ Number(s - 1) = 2 * Number(s) /\ Length(s) = 2 * Length(s - 1)
        /\ Number(s) \in Nat
    BY <1>2, LevelFacts
  <2>2. Length(s - 1) \in Nat
    BY <2>1, LevelFacts
  <2>3. (2 * Number(s)) * Length(s - 1) = Number(s) * (2 * Length(s - 1))
    BY <2>1, <2>2, Times
  <2> QED BY <1>2, <2>1, <2>3
<1> HIDE DEF S
<1>3. Size[n] \in S
  BY <1>1, <1>2, DownInduction, SizeIs
<1> DEFINE x == n - Number(Size[n])
<1>4. /\ Number(Size[n]) \in Nat /\ Length(Size[n]) \in Nat /\ x \in Nat /\ x + 1 <= Number(Size[n])
  BY SizeIs, LevelFacts, NodeNumbers
<1>5. x * Length(Size[n]) + Length(Size[n]) <= Number(Size[n]) * Length(Size[n])
  <2> HIDE DEF x
  <2> QED BY <1>4, Times
<1> QED BY <1>3, <1>5, AddrIs DEF S

-----------------------------------------------------------------------------
(* Paths through the tree: a node of every size, from the root down or from a *)
(* size up.                                                                   *)

IsDown(f, V, v, G) ==
  f \in [Sizes -> V] /\ f[MaxSize] = v /\ \A s \in Sizes \ {MaxSize} : f[s] = G[<<s, f[s + 1]>>]

IsUp(f, lo, V, v, G) ==
  f \in [lo .. MaxSize -> V] /\ f[lo] = v /\ \A s \in lo + 1 .. MaxSize : f[s] = G[<<s, f[s - 1]>>]

LEMMA ChainDown ==
  ASSUME NEW V, NEW v \in V, NEW G \in [Nat \X V -> V]
  PROVE  \E f : IsDown(f, V, v, G)
<1> DEFINE H == [x \in Nat \X V |-> IF x[1] \in 0 .. MaxSize THEN G[<<MaxSize - x[1], x[2]>>] ELSE v]
<1>1. H \in [Nat \X V -> V]
  <2>1. ASSUME NEW x \in Nat \X V, x[1] \in 0 .. MaxSize PROVE G[<<MaxSize - x[1], x[2]>>] \in V
    <3>1. <<MaxSize - x[1], x[2]>> \in Nat \X V
      BY <2>1, Numbers
    <3> QED BY <3>1
  <2> QED BY <2>1
<1>2. ASSUME NEW k \in 0 .. MaxSize, NEW y \in V PROVE H[<<k, y>>] = G[<<MaxSize - k, y>>]
  <2>1. k \in Nat /\ <<k, y>> \in Nat \X V
    BY Numbers
  <2> QED BY <2>1, <1>2
<1> HIDE DEF H
<1>3. PICK g : IsChain(g, Depth, V, v, H)
  BY <1>1, Numbers, Chain
<1>4. g \in [0 .. Depth -> V] /\ g[0] = v /\ \A k \in 1 .. Depth : g[k] = H[<<k, g[k - 1]>>]
  BY <1>3 DEF IsChain
<1> DEFINE f == [s \in Sizes |-> g[MaxSize - s]]
<1>5. ASSUME NEW s \in Sizes PROVE f[s] = g[MaxSize - s] /\ f[s] \in V
  <2>1. MaxSize - s \in 0 .. Depth
    BY Numbers DEF Sizes
  <2> QED BY <1>4, <2>1
<1>6. f \in [Sizes -> V]
  BY <1>5
<1>7. f[MaxSize] = v
  <2>1. MaxSize \in Sizes /\ MaxSize - MaxSize = 0
    BY Numbers DEF Sizes
  <2> QED BY <1>4, <1>5, <2>1
<1>8. ASSUME NEW s \in Sizes, s # MaxSize PROVE f[s] = G[<<s, f[s + 1]>>]
  <2>1. /\ MaxSize - s \in 1 .. Depth /\ (MaxSize - s) - 1 = MaxSize - (s + 1)
        /\ MaxSize - s \in 0 .. MaxSize /\ MaxSize - (MaxSize - s) = s /\ s + 1 \in Sizes
    BY <1>8, Numbers DEF Sizes
  <2>2. f[s] = H[<<MaxSize - s, f[s + 1]>>]
    BY <1>4, <1>5, <2>1
  <2> HIDE DEF f
  <2> QED BY <1>2, <1>5, <2>1, <2>2
<1> HIDE DEF f
<1> QED BY <1>6, <1>7, <1>8 DEF IsDown

LEMMA ChainUp ==
  ASSUME NEW lo \in Sizes, NEW V, NEW v \in V, NEW G \in [Nat \X V -> V]
  PROVE  \E f : IsUp(f, lo, V, v, G)
<1> DEFINE H == [x \in Nat \X V |-> G[<<lo + x[1], x[2]>>]]
<1>0. lo \in Nat /\ MaxSize \in Nat /\ MaxSize - lo \in Nat /\ lo <= MaxSize
  BY Numbers DEF Sizes
<1>1. H \in [Nat \X V -> V]
  <2>1. ASSUME NEW x \in Nat \X V PROVE G[<<lo + x[1], x[2]>>] \in V
    <3>1. <<lo + x[1], x[2]>> \in Nat \X V
      BY <1>0
    <3> QED BY <3>1
  <2> QED BY <2>1
<1>2. ASSUME NEW k \in Nat, NEW y \in V PROVE H[<<k, y>>] = G[<<lo + k, y>>]
  <2>1. <<k, y>> \in Nat \X V
    OBVIOUS
  <2> QED BY <2>1
<1> HIDE DEF H
<1>3. PICK g : IsChain(g, MaxSize - lo, V, v, H)
  BY <1>0, <1>1, Chain
<1>4. g \in [0 .. MaxSize - lo -> V] /\ g[0] = v /\ \A k \in 1 .. MaxSize - lo : g[k] = H[<<k, g[k - 1]>>]
  BY <1>3 DEF IsChain
<1> DEFINE f == [s \in lo .. MaxSize |-> g[s - lo]]
<1>5. ASSUME NEW s \in lo .. MaxSize PROVE f[s] = g[s - lo] /\ f[s] \in V
  <2>1. s - lo \in 0 .. MaxSize - lo
    BY <1>0
  <2> QED BY <1>4, <2>1
<1>6. f \in [lo .. MaxSize -> V]
  BY <1>5
<1>7. f[lo] = v
  <2>1. lo \in lo .. MaxSize /\ lo - lo = 0
    BY <1>0
  <2> QED BY <1>4, <1>5, <2>1
<1>8. ASSUME NEW s \in lo + 1 .. MaxSize PROVE f[s] = G[<<s, f[s - 1]>>]
  <2>1. /\ s - lo \in 1 .. MaxSize - lo /\ (s - lo) - 1 = (s - 1) - lo /\ s - lo \in Nat
        /\ lo + (s - lo) = s /\ s - 1 \in lo .. MaxSize /\ s \in lo .. MaxSize
    BY <1>8, <1>0
  <2>2. f[s] = H[<<s - lo, f[s - 1]>>]
    BY <1>4, <1>5, <2>1
  <2> HIDE DEF f
  <2> QED BY <1>2, <1>5, <2>1, <2>2
<1> HIDE DEF f
<1> QED BY <1>6, <1>7, <1>8 DEF IsUp

\* The nodes over an address.
LEMMA OverIs ==
  ASSUME NEW a \in Nat
  PROVE  /\ Over(a)[MaxSize] = 1
         /\ \A s \in Sizes \ {MaxSize} :
              Over(a)[s] = IF a < Addr[Over(a)[s + 1]] + Length(s)
                           THEN Left(Over(a)[s + 1]) ELSE Right(Over(a)[s + 1])
<1> DEFINE G == [x \in Nat \X Nat |-> IF a < Addr[x[2]] + Length(x[1]) THEN Left(x[2]) ELSE Right(x[2])]
           E(g) == [s \in Sizes |->
                     IF s = MaxSize THEN 1
                     ELSE IF a < Addr[g[s + 1]] + Length(s) THEN Left(g[s + 1]) ELSE Right(g[s + 1])]
<1>1. G \in [Nat \X Nat -> Nat]
  BY DEF Left, Right
<1>2. \A s, n \in Nat : G[<<s, n>>] = IF a < Addr[n] + Length(s) THEN Left(n) ELSE Right(n)
  OBVIOUS
<1> HIDE DEF G
<1>3. PICK f : IsDown(f, Nat, 1, G)
  BY <1>1, ChainDown
<1>4. f \in [Sizes -> Nat] /\ f[MaxSize] = 1 /\ \A s \in Sizes \ {MaxSize} : f[s] = G[<<s, f[s + 1]>>]
  BY <1>3 DEF IsDown
<1>5. ASSUME NEW s \in Sizes, s # MaxSize
      PROVE  f[s] = IF a < Addr[f[s + 1]] + Length(s) THEN Left(f[s + 1]) ELSE Right(f[s + 1])
  <2>1. s \in Nat /\ s + 1 \in Sizes
    BY <1>5, LevelFacts
  <2>2. f[s + 1] \in Nat /\ f[s] = G[<<s, f[s + 1]>>]
    BY <1>4, <1>5, <2>1
  <2> QED BY <1>2, <2>1, <2>2
<1>6. f = E(f)
  BY <1>4, <1>5
<1>7. Over(a) = E(Over(a))
  BY <1>6 DEF Over, Length
<1>8. MaxSize \in Sizes
  BY Numbers DEF Sizes
<1> QED BY <1>7, <1>8

OverAt(a, s) == Over(a)[s]

LEMMA OverFacts ==
  ASSUME NEW a \in Nat, a < Length(MaxSize)
  PROVE  /\ OverAt(a, MaxSize) = 1
         /\ \A s \in Sizes :
              /\ OverAt(a, s) \in Nodes /\ Size[OverAt(a, s)] = s
              /\ Addr[OverAt(a, s)] <= a /\ a < End[OverAt(a, s)]
         /\ \A s \in Sizes \ {MaxSize} :
              OverAt(a, s) = IF a < Addr[OverAt(a, s + 1)] + Length(s)
                             THEN Left(OverAt(a, s + 1)) ELSE Right(OverAt(a, s + 1))
<1>1. /\ OverAt(a, MaxSize) = 1
      /\ \A s \in Sizes \ {MaxSize} :
           OverAt(a, s) = IF a < Addr[OverAt(a, s + 1)] + Length(s)
                          THEN Left(OverAt(a, s + 1)) ELSE Right(OverAt(a, s + 1))
  BY OverIs DEF OverAt
<1> DEFINE Found(s) == /\ OverAt(a, s) \in Nodes /\ Size[OverAt(a, s)] = s
                        /\ Addr[OverAt(a, s)] <= a /\ a < End[OverAt(a, s)]
           S == {s \in Sizes : Found(s)}
<1>2. MaxSize \in S
  BY <1>1, RootFacts, Numbers DEF Sizes
<1>3. ASSUME NEW s \in Sizes, s \in S, s # MinSize PROVE s - 1 \in S
  <2> DEFINE n == OverAt(a, s)
  <2>1. /\ s - 1 \in Sizes \ {MaxSize} /\ (s - 1) + 1 = s /\ n \in Nodes /\ Size[n] = s
        /\ Addr[n] <= a /\ a < End[n]
    BY <1>3, LevelFacts, Numbers DEF Sizes
  <2>2. OverAt(a, s - 1) = IF a < Addr[n] + Length(s - 1) THEN Left(n) ELSE Right(n)
    BY <1>1, <2>1
  <2>3. /\ Left(n) \in Nodes /\ Size[Left(n)] = s - 1
        /\ Right(n) \in Nodes /\ Size[Right(n)] = s - 1
        /\ Addr[Left(n)] = Addr[n] /\ End[Left(n)] = Addr[n] + Length(s - 1)
        /\ Addr[Right(n)] = Addr[n] + Length(s - 1) /\ End[Right(n)] = End[n]
    BY <1>3, <2>1, ChildFacts
  <2>4. Addr[n] \in Nat /\ End[n] \in Nat /\ Length(s - 1) \in Nat
    BY <2>1, AddrIs, LevelFacts
  <2> HIDE DEF n
  <2> QED BY <2>1, <2>2, <2>3, <2>4
<1> HIDE DEF S
<1>4. Sizes \subseteq S
  BY <1>2, <1>3, DownInduction
<1> QED BY <1>1, <1>4 DEF S

LEMMA AddrInTree ==
  ASSUME NEW n \in Nodes, NEW a \in Nat, a < End[n]
  PROVE  a < Length(MaxSize) /\ Length(MaxSize) \in Nat
<1>1. Length(MaxSize) \in Nat
  BY Numbers, LevelFacts DEF Sizes
<1> QED BY <1>1, WholeTree, AddrIs

\* A node whose block has the address is on the way to it.
LEMMA OnTheWay ==
  ASSUME NEW n \in Nodes, NEW a \in Nat, Addr[n] <= a, a < End[n]
  PROVE  n = OverAt(a, Size[n])
<1> DEFINE m == OverAt(a, Size[n])
<1>1. a < Length(MaxSize)
  BY AddrInTree
<1>2. m \in Nodes /\ Size[m] = Size[n] /\ Addr[m] <= a /\ a < End[m]
  BY <1>1, OverFacts, SizeIs
<1>3. Addr[m] \in Nat /\ End[m] \in Nat /\ Addr[n] \in Nat /\ End[n] \in Nat
  BY <1>2, AddrIs
<1> HIDE DEF m
<1>4. Addr[m] < End[n] /\ Addr[n] < End[m]
  BY <1>2, <1>3
<1> QED BY <1>2, <1>4, SameSize DEF m

\* On that way a block lies in those above it.
LEMMA OverInside ==
  ASSUME NEW a \in Nat, a < Length(MaxSize), NEW s \in Sizes, NEW r \in Sizes, s <= r
  PROVE  Inside(OverAt(a, s), OverAt(a, r))
<1> DEFINE S == {q \in s .. MaxSize : Inside(OverAt(a, s), OverAt(a, q))}
<1>1. \A q \in Sizes : /\ OverAt(a, q) \in Nodes /\ Size[OverAt(a, q)] = q
                       /\ Addr[OverAt(a, q)] \in Nat /\ End[OverAt(a, q)] \in Nat
  BY OverFacts, AddrIs
<1>2. s \in S
  BY <1>1, Numbers DEF Inside, Sizes
<1>3. ASSUME NEW q \in s .. MaxSize, q \in S, q # MaxSize PROVE q + 1 \in S
  <2> DEFINE n == OverAt(a, q + 1)
             m == OverAt(a, q)
             k == OverAt(a, s)
  <2>1. q \in Sizes /\ q + 1 \in Sizes /\ q \in Sizes \ {MaxSize} /\ q + 1 # MinSize
        /\ q + 1 \in s .. MaxSize /\ (q + 1) - 1 = q
    BY <1>3, Numbers DEF Sizes
  <2>2. m = Left(n) \/ m = Right(n)
    BY <2>1, OverFacts
  <2>3. n \in Nodes /\ Size[n] = q + 1 /\ Length(q) \in Nat /\ Addr[n] \in Nat /\ End[n] \in Nat
    BY <1>1, <2>1, LevelFacts
  <2>4. /\ Addr[Left(n)] = Addr[n] /\ End[Left(n)] = Addr[n] + Length(q)
        /\ Addr[Right(n)] = Addr[n] + Length(q) /\ End[Right(n)] = End[n]
        /\ Right(n) \in Nodes
    BY <2>1, <2>3, ChildFacts
  <2>5. Addr[Right(n)] < End[Right(n)]
    BY <2>4, AddrIs
  <2>6. Addr[n] <= Addr[m] /\ End[m] <= End[n]
    <3> HIDE DEF n, m
    <3> QED BY <2>2, <2>3, <2>4, <2>5
  <2>7. Addr[m] <= Addr[k] /\ End[k] <= End[m]
    BY <1>3 DEF Inside
  <2>8. Addr[k] \in Nat /\ End[k] \in Nat /\ Addr[m] \in Nat /\ End[m] \in Nat
    BY <1>1, <2>1
  <2>9. Inside(k, n)
    <3> HIDE DEF n, m, k
    <3> QED BY <2>3, <2>6, <2>7, <2>8 DEF Inside
  <2> QED BY <2>1, <2>9
<1>4. r \in s .. MaxSize
  BY Numbers DEF Sizes
<1> HIDE DEF S
<1>5. s .. MaxSize \subseteq S
  BY <1>2, <1>3, SizeInduction
<1> QED BY <1>4, <1>5 DEF S

\* Two blocks are apart or one lies in the other.
LEMMA Nested ==
  ASSUME NEW m \in Nodes, NEW n \in Nodes, Overlap(m, n), Size[m] <= Size[n]
  PROVE  Inside(m, n)
<1>1. Addr[m] \in Nat /\ End[m] \in Nat /\ Addr[m] < End[m] /\ Addr[n] \in Nat /\ End[n] \in Nat
      /\ Addr[n] < End[n]
  BY AddrIs
<1>2. PICK a \in Nat : Addr[m] <= a /\ a < End[m] /\ Addr[n] <= a /\ a < End[n]
  <2>1. CASE Addr[m] <= Addr[n]
    BY <1>1, <2>1 DEF Overlap
  <2>2. CASE Addr[n] <= Addr[m]
    BY <1>1, <2>2 DEF Overlap
  <2> QED BY <1>1, <2>1, <2>2
<1>3. m = OverAt(a, Size[m]) /\ n = OverAt(a, Size[n]) /\ a < Length(MaxSize)
  BY <1>2, OnTheWay, AddrInTree
<1> QED BY <1>3, OverInside, SizeIs

LEMMA LengthGrows ==
  ASSUME NEW s \in Sizes, NEW r \in Sizes, s < r
  PROVE  Length(s) < Length(r)
<1>1. s # MaxSize /\ s + 1 \in Sizes /\ s + 1 <= r
  BY Numbers DEF Sizes
<1>2. /\ (s + 1) - MinSize \in 0 .. Depth + 1 /\ r - MinSize \in 0 .. Depth + 1
      /\ (s + 1) - MinSize <= r - MinSize
  BY <1>1, Numbers DEF Sizes
<1>3. Length(s + 1) <= Length(r) /\ Length(s + 1) \in Nat /\ Length(r) \in Nat
  BY <1>2, PowerGrows DEF Length
<1>4. Length(s + 1) = 2 * Length(s) /\ Length(s) \in Nat /\ Length(s) > 0
  BY <1>1, LevelFacts
<1> QED BY <1>3, <1>4

LEMMA InsideFacts ==
  ASSUME NEW m \in Nodes, NEW n \in Nodes, Inside(m, n)
  PROVE  /\ Overlap(m, n) /\ Size[m] <= Size[n]
         /\ Size[m] = Size[n] => m = n
<1>1. /\ Addr[m] \in Nat /\ End[m] = Addr[m] + Length(Size[m]) /\ Addr[m] < End[m] /\ End[m] \in Nat
      /\ Addr[n] \in Nat /\ End[n] = Addr[n] + Length(Size[n]) /\ Addr[n] < End[n] /\ End[n] \in Nat
      /\ Size[m] \in Sizes /\ Size[n] \in Sizes /\ Size[m] \in Nat /\ Size[n] \in Nat
      /\ Length(Size[m]) \in Nat /\ Length(Size[n]) \in Nat
  BY AddrIs, SizeIs, LevelFacts
<1>2. Overlap(m, n)
  BY <1>1 DEF Inside, Overlap
<1>3. Size[m] <= Size[n]
  <2>1. ASSUME Size[n] < Size[m] PROVE FALSE
    <3>1. Length(Size[n]) < Length(Size[m])
      BY <1>1, <2>1, LengthGrows
    <3> QED BY <1>1, <3>1 DEF Inside
  <2> QED BY <1>1, <2>1
<1> QED BY <1>1, <1>2, <1>3, SameSize DEF Overlap

\* What lies properly in a block lies in one of its halves.
LEMMA InsideHalf ==
  ASSUME NEW m \in Nodes, NEW n \in Nodes, Inside(m, n), m # n
  PROVE  /\ Size[m] < Size[n] /\ Size[n] # MinSize
         /\ Inside(m, Left(n)) \/ Inside(m, Right(n))
<1>1. /\ Size[m] \in Sizes /\ Size[n] \in Sizes /\ Size[m] \in Nat /\ Size[n] \in Nat
      /\ Size[m] <= Size[n] /\ Size[m] # Size[n]
  BY InsideFacts, SizeIs, LevelFacts
<1>2. Size[m] < Size[n] /\ Size[n] # MinSize /\ Size[n] - 1 \in Sizes \ {MaxSize}
      /\ (Size[n] - 1) + 1 = Size[n] /\ Size[m] <= Size[n] - 1
  BY <1>1, Numbers DEF Sizes
<1> DEFINE a == Addr[m]
<1>3. a \in Nat /\ Addr[m] <= a /\ a < End[m] /\ Addr[n] <= a /\ a < End[n]
  BY AddrIs DEF Inside
<1>4. m = OverAt(a, Size[m]) /\ n = OverAt(a, Size[n]) /\ a < Length(MaxSize)
  BY <1>3, OnTheWay, AddrInTree
<1>5. Inside(m, OverAt(a, Size[n] - 1))
  BY <1>1, <1>2, <1>3, <1>4, OverInside
<1>6. OverAt(a, Size[n] - 1) \in {Left(n), Right(n)}
  BY <1>2, <1>3, <1>4, OverFacts
<1> QED BY <1>2, <1>5, <1>6

-----------------------------------------------------------------------------
(* A tree t in which the blocks of the nodes in H are not free.               *)

Values == Sizes \cup {FULL_USED, GET_DEPARTED}
Trees0 == [Nodes -> Values]

Apart(H) == \A h, k \in H : Overlap(h, k) => h = k

\* A block in H lies properly in that of n.
Split(n, H) == \E h \in H : Inside(h, n) /\ h # n

\* What a node that is split offers, one of its halves offers.
Offered(t, n) == t[n] \in Sizes => t[n] <= t[Left(n)] \/ t[n] <= t[Right(n)]

NodeOK(t, H, n) ==
  /\ n \in H => t[n] = FULL_USED
  /\ n \notin H /\ Split(n, H) => t[n] # FULL_USED /\ t[n] < Size[n] /\ Offered(t, n)
  /\ n \notin H /\ ~Split(n, H) => t[n] = Size[n]

TreeOK(t, H) == t \in Trees0 /\ H \subseteq Nodes /\ Apart(H) /\ \A n \in Nodes : NodeOK(t, H, n)

\* No block in H has memory of n.
Untouched(n, H) == \A h \in H : ~Overlap(h, n)

LEMMA NodeBlocks ==
  ASSUME NEW n \in Nodes
  PROVE  /\ Addr[n] \in Nat /\ End[n] \in Nat /\ Addr[n] < End[n]
         /\ Size[n] \in Sizes /\ Size[n] \in Nat /\ Size[n] >= 2 /\ Size[n] <= MaxSize /\ MinSize <= Size[n]
         /\ Inside(n, n) /\ Overlap(n, n)
<1>1. Addr[n] \in Nat /\ End[n] \in Nat /\ Addr[n] < End[n] /\ Size[n] \in Sizes
  BY AddrIs, SizeIs
<1>2. Size[n] \in Nat /\ Size[n] >= 2 /\ Size[n] <= MaxSize /\ MinSize <= Size[n]
  BY <1>1, Numbers DEF Sizes
<1> QED BY <1>1, <1>2 DEF Inside, Overlap

LEMMA InsideOrder ==
  ASSUME NEW k \in Nodes, NEW m \in Nodes, NEW n \in Nodes
  PROVE  /\ Inside(k, m) /\ Inside(m, n) => Inside(k, n)
         /\ Inside(m, n) /\ Inside(n, m) => m = n
         /\ Overlap(m, n) <=> Overlap(n, m)
         /\ Overlap(m, n) => Inside(m, n) \/ Inside(n, m)
         /\ Inside(k, m) /\ Inside(k, n) => Overlap(m, n)
         /\ Overlap(k, m) /\ Inside(m, n) => Overlap(k, n)
<1>1. /\ Inside(k, m) /\ Inside(m, n) => Inside(k, n)
      /\ Overlap(m, n) <=> Overlap(n, m)
      /\ Inside(k, m) /\ Inside(k, n) => Overlap(m, n)
      /\ Overlap(k, m) /\ Inside(m, n) => Overlap(k, n)
  BY NodeBlocks DEF Inside, Overlap
<1>2. Size[m] \in Nat /\ Size[n] \in Nat
  BY NodeBlocks
<1>3. Inside(m, n) /\ Inside(n, m) => m = n
  BY <1>2, InsideFacts
<1>4. Overlap(m, n) => Inside(m, n) \/ Inside(n, m)
  BY <1>1, <1>2, Nested
<1> QED BY <1>1, <1>3, <1>4

\* The two halves of a block.
LEMMA Halves ==
  ASSUME NEW n \in Nodes, Size[n] # MinSize
  PROVE  /\ Left(n) \in Nodes /\ Right(n) \in Nodes /\ Left(n) # Right(n)
         /\ Left(n) # n /\ Right(n) # n
         /\ Size[Left(n)] = Size[n] - 1 /\ Size[Right(n)] = Size[n] - 1 /\ Size[n] - 1 \in Sizes
         /\ Inside(Left(n), n) /\ Inside(Right(n), n) /\ ~Overlap(Left(n), Right(n))
<1>1. /\ Size[n] - 1 \in Sizes
      /\ Left(n) \in Nodes /\ Size[Left(n)] = Size[n] - 1
      /\ Right(n) \in Nodes /\ Size[Right(n)] = Size[n] - 1
      /\ Addr[Left(n)] = Addr[n] /\ End[Left(n)] = Addr[n] + Length(Size[n] - 1)
      /\ Addr[Right(n)] = Addr[n] + Length(Size[n] - 1) /\ End[Right(n)] = End[n]
  BY ChildFacts
<1>2. /\ Addr[n] \in Nat /\ End[n] \in Nat /\ Size[n] \in Nat
      /\ Addr[Left(n)] < End[Left(n)] /\ Addr[Right(n)] < End[Right(n)] /\ Length(Size[n] - 1) \in Nat
  BY <1>1, NodeBlocks, LevelFacts
<1>3. Inside(Left(n), n) /\ Inside(Right(n), n) /\ ~Overlap(Left(n), Right(n))
  BY <1>1, <1>2 DEF Inside, Overlap
<1>4. Left(n) # Right(n) /\ Left(n) # n /\ Right(n) # n
  BY <1>1, <1>2, NodeNumbers DEF Left, Right
<1> QED BY <1>1, <1>3, <1>4

\* The block of a half lies in no other block without the other half.
LEMMA AboveHalf ==
  ASSUME NEW n \in Nodes, Size[n] # MinSize, NEW c \in {Left(n), Right(n)}, NEW h \in Nodes,
         Inside(c, h), h # c
  PROVE  Inside(n, h)
<1>1. c \in Nodes /\ Inside(c, n) /\ Size[c] = Size[n] - 1 /\ Size[n] \in Nat /\ Size[h] \in Nat
  BY Halves, NodeBlocks
<1>2. Size[c] <= Size[h] /\ Size[c] # Size[h]
  BY <1>1, InsideFacts
<1>3. Overlap(n, h)
  BY <1>1, InsideOrder
<1> QED BY <1>1, <1>2, <1>3, Nested

LEMMA SplitHalves ==
  ASSUME NEW n \in Nodes, NEW H \in SUBSET Nodes
  PROVE  /\ Split(n, H) => Size[n] # MinSize
         /\ Size[n] # MinSize =>
              (Split(n, H) <=> \E c \in {Left(n), Right(n)} : c \in H \/ Split(c, H))
<1>1. ASSUME Split(n, H)
      PROVE  Size[n] # MinSize /\ \E c \in {Left(n), Right(n)} : c \in H \/ Split(c, H)
  <2>1. PICK h \in H : Inside(h, n) /\ h # n
    BY <1>1 DEF Split
  <2> QED BY <2>1, InsideHalf DEF Split
<1>2. ASSUME Size[n] # MinSize, NEW c \in {Left(n), Right(n)}, c \in H \/ Split(c, H)
      PROVE  Split(n, H)
  <2>1. PICK h \in H : Inside(h, c)
    BY <1>2, Halves, NodeBlocks DEF Split
  <2>2. Inside(h, n) /\ h # n
    <3>1. c \in Nodes /\ Inside(c, n) /\ c # n
      BY <1>2, Halves
    <3> QED BY <2>1, <3>1, InsideOrder
  <2> QED BY <2>2 DEF Split
<1> QED BY <1>1, <1>2

\* A node neither held nor split is inside a held block or untouched.
LEMMA WholeNode ==
  ASSUME NEW n \in Nodes, NEW H \in SUBSET Nodes, n \notin H, ~Split(n, H),
         \A h \in H : ~Inside(n, h)
  PROVE  Untouched(n, H)
<1> SUFFICES ASSUME NEW h \in H, Overlap(h, n) PROVE FALSE
  BY DEF Untouched
<1>1. Inside(h, n)
  BY InsideOrder
<1> QED BY <1>1 DEF Split

LEMMA UntouchedNode ==
  ASSUME NEW n \in Nodes, NEW H \in SUBSET Nodes, Untouched(n, H)
  PROVE  n \notin H /\ ~Split(n, H) /\ (\A h \in H : ~Inside(n, h) /\ ~Inside(h, n))
<1>1. \A h \in H : h \in Nodes /\ ~Overlap(h, n)
  BY DEF Untouched
<1>2. \A h \in H : ~Inside(n, h) /\ ~Inside(h, n)
  BY <1>1, InsideFacts, InsideOrder
<1>3. n \notin H
  BY <1>1, NodeBlocks
<1> QED BY <1>2, <1>3 DEF Split

LEMMA TreeFacts ==
  ASSUME NEW t, NEW H, TreeOK(t, H), NEW n \in Nodes
  PROVE  /\ t[n] \in Values /\ t[n] \in Nat /\ t[n] <= Size[n]
         /\ t[n] = FULL_USED <=> n \in H
         /\ t[n] = Size[n] <=> n \notin H /\ ~Split(n, H)
         /\ \A s \in Sizes : t[n] >= s => t[n] \in Sizes
<1>1. t[n] \in Values /\ NodeOK(t, H, n)
  BY DEF TreeOK, Trees0
<1>2. Size[n] \in Nat /\ Size[n] >= 2 /\ \A s \in Sizes : s \in Nat /\ s >= 2
  BY NodeBlocks, LevelFacts
<1>3. t[n] \in Nat
  BY <1>1, <1>2 DEF Values, FULL_USED, GET_DEPARTED
<1> QED BY <1>1, <1>2, <1>3 DEF NodeOK, Values, FULL_USED, GET_DEPARTED

\* A size in a node is a promise.
Promised(t, H, n) ==
  t[n] \in Sizes =>
    \/ \E h \in H : Inside(n, h)
    \/ \E m \in Nodes : Inside(m, n) /\ Size[m] >= t[n] /\ Untouched(m, H)

LEMMA PromiseFacts ==
  ASSUME NEW t, NEW H, TreeOK(t, H)
  PROVE  \A n \in Nodes : Promised(t, H, n)
<1> DEFINE S == {s \in Sizes : \A n \in Nodes : Size[n] = s => Promised(t, H, n)}
<1>1. H \in SUBSET Nodes
  BY DEF TreeOK
<1>2. ASSUME NEW n \in Nodes, ~Split(n, H) PROVE Promised(t, H, n)
  <2>1. CASE \E h \in H : Inside(n, h)
    BY <2>1 DEF Promised
  <2>2. CASE \A h \in H : ~Inside(n, h)
    <3>1. n \notin H
      BY <2>2, NodeBlocks
    <3>2. Untouched(n, H) /\ t[n] = Size[n] /\ Inside(n, n) /\ Size[n] \in Nat
      BY <1>1, <1>2, <2>2, <3>1, WholeNode, TreeFacts, NodeBlocks
    <3> QED BY <3>2 DEF Promised
  <2> QED BY <2>1, <2>2
<1>3. ASSUME NEW n \in Nodes, Split(n, H),
             Size[n] # MinSize => Promised(t, H, Left(n)) /\ Promised(t, H, Right(n))
      PROVE  Promised(t, H, n)
  <2> SUFFICES ASSUME t[n] \in Sizes, \A h \in H : ~Inside(n, h)
               PROVE  \E m \in Nodes : Inside(m, n) /\ Size[m] >= t[n] /\ Untouched(m, H)
    BY DEF Promised
  <2>1. n \notin H /\ Size[n] # MinSize
    BY <1>1, <1>3, SplitHalves, NodeBlocks
  <2>2. Offered(t, n)
    BY <1>3, <2>1 DEF TreeOK, NodeOK
  <2>3. PICK c \in {Left(n), Right(n)} : t[n] <= t[c]
    BY <2>2 DEF Offered
  <2>4. c \in Nodes /\ Inside(c, n)
    BY <2>1, <2>3, Halves
  <2>5. t[c] \in Sizes /\ t[c] \in Nat /\ t[n] \in Nat /\ t[c] # FULL_USED
    <3>1. t[c] \in Nat /\ t[n] \in Nat /\ \A s \in Sizes : t[c] >= s => t[c] \in Sizes
      BY <2>4, TreeFacts
    <3>2. t[c] \in Sizes
      BY <2>3, <3>1
    <3>3. t[c] >= 2
      BY <3>2, LevelFacts
    <3> QED BY <3>1, <3>2, <3>3 DEF FULL_USED
  <2>6. c \notin H
    BY <2>4, <2>5, TreeFacts
  <2>7. \A h \in H : ~Inside(c, h)
    <3>1. ASSUME NEW h \in H, Inside(c, h) PROVE FALSE
      <4>1. h \in Nodes /\ h # c
        BY <1>1, <2>6
      <4> QED BY <2>1, <2>3, <3>1, <4>1, AboveHalf
    <3> QED BY <3>1
  <2>8. PICK m \in Nodes : Inside(m, c) /\ Size[m] >= t[c] /\ Untouched(m, H)
    BY <1>3, <2>1, <2>3, <2>5, <2>7 DEF Promised
  <2>9. Inside(m, n) /\ Size[m] \in Nat
    BY <2>4, <2>8, InsideOrder, NodeBlocks
  <2> QED BY <2>3, <2>5, <2>8, <2>9
<1>4. MinSize \in S
  <2>1. ASSUME NEW n \in Nodes, Size[n] = MinSize PROVE Promised(t, H, n)
    BY <1>1, <1>2, <2>1, SplitHalves
  <2> QED BY <2>1, Numbers DEF Sizes
<1>5. ASSUME NEW s \in MinSize .. MaxSize, s \in S, s # MaxSize PROVE s + 1 \in S
  <2>1. s + 1 \in Sizes /\ s + 1 # MinSize /\ (s + 1) - 1 = s
    BY <1>5, Numbers DEF Sizes
  <2>2. ASSUME NEW n \in Nodes, Size[n] = s + 1 PROVE Promised(t, H, n)
    <3>1. Left(n) \in Nodes /\ Right(n) \in Nodes /\ Size[Left(n)] = s /\ Size[Right(n)] = s
      BY <2>1, <2>2, Halves
    <3>2. Promised(t, H, Left(n)) /\ Promised(t, H, Right(n))
      BY <1>5, <3>1
    <3> QED BY <1>2, <1>3, <3>2
  <2> QED BY <2>1, <2>2
<1> HIDE DEF S
<1>6. Sizes \subseteq S
  <2>1. MinSize \in Sizes
    BY Numbers DEF Sizes
  <2> QED BY <1>4, <1>5, <2>1, SizeInduction DEF Sizes
<1>7. ASSUME NEW n \in Nodes PROVE Promised(t, H, n)
  BY <1>6, NodeBlocks DEF S
<1> QED BY <1>7

-----------------------------------------------------------------------------
(* The descent of an allocation. *)

VisitAt(t, want, s) == Visit(t, want)[s]

LEMMA VisitIs ==
  ASSUME NEW t \in Trees0, NEW want \in Sizes
  PROVE  /\ VisitAt(t, want, MaxSize) = 1
         /\ \A s \in Sizes \ {MaxSize} :
              VisitAt(t, want, s) =
                IF t[Left(VisitAt(t, want, s + 1))] >= want
                THEN Left(VisitAt(t, want, s + 1)) ELSE Right(VisitAt(t, want, s + 1))
<1> DEFINE G == [x \in Nat \X Nat |-> IF t[Left(x[2])] >= want THEN Left(x[2]) ELSE Right(x[2])]
           E(g) == [s \in Sizes |->
                     IF s = MaxSize THEN 1
                     ELSE IF t[Left(g[s + 1])] >= want THEN Left(g[s + 1]) ELSE Right(g[s + 1])]
<1>1. G \in [Nat \X Nat -> Nat]
  BY DEF Left, Right
<1>2. \A s, n \in Nat : G[<<s, n>>] = IF t[Left(n)] >= want THEN Left(n) ELSE Right(n)
  OBVIOUS
<1> HIDE DEF G
<1>3. PICK f : IsDown(f, Nat, 1, G)
  BY <1>1, ChainDown
<1>4. f \in [Sizes -> Nat] /\ f[MaxSize] = 1 /\ \A s \in Sizes \ {MaxSize} : f[s] = G[<<s, f[s + 1]>>]
  BY <1>3 DEF IsDown
<1>5. ASSUME NEW s \in Sizes, s # MaxSize
      PROVE  f[s] = IF t[Left(f[s + 1])] >= want THEN Left(f[s + 1]) ELSE Right(f[s + 1])
  <2>1. s \in Nat /\ s + 1 \in Sizes
    BY <1>5, LevelFacts
  <2>2. f[s + 1] \in Nat /\ f[s] = G[<<s, f[s + 1]>>]
    BY <1>4, <1>5, <2>1
  <2> QED BY <1>2, <2>1, <2>2
<1>6. f = E(f)
  BY <1>4, <1>5
<1>7. Visit(t, want) = E(Visit(t, want))
  BY <1>6 DEF Visit
<1>8. MaxSize \in Sizes
  BY Numbers DEF Sizes
<1> QED BY <1>7, <1>8 DEF VisitAt

\* It keeps to nodes that offer the size, and comes to a free block.
LEMMA VisitFacts ==
  ASSUME NEW t, NEW H, TreeOK(t, H), NEW want \in Sizes, t[1] >= want
  PROVE  /\ \A s \in want .. MaxSize :
              /\ VisitAt(t, want, s) \in Nodes /\ Size[VisitAt(t, want, s)] = s
              /\ t[VisitAt(t, want, s)] >= want
              /\ s # MaxSize => VisitAt(t, want, s) \in {Left(VisitAt(t, want, s + 1)),
                                                         Right(VisitAt(t, want, s + 1))}
         /\ Untouched(VisitAt(t, want, want), H)
<1> DEFINE v(s) == VisitAt(t, want, s)
           Good(s) == /\ v(s) \in Nodes /\ Size[v(s)] = s /\ t[v(s)] >= want
                      /\ \A h \in H : ~Inside(v(s), h)
                      /\ s # MaxSize => v(s) \in {Left(v(s + 1)), Right(v(s + 1))}
           S == {s \in Sizes : s >= want => Good(s)}
<1>1. /\ v(MaxSize) = 1
      /\ \A s \in Sizes \ {MaxSize} :
           v(s) = IF t[Left(v(s + 1))] >= want THEN Left(v(s + 1)) ELSE Right(v(s + 1))
  BY VisitIs DEF TreeOK
<1> HIDE DEF v
<1>2. H \in SUBSET Nodes /\ want \in Nat /\ want >= 2 /\ MinSize <= want /\ want <= MaxSize
  BY Numbers DEF TreeOK, Sizes
<1>3. MaxSize \in S
  <2>1. 1 \in Nodes /\ Size[1] = MaxSize
    BY RootFacts
  <2>2. ASSUME NEW h \in H, Inside(1, h) PROVE FALSE
    <3>1. h \in Nodes /\ Size[h] <= MaxSize /\ MaxSize <= Size[h] /\ Size[h] \in Nat /\ MaxSize \in Nat
      BY <1>2, <2>1, <2>2, InsideFacts, NodeBlocks, Numbers
    <3>2. h = 1
      BY <2>1, <2>2, <3>1, InsideFacts
    <3>3. t[1] = 0
      BY <2>1, <2>2, <3>2, TreeFacts DEF FULL_USED
    <3> QED BY <1>2, <3>3
  <2> QED BY <1>1, <2>1, <2>2, Numbers DEF Sizes
<1>4. ASSUME NEW s \in Sizes, s \in S, s # MinSize PROVE s - 1 \in S
  <2>1. s - 1 \in Sizes \ {MaxSize} /\ (s - 1) + 1 = s /\ s \in Nat /\ s - 1 \in Nat
    BY <1>4, Numbers DEF Sizes
  <2> SUFFICES ASSUME s - 1 >= want PROVE Good(s - 1)
    BY <2>1
  <2> DEFINE n == v(s)
             c == v(s - 1)
  <2>2. n \in Nodes /\ Size[n] = s /\ t[n] >= want /\ \A h \in H : ~Inside(n, h)
    BY <1>2, <1>4, <2>1
  <2>3. c = IF t[Left(n)] >= want THEN Left(n) ELSE Right(n)
    BY <1>1, <2>1
  <2> HIDE DEF n
  <2>4. /\ Left(n) \in Nodes /\ Right(n) \in Nodes /\ Size[Left(n)] = s - 1 /\ Size[Right(n)] = s - 1
        /\ Size[n] # MinSize
    BY <1>4, <2>2, Halves
  <2>5. n \notin H
    BY <2>2, NodeBlocks
  <2>6. t[Left(n)] >= want \/ t[Right(n)] >= want
    <3>1. t[n] \in Nat /\ t[Left(n)] \in Nat /\ t[Right(n)] \in Nat
      BY <2>2, <2>4, TreeFacts
    <3>2. CASE Split(n, H)
      <4>1. Offered(t, n)
        BY <2>2, <2>5, <3>2 DEF TreeOK, NodeOK
      <4>2. t[n] \in Sizes
        BY <2>2, TreeFacts
      <4> QED BY <1>2, <2>2, <3>1, <4>1, <4>2 DEF Offered
    <3>3. CASE ~Split(n, H)
      <4>1. Left(n) \notin H /\ ~Split(Left(n), H)
        BY <1>2, <2>2, <2>4, <3>3, SplitHalves
      <4>2. t[Left(n)] = s - 1
        BY <2>4, <4>1, TreeFacts
      <4> QED BY <4>2
    <3> QED BY <3>2, <3>3
  <2>7. c \in {Left(n), Right(n)} /\ t[c] >= want
    <3>1. t[Left(n)] \in Nat /\ t[Right(n)] \in Nat
      BY <2>4, TreeFacts
    <3> QED BY <2>3, <2>6, <3>1
  <2> HIDE DEF c
  <2>8. c \in Nodes /\ Size[c] = s - 1
    BY <2>4, <2>7
  <2>9. ASSUME NEW h \in H, Inside(c, h) PROVE FALSE
    <3>1. CASE h = c
      <4>1. t[c] = 0
        BY <2>8, <2>9, <3>1, TreeFacts DEF FULL_USED
      <4> QED BY <1>2, <2>7, <4>1
    <3>2. CASE h # c
      BY <1>2, <2>2, <2>4, <2>7, <2>9, <3>2, AboveHalf
    <3> QED BY <3>1, <3>2
  <2>10. c = v(s - 1) /\ n = v((s - 1) + 1)
    BY <2>1 DEF c, n
  <2> QED BY <2>7, <2>8, <2>9, <2>10
<1>5. Sizes \subseteq S
  <2> HIDE DEF S
  <2> QED BY <1>3, <1>4, DownInduction
<1>6. ASSUME NEW s \in want .. MaxSize PROVE Good(s)
  <2>1. s \in Sizes /\ s >= want
    BY <1>2, Numbers DEF Sizes
  <2> HIDE DEF Good
  <2> QED BY <1>5, <2>1
<1>7. Untouched(v(want), H)
  <2>1. Good(want)
    BY <1>2, <1>6, Numbers
  <2>2. v(want) \in Nodes /\ t[v(want)] = Size[v(want)]
    <3>1. v(want) \in Nodes /\ Size[v(want)] = want /\ t[v(want)] >= want
      BY <2>1
    <3>2. t[v(want)] <= Size[v(want)] /\ t[v(want)] \in Nat
      BY <3>1, TreeFacts
    <3> QED BY <3>1, <3>2, <1>2
  <2>3. v(want) \notin H /\ ~Split(v(want), H)
    BY <2>2, TreeFacts
  <2> QED BY <1>2, <2>1, <2>3, WholeNode
<1> QED BY <1>6, <1>7 DEF v

\* The nodes visited are those whose block contains the one found.
LEMMA VisitPath ==
  ASSUME NEW t, NEW H, TreeOK(t, H), NEW want \in Sizes, t[1] >= want, NEW n \in Nodes
  PROVE  /\ Inside(VisitAt(t, want, want), n) <=> Size[n] >= want /\ n = VisitAt(t, want, Size[n])
         /\ want \in want .. MaxSize /\ want \in Nat
<1> DEFINE v(s) == VisitAt(t, want, s)
           S == {s \in want .. MaxSize : Inside(v(want), v(s))}
<1>1. \A s \in want .. MaxSize : /\ v(s) \in Nodes /\ Size[v(s)] = s
                                 /\ s # MaxSize => v(s) \in {Left(v(s + 1)), Right(v(s + 1))}
  BY VisitFacts
<1>2. want \in want .. MaxSize /\ want \in Nat /\ MinSize <= want
  BY Numbers DEF Sizes
<1> HIDE DEF v
<1>3. want \in S
  BY <1>1, <1>2, NodeBlocks
<1>4. ASSUME NEW s \in want .. MaxSize, s \in S, s # MaxSize PROVE s + 1 \in S
  <2>1. s + 1 \in want .. MaxSize /\ s + 1 # MinSize
    BY <1>2, <1>4, Numbers
  <2>2. v(s) \in {Left(v(s + 1)), Right(v(s + 1))} /\ v(s + 1) \in Nodes /\ Size[v(s + 1)] = s + 1
    BY <1>1, <1>4, <2>1
  <2>3. Inside(v(s), v(s + 1)) /\ v(s) \in Nodes
    BY <2>1, <2>2, Halves
  <2> QED BY <1>1, <1>2, <1>4, <2>1, <2>2, <2>3, InsideOrder
<1> HIDE DEF S
<1>5. want .. MaxSize \subseteq S
  BY <1>3, <1>4, SizeInduction
<1>6. ASSUME Inside(v(want), n) PROVE Size[n] >= want /\ n = v(Size[n])
  <2>1. v(want) \in Nodes /\ Size[v(want)] = want
    BY <1>1, <1>2
  <2>2. Size[n] >= want /\ Size[n] \in want .. MaxSize
    BY <1>2, <1>6, <2>1, InsideFacts, NodeBlocks, Numbers
  <2>3. v(Size[n]) \in Nodes /\ Size[v(Size[n])] = Size[n] /\ Inside(v(want), v(Size[n]))
    BY <1>1, <1>5, <2>2 DEF S
  <2>4. Overlap(n, v(Size[n]))
    BY <1>6, <2>1, <2>3, InsideOrder
  <2> QED BY <2>2, <2>3, <2>4, SameSize DEF Overlap
<1>7. ASSUME Size[n] >= want, n = v(Size[n]) PROVE Inside(v(want), n)
  <2>1. Size[n] \in want .. MaxSize
    BY <1>2, <1>7, NodeBlocks, Numbers
  <2> QED BY <1>5, <1>7, <2>1 DEF S
<1> QED BY <1>2, <1>6, <1>7 DEF v

\* A block on the path and its half on the path.
LEMMA HalfOnPath ==
  ASSUME NEW n \in Nodes, Size[n] # MinSize, NEW c \in {Left(n), Right(n)}, NEW v \in Nodes,
         Inside(v, c)
  PROVE  /\ {c, Sibling(c)} = {Left(n), Right(n)} /\ c # Sibling(c)
         /\ c \in Nodes /\ Sibling(c) \in Nodes /\ ~Inside(v, Sibling(c))
         /\ Inside(v, n) /\ v # n
<1>1. /\ Left(n) \in Nodes /\ Right(n) \in Nodes /\ Left(n) # Right(n) /\ ~Overlap(Left(n), Right(n))
      /\ Inside(c, n) /\ c \in Nodes /\ c # n
  BY Halves
<1>2. {c, Sibling(c)} = {Left(n), Right(n)} /\ c # Sibling(c) /\ Sibling(c) \in Nodes
  BY <1>1, Siblings
<1>3. ~Overlap(c, Sibling(c))
  BY <1>1, <1>2, InsideOrder
<1>4. ~Inside(v, Sibling(c))
  BY <1>1, <1>2, <1>3, InsideOrder
<1>5. Inside(v, n)
  BY <1>1, InsideOrder
<1>6. v # n
  BY <1>1, InsideOrder
<1> QED BY <1>1, <1>2, <1>4, <1>5, <1>6

LEMMA LargerFacts ==
  /\ \A x, y \in Values : x \in Nat /\ Larger(x, y) \in Values /\ Larger(x, y) = Larger(y, x)
                          /\ x <= Larger(x, y) /\ y <= Larger(x, y)
                          /\ (Larger(x, y) = x \/ Larger(x, y) = y)
<1>1. Values \subseteq Nat
  BY Numbers DEF Values, Sizes, FULL_USED, GET_DEPARTED
<1> QED BY <1>1 DEF Larger

LEMMA WayUpIs ==
  ASSUME NEW t, NEW H, TreeOK(t, H), NEW want \in Sizes, t[1] >= want
  PROVE  /\ WayUp(t, want) \in [want .. MaxSize -> Values]
         /\ WayUp(t, want)[want] = FULL_USED
         /\ \A s \in want + 1 .. MaxSize :
              WayUp(t, want)[s] = Refresh(t[VisitAt(t, want, s)], want, WayUp(t, want)[s - 1],
                                          t[Sibling(VisitAt(t, want, s - 1))])
<1> DEFINE v(s) == VisitAt(t, want, s)
           D == want .. MaxSize
           R(s, y) == Refresh(t[v(s)], want, y, t[Sibling(v(s - 1))])
           G == [x \in Nat \X Values |-> IF x[1] \in want + 1 .. MaxSize THEN R(x[1], x[2]) ELSE FULL_USED]
           E(g) == [s \in D |-> IF s = want THEN FULL_USED ELSE R(s, g[s - 1])]
<1>1. want \in Nat /\ MaxSize \in Nat /\ want <= MaxSize /\ MinSize <= want /\ MinSize \in Nat
  BY Numbers DEF Sizes
<1>2. FULL_USED \in Values /\ GET_DEPARTED \in Values
  BY DEF Values
<1>3. ASSUME NEW s \in want + 1 .. MaxSize, NEW y \in Values PROVE R(s, y) \in Values
  <2>1. /\ s \in D /\ s - 1 \in D /\ s - 1 # MaxSize /\ (s - 1) + 1 = s /\ s # MinSize
    BY <1>1, <1>3
  <2>2. v(s) \in Nodes /\ Size[v(s)] = s /\ v(s - 1) \in {Left(v(s)), Right(v(s))} /\ v(s - 1) \in Nodes
    BY <2>1, VisitFacts
  <2>3. Sibling(v(s - 1)) \in Nodes
    BY <2>1, <2>2, NodeBlocks, HalfOnPath
  <2>4. t[Sibling(v(s - 1))] \in Values
    BY <2>3, TreeFacts
  <2> QED BY <1>2, <1>3, <2>4, LargerFacts DEF Refresh
<1>4. G \in [Nat \X Values -> Values]
  <2>1. ASSUME NEW x \in Nat \X Values, x[1] \in want + 1 .. MaxSize PROVE R(x[1], x[2]) \in Values
    BY <1>3, <2>1
  <2> HIDE DEF R
  <2> QED BY <1>2, <2>1
<1>5. ASSUME NEW s \in want + 1 .. MaxSize, NEW y \in Values PROVE G[<<s, y>>] = R(s, y)
  <2>1. <<s, y>> \in Nat \X Values
    BY <1>1
  <2> HIDE DEF R
  <2> QED BY <1>5, <2>1
<1> HIDE DEF G
<1>6. PICK f : IsUp(f, want, Values, FULL_USED, G)
  BY <1>2, <1>4, ChainUp
<1>7. f \in [D -> Values] /\ f[want] = FULL_USED /\ \A s \in want + 1 .. MaxSize : f[s] = G[<<s, f[s - 1]>>]
  BY <1>6 DEF IsUp
<1>8. ASSUME NEW s \in want + 1 .. MaxSize PROVE f[s] = R(s, f[s - 1])
  <2>1. s - 1 \in D
    BY <1>1
  <2>2. f[s - 1] \in Values
    BY <1>7, <2>1
  <2> HIDE DEF R
  <2> QED BY <1>5, <1>7, <2>2
<1>9. f = E(f)
  <2>1. ASSUME NEW s \in D PROVE f[s] = IF s = want THEN FULL_USED ELSE R(s, f[s - 1])
    <3>1. s # want => s \in want + 1 .. MaxSize
      BY <1>1
    <3> HIDE DEF R
    <3> QED BY <1>7, <1>8, <3>1
  <2> HIDE DEF R
  <2> QED BY <1>7, <2>1
<1>10. WayUp(t, want) = E(WayUp(t, want))
  BY <1>9 DEF WayUp, VisitAt, Taken
<1> DEFINE w == WayUp(t, want)
           S == {s \in D : w[s] = f[s]}
<1> HIDE DEF w, R
<1>11. w = [s \in D |-> IF s = want THEN FULL_USED ELSE R(s, w[s - 1])]
  BY <1>10 DEF w
<1>12. w[want] = FULL_USED /\ \A s \in want + 1 .. MaxSize : w[s] = R(s, w[s - 1])
  BY <1>1, <1>11
<1>13. want \in S
  BY <1>1, <1>7, <1>12
<1>14. ASSUME NEW s \in D, s \in S, s # MaxSize PROVE s + 1 \in S
  <2>1. s + 1 \in want + 1 .. MaxSize /\ (s + 1) - 1 = s /\ s + 1 \in D
    BY <1>1, <1>14
  <2> QED BY <1>8, <1>12, <1>14, <2>1
<1> HIDE DEF S
<1>15. D \subseteq S
  BY <1>13, <1>14, SizeInduction
<1>16. w \in [D -> Values]
  BY <1>7, <1>11, <1>15 DEF S
<1> QED BY <1>12, <1>16 DEF w, R

LEMMA AfterTakeIs ==
  ASSUME NEW t, NEW H, TreeOK(t, H), NEW want \in Sizes, t[1] >= want,
         NEW v, v = VisitAt(t, want, want), NEW new, new = AfterTake(t, want)
  PROVE  /\ v \in Nodes /\ Size[v] = want /\ new \in Trees0 /\ new[v] = FULL_USED
         /\ \A n \in Nodes : ~Inside(v, n) => new[n] = t[n]
         /\ \A n \in Nodes : Inside(v, n) /\ n # v =>
              /\ t[n] >= want /\ Size[n] # MinSize
              /\ new[n] = IF t[n] = want THEN GET_DEPARTED ELSE Larger(new[Left(n)], new[Right(n)])
<1> DEFINE up == WayUp(t, want)
           on(s) == VisitAt(t, want, s)
<1>1. want \in Nat /\ MaxSize \in Nat /\ want <= MaxSize /\ MinSize <= want /\ want \in want .. MaxSize
      /\ MinSize \in Nat
  BY Numbers DEF Sizes
<1>2. /\ up \in [want .. MaxSize -> Values] /\ up[want] = FULL_USED
      /\ \A s \in want + 1 .. MaxSize :
           up[s] = Refresh(t[on(s)], want, up[s - 1], t[Sibling(on(s - 1))])
  BY WayUpIs
<1>3. \A s \in want .. MaxSize :
        /\ on(s) \in Nodes /\ Size[on(s)] = s /\ t[on(s)] >= want
        /\ s # MaxSize => on(s) \in {Left(on(s + 1)), Right(on(s + 1))}
  BY VisitFacts
<1>4. \A n \in Nodes : Inside(v, n) <=> Size[n] >= want /\ n = on(Size[n])
  BY VisitPath
<1> HIDE DEF up
<1>5. new = [n \in Nodes |-> IF Size[n] >= want /\ n = on(Size[n]) THEN up[Size[n]] ELSE t[n]]
  BY DEF AfterTake, VisitAt, up
<1>6. v \in Nodes /\ Size[v] = want /\ v = on(want)
  BY <1>1, <1>3
<1> HIDE DEF on
<1>7. ASSUME NEW n \in Nodes
      PROVE  /\ ~Inside(v, n) => new[n] = t[n]
             /\ Inside(v, n) => new[n] = up[Size[n]] /\ n = on(Size[n]) /\ Size[n] \in want .. MaxSize
  BY <1>1, <1>4, <1>5, NodeBlocks
<1>8. new \in Trees0
  <2>1. ASSUME NEW n \in Nodes PROVE new[n] \in Values
    BY <1>2, <1>7, TreeFacts
  <2> QED BY <1>5, <2>1 DEF Trees0
<1>9. new[v] = FULL_USED
  BY <1>2, <1>6, <1>7, NodeBlocks
<1>10. ASSUME NEW n \in Nodes, Inside(v, n), n # v
       PROVE  /\ t[n] >= want /\ Size[n] # MinSize
              /\ new[n] = IF t[n] = want THEN GET_DEPARTED ELSE Larger(new[Left(n)], new[Right(n)])
  <2> DEFINE s == Size[n]
             c == on(s - 1)
  <2>1. s \in want .. MaxSize /\ s # want /\ new[n] = up[s] /\ n = on(s)
    BY <1>6, <1>7, <1>10, InsideFacts
  <2>2. s \in want + 1 .. MaxSize /\ s - 1 \in want .. MaxSize /\ (s - 1) + 1 = s /\ s - 1 # MaxSize
        /\ s # MinSize /\ s - 1 >= want
    BY <1>1, <2>1
  <2>3. c \in Nodes /\ Size[c] = s - 1 /\ c \in {Left(n), Right(n)}
    BY <1>3, <2>1, <2>2
  <2>4. Inside(v, c)
    BY <1>4, <2>2, <2>3
  <2>5. new[n] = Refresh(t[n], want, up[s - 1], t[Sibling(c)])
    BY <1>2, <2>1, <2>2
  <2> HIDE DEF s, c
  <2>6. s = Size[n]
    BY DEF s
  <2>7. new[c] = up[s - 1]
    BY <1>7, <2>3, <2>4
  <2>8. {c, Sibling(c)} = {Left(n), Right(n)} /\ Sibling(c) \in Nodes /\ ~Inside(v, Sibling(c))
    BY <1>6, <2>2, <2>3, <2>4, <2>6, HalfOnPath
  <2>9. new[Sibling(c)] = t[Sibling(c)] /\ new[c] \in Values /\ new[Sibling(c)] \in Values
    BY <1>7, <1>8, <2>3, <2>8 DEF Trees0
  <2>10. Larger(new[c], new[Sibling(c)]) = Larger(new[Left(n)], new[Right(n)])
    <3>1. (c = Left(n) /\ Sibling(c) = Right(n)) \/ (c = Right(n) /\ Sibling(c) = Left(n))
          \/ (c = Sibling(c))
      BY <2>8
    <3> QED BY <2>8, <2>9, <3>1, LargerFacts
  <2>11. new[n] = IF t[n] = want THEN GET_DEPARTED ELSE Larger(new[Left(n)], new[Right(n)])
    BY <2>5, <2>7, <2>9, <2>10 DEF Refresh
  <2>12. t[n] >= want
    BY <1>3, <2>1
  <2> QED BY <2>2, <2>6, <2>11, <2>12
<1> QED BY <1>6, <1>7, <1>8, <1>9, <1>10

\* A node off the path keeps its state.
LEMMA OffPath ==
  ASSUME NEW t, NEW H, TreeOK(t, H), NEW new \in Trees0, NEW K \in SUBSET Nodes, NEW v \in Nodes,
         K \ {v} = H \ {v}, NEW n \in Nodes, ~Inside(v, n),
         \A m \in Nodes : ~Inside(v, m) => new[m] = t[m]
  PROVE  NodeOK(new, K, n)
<1>1. H \in SUBSET Nodes /\ NodeOK(t, H, n) /\ new[n] = t[n] /\ n # v
  BY NodeBlocks DEF TreeOK
<1>2. n \in K <=> n \in H
  BY <1>1
<1>3. Split(n, K) <=> Split(n, H)
  BY <1>1 DEF Split
<1>4. ASSUME Split(n, H) PROVE new[Left(n)] = t[Left(n)] /\ new[Right(n)] = t[Right(n)]
  <2>1. Size[n] # MinSize
    BY <1>1, <1>4, SplitHalves
  <2>2. /\ Left(n) \in Nodes /\ Right(n) \in Nodes /\ Inside(Left(n), n) /\ Inside(Right(n), n)
    BY <2>1, Halves
  <2>3. ~Inside(v, Left(n)) /\ ~Inside(v, Right(n))
    BY <2>2, InsideOrder
  <2> QED BY <2>2, <2>3
<1> QED BY <1>1, <1>2, <1>3, <1>4 DEF NodeOK, Offered

LEMMA TakeKeeps ==
  ASSUME NEW t, NEW H, TreeOK(t, H), NEW want \in Sizes, t[1] >= want,
         NEW v, v = VisitAt(t, want, want), NEW new, new = AfterTake(t, want)
  PROVE  v \in Nodes /\ Untouched(v, H) /\ TreeOK(new, H \cup {v})
<1> DEFINE K == H \cup {v}
<1>1. /\ v \in Nodes /\ Size[v] = want /\ new \in Trees0 /\ new[v] = FULL_USED
      /\ \A n \in Nodes : ~Inside(v, n) => new[n] = t[n]
      /\ \A n \in Nodes : Inside(v, n) /\ n # v =>
           /\ t[n] >= want /\ Size[n] # MinSize
           /\ new[n] = IF t[n] = want THEN GET_DEPARTED ELSE Larger(new[Left(n)], new[Right(n)])
  BY AfterTakeIs
<1>2. Untouched(v, H) /\ H \in SUBSET Nodes /\ K \in SUBSET Nodes
  BY <1>1, VisitFacts DEF TreeOK
<1>3. v \notin H /\ \A h \in H : ~Inside(v, h) /\ ~Inside(h, v)
  BY <1>1, <1>2, UntouchedNode
<1>4. want \in Nat /\ want >= 2 /\ want \in want .. MaxSize /\ MaxSize \in Nat /\ MinSize <= want
      /\ MinSize \in Nat
  BY Numbers DEF Sizes
<1>5. Apart(K)
  <2> SUFFICES ASSUME NEW h \in K, NEW k \in K, Overlap(h, k) PROVE h = k
    BY DEF Apart
  <2>1. ASSUME h = v, k \in H PROVE FALSE
    BY <1>1, <1>2, <2>1, InsideOrder DEF Untouched
  <2>2. ASSUME k = v, h \in H PROVE FALSE
    BY <1>2, <2>2 DEF Untouched
  <2>3. ASSUME h \in H, k \in H PROVE h = k
    BY <2>3 DEF TreeOK, Apart
  <2> QED BY <2>1, <2>2, <2>3
<1> DEFINE S == {s \in want .. MaxSize : \A n \in Nodes : Size[n] = s /\ Inside(v, n) /\ n # v =>
                                           new[n] # FULL_USED /\ new[n] < s}
<1>6. want \in S
  BY <1>1, <1>4, InsideFacts
<1>7. ASSUME NEW s \in want .. MaxSize, s \in S, s # MaxSize PROVE s + 1 \in S
  <2>1. s + 1 \in want .. MaxSize /\ (s + 1) - 1 = s /\ s \in Nat /\ s >= 2
    BY <1>4, <1>7
  <2> SUFFICES ASSUME NEW n \in Nodes, Size[n] = s + 1, Inside(v, n), n # v
               PROVE  new[n] # FULL_USED /\ new[n] < s + 1
    BY <2>1
  <2>2. /\ t[n] >= want /\ Size[n] # MinSize /\ t[n] \in Nat
        /\ new[n] = IF t[n] = want THEN GET_DEPARTED ELSE Larger(new[Left(n)], new[Right(n)])
    BY <1>1, TreeFacts
  <2>3. CASE t[n] = want
    BY <2>1, <2>2, <2>3 DEF FULL_USED, GET_DEPARTED
  <2>4. CASE t[n] # want
    <3>1. PICK c \in {Left(n), Right(n)} : Inside(v, c)
      BY <1>1, InsideHalf
    <3> DEFINE d == Sibling(c)
    <3>2. /\ c \in Nodes /\ d \in Nodes /\ {c, d} = {Left(n), Right(n)} /\ c # d /\ ~Inside(v, d)
      BY <1>1, <2>2, <3>1, HalfOnPath
    <3>3. Size[c] = s /\ Size[d] = s
      <4>1. Size[Left(n)] = s /\ Size[Right(n)] = s
        BY <2>1, <2>2, Halves
      <4> QED BY <3>2, <4>1
    <3> HIDE DEF d
    <3>4. new[c] \in Values /\ new[d] \in Values /\ new[d] = t[d]
      BY <1>1, <3>2 DEF Trees0
    <3>5. Larger(new[Left(n)], new[Right(n)]) = Larger(new[c], new[d])
      <4>1. (c = Left(n) /\ d = Right(n)) \/ (c = Right(n) /\ d = Left(n))
        BY <3>2
      <4> QED BY <3>4, <4>1, LargerFacts
    <3>6. new[c] \in Nat /\ new[d] \in Nat /\ new[d] <= s
      BY <3>2, <3>3, <3>4, LargerFacts, TreeFacts
    <3>7. new[n] \in {new[c], new[d]} /\ new[c] <= new[n] /\ new[d] <= new[n]
      BY <2>2, <2>4, <3>4, <3>5, LargerFacts
    <3>8. CASE c # v
      <4>1. new[c] # FULL_USED /\ new[c] < s
        BY <1>7, <3>1, <3>2, <3>3, <3>8
      <4> QED BY <3>6, <3>7, <4>1, <2>1 DEF FULL_USED
    <3>9. CASE c = v
      <4>1. new[c] = 0 /\ s = want
        BY <1>1, <3>3, <3>9 DEF FULL_USED
      <4>2. new[n] < s + 1
        BY <2>1, <3>6, <3>7, <4>1
      <4>3. ASSUME new[n] = 0 PROVE FALSE
        <5>1. t[d] = 0
          BY <3>4, <3>6, <3>7, <4>3
        <5>2. d \in H
          BY <3>2, <5>1, TreeFacts DEF FULL_USED
        <5>3. Inside(d, n) /\ d # n
          BY <2>2, <3>2, Halves
        <5>4. n \notin H /\ Split(n, H)
          BY <1>3, <5>2, <5>3 DEF Split
        <5>5. Offered(t, n) /\ t[n] \in Sizes
          BY <2>2, <5>4, TreeFacts DEF TreeOK, NodeOK
        <5>6. t[n] <= t[c] \/ t[n] <= t[d]
          BY <3>2, <5>5 DEF Offered
        <5>7. t[c] <= want /\ t[c] \in Nat
          BY <3>2, <3>3, <4>1, TreeFacts
        <5> QED BY <1>4, <2>2, <2>4, <5>1, <5>6, <5>7
      <4> QED BY <4>2, <4>3 DEF FULL_USED
    <3> QED BY <3>8, <3>9
  <2> QED BY <2>3, <2>4
<1> HIDE DEF S
<1>8. want .. MaxSize \subseteq S
  BY <1>6, <1>7, SizeInduction
<1>9. ASSUME NEW n \in Nodes PROVE NodeOK(new, K, n)
  <2>1. CASE n = v
    <3>1. n \in K /\ new[n] = FULL_USED
      BY <1>1, <2>1
    <3> QED BY <3>1 DEF NodeOK
  <2>2. CASE ~Inside(v, n)
    <3>1. K \ {v} = H \ {v}
      OBVIOUS
    <3> HIDE DEF K
    <3> QED BY <1>1, <1>2, <2>2, <3>1, OffPath
  <2>3. CASE Inside(v, n) /\ n # v
    <3>1. n \notin K /\ Split(n, K)
      BY <1>3, <2>3 DEF Split
    <3>2. Size[n] \in want .. MaxSize
      BY <1>1, <1>4, <2>3, InsideFacts, NodeBlocks
    <3>3. new[n] # FULL_USED /\ new[n] < Size[n]
      BY <1>8, <2>3, <3>2 DEF S
    <3>4. Offered(new, n)
      <4>1. CASE t[n] = want
        <5>1. new[n] = 1
          BY <1>1, <2>3, <4>1 DEF GET_DEPARTED
        <5>2. 1 \notin Sizes
          BY Numbers DEF Sizes
        <5> QED BY <5>1, <5>2 DEF Offered
      <4>2. CASE t[n] # want
        <5>1. new[n] = Larger(new[Left(n)], new[Right(n)]) /\ Left(n) \in Nodes /\ Right(n) \in Nodes
          BY <1>1, <2>3, <4>2, Halves
        <5>2. new[Left(n)] \in Values /\ new[Right(n)] \in Values
          BY <1>1, <5>1 DEF Trees0
        <5>3. new[n] = new[Left(n)] \/ new[n] = new[Right(n)]
          BY <5>1, <5>2, LargerFacts
        <5>4. new[n] \in Nat
          BY <5>2, <5>3, LargerFacts
        <5> QED BY <5>3, <5>4 DEF Offered
      <4> QED BY <4>1, <4>2
    <3> QED BY <3>1, <3>3, <3>4 DEF NodeOK
  <2> QED BY <2>1, <2>2, <2>3
<1> QED BY <1>1, <1>2, <1>5, <1>9 DEF TreeOK

-----------------------------------------------------------------------------
(* The way of a free. *)

\* The address leads to the block that was handed out.
LEMMA FreedIs ==
  ASSUME NEW t, NEW H, TreeOK(t, H), NEW v \in H
  PROVE  /\ v \in Nodes /\ Addr[v] < Length(MaxSize) /\ OverAt(Addr[v], Size[v]) = v
         /\ StopsAt(t, Addr[v]) = {Size[v]} /\ FreedSize(t, Addr[v]) = Size[v]
<1> DEFINE a == Addr[v]
<1>1. v \in Nodes /\ H \in SUBSET Nodes
  BY DEF TreeOK
<1>2. a \in Nat /\ a < End[v] /\ Addr[v] <= a /\ End[v] \in Nat /\ Size[v] \in Sizes /\ Size[v] \in Nat
  BY <1>1, NodeBlocks
<1>3. a < Length(MaxSize) /\ OverAt(a, Size[v]) = v
  BY <1>1, <1>2, AddrInTree, OnTheWay
<1>4. StopsAt(t, a) = {s \in Sizes : Addr[OverAt(a, s)] = a /\ t[OverAt(a, s)] = FULL_USED}
  BY DEF StopsAt, OverAt
<1>5. Size[v] \in StopsAt(t, a)
  BY <1>1, <1>2, <1>3, <1>4, TreeFacts
<1>6. ASSUME NEW s \in StopsAt(t, a) PROVE s = Size[v]
  <2> DEFINE n == OverAt(a, s)
  <2>1. s \in Sizes /\ Addr[n] = a /\ t[n] = FULL_USED
    BY <1>4
  <2>2. n \in Nodes /\ Size[n] = s
    BY <1>2, <1>3, <2>1, OverFacts
  <2> HIDE DEF n
  <2>3. n \in H
    BY <2>1, <2>2, TreeFacts
  <2>4. Overlap(n, v)
    BY <1>2, <2>1, <2>2, NodeBlocks DEF Overlap
  <2>5. n = v
    BY <2>3, <2>4 DEF TreeOK, Apart
  <2> QED BY <2>2, <2>5
<1>7. StopsAt(t, a) = {Size[v]}
  BY <1>5, <1>6
<1>8. FreedSize(t, a) = Size[v]
  BY <1>2, <1>7 DEF FreedSize
<1> QED BY <1>1, <1>3, <1>7, <1>8

\* The nodes on the way down are those whose block contains the one freed.
LEMMA OverPath ==
  ASSUME NEW v \in Nodes, NEW n \in Nodes
  PROVE  Inside(v, n) <=> Size[n] >= Size[v] /\ n = OverAt(Addr[v], Size[n])
<1>1. /\ Addr[v] \in Nat /\ Addr[v] < End[v] /\ End[v] \in Nat /\ Size[v] \in Sizes /\ Size[n] \in Sizes
      /\ Addr[n] \in Nat /\ End[n] \in Nat /\ Size[v] \in Nat /\ Size[n] \in Nat
  BY NodeBlocks
<1>2. Addr[v] < Length(MaxSize) /\ OverAt(Addr[v], Size[v]) = v
  BY <1>1, AddrInTree, OnTheWay
<1>3. ASSUME Inside(v, n) PROVE Size[n] >= Size[v] /\ n = OverAt(Addr[v], Size[n])
  <2>1. Addr[n] <= Addr[v] /\ Addr[v] < End[n]
    BY <1>1, <1>3 DEF Inside
  <2> QED BY <1>1, <1>3, <2>1, InsideFacts, OnTheWay
<1>4. ASSUME Size[n] >= Size[v], n = OverAt(Addr[v], Size[n]) PROVE Inside(v, n)
  BY <1>1, <1>2, <1>4, OverInside
<1> QED BY <1>3, <1>4

LEMMA MergeFacts ==
  ASSUME NEW s \in Sizes, NEW x \in Values, NEW y \in Values
  PROVE  /\ Merge(s, x, y) \in Values /\ Merge(s, x, y) = Merge(s, y, x)
         /\ x = s - 1 /\ y = s - 1 => Merge(s, x, y) = s
         /\ ~(x = s - 1 /\ y = s - 1) => Merge(s, x, y) = Larger(x, y)
BY LargerFacts DEF Merge, Values

LEMMA WayBackIs ==
  ASSUME NEW t, NEW H, TreeOK(t, H), NEW v \in H
  PROVE  /\ WayBack(t, Addr[v], Size[v]) \in [Size[v] .. MaxSize -> Values]
         /\ WayBack(t, Addr[v], Size[v])[Size[v]] = Size[v]
         /\ \A s \in Size[v] + 1 .. MaxSize :
              WayBack(t, Addr[v], Size[v])[s] =
                Merge(s, WayBack(t, Addr[v], Size[v])[s - 1], t[Sibling(OverAt(Addr[v], s - 1))])
<1> DEFINE a == Addr[v]
           lo == Size[v]
           D == lo .. MaxSize
           R(s, y) == Merge(s, y, t[Sibling(OverAt(a, s - 1))])
           G == [x \in Nat \X Values |-> IF x[1] \in lo + 1 .. MaxSize THEN R(x[1], x[2]) ELSE FULL_USED]
           E(g) == [s \in D |-> IF s = lo THEN s ELSE R(s, g[s - 1])]
<1>1. v \in Nodes /\ a \in Nat /\ a < Length(MaxSize) /\ lo \in Sizes /\ lo \in Nat /\ MaxSize \in Nat
      /\ lo <= MaxSize /\ MinSize <= lo /\ MinSize \in Nat
  BY FreedIs, NodeBlocks, Numbers DEF TreeOK
<1>2. FULL_USED \in Values /\ lo \in Values
  BY <1>1 DEF Values
<1>3. ASSUME NEW s \in lo + 1 .. MaxSize, NEW y \in Values PROVE R(s, y) \in Values
  <2> DEFINE n == OverAt(a, s)
             c == OverAt(a, s - 1)
  <2>1. s \in Sizes /\ s - 1 \in Sizes \ {MaxSize} /\ (s - 1) + 1 = s /\ s # MinSize
    BY <1>1, <1>3, Numbers DEF Sizes
  <2>2. n \in Nodes /\ Size[n] = s /\ c \in {Left(n), Right(n)}
    BY <1>1, <2>1, OverFacts
  <2>3. Sibling(c) \in Nodes
    <3> HIDE DEF n, c
    <3>1. Left(n) \in Nodes /\ Right(n) \in Nodes
      BY <2>1, <2>2, Halves
    <3> QED BY <2>2, <3>1, Siblings
  <2>4. t[Sibling(c)] \in Values
    BY <2>3, TreeFacts
  <2> HIDE DEF c
  <2> QED BY <2>1, <2>4, MergeFacts DEF c
<1>4. G \in [Nat \X Values -> Values]
  <2>1. ASSUME NEW x \in Nat \X Values, x[1] \in lo + 1 .. MaxSize PROVE R(x[1], x[2]) \in Values
    BY <1>3, <2>1
  <2> HIDE DEF R
  <2> QED BY <1>2, <2>1
<1>5. ASSUME NEW s \in lo + 1 .. MaxSize, NEW y \in Values PROVE G[<<s, y>>] = R(s, y)
  <2>1. <<s, y>> \in Nat \X Values
    BY <1>1
  <2> HIDE DEF R
  <2> QED BY <1>5, <2>1
<1> HIDE DEF G
<1>6. PICK f : IsUp(f, lo, Values, lo, G)
  BY <1>1, <1>2, <1>4, ChainUp
<1>7. f \in [D -> Values] /\ f[lo] = lo /\ \A s \in lo + 1 .. MaxSize : f[s] = G[<<s, f[s - 1]>>]
  BY <1>6 DEF IsUp
<1>8. ASSUME NEW s \in lo + 1 .. MaxSize PROVE f[s] = R(s, f[s - 1])
  <2>1. s - 1 \in D
    BY <1>1
  <2>2. f[s - 1] \in Values
    BY <1>7, <2>1
  <2> HIDE DEF R
  <2> QED BY <1>5, <1>7, <2>2
<1>9. f = E(f)
  <2>1. ASSUME NEW s \in D PROVE f[s] = IF s = lo THEN s ELSE R(s, f[s - 1])
    <3>1. s # lo => s \in lo + 1 .. MaxSize
      BY <1>1
    <3> HIDE DEF R
    <3> QED BY <1>7, <1>8, <3>1
  <2> HIDE DEF R
  <2> QED BY <1>7, <2>1
<1>10. WayBack(t, a, lo) = E(WayBack(t, a, lo))
  BY <1>9 DEF WayBack, OverAt
<1> DEFINE w == WayBack(t, a, lo)
           S == {s \in D : w[s] = f[s]}
<1> HIDE DEF w, R
<1>11. w = [s \in D |-> IF s = lo THEN s ELSE R(s, w[s - 1])]
  BY <1>10 DEF w
<1>12. w[lo] = lo /\ \A s \in lo + 1 .. MaxSize : w[s] = R(s, w[s - 1])
  BY <1>1, <1>11
<1>13. lo \in S
  BY <1>1, <1>7, <1>12
<1>14. ASSUME NEW s \in D, s \in S, s # MaxSize PROVE s + 1 \in S
  <2>1. s + 1 \in lo + 1 .. MaxSize /\ (s + 1) - 1 = s /\ s + 1 \in D
    BY <1>1, <1>14
  <2> QED BY <1>8, <1>12, <1>14, <2>1
<1> HIDE DEF S
<1>15. D \subseteq S
  BY <1>1, <1>13, <1>14, SizeInduction
<1>16. w \in [D -> Values]
  BY <1>7, <1>11, <1>15 DEF S
<1> QED BY <1>12, <1>16 DEF w, R

LEMMA AfterFreeIs ==
  ASSUME NEW t, NEW H, TreeOK(t, H), NEW v \in H, NEW new, new = AfterFree(t, Addr[v])
  PROVE  /\ new \in Trees0 /\ new[v] = Size[v]
         /\ \A n \in Nodes : ~Inside(v, n) => new[n] = t[n]
         /\ \A n \in Nodes : Inside(v, n) /\ n # v =>
              Size[n] # MinSize /\ new[n] = Merge(Size[n], new[Left(n)], new[Right(n)])
<1> DEFINE lo == Size[v]
           up == WayBack(t, Addr[v], lo)
           on(s) == OverAt(Addr[v], s)
<1>1. /\ v \in Nodes /\ Addr[v] \in Nat /\ Addr[v] < Length(MaxSize) /\ lo \in Sizes /\ lo \in Nat
      /\ MaxSize \in Nat /\ lo <= MaxSize /\ MinSize <= lo /\ MinSize \in Nat
  BY FreedIs, NodeBlocks, Numbers DEF TreeOK
<1>2. /\ up \in [lo .. MaxSize -> Values] /\ up[lo] = lo
      /\ \A s \in lo + 1 .. MaxSize : up[s] = Merge(s, up[s - 1], t[Sibling(on(s - 1))])
  BY WayBackIs
<1>3. /\ \A s \in Sizes : on(s) \in Nodes /\ Size[on(s)] = s
      /\ \A s \in Sizes \ {MaxSize} : on(s) \in {Left(on(s + 1)), Right(on(s + 1))}
  BY <1>1, OverFacts
<1>4. \A n \in Nodes : Inside(v, n) <=> Size[n] >= lo /\ n = on(Size[n])
  BY <1>1, OverPath
<1>5. FreedSize(t, Addr[v]) = lo
  BY FreedIs
<1> HIDE DEF up
<1>6. new = [n \in Nodes |-> IF Size[n] >= lo /\ n = on(Size[n]) THEN up[Size[n]] ELSE t[n]]
  BY <1>5 DEF AfterFree, OverAt, up
<1> HIDE DEF on
<1>7. ASSUME NEW n \in Nodes
      PROVE  /\ ~Inside(v, n) => new[n] = t[n]
             /\ Inside(v, n) => new[n] = up[Size[n]] /\ n = on(Size[n]) /\ Size[n] \in lo .. MaxSize
  BY <1>1, <1>4, <1>6, NodeBlocks
<1>8. new \in Trees0
  <2>1. ASSUME NEW n \in Nodes PROVE new[n] \in Values
    BY <1>2, <1>7, TreeFacts
  <2> QED BY <1>6, <2>1 DEF Trees0
<1>9. new[v] = Size[v]
  BY <1>1, <1>2, <1>7, NodeBlocks
<1>10. ASSUME NEW n \in Nodes, Inside(v, n), n # v
       PROVE  Size[n] # MinSize /\ new[n] = Merge(Size[n], new[Left(n)], new[Right(n)])
  <2> DEFINE s == Size[n]
             c == on(s - 1)
  <2>1. s \in lo .. MaxSize /\ s # lo /\ new[n] = up[s] /\ n = on(s) /\ s \in Sizes
    BY <1>1, <1>7, <1>10, InsideFacts, NodeBlocks
  <2>2. /\ s \in lo + 1 .. MaxSize /\ s - 1 >= lo /\ (s - 1) + 1 = s /\ s - 1 \in Sizes \ {MaxSize}
        /\ s # MinSize
    BY <1>1, <2>1 DEF Sizes
  <2>3. c \in Nodes /\ Size[c] = s - 1 /\ c \in {Left(n), Right(n)}
    BY <1>3, <2>1, <2>2
  <2>4. Inside(v, c)
    BY <1>4, <2>2, <2>3
  <2>5. new[n] = Merge(s, up[s - 1], t[Sibling(c)])
    BY <1>2, <2>1, <2>2
  <2> HIDE DEF s, c
  <2>6. s = Size[n]
    BY DEF s
  <2>7. new[c] = up[s - 1]
    BY <1>7, <2>3, <2>4
  <2>8. {c, Sibling(c)} = {Left(n), Right(n)} /\ Sibling(c) \in Nodes /\ ~Inside(v, Sibling(c))
    BY <1>1, <2>2, <2>3, <2>4, <2>6, HalfOnPath
  <2>9. new[Sibling(c)] = t[Sibling(c)] /\ new[c] \in Values /\ new[Sibling(c)] \in Values
    BY <1>7, <1>8, <2>3, <2>8 DEF Trees0
  <2>10. Merge(s, new[c], new[Sibling(c)]) = Merge(s, new[Left(n)], new[Right(n)])
    <3>1. (c = Left(n) /\ Sibling(c) = Right(n)) \/ (c = Right(n) /\ Sibling(c) = Left(n))
          \/ (c = Sibling(c))
      BY <2>8
    <3>2. Merge(s, new[c], new[Sibling(c)]) = Merge(s, new[Sibling(c)], new[c])
      BY <2>1, <2>9, MergeFacts
    <3> QED BY <3>1, <3>2, <2>8
  <2> QED BY <2>2, <2>5, <2>6, <2>7, <2>9, <2>10
<1> QED BY <1>7, <1>8, <1>9, <1>10

\* A free keeps the tree sound, and merges the halves that are whole again.
LEMMA FreeKeeps ==
  ASSUME NEW t, NEW H, TreeOK(t, H), NEW v \in H, NEW new, new = AfterFree(t, Addr[v])
  PROVE  /\ TreeOK(new, H \ {v})
         /\ \A n \in Nodes : Inside(v, n) => new[n] \in Sizes
<1> DEFINE K == H \ {v}
           lo == Size[v]
           Good(n) == /\ new[n] \in Sizes /\ new[n] <= Size[n]
                      /\ new[n] = Size[n] <=> ~Split(n, K)
           S == {s \in lo .. MaxSize : \A n \in Nodes : Size[n] = s /\ Inside(v, n) => Good(n)}
<1>1. /\ new \in Trees0 /\ new[v] = Size[v]
      /\ \A n \in Nodes : ~Inside(v, n) => new[n] = t[n]
      /\ \A n \in Nodes : Inside(v, n) /\ n # v =>
           Size[n] # MinSize /\ new[n] = Merge(Size[n], new[Left(n)], new[Right(n)])
  BY AfterFreeIs
<1>2. /\ v \in Nodes /\ H \in SUBSET Nodes /\ K \in SUBSET Nodes /\ lo \in Sizes /\ lo \in Nat /\ MaxSize \in Nat
      /\ lo <= MaxSize /\ MinSize <= lo /\ MinSize \in Nat
  BY NodeBlocks, Numbers DEF TreeOK
<1>3. ASSUME NEW h \in K PROVE h \in Nodes /\ h \in H /\ ~Overlap(h, v) /\ ~Inside(v, h) /\ ~Inside(h, v)
  <2>1. h \in Nodes /\ h \in H /\ h # v
    BY <1>2
  <2>2. ~Overlap(h, v)
    BY <2>1 DEF TreeOK, Apart
  <2> QED BY <1>2, <2>1, <2>2, InsideOrder, InsideFacts
<1>4. lo \in S
  <2> SUFFICES ASSUME NEW n \in Nodes, Size[n] = lo, Inside(v, n) PROVE Good(n)
    BY <1>2
  <2>1. n = v
    BY <1>2, InsideFacts
  <2>2. ~Split(n, K)
    BY <1>3, <2>1 DEF Split
  <2> QED BY <1>1, <1>2, <2>1, <2>2
<1>5. ASSUME NEW s \in lo .. MaxSize, s \in S, s # MaxSize PROVE s + 1 \in S
  <2>1. s + 1 \in lo .. MaxSize /\ (s + 1) - 1 = s /\ s \in Nat /\ s \in Sizes /\ s + 1 \in Sizes
    BY <1>2, <1>5 DEF Sizes
  <2> SUFFICES ASSUME NEW n \in Nodes, Size[n] = s + 1, Inside(v, n) PROVE Good(n)
    BY <2>1
  <2>2. n # v
    BY <2>1, <1>5, <1>2
  <2>3. Size[n] # MinSize /\ new[n] = Merge(Size[n], new[Left(n)], new[Right(n)])
    BY <1>1, <2>2
  <2>4. PICK c \in {Left(n), Right(n)} : Inside(v, c)
    BY <1>2, <2>2, InsideHalf
  <2> DEFINE d == Sibling(c)
  <2>5. c \in Nodes /\ d \in Nodes /\ {c, d} = {Left(n), Right(n)} /\ c # d /\ ~Inside(v, d)
    BY <1>2, <2>3, <2>4, HalfOnPath
  <2>6. Size[c] = s /\ Size[d] = s
    <3>1. Size[Left(n)] = s /\ Size[Right(n)] = s
      BY <2>1, <2>3, Halves
    <3> QED BY <2>5, <3>1
  <2> HIDE DEF d
  <2>7. new[c] \in Values /\ new[d] \in Values /\ new[d] = t[d]
    BY <1>1, <2>5 DEF Trees0
  <2>8. Good(c)
    BY <1>5, <2>4, <2>5, <2>6
  <2>9. new[n] = Merge(s + 1, new[c], new[d])
    <3>1. (c = Left(n) /\ d = Right(n)) \/ (c = Right(n) /\ d = Left(n))
      BY <2>5
    <3> QED BY <2>1, <2>3, <2>7, <3>1, MergeFacts
  <2>10. new[d] \in Nat /\ new[d] <= s /\ (new[d] = s <=> d \notin H /\ ~Split(d, H))
         /\ \A r \in Sizes : new[d] >= r => new[d] \in Sizes
    <3>1. t[d] \in Nat /\ t[d] <= s /\ (t[d] = s <=> d \notin H /\ ~Split(d, H))
      BY <2>5, <2>6, TreeFacts
    <3>2. \A r \in Sizes : t[d] >= r => t[d] \in Sizes
      BY <2>5, TreeFacts
    <3> QED BY <2>7, <3>1, <3>2
  <2>11. d \in H \/ Split(d, H) <=> d \in K \/ Split(d, K)
    <3>1. d # v
      BY <1>2, <2>5, NodeBlocks
    <3> QED BY <2>5, <3>1 DEF Split
  <2>12. c \notin K
    BY <1>3, <2>4
  <2>13. Split(n, K) <=> Split(c, K) \/ d \in K \/ Split(d, K)
    <3>1. Split(n, K) <=> \E e \in {c, d} : e \in K \/ Split(e, K)
      BY <1>2, <2>3, <2>5, SplitHalves
    <3> HIDE DEF K
    <3> QED BY <3>1, <2>12
  <2> HIDE DEF K
  <2>14. CASE new[c] = s /\ new[d] = s
    <3>1. new[n] = s + 1
      BY <2>1, <2>7, <2>9, <2>14, MergeFacts
    <3>2. ~Split(n, K)
      BY <2>6, <2>8, <2>10, <2>11, <2>13, <2>14
    <3> QED BY <2>1, <3>1, <3>2
  <2>15. CASE ~(new[c] = s /\ new[d] = s)
    <3>1. new[n] = Larger(new[c], new[d])
      BY <2>1, <2>7, <2>9, <2>15, MergeFacts
    <3>2. Split(n, K)
      BY <2>6, <2>8, <2>10, <2>11, <2>13, <2>15
    <3>3. /\ new[n] = new[c] \/ new[n] = new[d]
          /\ new[c] <= new[n] /\ new[n] \in Nat
      BY <2>7, <3>1, LargerFacts
    <3>4. new[c] \in Sizes /\ new[c] <= s
      BY <2>6, <2>8
    <3>5. new[d] >= new[c] => new[d] \in Sizes
      BY <2>10, <3>4
    <3>6. new[n] \in Sizes /\ new[n] <= s
      BY <2>1, <2>10, <3>3, <3>4, <3>5
    <3> QED BY <2>1, <3>2, <3>3, <3>6
  <2> QED BY <2>14, <2>15
<1> HIDE DEF S
<1>6. lo .. MaxSize \subseteq S
  BY <1>2, <1>4, <1>5, SizeInduction
<1>7. ASSUME NEW n \in Nodes, Inside(v, n) PROVE Good(n)
  <2>1. Size[n] \in lo .. MaxSize
    BY <1>2, <1>7, InsideFacts, NodeBlocks
  <2> QED BY <1>6, <1>7, <2>1 DEF S
<1>8. ASSUME NEW n \in Nodes PROVE NodeOK(new, K, n)
  <2>1. CASE ~Inside(v, n)
    <3>1. K \ {v} = H \ {v}
      OBVIOUS
    <3> HIDE DEF K
    <3> QED BY <1>1, <1>2, <2>1, <3>1, OffPath
  <2>2. CASE Inside(v, n)
    <3>1. n \notin K /\ Good(n) /\ Size[n] \in Nat
      BY <1>3, <1>7, <2>2, NodeBlocks
    <3>2. new[n] \in Nat /\ new[n] >= 2 /\ new[n] # FULL_USED
      BY <3>1, LevelFacts DEF FULL_USED
    <3>3. ASSUME Split(n, K) PROVE new[n] < Size[n] /\ Offered(new, n)
      <4>1. n # v
        BY <1>3, <3>3 DEF Split
      <4>2. /\ Size[n] # MinSize /\ new[n] = Merge(Size[n], new[Left(n)], new[Right(n)])
            /\ new[n] <= Size[n] /\ new[n] # Size[n]
        BY <1>1, <2>2, <3>1, <3>3, <4>1
      <4>3. Left(n) \in Nodes /\ Right(n) \in Nodes
        BY <4>2, Halves
      <4>4. new[Left(n)] \in Values /\ new[Right(n)] \in Values /\ Size[n] \in Sizes
        BY <1>1, <4>3, NodeBlocks DEF Trees0
      <4>5. new[n] = Larger(new[Left(n)], new[Right(n)])
        BY <4>2, <4>4, MergeFacts
      <4>6. new[n] = new[Left(n)] \/ new[n] = new[Right(n)]
        BY <4>4, <4>5, LargerFacts
      <4> QED BY <3>1, <3>2, <4>2, <4>6 DEF Offered
    <3> HIDE DEF K
    <3> QED BY <3>1, <3>2, <3>3 DEF NodeOK
  <2> QED BY <2>1, <2>2
<1>9. Apart(K)
  BY DEF TreeOK, Apart
<1> QED BY <1>1, <1>2, <1>7, <1>8, <1>9 DEF TreeOK

\* So no assert of free_tree_ptr fails.
LEMMA FreeFitsTree ==
  ASSUME NEW t, NEW H, TreeOK(t, H), NEW v \in H
  PROVE  FreeFits(t, Addr[v])
<1> DEFINE new == AfterFree(t, Addr[v])
<1>1. \A n \in Nodes : Inside(v, n) => new[n] \in Sizes
  BY FreeKeeps
<1>2. /\ v \in Nodes /\ Addr[v] \in Nat /\ Addr[v] < Length(MaxSize) /\ FreedSize(t, Addr[v]) = Size[v]
      /\ Size[v] \in Nat /\ MinSize <= Size[v] /\ MinSize \in Nat /\ MaxSize \in Nat
  BY FreedIs, NodeBlocks, Numbers
<1> HIDE DEF new
<1>3. ASSUME NEW s \in Size[v] .. MaxSize
      PROVE  t[OverAt(Addr[v], s)] <= s /\ new[OverAt(Addr[v], s)] \notin {FULL_USED, GET_DEPARTED}
  <2> DEFINE n == OverAt(Addr[v], s)
  <2>1. s \in Sizes /\ s >= Size[v]
    BY <1>2 DEF Sizes
  <2>2. n \in Nodes /\ Size[n] = s
    BY <1>2, <2>1, OverFacts
  <2>3. Inside(v, n)
    BY <1>2, <2>1, <2>2, OverPath
  <2> HIDE DEF n
  <2>4. new[n] \in Sizes /\ t[n] <= s
    BY <1>1, <2>2, <2>3, TreeFacts
  <2>5. new[n] >= 2 /\ new[n] \in Nat
    BY <2>4, LevelFacts
  <2> QED BY <2>4, <2>5 DEF FULL_USED, GET_DEPARTED, n
<1> QED BY <1>2, <1>3 DEF FreeFits, OverAt, new

-----------------------------------------------------------------------------
(* The trees at boot. *)

LEMMA WholeTreeOK == TreeOK(initialize_tree, {})
<1>1. initialize_tree \in Trees0
  BY NodeBlocks DEF initialize_tree, Trees0, Values
<1>2. ASSUME NEW n \in Nodes PROVE NodeOK(initialize_tree, {}, n)
  BY DEF NodeOK, Split, initialize_tree
<1> QED BY <1>1, <1>2 DEF TreeOK, Apart

\* slab_init takes pages from the left: the first k of them are gone, and a node
\* that has lost some of its pages and not all offers a larger block than a page
\* unless a page is what it has left.
First(k) == {n \in Pages : Addr[n] < k}

LeftOver(t, k, n) ==
  Addr[n] < k /\ k < End[n] => t[n] >= MinSize /\ (t[n] = MinSize => End[n] = k + 1)

BootOK(t, k) == TreeOK(t, First(k)) /\ \A n \in Nodes : LeftOver(t, k, n)

LEMMA FirstFacts ==
  ASSUME NEW k \in Nat
  PROVE  /\ First(k) \in SUBSET Nodes
         /\ \A h \in Pages : h \in Nodes /\ Size[h] = MinSize /\ End[h] = Addr[h] + 1
         /\ \A n \in Nodes : k <= Addr[n] => Untouched(n, First(k))
         /\ \A n \in Nodes : Addr[n] < k => ~Untouched(n, First(k))
<1>1. \A h \in Pages : h \in Nodes /\ Size[h] = MinSize /\ End[h] = Addr[h] + 1 /\ Addr[h] \in Nat
  BY AddrIs, LevelFacts, NodeBlocks DEF Pages
<1>2. First(k) \in SUBSET Nodes
  BY <1>1 DEF First
<1>3. ASSUME NEW n \in Nodes, k <= Addr[n] PROVE Untouched(n, First(k))
  <2>1. Addr[n] \in Nat /\ End[n] \in Nat
    BY NodeBlocks
  <2> QED BY <1>1, <1>3, <2>1 DEF First, Untouched, Overlap
<1>4. ASSUME NEW n \in Nodes, Addr[n] < k PROVE ~Untouched(n, First(k))
  <2> DEFINE a == Addr[n]
             h == OverAt(a, MinSize)
  <2>1. a \in Nat /\ a < End[n] /\ End[n] \in Nat /\ MinSize \in Sizes
    BY NodeBlocks, Numbers DEF Sizes
  <2>2. a < Length(MaxSize)
    BY <2>1, AddrInTree
  <2>3. h \in Nodes /\ Size[h] = MinSize /\ Addr[h] <= a /\ a < End[h]
    BY <2>1, <2>2, OverFacts
  <2>4. h \in Pages /\ Addr[h] \in Nat
    BY <2>3, NodeBlocks DEF Pages
  <2>5. h \in First(k) /\ Overlap(h, n)
    BY <1>4, <2>1, <2>3, <2>4 DEF First, Overlap
  <2> QED BY <2>5 DEF Untouched
<1> QED BY <1>1, <1>2, <1>3, <1>4

\* The next page is the one at address k.
LEMMA NextPage ==
  ASSUME NEW t, NEW k \in Nat, k < Length(MaxSize), BootOK(t, k)
  PROVE  /\ t[1] >= MinSize
         /\ VisitAt(t, MinSize, MinSize) = OverAt(k, MinSize)
<1> DEFINE v(s) == VisitAt(t, MinSize, s)
           S == {s \in Sizes : v(s) = OverAt(k, s)}
<1>0. MinSize \in Sizes /\ MinSize \in Nat /\ MaxSize \in Nat /\ MinSize <= MaxSize /\ MinSize >= 2
  BY Numbers DEF Sizes
<1>1. TreeOK(t, First(k)) /\ t \in Trees0 /\ \A n \in Nodes : LeftOver(t, k, n)
  BY DEF BootOK, TreeOK
<1>2. ASSUME NEW n \in Nodes, Addr[n] <= k, k < End[n] PROVE t[n] >= MinSize
  <2>1. CASE Addr[n] = k
    <3>1. Untouched(n, First(k))
      BY <2>1, FirstFacts
    <3>2. t[n] = Size[n]
      BY <1>1, <3>1, FirstFacts, UntouchedNode, TreeFacts
    <3> QED BY <3>2, NodeBlocks
  <2>2. CASE Addr[n] # k
    <3>1. Addr[n] < k
      BY <1>2, <2>2, NodeBlocks
    <3> QED BY <1>1, <1>2, <3>1 DEF LeftOver
  <2> QED BY <2>1, <2>2
<1>3. ASSUME NEW n \in Nodes, End[n] <= k PROVE t[n] < MinSize
  <2> SUFFICES ASSUME t[n] >= MinSize PROVE FALSE
    BY <1>0, <1>1, TreeFacts
  <2>1. t[n] \in Sizes /\ Promised(t, First(k), n)
    BY <1>0, <1>1, TreeFacts, PromiseFacts
  <2>2. ASSUME NEW h \in First(k), Inside(n, h) PROVE FALSE
    <3>1. h \in Nodes /\ Size[h] = MinSize
      BY FirstFacts DEF First
    <3>2. n = h
      BY <2>2, <3>1, InsideFacts, InsideHalf, NodeBlocks
    <3>3. t[n] = 0
      BY <1>1, <3>2, TreeFacts DEF FULL_USED
    <3> QED BY <1>0, <3>3
  <2>3. ASSUME NEW m \in Nodes, Inside(m, n), Untouched(m, First(k)) PROVE FALSE
    <3>1. Addr[m] < k
      BY <1>3, <2>3, NodeBlocks DEF Inside
    <3> QED BY <2>3, <3>1, FirstFacts
  <2> QED BY <2>1, <2>2, <2>3 DEF Promised
<1>4. /\ v(MaxSize) = 1
      /\ \A s \in Sizes \ {MaxSize} :
           v(s) = IF t[Left(v(s + 1))] >= MinSize THEN Left(v(s + 1)) ELSE Right(v(s + 1))
  BY <1>0, <1>1, VisitIs
<1> HIDE DEF v
<1>5. MaxSize \in S
  BY <1>0, <1>4, OverFacts DEF Sizes
<1>6. ASSUME NEW s \in Sizes, s \in S, s # MinSize PROVE s - 1 \in S
  <2> DEFINE n == OverAt(k, s)
  <2>1. s - 1 \in Sizes \ {MaxSize} /\ (s - 1) + 1 = s
    BY <1>0, <1>6 DEF Sizes
  <2>2. n \in Nodes /\ Size[n] = s /\ Addr[n] <= k /\ k < End[n]
    BY OverFacts
  <2>3. OverAt(k, s - 1) = IF k < Addr[n] + Length(s - 1) THEN Left(n) ELSE Right(n)
    BY <2>1, OverFacts
  <2>4. v(s - 1) = IF t[Left(n)] >= MinSize THEN Left(n) ELSE Right(n)
    BY <1>4, <1>6, <2>1
  <2> HIDE DEF n
  <2>5. Left(n) \in Nodes /\ Addr[Left(n)] = Addr[n] /\ End[Left(n)] = Addr[n] + Length(s - 1)
    BY <1>6, <2>2, ChildFacts
  <2>6. Addr[n] \in Nat /\ End[Left(n)] \in Nat /\ t[Left(n)] \in Nat
    BY <1>1, <2>2, <2>5, NodeBlocks, TreeFacts
  <2>7. CASE k < Addr[n] + Length(s - 1)
    BY <1>2, <2>1, <2>2, <2>3, <2>4, <2>5, <2>7
  <2>8. CASE ~(k < Addr[n] + Length(s - 1))
    <3>1. t[Left(n)] < MinSize
      BY <1>3, <2>5, <2>6, <2>8
    <3> QED BY <1>0, <2>1, <2>3, <2>4, <2>6, <2>8, <3>1
  <2> QED BY <2>7, <2>8
<1> HIDE DEF S
<1>7. MinSize \in S
  BY <1>0, <1>5, <1>6, DownInduction
<1>8. t[1] >= MinSize
  <2>1. 1 \in Nodes /\ Addr[1] <= k /\ k < End[1]
    BY RootFacts
  <2> QED BY <1>2, <2>1
<1> QED BY <1>7, <1>8 DEF v, S

LEMMA BootStep ==
  ASSUME NEW t, NEW k \in Nat, k < Length(MaxSize), BootOK(t, k)
  PROVE  BootOK(AfterTake(t, MinSize), k + 1)
<1> DEFINE new == AfterTake(t, MinSize)
           v == OverAt(k, MinSize)
           Left2(n) == LeftOver(new, k + 1, n)
           S == {s \in Sizes : \A n \in Nodes : Size[n] = s => Left2(n)}
<1>0. MinSize \in Sizes /\ MinSize \in Nat /\ MaxSize \in Nat /\ MinSize <= MaxSize /\ MinSize >= 2
  BY Numbers DEF Sizes
<1>1. TreeOK(t, First(k)) /\ \A n \in Nodes : LeftOver(t, k, n)
  BY DEF BootOK
<1>2. t[1] >= MinSize /\ VisitAt(t, MinSize, MinSize) = v
  BY NextPage
<1>3. TreeOK(new, First(k) \cup {v})
  BY <1>0, <1>1, <1>2, TakeKeeps
<1>4. /\ v \in Nodes /\ Size[v] = MinSize /\ new \in Trees0
      /\ \A n \in Nodes : Inside(v, n) /\ n # v =>
           /\ t[n] >= MinSize /\ Size[n] # MinSize
           /\ new[n] = IF t[n] = MinSize THEN GET_DEPARTED ELSE Larger(new[Left(n)], new[Right(n)])
  BY <1>0, <1>1, <1>2, AfterTakeIs
<1>5. Addr[v] = k /\ End[v] = k + 1
  <2>1. Addr[v] <= k /\ k < End[v] /\ v \in Pages
    BY <1>0, <1>4, OverFacts DEF Pages
  <2>2. End[v] = Addr[v] + 1 /\ Addr[v] \in Nat
    BY <2>1, <1>4, FirstFacts, NodeBlocks
  <2> QED BY <2>1, <2>2
<1> HIDE DEF new, v
<1>6. First(k + 1) = First(k) \cup {v}
  <2>1. v \in First(k + 1)
    BY <1>4, <1>5 DEF First, Pages
  <2>2. ASSUME NEW n \in First(k + 1), n \notin First(k) PROVE n = v
    <3>1. n \in Pages /\ n \in Nodes /\ Size[n] = MinSize /\ End[n] = Addr[n] + 1 /\ Addr[n] \in Nat
          /\ Addr[n] < k + 1
      BY FirstFacts, NodeBlocks DEF First
    <3>2. Addr[n] = k
      BY <2>2, <3>1 DEF First
    <3> QED BY <1>4, <1>5, <3>1, <3>2, SameSize
  <2>3. ASSUME NEW n \in First(k) PROVE n \in First(k + 1)
    <3>1. n \in Pages /\ Addr[n] < k /\ Addr[n] \in Nat
      BY FirstFacts, NodeBlocks DEF First
    <3> QED BY <3>1 DEF First
  <2> QED BY <2>1, <2>2, <2>3
<1>7. TreeOK(new, First(k + 1))
  BY <1>3, <1>6
<1>8. MinSize \in S
  <2> SUFFICES ASSUME NEW n \in Nodes, Size[n] = MinSize PROVE Left2(n)
    BY <1>0
  <2>1. n \in Pages /\ End[n] = Addr[n] + 1 /\ Addr[n] \in Nat
    BY FirstFacts, NodeBlocks DEF Pages
  <2> QED BY <2>1 DEF LeftOver
<1>9. ASSUME NEW s \in MinSize .. MaxSize, s \in S, s # MaxSize PROVE s + 1 \in S
  <2>1. s \in Sizes /\ s + 1 \in Sizes /\ s + 1 # MinSize /\ (s + 1) - 1 = s /\ s >= MinSize /\ s \in Nat
    BY <1>0, <1>9 DEF Sizes
  <2> SUFFICES ASSUME NEW n \in Nodes, Size[n] = s + 1, Addr[n] < k + 1, k + 1 < End[n]
               PROVE  new[n] >= MinSize /\ (new[n] = MinSize => End[n] = (k + 1) + 1)
    BY <2>1 DEF LeftOver
  <2> DEFINE l == Left(n)
             r == Right(n)
  <2>2. /\ l \in Nodes /\ r \in Nodes /\ Size[l] = s /\ Size[r] = s
        /\ Addr[l] = Addr[n] /\ End[l] = Addr[r] /\ End[r] = End[n]
    BY <2>1, ChildFacts
  <2>3. /\ Addr[n] \in Nat /\ End[n] \in Nat /\ End[l] \in Nat /\ Addr[r] \in Nat /\ Addr[n] < End[l]
        /\ Addr[r] < End[r]
    BY <2>2, NodeBlocks
  <2>4. Inside(v, n) /\ n # v
    BY <1>4, <1>5, <2>1, <2>3 DEF Inside
  <2>5. t[n] # MinSize
    <3>1. CASE Addr[n] = k
      <4>1. Untouched(n, First(k))
        BY <3>1, FirstFacts
      <4>2. t[n] = Size[n]
        BY <1>1, <4>1, FirstFacts, UntouchedNode, TreeFacts
      <4> QED BY <2>1, <4>2
    <3>2. CASE Addr[n] < k
      <4>1. LeftOver(t, k, n)
        BY <1>1
      <4> QED BY <2>3, <3>2, <4>1 DEF LeftOver
    <3> QED BY <2>3, <3>1, <3>2
  <2>6. new[n] = Larger(new[l], new[r])
    BY <1>4, <2>4, <2>5
  <2>7. new[l] \in Values /\ new[r] \in Values
    BY <1>4, <2>2 DEF Trees0
  <2>8. new[l] \in Nat /\ new[r] \in Nat /\ new[n] \in Nat /\ new[l] <= new[n] /\ new[r] <= new[n]
    BY <2>6, <2>7, LargerFacts
  <2>9. ASSUME k + 1 <= Addr[r] PROVE new[r] = s
    <3>1. Untouched(r, First(k + 1)) /\ First(k + 1) \in SUBSET Nodes
      BY <2>2, <2>9, FirstFacts
    <3> QED BY <1>7, <2>2, <3>1, UntouchedNode, TreeFacts
  <2>10. Left2(l) /\ Left2(r)
    BY <1>9, <2>2
  <2> HIDE DEF l, r
  <2>11. CASE k + 1 < End[l]
    <3>1. s # MinSize
      <4>1. ASSUME s = MinSize PROVE FALSE
        <5>1. l \in Pages
          BY <2>2, <4>1 DEF Pages
        <5>2. End[l] = Addr[l] + 1
          BY <5>1, FirstFacts
        <5> QED BY <2>2, <2>3, <2>11, <5>2
      <4> QED BY <4>1
    <3>2. new[r] = s
      BY <2>2, <2>3, <2>9, <2>11
    <3> QED BY <1>0, <2>1, <2>8, <3>1, <3>2
  <2>12. CASE k + 1 = End[l]
    <3>1. new[r] = s
      BY <2>2, <2>9, <2>12
    <3>2. ASSUME new[n] = MinSize PROVE End[n] = (k + 1) + 1
      <4>1. s = MinSize
        BY <1>0, <2>1, <2>8, <3>1, <3>2
      <4>2. r \in Pages
        BY <2>2, <4>1 DEF Pages
      <4>3. End[r] = Addr[r] + 1
        BY <4>2, FirstFacts
      <4> QED BY <2>2, <2>12, <4>3
    <3> QED BY <1>0, <2>1, <2>8, <3>1, <3>2
  <2>13. CASE End[l] < k + 1
    <3>1. Addr[r] < k + 1 /\ k + 1 < End[r]
      BY <2>2, <2>13
    <3>2. new[r] >= MinSize /\ (new[r] = MinSize => End[r] = (k + 1) + 1)
      BY <2>10, <3>1 DEF LeftOver
    <3> QED BY <1>0, <2>2, <2>8, <3>2
  <2> QED BY <2>3, <2>11, <2>12, <2>13
<1> HIDE DEF S
<1>10. MinSize .. MaxSize \subseteq S
  BY <1>0, <1>8, <1>9, SizeInduction
<1>11. ASSUME NEW n \in Nodes PROVE Left2(n)
  <2>1. Size[n] \in MinSize .. MaxSize
    BY NodeBlocks DEF Sizes
  <2> QED BY <1>10, <2>1 DEF S
<1> QED BY <1>7, <1>11 DEF BootOK, new

LEMMA BootedIs ==
  /\ Booted[0] = initialize_tree
  /\ \A k \in 1 .. BootPages : Booted[k] = AfterTake(Booted[k - 1], MinSize)
<1> DEFINE D == 0 .. BootPages
           G == [x \in Nat \X Trees0 |->
                  IF AfterTake(x[2], MinSize) \in Trees0 THEN AfterTake(x[2], MinSize) ELSE x[2]]
           E(g) == [k \in D |-> IF k = 0 THEN initialize_tree ELSE AfterTake(g[k - 1], MinSize)]
           S(f) == {k \in D : BootOK(f[k], k)}
<1>0. BootPages \in Nat /\ Length(MaxSize) \in Nat /\ BootPages <= Length(MaxSize) /\ MinSize \in Sizes
  <2>1. BootPages <= Length(MaxSize) /\ MinSize \in Sizes /\ MaxSize \in Sizes
    BY SizeAssumption DEF Length, Depth, Sizes
  <2> QED BY <2>1, Numbers, LevelFacts
<1>1. initialize_tree \in Trees0
  BY WholeTreeOK DEF TreeOK
<1>2. G \in [Nat \X Trees0 -> Trees0]
  OBVIOUS
<1>3. PICK f : IsChain(f, BootPages, Trees0, initialize_tree, G)
  BY <1>0, <1>1, <1>2, Chain
<1>4. /\ f \in [D -> Trees0] /\ f[0] = initialize_tree
      /\ \A k \in 1 .. BootPages : f[k] = G[<<k, f[k - 1]>>]
  BY <1>3 DEF IsChain
<1>5. 0 \in S(f)
  <2>1. First(0) = {} /\ \A n \in Nodes : Addr[n] \in Nat
    BY NodeBlocks DEF First, Pages
  <2>2. BootOK(initialize_tree, 0)
    BY <2>1, WholeTreeOK DEF BootOK, LeftOver
  <2> QED BY <1>0, <1>4, <2>2
<1>6. ASSUME NEW k \in 0 .. BootPages, k \in S(f), k < BootPages
      PROVE  k + 1 \in S(f) /\ f[k + 1] = AfterTake(f[k], MinSize)
  <2>1. k \in Nat /\ k < Length(MaxSize) /\ k + 1 \in 1 .. BootPages /\ (k + 1) - 1 = k /\ k + 1 \in D
    BY <1>0, <1>6
  <2>2. BootOK(AfterTake(f[k], MinSize), k + 1)
    BY <1>6, <2>1, BootStep
  <2>3. AfterTake(f[k], MinSize) \in Trees0
    BY <2>2 DEF BootOK, TreeOK
  <2>4. f[k + 1] = G[<<k + 1, f[k]>>] /\ f[k] \in Trees0
    BY <1>4, <2>1
  <2>5. <<k + 1, f[k]>> \in Nat \X Trees0
    BY <2>1, <2>4
  <2>6. f[k + 1] = AfterTake(f[k], MinSize)
    BY <2>3, <2>4, <2>5
  <2> HIDE DEF G
  <2> QED BY <2>1, <2>2, <2>6
<1>7. D \subseteq S(f)
  <2> DEFINE R == S(f)
  <2>1. 0 \in R /\ \A k \in 0 .. BootPages : k \in R /\ k < BootPages => k + 1 \in R
    BY <1>5, <1>6
  <2>2. 0 \in Nat
    OBVIOUS
  <2> HIDE DEF R
  <2>3. D \subseteq R
    BY <1>0, <2>1, <2>2, Induction
  <2> QED BY <2>3 DEF R
<1> HIDE DEF G
<1>8. ASSUME NEW k \in D PROVE f[k] = IF k = 0 THEN initialize_tree ELSE AfterTake(f[k - 1], MinSize)
  <2>1. CASE k # 0
    <3>1. k - 1 \in D /\ k - 1 < BootPages /\ (k - 1) + 1 = k
      BY <1>0, <2>1
    <3> HIDE DEF S
    <3> QED BY <1>6, <1>7, <2>1, <3>1
  <2> QED BY <1>4, <2>1
<1>9. f = E(f)
  BY <1>4, <1>8
<1>10. Booted = E(Booted)
  BY <1>9 DEF Booted
<1>11. 0 \in D /\ \A k \in 1 .. BootPages : k \in D /\ k # 0
  BY <1>0
<1> QED BY <1>10, <1>11

LEMMA BootTreeOK == TreeOK(BootTree, First(BootPages))
<1> DEFINE S == {k \in 0 .. BootPages : BootOK(Booted[k], k)}
<1>0. BootPages \in Nat /\ Length(MaxSize) \in Nat /\ BootPages <= Length(MaxSize)
  <2>1. BootPages <= Length(MaxSize) /\ MaxSize \in Sizes
    BY SizeAssumption DEF Length, Depth, Sizes
  <2> QED BY <2>1, Numbers, LevelFacts
<1>1. 0 \in S
  <2>1. First(0) = {} /\ \A n \in Nodes : Addr[n] \in Nat
    BY NodeBlocks DEF First, Pages
  <2>2. BootOK(initialize_tree, 0)
    BY <2>1, WholeTreeOK DEF BootOK, LeftOver
  <2> QED BY <1>0, <2>2, BootedIs
<1>2. ASSUME NEW k \in 0 .. BootPages, k \in S, k < BootPages PROVE k + 1 \in S
  <2>1. k \in Nat /\ k < Length(MaxSize) /\ k + 1 \in 1 .. BootPages /\ (k + 1) - 1 = k
        /\ k + 1 \in 0 .. BootPages
    BY <1>0, <1>2
  <2>2. Booted[k + 1] = AfterTake(Booted[k], MinSize)
    BY <2>1, BootedIs
  <2> QED BY <1>2, <2>1, <2>2, BootStep
<1> HIDE DEF S
<1>3. 0 .. BootPages \subseteq S
  <2>1. 0 \in Nat
    OBVIOUS
  <2> QED BY <1>0, <1>1, <1>2, <2>1, Induction
<1>4. BootPages \in S
  BY <1>0, <1>3
<1> QED BY <1>4 DEF S, BootOK, BootTree

-----------------------------------------------------------------------------
(* The inductive invariant. *)

\* The nodes of tree i whose block somebody has.
HeldIn(i) == {n \in Nodes : Block(i, n) \in Held}

BuddyType ==
  /\ tree \in [Trees -> Trees0]
  /\ locked \in [Trees -> BOOLEAN]
  /\ live \subseteq Trees \X Nodes
  /\ pc \in [Cpus -> {"idle", "scan", "look", "wait", "give", "unlock"}]
  /\ req \in [Cpus -> Sizes] /\ at \in [Cpus -> 1 .. TreeNum + 1]
  /\ hand \in [Cpus -> {<<>>} \cup Trees \X Nodes]

(* A block is in one hand, and its CPU works on its tree. *)
HandOK(c) ==
  /\ pc[c] \in {"idle", "scan", "look"} => hand[c] = <<>>
  /\ pc[c] \in {"wait", "give"} => hand[c] # <<>>
  /\ pc[c] \in {"look", "wait", "give", "unlock"} => at[c] \in Trees
  /\ hand[c] # <<>> => at[c] = hand[c][1] /\ hand[c] \notin live /\ hand[c] \notin BootBlocks

HandsOK ==
  /\ \A c \in Cpus : HandOK(c)
  /\ \A c, d \in Cpus : hand[c] # <<>> /\ hand[c] = hand[d] => c = d
  /\ \A b \in live : b \notin BootBlocks

(* Who works in a tree has locked it, and is alone there. *)
InTree(c) == pc[c] \in {"look", "give", "unlock"}
LocksHeld ==
  /\ \A c \in Cpus : InTree(c) => locked[at[c]]
  /\ \A c, d \in Cpus : InTree(c) /\ InTree(d) /\ at[c] = at[d] => c = d
  /\ \A i \in Trees : locked[i] => \E c \in Cpus : InTree(c) /\ at[c] = i

(* Each tree tells which of its blocks are free. *)
TreesOK == \A i \in Trees : TreeOK(tree[i], HeldIn(i))

BuddyInv == BuddyType /\ HandsOK /\ LocksHeld /\ TreesOK

LEMMA BootBlocksAre ==
  /\ BootBlocks = {Block(1, n) : n \in First(BootPages)}
  /\ \A b \in BootBlocks : b \in Trees \X Nodes /\ b[1] = 1 /\ b[2] \in First(BootPages)
  /\ \A i \in Trees, n \in Nodes : Block(i, n) \in BootBlocks <=> i = 1 /\ n \in First(BootPages)
  /\ 1 \in Trees
<1>1. BootBlocks = {Block(1, n) : n \in First(BootPages)} /\ First(BootPages) \in SUBSET Nodes
  BY DEF BootBlocks, First, Pages
<1>2. 1 \in Trees
  BY Numbers DEF Trees
<1> QED BY <1>1, <1>2 DEF Block

LEMMA BuddyInit == Init => BuddyInv
<1> SUFFICES ASSUME Init PROVE BuddyInv
  OBVIOUS
<1>1. TreeOK(initialize_tree, {}) /\ TreeOK(BootTree, First(BootPages))
  BY WholeTreeOK, BootTreeOK
<1>2. MinSize \in Sizes /\ 1 \in 1 .. TreeNum + 1 /\ 1 \in Trees
  BY Numbers DEF Sizes, Trees
<1>3. BuddyType
  BY <1>1, <1>2 DEF Init, BuddyType, TreeOK
<1>4. HandsOK
  BY DEF Init, HandsOK, HandOK
<1>5. LocksHeld
  BY DEF Init, LocksHeld, InTree
<1>6. Held = BootBlocks
  BY DEF Init, Held
<1>7. TreesOK
  <2> SUFFICES ASSUME NEW i \in Trees PROVE TreeOK(tree[i], HeldIn(i))
    BY DEF TreesOK
  <2>1. CASE i = 1
    <3>1. HeldIn(i) = First(BootPages)
      BY <1>6, <2>1, BootBlocksAre DEF HeldIn, First, Pages
    <3> QED BY <1>1, <2>1, <3>1 DEF Init
  <2>2. CASE i # 1
    <3>1. HeldIn(i) = {}
      BY <1>6, <2>2, BootBlocksAre DEF HeldIn
    <3> QED BY <1>1, <2>2, <3>1 DEF Init
  <2> QED BY <2>1, <2>2
<1> QED BY <1>3, <1>4, <1>5, <1>7 DEF BuddyInv

\* A step that leaves the trees alone, and moves blocks between hands at most.
LEMMA TreesStay ==
  ASSUME TreesOK, tree' = tree, Held' = Held
  PROVE  TreesOK'
<1>1. \A i : HeldIn(i)' = HeldIn(i)
  BY DEF HeldIn
<1> QED BY <1>1 DEF TreesOK

LEMMA KeepsAlloc ==
  ASSUME BuddyInv, NEW c \in Cpus, NEW s \in Sizes, bbma_alloc(c, s)
  PROVE  BuddyInv'
<1> USE DEF bbma_alloc
<1>1. 1 \in 1 .. TreeNum + 1
  BY Numbers
<1>2. BuddyType'
  BY <1>1 DEF BuddyInv, BuddyType
<1>3. HandsOK'
  BY DEF BuddyInv, BuddyType, HandsOK, HandOK
<1>4. LocksHeld'
  BY DEF BuddyInv, BuddyType, LocksHeld, InTree
<1>5. TreesOK'
  <2>1. Held' = Held
    BY DEF Held
  <2> QED BY <2>1, TreesStay DEF BuddyInv
<1> QED BY <1>2, <1>3, <1>4, <1>5 DEF BuddyInv

LEMMA KeepsTryTree ==
  ASSUME BuddyInv, NEW c \in Cpus, TryTree(c)
  PROVE  BuddyInv'
<1> USE DEF TryTree, CanLock
<1>1. at[c] \in Nat /\ at[c] \in Trees /\ at[c] + 1 \in 1 .. TreeNum + 1
  BY Numbers DEF BuddyInv, BuddyType, Trees
<1>2. BuddyType'
  <2>1. locked' \in [Trees -> BOOLEAN]
    BY <1>1 DEF BuddyInv, BuddyType
  <2>2. pc' \in [Cpus -> {"idle", "scan", "look", "wait", "give", "unlock"}]
    BY DEF BuddyInv, BuddyType
  <2>3. at' \in [Cpus -> 1 .. TreeNum + 1]
    BY <1>1 DEF BuddyInv, BuddyType
  <2> QED BY <2>1, <2>2, <2>3 DEF BuddyInv, BuddyType
<1>3. HandsOK'
  BY <1>1 DEF BuddyInv, BuddyType, HandsOK, HandOK
<1>4. LocksHeld'
  <2>1. CASE locked[at[c]]
    <3>1. pc' = pc /\ locked' = locked /\ ~InTree(c) /\ \A d \in Cpus : d # c => at'[d] = at[d]
      BY <2>1 DEF BuddyInv, BuddyType, InTree
    <3>2. \A d \in Cpus : InTree(d)' <=> InTree(d)
      BY <3>1 DEF InTree
    <3>3. \A d \in Cpus : InTree(d) => at'[d] = at[d]
      BY <3>1
    <3> QED BY <3>1, <3>2, <3>3 DEF BuddyInv, LocksHeld
  <2>2. CASE ~locked[at[c]]
    <3>1. at' = at /\ InTree(c)' /\ \A d \in Cpus : d # c => (InTree(d)' <=> InTree(d))
      BY <2>2 DEF BuddyInv, BuddyType, InTree
    <3>2. locked' = [locked EXCEPT ![at[c]] = TRUE] /\ locked \in [Trees -> BOOLEAN]
      BY <2>2 DEF BuddyInv, BuddyType
    <3>3. \A d \in Cpus : InTree(d) => at[d] # at[c]
      BY <2>2 DEF BuddyInv, LocksHeld
    <3> QED BY <1>1, <3>1, <3>2, <3>3 DEF BuddyInv, LocksHeld
  <2> QED BY <2>1, <2>2
<1>5. TreesOK'
  <2>1. Held' = Held /\ tree' = tree
    BY DEF Held
  <2> QED BY <2>1, TreesStay DEF BuddyInv
<1> QED BY <1>2, <1>3, <1>4, <1>5 DEF BuddyInv

LEMMA KeepsPassTree ==
  ASSUME BuddyInv, NEW c \in Cpus, PassTree(c)
  PROVE  BuddyInv'
<1> USE DEF PassTree
<1>1. at[c] \in Nat /\ at[c] \in Trees /\ at[c] + 1 \in 1 .. TreeNum + 1
  BY Numbers DEF BuddyInv, BuddyType, HandsOK, HandOK, Trees
<1>2. BuddyType'
  BY <1>1 DEF BuddyInv, BuddyType
<1>3. HandsOK'
  BY <1>1 DEF BuddyInv, BuddyType, HandsOK, HandOK
<1>4. LocksHeld'
  BY <1>1 DEF BuddyInv, BuddyType, LocksHeld, InTree
<1>5. TreesOK'
  <2>1. Held' = Held
    BY DEF Held
  <2> QED BY <2>1, TreesStay DEF BuddyInv
<1> QED BY <1>2, <1>3, <1>4, <1>5 DEF BuddyInv

LEMMA KeepsNoTree ==
  ASSUME BuddyInv, NEW c \in Cpus, NoTree(c)
  PROVE  BuddyInv'
<1> USE DEF NoTree
<1>1. 1 \in 1 .. TreeNum + 1 /\ MinSize \in Sizes
  BY Numbers DEF Sizes
<1>2. BuddyType'
  BY <1>1 DEF BuddyInv, BuddyType
<1>3. HandsOK'
  BY DEF BuddyInv, BuddyType, HandsOK, HandOK
<1>4. LocksHeld'
  BY DEF BuddyInv, BuddyType, LocksHeld, InTree
<1>5. TreesOK'
  <2>1. Held' = Held
    BY DEF Held
  <2> QED BY <2>1, TreesStay DEF BuddyInv
<1> QED BY <1>2, <1>3, <1>4, <1>5 DEF BuddyInv

LEMMA KeepsLockToFree ==
  ASSUME BuddyInv, NEW c \in Cpus, LockToFree(c)
  PROVE  BuddyInv'
<1> USE DEF LockToFree, CanLock
<1>1. at[c] \in Trees
  BY DEF BuddyInv, HandsOK, HandOK
<1>2. BuddyType'
  BY <1>1 DEF BuddyInv, BuddyType
<1>3. HandsOK'
  BY <1>1 DEF BuddyInv, BuddyType, HandsOK, HandOK
<1>4. LocksHeld'
  BY <1>1 DEF BuddyInv, BuddyType, LocksHeld, InTree
<1>5. TreesOK'
  <2>1. Held' = Held
    BY DEF Held
  <2> QED BY <2>1, TreesStay DEF BuddyInv
<1> QED BY <1>2, <1>3, <1>4, <1>5 DEF BuddyInv

LEMMA KeepsFree ==
  ASSUME BuddyInv, NEW c \in Cpus, NEW b \in live, bbma_free(c, b)
  PROVE  BuddyInv'
<1> USE DEF bbma_free
<1>1. b \in Trees \X Nodes /\ b[1] \in Trees /\ b # <<>> /\ hand[c] = <<>> /\ b[1] \in 1 .. TreeNum + 1
      /\ b \notin BootBlocks /\ \A d \in Cpus : hand[d] # b
  BY Numbers DEF BuddyInv, BuddyType, HandsOK, HandOK, Trees
<1>2. BuddyType'
  BY <1>1 DEF BuddyInv, BuddyType
<1>3. HandsOK'
  BY <1>1 DEF BuddyInv, BuddyType, HandsOK, HandOK
<1>4. LocksHeld'
  BY DEF BuddyInv, BuddyType, LocksHeld, InTree
<1>5. TreesOK'
  <2>1. Held' = Held
    BY <1>1 DEF Held, BuddyInv, BuddyType
  <2> QED BY <2>1, TreesStay DEF BuddyInv
<1> QED BY <1>2, <1>3, <1>4, <1>5 DEF BuddyInv

LEMMA KeepsUnlock ==
  ASSUME BuddyInv, NEW c \in Cpus, Unlock(c)
  PROVE  BuddyInv'
<1> USE DEF Unlock
<1>1. at[c] \in Trees /\ 1 \in 1 .. TreeNum + 1 /\ (hand[c] # <<>> => hand[c] \in Trees \X Nodes)
  BY Numbers DEF BuddyInv, BuddyType, HandsOK, HandOK
<1>2. BuddyType'
  BY <1>1 DEF BuddyInv, BuddyType
<1>3. HandsOK'
  BY <1>1 DEF BuddyInv, BuddyType, HandsOK, HandOK
<1>4. LocksHeld'
  BY <1>1 DEF BuddyInv, BuddyType, LocksHeld, InTree
<1>5. TreesOK'
  <2>1. Held' = Held
    BY <1>1 DEF Held, BuddyInv, BuddyType
  <2> QED BY <2>1, TreesStay DEF BuddyInv
<1> QED BY <1>2, <1>3, <1>4, <1>5 DEF BuddyInv

\* What an allocation takes is free.
LEMMA TakeFacts ==
  ASSUME BuddyInv, NEW c \in Cpus, TakeBlock(c),
         NEW v, v = VisitAt(tree[at[c]], req[c], req[c])
  PROVE  /\ at[c] \in Trees /\ v \in Nodes /\ hand[c] = <<>> /\ hand' = [hand EXCEPT ![c] = Block(at[c], v)]
         /\ Block(at[c], v) \in Trees \X Nodes /\ Block(at[c], v) \notin Held
         /\ Untouched(v, HeldIn(at[c]))
         /\ Held' = Held \cup {Block(at[c], v)}
         /\ TreeOK(AfterTake(tree[at[c]], req[c]), HeldIn(at[c]) \cup {v})
<1> DEFINE i == at[c]
<1>1. i \in Trees /\ hand[c] = <<>> /\ req[c] \in Sizes /\ TreeOK(tree[i], HeldIn(i)) /\ tree[i][1] >= req[c]
  BY DEF BuddyInv, BuddyType, HandsOK, HandOK, TreesOK, TakeBlock
<1>2. v \in Nodes /\ Untouched(v, HeldIn(i)) /\ TreeOK(AfterTake(tree[i], req[c]), HeldIn(i) \cup {v})
  BY <1>1, TakeKeeps
<1>3. v \notin HeldIn(i)
  <2>1. HeldIn(i) \in SUBSET Nodes
    BY DEF HeldIn
  <2> QED BY <1>2, <2>1, UntouchedNode
<1>4. Block(i, v) \in Trees \X Nodes /\ Block(i, v) \notin Held /\ Block(i, v) # <<>>
  BY <1>1, <1>2, <1>3 DEF HeldIn, Block
<1>5. hand' = [hand EXCEPT ![c] = Block(i, v)]
  BY DEF TakeBlock, VisitAt
<1>6. Held' = Held \cup {Block(i, v)}
  <2>1. live' = live
    BY DEF TakeBlock
  <2>2. hand \in [Cpus -> {<<>>} \cup Trees \X Nodes]
    BY DEF BuddyInv, BuddyType
  <2> DEFINE b == Block(i, v)
  <2>3. hand'[c] = b /\ b # <<>> /\ \A d \in Cpus : d # c => hand'[d] = hand[d]
    BY <1>4, <1>5, <2>2
  <2> HIDE DEF b
  <2>4. {hand'[e] : e \in {d \in Cpus : hand'[d] # <<>>}}
          = {hand[e] : e \in {d \in Cpus : hand[d] # <<>>}} \cup {b}
    BY <1>1, <2>3
  <2> QED BY <2>1, <2>4 DEF Held, b
<1> QED BY <1>1, <1>2, <1>4, <1>5, <1>6

LEMMA KeepsTake ==
  ASSUME BuddyInv, NEW c \in Cpus, TakeBlock(c)
  PROVE  BuddyInv'
<1> DEFINE i == at[c]
           v == VisitAt(tree[i], req[c], req[c])
           b == Block(i, v)
<1>1. /\ i \in Trees /\ v \in Nodes /\ hand[c] = <<>> /\ hand' = [hand EXCEPT ![c] = b]
      /\ b \in Trees \X Nodes /\ b \notin Held /\ Held' = Held \cup {b}
      /\ TreeOK(AfterTake(tree[i], req[c]), HeldIn(i) \cup {v})
  BY TakeFacts
<1>2. b # <<>> /\ b[1] = i /\ b \notin live /\ b \notin BootBlocks /\ \A d \in Cpus : hand[d] # b
  <2>1. b # <<>> /\ b[1] = i
    BY DEF Block
  <2> HIDE DEF b
  <2> QED BY <1>1, <2>1 DEF Held
<1>3. /\ tree' = [tree EXCEPT ![i] = AfterTake(tree[i], req[c])]
      /\ pc' = [pc EXCEPT ![c] = "unlock"] /\ req' = [req EXCEPT ![c] = MinSize]
      /\ locked' = locked /\ live' = live /\ at' = at /\ pc[c] = "look"
  BY DEF TakeBlock
<1>4. TreesOK'
  <2> SUFFICES ASSUME NEW j \in Trees PROVE TreeOK(tree'[j], HeldIn(j)')
    BY DEF TreesOK
  <2>1. tree \in [Trees -> Trees0] /\ TreeOK(tree[j], HeldIn(j))
    BY DEF BuddyInv, BuddyType, TreesOK
  <2>2. HeldIn(j)' = {n \in Nodes : Block(j, n) \in Held \/ Block(j, n) = Block(i, v)}
    BY <1>1 DEF HeldIn
  <2>3. CASE j = i
    <3>1. HeldIn(j)' = HeldIn(i) \cup {v}
      BY <1>1, <2>2, <2>3 DEF Block, HeldIn
    <3>2. tree'[j] = AfterTake(tree[i], req[c])
      BY <1>3, <2>1, <2>3
    <3> QED BY <1>1, <3>1, <3>2
  <2>4. CASE j # i
    <3>1. HeldIn(j)' = HeldIn(j)
      BY <2>2, <2>4 DEF Block, HeldIn
    <3>2. tree'[j] = tree[j]
      BY <1>3, <2>1, <2>4
    <3> QED BY <2>1, <3>1, <3>2
  <2> QED BY <2>3, <2>4
<1>5. AfterTake(tree[i], req[c]) \in Trees0 /\ MinSize \in Sizes
  BY <1>1, Numbers DEF TreeOK, Sizes
<1> HIDE DEF b, v
<1>6. BuddyType'
  BY <1>1, <1>3, <1>5 DEF BuddyInv, BuddyType
<1>7. HandsOK'
  BY <1>1, <1>2, <1>3 DEF BuddyInv, BuddyType, HandsOK, HandOK
<1>8. LocksHeld'
  BY <1>3 DEF BuddyInv, BuddyType, LocksHeld, InTree
<1> QED BY <1>4, <1>6, <1>7, <1>8 DEF BuddyInv

LEMMA KeepsGive ==
  ASSUME BuddyInv, NEW c \in Cpus, GiveBlock(c)
  PROVE  BuddyInv'
<1> DEFINE i == at[c]
           b == hand[c]
           v == hand[c][2]
           new == AfterFree(tree[i], Addr[v])
<1>1. /\ i \in Trees /\ b \in Trees \X Nodes /\ b[1] = i /\ b # <<>> /\ pc[c] = "give"
      /\ b \notin live /\ b \notin BootBlocks /\ \A d \in Cpus : d # c => hand[d] # b
  BY DEF BuddyInv, BuddyType, HandsOK, HandOK, GiveBlock
<1>2. /\ tree' = [tree EXCEPT ![i] = new] /\ hand' = [hand EXCEPT ![c] = <<>>]
      /\ pc' = [pc EXCEPT ![c] = "unlock"] /\ locked' = locked /\ live' = live /\ req' = req /\ at' = at
  BY DEF GiveBlock
<1>3. v \in Nodes /\ b = Block(i, v) /\ b \in Held
  BY <1>1 DEF Block, Held
<1>4. v \in HeldIn(i) /\ TreeOK(tree[i], HeldIn(i))
  BY <1>1, <1>3 DEF BuddyInv, TreesOK, HeldIn
<1>5. TreeOK(new, HeldIn(i) \ {v})
  BY <1>4, FreeKeeps
<1>6. Held' = Held \ {b}
  <2>1. hand \in [Cpus -> {<<>>} \cup Trees \X Nodes]
    BY DEF BuddyInv, BuddyType
  <2>2. hand'[c] = <<>> /\ \A d \in Cpus : d # c => hand'[d] = hand[d]
    BY <1>2, <2>1
  <2>3. {hand'[e] : e \in {d \in Cpus : hand'[d] # <<>>}}
          = {hand[e] : e \in {d \in Cpus : hand[d] # <<>>}} \ {b}
    BY <1>1, <2>2
  <2> QED BY <1>1, <1>2, <2>3 DEF Held
<1>7. TreesOK'
  <2> SUFFICES ASSUME NEW j \in Trees PROVE TreeOK(tree'[j], HeldIn(j)')
    BY DEF TreesOK
  <2>1. tree \in [Trees -> Trees0] /\ TreeOK(tree[j], HeldIn(j))
    BY DEF BuddyInv, BuddyType, TreesOK
  <2>2. HeldIn(j)' = {n \in Nodes : Block(j, n) \in Held /\ Block(j, n) # Block(i, v)}
    BY <1>3, <1>6 DEF HeldIn
  <2>3. CASE j = i
    <3>1. HeldIn(j)' = HeldIn(i) \ {v}
      BY <2>2, <2>3 DEF Block, HeldIn
    <3>2. tree'[j] = new
      BY <1>2, <2>1, <2>3
    <3> QED BY <1>5, <3>1, <3>2
  <2>4. CASE j # i
    <3>1. HeldIn(j)' = HeldIn(j)
      BY <2>2, <2>4 DEF Block, HeldIn
    <3>2. tree'[j] = tree[j]
      BY <1>2, <2>1, <2>4
    <3> QED BY <2>1, <3>1, <3>2
  <2> QED BY <2>3, <2>4
<1>8. new \in Trees0
  BY <1>5 DEF TreeOK
<1> HIDE DEF new
<1>9. BuddyType'
  BY <1>1, <1>2, <1>8 DEF BuddyInv, BuddyType
<1>10. HandsOK'
  BY <1>1, <1>2 DEF BuddyInv, BuddyType, HandsOK, HandOK
<1>11. LocksHeld'
  BY <1>1, <1>2 DEF BuddyInv, BuddyType, LocksHeld, InTree
<1> QED BY <1>7, <1>9, <1>10, <1>11 DEF BuddyInv

LEMMA BuddyNext == BuddyInv /\ [Next]_vars => BuddyInv'
<1> SUFFICES ASSUME BuddyInv, [Next]_vars PROVE BuddyInv'
  OBVIOUS
<1>1. ASSUME NEW c \in Cpus, NEW s \in Sizes, bbma_alloc(c, s) PROVE BuddyInv'
  BY <1>1, KeepsAlloc
<1>2. ASSUME NEW c \in Cpus, NEW b \in live, bbma_free(c, b) PROVE BuddyInv'
  BY <1>2, KeepsFree
<1>3. ASSUME NEW c \in Cpus, Step(c) PROVE BuddyInv'
  BY <1>3, KeepsTryTree, KeepsPassTree, KeepsTake, KeepsNoTree, KeepsLockToFree, KeepsGive, KeepsUnlock
     DEF Step
<1>4. CASE UNCHANGED vars
  <2>1. Held' = Held /\ tree' = tree
    BY <1>4 DEF vars, Held
  <2>2. TreesOK'
    BY <2>1, TreesStay DEF BuddyInv
  <2>3. BuddyType' /\ HandsOK' /\ LocksHeld'
    BY <1>4 DEF vars, BuddyInv, BuddyType, HandsOK, HandOK, LocksHeld, InTree
  <2> QED BY <2>2, <2>3 DEF BuddyInv
<1> QED BY <1>1, <1>2, <1>3, <1>4 DEF Next

LEMMA BuddyIsInv == Spec => []BuddyInv
<1> QED BY BuddyInit, BuddyNext, PTL DEF Spec

-----------------------------------------------------------------------------
(* Theorem: a tree is read and written by the CPU that locked it, alone, and  *)
(* every lock that is taken has such a CPU: try_lock and lock in              *)
(* find_available_tree and bbma_free, and each unlock, keep it so.            *)
THEOREM TreesExclusive == Spec => []TreeExclusive
<1>1. BuddyInv => TreeExclusive
  <2> SUFFICES ASSUME BuddyInv, NEW i \in Trees
               PROVE  Cardinality({c \in Cpus : InTree(c) /\ at[c] = i}) = (IF locked[i] THEN 1 ELSE 0)
    BY DEF TreeExclusive, InTree
  <2> DEFINE C == {c \in Cpus : InTree(c) /\ at[c] = i}
  <2>1. CASE locked[i]
    <3>1. PICK c \in Cpus : InTree(c) /\ at[c] = i
      BY <2>1 DEF BuddyInv, LocksHeld
    <3>2. C = {c}
      BY <3>1 DEF BuddyInv, LocksHeld
    <3> QED BY <2>1, <3>2, FS_Singleton
  <2>2. CASE ~locked[i]
    <3>1. C = {}
      BY <2>2 DEF BuddyInv, LocksHeld
    <3> QED BY <2>2, <3>1, FS_EmptySet
  <2> QED BY <2>1, <2>2
<1> QED BY <1>1, BuddyIsInv, PTL

(* Theorem: every variable has its type, and no node offers more than its     *)
(* block.                                                                     *)
THEOREM TypesHold == Spec => []TypeOK
<1>1. BuddyInv => TypeOK
  <2> SUFFICES ASSUME BuddyInv PROVE TypeOK
    OBVIOUS
  <2>1. \A i \in Trees, n \in Nodes : tree[i][n] <= Size[n]
    BY TreeFacts DEF BuddyInv, TreesOK
  <2>2. tree \in [Trees -> [Nodes -> Sizes \cup {FULL_USED, GET_DEPARTED}]]
    BY DEF BuddyInv, BuddyType, Trees0, Values
  <2> QED BY <2>1, <2>2 DEF BuddyInv, BuddyType, TypeOK
<1> QED BY <1>1, BuddyIsInv, PTL

LEMMA HeldBlocks ==
  ASSUME BuddyInv, NEW b \in Held
  PROVE  b[1] \in Trees /\ b[2] \in Nodes /\ b = Block(b[1], b[2]) /\ b[2] \in HeldIn(b[1])
<1>1. b \in Trees \X Nodes
  BY BootBlocksAre DEF BuddyInv, BuddyType, Held
<1> QED BY <1>1 DEF HeldIn, Block

LEMMA TouchedIs ==
  ASSUME BuddyInv, NEW i \in Trees, NEW n \in Nodes
  PROVE  ~Touched(i, n) <=> Untouched(n, HeldIn(i))
<1>1. ASSUME NEW b \in Held, b[1] = i, Overlap(b[2], n) PROVE ~Untouched(n, HeldIn(i))
  BY <1>1, HeldBlocks DEF Untouched
<1>2. ASSUME NEW h \in HeldIn(i), Overlap(h, n) PROVE Touched(i, n)
  <2>1. Block(i, h) \in Held /\ Block(i, h)[1] = i /\ Block(i, h)[2] = h
    BY DEF HeldIn, Block
  <2> QED BY <1>2, <2>1 DEF Touched
<1> QED BY <1>1, <1>2 DEF Touched, Untouched

LEMMA InvFindsBlocks == BuddyInv => FreeFindsBlock
<1> SUFFICES ASSUME BuddyInv PROVE FreeFindsBlock
  OBVIOUS
<1>1. ASSUME NEW i \in Trees, NEW n \in Nodes
      PROVE  tree[i][n] = FULL_USED <=> Block(i, n) \in Held
  <2>1. TreeOK(tree[i], HeldIn(i))
    BY DEF BuddyInv, TreesOK
  <2> QED BY <2>1, TreeFacts DEF HeldIn
<1>2. ASSUME NEW b \in Held, b \notin BootBlocks
      PROVE  /\ b[1] = 1 => Addr[b[2]] > 0
             /\ StopsAt(tree[b[1]], Addr[b[2]]) # {}
             /\ Over(Addr[b[2]])[FreedSize(tree[b[1]], Addr[b[2]])] = b[2]
             /\ FreeFits(tree[b[1]], Addr[b[2]])
  <2> DEFINE i == b[1]
             n == b[2]
  <2>1. i \in Trees /\ n \in Nodes /\ b = Block(i, n) /\ n \in HeldIn(i) /\ TreeOK(tree[i], HeldIn(i))
    BY HeldBlocks DEF BuddyInv, TreesOK
  <2> HIDE DEF i, n
  <2>2. /\ StopsAt(tree[i], Addr[n]) = {Size[n]} /\ FreedSize(tree[i], Addr[n]) = Size[n]
        /\ OverAt(Addr[n], Size[n]) = n /\ FreeFits(tree[i], Addr[n])
    BY <2>1, FreedIs, FreeFitsTree
  <2>3. ASSUME i = 1 PROVE Addr[n] > 0
    <3> SUFFICES ASSUME Addr[n] = 0 PROVE FALSE
      BY <2>1, NodeBlocks
    <3>1. ~Untouched(n, First(BootPages))
      <4>1. 0 < BootPages /\ BootPages \in Nat
        BY Numbers
      <4> QED BY <2>1, <4>1, FirstFacts
    <3>2. PICK h \in First(BootPages) : Overlap(h, n)
      BY <3>1 DEF Untouched
    <3>3. h \in Nodes
      BY <3>2 DEF First, Pages
    <3>4. Block(1, h) \in BootBlocks
      BY <3>2, BootBlocksAre
    <3>5. h \in HeldIn(i)
      BY <2>3, <3>3, <3>4 DEF HeldIn, Held
    <3>6. h = n
      BY <2>1, <3>2, <3>5 DEF TreeOK, Apart
    <3> QED BY <1>2, <2>1, <2>3, <3>4, <3>6
  <2> QED BY <2>2, <2>3 DEF OverAt, i, n
<1> QED BY <1>1, <1>2 DEF FreeFindsBlock

(* Theorem: FULL_USED marks exactly the blocks somebody has, so the descent   *)
(* of free_tree_ptr, which knows an address and no size, ends at the block    *)
(* that was handed out there, and no assert on its way fails.                 *)
THEOREM FreesFindBlocks == Spec => []FreeFindsBlock
BY InvFindsBlocks, BuddyIsInv, PTL

LEMMA InvKeepsPromises == BuddyInv => PromiseKept
<1> SUFFICES ASSUME BuddyInv PROVE PromiseKept
  OBVIOUS
<1>1. ASSUME NEW i \in Trees PROVE TreeOK(tree[i], HeldIn(i))
  BY DEF BuddyInv, TreesOK
<1>2. ASSUME NEW i \in Trees, NEW n \in Nodes, tree[i][n] \in Sizes
      PROVE  \/ \E b \in Held : b[1] = i /\ Inside(n, b[2])
             \/ \E m \in Nodes : Inside(m, n) /\ Size[m] >= tree[i][n] /\ ~Touched(i, m)
  <2>1. Promised(tree[i], HeldIn(i), n)
    BY <1>1, PromiseFacts
  <2>2. ASSUME NEW h \in HeldIn(i), Inside(n, h)
        PROVE  \E b \in Held : b[1] = i /\ Inside(n, b[2])
    <3>1. Block(i, h) \in Held /\ Block(i, h)[1] = i /\ Block(i, h)[2] = h
      BY DEF HeldIn, Block
    <3> QED BY <2>2, <3>1
  <2> QED BY <1>2, <2>1, <2>2, TouchedIs DEF Promised
<1>3. ASSUME NEW i \in Trees, NEW want \in Sizes, tree[i][1] >= want
      PROVE  VisitFits(tree[i], want)
  <2> DEFINE v(s) == VisitAt(tree[i], want, s)
  <2> SUFFICES ASSUME NEW s \in want .. MaxSize PROVE want <= tree[i][v(s)] /\ tree[i][v(s)] <= s
    BY DEF VisitFits, VisitAt
  <2>1. TreeOK(tree[i], HeldIn(i)) /\ want \in Nat
    BY <1>1, LevelFacts
  <2>2. v(s) \in Nodes /\ Size[v(s)] = s /\ tree[i][v(s)] >= want
    BY <2>1, <1>3, VisitFacts
  <2> HIDE DEF v
  <2>3. tree[i][v(s)] <= s /\ tree[i][v(s)] \in Nat
    BY <2>1, <2>2, TreeFacts
  <2> QED BY <2>1, <2>2, <2>3
<1> QED BY <1>2, <1>3 DEF PromiseKept

(* Theorem: a size in a node is a promise get_the_free_space_in_tree can keep, *)
(* so its asserts never fail.                                                 *)
THEOREM PromisesKept == Spec => []PromiseKept
BY InvKeepsPromises, BuddyIsInv, PTL

(* Theorem: free_tree_ptr has merged every two free halves: memory in which   *)
(* no block is held is offered as one block.                                  *)
THEOREM FreeMemoryIsMerged == Spec => []FreeIsMerged
<1>1. BuddyInv => FreeIsMerged
  <2> SUFFICES ASSUME BuddyInv, NEW i \in Trees, NEW n \in Nodes, ~Touched(i, n)
               PROVE  tree[i][n] = Size[n]
    BY DEF FreeIsMerged
  <2>1. Untouched(n, HeldIn(i)) /\ HeldIn(i) \in SUBSET Nodes /\ TreeOK(tree[i], HeldIn(i))
    BY TouchedIs DEF HeldIn, BuddyInv, TreesOK
  <2> QED BY <2>1, UntouchedNode, TreeFacts
<1> QED BY <1>1, BuddyIsInv, PTL

-----------------------------------------------------------------------------
(* Calls come to an end. *)

(* The call can go on: no assert of its next step fails, and it needs no lock *)
(* that is taken.                                                             *)
CanGo(c) ==
  \/ pc[c] = "scan"
  \/ pc[c] = "look" /\ (tree[at[c]][1] >= req[c] => VisitFits(tree[at[c]], req[c]))
  \/ pc[c] = "wait" /\ CanLock(at[c])
  \/ /\ pc[c] = "give"
     /\ StopsAt(tree[at[c]], Addr[hand[c][2]]) # {}
     /\ FreeFits(tree[at[c]], Addr[hand[c][2]])
  \/ pc[c] = "unlock"

CallsGoOn ==
  \A c \in Cpus : pc[c] # "idle" =>
    \/ CanGo(c)
    \/ \E d \in Cpus \ {c} : InTree(d) /\ at[d] = at[c] /\ CanGo(d)

LEMMA HolderGoes ==
  ASSUME BuddyInv, NEW d \in Cpus, InTree(d)
  PROVE  CanGo(d)
<1>1. at[d] \in Trees /\ req[d] \in Sizes
  BY DEF BuddyInv, BuddyType, HandsOK, HandOK, InTree
<1>2. CASE pc[d] = "look"
  <2>1. tree[at[d]][1] >= req[d] => VisitFits(tree[at[d]], req[d])
    BY <1>1, InvKeepsPromises DEF PromiseKept
  <2> QED BY <1>2, <2>1 DEF CanGo
<1>3. CASE pc[d] = "give"
  <2>1. hand[d] # <<>> /\ at[d] = hand[d][1] /\ hand[d] \notin BootBlocks
    BY <1>3 DEF BuddyInv, HandsOK, HandOK
  <2>2. hand[d] \in Held
    BY <2>1 DEF Held
  <2>3. /\ StopsAt(tree[hand[d][1]], Addr[hand[d][2]]) # {}
        /\ FreeFits(tree[hand[d][1]], Addr[hand[d][2]])
    BY <2>1, <2>2, InvFindsBlocks DEF FreeFindsBlock
  <2> QED BY <1>3, <2>1, <2>3 DEF CanGo
<1> QED BY <1>2, <1>3 DEF InTree, CanGo

LEMMA InvGivesGoing == BuddyInv => CallsGoOn
<1> SUFFICES ASSUME BuddyInv, NEW c \in Cpus, pc[c] # "idle", ~CanGo(c)
             PROVE  \E d \in Cpus \ {c} : InTree(d) /\ at[d] = at[c] /\ CanGo(d)
  BY DEF CallsGoOn
<1>1. ~InTree(c)
  BY HolderGoes
<1>2. pc[c] = "wait"
  BY <1>1 DEF BuddyInv, BuddyType, InTree, CanGo
<1>3. at[c] \in Trees /\ locked[at[c]]
  BY <1>2 DEF BuddyInv, HandsOK, HandOK, CanGo, CanLock
<1>4. PICK d \in Cpus : InTree(d) /\ at[d] = at[c]
  BY <1>3 DEF BuddyInv, LocksHeld
<1> QED BY <1>1, <1>4, HolderGoes

(* A step of a call takes it to the next tree, further in its tree, or back   *)
(* to its caller, and who leaves a tree unlocks it.                           *)
Progress == [idle |-> 0, scan |-> 1, look |-> 2, wait |-> 1, give |-> 2, unlock |-> 3]
CallsAdvance ==
  \A c \in Cpus : pc[c] # "idle" =>
    /\ \/ pc'[c] = pc[c] /\ at'[c] = at[c]
       \/ pc'[c] = "idle"
       \/ at'[c] = at[c] /\ Progress[pc'[c]] > Progress[pc[c]]
       \/ pc'[c] = "scan" /\ at'[c] = at[c] + 1 /\ at'[c] <= TreeNum + 1
    /\ Step(c) => pc'[c] # pc[c] \/ at'[c] # at[c]
    /\ InTree(c) /\ ~(InTree(c)' /\ at'[c] = at[c]) => ~locked'[at[c]]

LEMMA OwnStep ==
  ASSUME BuddyInv, NEW c \in Cpus, Step(c)
  PROVE  /\ \/ pc'[c] = "idle"
            \/ at'[c] = at[c] /\ Progress[pc'[c]] > Progress[pc[c]]
            \/ pc'[c] = "scan" /\ at'[c] = at[c] + 1 /\ at'[c] <= TreeNum + 1
         /\ pc'[c] # pc[c] \/ at'[c] # at[c]
         /\ InTree(c) /\ ~(InTree(c)' /\ at'[c] = at[c]) => ~locked'[at[c]]
         /\ \A d \in Cpus \ {c} : pc'[d] = pc[d] /\ at'[d] = at[d]
<1>1. /\ pc \in [Cpus -> {"idle", "scan", "look", "wait", "give", "unlock"}]
      /\ at \in [Cpus -> 1 .. TreeNum + 1] /\ locked \in [Trees -> BOOLEAN]
      /\ InTree(c) => at[c] \in Trees
      /\ TreeNum \in Nat /\ Trees = 1 .. TreeNum
  BY SizeAssumption DEF BuddyInv, BuddyType, HandsOK, HandOK, InTree, Trees
<1>2. at[c] \in Nat
  BY <1>1
<1>3. CASE TryTree(c)
  <2>1. CASE CanLock(at[c])
    <3>1. pc[c] = "scan" /\ pc' = [pc EXCEPT ![c] = "look"] /\ at' = at
      BY <1>3, <2>1 DEF TryTree
    <3>2. pc'[c] = "look" /\ \A d \in Cpus \ {c} : pc'[d] = pc[d]
      BY <1>1, <3>1
    <3> QED BY <3>1, <3>2 DEF InTree, Progress
  <2>2. CASE ~CanLock(at[c])
    <3>1. pc[c] = "scan" /\ pc' = pc /\ at' = [at EXCEPT ![c] = at[c] + 1] /\ at[c] \in Trees
      BY <1>3, <2>2 DEF TryTree
    <3>2. at'[c] = at[c] + 1 /\ \A d \in Cpus \ {c} : at'[d] = at[d]
      BY <1>1, <3>1
    <3> QED BY <1>1, <3>1, <3>2 DEF InTree
  <2> QED BY <2>1, <2>2
<1>4. CASE PassTree(c)
  <2>1. /\ pc[c] = "look" /\ pc' = [pc EXCEPT ![c] = "scan"] /\ at' = [at EXCEPT ![c] = at[c] + 1]
        /\ locked' = [locked EXCEPT ![at[c]] = FALSE]
    BY <1>4 DEF PassTree
  <2>2. at[c] \in Trees
    BY <1>1, <2>1 DEF InTree
  <2>3. /\ pc'[c] = "scan" /\ at'[c] = at[c] + 1 /\ ~locked'[at[c]]
        /\ \A d \in Cpus \ {c} : pc'[d] = pc[d] /\ at'[d] = at[d]
    BY <1>1, <2>1, <2>2
  <2> QED BY <1>1, <2>1, <2>2, <2>3
<1>5. CASE TakeBlock(c) \/ GiveBlock(c) \/ LockToFree(c)
  <2>1. /\ at' = at
        /\ \/ pc[c] \in {"look", "give"} /\ pc' = [pc EXCEPT ![c] = "unlock"]
           \/ pc[c] = "wait" /\ pc' = [pc EXCEPT ![c] = "give"]
    BY <1>5 DEF TakeBlock, GiveBlock, LockToFree
  <2>2. /\ \/ pc[c] \in {"look", "give"} /\ pc'[c] = "unlock"
           \/ pc[c] = "wait" /\ pc'[c] = "give"
        /\ \A d \in Cpus \ {c} : pc'[d] = pc[d]
    BY <1>1, <2>1
  <2> QED BY <2>1, <2>2 DEF InTree, Progress
<1>6. CASE NoTree(c)
  <2>1. pc[c] = "scan" /\ pc' = [pc EXCEPT ![c] = "idle"] /\ at' = [at EXCEPT ![c] = 1]
    BY <1>6 DEF NoTree
  <2>2. pc'[c] = "idle" /\ \A d \in Cpus \ {c} : pc'[d] = pc[d] /\ at'[d] = at[d]
    BY <1>1, <2>1
  <2> QED BY <2>1, <2>2 DEF InTree
<1>7. CASE Unlock(c)
  <2>1. /\ pc[c] = "unlock" /\ pc' = [pc EXCEPT ![c] = "idle"] /\ at' = [at EXCEPT ![c] = 1]
        /\ locked' = [locked EXCEPT ![at[c]] = FALSE]
    BY <1>7 DEF Unlock
  <2>2. at[c] \in Trees
    BY <1>1, <2>1 DEF InTree
  <2>3. /\ pc'[c] = "idle" /\ ~locked'[at[c]]
        /\ \A d \in Cpus \ {c} : pc'[d] = pc[d] /\ at'[d] = at[d]
    BY <1>1, <2>1, <2>2
  <2> QED BY <2>1, <2>3
<1> QED BY <1>3, <1>4, <1>5, <1>6, <1>7 DEF Step

LEMMA AdvanceStep == BuddyInv /\ [Next]_vars => CallsAdvance
<1> SUFFICES ASSUME BuddyInv, [Next]_vars, NEW c \in Cpus, pc[c] # "idle"
             PROVE  /\ \/ pc'[c] = pc[c] /\ at'[c] = at[c]
                       \/ pc'[c] = "idle"
                       \/ at'[c] = at[c] /\ Progress[pc'[c]] > Progress[pc[c]]
                       \/ pc'[c] = "scan" /\ at'[c] = at[c] + 1 /\ at'[c] <= TreeNum + 1
                    /\ Step(c) => pc'[c] # pc[c] \/ at'[c] # at[c]
                    /\ InTree(c) /\ ~(InTree(c)' /\ at'[c] = at[c]) => ~locked'[at[c]]
  BY DEF CallsAdvance
<1>1. CASE Step(c)
  BY <1>1, OwnStep
<1>2. CASE ~Step(c)
  <2>1. pc'[c] = pc[c] /\ at'[c] = at[c]
    <3>1. CASE UNCHANGED vars
      BY <3>1 DEF vars
    <3>2. ASSUME NEW d \in Cpus, Step(d) PROVE pc'[c] = pc[c] /\ at'[c] = at[c]
      <4>1. c # d
        BY <1>2, <3>2
      <4> QED BY <3>2, <4>1, OwnStep
    <3>3. ASSUME NEW d \in Cpus, (\E s \in Sizes : bbma_alloc(d, s)) \/ (\E b \in live : bbma_free(d, b))
          PROVE  pc'[c] = pc[c] /\ at'[c] = at[c]
      <4>1. /\ pc[d] = "idle"
            /\ \E w \in {"scan", "wait"} : pc' = [pc EXCEPT ![d] = w]
            /\ \E i : at' = [at EXCEPT ![d] = i]
        BY <3>3 DEF bbma_alloc, bbma_free
      <4>2. c # d
        BY <4>1
      <4> QED BY <4>1, <4>2 DEF BuddyInv, BuddyType
    <3> QED BY <3>1, <3>2, <3>3 DEF Next
  <2> QED BY <1>2, <2>1 DEF InTree
<1> QED BY <1>1, <1>2

(* Theorem: the calls of the page allocator never hold one another up for     *)
(* good.  A call's next step is open, asserts and all, or bbma_free waits for *)
(* a CPU whose next step is; each step takes a call further towards the last  *)
(* tree or its return, and a tree that a call leaves is left unlocked.        *)
THEOREM CallsOnlyAdvance == Spec => []CallsGoOn /\ [][CallsAdvance]_vars
BY InvGivesGoing, AdvanceStep, BuddyIsInv, PTL DEF Spec

-----------------------------------------------------------------------------
(* bbma_alloc and bbma_free implement the abstract allocator. *)

InUseNow  == {Extent(b) : b \in live}
ServedNow == [c \in Cpus |-> IF pc[c] = "unlock" /\ hand[c] # <<>> THEN Extent(hand[c]) ELSE {}]
TakenNow  == (UNION InUseNow) \cup (UNION {ServedNow[c] : c \in Cpus})

LEMMA ExtentFacts ==
  /\ \A b \in Trees \X Nodes : Extent(b) # {}
  /\ \A i, j \in Trees, m, n \in Nodes :
       Extent(Block(i, m)) \cap Extent(Block(j, n)) # {} => i = j /\ Overlap(m, n)
<1>1. ASSUME NEW b \in Trees \X Nodes PROVE Extent(b) # {}
  <2>1. Addr[b[2]] \in Addr[b[2]] .. End[b[2]] - 1
    BY NodeBlocks
  <2> QED BY <2>1 DEF Extent
<1>2. ASSUME NEW i \in Trees, NEW j \in Trees, NEW m \in Nodes, NEW n \in Nodes,
             Extent(Block(i, m)) \cap Extent(Block(j, n)) # {}
      PROVE  i = j /\ Overlap(m, n)
  <2>1. PICK x : x \in Extent(Block(i, m)) /\ x \in Extent(Block(j, n))
    BY <1>2
  <2>2. PICK a \in Addr[m] .. End[m] - 1 : x = <<i, a>>
    BY <2>1 DEF Extent, Block
  <2>3. PICK d \in Addr[n] .. End[n] - 1 : x = <<j, d>>
    BY <2>1 DEF Extent, Block
  <2>4. i = j /\ a = d
    BY <2>2, <2>3
  <2> QED BY <2>4, NodeBlocks DEF Overlap
<1> QED BY <1>1, <1>2

\* Blocks somebody has share no memory.
LEMMA HeldApart ==
  ASSUME BuddyInv, NEW b \in Held, NEW d \in Held, Extent(b) \cap Extent(d) # {}
  PROVE  b = d
<1> DEFINE i == b[1]
           m == b[2]
           j == d[1]
           n == d[2]
<1>1. /\ i \in Trees /\ m \in Nodes /\ b = Block(i, m) /\ m \in HeldIn(i)
      /\ j \in Trees /\ n \in Nodes /\ d = Block(j, n) /\ n \in HeldIn(j)
  BY HeldBlocks
<1> HIDE DEF i, m, j, n
<1>2. i = j /\ Overlap(m, n)
  BY <1>1, ExtentFacts
<1>3. TreeOK(tree[i], HeldIn(i))
  BY <1>1 DEF BuddyInv, TreesOK
<1>4. m = n
  BY <1>1, <1>2, <1>3 DEF TreeOK, Apart
<1> QED BY <1>1, <1>2, <1>4

LEMMA TakenHeld ==
  ASSUME BuddyInv, NEW x \in TakenNow
  PROVE  \E d \in Held : x \in Extent(d)
<1>1. ASSUME NEW b \in live, x \in Extent(b) PROVE \E d \in Held : x \in Extent(d)
  BY <1>1 DEF Held
<1>2. ASSUME NEW c \in Cpus, x \in ServedNow[c] PROVE \E d \in Held : x \in Extent(d)
  <2>1. hand[c] # <<>> /\ x \in Extent(hand[c])
    BY <1>2 DEF ServedNow
  <2>2. hand[c] \in Held
    BY <2>1 DEF Held
  <2> QED BY <2>1, <2>2
<1> QED BY <1>1, <1>2 DEF TakenNow, InUseNow

LEMMA MemoryInit == Init => Memory!Init
BY DEF Init, Memory!Init

LEMMA TakeChooses ==
  ASSUME BuddyInv, NEW c \in Cpus, TakeBlock(c)
  PROVE  \E b \in (Trees \X Nodes) \ BootBlocks : Memory!Choose(c, Extent(b))
<1> DEFINE i == at[c]
           v == VisitAt(tree[i], req[c], req[c])
           b == Block(i, v)
<1>1. /\ i \in Trees /\ v \in Nodes /\ hand[c] = <<>> /\ hand' = [hand EXCEPT ![c] = b]
      /\ b \in Trees \X Nodes /\ b \notin Held /\ Untouched(v, HeldIn(i))
  BY TakeFacts
<1>2. pc[c] = "look" /\ pc' = [pc EXCEPT ![c] = "unlock"] /\ live' = live
  BY DEF TakeBlock
<1>3. b \notin BootBlocks /\ b # <<>>
  <2>1. b # <<>>
    BY DEF Block
  <2> QED BY <1>1, <2>1 DEF Held
<1>4. Extent(b) \cap TakenNow = {}
  <2> SUFFICES ASSUME NEW x \in Extent(b), x \in TakenNow PROVE FALSE
    OBVIOUS
  <2>1. PICK d \in Held : x \in Extent(d)
    BY TakenHeld
  <2>2. d[1] \in Trees /\ d[2] \in Nodes /\ d = Block(d[1], d[2]) /\ d[2] \in HeldIn(d[1])
    BY HeldBlocks
  <2>3. Extent(b) \cap Extent(Block(d[1], d[2])) # {}
    BY <2>1, <2>2
  <2> HIDE DEF v
  <2>4. i = d[1] /\ Overlap(v, d[2])
    BY <1>1, <2>2, <2>3, ExtentFacts
  <2>5. Overlap(d[2], v)
    BY <1>1, <2>2, <2>4, InsideOrder
  <2> QED BY <1>1, <2>2, <2>4, <2>5 DEF Untouched
<1> HIDE DEF b
<1> PICK x \in Trees \X Nodes : x = b
  BY <1>1
<1>5. ServedNow[c] = {} /\ ServedNow' = [ServedNow EXCEPT ![c] = Extent(x)]
  <2>1. /\ pc \in [Cpus -> {"idle", "scan", "look", "wait", "give", "unlock"}]
        /\ hand \in [Cpus -> {<<>>} \cup Trees \X Nodes]
    BY DEF BuddyInv, BuddyType
  <2>2. pc'[c] = "unlock" /\ hand'[c] = x /\ \A d \in Cpus : d # c => pc'[d] = pc[d] /\ hand'[d] = hand[d]
    BY <1>1, <1>2, <2>1
  <2>3. x # <<>>
    BY <1>3
  <2>4. \A y : Extent(y)' = Extent(y)
    BY DEF Extent
  <2>5. ServedNow'[c] = Extent(x) /\ ServedNow[c] = {}
    BY <1>1, <2>2, <2>3, <2>4 DEF ServedNow
  <2>6. ASSUME NEW d \in Cpus, d # c PROVE ServedNow'[d] = ServedNow[d]
    BY <2>2, <2>4, <2>6 DEF ServedNow
  <2>7. ServedNow' = [d \in Cpus |-> ServedNow'[d]] /\ ServedNow = [d \in Cpus |-> ServedNow[d]]
    BY DEF ServedNow
  <2> HIDE DEF ServedNow
  <2> QED BY <2>5, <2>6, <2>7
<1>6. InUseNow' = InUseNow
  BY <1>2 DEF InUseNow, Extent
<1>7. Memory!Choose(c, Extent(x))
  <2>1. Memory!Taken = TakenNow
    BY DEF Memory!Taken, TakenNow, InUseNow, ServedNow
  <2>2. Extent(x) \cap TakenNow = {}
    BY <1>4
  <2> HIDE DEF TakenNow, Extent
  <2> QED BY <1>5, <1>6, <2>1, <2>2 DEF Memory!Choose, InUseNow, ServedNow
<1>8. x \notin BootBlocks
  BY <1>3
<1> QED BY <1>7, <1>8

LEMMA UnlockDelivers ==
  ASSUME BuddyInv, NEW c \in Cpus, Unlock(c)
  PROVE  Memory!Deliver(c) \/ UNCHANGED <<InUseNow, ServedNow>>
<1>1. /\ pc[c] = "unlock" /\ pc' = [pc EXCEPT ![c] = "idle"]
      /\ live' = live \cup ({hand[c]} \ {<<>>}) /\ hand' = [hand EXCEPT ![c] = <<>>]
  BY DEF Unlock
<1>2. /\ pc \in [Cpus -> {"idle", "scan", "look", "wait", "give", "unlock"}]
      /\ hand \in [Cpus -> {<<>>} \cup Trees \X Nodes]
  BY DEF BuddyInv, BuddyType
<1>3. \A x : Extent(x)' = Extent(x)
  BY DEF Extent
<1>4. ServedNow' = [ServedNow EXCEPT ![c] = {}]
  <2>1. pc'[c] = "idle" /\ \A d \in Cpus : d # c => pc'[d] = pc[d] /\ hand'[d] = hand[d]
    BY <1>1, <1>2
  <2> QED BY <1>3, <2>1 DEF ServedNow
<1>5. CASE hand[c] = <<>>
  <2>1. live' = live
    BY <1>1, <1>5
  <2>2. InUseNow' = InUseNow
    BY <1>3, <2>1 DEF InUseNow
  <2>3. ServedNow[c] = {}
    BY <1>5 DEF ServedNow
  <2>4. ServedNow' = ServedNow
    BY <1>4, <2>3 DEF ServedNow
  <2> QED BY <2>2, <2>4
<1>6. CASE hand[c] # <<>>
  <2>1. ServedNow[c] = Extent(hand[c]) /\ hand[c] \in Trees \X Nodes
    BY <1>1, <1>2, <1>6 DEF ServedNow
  <2>2. ServedNow[c] # {}
    BY <2>1, ExtentFacts
  <2>3. InUseNow' = InUseNow \cup {ServedNow[c]}
    <3>1. live' = live \cup {hand[c]}
      BY <1>1, <1>6
    <3> QED BY <1>3, <2>1, <3>1 DEF InUseNow
  <2> QED BY <1>4, <2>2, <2>3 DEF Memory!Deliver, InUseNow, ServedNow
<1> QED BY <1>5, <1>6

LEMMA FreeFrees ==
  ASSUME BuddyInv, NEW c \in Cpus, NEW b \in live, bbma_free(c, b)
  PROVE  b \in (Trees \X Nodes) \ BootBlocks /\ Memory!Free(Extent(b))
<1>1. /\ pc[c] = "idle" /\ pc' = [pc EXCEPT ![c] = "wait"]
      /\ live' = live \ {b} /\ hand' = [hand EXCEPT ![c] = b]
  BY DEF bbma_free
<1>2. /\ pc \in [Cpus -> {"idle", "scan", "look", "wait", "give", "unlock"}]
      /\ hand \in [Cpus -> {<<>>} \cup Trees \X Nodes]
      /\ b \in Trees \X Nodes /\ b \notin BootBlocks
  BY DEF BuddyInv, BuddyType, HandsOK
<1>3. \A x : Extent(x)' = Extent(x)
  BY DEF Extent
<1>4. ServedNow' = ServedNow
  <2>1. pc'[c] = "wait" /\ \A d \in Cpus : d # c => pc'[d] = pc[d] /\ hand'[d] = hand[d]
    BY <1>1, <1>2
  <2> QED BY <1>1, <1>3, <2>1 DEF ServedNow
<1>5. ASSUME NEW d \in live, d # b PROVE Extent(d) # Extent(b)
  <2>1. d \in Held /\ b \in Held
    BY DEF Held
  <2>2. Extent(b) # {}
    BY <1>2, ExtentFacts
  <2> QED BY <1>5, <2>1, <2>2, HeldApart
<1>6. InUseNow' = InUseNow \ {Extent(b)} /\ Extent(b) \in InUseNow
  <2>1. {Extent(d) : d \in live \ {b}} = {Extent(d) : d \in live} \ {Extent(b)}
    <3> HIDE DEF Extent
    <3> QED BY <1>5
  <2> QED BY <1>1, <1>3, <2>1 DEF InUseNow
<1> QED BY <1>2, <1>4, <1>6 DEF Memory!Free, InUseNow, ServedNow

\* The other steps neither give nor take.
LEMMA MemoryFrame ==
  ASSUME live' = live,
         \A c \in Cpus : /\ pc'[c] = "unlock" /\ hand'[c] # <<>> <=> pc[c] = "unlock" /\ hand[c] # <<>>
                         /\ pc[c] = "unlock" /\ hand[c] # <<>> => hand'[c] = hand[c]
  PROVE  UNCHANGED <<InUseNow, ServedNow>>
<1>1. \A x : Extent(x)' = Extent(x)
  BY DEF Extent
<1> QED BY <1>1 DEF InUseNow, ServedNow

LEMMA MemoryStep == BuddyInv /\ [Next]_vars => [Memory!Next]_<<InUseNow, ServedNow>>
<1> SUFFICES ASSUME BuddyInv, [Next]_vars PROVE [Memory!Next]_<<InUseNow, ServedNow>>
  OBVIOUS
<1>1. /\ pc \in [Cpus -> {"idle", "scan", "look", "wait", "give", "unlock"}]
      /\ hand \in [Cpus -> {<<>>} \cup Trees \X Nodes]
  BY DEF BuddyInv, BuddyType
<1>2. CASE UNCHANGED vars
  BY <1>2, MemoryFrame DEF vars
<1>3. ASSUME NEW c \in Cpus,
             \/ \E s \in Sizes : bbma_alloc(c, s)
             \/ TryTree(c) \/ PassTree(c) \/ NoTree(c) \/ LockToFree(c)
      PROVE  UNCHANGED <<InUseNow, ServedNow>>
  <2>1. live' = live /\ hand' = hand
    BY <1>3 DEF bbma_alloc, TryTree, PassTree, NoTree, LockToFree
  <2>2. \A d \in Cpus : pc'[d] = "unlock" <=> pc[d] = "unlock"
    BY <1>1, <1>3 DEF bbma_alloc, TryTree, PassTree, NoTree, LockToFree
  <2> QED BY <2>1, <2>2, MemoryFrame
<1>4. ASSUME NEW c \in Cpus, GiveBlock(c) PROVE UNCHANGED <<InUseNow, ServedNow>>
  <2>1. /\ pc[c] = "give" /\ live' = live /\ hand'[c] = <<>>
        /\ \A d \in Cpus : d # c => pc'[d] = pc[d] /\ hand'[d] = hand[d]
    BY <1>1, <1>4 DEF GiveBlock
  <2> QED BY <2>1, MemoryFrame
<1>5. ASSUME NEW c \in Cpus, TakeBlock(c) PROVE Memory!Next
  BY <1>5, TakeChooses DEF Memory!Next
<1>6. ASSUME NEW c \in Cpus, NEW b \in live, bbma_free(c, b) PROVE Memory!Next
  BY <1>6, FreeFrees DEF Memory!Next
<1>7. ASSUME NEW c \in Cpus, Unlock(c) PROVE Memory!Next \/ UNCHANGED <<InUseNow, ServedNow>>
  BY <1>7, UnlockDelivers DEF Memory!Next
<1> QED BY <1>2, <1>3, <1>4, <1>5, <1>6, <1>7 DEF Next, Step

(* Theorem: bbma_alloc and bbma_free are an allocator, in every interleaving  *)
(* of their steps: what get_the_free_space_in_tree chooses overlaps no block  *)
(* in use or chosen by another call, and bbma_free gives back what it is      *)
(* given.                                                                     *)
THEOREM BlocksAllocated == Spec => ImplementsAllocator
<1>1. BuddyInv /\ [Next]_vars => [Memory!Next]_<<InUseNow, ServedNow>>
  BY MemoryStep
<1> QED BY <1>1, MemoryInit, BuddyIsInv, PTL DEF Spec, ImplementsAllocator, Memory!Spec, InUseNow, ServedNow
=============================================================================
