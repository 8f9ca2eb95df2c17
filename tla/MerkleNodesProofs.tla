-------------------------- MODULE MerkleNodesProofs --------------------------
(* Group roots are genuine and undisturbed proofs verify, for trees of any
   depth, over any number of failed writes and restarts.                     *)
EXTENDS MerkleNodes, SequenceTheorems, WellFoundedInduction, TLAPS

LEMMA LevelFacts ==
  /\ Depth \in Nat /\ Depth > 0
  /\ 0 \in Level /\ Depth \in Level
  /\ \A level \in Level : /\ level \in Nat /\ level <= Depth /\ Depth - level \in Level
                          /\ level < Depth => level + 1 \in Level
                          /\ level # 0 => level - 1 \in Level
BY DepthIsPositive DEF Level

\* To show something of every level
LEMMA AllLevels ==
  ASSUME NEW X, 0 \in X, \A level \in Level : level < Depth /\ level \in X => level + 1 \in X
  PROVE  \A level \in Level : level \in X
<1> DEFINE R == OpToRel(<, Nat)
           T == {level \in Level : level \notin X}
<1>1. IsWellFoundedOn(R, Nat)
  BY NatLessThanWellFounded
<1>2. \A m, n \in Nat : m < n => <<m, n>> \in R
  BY DEF OpToRel
<1> HIDE DEF R
<1> SUFFICES ASSUME T # {} PROVE FALSE
  OBVIOUS
<1>3. PICK n \in T : \A m \in T : ~ (<<m, n>> \in R)
  <2>1. T \subseteq Nat
    BY DEF Level
  <2> HIDE DEF T
  <2> QED
    BY <1>1, <2>1, WFMin
<1>4. n # 0 /\ n \in Level /\ n - 1 \in Level /\ n - 1 < n /\ n - 1 < Depth
  BY <1>3, LevelFacts
<1>5. n - 1 \in X
  <2> SUFFICES ASSUME n - 1 \notin X PROVE FALSE
    OBVIOUS
  <2>1. n - 1 \in T
    BY <1>4
  <2>2. <<n - 1, n>> \in R
    BY <1>2, <1>4, LevelFacts
  <2> QED
    BY <1>3, <2>1, <2>2
<1>6. (n - 1) + 1 = n
  BY <1>4, LevelFacts
<1>7. (n - 1) + 1 \in X
  BY <1>4, <1>5
<1> QED
  BY <1>3, <1>6, <1>7
-----------------------------------------------------------------------------
(* Sizes *)

IsSize(f, last) == f = [level \in 0..last |-> IF level = 0 THEN 1 ELSE 2 * f[level - 1]]

LEMMA SizeExists == \E f : IsSize(f, Depth)
<1> DEFINE X == {n \in Level : \E f : IsSize(f, n)}
<1>1. 0 \in X
  <2> DEFINE f == [level \in 0..0 |-> 1]
  <2>1. IsSize(f, 0)
    BY DEF IsSize
  <2> HIDE DEF f
  <2> QED
    BY <2>1, LevelFacts
<1>2. ASSUME NEW n \in Level, n < Depth, n \in X PROVE n + 1 \in X
  <2>1. PICK f : IsSize(f, n)
    BY <1>2
  <2> DEFINE g == [level \in 0..(n + 1) |-> IF level <= n THEN f[level] ELSE 2 * f[n]]
  <2>2. n \in Nat /\ n + 1 \in Level
    BY <1>2, LevelFacts
  <2>3. ASSUME NEW level \in 0..(n + 1)
        PROVE  g[level] = IF level = 0 THEN 1 ELSE 2 * g[level - 1]
    <3>1. CASE level <= n
      <4>1. level \in 0..n /\ g[level] = f[level]
        BY <2>2, <3>1
      <4>2. f[level] = IF level = 0 THEN 1 ELSE 2 * f[level - 1]
        BY <2>1, <4>1 DEF IsSize
      <4>3. level # 0 => level - 1 \in 0..(n + 1) /\ level - 1 <= n
        BY <2>2, <4>1
      <4> QED
        BY <4>1, <4>2, <4>3
    <3>2. CASE ~(level <= n)
      BY <2>2, <3>2
    <3> QED
      BY <3>1, <3>2
  <2>4. g = [level \in 0..(n + 1) |-> IF level = 0 THEN 1 ELSE 2 * g[level - 1]]
    <3>1. \A level \in 0..(n + 1) : g[level] = IF level = 0 THEN 1 ELSE 2 * g[level - 1]
      BY <2>3
    <3>2. g = [level \in 0..(n + 1) |-> g[level]]
      OBVIOUS
    <3> HIDE DEF g
    <3> QED
      BY <3>1, <3>2
  <2> HIDE DEF g
  <2> QED
    BY <2>2, <2>4 DEF IsSize
<1> HIDE DEF X
<1>3. Depth \in X
  BY <1>1, <1>2, AllLevels, LevelFacts
<1> QED
  BY <1>3 DEF X

LEMMA SizeFacts ==
  /\ size[0] = 1
  /\ \A level \in Level : /\ size[level] \in Nat /\ size[level] > 0
                          /\ level < Depth => size[level + 1] = 2 * size[level]
<1>1. size = CHOOSE f : IsSize(f, Depth)
  BY DEF size, IsSize, Level
<1>2. IsSize(size, Depth)
  BY <1>1, SizeExists
<1>3. \A level \in Level : size[level] = IF level = 0 THEN 1 ELSE 2 * size[level - 1]
  BY <1>2 DEF IsSize, Level
<1>4. size[0] = 1
  BY <1>3, LevelFacts
<1>5. ASSUME NEW level \in Level, level < Depth PROVE size[level + 1] = 2 * size[level]
  <2>1. level + 1 \in Level /\ level + 1 # 0 /\ (level + 1) - 1 = level
    BY <1>5, LevelFacts
  <2> QED
    BY <1>3, <2>1
<1> DEFINE X == {level \in Level : size[level] \in Nat /\ size[level] > 0}
<1>6. 0 \in X
  BY <1>4, LevelFacts
<1>7. ASSUME NEW level \in Level, level < Depth, level \in X PROVE level + 1 \in X
  BY <1>5, <1>7, LevelFacts
<1> HIDE DEF X
<1>8. \A level \in Level : level \in X
  BY <1>6, <1>7, AllLevels
<1> QED
  BY <1>4, <1>5, <1>8 DEF X

LEMMA WidthFacts ==
  /\ Width(Depth) = 1 /\ Width(0) = size[Depth]
  /\ \A level \in Level : /\ Width(level) \in Nat /\ Width(level) > 0
                          /\ level < Depth => Width(level) = 2 * Width(level + 1)
<1>1. Width(Depth) = 1 /\ Width(0) = size[Depth]
  BY SizeFacts, LevelFacts DEF Width
<1>2. ASSUME NEW level \in Level
      PROVE  /\ Width(level) \in Nat /\ Width(level) > 0
             /\ level < Depth => Width(level) = 2 * Width(level + 1)
  <2>1. Depth - level \in Level
    BY LevelFacts
  <2>2. level < Depth => /\ Depth - (level + 1) \in Level /\ Depth - (level + 1) < Depth
                         /\ Depth - (level + 1) + 1 = Depth - level
    BY LevelFacts
  <2> QED
    BY <2>1, <2>2, SizeFacts DEF Width
<1> QED
  BY <1>1, <1>2

\* The nodes by their levels and indices
LEMMA NodeFacts ==
  /\ \A n \in Node : /\ n = <<n[1], n[2]>> /\ n[1] \in Level /\ n[2] \in Nat
                     /\ n[2] < Width(n[1]) /\ n[2] \in 0..(Width(n[1]) - 1)
  /\ \A level \in Level : \A i \in 0..(Width(level) - 1) : <<level, i>> \in Node
  /\ \A level \in Level : \A i \in Nat : i < Width(level) => <<level, i>> \in Node
  /\ RootNode \in Node /\ RootNode[1] = Depth /\ RootNode[2] = 0
<1>1. ASSUME NEW n \in Node
      PROVE  /\ n = <<n[1], n[2]>> /\ n[1] \in Level /\ n[2] \in Nat
             /\ n[2] < Width(n[1]) /\ n[2] \in 0..(Width(n[1]) - 1)
  <2>1. PICK level \in Level : n \in {level} \X (0..(Width(level) - 1))
    BY DEF Node
  <2>2. n = <<n[1], n[2]>> /\ n[1] = level /\ n[2] \in 0..(Width(level) - 1)
    BY <2>1
  <2> QED
    BY <2>2, WidthFacts
<1>2. ASSUME NEW level \in Level, NEW i \in 0..(Width(level) - 1) PROVE <<level, i>> \in Node
  BY DEF Node
<1>3. ASSUME NEW level \in Level, NEW i \in Nat, i < Width(level) PROVE <<level, i>> \in Node
  <2>1. i \in 0..(Width(level) - 1)
    BY <1>3, WidthFacts
  <2> QED
    BY <1>2, <2>1
<1>4. RootNode \in Node /\ RootNode[1] = Depth /\ RootNode[2] = 0
  BY <1>3, WidthFacts, LevelFacts DEF RootNode
<1> QED
  BY <1>1, <1>2, <1>3, <1>4
-----------------------------------------------------------------------------
(* Hashes *)

First(n) == n[2] * size[n[1]]
End(n)   == First(n) + size[n[1]]

LEMMA Ordered ==
  ASSUME NEW a \in Nat, NEW b \in Nat, a <= b, NEW c \in Nat
  PROVE  a * c <= b * c
<1>1. b * c = a * c + (b - a) * c
  OBVIOUS
<1>2. b - a \in Nat
  OBVIOUS
<1>3. (b - a) * c \in Nat
  BY <1>2
<1>4. a * c \in Nat
  OBVIOUS
<1> HIDE <1>2
<1> QED
  BY <1>1, <1>3, <1>4

LEMMA SpanFacts ==
  \A n \in Node : /\ First(n) \in Nat /\ End(n) \in Nat
                  /\ size[n[1]] \in Nat /\ size[n[1]] > 0
                  /\ End(n) = First(n) + size[n[1]]
<1> SUFFICES ASSUME NEW n \in Node
             PROVE  /\ First(n) \in Nat /\ End(n) \in Nat
                    /\ size[n[1]] \in Nat /\ size[n[1]] > 0
                    /\ End(n) = First(n) + size[n[1]]
  OBVIOUS
<1>1. n[1] \in Level /\ n[2] \in Nat
  BY NodeFacts
<1>2. size[n[1]] \in Nat /\ size[n[1]] > 0
  BY <1>1, SizeFacts
<1>3. n[2] * size[n[1]] \in Nat
  BY <1>1, <1>2
<1> QED
  BY <1>2, <1>3 DEF First, End

LEMMA ConcatIs ==
  ASSUME NEW m \in Nat, NEW S, NEW a \in [1..m -> S], NEW b \in [1..m -> S]
  PROVE  /\ a \o b \in [1..(2 * m) -> S]
         /\ \A j \in 1..m : (a \o b)[j] = a[j]
         /\ \A j \in 1..m : (a \o b)[j + m] = b[j]
<1>1. a \in Seq(S) /\ b \in Seq(S) /\ Len(a) = m /\ Len(b) = m
  OBVIOUS
<1>2. /\ a \o b \in Seq(S)
      /\ Len(a \o b) = m + m
      /\ \A j \in 1..(m + m) : (a \o b)[j] = IF j <= m THEN a[j] ELSE b[j - m]
  <2>1. /\ a \o b \in Seq(S)
        /\ Len(a \o b) = Len(a) + Len(b)
        /\ \A j \in 1..(Len(a) + Len(b)) :
             (a \o b)[j] = IF j <= Len(a) THEN a[j] ELSE b[j - Len(a)]
    BY <1>1, ConcatProperties
  <2> QED
    BY <1>1, <2>1
<1>3. m + m = 2 * m
  OBVIOUS
<1>4. a \o b \in [1..(2 * m) -> S]
  <2>1. a \o b \in [1..Len(a \o b) -> S]
    BY <1>2, LenProperties
  <2> QED
    BY <1>2, <1>3, <2>1
<1>5. ASSUME NEW j \in 1..m PROVE (a \o b)[j] = a[j]
  BY <1>2
<1>6. ASSUME NEW j \in 1..m PROVE (a \o b)[j + m] = b[j]
  <2>1. j + m \in 1..(m + m) /\ ~(j + m <= m) /\ (j + m) - m = j
    OBVIOUS
  <2> QED
    BY <1>2, <2>1
<1> QED
  BY <1>4, <1>5, <1>6

LEMMA HashesConcat ==
  ASSUME NEW level \in Level, level < Depth, NEW a \in Hash(level), NEW b \in Hash(level)
  PROVE  HashLeftRight(a, b) \in Hash(level + 1)
<1>1. size[level] \in Nat /\ size[level + 1] = 2 * size[level]
  BY SizeFacts
<1> QED
  BY <1>1, ConcatIs DEF Hash, HashLeftRight

LEMMA ReferenceIs ==
  ASSUME NEW k, NEW n \in Node
  PROVE  Reference(k)[n] = [j \in 1..size[n[1]] |->
           IF First(n) + j - 1 < k THEN First(n) + j ELSE 0]
<1>1. \A j \in 1..size[n[1]] : Below(n, j) = First(n) + j - 1 /\ Below(n, j) + 1 = First(n) + j
  BY SpanFacts DEF Below, First
<1>2. Reference(k)[n] = [j \in 1..size[n[1]] |-> IF Below(n, j) < k THEN Below(n, j) + 1 ELSE 0]
  BY DEF Reference
<1> QED
  BY <1>1, <1>2

LEMMA ReferenceAt ==
  ASSUME NEW k \in Nat, NEW n \in Node
  PROVE  /\ Reference(k)[n] \in [1..size[n[1]] -> Nat]
         /\ \A j \in 1..size[n[1]] :
              Reference(k)[n][j] = IF First(n) + j - 1 < k THEN First(n) + j ELSE 0
<1>1. Reference(k)[n] = [j \in 1..size[n[1]] |->
                           IF First(n) + j - 1 < k THEN First(n) + j ELSE 0]
  BY ReferenceIs
<1>2. First(n) \in Nat
  BY SpanFacts
<1> QED
  BY <1>1, <1>2

\* A node whose leaves are all in two trees, or in neither, is the same in both
LEMMA SameInBoth ==
  ASSUME NEW k \in Nat, NEW l \in Nat, NEW n \in Node,
         \/ End(n) <= k /\ End(n) <= l
         \/ k <= First(n) /\ l <= First(n)
  PROVE  Reference(k)[n] = Reference(l)[n]
<1>1. \A j \in 1..size[n[1]] : First(n) + j - 1 < k <=> First(n) + j - 1 < l
  <2>1. First(n) \in Nat /\ size[n[1]] \in Nat /\ End(n) = First(n) + size[n[1]]
    BY SpanFacts
  <2> QED
    BY <2>1
<1>2. Reference(k)[n] = [j \in 1..size[n[1]] |->
                           IF First(n) + j - 1 < k THEN First(n) + j ELSE 0]
  BY ReferenceIs
<1>3. Reference(l)[n] = [j \in 1..size[n[1]] |->
                           IF First(n) + j - 1 < l THEN First(n) + j ELSE 0]
  BY ReferenceIs
<1> QED
  BY <1>1, <1>2, <1>3

LEMMA ChildFacts ==
  ASSUME NEW level \in Level, level < Depth, NEW i \in Nat, i < Width(level + 1)
  PROVE  /\ level + 1 \in Level /\ <<level + 1, i>> \in Node
         /\ <<level, 2 * i>> \in Node /\ <<level, 2 * i + 1>> \in Node
         /\ 2 * i \in 0..(Width(level) - 1) /\ 2 * i + 1 \in 0..(Width(level) - 1)
         /\ First(<<level, 2 * i>>) = First(<<level + 1, i>>)
         /\ First(<<level, 2 * i + 1>>) = First(<<level + 1, i>>) + size[level]
         /\ size[level + 1] = 2 * size[level]
<1>1. level + 1 \in Level /\ Width(level) = 2 * Width(level + 1) /\ Width(level + 1) \in Nat
  BY WidthFacts, LevelFacts
<1>2. 2 * i \in 0..(Width(level) - 1) /\ 2 * i + 1 \in 0..(Width(level) - 1)
  BY <1>1
<1>3. <<level + 1, i>> \in Node /\ <<level, 2 * i>> \in Node /\ <<level, 2 * i + 1>> \in Node
  BY <1>1, <1>2, NodeFacts
<1>4. size[level] \in Nat /\ size[level + 1] = 2 * size[level]
  BY SizeFacts
<1>5. i * (2 * size[level]) = (2 * i) * size[level]
      /\ (2 * i + 1) * size[level] = (2 * i) * size[level] + size[level]
  BY <1>4
<1> QED
  BY <1>1, <1>2, <1>3, <1>4, <1>5 DEF First

\* A tree's node is the hash of its children
LEMMA ReferenceSplits ==
  ASSUME NEW k \in Nat, NEW level \in Level, level < Depth, NEW i \in Nat, i < Width(level + 1)
  PROVE  Reference(k)[<<level + 1, i>>] =
           HashLeftRight(Reference(k)[<<level, 2 * i>>], Reference(k)[<<level, 2 * i + 1>>])
<1> DEFINE n == <<level + 1, i>>
           left == <<level, 2 * i>>
           right == <<level, 2 * i + 1>>
           m == size[level]
           b == First(n)
<1>1. /\ left \in Node /\ right \in Node /\ n \in Node
      /\ left[1] = level /\ right[1] = level /\ n[1] = level + 1
      /\ First(left) = b /\ First(right) = b + m /\ size[level + 1] = 2 * m
  BY ChildFacts
<1>2. m \in Nat /\ b \in Nat
  BY <1>1, SizeFacts, SpanFacts
<1>3. /\ Reference(k)[left] \in [1..m -> Nat]
      /\ \A j \in 1..m : Reference(k)[left][j] = IF b + j - 1 < k THEN b + j ELSE 0
  <2>1. size[left[1]] = m
    BY <1>1
  <2> HIDE DEF left, m, n, b
  <2> QED
    BY <1>1, <2>1, ReferenceAt
<1>4. /\ Reference(k)[right] \in [1..m -> Nat]
      /\ \A j \in 1..m : Reference(k)[right][j] = IF b + m + j - 1 < k THEN b + m + j ELSE 0
  <2>1. size[right[1]] = m
    BY <1>1
  <2> HIDE DEF right, m, n, b
  <2> QED
    BY <1>1, <2>1, ReferenceAt
<1>5. /\ Reference(k)[n] \in [1..(2 * m) -> Nat]
      /\ \A j \in 1..(2 * m) : Reference(k)[n][j] = IF b + j - 1 < k THEN b + j ELSE 0
  <2>1. size[n[1]] = 2 * m
    BY <1>1
  <2>2. First(n) = b
    OBVIOUS
  <2> HIDE DEF n, m, b
  <2> QED
    BY <1>1, <2>1, <2>2, ReferenceAt
<1> HIDE DEF n, left, right, m, b
<1>6. ASSUME NEW j \in 1..m
      PROVE  /\ Reference(k)[left][j] = Reference(k)[n][j]
             /\ Reference(k)[right][j] = Reference(k)[n][j + m]
  <2>1. j \in 1..(2 * m) /\ j + m \in 1..(2 * m) /\ b + (j + m) = b + m + j
    BY <1>2
  <2>2. Reference(k)[n][j + m] = IF b + (j + m) - 1 < k THEN b + (j + m) ELSE 0
    BY <1>5, <2>1
  <2>3. Reference(k)[right][j] = IF b + m + j - 1 < k THEN b + m + j ELSE 0
    BY <1>4
  <2>4. Reference(k)[left][j] = Reference(k)[n][j]
    BY <1>3, <1>5, <2>1
  <2>5. b + (j + m) - 1 = b + m + j - 1
    BY <1>2
  <2> QED
    BY <2>1, <2>2, <2>3, <2>4, <2>5
<1>7. Reference(k)[left] \o Reference(k)[right] = Reference(k)[n]
  <2> DEFINE x == Reference(k)[left]
             y == Reference(k)[right]
             z == Reference(k)[n]
             d == x \o y
             D == 1..(2 * m)
             S == Nat
  <2>1. x \in [1..m -> S] /\ y \in [1..m -> S] /\ z \in [D -> S]
    BY <1>3, <1>4, <1>5
  <2>2. (\A j \in 1..m : x[j] = z[j]) /\ (\A j \in 1..m : y[j] = z[j + m])
    BY <1>6
  <2> HIDE DEF x, y, z, S
  <2>3. d \in [D -> S]
    BY <1>2, <2>1, ConcatIs
  <2>4. ASSUME NEW j \in D PROVE d[j] = z[j]
    <3>1. /\ \A l \in 1..m : d[l] = x[l]
          /\ \A l \in 1..m : d[l + m] = y[l]
      <4> HIDE DEF D
      <4> QED
        BY <1>2, <2>1, ConcatIs
    <3> HIDE DEF d
    <3>2. CASE j <= m
      BY <1>2, <2>2, <3>1, <3>2
    <3>3. CASE ~(j <= m)
      <4>1. j - m \in 1..m /\ (j - m) + m = j
        BY <1>2, <3>3
      <4> QED
        BY <2>2, <3>1, <4>1
    <3> QED
      BY <3>2, <3>3
  <2> HIDE DEF d, D
  <2>5. d = z
    BY <2>1, <2>3, <2>4
  <2> QED
    BY <2>5 DEF d, x, y, z
<1> QED
  BY <1>7 DEF HashLeftRight, n, left, right

LEMMA BlankIs ==
  ASSUME NEW k \in Nat, NEW n \in Node, k <= First(n)
  PROVE  Reference(k)[n] = [j \in 1..size[n[1]] |-> 0]
<1>1. First(n) \in Nat
  BY SpanFacts
<1>2. \A j \in 1..size[n[1]] : ~(First(n) + j - 1 < k)
  BY <1>1
<1>3. \A j \in 1..size[n[1]] : Reference(k)[n][j] = 0
  BY <1>2, ReferenceAt
<1>4. Reference(k)[n] \in [1..size[n[1]] -> Nat]
  BY ReferenceAt
<1> QED
  BY <1>3, <1>4

IsZeros(f) == f = [level \in Level |->
  IF level = 0 THEN ZeroLeaf ELSE HashLeftRight(f[level - 1], f[level - 1])]

\* the hash of a subtree without leaves
LEMMA ZerosAre == \A level \in Level : zeros[level] = [j \in 1..size[level] |-> 0]
<1> DEFINE Blank(level) == [j \in 1..size[level] |-> 0]
           f == [level \in Level |-> Blank(level)]
<1>1. ASSUME NEW level \in Level, level < Depth
      PROVE  Blank(level + 1) = HashLeftRight(Blank(level), Blank(level))
  <2>1. level + 1 \in Level /\ 0 < Width(level + 1) /\ 0 \in Nat
    BY <1>1, LevelFacts, WidthFacts
  <2> DEFINE n == <<level + 1, 0>>
             left == <<level, 2 * 0>>
             right == <<level, 2 * 0 + 1>>
  <2>2. /\ n \in Node /\ left \in Node /\ right \in Node
        /\ n[1] = level + 1 /\ left[1] = level /\ right[1] = level
    BY <1>1, <2>1, ChildFacts
  <2>3. Reference(0)[n] = HashLeftRight(Reference(0)[left], Reference(0)[right])
    BY <1>1, <2>1, ReferenceSplits
  <2> HIDE DEF n, left, right
  <2>4. ASSUME NEW m \in Node PROVE Reference(0)[m] = Blank(m[1])
    <3>1. 0 \in Nat /\ 0 <= First(m)
      BY SpanFacts
    <3> QED
      BY <3>1, BlankIs
  <2> QED
    BY <2>2, <2>3, <2>4
<1>2. Blank(0) = ZeroLeaf
  BY SizeFacts DEF ZeroLeaf
<1> HIDE DEF Blank
<1>3. IsZeros(f)
  <2>1. ASSUME NEW level \in Level
        PROVE  f[level] = IF level = 0 THEN ZeroLeaf ELSE HashLeftRight(f[level - 1], f[level - 1])
    <3>1. CASE level = 0
      BY <1>2, <3>1
    <3>2. CASE level # 0
      <4>1. level - 1 \in Level /\ level - 1 < Depth /\ (level - 1) + 1 = level
        BY <3>2, LevelFacts
      <4> QED
        BY <1>1, <3>2, <4>1
    <3> QED
      BY <3>1, <3>2
  <2>2. f = [level \in Level |-> f[level]]
    OBVIOUS
  <2> HIDE DEF f
  <2> QED
    BY <2>1, <2>2 DEF IsZeros
<1> HIDE DEF f
<1>4. zeros = CHOOSE g : IsZeros(g)
  BY DEF zeros, IsZeros
<1>5. IsZeros(zeros)
  BY <1>3, <1>4
<1>6. \A level \in Level :
        zeros[level] = IF level = 0 THEN ZeroLeaf ELSE HashLeftRight(zeros[level - 1], zeros[level - 1])
  BY <1>5 DEF IsZeros
<1> DEFINE X == {level \in Level : zeros[level] = Blank(level)}
<1>7. 0 \in X
  BY <1>2, <1>6, LevelFacts
<1>8. ASSUME NEW level \in Level, level < Depth, level \in X PROVE level + 1 \in X
  <2>1. level + 1 \in Level /\ level + 1 # 0 /\ (level + 1) - 1 = level
    BY <1>8, LevelFacts
  <2>2. zeros[level + 1] = HashLeftRight(zeros[level], zeros[level])
    BY <1>6, <2>1
  <2> QED
    BY <1>1, <1>8, <2>1, <2>2
<1> HIDE DEF X
<1>9. \A level \in Level : level \in X
  BY <1>7, <1>8, AllLevels
<1> QED
  BY <1>9 DEF X, Blank

LEMMA ZerosFacts ==
  /\ \A level \in Level : zeros[level] \in Hash(level) /\ zeros[level] # None
  /\ \A k \in Nat : \A n \in Node : k <= First(n) => Reference(k)[n] = zeros[n[1]]
<1>1. ASSUME NEW level \in Level PROVE zeros[level] \in Hash(level) /\ zeros[level] # None
  <2>1. zeros[level] \in Hash(level)
    <3>1. Width(0) \in Nat
      BY WidthFacts, LevelFacts
    <3>2. 0 \in 0..Width(0)
      BY <3>1
    <3> QED
      BY <3>2, ZerosAre DEF Hash
  <2> QED
    BY <2>1, NoneIsNoHash
<1>2. ASSUME NEW k \in Nat, NEW n \in Node, k <= First(n) PROVE Reference(k)[n] = zeros[n[1]]
  BY <1>2, BlankIs, ZerosAre, NodeFacts
<1> QED
  BY <1>1, <1>2
-----------------------------------------------------------------------------
(* What fillHashWriteGroup computes *)

LEMMA DivFacts ==
  ASSUME NEW a \in Nat, NEW b \in Nat, b > 0
  PROVE  /\ a \div b \in Nat
         /\ (a \div b) * b <= a
         /\ a < (a \div b) * b + b
<1>1. a \div b \in Nat /\ b * (a \div b) <= a /\ a < b * (a \div b) + b
  OBVIOUS
<1> QED
  BY <1>1

\* Where a node is, seen from a leaf
LEMMA Beside ==
  ASSUME NEW n \in Node, NEW a \in Nat
  PROVE  /\ a \div size[n[1]] \in Nat
         /\ n[2] < a \div size[n[1]] => End(n) <= a
         /\ n[2] > a \div size[n[1]] => a < First(n)
         /\ n[2] = a \div size[n[1]] => First(n) <= a /\ a < End(n)
<1> DEFINE b == size[n[1]]
           q == a \div b
<1>1. b \in Nat /\ b > 0 /\ n[2] \in Nat
  BY SpanFacts, NodeFacts
<1>2. q \in Nat /\ q * b <= a /\ a < q * b + b
  BY <1>1, DivFacts
<1> HIDE DEF q
<1>3. First(n) = n[2] * b /\ End(n) = n[2] * b + b /\ First(n) \in Nat /\ q * b \in Nat
  BY <1>1, <1>2, SpanFacts DEF First, End
<1>4. ASSUME n[2] < q PROVE End(n) <= a
  <2>1. n[2] + 1 \in Nat /\ n[2] + 1 <= q
    BY <1>1, <1>2, <1>4
  <2>2. (n[2] + 1) * b <= q * b
    BY <1>1, <1>2, <2>1, Ordered
  <2>3. (n[2] + 1) * b = n[2] * b + b
    BY <1>1
  <2> QED
    BY <1>1, <1>2, <1>3, <2>2, <2>3
<1>5. ASSUME n[2] > q PROVE a < First(n)
  <2>1. q + 1 \in Nat /\ q + 1 <= n[2]
    BY <1>1, <1>2, <1>5
  <2>2. (q + 1) * b <= n[2] * b
    BY <1>1, <2>1, Ordered
  <2> HIDE DEF b
  <2>3. (q + 1) * b = q * b + b
    BY <1>1, <1>2
  <2>4. q * b + b <= First(n)
    BY <1>3, <2>2, <2>3
  <2> QED
    BY <1>1, <1>2, <1>3, <2>4
<1>6. ASSUME n[2] = q PROVE First(n) <= a /\ a < End(n)
  <2> HIDE DEF b
  <2>1. First(n) = q * b /\ End(n) = q * b + b
    BY <1>3, <1>6
  <2> QED
    BY <1>1, <1>2, <2>1
<1> QED
  BY <1>2, <1>4, <1>5, <1>6 DEF q

LEMMA Halved ==
  ASSUME NEW a \in Nat, NEW b \in Nat, b > 0
  PROVE  /\ a \div (2 * b) = (a \div b) \div 2
         /\ (a \div b) \div 2 \in Nat
<1> DEFINE q == a \div b
           r == q \div 2
           c == 2 * b
           t == a \div c
<1>1. q \in Nat /\ q * b <= a /\ a < q * b + b
  BY DivFacts
<1>2. c \in Nat /\ c > 0
  OBVIOUS
<1>3. t \in Nat /\ t * c <= a /\ a < t * c + c
  <2> HIDE DEF c
  <2> QED
    BY <1>2, DivFacts
<1> HIDE DEF q, t
<1>4. r \in Nat /\ 2 * r <= q /\ q < 2 * r + 2
  BY <1>1
<1> HIDE DEF r
<1>5. r * c = (2 * r) * b /\ (2 * r + 2) * b = r * c + c /\ t * c = (2 * t) * b
  BY <1>3, <1>4
<1>6. ~(t < r)
  <2> SUFFICES ASSUME t < r PROVE FALSE
    OBVIOUS
  <2>1. t + 1 \in Nat /\ t + 1 <= r
    BY <1>3, <1>4
  <2>2. (t + 1) * c <= r * c
    <3> HIDE DEF c
    <3> QED
      BY <1>2, <1>4, <2>1, Ordered
  <2>3. (2 * r) * b <= q * b
    BY <1>1, <1>4, Ordered
  <2>4. (t + 1) * c = t * c + c
    BY <1>2, <1>3
  <2>5. t * c \in Nat /\ r * c \in Nat /\ q * b \in Nat
    BY <1>1, <1>2, <1>3, <1>4
  <2> HIDE DEF c
  <2> QED
    BY <1>1, <1>2, <1>3, <1>5, <2>2, <2>3, <2>4, <2>5
<1>7. ~(r < t)
  <2> SUFFICES ASSUME r < t PROVE FALSE
    OBVIOUS
  <2>1. r + 1 \in Nat /\ r + 1 <= t /\ q + 1 \in Nat /\ q + 1 <= 2 * r + 2
    BY <1>1, <1>3, <1>4
  <2>2. (r + 1) * c <= t * c
    <3> HIDE DEF c
    <3> QED
      BY <1>2, <1>3, <2>1, Ordered
  <2>3. 2 * r + 2 \in Nat
    BY <1>4
  <2>4. (q + 1) * b <= (2 * r + 2) * b
    BY <2>1, <2>3, Ordered
  <2>5. (q + 1) * b = q * b + b /\ (r + 1) * c = r * c + c
    BY <1>1, <1>2, <1>4
  <2>6. t * c \in Nat /\ r * c \in Nat /\ q * b \in Nat
    BY <1>1, <1>2, <1>3, <1>4
  <2> HIDE DEF c
  <2> QED
    BY <1>1, <1>2, <1>3, <1>5, <2>2, <2>4, <2>5, <2>6
<1>8. t = r
  BY <1>3, <1>4, <1>6, <1>7
<1> QED
  BY <1>4, <1>8 DEF q, r, t

LEMMA Parity ==
  ASSUME NEW a \in Nat
  PROVE  /\ a \div 2 \in Nat
         /\ a = 2 * (a \div 2) \/ a = 2 * (a \div 2) + 1
OBVIOUS

LEMMA Doubled ==
  ASSUME NEW a \in Nat
  PROVE  /\ (2 * a) \div 2 = a /\ (2 * a + 1) \div 2 = a
         /\ (2 * a) % 2 = 0 /\ (2 * a + 1) % 2 = 1
OBVIOUS

LEMMA ParentsFacts ==
  ASSUME NEW level \in Level, level < Depth, NEW first \in Nat, NEW last \in Nat
  PROVE  /\ \A p \in Parents(level, first, last) :
              /\ p \in Nat /\ p < Width(level + 1) /\ p \in 0..(Width(level + 1) - 1)
              /\ first \div size[level + 1] <= p
         /\ \A p \in 0..(Width(level + 1) - 1) :
              first \div size[level + 1] <= p /\ p <= last \div size[level + 1] =>
                p \in Parents(level, first, last)
<1> DEFINE b == size[level]
           start == first \div b
           stop == last \div b
           W == Width(level + 1)
<1>1. b \in Nat /\ b > 0 /\ size[level + 1] = 2 * b
  BY SizeFacts
<1>2. W \in Nat
  BY LevelFacts, WidthFacts
<1>3. start \in Nat /\ stop \in Nat
  BY <1>1, DivFacts
<1>4. first \div size[level + 1] = start \div 2 /\ last \div size[level + 1] = stop \div 2
  BY <1>1, Halved
<1>5. Parents(level, first, last) =
        {i \div 2 : i \in {j \in start..(stop + 1) : (j - start) % 2 = 0}} \intersect (0..(W - 1))
  BY DEF Parents
<1> HIDE DEF b, start, stop, W
<1>6. ASSUME NEW p \in Parents(level, first, last)
      PROVE  p \in Nat /\ p < W /\ p \in 0..(W - 1) /\ start \div 2 <= p
  <2>1. PICK j \in start..(stop + 1) : p = j \div 2
    BY <1>5
  <2>2. p \in 0..(W - 1)
    BY <1>5
  <2>3. start \div 2 <= j \div 2
    BY <1>3, <2>1
  <2> QED
    BY <1>2, <2>1, <2>2, <2>3
<1>7. ASSUME NEW p \in 0..(W - 1), start \div 2 <= p, p <= stop \div 2
      PROVE  p \in Parents(level, first, last)
  <2> DEFINE v == start \div 2
             w == stop \div 2
  <2>1. p \in Nat /\ v \in Nat /\ w \in Nat /\ v <= p /\ p <= w /\ 2 * w <= stop
    BY <1>2, <1>3, <1>7, Parity
  <2>2. PICK u \in {0, 1} : start = 2 * v + u
    BY <1>3, Parity
  <2> HIDE DEF v, w
  <2> DEFINE j == 2 * p + u
  <2>3. j \in start..(stop + 1)
    BY <1>3, <2>1, <2>2
  <2>4. j \div 2 = p
    BY <2>1, <2>2, Doubled
  <2>5. (j - start) % 2 = 0
    <3>1. p - v \in Nat /\ j - start = 2 * (p - v)
      BY <2>1, <2>2
    <3> HIDE DEF j
    <3> QED
      BY <3>1, Doubled
  <2> HIDE DEF j
  <2>6. j \in {i \in start..(stop + 1) : (i - start) % 2 = 0}
    BY <2>3, <2>5
  <2> QED
    BY <1>5, <2>4, <2>6
<1> QED
  BY <1>4, <1>6, <1>7 DEF W

FirstLevel(first, last) ==
  [i \in Position |-> IF first <= i /\ i < last THEN LeafHash(i) ELSE None]

IsFilled(H, first, last, top) ==
  H = [level \in 0..top |-> IF level = 0 THEN FirstLevel(first, last)
                            ELSE NextLevel(H[level - 1], level, first, last)]

LEMMA FilledExists ==
  ASSUME NEW first, NEW last
  PROVE  \E H : IsFilled(H, first, last, Depth)
<1> DEFINE X == {n \in Level : \E H : IsFilled(H, first, last, n)}
<1>1. 0 \in X
  <2> DEFINE H == [level \in 0..0 |-> FirstLevel(first, last)]
  <2>1. IsFilled(H, first, last, 0)
    BY DEF IsFilled
  <2> HIDE DEF H
  <2> QED
    BY <2>1, LevelFacts
<1>2. ASSUME NEW n \in Level, n < Depth, n \in X PROVE n + 1 \in X
  <2>1. PICK H : IsFilled(H, first, last, n)
    BY <1>2
  <2> DEFINE G == [level \in 0..(n + 1) |->
                     IF level <= n THEN H[level] ELSE NextLevel(H[n], level, first, last)]
  <2>2. n \in Nat /\ n + 1 \in Level
    BY <1>2, LevelFacts
  <2>3. ASSUME NEW level \in 0..(n + 1)
        PROVE  G[level] = IF level = 0 THEN FirstLevel(first, last)
                          ELSE NextLevel(G[level - 1], level, first, last)
    <3>1. CASE level <= n
      <4>1. level \in 0..n /\ G[level] = H[level]
        BY <2>2, <3>1
      <4>2. H[level] = IF level = 0 THEN FirstLevel(first, last)
                       ELSE NextLevel(H[level - 1], level, first, last)
        BY <2>1, <4>1 DEF IsFilled
      <4>3. level # 0 => G[level - 1] = H[level - 1]
        BY <2>2, <4>1
      <4> QED
        BY <4>1, <4>2, <4>3
    <3>2. CASE ~(level <= n)
      <4>1. level = n + 1 /\ level # 0 /\ level - 1 = n
        BY <2>2, <3>2
      <4>2. G[n] = H[n]
        BY <2>2
      <4>3. G[level] = NextLevel(H[n], level, first, last)
        BY <3>2
      <4> QED
        BY <4>1, <4>2, <4>3
    <3> QED
      BY <3>1, <3>2
  <2>4. G = [level \in 0..(n + 1) |-> G[level]]
    OBVIOUS
  <2> HIDE DEF G
  <2>5. IsFilled(G, first, last, n + 1)
    BY <2>3, <2>4 DEF IsFilled
  <2> QED
    BY <2>2, <2>5
<1> HIDE DEF X
<1>3. Depth \in X
  BY <1>1, <1>2, AllLevels, LevelFacts
<1> QED
  BY <1>3 DEF X

\* the hash that goes into the parent of c
Child(nodes, c) == IF nodes[c] # None THEN nodes[c] ELSE NodeHash(c)

LEMMA FillFacts ==
  ASSUME NEW first, NEW last
  PROVE  LET G == FillHashWriteGroup(first, last)
         IN  /\ DOMAIN G = Node
             /\ \A i \in Position :
                  G[<<0, i>>] = IF first <= i /\ i < last THEN LeafHash(i) ELSE None
             /\ \A level \in Level : level < Depth =>
                  \A i \in 0..(Width(level + 1) - 1) :
                    G[<<level + 1, i>>] =
                      IF i \in Parents(level, first, last)
                      THEN HashLeftRight(Child(G, <<level, 2 * i>>), Child(G, <<level, 2 * i + 1>>))
                      ELSE None
<1> DEFINE G == FillHashWriteGroup(first, last)
           H == CHOOSE h : IsFilled(h, first, last, Depth)
<1>1. G = [n \in Node |-> H[n[1]][n[2]]]
  BY DEF FillHashWriteGroup, IsFilled, FirstLevel, Level
<1>2. IsFilled(H, first, last, Depth)
  BY FilledExists
<1> HIDE DEF G, H
<1>3. /\ H[0] = FirstLevel(first, last)
      /\ \A level \in Level : level # 0 => H[level] = NextLevel(H[level - 1], level, first, last)
  BY <1>2, LevelFacts DEF IsFilled, Level
<1>4. ASSUME NEW i \in Position
      PROVE  G[<<0, i>>] = IF first <= i /\ i < last THEN LeafHash(i) ELSE None
  <2>1. <<0, i>> \in Node
    BY NodeFacts, LevelFacts DEF Position
  <2>2. G[<<0, i>>] = H[0][i]
    BY <1>1, <2>1
  <2> QED
    BY <1>3, <2>2 DEF FirstLevel
<1>5. ASSUME NEW level \in Level, level < Depth, NEW i \in 0..(Width(level + 1) - 1)
      PROVE  G[<<level + 1, i>>] =
               IF i \in Parents(level, first, last)
               THEN HashLeftRight(Child(G, <<level, 2 * i>>), Child(G, <<level, 2 * i + 1>>))
               ELSE None
  <2>1. level + 1 \in Level /\ level + 1 # 0 /\ (level + 1) - 1 = level
    BY <1>5, LevelFacts
  <2>2. i \in Nat /\ i < Width(level + 1)
    BY <2>1, WidthFacts
  <2>3. <<level + 1, i>> \in Node /\ <<level, 2 * i>> \in Node /\ <<level, 2 * i + 1>> \in Node
    BY <1>5, <2>2, ChildFacts
  <2>4. /\ G[<<level + 1, i>>] = H[level + 1][i]
        /\ G[<<level, 2 * i>>] = H[level][2 * i]
        /\ G[<<level, 2 * i + 1>>] = H[level][2 * i + 1]
    BY <1>1, <2>3
  <2>5. H[level + 1] = NextLevel(H[level], level + 1, first, last)
    BY <1>3, <2>1
  <2> DEFINE child(j) == IF H[level][j] # None THEN H[level][j] ELSE NodeHash(<<level, j>>)
  <2>6. H[level + 1][i] = IF i \in Parents(level, first, last)
                          THEN HashLeftRight(child(2 * i), child(2 * i + 1)) ELSE None
    BY <2>1, <2>5 DEF NextLevel
  <2> QED
    BY <2>4, <2>6 DEF Child
<1>6. DOMAIN G = Node
  BY <1>1
<1> QED
  BY <1>4, <1>5, <1>6 DEF G

LEMMA NodeHashIs ==
  /\ \A n \in Node : NodeHash(n) = IF cachedNodeHashes[n] # None THEN cachedNodeHashes[n]
                                   ELSE IF storedNodes[n] # None THEN storedNodes[n]
                                   ELSE zeros[n[1]]
  /\ AreHashes(cachedNodeHashes) /\ AreHashes(storedNodes) =>
       \A n \in Node : NodeHash(n) \in Hash(n[1]) /\ NodeHash(n) # None
<1>1. ASSUME NEW n \in Node
      PROVE  NodeHash(n) = IF cachedNodeHashes[n] # None THEN cachedNodeHashes[n]
                           ELSE IF storedNodes[n] # None THEN storedNodes[n]
                           ELSE zeros[n[1]]
  BY DEF NodeHash, Overlay
<1>2. ASSUME AreHashes(cachedNodeHashes), AreHashes(storedNodes), NEW n \in Node
      PROVE  NodeHash(n) \in Hash(n[1]) /\ NodeHash(n) # None
  <2>1. n[1] \in Level
    BY NodeFacts
  <2>2. NodeHash(n) \in Hash(n[1])
    BY <1>1, <1>2, <2>1, ZerosFacts DEF AreHashes, Written
  <2> QED
    BY <2>1, <2>2, NoneIsNoHash
<1> QED
  BY <1>1, <1>2

LEMMA LeafHashType == \A i \in Position : LeafHash(i) \in Hash(0) /\ LeafHash(i) # None
<1> SUFFICES ASSUME NEW i \in Position PROVE LeafHash(i) \in Hash(0) /\ LeafHash(i) # None
  OBVIOUS
<1>1. Width(0) \in Nat /\ i + 1 \in 0..Width(0) /\ size[0] = 1
  BY WidthFacts, SizeFacts, LevelFacts DEF Position
<1>2. LeafHash(i) \in Hash(0)
  BY <1>1 DEF LeafHash, Hash
<1> QED
  BY <1>2, NoneIsNoHash, LevelFacts

LEMMA FillTypes ==
  ASSUME AreHashes(cachedNodeHashes), AreHashes(storedNodes), NEW first, NEW last
  PROVE  /\ AreHashes(FillHashWriteGroup(first, last))
         /\ \A level \in Level : level < Depth =>
              \A i \in Parents(level, first, last) :
                FillHashWriteGroup(first, last)[<<level + 1, i>>] # None
<1> DEFINE G == FillHashWriteGroup(first, last)
           X == {level \in Level : \A i \in 0..(Width(level) - 1) :
                   G[<<level, i>>] # None => G[<<level, i>>] \in Hash(level)}
<1>1. 0 \in X
  <2> SUFFICES ASSUME NEW i \in 0..(Width(0) - 1), G[<<0, i>>] # None
               PROVE  G[<<0, i>>] \in Hash(0)
    BY LevelFacts
  <2>1. i \in Position
    BY DEF Position
  <2>2. G[<<0, i>>] = LeafHash(i)
    BY <2>1, FillFacts
  <2> QED
    BY <2>1, <2>2, LeafHashType
<1>2. ASSUME NEW level \in Level, level < Depth, level \in X,
             NEW i \in 0..(Width(level + 1) - 1), i \in Parents(level, first, last)
      PROVE  G[<<level + 1, i>>] \in Hash(level + 1) /\ G[<<level + 1, i>>] # None
  <2> DEFINE left == <<level, 2 * i>>
             right == <<level, 2 * i + 1>>
  <2>1. level + 1 \in Level /\ i \in Nat /\ i < Width(level + 1)
    BY <1>2, LevelFacts, WidthFacts
  <2>2. /\ left \in Node /\ right \in Node
        /\ 2 * i \in 0..(Width(level) - 1) /\ 2 * i + 1 \in 0..(Width(level) - 1)
    BY <1>2, <2>1, ChildFacts
  <2>3. G[<<level + 1, i>>] = HashLeftRight(Child(G, left), Child(G, right))
    BY <1>2, FillFacts
  <2>4. G[left] # None => G[left] \in Hash(level)
    BY <1>2, <2>2
  <2>5. G[right] # None => G[right] \in Hash(level)
    BY <1>2, <2>2
  <2>6. NodeHash(left) \in Hash(level) /\ NodeHash(right) \in Hash(level)
    <3>1. left[1] = level /\ right[1] = level
      OBVIOUS
    <3> HIDE DEF left, right
    <3> QED
      BY <2>2, <3>1, NodeHashIs
  <2> HIDE DEF left, right, G
  <2>7. Child(G, left) \in Hash(level) /\ Child(G, right) \in Hash(level)
    BY <2>4, <2>5, <2>6 DEF Child
  <2>8. G[<<level + 1, i>>] \in Hash(level + 1)
    BY <1>2, <2>3, <2>7, HashesConcat
  <2> QED
    BY <2>1, <2>8, NoneIsNoHash
<1>3. ASSUME NEW level \in Level, level < Depth, level \in X PROVE level + 1 \in X
  <2> SUFFICES ASSUME NEW i \in 0..(Width(level + 1) - 1), G[<<level + 1, i>>] # None
               PROVE  G[<<level + 1, i>>] \in Hash(level + 1)
    BY <1>3, LevelFacts
  <2>1. i \in Parents(level, first, last)
    BY <1>3, FillFacts
  <2> QED
    BY <1>2, <1>3, <2>1
<1> HIDE DEF X
<1>4. \A level \in Level : level \in X
  BY <1>1, <1>3, AllLevels
<1>5. AreHashes(G)
  <2>1. ASSUME NEW n \in Node, G[n] # None PROVE G[n] \in Hash(n[1])
    <3>1. n = <<n[1], n[2]>> /\ n[1] \in Level /\ n[2] \in 0..(Width(n[1]) - 1)
      BY NodeFacts
    <3>2. n[1] \in X
      BY <1>4, <3>1
    <3> HIDE DEF G
    <3> QED
      BY <2>1, <3>1, <3>2 DEF X
  <2> QED
    BY <2>1, FillFacts DEF AreHashes, Written
<1>6. ASSUME NEW level \in Level, level < Depth, NEW i \in Parents(level, first, last)
      PROVE  G[<<level + 1, i>>] # None
  <2>1. i \in 0..(Width(level + 1) - 1)
    BY DEF Parents
  <2> QED
    BY <1>2, <1>4, <1>6, <2>1
<1> QED
  BY <1>5, <1>6 DEF G

\* A node that is not in the group has no leaf of the group below it
LEMMA FillShape ==
  ASSUME AreHashes(cachedNodeHashes), AreHashes(storedNodes),
         NEW first \in Nat, NEW last \in Nat, NEW n \in Node,
         FillHashWriteGroup(first, last)[n] = None
  PROVE  End(n) <= first \/ last <= First(n)
<1> DEFINE G == FillHashWriteGroup(first, last)
<1>1. n = <<n[1], n[2]>> /\ n[1] \in Level /\ n[2] \in Nat /\ n[2] \in 0..(Width(n[1]) - 1)
  BY NodeFacts
<1>2. First(n) \in Nat /\ End(n) = First(n) + size[n[1]] /\ size[n[1]] \in Nat
  BY SpanFacts
<1>3. CASE n[1] = 0
  <2>1. n[2] \in Position /\ n = <<0, n[2]>>
    BY <1>1, <1>3 DEF Position
  <2>2. G[n] = IF first <= n[2] /\ n[2] < last THEN LeafHash(n[2]) ELSE None
    BY <2>1, FillFacts
  <2>3. ~(first <= n[2] /\ n[2] < last)
    BY <2>1, <2>2, LeafHashType
  <2>4. First(n) = n[2] /\ End(n) = n[2] + 1
    BY <1>1, <1>2, <1>3, SizeFacts DEF First
  <2> QED
    BY <1>1, <2>3, <2>4
<1>4. CASE n[1] # 0
  <2> DEFINE level == n[1] - 1
             i == n[2]
  <2>1. level \in Level /\ level < Depth /\ level + 1 = n[1]
    BY <1>1, <1>4, LevelFacts
  <2>2. i \in 0..(Width(level + 1) - 1) /\ n = <<level + 1, i>>
    BY <1>1, <2>1
  <2>3. i \notin Parents(level, first, last)
    <3> HIDE DEF level, i
    <3>1. i \in Parents(level, first, last) => G[<<level + 1, i>>] # None
      BY <2>1, FillTypes
    <3> QED
      BY <2>2, <3>1
  <2>4. i < first \div size[n[1]] \/ i > last \div size[n[1]]
    <3>1. first \div size[n[1]] \in Nat /\ last \div size[n[1]] \in Nat
      BY Beside
    <3> HIDE DEF level
    <3>2. ~(first \div size[level + 1] <= i /\ i <= last \div size[level + 1])
      BY <2>1, <2>2, <2>3, ParentsFacts
    <3> QED
      BY <1>1, <2>1, <3>1, <3>2
  <2>5. End(n) <= first \/ last < First(n)
    BY <2>4, Beside
  <2> QED
    BY <1>2, <2>5
<1> QED
  BY <1>3, <1>4

Lookable(n) == n[2] % 2 = 1 \/ n = RootNode

\* Of the nodes that are looked up, the right ones come after the group
LEMMA LookedUpFacts ==
  ASSUME AreHashes(cachedNodeHashes), AreHashes(storedNodes),
         NEW first \in Nat, NEW last \in Nat, first < last,
         NEW level \in Level, level < Depth, NEW p \in Parents(level, first, last),
         NEW c \in {<<level, 2 * p>>, <<level, 2 * p + 1>>},
         FillHashWriteGroup(first, last)[c] = None
  PROVE  /\ c \in Node
         /\ End(c) <= first \/ last <= First(c)
         /\ Lookable(c) => last <= First(c)
<1>1. /\ p \in Nat /\ p < Width(level + 1) /\ first \div size[level + 1] <= p
  BY ParentsFacts
<1>2. c \in Node /\ c[1] = level /\ (c[2] = 2 * p \/ c = <<level, 2 * p + 1>>)
  <2>1. <<level, 2 * p>> \in Node /\ <<level, 2 * p + 1>> \in Node
    BY <1>1, ChildFacts
  <2> QED
    BY <2>1
<1>3. End(c) <= first \/ last <= First(c)
  BY <1>2, FillShape
<1>4. ASSUME c[2] = 2 * p PROVE ~Lookable(c)
  <2>1. c[2] % 2 = 0
    BY <1>1, <1>4, Doubled
  <2>2. c # RootNode
    BY <1>2, NodeFacts, LevelFacts
  <2> QED
    BY <2>1, <2>2 DEF Lookable
<1>5. ASSUME c = <<level, 2 * p + 1>> PROVE last <= First(c)
  <2>1. size[level] \in Nat /\ size[level] > 0 /\ size[level + 1] = 2 * size[level]
    BY SizeFacts
  <2> DEFINE q == first \div size[level]
  <2>2. q \in Nat /\ first \div size[level + 1] = q \div 2
    BY <2>1, Halved, DivFacts
  <2> HIDE DEF q
  <2>3. q \div 2 \in Nat /\ (q = 2 * (q \div 2) \/ q = 2 * (q \div 2) + 1)
    BY <2>2, Parity
  <2>4. q <= 2 * p + 1
    BY <1>1, <2>2, <2>3
  <2>5. c[2] = 2 * p + 1 /\ c[2] >= q
    BY <1>1, <1>5, <2>2, <2>4
  <2>6. q = first \div size[c[1]]
    BY <1>2 DEF q
  <2>7. first < End(c)
    <3>1. c[2] > q \/ c[2] = q
      BY <1>1, <2>2, <2>5
    <3>2. c[2] > q => first < First(c)
      BY <1>2, <2>6, Beside
    <3>3. c[2] = q => first < End(c)
      BY <1>2, <2>6, Beside
    <3>4. First(c) \in Nat /\ End(c) = First(c) + size[c[1]] /\ size[c[1]] \in Nat
      BY <1>2, SpanFacts
    <3> QED
      BY <3>1, <3>2, <3>3, <3>4
  <2>8. End(c) \in Nat
    BY <1>2, SpanFacts
  <2> QED
    BY <1>3, <2>7, <2>8
<1> QED
  BY <1>2, <1>3, <1>4, <1>5

Later(k, l) == IF k < l THEN l ELSE k

(* If the nodes that are looked up are those of a tree with K leaves, the group
   is part of the tree with K leaves and its own: whatever stale hashes are
   cached for right nodes that begin before the group.                       *)
LEMMA FillIsReference ==
  ASSUME AreHashes(cachedNodeHashes), AreHashes(storedNodes),
         NEW first \in Nat, NEW last \in Nat, first < last, NEW K \in Nat, first <= K,
         \A n \in Node : NodeHash(n) = Reference(K)[n] \/ (Lookable(n) /\ First(n) < first)
  PROVE  \A n \in Node : FillHashWriteGroup(first, last)[n] # None =>
           FillHashWriteGroup(first, last)[n] = Reference(Later(K, last))[n]
<1> DEFINE G == FillHashWriteGroup(first, last)
           T == Later(K, last)
           X == {level \in Level : \A i \in 0..(Width(level) - 1) :
                   G[<<level, i>>] # None => G[<<level, i>>] = Reference(T)[<<level, i>>]}
<1>0. T \in Nat /\ K <= T /\ last <= T /\ (T = K \/ T = last)
  BY DEF Later
<1>1. 0 \in X
  <2> SUFFICES ASSUME NEW i \in 0..(Width(0) - 1), G[<<0, i>>] # None
               PROVE  G[<<0, i>>] = Reference(T)[<<0, i>>]
    BY LevelFacts
  <2>1. i \in Position /\ <<0, i>> \in Node /\ i \in Nat
    BY NodeFacts, LevelFacts, WidthFacts DEF Position
  <2>2. G[<<0, i>>] = LeafHash(i) /\ i < last
    BY <2>1, FillFacts
  <2>3. First(<<0, i>>) = i /\ size[0] = 1
    BY <2>1, SizeFacts DEF First
  <2>4. /\ Reference(T)[<<0, i>>] \in [1..1 -> Nat]
        /\ \A j \in 1..1 : Reference(T)[<<0, i>>][j] = IF i + j - 1 < T THEN i + j ELSE 0
    <3> DEFINE n == <<0, i>>
    <3>1. n \in Node /\ First(n) = i /\ size[n[1]] = 1
      BY <2>1, <2>3
    <3> HIDE DEF n, T
    <3>2. /\ Reference(T)[n] \in [1..1 -> Nat]
          /\ \A j \in 1..1 : Reference(T)[n][j] = IF i + j - 1 < T THEN i + j ELSE 0
      BY <1>0, <3>1, ReferenceAt
    <3> QED
      BY <3>2 DEF n
  <2>5. Reference(T)[<<0, i>>] = [j \in 1..1 |-> i + 1]
    <3> HIDE DEF T
    <3>1. \A j \in 1..1 : Reference(T)[<<0, i>>][j] = i + 1
      BY <1>0, <2>1, <2>2, <2>4
    <3> QED
      BY <2>4, <3>1
  <2> QED
    BY <2>2, <2>5 DEF LeafHash
<1> HIDE DEF T
<1>2. ASSUME NEW level \in Level, level < Depth, level \in X PROVE level + 1 \in X
  <2> SUFFICES ASSUME NEW i \in 0..(Width(level + 1) - 1), G[<<level + 1, i>>] # None
               PROVE  G[<<level + 1, i>>] = Reference(T)[<<level + 1, i>>]
    BY <1>2, LevelFacts
  <2>0. level < Depth /\ level + 1 \in Level
    BY <1>2, LevelFacts
  <2>1. i \in Parents(level, first, last)
    BY <2>0, FillFacts
  <2>2. i \in Nat /\ i < Width(level + 1)
    BY <2>0, WidthFacts
  <2> DEFINE left == <<level, 2 * i>>
             right == <<level, 2 * i + 1>>
  <2>3. /\ left \in Node /\ right \in Node
        /\ 2 * i \in 0..(Width(level) - 1) /\ 2 * i + 1 \in 0..(Width(level) - 1)
    BY <1>2, <2>2, ChildFacts
  <2>4. G[<<level + 1, i>>] = HashLeftRight(Child(G, left), Child(G, right))
    BY <1>2, <2>1, FillFacts
  <2>5. ASSUME NEW c \in {left, right}, G[c] = None PROVE NodeHash(c) = Reference(T)[c]
    <3>1. /\ c \in Node
          /\ End(c) <= first \/ last <= First(c)
          /\ Lookable(c) => last <= First(c)
      BY <1>2, <2>1, <2>5, LookedUpFacts
    <3>2. First(c) \in Nat /\ End(c) \in Nat
      BY <3>1, SpanFacts
    <3>3. NodeHash(c) = Reference(K)[c]
      BY <3>1, <3>2
    <3>4. Reference(K)[c] = Reference(T)[c]
      <4>1. CASE T = K
        BY <4>1
      <4>2. CASE T = last
        <5>1. \/ End(c) <= K /\ End(c) <= T
              \/ K <= First(c) /\ T <= First(c)
          BY <1>0, <3>1, <3>2, <4>2
        <5> QED
          BY <1>0, <3>1, <5>1, SameInBoth
      <4> QED
        BY <1>0, <4>1, <4>2
    <3> QED
      BY <3>3, <3>4
  <2>6. /\ G[left] # None => G[left] = Reference(T)[left]
        /\ G[right] # None => G[right] = Reference(T)[right]
    BY <1>2, <2>3
  <2>7. Child(G, left) = Reference(T)[left] /\ Child(G, right) = Reference(T)[right]
    <3>1. G[left] = None => NodeHash(left) = Reference(T)[left]
      BY <2>5
    <3>2. G[right] = None => NodeHash(right) = Reference(T)[right]
      BY <2>5
    <3> HIDE DEF left, right, G
    <3> QED
      BY <2>6, <3>1, <3>2 DEF Child
  <2>8. Reference(T)[<<level + 1, i>>] = HashLeftRight(Reference(T)[left], Reference(T)[right])
    BY <1>0, <1>2, <2>2, ReferenceSplits
  <2> QED
    BY <2>4, <2>7, <2>8
<1> HIDE DEF X
<1>3. \A level \in Level : level \in X
  BY <1>1, <1>2, AllLevels
<1>4. ASSUME NEW n \in Node, G[n] # None PROVE G[n] = Reference(T)[n]
  <2>1. n = <<n[1], n[2]>> /\ n[1] \in Level /\ n[2] \in 0..(Width(n[1]) - 1)
    BY NodeFacts
  <2>2. n[1] \in X
    BY <1>3, <2>1
  <2> HIDE DEF G
  <2> QED
    BY <1>4, <2>1, <2>2 DEF X
<1> QED
  BY <1>4 DEF G, T
-----------------------------------------------------------------------------
(* What verifyMerkleProof computes *)

LEMMA AncestorFacts ==
  ASSUME NEW i \in Position
  PROVE  \A level \in Level : /\ i \div size[level] \in Nat
                              /\ i \div size[level] < Width(level)
                              /\ <<level, i \div size[level]>> \in Node
                              /\ level < Depth =>
                                   i \div size[level + 1] = (i \div size[level]) \div 2
<1>1. i \in Nat /\ i < Width(0)
  BY WidthFacts, LevelFacts DEF Position
<1>2. ASSUME NEW level \in Level PROVE i \div size[level] \in Nat
  BY <1>1, SizeFacts, DivFacts
<1>3. ASSUME NEW level \in Level, level < Depth
      PROVE  i \div size[level + 1] = (i \div size[level]) \div 2
  <2>1. size[level + 1] = 2 * size[level] /\ size[level] \in Nat /\ size[level] > 0
    BY <1>3, SizeFacts
  <2> QED
    BY <1>1, <2>1, Halved
<1> DEFINE X == {level \in Level : i \div size[level] < Width(level)}
<1>4. 0 \in X
  <2>1. i \div 1 = i
    BY <1>1
  <2> QED
    BY <1>1, <2>1, SizeFacts, LevelFacts
<1>5. ASSUME NEW level \in Level, level < Depth, level \in X PROVE level + 1 \in X
  <2> DEFINE q == i \div size[level]
  <2>1. level + 1 \in Level /\ Width(level) = 2 * Width(level + 1) /\ Width(level + 1) \in Nat
    BY <1>5, LevelFacts, WidthFacts
  <2>2. q \in Nat /\ q < Width(level) /\ i \div size[level + 1] = q \div 2
    BY <1>2, <1>3, <1>5
  <2> HIDE DEF q
  <2>3. q \div 2 < Width(level + 1)
    BY <2>1, <2>2
  <2> QED
    BY <2>1, <2>2, <2>3
<1> HIDE DEF X
<1>6. \A level \in Level : level \in X
  BY <1>4, <1>5, AllLevels
<1>7. ASSUME NEW level \in Level
      PROVE  i \div size[level] < Width(level) /\ <<level, i \div size[level]>> \in Node
  <2>1. i \div size[level] < Width(level)
    BY <1>6 DEF X
  <2> QED
    BY <1>2, <2>1, NodeFacts
<1> QED
  BY <1>2, <1>3, <1>7

LEMMA SiblingFacts ==
  ASSUME NEW i \in Nat, NEW level \in Level, level < Depth, i < Width(level)
  PROVE  /\ Sibling(i) \in Nat /\ <<level, Sibling(i)>> \in Node
         /\ \/ i = 2 * (i \div 2) /\ i % 2 = 0 /\ Sibling(i) = 2 * (i \div 2) + 1
            \/ i = 2 * (i \div 2) + 1 /\ i % 2 = 1 /\ Sibling(i) = 2 * (i \div 2)
         /\ i \div 2 \in Nat /\ i \div 2 < Width(level + 1)
<1> DEFINE p == i \div 2
<1>1. p \in Nat /\ (i = 2 * p \/ i = 2 * p + 1)
  BY Parity
<1> HIDE DEF p
<1>2. level + 1 \in Level /\ Width(level) = 2 * Width(level + 1) /\ Width(level + 1) \in Nat
  BY LevelFacts, WidthFacts
<1>3. p < Width(level + 1)
  BY <1>1, <1>2
<1>4. <<level, 2 * p>> \in Node /\ <<level, 2 * p + 1>> \in Node
  BY <1>1, <1>3, ChildFacts
<1>5. CASE i = 2 * p
  <2>1. i % 2 = 0
    BY <1>1, <1>5, Doubled
  <2>2. Sibling(i) = 2 * p + 1
    BY <1>5, <2>1 DEF Sibling
  <2> QED
    BY <1>1, <1>3, <1>4, <1>5, <2>1, <2>2 DEF p
<1>6. CASE i = 2 * p + 1
  <2>1. i % 2 = 1
    BY <1>1, <1>6, Doubled
  <2>2. Sibling(i) = 2 * p
    BY <1>1, <1>6, <2>1 DEF Sibling
  <2> QED
    BY <1>1, <1>3, <1>4, <1>6, <2>1, <2>2 DEF p
<1> QED
  BY <1>1, <1>5, <1>6

\* one step of the fold over the elements
Up(h, level) ==
  LET i == leaf \div size[level - 1]
      element == answers[<<level - 1, Sibling(i)>>]
  IN IF i % 2 = 0 THEN HashLeftRight(h, element) ELSE HashLeftRight(element, h)

IsFolded(H, top) ==
  H = [level \in 0..top |-> IF level = 0 THEN answers[<<0, leaf>>] ELSE Up(H[level - 1], level)]

LEMMA FoldedExists == \E H : IsFolded(H, Depth)
<1> DEFINE X == {n \in Level : \E H : IsFolded(H, n)}
<1>1. 0 \in X
  <2> DEFINE H == [level \in 0..0 |-> answers[<<0, leaf>>]]
  <2>1. IsFolded(H, 0)
    BY DEF IsFolded
  <2> HIDE DEF H
  <2> QED
    BY <2>1, LevelFacts
<1>2. ASSUME NEW n \in Level, n < Depth, n \in X PROVE n + 1 \in X
  <2>1. PICK H : IsFolded(H, n)
    BY <1>2
  <2> DEFINE G == [level \in 0..(n + 1) |-> IF level <= n THEN H[level] ELSE Up(H[n], level)]
  <2>2. n \in Nat /\ n + 1 \in Level
    BY <1>2, LevelFacts
  <2>3. ASSUME NEW level \in 0..(n + 1)
        PROVE  G[level] = IF level = 0 THEN answers[<<0, leaf>>] ELSE Up(G[level - 1], level)
    <3>1. CASE level <= n
      <4>1. level \in 0..n /\ G[level] = H[level]
        BY <2>2, <3>1
      <4>2. H[level] = IF level = 0 THEN answers[<<0, leaf>>] ELSE Up(H[level - 1], level)
        BY <2>1, <4>1 DEF IsFolded
      <4>3. level # 0 => G[level - 1] = H[level - 1]
        BY <2>2, <4>1
      <4> QED
        BY <4>1, <4>2, <4>3
    <3>2. CASE ~(level <= n)
      <4>1. level = n + 1 /\ level # 0 /\ level - 1 = n
        BY <2>2, <3>2
      <4>2. G[n] = H[n]
        BY <2>2
      <4>3. G[level] = Up(H[n], level)
        BY <3>2
      <4> QED
        BY <4>1, <4>2, <4>3
    <3> QED
      BY <3>1, <3>2
  <2>4. G = [level \in 0..(n + 1) |-> G[level]]
    OBVIOUS
  <2> HIDE DEF G
  <2>5. IsFolded(G, n + 1)
    BY <2>3, <2>4 DEF IsFolded
  <2> QED
    BY <2>2, <2>5
<1> HIDE DEF X
<1>3. Depth \in X
  BY <1>1, <1>2, AllLevels, LevelFacts
<1> QED
  BY <1>3 DEF X

\* A proof made of nodes of one tree verifies
LEMMA OneTreeVerifies ==
  ASSUME leaf \in Position, NEW K \in Nat,
         \A n \in {<<0, leaf>>, RootNode} \union Elements(leaf) : answers[n] = Reference(K)[n]
  PROVE  Verifies
<1> DEFINE H == CHOOSE h : IsFolded(h, Depth)
           A(level) == leaf \div size[level]
           X == {level \in Level : H[level] = Reference(K)[<<level, A(level)>>]}
<1>1. Verifies <=> H[Depth] = answers[RootNode]
  BY DEF Verifies, IsFolded, Up, Level
<1>2. IsFolded(H, Depth)
  BY FoldedExists
<1> HIDE DEF H
<1>3. \A level \in Level : H[level] = IF level = 0 THEN answers[<<0, leaf>>] ELSE Up(H[level - 1], level)
  BY <1>2 DEF IsFolded, Level
<1>4. 0 \in X
  <2>1. leaf \in Nat /\ leaf \div 1 = leaf
    BY WidthFacts, LevelFacts DEF Position
  <2> QED
    BY <1>3, <2>1, SizeFacts, LevelFacts
<1>5. ASSUME NEW level \in Level, level < Depth, level \in X PROVE level + 1 \in X
  <2> DEFINE i == A(level)
             s == Sibling(i)
             p == i \div 2
  <2>1. level + 1 \in Level /\ level + 1 # 0 /\ (level + 1) - 1 = level /\ level \in 0..(Depth - 1)
    BY <1>5, LevelFacts
  <2>2. i \in Nat /\ i < Width(level) /\ A(level + 1) = p
    BY <1>5, AncestorFacts
  <2>3. /\ \/ i = 2 * p /\ i % 2 = 0 /\ s = 2 * p + 1
           \/ i = 2 * p + 1 /\ i % 2 = 1 /\ s = 2 * p
        /\ p \in Nat /\ p < Width(level + 1)
    <3> HIDE DEF A
    <3> QED
      BY <1>5, <2>2, SiblingFacts
  <2>4. <<level, s>> \in Elements(leaf)
    BY <2>1 DEF Elements
  <2>5. answers[<<level, s>>] = Reference(K)[<<level, s>>]
    BY <2>4
  <2>6. H[level] = Reference(K)[<<level, i>>]
    BY <1>5
  <2>7. Reference(K)[<<level + 1, p>>] =
          HashLeftRight(Reference(K)[<<level, 2 * p>>], Reference(K)[<<level, 2 * p + 1>>])
    BY <1>5, <2>3, ReferenceSplits
  <2>8. H[level + 1] = IF i % 2 = 0 THEN HashLeftRight(H[level], answers[<<level, s>>])
                                    ELSE HashLeftRight(answers[<<level, s>>], H[level])
    <3>1. H[level + 1] = Up(H[level], level + 1)
      BY <1>3, <2>1
    <3> QED
      BY <2>1, <3>1 DEF Up
  <2>9. H[level + 1] = Reference(K)[<<level + 1, p>>]
    <3> HIDE DEF i, s, p
    <3> QED
      BY <2>3, <2>5, <2>6, <2>7, <2>8
  <2> QED
    BY <2>1, <2>2, <2>9
<1> HIDE DEF X
<1>6. Depth \in X
  BY <1>4, <1>5, AllLevels, LevelFacts
<1>7. H[Depth] = Reference(K)[<<Depth, A(Depth)>>]
  BY <1>6 DEF X
<1>8. A(Depth) = 0
  <2>1. A(Depth) \in Nat /\ A(Depth) < 1
    BY AncestorFacts, LevelFacts, WidthFacts
  <2> QED
    BY <2>1
<1>9. H[Depth] = Reference(K)[RootNode]
  BY <1>7, <1>8 DEF RootNode
<1> QED
  BY <1>1, <1>9
-----------------------------------------------------------------------------
(* Types *)

LEMMA OverlayFacts ==
  ASSUME NEW f, NEW g, AreHashes(f), AreHashes(g)
  PROVE  /\ AreHashes(Overlay(f, g))
         /\ \A n \in Node : Overlay(f, g)[n] = IF f[n] # None THEN f[n] ELSE g[n]
BY DEF Overlay, AreHashes, Written

LEMMA NoNodesFacts ==
  AreHashes(NoNodes) /\ Written(NoNodes) = {} /\ \A n \in Node : NoNodes[n] = None
BY DEF NoNodes, AreHashes, Written

LEMMA SetFacts ==
  ASSUME NEW f, AreHashes(f), NEW n \in Node, NEW h \in Hash(n[1])
  PROVE  /\ AreHashes([f EXCEPT ![n] = h])
         /\ Written([f EXCEPT ![n] = h]) = Written(f) \union {n}
         /\ \A m \in Node : [f EXCEPT ![n] = h][m] = IF m = n THEN h ELSE f[m]
<1>1. h # None
  BY NoneIsNoHash, NodeFacts
<1> QED
  BY <1>1 DEF AreHashes, Written

\* What has been asked for the proof
Asked == (IF reader = "idle" THEN {} ELSE {<<0, leaf>>})
           \union (IF reader \in {"elements", "root"} THEN Elements(leaf) ELSE {})
           \union (IF reader = "root" THEN {RootNode} ELSE {})

Reading == /\ waiting \union Written(answers) = Asked
           /\ reader # "idle" => leaf < treeLength
           /\ reader # "idle" /\ writer = "batch" => ~undisturbed

LEMMA ElementsFacts ==
  ASSUME NEW i \in Position
  PROVE  /\ Elements(i) \subseteq Node
         /\ <<0, i>> \in Node /\ <<0, i>> \notin Elements(i)
         /\ RootNode \in Node /\ RootNode # <<0, i>> /\ RootNode \notin Elements(i)
<1>1. i \in Nat /\ <<0, i>> \in Node /\ i \div 1 = i
  BY WidthFacts, NodeFacts, LevelFacts DEF Position
<1>2. ASSUME NEW level \in 0..(Depth - 1)
      PROVE  /\ <<level, Sibling(i \div size[level])>> \in Node
             /\ <<level, Sibling(i \div size[level])>> # <<0, i>>
             /\ <<level, Sibling(i \div size[level])>> # RootNode
  <2> DEFINE a == i \div size[level]
             s == Sibling(a)
  <2>1. level \in Level /\ level < Depth
    BY LevelFacts DEF Level
  <2>2. a \in Nat /\ a < Width(level)
    BY <2>1, AncestorFacts
  <2>3. level = 0 => a = i
    BY <1>1, SizeFacts
  <2> HIDE DEF a
  <2>4. /\ s \in Nat /\ <<level, s>> \in Node
        /\ \/ a = 2 * (a \div 2) /\ s = 2 * (a \div 2) + 1
           \/ a = 2 * (a \div 2) + 1 /\ s = 2 * (a \div 2)
        /\ a \div 2 \in Nat
    BY <2>1, <2>2, SiblingFacts
  <2>5. s # a
    BY <2>4
  <2> HIDE DEF s
  <2>6. <<level, s>> # <<0, i>> /\ <<level, s>> # RootNode
    BY <2>1, <2>3, <2>5 DEF RootNode
  <2> QED
    BY <2>4, <2>6 DEF s, a
<1>3. RootNode # <<0, i>>
  BY LevelFacts DEF RootNode
<1> QED
  BY <1>1, <1>2, <1>3, NodeFacts DEF Elements

LEMMA AskFacts ==
  ASSUME TypeOK, Answered, NEW nodes \in SUBSET Node, Ask(nodes)
  PROVE  /\ AreHashes(answers') /\ waiting' \subseteq nodes
         /\ waiting' \union Written(answers') = Written(answers) \union nodes
         /\ nodes \intersect Written(answers) = {} => waiting' \intersect Written(answers') = {}
         /\ waiting' \intersect Written(cachedNodeHashes) = {}
         /\ arriving' = {} /\ cachedNodeHashes' = cachedNodeHashes
         /\ \A n \in Node : answers'[n] = IF n \in nodes /\ cachedNodeHashes[n] # None
                                          THEN cachedNodeHashes[n] ELSE answers[n]
<1>1. AreHashes(cachedNodeHashes) /\ AreHashes(answers)
  BY DEF TypeOK
<1>2. \A n \in Node : answers'[n] = IF n \in nodes /\ cachedNodeHashes[n] # None
                                    THEN cachedNodeHashes[n] ELSE answers[n]
  BY DEF Ask, Written
<1>3. DOMAIN answers' = Node
  BY DEF Ask
<1>4. AreHashes(answers')
  BY <1>1, <1>2, <1>3 DEF AreHashes, Written
<1>5. Written(answers') = Written(answers) \union (nodes \intersect Written(cachedNodeHashes))
  BY <1>2 DEF Written
<1>6. waiting' = nodes \ Written(cachedNodeHashes) /\ arriving' = arriving
      /\ cachedNodeHashes' = cachedNodeHashes
  BY DEF Ask
<1> QED
  BY <1>2, <1>4, <1>5, <1>6 DEF Answered

LEMMA InitTypes == Init => TypeOK /\ Reading
<1> SUFFICES ASSUME Init PROVE TypeOK /\ Reading
  OBVIOUS
<1>1. 0 \in Position /\ 0 \in 0..Width(0)
  BY WidthFacts, LevelFacts DEF Position
<1>2. spent \in [error : 0..MaxErrors, restart : 0..MaxRestarts]
  BY BoundsAreNumbers DEF Init
<1>3. TypeOK
  BY <1>1, <1>2, NoNodesFacts DEF Init, TypeOK
<1>4. Reading
  BY NoNodesFacts DEF Init, Reading, Asked
<1> QED
  BY <1>3, <1>4

\* What the reader does next has not been asked
LEMMA FreshFacts ==
  ASSUME TypeOK, Reading, Answered
  PROVE  /\ reader = "idle" => Written(answers) = {}
         /\ reader = "leaf" => Written(answers) = {<<0, leaf>>}
         /\ reader = "elements" => Written(answers) = {<<0, leaf>>} \union Elements(leaf)
         /\ reader = "root" => Written(answers) = {<<0, leaf>>, RootNode} \union Elements(leaf)
BY DEF Reading, Asked, Answered

LEMMA TypesNext ==
  ASSUME TypeOK, Reading, Next
  PROVE  TypeOK' /\ (waiting \union Written(answers) = Asked)'
<1> DEFINE AskedIsAsked == waiting \union Written(answers) = Asked
<1>0. AskedIsAsked
  BY DEF Reading
<1>1. ASSUME UNCHANGED reading PROVE AskedIsAsked'
  BY <1>0, <1>1 DEF reading, Asked, Written
<1>2. CASE Insert
  <2>1. PICK last \in (treeLength + 1)..Width(0) :
          LET nodes == FillHashWriteGroup(treeLength, last)
          IN /\ group' = nodes /\ end' = last
             /\ cachedNodeHashes' = [n \in Node |->
                  IF n \in LookedUp(nodes) /\ cachedNodeHashes[n] = None
                  THEN storedNodes[n] ELSE cachedNodeHashes[n]]
    BY <1>2 DEF Insert
  <2>2. treeLength \in 0..Width(0) /\ Width(0) \in Nat
    BY WidthFacts, LevelFacts DEF TypeOK
  <2>3. end' \in 0..Width(0)
    BY <2>1, <2>2
  <2>4. AreHashes(cachedNodeHashes) /\ AreHashes(storedNodes)
    BY DEF TypeOK
  <2>5. AreHashes(group')
    BY <2>1, <2>4, FillTypes
  <2>6. AreHashes(cachedNodeHashes')
    BY <2>1, <2>4 DEF AreHashes, Written
  <2>7. TypeOK'
    BY <1>2, <2>3, <2>5, <2>6 DEF Insert, TypeOK, AreHashes, Written, reading
  <2> QED
    BY <1>1, <1>2, <2>7 DEF Insert
<1>3. ASSUME EndWrite PROVE AreHashes(group') /\ end' \in 0..Width(0) /\ writer' = "idle"
  <2>1. 0 \in 0..Width(0)
    BY WidthFacts, LevelFacts
  <2> QED
    BY <1>3, <2>1, NoNodesFacts DEF EndWrite
<1>4. CASE Reject
  <2>1. TypeOK'
    BY <1>3, <1>4 DEF Reject, TypeOK, AreHashes, Written, reading
  <2> QED
    BY <1>1, <1>4, <2>1 DEF Reject
<1>5. CASE CacheNodes
  <2>1. AreHashes(cachedNodeHashes')
    BY <1>5, OverlayFacts DEF CacheNodes, TypeOK
  <2>2. TypeOK'
    BY <1>5, <2>1 DEF CacheNodes, TypeOK, AreHashes, Written
  <2>3. AskedIsAsked'
    BY <1>0, <1>5 DEF CacheNodes, Asked, Written
  <2> QED
    BY <2>2, <2>3
<1>6. CASE WriteNodes
  <2>1. AreHashes(storedNodes')
    BY <1>6, OverlayFacts DEF WriteNodes, TypeOK
  <2>2. TypeOK'
    BY <1>6, <2>1 DEF WriteNodes, TypeOK, AreHashes, Written, reading
  <2> QED
    BY <1>1, <1>6, <2>2 DEF WriteNodes
<1>7. CASE SetLength
  <2>1. TypeOK'
    BY <1>3, <1>7 DEF SetLength, TypeOK, AreHashes, Written, reading
  <2> QED
    BY <1>1, <1>7, <2>1 DEF SetLength
<1>8. CASE WriteFails
  <2>1. spent' \in [error : 0..MaxErrors, restart : 0..MaxRestarts]
    BY <1>8, BoundsAreNumbers DEF WriteFails, TypeOK
  <2>2. TypeOK'
    BY <1>3, <1>8, <2>1 DEF WriteFails, TypeOK, AreHashes, Written, reading
  <2> QED
    BY <1>1, <1>8, <2>2 DEF WriteFails
<1>9. CASE GetMerkleProof
  <2>1. PICK i \in Position : i < treeLength /\ leaf' = i /\ Ask({<<0, i>>})
    BY <1>9 DEF GetMerkleProof
  <2>2. Answered /\ Written(answers) = {}
    <3>1. waiting \union Written(answers) = {} /\ arriving \subseteq Written(answers)
      BY <1>9 DEF Reading, Asked, GetMerkleProof, TypeOK
    <3> QED
      BY <3>1 DEF Answered
  <2>3. {<<0, i>>} \in SUBSET Node
    BY ElementsFacts
  <2>4. /\ AreHashes(answers') /\ waiting' \subseteq {<<0, i>>}
        /\ waiting' \union Written(answers') = Written(answers) \union {<<0, i>>}
        /\ waiting' \intersect Written(answers') = {}
        /\ arriving' = {} /\ cachedNodeHashes' = cachedNodeHashes
    BY <2>1, <2>2, <2>3, AskFacts
  <2>5. misread' \subseteq Written(answers')
    BY <2>1, <2>2 DEF Ask, TypeOK
  <2>6. TypeOK'
    BY <1>9, <2>1, <2>3, <2>4, <2>5 DEF GetMerkleProof, TypeOK, AreHashes, Written, writing
  <2>7. AskedIsAsked'
    BY <1>9, <2>1, <2>2, <2>4 DEF GetMerkleProof, Asked, Written
  <2> QED
    BY <2>6, <2>7
<1>10. CASE GetElements
  <2>1. leaf \in Position /\ Answered /\ Written(answers) = {<<0, leaf>>}
    BY <1>10, FreshFacts DEF GetElements, TypeOK
  <2>2. Elements(leaf) \in SUBSET Node /\ Elements(leaf) \intersect Written(answers) = {}
    BY <2>1, ElementsFacts
  <2>3. /\ AreHashes(answers') /\ waiting' \subseteq Elements(leaf)
        /\ waiting' \union Written(answers') = Written(answers) \union Elements(leaf)
        /\ waiting' \intersect Written(answers') = {}
        /\ arriving' = {} /\ cachedNodeHashes' = cachedNodeHashes
    BY <1>10, <2>1, <2>2, AskFacts DEF GetElements
  <2>4. misread' \subseteq Written(answers')
    BY <1>10, <2>1, <2>2, <2>3 DEF GetElements, Ask, TypeOK
  <2>5. TypeOK'
    BY <1>10, <2>2, <2>3, <2>4 DEF GetElements, TypeOK, AreHashes, Written, writing
  <2>6. AskedIsAsked'
    BY <1>10, <2>1, <2>3 DEF GetElements, Asked, Written
  <2> QED
    BY <2>5, <2>6
<1>11. CASE GetRoot
  <2>1. leaf \in Position /\ Answered /\ Written(answers) = {<<0, leaf>>} \union Elements(leaf)
    BY <1>11, FreshFacts DEF GetRoot, TypeOK
  <2>2. {RootNode} \in SUBSET Node /\ {RootNode} \intersect Written(answers) = {}
    BY <2>1, ElementsFacts
  <2>3. /\ AreHashes(answers') /\ waiting' \subseteq {RootNode}
        /\ waiting' \union Written(answers') = Written(answers) \union {RootNode}
        /\ waiting' \intersect Written(answers') = {}
        /\ arriving' = {} /\ cachedNodeHashes' = cachedNodeHashes
    BY <1>11, <2>1, <2>2, AskFacts DEF GetRoot
  <2>4. misread' \subseteq Written(answers')
    BY <1>11, <2>1, <2>2, <2>3 DEF GetRoot, Ask, TypeOK
  <2>5. TypeOK'
    BY <1>11, <2>2, <2>3, <2>4 DEF GetRoot, TypeOK, AreHashes, Written, writing
  <2>6. AskedIsAsked'
    BY <1>11, <2>1, <2>3 DEF GetRoot, Asked, Written
  <2> QED
    BY <2>5, <2>6
<1>12. ASSUME NoReader
       PROVE  /\ AreHashes(answers') /\ Written(answers') = {} /\ waiting' = {} /\ arriving' = {}
              /\ misread' = {} /\ reader' = "idle" /\ leaf' \in Position /\ AskedIsAsked'
  <2>1. 0 \in Position
    BY WidthFacts, LevelFacts DEF Position
  <2>2. AreHashes(answers') /\ Written(answers') = {}
    BY <1>12, NoNodesFacts DEF NoReader
  <2> QED
    BY <1>12, <2>1, <2>2 DEF NoReader, Asked, Written
<1>13. CASE Return
  <2>1. TypeOK'
    BY <1>12, <1>13 DEF Return, TypeOK, AreHashes, Written, writing
  <2> QED
    BY <1>12, <1>13, <2>1 DEF Return
<1>14. CASE Restart
  <2>1. spent' \in [error : 0..MaxErrors, restart : 0..MaxRestarts]
    BY <1>14, BoundsAreNumbers DEF Restart, TypeOK
  <2>2. AreHashes(cachedNodeHashes')
    BY <1>14, NoNodesFacts DEF Restart
  <2>3. TypeOK'
    BY <1>3, <1>12, <1>14, <2>1, <2>2 DEF Restart, TypeOK, AreHashes, Written
  <2> QED
    BY <1>12, <1>14, <2>3 DEF Restart
<1>15. ASSUME NEW n \in Node, DbGet(n) PROVE TypeOK' /\ AskedIsAsked'
  <2>0. storedNodes[n] # None => storedNodes[n] \in Hash(n[1])
    BY DEF TypeOK, AreHashes, Written
  <2>1. zeros[n[1]] \in Hash(n[1])
    BY NodeFacts, ZerosFacts
  <2>2. PICK h \in Hash(n[1]) :
          /\ answers' = [answers EXCEPT ![n] = h] /\ arriving' \subseteq arriving \union {n}
          /\ misread' \subseteq misread \union {n}
    <3>1. CASE answers' = [answers EXCEPT ![n] = zeros[n[1]]]
      BY <1>15, <2>1, <3>1 DEF DbGet
    <3>2. CASE answers' = [answers EXCEPT ![n] = storedNodes[n]] /\ storedNodes[n] # None
      BY <1>15, <2>0, <3>2 DEF DbGet
    <3> QED
      BY <1>15, <3>1, <3>2 DEF DbGet
  <2>3. AreHashes(answers)
    BY DEF TypeOK
  <2>4. AreHashes(answers') /\ Written(answers') = Written(answers) \union {n}
    BY <2>2, <2>3, SetFacts
  <2>5. TypeOK'
    BY <1>15, <2>2, <2>4 DEF DbGet, TypeOK, AreHashes, Written, writing
  <2>6. AskedIsAsked'
    <3>1. Asked' = Asked /\ waiting' = waiting \ {n} /\ n \in waiting
      BY <1>15 DEF DbGet, Asked
    <3> QED
      BY <1>0, <2>4, <3>1 DEF Written
  <2> QED
    BY <2>5, <2>6
<1>16. ASSUME NEW n \in Node, CacheNodeHash(n) PROVE TypeOK' /\ AskedIsAsked'
  <2>1. AreHashes(cachedNodeHashes')
    <3>1. AreHashes(cachedNodeHashes) /\ answers[n] \in Hash(n[1])
      BY <1>16 DEF CacheNodeHash, TypeOK, AreHashes
    <3> QED
      BY <1>16, <3>1, SetFacts DEF CacheNodeHash
  <2>2. TypeOK'
    BY <1>16, <2>1 DEF CacheNodeHash, TypeOK, AreHashes, Written, writing
  <2>3. AskedIsAsked'
    BY <1>0, <1>16 DEF CacheNodeHash, Asked, Written
  <2> QED
    BY <2>2, <2>3
<1> QED
  BY <1>2, <1>4, <1>5, <1>6, <1>7, <1>8, <1>9, <1>10, <1>11, <1>13, <1>14, <1>15, <1>16 DEF Next
-----------------------------------------------------------------------------
(* The group, and where the reader is *)

\* A group has every node that has one of its leaves below
GroupShape ==
  /\ writer = "idle" => group = NoNodes
  /\ writer # "idle" => /\ treeLength < end
                        /\ \A n \in Node : group[n] = None => End(n) <= treeLength \/ end <= First(n)

LEMMA ShapeNext ==
  ASSUME TypeOK, GroupShape, Reading, Next
  PROVE  GroupShape' /\ Reading'
<1>0. treeLength \in Nat /\ end \in Nat /\ leaf \in Nat
  BY WidthFacts, LevelFacts DEF TypeOK, Position
<1>1. (waiting \union Written(answers) = Asked)'
  BY TypesNext
<1>2. CASE Insert
  <2>1. PICK last \in (treeLength + 1)..Width(0) :
          group' = FillHashWriteGroup(treeLength, last) /\ end' = last
    BY <1>2 DEF Insert
  <2>2. last \in Nat /\ treeLength < last
    BY <1>0, <2>1, WidthFacts, LevelFacts
  <2>3. treeLength' = treeLength /\ writer' = "validate"
    BY <1>2 DEF Insert
  <2>4. \A n \in Node : FillHashWriteGroup(treeLength, last)[n] = None =>
          End(n) <= treeLength \/ last <= First(n)
    BY <1>0, <2>2, FillShape DEF TypeOK
  <2>5. GroupShape'
    BY <2>1, <2>2, <2>3, <2>4 DEF GroupShape, First, End
  <2>6. Reading'
    BY <1>1, <1>2, <2>3 DEF Insert, Reading, reading
  <2> QED
    BY <2>5, <2>6
<1>3. CASE Reject
  <2>1. GroupShape'
    BY <1>3 DEF Reject, EndWrite, GroupShape, NoNodes
  <2>2. Reading'
    BY <1>1, <1>3 DEF Reject, EndWrite, Reading, reading
  <2> QED
    BY <2>1, <2>2
<1>4. CASE CacheNodes
  <2>1. GroupShape'
    BY <1>4 DEF CacheNodes, GroupShape, First, End
  <2>2. Reading'
    BY <1>1, <1>4 DEF CacheNodes, Reading
  <2> QED
    BY <2>1, <2>2
<1>5. CASE WriteNodes
  <2>1. GroupShape'
    BY <1>5 DEF WriteNodes, GroupShape, First, End
  <2>2. Reading'
    BY <1>1, <1>5 DEF WriteNodes, Reading, reading
  <2> QED
    BY <2>1, <2>2
<1>6. CASE SetLength
  <2>1. GroupShape'
    BY <1>6 DEF SetLength, EndWrite, GroupShape, NoNodes
  <2>2. treeLength' = end /\ treeLength < end /\ writer' = "idle"
    BY <1>6 DEF SetLength, EndWrite, GroupShape
  <2>3. leaf' = leaf /\ reader' = reader
    BY <1>6 DEF SetLength, reading
  <2>4. reader # "idle" => leaf < end
    BY <1>0, <2>2 DEF Reading
  <2>5. Reading'
    BY <1>1, <2>2, <2>3, <2>4 DEF Reading
  <2> QED
    BY <2>1, <2>5
<1>7. CASE WriteFails
  <2>1. GroupShape'
    BY <1>7 DEF WriteFails, EndWrite, GroupShape, NoNodes
  <2>2. Reading'
    BY <1>1, <1>7 DEF WriteFails, EndWrite, Reading, reading
  <2> QED
    BY <2>1, <2>2
<1>8. ASSUME UNCHANGED writing PROVE GroupShape'
  BY <1>8 DEF writing, GroupShape, First, End
<1>9. CASE GetMerkleProof
  <2>1. Reading'
    BY <1>1, <1>9 DEF GetMerkleProof, Reading, writing
  <2> QED
    BY <1>8, <1>9, <2>1 DEF GetMerkleProof
<1>10. CASE GetElements
  <2>1. Reading'
    BY <1>1, <1>10 DEF GetElements, Reading, writing
  <2> QED
    BY <1>8, <1>10, <2>1 DEF GetElements
<1>11. CASE GetRoot
  <2>1. Reading'
    BY <1>1, <1>11 DEF GetRoot, Reading, writing
  <2> QED
    BY <1>8, <1>11, <2>1 DEF GetRoot
<1>12. CASE Return
  <2>1. Reading'
    BY <1>1, <1>12 DEF Return, NoReader, Reading
  <2> QED
    BY <1>8, <1>12, <2>1 DEF Return
<1>13. CASE Restart
  <2>1. GroupShape'
    BY <1>13 DEF Restart, EndWrite, GroupShape, NoNodes
  <2>2. Reading'
    BY <1>1, <1>13 DEF Restart, NoReader, Reading
  <2> QED
    BY <2>1, <2>2
<1>14. ASSUME NEW n \in Node, DbGet(n) PROVE GroupShape' /\ Reading'
  <2>1. Reading'
    BY <1>1, <1>14 DEF DbGet, Reading, writing
  <2> QED
    BY <1>8, <1>14, <2>1 DEF DbGet
<1>15. ASSUME NEW n \in Node, CacheNodeHash(n) PROVE GroupShape' /\ Reading'
  <2>1. Reading'
    BY <1>1, <1>15 DEF CacheNodeHash, Reading, writing
  <2> QED
    BY <1>8, <1>15, <2>1 DEF CacheNodeHash
<1> QED
  BY <1>2, <1>3, <1>4, <1>5, <1>6, <1>7, <1>9, <1>10, <1>11, <1>12, <1>13, <1>14, <1>15 DEF Next

\* A left node that is asked for is full
LEMMA AskedFacts ==
  ASSUME TypeOK, Reading
  PROVE  \A n \in waiting \union Written(answers) : n \in Node /\ (Lookable(n) \/ End(n) <= treeLength)
<1>1. SUFFICES ASSUME NEW n \in Asked PROVE n \in Node /\ (Lookable(n) \/ End(n) <= treeLength)
  BY DEF Reading
<1>2. leaf \in Position /\ leaf \in Nat /\ treeLength \in Nat /\ leaf < treeLength
  BY WidthFacts, LevelFacts DEF TypeOK, Position, Asked, Reading
<1>3. n = <<0, leaf>> \/ n \in Elements(leaf) \/ n = RootNode
  BY DEF Asked
<1>4. n \in Node
  BY <1>2, <1>3, ElementsFacts
<1>5. CASE n = <<0, leaf>>
  <2>1. First(n) = leaf /\ End(n) = leaf + 1
    BY <1>2, <1>5, SizeFacts DEF First, End
  <2> QED
    BY <1>2, <1>4, <2>1
<1>6. CASE n \in Elements(leaf)
  <2>1. PICK level \in 0..(Depth - 1) : n = <<level, Sibling(leaf \div size[level])>>
    BY <1>6 DEF Elements
  <2> DEFINE a == leaf \div size[level]
             p == a \div 2
  <2>2. level \in Level /\ level < Depth
    BY <2>1, LevelFacts DEF Level
  <2>3. a \in Nat /\ a < Width(level)
    BY <1>2, <2>2, AncestorFacts
  <2>4. n[1] = level /\ n[2] = Sibling(a)
    BY <2>1
  <2>5. n[2] < a => End(n) <= leaf
    BY <1>2, <1>4, <2>4, Beside
  <2> HIDE DEF a
  <2>6. p \in Nat /\ (n[2] = 2 * p + 1 \/ (n[2] = 2 * p /\ a = 2 * p + 1))
    <3>1. /\ \/ a = 2 * p /\ a % 2 = 0 /\ Sibling(a) = 2 * p + 1
             \/ a = 2 * p + 1 /\ a % 2 = 1 /\ Sibling(a) = 2 * p
          /\ p \in Nat
      BY <2>2, <2>3, SiblingFacts
    <3> QED
      BY <2>4, <3>1
  <2> HIDE DEF p
  <2>7. n[2] = 2 * p + 1 => Lookable(n)
    BY <2>6, Doubled DEF Lookable
  <2>8. n[2] = 2 * p /\ a = 2 * p + 1 => End(n) <= treeLength
    <3>1. End(n) \in Nat
      BY <1>4, SpanFacts
    <3> QED
      BY <1>2, <2>5, <2>6, <3>1
  <2> QED
    BY <1>4, <2>6, <2>7, <2>8
<1>7. CASE n = RootNode
  BY <1>4, <1>7 DEF Lookable
<1> QED
  BY <1>3, <1>5, <1>6, <1>7
-----------------------------------------------------------------------------
(* The tree that memory and disk know *)

\* n may be stale: a proof overlapped a write that changed it, before the next
\* group that has it above one of its leaves
Passed(n) == /\ ~undisturbed
             /\ Lookable(n)
             /\ \/ First(n) < treeLength
                \/ writer \in {"batch", "length"} /\ First(n) < end

Stored(n) == IF storedNodes[n] # None THEN storedNodes[n] ELSE zeros[n[1]]

\* the nodes and the answers that will be cached are those of K leaves
NodesOf(K) ==
  /\ \A n \in Node : NodeHash(n) = Reference(K)[n] \/ Passed(n)
  /\ \A n \in arriving : answers[n] = Reference(K)[n] \/ Passed(n)

\* the group is, with its own
GroupOf(K) ==
  /\ writer \in {"batch", "length"} => end <= K
  /\ writer # "idle" => \A n \in Written(group) : group[n] = Reference(Later(K, end))[n]

\* the disk is, before or after the batch
DiskOf(K) ==
  spent.error = 0 => \E k \in treeLength..K : /\ K = (IF writer = "batch" THEN Later(k, end) ELSE k)
                                              /\ \A n \in Node : Stored(n) = Reference(k)[n]

\* the proof is, if no write overlaps it, but for what was misread
ProofOf(K) ==
  undisturbed => /\ \A n \in waiting : cachedNodeHashes[n] \in {None, storedNodes[n]}
                 /\ \A n \in Written(answers) \ misread : answers[n] = Reference(K)[n]

Knows(K) == NodesOf(K) /\ GroupOf(K) /\ DiskOf(K) /\ ProofOf(K)

Sound == ~torn /\ (spent.error = 0 \/ undisturbed) => \E K \in treeLength..Width(0) : Knows(K)

LEMMA LaterSame ==
  ASSUME NEW K \in Nat, NEW l \in Nat, NEW n \in Node, End(n) <= K \/ l <= First(n)
  PROVE  Reference(Later(K, l))[n] = Reference(K)[n]
<1>1. First(n) \in Nat /\ End(n) \in Nat
  BY SpanFacts
<1>2. CASE K < l
  <2>1. Later(K, l) = l
    BY <1>2 DEF Later
  <2>2. \/ End(n) <= K /\ End(n) <= l
        \/ K <= First(n) /\ l <= First(n)
    BY <1>1, <1>2
  <2> QED
    BY <2>1, <2>2, SameInBoth
<1>3. CASE ~(K < l)
  BY <1>3 DEF Later
<1> QED
  BY <1>2, <1>3

LEMMA LengthFacts ==
  ASSUME TypeOK
  PROVE  /\ treeLength \in Nat /\ end \in Nat /\ Width(0) \in Nat /\ end <= Width(0)
         /\ treeLength <= Width(0)
BY WidthFacts, LevelFacts DEF TypeOK

LEMMA InitSound == Init => Sound
<1> SUFFICES ASSUME Init PROVE Sound
  OBVIOUS
<1>1. 0 \in treeLength..Width(0) /\ treeLength = 0 /\ 0 \in treeLength..0
  BY WidthFacts, LevelFacts DEF Init
<1>2. \A n \in Node : NodeHash(n) = zeros[n[1]] /\ Stored(n) = zeros[n[1]]
  BY NodeHashIs, NoNodesFacts DEF Init, Stored
<1>3. \A n \in Node : Reference(0)[n] = zeros[n[1]]
  BY ZerosFacts, SpanFacts
<1>4. NodesOf(0)
  <2>1. arriving = {}
    BY DEF Init
  <2> QED
    BY <1>2, <1>3, <2>1 DEF NodesOf
<1>5. GroupOf(0)
  BY DEF Init, GroupOf
<1>6. DiskOf(0)
  BY <1>1, <1>2, <1>3 DEF Init, DiskOf
<1>7. ProofOf(0)
  BY NoNodesFacts DEF Init, ProofOf
<1> QED
  BY <1>1, <1>4, <1>5, <1>6, <1>7 DEF Sound, Knows

LEMMA InsertKnows ==
  ASSUME TypeOK, Insert, NEW K \in treeLength..Width(0), Knows(K)
  PROVE  Knows(K)'
<1>1. PICK last \in (treeLength + 1)..Width(0) :
        LET nodes == FillHashWriteGroup(treeLength, last)
        IN /\ group' = nodes /\ end' = last
           /\ cachedNodeHashes' = [n \in Node |->
                IF n \in LookedUp(nodes) /\ cachedNodeHashes[n] = None
                THEN storedNodes[n] ELSE cachedNodeHashes[n]]
  BY DEF Insert
<1>2. treeLength \in Nat /\ last \in Nat /\ treeLength < last /\ K \in Nat /\ treeLength <= K
  BY <1>1, LengthFacts
<1>3. /\ writer = "idle" /\ writer' = "validate" /\ storedNodes' = storedNodes
      /\ treeLength' = treeLength /\ undisturbed' = undisturbed /\ spent' = spent
      /\ waiting' = waiting /\ answers' = answers /\ arriving' = arriving /\ misread' = misread
  BY DEF Insert, reading
<1>4. \A n \in Node : Passed(n)' <=> Passed(n)
  BY <1>3 DEF Passed, Lookable, First
<1>5. \A n \in Node : /\ cachedNodeHashes'[n] \in {cachedNodeHashes[n], storedNodes[n]}
                      /\ cachedNodeHashes[n] # None => cachedNodeHashes'[n] = cachedNodeHashes[n]
  BY <1>1
<1>6. ASSUME NEW n \in Node PROVE NodeHash(n)' = NodeHash(n)
  <2>1. /\ cachedNodeHashes'[n] \in {cachedNodeHashes[n], storedNodes[n]}
        /\ cachedNodeHashes[n] # None => cachedNodeHashes'[n] = cachedNodeHashes[n]
    BY <1>5
  <2>2. NodeHash(n)' = IF cachedNodeHashes'[n] # None THEN cachedNodeHashes'[n]
                       ELSE IF storedNodes[n] # None THEN storedNodes[n]
                       ELSE zeros[n[1]]
    BY <1>3 DEF NodeHash, Overlay
  <2> QED
    BY <2>1, <2>2, NodeHashIs
<1>7. NodesOf(K)'
  <2>1. arriving \subseteq Node
    BY DEF TypeOK
  <2> QED
    BY <1>3, <1>4, <1>6, <2>1 DEF Knows, NodesOf
<1>8. GroupOf(K)'
  <2>1. \A n \in Node : NodeHash(n) = Reference(K)[n] \/ (Lookable(n) /\ First(n) < treeLength)
    BY <1>3 DEF Knows, NodesOf, Passed
  <2>2. \A n \in Node : FillHashWriteGroup(treeLength, last)[n] # None =>
          FillHashWriteGroup(treeLength, last)[n] = Reference(Later(K, last))[n]
    BY <1>2, <2>1, FillIsReference DEF TypeOK
  <2> QED
    BY <1>1, <1>3, <2>2 DEF GroupOf, Written
<1>9. DiskOf(K)'
  BY <1>3 DEF Knows, DiskOf, Stored
<1>10. ProofOf(K)'
  BY <1>3, <1>5 DEF Knows, ProofOf, Written, TypeOK
<1> QED
  BY <1>7, <1>8, <1>9, <1>10 DEF Knows

LEMMA RejectKnows ==
  ASSUME TypeOK, Reject, NEW K \in treeLength..Width(0), Knows(K)
  PROVE  Knows(K)'
<1>1. /\ writer = "validate" /\ writer' = "idle" /\ storedNodes' = storedNodes
      /\ cachedNodeHashes' = cachedNodeHashes
      /\ treeLength' = treeLength /\ undisturbed' = undisturbed /\ spent' = spent
      /\ waiting' = waiting /\ answers' = answers /\ arriving' = arriving /\ misread' = misread
  BY DEF Reject, EndWrite, reading
<1>2. \A n \in Node : (Passed(n)' <=> Passed(n)) /\ NodeHash(n)' = NodeHash(n)
  BY <1>1 DEF Passed, Lookable, First, NodeHash, Overlay
<1>3. NodesOf(K)'
  <2>1. arriving \subseteq Node
    BY DEF TypeOK
  <2> QED
    BY <1>1, <1>2, <2>1 DEF Knows, NodesOf
<1>4. GroupOf(K)'
  BY <1>1 DEF GroupOf
<1>5. DiskOf(K)'
  BY <1>1 DEF Knows, DiskOf, Stored
<1>6. ProofOf(K)'
  BY <1>1 DEF Knows, ProofOf, Written
<1> QED
  BY <1>3, <1>4, <1>5, <1>6 DEF Knows

LEMMA CacheNodesKnows ==
  ASSUME TypeOK, GroupShape, Reading, CacheNodes, NEW K \in treeLength..Width(0), Knows(K),
         NEW T, T = Later(K, end)
  PROVE  T \in treeLength..Width(0) /\ Knows(T)'
<1>1. /\ treeLength \in Nat /\ end \in Nat /\ end <= Width(0) /\ Width(0) \in Nat
      /\ K \in Nat /\ treeLength <= K /\ K <= Width(0)
  BY LengthFacts
<1>2. /\ writer = "validate" /\ writer' = "batch" /\ storedNodes' = storedNodes
      /\ treeLength' = treeLength /\ group' = group /\ end' = end /\ spent' = spent
      /\ waiting' = waiting /\ answers' = answers /\ arriving' = arriving /\ misread' = misread
      /\ undisturbed' = (undisturbed /\ reader = "idle")
      /\ cachedNodeHashes' = Overlay(group, cachedNodeHashes)
  BY DEF CacheNodes
<1>3. T \in Nat /\ K <= T /\ end <= T /\ T <= Width(0) /\ T \in treeLength..Width(0)
  BY <1>1 DEF Later
<1>4. Later(T, end) = T
  BY <1>1, <1>3 DEF Later
<1>5. \A n \in Node : \/ Reference(T)[n] = Reference(K)[n]
                      \/ First(n) < end /\ ~(End(n) <= treeLength)
  <2> SUFFICES ASSUME NEW n \in Node, End(n) <= treeLength \/ ~(First(n) < end)
               PROVE  Reference(T)[n] = Reference(K)[n]
    OBVIOUS
  <2>1. First(n) \in Nat /\ End(n) \in Nat
    BY SpanFacts
  <2>2. End(n) <= K \/ end <= First(n)
    BY <1>1, <2>1
  <2> QED
    BY <1>1, <2>2, LaterSame
<1>6. \A n \in Node : Passed(n) => ~undisturbed' /\ Passed(n)'
  BY <1>2 DEF Passed, Lookable, First
<1>7. ASSUME NEW n \in Node PROVE NodeHash(n)' = Reference(T)[n] \/ Passed(n)'
  <2>1. cachedNodeHashes'[n] = IF group[n] # None THEN group[n] ELSE cachedNodeHashes[n]
    BY <1>2 DEF Overlay
  <2>2. NodeHash(n)' = IF cachedNodeHashes'[n] # None THEN cachedNodeHashes'[n]
                       ELSE IF storedNodes[n] # None THEN storedNodes[n]
                       ELSE zeros[n[1]]
    BY <1>2 DEF NodeHash, Overlay
  <2>3. CASE group[n] # None
    <3>1. group[n] = Reference(T)[n]
      BY <1>2, <2>3 DEF Knows, GroupOf, Written
    <3> QED
      BY <2>1, <2>2, <2>3, <3>1
  <2>4. CASE group[n] = None
    <3>1. NodeHash(n)' = NodeHash(n)
      BY <2>1, <2>2, <2>4, NodeHashIs
    <3>2. NodeHash(n) = Reference(K)[n] \/ Passed(n)
      BY DEF Knows, NodesOf
    <3>3. End(n) <= treeLength \/ end <= First(n)
      BY <1>2, <2>4 DEF GroupShape
    <3>4. Reference(T)[n] = Reference(K)[n]
      <4>1. First(n) \in Nat
        BY SpanFacts
      <4> QED
        BY <1>1, <1>5, <3>3, <4>1
    <3> QED
      BY <1>6, <3>1, <3>2, <3>4
  <2> QED
    BY <2>3, <2>4
<1>8. ASSUME NEW n \in arriving PROVE answers[n] = Reference(T)[n] \/ Passed(n)'
  <2>1. n \in Node /\ (Lookable(n) \/ End(n) <= treeLength)
    BY AskedFacts DEF TypeOK
  <2>2. answers[n] = Reference(K)[n] \/ Passed(n)
    BY DEF Knows, NodesOf
  <2>3. reader # "idle"
    BY DEF TypeOK, Reading, Asked
  <2>4. Lookable(n) /\ First(n) < end => Passed(n)'
    BY <1>2, <2>3 DEF Passed, Lookable, First
  <2> QED
    BY <1>5, <1>6, <2>1, <2>2, <2>4
<1>9. NodesOf(T)'
  <2>1. arriving \subseteq Node
    BY DEF TypeOK
  <2> QED
    BY <1>2, <1>7, <1>8, <2>1 DEF NodesOf
<1>10. GroupOf(T)'
  <2>1. \A n \in Written(group) : group[n] = Reference(T)[n]
    BY <1>2 DEF Knows, GroupOf
  <2>2. Later(T, end)' = T
    BY <1>2, <1>4 DEF Later
  <2> QED
    BY <1>2, <1>3, <2>1, <2>2 DEF GroupOf, Written
<1>11. DiskOf(T)'
  <2> SUFFICES ASSUME spent.error = 0
               PROVE  \E k \in treeLength..T : /\ T = Later(k, end)
                                               /\ \A n \in Node : Stored(n) = Reference(k)[n]
    BY <1>2 DEF DiskOf, Stored, Later
  <2>1. \A n \in Node : Stored(n) = Reference(K)[n]
    BY <1>2 DEF Knows, DiskOf
  <2>2. K \in treeLength..T
    BY <1>1, <1>3
  <2> QED
    BY <2>1, <2>2
<1>12. ProofOf(T)'
  <2>1. undisturbed' => waiting = {} /\ Written(answers) = {}
    BY <1>2 DEF Reading, Asked
  <2> QED
    BY <1>2, <2>1 DEF ProofOf, Written
<1> QED
  BY <1>3, <1>9, <1>10, <1>11, <1>12 DEF Knows

LEMMA WriteNodesKnows ==
  ASSUME TypeOK, GroupShape, Reading, WriteNodes, NEW K \in treeLength..Width(0), Knows(K)
  PROVE  Knows(K)'
<1>1. /\ treeLength \in Nat /\ end \in Nat /\ K \in Nat /\ treeLength <= K
  BY LengthFacts
<1>2. /\ writer = "batch" /\ writer' = "length" /\ cachedNodeHashes' = cachedNodeHashes
      /\ treeLength' = treeLength /\ group' = group /\ end' = end /\ spent' = spent
      /\ waiting' = waiting /\ answers' = answers /\ arriving' = arriving /\ misread' = misread
      /\ undisturbed' = undisturbed
      /\ storedNodes' = Overlay(group, storedNodes)
  BY DEF WriteNodes, reading
<1>3. end <= K /\ Later(K, end) = K
  BY <1>1, <1>2 DEF Knows, GroupOf, Later
<1>4. \A n \in Node : group[n] # None => group[n] = Reference(K)[n]
  BY <1>2, <1>3 DEF Knows, GroupOf, Written
<1>5. \A n \in Node : storedNodes'[n] = IF group[n] # None THEN group[n] ELSE storedNodes[n]
  BY <1>2 DEF Overlay
<1>6. \A n \in Node : Passed(n)' <=> Passed(n)
  BY <1>2 DEF Passed, Lookable, First
<1>7. ASSUME NEW n \in Node PROVE NodeHash(n)' = Reference(K)[n] \/ Passed(n)'
  <2>1. NodeHash(n)' = IF cachedNodeHashes[n] # None THEN cachedNodeHashes[n]
                       ELSE IF storedNodes'[n] # None THEN storedNodes'[n]
                       ELSE zeros[n[1]]
    BY <1>2 DEF NodeHash, Overlay
  <2>2. NodeHash(n) = Reference(K)[n] \/ Passed(n)
    BY DEF Knows, NodesOf
  <2>3. group[n] # None => group[n] = Reference(K)[n]
    BY <1>4
  <2>4. storedNodes'[n] = IF group[n] # None THEN group[n] ELSE storedNodes[n]
    BY <1>5
  <2>5. Passed(n)' <=> Passed(n)
    BY <1>6
  <2> QED
    BY <2>1, <2>2, <2>3, <2>4, <2>5, NodeHashIs
<1>8. NodesOf(K)'
  <2>1. arriving \subseteq Node
    BY DEF TypeOK
  <2> QED
    BY <1>2, <1>6, <1>7, <2>1 DEF Knows, NodesOf
<1>9. GroupOf(K)'
  <2>1. Later(K, end)' = Later(K, end)
    BY <1>2 DEF Later
  <2> QED
    BY <1>2, <1>3, <2>1 DEF Knows, GroupOf, Written
<1>10. DiskOf(K)'
  <2> SUFFICES ASSUME spent.error = 0
               PROVE  \A n \in Node : Stored(n)' = Reference(K)[n]
    <3>1. K \in treeLength..K
      BY <1>1
    <3> QED
      BY <1>2, <3>1 DEF DiskOf
  <2>1. PICK k \in treeLength..K : /\ K = Later(k, end)
                                   /\ \A n \in Node : Stored(n) = Reference(k)[n]
    BY <1>2 DEF Knows, DiskOf
  <2>2. TAKE n \in Node
  <2>3. Stored(n)' = IF storedNodes'[n] # None THEN storedNodes'[n] ELSE zeros[n[1]]
    BY DEF Stored
  <2>4. CASE group[n] # None
    BY <1>4, <1>5, <2>3, <2>4
  <2>5. CASE group[n] = None
    <3>1. Stored(n)' = Stored(n)
      BY <1>5, <2>3, <2>5 DEF Stored
    <3>2. End(n) <= treeLength \/ end <= First(n)
      BY <1>2, <2>5 DEF GroupShape
    <3>3. k \in Nat /\ treeLength <= k
      BY <1>1, <2>1
    <3>4. End(n) <= k \/ end <= First(n)
      BY <1>1, <3>2, <3>3, SpanFacts
    <3>5. Reference(K)[n] = Reference(k)[n]
      BY <1>1, <2>1, <3>3, <3>4, LaterSame
    <3> QED
      BY <2>1, <3>1, <3>5
  <2> QED
    BY <2>4, <2>5
<1>11. ProofOf(K)'
  <2>1. undisturbed => waiting = {} /\ Written(answers) = {}
    BY <1>2 DEF Reading, Asked
  <2> QED
    BY <1>2, <2>1 DEF ProofOf, Written
<1> QED
  BY <1>8, <1>9, <1>10, <1>11 DEF Knows

LEMMA SetLengthKnows ==
  ASSUME TypeOK, GroupShape, SetLength, NEW K \in treeLength..Width(0), Knows(K)
  PROVE  K \in (treeLength..Width(0))' /\ Knows(K)'
<1>1. /\ treeLength \in Nat /\ end \in Nat /\ K \in Nat /\ Width(0) \in Nat
      /\ treeLength <= K /\ K <= Width(0)
  BY LengthFacts
<1>2. /\ writer = "length" /\ writer' = "idle" /\ cachedNodeHashes' = cachedNodeHashes
      /\ storedNodes' = storedNodes /\ treeLength' = end /\ spent' = spent
      /\ waiting' = waiting /\ answers' = answers /\ arriving' = arriving /\ misread' = misread
      /\ undisturbed' = undisturbed
  BY DEF SetLength, EndWrite, reading
<1>3. end <= K /\ treeLength < end
  BY <1>2 DEF Knows, GroupOf, GroupShape
<1>4. K \in end..Width(0) /\ (treeLength..Width(0))' = end..Width(0)
  BY <1>1, <1>2, <1>3 DEF Width
<1>5. \A n \in Node : (Passed(n) => Passed(n)') /\ NodeHash(n)' = NodeHash(n)
  <2> TAKE n \in Node
  <2>1. First(n) \in Nat
    BY SpanFacts
  <2>2. NodeHash(n)' = NodeHash(n)
    BY <1>2 DEF NodeHash, Overlay
  <2>3. Passed(n)' <=> ~undisturbed /\ Lookable(n) /\ First(n) < end
    BY <1>2 DEF Passed, Lookable, First
  <2>4. Passed(n) => ~undisturbed /\ Lookable(n) /\ (First(n) < treeLength \/ First(n) < end)
    BY DEF Passed
  <2> QED
    BY <1>1, <1>3, <2>1, <2>2, <2>3, <2>4
<1>6. NodesOf(K)'
  <2>1. arriving \subseteq Node
    BY DEF TypeOK
  <2> QED
    BY <1>2, <1>5, <2>1 DEF Knows, NodesOf
<1>7. GroupOf(K)'
  BY <1>2 DEF GroupOf
<1>8. DiskOf(K)'
  <2> SUFFICES ASSUME spent.error = 0
               PROVE  \E k \in end..K : K = k /\ \A n \in Node : Stored(n) = Reference(k)[n]
    BY <1>2 DEF DiskOf, Stored
  <2>1. \A n \in Node : Stored(n) = Reference(K)[n]
    BY <1>2 DEF Knows, DiskOf
  <2>2. K \in end..K
    BY <1>1, <1>3
  <2> QED
    BY <2>1, <2>2
<1>9. ProofOf(K)'
  BY <1>2 DEF Knows, ProofOf, Written
<1> QED
  BY <1>4, <1>6, <1>7, <1>8, <1>9 DEF Knows

LEMMA WriteFailsKnows ==
  ASSUME TypeOK, WriteFails, undisturbed, NEW K \in treeLength..Width(0), Knows(K)
  PROVE  Knows(K)'
<1>1. /\ writer' = "idle" /\ cachedNodeHashes' = cachedNodeHashes
      /\ storedNodes' = storedNodes /\ treeLength' = treeLength
      /\ waiting' = waiting /\ answers' = answers /\ arriving' = arriving /\ misread' = misread
      /\ undisturbed' = undisturbed
  BY DEF WriteFails, EndWrite, reading
<1>2. \A n \in Node : ~Passed(n) /\ NodeHash(n)' = NodeHash(n)
  BY <1>1 DEF Passed, NodeHash, Overlay
<1>3. NodesOf(K)'
  <2>1. arriving \subseteq Node
    BY DEF TypeOK
  <2> QED
    BY <1>1, <1>2, <2>1 DEF Knows, NodesOf
<1>4. GroupOf(K)'
  BY <1>1 DEF GroupOf
<1>5. DiskOf(K)'
  <2>1. spent'.error # 0
    BY BoundsAreNumbers DEF WriteFails, TypeOK
  <2> QED
    BY <2>1 DEF DiskOf
<1>6. ProofOf(K)'
  BY <1>1 DEF Knows, ProofOf, Written
<1> QED
  BY <1>3, <1>4, <1>5, <1>6 DEF Knows

\* What the reader's steps leave as it is
LEMMA WritingKnows ==
  ASSUME NEW K, GroupOf(K), DiskOf(K), UNCHANGED <<storedNodes, writing, spent>>
  PROVE  GroupOf(K)' /\ DiskOf(K)'
<1>1. GroupOf(K)'
  BY DEF GroupOf, writing, Written, Later
<1>2. DiskOf(K)'
  BY DEF DiskOf, writing, Stored, Later
<1> QED
  BY <1>1, <1>2

LEMMA AskKnows ==
  ASSUME TypeOK, Answered, NEW nodes \in SUBSET Node, Ask(nodes),
         UNCHANGED <<storedNodes, writing, spent>>, undisturbed' => undisturbed,
         NEW K \in treeLength..Width(0), Knows(K)
  PROVE  Knows(K)'
<1>1. /\ waiting' \intersect Written(cachedNodeHashes) = {} /\ waiting' \subseteq Node
      /\ arriving' = {} /\ cachedNodeHashes' = cachedNodeHashes /\ storedNodes' = storedNodes
      /\ misread' = misread
      /\ \A n \in Node : answers'[n] = IF n \in nodes /\ cachedNodeHashes[n] # None
                                       THEN cachedNodeHashes[n] ELSE answers[n]
  BY AskFacts DEF Ask
<1>2. \A n \in Node : (Passed(n) => Passed(n)') /\ NodeHash(n)' = NodeHash(n)
  BY <1>1 DEF Passed, Lookable, First, NodeHash, Overlay, writing
<1>3. NodesOf(K)'
  BY <1>1, <1>2 DEF Knows, NodesOf
<1>4. ProofOf(K)'
  <2> SUFFICES ASSUME undisturbed
               PROVE  /\ \A n \in waiting' : cachedNodeHashes[n] \in {None, storedNodes[n]}
                      /\ \A n \in Written(answers') \ misread : answers'[n] = Reference(K)[n]
    BY <1>1 DEF ProofOf, Written
  <2>1. \A n \in waiting' : cachedNodeHashes[n] = None
    BY <1>1 DEF Written
  <2>2. ASSUME NEW n \in Written(answers') \ misread PROVE answers'[n] = Reference(K)[n]
    <3>1. n \in Node /\ answers'[n] # None
      BY <2>2 DEF Written
    <3>2. CASE n \in nodes /\ cachedNodeHashes[n] # None
      <4>1. NodeHash(n) = cachedNodeHashes[n]
        BY <3>1, <3>2, NodeHashIs
      <4>2. ~Passed(n)
        BY DEF Passed
      <4> QED
        BY <1>1, <3>1, <3>2, <4>1, <4>2 DEF Knows, NodesOf
    <3>3. CASE ~(n \in nodes /\ cachedNodeHashes[n] # None)
      <4>1. answers'[n] = answers[n] /\ n \in Written(answers)
        BY <1>1, <3>1, <3>3 DEF Written
      <4> QED
        BY <4>1 DEF Knows, ProofOf
    <3> QED
      BY <3>2, <3>3
  <2> QED
    BY <2>1, <2>2
<1> QED
  BY <1>3, <1>4, WritingKnows DEF Knows

LEMMA ReadsKnow ==
  ASSUME TypeOK, Reading, GetMerkleProof \/ GetElements \/ GetRoot,
         NEW K \in treeLength..Width(0), Knows(K)
  PROVE  Knows(K)'
<1>1. CASE GetMerkleProof
  <2>1. PICK i \in Position : Ask({<<0, i>>})
    BY <1>1 DEF GetMerkleProof
  <2>2. Answered
    <3>1. waiting \union Written(answers) = {} /\ arriving \subseteq Written(answers)
      BY <1>1 DEF Reading, Asked, GetMerkleProof, TypeOK
    <3> QED
      BY <3>1 DEF Answered
  <2>3. {<<0, i>>} \in SUBSET Node
    BY ElementsFacts
  <2> QED
    BY <1>1, <2>1, <2>2, <2>3, AskKnows DEF GetMerkleProof
<1>2. CASE GetElements
  <2>1. Elements(leaf) \in SUBSET Node
    BY ElementsFacts DEF TypeOK
  <2> QED
    BY <1>2, <2>1, AskKnows DEF GetElements
<1>3. CASE GetRoot
  <2>1. {RootNode} \in SUBSET Node
    BY NodeFacts
  <2> QED
    BY <1>3, <2>1, AskKnows DEF GetRoot
<1> QED
  BY <1>1, <1>2, <1>3

LEMMA ReturnKnows ==
  ASSUME Return, NEW K \in treeLength..Width(0), Knows(K)
  PROVE  Knows(K)'
<1>1. /\ waiting' = {} /\ arriving' = {} /\ answers' = NoNodes
      /\ cachedNodeHashes' = cachedNodeHashes /\ storedNodes' = storedNodes
      /\ UNCHANGED <<storedNodes, writing, spent>> /\ undisturbed' = undisturbed
  BY DEF Return, NoReader
<1>2. \A n \in Node : (Passed(n) => Passed(n)') /\ NodeHash(n)' = NodeHash(n)
  BY <1>1 DEF Passed, Lookable, First, NodeHash, Overlay, writing
<1>3. NodesOf(K)'
  BY <1>1, <1>2 DEF Knows, NodesOf
<1>4. ProofOf(K)'
  BY <1>1, NoNodesFacts DEF ProofOf, Written
<1> QED
  BY <1>1, <1>3, <1>4, WritingKnows DEF Knows

LEMMA RestartKnows ==
  ASSUME TypeOK, Restart, spent.error = 0, NEW K \in treeLength..Width(0), Knows(K)
  PROVE  \E k \in treeLength..Width(0) : Knows(k)'
<1>1. /\ treeLength \in Nat /\ Width(0) \in Nat /\ K \in Nat /\ K <= Width(0)
  BY LengthFacts
<1>2. PICK k \in treeLength..K : \A n \in Node : Stored(n) = Reference(k)[n]
  BY DEF Knows, DiskOf
<1>3. k \in treeLength..Width(0) /\ k \in treeLength..k
  BY <1>1
<1>4. /\ cachedNodeHashes' = NoNodes /\ storedNodes' = storedNodes
      /\ treeLength' = treeLength /\ writer' = "idle"
      /\ waiting' = {} /\ arriving' = {} /\ answers' = NoNodes
  BY DEF Restart, EndWrite, NoReader
<1>5. \A n \in Node : NodeHash(n)' = Stored(n)
  BY <1>4, NoNodesFacts DEF NodeHash, Overlay, Stored
<1>6. NodesOf(k)'
  BY <1>2, <1>4, <1>5 DEF NodesOf
<1>7. GroupOf(k)'
  BY <1>4 DEF GroupOf
<1>8. DiskOf(k)'
  BY <1>2, <1>3, <1>4 DEF DiskOf, Stored
<1>9. ProofOf(k)'
  BY <1>4, NoNodesFacts DEF ProofOf, Written
<1> QED
  BY <1>3, <1>6, <1>7, <1>8, <1>9 DEF Knows

\* a read that fails spoils no more than the proof
LEMMA MisreadKnows ==
  ASSUME TypeOK, NEW n \in Node, DbGet(n), misread' = misread \union {n}, arriving' = arriving,
         NEW K \in treeLength..Width(0), Knows(K)
  PROVE  Knows(K)'
<1>1. /\ n \in waiting /\ waiting' = waiting \ {n}
      /\ cachedNodeHashes' = cachedNodeHashes /\ undisturbed' = undisturbed
      /\ UNCHANGED <<storedNodes, writing, spent>>
  BY DEF DbGet
<1>2. n \notin arriving /\ arriving \subseteq Node
  BY <1>1 DEF TypeOK, Written
<1>3. \A m \in Node : m # n => answers'[m] = answers[m]
  BY DEF DbGet, TypeOK, AreHashes
<1>4. \A m \in Node : (Passed(m)' <=> Passed(m)) /\ NodeHash(m)' = NodeHash(m)
  BY <1>1 DEF Passed, Lookable, First, NodeHash, Overlay, writing
<1>5. NodesOf(K)'
  BY <1>2, <1>3, <1>4 DEF Knows, NodesOf
<1>6. ProofOf(K)'
  <2> SUFFICES ASSUME undisturbed
               PROVE  /\ \A m \in waiting' : cachedNodeHashes[m] \in {None, storedNodes[m]}
                      /\ \A m \in Written(answers') \ misread' : answers'[m] = Reference(K)[m]
    BY <1>1 DEF ProofOf, Written
  <2>1. /\ \A m \in waiting : cachedNodeHashes[m] \in {None, storedNodes[m]}
        /\ \A m \in Written(answers) \ misread : answers[m] = Reference(K)[m]
    BY DEF Knows, ProofOf
  <2>2. ASSUME NEW m \in Written(answers') \ misread' PROVE answers'[m] = Reference(K)[m]
    <3>1. m \in Node /\ m # n /\ m \notin misread /\ answers'[m] # None
      BY DEF Written
    <3>2. answers'[m] = answers[m]
      BY <1>3, <3>1
    <3> QED
      BY <2>1, <3>1, <3>2 DEF Written
  <2> QED
    BY <1>1, <2>1, <2>2
<1> QED
  BY <1>1, <1>5, <1>6, WritingKnows DEF Knows

LEMMA ReadKnows ==
  ASSUME TypeOK, Reading, spent.error = 0 \/ undisturbed, NEW n \in Node, DbGet(n),
         answers' = [answers EXCEPT ![n] = Stored(n)], misread' = misread,
         NEW K \in treeLength..Width(0), Knows(K)
  PROVE  Knows(K)'
<1> DEFINE h == Stored(n)
<1>1. /\ treeLength \in Nat /\ end \in Nat /\ K \in Nat
      /\ First(n) \in Nat /\ End(n) \in Nat
  BY LengthFacts, SpanFacts
<1>2. /\ n \in waiting /\ waiting' = waiting \ {n} /\ answers' = [answers EXCEPT ![n] = h]
      /\ arriving' \subseteq arriving \union {n}
      /\ cachedNodeHashes' = cachedNodeHashes /\ undisturbed' = undisturbed
      /\ misread' = misread /\ UNCHANGED <<storedNodes, writing, spent>>
  BY DEF DbGet
<1>3. AreHashes(answers) /\ h \in Hash(n[1])
  BY NodeFacts, ZerosFacts DEF TypeOK, AreHashes, Written, Stored
<1>4. undisturbed => h = Reference(K)[n]
  <2> SUFFICES ASSUME undisturbed PROVE h = Reference(K)[n]
    OBVIOUS
  <2>1. cachedNodeHashes[n] \in {None, storedNodes[n]}
    BY <1>2 DEF Knows, ProofOf
  <2>2. h = NodeHash(n)
    BY <2>1, NodeHashIs DEF Stored
  <2>3. NodeHash(n) = Reference(K)[n]
    BY DEF Knows, NodesOf, Passed
  <2> QED
    BY <2>2, <2>3
<1>5. h = Reference(K)[n] \/ Passed(n)
  <2>1. CASE undisturbed
    BY <1>4, <2>1
  <2>2. CASE ~undisturbed
    <3>1. PICK k \in treeLength..K :
            /\ K = (IF writer = "batch" THEN Later(k, end) ELSE k)
            /\ \A m \in Node : Stored(m) = Reference(k)[m]
      BY <2>2 DEF Knows, DiskOf
    <3>2. k \in Nat /\ treeLength <= k
      BY <1>1, <3>1
    <3>3. h = Reference(k)[n]
      BY <3>1
    <3> HIDE DEF h
    <3>4. CASE writer # "batch"
      BY <3>1, <3>3, <3>4
    <3>5. CASE writer = "batch"
      <4>1. Lookable(n) \/ End(n) <= treeLength
        BY <1>2, AskedFacts
      <4>2. CASE Lookable(n) /\ First(n) < end
        BY <2>2, <3>5, <4>2 DEF Passed
      <4>3. CASE End(n) <= k \/ end <= First(n)
        <5>1. Reference(K)[n] = Reference(k)[n]
          BY <1>1, <3>1, <3>2, <3>5, <4>3, LaterSame
        <5> QED
          BY <3>3, <5>1
      <4> QED
        BY <1>1, <3>2, <4>1, <4>2, <4>3
    <3> QED
      BY <3>4, <3>5
  <2> QED
    BY <2>1, <2>2
<1> HIDE DEF h
<1>6. /\ \A m \in Node : answers'[m] = IF m = n THEN h ELSE answers[m]
      /\ Written(answers') = Written(answers) \union {n}
  <2>1. Written(answers') = Written(answers) \union {n}
    BY <1>2, <1>3, SetFacts
  <2>2. ASSUME NEW m \in Node PROVE answers'[m] = IF m = n THEN h ELSE answers[m]
    BY <1>2, <1>3 DEF AreHashes
  <2> QED
    BY <2>1, <2>2
<1>7. \A m \in Node : (Passed(m)' <=> Passed(m)) /\ NodeHash(m)' = NodeHash(m)
  BY <1>2 DEF Passed, Lookable, First, NodeHash, Overlay, writing
<1>8. NodesOf(K)'
  <2>1. arriving \subseteq Node
    BY DEF TypeOK
  <2>2. ASSUME NEW m \in arriving' PROVE answers'[m] = Reference(K)[m] \/ Passed(m)'
    <3>1. m = n \/ m \in arriving
      BY <1>2
    <3>2. CASE m = n
      BY <1>5, <1>6, <1>7, <3>2
    <3>3. CASE m # n
      <4>1. answers[m] = Reference(K)[m] \/ Passed(m)
        BY <3>1, <3>3 DEF Knows, NodesOf
      <4> QED
        BY <1>6, <1>7, <2>1, <3>1, <3>3, <4>1
    <3> QED
      BY <3>2, <3>3
  <2> QED
    BY <1>7, <2>2 DEF Knows, NodesOf
<1>9. ProofOf(K)'
  <2> SUFFICES ASSUME undisturbed
               PROVE  /\ \A m \in waiting' : cachedNodeHashes[m] \in {None, storedNodes[m]}
                      /\ \A m \in Written(answers') \ misread : answers'[m] = Reference(K)[m]
    BY <1>2 DEF ProofOf, Written
  <2>1. /\ \A m \in waiting : cachedNodeHashes[m] \in {None, storedNodes[m]}
        /\ \A m \in Written(answers) \ misread : answers[m] = Reference(K)[m]
    BY DEF Knows, ProofOf
  <2>2. ASSUME NEW m \in Written(answers') \ misread PROVE answers'[m] = Reference(K)[m]
    <3>1. m \in Node
      BY DEF Written
    <3> QED
      BY <1>4, <1>6, <2>1, <3>1
  <2> QED
    BY <1>2, <2>1, <2>2
<1> QED
  BY <1>2, <1>8, <1>9, WritingKnows DEF Knows

LEMMA DbGetKnows ==
  ASSUME TypeOK, Reading, spent.error = 0 \/ undisturbed, NEW n \in Node, DbGet(n),
         NEW K \in treeLength..Width(0), Knows(K)
  PROVE  Knows(K)'
<1>1. CASE answers' = [answers EXCEPT ![n] = Stored(n)] /\ misread' = misread
  BY <1>1, ReadKnows
<1>2. CASE misread' = misread \union {n} /\ arriving' = arriving
  BY <1>2, MisreadKnows
<1> QED
  BY <1>1, <1>2 DEF DbGet, Stored

LEMMA CacheNodeHashKnows ==
  ASSUME TypeOK, NEW n \in Node, CacheNodeHash(n), NEW K \in treeLength..Width(0), Knows(K)
  PROVE  Knows(K)'
<1>1. /\ n \in arriving /\ arriving' = arriving \ {n} /\ waiting' = waiting
      /\ answers' = answers /\ undisturbed' = undisturbed /\ misread' = misread
      /\ cachedNodeHashes' = [cachedNodeHashes EXCEPT ![n] = answers[n]]
      /\ UNCHANGED <<storedNodes, writing, spent>>
  BY DEF CacheNodeHash
<1>2. n \in Written(answers) /\ n \notin waiting /\ answers[n] # None
  BY <1>1 DEF TypeOK, Written
<1>3. \A m \in Node : cachedNodeHashes'[m] = IF m = n THEN answers[n] ELSE cachedNodeHashes[m]
  BY <1>1 DEF TypeOK, AreHashes
<1>4. \A m \in Node : Passed(m)' <=> Passed(m)
  BY <1>1 DEF Passed, Lookable, First, writing
<1>5. ASSUME NEW m \in Node PROVE NodeHash(m)' = Reference(K)[m] \/ Passed(m)'
  <2>1. NodeHash(m)' = IF cachedNodeHashes'[m] # None THEN cachedNodeHashes'[m]
                       ELSE IF storedNodes[m] # None THEN storedNodes[m]
                       ELSE zeros[m[1]]
    BY <1>1 DEF NodeHash, Overlay
  <2>2. CASE m = n
    <3>1. answers[n] = Reference(K)[n] \/ Passed(n)
      BY <1>1 DEF Knows, NodesOf
    <3> QED
      BY <1>2, <1>3, <1>4, <2>1, <2>2, <3>1
  <2>3. CASE m # n
    <3>1. NodeHash(m)' = NodeHash(m)
      BY <1>3, <2>1, <2>3, NodeHashIs
    <3> QED
      BY <1>4, <3>1 DEF Knows, NodesOf
  <2> QED
    BY <2>2, <2>3
<1>6. NodesOf(K)'
  <2>1. arriving \subseteq Node
    BY DEF TypeOK
  <2> QED
    BY <1>1, <1>4, <1>5, <2>1 DEF Knows, NodesOf
<1>7. ProofOf(K)'
  <2>1. \A m \in waiting : m \in Node /\ m # n
    BY <1>2 DEF TypeOK
  <2> QED
    BY <1>1, <1>3, <2>1 DEF Knows, ProofOf, Written
<1> QED
  BY <1>1, <1>6, <1>7, WritingKnows DEF Knows

LEMMA SoundNext ==
  ASSUME TypeOK, GroupShape, Reading, Sound, Next
  PROVE  Sound'
<1> SUFFICES ASSUME (~torn /\ (spent.error = 0 \/ undisturbed))'
             PROVE  \E K \in (treeLength..Width(0))' : Knows(K)'
  BY DEF Sound
<1>1. ~torn /\ (spent.error = 0 \/ undisturbed) => \E K \in treeLength..Width(0) : Knows(K)
  BY DEF Sound
<1>2. ASSUME treeLength' = treeLength PROVE (treeLength..Width(0))' = treeLength..Width(0)
  BY <1>2 DEF Width
<1>3. CASE Insert
  <2>1. ~torn /\ (spent.error = 0 \/ undisturbed) /\ treeLength' = treeLength
    BY <1>3 DEF Insert, reading
  <2> QED
    BY <1>1, <1>2, <1>3, <2>1, InsertKnows
<1>4. CASE Reject
  <2>1. ~torn /\ (spent.error = 0 \/ undisturbed) /\ treeLength' = treeLength
    BY <1>4 DEF Reject, reading
  <2> QED
    BY <1>1, <1>2, <1>4, <2>1, RejectKnows
<1>5. CASE CacheNodes
  <2>1. undisturbed' => undisturbed
    BY <1>5 DEF CacheNodes
  <2>2. torn' = torn /\ spent' = spent /\ treeLength' = treeLength
    BY <1>5 DEF CacheNodes
  <2>3. PICK K \in treeLength..Width(0) : Knows(K)
    BY <1>1, <2>1, <2>2
  <2>4. PICK T : T = Later(K, end)
    OBVIOUS
  <2>5. T \in treeLength..Width(0) /\ Knows(T)'
    BY <1>5, <2>3, <2>4, CacheNodesKnows
  <2> QED
    BY <1>2, <2>2, <2>5
<1>6. CASE WriteNodes
  <2>1. ~torn /\ (spent.error = 0 \/ undisturbed) /\ treeLength' = treeLength
    BY <1>6 DEF WriteNodes, reading
  <2> QED
    BY <1>1, <1>2, <1>6, <2>1, WriteNodesKnows
<1>7. CASE SetLength
  <2>1. ~torn /\ (spent.error = 0 \/ undisturbed)
    BY <1>7 DEF SetLength, reading
  <2> QED
    BY <1>1, <1>7, <2>1, SetLengthKnows
<1>8. CASE WriteFails
  <2>1. ~torn /\ treeLength' = treeLength /\ undisturbed' = undisturbed
    BY <1>8 DEF WriteFails, reading
  <2>2. spent'.error # 0
    BY <1>8, BoundsAreNumbers DEF WriteFails, TypeOK
  <2>3. undisturbed
    BY <2>1, <2>2
  <2> QED
    BY <1>1, <1>2, <1>8, <2>1, <2>3, WriteFailsKnows
<1>9. CASE GetMerkleProof \/ GetElements \/ GetRoot
  <2>0. undisturbed' => undisturbed
    BY <1>9 DEF GetMerkleProof, GetElements, GetRoot
  <2>1. ~torn /\ (spent.error = 0 \/ undisturbed) /\ treeLength' = treeLength
    BY <1>9, <2>0 DEF GetMerkleProof, GetElements, GetRoot, writing
  <2> QED
    BY <1>1, <1>2, <1>9, <2>1, ReadsKnow
<1>10. CASE Return
  <2>1. ~torn /\ (spent.error = 0 \/ undisturbed) /\ treeLength' = treeLength
    BY <1>10 DEF Return, writing
  <2> QED
    BY <1>1, <1>2, <1>10, <2>1, ReturnKnows
<1>11. CASE Restart
  <2>1. ~torn /\ ~(spent.error > 0)
    BY <1>11 DEF Restart
  <2>2. spent.error \in Nat
    BY BoundsAreNumbers DEF TypeOK
  <2>3. spent.error = 0 /\ treeLength' = treeLength
    BY <1>11, <2>1, <2>2 DEF Restart
  <2> QED
    BY <1>1, <1>2, <1>11, <2>1, <2>3, RestartKnows
<1>12. ASSUME NEW n \in Node, DbGet(n) PROVE \E K \in (treeLength..Width(0))' : Knows(K)'
  <2>1. ~torn /\ (spent.error = 0 \/ undisturbed) /\ treeLength' = treeLength
    BY <1>12 DEF DbGet, writing
  <2> QED
    BY <1>1, <1>2, <1>12, <2>1, DbGetKnows
<1>13. ASSUME NEW n \in Node, CacheNodeHash(n)
       PROVE  \E K \in (treeLength..Width(0))' : Knows(K)'
  <2>1. ~torn /\ (spent.error = 0 \/ undisturbed) /\ treeLength' = treeLength
    BY <1>13 DEF CacheNodeHash, writing
  <2> QED
    BY <1>1, <1>2, <1>13, <2>1, CacheNodeHashKnows
<1> QED
  BY <1>3, <1>4, <1>5, <1>6, <1>7, <1>8, <1>9, <1>10, <1>11, <1>12, <1>13 DEF Next
-----------------------------------------------------------------------------
(* The inductive invariant: there is a number K of leaves, those of the tree or
   more when the length was not written, such that every node read from memory
   or disk is that of the tree with K leaves, but right nodes that a proof may
   have cached over newer ones, and those begin before the next group.       *)
NodesInvariant == TypeOK /\ GroupShape /\ Reading /\ Sound

(* While the process was not restarted after a failed write, and no write failed
   or no proof overlapped one, fillHashWriteGroup, getNodeHash and
   getMerkleProof all see one tree, in memory and on disk together.          *)
THEOREM NodesAreOfOneTree == Spec => []NodesInvariant
<1>1. Init => NodesInvariant
  <2> SUFFICES ASSUME Init PROVE NodesInvariant
    OBVIOUS
  <2>1. GroupShape
    BY DEF Init, GroupShape
  <2> QED
    BY <2>1, InitTypes, InitSound DEF NodesInvariant
<1>2. NodesInvariant /\ [Next]_vars => NodesInvariant'
  <2> SUFFICES ASSUME NodesInvariant, [Next]_vars PROVE NodesInvariant'
    OBVIOUS
  <2>1. CASE Next
    BY <2>1, TypesNext, ShapeNext, SoundNext DEF NodesInvariant
  <2>2. CASE UNCHANGED vars
    <3>1. TypeOK'
      BY <2>2 DEF NodesInvariant, TypeOK, AreHashes, Written, vars, writing, reading
    <3>2. GroupShape' /\ Reading'
      BY <2>2 DEF NodesInvariant, GroupShape, Reading, Asked, Written, First, End,
                  vars, writing, reading
    <3>3. Sound'
      <4>1. \A n : (Passed(n)' <=> Passed(n)) /\ NodeHash(n)' = NodeHash(n) /\ Stored(n)' = Stored(n)
        <5>1. UNCHANGED <<cachedNodeHashes, storedNodes, treeLength, writer, end, undisturbed>>
          BY <2>2 DEF vars, writing, reading
        <5> TAKE n
        <5>2. Passed(n)' <=> Passed(n)
          BY <5>1 DEF Passed, Lookable, First
        <5>3. NodeHash(n)' = NodeHash(n)
          BY <5>1 DEF NodeHash, Overlay
        <5>4. Stored(n)' = Stored(n)
          BY <5>1 DEF Stored
        <5> QED
          BY <5>2, <5>3, <5>4
      <4>2. ASSUME NEW K PROVE Knows(K)' <=> Knows(K)
        <5>1. NodesOf(K)' <=> NodesOf(K)
          BY <2>2, <4>1 DEF NodesOf, vars, writing, reading
        <5>2. GroupOf(K)' <=> GroupOf(K)
          BY <2>2 DEF GroupOf, Later, Written, vars, writing, reading
        <5>3. DiskOf(K)' <=> DiskOf(K)
          BY <2>2, <4>1 DEF DiskOf, Later, vars, writing, reading
        <5>4. ProofOf(K)' <=> ProofOf(K)
          BY <2>2 DEF ProofOf, Written, vars, writing, reading
        <5> QED
          BY <5>1, <5>2, <5>3, <5>4 DEF Knows
      <4>3. /\ (~torn /\ (spent.error = 0 \/ undisturbed))' <=>
                 ~torn /\ (spent.error = 0 \/ undisturbed)
            /\ (treeLength..Width(0))' = treeLength..Width(0)
        BY <2>2 DEF vars, writing, reading, Width
      <4> QED
        BY <4>2, <4>3 DEF NodesInvariant, Sound
    <3> QED
      BY <3>1, <3>2, <3>3 DEF NodesInvariant
  <2> QED
    BY <2>1, <2>2
<1> QED
  BY <1>1, <1>2, PTL DEF Spec

\* Every variable has its type, and every hash the leaves its level has below.
THEOREM NodesAreTyped == Spec => []TypeOK
<1>1. NodesInvariant => TypeOK
  BY DEF NodesInvariant
<1> QED
  BY <1>1, NodesAreOfOneTree, PTL

(* The root that fillHashWriteGroup computes for a group, which the validator
   compares with the contract's, is that of a tree that begins with the leaves
   stored and those of the group: a node that getMerkleProof cached late is
   never below it, unless a write failed.                                    *)
THEOREM GroupRootsAreGenuine == Spec => []GroupRootIsGenuine
<1>1. NodesInvariant => GroupRootIsGenuine
  <2> SUFFICES ASSUME NodesInvariant, writer # "idle", ~torn,
                      spent.error = 0 \/ undisturbed
               PROVE  \E k \in end..Width(0) : group[RootNode] = Reference(k)[RootNode]
    BY DEF GroupRootIsGenuine
  <2>1. PICK K \in treeLength..Width(0) : Knows(K)
    BY DEF NodesInvariant, Sound
  <2>2. /\ treeLength \in Nat /\ end \in Nat /\ Width(0) \in Nat /\ end <= Width(0)
        /\ treeLength < end
    BY LengthFacts DEF NodesInvariant, GroupShape
  <2>3. group[RootNode] # None
    <3>1. First(RootNode) = 0 /\ End(RootNode) = Width(0)
      <4>1. RootNode[1] = Depth /\ RootNode[2] = 0 /\ Width(0) = size[Depth]
        BY NodeFacts, WidthFacts
      <4>2. size[Depth] \in Nat /\ 0 * size[Depth] = 0
        BY <2>2, <4>1
      <4> QED
        BY <4>1, <4>2 DEF First, End
    <3>2. group[RootNode] = None => End(RootNode) <= treeLength \/ end <= First(RootNode)
      BY NodeFacts DEF NodesInvariant, GroupShape
    <3> QED
      BY <2>2, <3>1, <3>2
  <2>4. group[RootNode] = Reference(Later(K, end))[RootNode]
    BY <2>1, <2>3, NodeFacts DEF Knows, GroupOf, Written
  <2>5. Later(K, end) \in end..Width(0)
    BY <2>1, <2>2 DEF Later
  <2> QED
    BY <2>4, <2>5
<1> QED
  BY <1>1, NodesAreOfOneTree, PTL

\* The leaves of a tree are the hashes of what was inserted
LEMMA ReferenceLeaf ==
  ASSUME NEW k \in Nat, NEW i \in Position, i < k
  PROVE  Reference(k)[<<0, i>>] = LeafHash(i)
<1> DEFINE n == <<0, i>>
<1>1. n \in Node
  BY ElementsFacts
<1>2. size[n[1]] = 1 /\ First(n) = i
  <2>1. n[1] = 0 /\ n[2] = i /\ size[0] = 1
    BY SizeFacts
  <2>2. i \in Nat /\ i * 1 = i
    BY WidthFacts, LevelFacts DEF Position
  <2> HIDE DEF n
  <2> QED
    BY <2>1, <2>2 DEF First
<1> HIDE DEF n
<1>3. Reference(k)[n] = [j \in 1..1 |-> IF i + j - 1 < k THEN i + j ELSE 0]
  <2>1. Reference(k)[n] = [j \in 1..size[n[1]] |->
                             IF First(n) + j - 1 < k THEN First(n) + j ELSE 0]
    BY <1>1, ReferenceIs
  <2> QED
    BY <1>2, <2>1
<1>4. \A j \in 1..1 : (IF i + j - 1 < k THEN i + j ELSE 0) = i + 1
  <2>1. i \in Nat
    BY WidthFacts, LevelFacts DEF Position
  <2> QED
    BY <2>1
<1>5. [j \in 1..1 |-> i + 1] = <<i + 1>>
  OBVIOUS
<1>6. Reference(k)[n] = [j \in 1..1 |-> i + 1]
  BY <1>3, <1>4
<1> QED
  BY <1>5, <1>6 DEF LeafHash, n

(* A proof that getMerkleProof returns while no write has overlapped one passes
   verifyMerkleProof: its elements are of one tree, and so are its leaf, which is
   the one asked for, and its root, even when a write has failed before, or a read
   of another proof.                                                         *)
THEOREM UndisturbedProofsHold == Spec => []UndisturbedProofsVerify
<1>1. NodesInvariant => UndisturbedProofsVerify
  <2> SUFFICES ASSUME NodesInvariant, ProofDone, undisturbed, ~torn, misread = {}
               PROVE  /\ Verifies
                      /\ answers[<<0, leaf>>] = LeafHash(leaf)
                      /\ \E k \in treeLength..Width(0) : answers[RootNode] = Reference(k)[RootNode]
    BY DEF UndisturbedProofsVerify
  <2>1. PICK K \in treeLength..Width(0) : Knows(K)
    BY DEF NodesInvariant, Sound
  <2>2. K \in Nat /\ leaf \in Position /\ leaf < K
    <3>1. treeLength \in Nat /\ Width(0) \in Nat /\ leaf < treeLength
      BY LengthFacts DEF NodesInvariant, Reading, ProofDone
    <3>2. leaf \in Position /\ leaf \in Nat
      BY DEF NodesInvariant, TypeOK, Position
    <3> QED
      BY <2>1, <3>1, <3>2
  <2>3. Written(answers) = {<<0, leaf>>, RootNode} \union Elements(leaf)
    BY FreshFacts DEF NodesInvariant, ProofDone
  <2>4. \A n \in Written(answers) : answers[n] = Reference(K)[n]
    BY <2>1 DEF Knows, ProofOf
  <2>5. Verifies
    BY <2>2, <2>3, <2>4, OneTreeVerifies
  <2>6. answers[<<0, leaf>>] = LeafHash(leaf)
    BY <2>2, <2>3, <2>4, ReferenceLeaf
  <2>7. answers[RootNode] = Reference(K)[RootNode]
    BY <2>3, <2>4
  <2> QED
    BY <2>1, <2>5, <2>6, <2>7
<1> QED
  BY <1>1, NodesAreOfOneTree, PTL
=============================================================================
