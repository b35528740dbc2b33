------------------------- MODULE CommonBufferProofs -------------------------
(*************************************************************************)
(* Theorems about CommonBuffer, for every node size and every capacity:  *)
(* the list of nodes is sound whenever it is looked at, what was seen    *)
(* without the mutex still holds under it, and the list implements the   *)
(* first-in-first-out store of ByteFifo.                                 *)
(*                                                                       *)
(* What a list of nodes stores is FlattenSeq of the contents of its nodes, *)
(* which is defined by recursion.  The first section proves what is needed *)
(* of it by induction: how it grows at its end and shrinks at its front. *)
(*************************************************************************)
EXTENDS CommonBuffer, SequenceTheorems, WellFoundedInduction, TLAPS

-----------------------------------------------------------------------------
(* Sequences of sequences *)

\* Induction over the naturals, in the form of a set that 0 and successors are in.
LEMMA SetInduction ==
  ASSUME NEW A, 0 \in A, \A n \in Nat : n \in A => n + 1 \in A
  PROVE  Nat \subseteq A
<1> DEFINE R == OpToRel(<, Nat)
           T == Nat \ A
<1>1. IsWellFoundedOn(R, Nat)
  BY NatLessThanWellFounded
<1>2. \A x, y \in Nat : <<x, y>> \in R <=> x < y
  BY DEF OpToRel
<1> HIDE DEF R
<1>3. T \subseteq Nat
  OBVIOUS
<1> HIDE DEF T
<1>4. SUFFICES ASSUME T # {} PROVE FALSE
  BY DEF T
<1>5. PICK x \in T : \A y \in T : ~(<<y, x>> \in R)
  BY <1>1, <1>3, <1>4, WFMin
<1>6. x \in Nat /\ x # 0
  BY <1>3, <1>5 DEF T
<1>7. x - 1 \in Nat /\ x - 1 < x /\ (x - 1) + 1 = x
  BY <1>6
<1>8. x - 1 \in A
  BY <1>2, <1>5, <1>6, <1>7 DEF T
<1> QED  BY <1>5, <1>7, <1>8 DEF T

\* f is the function that FlattenSeq defines by recursion, for the first n of ss.
Flattens(f, n, ss) == f = [i \in 1..n |-> IF i = 1 THEN ss[i] ELSE f[i - 1] \o ss[i]]

\* There is such a function for every n.
LEMMA FlattensExists ==
  ASSUME NEW ss, NEW n \in Nat
  PROVE  \E f : Flattens(f, n, ss)
<1> DEFINE A == {m \in Nat : \E f : Flattens(f, m, ss)}
<1>1. 0 \in A
  <2> DEFINE f == [i \in 1..0 |-> i]
  <2>1. Flattens(f, 0, ss)
    BY DEF Flattens
  <2> QED  BY <2>1
<1>2. ASSUME NEW m \in Nat, m \in A PROVE m + 1 \in A
  <2>1. PICK f : Flattens(f, m, ss)
    BY <1>2
  <2> DEFINE g == [i \in 1..m + 1 |-> IF i = m + 1 THEN IF i = 1 THEN ss[i] ELSE f[m] \o ss[i]
                                      ELSE f[i]]
  <2>2. \A i \in 1..m : f[i] = IF i = 1 THEN ss[i] ELSE f[i - 1] \o ss[i]
    BY <2>1 DEF Flattens
  <2>3. \A i \in 1..m : g[i] = f[i]
    OBVIOUS
  <2>4. \A i \in 1..m + 1 : g[i] = IF i = 1 THEN ss[i] ELSE g[i - 1] \o ss[i]
    <3> SUFFICES ASSUME NEW i \in 1..m + 1
                 PROVE  g[i] = IF i = 1 THEN ss[i] ELSE g[i - 1] \o ss[i]
      OBVIOUS
    <3>1. i # 1 => g[i - 1] = f[i - 1]
      BY <2>3
    <3>2. CASE i = m + 1
      <4>1. g[i] = IF i = 1 THEN ss[i] ELSE f[m] \o ss[i]
        BY <3>2
      <4>2. i - 1 = m
        BY <3>2
      <4> QED  BY <3>1, <4>1, <4>2
    <3>3. CASE i # m + 1
      <4>1. i \in 1..m /\ g[i] = f[i]
        BY <2>3, <3>3
      <4> QED  BY <2>2, <3>1, <4>1
    <3> QED  BY <3>2, <3>3
  <2>5. Flattens(g, m + 1, ss)
    BY <2>4 DEF Flattens
  <2> QED  BY <2>5
<1> HIDE DEF A
<1>3. n \in A
  BY <1>1, <1>2, SetInduction
<1> QED  BY <1>3 DEF A

\* The last value of any such function is what FlattenSeq yields.
LEMMA FlattenIs ==
  ASSUME NEW ss, Len(ss) \in Nat \ {0}
  PROVE  \E f : Flattens(f, Len(ss), ss) /\ FlattenSeq(ss) = f[Len(ss)]
<1> DEFINE f == CHOOSE g : Flattens(g, Len(ss), ss)
<1>1. Flattens(f, Len(ss), ss)
  BY FlattensExists
<1>2. FlattenSeq(ss) = f[Len(ss)]
  BY DEF FlattenSeq, Flattens
<1> QED  BY <1>1, <1>2

\* Two such functions agree as far as the sequences do.
LEMMA FlattensAgree ==
  ASSUME NEW n \in Nat, NEW m \in Nat, NEW a, NEW b, NEW f, NEW g, n <= m,
         Flattens(f, n, a), Flattens(g, m, b), \A i \in 1..n : a[i] = b[i]
  PROVE  \A i \in 1..n : f[i] = g[i]
<1> DEFINE A == {i \in Nat : i + 1 \in 1..n => f[i + 1] = g[i + 1]}
<1>1. \A i \in 1..n : f[i] = IF i = 1 THEN a[i] ELSE f[i - 1] \o a[i]
  BY DEF Flattens
<1>2. \A i \in 1..n : g[i] = IF i = 1 THEN a[i] ELSE g[i - 1] \o a[i]
  <2>1. \A i \in 1..m : g[i] = IF i = 1 THEN b[i] ELSE g[i - 1] \o b[i]
    BY DEF Flattens
  <2> QED  BY <2>1
<1>3. 0 \in A
  BY <1>1, <1>2
<1>4. ASSUME NEW i \in Nat, i \in A PROVE i + 1 \in A
  <2> SUFFICES ASSUME i + 2 \in 1..n PROVE f[i + 2] = g[i + 2]
    OBVIOUS
  <2>1. f[i + 1] = g[i + 1]
    BY <1>4
  <2>2. f[i + 2] = f[i + 1] \o a[i + 2] /\ g[i + 2] = g[i + 1] \o a[i + 2]
    <3> DEFINE k == i + 2
    <3>1. k \in 1..n /\ k # 1 /\ k - 1 = i + 1
      OBVIOUS
    <3> HIDE DEF k
    <3>2. f[k] = f[k - 1] \o a[k] /\ g[k] = g[k - 1] \o a[k]
      BY <1>1, <1>2, <3>1
    <3> QED  BY <3>1, <3>2 DEF k
  <2> QED  BY <2>1, <2>2
<1> HIDE DEF A
<1>5. Nat \subseteq A
  BY <1>3, <1>4, SetInduction
<1>6. SUFFICES ASSUME NEW i \in 1..n PROVE f[i] = g[i]
  OBVIOUS
<1>7. i - 1 \in A /\ (i - 1) + 1 = i
  BY <1>5
<1> QED  BY <1>7 DEF A

\* Concatenation is associative.
LEMMA Associative ==
  ASSUME NEW S
  PROVE  \A x, y, z \in Seq(S) : (x \o y) \o z = x \o (y \o z)
BY ConcatAssociative

\* Nothing is stored in no nodes.
LEMMA FlattenEmpty == FlattenSeq(<<>>) = <<>>
  BY DEF FlattenSeq

\* The values of such a function are sequences.
LEMMA FlattensType ==
  ASSUME NEW S, NEW n \in Nat, NEW ss, NEW f, Flattens(f, n, ss),
         \A i \in 1..n : ss[i] \in Seq(S)
  PROVE  \A i \in 1..n : f[i] \in Seq(S)
<1> DEFINE A == {i \in Nat : i + 1 \in 1..n => f[i + 1] \in Seq(S)}
<1>1. \A i \in 1..n : f[i] = IF i = 1 THEN ss[i] ELSE f[i - 1] \o ss[i]
  BY DEF Flattens
<1>2. 0 \in A
  BY <1>1
<1>3. ASSUME NEW i \in Nat, i \in A PROVE i + 1 \in A
  <2> SUFFICES ASSUME i + 2 \in 1..n PROVE f[i + 2] \in Seq(S)
    OBVIOUS
  <2> DEFINE k == i + 2
  <2>1. k \in 1..n /\ k # 1 /\ k - 1 = i + 1 /\ f[i + 1] \in Seq(S)
    BY <1>3
  <2> HIDE DEF k
  <2>2. f[k] = f[k - 1] \o ss[k] /\ ss[k] \in Seq(S)
    BY <1>1, <2>1
  <2>3. f[k] \in Seq(S)
    BY <2>1, <2>2, ConcatProperties
  <2> QED  BY <2>3 DEF k
<1> HIDE DEF A
<1>4. Nat \subseteq A
  BY <1>2, <1>3, SetInduction
<1>5. SUFFICES ASSUME NEW i \in 1..n PROVE f[i] \in Seq(S)
  OBVIOUS
<1>6. i - 1 \in A /\ (i - 1) + 1 = i
  BY <1>4
<1> QED  BY <1>6 DEF A

\* FlattenSeq yields a sequence.
LEMMA FlattenType ==
  ASSUME NEW S, NEW ss \in Seq(Seq(S))
  PROVE  FlattenSeq(ss) \in Seq(S)
<1>1. Len(ss) \in Nat /\ \A i \in 1..Len(ss) : ss[i] \in Seq(S)
  BY LenProperties
<1>2. CASE Len(ss) = 0
  <2>1. ss = <<>>
    BY <1>2, EmptySeq
  <2> QED  BY <2>1, FlattenEmpty, EmptySeq
<1>3. CASE Len(ss) # 0
  <2>1. PICK f : Flattens(f, Len(ss), ss) /\ FlattenSeq(ss) = f[Len(ss)]
    BY <1>1, <1>3, FlattenIs
  <2>2. f[Len(ss)] \in Seq(S)
    BY <1>1, <1>3, <2>1, FlattensType
  <2> QED  BY <2>1, <2>2
<1> QED  BY <1>2, <1>3

\* What is appended comes last.
LEMMA FlattenAppend ==
  ASSUME NEW S, NEW ss \in Seq(Seq(S)), NEW s \in Seq(S)
  PROVE  FlattenSeq(Append(ss, s)) = FlattenSeq(ss) \o s
<1> DEFINE t == Append(ss, s)
           n == Len(ss)
<1>1. /\ t \in Seq(Seq(S)) /\ Len(t) = n + 1 /\ t[n + 1] = s /\ n \in Nat
      /\ \A i \in 1..n : t[i] = ss[i]
  BY AppendProperties, LenProperties
<1> HIDE DEF t
<1>2. PICK g : Flattens(g, n + 1, t) /\ FlattenSeq(t) = g[n + 1]
  BY <1>1, FlattenIs
<1>3. g[n + 1] = IF n = 0 THEN t[n + 1] ELSE g[n] \o t[n + 1]
  <2> DEFINE k == n + 1
  <2>1. k \in 1..k /\ (k = 1 <=> n = 0) /\ k - 1 = n /\ Flattens(g, k, t)
    BY <1>1, <1>2
  <2> HIDE DEF k
  <2>2. g[k] = IF k = 1 THEN t[k] ELSE g[k - 1] \o t[k]
    BY <2>1 DEF Flattens
  <2> QED  BY <2>1, <2>2 DEF k
<1>4. CASE n = 0
  <2>1. ss = <<>>
    BY <1>4, EmptySeq
  <2>2. FlattenSeq(ss) \o s = s
    BY <2>1, FlattenEmpty, ConcatEmptySeq
  <2> QED  BY <1>1, <1>2, <1>3, <1>4, <2>2 DEF t
<1>5. CASE n # 0
  <2>1. PICK f : Flattens(f, n, ss) /\ FlattenSeq(ss) = f[n]
    BY <1>1, <1>5, FlattenIs
  <2>2. \A i \in 1..n : f[i] = g[i]
    <3>1. n \in Nat /\ n + 1 \in Nat /\ n <= n + 1 /\ \A i \in 1..n : ss[i] = t[i]
      BY <1>1
    <3> HIDE DEF n
    <3> QED  BY <1>2, <2>1, <3>1, FlattensAgree
  <2>3. f[n] = g[n] /\ g[n + 1] = g[n] \o s
    BY <1>1, <1>3, <1>5, <2>2
  <2> QED  BY <1>2, <2>1, <2>3 DEF t
<1> QED  BY <1>4, <1>5

\* What is put in front comes first.
LEMMA FlattenCons ==
  ASSUME NEW S, NEW ss \in Seq(Seq(S)), NEW s \in Seq(S)
  PROVE  FlattenSeq(<<s>> \o ss) = s \o FlattenSeq(ss)
<1> DEFINE t == <<s>> \o ss
           n == Len(ss)
<1>0. \A x, y, z \in Seq(S) : (x \o y) \o z = x \o (y \o z)
  BY Associative
<1>1. n \in Nat /\ \A i \in 1..n : ss[i] \in Seq(S)
  BY LenProperties
<1>2. t \in Seq(Seq(S)) /\ Len(t) = n + 1 /\ t[1] = s /\ \A i \in 1..n : t[i + 1] = ss[i]
  <2>1. <<s>> \in Seq(Seq(S)) /\ Len(<<s>>) = 1 /\ <<s>>[1] = s
    OBVIOUS
  <2>2. /\ t \in Seq(Seq(S)) /\ Len(t) = 1 + n
        /\ \A i \in 1..1 + n : t[i] = IF i <= 1 THEN <<s>>[i] ELSE ss[i - 1]
    BY <2>1, ConcatProperties
  <2> HIDE DEF t
  <2>3. \A i \in 1..n : i + 1 \in 1..1 + n /\ ~(i + 1 <= 1) /\ (i + 1) - 1 = i
    BY <1>1
  <2> QED  BY <1>1, <2>1, <2>2, <2>3
<1> HIDE DEF t
<1>3. PICK g : Flattens(g, n + 1, t) /\ FlattenSeq(t) = g[n + 1]
  BY <1>1, <1>2, FlattenIs
<1>4. \A i \in 1..n + 1 : g[i] = IF i = 1 THEN t[i] ELSE g[i - 1] \o t[i]
  BY <1>3 DEF Flattens
<1>5. g[1] = s
  BY <1>1, <1>2, <1>4
<1>6. CASE n = 0
  <2>1. ss = <<>>
    BY <1>6, EmptySeq
  <2>2. s \o FlattenSeq(ss) = s
    BY <2>1, FlattenEmpty, ConcatEmptySeq
  <2> QED  BY <1>3, <1>5, <1>6, <2>2 DEF t
<1>7. CASE n # 0
  <2>1. PICK f : Flattens(f, n, ss) /\ FlattenSeq(ss) = f[n]
    BY <1>1, <1>7, FlattenIs
  <2>2. \A i \in 1..n : f[i] \in Seq(S)
    BY <1>1, <2>1, FlattensType
  <2>3. \A i \in 1..n : f[i] = IF i = 1 THEN ss[i] ELSE f[i - 1] \o ss[i]
    BY <2>1 DEF Flattens
  <2> DEFINE A == {i \in Nat : i + 1 \in 1..n => g[i + 2] = s \o f[i + 1]}
  <2>4. \A i \in 1..n : g[i + 1] = g[i] \o ss[i]
    <3> SUFFICES ASSUME NEW i \in 1..n PROVE g[i + 1] = g[i] \o ss[i]
      OBVIOUS
    <3> DEFINE k == i + 1
    <3>1. k \in 1..n + 1 /\ k # 1 /\ k - 1 = i /\ t[k] = ss[i]
      BY <1>1, <1>2
    <3> HIDE DEF k
    <3>2. g[k] = g[k - 1] \o t[k]
      BY <1>4, <3>1
    <3> QED  BY <3>1, <3>2 DEF k
  <2>5. 0 \in A
    <3>1. 1 \in 1..n
      BY <1>1, <1>7
    <3>2. g[1 + 1] = g[1] \o ss[1] /\ f[1] = ss[1]
      BY <2>3, <2>4, <3>1
    <3>3. g[2] = s \o f[1]
      BY <1>5, <3>2
    <3>4. 0 + 2 = 2 /\ 0 + 1 = 1
      OBVIOUS
    <3> QED  BY <3>3, <3>4, Zenon
  <2>6. ASSUME NEW i \in Nat, i \in A PROVE i + 1 \in A
    <3> SUFFICES ASSUME i + 2 \in 1..n PROVE g[i + 3] = s \o f[i + 2]
      OBVIOUS
    <3> DEFINE k == i + 2
               j == i + 1
    <3>1. k \in 1..n /\ j \in 1..n /\ k # 1 /\ k - 1 = j /\ k + 1 = i + 3 /\ j + 1 = k
      BY <1>1
    <3>2. g[k] = s \o f[j]
      BY <2>6, <3>1
    <3> HIDE DEF k, j
    <3>3. g[k + 1] = g[k] \o ss[k] /\ f[k] = f[j] \o ss[k]
      BY <2>3, <2>4, <3>1
    <3>4. (s \o f[j]) \o ss[k] = s \o (f[j] \o ss[k])
      <4>1. f[j] \in Seq(S) /\ ss[k] \in Seq(S)
        BY <1>1, <2>2, <3>1
      <4> QED  BY <1>0, <4>1
    <3>5. g[k + 1] = s \o f[k]
      BY <3>2, <3>3, <3>4
    <3> QED  BY <3>1, <3>5 DEF k
  <2> HIDE DEF A
  <2>7. n - 1 \in A /\ (n - 1) + 1 = n /\ (n - 1) + 2 = n + 1
    <3>1. Nat \subseteq A
      BY <2>5, <2>6, SetInduction
    <3> QED  BY <1>1, <1>7, <3>1
  <2>8. g[n + 1] = s \o f[n]
    BY <1>1, <1>7, <2>7 DEF A
  <2> QED  BY <1>3, <2>1, <2>8 DEF t
<1> QED  BY <1>6, <1>7

-----------------------------------------------------------------------------
(* Arithmetic modulo m *)

\* What the provers know of a remainder.
LEMMA ModDef ==
  ASSUME NEW a \in Int, NEW m \in Nat \ {0}
  PROVE  a % m \in 0..m - 1 /\ a \div m \in Int /\ a = m * (a \div m) + (a % m)
OBVIOUS

\* The remainder of what is at most one turn too small or too large.
LEMMA ModRange ==
  ASSUME NEW m \in Nat \ {0}, NEW z \in Int, -m <= z, z < m + m
  PROVE  z % m = IF z < 0 THEN z + m ELSE IF z < m THEN z ELSE z - m
<1> DEFINE q == z \div m
           r == z % m
<1>1. r \in 0..m - 1 /\ q \in Int /\ z = m * q + r
  BY ModDef
<1> HIDE DEF q, r
<1>2. q >= 2 => m * q >= m + m
  BY <1>1
<1>3. q <= -2 => m * q <= -m - m
  BY <1>1
<1>4. q \in {-1, 0, 1}
  BY <1>1, <1>2, <1>3
<1>5. CASE q = -1
  BY <1>1, <1>5 DEF r
<1>6. CASE q = 0
  BY <1>1, <1>6 DEF r
<1>7. CASE q = 1
  BY <1>1, <1>7 DEF r
<1> QED  BY <1>4, <1>5, <1>6, <1>7

-----------------------------------------------------------------------------
(* One node *)

\* end is where the next byte goes.
EndInv(node) == node.end = (node.beg + node.count) % NodeSize

\* [1..n -> S] are the sequences over S of length n.
LEMMA SeqOfLength ==
  ASSUME NEW S, NEW n \in Nat, NEW f \in [1..n -> S]
  PROVE  f \in Seq(S) /\ Len(f) = n
<1>1. f \in Seq(S)
  BY SeqDef
<1>2. Len(f) \in Nat /\ DOMAIN f = 1..Len(f)
  BY <1>1, LenProperties
<1>3. DOMAIN f = 1..n
  OBVIOUS
<1> QED  BY <1>1, <1>2, <1>3

\* The sizes are positive.
LEMMA Sizes ==
  /\ NodeSize \in Nat \ {0} /\ MaxSize \in Nat \ {0} /\ NumBytes \in Nat \ {0}
  /\ MaxChunk \in 1..MaxSize
  BY SizesAssumption, BoundAssumption

\* A node has count bytes.
LEMMA ContentType ==
  ASSUME NEW node \in Nodes
  PROVE  /\ Content(node) \in Seq(Bytes) /\ Len(Content(node)) = node.count
         /\ \A k \in 1..node.count : Content(node)[k] = node.buffer[(node.beg + k - 1) % NodeSize]
<1>1. \A k \in 1..node.count : (node.beg + k - 1) % NodeSize \in Index
  <2> SUFFICES ASSUME NEW k \in 1..node.count PROVE (node.beg + k - 1) % NodeSize \in Index
    OBVIOUS
  <2>1. node.beg + k - 1 \in Int
    BY Sizes DEF Nodes, Index
  <2> QED  BY <2>1, ModDef, Sizes DEF Index
<1>2. Content(node) \in [1..node.count -> Bytes]
  BY <1>1 DEF Content, Nodes
<1>3. node.count \in Nat
  BY Sizes DEF Nodes
<1> QED  BY <1>2, <1>3, SeqOfLength DEF Content

\* The bytes that a push of n takes from the stream.
Fresh(n) == [k \in 1..n |-> (next + k - 1) % NumBytes]

\* They are n bytes.
LEMMA FreshType ==
  ASSUME next \in Bytes, NEW n \in Nat
  PROVE  Fresh(n) \in Seq(Bytes) /\ Len(Fresh(n)) = n
<1>1. \A k \in 1..n : next + k - 1 \in Int
  BY DEF Bytes
<1>2. Fresh(n) \in [1..n -> Bytes]
  BY <1>1, ModDef, Sizes DEF Fresh, Bytes
<1> QED  BY <1>2, SeqOfLength

\* The same for the places of a node.
LEMMA Wrap ==
  ASSUME NEW z \in Int, -NodeSize <= z, z < NodeSize + NodeSize
  PROVE  z % NodeSize = IF z < 0 THEN z + NodeSize
                        ELSE IF z < NodeSize THEN z ELSE z - NodeSize
  BY ModRange, Sizes

\* A place after a step forward.
LEMMA WrapSum ==
  ASSUME NEW z \in Int, 0 <= z, z < NodeSize + NodeSize
  PROVE  z % NodeSize = (IF z < NodeSize THEN z ELSE z - NodeSize) /\ z % NodeSize \in Index
<1>1. /\ -NodeSize <= z
      /\ (IF z < NodeSize THEN z ELSE z - NodeSize) \in 0..NodeSize - 1
  BY Sizes
<1>2. z % NodeSize = (IF z < NodeSize THEN z ELSE z - NodeSize)
  BY <1>1, Wrap
<1> QED  BY <1>1, <1>2 DEF Index

\* The distance of two places.
LEMMA WrapDifference ==
  ASSUME NEW i \in 0..NodeSize - 1, NEW j \in 0..NodeSize - 1, NEW z, z = i - j
  PROVE  z % NodeSize = (IF z < 0 THEN z + NodeSize ELSE z) /\ z % NodeSize \in Index
<1>1. /\ z \in Int /\ -NodeSize <= z /\ z < NodeSize /\ z < NodeSize + NodeSize
      /\ (IF z < 0 THEN z + NodeSize ELSE z) \in 0..NodeSize - 1
  BY Sizes
<1>2. z % NodeSize = (IF z < 0 THEN z + NodeSize ELSE z)
  BY <1>1, Wrap
<1> QED  BY <1>1, <1>2 DEF Index

\* The distance from end, at e, to the k-th byte of a ring of m places with c
\* bytes from b on: only the free places are among the first m - c.
LEMMA Distance ==
  ASSUME NEW m \in Nat, NEW b \in 0..m - 1, NEW c \in 0..m, NEW k \in 1..m,
         NEW e \in Int, e = (IF b + c < m THEN b + c ELSE b + c - m),
         NEW x \in Int, x = (IF b + k - 1 < m THEN b + k - 1 ELSE b + k - 1 - m),
         NEW d \in Int, d = (IF x < e THEN x - e + m ELSE x - e)
  PROVE  d = IF k <= c THEN m - c + k - 1 ELSE k - 1 - c
  OBVIOUS

\* A push of n bytes appends them to the content of the node.
LEMMA PushNodeContent ==
  ASSUME next \in Bytes, NEW node \in Nodes, EndInv(node), NEW n \in 0..NodeSize - node.count
  PROVE  /\ PushNode(node, n) \in Nodes /\ EndInv(PushNode(node, n))
         /\ PushNode(node, n).count = node.count + n
         /\ PushNode(node, n).beg = node.beg
         /\ Content(PushNode(node, n)) = Content(node) \o Fresh(n)
<1> DEFINE new == PushNode(node, n)
           c == node.count
           b == node.beg
           e == node.end
           off(k) == (k - e) % NodeSize
           B == [k \in Index |-> IF off(k) < n THEN (next + off(k)) % NumBytes
                                 ELSE node.buffer[k]]
           u == b + c
           v == e + n
           w == b + (c + n)
<1>1. /\ c \in 0..NodeSize /\ b \in 0..NodeSize - 1 /\ e \in 0..NodeSize - 1
      /\ n \in 0..NodeSize /\ c + n <= NodeSize /\ c + n \in 0..NodeSize /\ e = u % NodeSize
      /\ node.buffer \in [Index -> Bytes]
  BY Sizes DEF Nodes, Index, EndInv
<1>2. new.buffer = B /\ new.beg = b /\ new.end = v % NodeSize /\ new.count = c + n
  BY DEF PushNode, Nodes
<1>o. \A k \in Index : /\ off(k) \in Index
                       /\ off(k) = IF k < e THEN k - e + NodeSize ELSE k - e
  <2> SUFFICES ASSUME NEW k \in Index
               PROVE  off(k) \in Index /\ off(k) = IF k < e THEN k - e + NodeSize ELSE k - e
    OBVIOUS
  <2> DEFINE z == k - e
  <2>1. k \in 0..NodeSize - 1 /\ z = k - e
    BY DEF Index
  <2> HIDE DEF z
  <2>2. z % NodeSize = (IF z < 0 THEN z + NodeSize ELSE z) /\ z % NodeSize \in Index
    BY <1>1, <2>1, WrapDifference
  <2> QED  BY <1>1, <2>1, <2>2, Sizes DEF z
<1>3. B \in [Index -> Bytes]
  <2>1. \A k \in Index : (next + off(k)) % NumBytes \in Bytes
    <3> SUFFICES ASSUME NEW k \in Index PROVE (next + off(k)) % NumBytes \in Bytes
      OBVIOUS
    <3> DEFINE z == next + off(k)
    <3>1. z \in Int
      BY <1>o, Sizes DEF Bytes, Index
    <3> HIDE DEF z
    <3>2. z % NumBytes \in Bytes
      BY <3>1, ModDef, Sizes DEF Bytes
    <3> QED  BY <3>2 DEF z
  <2> QED  BY <1>1, <2>1
<1>4. /\ u = b + c /\ v = e + n /\ w = b + (c + n)
      /\ u \in Int /\ v \in Int /\ w \in Int /\ 0 <= u /\ 0 <= v /\ 0 <= w
      /\ u < NodeSize + NodeSize /\ v < NodeSize + NodeSize /\ w < NodeSize + NodeSize
  <2> HIDE DEF b, c, e
  <2> QED  BY <1>1, Sizes
<1> HIDE DEF u, v, w, B
<1>5. /\ e = (IF u < NodeSize THEN u ELSE u - NodeSize)
      /\ v % NodeSize = (IF v < NodeSize THEN v ELSE v - NodeSize) /\ v % NodeSize \in Index
      /\ w % NodeSize = (IF w < NodeSize THEN w ELSE w - NodeSize)
  <2>1. u % NodeSize = (IF u < NodeSize THEN u ELSE u - NodeSize)
    BY <1>1, <1>4, WrapSum, Sizes
  <2>2. v % NodeSize = (IF v < NodeSize THEN v ELSE v - NodeSize) /\ v % NodeSize \in Index
    BY <1>1, <1>4, WrapSum, Sizes
  <2>3. w % NodeSize = (IF w < NodeSize THEN w ELSE w - NodeSize)
    BY <1>1, <1>4, WrapSum, Sizes
  <2> QED  BY <1>1, <2>1, <2>2, <2>3
<1>6. new \in Nodes
  <2>1. new = [node EXCEPT !.buffer = B, !.end = v % NodeSize, !.count = c + n]
    BY DEF PushNode, B, v
  <2> HIDE DEF new
  <2> QED  BY <1>1, <1>3, <1>5, <2>1 DEF Nodes
<1> HIDE DEF new
<1>7. EndInv(new)
  <2>1. v % NodeSize = w % NodeSize
    BY <1>1, <1>4, <1>5, Sizes
  <2> QED  BY <1>2, <2>1 DEF EndInv, w
<1>8. /\ Content(new) \in Seq(Bytes) /\ Len(Content(new)) = c + n
      /\ \A k \in 1..c + n : Content(new)[k] = B[(b + k - 1) % NodeSize]
  BY <1>2, <1>6, ContentType
<1>9. /\ Content(node) \o Fresh(n) \in Seq(Bytes) /\ Len(Content(node) \o Fresh(n)) = c + n
      /\ \A k \in 1..c + n : (Content(node) \o Fresh(n))[k] =
             IF k <= c THEN node.buffer[(b + k - 1) % NodeSize] ELSE (next + (k - c) - 1) % NumBytes
  <2> DEFINE s == Content(node)
             t == Fresh(n)
  <2>1. s \in Seq(Bytes) /\ Len(s) = c /\ \A k \in 1..c : s[k] = node.buffer[(b + k - 1) % NodeSize]
    BY ContentType
  <2>2. t \in Seq(Bytes) /\ Len(t) = n /\ \A k \in 1..n : t[k] = (next + k - 1) % NumBytes
    BY <1>1, FreshType, Sizes DEF Fresh
  <2> HIDE DEF s, t
  <2>3. s \o t \in Seq(Bytes)
    BY <2>1, <2>2
  <2>4. /\ Len(s \o t) = Len(s) + Len(t)
        /\ \A k \in 1..Len(s) + Len(t) : (s \o t)[k] = IF k <= Len(s) THEN s[k] ELSE t[k - Len(s)]
    BY <2>1, <2>2, ConcatProperties
  <2>5. \A k \in 1..c + n : IF k <= c THEN k \in 1..c ELSE k - c \in 1..n
    BY <1>1, Sizes
  <2>6. \A k \in 1..c + n : (s \o t)[k] =
             IF k <= c THEN node.buffer[(b + k - 1) % NodeSize] ELSE (next + (k - c) - 1) % NumBytes
    BY <1>1, <2>1, <2>2, <2>4, <2>5
  <2> QED  BY <2>1, <2>2, <2>3, <2>4, <2>6 DEF s, t
<1>10. \A k \in 1..c + n : Content(new)[k] = (Content(node) \o Fresh(n))[k]
  <2> SUFFICES ASSUME NEW k \in 1..c + n PROVE Content(new)[k] = (Content(node) \o Fresh(n))[k]
    OBVIOUS
  <2> DEFINE y == b + k - 1
             x == y % NodeSize
             j == k - 1
  <2>0. j \in 0..NodeSize - 1 /\ y = b + j /\ y \in Int /\ 0 <= y
        /\ y < NodeSize + NodeSize
    BY <1>1, Sizes
  <2> HIDE DEF y, j
  <2>1. x = (IF y < NodeSize THEN y ELSE y - NodeSize) /\ x \in Index
    BY <1>1, <2>0, WrapSum, Sizes
  <2> HIDE DEF x
  <2>3. off(x) = (IF x < e THEN x - e + NodeSize ELSE x - e) /\ off(x) \in Index
    BY <1>o, <2>1
  <2>4. Content(new)[k] = IF off(x) < n THEN (next + off(x)) % NumBytes ELSE node.buffer[x]
    BY <1>8, <2>1 DEF x, y, B
  <2>2. k \in 1..NodeSize
    BY <1>1, Sizes
  <2>7. off(x) = IF k <= c THEN NodeSize - c + k - 1 ELSE k - 1 - c
    <3>1. x = (IF b + k - 1 < NodeSize THEN b + k - 1 ELSE b + k - 1 - NodeSize) /\ x \in Int
      BY <2>1, <1>1, Sizes DEF y, Index
    <3>2. e = (IF b + c < NodeSize THEN b + c ELSE b + c - NodeSize) /\ e \in Int
      BY <1>1, <1>5, Sizes DEF u
    <3>3. off(x) \in Int
      BY <2>3, Sizes DEF Index
    <3> HIDE DEF off, c, b, e
    <3> QED  BY <1>1, <2>2, <2>3, <3>1, <3>2, <3>3, Distance, Sizes
  <2>5. CASE k <= c
    <3>1. ~(off(x) < n)
      BY <1>1, <2>2, <2>5, <2>7, Sizes
    <3> QED  BY <1>9, <2>4, <2>5, <3>1 DEF x, y
  <2>6. CASE ~(k <= c)
    <3>1. off(x) = k - c - 1 /\ off(x) < n
      BY <1>1, <2>2, <2>6, <2>7, Sizes
    <3>2. next + off(x) = next + (k - c) - 1
      BY <1>1, <3>1, Sizes DEF Bytes
    <3> QED  BY <1>9, <2>4, <2>6, <3>1, <3>2
  <2> QED  BY <2>5, <2>6
<1>11. Content(new) = Content(node) \o Fresh(n)
  BY <1>8, <1>9, <1>10, SeqEqual
<1> QED  BY <1>2, <1>6, <1>7, <1>11 DEF new

\* c places after b are c - n places after the place d, which is n after b.
LEMMA SameTurn ==
  ASSUME NEW m \in Nat, NEW b \in 0..m - 1, NEW c \in 0..m, NEW n \in 0..c,
         NEW u \in Int, u = b + n, NEW d \in Int, d = (IF u < m THEN u ELSE u - m),
         NEW v \in Int, v = b + c, NEW w \in Int, w = d + (c - n)
  PROVE  (IF v < m THEN v ELSE v - m) = (IF w < m THEN w ELSE w - m)
  OBVIOUS

\* A pop of n bytes leaves the rest of the content.
LEMMA PopNodeContent ==
  ASSUME NEW node \in Nodes, EndInv(node), NEW n \in 0..node.count
  PROVE  /\ PopNode(node, n) \in Nodes /\ EndInv(PopNode(node, n))
         /\ PopNode(node, n).count = node.count - n
         /\ Content(PopNode(node, n)) = SubSeq(Content(node), n + 1, node.count)
<1> DEFINE new == PopNode(node, n)
           c == node.count
           b == node.beg
           u == b + n
           d == u % NodeSize
           v == b + c
           w == d + (c - n)
<1>1. /\ c \in 0..NodeSize /\ b \in 0..NodeSize - 1 /\ n \in 0..c /\ n \in 0..NodeSize
      /\ c - n \in 0..NodeSize /\ node.end \in Index /\ node.end = v % NodeSize
      /\ node.buffer \in [Index -> Bytes]
  BY Sizes DEF Nodes, Index, EndInv
<1>2. new.buffer = node.buffer /\ new.beg = d /\ new.end = node.end /\ new.count = c - n
  BY DEF PopNode, Nodes
<1>b. /\ u = b + n /\ v = b + c /\ u \in Int /\ v \in Int /\ 0 <= u /\ 0 <= v
      /\ u < NodeSize + NodeSize /\ v < NodeSize + NodeSize
  <2> HIDE DEF b, c
  <2> QED  BY <1>1, Sizes
<1>c. new = [node EXCEPT !.beg = d, !.count = c - n]
  BY DEF PopNode
<1> HIDE DEF u, v, new
<1>3. d = (IF u < NodeSize THEN u ELSE u - NodeSize) /\ d \in Index
  BY <1>1, <1>b, WrapSum, Sizes
<1>4. v % NodeSize = (IF v < NodeSize THEN v ELSE v - NodeSize)
  BY <1>1, <1>b, WrapSum, Sizes
<1> HIDE DEF d
<1>d. w = d + (c - n) /\ w \in Int /\ 0 <= w /\ w < NodeSize + NodeSize
  <2> HIDE DEF c
  <2> QED  BY <1>1, <1>3, Sizes DEF Index
<1> HIDE DEF w
<1>5. w % NodeSize = (IF w < NodeSize THEN w ELSE w - NodeSize)
  BY <1>d, WrapSum
<1>6. new \in Nodes
  BY <1>1, <1>c, <1>3 DEF Nodes
<1>7. EndInv(new)
  <2>1. v % NodeSize = w % NodeSize
    <3> HIDE DEF b, c
    <3>1. d \in Int
      BY <1>3, Sizes DEF Index
    <3>2. (IF v < NodeSize THEN v ELSE v - NodeSize) = (IF w < NodeSize THEN w ELSE w - NodeSize)
      BY <1>1, <1>b, <1>d, <1>3, <3>1, SameTurn, Sizes
    <3> QED  BY <1>4, <1>5, <3>2
  <2> QED  BY <1>1, <1>2, <2>1 DEF EndInv, w
<1>8. /\ Content(new) \in Seq(Bytes) /\ Len(Content(new)) = c - n
      /\ \A k \in 1..c - n : Content(new)[k] = node.buffer[(d + k - 1) % NodeSize]
  BY <1>2, <1>6, ContentType
<1>9. /\ Content(node) \in Seq(Bytes) /\ Len(Content(node)) = c
      /\ \A k \in 1..c : Content(node)[k] = node.buffer[(b + k - 1) % NodeSize]
  BY ContentType
<1> DEFINE s == Content(node)
           rest == SubSeq(s, n + 1, c)
<1> HIDE DEF s
<1>10. /\ rest \in Seq(Bytes) /\ Len(rest) = c - n
       /\ \A k \in 1..c - n : rest[k] = s[n + k]
  <2>1. s \in Seq(Bytes) /\ n + 1 \in 1..Len(s) + 1 /\ c \in 0..Len(s)
    BY <1>1, <1>9, Sizes DEF s
  <2>2. \A i \in n + 1..c : s[i] \in Bytes
    BY <1>1, <1>9, Sizes DEF s
  <2> DEFINE m == n + 1
  <2>3. m = n + 1 /\ m \in Int /\ c \in Int
    BY <1>1
  <2> HIDE DEF m
  <2>4. /\ SubSeq(s, m, c) \in Seq(Bytes)
        /\ Len(SubSeq(s, m, c)) = IF m <= c THEN c - m + 1 ELSE 0
        /\ \A i \in 1..c - m + 1 : SubSeq(s, m, c)[i] = s[m + i - 1]
    BY <2>1, <2>2, <2>3, SubSeqProperties
  <2> QED  BY <1>1, <2>3, <2>4, Sizes DEF m
<1> HIDE DEF rest
<1>11. \A k \in 1..c - n : Content(new)[k] = rest[k]
  <2> SUFFICES ASSUME NEW k \in 1..c - n PROVE Content(new)[k] = rest[k]
    OBVIOUS
  <2> DEFINE y == b + (n + k) - 1
             z == d + k - 1
             j == n + k - 1
             i == k - 1
  <2>1. /\ n + k \in 1..c /\ j \in 0..NodeSize - 1 /\ i \in 0..NodeSize - 1
        /\ y = b + j /\ z = d + i /\ j = n + i /\ z \in Int /\ y \in Int
        /\ 0 <= z /\ z < NodeSize + NodeSize /\ 0 <= y /\ y < NodeSize + NodeSize
    <3> HIDE DEF b, c
    <3> QED  BY <1>1, <1>3, Sizes DEF Index
  <2>2. rest[k] = node.buffer[y % NodeSize] /\ Content(new)[k] = node.buffer[z % NodeSize]
    BY <1>8, <1>9, <1>10, <2>1 DEF s
  <2> HIDE DEF y, z, j, i
  <2>3. y % NodeSize = (IF y < NodeSize THEN y ELSE y - NodeSize)
    BY <1>1, <2>1, WrapSum, Sizes
  <2>4. z % NodeSize = (IF z < NodeSize THEN z ELSE z - NodeSize)
    BY <1>1, <1>3, <2>1, WrapSum, Sizes DEF Index
  <2>5. y % NodeSize = z % NodeSize
    <3> HIDE DEF b, c
    <3>1. /\ d \in Int /\ j + 1 \in 0..NodeSize /\ i \in Int /\ z = d + (j - n)
          /\ j \in 0..NodeSize /\ n \in 0..j
      BY <1>1, <1>3, <2>1, Sizes DEF Index, j, i
    <3>2. (IF y < NodeSize THEN y ELSE y - NodeSize) = (IF z < NodeSize THEN z ELSE z - NodeSize)
      BY <1>1, <1>b, <1>3, <2>1, <3>1, SameTurn, Sizes
    <3> QED  BY <2>3, <2>4, <3>2
  <2> QED  BY <2>2, <2>5
<1>12. Content(new) = rest
  BY <1>8, <1>10, <1>11, SeqEqual
<1> QED  BY <1>2, <1>6, <1>7, <1>12 DEF new, rest, s

-----------------------------------------------------------------------------
(* The list of nodes *)

\* What the nodes of a list store, one by one and in one sequence: Stored of ns.
Contents(ns) == [k \in 1..Len(ns) |-> Content(ns[k])]
Flat(ns) == FlattenSeq(Contents(ns))

\* One sequence for each node.
LEMMA ContentsType ==
  ASSUME NEW ns \in Seq(Nodes)
  PROVE  Contents(ns) \in Seq(Seq(Bytes)) /\ Len(Contents(ns)) = Len(ns)
<1>1. Len(ns) \in Nat /\ \A k \in 1..Len(ns) : ns[k] \in Nodes
  BY LenProperties
<1>2. Contents(ns) \in [1..Len(ns) -> Seq(Bytes)]
  BY <1>1, ContentType DEF Contents
<1> QED  BY <1>1, <1>2, SeqOfLength

\* The bytes of a list are a sequence of bytes.
LEMMA FlatType ==
  ASSUME NEW ns \in Seq(Nodes)
  PROVE  Flat(ns) \in Seq(Bytes)
BY ContentsType, FlattenType DEF Flat

\* A node at the end brings its bytes last.
LEMMA FlatAppend ==
  ASSUME NEW ns \in Seq(Nodes), NEW x \in Nodes
  PROVE  Flat(Append(ns, x)) = Flat(ns) \o Content(x)
<1> DEFINE t == Append(ns, x)
           n == Len(ns)
           c == Contents(ns)
           d == Contents(t)
           e == Append(c, Content(x))
<1>1. t \in Seq(Nodes) /\ Len(t) = n + 1 /\ t[n + 1] = x /\ n \in Nat
      /\ \A i \in 1..n : t[i] = ns[i]
  BY AppendProperties, LenProperties
<1> HIDE DEF t
<1>2. /\ c \in Seq(Seq(Bytes)) /\ Len(c) = n /\ Content(x) \in Seq(Bytes)
      /\ d \in Seq(Seq(Bytes)) /\ Len(d) = n + 1
  BY <1>1, ContentsType, ContentType
<1>3. e \in Seq(Seq(Bytes)) /\ Len(e) = n + 1 /\ e[n + 1] = Content(x)
      /\ \A i \in 1..n : e[i] = c[i]
  BY <1>2, AppendProperties
<1>4. \A i \in 1..n + 1 : d[i] = e[i]
  <2> SUFFICES ASSUME NEW i \in 1..n + 1 PROVE d[i] = e[i]
    OBVIOUS
  <2>1. d[i] = Content(t[i])
    BY <1>1 DEF Contents
  <2>2. CASE i = n + 1
    BY <1>1, <1>3, <2>1, <2>2
  <2>3. CASE i # n + 1
    <3>1. i \in 1..n
      BY <1>1, <2>3
    <3>2. e[i] = Content(ns[i])
      BY <1>3, <3>1 DEF Contents
    <3> QED  BY <1>1, <2>1, <3>1, <3>2
  <2> QED  BY <2>2, <2>3
<1> HIDE DEF c, d, e, n
<1>5. d = e
  BY <1>2, <1>3, <1>4, SeqEqual
<1>6. FlattenSeq(e) = FlattenSeq(c) \o Content(x)
  BY <1>2, FlattenAppend DEF e
<1> QED  BY <1>5, <1>6 DEF Flat, c, d, t

\* A node in front brings its bytes first.
LEMMA FlatCons ==
  ASSUME NEW ns \in Seq(Nodes), NEW x \in Nodes
  PROVE  Flat(<<x>> \o ns) = Content(x) \o Flat(ns)
<1> DEFINE t == <<x>> \o ns
           n == Len(ns)
           c == Contents(ns)
           d == Contents(t)
           e == <<Content(x)>> \o c
<1>1. t \in Seq(Nodes) /\ Len(t) = n + 1 /\ t[1] = x /\ n \in Nat
      /\ \A i \in 2..n + 1 : t[i] = ns[i - 1]
  BY LenProperties
<1> HIDE DEF t
<1>2. /\ c \in Seq(Seq(Bytes)) /\ Len(c) = n /\ Content(x) \in Seq(Bytes)
      /\ d \in Seq(Seq(Bytes)) /\ Len(d) = n + 1
  BY <1>1, ContentsType, ContentType
<1>3. e \in Seq(Seq(Bytes)) /\ Len(e) = n + 1 /\ e[1] = Content(x)
      /\ \A i \in 2..n + 1 : e[i] = c[i - 1]
  <2> DEFINE s == Content(x)
             f == <<s>>
  <2>1. f \in Seq(Seq(Bytes)) /\ Len(f) = 1 /\ f[1] = s
    BY <1>2
  <2> HIDE DEF c, s, f
  <2>2. /\ f \o c \in Seq(Seq(Bytes)) /\ Len(f \o c) = Len(f) + Len(c)
        /\ \A i \in 1..Len(f) + Len(c) : (f \o c)[i] = IF i <= Len(f) THEN f[i] ELSE c[i - Len(f)]
    BY <1>2, <2>1, ConcatProperties
  <2>3. f \o c = e
    BY DEF f, s
  <2> HIDE DEF e, n
  <2>4. e \in Seq(Seq(Bytes)) /\ Len(e) = n + 1
    BY <1>1, <1>2, <2>1, <2>2, <2>3
  <2>5. \A i \in 1..n + 1 : e[i] = IF i <= 1 THEN f[i] ELSE c[i - 1]
    BY <1>1, <1>2, <2>1, <2>2, <2>3
  <2>6. e[1] = s /\ \A i \in 2..n + 1 : e[i] = c[i - 1]
    BY <1>1, <2>1, <2>5
  <2> QED  BY <2>4, <2>6 DEF s
<1>4. \A i \in 1..n + 1 : d[i] = e[i]
  <2> SUFFICES ASSUME NEW i \in 1..n + 1 PROVE d[i] = e[i]
    OBVIOUS
  <2>1. d[i] = Content(t[i])
    BY <1>1 DEF Contents
  <2>2. CASE i = 1
    BY <1>1, <1>3, <2>1, <2>2
  <2>3. CASE i # 1
    <3>1. i \in 2..n + 1 /\ i - 1 \in 1..n
      BY <1>1, <2>3
    <3>2. e[i] = Content(ns[i - 1])
      BY <1>3, <3>1 DEF Contents
    <3> QED  BY <1>1, <2>1, <3>1, <3>2
  <2> QED  BY <2>2, <2>3
<1> HIDE DEF c, d, e, n
<1>5. d = e
  BY <1>2, <1>3, <1>4, SeqEqual
<1>6. FlattenSeq(e) = Content(x) \o FlattenSeq(c)
  BY <1>2, FlattenCons DEF e
<1> QED  BY <1>5, <1>6 DEF Flat, c, d, t

\* A list and its last node, which may be replaced.
LEMMA LastNode ==
  ASSUME NEW ns \in Seq(Nodes), NEW m \in Nat, Len(ns) = m + 1, NEW y \in Nodes
  PROVE  \E front \in Seq(Nodes) : /\ ns = Append(front, ns[m + 1])
                                   /\ [ns EXCEPT ![m + 1] = y] = Append(front, y)
<1> DEFINE front == [k \in 1..m |-> ns[k]]
           z == [ns EXCEPT ![m + 1] = y]
<1>1. \A k \in 1..m + 1 : ns[k] \in Nodes
  BY LenProperties
<1>2. front \in Seq(Nodes) /\ Len(front) = m
  BY <1>1, SeqOfLength
<1>3. z \in Seq(Nodes) /\ Len(z) = m + 1 /\ z[m + 1] = y /\ \A k \in 1..m : z[k] = ns[k]
  BY <1>1, ExceptSeq
<1>4. \A x \in Nodes : /\ Append(front, x) \in Seq(Nodes) /\ Len(Append(front, x)) = m + 1
                       /\ Append(front, x)[m + 1] = x
                       /\ \A k \in 1..m : Append(front, x)[k] = front[k]
  <2> HIDE DEF front
  <2> QED  BY <1>2, AppendProperties
<1>5. \A k \in 1..m : front[k] = ns[k]
  OBVIOUS
<1> HIDE DEF front, z
<1>6. ns[m + 1] \in Nodes
  BY <1>1
<1>7. ns = Append(front, ns[m + 1])
  <2> DEFINE w == Append(front, ns[m + 1])
  <2>1. w \in Seq(Nodes) /\ Len(w) = m + 1 /\ w[m + 1] = ns[m + 1] /\ \A k \in 1..m : w[k] = ns[k]
    BY <1>4, <1>5, <1>6
  <2> HIDE DEF w
  <2>2. \A k \in 1..m + 1 : ns[k] = w[k]
    BY <2>1
  <2> QED  BY <2>1, <2>2, SeqEqual DEF w
<1>8. z = Append(front, y)
  <2> DEFINE w == Append(front, y)
  <2>1. w \in Seq(Nodes) /\ Len(w) = m + 1 /\ w[m + 1] = y /\ \A k \in 1..m : w[k] = ns[k]
    BY <1>4, <1>5
  <2> HIDE DEF w
  <2>2. \A k \in 1..m + 1 : z[k] = w[k]
    BY <1>3, <2>1
  <2> QED  BY <1>3, <2>1, <2>2, SeqEqual DEF w
<1> QED  BY <1>2, <1>7, <1>8 DEF z

\* The first n of s \o t, and the rest, when s has as many.
LEMMA SplitConcat ==
  ASSUME NEW S, NEW s \in Seq(S), NEW t \in Seq(S), NEW n \in 0..Len(s)
  PROVE  /\ SubSeq(s \o t, 1, n) = SubSeq(s, 1, n)
         /\ SubSeq(s \o t, n + 1, Len(s) + Len(t)) = SubSeq(s, n + 1, Len(s)) \o t
<1> DEFINE c == Len(s)
           d == Len(t)
           u == s \o t
           m == n + 1
           a == SubSeq(u, 1, n)
           b == SubSeq(s, 1, n)
           x == SubSeq(u, m, c + d)
           r == SubSeq(s, m, c)
           y == r \o t
<1>1. /\ c \in Nat /\ d \in Nat /\ n \in Int /\ m \in Int /\ c + d \in Int /\ m = n + 1
      /\ 0 <= n /\ n <= c
      /\ \A i \in 1..c : s[i] \in S
      /\ \A i \in 1..d : t[i] \in S
  BY LenProperties
<1>2. /\ u \in Seq(S) /\ Len(u) = c + d
      /\ \A i \in 1..c + d : u[i] = IF i <= c THEN s[i] ELSE t[i - c]
  BY ConcatProperties
<1>3. \A i \in 1..c + d : u[i] \in S
  BY <1>1, <1>2, LenProperties
<1> HIDE DEF c, d, u, m
<1>4. /\ a \in Seq(S) /\ Len(a) = n /\ \A i \in 1..n : a[i] = u[i]
  <2>1. \A i \in 1..n : u[i] \in S
    BY <1>1, <1>3
  <2>2. /\ a \in Seq(S) /\ Len(a) = (IF 1 <= n THEN n - 1 + 1 ELSE 0)
        /\ \A i \in 1..n - 1 + 1 : a[i] = u[1 + i - 1]
    BY <1>1, <2>1, SubSeqProperties
  <2> HIDE DEF a
  <2> QED  BY <1>1, <2>2
<1>5. /\ b \in Seq(S) /\ Len(b) = n /\ \A i \in 1..n : b[i] = s[i]
  <2>1. \A i \in 1..n : s[i] \in S
    BY <1>1
  <2>2. /\ b \in Seq(S) /\ Len(b) = (IF 1 <= n THEN n - 1 + 1 ELSE 0)
        /\ \A i \in 1..n - 1 + 1 : b[i] = s[1 + i - 1]
    BY <1>1, <2>1, SubSeqProperties
  <2> HIDE DEF b
  <2> QED  BY <1>1, <2>2
<1>6. /\ x \in Seq(S) /\ Len(x) = c + d - n /\ \A i \in 1..c + d - n : x[i] = u[n + i]
  <2> DEFINE e == c + d
  <2>1. e \in Int /\ \A i \in m..e : u[i] \in S
    BY <1>1, <1>3
  <2> HIDE DEF e
  <2>2. /\ SubSeq(u, m, e) \in Seq(S) /\ Len(SubSeq(u, m, e)) = (IF m <= e THEN e - m + 1 ELSE 0)
        /\ \A i \in 1..e - m + 1 : SubSeq(u, m, e)[i] = u[m + i - 1]
    BY <1>1, <2>1, SubSeqProperties
  <2> DEFINE q == SubSeq(u, m, e)
  <2> HIDE DEF q
  <2>3. q \in Seq(S) /\ Len(q) = c + d - n /\ \A i \in 1..c + d - n : q[i] = u[n + i]
    BY <1>1, <2>2 DEF e, q
  <2> QED  BY <2>3 DEF q, e
<1>7. /\ r \in Seq(S) /\ Len(r) = c - n /\ \A i \in 1..c - n : r[i] = s[n + i]
  <2>1. c \in Int /\ \A i \in m..c : s[i] \in S
    BY <1>1
  <2>2. /\ r \in Seq(S) /\ Len(r) = (IF m <= c THEN c - m + 1 ELSE 0)
        /\ \A i \in 1..c - m + 1 : r[i] = s[m + i - 1]
    BY <1>1, <2>1, SubSeqProperties
  <2> HIDE DEF r
  <2> QED  BY <1>1, <2>2
<1> HIDE DEF a, b, x, r
<1>8. /\ y \in Seq(S) /\ Len(y) = c - n + d
      /\ \A i \in 1..c - n + d : y[i] = IF i <= c - n THEN s[n + i] ELSE t[i - (c - n)]
  <2>1. /\ y \in Seq(S) /\ Len(y) = Len(r) + d
        /\ \A i \in 1..Len(r) + d : y[i] = IF i <= Len(r) THEN r[i] ELSE t[i - Len(r)]
    BY <1>7, ConcatProperties DEF d
  <2> HIDE DEF y
  <2> QED  BY <1>1, <1>7, <2>1
<1> HIDE DEF y
<1>9. \A i \in 1..n : a[i] = b[i]
  <2>1. \A i \in 1..n : i \in 1..c + d /\ i <= c
    BY <1>1
  <2> QED  BY <1>2, <1>4, <1>5, <2>1
<1>10. a = b
  BY <1>4, <1>5, <1>9, SeqEqual
<1>11. \A i \in 1..c + d - n : x[i] = y[i]
  <2> SUFFICES ASSUME NEW i \in 1..c + d - n PROVE x[i] = y[i]
    OBVIOUS
  <2> DEFINE k == n + i
  <2>1. k \in 1..c + d /\ k - c = i - (c - n) /\ (k <= c <=> i <= c - n) /\ i \in 1..c - n + d
    BY <1>1
  <2>2. x[i] = u[k] /\ u[k] = IF k <= c THEN s[k] ELSE t[k - c]
    BY <1>2, <1>6, <2>1
  <2>3. y[i] = IF i <= c - n THEN s[k] ELSE t[i - (c - n)]
    BY <1>8, <2>1
  <2> QED  BY <2>1, <2>2, <2>3
<1>12. x = y
  <2>1. Len(x) = Len(y)
    BY <1>1, <1>6, <1>8
  <2> QED  BY <1>6, <1>8, <1>11, <2>1, SeqEqual
<1> QED  BY <1>10, <1>12 DEF a, b, x, y, r, u, c, d, m

-----------------------------------------------------------------------------
(* The inductive invariant *)

\* What holds of a list of nodes, ListSound's conjuncts and the end of each.
Good(ns) ==
  /\ ns \in Seq(Nodes)
  /\ \A k \in 1..Len(ns) : ns[k].count > 0
  /\ \A k \in 2..Len(ns) : ns[k].beg = 0
  /\ \A k \in 2..Len(ns) - 1 : ns[k].count = NodeSize
  /\ \A k \in 1..Len(ns) : EndInv(ns[k])

\* The mutex is held just in the loops.
MutexInv == (mutex = "push" <=> push.pc = "loop") /\ (mutex = "pop" <=> pop.pc = "loop")

\* What the producer has still to push fits: nobody else can add to count.
PushInv ==
  /\ push.ret # "ERR_SIZE"
  /\ push.pc = "lock" => push.pos = 0 /\ push.size <= MaxSize - count
  /\ push.pc = "loop" => push.pos <= push.size /\ push.size - push.pos <= MaxSize - count

\* What the consumer has still to pop is there: nobody else can take from count.
PopInv ==
  /\ pop.pc = "lock" => pop.pos = 0 /\ pop.seen <= count
  /\ pop.pc = "loop" => /\ pop.pos <= pop.size /\ pop.size - pop.pos <= count
                        /\ pop.size >= Least(pop.asked, pop.seen)
  /\ PopExact

\* The invariant.  ListSound and SizesKept do not carry over a step on their own:
\* they need the end of every node, and that nobody else changes count while a
\* push or a pop holds the mutex.
IInv ==
  /\ TypeOK
  /\ Good(nodes)
  /\ count = Len(Flat(nodes))
  /\ tail <=> nodes # <<>>
  /\ MutexInv /\ PushInv /\ PopInv

\* The invariant implies both properties.
LEMMA InvCorrect == IInv => ListSound /\ SizesKept
  BY DEF IInv, Good, ListSound, SizesKept, PushFits, PushInv, PopInv, Stored, Flat, Contents

\* A list without nodes stores nothing.
LEMMA FlatEmpty == Flat(<<>>) = <<>>
<1>1. Contents(<<>>) \in Seq(Seq(Bytes)) /\ Len(Contents(<<>>)) = 0
  BY ContentsType, EmptySeq
<1>2. Contents(<<>>) = <<>>
  BY <1>1, EmptySeq
<1> QED  BY <1>2, FlattenEmpty DEF Flat

\* A new node is empty.
LEMMA NewNodeIs ==
  /\ NewNode \in Nodes /\ NewNode.count = 0 /\ NewNode.beg = 0 /\ EndInv(NewNode)
  /\ Content(NewNode) = <<>>
<1>1. NewNode \in Nodes /\ NewNode.count = 0 /\ NewNode.beg = 0 /\ NewNode.end = 0
  BY Sizes DEF NewNode, Nodes, Index, Bytes
<1>2. 0 % NodeSize = 0
  BY Wrap, Sizes
<1>3. EndInv(NewNode)
  BY <1>1, <1>2 DEF EndInv
<1>4. Content(NewNode) \in Seq(Bytes) /\ Len(Content(NewNode)) = 0
  BY <1>1, ContentType
<1> QED  BY <1>1, <1>3, <1>4, EmptySeq

\* The empty list satisfies the invariant.
LEMMA InvInit == Init => IInv
<1> SUFFICES ASSUME Init PROVE IInv
  OBVIOUS
<1>1. <<>> \in Seq(Nodes) /\ Len(<<>>) = 0 /\ <<>> \in Seq(Bytes)
  BY EmptySeq
<1>2. TypeOK
  <2>1. 0 \in 0..MaxSize /\ 0 \in Bytes
    BY Sizes DEF Bytes
  <2>2. nodes \in Seq(Nodes) /\ last \in Seq(Bytes)
    BY <1>1 DEF Init
  <2>3. /\ tail \in BOOLEAN /\ count \in 0..MaxSize /\ mutex \in {"none", "push", "pop"}
        /\ next \in Bytes
    BY <2>1 DEF Init
  <2>4. push \in [pc : {"idle", "lock", "loop", "done"}, size : 0..MaxSize, pos : 0..MaxSize,
                  ret : {"SUCCESS", "ERR_SIZE", "ERR_MALLOC"}]
    BY <2>1 DEF Init, NoPush
  <2>5. pop \in [pc : {"idle", "lock", "loop", "done"}, seen : 0..MaxSize, asked : 0..MaxSize,
                 size : 0..MaxSize, pos : 0..MaxSize, ret : {"SUCCESS", "ERR_EMPTY"}]
    BY <2>1 DEF Init, NoPop
  <2> QED  BY <2>2, <2>3, <2>4, <2>5 DEF TypeOK
<1>3. Good(nodes)
  BY <1>1 DEF Init, Good
<1>4. count = Len(Flat(nodes)) /\ (tail <=> nodes # <<>>)
  BY <1>1, FlatEmpty DEF Init
<1>5. MutexInv /\ PushInv /\ PopInv
  BY DEF Init, MutexInv, PushInv, PopInv, PopExact, NoPush, NoPop
<1> QED  BY <1>2, <1>3, <1>4, <1>5 DEF IInv

\* An iteration of the loop of a push appends n bytes to the stream that is stored.
LEMMA PushPassList ==
  ASSUME IInv, PushPass
  PROVE  \E n \in 1..push.size - push.pos :
           /\ Good(nodes') /\ nodes' # <<>> /\ tail'
           /\ Flat(nodes') = Flat(nodes) \o Fresh(n)
           /\ count' = count + n
           /\ next' = (next + n) % NumBytes
           /\ push' = [push EXCEPT !.pos = @ + n]
           /\ UNCHANGED <<mutex, pop, last>>
<1> DEFINE list == IF NeedsNode THEN Append(nodes, NewNode) ELSE nodes
           m == Len(list)
           x == list[m]
           n == Room(x, push.size - push.pos)
           y == PushNode(x, n)
           z == [list EXCEPT ![m] = y]
<1>1. /\ Good(nodes) /\ TypeOK /\ (tail <=> nodes # <<>>)
      /\ push.size \in Nat /\ push.pos \in Nat /\ push.pos < push.size /\ next \in Bytes
  BY DEF IInv, TypeOK, PushPass
<1>2. /\ nodes' = z /\ push' = [push EXCEPT !.pos = @ + n] /\ count' = count + n
      /\ next' = (next + n) % NumBytes /\ tail' /\ UNCHANGED <<mutex, pop, last>>
  BY DEF PushPass
<1>3. /\ list \in Seq(Nodes) /\ m \in Nat /\ m # 0
      /\ Flat(list) = Flat(nodes)
      /\ x.count < NodeSize
      /\ \A k \in 1..m - 1 : list[k].count > 0
      /\ \A k \in 2..m : list[k].beg = 0
      /\ \A k \in 2..m - 1 : list[k].count = NodeSize
      /\ \A k \in 1..m : EndInv(list[k])
  <2> DEFINE l == Len(nodes)
  <2>1. /\ nodes \in Seq(Nodes) /\ l \in Nat
        /\ \A k \in 1..l : nodes[k] \in Nodes /\ nodes[k].count \in 1..NodeSize /\ EndInv(nodes[k])
        /\ \A k \in 2..l : nodes[k].beg = 0
        /\ \A k \in 2..l - 1 : nodes[k].count = NodeSize
    <3>1. nodes \in Seq(Nodes) /\ l \in Nat /\ \A k \in 1..l : nodes[k] \in Nodes
      BY <1>1, LenProperties DEF Good
    <3>2. \A k \in 1..l : nodes[k].count \in 1..NodeSize
      BY <1>1, <3>1, Sizes DEF Good, Nodes
    <3> QED  BY <1>1, <3>1, <3>2 DEF Good
  <2>2. CASE NeedsNode
    <3>1. l # 0 => nodes[l].count = NodeSize
      <4>1. l # 0 => nodes # <<>>
        BY EmptySeq
      <4>2. l # 0 => nodes[l].count >= NodeSize /\ l \in 1..l
        BY <1>1, <2>1, <2>2, <4>1 DEF NeedsNode
      <4> QED  BY <2>1, <4>2, Sizes
    <3>2. list = Append(nodes, NewNode)
      BY <2>2
    <3> HIDE DEF list
    <3>3. /\ list \in Seq(Nodes) /\ m = l + 1 /\ list[l + 1] = NewNode
          /\ \A k \in 1..l : list[k] = nodes[k]
      BY <2>1, <3>2, NewNodeIs, AppendProperties
    <3>4. Flat(list) = Flat(nodes)
      <4>1. Flat(list) = Flat(nodes) \o <<>>
        BY <2>1, <3>2, NewNodeIs, FlatAppend
      <4> QED  BY <2>1, <4>1, FlatType, ConcatEmptySeq
    <3> HIDE DEF m, l
    <3>5. \A k \in 1..m : list[k] = IF k = l + 1 THEN NewNode ELSE nodes[k]
      BY <2>1, <3>3
    <3>6. x = NewNode
      BY <2>1, <3>3
    <3> HIDE DEF x
    <3>7. \A k \in 1..m : list[k].beg = IF k = l + 1 THEN 0 ELSE nodes[k].beg
      BY <3>5, NewNodeIs
    <3>8. \A k \in 2..m : list[k].beg = 0
      BY <2>1, <3>3, <3>7
    <3>9. \A k \in 1..m - 1 : list[k].count > 0
      BY <2>1, <3>3, Sizes
    <3>10. \A k \in 2..m - 1 : list[k].count = NodeSize
      <4>1. \A k \in 2..m - 1 : k \in 1..l /\ (k = l \/ k \in 2..l - 1)
        BY <2>1, <3>3
      <4> QED  BY <2>1, <3>1, <3>3, <4>1
    <3>11. \A k \in 1..m : EndInv(list[k])
      BY <2>1, <3>3, <3>5, NewNodeIs
    <3> QED  BY <2>1, <3>3, <3>4, <3>6, <3>8, <3>9, <3>10, <3>11, NewNodeIs, Sizes
  <2>3. CASE ~NeedsNode
    <3>1. list = nodes /\ nodes # <<>> /\ ~(nodes[l].count >= NodeSize)
      BY <1>1, <2>3 DEF NeedsNode
    <3>2. l # 0
      BY <2>1, <3>1, EmptySeq
    <3> HIDE DEF list
    <3> QED  BY <2>1, <3>1, <3>2, Sizes
  <2> QED  BY <2>2, <2>3
<1> HIDE DEF list
<1>4. x \in Nodes /\ EndInv(x) /\ x.count \in 0..NodeSize /\ \A k \in 1..m : list[k] \in Nodes
  <2>1. m \in 1..m /\ \A k \in 1..m : list[k] \in Nodes
    BY <1>3, LenProperties
  <2> QED  BY <1>3, <2>1 DEF Nodes
<1> HIDE DEF x
<1>5. n \in 1..push.size - push.pos /\ n \in 0..NodeSize - x.count /\ n \in Nat /\ x.count + n > 0
  BY <1>1, <1>3, <1>4, Sizes DEF Room, Least
<1> HIDE DEF n
<1>6. y \in Nodes /\ EndInv(y) /\ y.count = x.count + n /\ y.beg = x.beg
      /\ Content(y) = Content(x) \o Fresh(n)
  BY <1>1, <1>4, <1>5, PushNodeContent
<1> HIDE DEF y
<1>7. z \in Seq(Nodes) /\ Len(z) = m /\ \A k \in 1..m : z[k] = IF k = m THEN y ELSE list[k]
  <2>1. m \in 1..Len(list)
    BY <1>3
  <2> QED  BY <1>3, <1>6, <2>1, ExceptSeq
<1>8. Flat(z) = Flat(nodes) \o Fresh(n)
  <2> DEFINE j == m - 1
  <2>1. j \in Nat /\ m = j + 1 /\ Len(list) = j + 1
    BY <1>3
  <2> HIDE DEF j, m
  <2>2. PICK front \in Seq(Nodes) : /\ list = Append(front, list[j + 1])
                                    /\ [list EXCEPT ![j + 1] = y] = Append(front, y)
    BY <1>3, <1>6, <2>1, LastNode
  <2>3. list = Append(front, x) /\ z = Append(front, y)
    BY <2>1, <2>2 DEF x
  <2> HIDE DEF z
  <2>4. Flat(list) = Flat(front) \o Content(x) /\ Flat(z) = Flat(front) \o (Content(x) \o Fresh(n))
    BY <1>4, <1>6, <2>3, FlatAppend
  <2>5. Flat(front) \in Seq(Bytes) /\ Content(x) \in Seq(Bytes) /\ Fresh(n) \in Seq(Bytes)
    BY <1>1, <1>4, <1>5, FlatType, ContentType, FreshType
  <2>6. Flat(z) = Flat(list) \o Fresh(n)
    BY <2>4, <2>5, ConcatAssociative
  <2> QED  BY <1>3, <2>6
<1> HIDE DEF m, z
<1>9. Good(z) /\ z # <<>>
  <2>1. \A k \in 1..m : z[k].count > 0
    BY <1>3, <1>5, <1>6, <1>7
  <2>2. \A k \in 1..m : EndInv(z[k])
    BY <1>3, <1>6, <1>7
  <2>3. \A k \in 2..m : z[k].beg = 0
    BY <1>3, <1>6, <1>7 DEF x
  <2>4. \A k \in 2..m - 1 : z[k].count = NodeSize
    BY <1>3, <1>7
  <2>5. z # <<>>
    BY <1>3, <1>7, EmptySeq
  <2> QED  BY <1>7, <2>1, <2>2, <2>3, <2>4, <2>5 DEF Good
<1> QED  BY <1>2, <1>5, <1>8, <1>9

\* An iteration of the loop of a pop delivers the n bytes that were stored first.
LEMMA PopPassList ==
  ASSUME IInv, PopPass
  PROVE  \E n \in 1..pop.size - pop.pos :
           /\ n <= count
           /\ Good(nodes') /\ (tail' <=> nodes' # <<>>)
           /\ last' = SubSeq(Flat(nodes), 1, n)
           /\ Flat(nodes') = SubSeq(Flat(nodes), n + 1, Len(Flat(nodes)))
           /\ count' = count - n
           /\ pop' = [pop EXCEPT !.pos = @ + n]
           /\ UNCHANGED <<mutex, push, next>>
<1> DEFINE h == Head(nodes)
           rest == Tail(nodes)
           l == Len(nodes)
           n == Least(pop.size - pop.pos, h.count)
           y == PopNode(h, n)
           z == IF y.count = 0 THEN rest ELSE <<y>> \o rest
<1>1. /\ Good(nodes) /\ TypeOK /\ nodes # <<>> /\ count = Len(Flat(nodes))
      /\ pop.size \in Nat /\ pop.pos \in Nat /\ pop.pos < pop.size
  BY DEF IInv, TypeOK, PopPass
<1>2. /\ nodes' = z /\ pop' = [pop EXCEPT !.pos = @ + n] /\ count' = count - n
      /\ last' = SubSeq(Content(h), 1, n) /\ tail' = (nodes' # <<>>)
      /\ UNCHANGED <<mutex, push, next>>
  BY DEF PopPass
<1>3. /\ nodes \in Seq(Nodes) /\ l \in Nat /\ l # 0 /\ h = nodes[1]
      /\ \A k \in 1..l : nodes[k] \in Nodes
      /\ rest \in Seq(Nodes) /\ Len(rest) = l - 1 /\ \A k \in 1..l - 1 : rest[k] = nodes[k + 1]
  <2>1. nodes \in Seq(Nodes)
    BY <1>1 DEF Good
  <2> QED  BY <1>1, <2>1, LenProperties, EmptySeq, HeadTailProperties
<1>4. h \in Nodes /\ EndInv(h) /\ h.count \in 1..NodeSize
  <2>1. 1 \in 1..l
    BY <1>3
  <2>2. h \in Nodes /\ EndInv(h) /\ h.count > 0
    BY <1>1, <1>3, <2>1 DEF Good
  <2> QED  BY <2>2, Sizes DEF Nodes
<1>5. nodes = <<h>> \o rest
  BY <1>1, <1>3
<1>6. Flat(nodes) = Content(h) \o Flat(rest) /\ Flat(rest) \in Seq(Bytes)
  BY <1>3, <1>4, <1>5, FlatCons, FlatType
<1> HIDE DEF h, rest
<1>7. n \in 1..pop.size - pop.pos /\ n \in 0..h.count /\ n \in 1..h.count
  BY <1>1, <1>4, Sizes DEF Least
<1> HIDE DEF n
<1>8. y \in Nodes /\ EndInv(y) /\ y.count = h.count - n
      /\ Content(y) = SubSeq(Content(h), n + 1, h.count)
  BY <1>4, <1>7, PopNodeContent
<1> HIDE DEF y
<1>9. Content(h) \in Seq(Bytes) /\ Len(Content(h)) = h.count /\ Len(Flat(rest)) \in Nat
      /\ Len(Flat(nodes)) = h.count + Len(Flat(rest))
  BY <1>4, <1>6, ContentType, LenProperties, ConcatProperties
<1>10. /\ SubSeq(Flat(nodes), 1, n) = SubSeq(Content(h), 1, n)
       /\ SubSeq(Flat(nodes), n + 1, Len(Flat(nodes))) = Content(y) \o Flat(rest)
  <2> DEFINE s == Content(h)
             t == Flat(rest)
  <2>1. s \in Seq(Bytes) /\ t \in Seq(Bytes) /\ n \in 0..Len(s)
    BY <1>6, <1>7, <1>9
  <2>2. /\ Flat(nodes) = s \o t /\ Len(Flat(nodes)) = Len(s) + Len(t)
        /\ Content(y) = SubSeq(s, n + 1, Len(s))
    BY <1>6, <1>8, <1>9
  <2> HIDE DEF s, t
  <2>3. /\ SubSeq(s \o t, 1, n) = SubSeq(s, 1, n)
        /\ SubSeq(s \o t, n + 1, Len(s) + Len(t)) = SubSeq(s, n + 1, Len(s)) \o t
    BY <2>1, SplitConcat
  <2> QED  BY <2>2, <2>3 DEF s, t
<1>11. Flat(z) = Content(y) \o Flat(rest)
  <2>1. CASE y.count = 0
    <3>1. Content(y) \in Seq(Bytes) /\ Len(Content(y)) = 0
      BY <1>8, <2>1, ContentType
    <3>2. Content(y) = <<>>
      BY <3>1, EmptySeq
    <3> QED  BY <1>6, <2>1, <3>2, ConcatEmptySeq
  <2>2. CASE y.count # 0
    BY <1>3, <1>8, <2>2, FlatCons
  <2> QED  BY <2>1, <2>2
<1>12. Good(z)
  <2>1. Good(rest)
    <3>1. \A k \in 1..l - 1 : k + 1 \in 2..l /\ k + 1 \in 1..l
      BY <1>3
    <3>2. \A k \in 2..Len(rest) - 1 : k + 1 \in 2..l - 1 /\ k \in 1..l - 1
      BY <1>3
    <3>3. \A k \in 2..Len(rest) : k \in 1..l - 1
      BY <1>3
    <3>4. /\ \A k \in 1..l - 1 : rest[k].count > 0 /\ rest[k].beg = 0 /\ EndInv(rest[k])
          /\ \A k \in 2..Len(rest) - 1 : rest[k].count = NodeSize
      BY <1>1, <1>3, <3>1, <3>2 DEF Good
    <3> QED  BY <1>3, <3>3, <3>4 DEF Good
  <2>2. CASE y.count = 0
    BY <2>1, <2>2
  <2>3. CASE y.count # 0
    <3> DEFINE w == <<y>> \o rest
    <3>1. w \in Seq(Nodes) /\ Len(w) = l /\ w[1] = y /\ \A k \in 2..l : w[k] = nodes[k]
      <4>1. w \in Seq(Nodes) /\ Len(w) = 1 + (l - 1) /\ w[1] = y
            /\ \A k \in 2..1 + (l - 1) : w[k] = rest[k - 1]
        BY <1>3, <1>8
      <4> HIDE DEF w
      <4>2. \A k \in 2..l : k - 1 \in 1..l - 1 /\ (k - 1) + 1 = k
        BY <1>3
      <4> QED  BY <1>3, <4>1, <4>2
    <3>2. z = w
      BY <2>3
    <3> HIDE DEF w
    <3>3. y.count > 0
      BY <1>4, <1>7, <1>8, <2>3, Sizes
    <3>4. \A k \in 1..l : w[k].count > 0 /\ EndInv(w[k])
      BY <1>1, <1>3, <1>8, <3>1, <3>3 DEF Good
    <3>5. \A k \in 2..l : w[k].beg = 0
      BY <1>1, <3>1 DEF Good
    <3>6. \A k \in 2..l - 1 : w[k].count = NodeSize
      BY <1>1, <1>3, <3>1 DEF Good
    <3>7. Good(w)
      BY <3>1, <3>4, <3>5, <3>6 DEF Good
    <3> QED  BY <3>2, <3>7
  <2> QED  BY <2>2, <2>3
<1> HIDE DEF z
<1>13. n <= count
  BY <1>1, <1>4, <1>7, <1>9, Sizes
<1> QED  BY <1>2, <1>7, <1>10, <1>11, <1>12, <1>13

\* The locals of the two users.
Pushes == [pc : {"idle", "lock", "loop", "done"}, size : 0..MaxSize, pos : 0..MaxSize,
           ret : {"SUCCESS", "ERR_SIZE", "ERR_MALLOC"}]
Pops == [pc : {"idle", "lock", "loop", "done"}, seen : 0..MaxSize, asked : 0..MaxSize,
         size : 0..MaxSize, pos : 0..MaxSize, ret : {"SUCCESS", "ERR_EMPTY"}]

\* TypeOK', conjunct by conjunct, for the steps that leave the stream alone.
LEMMA TypeKept ==
  ASSUME TypeOK, UNCHANGED <<nodes, tail, count, next, last>>,
         mutex' \in {"none", "push", "pop"}, push' \in Pushes, pop' \in Pops
  PROVE  TypeOK'
<1>1. nodes' \in Seq(Nodes) /\ tail' \in BOOLEAN /\ count' \in 0..MaxSize /\ next' \in Bytes
      /\ last' \in Seq(Bytes)
  BY DEF TypeOK
<1> QED  BY <1>1 DEF TypeOK, Pushes, Pops

\* A step that leaves the list alone keeps what the invariant says of it.
LEMMA NodesUnchanged ==
  ASSUME UNCHANGED <<nodes, tail, count>>
  PROVE  /\ Good(nodes) => Good(nodes')
         /\ count = Len(Flat(nodes)) => count' = Len(Flat(nodes'))
         /\ (tail <=> nodes # <<>>) => (tail' <=> nodes' # <<>>)
  OBVIOUS

\* Flat(nodes) has count bytes.
LEMMA CountIs ==
  ASSUME IInv
  PROVE  Flat(nodes) \in Seq(Bytes) /\ Len(Flat(nodes)) = count /\ count \in 0..MaxSize
  BY FlatType DEF IInv, TypeOK

\* What http_download_wait_free sees is there: only pops come in between.
LEMMA CheckFreeKeeps ==
  ASSUME IInv, NEW n \in 1..MaxChunk, CheckFree(n)
  PROVE  IInv'
<1>0. /\ push' = [pc |-> "lock", size |-> n, pos |-> 0, ret |-> "SUCCESS"]
      /\ n <= MaxSize - count /\ n \in 0..MaxSize
      /\ UNCHANGED <<nodes, tail, count, mutex, pop, next, last>>
  <2>1. push' = [pc |-> "lock", size |-> n, pos |-> 0, ret |-> "SUCCESS"]
    BY DEF CheckFree, NoPush
  <2>2. UNCHANGED <<nodes, tail, count, mutex, pop, next, last>> /\ MaxSize - count >= n
    BY DEF CheckFree, Fits
  <2>3. count \in 0..MaxSize /\ MaxSize \in Nat /\ MaxChunk \in 1..MaxSize
    BY Sizes DEF IInv, TypeOK
  <2> QED  BY <2>1, <2>2, <2>3
<1>1. TypeOK'
  <2>1. push' \in Pushes /\ 0 \in 0..MaxSize
    BY <1>0, Sizes DEF Pushes
  <2>2. mutex' \in {"none", "push", "pop"} /\ pop' \in Pops
    BY <1>0 DEF IInv, TypeOK, Pops
  <2> QED  BY <1>0, <2>1, <2>2, TypeKept DEF IInv
<1>2. MutexInv' /\ PushInv' /\ PopInv'
  <2>1. mutex' = mutex /\ count' = count /\ pop' = pop /\ push.pc = "idle"
    BY <1>0 DEF CheckFree
  <2>2. push'.pc = "lock" /\ push'.size = n /\ push'.pos = 0 /\ push'.ret = "SUCCESS"
    BY <1>0
  <2>3. MutexInv /\ PushInv /\ PopInv
    BY DEF IInv
  <2> QED  BY <1>0, <2>1, <2>2, <2>3 DEF MutexInv, PushInv, PopInv, PopExact
<1> QED  BY <1>1, <1>2, NodesUnchanged DEF IInv, CheckFree

\* What the consumer sees is there: only pushes come in between.
LEMMA SeeCountKeeps ==
  ASSUME IInv, NEW n \in 1..MaxChunk, SeeCount(n)
  PROVE  IInv'
<1>0. /\ pop' = [pc |-> "lock", seen |-> count, asked |-> n, size |-> 0, pos |-> 0,
                 ret |-> "SUCCESS"]
      /\ n \in 0..MaxSize /\ count \in 0..MaxSize
      /\ UNCHANGED <<nodes, tail, count, mutex, push, next, last>>
  <2>1. pop' = [pc |-> "lock", seen |-> count, asked |-> n, size |-> 0, pos |-> 0,
                ret |-> "SUCCESS"]
    BY DEF SeeCount, NoPop
  <2>2. UNCHANGED <<nodes, tail, count, mutex, push, next, last>>
    BY DEF SeeCount
  <2>3. count \in 0..MaxSize /\ MaxSize \in Nat /\ MaxChunk \in 1..MaxSize
    BY Sizes DEF IInv, TypeOK
  <2> QED  BY <2>1, <2>2, <2>3
<1>1. TypeOK'
  <2>1. pop' \in Pops
    BY <1>0, Sizes DEF Pops
  <2>2. mutex' \in {"none", "push", "pop"} /\ push' \in Pushes
    BY <1>0 DEF IInv, TypeOK, Pushes
  <2> QED  BY <1>0, <2>1, <2>2, TypeKept DEF IInv
<1>2. MutexInv' /\ PushInv' /\ PopInv'
  <2>1. mutex' = mutex /\ count' = count /\ push' = push /\ pop.pc = "idle"
    BY <1>0 DEF SeeCount
  <2>2. pop'.pc = "lock" /\ pop'.pos = 0 /\ pop'.seen = count
    BY <1>0
  <2>3. MutexInv /\ PushInv /\ PopInv
    BY DEF IInv
  <2> QED  BY <1>0, <2>1, <2>2, <2>3 DEF MutexInv, PushInv, PopInv, PopExact
<1> QED  BY <1>1, <1>2, NodesUnchanged DEF IInv, SeeCount

\* The push is not refused, for the free count has not shrunk.
LEMMA PushLockKeeps ==
  ASSUME IInv, PushLock
  PROVE  IInv'
<1>1. /\ push' = [push EXCEPT !.pc = "loop"] /\ mutex' = "push"
      /\ UNCHANGED <<nodes, tail, count, pop, next, last>>
  BY Sizes DEF IInv, TypeOK, PushLock, PushInv
<1>2. TypeOK'
  BY <1>1 DEF IInv, TypeOK
<1>3. MutexInv' /\ PushInv' /\ PopInv'
  BY <1>1, Sizes DEF IInv, TypeOK, PushLock, MutexInv, PushInv, PopInv, PopExact
<1> QED  BY <1>1, <1>2, <1>3, NodesUnchanged DEF IInv

\* An iteration of the loop of a push keeps the invariant.
LEMMA PushPassKeeps ==
  ASSUME IInv, PushPass
  PROVE  IInv'
<1>1. PICK n \in 1..push.size - push.pos :
           /\ Good(nodes') /\ nodes' # <<>> /\ tail'
           /\ Flat(nodes') = Flat(nodes) \o Fresh(n)
           /\ count' = count + n
           /\ next' = (next + n) % NumBytes
           /\ push' = [push EXCEPT !.pos = @ + n]
           /\ UNCHANGED <<mutex, pop, last>>
  BY PushPassList
<1>2. /\ push.pc = "loop" /\ push.size \in 0..MaxSize /\ push.pos \in 0..MaxSize
      /\ push.size - push.pos <= MaxSize - count /\ count \in 0..MaxSize /\ next \in Bytes
      /\ mutex = "push" /\ pop.pc # "loop"
  BY DEF PushPass, IInv, TypeOK, PushInv, MutexInv
<1>3. /\ n \in Nat /\ n \in 1..MaxSize /\ push.pos + n \in 0..MaxSize /\ count + n \in 0..MaxSize
      /\ push.pos + n <= push.size /\ push.size - (push.pos + n) <= MaxSize - (count + n)
  BY <1>2, Sizes
<1>4. next' \in Bytes
  <2> DEFINE z == next + n
  <2>1. z \in Int
    BY <1>2, <1>3, Sizes DEF Bytes
  <2> HIDE DEF z
  <2>2. z % NumBytes \in Bytes
    BY <2>1, ModDef, Sizes DEF Bytes
  <2> QED  BY <1>1, <2>2 DEF z
<1>5. TypeOK'
  <2>1. nodes' \in Seq(Nodes)
    BY <1>1 DEF Good
  <2>2. /\ tail' \in BOOLEAN /\ count' \in 0..MaxSize
        /\ mutex' \in {"none", "push", "pop"} /\ last' \in Seq(Bytes)
    BY <1>1, <1>3 DEF IInv, TypeOK, PushPass
  <2>3. push' \in [pc : {"idle", "lock", "loop", "done"}, size : 0..MaxSize, pos : 0..MaxSize,
                   ret : {"SUCCESS", "ERR_SIZE", "ERR_MALLOC"}]
    BY <1>1, <1>3 DEF IInv, TypeOK
  <2> QED  BY <1>1, <1>4, <2>1, <2>2, <2>3 DEF IInv, TypeOK
<1>6. count' = Len(Flat(nodes'))
  <2>1. Flat(nodes) \in Seq(Bytes) /\ Len(Flat(nodes)) = count
    BY CountIs
  <2>2. Fresh(n) \in Seq(Bytes) /\ Len(Fresh(n)) = n
    BY <1>2, <1>3, FreshType
  <2> QED  BY <1>1, <2>1, <2>2, ConcatProperties
<1>7. MutexInv' /\ PushInv'
  BY <1>1, <1>2, <1>3 DEF IInv, TypeOK, MutexInv, PushInv
<1>8. PopInv'
  BY <1>1, <1>2, <1>3 DEF IInv, TypeOK, PopInv, PopExact
<1> QED  BY <1>1, <1>5, <1>6, <1>7, <1>8 DEF IInv

\* So does the end of a push, complete or not.
LEMMA PushEndKeeps ==
  ASSUME IInv, PushNoMemory \/ PushUnlock \/ PushReturn
  PROVE  IInv'
<1>1. UNCHANGED <<nodes, tail, count, pop, next, last>>
  BY DEF PushNoMemory, PushUnlock, PushReturn
<1>2. /\ push \in Pushes /\ pop \in Pops /\ mutex \in {"none", "push", "pop"} /\ 0 \in 0..MaxSize
      /\ TypeOK /\ MutexInv /\ PushInv /\ PopInv
  BY Sizes DEF IInv, TypeOK, Pushes, Pops
<1>3. CASE PushNoMemory \/ PushUnlock
  <2>1. PICK r \in {push.ret, "ERR_MALLOC"} :
          push' = [push EXCEPT !.pc = "done", !.ret = r] /\ mutex' = "none" /\ push.pc = "loop"
    <3>1. CASE PushNoMemory
      BY <3>1 DEF PushNoMemory
    <3>2. CASE PushUnlock
      <4>1. push' = [push EXCEPT !.pc = "done", !.ret = push.ret]
        BY <1>2, <3>2 DEF PushUnlock, Pushes
      <4> QED  BY <3>2, <4>1 DEF PushUnlock
    <3> QED  BY <1>3, <3>1, <3>2
  <2>2. push' \in Pushes /\ mutex' \in {"none", "push", "pop"} /\ pop' \in Pops
    BY <1>1, <1>2, <2>1 DEF Pushes
  <2>3. push'.pc = "done" /\ push'.ret = r
    BY <1>2, <2>1 DEF Pushes
  <2>4. TypeOK'
    BY <1>1, <1>2, <2>2, TypeKept
  <2>5. MutexInv' /\ PushInv' /\ PopInv'
    BY <1>1, <1>2, <2>1, <2>3 DEF MutexInv, PushInv, PopInv, PopExact
  <2> QED  BY <1>1, <2>4, <2>5, NodesUnchanged DEF IInv
<1>4. CASE PushReturn
  <2>1. push' = [pc |-> "idle", size |-> 0, pos |-> 0, ret |-> "SUCCESS"] /\ mutex' = mutex
        /\ push.pc = "done"
    BY <1>4 DEF PushReturn, NoPush
  <2>2. push' \in Pushes /\ mutex' \in {"none", "push", "pop"} /\ pop' \in Pops
    BY <1>1, <1>2, <2>1 DEF Pushes
  <2>3. TypeOK'
    BY <1>1, <1>2, <2>2, TypeKept
  <2>4. MutexInv' /\ PushInv' /\ PopInv'
    BY <1>1, <1>2, <2>1 DEF MutexInv, PushInv, PopInv, PopExact
  <2> QED  BY <1>1, <2>3, <2>4, NodesUnchanged DEF IInv
<1> QED  BY <1>3, <1>4

\* The pop finds what was seen or asked for.
LEMMA PopLockKeeps ==
  ASSUME IInv, PopLock
  PROVE  IInv'
<1> DEFINE n == Least(pop.asked, count)
<1>0. UNCHANGED <<nodes, tail, count, push, next, last>>
  BY DEF PopLock
<1>1. /\ n \in 0..MaxSize /\ n <= count /\ n >= Least(pop.asked, pop.seen)
      /\ pop.pc = "lock" /\ mutex = "none" /\ pop.pos = 0 /\ pop.asked \in 0..MaxSize
      /\ count \in 0..MaxSize
  BY Sizes DEF IInv, TypeOK, PopLock, PopInv, Least
<1>2. nodes = <<>> => n = 0
  <2>1. nodes = <<>> => count = 0
    BY FlatEmpty, EmptySeq DEF IInv
  <2> QED  BY <1>1, <2>1 DEF Least
<1>3. CASE nodes = <<>>
  <2>1. pop' = [pop EXCEPT !.pc = "done", !.size = n, !.ret = "ERR_EMPTY"] /\ UNCHANGED mutex
    BY <1>3 DEF PopLock
  <2> HIDE DEF n
  <2>2. TypeOK'
    BY <1>0, <1>1, <2>1 DEF IInv, TypeOK
  <2>3. MutexInv' /\ PushInv' /\ PopInv'
    BY <1>0, <1>1, <1>2, <1>3, <2>1 DEF IInv, TypeOK, MutexInv, PushInv, PopInv, PopExact
  <2> QED  BY <1>0, <2>2, <2>3, NodesUnchanged DEF IInv
<1>4. CASE nodes # <<>>
  <2>1. pop' = [pop EXCEPT !.pc = "loop", !.size = n] /\ mutex' = "pop"
    BY <1>4 DEF PopLock
  <2> HIDE DEF n
  <2>2. TypeOK'
    BY <1>0, <1>1, <2>1 DEF IInv, TypeOK
  <2>3. MutexInv' /\ PushInv' /\ PopInv'
    BY <1>0, <1>1, <2>1 DEF IInv, TypeOK, MutexInv, PushInv, PopInv, PopExact
  <2> QED  BY <1>0, <2>2, <2>3, NodesUnchanged DEF IInv
<1> QED  BY <1>3, <1>4

\* An iteration of the loop of a pop keeps the invariant.
LEMMA PopPassKeeps ==
  ASSUME IInv, PopPass
  PROVE  IInv'
<1>1. PICK n \in 1..pop.size - pop.pos :
           /\ n <= count
           /\ Good(nodes') /\ (tail' <=> nodes' # <<>>)
           /\ last' = SubSeq(Flat(nodes), 1, n)
           /\ Flat(nodes') = SubSeq(Flat(nodes), n + 1, Len(Flat(nodes)))
           /\ count' = count - n
           /\ pop' = [pop EXCEPT !.pos = @ + n]
           /\ UNCHANGED <<mutex, push, next>>
  BY PopPassList
<1>2. /\ pop.pc = "loop" /\ pop.size \in 0..MaxSize /\ pop.pos \in 0..MaxSize
      /\ pop.size - pop.pos <= count /\ count \in 0..MaxSize
      /\ mutex = "pop" /\ push.pc # "loop"
  BY DEF PopPass, IInv, TypeOK, PopInv, MutexInv
<1>3. /\ n \in Nat /\ n \in 1..count /\ pop.pos + n \in 0..MaxSize /\ count - n \in 0..MaxSize
      /\ pop.pos + n <= pop.size /\ pop.size - (pop.pos + n) <= count - n
  <2> DEFINE a == pop.size
             b == pop.pos
  <2>1. /\ n \in 1..a - b /\ n <= count /\ a \in 0..MaxSize /\ b \in 0..MaxSize
        /\ a - b <= count /\ count \in 0..MaxSize
    BY <1>1, <1>2
  <2> HIDE DEF a, b
  <2>2. /\ n \in Nat /\ n \in 1..count /\ b + n \in 0..MaxSize /\ count - n \in 0..MaxSize
        /\ b + n <= a /\ a - (b + n) <= count - n
    BY <2>1, Sizes
  <2> QED  BY <2>2 DEF a, b
<1>4. /\ Flat(nodes) \in Seq(Bytes) /\ Len(Flat(nodes)) = count
      /\ \A i \in 1..count : Flat(nodes)[i] \in Bytes
  BY CountIs, LenProperties
<1>5. last' \in Seq(Bytes)
  <2>1. \A i \in 1..n : Flat(nodes)[i] \in Bytes
    BY <1>2, <1>3, <1>4
  <2> QED  BY <1>1, <1>3, <2>1, SubSeqProperties
<1>6. count' = Len(Flat(nodes'))
  <2> DEFINE m == n + 1
  <2>1. m \in Int /\ m = n + 1 /\ \A i \in m..count : Flat(nodes)[i] \in Bytes
    BY <1>2, <1>3, <1>4
  <2> HIDE DEF m
  <2>2. Len(SubSeq(Flat(nodes), m, count)) = IF m <= count THEN count - m + 1 ELSE 0
    BY <1>2, <2>1, SubSeqProperties
  <2>3. Flat(nodes') = SubSeq(Flat(nodes), m, count)
    BY <1>1, <1>4 DEF m
  <2> QED  BY <1>1, <1>2, <1>3, <2>1, <2>2, <2>3
<1>7. TypeOK'
  <2>1. nodes' \in Seq(Nodes)
    BY <1>1 DEF Good
  <2>2. /\ tail' \in BOOLEAN /\ count' \in 0..MaxSize
        /\ mutex' \in {"none", "push", "pop"} /\ next' \in Bytes
    BY <1>1, <1>3 DEF IInv, TypeOK, PopPass
  <2>3. pop' \in [pc : {"idle", "lock", "loop", "done"}, seen : 0..MaxSize, asked : 0..MaxSize,
                  size : 0..MaxSize, pos : 0..MaxSize, ret : {"SUCCESS", "ERR_EMPTY"}]
    BY <1>1, <1>3 DEF IInv, TypeOK
  <2> QED  BY <1>1, <1>5, <2>1, <2>2, <2>3 DEF IInv, TypeOK
<1>8. MutexInv' /\ PopInv'
  BY <1>1, <1>2, <1>3 DEF IInv, TypeOK, MutexInv, PopInv, PopExact, Least
<1>9. PushInv'
  <2>1. push' = push /\ MaxSize - count <= MaxSize - count'
    BY <1>1, <1>2, <1>3, Sizes
  <2>2. push.size \in Int /\ push.pos \in Int
    BY DEF IInv, TypeOK
  <2>3. MaxSize - count \in Int /\ MaxSize - count' \in Int
    BY <1>1, <1>2, <1>3, Sizes
  <2> QED  BY <1>2, <2>1, <2>2, <2>3 DEF IInv, PushInv
<1> QED  BY <1>1, <1>6, <1>7, <1>8, <1>9 DEF IInv

\* The loop of a pop runs out of nodes only when it has all it wanted.
LEMMA PopEndKeeps ==
  ASSUME IInv, PopUnlock \/ PopReturn
  PROVE  IInv'
<1>1. UNCHANGED <<nodes, tail, count, push, next, last>>
  BY DEF PopUnlock, PopReturn
<1>2. /\ push \in Pushes /\ pop \in Pops /\ mutex \in {"none", "push", "pop"} /\ 0 \in 0..MaxSize
      /\ TypeOK /\ MutexInv /\ PushInv /\ PopInv /\ count \in 0..MaxSize
  BY Sizes DEF IInv, TypeOK, Pushes, Pops
<1>3. nodes = <<>> => count = 0
  BY FlatEmpty, EmptySeq DEF IInv
<1>4. CASE PopUnlock
  <2>1. PICK r \in {pop.ret, "ERR_EMPTY"} :
          pop' = [pop EXCEPT !.pc = "done", !.ret = r] /\ mutex' = "none" /\ pop.pc = "loop"
    BY <1>4 DEF PopUnlock
  <2>2. pop.pos = pop.size /\ pop.size >= Least(pop.asked, pop.seen)
    <3>1. /\ pop.pos <= pop.size /\ pop.size - pop.pos <= count
          /\ pop.size >= Least(pop.asked, pop.seen)
          /\ pop.pos = pop.size \/ nodes = <<>>
      BY <1>2, <1>4 DEF PopUnlock, PopInv
    <3>2. pop.pos \in Int /\ pop.size \in Int
      BY <1>2 DEF Pops
    <3> QED  BY <1>3, <3>1, <3>2
  <2>3. push' \in Pushes /\ mutex' \in {"none", "push", "pop"} /\ pop' \in Pops
    BY <1>1, <1>2, <2>1 DEF Pops
  <2>4. /\ pop'.pc = "done" /\ pop'.pos = pop.pos /\ pop'.size = pop.size
        /\ pop'.asked = pop.asked /\ pop'.seen = pop.seen
    BY <1>2, <2>1 DEF Pops
  <2>5. TypeOK'
    BY <1>1, <1>2, <2>3, TypeKept
  <2>6. MutexInv' /\ PushInv' /\ PopInv'
    BY <1>1, <1>2, <2>1, <2>2, <2>4 DEF MutexInv, PushInv, PopInv, PopExact
  <2> QED  BY <1>1, <2>5, <2>6, NodesUnchanged DEF IInv
<1>5. CASE PopReturn
  <2>1. /\ pop' = [pc |-> "idle", seen |-> 0, asked |-> 0, size |-> 0, pos |-> 0, ret |-> "SUCCESS"]
        /\ mutex' = mutex /\ pop.pc = "done"
    BY <1>5 DEF PopReturn, NoPop
  <2>2. push' \in Pushes /\ mutex' \in {"none", "push", "pop"} /\ pop' \in Pops
    BY <1>1, <1>2, <2>1 DEF Pops
  <2>3. TypeOK'
    BY <1>1, <1>2, <2>2, TypeKept
  <2>4. MutexInv' /\ PushInv' /\ PopInv'
    BY <1>1, <1>2, <2>1 DEF MutexInv, PushInv, PopInv, PopExact
  <2> QED  BY <1>1, <2>3, <2>4, NodesUnchanged DEF IInv
<1> QED  BY <1>4, <1>5

\* An emptied list is sound.
LEMMA ClearKeeps ==
  ASSUME IInv, Clear
  PROVE  IInv'
<1>1. nodes' = <<>> /\ tail' = FALSE /\ count' = 0 /\ UNCHANGED <<mutex, push, pop, next, last>>
      /\ push.pc = "idle" /\ pop.pc = "idle"
  BY DEF Clear
<1>2. nodes' \in Seq(Nodes) /\ Len(nodes') = 0
  BY <1>1, EmptySeq
<1>3. Good(nodes')
  BY <1>2 DEF Good
<1>4. count' = Len(Flat(nodes'))
  BY <1>1, FlatEmpty, EmptySeq
<1>5. TypeOK'
  <2>1. tail' \in BOOLEAN
    BY <1>1
  <2>2. count' \in 0..MaxSize
    BY <1>1, Sizes
  <2> QED  BY <1>1, <1>2, <2>1, <2>2 DEF IInv, TypeOK
<1>6. MutexInv' /\ PushInv' /\ PopInv'
  BY <1>1 DEF IInv, MutexInv, PushInv, PopInv, PopExact
<1> QED  BY <1>1, <1>3, <1>4, <1>5, <1>6 DEF IInv

\* Every step keeps the invariant.
LEMMA InvStep == IInv /\ [Next]_vars => IInv'
<1> SUFFICES ASSUME IInv, [Next]_vars PROVE IInv'
  OBVIOUS
<1>1. ASSUME NEW n \in 1..MaxChunk, CheckFree(n) PROVE IInv'
  BY <1>1, CheckFreeKeeps
<1>2. ASSUME NEW n \in 1..MaxChunk, SeeCount(n) PROVE IInv'
  BY <1>2, SeeCountKeeps
<1>3. CASE PushLock
  BY <1>3, PushLockKeeps
<1>4. CASE PushPass
  BY <1>4, PushPassKeeps
<1>5. CASE PushNoMemory \/ PushUnlock \/ PushReturn
  BY <1>5, PushEndKeeps
<1>6. CASE PopLock
  BY <1>6, PopLockKeeps
<1>7. CASE PopPass
  BY <1>7, PopPassKeeps
<1>8. CASE PopUnlock \/ PopReturn
  BY <1>8, PopEndKeeps
<1>9. CASE Clear
  BY <1>9, ClearKeeps
<1>10. CASE UNCHANGED vars
  <2>1. UNCHANGED <<nodes, tail, count, mutex, push, pop, next, last>>
    BY <1>10 DEF vars
  <2>2. TypeOK' /\ MutexInv' /\ PushInv' /\ PopInv'
    BY <2>1 DEF IInv, TypeOK, MutexInv, PushInv, PopInv, PopExact
  <2> QED  BY <2>1, <2>2, NodesUnchanged DEF IInv
<1> QED  BY <1>1, <1>2, <1>3, <1>4, <1>5, <1>6, <1>7, <1>8, <1>9, <1>10 DEF Next

\* The invariant holds throughout.
LEMMA Invariant == Spec => []IInv
  BY InvInit, InvStep, PTL DEF Spec

\* Whenever the counts are read, also in the middle of a push or a pop, count is
\* what the nodes hold, no node is empty and only the ends of the list have room
\* (common_buffer.c 159-182 and 208-233).
THEOREM ListCorrect == Spec => []ListSound
  BY Invariant, InvCorrect, PTL

\* No push is refused after http_download_wait_free, and every pop returns all of
\* what was asked for or seen, though both looked without the mutex.
THEOREM SizesCorrect == Spec => []SizesKept
  BY Invariant, InvCorrect, PTL

-----------------------------------------------------------------------------
(* The refinement of ByteFifo *)

\* What FifoSpec maps the list to.
LEMMA StoredIs == Stored = Flat(nodes) /\ Stored' = Flat(nodes')
  BY DEF Stored, Flat, Contents

\* The empty list is the empty store.
LEMMA FifoInit == Init => Fifo!Init
  BY StoredIs, FlatEmpty DEF Init, Fifo!Init

\* An iteration of a push is a push of the store.
LEMMA FifoPush ==
  ASSUME IInv, PushPass
  PROVE  Fifo!Next
<1>1. PICK n \in 1..push.size - push.pos :
           /\ Flat(nodes') = Flat(nodes) \o Fresh(n)
           /\ next' = (next + n) % NumBytes
           /\ UNCHANGED last
  BY PushPassList
<1>2. /\ push.size \in 0..MaxSize /\ push.pos \in 0..MaxSize
      /\ push.size - push.pos <= MaxSize - count /\ count \in 0..MaxSize
  BY DEF PushPass, IInv, TypeOK, PushInv
<1>3. n \in 0..MaxSize /\ count + n <= MaxSize
  BY <1>2, Sizes
<1>4. Fifo!Push(n)
  BY <1>1, <1>3, CountIs, StoredIs DEF Fifo!Push, Fresh
<1> QED  BY <1>3, <1>4 DEF Fifo!Next

\* An iteration of a pop is a pop of the store.
LEMMA FifoPop ==
  ASSUME IInv, PopPass
  PROVE  Fifo!Next
<1>1. PICK n \in 1..pop.size - pop.pos :
           /\ n <= count
           /\ last' = SubSeq(Flat(nodes), 1, n)
           /\ Flat(nodes') = SubSeq(Flat(nodes), n + 1, Len(Flat(nodes)))
           /\ UNCHANGED next
  BY PopPassList
<1>2. pop.size \in 0..MaxSize /\ pop.pos \in 0..MaxSize /\ count \in 0..MaxSize
  BY DEF IInv, TypeOK
<1>3. n \in 0..MaxSize
  BY <1>1, <1>2, Sizes
<1>4. Fifo!Pop(n)
  BY <1>1, CountIs, StoredIs DEF Fifo!Pop
<1> QED  BY <1>3, <1>4 DEF Fifo!Next

\* Every step is a step of the store, or changes nothing of it.
LEMMA FifoStep ==
  ASSUME IInv, [Next]_vars
  PROVE  [Fifo!Next]_<<Stored, next, last>>
<1>1. CASE PushPass
  BY <1>1, FifoPush
<1>2. CASE PopPass
  BY <1>2, FifoPop
<1>3. CASE Clear
  BY <1>3, FlatEmpty, StoredIs DEF Clear, Fifo!Next, Fifo!Clear
<1>4. ASSUME UNCHANGED <<nodes, next, last>> PROVE UNCHANGED <<Stored, next, last>>
  BY <1>4, StoredIs
<1>5. PushPass \/ PopPass \/ Clear \/ UNCHANGED <<nodes, next, last>>
  BY DEF Next, vars, CheckFree, SeeCount, PushLock, PushNoMemory, PushUnlock, PushReturn,
         PopLock, PopUnlock, PopReturn
<1> QED  BY <1>1, <1>2, <1>3, <1>4, <1>5

\* common_buffer.c implements the first-in-first-out store: across nodes, around
\* the ring in each, and where nodes are created and destroyed.
THEOREM FifoCorrect == Spec => FifoSpec
<1>1. []IInv /\ [][Next]_vars => [][Fifo!Next]_<<Stored, next, last>>
  BY FifoStep, PTL
<1> QED  BY <1>1, FifoInit, Invariant, PTL DEF Spec, FifoSpec, Fifo!Spec

=============================================================================
