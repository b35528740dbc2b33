-------------------------- MODULE RingBufferProofs --------------------------
(*************************************************************************)
(* Theorems about RingBuffer, for every Size that divides Modulus: the two *)
(* counters are never further apart than the buffer is long, and the ring *)
(* implements the first-in-first-out store of ByteFifo.                  *)
(*                                                                       *)
(* The counters run free and are wrapped at Modulus, the positions in the *)
(* buffer at Size.  That the two agree, AtModulus, is where Size | Modulus *)
(* is needed (ring_buffer_init takes any size; see RingBufferInit).      *)
(*************************************************************************)
EXTENDS RingBuffer, SequenceTheorems, TLAPS

-----------------------------------------------------------------------------
(* Remainders *)

\* What the provers know of a remainder.
LEMMA ModDef ==
  ASSUME NEW a \in Int, NEW m \in Nat \ {0}
  PROVE  a % m \in 0..m - 1 /\ a \div m \in Int /\ a = m * (a \div m) + (a % m)
OBVIOUS

\* Only 0 is a multiple of m that is smaller than m.
LEMMA SmallMultiple ==
  ASSUME NEW m \in Nat \ {0}, NEW k \in Int, -m < m * k, m * k < m
  PROVE  k = 0
<1>1. k >= 1 => m * k >= m
  OBVIOUS
<1>2. k <= -1 => m * k <= -m
  OBVIOUS
<1> QED BY <1>1, <1>2

\* A quotient and a remainder are unique.
LEMMA ModUnique ==
  ASSUME NEW m \in Nat \ {0}, NEW q \in Int, NEW r \in 0..m - 1
  PROVE  (m * q + r) % m = r
<1> DEFINE a == m * q + r
           p == a \div m
           s == a % m
<1>1. a \in Int /\ p \in Int /\ s \in 0..m-1 /\ a = m * p + s
  BY ModDef
<1>2. m * (p - q) = r - s
  BY <1>1
<1>3. p - q = 0
  BY <1>1, <1>2, SmallMultiple
<1> QED BY <1>1, <1>3

\* A remainder does not depend on multiples of m.
LEMMA ModShift ==
  ASSUME NEW m \in Nat \ {0}, NEW a \in Int, NEW k \in Int
  PROVE  (a + m * k) % m = a % m
<1> DEFINE q == a \div m
           r == a % m
<1>1. a = m * q + r /\ q \in Int /\ r \in 0..m-1
  BY ModDef
<1>2. a + m * k = m * (q + k) + r
  BY <1>1
<1>3. q + k \in Int
  BY <1>1
<1> HIDE DEF q, r
<1>4. (m * (q + k) + r) % m = r
  BY <1>1, <1>3, ModUnique
<1> QED BY <1>2, <1>4 DEF r

\* A remainder is its own remainder.
LEMMA ModSmall ==
  ASSUME NEW m \in Nat \ {0}, NEW a \in 0..m - 1
  PROVE  a % m = a
<1>1. (m * 0 + a) % m = a
  BY ModUnique
<1> QED BY <1>1

\* Adding or taking off m leaves the remainder.
LEMMA ModWrap ==
  ASSUME NEW m \in Nat \ {0}, NEW a \in Int
  PROVE  (a + m) % m = a % m /\ (a - m) % m = a % m
<1> DEFINE q == a \div m
           r == a % m
<1>1. a = m * q + r /\ q \in Int /\ r \in 0..m-1
  BY ModDef
<1>2. a + m = m * (q + 1) + r /\ a - m = m * (q - 1) + r
  BY <1>1
<1>3. q + 1 \in Int /\ q - 1 \in Int
  BY <1>1
<1> HIDE DEF q, r
<1>4. (m * (q + 1) + r) % m = r /\ (m * (q - 1) + r) % m = r
  BY <1>1, <1>3, ModUnique
<1> QED BY <1>2, <1>4 DEF r

-----------------------------------------------------------------------------
(* Words and positions *)

\* [1..n -> S] are the sequences over S of length n.
LEMMA SeqOfLength ==
  ASSUME NEW S, NEW n \in Nat, NEW f \in [1..n -> S]
  PROVE  f \in Seq(S) /\ Len(f) = n
<1>1. f \in Seq(S)
  BY SeqDef
<1>2. Len(f) \in Nat /\ DOMAIN f = 1..Len(f)
  BY <1>1, LenProperties
<1>3. DOMAIN f = 1..n
  OBVIOUS
<1> QED  BY <1>1, <1>2, <1>3

\* The sizes are positive.
LEMMA Positive == Size \in Nat \ {0} /\ Modulus \in Nat \ {0}
  BY SizeAssumption, ModulusAssumption

\* What the truncation to a word does to a number at most Modulus away from one.
LEMMA WordIs ==
  ASSUME NEW x \in Int
  PROVE  /\ x \in 0..Modulus - 1 => Word(x) = x
         /\ x + Modulus \in 0..Modulus - 1 => Word(x) = x + Modulus
         /\ x - Modulus \in 0..Modulus - 1 => Word(x) = x - Modulus
BY Positive, ModSmall, ModWrap DEF Word

\* Every counter has a place in the buffer.
LEMMA AtIndex == \A x \in Int : At(x) \in Index
  BY Positive, ModDef DEF At, Index

\* A counter that is wrapped keeps its place, for Size divides Modulus.
LEMMA AtModulus ==
  ASSUME NEW x \in Int, NEW y \in Int, y = x - Modulus
  PROVE  At(y) = At(x)
<1> DEFINE k == Modulus \div Size
<1>1. Modulus = Size * k /\ k \in Int
  BY Positive, ModDef, ModulusAssumption
<1> HIDE DEF k
<1>2. -k \in Int /\ y = x + Size * (-k)
  BY <1>1, Positive
<1> QED  BY <1>2, ModShift, Positive DEF At

\* Places follow each other around the ring.
LEMMA AtPlus ==
  ASSUME NEW x \in Int, NEW j \in 0..Size
  PROVE  At(x + j) = IF At(x) + j < Size THEN At(x) + j ELSE At(x) + j - Size
<1> DEFINE q == x \div Size
           r == x % Size
<1>1. x = Size * q + r /\ q \in Int /\ r \in 0..Size - 1
  BY ModDef, Positive
<1>2. At(x) = r
  BY DEF At
<1> HIDE DEF q, r
<1>3. PICK p \in Int, y \in 0..Size - 1 :
        /\ x + j = Size * p + y
        /\ y = IF r + j < Size THEN r + j ELSE r + j - Size
  <2>1. CASE r + j < Size
    BY <1>1, <2>1, Positive
  <2>2. CASE r + j >= Size
    <3>1. x + j = Size * (q + 1) + (r + j - Size) /\ r + j - Size \in 0..Size - 1
      BY <1>1, <2>2, Positive
    <3> QED  BY <1>1, <2>2, <3>1, Positive
  <2> QED  BY <1>1, <2>1, <2>2, Positive
<1>4. (Size * p + y) % Size = y
  BY ModUnique, Positive
<1> QED  BY <1>2, <1>3, <1>4 DEF At

-----------------------------------------------------------------------------
(* The counts *)

\* No more is stored than fits.
IInv == CountsSound /\ GetCount <= Size

\* The count of two counters, whichever is ahead.
LEMMA CountIs ==
  ASSUME NEW a \in 0..Modulus - 1, NEW b \in 0..Modulus - 1
  PROVE  Word(a - b) = IF a >= b THEN a - b ELSE a - b + Modulus
BY WordIs, Positive

\* in lies as far behind out as is stored, and the rest of the buffer is free.
LEMMA CountsAgree ==
  ASSUME NEW a \in 0..Modulus - 1, NEW b \in 0..Modulus - 1, Word(a - b) <= Size
  PROVE  /\ Word(a - b) \in 0..Size
         /\ a = b + Word(a - b) \/ a = b + Word(a - b) - Modulus
         /\ Word(Size - a + b) = Size - Word(a - b)
<1> DEFINE c == Word(a - b)
<1>1. c = IF a >= b THEN a - b ELSE a - b + Modulus
  BY CountIs
<1> HIDE DEF c
<1>2. c \in 0..Size /\ (a = b + c \/ a = b + c - Modulus)
  BY <1>1, Positive DEF c
<1>3. Size - a + b = Size - c \/ Size - a + b = Size - c + Modulus
  BY <1>2, Positive
<1>4. Size - a + b \in Int /\ Size - c \in 0..Modulus - 1
  BY <1>2, Positive, ModulusAssumption
<1>5. Word(Size - a + b) = Size - c
  BY <1>3, <1>4, WordIs, Positive
<1> QED  BY <1>2, <1>5 DEF c

\* A push of what fits adds to the count, also when in wraps.
LEMMA PushCounts ==
  ASSUME TypeOK, GetCount <= Size, NEW n \in 0..Size - GetCount,
         in' = Word(in + n), out' = out
  PROVE  in' \in 0..Modulus - 1 /\ GetCount' = GetCount + n
<1>1. GetCount \in 0..Size /\ (in = out + GetCount \/ in = out + GetCount - Modulus)
  BY CountsAgree DEF TypeOK, GetCount
<1>2. in' = IF in + n < Modulus THEN in + n ELSE in + n - Modulus
  BY <1>1, WordIs, Positive, ModulusAssumption DEF TypeOK
<1>3. in' \in 0..Modulus - 1 /\ out' \in 0..Modulus - 1
  BY <1>1, <1>2, Positive, ModulusAssumption DEF TypeOK
<1>4. GetCount' = IF in' >= out' THEN in' - out' ELSE in' - out' + Modulus
  BY <1>3, CountIs DEF GetCount
<1> QED  BY <1>1, <1>2, <1>3, <1>4, Positive, ModulusAssumption DEF TypeOK

\* A pop of what is there takes from the count, also when out wraps.
LEMMA PopCounts ==
  ASSUME TypeOK, GetCount <= Size, NEW n \in 0..GetCount,
         out' = Word(out + n), in' = in
  PROVE  out' \in 0..Modulus - 1 /\ GetCount' = GetCount - n
<1>1. GetCount \in 0..Size /\ (in = out + GetCount \/ in = out + GetCount - Modulus)
  BY CountsAgree DEF TypeOK, GetCount
<1>2. out' = IF out + n < Modulus THEN out + n ELSE out + n - Modulus
  BY <1>1, WordIs, Positive, ModulusAssumption DEF TypeOK
<1>3. in' \in 0..Modulus - 1 /\ out' \in 0..Modulus - 1
  BY <1>1, <1>2, Positive, ModulusAssumption DEF TypeOK
<1>4. GetCount' = IF in' >= out' THEN in' - out' ELSE in' - out' + Modulus
  BY <1>3, CountIs DEF GetCount
<1> QED  BY <1>1, <1>2, <1>3, <1>4, Positive, ModulusAssumption DEF TypeOK

\* The numbers of the bytes.
LEMMA ByteNumbers == NumBytes \in Nat \ {0} /\ \A x \in Int : x % NumBytes \in Bytes
  BY ByteAssumption, ModDef DEF Bytes

\* The two copies of a push stay in the buffer and read the data they are given.
LEMMA CopyInType ==
  ASSUME TypeOK, NEW n \in 0..Size
  PROVE  CopyIn(Data(n), n) \in [Index -> Bytes]
<1> DEFINE at == At(in)
           len == Least(n, Size - at)
<1>1. at \in 0..Size - 1
  BY AtIndex DEF TypeOK, Index
<1>2. len \in 0..n /\ len <= Size - at
  BY <1>1, Positive DEF Least
<1>3. \A j \in 0..n - 1 : Data(n)[j] \in Bytes
  <2>1. \A j \in 0..n - 1 : next + j \in Int
    BY DEF TypeOK, Bytes
  <2> QED  BY <2>1, ByteNumbers DEF Data
<1> HIDE DEF at, len
<1>4. \A k \in Index : /\ k < n - len => len + k \in 0..n - 1
                       /\ at <= k /\ k < at + len => k - at \in 0..n - 1
  BY <1>1, <1>2, Positive DEF Index
<1>5. \A k \in Index : (IF k < n - len THEN Data(n)[len + k]
                        ELSE IF at <= k /\ k < at + len THEN Data(n)[k - at] ELSE buffer[k])
                       \in Bytes
  BY <1>3, <1>4 DEF TypeOK
<1> QED  BY <1>5 DEF CopyIn, at, len

\* The two copies of a pop stay in the buffer.
LEMMA CopyOutType ==
  ASSUME TypeOK, NEW n \in 0..Size
  PROVE  CopyOut(n) \in [1..n -> Bytes]
<1> DEFINE at == At(out)
           len == Least(n, Size - at)
<1>1. at \in 0..Size - 1
  BY AtIndex DEF TypeOK, Index
<1>2. len \in 0..n /\ len <= Size - at /\ (len = n \/ len = Size - at)
  BY <1>1, Positive DEF Least
<1> HIDE DEF at, len
<1>3. \A k \in 1..n : IF k <= len THEN at + k - 1 \in Index ELSE k - len - 1 \in Index
  BY <1>1, <1>2, Positive DEF Index
<1>4. \A k \in 1..n : (IF k <= len THEN buffer[at + k - 1] ELSE buffer[k - len - 1]) \in Bytes
  BY <1>3 DEF TypeOK
<1> QED  BY <1>4 DEF CopyOut, at, len

\* The empty buffer satisfies the invariant.
LEMMA InvInit == Init => IInv
<1> SUFFICES ASSUME Init PROVE IInv
  OBVIOUS
<1>1. GetCount = 0
  BY WordIs, Positive DEF Init, GetCount
<1>2. 0 \in Bytes /\ 0 \in 0..Modulus - 1 /\ 0 \in 0..Size
  BY Positive, ByteAssumption DEF Bytes
<1> QED  BY <1>1, <1>2, Positive DEF Init, IInv, CountsSound, TypeOK, SeenSafe

\* Every operation keeps it; the locals of the callback stay behind GetCount
\* and ahead of GetFreeCount, because only the callback pops.
LEMMA InvStep == IInv /\ [Next]_vars => IInv'
<1> SUFFICES ASSUME IInv, [Next]_vars PROVE IInv'
  OBVIOUS
<1>0. TypeOK /\ GetCount <= Size /\ GetCount \in 0..Size /\ GetFreeCount = Size - GetCount
  BY CountsAgree DEF IInv, CountsSound, TypeOK, GetCount, GetFreeCount
<1> USE DEF IInv, CountsSound
<1>1. ASSUME NEW asked \in 0..MaxChunk, Push(asked) PROVE IInv'
  <2> DEFINE n == Least(asked, GetFreeCount)
  <2>1. n \in 0..Size - GetCount /\ n \in 0..Size
    BY <1>0, ByteAssumption, Positive DEF Least
  <2> HIDE DEF n
  <2>2. buffer' \in [Index -> Bytes]
    BY <1>0, <1>1, <2>1, CopyInType DEF Push, n
  <2>3. in' \in 0..Modulus - 1 /\ GetCount' = GetCount + n
    BY <1>0, <1>1, <2>1, PushCounts DEF Push, n
  <2>4. next' \in Bytes
    <3>1. next + n \in Int
      BY <1>0, <2>1 DEF TypeOK, Bytes
    <3> QED  BY <1>1, <3>1, ByteNumbers DEF Push, n
  <2>5. TypeOK'
    BY <1>0, <1>1, <2>2, <2>3, <2>4 DEF TypeOK, Push
  <2>6. GetFreeCount' = GetFreeCount - n
    <3>1. GetCount' <= Size
      BY <1>0, <2>1, <2>3, Positive
    <3>2. GetFreeCount' = Size - GetCount'
      BY <2>5, <3>1, CountsAgree DEF TypeOK, GetCount, GetFreeCount
    <3> QED  BY <1>0, <2>1, <2>3, <3>2, Positive
  <2>7. SeenSafe'
    BY <1>0, <1>1, <2>1, <2>3, <2>6 DEF SeenSafe, Push, TypeOK
  <2> QED  BY <1>0, <2>1, <2>3, <2>5, <2>7, Positive
<1>2. ASSUME NEW asked \in 0..MaxChunk, Pop(asked) PROVE IInv'
  <2> DEFINE n == Least(asked, GetCount)
  <2>1. n \in 0..GetCount /\ n \in 0..Size
    BY <1>0, ByteAssumption, Positive DEF Least
  <2> HIDE DEF n
  <2>2. last' \in Seq(Bytes)
    BY <1>0, <1>2, <2>1, CopyOutType, SeqOfLength DEF Pop, n
  <2>3. out' \in 0..Modulus - 1 /\ GetCount' = GetCount - n
    BY <1>0, <1>2, <2>1, PopCounts DEF Pop, n
  <2> QED  BY <1>0, <1>2, <2>1, <2>2, <2>3, Positive DEF Pop, TypeOK, SeenSafe
<1>3. ASSUME SeeCount PROVE IInv'
  BY <1>0, <1>3, Positive DEF SeeCount, TypeOK, SeenSafe, GetCount
<1>4. ASSUME SeeFreeCount PROVE IInv'
  <2>1. UNCHANGED <<GetCount, GetFreeCount>>
    BY <1>4 DEF SeeFreeCount, GetCount, GetFreeCount
  <2> QED  BY <1>0, <1>4, <2>1, Positive DEF SeeFreeCount, TypeOK, SeenSafe
<1>5. ASSUME Clear PROVE IInv'
  <2>1. GetCount' = 0 /\ 0 \in 0..Modulus - 1
    BY <1>5, WordIs, Positive DEF Clear, GetCount
  <2> QED  BY <1>0, <1>5, <2>1, Positive DEF Clear, TypeOK, SeenSafe
<1>6. CASE UNCHANGED vars
  BY <1>0, <1>6 DEF vars, TypeOK, SeenSafe, GetCount, GetFreeCount
<1> QED  BY <1>1, <1>2, <1>3, <1>4, <1>5, <1>6 DEF Next

\* The invariant holds throughout.
LEMMA InvCorrect == Spec => []IInv
  BY InvInit, InvStep, PTL DEF Spec

\* The counters never drift further apart than Size, also when they wrap, and
\* what __pcm_trans_data_request_callback has seen without the lock is still
\* there when it pops (common_player.c 102-140).
THEOREM CountsCorrect == Spec => []CountsSound
  BY InvCorrect, PTL DEF IInv

-----------------------------------------------------------------------------
(* The bytes *)

\* What the ring buffer stores, as FifoSpec maps it.
Stored == [k \in 1..GetCount |-> buffer[At(out + k - 1)]]

\* What the buffer stores is a sequence of bytes.
LEMMA StoredSeq ==
  ASSUME NEW n \in 0..Size, NEW b \in [Index -> Bytes], NEW o \in 0..Modulus - 1
  PROVE  [k \in 1..n |-> b[At(o + k - 1)]] \in [1..n -> Bytes]
<1>1. \A k \in 1..n : At(o + k - 1) \in Index
  BY AtIndex, Positive
<1> QED  BY <1>1

\* The only sequence of no bytes.
LEMMA NoBytes ==
  ASSUME NEW S, NEW f \in [1..0 -> S]
  PROVE  f = <<>>
BY SeqOfLength, EmptySeq

\* A push writes the n places that follow those that are stored, and no other.
LEMMA CopyInPlaces ==
  ASSUME TypeOK, GetCount <= Size, NEW n \in 0..Size - GetCount, NEW data,
         NEW i \in 0..GetCount + n - 1
  PROVE  CopyIn(data, n)[At(out + i)] =
           IF i < GetCount THEN buffer[At(out + i)] ELSE data[i - GetCount]
<1> DEFINE c == GetCount
           o == At(out)
           a == At(in)
           x == At(out + i)
           len == Least(n, Size - a)
<1>1. /\ c \in 0..Size /\ i \in 0..Size /\ (in = out + c \/ in = out + c - Modulus)
      /\ in \in Int /\ out \in Int /\ out + i \in Int /\ out + c \in Int
  <2>1. c \in 0..Size /\ (in = out + c \/ in = out + c - Modulus) /\ in \in Int /\ out \in Int
    BY CountsAgree, Positive DEF TypeOK, GetCount
  <2> HIDE DEF c
  <2>2. n \in 0..Size - c /\ i \in 0..c + n - 1
    BY DEF c
  <2> QED  BY <2>1, <2>2, Positive
<1>2. o \in 0..Size - 1 /\ a \in 0..Size - 1 /\ x \in 0..Size - 1
  BY <1>1, AtIndex DEF Index
<1>3. a = IF o + c < Size THEN o + c ELSE o + c - Size
  <2>1. a = At(out + c)
    <3> DEFINE e == out + c
    <3>1. e \in Int /\ (in = e \/ in = e - Modulus) /\ in \in Int
      BY <1>1, Positive
    <3> HIDE DEF e
    <3>2. At(in) = At(e)
      BY <3>1, AtModulus
    <3> QED  BY <3>2 DEF e
  <2> QED  BY <1>1, <2>1, AtPlus
<1>4. x = IF o + i < Size THEN o + i ELSE o + i - Size
  BY <1>1, AtPlus
<1>5. len \in 0..n /\ len <= Size - a /\ (len = n \/ len = Size - a)
  BY <1>1, <1>2, Positive DEF Least
<1>6. CopyIn(data, n)[x] = IF x < n - len THEN data[len + x]
                           ELSE IF a <= x /\ x < a + len THEN data[x - a] ELSE buffer[x]
  BY <1>2 DEF CopyIn, Index
<1> HIDE DEF c, o, a, x, len
<1>7. CASE i < c
  <2>1. ~(x < n - len) /\ ~(a <= x /\ x < a + len)
    BY <1>1, <1>2, <1>3, <1>4, <1>5, <1>7, Positive DEF c
  <2> QED  BY <1>6, <1>7, <2>1 DEF c, x
<1>8. CASE ~(i < c)
  <2>1. \/ x < n - len /\ len + x = i - c
        \/ ~(x < n - len) /\ a <= x /\ x < a + len /\ x - a = i - c
    BY <1>1, <1>2, <1>3, <1>4, <1>5, <1>8, Positive DEF c
  <2> QED  BY <1>6, <1>8, <2>1 DEF c, x
<1> QED  BY <1>7, <1>8

\* A pop delivers the n bytes that were stored first.
LEMMA CopyOutPlaces ==
  ASSUME TypeOK, NEW n \in 0..Size, NEW k \in 1..n
  PROVE  CopyOut(n)[k] = buffer[At(out + k - 1)]
<1> DEFINE o == At(out)
           x == At(out + (k - 1))
           len == Least(n, Size - o)
<1>1. o \in 0..Size - 1 /\ k - 1 \in 0..Size /\ out \in Int
  BY AtIndex, Positive DEF Index, TypeOK
<1>2. x = IF o + (k - 1) < Size THEN o + (k - 1) ELSE o + (k - 1) - Size
  BY <1>1, AtPlus
<1>3. len \in 0..n /\ len <= Size - o /\ (len = n \/ len = Size - o)
  BY <1>1, Positive DEF Least
<1>4. CopyOut(n)[k] = IF k <= len THEN buffer[o + k - 1] ELSE buffer[k - len - 1]
  BY DEF CopyOut
<1>5. x = At(out + k - 1)
  BY <1>1
<1> HIDE DEF o, x, len
<1>6. IF k <= len THEN o + k - 1 = x ELSE k - len - 1 = x
  BY <1>1, <1>2, <1>3, Positive
<1> QED  BY <1>4, <1>5, <1>6

\* The empty buffer is the empty store.
LEMMA FifoInit == Init => Fifo!Init
<1> SUFFICES ASSUME Init PROVE Fifo!Init
  OBVIOUS
<1>1. GetCount = 0
  BY WordIs, Positive DEF Init, GetCount
<1>2. Stored \in [1..0 -> Bytes]
  BY <1>1, StoredSeq, InvInit, Positive DEF Stored, IInv, CountsSound, TypeOK
<1>3. Stored = <<>>
  BY <1>2, NoBytes
<1> QED  BY <1>3 DEF Init, Fifo!Init, Stored

\* ring_buffer_push is the push of the store.
LEMMA FifoPush ==
  ASSUME IInv, IInv', NEW asked \in 0..MaxChunk, Push(asked)
  PROVE  \E n \in 0..Size : Fifo!Push(n)
<1> DEFINE n == Least(asked, GetFreeCount)
           fresh == [k \in 1..n |-> (next + k - 1) % NumBytes]
<1>1. TypeOK /\ GetCount <= Size /\ GetCount \in 0..Size /\ GetFreeCount = Size - GetCount
  BY CountsAgree DEF IInv, CountsSound, TypeOK, GetCount, GetFreeCount
<1>2. n \in 0..Size - GetCount /\ n \in 0..Size
  BY <1>1, ByteAssumption, Positive DEF Least
<1>3. buffer' = CopyIn(Data(n), n) /\ in' = Word(in + n) /\ next' = (next + n) % NumBytes
      /\ UNCHANGED <<out, last>>
  BY DEF Push
<1>4. fresh \in [1..n -> Bytes]
  <2>1. \A k \in 1..n : next + k - 1 \in Int
    BY <1>1 DEF TypeOK, Bytes
  <2> QED  BY <2>1, ByteNumbers
<1>5. \A k \in 1..n : Data(n)[k - 1] = fresh[k]
  <2> SUFFICES ASSUME NEW k \in 1..n PROVE Data(n)[k - 1] = fresh[k]
    OBVIOUS
  <2>1. k - 1 \in 0..n - 1 /\ next + (k - 1) = next + k - 1
    BY <1>1, <1>2 DEF TypeOK, Bytes
  <2> QED  BY <2>1 DEF Data
<1> HIDE DEF n, fresh
<1>6. GetCount' = GetCount + n
  BY <1>1, <1>2, <1>3, PushCounts
<1>7. Stored \in [1..GetCount -> Bytes] /\ Stored' \in [1..GetCount' -> Bytes]
  <2>1. GetCount' \in 0..Size /\ TypeOK'
    BY <1>1, <1>2, <1>6, Positive DEF IInv, CountsSound
  <2> QED  BY <1>1, <2>1, StoredSeq DEF Stored, TypeOK
<1>8. Stored \in Seq(Bytes) /\ Stored' \in Seq(Bytes) /\ fresh \in Seq(Bytes)
      /\ Len(Stored) = GetCount /\ Len(Stored') = GetCount + n /\ Len(fresh) = n
  BY <1>1, <1>2, <1>4, <1>6, <1>7, SeqOfLength
<1>9. \A k \in 1..GetCount + n :
        Stored'[k] = IF k <= GetCount THEN Stored[k] ELSE fresh[k - GetCount]
  <2> SUFFICES ASSUME NEW k \in 1..GetCount + n
               PROVE  Stored'[k] = IF k <= GetCount THEN Stored[k] ELSE fresh[k - GetCount]
    OBVIOUS
  <2>1. k - 1 \in 0..GetCount + n - 1 /\ out + (k - 1) = out + k - 1
    BY <1>1, <1>2 DEF TypeOK
  <2>2. Stored'[k] = CopyIn(Data(n), n)[At(out + (k - 1))]
    BY <1>3, <1>6, <2>1 DEF Stored
  <2>3. CopyIn(Data(n), n)[At(out + (k - 1))] =
          IF k - 1 < GetCount THEN buffer[At(out + (k - 1))] ELSE Data(n)[k - 1 - GetCount]
    BY <1>1, <1>2, <2>1, CopyInPlaces
  <2>4. CASE k <= GetCount
    BY <1>1, <2>1, <2>2, <2>3, <2>4 DEF Stored
  <2>5. CASE ~(k <= GetCount)
    <3>1. k - GetCount \in 1..n /\ k - 1 - GetCount = (k - GetCount) - 1 /\ ~(k - 1 < GetCount)
      BY <1>1, <1>2, <2>5
    <3> QED  BY <1>5, <2>2, <2>3, <2>5, <3>1
  <2> QED  BY <2>4, <2>5
<1>10. Stored' = Stored \o fresh
  <2>1. Stored \o fresh \in Seq(Bytes) /\ Len(Stored \o fresh) = GetCount + n
        /\ \A k \in 1..GetCount + n :
             (Stored \o fresh)[k] = IF k <= GetCount THEN Stored[k] ELSE fresh[k - GetCount]
    BY <1>8, ConcatProperties
  <2> QED  BY <1>8, <1>9, <2>1, SeqEqual
<1>11. Len(Stored) + n <= Size
  BY <1>1, <1>2, <1>8, Positive
<1> QED  BY <1>2, <1>3, <1>10, <1>11 DEF Fifo!Push, Stored, fresh

\* ring_buffer_pop is the pop of the store.
LEMMA FifoPop ==
  ASSUME IInv, IInv', NEW asked \in 0..MaxChunk, Pop(asked)
  PROVE  \E n \in 0..Size : Fifo!Pop(n)
<1> DEFINE n == Least(asked, GetCount)
           c == GetCount
<1>1. TypeOK /\ GetCount <= Size /\ GetCount \in 0..Size
  BY CountsAgree DEF IInv, CountsSound, TypeOK, GetCount
<1>2. n \in 0..GetCount /\ n \in 0..Size
  BY <1>1, ByteAssumption, Positive DEF Least
<1>3. last' = CopyOut(n) /\ out' = Word(out + n) /\ UNCHANGED <<buffer, in, next>>
  BY DEF Pop
<1> HIDE DEF n
<1>4. GetCount' = GetCount - n
  BY <1>1, <1>2, <1>3, PopCounts
<1>5. Stored \in [1..c -> Bytes] /\ Stored' \in [1..c - n -> Bytes]
  <2>1. GetCount' \in 0..Size /\ TypeOK'
    BY <1>1, <1>2, <1>4, Positive DEF IInv, CountsSound
  <2>2. Stored \in [1..c -> Bytes]
    BY <1>1, StoredSeq DEF Stored, TypeOK
  <2>3. buffer' \in [Index -> Bytes] /\ out' \in 0..Modulus - 1
    BY <2>1 DEF TypeOK
  <2>4. Stored' = [k \in 1..c - n |-> buffer'[At(out' + k - 1)]] /\ c - n \in 0..Size
    BY <1>4, <2>1 DEF Stored, At
  <2> QED  BY <2>2, <2>3, <2>4, StoredSeq
<1>6. last' \in [1..n -> Bytes]
  BY <1>1, <1>2, <1>3, CopyOutType
<1> HIDE DEF c
<1>7. /\ Stored \in Seq(Bytes) /\ Len(Stored) = c
      /\ Stored' \in Seq(Bytes) /\ Len(Stored') = c - n
      /\ last' \in Seq(Bytes) /\ Len(last') = n
      /\ c \in Nat /\ n \in 0..c
  <2>1. c \in Nat /\ n \in Nat /\ c - n \in Nat /\ n \in 0..c
    BY <1>1, <1>2 DEF c
  <2> QED  BY <1>5, <1>6, <2>1, SeqOfLength
<1>8. last' = SubSeq(Stored, 1, n)
  <2>1. \A k \in 1..n : Stored[k] \in Bytes
    BY <1>5, <1>7
  <2>2. /\ SubSeq(Stored, 1, n) \in Seq(Bytes)
        /\ Len(SubSeq(Stored, 1, n)) = n
        /\ \A k \in 1..n : SubSeq(Stored, 1, n)[k] = Stored[k]
    <3>1. /\ SubSeq(Stored, 1, n) \in Seq(Bytes)
          /\ Len(SubSeq(Stored, 1, n)) = IF 1 <= n THEN n - 1 + 1 ELSE 0
          /\ \A k \in 1..n - 1 + 1 : SubSeq(Stored, 1, n)[k] = Stored[1 + k - 1]
      BY <1>7, <2>1, SubSeqProperties
    <3> QED  BY <1>7, <3>1
  <2>3. \A k \in 1..n : last'[k] = Stored[k]
    BY <1>1, <1>2, <1>3, <1>7, CopyOutPlaces DEF Stored, c
  <2> QED  BY <1>7, <2>2, <2>3, SeqEqual
<1>9. Stored' = SubSeq(Stored, n + 1, c)
  <2>1. \A k \in n + 1..c : Stored[k] \in Bytes
    BY <1>5, <1>7
  <2>2. /\ SubSeq(Stored, n + 1, c) \in Seq(Bytes)
        /\ Len(SubSeq(Stored, n + 1, c)) = c - n
        /\ \A k \in 1..c - n : SubSeq(Stored, n + 1, c)[k] = Stored[n + k]
    <3>1. /\ SubSeq(Stored, n + 1, c) \in Seq(Bytes)
          /\ Len(SubSeq(Stored, n + 1, c)) = IF n + 1 <= c THEN c - (n + 1) + 1 ELSE 0
          /\ \A k \in 1..c - (n + 1) + 1 :
               SubSeq(Stored, n + 1, c)[k] = Stored[n + 1 + k - 1]
      BY <1>7, <2>1, SubSeqProperties
    <3> QED  BY <1>7, <3>1
  <2>3. \A k \in 1..c - n : Stored'[k] = Stored[n + k]
    <3> SUFFICES ASSUME NEW k \in 1..c - n PROVE Stored'[k] = Stored[n + k]
      OBVIOUS
    <3> DEFINE x == out + (n + k) - 1
               y == out' + k - 1
    <3>1. out' = out + n \/ out' = out + n - Modulus
      BY <1>1, <1>2, <1>3, WordIs, Positive, ModulusAssumption DEF TypeOK
    <3>2. x \in Int /\ y \in Int /\ (y = x \/ y = x - Modulus)
      BY <1>1, <1>7, <3>1, Positive DEF TypeOK
    <3>3. k \in 1..GetCount' /\ n + k \in 1..GetCount
      BY <1>4, <1>7 DEF c
    <3>4. Stored'[k] = buffer[At(y)] /\ Stored[n + k] = buffer[At(x)]
      BY <1>3, <3>3 DEF Stored
    <3> HIDE DEF x, y
    <3>5. At(y) = At(x)
      BY <3>2, AtModulus
    <3> QED  BY <3>4, <3>5
  <2> QED  BY <1>7, <2>2, <2>3, SeqEqual
<1>10. n <= Len(Stored) /\ Stored' = SubSeq(Stored, n + 1, Len(Stored)) /\ next' = next
  BY <1>3, <1>7, <1>9
<1> QED  BY <1>2, <1>8, <1>10 DEF Fifo!Pop, Stored

\* Every step is a step of the store, or changes nothing of it.
LEMMA FifoStep ==
  ASSUME IInv, IInv', [Next]_vars
  PROVE  [Fifo!Next]_<<Stored, next, last>>
<1>1. ASSUME NEW asked \in 0..MaxChunk, Push(asked) PROVE Fifo!Next
  BY <1>1, FifoPush DEF Fifo!Next
<1>2. ASSUME NEW asked \in 0..MaxChunk, Pop(asked) PROVE Fifo!Next
  BY <1>2, FifoPop DEF Fifo!Next
<1>3. ASSUME SeeCount \/ SeeFreeCount \/ UNCHANGED vars PROVE UNCHANGED <<Stored, next, last>>
  <2>1. UNCHANGED <<buffer, in, out, next, last>>
    BY <1>3 DEF SeeCount, SeeFreeCount, vars
  <2> QED  BY <2>1 DEF Stored, GetCount
<1>4. ASSUME Clear PROVE Fifo!Next
  <2>1. GetCount' = 0
    BY <1>4, WordIs, Positive DEF Clear, GetCount
  <2>2. Stored' \in [1..0 -> Bytes]
    BY <2>1, StoredSeq, Positive DEF Stored, IInv, CountsSound, TypeOK
  <2>3. Stored' = <<>>
    BY <2>2, NoBytes
  <2> QED  BY <1>4, <2>3 DEF Clear, Fifo!Next, Fifo!Clear, Stored
<1> QED  BY <1>1, <1>2, <1>3, <1>4 DEF Next

\* ring_buffer.c implements the first-in-first-out store: whatever the order of
\* pushes, pops and clears, and wherever the counters and the places wrap, bytes
\* come out as they went in.
THEOREM FifoCorrect == Spec => FifoSpec
<1>1. []IInv /\ [][Next]_vars => [][Fifo!Next]_<<Stored, next, last>>
  BY FifoStep, PTL
<1> QED  BY <1>1, FifoInit, InvCorrect, PTL DEF Spec, FifoSpec, Fifo!Spec, Stored

=============================================================================
