------------------------- MODULE Murmur3ClassProofs ------------------------
(***************************************************************************)
(* The type invariant and the correctness of the incremental MurmurHash3   *)
(* classes, for every number of hashers and frames, block size, length     *)
(* modulus, detach threshold and set of inputs, with and without the GIL.  *)
(***************************************************************************)
EXTENDS Murmur3Class, TLAPS

(***************************************************************************)
(* One call of `update` on a hasher that holds the message m leaves it     *)
(* holding m followed by the input, for every block size, length modulus,  *)
(* message and input; and a hasher that holds m digests to the one-shot    *)
(* hash of m.                                                              *)
(***************************************************************************)
(* Division by the block size, from the definition of \div and %.          *)
LEMMA DivisionFacts ==
  ASSUME NEW n \in Nat
  PROVE  /\ n \div BLOCK_SIZE \in Nat
         /\ BodyLen(n) \in Nat
         /\ BodyLen(n) <= n
         /\ n - BodyLen(n) < BLOCK_SIZE
  BY BlockBufferAssumption, SMT DEF BodyLen

LEMMA BlockSizePositive == BLOCK_SIZE \in Nat /\ BLOCK_SIZE > 0
  BY BlockBufferAssumption

(* BodyLen is the only multiple of the block size within one block of n.   *)
LEMMA BodyLenUnique ==
  ASSUME NEW n \in Nat, NEW body \in Nat, NEW q \in Nat,
         body = q * BLOCK_SIZE, body <= n, n - body < BLOCK_SIZE
  PROVE  BodyLen(n) = body
<1>1. n \div BLOCK_SIZE = q
  BY BlockSizePositive, SMT
<1>. QED BY <1>1 DEF BodyLen

(* Lengths between two block boundaries have the same body.                *)
LEMMA SameBody ==
  ASSUME NEW n \in Nat, NEW k \in Nat, BodyLen(n) <= k, k - BodyLen(n) < BLOCK_SIZE
  PROVE  BodyLen(k) = BodyLen(n)
<1>. DEFINE body == BodyLen(n)
            q == n \div BLOCK_SIZE
<1>1. body \in Nat /\ q \in Nat /\ body = q * BLOCK_SIZE
  BY DivisionFacts DEF BodyLen
<1>2. body <= k /\ k - body < BLOCK_SIZE
  OBVIOUS
<1>. HIDE DEF body, q
<1>3. BodyLen(k) = body
  BY <1>1, <1>2, BodyLenUnique
<1>. QED BY <1>3 DEF body

(* Mixing k more bytes as whole blocks advances the body by their body.    *)
LEMMA BodyLenAdds ==
  ASSUME NEW n \in Nat, NEW k \in Nat
  PROVE  BodyLen(BodyLen(n) + k) = BodyLen(n) + BodyLen(k)
<1>. DEFINE body == BodyLen(n) + BodyLen(k)
            total == BodyLen(n) + k
            q == (n \div BLOCK_SIZE) + (k \div BLOCK_SIZE)
<1>a. BodyLen(n) \in Nat /\ n \div BLOCK_SIZE \in Nat
  BY DivisionFacts
<1>b. /\ BodyLen(k) \in Nat /\ k \div BLOCK_SIZE \in Nat
      /\ BodyLen(k) <= k /\ k - BodyLen(k) < BLOCK_SIZE
  BY DivisionFacts
<1>1. /\ body \in Nat /\ total \in Nat /\ q \in Nat
      /\ body <= total /\ total - body < BLOCK_SIZE
  BY <1>a, <1>b, BlockSizePositive
<1>2. body = q * BLOCK_SIZE
  BY <1>a, <1>b, BlockSizePositive DEF BodyLen
<1>. HIDE DEF body, total, q
<1>3. BodyLen(total) = body
  BY <1>1, <1>2, BodyLenUnique
<1>. QED BY <1>3 DEF body, total
----------------------------------------------------------------------------
(* Sequences with the same length and the same elements are equal.         *)
LEMMA SeqsEqual ==
  ASSUME NEW s \in Seq(Byte), NEW u \in Seq(Byte), Len(s) = Len(u),
         \A i \in 1..Len(s) : s[i] = u[i]
  PROVE  s = u
  OBVIOUS

LEMMA Slices ==
  ASSUME NEW s \in Seq(Byte), NEW n \in 0..Len(s)
  PROVE  /\ Take(s, n) \in Seq(Byte) /\ Len(Take(s, n)) = n
         /\ Drop(s, n) \in Seq(Byte) /\ Len(Drop(s, n)) = Len(s) - n
         /\ \A i \in 1..n : Take(s, n)[i] = s[i]
         /\ \A i \in 1..(Len(s) - n) : Drop(s, n)[i] = s[n + i]
         /\ s = Take(s, n) \o Drop(s, n)
<1>1. /\ Take(s, n) \in Seq(Byte) /\ Len(Take(s, n)) = n
      /\ \A i \in 1..n : Take(s, n)[i] = s[i]
  BY DEF Take
<1>2. /\ Drop(s, n) \in Seq(Byte) /\ Len(Drop(s, n)) = Len(s) - n
      /\ \A i \in 1..(Len(s) - n) : Drop(s, n)[i] = s[n + i]
  BY DEF Drop
<1>3. s = Take(s, n) \o Drop(s, n)
  <2>. DEFINE joined == Take(s, n) \o Drop(s, n)
  <2>1. joined \in Seq(Byte) /\ Len(joined) = Len(s)
    BY <1>1, <1>2
  <2>2. ASSUME NEW i \in 1..Len(s) PROVE joined[i] = s[i]
    <3>1. CASE i <= n
      BY <3>1, <1>1, <1>2
    <3>2. CASE i > n
      <4>1. i - n \in 1..(Len(s) - n) /\ n + (i - n) = i
        BY <3>2
      <4>2. joined[i] = Drop(s, n)[i - n]
        BY <3>2, <4>1, <1>1, <1>2
      <4>3. Drop(s, n)[i - n] = s[n + (i - n)]
        BY <4>1, <1>2
      <4>. QED BY <4>1, <4>2, <4>3
    <3>3. i <= n \/ i > n
      OBVIOUS
    <3>. QED BY <3>1, <3>2, <3>3
  <2>. HIDE DEF joined
  <2>3. s = joined
    BY <2>1, <2>2, SeqsEqual
  <2>. QED BY <2>3 DEF joined
<1>. QED BY <1>1, <1>2, <1>3

LEMMA RemainingType ==
  ASSUME NEW s \in HasherState
  PROVE  /\ Remaining(s) \in Seq(Byte)
         /\ Len(Remaining(s)) = s.len
         /\ \A i \in 1..s.len : Remaining(s)[i] = s.bytes[i]
  BY BlockSizePositive DEF Remaining, HasherState

LEMMA OverwriteType ==
  ASSUME NEW bytes \in [1..BLOCK_SIZE -> Byte], NEW input \in Seq(Byte), NEW at \in Nat,
         at + Len(input) <= BLOCK_SIZE
  PROVE  /\ Overwrite(bytes, at, input) \in [1..BLOCK_SIZE -> Byte]
         /\ \A i \in 1..at : Overwrite(bytes, at, input)[i] = bytes[i]
         /\ \A i \in 1..Len(input) : Overwrite(bytes, at, input)[at + i] = input[i]
  BY BlockSizePositive DEF Overwrite

LEMMA ConcatAssociative ==
  ASSUME NEW s \in Seq(Byte), NEW u \in Seq(Byte), NEW v \in Seq(Byte)
  PROVE  (s \o u) \o v = s \o (u \o v)
  OBVIOUS

LEMMA RemainderUnique ==
  ASSUME NEW b \in Nat, b > 0, NEW x \in Nat, NEW q \in Nat, NEW r \in 0..(b - 1), x = q * b + r
  PROVE  x % b = r
  OBVIOUS

(* Wrapping additions may be reduced before or after they are added.       *)
LEMMA WrappingSum ==
  ASSUME NEW b \in Nat, b > 0, NEW x \in Nat, NEW y \in Nat
  PROVE  ((x % b) + y) % b = (x + y) % b
<1>1. /\ x % b \in 0..(b - 1) /\ x \div b \in Nat
      /\ x = (x \div b) * b + (x % b)
  OBVIOUS
<1>. DEFINE s == (x % b) + y
<1>2. s \in Nat
  BY <1>1
<1>. HIDE DEF s
<1>3. /\ s % b \in 0..(b - 1) /\ s \div b \in Nat
      /\ s = (s \div b) * b + (s % b)
  BY <1>2
<1>4. x + y = ((x \div b) + (s \div b)) * b + (s % b)
  BY <1>1, <1>3 DEF s
<1>. DEFINE q == (x \div b) + (s \div b)
<1>5. q \in Nat /\ x + y \in Nat
  BY <1>1, <1>3
<1>6. x + y = q * b + (s % b)
  BY <1>4
<1>. HIDE DEF q
<1>7. (x + y) % b = s % b
  BY <1>3, <1>5, <1>6, RemainderUnique
<1>. QED BY <1>7 DEF s

LEMMA AddLengthHolds ==
  ASSUME NEW s, NEW m \in Seq(Byte), NEW input \in Seq(Byte), Holds(s, m)
  PROVE  /\ HoldsBytes(AddLength(s, input), m)
         /\ AddLength(s, input).length = (Len(m) + Len(input)) % LengthModulus
<1>1. /\ s \in HasherState /\ s.length = Len(m) % LengthModulus
      /\ LengthModulus \in Nat /\ LengthModulus > 0
  BY BlockBufferAssumption DEF Holds, HoldsBytes
<1>2. ((Len(m) % LengthModulus) + Len(input)) % LengthModulus = (Len(m) + Len(input)) % LengthModulus
  <2>. DEFINE x == Len(m)
              y == Len(input)
              b == LengthModulus
  <2>1. x \in Nat /\ y \in Nat /\ b \in Nat /\ b > 0
    BY <1>1
  <2>. HIDE DEF x, y, b
  <2>2. ((x % b) + y) % b = (x + y) % b
    BY <2>1, WrappingSum
  <2>. QED BY <2>2 DEF x, y, b
<1>3. (Len(m) + Len(input)) % LengthModulus \in 0..(LengthModulus - 1)
  BY <1>1
<1>4. /\ AddLength(s, input) \in HasherState
      /\ AddLength(s, input).length = (Len(m) + Len(input)) % LengthModulus
      /\ AddLength(s, input).hash = s.hash
      /\ AddLength(s, input).bytes = s.bytes
      /\ AddLength(s, input).len = s.len
  BY <1>1, <1>2, <1>3 DEF AddLength, HasherState
<1>. QED BY <1>4 DEF Holds, HoldsBytes, Remaining

LEMMA StateFields ==
  ASSUME NEW s \in HasherState
  PROVE  /\ s.hash \in Seq(Byte) /\ s.bytes \in [1..BLOCK_SIZE -> Byte]
         /\ s.len \in 0..BLOCK_SIZE /\ s.len \in Nat
  BY BlockSizePositive DEF HasherState

LEMMA ConcatElements ==
  ASSUME NEW s \in Seq(Byte), NEW u \in Seq(Byte)
  PROVE  /\ s \o u \in Seq(Byte) /\ Len(s \o u) = Len(s) + Len(u)
         /\ \A i \in 1..Len(s) : (s \o u)[i] = s[i]
         /\ \A i \in 1..Len(u) : (s \o u)[Len(s) + i] = u[i]
  OBVIOUS

(* HoldsBytes, element by element.                                         *)
LEMMA HoldsElements ==
  ASSUME NEW s, NEW m \in Seq(Byte), HoldsBytes(s, m)
  PROVE  /\ s \in HasherState /\ s.len < BLOCK_SIZE
         /\ Len(s.hash) = BodyLen(Len(m)) /\ Len(m) = Len(s.hash) + s.len
         /\ \A i \in 1..Len(s.hash) : m[i] = s.hash[i]
         /\ \A i \in 1..s.len : m[Len(s.hash) + i] = s.bytes[i]
<1>1. s \in HasherState /\ s.hash \in Seq(Byte) /\ m = s.hash \o Remaining(s) /\ s.len \in Nat
  BY StateFields DEF HoldsBytes
<1>2. /\ Remaining(s) \in Seq(Byte) /\ Len(Remaining(s)) = s.len
      /\ \A i \in 1..s.len : Remaining(s)[i] = s.bytes[i]
  BY <1>1, RemainingType
<1>. DEFINE tail == Remaining(s)
            hash == s.hash
<1>a. /\ Len(hash \o tail) = Len(hash) + Len(tail)
      /\ \A i \in 1..Len(hash) : (hash \o tail)[i] = hash[i]
      /\ \A i \in 1..Len(tail) : (hash \o tail)[Len(hash) + i] = tail[i]
  <2>1. hash \in Seq(Byte) /\ tail \in Seq(Byte)
    BY <1>1, <1>2
  <2>. HIDE DEF tail, hash
  <2>. QED BY <2>1, ConcatElements
<1>3. Len(m) = Len(s.hash) + s.len
  BY <1>1, <1>2, <1>a
<1>4. \A i \in 1..Len(s.hash) : m[i] = s.hash[i]
  BY <1>1, <1>a
<1>5. ASSUME NEW i \in 1..s.len PROVE m[Len(s.hash) + i] = s.bytes[i]
  BY <1>1, <1>2, <1>a
<1>. QED BY <1>1, <1>3, <1>4, <1>5 DEF HoldsBytes

LEMMA ElementsHold ==
  ASSUME NEW s \in HasherState, NEW m \in Seq(Byte), s.len < BLOCK_SIZE,
         Len(s.hash) = BodyLen(Len(m)), Len(m) = Len(s.hash) + s.len,
         \A i \in 1..Len(s.hash) : m[i] = s.hash[i],
         \A i \in 1..s.len : m[Len(s.hash) + i] = s.bytes[i]
  PROVE  HoldsBytes(s, m)
<1>1. s.hash \in Seq(Byte) /\ s.len \in Nat
  BY StateFields
<1>2. /\ Remaining(s) \in Seq(Byte) /\ Len(Remaining(s)) = s.len
      /\ \A i \in 1..s.len : Remaining(s)[i] = s.bytes[i]
  BY RemainingType
<1>. DEFINE tail == Remaining(s)
            hash == s.hash
            joined == hash \o tail
<1>a. /\ joined \in Seq(Byte) /\ Len(joined) = Len(hash) + Len(tail)
      /\ \A i \in 1..Len(hash) : joined[i] = hash[i]
      /\ \A i \in 1..Len(tail) : joined[Len(hash) + i] = tail[i]
  <2>1. hash \in Seq(Byte) /\ tail \in Seq(Byte)
    BY <1>1, <1>2
  <2>. HIDE DEF tail, hash
  <2>. QED BY <2>1, ConcatElements
<1>. HIDE DEF joined
<1>3. joined \in Seq(Byte) /\ Len(joined) = Len(m)
  BY <1>2, <1>a
<1>4. ASSUME NEW i \in 1..Len(m) PROVE joined[i] = m[i]
  <2>1. CASE i <= Len(s.hash)
    BY <1>1, <1>a, <2>1
  <2>2. CASE i > Len(s.hash)
    <3>1. i - Len(s.hash) \in 1..s.len /\ Len(s.hash) + (i - Len(s.hash)) = i
      BY <1>1, <2>2
    <3>2. joined[i] = Remaining(s)[i - Len(s.hash)]
      BY <1>1, <1>2, <1>a, <2>2, <3>1
    <3>3. m[Len(s.hash) + (i - Len(s.hash))] = s.bytes[i - Len(s.hash)]
      BY <3>1
    <3>. QED BY <1>2, <3>1, <3>2, <3>3
  <2>3. i <= Len(s.hash) \/ i > Len(s.hash)
    BY <1>1
  <2>. QED BY <2>1, <2>2, <2>3
<1>5. m = joined
  BY <1>3, <1>4, SeqsEqual
<1>. QED BY <1>5 DEF HoldsBytes, joined

(* A tail that the input does not complete takes all of it.                *)
LEMMA FillPartial ==
  ASSUME NEW s, NEW m \in Seq(Byte), NEW input \in Seq(Byte), HoldsBytes(s, m),
         s.len # 0, Len(input) < BLOCK_SIZE - s.len
  PROVE  /\ Copied(s, input) = Len(input)
         /\ HoldsBytes(FillTail(s, input), m \o input)
         /\ FillTail(s, input).len # 0
         /\ FillTail(s, input).length = s.length
<1>. DEFINE r == FillTail(s, input)
            bytes == Overwrite(s.bytes, s.len, input)
<1>0. /\ s \in HasherState /\ s.len \in Nat /\ s.len < BLOCK_SIZE /\ Len(input) \in Nat
      /\ s.bytes \in [1..BLOCK_SIZE -> Byte] /\ s.hash \in Seq(Byte)
  BY StateFields DEF HoldsBytes
<1>1. Copied(s, input) = Len(input) /\ Take(input, Copied(s, input)) = input
  BY <1>0, BlockSizePositive DEF Copied, Take
<1>2. /\ bytes \in [1..BLOCK_SIZE -> Byte]
      /\ \A i \in 1..s.len : bytes[i] = s.bytes[i]
      /\ \A i \in 1..Len(input) : bytes[s.len + i] = input[i]
  <2>1. s.len + Len(input) <= BLOCK_SIZE
    BY <1>0, BlockSizePositive
  <2>. QED BY <1>0, <2>1, OverwriteType
<1>3. r = [s EXCEPT !.bytes = bytes, !.len = s.len + Len(input)]
  BY <1>0, <1>1, BlockSizePositive DEF FillTail, HasherState
<1>. HIDE DEF r, bytes
<1>4. /\ r \in HasherState /\ r.len = s.len + Len(input) /\ r.len < BLOCK_SIZE
      /\ r.hash = s.hash /\ r.bytes = bytes /\ r.length = s.length
  <2>. DEFINE n == s.len + Len(input)
  <2>1. n \in 0..BLOCK_SIZE /\ n < BLOCK_SIZE
    BY <1>0, BlockSizePositive
  <2>2. r = [s EXCEPT !.bytes = bytes, !.len = n]
    BY <1>3
  <2>. HIDE DEF n
  <2>3. /\ r \in HasherState /\ r.len = n
        /\ r.hash = s.hash /\ r.bytes = bytes /\ r.length = s.length
    BY <1>0, <1>2, <2>1, <2>2 DEF HasherState
  <2>. QED BY <2>1, <2>3 DEF n
<1>5. /\ Len(s.hash) = BodyLen(Len(m)) /\ Len(m) = Len(s.hash) + s.len
      /\ \A i \in 1..Len(s.hash) : m[i] = s.hash[i]
      /\ \A i \in 1..s.len : m[Len(s.hash) + i] = s.bytes[i]
  BY HoldsElements
<1>6. HoldsBytes(r, m \o input)
  <2>. DEFINE m2 == m \o input
  <2>1. /\ m2 \in Seq(Byte) /\ Len(m2) = Len(m) + Len(input)
        /\ \A i \in 1..Len(m) : m2[i] = m[i]
        /\ \A i \in 1..Len(input) : m2[Len(m) + i] = input[i]
    BY ConcatElements
  <2>. HIDE DEF m2
  <2>2. Len(m2) = Len(r.hash) + r.len
    BY <1>0, <1>4, <1>5, <2>1
  <2>3. Len(r.hash) = BodyLen(Len(m2))
    <3>1. /\ Len(m) \in Nat /\ Len(m2) \in Nat /\ Len(s.hash) \in Nat
          /\ Len(r.hash) = Len(s.hash)
      BY <1>0, <1>4, <2>1
    <3>2. /\ BodyLen(Len(m)) <= Len(m2)
          /\ Len(m2) - BodyLen(Len(m)) < BLOCK_SIZE
      BY <1>0, <1>4, <1>5, <2>1, <2>2, <3>1, BlockSizePositive
    <3>3. BodyLen(Len(m2)) = BodyLen(Len(m))
      BY <3>1, <3>2, SameBody
    <3>. QED BY <1>5, <3>1, <3>3
  <2>4. \A i \in 1..Len(r.hash) : m2[i] = r.hash[i]
    BY <1>0, <1>4, <1>5, <2>1
  <2>5. ASSUME NEW i \in 1..r.len PROVE m2[Len(r.hash) + i] = r.bytes[i]
    <3>1. CASE i <= s.len
      <4>1. i \in 1..s.len /\ Len(s.hash) + i \in 1..Len(m)
        BY <1>0, <1>5, <3>1
      <4>2. m2[Len(s.hash) + i] = m[Len(s.hash) + i]
        BY <2>1, <4>1
      <4>. QED BY <1>2, <1>4, <1>5, <4>1, <4>2
    <3>2. CASE i > s.len
      <4>1. /\ i - s.len \in 1..Len(input) /\ s.len + (i - s.len) = i
            /\ Len(m) + (i - s.len) = Len(r.hash) + i
        BY <1>0, <1>4, <1>5, <3>2
      <4>. QED BY <1>2, <1>4, <2>1, <4>1
    <3>3. i <= s.len \/ i > s.len
      BY <1>0, <1>4
    <3>. QED BY <3>1, <3>2, <3>3
  <2>6. HoldsBytes(r, m2)
    BY <1>4, <2>1, <2>2, <2>3, <2>4, <2>5, ElementsHold
  <2>. QED BY <2>6 DEF m2
<1>. QED BY <1>0, <1>1, <1>4, <1>6 DEF r

(* A hasher with other words, another tail array and another fill level.   *)
With(s, x, b, n) == [s EXCEPT !.hash = x, !.bytes = b, !.len = n]

LEMMA WithFields ==
  ASSUME NEW s \in HasherState, NEW x \in Seq(Byte), NEW b \in [1..BLOCK_SIZE -> Byte],
         NEW n \in 0..BLOCK_SIZE
  PROVE  /\ With(s, x, b, n) \in HasherState
         /\ With(s, x, b, n).hash = x /\ With(s, x, b, n).bytes = b
         /\ With(s, x, b, n).len = n /\ With(s, x, b, n).length = s.length
  BY DEF HasherState, With

(* A whole tail array is a block: a sequence of BLOCK_SIZE bytes.          *)
LEMMA WholeBlock ==
  ASSUME NEW b \in [1..BLOCK_SIZE -> Byte]
  PROVE  b \in Seq(Byte) /\ Len(b) = BLOCK_SIZE
  BY BlockSizePositive

LEMMA BodyOfBlock == BodyLen(BLOCK_SIZE) = BLOCK_SIZE
  BY BlockSizePositive, BodyLenUnique

(* A tail that the input completes is mixed and left empty.                *)
LEMMA FillComplete ==
  ASSUME NEW s, NEW m \in Seq(Byte), NEW input \in Seq(Byte), HoldsBytes(s, m),
         s.len # 0, BLOCK_SIZE - s.len <= Len(input)
  PROVE  /\ Copied(s, input) = BLOCK_SIZE - s.len
         /\ HoldsBytes(FillTail(s, input), m \o Take(input, Copied(s, input)))
         /\ FillTail(s, input).len = 0
         /\ FillTail(s, input).length = s.length
<1>. DEFINE r == FillTail(s, input)
            c == BLOCK_SIZE - s.len
            front == Take(input, c)
            bytes == Overwrite(s.bytes, s.len, front)
<1>0. /\ s \in HasherState /\ s.len \in Nat /\ s.len < BLOCK_SIZE /\ Len(input) \in Nat
      /\ s.bytes \in [1..BLOCK_SIZE -> Byte] /\ s.hash \in Seq(Byte)
  BY StateFields DEF HoldsBytes
<1>1. c \in 0..Len(input) /\ c \in Nat /\ s.len + c = BLOCK_SIZE /\ Copied(s, input) = c
  BY <1>0, BlockSizePositive DEF Copied
<1>2. front \in Seq(Byte) /\ Len(front) = c
  BY <1>1, Slices
<1>3. /\ bytes \in [1..BLOCK_SIZE -> Byte]
      /\ \A i \in 1..s.len : bytes[i] = s.bytes[i]
      /\ \A i \in 1..c : bytes[s.len + i] = front[i]
  <2>. HIDE DEF front, c
  <2>1. s.len + Len(front) <= BLOCK_SIZE
    BY <1>1, <1>2, BlockSizePositive
  <2>. QED BY <1>0, <1>2, <2>1, OverwriteType
<1>4. bytes \in Seq(Byte) /\ Len(bytes) = BLOCK_SIZE
  BY <1>3, WholeBlock
<1>5. r = [s EXCEPT !.bytes = bytes, !.hash = s.hash \o bytes, !.len = 0]
  <2>. DEFINE filled == [s EXCEPT !.bytes = bytes, !.len = s.len + c]
  <2>1. filled.len = BLOCK_SIZE /\ filled.bytes = bytes
    BY <1>0, <1>1 DEF HasherState
  <2>2. r = [filled EXCEPT !.hash = s.hash \o filled.bytes, !.len = 0]
    BY <1>1, <2>1 DEF FillTail
  <2>. HIDE DEF bytes, c
  <2>. QED BY <1>0, <2>1, <2>2 DEF HasherState
<1>6. /\ s.hash \o bytes \in Seq(Byte) /\ Len(s.hash \o bytes) = Len(s.hash) + BLOCK_SIZE
      /\ \A i \in 1..Len(s.hash) : (s.hash \o bytes)[i] = s.hash[i]
      /\ \A i \in 1..BLOCK_SIZE : (s.hash \o bytes)[Len(s.hash) + i] = bytes[i]
  <2>. HIDE DEF bytes
  <2>. QED BY <1>0, <1>4, ConcatElements
<1>. HIDE DEF r, bytes
<1>7. /\ r \in HasherState /\ r.len = 0 /\ r.hash = s.hash \o bytes /\ r.length = s.length
  <2>. DEFINE x == s.hash \o bytes
  <2>1. x \in Seq(Byte)
    BY <1>6
  <2>2. r = [s EXCEPT !.bytes = bytes, !.hash = x, !.len = 0]
    BY <1>5
  <2>. HIDE DEF x
  <2>3. /\ r \in HasherState /\ r.len = 0 /\ r.hash = x /\ r.length = s.length
    <3>1. r = With(s, x, bytes, 0)
      BY <1>0, <2>2 DEF HasherState, With
    <3>2. 0 \in 0..BLOCK_SIZE
      BY BlockSizePositive
    <3>. QED BY <1>0, <1>3, <2>1, <3>1, <3>2, WithFields
  <2>. QED BY <2>3 DEF x
<1>8. /\ Len(s.hash) = BodyLen(Len(m)) /\ Len(m) = Len(s.hash) + s.len
      /\ \A i \in 1..Len(s.hash) : m[i] = s.hash[i]
      /\ \A i \in 1..s.len : m[Len(s.hash) + i] = s.bytes[i]
  BY HoldsElements
<1>. DEFINE m2 == m \o front
<1>9. /\ m2 \in Seq(Byte) /\ Len(m2) = Len(m) + c
      /\ \A i \in 1..Len(m) : m2[i] = m[i]
      /\ \A i \in 1..c : m2[Len(m) + i] = front[i]
  <2>. HIDE DEF front, c
  <2>. QED BY <1>2, ConcatElements
<1>. HIDE DEF m2, front, c
<1>10. Len(m2) = Len(r.hash) + r.len
  BY <1>0, <1>1, <1>6, <1>7, <1>8, <1>9
<1>11. Len(r.hash) = BodyLen(Len(m2))
  <2>1. Len(m) \in Nat /\ Len(m2) = BodyLen(Len(m)) + BLOCK_SIZE
    BY <1>0, <1>1, <1>8, <1>9
  <2>2. BodyLen(BodyLen(Len(m)) + BLOCK_SIZE) = BodyLen(Len(m)) + BodyLen(BLOCK_SIZE)
    BY <2>1, BodyLenAdds, BlockSizePositive
  <2>. QED BY <1>6, <1>7, <1>8, <2>1, <2>2, BodyOfBlock
<1>12. ASSUME NEW i \in 1..Len(r.hash) PROVE m2[i] = r.hash[i]
  <2>1. CASE i <= Len(s.hash)
    <3>1. i \in 1..Len(s.hash) /\ i \in 1..Len(m)
      BY <1>0, <1>8, <2>1
    <3>. QED BY <1>6, <1>7, <1>8, <1>9, <3>1
  <2>2. CASE i > Len(s.hash)
    <3>. DEFINE j == i - Len(s.hash)
    <3>1. j \in 1..BLOCK_SIZE /\ Len(s.hash) + j = i
      BY <1>0, <1>6, <1>7, <2>2, BlockSizePositive
    <3>. HIDE DEF j
    <3>2. r.hash[i] = bytes[j]
      BY <1>6, <1>7, <3>1
    <3>3. CASE j <= s.len
      <4>1. j \in 1..s.len /\ Len(s.hash) + j \in 1..Len(m)
        BY <1>0, <1>8, <3>1, <3>3
      <4>. QED BY <1>3, <1>8, <1>9, <3>1, <3>2, <4>1
    <3>4. CASE j > s.len
      <4>1. /\ j - s.len \in 1..c /\ s.len + (j - s.len) = j
            /\ Len(m) + (j - s.len) = i
        BY <1>0, <1>1, <1>8, <3>1, <3>4
      <4>. QED BY <1>3, <1>9, <3>2, <4>1
    <3>5. j <= s.len \/ j > s.len
      BY <1>0, <3>1
    <3>. QED BY <3>3, <3>4, <3>5
  <2>3. i <= Len(s.hash) \/ i > Len(s.hash)
    BY <1>0
  <2>. QED BY <2>1, <2>2, <2>3
<1>13. HoldsBytes(r, m2)
  <2>1. r.len < BLOCK_SIZE /\ \A i \in 1..r.len : m2[Len(r.hash) + i] = r.bytes[i]
    BY <1>7, BlockSizePositive
  <2>. QED BY <1>7, <1>9, <1>10, <1>11, <1>12, <2>1, ElementsHold
<1>. QED BY <1>1, <1>7, <1>13 DEF r, m2, front, c

(* With an empty tail, the whole blocks are mixed and the rest is kept.    *)
LEMMA MixRestHolds ==
  ASSUME NEW s, NEW m \in Seq(Byte), NEW rest \in Seq(Byte), HoldsBytes(s, m), s.len = 0
  PROVE  HoldsBytes(MixRest(s, rest), m \o rest) /\ MixRest(s, rest).length = s.length
<1>. DEFINE r == MixRest(s, rest)
            body == BodyLen(Len(rest))
            front == Take(rest, body)
            kept == Drop(rest, body)
            bytes == Overwrite(s.bytes, 0, kept)
            hash == s.hash \o front
<1>0. /\ s \in HasherState /\ s.bytes \in [1..BLOCK_SIZE -> Byte] /\ s.hash \in Seq(Byte)
      /\ Len(rest) \in Nat
  BY StateFields DEF HoldsBytes
<1>1. /\ body \in 0..Len(rest) /\ body \in Nat /\ Len(rest) - body < BLOCK_SIZE
  BY <1>0, DivisionFacts
<1>. HIDE DEF body
<1>2. /\ front \in Seq(Byte) /\ Len(front) = body
      /\ kept \in Seq(Byte) /\ Len(kept) = Len(rest) - body
      /\ \A i \in 1..body : front[i] = rest[i]
      /\ \A i \in 1..(Len(rest) - body) : kept[i] = rest[body + i]
  BY <1>1, Slices
<1>. HIDE DEF front, kept
<1>3. /\ bytes \in [1..BLOCK_SIZE -> Byte]
      /\ \A i \in 1..Len(kept) : bytes[0 + i] = kept[i]
  <2>1. PICK b \in [1..BLOCK_SIZE -> Byte], k \in Seq(Byte), at \in Nat :
               b = s.bytes /\ k = kept /\ at = 0
    BY <1>0, <1>2
  <2>2. at + Len(k) <= BLOCK_SIZE
    BY <1>0, <1>1, <1>2, <2>1, BlockSizePositive
  <2>3. /\ Overwrite(b, at, k) \in [1..BLOCK_SIZE -> Byte]
        /\ \A i \in 1..Len(k) : Overwrite(b, at, k)[at + i] = k[i]
    BY <2>2, OverwriteType
  <2>4. bytes = Overwrite(b, at, k)
    BY <2>1
  <2>. QED BY <2>1, <2>3, <2>4
<1>4. /\ hash \in Seq(Byte) /\ Len(hash) = Len(s.hash) + body
      /\ \A i \in 1..Len(s.hash) : hash[i] = s.hash[i]
      /\ \A i \in 1..body : hash[Len(s.hash) + i] = front[i]
  BY <1>0, <1>2, ConcatElements
<1>5. r = [s EXCEPT !.hash = hash, !.bytes = bytes, !.len = Len(kept)]
  BY DEF MixRest, body, front, kept
<1>. HIDE DEF r, bytes, hash
<1>6. /\ r \in HasherState /\ r.len = Len(kept) /\ r.hash = hash /\ r.bytes = bytes
      /\ r.length = s.length
  <2>. DEFINE n == Len(kept)
  <2>1. n \in 0..BLOCK_SIZE
    BY <1>0, <1>1, <1>2, BlockSizePositive
  <2>2. r = With(s, hash, bytes, n)
    BY <1>5 DEF With
  <2>. HIDE DEF n
  <2>3. /\ r \in HasherState /\ r.len = n /\ r.hash = hash /\ r.bytes = bytes
        /\ r.length = s.length
    BY <1>0, <1>3, <1>4, <2>1, <2>2, WithFields
  <2>. QED BY <2>3 DEF n
<1>7. /\ Len(s.hash) = BodyLen(Len(m)) /\ Len(m) = Len(s.hash)
      /\ \A i \in 1..Len(s.hash) : m[i] = s.hash[i]
  BY <1>0, HoldsElements
<1>. DEFINE m2 == m \o rest
<1>8. /\ m2 \in Seq(Byte) /\ Len(m2) = Len(m) + Len(rest)
      /\ \A i \in 1..Len(m) : m2[i] = m[i]
      /\ \A i \in 1..Len(rest) : m2[Len(m) + i] = rest[i]
  BY ConcatElements
<1>. HIDE DEF m2
<1>9. Len(m2) = Len(r.hash) + r.len /\ r.len < BLOCK_SIZE
  <2>1. /\ Len(s.hash) \in Nat /\ Len(rest) \in Nat /\ body \in Nat
        /\ Len(m2) = Len(s.hash) + Len(rest)
        /\ Len(r.hash) = Len(s.hash) + body
        /\ r.len = Len(rest) - body /\ Len(rest) - body < BLOCK_SIZE
    BY <1>0, <1>1, <1>2, <1>4, <1>6, <1>7, <1>8
  <2>. QED BY <2>1, BlockSizePositive
<1>10. Len(r.hash) = BodyLen(Len(m2))
  <2>1. Len(m) \in Nat /\ Len(m2) = BodyLen(Len(m)) + Len(rest)
    BY <1>0, <1>7, <1>8
  <2>2. BodyLen(BodyLen(Len(m)) + Len(rest)) = BodyLen(Len(m)) + body
    BY <1>0, <2>1, BodyLenAdds DEF body
  <2>. QED BY <1>4, <1>6, <1>7, <2>1, <2>2
<1>11. ASSUME NEW i \in 1..Len(r.hash) PROVE m2[i] = r.hash[i]
  <2>1. CASE i <= Len(s.hash)
    <3>1. i \in 1..Len(s.hash) /\ i \in 1..Len(m)
      BY <1>0, <1>7, <2>1
    <3>. QED BY <1>4, <1>6, <1>7, <1>8, <3>1
  <2>2. CASE i > Len(s.hash)
    <3>. DEFINE j == i - Len(s.hash)
    <3>1. j \in 1..body /\ Len(s.hash) + j = i /\ j \in 1..Len(rest)
      BY <1>0, <1>1, <1>4, <1>6, <2>2
    <3>. HIDE DEF j
    <3>2. r.hash[i] = front[j]
      BY <1>4, <1>6, <3>1
    <3>3. m2[i] = rest[j]
      BY <1>7, <1>8, <3>1
    <3>. QED BY <1>2, <3>1, <3>2, <3>3
  <2>3. i <= Len(s.hash) \/ i > Len(s.hash)
    BY <1>0
  <2>. QED BY <2>1, <2>2, <2>3
<1>12. ASSUME NEW i \in 1..r.len PROVE m2[Len(r.hash) + i] = r.bytes[i]
  <2>1. /\ i \in Nat /\ i \in 1..Len(kept) /\ i \in 1..(Len(rest) - body) /\ 0 + i = i
        /\ body + i \in 1..Len(rest) /\ Len(r.hash) + i = Len(m) + (body + i)
    <3>1. /\ Len(s.hash) \in Nat /\ Len(rest) \in Nat /\ body \in Nat
          /\ Len(m) = Len(s.hash) /\ Len(r.hash) = Len(s.hash) + body
          /\ r.len = Len(kept) /\ Len(kept) = Len(rest) - body
      BY <1>0, <1>1, <1>2, <1>4, <1>6, <1>7
    <3>. HIDE DEF body
    <3>2. i \in Nat /\ 1 <= i /\ i <= Len(rest) - body
      BY <3>1
    <3>3. i \in 1..Len(kept) /\ i \in 1..(Len(rest) - body) /\ 0 + i = i
      BY <3>1, <3>2
    <3>4. body + i \in 1..Len(rest)
      BY <3>1, <3>2
    <3>5. Len(r.hash) + i = Len(m) + (body + i)
      <4>. DEFINE lm == Len(m)
                  lr == Len(r.hash)
      <4>1. lm \in Nat /\ lr \in Nat /\ lr = lm + body
        BY <3>1
      <4>. HIDE DEF lm, lr
      <4>2. lr + i = lm + (body + i)
        BY <3>1, <3>2, <4>1
      <4>. QED BY <4>2 DEF lm, lr
    <3>. QED BY <3>2, <3>3, <3>4, <3>5
  <2>2. r.bytes[i] = kept[i] /\ kept[i] = rest[body + i]
    <3>1. bytes[0 + i] = kept[i]
      BY <1>3, <2>1
    <3>2. kept[i] = rest[body + i]
      BY <1>2, <2>1
    <3>. QED BY <1>6, <2>1, <3>1, <3>2
  <2>3. m2[Len(r.hash) + i] = rest[body + i]
    BY <1>8, <2>1
  <2>. QED BY <2>2, <2>3
<1>13. HoldsBytes(r, m2)
  BY <1>6, <1>8, <1>9, <1>10, <1>11, <1>12, ElementsHold
<1>. QED BY <1>6, <1>13 DEF r, m2
----------------------------------------------------------------------------
(* The first half of consume leaves the hasher with m and the bytes it     *)
(* took, and leaves the tail partly filled only when it took everything.   *)
LEMMA FillTailHolds ==
  ASSUME NEW s, NEW m \in Seq(Byte), NEW input \in Seq(Byte), HoldsBytes(s, m)
  PROVE  /\ Copied(s, input) \in 0..Len(input)
         /\ HoldsBytes(FillTail(s, input), m \o Take(input, Copied(s, input)))
         /\ FillTail(s, input).len # 0 => Copied(s, input) = Len(input)
         /\ FillTail(s, input).length = s.length
<1>0. /\ s \in HasherState /\ s.len \in Nat /\ s.len < BLOCK_SIZE /\ Len(input) \in Nat
      /\ s.bytes \in [1..BLOCK_SIZE -> Byte] /\ s.hash \in Seq(Byte)
  BY StateFields DEF HoldsBytes
<1>1. CASE s.len = 0
  <2>1. Copied(s, input) = 0
    BY <1>1 DEF Copied
  <2>2. Take(input, 0) = <<>> /\ m \o <<>> = m
    BY DEF Take
  <2>4. FillTail(s, input) = s
    BY <1>1 DEF FillTail
  <2>5. 0 \in 0..Len(input)
    BY <1>0
  <2>. QED BY <1>1, <2>1, <2>2, <2>4, <2>5
<1>2. CASE s.len # 0 /\ Len(input) < BLOCK_SIZE - s.len
  <2>1. Take(input, Len(input)) = input
    BY DEF Take
  <2>2. /\ Copied(s, input) = Len(input)
        /\ HoldsBytes(FillTail(s, input), m \o input)
        /\ FillTail(s, input).length = s.length
    BY <1>2, FillPartial
  <2>. QED BY <1>0, <2>1, <2>2
<1>3. CASE s.len # 0 /\ BLOCK_SIZE - s.len <= Len(input)
  <2>1. /\ Copied(s, input) = BLOCK_SIZE - s.len
        /\ HoldsBytes(FillTail(s, input), m \o Take(input, Copied(s, input)))
        /\ FillTail(s, input).len = 0
        /\ FillTail(s, input).length = s.length
    BY <1>3, FillComplete
  <2>2. BLOCK_SIZE - s.len \in 0..Len(input)
    BY <1>0, <1>3, BlockSizePositive
  <2>. QED BY <2>1, <2>2
<1>4. Len(input) < BLOCK_SIZE - s.len \/ BLOCK_SIZE - s.len <= Len(input)
  BY <1>0, BlockSizePositive
<1>. QED BY <1>1, <1>2, <1>3, <1>4

(* The second half adds the rest of the input.                             *)
LEMMA ConsumeRestHolds ==
  ASSUME NEW s, NEW m \in Seq(Byte), NEW input \in Seq(Byte), NEW copied \in 0..Len(input),
         HoldsBytes(s, m \o Take(input, copied)), s.len # 0 => copied = Len(input)
  PROVE  /\ HoldsBytes(MixRest(s, Drop(input, copied)), m \o input)
         /\ MixRest(s, Drop(input, copied)).length = s.length
<1>1. CASE s.len # 0
  <2>1. Take(input, copied) = input
    BY <1>1 DEF Take
  <2>2. MixRest(s, Drop(input, copied)) = s
    BY <1>1 DEF MixRest
  <2>. QED BY <2>1, <2>2
<1>2. CASE s.len = 0
  <2>. DEFINE front == Take(input, copied)
              rest == Drop(input, copied)
              held == m \o front
  <2>1. front \in Seq(Byte) /\ rest \in Seq(Byte) /\ input = front \o rest
    BY Slices
  <2>. HIDE DEF front, rest
  <2>2. held \in Seq(Byte) /\ held \o rest = m \o input
    BY <2>1, ConcatAssociative
  <2>3. HoldsBytes(s, held)
    BY DEF front
  <2>. HIDE DEF held
  <2>4. HoldsBytes(MixRest(s, rest), held \o rest) /\ MixRest(s, rest).length = s.length
    BY <1>2, <2>1, <2>2, <2>3, MixRestHolds
  <2>. QED BY <2>2, <2>4 DEF rest
<1>. QED BY <1>1, <1>2

(* One call of update on a hasher that holds m leaves it holding m and the *)
(* input: no byte lost or repeated at any boundary between blocks, tail    *)
(* and input, and the length is that of one call with the whole message.   *)
THEOREM UpdateHolds ==
  ASSUME NEW s, NEW m \in Seq(Byte), NEW input \in Seq(Byte), Holds(s, m)
  PROVE  Holds(Update(s, input), m \o input)
<1>. DEFINE added == AddLength(s, input)
            copied == Copied(added, input)
            filled == FillTail(added, input)
<1>1. HoldsBytes(added, m) /\ added.length = (Len(m) + Len(input)) % LengthModulus
  BY AddLengthHolds
<1>. HIDE DEF added
<1>2. /\ copied \in 0..Len(input) /\ HoldsBytes(filled, m \o Take(input, copied))
      /\ filled.len # 0 => copied = Len(input)
      /\ filled.length = added.length
  BY <1>1, FillTailHolds
<1>. HIDE DEF copied, filled
<1>3. /\ HoldsBytes(MixRest(filled, Drop(input, copied)), m \o input)
      /\ MixRest(filled, Drop(input, copied)).length = filled.length
  BY <1>2, ConsumeRestHolds
<1>4. Update(s, input) = MixRest(filled, Drop(input, copied))
  BY DEF Update, Consume, added, copied, filled
<1>5. Len(m \o input) = Len(m) + Len(input)
  OBVIOUS
<1>. QED BY <1>1, <1>2, <1>3, <1>4, <1>5 DEF Holds

(* A hasher that holds m digests to what the one-shot function returns for *)
(* m, although it met the bytes in pieces.                                 *)
THEOREM HoldsDigest ==
  ASSUME NEW s, NEW m \in Seq(Byte), Holds(s, m)
  PROVE  DigestOf(s) = OneShot(m)
<1>. DEFINE body == BodyLen(Len(m))
            tail == Remaining(s)
            hash == s.hash
<1>1. /\ hash \in Seq(Byte) /\ tail \in Seq(Byte) /\ Len(hash) = body /\ m = hash \o tail
      /\ s.length = Len(m) % LengthModulus
  BY StateFields, RemainingType DEF Holds, HoldsBytes
<1>2. body \in 0..Len(m)
  BY DivisionFacts
<1>. HIDE DEF body, tail, hash
<1>3. Take(m, body) = hash
  <2>1. /\ Take(m, body) \in Seq(Byte) /\ Len(Take(m, body)) = body
        /\ \A i \in 1..body : Take(m, body)[i] = m[i]
    BY <1>2, Slices
  <2>2. \A i \in 1..Len(hash) : m[i] = hash[i]
    BY <1>1, ConcatElements
  <2>. QED BY <1>1, <2>1, <2>2, SeqsEqual
<1>4. Drop(m, body) = tail
  <2>1. /\ Drop(m, body) \in Seq(Byte) /\ Len(Drop(m, body)) = Len(m) - body
        /\ \A i \in 1..(Len(m) - body) : Drop(m, body)[i] = m[body + i]
    BY <1>2, Slices
  <2>2. /\ Len(m) = Len(hash) + Len(tail)
        /\ \A i \in 1..Len(tail) : m[Len(hash) + i] = tail[i]
    <3>1. /\ Len(hash \o tail) = Len(hash) + Len(tail)
          /\ \A i \in 1..Len(tail) : (hash \o tail)[Len(hash) + i] = tail[i]
      BY <1>1, ConcatElements
    <3>. QED BY <1>1, <3>1
  <2>3. Len(m) - body = Len(tail)
    BY <1>1, <2>2
  <2>4. \A i \in 1..Len(tail) : Drop(m, body)[i] = tail[i]
    BY <1>1, <2>1, <2>2, <2>3
  <2>. QED BY <1>1, <2>1, <2>3, <2>4, SeqsEqual
<1>. QED BY <1>1, <1>3, <1>4 DEF DigestOf, OneShot, body, tail, hash

(* A fresh hasher holds the empty message.                                 *)
LEMMA NewHolds == Holds(New, <<>>)
<1>1. /\ LengthModulus \in Nat /\ LengthModulus > 0 /\ Zero \in Byte
      /\ BLOCK_SIZE \in Nat /\ BLOCK_SIZE > 0
  BY BlockBufferAssumption
<1>2. New \in HasherState /\ New.len = 0 /\ New.hash = <<>> /\ New.length = 0
  BY <1>1 DEF New, HasherState
<1>3. BodyLen(0) = 0
  BY <1>1, BodyLenUnique
<1>4. 0 % LengthModulus = 0
  BY <1>1
<1>5. Remaining(New) = <<>>
  BY <1>2 DEF Remaining
<1>. QED BY <1>1, <1>2, <1>3, <1>4, <1>5 DEF Holds, HoldsBytes
----------------------------------------------------------------------------
(* The data a call reads is a sequence of bytes.                           *)
LEMMA DataType ==
  ASSUME TypeOK, CallsTyped, NEW t \in Frames, Feeding(t)
  PROVE  Data(t) \in Seq(Byte)
  BY Murmur3ClassAssumption DEF TypeOK, CallsTyped, Data

(* A frame stays accounted for while nobody touches its hasher or data.    *)
LEMMA FrameUntouched ==
  ASSUME NEW u \in Frames, FrameAccounted(u),
         pc'[u] = pc[u], call'[u] = call[u], live \subseteq live',
         Feeding(u) => /\ state'[call[u].hasher] = state[call[u].hasher]
                       /\ message'[call[u].hasher] = message[call[u].hasher],
         pc[u] \in {"fill", "rest"} => Data(u)' = Data(u)
  PROVE  FrameAccounted(u)'
<1>. DEFINE h == call[u].hasher
            s == state[h]
            m == message[h]
            d == Data(u)
<1>1. CASE pc[u] \in {"exporting", "converted", "hashed"}
  <2>1. /\ call'[u].hasher = h /\ state'[h] = s /\ message'[h] = m
        /\ Holds(s, m) /\ pc[u] = "exporting" /\ h \notin live => m = <<>>
    BY <1>1 DEF FrameAccounted, Feeding
  <2>. QED BY <1>1, <2>1 DEF FrameAccounted
<1>2. CASE pc[u] = "fill"
  BY <1>2 DEF FrameAccounted, Feeding, LengthIsAhead
<1>3. CASE pc[u] = "rest"
  BY <1>3 DEF FrameAccounted, Feeding, LengthIsAhead
<1>4. CASE ~Feeding(u)
  BY <1>4 DEF FrameAccounted, Feeding
<1>. QED BY <1>1, <1>2, <1>3, <1>4 DEF Feeding

LEMMA InitInvariant == Init => IInv
<1>. SUFFICES ASSUME Init PROVE IInv
  OBVIOUS
<1>1. TypeOK
  <2>1. New \in HasherState
    BY NewHolds DEF Holds, HoldsBytes
  <2>. QED BY <2>1 DEF Init, TypeOK
<1>2. CallsTyped
  BY DEF Init, CallsTyped, Feeding
<1>3. Ownership
  BY DEF Init, Ownership, Feeding
<1>4. Accounted
  BY NewHolds DEF Init, Accounted, HasherAccounted, FrameAccounted
<1>. QED BY <1>1, <1>2, <1>3, <1>4 DEF IInv

LEMMA CreateEmptyStep ==
  ASSUME IInv, NEW t \in Frames, NEW h \in Hashers, CreateEmpty(t, h)
  PROVE  IInv'
<1>1. TypeOK /\ CallsTyped /\ Ownership /\ Accounted
  BY DEF IInv
<1>2. New \in HasherState /\ Holds(New, <<>>)
  BY NewHolds DEF Holds, HoldsBytes
<1>3. TypeOK'
  BY <1>1, <1>2 DEF CreateEmpty, TypeOK
<1>4. CallsTyped'
  BY <1>1 DEF CreateEmpty, CallsTyped, Feeding, Data
<1>5. Ownership'
  BY <1>1 DEF CreateEmpty, Ownership, Feeding
<1>6. Accounted'
  <2>1. ASSUME NEW g \in Hashers PROVE HasherAccounted(g)'
    <3>1. CASE g = h
      BY <1>1, <1>2, <3>1 DEF CreateEmpty, TypeOK, Accounted, HasherAccounted
    <3>2. CASE g # h
      BY <1>1, <3>2 DEF CreateEmpty, TypeOK, Accounted, HasherAccounted
    <3>. QED BY <3>1, <3>2
  <2>2. ASSUME NEW u \in Frames PROVE FrameAccounted(u)'
    <3>1. pc'[u] = pc[u] /\ call'[u] = call[u] /\ live \subseteq live' /\ Data(u)' = Data(u)
      BY DEF CreateEmpty, Data
    <3>2. Feeding(u) => h # call[u].hasher
      BY <1>1, Murmur3ClassAssumption DEF CreateEmpty, Ownership
    <3>3. Feeding(u) => /\ state'[call[u].hasher] = state[call[u].hasher]
                        /\ message'[call[u].hasher] = message[call[u].hasher]
      BY <1>1, <3>2 DEF CreateEmpty, TypeOK
    <3>. QED BY <1>1, <3>1, <3>3, FrameUntouched DEF Accounted
  <2>. QED BY <2>1, <2>2 DEF Accounted
<1>. QED BY <1>3, <1>4, <1>5, <1>6 DEF IInv

LEMMA BeginInputStep ==
  ASSUME IInv, NEW t \in Frames, NEW h \in Hashers, NEW kind \in InputKinds,
         NEW data \in Seq(Byte), BeginInput(t, h, kind, data)
  PROVE  IInv'
<1>1. TypeOK /\ CallsTyped /\ Ownership /\ Accounted
  BY DEF IInv
<1>3. TypeOK'
  BY <1>1 DEF BeginInput, TypeOK, Begin, Goto
<1>4. CallsTyped'
  BY <1>1 DEF BeginInput, CallsTyped, Feeding, Data, TypeOK, Begin, Goto
<1>5. Ownership'
  BY <1>1, Murmur3ClassAssumption DEF BeginInput, Ownership, Feeding, TypeOK, Begin, Goto, Unborrowed, Idle
<1>6. Accounted'
  <2>1. ASSUME NEW g \in Hashers PROVE HasherAccounted(g)'
    BY <1>1, Murmur3ClassAssumption DEF BeginInput, TypeOK, Accounted, HasherAccounted
  <2>2. ASSUME NEW u \in Frames PROVE FrameAccounted(u)'
    <3>1. CASE u = t
      <4>1. /\ pc'[t] \in {"exporting", "converted"} /\ call'[t].hasher = h
            /\ state' = state /\ message' = message /\ live' = live
        BY <1>1 DEF BeginInput, TypeOK, Begin, Goto
      <4>2. Holds(state[h], message[h]) /\ (h \notin live => message[h] = <<>>)
        BY <1>1 DEF BeginInput, Unborrowed, Accounted, HasherAccounted
      <4>. QED BY <3>1, <4>1, <4>2 DEF FrameAccounted
    <3>2. CASE u # t
      <4>1. /\ pc'[u] = pc[u] /\ call'[u] = call[u] /\ live \subseteq live' /\ Data(u)' = Data(u)
            /\ state' = state /\ message' = message
        BY <1>1, <3>2 DEF BeginInput, Begin, Goto, Data, TypeOK
      <4>. QED BY <1>1, <4>1, FrameUntouched DEF Accounted
    <3>. QED BY <3>1, <3>2
  <2>. QED BY <2>1, <2>2 DEF Accounted
<1>. QED BY <1>3, <1>4, <1>5, <1>6 DEF IInv

(* A refused call only raises.                                             *)
LEMMA RefusedStep ==
  ASSUME IInv, DOMAIN result' = Frames,
         UNCHANGED <<state, live, writer, readers, cell, pc, call, message>>
  PROVE  IInv'
<1>1. TypeOK'
  BY DEF IInv, TypeOK
<1>2. CallsTyped' /\ Ownership'
  BY DEF IInv, CallsTyped, Ownership, Feeding, Data
<1>3. Accounted'
  BY DEF IInv, Accounted, HasherAccounted, FrameAccounted, LengthIsAhead, Data
<1>. QED BY <1>1, <1>2, <1>3 DEF IInv

LEMMA ExportReturnsStep ==
  ASSUME IInv, NEW t \in Frames, ExportReturns(t)
  PROVE  IInv'
<1>1. TypeOK /\ CallsTyped /\ Ownership /\ Accounted
  BY DEF IInv
<1>3. TypeOK'
  BY <1>1 DEF ExportReturns, TypeOK, Begin, Return, Goto
<1>4. CallsTyped'
  BY <1>1 DEF ExportReturns, CallsTyped, Feeding, Data, TypeOK, Begin, Return, Goto
<1>5. Ownership'
  BY <1>1, Murmur3ClassAssumption DEF ExportReturns, Ownership, Feeding, TypeOK, Begin, Return, Goto, Unborrowed, CanBorrow, NoCall
<1>6. Accounted'
  <2>1. ASSUME NEW g \in Hashers PROVE HasherAccounted(g)'
    BY <1>1, Murmur3ClassAssumption DEF ExportReturns, TypeOK, Accounted, HasherAccounted
  <2>2. ASSUME NEW u \in Frames PROVE FrameAccounted(u)'
    <3>1. CASE u = t
      <4>1. /\ pc[t] = "exporting" /\ pc'[t] = "converted" /\ call' = call
            /\ state' = state /\ message' = message
        BY <1>1 DEF ExportReturns, TypeOK, Goto
      <4>2. FrameAccounted(t)
        BY <1>1 DEF Accounted
      <4>. QED BY <3>1, <4>1, <4>2 DEF FrameAccounted
    <3>2. CASE u # t
      <4>1. /\ pc'[u] = pc[u] /\ call'[u] = call[u] /\ live \subseteq live' /\ Data(u)' = Data(u)
            /\ state' = state /\ message' = message
        BY <1>1, <3>2 DEF ExportReturns, Begin, Return, Goto, Data, TypeOK
      <4>. QED BY <1>1, <4>1, FrameUntouched DEF Accounted
    <3>. QED BY <3>1, <3>2
  <2>. QED BY <2>1, <2>2 DEF Accounted
<1>. QED BY <1>3, <1>4, <1>5, <1>6 DEF IInv

LEMMA ExportRaisesStep ==
  ASSUME IInv, NEW t \in Frames, ExportRaises(t)
  PROVE  IInv'
<1>1. TypeOK /\ CallsTyped /\ Ownership /\ Accounted
  BY DEF IInv
<1>3. TypeOK'
  BY <1>1 DEF ExportRaises, TypeOK, Begin, Return, Goto
<1>4. CallsTyped'
  BY <1>1 DEF ExportRaises, CallsTyped, Feeding, Data, TypeOK, Begin, Return, Goto
<1>5. Ownership'
  BY <1>1, Murmur3ClassAssumption DEF ExportRaises, Ownership, Feeding, TypeOK, Begin, Return, Goto, Unborrowed, CanBorrow, NoCall
<1>6. Accounted'
  <2>1. ASSUME NEW g \in Hashers PROVE HasherAccounted(g)'
    <3>1. FrameAccounted(t) /\ HasherAccounted(g) /\ pc[t] = "exporting"
      BY <1>1 DEF ExportRaises, Accounted
    <3>2. CASE g = call[t].hasher
      BY <3>1, <3>2 DEF ExportRaises, HasherAccounted, FrameAccounted
    <3>3. CASE g # call[t].hasher
      BY <1>1, <3>1, <3>3 DEF ExportRaises, TypeOK, HasherAccounted
    <3>. QED BY <3>2, <3>3
  <2>2. ASSUME NEW u \in Frames PROVE FrameAccounted(u)'
    <3>1. CASE u = t
      <4>1. pc'[t] = "idle"
        BY <1>1 DEF ExportRaises, TypeOK, Begin, Return, Goto
      <4>. QED BY <3>1, <4>1 DEF FrameAccounted
    <3>2. CASE u # t
      <4>1. /\ pc'[u] = pc[u] /\ call'[u] = call[u] /\ live \subseteq live' /\ Data(u)' = Data(u)
            /\ state' = state /\ message' = message
        BY <1>1, <3>2 DEF ExportRaises, Begin, Return, Goto, Data, TypeOK
      <4>. QED BY <1>1, <4>1, FrameUntouched DEF Accounted
    <3>. QED BY <3>1, <3>2
  <2>. QED BY <2>1, <2>2 DEF Accounted
<1>. QED BY <1>3, <1>4, <1>5, <1>6 DEF IInv

LEMMA BeginDigestStep ==
  ASSUME IInv, NEW t \in Frames, NEW h \in Hashers, BeginDigest(t, h)
  PROVE  IInv'
<1>1. TypeOK /\ CallsTyped /\ Ownership /\ Accounted
  BY DEF IInv
<1>3. TypeOK'
  BY <1>1 DEF BeginDigest, TypeOK, Begin, Return, Goto
<1>4. CallsTyped'
  BY <1>1 DEF BeginDigest, CallsTyped, Feeding, Data, TypeOK, Begin, Return, Goto
<1>5. Ownership'
  BY <1>1, Murmur3ClassAssumption DEF BeginDigest, Ownership, Feeding, TypeOK, Begin, Return, Goto, Unborrowed, CanBorrow, NoCall
<1>6. Accounted'
  <2>1. ASSUME NEW g \in Hashers PROVE HasherAccounted(g)'
    BY <1>1, Murmur3ClassAssumption DEF BeginDigest, TypeOK, Accounted, HasherAccounted
  <2>2. ASSUME NEW u \in Frames PROVE FrameAccounted(u)'
    <3>1. CASE u = t
      <4>1. pc'[t] = "digesting"
        BY <1>1 DEF BeginDigest, TypeOK, Begin, Return, Goto
      <4>. QED BY <3>1, <4>1 DEF FrameAccounted
    <3>2. CASE u # t
      <4>1. /\ pc'[u] = pc[u] /\ call'[u] = call[u] /\ live \subseteq live' /\ Data(u)' = Data(u)
            /\ state' = state /\ message' = message
        BY <1>1, <3>2 DEF BeginDigest, Begin, Return, Goto, Data, TypeOK
      <4>. QED BY <1>1, <4>1, FrameUntouched DEF Accounted
    <3>. QED BY <3>1, <3>2
  <2>. QED BY <2>1, <2>2 DEF Accounted
<1>. QED BY <1>3, <1>4, <1>5, <1>6 DEF IInv

LEMMA BeginCopyStep ==
  ASSUME IInv, NEW t \in Frames, NEW h \in Hashers, NEW new \in Hashers, BeginCopy(t, h, new)
  PROVE  IInv'
<1>1. TypeOK /\ CallsTyped /\ Ownership /\ Accounted
  BY DEF IInv
<1>3. TypeOK'
  BY <1>1 DEF BeginCopy, TypeOK, Begin, Return, Goto
<1>4. CallsTyped'
  BY <1>1 DEF BeginCopy, CallsTyped, Feeding, Data, TypeOK, Begin, Return, Goto
<1>5. Ownership'
  BY <1>1, Murmur3ClassAssumption DEF BeginCopy, Ownership, Feeding, TypeOK, Begin, Return, Goto, Unborrowed, CanBorrow, NoCall
<1>6. Accounted'
  <2>1. ASSUME NEW g \in Hashers PROVE HasherAccounted(g)'
    BY <1>1, Murmur3ClassAssumption DEF BeginCopy, TypeOK, Accounted, HasherAccounted
  <2>2. ASSUME NEW u \in Frames PROVE FrameAccounted(u)'
    <3>1. CASE u = t
      <4>1. pc'[t] = "copying"
        BY <1>1 DEF BeginCopy, TypeOK, Begin, Return, Goto
      <4>. QED BY <3>1, <4>1 DEF FrameAccounted
    <3>2. CASE u # t
      <4>1. /\ pc'[u] = pc[u] /\ call'[u] = call[u] /\ live \subseteq live' /\ Data(u)' = Data(u)
            /\ state' = state /\ message' = message
        BY <1>1, <3>2 DEF BeginCopy, Begin, Return, Goto, Data, TypeOK
      <4>. QED BY <1>1, <4>1, FrameUntouched DEF Accounted
    <3>. QED BY <3>1, <3>2
  <2>. QED BY <2>1, <2>2 DEF Accounted
<1>. QED BY <1>3, <1>4, <1>5, <1>6 DEF IInv

LEMMA FinishDigestStep ==
  ASSUME IInv, NEW t \in Frames, FinishDigest(t)
  PROVE  IInv'
<1>1. TypeOK /\ CallsTyped /\ Ownership /\ Accounted
  BY DEF IInv
<1>3. TypeOK'
  BY <1>1 DEF FinishDigest, TypeOK, Begin, Return, Goto
<1>4. CallsTyped'
  BY <1>1 DEF FinishDigest, CallsTyped, Feeding, Data, TypeOK, Begin, Return, Goto
<1>5. Ownership'
  BY <1>1, Murmur3ClassAssumption DEF FinishDigest, Ownership, Feeding, TypeOK, Begin, Return, Goto, Unborrowed, CanBorrow, NoCall
<1>6. Accounted'
  <2>1. ASSUME NEW g \in Hashers PROVE HasherAccounted(g)'
    BY <1>1, Murmur3ClassAssumption DEF FinishDigest, TypeOK, Accounted, HasherAccounted
  <2>2. ASSUME NEW u \in Frames PROVE FrameAccounted(u)'
    <3>1. CASE u = t
      <4>1. pc'[t] = "idle"
        BY <1>1 DEF FinishDigest, TypeOK, Begin, Return, Goto
      <4>. QED BY <3>1, <4>1 DEF FrameAccounted
    <3>2. CASE u # t
      <4>1. /\ pc'[u] = pc[u] /\ call'[u] = call[u] /\ live \subseteq live' /\ Data(u)' = Data(u)
            /\ state' = state /\ message' = message
        BY <1>1, <3>2 DEF FinishDigest, Begin, Return, Goto, Data, TypeOK
      <4>. QED BY <1>1, <4>1, FrameUntouched DEF Accounted
    <3>. QED BY <3>1, <3>2
  <2>. QED BY <2>1, <2>2 DEF Accounted
<1>. QED BY <1>3, <1>4, <1>5, <1>6 DEF IInv

LEMMA HashLengthStep ==
  ASSUME IInv, NEW t \in Frames, HashLength(t)
  PROVE  IInv'
<1>. DEFINE h == call[t].hasher
            d == Data(t)
<1>1. TypeOK /\ CallsTyped /\ Ownership /\ Accounted
  BY DEF IInv
<1>2. /\ h \in Hashers /\ d \in Seq(Byte) /\ message[h] \in Seq(Byte) /\ writer[h] = t
      /\ Holds(state[h], message[h]) /\ pc[t] = "converted"
      /\ HoldsBytes(AddLength(state[h], d), message[h])
      /\ AddLength(state[h], d).length = (Len(message[h]) + Len(d)) % LengthModulus
      /\ AddLength(state[h], d) \in HasherState
  <2>1. /\ pc[t] = "converted" /\ h \in Hashers /\ d \in Seq(Byte) /\ writer[h] = t
        /\ message[h] \in Seq(Byte)
    BY <1>1, DataType DEF HashLength, CallsTyped, Ownership, Feeding, TypeOK
  <2>2. Holds(state[h], message[h])
    BY <1>1, <2>1 DEF Accounted, FrameAccounted
  <2>3. /\ HoldsBytes(AddLength(state[h], d), message[h])
        /\ AddLength(state[h], d).length = (Len(message[h]) + Len(d)) % LengthModulus
    BY <2>1, <2>2, AddLengthHolds
  <2>. QED BY <2>1, <2>2, <2>3 DEF HoldsBytes
<1>3. TypeOK'
  BY <1>1, <1>2 DEF HashLength, TypeOK, Return, Goto
<1>4. CallsTyped'
  BY <1>1, <1>2 DEF HashLength, CallsTyped, Feeding, Hashing, Data, TypeOK, Return, Goto
<1>5. Ownership'
  BY <1>1, <1>2, Murmur3ClassAssumption DEF HashLength, Ownership, Feeding, Hashing, TypeOK, Return, Goto, CanBorrow
<1>6. Accounted'
  <2>1. ASSUME NEW g \in Hashers PROVE HasherAccounted(g)'
    <3>1. CASE g = h
      BY <1>1, <1>2, <3>1, Murmur3ClassAssumption DEF HashLength, HasherAccounted
    <3>2. CASE g # h
      BY <1>1, <1>2, <3>2 DEF HashLength, TypeOK, Accounted, HasherAccounted
    <3>. QED BY <3>1, <3>2
  <2>2. ASSUME NEW u \in Frames PROVE FrameAccounted(u)'
    <3>1. CASE u = t
      <4>1. /\ pc'[t] = "fill" /\ call' = call /\ Data(t)' = d
            /\ state'[h] = AddLength(state[h], d) /\ message' = message
        BY <1>1, <1>2 DEF HashLength, TypeOK, Goto, Data
      <4>. QED BY <1>2, <3>1, <4>1 DEF FrameAccounted, LengthIsAhead
    <3>2. CASE u # t
      <4>1. /\ pc'[u] = pc[u] /\ call'[u] = call[u] /\ live \subseteq live' /\ Data(u)' = Data(u)
        BY <1>1, <3>2 DEF HashLength, Return, Goto, Data, TypeOK
      <4>2. Feeding(u) => call[u].hasher # h
        BY <1>1, <1>2, <3>2 DEF Ownership
      <4>3. Feeding(u) => /\ state'[call[u].hasher] = state[call[u].hasher]
                          /\ message'[call[u].hasher] = message[call[u].hasher]
        BY <1>1, <1>2, <4>2 DEF HashLength, TypeOK, CallsTyped
      <4>. QED BY <1>1, <4>1, <4>3, FrameUntouched DEF Accounted
    <3>. QED BY <3>1, <3>2
  <2>. QED BY <2>1, <2>2 DEF Accounted
<1>. QED BY <1>3, <1>4, <1>5, <1>6 DEF IInv

LEMMA HashTailStep ==
  ASSUME IInv, NEW t \in Frames, HashTail(t)
  PROVE  IInv'
<1>. DEFINE h == call[t].hasher
            d == Data(t)
            copied == Copied(state[h], d)
            filled == FillTail(state[h], d)
<1>1. TypeOK /\ CallsTyped /\ Ownership /\ Accounted
  BY DEF IInv
<1>2. /\ h \in Hashers /\ d \in Seq(Byte) /\ message[h] \in Seq(Byte) /\ writer[h] = t
      /\ pc[t] = "fill" /\ Feeding(t) /\ call[t].kind \in InputKinds /\ call[t].data \in Seq(Byte)
      /\ copied \in 0..Len(d) /\ HoldsBytes(filled, message[h] \o Take(d, copied))
      /\ filled.len # 0 => copied = Len(d)
      /\ filled.length = (Len(message[h]) + Len(d)) % LengthModulus
      /\ filled \in HasherState
  <2>1. /\ pc[t] = "fill" /\ Feeding(t) /\ h \in Hashers /\ d \in Seq(Byte) /\ writer[h] = t
        /\ message[h] \in Seq(Byte) /\ call[t].kind \in InputKinds /\ call[t].data \in Seq(Byte)
    BY <1>1, DataType DEF HashTail, CallsTyped, Ownership, Feeding, TypeOK
  <2>2. HoldsBytes(state[h], message[h])
        /\ state[h].length = (Len(message[h]) + Len(d)) % LengthModulus
    BY <1>1, <2>1 DEF Accounted, FrameAccounted, LengthIsAhead
  <2>3. /\ copied \in 0..Len(d) /\ HoldsBytes(filled, message[h] \o Take(d, copied))
        /\ filled.len # 0 => copied = Len(d)
        /\ filled.length = state[h].length
    BY <2>1, <2>2, FillTailHolds
  <2>. QED BY <2>1, <2>2, <2>3 DEF HoldsBytes
<1>3. TypeOK'
  BY <1>1, <1>2 DEF HashTail, TypeOK, Return, Goto
<1>4. CallsTyped'
  BY <1>1, <1>2 DEF HashTail, CallsTyped, Feeding, Hashing, Data, TypeOK, Return, Goto
<1>5. Ownership'
  BY <1>1, <1>2, Murmur3ClassAssumption DEF HashTail, Ownership, Feeding, Hashing, TypeOK, Return, Goto, CanBorrow
<1>6. Accounted'
  <2>1. ASSUME NEW g \in Hashers PROVE HasherAccounted(g)'
    <3>1. CASE g = h
      BY <1>1, <1>2, <3>1, Murmur3ClassAssumption DEF HashTail, HasherAccounted
    <3>2. CASE g # h
      BY <1>1, <1>2, <3>2 DEF HashTail, TypeOK, Accounted, HasherAccounted
    <3>. QED BY <3>1, <3>2
  <2>2. ASSUME NEW u \in Frames PROVE FrameAccounted(u)'
    <3>1. CASE u = t
      <4>1. /\ pc'[t] = "rest" /\ call'[t].hasher = h /\ call'[t].copied = copied
            /\ Data(t)' = d /\ state'[h] = filled /\ message' = message
        BY <1>1, <1>2 DEF HashTail, TypeOK, Goto, Data
      <4>. QED BY <1>2, <3>1, <4>1 DEF FrameAccounted, LengthIsAhead
    <3>2. CASE u # t
      <4>1. /\ pc'[u] = pc[u] /\ call'[u] = call[u] /\ live \subseteq live' /\ Data(u)' = Data(u)
        BY <1>1, <3>2 DEF HashTail, Return, Goto, Data, TypeOK
      <4>2. Feeding(u) => call[u].hasher # h
        BY <1>1, <1>2, <3>2 DEF Ownership
      <4>3. Feeding(u) => /\ state'[call[u].hasher] = state[call[u].hasher]
                          /\ message'[call[u].hasher] = message[call[u].hasher]
        BY <1>1, <1>2, <4>2 DEF HashTail, TypeOK, CallsTyped
      <4>. QED BY <1>1, <4>1, <4>3, FrameUntouched DEF Accounted
    <3>. QED BY <3>1, <3>2
  <2>. QED BY <2>1, <2>2 DEF Accounted
<1>. QED BY <1>3, <1>4, <1>5, <1>6 DEF IInv

LEMMA HashRestStep ==
  ASSUME IInv, NEW t \in Frames, HashRest(t)
  PROVE  IInv'
<1>. DEFINE h == call[t].hasher
            d == Data(t)
            copied == call[t].copied
            mixed == MixRest(state[h], Drop(d, copied))
<1>1. TypeOK /\ CallsTyped /\ Ownership /\ Accounted
  BY DEF IInv
<1>2. /\ h \in Hashers /\ d \in Seq(Byte) /\ message[h] \in Seq(Byte) /\ writer[h] = t
      /\ pc[t] = "rest" /\ Feeding(t) /\ message[h] \o d \in Seq(Byte)
      /\ Holds(mixed, message[h] \o d) /\ mixed \in HasherState
  <2>1. /\ pc[t] = "rest" /\ Feeding(t) /\ h \in Hashers /\ d \in Seq(Byte) /\ writer[h] = t
        /\ message[h] \in Seq(Byte) /\ copied \in 0..Len(d)
    BY <1>1, DataType DEF HashRest, CallsTyped, Ownership, Feeding, TypeOK
  <2>2. /\ HoldsBytes(state[h], message[h] \o Take(d, copied))
        /\ state[h].len # 0 => copied = Len(d)
        /\ state[h].length = (Len(message[h]) + Len(d)) % LengthModulus
    BY <1>1, <2>1 DEF Accounted, FrameAccounted, LengthIsAhead
  <2>3. HoldsBytes(mixed, message[h] \o d) /\ mixed.length = state[h].length
    BY <2>1, <2>2, ConsumeRestHolds
  <2>4. message[h] \o d \in Seq(Byte) /\ Len(message[h] \o d) = Len(message[h]) + Len(d)
    BY <2>1
  <2>. QED BY <2>1, <2>2, <2>3, <2>4 DEF Holds, HoldsBytes
<1>3. TypeOK'
  BY <1>1, <1>2 DEF HashRest, TypeOK, Return, Goto
<1>4. CallsTyped'
  BY <1>1, <1>2 DEF HashRest, CallsTyped, Feeding, Hashing, Data, TypeOK, Return, Goto
<1>5. Ownership'
  BY <1>1, <1>2, Murmur3ClassAssumption DEF HashRest, Ownership, Feeding, Hashing, TypeOK, Return, Goto, CanBorrow
<1>6. Accounted'
  <2>1. ASSUME NEW g \in Hashers PROVE HasherAccounted(g)'
    <3>1. CASE g = h
      BY <1>1, <1>2, <3>1, Murmur3ClassAssumption DEF HashRest, HasherAccounted
    <3>2. CASE g # h
      BY <1>1, <1>2, <3>2 DEF HashRest, TypeOK, Accounted, HasherAccounted
    <3>. QED BY <3>1, <3>2
  <2>2. ASSUME NEW u \in Frames PROVE FrameAccounted(u)'
    <3>1. CASE u = t
      <4>1. /\ pc'[t] = "hashed" /\ call' = call
            /\ state'[h] = mixed /\ message'[h] = message[h] \o d
        BY <1>1, <1>2 DEF HashRest, TypeOK, Goto
      <4>. QED BY <1>2, <3>1, <4>1 DEF FrameAccounted
    <3>2. CASE u # t
      <4>1. /\ pc'[u] = pc[u] /\ call'[u] = call[u] /\ live \subseteq live' /\ Data(u)' = Data(u)
        BY <1>1, <3>2 DEF HashRest, Return, Goto, Data, TypeOK
      <4>2. Feeding(u) => call[u].hasher # h
        BY <1>1, <1>2, <3>2 DEF Ownership
      <4>3. Feeding(u) => /\ state'[call[u].hasher] = state[call[u].hasher]
                          /\ message'[call[u].hasher] = message[call[u].hasher]
        BY <1>1, <1>2, <4>2 DEF HashRest, TypeOK, CallsTyped
      <4>. QED BY <1>1, <4>1, <4>3, FrameUntouched DEF Accounted
    <3>. QED BY <3>1, <3>2
  <2>. QED BY <2>1, <2>2 DEF Accounted
<1>. QED BY <1>3, <1>4, <1>5, <1>6 DEF IInv

LEMMA FinishInputStep ==
  ASSUME IInv, NEW t \in Frames, FinishInput(t)
  PROVE  IInv'
<1>. DEFINE h == call[t].hasher
<1>1. TypeOK /\ CallsTyped /\ Ownership /\ Accounted
  BY DEF IInv
<1>2. /\ h \in Hashers /\ writer[h] = t /\ pc[t] = "hashed" /\ Holds(state[h], message[h])
  BY <1>1 DEF FinishInput, CallsTyped, Ownership, Feeding, Accounted, FrameAccounted
<1>3. TypeOK'
  BY <1>1, <1>2 DEF FinishInput, TypeOK, Return, Goto
<1>4. CallsTyped'
  BY <1>1, <1>2 DEF FinishInput, CallsTyped, Feeding, Hashing, Data, TypeOK, Return, Goto
<1>5. Ownership'
  BY <1>1, <1>2, Murmur3ClassAssumption DEF FinishInput, Ownership, Feeding, Hashing, TypeOK, Return, Goto, CanBorrow
<1>6. Accounted'
  <2>1. ASSUME NEW g \in Hashers PROVE HasherAccounted(g)'
    <3>1. CASE g = h
      BY <1>1, <1>2, <3>1, Murmur3ClassAssumption DEF FinishInput, HasherAccounted
    <3>2. CASE g # h
      BY <1>1, <1>2, <3>2 DEF FinishInput, TypeOK, Accounted, HasherAccounted
    <3>. QED BY <3>1, <3>2
  <2>2. ASSUME NEW u \in Frames PROVE FrameAccounted(u)'
    <3>1. CASE u = t
      <4>1. pc'[t] = "idle"
        BY <1>1 DEF FinishInput, TypeOK, Return, Goto
      <4>. QED BY <3>1, <4>1 DEF FrameAccounted
    <3>2. CASE u # t
      <4>1. /\ pc'[u] = pc[u] /\ call'[u] = call[u] /\ live \subseteq live' /\ Data(u)' = Data(u)
        BY <1>1, <3>2 DEF FinishInput, Return, Goto, Data, TypeOK
      <4>2. Feeding(u) => call[u].hasher # h
        BY <1>1, <1>2, <3>2 DEF Ownership
      <4>3. Feeding(u) => /\ state'[call[u].hasher] = state[call[u].hasher]
                          /\ message'[call[u].hasher] = message[call[u].hasher]
        BY <1>1, <1>2, <4>2 DEF FinishInput, TypeOK, CallsTyped
      <4>. QED BY <1>1, <4>1, <4>3, FrameUntouched DEF Accounted
    <3>. QED BY <3>1, <3>2
  <2>. QED BY <2>1, <2>2 DEF Accounted
<1>. QED BY <1>3, <1>4, <1>5, <1>6 DEF IInv

LEMMA FinishCopyStep ==
  ASSUME IInv, NEW t \in Frames, FinishCopy(t)
  PROVE  IInv'
<1>. DEFINE h == call[t].hasher
            new == call[t].new
<1>1. TypeOK /\ CallsTyped /\ Ownership /\ Accounted
  BY DEF IInv
<1>2. /\ h \in Hashers /\ new \in Hashers /\ pc[t] = "copying"
      /\ writer[new] = t /\ t \in readers[h] /\ writer[h] = NoFrame /\ h # new
      /\ Holds(state[h], message[h])
  BY <1>1, Murmur3ClassAssumption
  DEF FinishCopy, CallsTyped, Ownership, Feeding, Accounted, HasherAccounted
<1>3. TypeOK'
  BY <1>1, <1>2 DEF FinishCopy, TypeOK, Return, Goto
<1>4. CallsTyped'
  BY <1>1, <1>2 DEF FinishCopy, CallsTyped, Feeding, Hashing, Data, TypeOK, Return, Goto
<1>5. Ownership'
  BY <1>1, <1>2, Murmur3ClassAssumption DEF FinishCopy, Ownership, Feeding, Hashing, TypeOK, Return, Goto, CanBorrow
<1>6. Accounted'
  <2>1. ASSUME NEW g \in Hashers PROVE HasherAccounted(g)'
    <3>1. CASE g = new
      BY <1>1, <1>2, <3>1 DEF FinishCopy, TypeOK, HasherAccounted
    <3>2. CASE g # new
      BY <1>1, <1>2, <3>2 DEF FinishCopy, TypeOK, Accounted, HasherAccounted
    <3>. QED BY <3>1, <3>2
  <2>2. ASSUME NEW u \in Frames PROVE FrameAccounted(u)'
    <3>1. CASE u = t
      <4>1. pc'[t] = "idle"
        BY <1>1 DEF FinishCopy, TypeOK, Return, Goto
      <4>. QED BY <3>1, <4>1 DEF FrameAccounted
    <3>2. CASE u # t
      <4>1. /\ pc'[u] = pc[u] /\ call'[u] = call[u] /\ live \subseteq live' /\ Data(u)' = Data(u)
        BY <1>1, <3>2 DEF FinishCopy, Return, Goto, Data, TypeOK
      <4>2. Feeding(u) => call[u].hasher # new
        BY <1>1, <1>2, <3>2 DEF Ownership
      <4>3. Feeding(u) => /\ state'[call[u].hasher] = state[call[u].hasher]
                          /\ message'[call[u].hasher] = message[call[u].hasher]
        BY <1>1, <1>2, <4>2 DEF FinishCopy, TypeOK, CallsTyped
      <4>. QED BY <1>1, <4>1, <4>3, FrameUntouched DEF Accounted
    <3>. QED BY <3>1, <3>2
  <2>. QED BY <2>1, <2>2 DEF Accounted
<1>. QED BY <1>3, <1>4, <1>5, <1>6 DEF IInv

(* Nobody changes the shared bytearray under a frame that hashes it: that  *)
(* frame is attached, and inside the critical section.                     *)
LEMMA MutateCellStep ==
  ASSUME IInv, NEW content \in Contents, MutateCell(content)
  PROVE  IInv'
<1>1. TypeOK /\ CallsTyped /\ Ownership /\ Accounted
  BY DEF IInv
<1>2. ASSUME NEW u \in Frames, pc[u] \in {"fill", "rest"} PROVE Data(u)' = Data(u)
  BY <1>2 DEF MutateCell, InSection, Attached, Hashing, Detaches, Data
<1>3. TypeOK'
  BY <1>1 DEF MutateCell, TypeOK
<1>4. CallsTyped'
  BY <1>1, <1>2 DEF MutateCell, CallsTyped, Feeding
<1>5. Ownership'
  BY <1>1 DEF MutateCell, Ownership, Feeding
<1>6. Accounted'
  <2>1. ASSUME NEW g \in Hashers PROVE HasherAccounted(g)'
    BY <1>1 DEF MutateCell, Accounted, HasherAccounted
  <2>2. ASSUME NEW u \in Frames PROVE FrameAccounted(u)'
    <3>1. /\ pc'[u] = pc[u] /\ call'[u] = call[u] /\ live \subseteq live'
          /\ state' = state /\ message' = message
      BY DEF MutateCell
    <3>. QED BY <1>1, <1>2, <3>1, FrameUntouched DEF Accounted
  <2>. QED BY <2>1, <2>2 DEF Accounted
<1>. QED BY <1>3, <1>4, <1>5, <1>6 DEF IInv
----------------------------------------------------------------------------
LEMMA NextInvariant == IInv /\ [Next]_vars => IInv'
<1>. SUFFICES ASSUME IInv, [Next]_vars PROVE IInv'
  OBVIOUS
<1>1. CASE \E t \in Frames, h \in Hashers :
             \/ CreateEmpty(t, h)
             \/ \E kind \in {"bytes", "exporter"}, data \in Payloads : BeginInput(t, h, kind, data)
             \/ BeginInput(t, h, "bytearray", <<>>)
             \/ RefuseUpdate(t, h)
             \/ RefuseRead(t, h)
             \/ BeginDigest(t, h)
             \/ \E new \in Hashers : BeginCopy(t, h, new)
  <2>. PICK t \in Frames, h \in Hashers :
             \/ CreateEmpty(t, h)
             \/ \E kind \in {"bytes", "exporter"}, data \in Payloads : BeginInput(t, h, kind, data)
             \/ BeginInput(t, h, "bytearray", <<>>)
             \/ RefuseUpdate(t, h)
             \/ RefuseRead(t, h)
             \/ BeginDigest(t, h)
             \/ \E new \in Hashers : BeginCopy(t, h, new)
    BY <1>1
  <2>1. CASE CreateEmpty(t, h)
    BY <2>1, CreateEmptyStep
  <2>2. CASE \E kind \in {"bytes", "exporter"}, data \in Payloads : BeginInput(t, h, kind, data)
    <3>1. PICK kind \in {"bytes", "exporter"}, data \in Payloads : BeginInput(t, h, kind, data)
      BY <2>2
    <3>2. kind \in InputKinds /\ data \in Seq(Byte)
      BY Murmur3ClassAssumption DEF InputKinds
    <3>. QED BY <3>1, <3>2, BeginInputStep
  <2>3. CASE BeginInput(t, h, "bytearray", <<>>)
    <3>1. "bytearray" \in InputKinds /\ <<>> \in Seq(Byte)
      BY DEF InputKinds
    <3>. QED BY <2>3, <3>1, BeginInputStep
  <2>4. CASE RefuseUpdate(t, h) \/ RefuseRead(t, h)
    BY <2>4, RefusedStep DEF RefuseUpdate, RefuseRead, IInv, TypeOK
  <2>5. CASE BeginDigest(t, h)
    BY <2>5, BeginDigestStep
  <2>6. CASE \E new \in Hashers : BeginCopy(t, h, new)
    BY <2>6, BeginCopyStep
  <2>. QED BY <2>1, <2>2, <2>3, <2>4, <2>5, <2>6
<1>2. CASE \E t \in Frames :
             \/ ExportReturns(t) \/ ExportRaises(t)
             \/ HashLength(t) \/ HashTail(t) \/ HashRest(t) \/ FinishInput(t)
             \/ FinishDigest(t) \/ FinishCopy(t)
  BY <1>2, ExportReturnsStep, ExportRaisesStep, HashLengthStep, HashTailStep, HashRestStep,
     FinishInputStep, FinishDigestStep, FinishCopyStep
<1>3. CASE \E content \in Contents : MutateCell(content)
  BY <1>3, MutateCellStep
<1>4. CASE UNCHANGED vars
  BY <1>4, RefusedStep DEF vars, IInv, TypeOK
<1>. QED BY <1>1, <1>2, <1>3, <1>4 DEF Next

(* Everything a hasher has been given is in its words and its tail, and    *)
(* every frame is the only one that may change what it relies on, in every *)
(* reachable state of the class.                                           *)
THEOREM InvariantHolds == Spec => []IInv
<1>1. Init => IInv
  BY InitInvariant
<1>2. IInv /\ [Next]_vars => IInv'
  BY NextInvariant
<1>. QED BY <1>1, <1>2, PTL DEF Spec

(* The variables keep their types.                                         *)
THEOREM TypeCorrect == Spec => []TypeOK
<1>1. IInv => TypeOK
  BY DEF IInv
<1>. QED BY <1>1, InvariantHolds, PTL

(* However updates, copies, refusals, callbacks and detached hashing       *)
(* interleave, the digest of a hasher that no call is changing equals the  *)
(* one-shot hash of everything it was given.                               *)
THEOREM DigestsAreOneShot == Spec => []DigestMatchesOneShot
<1>1. IInv => DigestMatchesOneShot
  <2>. SUFFICES ASSUME IInv, NEW h \in live, writer[h] = NoFrame
                PROVE  DigestOf(state[h]) = OneShot(message[h])
    BY DEF DigestMatchesOneShot
  <2>1. h \in Hashers /\ message[h] \in Seq(Byte)
    BY DEF IInv, TypeOK
  <2>2. Holds(state[h], message[h])
    BY <2>1 DEF IInv, Accounted, HasherAccounted
  <2>. QED BY <2>1, <2>2, HoldsDigest
<1>. QED BY <1>1, InvariantHolds, PTL
----------------------------------------------------------------------------
(* What the refinement needs besides IInv: a call feeds one of the inputs, *)
(* a hasher under construction has at most that input for a message, and a *)
(* call that reads or clones does so from a published hasher, into one     *)
(* that is not published.                                                  *)
FeedsInput(t) ==
  Feeding(t) /\ call[t].kind # "bytearray" => call[t].data \in Payloads

Unpublished(t) ==
  call[t].hasher \notin live =>
    /\ pc[t] \in {"exporting", "converted", "fill", "rest"} => message[call[t].hasher] = <<>>
    /\ pc[t] = "hashed" => message[call[t].hasher] \in Payloads \union Contents

ReadsPublished(t) ==
  /\ pc[t] \in {"digesting", "copying"} => call[t].hasher \in live
  /\ pc[t] = "copying" => call[t].new \notin live

PublicationOf(t) == FeedsInput(t) /\ Unpublished(t) /\ ReadsPublished(t)
Publication == \A t \in Frames : PublicationOf(t)

(* Other frames do not disturb it: hashers are only published, and the one *)
(* a frame feeds or clones into only by that frame.                        *)
LEMMA PublicationUntouched ==
  ASSUME NEW u \in Frames, PublicationOf(u), pc'[u] = pc[u], call'[u] = call[u],
         live \subseteq live',
         Feeding(u) => message'[call[u].hasher] = message[call[u].hasher],
         pc[u] = "copying" => (call[u].new \in live' => call[u].new \in live)
  PROVE  PublicationOf(u)'
<1>1. FeedsInput(u)'
  BY DEF PublicationOf, FeedsInput, Feeding
<1>2. Unpublished(u)'
  BY DEF PublicationOf, Unpublished, Feeding
<1>3. ReadsPublished(u)'
  BY DEF PublicationOf, ReadsPublished
<1>. QED BY <1>1, <1>2, <1>3 DEF PublicationOf

(* The input of a call that hashes is one of the sequential hasher's.      *)
LEMMA DataIsInput ==
  ASSUME TypeOK, NEW t \in Frames, Feeding(t), FeedsInput(t)
  PROVE  Data(t) \in Payloads \union Contents
  BY DEF TypeOK, FeedsInput, Data

LEMMA InitPublication == Init => Publication
  BY DEF Init, Publication, PublicationOf, FeedsInput, Unpublished, ReadsPublished, Feeding

(* A step of frame t that leaves the calls, hashers and messages of other  *)
(* frames alone keeps their part.                                          *)
LEMMA OthersPublication ==
  ASSUME IInv, Publication, NEW t \in Frames,
         \A u \in Frames \ {t} : pc'[u] = pc[u] /\ call'[u] = call[u],
         live \subseteq live',
         \A h \in Hashers : message'[h] # message[h] => writer[h] = t,
         \A h \in live' \ live : writer[h] \in {t, NoFrame},
         PublicationOf(t)'
  PROVE  Publication'
<1>. SUFFICES ASSUME NEW u \in Frames \ {t} PROVE PublicationOf(u)'
  BY DEF Publication
<1>1. PublicationOf(u) /\ NoFrame # u
  BY Murmur3ClassAssumption DEF Publication
<1>2. Feeding(u) => call[u].hasher \in Hashers /\ writer[call[u].hasher] = u
  BY DEF IInv, CallsTyped, Ownership, Feeding
<1>3. pc[u] = "copying" => call[u].new \in Hashers /\ writer[call[u].new] = u
  BY DEF IInv, CallsTyped, Ownership
<1>. QED BY <1>1, <1>2, <1>3, PublicationUntouched

(* Steps of a call up to its end.                                          *)
LEMMA CallPublication ==
  ASSUME IInv, Publication, NEW t \in Frames,
         \/ \E h \in Hashers : CreateEmpty(t, h) \/ RefuseUpdate(t, h) \/ RefuseRead(t, h)
         \/ ExportReturns(t) \/ HashLength(t) \/ HashTail(t) \/ HashRest(t)
  PROVE  Publication'
<1>1. TypeOK /\ CallsTyped /\ Ownership /\ Accounted /\ PublicationOf(t)
  BY DEF IInv, Publication
<1>2. CASE \E h \in Hashers : CreateEmpty(t, h)
  <2>1. PICK h \in Hashers : CreateEmpty(t, h)
    BY <1>2
  <2>2. call[t].hasher \notin live' => call[t].hasher \notin live
    BY <2>1 DEF CreateEmpty
  <2>3. PublicationOf(t)'
    BY <1>1, <2>1 DEF CreateEmpty, Idle, PublicationOf, FeedsInput, Unpublished, ReadsPublished, Feeding
  <2>. QED BY <2>1, <2>3, OthersPublication DEF CreateEmpty
<1>3. CASE \E h \in Hashers : RefuseUpdate(t, h) \/ RefuseRead(t, h)
  <2>1. pc' = pc /\ call' = call /\ live' = live /\ message' = message
    BY <1>3 DEF RefuseUpdate, RefuseRead
  <2>. QED BY <2>1 DEF Publication, PublicationOf, FeedsInput, Unpublished, ReadsPublished, Feeding
<1>4. CASE ExportReturns(t) \/ HashLength(t)
  <2>1. /\ pc[t] \in {"exporting", "converted"} /\ pc'[t] \in {"converted", "fill"}
        /\ call' = call /\ live' = live /\ message' = message
        /\ \A u \in Frames \ {t} : pc'[u] = pc[u]
    BY <1>1, <1>4 DEF ExportReturns, HashLength, Goto, TypeOK
  <2>2. PublicationOf(t)'
    BY <1>1, <2>1 DEF PublicationOf, FeedsInput, Unpublished, ReadsPublished, Feeding
  <2>. QED BY <2>1, <2>2, OthersPublication
<1>5. CASE HashTail(t)
  <2>1. /\ pc[t] = "fill" /\ pc'[t] = "rest" /\ live' = live /\ message' = message
        /\ call'[t].hasher = call[t].hasher /\ call'[t].kind = call[t].kind
        /\ call'[t].data = call[t].data
        /\ \A u \in Frames \ {t} : pc'[u] = pc[u] /\ call'[u] = call[u]
    BY <1>1, <1>5 DEF HashTail, Goto, TypeOK
  <2>2. PublicationOf(t)'
    BY <1>1, <2>1 DEF PublicationOf, FeedsInput, Unpublished, ReadsPublished, Feeding
  <2>. QED BY <2>1, <2>2, OthersPublication
<1>6. CASE HashRest(t)
  <2>. DEFINE h == call[t].hasher
  <2>1. /\ pc[t] = "rest" /\ pc'[t] = "hashed" /\ live' = live /\ call' = call
        /\ h \in Hashers /\ writer[h] = t
        /\ message' = [message EXCEPT ![h] = @ \o Data(t)]
        /\ \A u \in Frames \ {t} : pc'[u] = pc[u]
    BY <1>1, <1>6 DEF HashRest, Goto, TypeOK, CallsTyped, Ownership, Feeding
  <2>2. Data(t) \in Payloads \union Contents /\ Data(t) \in Seq(Byte)
    BY <1>1, <2>1, DataIsInput, Murmur3ClassAssumption DEF Feeding, PublicationOf
  <2>3. h \notin live => message'[h] = Data(t)
    BY <1>1, <2>1, <2>2 DEF PublicationOf, Unpublished, TypeOK
  <2>4. PublicationOf(t)'
    BY <1>1, <2>1, <2>2, <2>3 DEF PublicationOf, FeedsInput, Unpublished, ReadsPublished, Feeding
  <2>5. \A g \in Hashers : message'[g] # message[g] => writer[g] = t
    BY <1>1, <2>1 DEF TypeOK
  <2>. QED BY <2>1, <2>4, <2>5, OthersPublication
<1>. QED BY <1>2, <1>3, <1>4, <1>5, <1>6

(* A call begins.                                                          *)
LEMMA BeginPublication ==
  ASSUME IInv, Publication, NEW t \in Frames, NEW h \in Hashers,
         \/ \E kind \in {"bytes", "exporter"}, data \in Payloads : BeginInput(t, h, kind, data)
         \/ BeginInput(t, h, "bytearray", <<>>)
         \/ BeginDigest(t, h)
         \/ \E new \in Hashers : BeginCopy(t, h, new)
  PROVE  Publication'
<1>1. TypeOK /\ CallsTyped /\ Ownership /\ Accounted
  BY DEF IInv
<1>2. CASE \/ \E kind \in {"bytes", "exporter"}, data \in Payloads : BeginInput(t, h, kind, data)
           \/ BeginInput(t, h, "bytearray", <<>>)
  <2>1. PICK kind \in InputKinds, data \in Payloads \union {<<>>} :
               BeginInput(t, h, kind, data) /\ (kind # "bytearray" => data \in Payloads)
    BY <1>2 DEF InputKinds
  <2>2. /\ pc'[t] \in {"exporting", "converted"} /\ live' = live /\ message' = message
        /\ call'[t] = [hasher |-> h, kind |-> kind, data |-> data]
        /\ \A u \in Frames \ {t} : pc'[u] = pc[u] /\ call'[u] = call[u]
    BY <1>1, <2>1 DEF BeginInput, Begin, Goto, TypeOK
  <2>3. h \notin live => message[h] = <<>>
    BY <1>1, <2>1 DEF BeginInput, Unborrowed, Accounted, HasherAccounted
  <2>4. PublicationOf(t)'
    BY <2>1, <2>2, <2>3 DEF PublicationOf, FeedsInput, Unpublished, ReadsPublished, Feeding
  <2>. QED BY <2>2, <2>4, OthersPublication
<1>3. CASE BeginDigest(t, h)
  <2>1. /\ pc'[t] = "digesting" /\ live' = live /\ message' = message
        /\ call'[t].hasher = h /\ h \in live
        /\ \A u \in Frames \ {t} : pc'[u] = pc[u] /\ call'[u] = call[u]
    BY <1>1, <1>3 DEF BeginDigest, Begin, Goto, TypeOK
  <2>2. PublicationOf(t)'
    BY <2>1 DEF PublicationOf, FeedsInput, Unpublished, ReadsPublished, Feeding
  <2>. QED BY <2>1, <2>2, OthersPublication
<1>4. CASE \E new \in Hashers : BeginCopy(t, h, new)
  <2>1. PICK new \in Hashers : BeginCopy(t, h, new)
    BY <1>4
  <2>2. /\ pc'[t] = "copying" /\ live' = live /\ message' = message
        /\ call'[t].hasher = h /\ h \in live /\ call'[t].new = new /\ new \notin live
        /\ \A u \in Frames \ {t} : pc'[u] = pc[u] /\ call'[u] = call[u]
    BY <1>1, <2>1 DEF BeginCopy, Begin, Goto, TypeOK
  <2>3. PublicationOf(t)'
    BY <2>2 DEF PublicationOf, FeedsInput, Unpublished, ReadsPublished, Feeding
  <2>. QED BY <2>2, <2>3, OthersPublication
<1>. QED BY <1>2, <1>3, <1>4

(* A call ends.                                                            *)
LEMMA EndPublication ==
  ASSUME IInv, Publication, NEW t \in Frames,
         ExportRaises(t) \/ FinishInput(t) \/ FinishDigest(t) \/ FinishCopy(t)
  PROVE  Publication'
<1>1. TypeOK /\ CallsTyped /\ Ownership
  BY DEF IInv
<1>2. /\ pc'[t] = "idle"
      /\ \A u \in Frames \ {t} : pc'[u] = pc[u] /\ call'[u] = call[u]
      /\ live \subseteq live'
  BY <1>1 DEF ExportRaises, FinishInput, FinishDigest, FinishCopy, Return, Goto, TypeOK
<1>3. PublicationOf(t)'
  BY <1>2 DEF PublicationOf, FeedsInput, Unpublished, ReadsPublished, Feeding
<1>4. \A h \in Hashers : message'[h] # message[h] => writer[h] = t
  BY <1>1 DEF ExportRaises, FinishInput, FinishDigest, FinishCopy, TypeOK, CallsTyped, Ownership
<1>5. \A h \in live' \ live : writer[h] = t
  BY <1>1 DEF ExportRaises, FinishInput, FinishDigest, FinishCopy, CallsTyped, Ownership, Feeding
<1>. QED BY <1>2, <1>3, <1>4, <1>5, OthersPublication

LEMMA NextPublication == IInv /\ Publication /\ [Next]_vars => Publication'
<1>. SUFFICES ASSUME IInv, Publication, [Next]_vars PROVE Publication'
  OBVIOUS
<1>1. CASE (\E content \in Contents : MutateCell(content)) \/ UNCHANGED vars
  <2>1. pc' = pc /\ call' = call /\ live' = live /\ message' = message
    BY <1>1 DEF MutateCell, vars
  <2>. QED BY <2>1 DEF Publication, PublicationOf, FeedsInput, Unpublished, ReadsPublished, Feeding
<1>2. CASE \E t \in Frames, h \in Hashers :
             \/ CreateEmpty(t, h) \/ RefuseUpdate(t, h) \/ RefuseRead(t, h)
  BY <1>2, CallPublication
<1>3. CASE \E t \in Frames, h \in Hashers :
             \/ \E kind \in {"bytes", "exporter"}, data \in Payloads : BeginInput(t, h, kind, data)
             \/ BeginInput(t, h, "bytearray", <<>>)
             \/ BeginDigest(t, h)
             \/ \E new \in Hashers : BeginCopy(t, h, new)
  BY <1>3, BeginPublication
<1>4. CASE \E t \in Frames :
             \/ ExportReturns(t) \/ ExportRaises(t)
             \/ HashLength(t) \/ HashTail(t) \/ HashRest(t) \/ FinishInput(t)
             \/ FinishDigest(t) \/ FinishCopy(t)
  BY <1>4, CallPublication, EndPublication
<1>. QED BY <1>1, <1>2, <1>3, <1>4 DEF Next

(* The class implements the sequential hasher, whose message of a hasher   *)
(* is that of a published one. A step of a call is one step of it or none. *)
messages == [h \in Hashers |-> IF h \in live THEN message[h] ELSE <<>>]

LEMMA InitRefines == Init => Stream!Init
  BY DEF Init, Stream!Init, Stream!None

(* Creating, beginning and refusing.                                       *)
LEMMA BeginRefines ==
  ASSUME IInv, Publication, NEW t \in Frames, NEW h \in Hashers,
         \/ CreateEmpty(t, h)
         \/ \E kind \in {"bytes", "exporter"}, data \in Payloads : BeginInput(t, h, kind, data)
         \/ BeginInput(t, h, "bytearray", <<>>)
         \/ RefuseUpdate(t, h) \/ RefuseRead(t, h)
         \/ BeginDigest(t, h)
         \/ \E new \in Hashers : BeginCopy(t, h, new)
  PROVE  Stream!Next
<1>1. CASE CreateEmpty(t, h)
  <2>1. message[h] = <<>>
    BY <1>1 DEF IInv, Accounted, HasherAccounted, CreateEmpty
  <2>2. messages' = [messages EXCEPT ![h] = <<>>]
    BY <1>1, <2>1 DEF CreateEmpty, messages
  <2>3. Stream!Create(h, <<>>)
    BY <1>1, <2>2 DEF CreateEmpty, Stream!Create, messages
  <2>. QED BY <2>3 DEF Stream!Next
<1>2. CASE \/ \E kind \in {"bytes", "exporter"}, data \in Payloads : BeginInput(t, h, kind, data)
           \/ BeginInput(t, h, "bytearray", <<>>)
           \/ BeginDigest(t, h)
           \/ \E new \in Hashers : BeginCopy(t, h, new)
  <2>1. Stream!Begin(t)
    BY <1>2 DEF BeginInput, BeginDigest, BeginCopy, Begin, Stream!Begin, Stream!None
  <2>. QED BY <2>1 DEF Stream!Next
<1>3. CASE RefuseUpdate(t, h) \/ RefuseRead(t, h)
  <2>1. Stream!Raise(t, "Already borrowed")
    BY <1>3 DEF RefuseUpdate, RefuseRead, Stream!Raise, Stream!Raised
  <2>. QED BY <2>1 DEF Stream!Next
<1>. QED BY <1>1, <1>2, <1>3

(* Hashing: the input is appended when the last of it has been mixed, or,  *)
(* to a hasher under construction, when that is published.                 *)
LEMMA HashRefines ==
  ASSUME IInv, Publication, NEW t \in Frames,
         ExportReturns(t) \/ HashLength(t) \/ HashTail(t) \/ HashRest(t) \/ FinishInput(t)
  PROVE  [Stream!Next]_(Stream!vars)
<1>1. TypeOK /\ CallsTyped /\ Ownership /\ PublicationOf(t)
  BY DEF IInv, Publication
<1>. DEFINE h == call[t].hasher
<1>2. CASE ExportReturns(t) \/ HashLength(t) \/ HashTail(t)
  BY <1>2 DEF ExportReturns, HashLength, HashTail, Stream!vars
<1>3. CASE HashRest(t)
  <2>1. /\ h \in Hashers /\ Feeding(t) /\ live' = live /\ result' = result
        /\ message' = [message EXCEPT ![h] = @ \o Data(t)]
    BY <1>1, <1>3 DEF HashRest, CallsTyped, Feeding
  <2>2. Data(t) \in Payloads \union Contents
    BY <1>1, <2>1, DataIsInput DEF PublicationOf
  <2>3. CASE h \in live
    <3>1. messages' = [messages EXCEPT ![h] = @ \o Data(t)]
      BY <1>1, <2>1, <2>3 DEF messages, TypeOK
    <3>2. PICK g \in Hashers, m \in Payloads \union Contents : g = h /\ m = Data(t)
      BY <2>1, <2>2
    <3>3. Stream!Absorb(g, m)
      BY <2>1, <2>3, <3>1, <3>2 DEF Stream!Absorb, messages
    <3>. QED BY <3>3 DEF Stream!Next
  <2>4. CASE h \notin live
    <3>1. messages' = messages
      BY <1>1, <2>1, <2>4 DEF messages, TypeOK
    <3>. QED BY <2>1, <3>1 DEF Stream!vars, messages
  <2>. QED BY <2>3, <2>4
<1>4. CASE FinishInput(t)
  <2>1. /\ h \in Hashers /\ pc[t] = "hashed" /\ live' = live \union {h} /\ result' = result
        /\ message' = message
    BY <1>1, <1>4 DEF FinishInput, Return, CallsTyped
  <2>2. CASE h \in live
    <3>1. live' = live
      BY <2>1, <2>2
    <3>. QED BY <2>1, <3>1 DEF Stream!vars
  <2>3. CASE h \notin live
    <3>1. message[h] \in Payloads \union Contents
      BY <1>1, <2>1, <2>3 DEF PublicationOf, Unpublished
    <3>2. messages' = [messages EXCEPT ![h] = message[h]]
      BY <2>1, <2>3 DEF messages
    <3>3. PICK g \in Hashers, m \in Payloads \union Contents : g = h /\ m = message[h]
      BY <2>1, <3>1
    <3>4. Stream!Create(g, m)
      BY <2>1, <2>3, <3>2, <3>3 DEF Stream!Create, messages
    <3>. QED BY <3>4 DEF Stream!Next
  <2>. QED BY <2>2, <2>3
<1>. QED BY <1>2, <1>3, <1>4

(* Ending: a digest is read off a published hasher nobody is changing.     *)
LEMMA EndRefines ==
  ASSUME IInv, Publication, NEW t \in Frames,
         ExportRaises(t) \/ FinishDigest(t) \/ FinishCopy(t)
  PROVE  Stream!Next
<1>1. TypeOK /\ CallsTyped /\ Ownership /\ PublicationOf(t)
  BY DEF IInv, Publication
<1>. DEFINE h == call[t].hasher
            new == call[t].new
<1>2. CASE ExportRaises(t)
  <2>1. Stream!Raise(t, "TypeError")
    BY <1>2 DEF ExportRaises, Return, Stream!Raise, Stream!Raised
  <2>. QED BY <2>1 DEF Stream!Next
<1>3. CASE FinishDigest(t)
  <2>1. h \in Hashers /\ h \in live /\ t \in readers[h]
    BY <1>1, <1>3 DEF FinishDigest, CallsTyped, Ownership, PublicationOf, ReadsPublished
  <2>2. writer[h] = NoFrame
    BY <1>1, <2>1 DEF Ownership
  <2>3. DigestOf(state[h]) = OneShot(message[h])
    <3>1. Holds(state[h], message[h]) /\ message[h] \in Seq(Byte)
      BY <1>1, <2>1, <2>2 DEF IInv, Accounted, HasherAccounted, TypeOK
    <3>. QED BY <3>1, HoldsDigest
  <2>4. messages[h] = message[h]
    BY <2>1 DEF messages
  <2>5. Stream!OneShot(message[h]) = OneShot(message[h])
    BY DEF OneShot, Stream!OneShot, Take, Drop, Stream!Take, Stream!Drop, BodyLen, Stream!BodyLen
  <2>6. Stream!Observe(t, h)
    BY <1>3, <2>1, <2>3, <2>4, <2>5
    DEF FinishDigest, Return, Stream!Observe, Stream!Digest, messages
  <2>. QED BY <2>1, <2>6 DEF Stream!Next
<1>4. CASE FinishCopy(t)
  <2>1. /\ h \in Hashers /\ h \in live /\ new \in Hashers /\ new \notin live
        /\ live' = live \union {new} /\ result' = result
        /\ message' = [message EXCEPT ![new] = message[h]]
    BY <1>1, <1>4 DEF FinishCopy, Return, CallsTyped, PublicationOf, ReadsPublished
  <2>2. messages' = [messages EXCEPT ![new] = messages[h]]
    BY <1>1, <2>1 DEF messages, TypeOK
  <2>3. PICK g \in Hashers, n \in Hashers : g = h /\ n = new
    BY <2>1
  <2>4. Stream!Copy(g, n)
    BY <2>1, <2>2, <2>3 DEF Stream!Copy, Stream!Create, messages
  <2>. QED BY <2>4 DEF Stream!Next
<1>. QED BY <1>2, <1>3, <1>4

LEMMA NextRefines == IInv /\ Publication /\ [Next]_vars => [Stream!Next]_(Stream!vars)
<1>. SUFFICES ASSUME IInv, Publication, [Next]_vars PROVE [Stream!Next]_(Stream!vars)
  OBVIOUS
<1>1. CASE (\E content \in Contents : MutateCell(content)) \/ UNCHANGED vars
  BY <1>1 DEF MutateCell, vars, Stream!vars
<1>2. CASE \E t \in Frames, h \in Hashers :
             \/ CreateEmpty(t, h)
             \/ \E kind \in {"bytes", "exporter"}, data \in Payloads : BeginInput(t, h, kind, data)
             \/ BeginInput(t, h, "bytearray", <<>>)
             \/ RefuseUpdate(t, h)
             \/ RefuseRead(t, h)
             \/ BeginDigest(t, h)
             \/ \E new \in Hashers : BeginCopy(t, h, new)
  BY <1>2, BeginRefines
<1>3. CASE \E t \in Frames :
             \/ ExportReturns(t) \/ HashLength(t) \/ HashTail(t) \/ HashRest(t) \/ FinishInput(t)
  BY <1>3, HashRefines
<1>4. CASE \E t \in Frames : ExportRaises(t) \/ FinishDigest(t) \/ FinishCopy(t)
  BY <1>4, EndRefines
<1>. QED BY <1>1, <1>2, <1>3, <1>4 DEF Next

(* To Python code the class is the sequential hasher: an update appends    *)
(* its input at one instant of the call or, when it raises, not at all, a  *)
(* copy is taken at one instant, and a digest that a call returns is the   *)
(* one-shot hash of the message at that instant.                           *)
THEOREM ClassImplementsStream == Spec => RefinesStream
<1>1. Spec => []Publication
  BY InitPublication, NextPublication, InvariantHolds, PTL DEF Spec
<1>. QED BY <1>1, InitRefines, NextRefines, InvariantHolds, PTL DEF Spec, RefinesStream, Stream!Spec
=============================================================================
