--------------------------- MODULE Xxh3BatchProofs ---------------------------
(***************************************************************************)
(* The digests of XXH3, for every machine and every sequence of inputs:    *)
(* whichever kernel hashes whichever group of inputs, each digest is that  *)
(* of the specification, the loads stay inside the inputs and the secret,  *)
(* and the formulas of short inputs read all of their bytes.               *)
(***************************************************************************)
EXTENDS Xxh3Batch, SequenceTheorems, TLAPS
----------------------------------------------------------------------------
(* Bags are compared by how often they hold an element.                    *)
Count(e, B) == IF e \in DOMAIN B THEN B[e] ELSE 0

(* How often a bag holds an element is a natural number.                   *)
LEMMA CountType == ASSUME NEW B, IsABag(B), NEW e PROVE Count(e, B) \in Nat
  BY DEF IsABag, Count

(* The sum of two bags is a bag, and holds what both hold.                 *)
LEMMA CountSum ==
  ASSUME NEW A, NEW B, IsABag(A), IsABag(B)
  PROVE  /\ IsABag(A (+) B)
         /\ \A e : Count(e, A (+) B) = Count(e, A) + Count(e, B)
  <1>1. DOMAIN (A (+) B) = DOMAIN A \cup DOMAIN B
    BY DEF (+)
  <1>2. ASSUME NEW e \in DOMAIN A \cup DOMAIN B
        PROVE  (A (+) B)[e] = Count(e, A) + Count(e, B)
    BY <1>2 DEF (+), Count
  <1>3. \A e : Count(e, A) \in Nat /\ Count(e, B) \in Nat
    BY CountType
  <1>4. \A e : (e \in DOMAIN A => Count(e, A) > 0) /\ (e \in DOMAIN B => Count(e, B) > 0)
    BY DEF IsABag, Count
  <1>5. IsABag(A (+) B)
    <2>1. \A e \in DOMAIN A \cup DOMAIN B : (A (+) B)[e] \in {n \in Nat : n > 0}
      BY <1>2, <1>3, <1>4
    <2>2. A (+) B = [e \in DOMAIN A \cup DOMAIN B |-> (A (+) B)[e]]
      BY DEF (+)
    <2> QED BY <1>1, <2>1, <2>2 DEF IsABag
  <1>6. ASSUME NEW e PROVE Count(e, A (+) B) = Count(e, A) + Count(e, B)
    <2>1. CASE e \in DOMAIN A \cup DOMAIN B
      <3>1. Count(e, A (+) B) = (A (+) B)[e]
        BY <1>1, <2>1 DEF Count
      <3> QED BY <1>2, <2>1, <3>1
    <2>2. CASE e \notin DOMAIN A \cup DOMAIN B
      BY <1>1, <2>2 DEF Count
    <2> QED BY <2>1, <2>2
  <1> QED BY <1>5, <1>6

(* The bag of a set holds each of its elements once.                       *)
LEMMA CountSet ==
  ASSUME NEW S
  PROVE  /\ IsABag(SetToBag(S))
         /\ DOMAIN SetToBag(S) = S
         /\ \A e : Count(e, SetToBag(S)) = IF e \in S THEN 1 ELSE 0
  BY DEF IsABag, SetToBag, Count

(* Bags that hold every element equally often are the same.                *)
LEMMA SameCounts ==
  ASSUME NEW A, NEW B, IsABag(A), IsABag(B), \A e : Count(e, A) = Count(e, B)
  PROVE  A = B
  <1>1. \A e : (e \in DOMAIN A <=> Count(e, A) > 0) /\ (e \in DOMAIN B <=> Count(e, B) > 0)
    BY DEF IsABag, Count
  <1>2. DOMAIN A = DOMAIN B
    BY <1>1
  <1>3. \A e \in DOMAIN A : A[e] = B[e]
    BY <1>2 DEF Count
  <1>4. A = [e \in DOMAIN A |-> A[e]] /\ B = [e \in DOMAIN B |-> B[e]]
    BY DEF IsABag
  <1> QED BY <1>2, <1>3, <1>4

(* A set and an element it lacks make the bag of both.                     *)
LEMMA AddedToSet ==
  ASSUME NEW S, NEW x, x \notin S
  PROVE  SetToBag(S) (+) SetToBag({x}) = SetToBag(S \cup {x})
  <1>1. IsABag(SetToBag(S)) /\ IsABag(SetToBag({x})) /\ IsABag(SetToBag(S \cup {x}))
    BY CountSet
  <1>2. /\ IsABag(SetToBag(S) (+) SetToBag({x}))
        /\ \A e : Count(e, SetToBag(S) (+) SetToBag({x}))
                    = Count(e, SetToBag(S)) + Count(e, SetToBag({x}))
    BY <1>1, CountSum
  <1>3. \A e : /\ Count(e, SetToBag(S)) = IF e \in S THEN 1 ELSE 0
               /\ Count(e, SetToBag({x})) = IF e \in {x} THEN 1 ELSE 0
               /\ Count(e, SetToBag(S \cup {x})) = IF e \in S \cup {x} THEN 1 ELSE 0
    BY CountSet
  <1>4. \A e : Count(e, SetToBag(S) (+) SetToBag({x})) = Count(e, SetToBag(S \cup {x}))
    BY <1>2, <1>3
  <1> QED BY <1>1, <1>2, <1>4, SameCounts
----------------------------------------------------------------------------
(* The chains of an accumulator.                                           *)

(* What a sum of four chains holds.                                        *)
LEMMA CountChains ==
  ASSUME NEW acc, AreChains(acc)
  PROVE  /\ IsABag(Sum(acc))
         /\ \A e : Count(e, Sum(acc))
                     = Count(e, acc[0]) + Count(e, acc[1]) + Count(e, acc[2]) + Count(e, acc[3])
  <1>1. IsABag(acc[0]) /\ IsABag(acc[1]) /\ IsABag(acc[2]) /\ IsABag(acc[3])
    BY DEF AreChains
  <1>2. /\ IsABag(acc[0] (+) acc[1])
        /\ \A e : Count(e, acc[0] (+) acc[1]) = Count(e, acc[0]) + Count(e, acc[1])
    BY <1>1, CountSum
  <1>3. /\ IsABag(acc[0] (+) acc[1] (+) acc[2])
        /\ \A e : Count(e, acc[0] (+) acc[1] (+) acc[2])
                    = Count(e, acc[0] (+) acc[1]) + Count(e, acc[2])
    BY <1>1, <1>2, CountSum
  <1>4. /\ IsABag(acc[0] (+) acc[1] (+) acc[2] (+) acc[3])
        /\ \A e : Count(e, acc[0] (+) acc[1] (+) acc[2] (+) acc[3])
                    = Count(e, acc[0] (+) acc[1] (+) acc[2]) + Count(e, acc[3])
    BY <1>1, <1>3, CountSum
  <1>5. \A e : Count(e, acc[0] (+) acc[1] (+) acc[2] (+) acc[3])
                 = Count(e, acc[0]) + Count(e, acc[1]) + Count(e, acc[2]) + Count(e, acc[3])
    BY <1>2, <1>3, <1>4
  <1> QED BY <1>4, <1>5 DEF Sum

(* A stripe that is added to any chain is added to the sum.                *)
LEMMA AddToSum ==
  ASSUME NEW acc, AreChains(acc), NEW c \in 0 .. 3, NEW load
  PROVE  /\ AreChains(AddTo(acc, c, load))
         /\ Sum(AddTo(acc, c, load)) = Sum(acc) (+) SetToBag({load})
  <1> DEFINE B == SetToBag({load})
             new == AddTo(acc, c, load)
  <1>1. IsABag(B)
    BY CountSet
  <1>2. \A d \in 0 .. 3 : IsABag(acc[d])
    BY DEF AreChains
  <1>3. DOMAIN new = 0 .. 3 /\ new[c] = acc[c] (+) B /\ \A d \in 0 .. 3 \ {c} : new[d] = acc[d]
    BY DEF AreChains, AddTo
  <1>4. /\ IsABag(acc[c] (+) B)
        /\ \A e : Count(e, acc[c] (+) B) = Count(e, acc[c]) + Count(e, B)
    BY <1>1, <1>2, CountSum
  <1>5. AreChains(new)
    BY <1>2, <1>3, <1>4 DEF AreChains
  <1>6. /\ IsABag(Sum(acc)) /\ IsABag(Sum(new))
        /\ \A e : Count(e, Sum(acc))
                    = Count(e, acc[0]) + Count(e, acc[1]) + Count(e, acc[2]) + Count(e, acc[3])
        /\ \A e : Count(e, Sum(new))
                    = Count(e, new[0]) + Count(e, new[1]) + Count(e, new[2]) + Count(e, new[3])
    BY <1>5, CountChains
  <1>7. /\ IsABag(Sum(acc) (+) B)
        /\ \A e : Count(e, Sum(acc) (+) B) = Count(e, Sum(acc)) + Count(e, B)
    BY <1>1, <1>6, CountSum
  <1>8. ASSUME NEW e PROVE Count(e, Sum(new)) = Count(e, Sum(acc) (+) B)
    <2>1. \A d \in 0 .. 3 : Count(e, acc[d]) \in Nat
      BY <1>2, CountType
    <2>2. Count(e, B) \in Nat
      BY <1>1, CountType
    <2>3. Count(e, new[c]) = Count(e, acc[c]) + Count(e, B)
      BY <1>3, <1>4
    <2>4. \A d \in 0 .. 3 \ {c} : Count(e, new[d]) = Count(e, acc[d])
      BY <1>3
    <2>5. c = 0 \/ c = 1 \/ c = 2 \/ c = 3
      OBVIOUS
    <2> HIDE DEF B, new
    <2> QED BY <1>6, <1>7, <2>1, <2>2, <2>3, <2>4, <2>5
  <1> HIDE DEF B, new
  <1>9. Sum(new) = Sum(acc) (+) B
    BY <1>6, <1>7, <1>8, SameCounts
  <1> QED BY <1>5, <1>9 DEF B, new

(* Four stripes, one to each chain, are added one after the other.         *)
LEMMA GroupAdded ==
  ASSUME NEW acc, AreChains(acc), NEW k, NEW base, NEW s \in Nat
  PROVE  AddGroup(acc, k, base, s) =
           AddTo(AddTo(AddTo(AddTo(acc, 0, Regular(k, base, s)), 1, Regular(k, base, s + 1)),
                       2, Regular(k, base, s + 2)), 3, Regular(k, base, s + 3))
  <1> DEFINE a1 == AddTo(acc, 0, Regular(k, base, s))
             a2 == AddTo(a1, 1, Regular(k, base, s + 1))
             a3 == AddTo(a2, 2, Regular(k, base, s + 2))
             a4 == AddTo(a3, 3, Regular(k, base, s + 3))
             L(c) == SetToBag({Regular(k, base, s + c)})
  <1>1. s + 0 = s
    OBVIOUS
  <1>2. a1 = [d \in 0 .. 3 |-> IF d = 0 THEN acc[d] (+) L(0) ELSE acc[d]]
    BY <1>1 DEF AreChains, AddTo
  <1>3. a2 = [d \in 0 .. 3 |-> IF d = 1 THEN a1[d] (+) L(1) ELSE a1[d]]
    BY <1>2 DEF AddTo
  <1>4. a3 = [d \in 0 .. 3 |-> IF d = 2 THEN a2[d] (+) L(2) ELSE a2[d]]
    BY <1>3 DEF AddTo
  <1>5. a4 = [d \in 0 .. 3 |-> IF d = 3 THEN a3[d] (+) L(3) ELSE a3[d]]
    BY <1>4 DEF AddTo
  <1>6. AddGroup(acc, k, base, s) = [c \in 0 .. 3 |-> acc[c] (+) L(c)]
    BY DEF AddGroup
  <1> HIDE DEF a1, a2, a3, a4, L
  <1>7. /\ a4[0] = acc[0] (+) L(0) /\ a4[1] = acc[1] (+) L(1)
        /\ a4[2] = acc[2] (+) L(2) /\ a4[3] = acc[3] (+) L(3)
    BY <1>2, <1>3, <1>4, <1>5
  <1>8. \A c \in 0 .. 3 : a4[c] = acc[c] (+) L(c)
    <2>1. \A c \in 0 .. 3 : c = 0 \/ c = 1 \/ c = 2 \/ c = 3
      OBVIOUS
    <2> QED BY <1>7, <2>1
  <1>9. a4 = [c \in 0 .. 3 |-> acc[c] (+) L(c)]
    BY <1>5, <1>8
  <1> QED BY <1>6, <1>9 DEF a1, a2, a3, a4

(* Nothing is accumulated yet.                                             *)
LEMMA NothingLoaded == AreChains(NoLoads) /\ Sum(NoLoads) = SetToBag({})
  <1>1. AreChains(NoLoads)
    BY CountSet DEF AreChains, NoLoads, EmptyBag
  <1>2. \A e : Count(e, SetToBag({})) = 0
    BY CountSet
  <1>3. \A c \in 0 .. 3 : NoLoads[c] = SetToBag({})
    BY DEF NoLoads, EmptyBag
  <1>4. IsABag(Sum(NoLoads)) /\ \A e : Count(e, Sum(NoLoads)) = 0
    BY <1>1, <1>2, <1>3, CountChains
  <1> QED BY <1>1, <1>2, <1>4, CountSet, SameCounts
----------------------------------------------------------------------------
(* The schedule.                                                           *)

(* The regular stripes of a long input are whole blocks and the tail, and  *)
(* end before its last byte.                                               *)
LEMMA Schedule ==
  ASSUME NEW L \in Nat, IsLong(L)
  PROVE  /\ RegularStripes(L) \in Nat /\ FullBlocks(L) \in Nat /\ TailStripes(L) \in 0 .. 15
         /\ RegularStripes(L) = FullBlocks(L) * 16 + TailStripes(L)
         /\ RegularStripes(L) % 16 = TailStripes(L)
         /\ RegularStripes(L) \div 16 = FullBlocks(L)
         /\ RegularStripes(L) * 64 <= L - 1
         /\ TailOffset(L) = FullBlocks(L) * 1024
         /\ L <= 1024 => FullBlocks(L) = 0
  <1>1. PICK n \in Nat : n = L - 1
    BY DEF IsLong
  <1>2. PICK f \in Nat : f = n \div 1024
    OBVIOUS
  <1>3. PICK q \in Nat : q = n \div 64
    OBVIOUS
  <1>4. n = 1024 * f + (n % 1024) /\ n % 1024 \in 0 .. 1023
    BY <1>2
  <1>5. n = 64 * q + (n % 64) /\ n % 64 \in 0 .. 63
    BY <1>3
  <1>6. PICK t \in Int : t = (n - f * 1024) \div 64
    BY <1>4
  <1>7. n - f * 1024 \in 0 .. 1023
    BY <1>4
  <1>8. t \in 0 .. 15 /\ n - f * 1024 - 64 * t \in 0 .. 63
    BY <1>6, <1>7
  <1>9. q = f * 16 + t
    BY <1>4, <1>5, <1>8
  <1>10. q % 16 = t /\ q \div 16 = f
    BY <1>8, <1>9
  <1>11. /\ RegularStripes(L) = q /\ FullBlocks(L) = f /\ TailStripes(L) = t
         /\ TailOffset(L) = f * 1024
    <2>1. (L - 1) \div 1024 = f /\ (L - 1) \div 64 = q
      BY <1>1, <1>2, <1>3
    <2>2. L - f * 1024 - 1 = n - f * 1024
      BY <1>1, <1>2
    <2> QED BY <1>6, <2>1, <2>2 DEF RegularStripes, FullBlocks, TailStripes, TailOffset
  <1>12. L <= 1024 => f = 0
    BY <1>1, <1>4
  <1>13. q * 64 <= L - 1
    BY <1>1, <1>5
  <1> QED BY <1>3, <1>8, <1>9, <1>10, <1>11, <1>12, <1>13

(* Inputs of equally many stripes have the same blocks and tails.          *)
LEMMA SameSchedule ==
  ASSUME NEW L \in Nat, NEW M \in Nat, IsLong(L), IsLong(M), RegularStripes(L) = RegularStripes(M)
  PROVE  FullBlocks(L) = FullBlocks(M) /\ TailStripes(L) = TailStripes(M)
  BY Schedule

(* The chains hold the first s stripes of block b of input m.              *)
Has(acc, m, b, s) == AreChains(acc) /\ Sum(acc) = SetToBag(Stripes(m, b * 16, b * 16 + s))

(* One stripe more.                                                        *)
LEMMA NextStripe ==
  ASSUME NEW m, NEW from \in Nat, NEW to \in Nat, from <= to,
         NEW load, load = Load(m, to * 64, (to % 16) * 8)
  PROVE  SetToBag(Stripes(m, from, to)) (+) SetToBag({load}) = SetToBag(Stripes(m, from, to + 1))
  <1>1. load \notin Stripes(m, from, to)
    <2>1. load.offset = to * 64
      BY DEF Load
    <2>2. ASSUME NEW s \in from .. to - 1
          PROVE  Load(m, s * 64, (s % 16) * 8).offset # to * 64
      BY <2>2 DEF Load
    <2> QED BY <2>1, <2>2 DEF Stripes
  <1>2. Stripes(m, from, to + 1) = Stripes(m, from, to) \cup {load}
    <2>1. from .. to + 1 - 1 = (from .. to - 1) \cup {to}
      OBVIOUS
    <2> QED BY <2>1 DEF Stripes
  <1> QED BY <1>1, <1>2, AddedToSet

(* A kernel that adds a stripe to any of its chains has one more.          *)
LEMMA StripeStep ==
  ASSUME NEW acc, NEW m, NEW b \in Nat, NEW s \in 0 .. 15, Has(acc, m, b, s), NEW c \in 0 .. 3
  PROVE  Has(AddTo(acc, c, Regular(m, b * 1024, s)), m, b, s + 1)
  <1> DEFINE load == Regular(m, b * 1024, s)
  <1>1. PICK from \in Nat : from = b * 16
    OBVIOUS
  <1>2. PICK to \in Nat : to = from + s
    BY <1>1
  <1>3. to % 16 = s
    BY <1>1, <1>2
  <1>4. b * 1024 + s * 64 = to * 64
    BY <1>1, <1>2
  <1>5. load = Load(m, to * 64, (to % 16) * 8)
    BY <1>3, <1>4 DEF Regular
  <1>6. SetToBag(Stripes(m, from, to)) (+) SetToBag({load}) = SetToBag(Stripes(m, from, to + 1))
    BY <1>2, <1>5, NextStripe
  <1>7. AreChains(acc) /\ Sum(acc) = SetToBag(Stripes(m, from, to))
    BY <1>1, <1>2 DEF Has
  <1>8. AreChains(AddTo(acc, c, load)) /\ Sum(AddTo(acc, c, load)) = Sum(acc) (+) SetToBag({load})
    BY <1>7, AddToSum
  <1>9. to + 1 = b * 16 + (s + 1)
    BY <1>1, <1>2
  <1> QED BY <1>1, <1>6, <1>7, <1>8, <1>9 DEF Has

(* Four chains have four more.                                             *)
LEMMA GroupStep ==
  ASSUME NEW acc, NEW m, NEW b \in Nat, NEW s \in 0 .. 12, Has(acc, m, b, s)
  PROVE  Has(AddGroup(acc, m, b * 1024, s), m, b, s + 4)
  <1> DEFINE a1 == AddTo(acc, 0, Regular(m, b * 1024, s))
             a2 == AddTo(a1, 1, Regular(m, b * 1024, s + 1))
             a3 == AddTo(a2, 2, Regular(m, b * 1024, s + 2))
             a4 == AddTo(a3, 3, Regular(m, b * 1024, s + 3))
  <1>1. AddGroup(acc, m, b * 1024, s) = a4
    BY GroupAdded DEF Has
  <1>2. Has(a1, m, b, s + 1)
    BY StripeStep
  <1>3. s + 1 + 1 = s + 2 /\ s + 2 + 1 = s + 3 /\ s + 3 + 1 = s + 4
    OBVIOUS
  <1> HIDE DEF a1
  <1>4. Has(a2, m, b, s + 2)
    <2>1. s + 1 \in 0 .. 15
      OBVIOUS
    <2>2. Has(a2, m, b, s + 1 + 1)
      BY <1>2, <2>1, StripeStep
    <2> QED BY <1>3, <2>2
  <1> HIDE DEF a2
  <1>5. Has(a3, m, b, s + 3)
    <2>1. s + 2 \in 0 .. 15
      OBVIOUS
    <2>2. Has(a3, m, b, s + 2 + 1)
      BY <1>4, <2>1, StripeStep
    <2> QED BY <1>3, <2>2
  <1> HIDE DEF a3
  <1>6. Has(a4, m, b, s + 4)
    <2>1. s + 3 \in 0 .. 15
      OBVIOUS
    <2>2. Has(a4, m, b, s + 3 + 1)
      BY <1>5, <2>1, StripeStep
    <2> QED BY <1>3, <2>2
  <1> QED BY <1>1, <1>6
----------------------------------------------------------------------------
(* The ends of the kernels.                                                *)

(* The chains hold what comes after the last whole block of input m.       *)
HasRest(acc, m) == AreChains(acc) /\ Sum(acc) = Rest(m)

(* The stripe that ends an input completes it after its regular stripes.   *)
LEMMA LastStep ==
  ASSUME NEW acc, NEW m, inputs[m] \in Nat, IsLong(inputs[m]),
         Has(acc, m, FullBlocks(inputs[m]), TailStripes(inputs[m])), NEW c \in 0 .. 3
  PROVE  HasRest(AddTo(acc, c, Last(m)), m)
  <1>1. PICK n \in Nat : n = RegularStripes(inputs[m])
    BY Schedule
  <1>2. PICK from \in Nat : from = FullBlocks(inputs[m]) * 16
    BY Schedule
  <1>3. n = from + TailStripes(inputs[m]) /\ n - (n % 16) = from
    <2>1. PICK t \in 0 .. 15 : t = TailStripes(inputs[m])
      BY Schedule
    <2>2. n = from + t /\ n % 16 = t
      BY <1>1, <1>2, <2>1, Schedule
    <2> QED BY <2>1, <2>2
  <1>4. AreChains(acc) /\ Sum(acc) = SetToBag(Stripes(m, from, n))
    BY <1>2, <1>3 DEF Has
  <1>5. /\ AreChains(AddTo(acc, c, Last(m)))
        /\ Sum(AddTo(acc, c, Last(m))) = Sum(acc) (+) SetToBag({Last(m)})
    BY <1>4, AddToSum
  <1>6. Last(m) \notin Stripes(m, from, n)
    <2>1. Last(m).secret = 121
      BY DEF Last, Load, LastSecret
    <2>2. ASSUME NEW s \in from .. n - 1
          PROVE  Load(m, s * 64, (s % 16) * 8).secret # 121
      <3>1. PICK r \in 0 .. 15 : r = s % 16
        OBVIOUS
      <3>2. r * 8 # 121
        OBVIOUS
      <3> QED BY <3>1, <3>2 DEF Load
    <2> QED BY <2>1, <2>2 DEF Stripes
  <1>7. Sum(acc) (+) SetToBag({Last(m)}) = SetToBag(Stripes(m, from, n) \cup {Last(m)})
    BY <1>4, <1>6, AddedToSet
  <1>8. Rest(m) = SetToBag(Stripes(m, from, n) \cup {Last(m)})
    BY <1>1, <1>3 DEF Rest, Last, LastOffset
  <1> QED BY <1>5, <1>7, <1>8 DEF HasRest

(* What TailRest adds when r stripes remain.                               *)
RestOf(acc, m, base, s, r) ==
  [c \in 0 .. 3 |->
     IF c = 3 THEN acc[c] (+) SetToBag({Last(m)})
     ELSE IF c < r THEN acc[c] (+) SetToBag({Regular(m, base, s + c)})
     ELSE acc[c]]

(* The remaining stripes and the last one are added one after the other.   *)
LEMMA RestAdded ==
  ASSUME NEW acc, AreChains(acc), NEW m, NEW base, NEW s \in Nat, NEW r \in 0 .. 3
  PROVE  LET a1 == IF r > 0 THEN AddTo(acc, 0, Regular(m, base, s)) ELSE acc
             a2 == IF r > 1 THEN AddTo(a1, 1, Regular(m, base, s + 1)) ELSE a1
             a3 == IF r > 2 THEN AddTo(a2, 2, Regular(m, base, s + 2)) ELSE a2
         IN  RestOf(acc, m, base, s, r) = AddTo(a3, 3, Last(m))
  <1> DEFINE a1 == IF r > 0 THEN AddTo(acc, 0, Regular(m, base, s)) ELSE acc
             a2 == IF r > 1 THEN AddTo(a1, 1, Regular(m, base, s + 1)) ELSE a1
             a3 == IF r > 2 THEN AddTo(a2, 2, Regular(m, base, s + 2)) ELSE a2
             a4 == AddTo(a3, 3, Last(m))
             L(c) == SetToBag({Regular(m, base, s + c)})
             End == SetToBag({Last(m)})
  <1>1. s + 0 = s
    OBVIOUS
  <1>2. DOMAIN a1 = 0 .. 3 /\ \A d \in 0 .. 3 : a1[d] = IF d = 0 /\ r > 0 THEN acc[d] (+) L(0) ELSE acc[d]
    BY <1>1 DEF AreChains, AddTo
  <1> HIDE DEF a1
  <1>3. DOMAIN a2 = 0 .. 3 /\ \A d \in 0 .. 3 : a2[d] = IF d = 1 /\ r > 1 THEN a1[d] (+) L(1) ELSE a1[d]
    BY <1>2 DEF AddTo
  <1> HIDE DEF a2
  <1>4. DOMAIN a3 = 0 .. 3 /\ \A d \in 0 .. 3 : a3[d] = IF d = 2 /\ r > 2 THEN a2[d] (+) L(2) ELSE a2[d]
    BY <1>3 DEF AddTo
  <1> HIDE DEF a3
  <1>5. a4 = [d \in 0 .. 3 |-> IF d = 3 THEN a3[d] (+) End ELSE a3[d]]
    BY <1>4 DEF AddTo
  <1>6. RestOf(acc, m, base, s, r) =
          [c \in 0 .. 3 |-> IF c = 3 THEN acc[c] (+) End ELSE IF c < r THEN acc[c] (+) L(c) ELSE acc[c]]
    BY DEF RestOf
  <1> HIDE DEF L, End, a4
  <1>7. /\ a4[0] = IF 0 < r THEN acc[0] (+) L(0) ELSE acc[0]
        /\ a4[1] = IF 1 < r THEN acc[1] (+) L(1) ELSE acc[1]
        /\ a4[2] = IF 2 < r THEN acc[2] (+) L(2) ELSE acc[2]
        /\ a4[3] = acc[3] (+) End
    BY <1>2, <1>3, <1>4, <1>5
  <1>8. \A c \in 0 .. 3 :
          a4[c] = IF c = 3 THEN acc[c] (+) End ELSE IF c < r THEN acc[c] (+) L(c) ELSE acc[c]
    <2>1. \A c \in 0 .. 3 : c = 0 \/ c = 1 \/ c = 2 \/ c = 3
      OBVIOUS
    <2> QED BY <1>7, <2>1
  <1>9. a4 = [c \in 0 .. 3 |-> IF c = 3 THEN acc[c] (+) End
                               ELSE IF c < r THEN acc[c] (+) L(c) ELSE acc[c]]
    BY <1>5, <1>8
  <1> QED BY <1>6, <1>9 DEF a1, a2, a3, a4

(* So the chains have all regular stripes before the last one is added.    *)
Completed(acc, m, b, s, r) ==
  \E full : Has(full, m, b, s + r) /\ RestOf(acc, m, b * 1024, s, r) = AddTo(full, 3, Last(m))

LEMMA RestStep ==
  ASSUME NEW acc, NEW m, NEW b \in Nat, NEW s \in 0 .. 15, NEW r \in 0 .. 3, s + r \in 0 .. 15,
         Has(acc, m, b, s)
  PROVE  Completed(acc, m, b, s, r)
  <1> DEFINE base == b * 1024
             a1 == IF r > 0 THEN AddTo(acc, 0, Regular(m, base, s)) ELSE acc
             a2 == IF r > 1 THEN AddTo(a1, 1, Regular(m, base, s + 1)) ELSE a1
             a3 == IF r > 2 THEN AddTo(a2, 2, Regular(m, base, s + 2)) ELSE a2
             Min2(n) == IF r < n THEN r ELSE n
  <1>1. RestOf(acc, m, base, s, r) = AddTo(a3, 3, Last(m))
    BY RestAdded DEF Has
  <1>2. s + r \in 0 .. 15
    OBVIOUS
  <1>3. Has(a1, m, b, s + Min2(1))
    <2>1. CASE r > 0
      <3>1. Has(AddTo(acc, 0, Regular(m, b * 1024, s)), m, b, s + 1)
        BY StripeStep
      <3>2. s + Min2(1) = s + 1
        BY <2>1
      <3> QED BY <2>1, <3>1, <3>2
    <2>2. CASE r = 0
      <3>1. s + Min2(1) = s
        BY <2>2
      <3> QED BY <2>2, <3>1
    <2> QED BY <2>1, <2>2
  <1> HIDE DEF a1
  <1>4. Has(a2, m, b, s + Min2(2))
    <2>1. CASE r > 1
      <3>1. s + 1 \in 0 .. 15 /\ s + 1 + 1 = s + Min2(2) /\ s + Min2(1) = s + 1
        BY <1>2, <2>1
      <3>2. Has(a1, m, b, s + 1)
        BY <1>3, <3>1
      <3>3. Has(AddTo(a1, 1, Regular(m, b * 1024, s + 1)), m, b, s + 1 + 1)
        BY <3>1, <3>2, StripeStep
      <3> QED BY <2>1, <3>1, <3>3
    <2>2. CASE r <= 1
      <3>1. s + Min2(2) = s + Min2(1)
        BY <2>2
      <3> QED BY <1>3, <2>2, <3>1
    <2> QED BY <2>1, <2>2
  <1> HIDE DEF a2
  <1>5. Has(a3, m, b, s + r)
    <2>1. CASE r = 3
      <3>1. s + 2 \in 0 .. 15 /\ s + 2 + 1 = s + r /\ s + Min2(2) = s + 2
        BY <1>2, <2>1
      <3>2. Has(a2, m, b, s + 2)
        BY <1>4, <3>1
      <3>3. Has(AddTo(a2, 2, Regular(m, b * 1024, s + 2)), m, b, s + 2 + 1)
        BY <3>1, <3>2, StripeStep
      <3> QED BY <2>1, <3>1, <3>3
    <2>2. CASE r <= 2
      <3>1. s + Min2(2) = s + r
        BY <2>2
      <3> QED BY <1>4, <2>2, <3>1
    <2> QED BY <2>1, <2>2
  <1> HIDE DEF a3
  <1> QED BY <1>1, <1>5 DEF Completed
----------------------------------------------------------------------------
(* The formulas of short inputs.                                           *)

(* From the ends inwards, in up to four rounds, added to a sum.            *)
LEMMA PairsOf64 ==
  ASSUME NEW n \in 17 .. 128
  PROVE  Xxh3_64Len17To128(n) = Reference64(n)
  <1> DEFINE Both(i) == {Mix16(16 * i, 32 * i), Mix16(n - 16 * (i + 1), 32 * i + 16)}
             All == UNION {Both(i) : i \in 0 .. Rounds(n) - 1}
  <1>1. /\ Both(0) = {Mix16(0, 0), Mix16(n - 16, 16)}
        /\ Both(1) = {Mix16(16, 32), Mix16(n - 32, 48)}
        /\ Both(2) = {Mix16(32, 64), Mix16(n - 48, 80)}
        /\ Both(3) = {Mix16(48, 96), Mix16(n - 64, 112)}
    OBVIOUS
  <1>2. Reference64(n) = [sum |-> All, tail |-> {}]
    BY DEF Reference64
  <1>3. Xxh3_64Len17To128(n) =
          [sum |-> Both(0) \cup (IF n > 32 THEN Both(1) ELSE {})
                     \cup (IF n > 64 THEN Both(2) ELSE {}) \cup (IF n > 96 THEN Both(3) ELSE {}),
           tail |-> {}]
    BY <1>1 DEF Xxh3_64Len17To128
  <1>4. PICK r \in 1 .. 4 : r = Rounds(n)
    BY DEF Rounds
  <1>5. (n > 32 <=> r > 1) /\ (n > 64 <=> r > 2) /\ (n > 96 <=> r > 3)
    BY <1>4 DEF Rounds
  <1>6. 0 .. r - 1 = {0} \cup (IF r > 1 THEN {1} ELSE {}) \cup (IF r > 2 THEN {2} ELSE {})
                       \cup (IF r > 3 THEN {3} ELSE {})
    OBVIOUS
  <1> HIDE DEF Both
  <1>7. All = Both(0) \cup (IF r > 1 THEN Both(1) ELSE {})
                     \cup (IF r > 2 THEN Both(2) ELSE {}) \cup (IF r > 3 THEN Both(3) ELSE {})
    BY <1>4, <1>6
  <1> QED BY <1>2, <1>3, <1>5, <1>7, ZenonT(60)

(* And the whole chunks after the first 128 bytes.                         *)
LEMMA ChunksOf64 ==
  ASSUME NEW n \in 129 .. 240
  PROVE  Xxh3_64Len129To240(n) = Reference64(n)
  <1>1. Chunks64(n) = {j \in 8 .. 15 : 16 * (j + 1) <= n}
    BY DEF Chunks64
  <1>2. \A i \in 8 .. 15 : Mix16(16 * i, 3 + 16 * (i - 8)) = Mix16(16 * i, 16 * (i - 8) + 3)
    OBVIOUS
  <1>3. {Mix16(16 * i, 3 + 16 * (i - 8)) : i \in Chunks64(n)}
          = {Mix16(16 * i, 16 * (i - 8) + 3) : i \in Chunks64(n)}
    BY <1>1, <1>2
  <1>4. Reference64(n) =
          [sum |-> {Mix16(16 * i, 16 * i) : i \in 0 .. 7},
           tail |-> {Mix16(16 * i, 16 * (i - 8) + 3) : i \in Chunks64(n)} \cup {Mix16(n - 16, 119)}]
    <2>1. 136 - 17 = 119 /\ ~(n <= 128)
      OBVIOUS
    <2> QED BY <1>1, <2>1 DEF Reference64
  <1> QED BY <1>3, <1>4 DEF Xxh3_64Len129To240

(* A last element after one.                                               *)
LEMMA Appended1 == ASSUME NEW w, NEW z PROVE Append(<<w>>, z) = <<w, z>>
  <1> DEFINE S == {w, z}
             q == Append(<<w>>, z)
  <1>1. <<w>> \in Seq(S) /\ Len(<<w>>) = 1 /\ z \in S
    OBVIOUS
  <1>2. q \in Seq(S) /\ Len(q) = 2 /\ (\A i \in 1 .. 1 : q[i] = <<w>>[i]) /\ q[2] = z
    BY <1>1, AppendProperties
  <1> HIDE DEF q, S
  <1>3. q = [i \in 1 .. 2 |-> q[i]]
    BY <1>2
  <1>4. q[1] = w /\ q[2] = z
    BY <1>2
  <1>5. q = <<w, z>>
    BY <1>3, <1>4
  <1> QED BY <1>5 DEF q

(* After two.                                                              *)
LEMMA Appended2 == ASSUME NEW w, NEW x, NEW z PROVE Append(<<w, x>>, z) = <<w, x, z>>
  <1> DEFINE S == {w, x, z}
             q == Append(<<w, x>>, z)
  <1>1. <<w, x>> \in Seq(S) /\ Len(<<w, x>>) = 2 /\ z \in S
    OBVIOUS
  <1>2. q \in Seq(S) /\ Len(q) = 3 /\ (\A i \in 1 .. 2 : q[i] = <<w, x>>[i]) /\ q[3] = z
    BY <1>1, AppendProperties
  <1> HIDE DEF q, S
  <1>3. q = [i \in 1 .. 3 |-> q[i]]
    BY <1>2
  <1>4. q[1] = w /\ q[2] = x /\ q[3] = z
    BY <1>2
  <1>5. q = <<w, x, z>>
    BY <1>3, <1>4
  <1> QED BY <1>5 DEF q

(* After three.                                                            *)
LEMMA Appended3 == ASSUME NEW w, NEW x, NEW y, NEW z PROVE Append(<<w, x, y>>, z) = <<w, x, y, z>>
  <1> DEFINE S == {w, x, y, z}
             q == Append(<<w, x, y>>, z)
  <1>1. <<w, x, y>> \in Seq(S) /\ Len(<<w, x, y>>) = 3 /\ z \in S
    OBVIOUS
  <1>2. q \in Seq(S) /\ Len(q) = 4 /\ (\A i \in 1 .. 3 : q[i] = <<w, x, y>>[i]) /\ q[4] = z
    BY <1>1, AppendProperties
  <1> HIDE DEF q, S
  <1>3. q = [i \in 1 .. 4 |-> q[i]]
    BY <1>2
  <1>4. q[1] = w /\ q[2] = x /\ q[3] = y /\ q[4] = z
    BY <1>2
  <1>5. q = <<w, x, y, z>>
    BY <1>3, <1>4
  <1> QED BY <1>5 DEF q

(* Up to three joined with a last one.                                     *)
LEMMA Joined ==
  ASSUME NEW a, NEW b, NEW c, NEW d
  PROVE  /\ <<>> \o <<>> \o <<>> \o <<a>> = <<a>>
         /\ <<>> \o <<>> \o <<b>> \o <<a>> = <<b, a>>
         /\ <<>> \o <<c>> \o <<b>> \o <<a>> = <<c, b, a>>
         /\ <<d>> \o <<c>> \o <<b>> \o <<a>> = <<d, c, b, a>>
  <1> DEFINE S == {a, b, c, d}
  <1>1. <<>> \in Seq(S) /\ <<a>> \in Seq(S) /\ <<b>> \in Seq(S) /\ <<c>> \in Seq(S) /\ <<d>> \in Seq(S)
    OBVIOUS
  <1>2. <<c, b>> \in Seq(S) /\ <<d, c>> \in Seq(S) /\ <<d, c, b>> \in Seq(S)
    OBVIOUS
  <1>3. a \in S /\ b \in S /\ c \in S /\ d \in S
    OBVIOUS
  <1> HIDE DEF S
  <1>4. \A s \in Seq(S) : <<>> \o s = s
    BY ConcatEmptySeq
  <1>5. \A s \in Seq(S) : \A x \in S : s \o <<x>> = Append(s, x)
    BY AppendIsConcat
  <1>6. <<>> \o <<>> = <<>> /\ <<>> \o <<a>> = <<a>> /\ <<>> \o <<b>> = <<b>> /\ <<>> \o <<c>> = <<c>>
    BY <1>1, <1>4
  <1>7. <<b>> \o <<a>> = Append(<<b>>, a) /\ <<c>> \o <<b>> = Append(<<c>>, b)
        /\ <<d>> \o <<c>> = Append(<<d>>, c)
    BY <1>1, <1>3, <1>5
  <1>8. <<c, b>> \o <<a>> = Append(<<c, b>>, a) /\ <<d, c>> \o <<b>> = Append(<<d, c>>, b)
        /\ <<d, c, b>> \o <<a>> = Append(<<d, c, b>>, a)
    BY <1>2, <1>3, <1>5
  <1>9. /\ Append(<<b>>, a) = <<b, a>> /\ Append(<<c>>, b) = <<c, b>> /\ Append(<<d>>, c) = <<d, c>>
        /\ Append(<<c, b>>, a) = <<c, b, a>> /\ Append(<<d, c>>, b) = <<d, c, b>>
        /\ Append(<<d, c, b>>, a) = <<d, c, b, a>>
    <2>1. Append(<<b>>, a) = <<b, a>>
      BY Appended1
    <2>2. Append(<<c>>, b) = <<c, b>>
      BY Appended1
    <2>3. Append(<<d>>, c) = <<d, c>>
      BY Appended1
    <2>4. Append(<<c, b>>, a) = <<c, b, a>>
      BY Appended2
    <2>5. Append(<<d, c>>, b) = <<d, c, b>>
      BY Appended2
    <2>6. Append(<<d, c, b>>, a) = <<d, c, b, a>>
      BY Appended3
    <2> QED BY <2>1, <2>2, <2>3, <2>4, <2>5, <2>6
  <1> QED BY <1>6, <1>7, <1>8, <1>9

(* From the ends inwards, the innermost round first.                       *)
LEMMA PairsOf128 ==
  ASSUME NEW n \in 17 .. 128
  PROVE  Short128(n) = Reference128(n)
  <1> DEFINE Round(i) == Mix32(16 * (i - 1), n - 16 * i, 32 * (i - 1))
             r == Rounds(n)
             Inwards == Ext!Reverse([i \in 1 .. r |-> Round(i)])
  <1>1. Reference128(n) = [accumulated |-> Inwards, tail |-> <<>>]
    <2>1. n <= 128
      OBVIOUS
    <2> QED BY <2>1, Zenon DEF Reference128
  <1>2. r \in 1 .. 4
    BY DEF Rounds
  <1>3. Inwards = [i \in 1 .. r |-> Round(r - i + 1)]
    <2>1. Len([i \in 1 .. r |-> Round(i)]) = r
      BY <1>2
    <2> QED BY <1>2, <2>1 DEF Ext!Reverse
  <1>4. /\ Round(1) = Mix32(0, n - 16, 0) /\ Round(2) = Mix32(16, n - 32, 32)
        /\ Round(3) = Mix32(32, n - 48, 64) /\ Round(4) = Mix32(48, n - 64, 96)
    OBVIOUS
  <1> HIDE DEF Round, r
  <1>5. /\ r = 1 => Inwards = <<Round(1)>>
        /\ r = 2 => Inwards = <<Round(2), Round(1)>>
        /\ r = 3 => Inwards = <<Round(3), Round(2), Round(1)>>
        /\ r = 4 => Inwards = <<Round(4), Round(3), Round(2), Round(1)>>
    <2>1. CASE r = 1
      BY <1>3, <2>1
    <2>2. CASE r = 2
      BY <1>3, <2>2
    <2>3. CASE r = 3
      BY <1>3, <2>3
    <2>4. CASE r = 4
      BY <1>3, <2>4
    <2> QED BY <1>2, <2>1, <2>2, <2>3, <2>4
  <1> HIDE DEF Inwards
  <1>6. Xxh3_128Len17To128(n) = [accumulated |-> Inwards, tail |-> <<>>]
    <2> DEFINE E(t, i) == IF t THEN <<Round(i)>> ELSE <<>>
               joined == E(n > 96, 4) \o E(n > 64, 3) \o E(n > 32, 2) \o <<Round(1)>>
    <2>1. Xxh3_128Len17To128(n) = [accumulated |-> joined, tail |-> <<>>]
      BY <1>4, SMTT(30) DEF Xxh3_128Len17To128
    <2>2. joined = Inwards
      <3>1. CASE n <= 32
        <4>1. r = 1
          BY <3>1 DEF Rounds, r
        <4>2. ~(n > 32) /\ ~(n > 64) /\ ~(n > 96)
          BY <3>1
        <4>3. joined = <<>> \o <<>> \o <<>> \o <<Round(1)>>
          BY <4>2
        <4> QED BY <1>5, <4>1, <4>3, Joined, ZenonT(60)
      <3>2. CASE n \in 33 .. 64
        <4>1. r = 2
          BY <3>2 DEF Rounds, r
        <4>2. joined = <<>> \o <<>> \o <<Round(2)>> \o <<Round(1)>>
          BY <3>2
        <4> QED BY <1>5, <4>1, <4>2, Joined, ZenonT(60)
      <3>3. CASE n \in 65 .. 96
        <4>1. r = 3
          BY <3>3 DEF Rounds, r
        <4>2. joined = <<>> \o <<Round(3)>> \o <<Round(2)>> \o <<Round(1)>>
          BY <3>3
        <4> QED BY <1>5, <4>1, <4>2, Joined, ZenonT(60)
      <3>4. CASE n \in 97 .. 128
        <4>1. r = 4
          BY <3>4 DEF Rounds, r
        <4>2. joined = <<Round(4)>> \o <<Round(3)>> \o <<Round(2)>> \o <<Round(1)>>
          BY <3>4
        <4> QED BY <1>5, <4>1, <4>2, Joined, ZenonT(60)
      <3> QED BY <3>1, <3>2, <3>3, <3>4
    <2> QED BY <2>1, <2>2
  <1>7. CASE n = 32
    <2>1. r = 1
      BY <1>7 DEF Rounds, r
    <2>2. Round(1) = Mix32(0, 16, 0)
      BY <1>4, <1>7
    <2>3. Inwards = <<Mix32(0, 16, 0)>>
      BY <1>5, <2>1, <2>2
    <2> QED BY <1>1, <1>7, <2>3 DEF Short128, Xxh3_128Len32
  <1>8. CASE n = 64
    <2>1. r = 2
      BY <1>8 DEF Rounds, r
    <2>2. Round(1) = Mix32(0, 48, 0) /\ Round(2) = Mix32(16, 32, 32)
      BY <1>4, <1>8
    <2>3. Inwards = <<Mix32(16, 32, 32), Mix32(0, 48, 0)>>
      BY <1>5, <2>1, <2>2
    <2> QED BY <1>1, <1>8, <2>3 DEF Short128, Xxh3_128Len64
  <1>9. CASE n = 128
    <2>1. r = 4
      BY <1>9 DEF Rounds, r
    <2>2. /\ Round(1) = Mix32(0, 112, 0) /\ Round(2) = Mix32(16, 96, 32)
          /\ Round(3) = Mix32(32, 80, 64) /\ Round(4) = Mix32(48, 64, 96)
      BY <1>4, <1>9
    <2>3. Inwards = <<Mix32(48, 64, 96), Mix32(32, 80, 64), Mix32(16, 96, 32), Mix32(0, 112, 0)>>
      BY <1>5, <2>1, <2>2
    <2> QED BY <1>1, <1>9, <2>3 DEF Short128, Xxh3_128Len128
  <1>10. CASE n \notin {32, 64, 128}
    BY <1>1, <1>6, <1>10 DEF Short128
  <1> QED BY <1>7, <1>8, <1>9, <1>10

(* And the whole chunks after the first 128 bytes.                         *)
LEMMA ChunksOf128 ==
  ASSUME NEW n \in 129 .. 240
  PROVE  Xxh3_128Len129To240(n) = Reference128(n)
  <1> DEFINE Chunk(i) == Mix32(32 * (i - 1), 32 * (i - 1) + 16,
                               IF i <= 4 THEN 32 * (i - 1) ELSE 32 * (i - 5) + 3)
             q == n \div 32
             chunks == [i \in 1 .. q |-> Chunk(i)]
             end == <<Negated(Mix32(n - 16, n - 32, 103))>>
  <1>1. Reference128(n) = [accumulated |-> SubSeq(chunks, 1, 4),
                           tail |-> SubSeq(chunks, 5, Len(chunks)) \o end]
    <2>1. 136 - 17 - 16 = 103 /\ ~(n <= 128)
      OBVIOUS
    <2> QED BY <2>1 DEF Reference128
  <1>2. q \in 4 .. 7
    OBVIOUS
  <1>3. Len(chunks) = q
    BY <1>2
  <1>4. \A i \in 1 .. 4 : Chunk(i) = Mix32(32 * (i - 1), 32 * (i - 1) + 16, 32 * (i - 1))
    OBVIOUS
  <1>5. \A i \in 1 .. q - 4 : Chunk(i + 4) = Mix32(32 * (i + 3), 32 * (i + 3) + 16, 3 + 32 * (i - 1))
    BY <1>2
  <1> HIDE DEF Chunk, end, q
  <1>6. SubSeq(chunks, 1, 4) = [i \in 1 .. 4 |-> Chunk(i)]
    BY <1>2
  <1>7. SubSeq(chunks, 5, q) = [i \in 1 .. q - 4 |-> Chunk(i + 4)]
    BY <1>2
  <1>8. Xxh3_128Len129To240(n) =
          [accumulated |-> [i \in 1 .. 4 |-> Mix32(32 * (i - 1), 32 * (i - 1) + 16, 32 * (i - 1))],
           tail |-> [i \in 1 .. q - 4 |-> Mix32(32 * (i + 3), 32 * (i + 3) + 16, 3 + 32 * (i - 1))]
                       \o end]
    BY DEF Xxh3_128Len129To240, end, q
  <1> QED BY <1>1, <1>3, <1>4, <1>5, <1>6, <1>7, <1>8

(* The code's formula of every short length is that of the specification.  *)
LEMMA ShortIsReference ==
  ASSUME NEW width \in {64, 128}, NEW n \in 0 .. 240
  PROVE  Short(width, n) = ShortReference(width, n)
  <1>1. CASE n <= 16
    BY <1>1 DEF Short, Short64, Short128, ShortReference
  <1>2. CASE n \in 17 .. 128
    <2>1. Short64(n) = Reference64(n)
      BY <1>2, PairsOf64 DEF Short64
    <2>2. Short128(n) = Reference128(n)
      BY <1>2, PairsOf128
    <2> QED BY <1>2, <2>1, <2>2 DEF Short, ShortReference
  <1>3. CASE n \in 129 .. 240
    <2>1. Short64(n) = Reference64(n)
      BY <1>3, ChunksOf64 DEF Short64
    <2>2. Short128(n) = Reference128(n)
      BY <1>3, ChunksOf128 DEF Short128
    <2> QED BY <1>3, <2>1, <2>2 DEF Short, ShortReference
  <1> QED BY <1>1, <1>2, <1>3
----------------------------------------------------------------------------
(* The choice of the kernel and of the group.                              *)

(* What every state knows of its call.                                     *)
LEMMA CallType ==
  ASSUME IsCall(call)
  PROVE  /\ inputs \in Seq(Nat) /\ Len(inputs) \in Nat /\ Inputs = 1 .. Len(inputs)
         /\ \A k \in Inputs : inputs[k] \in Nat
         /\ call.width \in {64, 128} /\ call.seed \in Nat
  BY DEF IsCall, inputs, Inputs

(* The first backend in the order of preference that the CPU supports is   *)
(* one that it supports.                                                   *)
LEMMA SelectedFits ==
  ASSUME IsMachine(machine)
  PROVE  /\ Selected \in {"scalar", "ssse3", "avx2", "avx512", "neon"}
         /\ Needs[Selected] \subseteq machine.features
  <1>1. CASE machine.arch = "x86"
    <2> DEFINE Fits(i) == Supported(Preference[i]) /\ \A j \in 1 .. i - 1 : ~Supported(Preference[j])
    <2>1. DOMAIN Preference = 1 .. 4 /\ Supported(Preference[4])
      BY DEF Preference, Supported
    <2>2. \E i \in 1 .. 4 : Fits(i)
      <3>1. CASE Supported(Preference[1])
        <4>1. Fits(1)
          BY <3>1
        <4> QED BY <4>1
      <3>2. CASE ~Supported(Preference[1]) /\ Supported(Preference[2])
        <4>1. Fits(2)
          BY <3>2
        <4> QED BY <4>1
      <3>3. CASE ~Supported(Preference[1]) /\ ~Supported(Preference[2]) /\ Supported(Preference[3])
        <4>1. Fits(3)
          BY <3>3
        <4> QED BY <4>1
      <3>4. CASE ~Supported(Preference[1]) /\ ~Supported(Preference[2]) /\ ~Supported(Preference[3])
        <4>1. Fits(4)
          BY <2>1, <3>4
        <4> QED BY <4>1
      <3> QED BY <3>1, <3>2, <3>3, <3>4
    <2>3. PICK i \in 1 .. 4 : i = CHOOSE j \in 1 .. 4 : Fits(j)
      BY <2>2
    <2>4. Supported(Preference[i])
      BY <2>2, <2>3
    <2>5. Selected = Preference[i]
      BY <1>1, <2>1, <2>3 DEF Selected
    <2>6. Preference[i] \in {"scalar", "ssse3", "avx2", "avx512"}
      BY DEF Preference
    <2> QED BY <2>4, <2>5, <2>6 DEF Supported, Needs
  <1>2. CASE machine.arch # "x86"
    BY <1>2 DEF Selected, Needs
  <1> QED BY <1>1, <1>2

(* The group that starts at a long input is of its neighbours, with as     *)
(* many stripes each.                                                      *)
LEMMA RunJoins ==
  ASSUME IsCall(call), NEW i \in Inputs, IsLong(inputs[i])
  PROVE  /\ RunLength(i) \in 1 .. 4 /\ i + RunLength(i) - 1 \in Inputs
         /\ \A k \in i .. i + RunLength(i) - 1 : Joins(k, i)
  <1> DEFINE J(d) == i + d \in Inputs /\ Joins(i + d, i)
             Run(n) == /\ i + n - 1 \in Inputs /\ \A k \in i .. i + n - 1 : Joins(k, i)
                       /\ n < 4 /\ i + n \in Inputs => ~Joins(i + n, i)
  <1>1. i \in Nat /\ Inputs = 1 .. Len(inputs) /\ Len(inputs) \in Nat
    BY CallType
  <1>2. Joins(i, i)
    BY DEF Joins
  <1>3. \A d \in 1 .. 3 : J(d) => i + d \in Inputs /\ Joins(i + d, i)
    OBVIOUS
  <1>4. \E n \in 1 .. 4 : Run(n)
    <2>1. CASE ~J(1)
      <3>1. i .. i + 1 - 1 = {i} /\ i + 1 - 1 = i
        BY <1>1
      <3>2. Run(1)
        BY <1>2, <2>1, <3>1
      <3> QED BY <3>2
    <2>2. CASE J(1) /\ ~J(2)
      <3>1. i .. i + 2 - 1 = {i, i + 1} /\ i + 2 - 1 = i + 1
        BY <1>1
      <3>2. Run(2)
        BY <1>2, <2>2, <3>1
      <3> QED BY <3>2
    <2>3. CASE J(1) /\ J(2) /\ ~J(3)
      <3>1. i .. i + 3 - 1 = {i, i + 1, i + 2} /\ i + 3 - 1 = i + 2
        BY <1>1
      <3>2. Run(3)
        BY <1>2, <2>3, <3>1
      <3> QED BY <3>2
    <2>4. CASE J(1) /\ J(2) /\ J(3)
      <3>1. i .. i + 4 - 1 = {i, i + 1, i + 2, i + 3} /\ i + 4 - 1 = i + 3
        BY <1>1
      <3>2. Run(4)
        BY <1>2, <2>4, <3>1
      <3> QED BY <3>2
    <2> QED BY <2>1, <2>2, <2>3, <2>4
  <1>5. RunLength(i) = CHOOSE n \in 1 .. 4 : Run(n)
    BY DEF RunLength
  <1> HIDE DEF Run
  <1>6. RunLength(i) \in 1 .. 4 /\ Run(RunLength(i))
    BY <1>4, <1>5
  <1> QED BY <1>6 DEF Run

(* The kernel of a group is one the CPU has, for that many inputs.         *)
LEMMA KernelFits ==
  ASSUME IsMachine(machine), NEW i, NEW n \in 1 .. 4, n > 1 => HasBatchKernel
  PROVE  /\ KernelOf(i, n) \in DOMAIN Needs
         /\ Needs[KernelOf(i, n)] \subseteq machine.features
         /\ n > 1 <=> KernelOf(i, n) = "batch"
         /\ KernelOf(i, n) = "medium" => TriesMedium /\ inputs[i] <= 1024
  <1>1. DOMAIN Needs = {"scalar", "ssse3", "avx2", "avx512", "neon", "batch", "medium"}
    BY DEF Needs
  <1>2. Needs["batch"] = {"avx2"} /\ Needs["medium"] = {"avx2"} /\ Needs["avx2"] = {"avx2"}
    BY DEF Needs
  <1>3. CASE n > 1
    BY <1>1, <1>2, <1>3 DEF KernelOf, HasBatchKernel
  <1>4. CASE n = 1 /\ TriesMedium /\ Selected = "avx2" /\ inputs[i] <= 1024
    <2>1. KernelOf(i, n) = "medium"
      BY <1>4 DEF KernelOf
    <2> QED BY <1>1, <1>2, <1>4, <2>1, SelectedFits
  <1>5. CASE n = 1 /\ ~(TriesMedium /\ Selected = "avx2" /\ inputs[i] <= 1024)
    <2>1. KernelOf(i, n) = Selected
      BY <1>5 DEF KernelOf
    <2> QED BY <1>1, <1>5, <2>1, SelectedFits
  <1> QED BY <1>3, <1>4, <1>5
----------------------------------------------------------------------------
(* The steps of the kernels.                                               *)

(* What IInv knows of the inputs of a group.                               *)
LEMMA GroupFacts ==
  ASSUME IInv, InKernel
  PROVE  /\ index = first /\ size \in 1 .. 4 /\ first \in Inputs /\ first \in Members
         /\ block \in Nat /\ stripe \in 0 .. 16
         /\ Length \in Nat /\ IsLong(Length)
         /\ FullBlocks(Length) \in Nat /\ TailStripes(Length) \in 0 .. 15
         /\ RegularStripes(Length) = FullBlocks(Length) * 16 + TailStripes(Length)
         /\ TailOffset(Length) = FullBlocks(Length) * 1024
         /\ Length <= 1024 => FullBlocks(Length) = 0
         /\ \A m \in Members :
              /\ m \in Inputs /\ inputs[m] \in Nat /\ IsLong(inputs[m])
              /\ FullBlocks(inputs[m]) = FullBlocks(Length)
              /\ TailStripes(inputs[m]) = TailStripes(Length)
              /\ RegularStripes(inputs[m]) = RegularStripes(Length)
  <1>1. /\ Inputs = 1 .. Len(inputs) /\ Len(inputs) \in Nat
        /\ \A k \in Inputs : inputs[k] \in Nat
    BY CallType DEF IInv
  <1>2. /\ index = first /\ size \in 1 .. 4 /\ Members \subseteq Inputs
        /\ block \in Nat /\ stripe \in 0 .. 16 /\ index \in 1 .. Len(inputs) + 1
    BY DEF IInv, GroupInv
  <1>3. \A m \in Members : IsLong(inputs[m]) /\ RegularStripes(inputs[m]) = RegularStripes(Length)
    BY DEF IInv, GroupInv
  <1>4. first \in Members
    BY <1>1, <1>2 DEF Members
  <1>5. first \in Inputs /\ Length \in Nat /\ IsLong(Length)
    BY <1>1, <1>2, <1>3, <1>4 DEF Length
  <1>6. ASSUME NEW m \in Members
        PROVE  /\ FullBlocks(inputs[m]) = FullBlocks(Length)
               /\ TailStripes(inputs[m]) = TailStripes(Length)
    BY <1>1, <1>2, <1>3, <1>5, <1>6, SameSchedule
  <1> QED BY <1>1, <1>2, <1>3, <1>4, <1>5, <1>6, Schedule

(* Inside the loops every input of the group has come to the same stripe.  *)
LEMMA GroupHas ==
  ASSUME IInv, pc \in {"blocks", "tail", "medium"}, NEW m \in Members
  PROVE  Has(chains[m], m, block, stripe)
  <1>1. AreChains(chains[m]) /\ Sum(chains[m]) = Accumulated(m)
    BY DEF IInv, InKernel, AccumulatedInv
  <1>2. Accumulated(m) = SetToBag(Stripes(m, block * 16, block * 16 + stripe))
    BY DEF Accumulated
  <1> QED BY <1>1, <1>2 DEF Has

(* What depends on the call stays.                                         *)
LEMMA CallStays ==
  ASSUME call' = call
  PROVE  \A k : /\ Reference(k)' = Reference(k) /\ Rest(k)' = Rest(k)
                /\ inputs[k]' = inputs[k]
  BY DEF Reference, Rest, inputs

(* A step inside a kernel keeps the group and gives no digest.             *)
Inside == UNCHANGED <<machine, call, index, digests, kernel, first, size>>

LEMMA InsideKeeps ==
  ASSUME IInv, InKernel, Inside, InKernel', block' \in Nat, stripe' \in 0 .. 16,
         LoopInv', AccumulatedInv'
  PROVE  IInv'
  <1>1. machine' = machine /\ call' = call /\ index' = index /\ digests' = digests
        /\ kernel' = kernel /\ first' = first /\ size' = size
    BY DEF Inside
  <1>2. IsMachine(machine)' /\ IsCall(call)'
    BY <1>1 DEF IInv
  <1>3. pc' \in {"next", "blocks", "tail", "medium", "emit", "done"} /\ pc' # "done"
    BY DEF InKernel
  <1>4. inputs' = inputs /\ Inputs' = Inputs /\ Members' = Members /\ Length' = Length /\ Secret' = Secret
    BY <1>1 DEF inputs, Inputs, Members, Length, Secret
  <1>5. index' \in 1 .. Len(inputs') + 1
    BY <1>1, <1>4 DEF IInv
  <1>6. digests' = [k \in 1 .. index' - 1 |-> Reference(k)']
    <2>1. digests = [k \in 1 .. index - 1 |-> Reference(k)]
      BY DEF IInv
    <2> QED BY <1>1, <2>1, CallStays
  <1>7. kernel' \in DOMAIN Needs \cup {"none"} /\ kernel' # "none"
    BY <1>1 DEF IInv
  <1>8. GroupInv'
    <2>1. GroupInv
      BY DEF IInv
    <2> QED BY <1>1, <1>4, <2>1 DEF GroupInv
  <1> QED BY <1>2, <1>3, <1>5, <1>6, <1>7, <1>8 DEF IInv

(* A step of a loop that leaves every input at the same stripe.            *)
LEMMA LoopStep ==
  ASSUME IInv, InKernel, Inside, pc' \in {"blocks", "tail", "medium"},
         block' \in Nat, stripe' \in 0 .. 16, LoopInv',
         words' = [m \in Members |-> BlocksOf(m, block')],
         DOMAIN chains' = Members,
         \A m \in Members : Has(chains'[m], m, block', stripe')
  PROVE  IInv'
  <1>1. Members' = Members
    BY DEF Inside, Members
  <1>2. InKernel'
    BY DEF InKernel
  <1>3. \A m : Accumulated(m)' = SetToBag(Stripes(m, block' * 16, block' * 16 + stripe'))
    BY DEF Accumulated
  <1>4. AccumulatedInv'
    BY <1>1, <1>3 DEF AccumulatedInv, Has
  <1> QED BY <1>2, <1>4, InsideKeeps

(* A step that completes every input.                                      *)
LEMMA EndStep ==
  ASSUME IInv, InKernel, Inside, pc' = "emit", UNCHANGED <<block, stripe, words>>,
         block = FullBlocks(Length), DOMAIN chains' = Members,
         \A m \in Members : HasRest(chains'[m], m)
  PROVE  IInv'
  <1>1. Members' = Members /\ Length' = Length /\ block' = block /\ stripe' = stripe /\ words' = words
        /\ call' = call
    BY DEF Inside, Members, Length, inputs
  <1>2. InKernel'
    BY DEF InKernel
  <1>3. \A m : Accumulated(m)' = Rest(m)
    BY <1>1, CallStays DEF Accumulated
  <1>4. words = [m \in Members |-> BlocksOf(m, block)]
    BY DEF IInv, AccumulatedInv
  <1>5. AccumulatedInv'
    BY <1>1, <1>3, <1>4 DEF AccumulatedInv, HasRest
  <1>6. LoopInv'
    BY <1>1 DEF LoopInv
  <1>7. block' \in Nat /\ stripe' \in 0 .. 16
    BY <1>1 DEF IInv
  <1> QED BY <1>2, <1>5, <1>6, <1>7, InsideKeeps

(* One stripe of a block to the only chain.                                *)
LEMMA BlockStripeKeeps == ASSUME IInv, BlockStripe PROVE IInv'
  <1>1. InKernel /\ pc = "blocks" /\ block < FullBlocks(Length) /\ stripe < 16
    BY DEF BlockStripe, InBlocks, InKernel
  <1>2. block \in Nat /\ stripe \in 0 .. 15
    BY <1>1, GroupFacts
  <1>3. Inside /\ pc' = "blocks" /\ block' = block /\ stripe' = stripe + 1 /\ words' = words
    BY <1>1 DEF BlockStripe, Inside
  <1>4. \A m \in Members : Has(chains'[m], m, block', stripe')
    <2>1. SUFFICES ASSUME NEW m \in Members PROVE Has(chains'[m], m, block', stripe')
      OBVIOUS
    <2>2. chains'[m] = AddTo(chains[m], 0, Regular(m, block * 1024, stripe))
      BY DEF BlockStripe
    <2> QED BY <1>1, <1>2, <1>3, <2>2, GroupHas, StripeStep
  <1>5. DOMAIN chains' = Members
    BY DEF BlockStripe
  <1>6. words' = [m \in Members |-> BlocksOf(m, block')]
    BY <1>1, <1>3 DEF IInv, AccumulatedInv
  <1>7. LoopInv'
    <2>1. Length' = Length /\ kernel' = kernel
      BY <1>3 DEF Inside, Length, inputs
    <2>2. LoopInv
      BY <1>1 DEF IInv
    <2>3. ~FourChains
      BY DEF BlockStripe, OneChain
    <2>4. block # FullBlocks(Length) /\ block <= FullBlocks(Length)
      BY <1>1, GroupFacts
    <2> QED BY <1>1, <1>3, <2>1, <2>2, <2>3, <2>4 DEF LoopInv, FourChains
  <1> QED BY <1>1, <1>2, <1>3, <1>4, <1>5, <1>6, <1>7, LoopStep

(* Four stripes of a block, one to each chain.                             *)
LEMMA BlockGroupKeeps == ASSUME IInv, BlockGroup PROVE IInv'
  <1>1. InKernel /\ pc = "blocks" /\ block < FullBlocks(Length) /\ stripe < 16 /\ FourChains
    BY DEF BlockGroup, InBlocks, InKernel
  <1>2. LoopInv
    BY <1>1 DEF IInv
  <1>3. block \in Nat /\ stripe \in 0 .. 16 /\ stripe % 4 = 0
    BY <1>1, <1>2, GroupFacts DEF LoopInv
  <1>4. stripe \in 0 .. 12 /\ (stripe + 4) % 4 = 0
    BY <1>1, <1>3
  <1>5. Inside /\ pc' = "blocks" /\ block' = block /\ stripe' = stripe + 4 /\ words' = words
    BY <1>1 DEF BlockGroup, Inside
  <1>6. \A m \in Members : Has(chains'[m], m, block', stripe')
    <2>1. SUFFICES ASSUME NEW m \in Members PROVE Has(chains'[m], m, block', stripe')
      OBVIOUS
    <2>2. chains'[m] = AddGroup(chains[m], m, block * 1024, stripe)
      BY DEF BlockGroup
    <2> QED BY <1>1, <1>3, <1>4, <1>5, <2>2, GroupHas, GroupStep
  <1>7. DOMAIN chains' = Members
    BY DEF BlockGroup
  <1>8. words' = [m \in Members |-> BlocksOf(m, block')]
    BY <1>1, <1>5 DEF IInv, AccumulatedInv
  <1>9. LoopInv'
    <2>1. Length' = Length /\ kernel' = kernel
      BY <1>5 DEF Inside, Length, inputs
    <2>2. block # FullBlocks(Length) /\ block <= FullBlocks(Length)
      BY <1>1, GroupFacts
    <2> QED BY <1>1, <1>2, <1>4, <1>5, <2>1, <2>2 DEF LoopInv, FourChains
  <1>10. block' \in Nat /\ stripe' \in 0 .. 16
    BY <1>3, <1>4, <1>5
  <1> QED BY <1>1, <1>5, <1>6, <1>7, <1>8, <1>9, <1>10, LoopStep

(* A block is complete after its last stripe.                              *)
LEMMA AppendBlock ==
  ASSUME NEW m, NEW n \in Nat
  PROVE  Append(BlocksOf(m, n), Block(m, n)) = BlocksOf(m, n + 1)
  <1> DEFINE S == {Block(m, b - 1) : b \in 1 .. n + 1}
             s == BlocksOf(m, n)
             x == Block(m, n)
             q == Append(s, x)
  <1>1. s = [b \in 1 .. n |-> Block(m, b - 1)] /\ BlocksOf(m, n + 1) = [b \in 1 .. n + 1 |-> Block(m, b - 1)]
    BY DEF BlocksOf
  <1>2. x \in S /\ Block(m, n + 1 - 1) = x
    <2>1. n + 1 - 1 = n /\ n + 1 \in 1 .. n + 1
      OBVIOUS
    <2> QED BY <2>1
  <1>3. s \in Seq(S) /\ Len(s) = n
    <2>1. \A b \in 1 .. n : Block(m, b - 1) \in S
      OBVIOUS
    <2> HIDE DEF S
    <2> QED BY <1>1, <2>1
  <1> HIDE DEF s, x
  <1>4. /\ q \in Seq(S) /\ Len(q) = n + 1 /\ (\A i \in 1 .. n : q[i] = s[i]) /\ q[n + 1] = x
    BY <1>2, <1>3, AppendProperties
  <1> HIDE DEF q
  <1>5. q = [i \in 1 .. n + 1 |-> q[i]]
    BY <1>4
  <1>6. \A i \in 1 .. n + 1 : q[i] = Block(m, i - 1)
    <2>1. ASSUME NEW i \in 1 .. n PROVE q[i] = Block(m, i - 1)
      BY <1>1, <1>4
    <2>2. ASSUME NEW i \in 1 .. n + 1, i = n + 1 PROVE q[i] = Block(m, i - 1)
      <3>1. i - 1 = n + 1 - 1
        BY <2>2
      <3>2. Block(m, i - 1) = x
        BY <1>2, <3>1
      <3> QED BY <1>4, <2>2, <3>2
    <2>3. \A i \in 1 .. n + 1 : i \in 1 .. n \/ i = n + 1
      OBVIOUS
    <2> QED BY <2>1, <2>2, <2>3
  <1>7. q = BlocksOf(m, n + 1)
    BY <1>1, <1>5, <1>6
  <1> QED BY <1>7 DEF q, s, x

(* A scramble turns a whole block into a word.                             *)
LEMMA ScrambleKeeps == ASSUME IInv, Scramble PROVE IInv'
  <1>1. InKernel /\ pc = "blocks" /\ block < FullBlocks(Length) /\ stripe = 16
    BY DEF Scramble, InBlocks, InKernel
  <1>2. LoopInv
    BY <1>1 DEF IInv
  <1>3. block \in Nat /\ FullBlocks(Length) \in Nat
    BY <1>1, GroupFacts
  <1>4. Inside /\ pc' = "blocks" /\ block' = block + 1 /\ stripe' = 0
    BY <1>1 DEF Scramble, Inside
  <1>5. \A m \in Members : Has(chains'[m], m, block', stripe')
    <2>1. SUFFICES ASSUME NEW m \in Members PROVE Has(chains'[m], m, block', stripe')
      OBVIOUS
    <2>2. chains'[m] = NoLoads
      BY DEF Scramble
    <2>3. PICK b \in Nat : b = block'
      BY <1>3, <1>4
    <2>4. Stripes(m, b * 16, b * 16 + 0) = {}
      BY DEF Stripes
    <2> QED BY <1>4, <2>2, <2>3, <2>4, NothingLoaded DEF Has
  <1>6. DOMAIN chains' = Members
    BY DEF Scramble
  <1>7. words' = [m \in Members |-> BlocksOf(m, block')]
    <2>1. words' = [m \in Members |-> Append(words[m], Sum(chains[m]))]
      BY DEF Scramble
    <2>2. ASSUME NEW m \in Members PROVE Append(words[m], Sum(chains[m])) = BlocksOf(m, block')
      <3>1. words[m] = BlocksOf(m, block)
        BY <1>1 DEF IInv, AccumulatedInv
      <3>2. Sum(chains[m]) = SetToBag(Stripes(m, block * 16, block * 16 + 16))
        BY <1>1, GroupHas DEF Has
      <3>3. Sum(chains[m]) = Block(m, block)
        BY <3>2 DEF Block
      <3> QED BY <1>3, <1>4, <3>1, <3>3, AppendBlock
    <2> QED BY <2>1, <2>2
  <1>8. LoopInv'
    <2>1. Length' = Length /\ kernel' = kernel
      BY <1>4 DEF Inside, Length, inputs
    <2>2. block' <= FullBlocks(Length)
      BY <1>1, <1>3, <1>4
    <2> QED BY <1>1, <1>2, <1>4, <2>1, <2>2 DEF LoopInv, FourChains
  <1>9. block' \in Nat /\ stripe' \in 0 .. 16
    BY <1>3, <1>4
  <1> QED BY <1>1, <1>4, <1>5, <1>6, <1>7, <1>8, <1>9, LoopStep

(* After the whole blocks comes the tail.                                  *)
LEMMA EndBlocksKeeps == ASSUME IInv, EndBlocks PROVE IInv'
  <1>1. InKernel /\ pc = "blocks" /\ block = FullBlocks(Length)
    BY DEF EndBlocks, InKernel
  <1>2. LoopInv
    BY <1>1 DEF IInv
  <1>3. /\ block \in Nat /\ stripe \in 0 .. 16 /\ stripe = 0 /\ kernel # "medium"
        /\ TailStripes(Length) \in 0 .. 15
    BY <1>1, <1>2, GroupFacts DEF LoopInv
  <1>4. Inside /\ pc' = "tail" /\ block' = block /\ stripe' = stripe /\ words' = words /\ chains' = chains
    BY DEF EndBlocks, Goto, Inside, loop
  <1>5. \A m \in Members : Has(chains'[m], m, block', stripe')
    BY <1>1, <1>4, GroupHas
  <1>6. DOMAIN chains' = Members /\ words' = [m \in Members |-> BlocksOf(m, block')]
    BY <1>1, <1>4 DEF IInv, AccumulatedInv
  <1>7. LoopInv'
    <2>1. Length' = Length /\ kernel' = kernel
      BY <1>4 DEF Inside, Length, inputs
    <2> QED BY <1>1, <1>3, <1>4, <2>1 DEF LoopInv
  <1> QED BY <1>1, <1>3, <1>4, <1>5, <1>6, <1>7, LoopStep

(* One stripe of the tail to the only chain.                               *)
LEMMA TailStripeKeeps == ASSUME IInv, TailStripe PROVE IInv'
  <1>1. InKernel /\ pc = "tail" /\ stripe < TailStripes(Length)
    BY DEF TailStripe, InTail, InKernel
  <1>2. LoopInv
    BY <1>1 DEF IInv
  <1>3. /\ block \in Nat /\ stripe \in 0 .. 15 /\ block = FullBlocks(Length) /\ kernel # "medium"
        /\ TailStripes(Length) \in 0 .. 15 /\ TailOffset(Length) = block * 1024
    BY <1>1, <1>2, GroupFacts DEF LoopInv
  <1>4. Inside /\ pc' = "tail" /\ block' = block /\ stripe' = stripe + 1 /\ words' = words
    BY <1>1 DEF TailStripe, Inside
  <1>5. \A m \in Members : Has(chains'[m], m, block', stripe')
    <2>1. SUFFICES ASSUME NEW m \in Members PROVE Has(chains'[m], m, block', stripe')
      OBVIOUS
    <2>2. chains'[m] = AddTo(chains[m], 0, Regular(m, block * 1024, stripe))
      BY <1>3 DEF TailStripe
    <2> QED BY <1>1, <1>3, <1>4, <2>2, GroupHas, StripeStep
  <1>6. DOMAIN chains' = Members
    BY DEF TailStripe
  <1>7. words' = [m \in Members |-> BlocksOf(m, block')]
    BY <1>1, <1>4 DEF IInv, AccumulatedInv
  <1>8. LoopInv'
    <2>1. Length' = Length /\ kernel' = kernel
      BY <1>4 DEF Inside, Length, inputs
    <2>2. stripe' <= TailStripes(Length)
      BY <1>1, <1>3, <1>4
    <2> QED BY <1>3, <1>4, <2>1, <2>2 DEF LoopInv
  <1>9. block' \in Nat /\ stripe' \in 0 .. 16
    BY <1>3, <1>4
  <1> QED BY <1>1, <1>4, <1>5, <1>6, <1>7, <1>8, <1>9, LoopStep

(* Four stripes of the tail, one to each chain.                            *)
LEMMA TailGroupKeeps == ASSUME IInv, TailGroup PROVE IInv'
  <1>1. InKernel /\ pc = "tail" /\ stripe + 4 <= TailStripes(Length)
    BY DEF TailGroup, InTail, InKernel
  <1>2. LoopInv
    BY <1>1 DEF IInv
  <1>3. /\ block \in Nat /\ stripe \in 0 .. 16 /\ block = FullBlocks(Length) /\ kernel # "medium"
        /\ TailStripes(Length) \in 0 .. 15 /\ TailOffset(Length) = block * 1024
    BY <1>1, <1>2, GroupFacts DEF LoopInv
  <1>4. stripe \in 0 .. 12
    BY <1>1, <1>3
  <1>5. Inside /\ pc' = "tail" /\ block' = block /\ stripe' = stripe + 4 /\ words' = words
    BY <1>1 DEF TailGroup, Inside
  <1>6. \A m \in Members : Has(chains'[m], m, block', stripe')
    <2>1. SUFFICES ASSUME NEW m \in Members PROVE Has(chains'[m], m, block', stripe')
      OBVIOUS
    <2>2. chains'[m] = AddGroup(chains[m], m, block * 1024, stripe)
      BY <1>3 DEF TailGroup
    <2> QED BY <1>1, <1>3, <1>4, <1>5, <2>2, GroupHas, GroupStep
  <1>7. DOMAIN chains' = Members
    BY DEF TailGroup
  <1>8. words' = [m \in Members |-> BlocksOf(m, block')]
    BY <1>1, <1>5 DEF IInv, AccumulatedInv
  <1>9. LoopInv'
    <2>1. Length' = Length /\ kernel' = kernel
      BY <1>5 DEF Inside, Length, inputs
    <2>2. stripe' <= TailStripes(Length)
      BY <1>1, <1>5
    <2> QED BY <1>3, <1>5, <2>1, <2>2 DEF LoopInv
  <1>10. block' \in Nat /\ stripe' \in 0 .. 16
    BY <1>3, <1>4, <1>5
  <1> QED BY <1>1, <1>5, <1>6, <1>7, <1>8, <1>9, <1>10, LoopStep

(* The last stripe, to the only chain.                                     *)
LEMMA LastStripeKeeps == ASSUME IInv, LastStripe PROVE IInv'
  <1>1. InKernel /\ pc = "tail" /\ stripe = TailStripes(Length)
    BY DEF LastStripe, InTail, InKernel
  <1>2. block = FullBlocks(Length)
    BY <1>1 DEF IInv, LoopInv
  <1>3. Inside /\ pc' = "emit" /\ UNCHANGED <<block, stripe, words>> /\ DOMAIN chains' = Members
    BY DEF LastStripe, Inside, Goto
  <1>4. \A m \in Members : HasRest(chains'[m], m)
    <2>1. SUFFICES ASSUME NEW m \in Members PROVE HasRest(chains'[m], m)
      OBVIOUS
    <2>2. chains'[m] = AddTo(chains[m], 0, Last(m))
      BY DEF LastStripe
    <2>3. Has(chains[m], m, FullBlocks(inputs[m]), TailStripes(inputs[m]))
      BY <1>1, <1>2, GroupFacts, GroupHas
    <2>4. inputs[m] \in Nat /\ IsLong(inputs[m])
      BY <1>1, GroupFacts
    <2> QED BY <2>2, <2>3, <2>4, LastStep
  <1> QED BY <1>1, <1>2, <1>3, <1>4, EndStep

(* The remaining stripes and the last one, to a chain each.                *)
LEMMA EndTailKeeps == ASSUME IInv, EndTail PROVE IInv'
  <1>1. InKernel /\ pc = "tail" /\ stripe + 4 > TailStripes(Length)
    BY DEF EndTail, InTail, InKernel
  <1>2. LoopInv
    BY <1>1 DEF IInv
  <1>3. /\ block = FullBlocks(Length) /\ stripe <= TailStripes(Length) /\ stripe \in 0 .. 16
        /\ TailStripes(Length) \in 0 .. 15 /\ TailOffset(Length) = FullBlocks(Length) * 1024
    BY <1>1, <1>2, GroupFacts DEF LoopInv
  <1>4. PICK r \in 0 .. 3 : r = Remaining /\ stripe + r = TailStripes(Length)
    BY <1>1, <1>3 DEF Remaining
  <1>5. Inside /\ pc' = "emit" /\ UNCHANGED <<block, stripe, words>> /\ DOMAIN chains' = Members
    BY DEF EndTail, Inside, Goto
  <1>6. \A m \in Members : HasRest(chains'[m], m)
    <2>1. SUFFICES ASSUME NEW m \in Members PROVE HasRest(chains'[m], m)
      OBVIOUS
    <2>2. /\ inputs[m] \in Nat /\ IsLong(inputs[m]) /\ FullBlocks(inputs[m]) = FullBlocks(Length)
          /\ TailStripes(inputs[m]) = TailStripes(Length)
      BY <1>1, GroupFacts
    <2>3. chains'[m] = TailRest(chains[m], m)
      BY DEF EndTail
    <2>4. TailRest(chains[m], m) = RestOf(chains[m], m, FullBlocks(inputs[m]) * 1024, stripe, r)
      BY <1>3, <1>4, <2>2 DEF TailRest, RestOf
    <2>5. PICK s \in 0 .. 15, b \in Nat : s = stripe /\ b = FullBlocks(inputs[m])
      BY <1>3, <2>2, Schedule
    <2> DEFINE acc == chains[m]
    <2>6. Has(acc, m, b, s) /\ s + r \in 0 .. 15
      BY <1>1, <1>3, <1>4, <2>2, <2>5, GroupHas
    <2> HIDE DEF acc
    <2>7. Completed(acc, m, b, s, r)
      BY <2>6, RestStep
    <2>8. PICK full : /\ Has(full, m, b, s + r)
                      /\ RestOf(acc, m, b * 1024, s, r) = AddTo(full, 3, Last(m))
      BY <2>7 DEF Completed
    <2>9. Has(full, m, FullBlocks(inputs[m]), TailStripes(inputs[m]))
      BY <1>4, <2>2, <2>5, <2>8
    <2>10. HasRest(AddTo(full, 3, Last(m)), m)
      BY <2>2, <2>9, LastStep
    <2> QED BY <2>3, <2>4, <2>5, <2>8, <2>10 DEF acc
  <1> QED BY <1>1, <1>3, <1>5, <1>6, EndStep

(* What the medium kernel starts from: one input of no whole block.        *)
LEMMA MediumFacts ==
  ASSUME IInv, pc = "medium"
  PROVE  /\ kernel = "medium" /\ block = 0 /\ FullBlocks(Length) = 0
         /\ stripe <= TailStripes(Length) /\ RegularStripes(Length) = TailStripes(Length)
  <1>1. InKernel
    BY DEF InKernel
  <1>2. kernel = "medium" /\ block = 0 /\ stripe <= RegularStripes(Length)
    BY <1>1 DEF IInv, LoopInv
  <1>3. Length <= 1024
    BY <1>1, <1>2 DEF IInv, GroupInv
  <1>4. PICK t \in 0 .. 15 : t = TailStripes(Length)
    BY <1>1, GroupFacts
  <1>5. FullBlocks(Length) = 0 /\ RegularStripes(Length) = FullBlocks(Length) * 16 + t
    BY <1>1, <1>3, <1>4, GroupFacts
  <1> QED BY <1>2, <1>4, <1>5

(* Two stripes, one to each of two chains.                                 *)
LEMMA MediumPairKeeps == ASSUME IInv, MediumPair PROVE IInv'
  <1>1. InKernel /\ pc = "medium" /\ stripe + 2 <= RegularStripes(Length)
    BY DEF MediumPair, InKernel
  <1>2. /\ stripe \in 0 .. 16 /\ TailStripes(Length) \in 0 .. 15 /\ block = 0 /\ kernel = "medium"
        /\ RegularStripes(Length) = TailStripes(Length)
    BY <1>1, GroupFacts, MediumFacts
  <1>3. stripe \in 0 .. 13
    BY <1>1, <1>2
  <1>4. Inside /\ pc' = "medium" /\ block' = block /\ stripe' = stripe + 2 /\ words' = words
    BY <1>1 DEF MediumPair, Inside
  <1>5. \A m \in Members : Has(chains'[m], m, block', stripe')
    <2>1. SUFFICES ASSUME NEW m \in Members PROVE Has(chains'[m], m, block', stripe')
      OBVIOUS
    <2>2. PICK s \in 0 .. 13 : s = stripe
      BY <1>3
    <2>3. Has(chains[m], m, 0, s)
      BY <1>1, <1>2, <2>2, GroupHas
    <2> DEFINE a1 == AddTo(chains[m], 0, Regular(m, 0 * 1024, s))
               a2 == AddTo(a1, 1, Regular(m, 0 * 1024, s + 1))
    <2>4. chains'[m] = a2
      <3>1. 0 * 1024 = 0
        OBVIOUS
      <3> QED BY <2>2, <3>1 DEF MediumPair
    <2>5. Has(a1, m, 0, s + 1)
      BY <2>3, StripeStep
    <2> HIDE DEF a1
    <2>6. s + 1 \in 0 .. 15 /\ s + 1 + 1 = s + 2
      OBVIOUS
    <2>7. Has(a2, m, 0, s + 1 + 1)
      BY <2>5, <2>6, StripeStep
    <2> QED BY <1>2, <1>4, <2>2, <2>4, <2>6, <2>7
  <1>6. DOMAIN chains' = Members
    BY DEF MediumPair
  <1>7. words' = [m \in Members |-> BlocksOf(m, block')]
    BY <1>1, <1>4 DEF IInv, AccumulatedInv
  <1>8. LoopInv'
    <2>1. Length' = Length /\ kernel' = kernel
      BY <1>4 DEF Inside, Length, inputs
    <2> QED BY <1>1, <1>2, <1>4, <2>1 DEF LoopInv
  <1>9. block' \in Nat /\ stripe' \in 0 .. 16
    BY <1>2, <1>3, <1>4
  <1> QED BY <1>1, <1>4, <1>5, <1>6, <1>7, <1>8, <1>9, LoopStep

(* The odd stripe, if there is one, and the last one.                      *)
LEMMA EndMediumKeeps == ASSUME IInv, EndMedium PROVE IInv'
  <1>1. InKernel /\ pc = "medium" /\ stripe + 2 > RegularStripes(Length)
    BY DEF EndMedium, InKernel
  <1>2. /\ stripe \in 0 .. 16 /\ TailStripes(Length) \in 0 .. 15 /\ block = 0
        /\ FullBlocks(Length) = 0 /\ stripe <= TailStripes(Length)
        /\ RegularStripes(Length) = TailStripes(Length)
    BY <1>1, GroupFacts, MediumFacts
  <1>3. Inside /\ pc' = "emit" /\ UNCHANGED <<block, stripe, words>> /\ DOMAIN chains' = Members
    BY DEF EndMedium, Inside, Goto
  <1>4. \A m \in Members : HasRest(chains'[m], m)
    <2>1. SUFFICES ASSUME NEW m \in Members PROVE HasRest(chains'[m], m)
      OBVIOUS
    <2>2. /\ inputs[m] \in Nat /\ IsLong(inputs[m]) /\ FullBlocks(inputs[m]) = 0
          /\ TailStripes(inputs[m]) = TailStripes(Length)
      BY <1>1, <1>2, GroupFacts
    <2>3. PICK s \in 0 .. 15 : s = stripe
      BY <1>2
    <2>4. PICK t \in 0 .. 15 : t = TailStripes(Length)
      BY <1>2
    <2>5. Has(chains[m], m, 0, s)
      BY <1>1, <1>2, <2>3, GroupHas
    <2> DEFINE odd == IF s < t THEN AddTo(chains[m], 0, Regular(m, 0 * 1024, s)) ELSE chains[m]
    <2>6. chains'[m] = AddTo(odd, 1, Last(m))
      <3>1. 0 * 1024 = 0
        OBVIOUS
      <3> QED BY <1>2, <2>3, <2>4, <3>1 DEF EndMedium
    <2>7. Has(odd, m, 0, t)
      <3>1. CASE s < t
        <4>1. s + 1 = t
          BY <1>1, <1>2, <2>3, <2>4, <3>1
        <4> QED BY <2>5, <3>1, <4>1, StripeStep
      <3>2. CASE s = t
        BY <2>5, <3>2
      <3> QED BY <1>2, <2>3, <2>4, <3>1, <3>2
    <2> HIDE DEF odd
    <2>8. Has(odd, m, FullBlocks(inputs[m]), TailStripes(inputs[m]))
      BY <2>2, <2>4, <2>7
    <2> QED BY <2>2, <2>6, <2>8, LastStep
  <1>5. block = FullBlocks(Length)
    BY <1>2
  <1> QED BY <1>1, <1>3, <1>4, <1>5, EndStep
----------------------------------------------------------------------------
(* The steps between kernels.                                              *)

(* Digests of inputs are appended to those of the inputs before.           *)
LEMMA JoinDigests ==
  ASSUME NEW F, NEW n \in Nat, NEW p \in Nat,
         NEW s, s = [k \in 1 .. n |-> F[k]], NEW t, t = [i \in 1 .. p |-> F[n + i]]
  PROVE  s \o t = [k \in 1 .. n + p |-> F[k]]
  <1> DEFINE S == {F[k] : k \in 1 .. n + p}
             q == s \o t
  <1>1. s \in Seq(S) /\ Len(s) = n
    <2>1. \A k \in 1 .. n : F[k] \in S
      OBVIOUS
    <2> HIDE DEF S
    <2> QED BY <2>1
  <1>2. t \in Seq(S) /\ Len(t) = p
    <2>1. \A i \in 1 .. p : n + i \in 1 .. n + p
      OBVIOUS
    <2>2. \A i \in 1 .. p : F[n + i] \in S
      BY <2>1
    <2> HIDE DEF S
    <2> QED BY <2>2
  <1> HIDE DEF S
  <1>3. /\ q \in Seq(S) /\ Len(q) = n + p
        /\ \A i \in 1 .. n + p : q[i] = IF i <= n THEN s[i] ELSE t[i - n]
    BY <1>1, <1>2, ConcatProperties
  <1> HIDE DEF q
  <1>4. \A i \in 1 .. n + p : q[i] = F[i]
    <2>1. SUFFICES ASSUME NEW i \in 1 .. n + p PROVE q[i] = F[i]
      OBVIOUS
    <2>2. CASE i <= n
      <3>1. i \in 1 .. n
        BY <2>2
      <3>2. s[i] = F[i]
        BY <3>1
      <3> QED BY <1>3, <2>2, <3>2
    <2>3. CASE i > n
      <3>1. PICK j \in 1 .. p : j = i - n /\ n + j = i
        BY <2>3
      <3>2. t[j] = F[n + j]
        OBVIOUS
      <3>3. q[i] = t[i - n]
        <4>1. ~(i <= n)
          BY <2>3
        <4> HIDE DEF S
        <4> QED BY <1>3, <4>1, Zenon
      <3>4. t[i - n] = t[j] /\ F[n + j] = F[i]
        BY <3>1
      <3> QED BY <3>2, <3>3, <3>4
    <2> QED BY <2>2, <2>3
  <1>5. q = [k \in 1 .. n + p |-> q[k]]
    BY <1>3
  <1>6. q = [k \in 1 .. n + p |-> F[k]]
    BY <1>4, <1>5
  <1> QED BY <1>6 DEF q

(* The digest that is appended last.                                       *)
LEMMA AppendDigest ==
  ASSUME NEW F, NEW n \in Nat, NEW s, s = [k \in 1 .. n |-> F[k]], NEW x, x = F[n + 1]
  PROVE  Append(s, x) = [k \in 1 .. n + 1 |-> F[k]]
  <1> DEFINE S == {F[k] : k \in 1 .. n + 1}
             q == Append(s, x)
  <1>1. s \in Seq(S) /\ Len(s) = n
    <2>1. \A k \in 1 .. n : F[k] \in S
      OBVIOUS
    <2> HIDE DEF S
    <2> QED BY <2>1
  <1>2. x \in S
    <2>1. n + 1 \in 1 .. n + 1
      OBVIOUS
    <2> QED BY <2>1
  <1>3. q \in Seq(S) /\ Len(q) = n + 1 /\ (\A i \in 1 .. n : q[i] = s[i]) /\ q[n + 1] = x
    BY <1>1, <1>2, AppendProperties
  <1> HIDE DEF q
  <1>4. q = [k \in 1 .. n + 1 |-> q[k]]
    BY <1>3
  <1>5. \A i \in 1 .. n + 1 : i \in 1 .. n \/ i = n + 1
    OBVIOUS
  <1>6. q = [k \in 1 .. n + 1 |-> F[k]]
    BY <1>3, <1>4, <1>5
  <1> QED BY <1>6 DEF q

(* A short input.                                                          *)
LEMMA HashShortKeeps == ASSUME IInv, HashShort PROVE IInv'
  <1>1. index \in Inputs /\ ~IsLong(inputs[index]) /\ digests' = Append(digests, ShortDigest(index))
    BY DEF HashShort
  <1>2. IsCall(call)
    BY DEF IInv
  <1>3. /\ Inputs = 1 .. Len(inputs) /\ Len(inputs) \in Nat /\ inputs[index] \in Nat
        /\ call.width \in {64, 128}
    BY <1>1, <1>2, CallType
  <1>4. PICK L \in 0 .. 240 : L = inputs[index]
    <2>1. PICK L \in Nat : L = inputs[index]
      BY <1>3
    <2>2. ~IsLong(L)
      BY <1>1, <2>1
    <2> QED BY <2>1, <2>2 DEF IsLong
  <1>5. ShortDigest(index) = Reference(index)
    <2>1. Short(call.width, L) = ShortReference(call.width, L)
      BY <1>3, ShortIsReference
    <2>2. L <= 240
      OBVIOUS
    <2> QED BY <1>4, <2>1, <2>2 DEF ShortDigest, Reference
  <1>6. PICK n \in Nat : n = index - 1 /\ index = n + 1
    BY <1>1, <1>3
  <1> DEFINE F == [k \in 1 .. n + 1 |-> Reference(k)]
  <1>7. digests = [k \in 1 .. n |-> F[k]]
    BY <1>6 DEF IInv
  <1>8. ShortDigest(index) = F[n + 1]
    BY <1>5, <1>6
  <1> HIDE DEF F
  <1>9. digests' = [k \in 1 .. n + 1 |-> F[k]]
    BY <1>1, <1>7, <1>8, AppendDigest
  <1>10. digests' = [k \in 1 .. n + 1 |-> Reference(k)]
    BY <1>9 DEF F
  <1>11. /\ machine' = machine /\ call' = call /\ pc' = pc /\ pc = "next" /\ index' = index + 1
         /\ kernel' = kernel /\ block' = block /\ stripe' = stripe
    BY DEF HashShort, loop
  <1>12. inputs' = inputs
    BY <1>11 DEF inputs
  <1>13. digests' = [k \in 1 .. index' - 1 |-> Reference(k)']
    <2>1. index' - 1 = n + 1
      BY <1>6, <1>11
    <2> QED BY <1>10, <1>11, <2>1, CallStays
  <1>14. ~InKernel' /\ index' \in 1 .. Len(inputs') + 1
    BY <1>1, <1>3, <1>11, <1>12 DEF InKernel
  <1> QED BY <1>11, <1>13, <1>14 DEF IInv

(* A group begins with what is known of it.                                *)
LEMMA BeginGroupKeeps == ASSUME IInv, BeginGroup PROVE IInv'
  <1>1. IsCall(call) /\ IsMachine(machine) /\ index \in Inputs /\ IsLong(inputs[index])
    BY DEF IInv, BeginGroup
  <1>2. /\ Inputs = 1 .. Len(inputs) /\ Len(inputs) \in Nat /\ \A k \in Inputs : inputs[k] \in Nat
        /\ call.seed \in Nat
    BY <1>1, CallType
  <1>3. PICK n : /\ n = IF HasBatchKernel /\ call.entry \notin {"one", "prepared"} THEN RunLength(index) ELSE 1
                 /\ first' = index /\ size' = n /\ kernel' = KernelOf(index, n)
                 /\ words' = [m \in index .. index + n - 1 |-> <<>>]
                 /\ chains' = [m \in index .. index + n - 1 |-> NoLoads]
    BY DEF BeginGroup
  <1>4. /\ n \in 1 .. 4 /\ (n > 1 => HasBatchKernel) /\ index + n - 1 \in Inputs
        /\ \A k \in index .. index + n - 1 : Joins(k, index)
    <2>1. CASE HasBatchKernel /\ call.entry \notin {"one", "prepared"}
      <3>1. n = RunLength(index)
        BY <1>3, <2>1
      <3> QED BY <1>1, <2>1, <3>1, RunJoins
    <2>2. CASE ~(HasBatchKernel /\ call.entry \notin {"one", "prepared"})
      <3>1. n = 1
        BY <1>3, <2>2
      <3>2. index + 1 - 1 = index /\ index .. index + 1 - 1 = {index} /\ Joins(index, index)
        BY <1>1, <1>2 DEF Joins
      <3> QED BY <1>1, <3>1, <3>2
    <2> QED BY <2>1, <2>2
  <1>5. /\ kernel' \in DOMAIN Needs /\ Needs[kernel'] \subseteq machine.features
        /\ n > 1 <=> kernel' = "batch"
        /\ kernel' = "medium" => TriesMedium /\ inputs[index] <= 1024
    BY <1>1, <1>3, <1>4, KernelFits
  <1>6. /\ machine' = machine /\ call' = call /\ index' = index /\ digests' = digests
        /\ block' = 0 /\ stripe' = 0 /\ pc' = IF kernel' = "medium" THEN "medium" ELSE "blocks"
    BY DEF BeginGroup, Goto
  <1>7. /\ inputs' = inputs /\ Inputs' = Inputs /\ Members' = index .. index + n - 1
        /\ Length' = inputs[index]
    BY <1>3, <1>6 DEF inputs, Inputs, Members, Length
  <1>8. GroupInv'
    <2>1. Members' \subseteq Inputs'
      <3>1. index \in Nat /\ index >= 1 /\ index + n - 1 <= Len(inputs)
        BY <1>1, <1>2, <1>4
      <3> QED BY <1>2, <1>4, <1>7, <3>1
    <2>2. Secret' = call'.seed
      <3>1. kernel' = "medium" /\ call.entry = "one" => call.seed = 0
        BY <1>5 DEF TriesMedium
      <3> QED BY <1>6, <3>1 DEF Secret
    <2>3. ASSUME NEW m \in Members'
          PROVE  IsLong(inputs'[m]) /\ RegularStripes(inputs'[m]) = RegularStripes(Length')
      BY <1>4, <1>7 DEF Joins
    <2>4. size' > 1 <=> kernel' = "batch"
      BY <1>3, <1>5
    <2>5. kernel' = "medium" => Length' <= 1024
      BY <1>5, <1>7
    <2>6. index' = first' /\ size' \in 1 .. 4 /\ Needs[kernel'] \subseteq machine'.features
      BY <1>3, <1>4, <1>5, <1>6
    <2> QED BY <2>1, <2>2, <2>3, <2>4, <2>5, <2>6 DEF GroupInv
  <1>9. AccumulatedInv'
    <2>1. \A m : BlocksOf(m, 0) = <<>>
      BY DEF BlocksOf
    <2>2. \A m : Stripes(m, 0 * 16, 0 * 16 + 0) = {}
      BY DEF Stripes
    <2>3. \A m : Accumulated(m)' = SetToBag({})
      BY <1>6, <2>2 DEF Accumulated
    <2>4. words' = [m \in Members' |-> BlocksOf(m, block')]
      BY <1>3, <1>6, <1>7, <2>1
    <2>5. DOMAIN chains' = Members' /\ \A m \in Members' : chains'[m] = NoLoads
      BY <1>3, <1>7
    <2> QED BY <2>3, <2>4, <2>5, NothingLoaded DEF AccumulatedInv
  <1>10. LoopInv'
    <2>1. FullBlocks(inputs[index]) \in Nat /\ RegularStripes(inputs[index]) \in Nat
      BY <1>1, <1>2, Schedule
    <2>2. 0 <= FullBlocks(Length') /\ 0 <= RegularStripes(Length')
      BY <1>7, <2>1
    <2>3. stripe' % 4 = 0
      BY <1>6
    <2>4. pc' = "blocks" => kernel' # "medium" /\ block' <= FullBlocks(Length') /\ stripe' = 0
      BY <1>6, <2>2
    <2>5. pc' = "medium" => kernel' = "medium" /\ block' = 0 /\ stripe' <= RegularStripes(Length')
      BY <1>6, <2>2
    <2>6. pc' # "tail" /\ pc' # "emit"
      BY <1>6
    <2> QED BY <2>3, <2>4, <2>5, <2>6 DEF LoopInv
  <1>11. digests' = [k \in 1 .. index' - 1 |-> Reference(k)']
    <2>1. digests = [k \in 1 .. index - 1 |-> Reference(k)]
      BY DEF IInv
    <2> QED BY <1>6, <2>1, CallStays
  <1>12. kernel' # "none" /\ pc' \in {"blocks", "medium"}
    <2>1. DOMAIN Needs = {"scalar", "ssse3", "avx2", "avx512", "neon", "batch", "medium"}
      BY DEF Needs
    <2> QED BY <1>5, <1>6, <2>1
  <1>13. /\ IsMachine(machine)' /\ IsCall(call)' /\ index' \in 1 .. Len(inputs') + 1
         /\ block' \in Nat /\ stripe' \in 0 .. 16
    BY <1>1, <1>2, <1>6, <1>7
  <1> QED BY <1>5, <1>8, <1>9, <1>10, <1>11, <1>12, <1>13 DEF IInv

(* The digests of a completed group are those of its inputs.               *)
LEMMA LongDigestIsReference ==
  ASSUME IInv, pc = "emit", NEW m \in Members
  PROVE  LongDigest(m) = Reference(m)
  <1>1. InKernel
    BY DEF InKernel
  <1>2. /\ inputs[m] \in Nat /\ IsLong(inputs[m]) /\ FullBlocks(inputs[m]) = FullBlocks(Length)
    BY <1>1, GroupFacts
  <1>3. block = FullBlocks(Length)
    BY <1>1 DEF IInv, LoopInv
  <1>4. words[m] = BlocksOf(m, block)
    BY <1>1 DEF IInv, AccumulatedInv
  <1>5. Sum(chains[m]) = Rest(m)
    BY <1>1 DEF IInv, AccumulatedInv, Accumulated
  <1>6. RegularStripes(inputs[m]) \div 16 = block
    BY <1>2, <1>3, Schedule
  <1>7. Secret = call.seed
    BY <1>1 DEF IInv, GroupInv
  <1>8. ~(inputs[m] <= 240)
    BY <1>2 DEF IsLong
  <1> QED BY <1>4, <1>5, <1>6, <1>7, <1>8 DEF LongDigest, Reference

(* They are given in order.                                                *)
LEMMA EmitGroupKeeps == ASSUME IInv, EmitGroup PROVE IInv'
  <1>1. pc = "emit" /\ InKernel
    BY DEF EmitGroup, InKernel
  <1>2. /\ IsCall(call) /\ index = first /\ size \in 1 .. 4 /\ Members \subseteq Inputs
        /\ index \in 1 .. Len(inputs) + 1
    BY <1>1 DEF IInv, GroupInv
  <1>3. Inputs = 1 .. Len(inputs) /\ Len(inputs) \in Nat
    BY <1>2, CallType
  <1>4. PICK n \in Nat : n = index - 1 /\ index = n + 1
    BY <1>2, <1>3
  <1>5. PICK p \in 1 .. 4 : p = size
    BY <1>2
  <1>6. Members = n + 1 .. n + p /\ n + p <= Len(inputs)
    <2>1. Members = n + 1 .. n + p
      BY <1>2, <1>4, <1>5 DEF Members
    <2>2. n + p \in Members
      BY <2>1
    <2> QED BY <1>2, <1>3, <2>1, <2>2
  <1> DEFINE F == [k \in 1 .. n + p |-> Reference(k)]
             t == [i \in 1 .. p |-> LongDigest(first + i - 1)]
  <1>7. digests = [k \in 1 .. n |-> F[k]]
    BY <1>4 DEF IInv
  <1>8. t = [i \in 1 .. p |-> F[n + i]]
    <2>1. ASSUME NEW i \in 1 .. p PROVE LongDigest(first + i - 1) = F[n + i]
      <3>1. first + i - 1 = n + i /\ n + i \in 1 .. n + p /\ n + i \in Members
        BY <1>2, <1>4, <1>6
      <3>2. LongDigest(n + i) = Reference(n + i)
        BY <1>1, <3>1, LongDigestIsReference
      <3> QED BY <3>1, <3>2
    <2> HIDE DEF F
    <2> QED BY <2>1
  <1>9. digests' = digests \o t
    BY <1>5 DEF EmitGroup
  <1> HIDE DEF F, t
  <1>10. digests' = [k \in 1 .. n + p |-> F[k]]
    BY <1>7, <1>8, <1>9, JoinDigests
  <1>11. digests' = [k \in 1 .. n + p |-> Reference(k)]
    BY <1>10 DEF F
  <1>12. /\ machine' = machine /\ call' = call /\ pc' = "next" /\ index' = index + size
         /\ kernel' = kernel /\ block' = block /\ stripe' = stripe
    BY DEF EmitGroup, Goto, loop
  <1>13. inputs' = inputs
    BY <1>12 DEF inputs
  <1>14. index' = n + p + 1 /\ index' - 1 = n + p
    BY <1>4, <1>5, <1>12
  <1>15. digests' = [k \in 1 .. index' - 1 |-> Reference(k)']
    BY <1>11, <1>12, <1>14, CallStays
  <1>16. index' \in 1 .. Len(inputs') + 1 /\ ~InKernel'
    BY <1>3, <1>6, <1>12, <1>13, <1>14 DEF InKernel
  <1> QED BY <1>12, <1>15, <1>16 DEF IInv

(* A call that returns has come past its last input.                       *)
LEMMA ReturnKeeps == ASSUME IInv, Return PROVE IInv'
  <1>1. /\ machine' = machine /\ call' = call /\ pc' = "done" /\ index' = index
        /\ digests' = digests /\ kernel' = kernel /\ block' = block /\ stripe' = stripe
    BY DEF Return, Goto, loop
  <1>2. inputs' = inputs
    BY <1>1 DEF inputs
  <1>3. IsCall(call) /\ index \in 1 .. Len(inputs) + 1 /\ index \notin Inputs
    BY DEF IInv, Return
  <1>4. index' = Len(inputs') + 1
    BY <1>1, <1>2, <1>3, CallType
  <1>5. digests' = [k \in 1 .. index' - 1 |-> Reference(k)']
    <2>1. digests = [k \in 1 .. index - 1 |-> Reference(k)]
      BY DEF IInv
    <2> QED BY <1>1, <2>1, CallStays
  <1>6. ~InKernel' /\ index' \in 1 .. Len(inputs') + 1
    BY <1>1, <1>2, <1>3 DEF InKernel
  <1> QED BY <1>1, <1>4, <1>5, <1>6 DEF IInv
----------------------------------------------------------------------------
(* The theorems.                                                           *)

(* A step that changes nothing.                                            *)
LEMMA StutterKeeps == ASSUME IInv, UNCHANGED vars PROVE IInv'
  <1>1. /\ machine' = machine /\ call' = call /\ pc' = pc /\ index' = index /\ digests' = digests
        /\ kernel' = kernel /\ first' = first /\ size' = size
        /\ block' = block /\ stripe' = stripe /\ words' = words /\ chains' = chains
    BY DEF vars, loop
  <1>2. /\ inputs' = inputs /\ Inputs' = Inputs /\ Members' = Members /\ Length' = Length
        /\ Secret' = Secret /\ (InKernel' <=> InKernel)
    BY <1>1 DEF inputs, Inputs, Members, Length, Secret, InKernel
  <1>3. digests' = [k \in 1 .. index' - 1 |-> Reference(k)']
    <2>1. digests = [k \in 1 .. index - 1 |-> Reference(k)]
      BY DEF IInv
    <2> QED BY <1>1, <2>1, CallStays
  <1>4. InKernel => LoopInv'
    <2>1. InKernel => LoopInv
      BY DEF IInv
    <2> QED BY <1>1, <1>2, <2>1 DEF LoopInv, FourChains
  <1>5. InKernel => AccumulatedInv'
    <2>1. InKernel => AccumulatedInv
      BY DEF IInv
    <2>2. \A m : Accumulated(m)' = Accumulated(m)
      BY <1>1, CallStays DEF Accumulated
    <2> QED BY <1>1, <1>2, <2>1, <2>2 DEF AccumulatedInv
  <1>6. InKernel => GroupInv'
    <2>1. InKernel => GroupInv
      BY DEF IInv
    <2> QED BY <1>1, <1>2, <2>1 DEF GroupInv
  <1>7. /\ IsMachine(machine) /\ IsCall(call)
        /\ pc \in {"next", "blocks", "tail", "medium", "emit", "done"}
        /\ index \in 1 .. Len(inputs) + 1 /\ (pc = "done" => index = Len(inputs) + 1)
        /\ kernel \in DOMAIN Needs \cup {"none"} /\ block \in Nat /\ stripe \in 0 .. 16
        /\ (InKernel => kernel # "none")
    BY DEF IInv
  <1> QED BY <1>1, <1>2, <1>3, <1>4, <1>5, <1>6, <1>7 DEF IInv

(* A call begins before its first input, in no kernel.                     *)
LEMMA InitHolds == ASSUME Init PROVE IInv
  <1>1. IsCall(call) /\ IsMachine(machine) /\ pc = "next" /\ index = 1 /\ digests = <<>>
        /\ kernel = "none" /\ block = 0 /\ stripe = 0
    BY Xxh3BatchAssumption DEF Init
  <1>2. Len(inputs) \in Nat
    BY <1>1, CallType
  <1>3. digests = [k \in 1 .. index - 1 |-> Reference(k)]
    BY <1>1
  <1>4. ~InKernel
    BY <1>1 DEF InKernel
  <1> QED BY <1>1, <1>2, <1>3, <1>4 DEF IInv

(* Every group is of inputs of equally many stripes, in a kernel the CPU   *)
(* has, each accumulated as far as the loops have come, whatever the       *)
(* machine and the inputs (LongRun::new, the kernels of long_inputs/).     *)
THEOREM InvariantHolds == Spec => []IInv
  <1>1. Init => IInv
    BY InitHolds
  <1>2. IInv /\ [Next]_vars => IInv'
    <2> SUFFICES ASSUME IInv, [Next]_vars PROVE IInv'
      OBVIOUS
    <2>1. CASE HashShort
      BY <2>1, HashShortKeeps
    <2>2. CASE BeginGroup
      BY <2>2, BeginGroupKeeps
    <2>3. CASE BlockStripe
      BY <2>3, BlockStripeKeeps
    <2>4. CASE BlockGroup
      BY <2>4, BlockGroupKeeps
    <2>5. CASE Scramble
      BY <2>5, ScrambleKeeps
    <2>6. CASE EndBlocks
      BY <2>6, EndBlocksKeeps
    <2>7. CASE TailStripe
      BY <2>7, TailStripeKeeps
    <2>8. CASE LastStripe
      BY <2>8, LastStripeKeeps
    <2>9. CASE TailGroup
      BY <2>9, TailGroupKeeps
    <2>10. CASE EndTail
      BY <2>10, EndTailKeeps
    <2>11. CASE MediumPair
      BY <2>11, MediumPairKeeps
    <2>12. CASE EndMedium
      BY <2>12, EndMediumKeeps
    <2>13. CASE EmitGroup
      BY <2>13, EmitGroupKeeps
    <2>14. CASE Return
      BY <2>14, ReturnKeeps
    <2>15. CASE UNCHANGED vars
      BY <2>15, StutterKeeps
    <2> QED BY <2>1, <2>2, <2>3, <2>4, <2>5, <2>6, <2>7, <2>8, <2>9, <2>10, <2>11, <2>12, <2>13,
               <2>14, <2>15 DEF Next, Step
  <1> QED BY <1>1, <1>2, PTL DEF Spec

(* Whatever kernel the machine and the neighbours choose, the digests are  *)
(* those of the specification, in the order of the inputs, and a call that *)
(* returns has given all of them (batch.rs, hash_each_input).              *)
THEOREM DigestsHold == Spec => []DigestsAreReference
  <1>1. IInv => DigestsAreReference
    <2> SUFFICES ASSUME IInv PROVE DigestsAreReference
      OBVIOUS
    <2>1. digests = [k \in 1 .. index - 1 |-> Reference(k)]
      BY DEF IInv
    <2>2. Inputs = 1 .. Len(inputs) /\ Len(inputs) \in Nat
      BY CallType DEF IInv
    <2>3. pc = "done" => DOMAIN digests = Inputs
      <3>1. SUFFICES ASSUME pc = "done" PROVE DOMAIN digests = Inputs
        OBVIOUS
      <3>2. index - 1 = Len(inputs)
        BY <2>2, <3>1 DEF IInv
      <3> QED BY <2>1, <2>2, <3>2
    <2> QED BY <2>1, <2>3 DEF DigestsAreReference
  <1> QED BY <1>1, InvariantHolds, PTL

(* What is in a chain is in the sum.                                       *)
LEMMA InSum ==
  ASSUME NEW acc, AreChains(acc), NEW c \in 0 .. 3, NEW l \in DOMAIN acc[c]
  PROVE  l \in DOMAIN Sum(acc)
  <1>1. \A d \in 0 .. 3 : IsABag(acc[d])
    BY DEF AreChains
  <1>2. \A d \in 0 .. 3 : Count(l, acc[d]) \in Nat
    BY <1>1, CountType
  <1>3. Count(l, acc[c]) > 0
    BY <1>1 DEF Count, IsABag
  <1>4. Count(l, Sum(acc))
          = Count(l, acc[0]) + Count(l, acc[1]) + Count(l, acc[2]) + Count(l, acc[3])
    BY CountChains
  <1>5. Count(l, Sum(acc)) # 0
    <2>1. c = 0 \/ c = 1 \/ c = 2 \/ c = 3
      OBVIOUS
    <2> QED BY <1>2, <1>3, <1>4, <2>1
  <1> QED BY <1>5 DEF Count

(* The loops never come past the regular stripes of an input.              *)
LEMMA LoopsEndInside ==
  ASSUME IInv, InKernel, NEW m \in Members
  PROVE  DOMAIN Sum(chains[m]) \subseteq
           {Load(m, s * 64, (s % 16) * 8) : s \in 0 .. RegularStripes(inputs[m]) - 1} \cup {Last(m)}
  <1>1. PICK n : n = RegularStripes(inputs[m])
    OBVIOUS
  <1>2. /\ inputs[m] \in Nat /\ IsLong(inputs[m]) /\ FullBlocks(inputs[m]) = FullBlocks(Length)
        /\ TailStripes(inputs[m]) = TailStripes(Length) /\ n = RegularStripes(Length)
        /\ block \in Nat /\ stripe \in 0 .. 16
    BY <1>1, GroupFacts
  <1>3. /\ FullBlocks(Length) \in Nat /\ TailStripes(Length) \in 0 .. 15
        /\ n = FullBlocks(Length) * 16 + TailStripes(Length) /\ n \in Nat
    BY <1>2, GroupFacts, Schedule
  <1>4. LoopInv /\ Sum(chains[m]) = Accumulated(m)
    BY DEF IInv, AccumulatedInv
  <1>5. CASE pc # "emit"
    <2>1. block * 16 + stripe <= n
      <3>1. CASE pc = "blocks"
        <4>1. block <= FullBlocks(Length) /\ (block = FullBlocks(Length) => stripe = 0)
          BY <1>4, <3>1 DEF LoopInv
        <4>2. CASE block = FullBlocks(Length)
          BY <1>3, <4>1, <4>2
        <4>3. CASE block # FullBlocks(Length)
          <5>1. block + 1 <= FullBlocks(Length)
            BY <1>2, <1>3, <4>1, <4>3
          <5> QED BY <1>2, <1>3, <5>1
        <4> QED BY <4>2, <4>3
      <3>2. CASE pc = "tail"
        BY <1>2, <1>3, <1>4, <3>2 DEF LoopInv
      <3>3. CASE pc = "medium"
        BY <1>2, <1>3, <1>4, <3>3 DEF LoopInv
      <3> QED BY <1>5, <3>1, <3>2, <3>3 DEF InKernel
    <2>2. PICK from, to : from = block * 16 /\ to = block * 16 + stripe
      OBVIOUS
    <2>3. \A s \in from .. to - 1 : s \in 0 .. n - 1
      BY <1>2, <1>3, <2>1, <2>2
    <2>4. DOMAIN Sum(chains[m]) = Stripes(m, from, to)
      BY <1>4, <1>5, <2>2, CountSet DEF Accumulated
    <2>5. Stripes(m, from, to) \subseteq {Load(m, s * 64, (s % 16) * 8) : s \in 0 .. n - 1}
      BY <2>3 DEF Stripes
    <2> QED BY <1>1, <2>4, <2>5
  <1>6. CASE pc = "emit"
    <2>1. DOMAIN Sum(chains[m]) = Stripes(m, n - (n % 16), n) \cup {Last(m)}
      BY <1>4, <1>6, <1>1, CountSet DEF Accumulated, Rest, Last, LastOffset
    <2>2. \A s \in n - (n % 16) .. n - 1 : s \in 0 .. n - 1
      BY <1>3
    <2> QED BY <1>1, <2>1, <2>2 DEF Stripes
  <1> QED BY <1>5, <1>6

(* The CPU has what the running kernel needs, every load stays inside its  *)
(* input and the secret, and no prefetch goes past an input                *)
(* (the safety comments of long_inputs/).                                  *)
THEOREM KernelsHold == Spec => []KernelsStaySafe
  <1>1. IInv => KernelsStaySafe
    <2> SUFFICES ASSUME IInv, InKernel PROVE
               /\ Needs[kernel] \subseteq machine.features
               /\ \A m \in Members : LoadsInside(chains[m]) /\ Prefetched <= inputs[m]
      BY DEF KernelsStaySafe
    <2>1. Needs[kernel] \subseteq machine.features
      BY DEF IInv, GroupInv
    <2>2. ASSUME NEW m \in Members PROVE LoadsInside(chains[m])
      <3> DEFINE acc == chains[m]
      <3>1. AreChains(acc)
        BY DEF IInv, AccumulatedInv
      <3>2. PICK L \in Nat : L = inputs[m] /\ IsLong(L)
        BY GroupFacts
      <3>3. PICK n \in Nat : n = RegularStripes(L) /\ n * 64 <= L - 1
        BY <3>2, Schedule
      <3>4. SUFFICES ASSUME NEW c \in 0 .. 3, NEW l \in DOMAIN acc[c]
                     PROVE  /\ l.offset >= 0 /\ l.offset + 64 <= inputs[l.input]
                            /\ l.secret >= 0 /\ l.secret + 64 <= SecretLength
        BY DEF LoadsInside
      <3>5. l \in DOMAIN Sum(acc)
        <4> HIDE DEF acc
        <4> QED BY <3>1, InSum
      <3>6. l \in {Load(m, s * 64, (s % 16) * 8) : s \in 0 .. n - 1} \/ l = Last(m)
        BY <3>2, <3>3, <3>5, LoopsEndInside
      <3>7. CASE l = Last(m)
        <4>1. l.offset = L - 64 /\ l.secret = 121 /\ l.input = m
          BY <3>2, <3>7 DEF Last, Load, LastOffset, LastSecret
        <4>2. L > 240
          BY <3>2 DEF IsLong
        <4> QED BY <3>2, <4>1, <4>2 DEF SecretLength
      <3>8. CASE l \in {Load(m, s * 64, (s % 16) * 8) : s \in 0 .. n - 1}
        <4>1. PICK s \in 0 .. n - 1 : l = Load(m, s * 64, (s % 16) * 8)
          BY <3>8
        <4>2. PICK r \in 0 .. 15 : r = s % 16
          OBVIOUS
        <4>3. l.offset = s * 64 /\ l.secret = r * 8 /\ l.input = m
          BY <4>1, <4>2 DEF Load
        <4>4. s * 64 + 64 <= L
          BY <3>3
        <4> QED BY <3>2, <4>3, <4>4 DEF SecretLength
      <3> QED BY <3>6, <3>7, <3>8
    <2>3. ASSUME NEW m \in Members PROVE Prefetched <= inputs[m]
      <3>1. PICK L \in Nat : L = inputs[m] /\ IsLong(L) /\ FullBlocks(L) = FullBlocks(Length)
        BY GroupFacts
      <3>2. PICK f \in Nat : f = FullBlocks(L) /\ f * 1024 <= L - 1
        <4>1. PICK f \in Nat : f = FullBlocks(L)
          BY <3>1, Schedule
        <4>2. PICK t \in 0 .. 15, n \in Nat : t = TailStripes(L) /\ n = RegularStripes(L)
          BY <3>1, Schedule
        <4>3. n = f * 16 + t /\ n * 64 <= L - 1
          BY <3>1, <4>1, <4>2, Schedule
        <4>4. f * 1024 <= L - 1
          BY <4>3
        <4> QED BY <4>1, <4>4
      <3>3. PICK b \in Nat : b = block
        BY GroupFacts
      <3>4. CASE b + 2 <= f
        <4>1. (b + 2) * 1024 <= L
          BY <3>2, <3>4
        <4>2. Prefetched = (b + 2) * 1024 \/ Prefetched = 0
          BY <3>3 DEF Prefetched
        <4> QED BY <3>1, <4>1, <4>2
      <3>5. CASE ~(b + 2 <= f)
        <4>1. Prefetched = 0
          BY <3>1, <3>2, <3>3, <3>5 DEF Prefetched
        <4> QED BY <3>1, <4>1
      <3> QED BY <3>4, <3>5
    <2> QED BY <2>1, <2>2, <2>3
  <1> QED BY <1>1, InvariantHolds, PTL

(* The pairs from the ends inwards meet in the middle.                     *)
LEMMA PairsMeet ==
  ASSUME NEW n \in 17 .. 128
  PROVE  /\ Rounds(n) \in 1 .. 4
         /\ UNION {Bytes(16 * (i - 1), 16) \cup Bytes(n - 16 * i, 16) : i \in 1 .. Rounds(n)}
              = 0 .. n - 1
  <1>1. PICK r \in 1 .. 4 : r = Rounds(n)
    BY DEF Rounds
  <1>2. 32 * (r - 1) < n /\ n <= 32 * r
    BY <1>1 DEF Rounds
  <1> DEFINE At(i) == Bytes(16 * (i - 1), 16) \cup Bytes(n - 16 * i, 16)
  <1>3. ASSUME NEW i \in 1 .. r PROVE At(i) \subseteq 0 .. n - 1
    <2>1. 16 * i <= n /\ 16 * (i - 1) >= 0 /\ 16 * (i - 1) + 16 <= n /\ n - 16 * i + 16 <= n
      BY <1>2
    <2> QED BY <2>1 DEF Bytes
  <1>4. ASSUME NEW x \in 0 .. n - 1 PROVE \E i \in 1 .. r : x \in At(i)
    <2>1. CASE x < 16 * r
      <3>1. PICK i \in 1 .. r : 16 * (i - 1) <= x /\ x < 16 * i
        <4>1. PICK q \in Nat : q = x \div 16
          OBVIOUS
        <4>2. 16 * q <= x /\ x < 16 * q + 16
          BY <4>1
        <4>3. q + 1 \in 1 .. r /\ 16 * ((q + 1) - 1) <= x /\ x < 16 * (q + 1)
          BY <2>1, <4>2
        <4> QED BY <4>3
      <3> QED BY <3>1 DEF Bytes
    <2>2. CASE x >= 16 * r
      <3>1. PICK i \in 1 .. r : n - 16 * i <= x /\ x < n - 16 * i + 16
        <4>1. PICK q \in Nat : q = (n - 1 - x) \div 16
          OBVIOUS
        <4>2. 16 * q <= n - 1 - x /\ n - 1 - x < 16 * q + 16
          BY <4>1
        <4>3. q + 1 \in 1 .. r /\ n - 16 * (q + 1) <= x /\ x < n - 16 * (q + 1) + 16
          BY <1>2, <2>2, <4>2
        <4> QED BY <4>3
      <3> QED BY <3>1 DEF Bytes
    <2> QED BY <2>1, <2>2
  <1> HIDE DEF At
  <1>5. UNION {At(i) : i \in 1 .. r} = 0 .. n - 1
    BY <1>3, <1>4
  <1> QED BY <1>1, <1>5 DEF At

(* What the formula of a short input reads.                                *)
Covered(formula, n) ==
  /\ BytesRead(formula) = 0 .. n - 1
  /\ SecretRead(formula) \subseteq 0 .. SecretLength - 1

(* Up to 16 bytes are covered by overlapping words.                        *)
LEMMA WordsCover ==
  ASSUME NEW width \in {64, 128}, NEW n \in 0 .. 16
  PROVE  Covered(Len0To16(width, n), n)
  <1> DEFINE f == Len0To16(width, n)
  <1>1. "words" \in DOMAIN f /\ f.words = Len0To16Words(width, n) /\ f.secrets = Len0To16Secrets(width, n)
    BY DEF Len0To16
  <1>2. BytesRead(f) = UNION {Bytes(w.at, w.bytes) : w \in Ext!Range(f.words)}
    BY <1>1 DEF BytesRead
  <1>3. SecretRead(f) = UNION {Bytes(at, IF at < 16 /\ Len(f.words) = 3 THEN 4 ELSE 8) : at \in f.secrets}
    BY <1>1 DEF SecretRead
  <1>4. f.secrets \subseteq 0 .. 100
    BY <1>1 DEF Len0To16Secrets
  <1> HIDE DEF f
  <1>5. SecretRead(f) \subseteq 0 .. 191
    <2>1. ASSUME NEW at \in f.secrets
          PROVE  Bytes(at, IF at < 16 /\ Len(f.words) = 3 THEN 4 ELSE 8) \subseteq 0 .. 191
      BY <1>4 DEF Bytes
    <2> QED BY <1>3, <2>1
  <1>6. BytesRead(f) = 0 .. n - 1
    <2>1. CASE n = 0
      <3>1. Ext!Range(f.words) = {}
        BY <1>1, <2>1 DEF Len0To16Words, Ext!Range
      <3> QED BY <1>2, <2>1, <3>1
    <2>2. CASE n \in 1 .. 3
      <3>1. f.words = <<Word(0, 1), Word(n \div 2, 1), Word(n - 1, 1)>>
        BY <1>1, <2>2 DEF Len0To16Words
      <3>2. Ext!Range(f.words) = {Word(0, 1), Word(n \div 2, 1), Word(n - 1, 1)}
        BY <3>1 DEF Ext!Range
      <3>3. BytesRead(f) = Bytes(0, 1) \cup Bytes(n \div 2, 1) \cup Bytes(n - 1, 1)
        BY <1>2, <3>2 DEF Word
      <3> QED BY <2>2, <3>3 DEF Bytes
    <2>3. CASE n \in 4 .. 8
      <3>1. Ext!Range(f.words) = {Word(0, 4), Word(n - 4, 4)}
        <4>1. f.words = <<Word(n - 4, 4), Word(0, 4)>> \/ f.words = <<Word(0, 4), Word(n - 4, 4)>>
          BY <1>1, <2>3 DEF Len0To16Words
        <4> QED BY <4>1 DEF Ext!Range
      <3>2. BytesRead(f) = Bytes(0, 4) \cup Bytes(n - 4, 4)
        BY <1>2, <3>1 DEF Word
      <3> QED BY <2>3, <3>2 DEF Bytes
    <2>4. CASE n \in 9 .. 16
      <3>1. f.words = <<Word(0, 8), Word(n - 8, 8)>>
        BY <1>1, <2>4 DEF Len0To16Words
      <3>2. Ext!Range(f.words) = {Word(0, 8), Word(n - 8, 8)}
        BY <3>1 DEF Ext!Range
      <3>3. BytesRead(f) = Bytes(0, 8) \cup Bytes(n - 8, 8)
        BY <1>2, <3>2 DEF Word
      <3> QED BY <2>4, <3>3 DEF Bytes
    <2> QED BY <2>1, <2>2, <2>3, <2>4
  <1> QED BY <1>5, <1>6 DEF Covered, SecretLength, f

(* What a sum of mixes reads.                                              *)
LEMMA SumReads ==
  ASSUME NEW f, NEW S, NEW T, f = [sum |-> S, tail |-> T]
  PROVE  /\ BytesRead(f) = UNION {Bytes(m.at, 16) : m \in S \cup T}
         /\ SecretRead(f) = UNION {Bytes(m.secret, 16) : m \in S \cup T}
  <1>1. "words" \notin DOMAIN f /\ "sum" \in DOMAIN f /\ f.sum = S /\ f.tail = T
    OBVIOUS
  <1> QED BY <1>1 DEF BytesRead, SecretRead

(* What an accumulator reads.                                              *)
LEMMA AccumulatedReads ==
  ASSUME NEW f, NEW S, NEW T, f = [accumulated |-> S, tail |-> T]
  PROVE  /\ BytesRead(f) = UNION {Bytes(m.at, 16) \cup Bytes(m.second, 16) :
                                    m \in Ext!Range(S) \cup Ext!Range(T)}
         /\ SecretRead(f) = UNION {Bytes(m.secret, 32) : m \in Ext!Range(S) \cup Ext!Range(T)}
  <1>1. /\ "words" \notin DOMAIN f /\ "sum" \notin DOMAIN f /\ f.accumulated = S /\ f.tail = T
    OBVIOUS
  <1> QED BY <1>1 DEF BytesRead, SecretRead

(* Up to 128 bytes by pairs.                                               *)
LEMMA Pairs64Cover == ASSUME NEW n \in 17 .. 128 PROVE Covered(Reference64(n), n)
  <1> DEFINE Both(i) == {Mix16(16 * i, 32 * i), Mix16(n - 16 * (i + 1), 32 * i + 16)}
             f == Reference64(n)
  <1>1. PICK r \in 1 .. 4 : r = Rounds(n)
    BY PairsMeet
  <1> DEFINE S == UNION {Both(i) : i \in 0 .. r - 1}
  <1>2. f = [sum |-> S, tail |-> {}]
    BY <1>1 DEF Reference64
  <1> HIDE DEF f
  <1>3. /\ BytesRead(f) = UNION {Bytes(m.at, 16) : m \in S}
        /\ SecretRead(f) = UNION {Bytes(m.secret, 16) : m \in S}
    <2> HIDE DEF S
    <2> QED BY <1>2, SumReads
  <1>4. BytesRead(f) = 0 .. n - 1
    <2>1. UNION {Bytes(16 * (i - 1), 16) \cup Bytes(n - 16 * i, 16) : i \in 1 .. r} = 0 .. n - 1
      BY <1>1, PairsMeet
    <2>2. ASSUME NEW m \in S PROVE Bytes(m.at, 16) \subseteq 0 .. n - 1
      <3>1. PICK i \in 0 .. r - 1 : m \in Both(i)
        BY <2>2
      <3>2. m.at = 16 * i \/ m.at = n - 16 * (i + 1)
        BY <3>1 DEF Mix16
      <3>3. PICK j \in 1 .. r : j = i + 1
        OBVIOUS
      <3>4. m.at = 16 * (j - 1) \/ m.at = n - 16 * j
        BY <3>2, <3>3
      <3>5. Bytes(16 * (j - 1), 16) \cup Bytes(n - 16 * j, 16) \subseteq 0 .. n - 1
        BY <2>1
      <3> QED BY <3>4, <3>5
    <2>3. ASSUME NEW x \in 0 .. n - 1 PROVE \E m \in S : x \in Bytes(m.at, 16)
      <3>1. PICK j \in 1 .. r : x \in Bytes(16 * (j - 1), 16) \cup Bytes(n - 16 * j, 16)
        BY <2>1
      <3>2. PICK i \in 0 .. r - 1 : j = i + 1
        OBVIOUS
      <3>3. Mix16(16 * i, 32 * i) \in S /\ Mix16(n - 16 * (i + 1), 32 * i + 16) \in S
        OBVIOUS
      <3>4. /\ Mix16(16 * i, 32 * i).at = 16 * (j - 1)
            /\ Mix16(n - 16 * (i + 1), 32 * i + 16).at = n - 16 * j
        BY <3>2 DEF Mix16
      <3> HIDE DEF S
      <3> QED BY <3>1, <3>3, <3>4
    <2> HIDE DEF S
    <2> QED BY <1>3, <2>2, <2>3
  <1>5. SecretRead(f) \subseteq 0 .. 191
    <2>1. ASSUME NEW m \in S PROVE Bytes(m.secret, 16) \subseteq 0 .. 191
      <3>1. PICK i \in 0 .. 3 : m \in Both(i)
        BY <2>1
      <3>2. m.secret = 32 * i \/ m.secret = 32 * i + 16
        BY <3>1 DEF Mix16
      <3>3. m.secret \in 0 .. 112
        BY <3>2
      <3> QED BY <3>3 DEF Bytes
    <2> HIDE DEF S
    <2> QED BY <1>3, <2>1
  <1> QED BY <1>4, <1>5 DEF Covered, SecretLength, f

(* Both halves of a pair are one mix of the 128-bit accumulator.          *)
LEMMA Pairs128Cover == ASSUME NEW n \in 17 .. 128 PROVE Covered(Reference128(n), n)
  <1> DEFINE Round(i) == Mix32(16 * (i - 1), n - 16 * i, 32 * (i - 1))
             f == Reference128(n)
  <1>1. PICK r \in 1 .. 4 : r = Rounds(n)
    BY PairsMeet
  <1> DEFINE Inwards == Ext!Reverse([i \in 1 .. r |-> Round(i)])
             S == {Round(i) : i \in 1 .. r}
  <1>2. f = [accumulated |-> Inwards, tail |-> <<>>]
    BY <1>1 DEF Reference128
  <1>3. Ext!Range(Inwards) = S /\ Ext!Range(<<>>) = {}
    <2>1. Inwards = [i \in 1 .. r |-> Round(r - i + 1)]
      <3>1. Len([i \in 1 .. r |-> Round(i)]) = r
        OBVIOUS
      <3> QED BY <3>1 DEF Ext!Reverse
    <2> HIDE DEF Round
    <2>2. \A i \in 1 .. r : r - i + 1 \in 1 .. r /\ r - (r - i + 1) + 1 = i
      OBVIOUS
    <2>3. Ext!Range(Inwards) = {Round(r - i + 1) : i \in 1 .. r}
      BY <2>1 DEF Ext!Range
    <2>4. \A i \in 1 .. r : Round(i) = Round(r - (r - i + 1) + 1)
      BY <2>2
    <2>5. Ext!Range(<<>>) = {}
      BY DEF Ext!Range
    <2> QED BY <2>2, <2>3, <2>4, <2>5
  <1> HIDE DEF f, Inwards
  <1>4. /\ BytesRead(f) = UNION {Bytes(m.at, 16) \cup Bytes(m.second, 16) : m \in S}
        /\ SecretRead(f) = UNION {Bytes(m.secret, 32) : m \in S}
    <2> HIDE DEF S
    <2> QED BY <1>2, <1>3, AccumulatedReads
  <1>5. \A i \in 1 .. r : /\ Round(i).at = 16 * (i - 1) /\ Round(i).second = n - 16 * i
                          /\ Round(i).secret = 32 * (i - 1)
    BY DEF Mix32
  <1> HIDE DEF Round
  <1>6. BytesRead(f) = 0 .. n - 1
    <2>1. UNION {Bytes(16 * (i - 1), 16) \cup Bytes(n - 16 * i, 16) : i \in 1 .. r} = 0 .. n - 1
      BY <1>1, PairsMeet
    <2> DEFINE P(m) == Bytes(m.at, 16) \cup Bytes(m.second, 16)
               Q(i) == Bytes(16 * (i - 1), 16) \cup Bytes(n - 16 * i, 16)
    <2>2. \A i \in 1 .. r : P(Round(i)) = Q(i)
      BY <1>5
    <2>3. BytesRead(f) = UNION {P(m) : m \in S} /\ UNION {Q(i) : i \in 1 .. r} = 0 .. n - 1
      BY <1>4, <2>1
    <2> HIDE DEF P, Q
    <2>4. {P(m) : m \in S} = {Q(i) : i \in 1 .. r}
      BY <2>2
    <2> QED BY <2>3, <2>4
  <1>7. SecretRead(f) \subseteq 0 .. 191
    <2>1. ASSUME NEW i \in 1 .. r PROVE Bytes(Round(i).secret, 32) \subseteq 0 .. 191
      <3>1. Round(i).secret \in 0 .. 96
        BY <1>5
      <3> QED BY <3>1 DEF Bytes
    <2> QED BY <1>4, <2>1
  <1> QED BY <1>6, <1>7 DEF Covered, SecretLength, f

(* The whole chunks and the last bytes, which overlap them.                *)
LEMMA Chunks64Cover == ASSUME NEW n \in 129 .. 240 PROVE Covered(Xxh3_64Len129To240(n), n)
  <1> DEFINE S == {Mix16(16 * i, 16 * i) : i \in 0 .. 7}
             T == {Mix16(16 * i, 3 + 16 * (i - 8)) : i \in Chunks64(n)} \cup {Mix16(n - 16, 119)}
             f == Xxh3_64Len129To240(n)
  <1>1. f = [sum |-> S, tail |-> T]
    BY DEF Xxh3_64Len129To240
  <1> HIDE DEF f
  <1>2. /\ BytesRead(f) = UNION {Bytes(m.at, 16) : m \in S \cup T}
        /\ SecretRead(f) = UNION {Bytes(m.secret, 16) : m \in S \cup T}
    <2> HIDE DEF S, T
    <2> QED BY <1>1, SumReads
  <1>3. PICK q \in 8 .. 15 : q = n \div 16 /\ 16 * q <= n /\ n < 16 * q + 16 /\ Chunks64(n) = 8 .. q - 1
    BY DEF Chunks64
  <1>4. ASSUME NEW m \in S \cup T
        PROVE  Bytes(m.at, 16) \subseteq 0 .. n - 1 /\ Bytes(m.secret, 16) \subseteq 0 .. 191
    <2>1. \/ \E i \in 0 .. 7 : m = Mix16(16 * i, 16 * i)
          \/ \E i \in 8 .. q - 1 : m = Mix16(16 * i, 3 + 16 * (i - 8))
          \/ m = Mix16(n - 16, 119)
      BY <1>3, <1>4
    <2>2. \/ \E i \in 0 .. 7 : m.at = 16 * i /\ m.secret = 16 * i
          \/ \E i \in 8 .. q - 1 : m.at = 16 * i /\ m.secret = 3 + 16 * (i - 8)
          \/ m.at = n - 16 /\ m.secret = 119
      BY <2>1 DEF Mix16
    <2>3. m.at \in 0 .. n - 16 /\ m.secret \in 0 .. 175
      <3>1. CASE \E i \in 0 .. 7 : m.at = 16 * i /\ m.secret = 16 * i
        BY <3>1
      <3>2. CASE \E i \in 8 .. q - 1 : m.at = 16 * i /\ m.secret = 3 + 16 * (i - 8)
        <4>1. PICK i \in 8 .. q - 1 : m.at = 16 * i /\ m.secret = 3 + 16 * (i - 8)
          BY <3>2
        <4>2. 16 * q <= n
          BY <1>3
        <4>3. i \in 8 .. 14 /\ i + 1 <= q
          OBVIOUS
        <4>4. 16 * i + 16 <= n
          BY <4>2, <4>3
        <4> QED BY <4>1, <4>3, <4>4
      <3>3. CASE m.at = n - 16 /\ m.secret = 119
        BY <3>3
      <3> QED BY <2>2, <3>1, <3>2, <3>3
    <2> QED BY <2>3 DEF Bytes
  <1>5. ASSUME NEW x \in 0 .. n - 1 PROVE \E m \in S \cup T : x \in Bytes(m.at, 16)
    <2>1. PICK i \in Nat : i = x \div 16
      OBVIOUS
    <2>2. 16 * i <= x /\ x < 16 * i + 16
      BY <2>1
    <2>3. CASE i <= 7
      <3>1. Mix16(16 * i, 16 * i) \in S
        BY <2>3
      <3>2. x \in Bytes(Mix16(16 * i, 16 * i).at, 16)
        BY <2>2 DEF Mix16, Bytes
      <3> HIDE DEF S
      <3> QED BY <3>1, <3>2
    <2>4. CASE i \in 8 .. q - 1
      <3>1. Mix16(16 * i, 3 + 16 * (i - 8)) \in T
        BY <1>3, <2>4
      <3>2. x \in Bytes(Mix16(16 * i, 3 + 16 * (i - 8)).at, 16)
        BY <2>2 DEF Mix16, Bytes
      <3> HIDE DEF T
      <3> QED BY <3>1, <3>2
    <2>5. CASE i >= q
      <3>1. Mix16(n - 16, 119) \in T
        OBVIOUS
      <3>2. x >= n - 16
        BY <1>3, <2>2, <2>5
      <3>3. x \in Bytes(Mix16(n - 16, 119).at, 16)
        BY <3>2 DEF Mix16, Bytes
      <3> HIDE DEF T
      <3> QED BY <3>1, <3>3
    <2> QED BY <1>3, <2>1, <2>3, <2>4, <2>5
  <1> HIDE DEF S, T
  <1>6. BytesRead(f) = 0 .. n - 1
    BY <1>2, <1>4, <1>5
  <1>7. SecretRead(f) \subseteq 0 .. 191
    BY <1>2, <1>4
  <1> QED BY <1>6, <1>7 DEF Covered, SecretLength, f

(* In the 128-bit formula the chunks are pairs of 16 bytes.                *)
LEMMA Chunks128Cover == ASSUME NEW n \in 129 .. 240 PROVE Covered(Xxh3_128Len129To240(n), n)
  <1> DEFINE q == n \div 32
             A(i) == Mix32(32 * (i - 1), 32 * (i - 1) + 16, 32 * (i - 1))
             B(i) == Mix32(32 * (i + 3), 32 * (i + 3) + 16, 3 + 32 * (i - 1))
             E == Negated(Mix32(n - 16, n - 32, 103))
             S == [i \in 1 .. 4 |-> A(i)]
             T == [i \in 1 .. q - 4 |-> B(i)] \o <<E>>
             f == Xxh3_128Len129To240(n)
  <1>1. f = [accumulated |-> S, tail |-> T]
    BY DEF Xxh3_128Len129To240
  <1>2. q \in 4 .. 7 /\ 32 * q <= n /\ n < 32 * q + 32
    OBVIOUS
  <1> HIDE DEF f, q
  <1>3. \A i \in 1 .. 4 : A(i).at = 32 * (i - 1) /\ A(i).second = 32 * (i - 1) + 16 /\ A(i).secret = 32 * (i - 1)
    BY DEF Mix32
  <1>4. \A i \in 1 .. q - 4 : /\ B(i).at = 32 * (i + 3) /\ B(i).second = 32 * (i + 3) + 16
                              /\ B(i).secret = 3 + 32 * (i - 1)
    BY DEF Mix32
  <1>5. E.at = n - 16 /\ E.second = n - 32 /\ E.secret = 103
    BY DEF Negated, Mix32
  <1> HIDE DEF A, B, E
  <1>6. Ext!Range(S) = {A(i) : i \in 1 .. 4}
    BY DEF Ext!Range
  <1>7. Ext!Range(T) = {B(i) : i \in 1 .. q - 4} \cup {E}
    <2> DEFINE s == [i \in 1 .. q - 4 |-> B(i)]
               V == {B(i) : i \in 1 .. q - 4} \cup {E}
    <2>1. s \in Seq(V) /\ Len(s) = q - 4 /\ <<E>> \in Seq(V) /\ Len(<<E>>) = 1 /\ <<E>>[1] = E
      <3>1. \A i \in 1 .. q - 4 : B(i) \in V
        OBVIOUS
      <3>2. E \in V /\ q - 4 \in Nat
        BY <1>2
      <3> HIDE DEF V
      <3> QED BY <3>1, <3>2
    <2>2. /\ T \in Seq(V) /\ Len(T) = q - 4 + 1
          /\ \A i \in 1 .. q - 4 + 1 : T[i] = IF i <= q - 4 THEN s[i] ELSE <<E>>[i - (q - 4)]
      <3>1. T = s \o <<E>>
        OBVIOUS
      <3> HIDE DEF V, s, T
      <3> QED BY <2>1, <3>1, ConcatProperties
    <2>3. DOMAIN T = 1 .. q - 4 + 1
      <3> HIDE DEF V, s, T
      <3> QED BY <2>2
    <2>4. (\A i \in 1 .. q - 4 : T[i] = B(i)) /\ T[q - 4 + 1] = E
      <3>1. \A i \in 1 .. q - 4 : s[i] = B(i)
        OBVIOUS
      <3> HIDE DEF V, s, T
      <3>2. PICK p \in 0 .. 3 : p = q - 4
        BY <1>2
      <3>3. \A i \in 1 .. p + 1 : T[i] = IF i <= p THEN s[i] ELSE <<E>>[i - p]
        BY <2>2, <3>2
      <3>4. T[p + 1] = <<E>>[1]
        <4>1. p + 1 \in 1 .. p + 1 /\ ~(p + 1 <= p) /\ p + 1 - p = 1
          OBVIOUS
        <4> QED BY <3>3, <4>1
      <3>5. \A i \in 1 .. p : T[i] = s[i]
        BY <3>3
      <3> QED BY <2>1, <3>1, <3>2, <3>4, <3>5
    <2>5. \A i \in 1 .. q - 4 + 1 : i \in 1 .. q - 4 \/ i = q - 4 + 1
      BY <1>2
    <2> HIDE DEF T
    <2>6. Ext!Range(T) = {T[i] : i \in 1 .. q - 4 + 1}
      BY <2>3 DEF Ext!Range
    <2>7. q - 4 + 1 \in 1 .. q - 4 + 1 /\ \A i \in 1 .. q - 4 : i \in 1 .. q - 4 + 1
      BY <1>2
    <2> QED BY <2>4, <2>5, <2>6, <2>7
  <1> DEFINE P(m) == Bytes(m.at, 16) \cup Bytes(m.second, 16)
             M == {A(i) : i \in 1 .. 4} \cup {B(i) : i \in 1 .. q - 4} \cup {E}
  <1>8. /\ BytesRead(f) = UNION {P(m) : m \in M}
        /\ SecretRead(f) = UNION {Bytes(m.secret, 32) : m \in M}
    <2>1. M = Ext!Range(S) \cup Ext!Range(T)
      BY <1>6, <1>7
    <2> HIDE DEF S, T, M
    <2> QED BY <1>1, <2>1, AccumulatedReads
  <1>9. ASSUME NEW m \in M PROVE P(m) \subseteq 0 .. n - 1 /\ Bytes(m.secret, 32) \subseteq 0 .. 191
    <2>1. \/ \E i \in 1 .. 4 : m = A(i)
          \/ \E i \in 1 .. q - 4 : m = B(i)
          \/ m = E
      BY <1>9
    <2>2. m.at \in 0 .. n - 16 /\ m.second \in 0 .. n - 16 /\ m.secret \in 0 .. 160
      <3>1. CASE \E i \in 1 .. 4 : m = A(i)
        BY <1>3, <3>1
      <3>2. CASE \E i \in 1 .. q - 4 : m = B(i)
        BY <1>2, <1>4, <3>2, SMTT(30)
      <3>3. CASE m = E
        BY <1>5, <3>3
      <3> QED BY <2>1, <3>1, <3>2, <3>3
    <2> QED BY <2>2 DEF Bytes
  <1>10. ASSUME NEW x \in 0 .. n - 1 PROVE \E m \in M : x \in P(m)
    <2>1. PICK k \in Nat : k = x \div 32
      OBVIOUS
    <2>2. 32 * k <= x /\ x < 32 * k + 32
      BY <2>1
    <2>3. CASE k <= 3
      <3>1. PICK i \in 1 .. 4 : k = i - 1
        <4>1. k + 1 \in 1 .. 4 /\ k = (k + 1) - 1
          BY <2>3
        <4> QED BY <4>1
      <3>2. A(i).at = 32 * k /\ A(i).second = 32 * k + 16 /\ A(i) \in M
        BY <1>3, <3>1
      <3>3. x \in P(A(i))
        BY <2>2, <3>2 DEF Bytes
      <3> HIDE DEF P, M
      <3> QED BY <3>2, <3>3
    <2>4. CASE k \in 4 .. q - 1
      <3>1. PICK i \in 1 .. q - 4 : k = i + 3
        <4>1. k - 3 \in 1 .. q - 4 /\ k = (k - 3) + 3
          BY <1>2, <2>4
        <4> QED BY <4>1
      <3>2. B(i).at = 32 * k /\ B(i).second = 32 * k + 16 /\ B(i) \in M
        BY <1>4, <3>1
      <3>3. x \in P(B(i))
        BY <2>2, <3>2 DEF Bytes
      <3> HIDE DEF P, M
      <3> QED BY <3>2, <3>3
    <2>5. CASE k >= q
      <3>1. x >= n - 32
        BY <1>2, <2>2, <2>5
      <3>2. x \in P(E) /\ E \in M
        BY <1>5, <3>1 DEF Bytes
      <3> HIDE DEF P, M
      <3> QED BY <3>2
    <2> QED BY <1>2, <2>1, <2>3, <2>4, <2>5
  <1> HIDE DEF P, M
  <1>11. BytesRead(f) = 0 .. n - 1
    BY <1>8, <1>9, <1>10
  <1>12. SecretRead(f) \subseteq 0 .. 191
    BY <1>8, <1>9
  <1> QED BY <1>11, <1>12 DEF Covered, SecretLength, f

(* Every formula the code runs covers its input.                           *)
LEMMA ShortCovers ==
  ASSUME NEW width \in {64, 128}, NEW n \in 0 .. 240
  PROVE  Covered(Short(width, n), n)
  <1>1. CASE n <= 16
    <2>1. Short(width, n) = Len0To16(width, n)
      BY <1>1 DEF Short, Short64, Short128
    <2> QED BY <1>1, <2>1, WordsCover
  <1>2. CASE n \in 17 .. 128
    <2>1. Short(width, n) = IF width = 64 THEN Reference64(n) ELSE Reference128(n)
      BY <1>2, ShortIsReference DEF ShortReference
    <2> QED BY <1>2, <2>1, Pairs64Cover, Pairs128Cover
  <1>3. CASE n \in 129 .. 240
    <2>1. Short(width, n) = IF width = 64 THEN Xxh3_64Len129To240(n) ELSE Xxh3_128Len129To240(n)
      BY <1>3 DEF Short, Short64, Short128
    <2> QED BY <1>3, <2>1, Chunks64Cover, Chunks128Cover
  <1> QED BY <1>1, <1>2, <1>3

(* Every byte of a short input is read by its formula, and none outside    *)
(* the input or the secret (short_inputs.rs).                              *)
THEOREM ShortInputsHold == Spec => []ShortInputsCovered
  <1>1. IInv => ShortInputsCovered
    <2> SUFFICES ASSUME IInv, NEW k \in DOMAIN digests, ~IsLong(inputs[k])
                 PROVE  Covered(digests[k].formula, inputs[k])
      BY DEF ShortInputsCovered, Covered
    <2>1. /\ Inputs = 1 .. Len(inputs) /\ Len(inputs) \in Nat /\ call.width \in {64, 128}
          /\ \A i \in Inputs : inputs[i] \in Nat
      BY CallType DEF IInv
    <2>2. digests = [i \in 1 .. index - 1 |-> Reference(i)] /\ index \in 1 .. Len(inputs) + 1
      BY DEF IInv
    <2>3. k \in Inputs /\ digests[k] = Reference(k)
      BY <2>1, <2>2
    <2>4. PICK n \in 0 .. 240 : n = inputs[k]
      <3>1. PICK n \in Nat : n = inputs[k]
        BY <2>1, <2>3
      <3>2. ~IsLong(n)
        BY <3>1
      <3> QED BY <3>1, <3>2 DEF IsLong
    <2>5. digests[k].formula = ShortReference(call.width, n)
      <3>1. inputs[k] <= 240
        BY <2>4
      <3> QED BY <2>3, <2>4, <3>1 DEF Reference
    <2>6. digests[k].formula = Short(call.width, n)
      BY <2>1, <2>5, ShortIsReference, ZenonT(60)
    <2>7. Covered(Short(call.width, n), n)
      BY <2>1, ShortCovers, ZenonT(60)
    <2> QED BY <2>4, <2>6, <2>7
  <1> QED BY <1>1, InvariantHolds, PTL
==============================================================================
