----------------------- MODULE ConfiguredDecodeProofs ----------------------
(***************************************************************************)
(* What a configured decode writes is the decoding of all the symbols it   *)
(* pushed, in order, for every capacity of the staging buffer, every way   *)
(* the symbols fall into runs and every translation of them. It stores     *)
(* nothing past the length reserved for it, because a symbol that decodes  *)
(* comes from a place in the input at least as far as its own, and its two *)
(* passes agree, because what a pass counts is a function of how far it    *)
(* has scanned, and both end at the same place.                            *)
(***************************************************************************)
EXTENDS ConfiguredDecode, SequenceTheorems, FiniteSetTheorems, WellFoundedInduction, NaturalsInduction, TLAPS

LEMMA CapacityFacts == Capacity \in Nat /\ Capacity > 0 /\ Capacity % 4 = 0
  BY StagingWriterAssumption

(* What is where in the concatenation of two sequences.                    *)
LEMMA ConcatFacts ==
  ASSUME NEW U, NEW a \in Seq(U), NEW b \in Seq(U)
  PROVE  /\ a \o b \in Seq(U)
         /\ Len(a \o b) = Len(a) + Len(b)
         /\ Len(a) \in Nat /\ Len(b) \in Nat
         /\ \A k \in 1 .. Len(a) : (a \o b)[k] = a[k]
         /\ \A j \in 1 .. Len(b) : (a \o b)[Len(a) + j] = b[j]
  OBVIOUS

(* The decoded length, and the symbols of a decoded byte.                  *)
LEMMA DecodedLenFacts ==
  ASSUME NEW n \in Nat
  PROVE  /\ DecodedSymbolLen(n) \in Nat
         /\ \A k \in 1 .. DecodedSymbolLen(n) : SymbolOf(k) \in 1 .. n /\ SymbolOf(k) + 1 \in 1 .. n
  BY SMT DEF DecodedSymbolLen, SymbolOf

LEMMA DecodedLenAdds ==
  ASSUME NEW n \in Nat, NEW m \in Nat, n % 4 = 0
  PROVE  /\ DecodedSymbolLen(n + m) = DecodedSymbolLen(n) + DecodedSymbolLen(m)
         /\ \A k \in 1 .. DecodedSymbolLen(m) : SymbolOf(DecodedSymbolLen(n) + k) = n + SymbolOf(k)
  BY SMT DEF DecodedSymbolLen, SymbolOf

Pairs(T) == T \X T

LEMMA DecodedType ==
  ASSUME NEW T, NEW s \in Seq(T)
  PROVE  /\ Decoded(s) \in Seq(Pairs(T))
         /\ Len(Decoded(s)) = DecodedSymbolLen(Len(s))
<1>1. Len(s) \in Nat /\ DecodedSymbolLen(Len(s)) \in Nat
  BY DecodedLenFacts
<1>2. \A k \in 1 .. DecodedSymbolLen(Len(s)) : <<s[SymbolOf(k)], s[SymbolOf(k) + 1]>> \in T \X T
  BY <1>1, DecodedLenFacts, ElementOfSeq
<1>3. QED
  BY <1>1, <1>2 DEF Decoded, Pairs

(* Decoding whole quads and then the rest is decoding all of it.           *)
LEMMA DecodedConcat ==
  ASSUME NEW T, NEW s \in Seq(T), NEW t \in Seq(T), Len(s) % 4 = 0
  PROVE  Decoded(s) \o Decoded(t) = Decoded(s \o t)
<1> DEFINE n == Len(s)
           m == Len(t)
           whole == Decoded(s) \o Decoded(t)
<1>1. n \in Nat /\ m \in Nat /\ s \o t \in Seq(T) /\ Len(s \o t) = n + m
  OBVIOUS
<1>2. /\ DecodedSymbolLen(n) \in Nat /\ DecodedSymbolLen(m) \in Nat
      /\ DecodedSymbolLen(n + m) = DecodedSymbolLen(n) + DecodedSymbolLen(m)
  BY <1>1, DecodedLenFacts, DecodedLenAdds
<1>3. /\ Decoded(s) \in Seq(Pairs(T)) /\ Len(Decoded(s)) = DecodedSymbolLen(n)
      /\ Decoded(t) \in Seq(Pairs(T)) /\ Len(Decoded(t)) = DecodedSymbolLen(m)
      /\ Decoded(s \o t) \in Seq(Pairs(T)) /\ Len(Decoded(s \o t)) = DecodedSymbolLen(n + m)
  BY <1>1, DecodedType
<1>4. /\ whole \in Seq(Pairs(T)) /\ Len(whole) = Len(Decoded(s \o t))
      /\ \A k \in 1 .. DecodedSymbolLen(n) : whole[k] = Decoded(s)[k]
      /\ \A j \in 1 .. DecodedSymbolLen(m) : whole[DecodedSymbolLen(n) + j] = Decoded(t)[j]
  <2>1. \A a, b \in Seq(Pairs(T)) :
          /\ a \o b \in Seq(Pairs(T)) /\ Len(a \o b) = Len(a) + Len(b)
          /\ \A k \in 1 .. Len(a) : (a \o b)[k] = a[k]
          /\ \A j \in 1 .. Len(b) : (a \o b)[Len(a) + j] = b[j]
    BY ConcatFacts
  <2> DEFINE a == Decoded(s)
             b == Decoded(t)
  <2>2. a \in Seq(Pairs(T)) /\ b \in Seq(Pairs(T)) /\ whole = a \o b
    BY <1>3
  <2>3. Len(a) = DecodedSymbolLen(n) /\ Len(b) = DecodedSymbolLen(m)
    BY <1>3
  <2> HIDE DEF a, b, whole
  <2>4. /\ whole \in Seq(Pairs(T)) /\ Len(whole) = Len(a) + Len(b)
        /\ \A k \in 1 .. Len(a) : whole[k] = a[k]
        /\ \A j \in 1 .. Len(b) : whole[Len(a) + j] = b[j]
    BY <2>1, <2>2
  <2>5. Len(whole) = Len(Decoded(s \o t))
    BY <2>3, <2>4, <1>2, <1>3
  <2>6. QED
    BY <2>3, <2>4, <2>5 DEF a, b
<1>7. whole = Decoded(s) \o Decoded(t)
  OBVIOUS
<1> HIDE DEF whole
<1>5. ASSUME NEW k \in 1 .. Len(whole) PROVE whole[k] = Decoded(s \o t)[k]
  <2>1. k \in 1 .. DecodedSymbolLen(n + m)
    BY <1>3, <1>4
  <2>2. Decoded(s \o t)[k] = <<(s \o t)[SymbolOf(k)], (s \o t)[SymbolOf(k) + 1]>>
    BY <1>1, <2>1 DEF Decoded
  <2>3. CASE k <= DecodedSymbolLen(n)
    <3>1. k \in 1 .. DecodedSymbolLen(n)
      BY <2>1, <2>3, <1>2
    <3>2. SymbolOf(k) \in 1 .. n /\ SymbolOf(k) + 1 \in 1 .. n
      BY <3>1, <1>1, DecodedLenFacts
    <3>3. /\ (s \o t)[SymbolOf(k)] = s[SymbolOf(k)]
          /\ (s \o t)[SymbolOf(k) + 1] = s[SymbolOf(k) + 1]
      BY <3>2, <1>1, ConcatProperties
    <3>4. Decoded(s)[k] = <<s[SymbolOf(k)], s[SymbolOf(k) + 1]>>
      BY <3>1 DEF Decoded
    <3>5. whole[k] = Decoded(s)[k]
      BY <3>1, <1>4
    <3>6. QED
      BY <2>2, <3>3, <3>4, <3>5
  <2>4. CASE k > DecodedSymbolLen(n)
    <3> DEFINE j == k - DecodedSymbolLen(n)
    <3>1. j \in 1 .. DecodedSymbolLen(m) /\ k = DecodedSymbolLen(n) + j
      BY <2>1, <2>4, <1>2
    <3> HIDE DEF j
    <3>2. SymbolOf(j) \in 1 .. m /\ SymbolOf(j) + 1 \in 1 .. m /\ SymbolOf(k) = n + SymbolOf(j)
      BY <3>1, <1>1, DecodedLenFacts, DecodedLenAdds
    <3>3. /\ (s \o t)[n + SymbolOf(j)] = t[SymbolOf(j)]
          /\ (s \o t)[n + (SymbolOf(j) + 1)] = t[SymbolOf(j) + 1]
      BY <3>2, ConcatFacts
    <3>7. SymbolOf(k) + 1 = n + (SymbolOf(j) + 1)
      BY <3>2, <1>1
    <3>4. Decoded(t)[j] = <<t[SymbolOf(j)], t[SymbolOf(j) + 1]>>
      BY <3>1 DEF Decoded
    <3>5. whole[k] = Decoded(t)[j]
      BY <3>1, <1>4
    <3>6. QED
      BY <2>2, <3>2, <3>3, <3>4, <3>5, <3>7
  <2>5. QED
    BY <2>3, <2>4, <2>1, <1>2
<1>8. \A a, b \in Seq(Pairs(T)) :
        Len(a) = Len(b) /\ (\A k \in 1 .. Len(a) : a[k] = b[k]) => a = b
  BY SeqEqual
<1> DEFINE decodedWhole == Decoded(s \o t)
<1>9. decodedWhole \in Seq(Pairs(T)) /\ Len(whole) = Len(decodedWhole)
      /\ \A k \in 1 .. Len(whole) : whole[k] = decodedWhole[k]
  BY <1>3, <1>4, <1>5
<1> HIDE DEF decodedWhole
<1>10. whole = decodedWhole
  BY <1>4, <1>8, <1>9
<1>11. QED
  BY <1>7, <1>10 DEF decodedWhole

(* Sequences mapped by any function.                                       *)
Mapped(f, s) == [k \in DOMAIN s |-> f[s[k]]]
Images(f) == {f[b] : b \in Byte}

LEMMA MappedType ==
  ASSUME NEW f, NEW s \in Seq(Byte)
  PROVE  /\ Mapped(f, s) \in Seq(Images(f))
         /\ Len(Mapped(f, s)) = Len(s)
<1>1. Len(s) \in Nat /\ DOMAIN s = 1 .. Len(s)
  OBVIOUS
<1>2. \A k \in 1 .. Len(s) : f[s[k]] \in Images(f)
  BY <1>1, ElementOfSeq DEF Images
<1>3. Mapped(f, s) = [k \in 1 .. Len(s) |-> f[s[k]]]
  BY <1>1 DEF Mapped
<1>4. QED
  BY <1>1, <1>2, <1>3

LEMMA MappedConcat ==
  ASSUME NEW f, NEW s \in Seq(Byte), NEW t \in Seq(Byte)
  PROVE  Mapped(f, s) \o Mapped(f, t) = Mapped(f, s \o t)
<1>1. /\ Mapped(f, s) \in Seq(Images(f)) /\ Len(Mapped(f, s)) = Len(s)
      /\ Mapped(f, t) \in Seq(Images(f)) /\ Len(Mapped(f, t)) = Len(t)
      /\ s \o t \in Seq(Byte) /\ Len(s \o t) = Len(s) + Len(t)
      /\ Len(s) \in Nat /\ Len(t) \in Nat
  BY MappedType
<1>2. Mapped(f, s \o t) \in Seq(Images(f)) /\ Len(Mapped(f, s \o t)) = Len(s) + Len(t)
  BY <1>1, MappedType
<1> DEFINE whole == Mapped(f, s) \o Mapped(f, t)
<1>3. whole \in Seq(Images(f)) /\ Len(whole) = Len(s) + Len(t)
  BY <1>1
<1>4. ASSUME NEW k \in 1 .. Len(whole) PROVE whole[k] = Mapped(f, s \o t)[k]
  <2>1. Mapped(f, s \o t)[k] = f[(s \o t)[k]]
    BY <1>1, <1>3 DEF Mapped
  <2>2. CASE k <= Len(s)
    <3>1. (s \o t)[k] = s[k] /\ k \in DOMAIN s
      BY <2>2, <1>1, <1>3
    <3>2. whole[k] = Mapped(f, s)[k] /\ Mapped(f, s)[k] = f[s[k]]
      BY <2>2, <1>1, <1>3, <3>1, ConcatProperties DEF Mapped
    <3>3. QED
      BY <2>1, <3>1, <3>2
  <2>3. CASE k > Len(s)
    <3>1. (s \o t)[k] = t[k - Len(s)] /\ k - Len(s) \in DOMAIN t
      BY <2>3, <1>1, <1>3
    <3>2. whole[k] = Mapped(f, t)[k - Len(s)] /\ Mapped(f, t)[k - Len(s)] = f[t[k - Len(s)]]
      BY <2>3, <1>1, <1>3, <3>1, ConcatProperties DEF Mapped
    <3>3. QED
      BY <2>1, <3>1, <3>2
  <2>4. QED
    BY <2>2, <2>3, <1>1, <1>3
<1>5. QED
  BY <1>2, <1>3, <1>4, SeqEqual

LEMMA TranslateIsMapped == \A s : Translate(s) = Mapped(translation, s)
  BY DEF Translate, Mapped

LEMMA UntranslatedKeeps ==
  ASSUME NEW s \in Seq(Byte)
  PROVE  Mapped(Untranslated, s) = s
<1>1. DOMAIN s = 1 .. Len(s) /\ \A k \in DOMAIN s : s[k] \in Byte
  BY ElementOfSeq
<1>2. Mapped(Untranslated, s) = [k \in DOMAIN s |-> s[k]]
  BY <1>1 DEF Mapped, Untranslated
<1>3. QED
  BY <1>2

(* The part of a sequence a run is cut from.                               *)
LEMMA PartType ==
  ASSUME NEW s \in Seq(Byte), NEW from \in 1 .. Len(s) + 1, NEW to \in 0 .. Len(s)
  PROVE  SubSeq(s, from, to) \in Seq(Byte)
  OBVIOUS

LEMMA TakeFacts ==
  ASSUME NEW s \in Seq(Byte), NEW n \in 0 .. Len(s)
  PROVE  /\ Take(s, n) \in Seq(Byte) /\ Len(Take(s, n)) = n
         /\ \A k \in 1 .. n : Take(s, n)[k] = s[k]
  BY DEF Take

LEMMA DropFacts ==
  ASSUME NEW s \in Seq(Byte), NEW n \in 0 .. Len(s)
  PROVE  /\ Drop(s, n) \in Seq(Byte) /\ Len(Drop(s, n)) = Len(s) - n
         /\ \A k \in 1 .. Len(s) - n : Drop(s, n)[k] = s[n + k]
  BY DEF Drop

(* A search ends after where it began and at most after the last byte.     *)
LEMMA FirstFromRange ==
  ASSUME NEW s \in Seq(Byte), NEW from \in 0 .. Len(s), NEW bytes
  PROVE  FirstFrom(s, from, bytes) \in from + 1 .. Len(s) + 1
<1> DEFINE Hits == {i \in Nat : i \in from + 1 .. Len(s) /\ s[i] \in bytes}
<1>0. Len(s) \in Nat
  OBVIOUS
<1>1. CASE \E i \in from + 1 .. Len(s) : s[i] \in bytes
  <2>1. Hits \subseteq Nat /\ Hits # {}
    BY <1>1, <1>0
  <2>2. IsWellFoundedOn(OpToRel(<, Nat), Nat)
    BY NatLessThanWellFounded
  <2> HIDE DEF Hits
  <2>3. PICK i \in Hits : \A j \in Hits : ~(<<j, i>> \in OpToRel(<, Nat))
    BY <2>1, <2>2, WFMin
  <2>4. \A j \in Hits : ~(j < i)
    BY <2>1, <2>3 DEF OpToRel
  <2>5. i \in from + 1 .. Len(s) /\ s[i] \in bytes
    BY DEF Hits
  <2>6. \A j \in from + 1 .. i - 1 : s[j] \notin bytes
    BY <1>0, <2>4, <2>5 DEF Hits
  <2>7. FirstFrom(s, from, bytes) \in from + 1 .. Len(s)
    BY <1>1, <2>5, <2>6 DEF FirstFrom
  <2>8. QED
    BY <1>0, <2>7
<1>2. CASE ~(\E i \in from + 1 .. Len(s) : s[i] \in bytes)
  BY <1>2, <1>0 DEF FirstFrom
<1>3. QED
  BY <1>1, <1>2

(* A value in a table is that of a byte of the standard alphabet.          *)
LEMMA TableValues ==
  ASSUME NEW c \in Calls, NEW b \in Byte, NewDecoder(c.policy).table[b] < 64
  PROVE  StandardByte(NewDecoder(c.policy).table[b]) \in Byte
<1> DEFINE p == c.policy
           value == NewDecoder(p).table[b]
<1>1. /\ StandardValue \in [Standard -> 0 .. 63] /\ Standard \subseteq Byte
      /\ Plus \in Standard /\ Slash \in Standard
      /\ StandardValue[Plus] = 62 /\ StandardValue[Slash] = 63
      /\ Range(p.alphabet) \subseteq Range(StandardValue)
  BY ConfiguredDecodeAssumption, StagingWriterAssumption
<1>2. value = DecodeTable(p)[b]
  BY DEF NewDecoder
<1>3. \A v : OrIgnored(p, b, v) < 64 => OrIgnored(p, b, v) = v
  BY DEF OrIgnored, IGNORED
<1>4. value \in Range(StandardValue)
  <2>0. value < 64
    OBVIOUS
  <2> HIDE DEF value
  <2>1. \A x \in Standard : StandardValue[x] \in Range(StandardValue)
    BY <1>1 DEF Range
  <2>2. 62 \in Range(StandardValue) /\ 63 \in Range(StandardValue)
    BY <1>1, <2>1
  <2>3. CASE p.alphabet # None
    <3>1. \A x \in DOMAIN p.alphabet : p.alphabet[x] \in Range(p.alphabet)
      BY DEF Range
    <3>2. QED
      BY <1>1, <1>2, <1>3, <2>0, <2>3, <3>1 DEF DecodeTable, INVALID
  <2>4. CASE p.alphabet = None
    BY <1>1, <1>2, <1>3, <2>0, <2>1, <2>2, <2>4 DEF DecodeTable, INVALID
  <2>5. QED
    BY <2>3, <2>4
<1>5. \E x \in Standard : StandardValue[x] = value
  BY <1>1, <1>4 DEF Range
<1>6. StandardByte(value) \in Standard
  BY <1>5 DEF StandardByte
<1>7. QED
  BY <1>1, <1>6
-----------------------------------------------------------------------------
(* The sink.                                                               *)
SinkTypes ==
  /\ pending \in Seq(Byte) /\ staging \in Seq(Byte) /\ pushed \in Seq(Byte)
  /\ writes \in BOOLEAN /\ error \in BOOLEAN

SinkInv == SinkTypes /\ Accounted
QuadsDecoded == ~error => DecodedCount % 4 = 0

LEMMA Lengths ==
  ASSUME SinkInv
  PROVE  /\ Len(pushed) \in Nat /\ Len(staging) \in Nat /\ Len(pending) \in Nat
         /\ DecodedCount \in Nat /\ DecodedCount \in 0 .. Len(pushed)
         /\ Len(pushed) = DecodedCount + Len(staging) + Len(pending)
<1>1. Len(pushed) \in Nat /\ Len(staging) \in Nat /\ Len(pending) \in Nat /\ DecodedCount \in Nat
  BY DEF SinkInv, SinkTypes, Accounted
<1>2. QED
  BY <1>1 DEF DecodedCount

(* The symbols after the decoded ones are decoded next: what is written    *)
(* stays the decoding of all of them.                                      *)
LEMMA DecodeExtends ==
  ASSUME SinkInv, ~error, DecodedCount % 4 = 0,
         NEW part \in Seq(Byte), DecodedCount + Len(part) <= Len(pushed),
         \A k \in 1 .. Len(part) : part[k] = pushed[DecodedCount + k],
         Decode(Mapped(translation, part))
  PROVE  /\ error' \in BOOLEAN
         /\ writes /\ ~error' =>
              output' = Decoded(Mapped(translation, Take(pushed, DecodedCount + Len(part))))
<1> DEFINE d == DecodedCount
           head == Take(pushed, d)
           all == Take(pushed, d + Len(part))
<1>0. /\ d \in 0 .. Len(pushed) /\ Len(pushed) \in Nat /\ Len(part) \in Nat
      /\ d + Len(part) \in 0 .. Len(pushed) /\ pushed \in Seq(Byte)
  <2>1. d \in 0 .. Len(pushed) /\ Len(pushed) \in Nat /\ d \in Nat
    BY Lengths
  <2>2. Len(part) \in Nat
    OBVIOUS
  <2>3. QED
    BY <2>1, <2>2 DEF SinkInv, SinkTypes
<1> HIDE DEF d
<1>1. /\ head \in Seq(Byte) /\ Len(head) = d
      /\ \A k \in 1 .. d : head[k] = pushed[k]
  BY <1>0, TakeFacts
<1>2. /\ all \in Seq(Byte) /\ Len(all) = d + Len(part)
      /\ \A k \in 1 .. d + Len(part) : all[k] = pushed[k]
  BY <1>0, TakeFacts
<1>3. \A k \in 1 .. Len(part) : part[k] = pushed[d + k]
  BY DEF d
<1>4. writes => output = Decoded(Mapped(translation, head))
  BY DEF SinkInv, Accounted, Translate, Mapped, d
<1> HIDE DEF head, all
<1>5. head \o part = all
  <2>1. /\ head \o part \in Seq(Byte) /\ Len(head \o part) = d + Len(part)
        /\ \A k \in 1 .. d : (head \o part)[k] = head[k]
        /\ \A j \in 1 .. Len(part) : (head \o part)[d + j] = part[j]
    <3>1. PICK h \in Seq(Byte) : h = head /\ Len(h) = d
      BY <1>1
    <3>2. /\ h \o part \in Seq(Byte) /\ Len(h \o part) = Len(h) + Len(part)
          /\ \A k \in 1 .. Len(h) : (h \o part)[k] = h[k]
          /\ \A j \in 1 .. Len(part) : (h \o part)[Len(h) + j] = part[j]
      BY ConcatFacts
    <3>3. QED
      BY <3>1, <3>2
  <2>2. ASSUME NEW k \in 1 .. d + Len(part) PROVE (head \o part)[k] = all[k]
    <3>1. CASE k <= d
      <4>1. k \in 1 .. d
        BY <3>1, <1>0
      <4>2. (head \o part)[k] = head[k] /\ head[k] = pushed[k]
        BY <4>1, <1>1, <2>1
      <4>3. all[k] = pushed[k]
        BY <1>2
      <4>4. QED
        BY <4>2, <4>3
    <3>2. CASE k > d
      <4>1. k - d \in 1 .. Len(part) /\ k = d + (k - d)
        BY <3>2, <1>0
      <4>2. PICK j \in 1 .. Len(part) : k = d + j
        BY <4>1
      <4>3. (head \o part)[k] = part[j] /\ part[j] = pushed[k]
        BY <4>2, <2>1, <1>3
      <4>4. all[k] = pushed[k]
        BY <1>2
      <4>5. QED
        BY <4>3, <4>4
    <3>3. k <= d \/ k > d
      BY <1>0
    <3>4. QED
      BY <3>1, <3>2, <3>3, Zenon
  <2>3. QED
    BY <1>2, <2>1, <2>2, SeqEqual
<1>6. Mapped(translation, head) \o Mapped(translation, part) = Mapped(translation, all)
  BY <1>1, <1>5, MappedConcat
<1>7. /\ Mapped(translation, head) \in Seq(Images(translation)) /\ Len(Mapped(translation, head)) = d
      /\ Mapped(translation, part) \in Seq(Images(translation))
  BY <1>1, MappedType
<1>8. d % 4 = 0
  BY DEF d
<1>9. Decoded(Mapped(translation, head)) \o Decoded(Mapped(translation, part))
        = Decoded(Mapped(translation, all))
  <2> DEFINE a == Mapped(translation, head)
             b == Mapped(translation, part)
  <2>1. a \in Seq(Images(translation)) /\ b \in Seq(Images(translation)) /\ Len(a) % 4 = 0
    BY <1>7, <1>8
  <2>2. a \o b = Mapped(translation, all)
    BY <1>6
  <2> HIDE DEF a, b
  <2>3. Decoded(a) \o Decoded(b) = Decoded(a \o b)
    BY <2>1, DecodedConcat
  <2>4. QED
    BY <2>2, <2>3 DEF a, b
<1>10. /\ error' \in BOOLEAN
       /\ writes /\ ~error' => output' = output \o Decoded(Mapped(translation, part))
  <2> DEFINE rejected == checked /\ (Len(Mapped(translation, part)) % 4 = 1
                                      \/ ~AllStandard(Mapped(translation, part)))
             decoded == Decoded(Mapped(translation, part))
  <2>1. rejected => error' = TRUE
    BY DEF Decode
  <2>2. ~rejected => error' = error /\ output' = IF writes THEN output \o decoded ELSE output
    BY DEF Decode
  <2>3. error \in BOOLEAN
    BY DEF SinkInv, SinkTypes
  <2> HIDE DEF rejected, decoded
  <2>4. error' \in BOOLEAN /\ (writes /\ ~error' => output' = output \o decoded)
    BY <2>1, <2>2, <2>3
  <2>5. QED
    BY <2>4 DEF decoded
<1>11. QED
  BY <1>4, <1>9, <1>10 DEF all, d

(* A new sink has nothing in it.                                           *)
LEMMA DecodedEmpty == \A f : Decoded(Mapped(f, <<>>)) = <<>>
<1> TAKE f
<1>1. Mapped(f, <<>>) = <<>>
  BY DEF Mapped
<1>2. DecodedSymbolLen(Len(<<>>)) = 0
  BY DEF DecodedSymbolLen
<1>3. QED
  BY <1>1, <1>2 DEF Decoded

LEMMA EmptyFacts == \A s : s = <<>> => s \in Seq(Byte) /\ Len(s) = 0 /\ DOMAIN s = {}
  OBVIOUS

Empty == staging = <<>> /\ pending = <<>> /\ pushed = <<>> /\ output = <<>>

LEMMA EmptySink ==
  ASSUME Empty, writes \in BOOLEAN, error \in BOOLEAN
  PROVE  SinkInv /\ QuadsDecoded
<1>1. SinkTypes /\ DecodedCount = 0
  <2>1. pending = <<>> /\ staging = <<>> /\ pushed = <<>>
    BY DEF Empty
  <2>2. pending \in Seq(Byte) /\ staging \in Seq(Byte) /\ pushed \in Seq(Byte)
    BY <2>1, EmptyFacts, Zenon
  <2>3. Len(pending) = 0 /\ Len(staging) = 0 /\ Len(pushed) = 0
    BY <2>1, EmptyFacts, Zenon
  <2>4. DecodedCount = 0
    BY <2>3 DEF DecodedCount
  <2>5. QED
    BY <2>2, <2>4 DEF SinkTypes
<1>2. Take(pushed, DecodedCount) = <<>>
  BY <1>1 DEF Empty, Take
<1>3. output = Decoded(Translate(Take(pushed, DecodedCount)))
  BY <1>2, DecodedEmpty DEF Empty, Translate, Mapped
<1>4. QED
  BY <1>1, <1>3, CapacityFacts DEF SinkInv, QuadsDecoded, Accounted, Empty

LEMMA EmptySinkNext ==
  ASSUME Empty', writes' \in BOOLEAN, error' \in BOOLEAN
  PROVE  SinkInv' /\ QuadsDecoded'
<1>1. SinkTypes' /\ DecodedCount' = 0
  <2>1. pending' = <<>> /\ staging' = <<>> /\ pushed' = <<>>
    BY DEF Empty
  <2>2. pending' \in Seq(Byte) /\ staging' \in Seq(Byte) /\ pushed' \in Seq(Byte)
    BY <2>1, EmptyFacts, Zenon
  <2>3. Len(pending') = 0 /\ Len(staging') = 0 /\ Len(pushed') = 0
    BY <2>1, EmptyFacts, Zenon
  <2>4. DecodedCount' = 0
    BY <2>3 DEF DecodedCount
  <2>5. QED
    BY <2>2, <2>4 DEF SinkTypes
<1>2. Take(pushed, DecodedCount)' = <<>>
  BY <1>1 DEF Empty, Take
<1>3. Mapped(translation', <<>>) = Translate(Take(pushed, DecodedCount))'
  BY <1>2 DEF Translate, Mapped
<1>4. (output = Decoded(Translate(Take(pushed, DecodedCount))))'
  BY <1>3, DecodedEmpty DEF Empty
<1>5. QED
  BY <1>1, <1>4, CapacityFacts DEF SinkInv, QuadsDecoded, Accounted, Empty

(* What the operations of the sink keep.                                   *)
LEMMA PushKeeps ==
  ASSUME SinkInv, QuadsDecoded, ~error, pending = <<>>,
         NEW run \in Seq(Byte), NEW validate \in BOOLEAN, Push(run, validate)
  PROVE  SinkInv' /\ QuadsDecoded'
<1>1. CASE writes \/ (validate /\ translation # Untranslated)
  <2>1. /\ pending' = run /\ pushed' = pushed \o run
        /\ writes' = writes /\ translation' = translation /\ staging' = staging
        /\ output' = output /\ error' = error
    BY <1>1 DEF Push
  <2>2. /\ Len(pushed) \in Nat /\ Len(staging) \in Nat /\ Len(pending) = 0 /\ Len(run) \in Nat
        /\ DecodedCount \in 0 .. Len(pushed)
        /\ Len(pushed) = DecodedCount + Len(staging) + Len(pending)
    <3>1. Len(pending) = 0
      BY EmptyFacts, Zenon
    <3>2. QED
      BY <3>1, Lengths
  <2>3. /\ pushed' \in Seq(Byte) /\ Len(pushed') = Len(pushed) + Len(run)
        /\ \A k \in 1 .. Len(pushed) : pushed'[k] = pushed[k]
        /\ \A j \in 1 .. Len(run) : pushed'[Len(pushed) + j] = run[j]
    BY <2>1, ConcatFacts DEF SinkInv, SinkTypes
  <2>4. DecodedCount' = DecodedCount
    BY <2>1, <2>2, <2>3 DEF DecodedCount
  <2>5. Take(pushed', DecodedCount) = Take(pushed, DecodedCount)
    <3>1. DecodedCount \in 0 .. Len(pushed')
      BY <2>2, <2>3
    <3>2. /\ Take(pushed, DecodedCount) \in Seq(Byte) /\ Len(Take(pushed, DecodedCount)) = DecodedCount
          /\ \A k \in 1 .. DecodedCount : Take(pushed, DecodedCount)[k] = pushed[k]
      BY <2>2, TakeFacts DEF SinkInv, SinkTypes
    <3>3. /\ Take(pushed', DecodedCount) \in Seq(Byte) /\ Len(Take(pushed', DecodedCount)) = DecodedCount
          /\ \A k \in 1 .. DecodedCount : Take(pushed', DecodedCount)[k] = pushed'[k]
      BY <2>3, <3>1, TakeFacts
    <3>4. \A k \in 1 .. DecodedCount : Take(pushed', DecodedCount)[k] = Take(pushed, DecodedCount)[k]
      BY <2>2, <2>3, <3>2, <3>3
    <3>5. QED
      BY <3>2, <3>3, <3>4, SeqEqual
  <2>6. Translate(Take(pushed, DecodedCount))' = Translate(Take(pushed, DecodedCount))
    BY <2>1, <2>4, <2>5 DEF Translate
  <2>7. SinkTypes'
    BY <2>1, <2>3 DEF SinkInv, SinkTypes
  <2>8. \A k \in DOMAIN staging' : staging'[k] = pushed'[DecodedCount + k]
    <3>1. \A k \in 1 .. Len(staging) : staging[k] = pushed[DecodedCount + k]
      BY DEF SinkInv, SinkTypes, Accounted
    <3>2. \A k \in 1 .. Len(staging) : pushed'[DecodedCount + k] = pushed[DecodedCount + k]
      BY <2>2, <2>3
    <3>3. DOMAIN staging = 1 .. Len(staging)
      BY DEF SinkInv, SinkTypes
    <3>4. QED
      BY <2>1, <3>1, <3>2, <3>3
  <2>9. \A k \in DOMAIN pending' : pending'[k] = pushed'[DecodedCount + Len(staging) + k]
    <3>1. DOMAIN run = 1 .. Len(run) /\ DecodedCount + Len(staging) = Len(pushed)
      BY <2>2
    <3>2. QED
      BY <2>1, <2>3, <3>1
  <2>10. writes' /\ ~error' => output' = Decoded(Translate(Take(pushed, DecodedCount))')
    BY <2>1, <2>6 DEF SinkInv, Accounted
  <2>11. Len(staging') < Capacity /\ DecodedCount' \in Nat
    BY <2>1, <2>2, <2>4 DEF SinkInv, Accounted
  <2>12. Accounted'
    BY <2>1, <2>4, <2>8, <2>9, <2>10, <2>11 DEF Accounted
  <2>13. QED
    BY <2>1, <2>4, <2>7, <2>12 DEF SinkInv, QuadsDecoded
<1>2. CASE ~(writes \/ (validate /\ translation # Untranslated))
  <2>1. /\ pending' = pending /\ pushed' = pushed /\ writes' = writes /\ writes = FALSE
        /\ translation' = translation /\ staging' = staging /\ output' = output
        /\ error' \in BOOLEAN
    BY <1>2 DEF Push, SinkInv, SinkTypes
  <2>2. DecodedCount' = DecodedCount
    BY <2>1 DEF DecodedCount
  <2>3. QED
    BY <2>1, <2>2 DEF SinkInv, SinkTypes, QuadsDecoded, Accounted
<1>3. QED
  BY <1>1, <1>2

LEMMA DirectKeeps ==
  ASSUME SinkInv, QuadsDecoded, DecodeDirect
  PROVE  SinkInv' /\ QuadsDecoded'
<1> DEFINE n == (Len(pending) \div 4) * 4
           part == Take(pending, n)
<1>1. /\ ~error /\ translation = Untranslated /\ staging = <<>> /\ Decode(part)
      /\ pending' = Drop(pending, n)
      /\ writes' = writes /\ translation' = translation /\ staging' = staging /\ pushed' = pushed
  BY DEF DecodeDirect, Direct
<1>2. /\ Len(pushed) \in Nat /\ Len(pending) \in Nat /\ Len(staging) = 0
      /\ DecodedCount \in Nat /\ Len(pushed) = DecodedCount + Len(pending)
      /\ DecodedCount % 4 = 0
  <2>1. Len(staging) = 0
    BY <1>1, EmptyFacts, Zenon
  <2>2. QED
    BY <1>1, <2>1, Lengths DEF QuadsDecoded
<1>3. n \in 0 .. Len(pending) /\ n \in Nat /\ (DecodedCount + n) % 4 = 0
  BY <1>2
<1> HIDE DEF n
<1>4. /\ part \in Seq(Byte) /\ Len(part) = n
      /\ \A k \in 1 .. n : part[k] = pending[k]
  BY <1>3, TakeFacts DEF SinkInv, SinkTypes
<1>5. /\ pending' \in Seq(Byte) /\ Len(pending') = Len(pending) - n
      /\ \A k \in 1 .. Len(pending) - n : pending'[k] = pending[n + k]
  BY <1>1, <1>3, DropFacts DEF SinkInv, SinkTypes
<1> HIDE DEF part
<1>6. \A k \in 1 .. Len(pending) : pending[k] = pushed[DecodedCount + k]
  <2>1. DOMAIN pending = 1 .. Len(pending)
    BY DEF SinkInv, SinkTypes
  <2>2. \A k \in 1 .. Len(pending) : pending[k] = pushed[DecodedCount + Len(staging) + k]
    BY <2>1 DEF SinkInv, Accounted
  <2>3. DecodedCount + Len(staging) = DecodedCount
    BY <1>2
  <2>4. QED
    BY <2>2, <2>3
<1>7. Decode(Mapped(translation, part))
  <2>1. Mapped(translation, part) = part
    BY <1>1, <1>4, UntranslatedKeeps
  <2>2. QED
    BY <1>1, <2>1, Zenon
<1>8. /\ error' \in BOOLEAN
      /\ writes /\ ~error' => output' = Decoded(Mapped(translation, Take(pushed, DecodedCount + n)))
  <2>1. DecodedCount + Len(part) <= Len(pushed)
    BY <1>2, <1>3, <1>4
  <2>2. \A k \in 1 .. Len(part) : part[k] = pushed[DecodedCount + k]
    BY <1>2, <1>3, <1>4, <1>6
  <2>3. QED
    BY <1>1, <1>2, <1>4, <1>7, <2>1, <2>2, DecodeExtends
<1>9. DecodedCount' = DecodedCount + n
  BY <1>1, <1>2, <1>3, <1>5 DEF DecodedCount
<1>10. SinkTypes'
  BY <1>1, <1>5, <1>8 DEF SinkInv, SinkTypes
<1>11. \A k \in DOMAIN pending' : pending'[k] = pushed'[DecodedCount' + Len(staging') + k]
  <2>1. DOMAIN pending' = 1 .. Len(pending) - n
    BY <1>5
  <2>2. \A k \in 1 .. Len(pending) - n : pending[n + k] = pushed[DecodedCount + (n + k)]
    BY <1>2, <1>3, <1>6
  <2>3. \A k \in 1 .. Len(pending) - n :
          pending'[k] = pushed'[DecodedCount + (n + k)] /\ DecodedCount + (n + k) = DecodedCount' + Len(staging') + k
    BY <1>1, <1>2, <1>3, <1>5, <1>9, <2>2
  <2>4. QED
    BY <2>1, <2>3
<1>12. writes' /\ ~error' => output' = Decoded(Translate(Take(pushed, DecodedCount))')
  BY <1>1, <1>8, <1>9 DEF Translate, Mapped
<1>13. /\ DecodedCount' \in Nat /\ Len(staging') < Capacity
       /\ \A k \in DOMAIN staging' : staging'[k] = pushed'[DecodedCount' + k]
  <2>1. DOMAIN staging' = {}
    BY <1>1, EmptyFacts
  <2>2. DecodedCount' \in Nat /\ Len(staging') < Capacity
    BY <1>1, <1>2, <1>3, <1>9, CapacityFacts
  <2>3. QED
    BY <2>1, <2>2
<1>14. QED
  BY <1>3, <1>9, <1>10, <1>11, <1>12, <1>13 DEF SinkInv, QuadsDecoded, Accounted

LEMMA StageKeeps ==
  ASSUME SinkInv, QuadsDecoded, Stage
  PROVE  SinkInv' /\ QuadsDecoded'
<1> DEFINE copied == AtMost(Len(pending), Capacity - Len(staging))
           staged == staging \o Take(pending, copied)
<1>1. /\ ~error /\ pending' = Drop(pending, copied)
      /\ IF Len(staged) = Capacity
         THEN Decode(Mapped(translation, staged)) /\ staging' = <<>>
         ELSE staging' = staged /\ output' = output /\ error' = error
      /\ writes' = writes /\ translation' = translation /\ pushed' = pushed
  BY DEF Stage, Translate, Mapped
<1>2. /\ Len(pushed) \in Nat /\ Len(pending) \in Nat /\ Len(staging) \in Nat
      /\ DecodedCount \in Nat /\ Len(pushed) = DecodedCount + Len(staging) + Len(pending)
      /\ DecodedCount % 4 = 0 /\ Len(staging) < Capacity
  BY <1>1, Lengths DEF QuadsDecoded, SinkInv, Accounted
<1>3. copied \in 0 .. Len(pending) /\ copied \in Nat /\ Len(staging) + copied <= Capacity
  BY <1>2, CapacityFacts DEF AtMost
<1> HIDE DEF copied
<1>4. /\ Take(pending, copied) \in Seq(Byte) /\ Len(Take(pending, copied)) = copied
      /\ \A k \in 1 .. copied : Take(pending, copied)[k] = pending[k]
  BY <1>3, TakeFacts DEF SinkInv, SinkTypes
<1>5. /\ pending' \in Seq(Byte) /\ Len(pending') = Len(pending) - copied
      /\ \A k \in 1 .. Len(pending) - copied : pending'[k] = pending[copied + k]
  BY <1>1, <1>3, DropFacts DEF SinkInv, SinkTypes
<1>6. /\ \A k \in 1 .. Len(staging) : staging[k] = pushed[DecodedCount + k]
      /\ \A k \in 1 .. Len(pending) : pending[k] = pushed[DecodedCount + Len(staging) + k]
  BY DEF SinkInv, SinkTypes, Accounted
<1>7. /\ staged \in Seq(Byte) /\ Len(staged) = Len(staging) + copied
      /\ \A k \in 1 .. Len(staging) : staged[k] = staging[k]
      /\ \A j \in 1 .. copied : staged[Len(staging) + j] = Take(pending, copied)[j]
  BY <1>4, ConcatFacts DEF SinkInv, SinkTypes
<1> HIDE DEF staged
<1>8. \A k \in 1 .. Len(staged) : staged[k] = pushed[DecodedCount + k]
  <2> SUFFICES ASSUME NEW k \in 1 .. Len(staged) PROVE staged[k] = pushed[DecodedCount + k]
    OBVIOUS
  <2>1. CASE k \in 1 .. Len(staging)
    BY <2>1, <1>6, <1>7
  <2>2. CASE k \notin 1 .. Len(staging)
    <3>1. k - Len(staging) \in 1 .. copied /\ k = Len(staging) + (k - Len(staging))
      BY <2>2, <1>2, <1>3, <1>7
    <3>2. PICK j \in 1 .. copied : k = Len(staging) + j
      BY <3>1
    <3>3. staged[k] = pending[j] /\ j \in 1 .. Len(pending)
      BY <3>2, <1>2, <1>3, <1>4, <1>7
    <3>4. DecodedCount + Len(staging) + j = DecodedCount + k
      BY <3>2, <1>2
    <3>5. QED
      BY <3>3, <3>4, <1>6
  <2>3. QED
    BY <2>1, <2>2
<1>9. \A k \in 1 .. Len(pending') : pending'[k] = pushed[DecodedCount + Len(staged) + k]
  <2> SUFFICES ASSUME NEW k \in 1 .. Len(pending')
               PROVE pending'[k] = pushed[DecodedCount + Len(staged) + k]
    OBVIOUS
  <2>1. pending'[k] = pending[copied + k] /\ copied + k \in 1 .. Len(pending)
    BY <1>2, <1>3, <1>5
  <2>2. DecodedCount + Len(staging) + (copied + k) = DecodedCount + Len(staged) + k
    BY <1>2, <1>3, <1>7
  <2>3. QED
    BY <2>1, <2>2, <1>6
<1>10. CASE Len(staged) = Capacity
  <2>1. Decode(Mapped(translation, staged)) /\ staging' = <<>>
    BY <1>1, <1>10
  <2>2. /\ error' \in BOOLEAN
        /\ writes /\ ~error' =>
             output' = Decoded(Mapped(translation, Take(pushed, DecodedCount + Len(staged))))
    <3>1. DecodedCount + Len(staged) <= Len(pushed)
      BY <1>2, <1>3, <1>7
    <3>2. QED
      BY <1>1, <1>2, <1>7, <1>8, <2>1, <3>1, DecodeExtends
  <2>3. Len(staging') = 0 /\ DOMAIN staging' = {} /\ staging' \in Seq(Byte)
    BY <2>1, EmptyFacts
  <2>4. DecodedCount' = DecodedCount + Len(staged)
    BY <1>1, <1>2, <1>3, <1>5, <1>7, <2>3 DEF DecodedCount
  <2>5. SinkTypes'
    BY <1>1, <1>5, <2>2, <2>3 DEF SinkInv, SinkTypes
  <2>6. \A k \in DOMAIN pending' : pending'[k] = pushed'[DecodedCount' + Len(staging') + k]
    <3>1. DOMAIN pending' = 1 .. Len(pending')
      BY <1>5
    <3>2. DecodedCount' + Len(staging') = DecodedCount + Len(staged)
      BY <1>2, <1>7, <1>3, <2>3, <2>4
    <3>3. QED
      BY <1>1, <1>9, <3>1, <3>2
  <2>7. writes' /\ ~error' => output' = Decoded(Translate(Take(pushed, DecodedCount))')
    BY <1>1, <2>2, <2>4 DEF Translate, Mapped
  <2>8. DecodedCount' \in Nat /\ DecodedCount' % 4 = 0 /\ Len(staging') < Capacity
    BY <1>2, <1>10, <2>3, <2>4, CapacityFacts
  <2>9. QED
    BY <2>3, <2>5, <2>6, <2>7, <2>8 DEF SinkInv, QuadsDecoded, Accounted
<1>11. CASE Len(staged) # Capacity
  <2>1. staging' = staged /\ output' = output /\ error' = error
    BY <1>1, <1>11
  <2>2. DecodedCount' = DecodedCount
    BY <1>1, <1>2, <1>3, <1>5, <1>7, <2>1 DEF DecodedCount
  <2>3. SinkTypes'
    BY <1>1, <1>5, <1>7, <2>1 DEF SinkInv, SinkTypes
  <2>4. \A k \in DOMAIN staging' : staging'[k] = pushed'[DecodedCount' + k]
    <3>1. DOMAIN staging' = 1 .. Len(staged)
      BY <1>7, <2>1
    <3>2. QED
      BY <1>1, <1>8, <2>1, <2>2, <3>1
  <2>5. \A k \in DOMAIN pending' : pending'[k] = pushed'[DecodedCount' + Len(staging') + k]
    <3>1. DOMAIN pending' = 1 .. Len(pending')
      BY <1>5
    <3>2. QED
      BY <1>1, <1>9, <2>1, <2>2, <3>1
  <2>6. writes' /\ ~error' => output' = Decoded(Translate(Take(pushed, DecodedCount))')
    <3>1. writes /\ ~error => output = Decoded(Translate(Take(pushed, DecodedCount)))
      BY DEF SinkInv, Accounted
    <3>2. Translate(Take(pushed, DecodedCount))' = Translate(Take(pushed, DecodedCount))
      BY <1>1, <2>2 DEF Translate
    <3>3. QED
      BY <1>1, <2>1, <3>1, <3>2
  <2>7. DecodedCount' \in Nat /\ DecodedCount' % 4 = 0 /\ Len(staging') < Capacity
    BY <1>2, <1>3, <1>7, <1>11, <2>1, <2>2, CapacityFacts
  <2>8. QED
    BY <2>3, <2>4, <2>5, <2>6, <2>7 DEF SinkInv, QuadsDecoded, Accounted
<1>12. QED
  BY <1>10, <1>11

LEMMA FlushKeeps ==
  ASSUME SinkInv, QuadsDecoded, ~error, pending = <<>>, FlushRest
  PROVE  SinkInv' /\ staging' = <<>> /\ pending' = <<>>
<1>1. /\ staging' = <<>> /\ pending' = <<>> /\ pending' = pending
      /\ writes' = writes /\ translation' = translation /\ pushed' = pushed
      /\ staging = <<>> => output' = output /\ error' = error
      /\ staging # <<>> => Decode(Mapped(translation, staging))
  BY DEF FlushRest, Translate, Mapped
<1>2. /\ Len(pushed) \in Nat /\ Len(pending) = 0 /\ Len(staging) \in Nat
      /\ DecodedCount \in Nat /\ Len(pushed) = DecodedCount + Len(staging)
      /\ DecodedCount % 4 = 0
  <2>1. Len(pending) = 0
    BY EmptyFacts, Zenon
  <2>2. QED
    BY <2>1, Lengths DEF QuadsDecoded
<1>3. \A k \in 1 .. Len(staging) : staging[k] = pushed[DecodedCount + k]
  BY DEF SinkInv, SinkTypes, Accounted
<1>4. /\ staging' \in Seq(Byte) /\ Len(staging') = 0 /\ DOMAIN staging' = {}
      /\ pending' \in Seq(Byte) /\ Len(pending') = 0 /\ DOMAIN pending' = {}
  BY <1>1, EmptyFacts
<1>5. DecodedCount' = DecodedCount + Len(staging)
  BY <1>1, <1>2, <1>4 DEF DecodedCount
<1>6. /\ error' \in BOOLEAN
      /\ writes /\ ~error' => output' = Decoded(Mapped(translation, Take(pushed, DecodedCount')))
  <2>1. CASE staging = <<>>
    <3>1. DecodedCount' = DecodedCount
      <4>1. Len(staging) = 0
        BY <2>1, EmptyFacts, Zenon
      <4>2. QED
        BY <4>1, <1>2, <1>5
    <3>2. Translate(Take(pushed, DecodedCount)) = Mapped(translation, Take(pushed, DecodedCount))
      BY TranslateIsMapped
    <3>3. writes /\ ~error => output = Decoded(Translate(Take(pushed, DecodedCount)))
      BY DEF SinkInv, Accounted
    <3>4. output' = output /\ error' = error /\ error \in BOOLEAN
      BY <1>1, <2>1 DEF SinkInv, SinkTypes
    <3>5. QED
      BY <3>1, <3>2, <3>3, <3>4
  <2>2. CASE staging # <<>>
    <3>1. staging \in Seq(Byte) /\ DecodedCount + Len(staging) <= Len(pushed)
      BY <1>2 DEF SinkInv, SinkTypes
    <3>2. QED
      BY <1>1, <1>2, <1>3, <1>5, <2>2, <3>1, DecodeExtends
  <2>3. QED
    BY <2>1, <2>2
<1>7. SinkTypes'
  BY <1>1, <1>4, <1>6 DEF SinkInv, SinkTypes
<1>8. writes' /\ ~error' => output' = Decoded(Translate(Take(pushed, DecodedCount))')
  BY <1>1, <1>6 DEF Translate, Mapped
<1>9. DecodedCount' \in Nat /\ Len(staging') < Capacity
  BY <1>2, <1>4, <1>5, CapacityFacts
<1>10. QED
  BY <1>1, <1>4, <1>7, <1>8, <1>9 DEF SinkInv, Accounted
-----------------------------------------------------------------------------
(* The scan around the sink.                                               *)
Inputs ==
  /\ call \in Calls /\ decoder = NewDecoder(call.policy)
  /\ input \in Seq(Byte) /\ source \in 0 .. Len(input)
  /\ pc = "begin" => source = 0

Inv == Inputs /\ SinkTypes /\ IInv

LEMMA InvOfParts ==
  ASSUME Inputs, SinkInv,
         pc \in {"begin", "route"} => Empty,
         pc \in {"scan", "finish", "flush"} => QuadsDecoded,
         pc \in {"finish", "flush"} => pending = <<>> /\ ~error,
         pc = "done" /\ ~error => staging = <<>> /\ pending = <<>> /\ writes
  PROVE  Inv
  BY DEF Inv, IInv, SinkInv, QuadsDecoded, Empty

LEMMA InvOfPartsNext ==
  ASSUME Inputs', SinkInv',
         pc' \in {"begin", "route"} => Empty',
         pc' \in {"scan", "finish", "flush"} => QuadsDecoded',
         pc' \in {"finish", "flush"} => pending' = <<>> /\ ~error',
         pc' = "done" /\ ~error' => staging' = <<>> /\ pending' = <<>> /\ writes'
  PROVE  Inv'
  BY DEF Inv, IInv, SinkInv, QuadsDecoded, Empty

LEMMA InvGives ==
  ASSUME Inv
  PROVE  /\ Inputs /\ SinkInv
         /\ pc \in {"begin", "route"} => Empty /\ QuadsDecoded
         /\ pc \in {"scan", "finish", "flush"} => QuadsDecoded
         /\ pc \in {"finish", "flush"} => pending = <<>> /\ ~error
         /\ pc = "done" /\ ~error => staging = <<>> /\ pending = <<>> /\ writes
<1>1. /\ Inputs /\ SinkInv
      /\ pc \in {"begin", "route"} => Empty
      /\ pc \in {"scan", "finish", "flush"} => QuadsDecoded
      /\ pc \in {"finish", "flush"} => pending = <<>> /\ ~error
      /\ pc = "done" /\ ~error => staging = <<>> /\ pending = <<>> /\ writes
  BY DEF Inv, IInv, SinkInv, QuadsDecoded, Empty
<1>2. writes \in BOOLEAN /\ error \in BOOLEAN
  BY DEF Inv, SinkTypes
<1>3. pc \in {"begin", "route"} => QuadsDecoded
  BY <1>1, <1>2, EmptySink
<1>4. QED
  BY <1>1, <1>3

(* Steps that leave the sink alone, and steps that fail.                   *)
LEMMA SinkStays ==
  ASSUME SinkInv, UNCHANGED sink
  PROVE  /\ SinkInv' /\ (Empty => Empty') /\ (QuadsDecoded => QuadsDecoded')
         /\ pending' = pending /\ staging' = staging /\ error' = error /\ writes' = writes
<1>1. /\ pending' = pending /\ staging' = staging /\ pushed' = pushed /\ output' = output
      /\ error' = error /\ writes' = writes /\ translation' = translation
  BY DEF sink
<1>2. DecodedCount' = DecodedCount
  BY <1>1 DEF DecodedCount
<1>3. Translate(Take(pushed, DecodedCount))' = Translate(Take(pushed, DecodedCount))
  BY <1>1, <1>2 DEF Translate
<1>4. Accounted'
  BY <1>1, <1>2, <1>3 DEF SinkInv, Accounted
<1>5. QED
  BY <1>1, <1>2, <1>4 DEF SinkInv, SinkTypes, Empty, QuadsDecoded

LEMMA FailKeeps ==
  ASSUME SinkInv, FailScan, Inputs'
  PROVE  Inv'
<1>1. /\ pending' = pending /\ staging' = staging /\ pushed' = pushed /\ output' = output
      /\ error' = TRUE /\ writes' = writes /\ translation' = translation /\ pc' = "done"
  BY DEF FailScan, Fail, Goto
<1>2. DecodedCount' = DecodedCount
  BY <1>1 DEF DecodedCount
<1>3. SinkInv'
  BY <1>1, <1>2 DEF SinkInv, SinkTypes, Accounted
<1>4. QED
  BY <1>1, <1>3, InvOfPartsNext

LEMMA NewSinkKeeps ==
  ASSUME SinkInv, NEW w \in BOOLEAN, NEW k, NEW m, NewSink(w, k, m), Inputs', pc' = "route"
  PROVE  Inv'
<1>1. Empty' /\ writes' = w /\ error' = error
  BY DEF NewSink, Empty
<1>2. SinkInv' /\ QuadsDecoded'
  BY <1>1, EmptySinkNext DEF SinkInv, SinkTypes
<1>3. QED
  BY <1>1, <1>2, InvOfPartsNext

(* The searches of the scan stay in the input.                             *)
LEMMA InputRanges ==
  ASSUME Inputs
  PROVE  /\ Len(input) \in Nat /\ source \in 0 .. Len(input)
         /\ DataEnd \in 0 .. Len(input)
         /\ \A bytes : FirstFrom(input, 0, bytes) - 1 \in 0 .. Len(input)
         /\ \A bytes : FirstFrom(input, source, bytes) - 1 \in source .. Len(input)
<1>1. Len(input) \in Nat /\ source \in 0 .. Len(input) /\ input \in Seq(Byte)
  BY DEF Inputs
<1>2. \A bytes : FirstFrom(input, 0, bytes) \in 0 + 1 .. Len(input) + 1
  BY <1>1, FirstFromRange
<1>3. \A bytes : FirstFrom(input, source, bytes) \in source + 1 .. Len(input) + 1
  BY <1>1, FirstFromRange
<1>4. /\ \A bytes : FirstFrom(input, 0, bytes) - 1 \in 0 .. Len(input)
      /\ \A bytes : FirstFrom(input, source, bytes) - 1 \in source .. Len(input)
  BY <1>1, <1>2, <1>3
<1>5. DataEnd \in 0 .. Len(input)
  BY <1>1, <1>4 DEF DataEnd
<1>6. QED
  BY <1>1, <1>4, <1>5

(* A step that pushes a run and goes on with the scan.                     *)
LEMMA PushedInv ==
  ASSUME Inv, Scanning, NEW run \in Seq(Byte), NEW validate \in BOOLEAN, Push(run, validate),
         Inputs', pc' = pc
  PROVE  Inv'
<1>1. pc = "scan" /\ ~error /\ pending = <<>>
  BY DEF Scanning
<1>2. SinkInv' /\ QuadsDecoded'
  BY <1>1, InvGives, PushKeeps
<1>3. QED
  BY <1>1, <1>2, InvOfPartsNext

(* A step that leaves the sink as it is.                                   *)
LEMMA IdleInv ==
  ASSUME Inv, UNCHANGED sink, Inputs',
         pc' = "route" => pc = "route",
         pc' # "begin",
         pc' = "scan" => pc \in {"route", "scan"},
         pc' \in {"finish", "flush"} => pc \in {"scan", "finish"} /\ ~error /\ pending = <<>>,
         pc' = "done" => pc = "done" \/ error
  PROVE  Inv'
<1>1. /\ SinkInv' /\ (Empty => Empty') /\ (QuadsDecoded => QuadsDecoded')
      /\ pending' = pending /\ staging' = staging /\ error' = error /\ writes' = writes
  BY InvGives, SinkStays
<1>2. pc' \in {"begin", "route"} => Empty'
  BY <1>1, InvGives
<1>3. pc' \in {"scan", "finish", "flush"} => QuadsDecoded'
  BY <1>1, InvGives
<1>4. pc' = "done" /\ ~error' => staging' = <<>> /\ pending' = <<>> /\ writes'
  BY <1>1, InvGives
<1>5. pc' \in {"finish", "flush"} => pending' = <<>> /\ ~error'
  BY <1>1
<1>6. QED
  BY <1>1, <1>2, <1>3, <1>4, <1>5, InvOfPartsNext

-----------------------------------------------------------------------------
LEMMA InitInv == Init => Inv
<1> SUFFICES ASSUME Init PROVE Inv
  OBVIOUS
<1>1. Inputs
  BY ConfiguredDecodeAssumption DEF Init, Inputs
<1>2. Empty /\ writes = FALSE /\ error = FALSE /\ pc = "begin"
  BY DEF Init, SinkInit, Empty
<1>3. SinkInv /\ QuadsDecoded
  BY <1>2, EmptySink
<1>4. QED
  BY <1>1, <1>2, <1>3, InvOfParts

LEMMA BeginInv ==
  ASSUME Inv, BeginAllocating \/ BeginCount \/ BeginStrictInto
  PROVE  Inv'
<1>1. /\ pc = "begin" /\ SinkInv /\ Inputs
      /\ source = 0 /\ call' = call /\ decoder' = decoder /\ source' = source
  BY InvGives DEF BeginAllocating, BeginCount, BeginStrictInto, Inputs, scan
<1>2. CASE BeginAllocating
  <2>1. PICK begin \in 0 .. Len(input) : input' = Drop(input, begin)
    <3> DEFINE bytes == {Equals} \union (Byte \ IgnoredBytes)
               begin == IF Len(input) < DetachThreshold THEN 0 ELSE FirstFrom(input, 0, bytes) - 1
    <3>1. FirstFrom(input, 0, bytes) - 1 \in 0 .. Len(input) /\ Len(input) \in Nat
      BY <1>1, InputRanges
    <3>2. begin \in 0 .. Len(input)
      BY <3>1
    <3>3. input' = Drop(input, begin)
      BY <1>2 DEF BeginAllocating
    <3>4. QED
      BY <3>2, <3>3
  <2>2. input' \in Seq(Byte) /\ Len(input') \in Nat
    BY <2>1, <1>1, DropFacts DEF Inputs
  <2>3. pc' = "route" /\ NewSink(TRUE, TRUE, Untranslated)
    BY <1>2 DEF BeginAllocating, Goto
  <2>4. Inputs'
    BY <1>1, <2>2, <2>3 DEF Inputs
  <2>5. QED
    BY <1>1, <2>3, <2>4, NewSinkKeeps
<1>3. CASE BeginCount
  <2>1. pc' = "route" /\ NewSink(FALSE, TRUE, Untranslated) /\ input' = input
    BY <1>3 DEF BeginCount, Goto
  <2>2. Inputs'
    BY <1>1, <2>1 DEF Inputs
  <2>3. QED
    BY <1>1, <2>1, <2>2, NewSinkKeeps
<1>4. CASE BeginStrictInto
  <2>1. input' = input /\ (FailScan \/ (pc' = "sized" /\ UNCHANGED sink))
    BY <1>4 DEF BeginStrictInto, Goto
  <2>2. Inputs'
    BY <1>1, <2>1 DEF Inputs
  <2>3. CASE FailScan
    BY <1>1, <2>2, <2>3, FailKeeps
  <2>4. CASE pc' = "sized" /\ UNCHANGED sink
    BY <2>2, <2>4, IdleInv
  <2>5. QED
    BY <2>1, <2>3, <2>4
<1>5. QED
  BY <1>2, <1>3, <1>4

LEMMA RouteInv ==
  ASSUME Inv, RouteIgnoredPadding \/ RouteSpecials \/ RouteGeneric
  PROVE  Inv'
<1>1. /\ pc = "route" /\ SinkInv /\ Inputs /\ Empty
      /\ call' = call /\ decoder' = decoder /\ source' = source /\ input' = input
  BY InvGives DEF RouteIgnoredPadding, RouteSpecials, RouteGeneric, scan
<1>2. pc' # "begin" => Inputs'
  BY <1>1 DEF Inputs
<1>3. CASE FailScan
  BY <1>1, <1>2, <1>3, FailKeeps DEF FailScan, Fail, Goto
<1>4. CASE pc' \in {"route", "scan"} /\ UNCHANGED sink
  BY <1>1, <1>2, <1>4, IdleInv
<1>5. CASE RouteSpecials /\ ~FailScan
  <2>1. pc' = "scan" /\ Empty' /\ error' = error /\ writes' = writes
    BY <1>1, <1>5 DEF RouteSpecials, Goto, Empty
  <2>2. SinkInv' /\ QuadsDecoded'
    BY <1>1, <2>1, EmptySinkNext DEF SinkInv, SinkTypes
  <2>3. QED
    BY <1>2, <2>1, <2>2, InvOfPartsNext
<1>6. RouteIgnoredPadding => FailScan \/ (pc' \in {"route", "scan"} /\ UNCHANGED sink)
  BY <1>1 DEF RouteIgnoredPadding
<1>7. RouteGeneric => pc' \in {"route", "scan"} /\ UNCHANGED sink
  BY DEF RouteGeneric, Goto
<1>8. QED
  BY <1>3, <1>4, <1>5, <1>6, <1>7

LEMMA PushRunInv ==
  ASSUME Inv, PushRun
  PROVE  Inv'
<1>1. /\ pc = "scan" /\ pc' = pc /\ SinkInv /\ QuadsDecoded /\ Inputs
      /\ call' = call /\ decoder' = decoder /\ source' = source /\ input' = input
  BY InvGives DEF PushRun, scan
<1>2. Inputs'
  BY <1>1 DEF Inputs
<1>3. SinkInv' /\ QuadsDecoded'
  BY <1>1, DirectKeeps, StageKeeps DEF PushRun
<1>4. QED
  BY <1>1, <1>2, <1>3, InvOfPartsNext

LEMMA SpecialsInv ==
  ASSUME Inv, SpecialsRun \/ EndSpecials
  PROVE  Inv'
<1>1. /\ Scanning /\ pc = "scan" /\ ~error /\ pending = <<>> /\ SinkInv /\ Inputs
      /\ call' = call /\ decoder' = decoder /\ input' = input
  BY InvGives DEF SpecialsRun, EndSpecials, Scanning
<1>2. Len(input) \in Nat /\ source \in 0 .. Len(input) /\ DataEnd \in 0 .. Len(input)
  BY <1>1, InputRanges
<1>3. CASE SpecialsRun
  <2> DEFINE data == Take(input, DataEnd)
             runEnd == FirstFrom(data, source, IgnoredBytes) - 1
             run == SubSeq(input, source + 1, runEnd)
  <2>1. data \in Seq(Byte) /\ Len(data) = DataEnd /\ source < DataEnd
    BY <1>1, <1>2, <1>3, TakeFacts DEF Inputs, SpecialsRun
  <2>2. source \in 0 .. Len(data)
    BY <1>2, <2>1
  <2>3. FirstFrom(data, source, IgnoredBytes) \in source + 1 .. Len(data) + 1
    BY <2>1, <2>2, FirstFromRange
  <2>4. runEnd \in 0 .. Len(input) /\ source + 1 \in 1 .. Len(input) + 1
    BY <1>2, <2>1, <2>3
  <2> HIDE DEF data
  <2>5. /\ pc' = pc /\ source' = AfterRun(runEnd)
        /\ IF run = <<>> THEN UNCHANGED sink ELSE Push(run, TRUE)
    BY <1>3 DEF SpecialsRun, data
  <2> HIDE DEF runEnd
  <2>6. run \in Seq(Byte)
    BY <1>1, <2>4, PartType DEF Inputs
  <2> HIDE DEF run
  <2>7. source' \in 0 .. Len(input)
    BY <1>2, <2>4, <2>5 DEF AfterRun, AtMost
  <2>8. Inputs'
    BY <1>1, <2>5, <2>7 DEF Inputs
  <2>9. CASE run = <<>>
    BY <1>1, <2>5, <2>8, <2>9, IdleInv
  <2>10. CASE run # <<>>
    BY <1>1, <2>5, <2>6, <2>8, <2>10, PushedInv
  <2>11. QED
    BY <2>9, <2>10
<1>4. CASE EndSpecials
  <2>1. source' = source /\ (FailScan \/ (pc' = "finish" /\ UNCHANGED sink))
    BY <1>4 DEF EndSpecials, Goto
  <2>2. Inputs'
    BY <1>1, <2>1 DEF Inputs, FailScan, Fail, Goto
  <2>3. QED
    BY <1>1, <2>1, <2>2, FailKeeps, IdleInv
<1>5. QED
  BY <1>3, <1>4

LEMMA RunInv ==
  ASSUME Inv, AlphanumericRun
  PROVE  Inv'
<1>1. /\ Scanning /\ pc = "scan" /\ pc' = pc /\ Inputs /\ Push(Run, FALSE)
      /\ source' = source + Len(Run)
      /\ call' = call /\ decoder' = decoder /\ input' = input
  BY InvGives DEF AlphanumericRun, Scanning
<1>2. Len(input) \in Nat /\ source \in 0 .. Len(input) /\ input \in Seq(Byte)
  BY <1>1 DEF Inputs
<1> DEFINE runEnd == FirstFrom(input, source, Byte \ Alphanumeric) - 1
<1>3. runEnd \in source .. Len(input)
  BY <1>1, InputRanges
<1>4. Run = SubSeq(input, source + 1, runEnd)
  BY DEF Run
<1> HIDE DEF runEnd
<1>5. Run \in Seq(Byte) /\ source + Len(Run) \in 0 .. Len(input)
  BY <1>2, <1>3, <1>4
<1>6. Inputs'
  BY <1>1, <1>5 DEF Inputs
<1>7. QED
  BY <1>1, <1>5, <1>6, PushedInv

LEMMA ByteInv ==
  ASSUME Inv, StrictSymbol \/ StrictOther \/ LenientSymbol \/ LenientPadding \/ LenientSkip
  PROVE  Inv'
<1>1. ScanByte /\ call' = call /\ decoder' = decoder /\ input' = input /\ SinkInv /\ Inputs
  BY InvGives DEF StrictSymbol, StrictOther, LenientSymbol, LenientPadding, LenientSkip
<1>2. /\ Scanning /\ pc = "scan" /\ ~error /\ pending = <<>>
      /\ source < Len(input) /\ source' = source + 1
  BY <1>1 DEF ScanByte, Scanning
<1>3. /\ source' \in 0 .. Len(input) /\ source + 1 \in 1 .. Len(input)
      /\ input \in Seq(Byte)
  BY <1>1, <1>2 DEF Inputs
<1>4. pc' # "begin" => Inputs'
  BY <1>1, <1>3 DEF Inputs
<1>5. CASE FailScan
  BY <1>1, <1>4, <1>5, FailKeeps DEF FailScan, Fail, Goto
<1>6. CASE pc' \in {"scan", "flush"} /\ UNCHANGED sink
  BY <1>2, <1>4, <1>6, IdleInv
<1>7. CASE IsSymbol(next) /\ Push(<<StandardByte(Value(next))>>, FALSE) /\ pc' = pc
  <2>1. next \in Byte
    BY <1>3, ElementOfSeq DEF next
  <2>2. Value(next) < 64 /\ Value(next) = NewDecoder(call.policy).table[next] /\ call \in Calls
    BY <1>1, <1>7 DEF IsSymbol, Value, Inputs
  <2>3. StandardByte(Value(next)) \in Byte
    BY <2>1, <2>2, TableValues
  <2> DEFINE symbol == StandardByte(Value(next))
  <2>4. \A b \in Byte : <<b>> \in Seq(Byte)
    OBVIOUS
  <2>5. <<symbol>> \in Seq(Byte)
    BY <2>3, <2>4
  <2> HIDE DEF symbol
  <2>6. Push(<<symbol>>, FALSE)
    BY <1>7 DEF symbol
  <2>7. QED
    BY <1>2, <1>4, <1>7, <2>5, <2>6, PushedInv
<1>8. StrictSymbol => FailScan \/ (IsSymbol(next) /\ Push(<<StandardByte(Value(next))>>, FALSE) /\ pc' = pc)
  BY DEF StrictSymbol
<1>9. StrictOther => FailScan \/ (pc' \in {"scan", "flush"} /\ UNCHANGED sink)
  BY <1>2 DEF StrictOther
<1>10. LenientSymbol => IsSymbol(next) /\ Push(<<StandardByte(Value(next))>>, FALSE) /\ pc' = pc
  BY DEF LenientSymbol
<1>11. LenientPadding => FailScan \/ (pc' \in {"scan", "flush"} /\ UNCHANGED sink)
  BY <1>2 DEF LenientPadding, Goto
<1>12. LenientSkip => pc' \in {"scan", "flush"} /\ UNCHANGED sink
  BY <1>2 DEF LenientSkip
<1>13. QED
  BY <1>5, <1>6, <1>7, <1>8, <1>9, <1>10, <1>11, <1>12

LEMMA EndInv ==
  ASSUME Inv, EndScan \/ Finish \/ OutputTooSmall \/ BeginWrite \/ Abort
  PROVE  Inv'
<1>1. call' = call /\ decoder' = decoder /\ input' = input /\ SinkInv /\ Inputs
  BY InvGives DEF EndScan, Finish, OutputTooSmall, BeginWrite, Abort
<1>2. CASE EndScan
  <2>1. /\ pc = "scan" /\ ~error /\ pending = <<>> /\ pc' = "finish" /\ UNCHANGED sink
        /\ source' = source
    BY <1>2 DEF EndScan, Scanning, Goto, scan
  <2>2. Inputs'
    BY <1>1, <2>1 DEF Inputs
  <2>3. QED
    BY <2>1, <2>2, IdleInv
<1>3. CASE Finish
  <2>1. /\ pc = "finish" /\ source' = source
        /\ FailScan \/ (pc' = "flush" /\ UNCHANGED sink)
    BY <1>3 DEF Finish, Goto, scan
  <2>2. pending = <<>> /\ ~error
    BY <2>1, InvGives
  <2>3. Inputs'
    BY <1>1, <2>1 DEF Inputs, FailScan, Fail, Goto
  <2>4. QED
    BY <1>1, <2>1, <2>2, <2>3, FailKeeps, IdleInv
<1>4. CASE OutputTooSmall
  <2>1. pc' = "tooSmall" /\ UNCHANGED sink /\ source' = source
    BY <1>4 DEF OutputTooSmall, Goto, scan
  <2>2. Inputs'
    BY <1>1, <2>1 DEF Inputs
  <2>3. QED
    BY <2>1, <2>2, IdleInv
<1>5. CASE BeginWrite
  <2>1. /\ pc' = "route" /\ source' = 0
        /\ NewSink(TRUE, call.mode = "strictInto", Untranslated)
    BY <1>5 DEF BeginWrite, Goto
  <2>2. Inputs'
    BY <1>1, <2>1 DEF Inputs
  <2>3. QED
    BY <1>1, <2>1, <2>2, NewSinkKeeps
<1>6. CASE Abort
  <2>1. pc' = "done" /\ error /\ UNCHANGED sink /\ source' = source
    BY <1>6 DEF Abort, Goto, scan
  <2>2. Inputs'
    BY <1>1, <2>1 DEF Inputs
  <2>3. QED
    BY <2>1, <2>2, IdleInv
<1>7. QED
  BY <1>1, <1>2, <1>3, <1>4, <1>5, <1>6

LEMMA FlushInv ==
  ASSUME Inv, Flush
  PROVE  Inv'
<1>1. /\ pc = "flush" /\ FlushRest /\ call' = call /\ decoder' = decoder /\ input' = input
      /\ source' = source
      /\ IF writes \/ error' THEN pc' = "done" ELSE pc' = "sized"
  BY DEF Flush, Goto, scan
<1>2. SinkInv /\ QuadsDecoded /\ Inputs /\ ~error /\ pending = <<>>
  BY <1>1, InvGives
<1>3. SinkInv' /\ staging' = <<>> /\ pending' = <<>>
  BY <1>1, <1>2, FlushKeeps
<1>4. writes' = writes
  BY <1>1 DEF FlushRest
<1>5. Inputs'
  BY <1>1, <1>2 DEF Inputs
<1>6. QED
  BY <1>1, <1>3, <1>4, <1>5, InvOfPartsNext

LEMMA NextInv == Inv /\ [Next]_vars => Inv'
<1> SUFFICES ASSUME Inv, [Next]_vars PROVE Inv'
  OBVIOUS
<1>1. CASE UNCHANGED vars
  <2>1. /\ UNCHANGED sink /\ pc' = pc /\ call' = call /\ decoder' = decoder /\ input' = input
        /\ source' = source
    BY <1>1 DEF vars, scan
  <2>2. Inputs'
    BY <2>1, InvGives DEF Inputs
  <2>3. /\ SinkInv' /\ (Empty => Empty') /\ (QuadsDecoded => QuadsDecoded')
        /\ pending' = pending /\ staging' = staging /\ error' = error /\ writes' = writes
    BY <2>1, InvGives, SinkStays
  <2>4. QED
    BY <2>1, <2>2, <2>3, InvGives, InvOfPartsNext
<1>2. CASE Step
  BY <1>2, BeginInv, RouteInv, PushRunInv, SpecialsInv, RunInv, ByteInv, EndInv, FlushInv DEF Step
<1>3. QED
  BY <1>1, <1>2 DEF Next

(* Every decode keeps the account of its symbols: each one pushed is       *)
(* decoded, staged or still to be taken from its run, and what is written  *)
(* is the decoding of those taken so far, for every capacity, alphabet,    *)
(* policy and input.                                                       *)
THEOREM InvariantHolds == Spec => []IInv
<1>1. Init => Inv
  BY InitInv
<1>2. Inv /\ [Next]_vars => Inv'
  BY NextInv
<1>3. Inv => IInv
  BY DEF Inv
<1>4. QED
  BY <1>1, <1>2, <1>3, PTL DEF Spec

(* A decode that succeeds has written the decoding of all the symbols the  *)
(* scan pushed, however they fell into runs and filled the staging buffer: *)
(* none is lost, doubled or out of order, and none is left behind.         *)
WritesAllPushed == pc = "done" /\ ~error => output = Decoded(Translate(pushed))

THEOREM OutputOfPushed == Spec => []WritesAllPushed
<1>1. Init => Inv
  BY InitInv
<1>2. Inv /\ [Next]_vars => Inv'
  BY NextInv
<1>3. Inv => WritesAllPushed
  <2> SUFFICES ASSUME Inv, pc = "done", ~error PROVE output = Decoded(Translate(pushed))
    BY DEF WritesAllPushed
  <2>1. staging = <<>> /\ pending = <<>> /\ writes /\ pushed \in Seq(Byte) /\ Accounted
    BY DEF Inv, IInv, SinkTypes
  <2>2. Len(staging) = 0 /\ Len(pending) = 0
    BY <2>1, EmptyFacts, Zenon
  <2>3. DecodedCount = Len(pushed)
    BY <2>1, <2>2 DEF DecodedCount
  <2>4. Take(pushed, DecodedCount) = pushed
    BY <2>1, <2>3 DEF Take
  <2>5. output = Decoded(Translate(Take(pushed, DecodedCount)))
    BY <2>1 DEF Accounted
  <2>6. QED
    BY <2>4, <2>5
<1>4. QED
  BY <1>1, <1>2, <1>3, PTL DEF Spec
-----------------------------------------------------------------------------
(* How many bytes of S are among the first n of s, how many of P are among *)
(* them behind the last of S, and where a scan may stop because of those.  *)
CountIn(s, S, n) == Cardinality({i \in 1 .. n : s[i] \in S})
PadsIn(s, S, P, n) == Cardinality({i \in 1 .. n : s[i] \in P /\ \A j \in i .. n : s[j] \notin S})

StopsAt(s, S, P, i) ==
  /\ i \in 1 .. Len(s) /\ s[i] \in P
  /\ CountIn(s, S, i) % 4 >= 2
  /\ (CountIn(s, S, i) % 4) + PadsIn(s, S, P, i) >= 4

EndsAt(s, S, P, end, e) ==
  /\ e \in 0 .. end
  /\ e = end \/ StopsAt(s, S, P, e)
  /\ \A i \in 1 .. e - 1 : ~StopsAt(s, S, P, i)

LEMMA PositionsAreFinite ==
  ASSUME NEW n \in Nat, NEW T \in SUBSET (1 .. n)
  PROVE  IsFiniteSet(T) /\ Cardinality(T) \in Nat /\ Cardinality(T) <= n
<1>1. IsFiniteSet(1 .. n) /\ Cardinality(1 .. n) = n
  BY FS_Interval
<1>2. IsFiniteSet(T) /\ Cardinality(T) <= n
  BY <1>1, FS_Subset
<1>3. QED
  BY <1>2, FS_CardinalityType

LEMMA CountType ==
  ASSUME NEW s, NEW S, NEW n \in Nat
  PROVE  CountIn(s, S, n) \in Nat /\ CountIn(s, S, n) <= n
<1> DEFINE T == {i \in 1 .. n : s[i] \in S}
<1>1. T \in SUBSET (1 .. n)
  OBVIOUS
<1>2. CountIn(s, S, n) = Cardinality(T)
  BY DEF CountIn
<1> HIDE DEF T
<1>3. QED
  BY <1>1, <1>2, PositionsAreFinite

LEMMA CountMonotone ==
  ASSUME NEW s, NEW S, NEW n \in Nat, NEW m \in Nat, m <= n
  PROVE  CountIn(s, S, m) <= CountIn(s, S, n)
<1> DEFINE T == {i \in 1 .. n : s[i] \in S}
           U == {i \in 1 .. m : s[i] \in S}
<1>1. T \in SUBSET (1 .. n) /\ U \in SUBSET T
  OBVIOUS
<1>2. CountIn(s, S, n) = Cardinality(T) /\ CountIn(s, S, m) = Cardinality(U)
  BY DEF CountIn
<1> HIDE DEF T, U
<1>3. IsFiniteSet(T)
  BY <1>1, PositionsAreFinite
<1>4. QED
  BY <1>1, <1>2, <1>3, FS_Subset

LEMMA NothingCounted ==
  ASSUME NEW s, NEW S, NEW P
  PROVE  CountIn(s, S, 0) = 0 /\ PadsIn(s, S, P, 0) = 0
<1>1. {i \in 1 .. 0 : s[i] \in S} = {}
  OBVIOUS
<1>2. {i \in 1 .. 0 : s[i] \in P /\ \A j \in i .. 0 : s[j] \notin S} = {}
  OBVIOUS
<1>3. QED
  BY <1>1, <1>2, FS_EmptySet DEF CountIn, PadsIn

(* A run of bytes of S adds its length, any other byte nothing.            *)
LEMMA CountRun ==
  ASSUME NEW s, NEW S, NEW n \in Nat, NEW m \in Nat, \A i \in n + 1 .. n + m : s[i] \in S
  PROVE  CountIn(s, S, n + m) = CountIn(s, S, n) + m
<1> DEFINE T == {i \in 1 .. n + m : s[i] \in S}
           U == {i \in 1 .. n : s[i] \in S}
           R == n + 1 .. n + m
<1>1. T = U \union R /\ U \intersect R = {}
  OBVIOUS
<1>2. U \in SUBSET (1 .. n)
  OBVIOUS
<1>3. CountIn(s, S, n + m) = Cardinality(T) /\ CountIn(s, S, n) = Cardinality(U)
  BY DEF CountIn
<1>4. IsFiniteSet(R) /\ Cardinality(R) = m
  BY FS_Interval
<1> HIDE DEF T, U, R
<1>5. IsFiniteSet(U) /\ Cardinality(U) \in Nat
  BY <1>2, PositionsAreFinite
<1>6. Cardinality(U \union R) = Cardinality(U) + Cardinality(R) - Cardinality(U \intersect R)
  BY <1>4, <1>5, FS_Union
<1>7. Cardinality(U \intersect R) = 0
  BY <1>1, FS_EmptySet
<1>8. QED
  BY <1>1, <1>3, <1>4, <1>5, <1>6, <1>7

LEMMA CountSkip ==
  ASSUME NEW s, NEW S, NEW n \in Nat, s[n + 1] \notin S
  PROVE  CountIn(s, S, n + 1) = CountIn(s, S, n)
<1>1. {i \in 1 .. n + 1 : s[i] \in S} = {i \in 1 .. n : s[i] \in S}
  OBVIOUS
<1>2. QED
  BY <1>1 DEF CountIn

(* Padding is counted anew behind every symbol.                            *)
LEMMA PadsAfterSymbol ==
  ASSUME NEW s, NEW S, NEW P, NEW n \in Nat, n > 0, s[n] \in S
  PROVE  PadsIn(s, S, P, n) = 0
<1>1. {i \in 1 .. n : s[i] \in P /\ \A j \in i .. n : s[j] \notin S} = {}
  OBVIOUS
<1>2. QED
  BY <1>1, FS_EmptySet DEF PadsIn

LEMMA PadsSkip ==
  ASSUME NEW s, NEW S, NEW P, NEW n \in Nat, s[n + 1] \notin S, s[n + 1] \notin P
  PROVE  PadsIn(s, S, P, n + 1) = PadsIn(s, S, P, n)
<1> DEFINE T == {i \in 1 .. n + 1 : s[i] \in P /\ \A j \in i .. n + 1 : s[j] \notin S}
           U == {i \in 1 .. n : s[i] \in P /\ \A j \in i .. n : s[j] \notin S}
<1>1. \A i \in 1 .. n : (\A j \in i .. n + 1 : s[j] \notin S) <=> (\A j \in i .. n : s[j] \notin S)
  OBVIOUS
<1>2. T = U
  BY <1>1
<1>3. QED
  BY <1>2 DEF PadsIn

LEMMA PadsAdd ==
  ASSUME NEW s, NEW S, NEW P, NEW n \in Nat, s[n + 1] \notin S, s[n + 1] \in P
  PROVE  PadsIn(s, S, P, n + 1) = PadsIn(s, S, P, n) + 1
<1> DEFINE T == {i \in 1 .. n + 1 : s[i] \in P /\ \A j \in i .. n + 1 : s[j] \notin S}
           U == {i \in 1 .. n : s[i] \in P /\ \A j \in i .. n : s[j] \notin S}
<1>1. \A i \in 1 .. n : (\A j \in i .. n + 1 : s[j] \notin S) <=> (\A j \in i .. n : s[j] \notin S)
  OBVIOUS
<1>2. \A j \in n + 1 .. n + 1 : s[j] \notin S
  OBVIOUS
<1>3. T = U \union {n + 1} /\ n + 1 \notin U
  BY <1>1, <1>2
<1>4. U \in SUBSET (1 .. n)
  OBVIOUS
<1>5. PadsIn(s, S, P, n + 1) = Cardinality(T) /\ PadsIn(s, S, P, n) = Cardinality(U)
  BY DEF PadsIn
<1> HIDE DEF T, U
<1>6. IsFiniteSet(U)
  BY <1>4, PositionsAreFinite
<1>7. QED
  BY <1>3, <1>5, <1>6, FS_AddElement

LEMMA EndIsUnique ==
  ASSUME NEW s, NEW S, NEW P, NEW end \in Nat, NEW e, NEW f,
         EndsAt(s, S, P, end, e), EndsAt(s, S, P, end, f)
  PROVE  e = f
<1>1. /\ e \in 0 .. end /\ f \in 0 .. end
      /\ e = end \/ StopsAt(s, S, P, e)
      /\ f = end \/ StopsAt(s, S, P, f)
      /\ \A i \in 1 .. e - 1 : ~StopsAt(s, S, P, i)
      /\ \A i \in 1 .. f - 1 : ~StopsAt(s, S, P, i)
  BY DEF EndsAt
<1>2. \A i : StopsAt(s, S, P, i) => i >= 1
  BY DEF StopsAt
<1>3. QED
  BY <1>1, <1>2

(* A scan that has met no stop is not past the end.                        *)
LEMMA NotPastEnd ==
  ASSUME NEW s, NEW S, NEW P, NEW end \in Nat, NEW e, NEW n \in 0 .. end,
         EndsAt(s, S, P, end, e), \A i \in 1 .. n : ~StopsAt(s, S, P, i)
  PROVE  n <= e
<1>1. e \in 0 .. end /\ (e = end \/ StopsAt(s, S, P, e))
  BY DEF EndsAt
<1>2. \A i : StopsAt(s, S, P, i) => i >= 1
  BY DEF StopsAt
<1>3. QED
  BY <1>1, <1>2
-----------------------------------------------------------------------------
(* The bytes a scan counts, the padding a lenient scan may stop at, and    *)
(* where a scan ends that meets no such stop.                              *)
SymbolBytes ==
  IF SpecialsRoute THEN {b \in Byte : ~IsIgnored(b)} ELSE {b \in Byte : IsSymbol(b)}

PadBytes ==
  IF LenientRoute /\ ~call.continues /\ policy.padded /\ ~EqualsIsData THEN {Equals} ELSE {}

ScanEnd ==
  IF SpecialsRoute /\ policy.padded /\ Value(Equals) = INVALID
  THEN FirstFrom(input, 0, {Equals}) - 1 ELSE Len(input)

Count(n) == CountIn(input, SymbolBytes, n)
Pads(n) == PadsIn(input, SymbolBytes, PadBytes, n)
StopAt(n) == StopsAt(input, SymbolBytes, PadBytes, n)
IsEnd(e) == EndsAt(input, SymbolBytes, PadBytes, ScanEnd, e)

(* Which pass runs, and what each begins with. Only a checked pass fails.  *)
PassInv ==
  /\ pc \in {"begin", "sized"} => ~writes
  /\ pc = "sized" => call.mode \in {"counting", "strictInto"}
  /\ writes => (checked <=> call.mode # "counting")
  /\ ~writes => checked /\ output = <<>> /\ reach = 0
  /\ ~writes /\ pc \in {"route", "scan", "finish", "flush"} => call.mode = "counting"
  /\ error => checked /\ pc \notin {"begin", "route", "sized"}
  /\ padded = policy.padded \/ (policy.strict /\ IsIgnored(Equals))
  /\ translation \in {Untranslated, decoder.translation}
  /\ pc \in {"begin", "route"} => source = 0 /\ symbols = 0 /\ padding = 0 /\ quad = 0

(* What a pass counts is a function of how far it has scanned: two passes  *)
(* over one input agree at every place, and end at the same one.           *)
ScanInv ==
  pc \in {"scan", "finish", "flush"} \/ (pc = "done" /\ ~error) =>
    /\ source <= ScanEnd
    /\ checked \/ SpecialsRoute => symbols = Count(source)
    /\ writes => Len(pushed) = Count(source)
    /\ ~SpecialsRoute => quad = Count(source) % 4
    /\ PadBytes # {} => padding = Pads(source)
    /\ pc \in {"scan", "finish"} => \A i \in 1 .. source : ~StopAt(i)
    /\ pc = "finish" => source = ScanEnd
    /\ pc \in {"flush", "done"} => IsEnd(source)

(* A pushed symbol that decodes is not of the trailing padding: it comes   *)
(* from a place as far into the input at least.                            *)
OriginInv ==
  writes => \A n \in 1 .. Len(pushed) :
    translation[pushed[n]] \in Standard =>
      \E i \in n .. source : EqualsIsData \/ input[i] # Equals

(* What a capacity was computed from.                                      *)
CapacityInv ==
  writes \/ pc = "sized" =>
    /\ call.mode \in {"allocating", "counting", "strictInto"}
    /\ capacity \in Nat
    /\ call.mode = "counting" => \E e \in 0 .. Len(input) : IsEnd(e) /\ capacity = DecodedSymbolLen(Count(e))
    /\ call.mode # "counting" => DecodedSymbolLen(Len(input) - TrailingPadding(input)) <= capacity
    /\ call.mode = "strictInto" => capacity = LayoutLen

(* A strict attempt ignores nothing: what are no symbols are the padding   *)
(* characters at the end, whose number it checks.                          *)
PadsBehind ==
  policy.padded /\ ~EqualsIsData =>
    \A i \in 1 .. Len(input) : input[i] = Equals <=> i > Len(input) - padding

StrictIntoInv ==
  call.mode = "strictInto" /\ writes /\ ~error =>
    /\ padding \in Nat
    /\ padding > 0 => policy.padded /\ ~EqualsIsData
    /\ pc \in {"finish", "flush", "done"} => symbols + padding = Len(input) /\ PadsBehind
    /\ pc \in {"flush", "done"} /\ policy.padded => padding = ExpectedPadding(symbols)

(* Nothing is stored past the capacity, failing or not.                    *)
ReachInv == reach \in Nat /\ Len(output) <= reach /\ (writes => reach <= capacity)
-----------------------------------------------------------------------------
(* All of that depends on the arguments only.                              *)
SameArguments == call' = call /\ decoder' = decoder /\ input' = input

LEMMA ArgumentsStay ==
  ASSUME SameArguments
  PROVE  /\ SymbolBytes' = SymbolBytes /\ PadBytes' = PadBytes /\ ScanEnd' = ScanEnd
         /\ LayoutLen' = LayoutLen /\ TrailingPadding(input)' = TrailingPadding(input)
         /\ EqualsIsData' <=> EqualsIsData
         /\ SpecialsRoute' <=> SpecialsRoute
         /\ StrictRoute' <=> StrictRoute
         /\ IsIgnored(Equals)' <=> IsIgnored(Equals)
         /\ policy' = policy
<1>1. /\ policy' = policy /\ (SpecialsRoute' <=> SpecialsRoute) /\ (LenientRoute' <=> LenientRoute)
      /\ (EqualsIsData' <=> EqualsIsData)
      /\ \A b : Value(b)' = Value(b)
  BY DEF SameArguments, policy, SpecialsRoute, LenientRoute, EqualsIsData, Value
<1>2. (StrictRoute' <=> StrictRoute) /\ (IsIgnored(Equals)' <=> IsIgnored(Equals))
  BY <1>1 DEF StrictRoute, IsIgnored
<1>3. SymbolBytes' = SymbolBytes
  BY <1>1 DEF SymbolBytes, IsIgnored, IsSymbol
<1>4. PadBytes' = PadBytes
  BY <1>1, Zenon DEF PadBytes, SameArguments
<1>5. ScanEnd' = ScanEnd
  BY <1>1, Zenon DEF ScanEnd, SameArguments
<1>6. TrailingPadding(input)' = TrailingPadding(input)
  BY <1>1, Zenon DEF TrailingPadding, SameArguments
<1>7. LayoutLen' = LayoutLen
  BY <1>1, Zenon DEF LayoutLen, SameArguments
<1>8. QED
  BY <1>1, <1>2, <1>3, <1>4, <1>5, <1>6, <1>7

LEMMA CountsStay ==
  ASSUME SameArguments
  PROVE  /\ \A n : Count(n)' = Count(n)
         /\ \A n : Pads(n)' = Pads(n)
         /\ \A n : StopAt(n)' <=> StopAt(n)
         /\ \A n : IsEnd(n)' <=> IsEnd(n)
  BY ArgumentsStay, Zenon DEF SameArguments, Count, Pads, StopAt, IsEnd

(* What a search has passed, and what it has found.                        *)
LEMMA FirstFromFinds ==
  ASSUME NEW s \in Seq(Byte), NEW from \in 0 .. Len(s), NEW bytes
  PROVE  /\ \A i \in from + 1 .. FirstFrom(s, from, bytes) - 1 : s[i] \notin bytes
         /\ FirstFrom(s, from, bytes) <= Len(s) => s[FirstFrom(s, from, bytes)] \in bytes
<1> DEFINE Hits == {i \in Nat : i \in from + 1 .. Len(s) /\ s[i] \in bytes}
<1>0. Len(s) \in Nat
  OBVIOUS
<1>1. CASE \E i \in from + 1 .. Len(s) : s[i] \in bytes
  <2>1. Hits \subseteq Nat /\ Hits # {}
    BY <1>1, <1>0
  <2>2. IsWellFoundedOn(OpToRel(<, Nat), Nat)
    BY NatLessThanWellFounded
  <2> HIDE DEF Hits
  <2>3. PICK i \in Hits : \A j \in Hits : ~(<<j, i>> \in OpToRel(<, Nat))
    BY <2>1, <2>2, WFMin
  <2>4. \A j \in Hits : ~(j < i)
    BY <2>1, <2>3 DEF OpToRel
  <2>5. i \in from + 1 .. Len(s) /\ s[i] \in bytes
    BY DEF Hits
  <2>6. \A j \in from + 1 .. i - 1 : s[j] \notin bytes
    BY <1>0, <2>4, <2>5 DEF Hits
  <2>7. \E k \in from + 1 .. Len(s) : s[k] \in bytes /\ \A j \in from + 1 .. k - 1 : s[j] \notin bytes
    BY <2>5, <2>6
  <2> DEFINE found == CHOOSE k \in from + 1 .. Len(s) :
                        s[k] \in bytes /\ \A j \in from + 1 .. k - 1 : s[j] \notin bytes
  <2>8. s[found] \in bytes /\ \A j \in from + 1 .. found - 1 : s[j] \notin bytes
    BY <2>7
  <2>9. FirstFrom(s, from, bytes) = found
    BY <1>1 DEF FirstFrom
  <2>10. QED
    BY <2>8, <2>9
<1>2. CASE ~(\E i \in from + 1 .. Len(s) : s[i] \in bytes)
  <2>1. FirstFrom(s, from, bytes) = Len(s) + 1
    BY <1>2 DEF FirstFrom
  <2>2. QED
    BY <1>0, <1>2, <2>1
<1>3. QED
  BY <1>1, <1>2

LEMMA ScanEndFacts ==
  ASSUME Inputs, PassInv
  PROVE  /\ ScanEnd \in Nat /\ ScanEnd <= Len(input)
         /\ SpecialsRoute => DataEnd = ScanEnd
         /\ ~SpecialsRoute => ScanEnd = Len(input)
<1>1. Len(input) \in Nat /\ FirstFrom(input, 0, {Equals}) - 1 \in 0 .. Len(input)
  BY InputRanges
<1>2. ScanEnd \in Nat /\ ScanEnd <= Len(input)
  BY <1>1 DEF ScanEnd
<1>3. EqualsIsPadding <=> policy.padded /\ Value(Equals) = INVALID
  <2>1. padded = policy.padded \/ Value(Equals) = 65
    BY DEF PassInv, IsIgnored, IGNORED
  <2>2. QED
    BY <2>1 DEF EqualsIsPadding, INVALID
<1>4. QED
  BY <1>2, <1>3 DEF ScanEnd, DataEnd

LEMMA PolicyFacts ==
  ASSUME NEW c \in Calls
  PROVE  /\ c.policy.altchars = None \/ c.policy.altchars \in Byte \X Byte
         /\ c.mode = "strictInto" => IsStrictCustom(c.policy)
<1>1. \A d \in Calls : d.policy.altchars \in {None} \union (Byte \X Byte)
  BY ConfiguredDecodeAssumption
<1>2. \A d \in Calls : d.mode = "strictInto" => IsStrictCustom(d.policy)
  BY ConfiguredDecodeAssumption
<1>3. QED
  BY <1>1, <1>2

(* Letters and digits pushed as runs are symbols of the alphabet.          *)
LEMMA AlphanumericsAreSymbols ==
  ASSUME Inputs, decoder.preservesAlphanumeric, NEW b \in Alphanumeric
  PROVE  IsSymbol(b) /\ b \in Byte /\ b # Equals
<1> DEFINE p == call.policy
<1>1. /\ b \in Standard /\ b \in Byte /\ b # Equals /\ b # Plus /\ b # Slash
      /\ StandardValue[b] \in 0 .. 63
  BY ConfiguredDecodeAssumption, StagingWriterAssumption
<1>2. decoder = NewDecoder(p)
  BY DEF Inputs
<1>3. decoder.table = DecodeTable(p)
  BY <1>2 DEF NewDecoder
<1>4. decoder.preservesAlphanumeric =
        IF p.alphabet = None THEN Range(p.altchars) \intersect Alphanumeric = {}
        ELSE \A a \in Alphanumeric : DecodeTable(p)[a] = StandardValue[a]
  BY <1>2 DEF NewDecoder
<1>5. CASE p.alphabet = None
  <2>1. b \notin Range(p.altchars)
    BY <1>4, <1>5
  <2>2. call \in Calls
    BY DEF Inputs
  <2>3. p.altchars = None \/ p.altchars \in Byte \X Byte
    BY <2>2, PolicyFacts
  <2>4. p.altchars # None => p.altchars[1] # b /\ p.altchars[2] # b
    <3>1. SUFFICES ASSUME p.altchars \in Byte \X Byte PROVE p.altchars[1] # b /\ p.altchars[2] # b
      BY <2>3
    <3>2. DOMAIN p.altchars = 1 .. 2
      BY <3>1
    <3>3. p.altchars[1] \in Range(p.altchars) /\ p.altchars[2] \in Range(p.altchars)
      BY <3>2 DEF Range
    <3>4. QED
      BY <2>1, <3>3
  <2>5. ~IsAltchar(p, 1, b) /\ ~IsAltchar(p, 2, b)
    BY <2>4 DEF IsAltchar
  <2>6. DecodeTable(p)[b] = OrIgnored(p, b, StandardValue[b])
    BY <1>1, <1>5, <2>5 DEF DecodeTable
  <2>7. QED
    BY <1>1, <1>3, <2>6 DEF OrIgnored, IsSymbol, Value
<1>6. CASE p.alphabet # None
  <2>1. \A a \in Alphanumeric : DecodeTable(p)[a] = StandardValue[a]
    BY <1>4, <1>6, Zenon
  <2>2. decoder.table[b] = StandardValue[b]
    BY <1>3, <2>1
  <2>3. QED
    BY <1>1, <2>2 DEF IsSymbol, Value
<1>7. QED
  BY <1>5, <1>6

(* Padding is no symbol of the standard alphabet, whatever is translated.  *)
LEMMA PaddingStays ==
  ASSUME Inputs, PassInv, ~EqualsIsData
  PROVE  translation[Equals] \notin Standard
<1>1. Equals \in Byte /\ Equals \notin Standard
  BY ConfiguredDecodeAssumption
<1>2. CASE translation = Untranslated
  BY <1>1, <1>2 DEF Untranslated
<1>3. CASE translation = decoder.translation
  <2>1. decoder = NewDecoder(call.policy)
    BY DEF Inputs
  <2>2. decoder.translation = Translation(call.policy, decoder.table)
    BY <2>1 DEF NewDecoder
  <2>3. ~(decoder.table[Equals] < 64)
    BY DEF EqualsIsData, Value
  <2>4. Translation(call.policy, decoder.table)[Equals] = Equals
    BY <1>1, <2>3 DEF Translation
  <2>5. QED
    BY <1>1, <1>3, <2>2, <2>4
<1>4. QED
  BY <1>2, <1>3 DEF PassInv
-----------------------------------------------------------------------------
LEMMA PassInit == Init => PassInv
<1> SUFFICES ASSUME Init PROVE PassInv
  OBVIOUS
<1>1. /\ pc = "begin" /\ padded = call.policy.padded
      /\ source = 0 /\ symbols = 0 /\ padding = 0 /\ quad = 0
      /\ writes = FALSE /\ checked = TRUE /\ translation = Untranslated
      /\ output = <<>> /\ reach = 0 /\ error = FALSE
  BY DEF Init, SinkInit
<1>2. QED
  BY <1>1 DEF PassInv, policy

(* A step that fails, one that leaves the pass alone, and one that begins  *)
(* a pass.                                                                 *)
LEMMA PassFails ==
  ASSUME PassInv, SameArguments, FailScan, checked, padded' = padded
  PROVE  PassInv'
<1>1. /\ pc' = "done" /\ error' = TRUE /\ writes' = writes /\ checked' = checked
      /\ translation' = translation /\ output' = output /\ reach' = reach
  BY DEF FailScan, Fail, Goto
<1>2. /\ policy' = policy /\ decoder' = decoder /\ call' = call
      /\ IsIgnored(Equals)' <=> IsIgnored(Equals)
  BY ArgumentsStay DEF SameArguments
<1>3. QED
  BY <1>1, <1>2 DEF PassInv

LEMMA PassGoesOn ==
  ASSUME PassInv, SameArguments, writes' = writes, checked' = checked,
         translation' = translation, padded' = padded,
         ~writes => output' = output /\ reach' = reach,
         error' => checked /\ pc' \notin {"begin", "route", "sized"},
         pc' # "begin",
         pc' = "sized" => ~writes /\ call.mode \in {"counting", "strictInto"},
         pc' = "route" => pc = "route" /\ source' = source /\ symbols' = symbols
                            /\ padding' = padding /\ quad' = quad,
         pc' \in {"scan", "finish", "flush"} => pc \in {"route", "scan", "finish", "flush"}
  PROVE  PassInv'
<1>1. /\ policy' = policy /\ decoder' = decoder /\ call' = call
      /\ IsIgnored(Equals)' <=> IsIgnored(Equals)
  BY ArgumentsStay DEF SameArguments
<1>2. QED
  BY <1>1 DEF PassInv

LEMMA PassBegins ==
  ASSUME NEW w \in BOOLEAN, NEW k \in BOOLEAN, NewSink(w, k, Untranslated),
         call' = call, decoder' = decoder, pc' = "route", ~error, reach = 0,
         padded' = policy.padded,
         source' = 0, symbols' = 0, padding' = 0, quad' = 0,
         w => (k <=> call.mode # "counting"),
         ~w => k /\ call.mode = "counting"
  PROVE  PassInv'
<1>1. /\ writes' = w /\ checked' = k /\ translation' = Untranslated /\ output' = <<>>
      /\ reach' = 0 /\ error' = error
  BY DEF NewSink
<1>2. policy' = policy
  BY DEF policy
<1>3. QED
  BY <1>1, <1>2 DEF PassInv

LEMMA PassOfBegin ==
  ASSUME Inputs, PassInv, BeginAllocating \/ BeginCount \/ BeginStrictInto \/ BeginWrite
  PROVE  PassInv'
<1>1. CASE BeginAllocating
  <2>1. /\ pc = "begin" /\ call.mode = "allocating" /\ NewSink(TRUE, TRUE, Untranslated)
        /\ call' = call /\ decoder' = decoder /\ pc' = "route" /\ padded' = padded
        /\ source' = source /\ symbols' = symbols /\ padding' = padding /\ quad' = quad
    BY <1>1 DEF BeginAllocating, Goto, scan
  <2>2. ~error /\ reach = 0 /\ source = 0 /\ symbols = 0 /\ padding = 0 /\ quad = 0
    BY <2>1 DEF PassInv
  <2>3. padded' = policy.padded \/ (policy.strict /\ IsIgnored(Equals))
    BY <2>1 DEF PassInv
  <2>4. /\ writes' = TRUE /\ checked' = TRUE /\ translation' = Untranslated /\ error' = error
    BY <2>1 DEF NewSink
  <2>5. /\ policy' = policy /\ (IsIgnored(Equals)' <=> IsIgnored(Equals))
    BY <2>1 DEF policy, IsIgnored, Value
  <2>6. QED
    BY <2>1, <2>2, <2>3, <2>4, <2>5 DEF PassInv
<1>2. CASE BeginCount
  <2>1. /\ pc = "begin" /\ call.mode = "counting" /\ NewSink(FALSE, TRUE, Untranslated)
        /\ call' = call /\ decoder' = decoder /\ pc' = "route" /\ padded' = padded
        /\ source' = source /\ symbols' = symbols /\ padding' = padding /\ quad' = quad
    BY <1>2 DEF BeginCount, Goto, scan
  <2>2. ~error /\ reach = 0 /\ source = 0 /\ symbols = 0 /\ padding = 0 /\ quad = 0
    BY <2>1 DEF PassInv
  <2>3. padded' = policy.padded \/ (policy.strict /\ IsIgnored(Equals))
    BY <2>1 DEF PassInv
  <2>4. /\ writes' = FALSE /\ checked' = TRUE /\ translation' = Untranslated /\ error' = error
        /\ output' = <<>> /\ reach' = 0
    BY <2>1, <2>2 DEF NewSink
  <2>5. /\ policy' = policy /\ (IsIgnored(Equals)' <=> IsIgnored(Equals))
    BY <2>1 DEF policy, IsIgnored, Value
  <2>6. QED
    BY <2>1, <2>2, <2>3, <2>4, <2>5 DEF PassInv
<1>3. CASE BeginStrictInto
  <2>1. /\ pc = "begin" /\ call.mode = "strictInto" /\ SameArguments /\ padded' = padded
        /\ FailScan \/ (pc' = "sized" /\ UNCHANGED sink)
    BY <1>3 DEF BeginStrictInto, Goto, SameArguments
  <2>2. checked /\ ~writes
    BY <2>1 DEF PassInv
  <2>3. CASE FailScan
    BY <2>1, <2>2, <2>3, PassFails
  <2>4. CASE pc' = "sized" /\ UNCHANGED sink
    <3>1. /\ writes' = writes /\ checked' = checked /\ translation' = translation
          /\ output' = output /\ reach' = reach /\ error' = error
      BY <2>4 DEF sink
    <3>2. ~error
      BY <2>1 DEF PassInv
    <3>3. QED
      BY <2>1, <2>2, <2>4, <3>1, <3>2, PassGoesOn
  <2>5. QED
    BY <2>1, <2>3, <2>4
<1>4. CASE BeginWrite
  <2>1. /\ pc = "sized" /\ NewSink(TRUE, call.mode = "strictInto", Untranslated)
        /\ call' = call /\ decoder' = decoder /\ pc' = "route" /\ padded' = policy.padded
        /\ source' = 0 /\ symbols' = 0 /\ padding' = 0 /\ quad' = 0
    BY <1>4 DEF BeginWrite, Goto
  <2>2. ~error /\ reach = 0 /\ call.mode \in {"counting", "strictInto"}
    BY <2>1 DEF PassInv
  <2>3. call.mode = "strictInto" <=> call.mode # "counting"
    BY <2>2
  <2>4. QED
    BY <2>1, <2>2, <2>3, PassBegins
<1>5. QED
  BY <1>1, <1>2, <1>3, <1>4

LEMMA PassOfRoute ==
  ASSUME Inputs, PassInv, RouteIgnoredPadding \/ RouteSpecials \/ RouteGeneric
  PROVE  PassInv'
<1>1. pc = "route" /\ SameArguments /\ UNCHANGED scan
  BY DEF RouteIgnoredPadding, RouteSpecials, RouteGeneric, SameArguments
<1>2. /\ source' = source /\ symbols' = symbols /\ padding' = padding /\ quad' = quad
      /\ policy' = policy /\ decoder' = decoder /\ call' = call
      /\ IsIgnored(Equals)' <=> IsIgnored(Equals)
  BY <1>1, ArgumentsStay DEF scan, SameArguments
<1>3. CASE RouteIgnoredPadding
  <2>1. checked /\ policy.strict /\ IsIgnored(Equals)
    BY <1>3 DEF RouteIgnoredPadding, PaddingIgnored
  <2>2. CASE FailScan /\ padded' = padded
    BY <1>1, <2>1, <2>2, PassFails
  <2>3. CASE UNCHANGED <<pc, sink>>
    BY <1>1, <1>2, <2>1, <2>3 DEF PassInv, sink
  <2>4. QED
    BY <1>3, <2>2, <2>3 DEF RouteIgnoredPadding
<1>4. CASE RouteSpecials
  <2>1. CASE Forbidden
    <3>1. FailScan /\ checked /\ padded' = padded
      BY <1>4, <2>1 DEF RouteSpecials, Forbidden
    <3>2. QED
      BY <1>1, <3>1, PassFails
  <2>2. CASE ~Forbidden
    <3>1. /\ pc' = "scan" /\ translation' = decoder.translation /\ padded' = padded
          /\ writes' = writes /\ checked' = checked /\ output' = output /\ reach' = reach
          /\ error' = error
      BY <1>4, <2>2 DEF RouteSpecials, Goto
    <3>2. QED
      BY <1>1, <1>2, <3>1 DEF PassInv
  <2>3. QED
    BY <2>1, <2>2
<1>5. CASE RouteGeneric
  BY <1>1, <1>2, <1>5 DEF RouteGeneric, Goto, sink, PassInv
<1>6. QED
  BY <1>3, <1>4, <1>5

(* What the sink does keeps the pass.                                      *)
SamePass ==
  /\ writes' = writes /\ checked' = checked /\ translation' = translation
  /\ ~writes => output' = output /\ reach' = reach
  /\ error' => checked

LEMMA DecodeKeepsPass ==
  ASSUME PassInv, ~error, NEW part, Decode(part)
  PROVE  /\ ~writes => output' = output /\ reach' = reach
         /\ error' => checked
<1>1. ~writes => output = <<>> /\ reach = 0
  BY DEF PassInv
<1>2. Len(<<>>) = 0
  OBVIOUS
<1>3. CASE checked /\ (Len(part) % 4 = 1 \/ ~AllStandard(part))
  BY <1>3 DEF Decode
<1>4. CASE ~(checked /\ (Len(part) % 4 = 1 \/ ~AllStandard(part)))
  <2>1. /\ output' = IF writes THEN output \o Decoded(part) ELSE output
        /\ reach' = AtLeast(reach, Len(output')) /\ error' = error
    BY <1>4 DEF Decode
  <2>2. ASSUME ~writes PROVE output' = output /\ reach' = reach
    BY <1>1, <1>2, <2>1, <2>2 DEF AtLeast
  <2>3. QED
    BY <2>1, <2>2
<1>5. QED
  BY <1>3, <1>4

LEMMA PushRunKeepsPass ==
  ASSUME PassInv, DecodeDirect \/ Stage
  PROVE  SamePass
<1>1. ~error /\ writes' = writes /\ checked' = checked /\ translation' = translation
  BY DEF DecodeDirect, Stage
<1>2. ~error /\ (~writes => output' = output /\ reach' = reach) /\ (error' => checked)
  <2>1. CASE \E part : Decode(part)
    BY <1>1, <2>1, DecodeKeepsPass
  <2>2. CASE UNCHANGED <<output, reach, error>>
    BY <1>1, <2>2
  <2>3. QED
    BY <2>1, <2>2 DEF DecodeDirect, Stage
<1>3. QED
  BY <1>1, <1>2 DEF SamePass

LEMMA FlushKeepsPass ==
  ASSUME PassInv, ~error, FlushRest
  PROVE  SamePass
<1>1. writes' = writes /\ checked' = checked /\ translation' = translation
  BY DEF FlushRest
<1>2. (~writes => output' = output /\ reach' = reach) /\ (error' => checked)
  <2>1. CASE staging = <<>>
    BY <2>1 DEF FlushRest
  <2>2. CASE staging # <<>>
    BY <2>2, DecodeKeepsPass DEF FlushRest
  <2>3. QED
    BY <2>1, <2>2
<1>3. QED
  BY <1>1, <1>2 DEF SamePass

LEMMA PushKeepsPass ==
  ASSUME PassInv, ~error, NEW run, NEW validate \in BOOLEAN, Push(run, validate)
  PROVE  SamePass
<1>1. ~writes => checked
  BY DEF PassInv
<1>2. QED
  BY <1>1 DEF Push, SamePass

LEMMA SinkKeepsPass ==
  ASSUME PassInv, UNCHANGED sink
  PROVE  SamePass
<1>1. error => checked
  BY DEF PassInv
<1>2. QED
  BY <1>1 DEF SamePass, sink

(* So does every step of a scan.                                           *)
LEMMA ScanKeepsPass ==
  ASSUME PassInv, SameArguments, SamePass, padded' = padded,
         pc' \in {"scan", "finish", "flush"}, pc \in {"scan", "finish", "flush"}
  PROVE  PassInv'
<1>1. error' => checked /\ pc' \notin {"begin", "route", "sized"}
  BY DEF SamePass
<1>2. QED
  BY <1>1, PassGoesOn DEF SamePass

LEMMA PassOfScan ==
  ASSUME Inputs, PassInv,
         PushRun \/ SpecialsRun \/ EndSpecials \/ AlphanumericRun \/ EndScan
  PROVE  PassInv'
<1>1. SameArguments /\ padded' = padded /\ pc = "scan"
  BY DEF PushRun, SpecialsRun, EndSpecials, AlphanumericRun, EndScan, Scanning, SameArguments
<1>2. CASE PushRun
  BY <1>1, <1>2, PushRunKeepsPass, ScanKeepsPass DEF PushRun
<1>3. CASE SpecialsRun
  <2>1. ~error /\ pc' = pc
    BY <1>3 DEF SpecialsRun, Scanning
  <2>2. CASE UNCHANGED sink
    BY <1>1, <2>1, <2>2, SinkKeepsPass, ScanKeepsPass
  <2>3. CASE \E run : Push(run, TRUE)
    BY <1>1, <2>1, <2>3, PushKeepsPass, ScanKeepsPass
  <2>4. UNCHANGED sink \/ \E run : Push(run, TRUE)
    BY <1>3 DEF SpecialsRun
  <2>5. QED
    BY <2>2, <2>3, <2>4
<1>4. CASE EndSpecials
  <2>1. (FailScan /\ checked) \/ (pc' = "finish" /\ UNCHANGED sink)
    BY <1>4 DEF EndSpecials, Goto
  <2>2. CASE FailScan /\ checked
    BY <1>1, <2>2, PassFails
  <2>3. CASE pc' = "finish" /\ UNCHANGED sink
    BY <1>1, <2>3, SinkKeepsPass, ScanKeepsPass
  <2>4. QED
    BY <2>1, <2>2, <2>3
<1>5. CASE AlphanumericRun
  <2>1. ~error /\ pc' = pc /\ Push(Run, FALSE)
    BY <1>5 DEF AlphanumericRun, Scanning
  <2>2. QED
    BY <1>1, <2>1, PushKeepsPass, ScanKeepsPass
<1>6. CASE EndScan
  <2>1. pc' = "finish" /\ UNCHANGED sink
    BY <1>6 DEF EndScan, Goto
  <2>2. QED
    BY <1>1, <2>1, SinkKeepsPass, ScanKeepsPass
<1>7. QED
  BY <1>2, <1>3, <1>4, <1>5, <1>6

LEMMA PassOfByte ==
  ASSUME Inputs, PassInv,
         StrictSymbol \/ StrictOther \/ LenientSymbol \/ LenientPadding \/ LenientSkip
  PROVE  PassInv'
<1>1. SameArguments /\ padded' = padded /\ pc = "scan" /\ ~error
  BY DEF StrictSymbol, StrictOther, LenientSymbol, LenientPadding, LenientSkip, ScanByte, Scanning,
         SameArguments
<1>2. CASE FailScan /\ checked
  BY <1>1, <1>2, PassFails
<1>3. CASE pc' \in {"scan", "flush"} /\ UNCHANGED sink
  BY <1>1, <1>3, SinkKeepsPass, ScanKeepsPass
<1>4. CASE pc' = pc /\ \E run : Push(run, FALSE)
  BY <1>1, <1>4, PushKeepsPass, ScanKeepsPass
<1>5. StrictSymbol => (FailScan /\ checked) \/ (pc' = pc /\ \E run : Push(run, FALSE))
  BY DEF StrictSymbol
<1>6. StrictOther => (FailScan /\ checked) \/ (pc' \in {"scan", "flush"} /\ UNCHANGED sink)
  BY <1>1 DEF StrictOther
<1>7. LenientSymbol => pc' = pc /\ \E run : Push(run, FALSE)
  BY DEF LenientSymbol
<1>8. LenientPadding => (FailScan /\ checked) \/ (pc' \in {"scan", "flush"} /\ UNCHANGED sink)
  BY <1>1 DEF LenientPadding, Goto
<1>9. LenientSkip => pc' \in {"scan", "flush"} /\ UNCHANGED sink
  BY <1>1 DEF LenientSkip
<1>10. QED
  BY <1>2, <1>3, <1>4, <1>5, <1>6, <1>7, <1>8, <1>9

LEMMA PassOfEnd ==
  ASSUME Inv, PassInv, Finish \/ Flush \/ OutputTooSmall \/ Abort
  PROVE  PassInv'
<1>1. SameArguments /\ (padded' = padded \/ Flush) /\ UNCHANGED scan
  BY DEF Finish, Flush, OutputTooSmall, Abort, SameArguments
<1>2. CASE Finish
  <2>1. pc = "finish" /\ padded' = padded /\ ((FailScan /\ checked) \/ (pc' = "flush" /\ UNCHANGED sink))
    BY <1>2 DEF Finish, Goto
  <2>2. CASE FailScan /\ checked
    BY <1>1, <2>1, <2>2, PassFails
  <2>3. CASE pc' = "flush" /\ UNCHANGED sink
    BY <1>1, <2>1, <2>3, SinkKeepsPass, ScanKeepsPass
  <2>4. QED
    BY <2>1, <2>2, <2>3
<1>3. CASE Flush
  <2>1. /\ pc = "flush" /\ FlushRest /\ padded' = padded
        /\ IF writes \/ error' THEN pc' = "done" ELSE pc' = "sized"
    BY <1>3 DEF Flush, Goto
  <2>2. ~error
    BY <2>1, InvGives
  <2>3. SamePass
    BY <2>1, <2>2, FlushKeepsPass
  <2>4. ~writes => call.mode = "counting"
    BY <2>1 DEF PassInv
  <2>5. QED
    BY <1>1, <2>1, <2>3, <2>4, PassGoesOn DEF SamePass
<1>4. CASE OutputTooSmall
  <2>1. pc = "sized" /\ pc' = "tooSmall" /\ UNCHANGED sink /\ padded' = padded
    BY <1>4 DEF OutputTooSmall, Goto
  <2>2. SamePass
    BY <2>1, SinkKeepsPass
  <2>3. QED
    BY <1>1, <2>1, <2>2, PassGoesOn DEF SamePass
<1>5. CASE Abort
  <2>1. pc = "scan" /\ pc' = "done" /\ UNCHANGED sink /\ padded' = padded
    BY <1>5 DEF Abort, Goto
  <2>2. SamePass
    BY <2>1, SinkKeepsPass
  <2>3. QED
    BY <1>1, <2>1, <2>2, PassGoesOn DEF SamePass
<1>6. QED
  BY <1>2, <1>3, <1>4, <1>5
-----------------------------------------------------------------------------
LEMMA QuadAdds ==
  ASSUME NEW c \in Nat, NEW m \in Nat
  PROVE  ((c % 4) + m) % 4 = (c + m) % 4
  OBVIOUS

LEMMA ScanTypes ==
  ASSUME Inputs, PassInv, ScanInv, pc = "scan"
  PROVE  /\ source \in Nat /\ ScanEnd \in Nat /\ source <= ScanEnd /\ ScanEnd <= Len(input)
         /\ Len(input) \in Nat /\ input \in Seq(Byte)
         /\ Count(source) \in Nat /\ Count(source) <= source
<1>1. source \in Nat /\ ScanEnd \in Nat /\ ScanEnd <= Len(input) /\ Len(input) \in Nat /\ input \in Seq(Byte)
  BY ScanEndFacts, InputRanges DEF Inputs
<1>2. source <= ScanEnd
  BY DEF ScanInv
<1>3. Count(source) \in Nat /\ Count(source) <= source
  BY <1>1, CountType DEF Count
<1>4. QED
  BY <1>1, <1>2, <1>3

(* While a scan goes on, ScanInv says this.                                *)
Scanned ==
  /\ source <= ScanEnd
  /\ checked \/ SpecialsRoute => symbols = Count(source)
  /\ writes => Len(pushed) = Count(source)
  /\ ~SpecialsRoute => quad = Count(source) % 4
  /\ PadBytes # {} => padding = Pads(source)

LEMMA ScannedGives ==
  ASSUME ScanInv, pc = "scan"
  PROVE  Scanned /\ \A i \in 1 .. source : ~StopAt(i)
  BY DEF ScanInv, Scanned

LEMMA ScanOfScanned ==
  ASSUME Scanned', pc' = "scan" \/ (pc' = "finish" /\ source' = ScanEnd'),
         \A i \in 1 .. source' : ~StopsAt(input', SymbolBytes', PadBytes', i)
  PROVE  ScanInv'
  BY DEF ScanInv, Scanned, StopAt

LEMMA ScannedNext ==
  ASSUME SameArguments, writes' = writes, checked' = checked, NEW n, source' = n, n <= ScanEnd,
         checked \/ SpecialsRoute => symbols' = CountIn(input, SymbolBytes, n),
         writes => Len(pushed') = CountIn(input, SymbolBytes, n),
         ~SpecialsRoute => quad' = CountIn(input, SymbolBytes, n) % 4,
         PadBytes # {} => padding' = PadsIn(input, SymbolBytes, PadBytes, n)
  PROVE  Scanned'
<1>1. /\ SymbolBytes' = SymbolBytes /\ PadBytes' = PadBytes /\ ScanEnd' = ScanEnd /\ input' = input
      /\ SpecialsRoute' <=> SpecialsRoute
  BY ArgumentsStay DEF SameArguments
<1>2. QED
  BY <1>1 DEF Scanned, Count, Pads

(* Over a run of symbols, over another byte, and over one where it stops.  *)
LEMMA RunMoves ==
  ASSUME Inputs, PassInv, ScanInv, pc = "scan", pc' = "scan", SameArguments,
         writes' = writes, checked' = checked,
         NEW m \in Nat, m > 0, source' = source + m, source + m <= ScanEnd,
         \A i \in source + 1 .. source + m : input[i] \in SymbolBytes /\ input[i] \notin PadBytes,
         checked \/ SpecialsRoute => symbols' = symbols + m,
         writes => Len(pushed') = Len(pushed) + m,
         ~SpecialsRoute => quad' = (quad + m) % 4,
         PadBytes # {} => padding' = 0
  PROVE  ScanInv'
<1>1. source \in Nat /\ Count(source) \in Nat
  BY ScanTypes
<1>2. Scanned /\ \A i \in 1 .. source : ~StopAt(i)
  BY ScannedGives
<1>3. CountIn(input, SymbolBytes, source + m) = Count(source) + m
  BY <1>1, CountRun DEF Count
<1>4. PadsIn(input, SymbolBytes, PadBytes, source + m) = 0
  <2>1. source + m \in Nat /\ source + m > 0 /\ input[source + m] \in SymbolBytes
    BY <1>1
  <2>2. QED
    BY <2>1, PadsAfterSymbol
<1>5. ((Count(source) % 4) + m) % 4 = (Count(source) + m) % 4
  BY <1>1, QuadAdds
<1>6. \A i \in 1 .. source + m : ~StopsAt(input, SymbolBytes, PadBytes, i)
  <2> SUFFICES ASSUME NEW i \in 1 .. source + m
               PROVE  ~StopsAt(input, SymbolBytes, PadBytes, i)
    OBVIOUS
  <2>1. CASE i \in 1 .. source
    BY <1>2, <2>1 DEF StopAt
  <2>2. CASE i \in source + 1 .. source + m
    BY <2>2 DEF StopsAt
  <2>3. QED
    BY <1>1, <2>1, <2>2
<1>7. Scanned'
  <2>1. checked \/ SpecialsRoute => symbols' = CountIn(input, SymbolBytes, source + m)
    BY <1>2, <1>3 DEF Scanned
  <2>2. writes => Len(pushed') = CountIn(input, SymbolBytes, source + m)
    BY <1>2, <1>3 DEF Scanned
  <2>3. ~SpecialsRoute => quad' = CountIn(input, SymbolBytes, source + m) % 4
    BY <1>2, <1>3, <1>5 DEF Scanned
  <2>4. QED
    BY <1>4, <2>1, <2>2, <2>3, ScannedNext
<1>8. \A i \in 1 .. source' : ~StopsAt(input', SymbolBytes', PadBytes', i)
  BY <1>6, ArgumentsStay DEF SameArguments
<1>9. QED
  BY <1>7, <1>8, ScanOfScanned

(* What is known of the place behind a byte that is no symbol.             *)
LEMMA ByteMoves ==
  ASSUME Inputs, PassInv, ScanInv, pc = "scan", SameArguments,
         writes' = writes, checked' = checked,
         source' = source + 1, source + 1 <= ScanEnd, input[source + 1] \notin SymbolBytes,
         symbols' = symbols, pushed' = pushed, quad' = quad,
         PadBytes # {} => padding' = IF input[source + 1] \in PadBytes THEN padding + 1 ELSE padding
  PROVE  Scanned'
<1>1. source \in Nat
  BY ScanTypes
<1>2. Scanned
  BY ScannedGives
<1>3. CountIn(input, SymbolBytes, source + 1) = Count(source)
  BY <1>1, CountSkip DEF Count
<1>4. PadsIn(input, SymbolBytes, PadBytes, source + 1) =
        IF input[source + 1] \in PadBytes THEN Pads(source) + 1 ELSE Pads(source)
  BY <1>1, PadsSkip, PadsAdd DEF Pads
<1>5. PadBytes # {} => padding' = PadsIn(input, SymbolBytes, PadBytes, source + 1)
  BY <1>2, <1>4 DEF Scanned
<1>6. /\ checked \/ SpecialsRoute => symbols' = CountIn(input, SymbolBytes, source + 1)
      /\ writes => Len(pushed') = CountIn(input, SymbolBytes, source + 1)
      /\ ~SpecialsRoute => quad' = CountIn(input, SymbolBytes, source + 1) % 4
  BY <1>2, <1>3 DEF Scanned
<1>7. QED
  BY <1>5, <1>6, ScannedNext

LEMMA SkipMoves ==
  ASSUME Inputs, PassInv, ScanInv, pc = "scan", pc' = "scan", SameArguments, Scanned',
         source' = source + 1, ~StopAt(source + 1)
  PROVE  ScanInv'
<1>1. source \in Nat /\ \A i \in 1 .. source : ~StopAt(i)
  BY ScanTypes, ScannedGives
<1>2. \A i \in 1 .. source + 1 : ~StopsAt(input, SymbolBytes, PadBytes, i)
  BY <1>1 DEF StopAt
<1>3. \A i \in 1 .. source' : ~StopsAt(input', SymbolBytes', PadBytes', i)
  BY <1>2, ArgumentsStay DEF SameArguments
<1>4. QED
  BY <1>3, ScanOfScanned

LEMMA StopMoves ==
  ASSUME Inputs, PassInv, ScanInv, pc = "scan", pc' = "flush", SameArguments, Scanned',
         source' = source + 1, StopAt(source + 1)
  PROVE  ScanInv'
<1>1. source \in Nat /\ ScanEnd \in Nat /\ \A i \in 1 .. source : ~StopAt(i)
  BY ScanTypes, ScannedGives
<1>2. ScanEnd' = ScanEnd /\ source' <= ScanEnd'
  BY ArgumentsStay DEF Scanned
<1>3. EndsAt(input, SymbolBytes, PadBytes, ScanEnd, source + 1)
  <2>1. source + 1 \in 0 .. ScanEnd
    BY <1>1, <1>2
  <2>2. \A i \in 1 .. (source + 1) - 1 : ~StopsAt(input, SymbolBytes, PadBytes, i)
    BY <1>1 DEF StopAt
  <2>3. QED
    BY <2>1, <2>2 DEF EndsAt, StopAt
<1>4. IsEnd(source)'
  BY <1>3, ArgumentsStay DEF SameArguments, IsEnd
<1>5. QED
  BY <1>4 DEF ScanInv, Scanned

LEMMA PushAdds ==
  ASSUME SinkTypes, NEW run \in Seq(Byte), NEW validate, Push(run, validate)
  PROVE  /\ writes' = writes /\ checked' = checked
         /\ writes => pushed' = pushed \o run /\ Len(pushed') = Len(pushed) + Len(run)
<1>1. writes' = writes /\ checked' = checked /\ (writes => pushed' = pushed \o run)
  BY DEF Push
<1>2. writes => Len(pushed \o run) = Len(pushed) + Len(run)
  BY ConcatFacts DEF SinkTypes
<1>3. QED
  BY <1>1, <1>2

LEMMA FailedScan ==
  ASSUME FailScan
  PROVE  ScanInv'
  BY DEF FailScan, Fail, Goto, ScanInv

(* The bytes of a run of letters and digits.                               *)
LEMMA RunBytes ==
  ASSUME Inputs, AlphanumericRun
  PROVE  /\ Run \in Seq(Byte) /\ Len(Run) \in Nat /\ Len(Run) > 0
         /\ source + Len(Run) <= Len(input)
         /\ \A k \in 1 .. Len(Run) : Run[k] = input[source + k] /\ Run[k] \in Alphanumeric
<1> DEFINE runEnd == FirstFrom(input, source, Byte \ Alphanumeric) - 1
<1>1. Len(input) \in Nat /\ source \in 0 .. Len(input) /\ input \in Seq(Byte)
  BY DEF Inputs
<1>2. runEnd \in source .. Len(input)
  BY InputRanges
<1>3. Run = SubSeq(input, source + 1, runEnd) /\ Run # <<>>
  BY DEF Run, AlphanumericRun, RunAhead
<1>4. \A i \in source + 1 .. runEnd : input[i] \notin Byte \ Alphanumeric
  BY <1>1, FirstFromFinds
<1> HIDE DEF runEnd
<1>5. /\ Run \in Seq(Byte) /\ Len(Run) = runEnd - source
      /\ \A k \in 1 .. Len(Run) : Run[k] = input[source + k]
  BY <1>1, <1>2, <1>3
<1>6. Len(Run) > 0
  BY <1>2, <1>3, <1>5, EmptySeq
<1>7. ASSUME NEW k \in 1 .. Len(Run) PROVE Run[k] \in Alphanumeric
  <2>1. source + k \in source + 1 .. runEnd /\ Run[k] = input[source + k]
    BY <1>1, <1>2, <1>5, <1>7
  <2>2. Run[k] \in Byte
    BY <1>5, <1>7, ElementOfSeq
  <2>3. QED
    BY <1>4, <2>1, <2>2
<1>8. QED
  BY <1>1, <1>2, <1>5, <1>6, <1>7

LEMMA PadBytesArePadding ==
  /\ \A b \in PadBytes : b = Equals /\ ~EqualsIsData /\ policy.padded /\ LenientRoute /\ ~call.continues
  /\ SpecialsRoute \/ StrictRoute => PadBytes = {}
  BY DEF PadBytes, SpecialsRoute, StrictRoute, LenientRoute

LEMMA ScanOfRun ==
  ASSUME Inv, PassInv, ScanInv, AlphanumericRun
  PROVE  ScanInv'
<1>1. /\ pc = "scan" /\ pc' = pc /\ ~SpecialsRoute /\ SameArguments /\ Push(Run, FALSE)
      /\ source' = source + Len(Run) /\ padding' = 0 /\ decoder.preservesAlphanumeric
      /\ checked => symbols' = symbols + Len(Run)
      /\ quad' = (quad + Len(Run)) % 4
      /\ Inputs /\ SinkTypes
  BY DEF AlphanumericRun, Scanning, RunAhead, CountSymbols, SameArguments, Inv
<1>2. /\ Run \in Seq(Byte) /\ Len(Run) \in Nat /\ Len(Run) > 0
      /\ source + Len(Run) <= Len(input)
      /\ \A k \in 1 .. Len(Run) : Run[k] = input[source + k] /\ Run[k] \in Alphanumeric
  BY <1>1, RunBytes
<1>3. writes' = writes /\ checked' = checked /\ (writes => Len(pushed') = Len(pushed) + Len(Run))
  BY <1>1, <1>2, PushAdds
<1>4. source \in Nat /\ ScanEnd = Len(input)
  BY <1>1, ScanTypes, ScanEndFacts
<1> DEFINE m == Len(Run)
<1>5. ASSUME NEW i \in source + 1 .. source + m
      PROVE  input[i] \in SymbolBytes /\ input[i] \notin PadBytes
  <2>1. i - source \in 1 .. m /\ source + (i - source) = i
    BY <1>2, <1>4, <1>5
  <2>2. input[i] \in Alphanumeric
    BY <1>2, <2>1
  <2>3. IsSymbol(input[i]) /\ input[i] \in Byte /\ input[i] # Equals
    BY <1>1, <2>2, AlphanumericsAreSymbols
  <2>4. QED
    BY <1>1, <2>3, PadBytesArePadding DEF SymbolBytes
<1> HIDE DEF m
<1>6. m \in Nat /\ m > 0 /\ source' = source + m /\ source + m <= ScanEnd
  BY <1>1, <1>2, <1>4 DEF m
<1>7. checked \/ SpecialsRoute => symbols' = symbols + m
  BY <1>1 DEF m
<1>8. (writes => Len(pushed') = Len(pushed) + m) /\ quad' = (quad + m) % 4
  BY <1>1, <1>3 DEF m
<1>9. QED
  BY <1>1, <1>3, <1>5, <1>6, <1>7, <1>8, RunMoves

LEMMA SymbolBytesGeneric ==
  ASSUME ~SpecialsRoute, NEW b \in Byte
  PROVE  b \in SymbolBytes <=> IsSymbol(b)
  BY DEF SymbolBytes

LEMMA NextByte ==
  ASSUME Inputs, ScanByte
  PROVE  /\ pc = "scan" /\ ~error /\ ~SpecialsRoute /\ source \in Nat /\ source' = source + 1
         /\ source + 1 \in 1 .. Len(input) /\ next = input[source + 1] /\ next \in Byte
<1>1. /\ pc = "scan" /\ ~error /\ ~SpecialsRoute /\ source' = source + 1 /\ source < Len(input)
  BY DEF ScanByte, Scanning
<1>2. source \in Nat /\ source + 1 \in 1 .. Len(input) /\ input \in Seq(Byte)
  BY <1>1 DEF Inputs
<1>3. input[source + 1] \in Byte
  BY <1>2, ElementOfSeq
<1>4. QED
  BY <1>1, <1>2, <1>3 DEF next

LEMMA SymbolPushed ==
  ASSUME Inputs, ScanByte, IsSymbol(next)
  PROVE  <<StandardByte(Value(next))>> \in Seq(Byte) /\ Len(<<StandardByte(Value(next))>>) = 1
<1>1. next \in Byte
  BY NextByte
<1>2. Value(next) < 64 /\ Value(next) = NewDecoder(call.policy).table[next] /\ call \in Calls
  BY DEF IsSymbol, Value, Inputs
<1>3. StandardByte(Value(next)) \in Byte
  BY <1>1, <1>2, TableValues
<1>4. \A b \in Byte : <<b>> \in Seq(Byte) /\ Len(<<b>>) = 1
  OBVIOUS
<1>5. QED
  BY <1>3, <1>4

LEMMA ScanOfSymbol ==
  ASSUME Inv, PassInv, ScanInv, StrictSymbol \/ LenientSymbol
  PROVE  ScanInv'
<1>1. Inputs /\ SinkTypes /\ ScanByte /\ IsSymbol(next) /\ SameArguments
  BY DEF Inv, StrictSymbol, LenientSymbol, SameArguments
<1>2. CASE FailScan
  BY <1>2, FailedScan
<1>3. CASE ~FailScan
  <2>1. /\ Push(<<StandardByte(Value(next))>>, FALSE) /\ CountSymbols(1, Value(next)) /\ pc' = pc
        /\ StrictRoute \/ padding' = 0
    BY <1>3 DEF StrictSymbol, LenientSymbol
  <2>2. /\ pc = "scan" /\ ~SpecialsRoute /\ source \in Nat /\ source' = source + 1
        /\ source + 1 \in 1 .. Len(input) /\ next = input[source + 1] /\ next \in Byte
    BY <1>1, NextByte
  <2>3. /\ writes' = writes /\ checked' = checked
        /\ writes => Len(pushed') = Len(pushed) + 1
    BY <1>1, <2>1, SymbolPushed, PushAdds
  <2>4. ScanEnd = Len(input)
    BY <1>1, <2>2, ScanEndFacts
  <2>5. input[source + 1] \in SymbolBytes
    BY <1>1, <2>2, SymbolBytesGeneric
  <2>6. next # Equals \/ EqualsIsData
    BY <1>1 DEF IsSymbol, EqualsIsData
  <2>7. input[source + 1] \notin PadBytes
    BY <2>2, <2>6, PadBytesArePadding
  <2>8. \A i \in source + 1 .. source + 1 : input[i] \in SymbolBytes /\ input[i] \notin PadBytes
    BY <2>2, <2>5, <2>7
  <2>9. /\ checked \/ SpecialsRoute => symbols' = symbols + 1
        /\ quad' = (quad + 1) % 4
        /\ PadBytes # {} => padding' = 0
    BY <2>1, <2>2, PadBytesArePadding DEF CountSymbols
  <2>10. source + 1 <= ScanEnd /\ pc' = "scan"
    BY <2>1, <2>2, <2>4
  <2>11. QED
    BY <1>1, <2>2, <2>3, <2>8, <2>9, <2>10, RunMoves
<1>4. QED
  BY <1>2, <1>3

LEMMA ScanOfOther ==
  ASSUME Inv, PassInv, ScanInv, StrictOther \/ LenientSkip \/ LenientPadding
  PROVE  ScanInv'
<1>1. Inputs /\ ScanByte /\ SameArguments /\ symbols' = symbols /\ quad' = quad
  BY DEF Inv, StrictOther, LenientSkip, LenientPadding, SameArguments
<1>2. CASE FailScan
  BY <1>2, FailedScan
<1>3. CASE ~FailScan
  <2>1. UNCHANGED sink
    BY <1>3 DEF StrictOther, LenientSkip, LenientPadding
  <2>2. writes' = writes /\ checked' = checked /\ pushed' = pushed
    BY <2>1 DEF sink
  <2>3. /\ pc = "scan" /\ ~SpecialsRoute /\ source \in Nat /\ source' = source + 1
        /\ source + 1 \in 1 .. Len(input) /\ next = input[source + 1] /\ next \in Byte
    BY <1>1, NextByte
  <2>4. ScanEnd = Len(input) /\ source + 1 <= ScanEnd
    BY <1>1, <2>3, ScanEndFacts
  <2>5. ~IsSymbol(next)
    <3>1. LenientPadding => ~IsSymbol(next)
      BY DEF LenientPadding, IsSymbol, EqualsIsData
    <3>2. QED
      BY <3>1 DEF StrictOther, LenientSkip
  <2>6. input[source + 1] \notin SymbolBytes
    BY <2>3, <2>5, SymbolBytesGeneric
  <2>7. CASE StrictOther
    <3>1. PadBytes = {} /\ pc' = pc
      BY <1>3, <2>7, PadBytesArePadding DEF StrictOther
    <3>2. Scanned'
      BY <1>1, <2>2, <2>3, <2>4, <2>6, <3>1, ByteMoves
    <3>3. ~StopAt(source + 1)
      BY <3>1 DEF StopAt, StopsAt
    <3>4. QED
      BY <1>1, <2>3, <3>1, <3>2, <3>3, SkipMoves
  <2>8. CASE LenientSkip
    <3>1. pc' = pc /\ padding' = padding /\ ~(padded /\ next = Equals) /\ LenientRoute
      BY <2>8 DEF LenientSkip
    <3>2. padded = policy.padded
      BY <3>1 DEF PassInv, LenientRoute
    <3>3. input[source + 1] \notin PadBytes
      BY <2>3, <3>1, <3>2, PadBytesArePadding
    <3>4. Scanned'
      BY <1>1, <2>2, <2>3, <2>4, <2>6, <3>1, <3>3, ByteMoves
    <3>5. ~StopAt(source + 1)
      BY <3>3 DEF StopAt, StopsAt
    <3>6. QED
      BY <1>1, <2>3, <3>1, <3>4, <3>5, SkipMoves
  <2>9. CASE LenientPadding
    <3>1. padding' = padding + 1 /\ next = Equals /\ padded /\ LenientRoute /\ ~EqualsIsData
      BY <2>9 DEF LenientPadding
    <3>2. policy.padded
      BY <3>1 DEF PassInv, LenientRoute
    <3>3. PadBytes = IF call.continues THEN {} ELSE {Equals}
      BY <3>1, <3>2 DEF PadBytes
    <3>4. PadBytes # {} => padding' = IF input[source + 1] \in PadBytes THEN padding + 1 ELSE padding
      BY <2>3, <3>1, <3>3
    <3>5. Scanned'
      BY <1>1, <2>2, <2>3, <2>4, <2>6, <3>4, ByteMoves
    <3>6. quad = Count(source) % 4 /\ Count(source + 1) = Count(source)
      <4>1. Scanned /\ Count(source) \in Nat
        BY <1>1, <2>3, ScannedGives, ScanTypes
      <4>2. Count(source + 1) = Count(source)
        BY <2>3, <2>6, CountSkip DEF Count
      <4>3. QED
        BY <2>3, <4>1, <4>2 DEF Scanned
    <3>7. PadBytes # {} => padding' = PadsIn(input, SymbolBytes, PadBytes, source + 1)
      <4>1. PadBytes # {} => PadBytes' # {} /\ padding' = Pads(source)'
        BY <1>1, <3>5, ArgumentsStay DEF Scanned
      <4>2. Pads(source)' = PadsIn(input, SymbolBytes, PadBytes, source + 1)
        BY <1>1, <2>3, ArgumentsStay DEF Pads, SameArguments
      <4>3. QED
        BY <4>1, <4>2
    <3>8. StopAt(source + 1) <=> (~call.continues /\ quad >= 2 /\ quad + padding' >= 4)
      <4>1. CASE call.continues
        BY <3>3, <4>1 DEF StopAt, StopsAt
      <4>2. CASE ~call.continues
        <5>1. PadBytes = {Equals} /\ input[source + 1] \in PadBytes
          BY <2>3, <3>1, <3>3, <4>2
        <5>2. /\ CountIn(input, SymbolBytes, source + 1) % 4 = quad
              /\ PadsIn(input, SymbolBytes, PadBytes, source + 1) = padding'
          BY <3>6, <3>7, <5>1 DEF Count
        <5>3. QED
          BY <2>3, <4>2, <5>1, <5>2 DEF StopAt, StopsAt
      <4>3. QED
        BY <4>1, <4>2
    <3>9. CASE ~call.continues /\ quad >= 2 /\ quad + padding' >= 4
      <4>1. pc' = "flush"
        BY <1>3, <2>9, <3>9 DEF LenientPadding, Goto
      <4>2. QED
        BY <1>1, <2>3, <3>5, <3>8, <3>9, <4>1, StopMoves
    <3>10. CASE ~(~call.continues /\ quad >= 2 /\ quad + padding' >= 4)
      <4>1. pc' = pc
        BY <2>9, <3>10 DEF LenientPadding
      <4>2. QED
        BY <1>1, <2>3, <3>5, <3>8, <3>10, <4>1, SkipMoves
    <3>11. QED
      BY <3>9, <3>10
  <2>10. QED
    BY <2>7, <2>8, <2>9
<1>4. QED
  BY <1>2, <1>3

(* A run of the specials route goes up to an ignored byte, which it skips. *)
LEMMA SpecialsRunMoves ==
  ASSUME Inputs, PassInv, ScanInv, SpecialsRun
  PROVE  /\ pc = "scan" /\ source \in Nat /\ source < ScanEnd
         /\ \E m \in Nat : \E run \in Seq(Byte) :
              /\ Len(run) = m /\ source + m <= source' /\ source' <= ScanEnd
              /\ source' \in {source + m, source + m + 1}
              /\ \A k \in 1 .. m : run[k] = input[source + k] /\ ~IsIgnored(run[k])
              /\ source' = source + m + 1 => IsIgnored(input[source'])
              /\ IF m = 0 THEN UNCHANGED <<sink, symbols, last>>
                 ELSE Push(run, TRUE) /\ symbols' = symbols + m
<1>1. pc = "scan" /\ SpecialsRoute /\ source < DataEnd
  BY DEF SpecialsRun, Scanning
<1>2. /\ source \in Nat /\ ScanEnd \in Nat /\ ScanEnd <= Len(input) /\ DataEnd = ScanEnd
      /\ Len(input) \in Nat /\ input \in Seq(Byte)
  BY <1>1, ScanTypes, ScanEndFacts
<1> DEFINE data == Take(input, DataEnd)
           found == FirstFrom(data, source, IgnoredBytes)
           run == SubSeq(input, source + 1, found - 1)
           m == found - 1 - source
<1>3. /\ data \in Seq(Byte) /\ Len(data) = ScanEnd
      /\ \A k \in 1 .. ScanEnd : data[k] = input[k]
  BY <1>2, TakeFacts
<1> HIDE DEF data
<1>4. /\ found \in source + 1 .. ScanEnd + 1
      /\ \A i \in source + 1 .. found - 1 : data[i] \notin IgnoredBytes
      /\ found <= ScanEnd => data[found] \in IgnoredBytes
  <2>1. source \in 0 .. Len(data)
    BY <1>1, <1>2, <1>3
  <2>2. QED
    BY <1>2, <1>3, <2>1, FirstFromRange, FirstFromFinds
<1>5. /\ IF run = <<>> THEN UNCHANGED <<sink, symbols, last>>
         ELSE Push(run, TRUE) /\ symbols' = symbols + Len(run)
      /\ source' = AfterRun(found - 1)
  BY DEF SpecialsRun, data
<1> HIDE DEF found
<1>6. /\ m \in Nat /\ run \in Seq(Byte) /\ Len(run) = m
      /\ \A k \in 1 .. m : run[k] = input[source + k]
  BY <1>2, <1>4
<1>7. run = <<>> <=> m = 0
  BY <1>6, EmptySeq
<1>8. ASSUME NEW k \in 1 .. m PROVE ~IsIgnored(run[k])
  <2>1. source + k \in source + 1 .. found - 1 /\ source + k \in 1 .. ScanEnd
    BY <1>2, <1>4, <1>8
  <2>2. data[source + k] \notin IgnoredBytes /\ data[source + k] = run[k]
    BY <1>3, <1>4, <1>6, <1>8, <2>1
  <2>3. run[k] \in Byte
    BY <1>6, <1>8, ElementOfSeq
  <2>4. QED
    BY <2>2, <2>3 DEF IgnoredBytes
<1>9. source' = IF found <= ScanEnd THEN found ELSE ScanEnd
  BY <1>2, <1>4, <1>5 DEF AfterRun, AtMost
<1>10. /\ source + m <= source' /\ source' <= ScanEnd
       /\ source' \in {source + m, source + m + 1}
  BY <1>2, <1>4, <1>9
<1>11. source' = source + m + 1 => IsIgnored(input[source'])
  <2> SUFFICES ASSUME source' = source + m + 1 PROVE IsIgnored(input[source'])
    OBVIOUS
  <2>1. source' = found /\ found <= ScanEnd /\ found \in 1 .. ScanEnd
    BY <1>2, <1>4, <1>9
  <2>2. data[found] \in IgnoredBytes /\ data[found] = input[source']
    BY <1>3, <1>4, <2>1
  <2>3. QED
    BY <2>2 DEF IgnoredBytes
<1> HIDE DEF run, m
<1>12. IF m = 0 THEN UNCHANGED <<sink, symbols, last>>
       ELSE Push(run, TRUE) /\ symbols' = symbols + m
  BY <1>5, <1>6, <1>7
<1>13. QED
  BY <1>1, <1>2, <1>6, <1>8, <1>10, <1>11, <1>12

LEMMA ScanOfSpecials ==
  ASSUME Inv, PassInv, ScanInv, SpecialsRun
  PROVE  ScanInv'
<1>1. /\ Inputs /\ SinkTypes /\ SpecialsRoute /\ SameArguments /\ pc' = pc
  BY DEF Inv, SpecialsRun, SameArguments
<1>2. /\ pc = "scan" /\ source \in Nat /\ Scanned
  BY <1>1, SpecialsRunMoves, ScannedGives
<1>3. PICK m \in Nat, run \in Seq(Byte) :
        /\ Len(run) = m /\ source + m <= source' /\ source' <= ScanEnd
        /\ source' \in {source + m, source + m + 1}
        /\ \A k \in 1 .. m : run[k] = input[source + k] /\ ~IsIgnored(run[k])
        /\ source' = source + m + 1 => IsIgnored(input[source'])
        /\ IF m = 0 THEN UNCHANGED <<sink, symbols, last>>
           ELSE Push(run, TRUE) /\ symbols' = symbols + m
  BY <1>1, SpecialsRunMoves
<1>4. /\ symbols' = symbols + m
      /\ writes' = writes /\ checked' = checked
      /\ writes => Len(pushed') = Len(pushed) + m
  <2>1. CASE m = 0
    <3>1. UNCHANGED <<sink, symbols>>
      BY <1>3, <2>1
    <3>2. /\ symbols' = symbols /\ writes' = writes /\ checked' = checked /\ pushed' = pushed
      BY <3>1 DEF sink
    <3>3. Len(pushed) \in Nat
      BY <1>1 DEF SinkTypes
    <3>4. checked \/ SpecialsRoute => symbols = Count(source)
      BY <1>2 DEF Scanned
    <3>5. Count(source) \in Nat
      BY <1>1, <1>2, ScanTypes
    <3>6. QED
      BY <1>1, <2>1, <3>2, <3>3, <3>4, <3>5
  <2>2. CASE m # 0
    BY <1>1, <1>3, <2>2, PushAdds
  <2>3. QED
    BY <2>1, <2>2
<1>5. ASSUME NEW i \in source + 1 .. source + m PROVE input[i] \in SymbolBytes
  <2>1. i - source \in 1 .. m /\ source + (i - source) = i
    BY <1>2, <1>3, <1>5
  <2>2. run[i - source] \in Byte /\ run[i - source] = input[i] /\ ~IsIgnored(run[i - source])
    BY <1>3, <2>1, ElementOfSeq
  <2>3. QED
    BY <1>1, <2>2 DEF SymbolBytes
<1>6. CountIn(input, SymbolBytes, source + m) = Count(source) + m
  BY <1>2, <1>5, CountRun DEF Count
<1>7. CountIn(input, SymbolBytes, source') = Count(source) + m
  <2>1. CASE source' = source + m
    BY <1>6, <2>1
  <2>2. CASE source' = source + m + 1
    <3>1. input[source + m + 1] \notin SymbolBytes
      BY <1>1, <1>3, <2>2 DEF SymbolBytes
    <3>2. source + m \in Nat
      BY <1>2
    <3>3. QED
      BY <1>6, <2>2, <3>1, <3>2, CountSkip
  <2>3. QED
    BY <1>3, <2>1, <2>2
<1>8. PadBytes = {}
  BY <1>1, PadBytesArePadding
<1>9. Scanned'
  <2>1. PICK n : n = source'
    OBVIOUS
  <2>2. n <= ScanEnd /\ CountIn(input, SymbolBytes, n) = Count(source) + m
    BY <1>3, <1>7, <2>1
  <2>3. symbols' = CountIn(input, SymbolBytes, n)
    BY <1>1, <1>2, <1>4, <2>2 DEF Scanned
  <2>4. writes => Len(pushed') = CountIn(input, SymbolBytes, n)
    BY <1>2, <1>4, <2>2 DEF Scanned
  <2>5. QED
    BY <1>1, <1>4, <1>8, <2>1, <2>2, <2>3, <2>4, ScannedNext
<1>10. \A i \in 1 .. source' : ~StopsAt(input', SymbolBytes', PadBytes', i)
  <2>1. PadBytes' = {}
    BY <1>1, <1>8, ArgumentsStay
  <2>2. QED
    BY <2>1 DEF StopsAt
<1>11. QED
  BY <1>1, <1>2, <1>9, <1>10, ScanOfScanned

(* The rest of a scan: what it began with, and how it ends.                *)
LEMMA ScanBegins ==
  ASSUME Inv, PassInv, RouteIgnoredPadding \/ RouteSpecials \/ RouteGeneric
  PROVE  ScanInv'
<1>1. /\ Inputs /\ SinkTypes /\ pc = "route" /\ SameArguments /\ UNCHANGED scan /\ pushed = <<>>
  BY DEF Inv, IInv, RouteIgnoredPadding, RouteSpecials, RouteGeneric, SameArguments
<1>2. CASE FailScan
  BY <1>2, FailedScan
<1>3. CASE pc' = "route"
  BY <1>3 DEF ScanInv
<1>4. CASE pc' = "scan" /\ pushed' = pushed /\ writes' = writes /\ checked' = checked
  <2>1. source' = 0 /\ symbols' = 0 /\ padding' = 0 /\ quad' = 0
    BY <1>1 DEF PassInv, scan
  <2>2. CountIn(input, SymbolBytes, 0) = 0 /\ PadsIn(input, SymbolBytes, PadBytes, 0) = 0
    BY NothingCounted
  <2>3. Len(pushed') = 0
    BY <1>1, <1>4, EmptyFacts
  <2>4. 0 <= ScanEnd
    BY <1>1, ScanEndFacts
  <2>5. Scanned'
    BY <1>1, <1>4, <2>1, <2>2, <2>3, <2>4, ScannedNext
  <2>6. \A i \in 1 .. source' : ~StopsAt(input', SymbolBytes', PadBytes', i)
    BY <2>1
  <2>7. QED
    BY <1>4, <2>5, <2>6, ScanOfScanned
<1>5. RouteIgnoredPadding => FailScan \/ pc' = "route"
  BY <1>1 DEF RouteIgnoredPadding
<1>6. RouteSpecials => FailScan \/ (pc' = "scan" /\ pushed' = pushed /\ writes' = writes /\ checked' = checked)
  BY DEF RouteSpecials, Goto
<1>7. RouteGeneric => pc' = "scan" /\ pushed' = pushed /\ writes' = writes /\ checked' = checked
  BY DEF RouteGeneric, Goto, sink
<1>8. QED
  BY <1>2, <1>3, <1>4, <1>5, <1>6, <1>7

LEMMA ScanOfEnd ==
  ASSUME Inv, PassInv, ScanInv, EndSpecials \/ EndScan
  PROVE  ScanInv'
<1>1. /\ Inputs /\ pc = "scan" /\ SameArguments
      /\ source' = source /\ symbols' = symbols /\ quad' = quad
      /\ padding' = padding \/ SpecialsRoute
  BY DEF Inv, EndSpecials, EndScan, Scanning, SameArguments, scan
<1>2. CASE FailScan
  BY <1>2, FailedScan
<1>3. CASE ~FailScan
  <2>1. pc' = "finish" /\ UNCHANGED sink
    BY <1>3 DEF EndSpecials, EndScan, Goto
  <2>2. writes' = writes /\ checked' = checked /\ pushed' = pushed
    BY <2>1 DEF sink
  <2>3. Scanned /\ (\A i \in 1 .. source : ~StopAt(i)) /\ source <= ScanEnd
    BY <1>1, ScannedGives, ScanTypes
  <2>4. source \in Nat /\ ScanEnd \in Nat
    BY <1>1, ScanTypes
  <2>5. source = ScanEnd
    <3>1. CASE EndSpecials
      BY <1>1, <2>3, <2>4, <3>1, ScanEndFacts DEF EndSpecials
    <3>2. CASE EndScan
      BY <1>1, <3>2, ScanEndFacts DEF EndScan
    <3>3. QED
      BY <3>1, <3>2
  <2>6. SpecialsRoute => PadBytes = {}
    BY PadBytesArePadding
  <2>7. Scanned'
    <3>1. PICK n : n = source
      OBVIOUS
    <3>2. /\ checked \/ SpecialsRoute => symbols' = CountIn(input, SymbolBytes, n)
          /\ writes => Len(pushed') = CountIn(input, SymbolBytes, n)
          /\ ~SpecialsRoute => quad' = CountIn(input, SymbolBytes, n) % 4
          /\ PadBytes # {} => padding' = PadsIn(input, SymbolBytes, PadBytes, n)
      BY <1>1, <2>2, <2>3, <2>6, <3>1 DEF Scanned, Count, Pads
    <3>3. QED
      BY <1>1, <2>2, <2>3, <3>1, <3>2, ScannedNext
  <2>8. \A i \in 1 .. source' : ~StopsAt(input', SymbolBytes', PadBytes', i)
    BY <1>1, <2>3, ArgumentsStay DEF StopAt, SameArguments
  <2>9. source' = ScanEnd'
    BY <1>1, <2>5, ArgumentsStay
  <2>10. QED
    BY <2>1, <2>7, <2>8, <2>9, ScanOfScanned
<1>4. QED
  BY <1>2, <1>3

(* Steps that scan no further.                                             *)
LEMMA ScanStays ==
  ASSUME Inputs, PassInv, ScanInv, SameArguments, UNCHANGED scan, writes' = writes, checked' = checked,
         pushed' = pushed,
         \/ pc = "scan" /\ pc' = "scan"
         \/ pc = "finish" /\ pc' = "flush"
         \/ pc = "flush" /\ pc' = "done"
         \/ pc' \notin {"scan", "finish", "flush", "done"}
         \/ pc' = "done" /\ error'
         \/ pc' = pc /\ error' = error
  PROVE  ScanInv'
<1>1. CASE pc' \notin {"scan", "finish", "flush"} /\ ~(pc' = "done" /\ ~error')
  BY <1>1 DEF ScanInv
<1>2. CASE pc' \in {"scan", "finish", "flush"} \/ (pc' = "done" /\ ~error')
  <2>1. pc \in {"scan", "finish", "flush"} \/ (pc = "done" /\ ~error)
    BY <1>2
  <2>2. /\ source' = source /\ symbols' = symbols /\ padding' = padding /\ quad' = quad
    BY DEF scan
  <2>3. /\ SymbolBytes' = SymbolBytes /\ PadBytes' = PadBytes /\ ScanEnd' = ScanEnd /\ input' = input
        /\ SpecialsRoute' <=> SpecialsRoute
    BY ArgumentsStay DEF SameArguments
  <2>4. /\ source <= ScanEnd
        /\ checked \/ SpecialsRoute => symbols = Count(source)
        /\ writes => Len(pushed) = Count(source)
        /\ ~SpecialsRoute => quad = Count(source) % 4
        /\ PadBytes # {} => padding = Pads(source)
        /\ pc \in {"scan", "finish"} => \A i \in 1 .. source : ~StopAt(i)
        /\ pc = "finish" => source = ScanEnd
        /\ pc \in {"flush", "done"} => IsEnd(source)
    BY <2>1 DEF ScanInv
  <2>5. Count(source)' = Count(source) /\ Pads(source)' = Pads(source) /\ (IsEnd(source)' <=> IsEnd(source))
    BY <2>2, <2>3 DEF Count, Pads, IsEnd
  <2>6. pc' \in {"scan", "finish"} => \A i \in 1 .. source' : ~StopAt(i)'
    <3>1. pc' \in {"scan", "finish"} => pc \in {"scan", "finish"}
      BY <1>2
    <3>2. \A i : StopAt(i)' <=> StopAt(i)
      BY <2>3 DEF StopAt
    <3>3. QED
      BY <2>2, <2>4, <3>1, <3>2
  <2>7. pc' = "finish" => source' = ScanEnd'
    BY <1>2, <2>2, <2>3, <2>4
  <2>8. pc' \in {"flush", "done"} => IsEnd(source)'
    <3>1. CASE pc = "finish" /\ pc' = "flush"
      <4>1. source = ScanEnd /\ \A i \in 1 .. source : ~StopAt(i)
        BY <2>4, <3>1
      <4>2. ScanEnd \in Nat
        BY ScanEndFacts
      <4>3. IsEnd(source)
        BY <4>1, <4>2 DEF IsEnd, EndsAt, StopAt
      <4>4. QED
        BY <2>5, <4>3
    <3>2. CASE pc' \in {"flush", "done"} /\ pc # "finish"
      BY <1>2, <2>1, <2>4, <2>5, <3>2
    <3>3. QED
      BY <1>2, <2>1, <3>1, <3>2
  <2>9. QED
    BY <2>2, <2>3, <2>4, <2>5, <2>6, <2>7, <2>8 DEF ScanInv
<1>3. QED
  BY <1>1, <1>2

LEMMA ScanOfSink ==
  ASSUME Inv, PassInv, ScanInv, PushRun \/ Finish \/ Flush \/ OutputTooSmall \/ Abort
  PROVE  ScanInv'
<1>1. Inputs /\ SameArguments /\ UNCHANGED scan
  BY DEF Inv, PushRun, Finish, Flush, OutputTooSmall, Abort, SameArguments
<1>2. CASE PushRun
  <2>1. /\ pc = "scan" /\ pc' = "scan"
        /\ writes' = writes /\ checked' = checked /\ pushed' = pushed
    BY <1>2 DEF PushRun, DecodeDirect, Stage
  <2>2. QED
    BY <1>1, <2>1, ScanStays
<1>3. CASE Finish
  <2>1. FailScan \/ (pc = "finish" /\ pc' = "flush" /\ UNCHANGED sink)
    BY <1>3 DEF Finish, Goto
  <2>2. CASE pc = "finish" /\ pc' = "flush" /\ UNCHANGED sink
    <3>1. writes' = writes /\ checked' = checked /\ pushed' = pushed
      BY <2>2 DEF sink
    <3>2. QED
      BY <1>1, <2>2, <3>1, ScanStays
  <2>3. QED
    BY <2>1, <2>2, FailedScan
<1>4. CASE Flush
  <2>1. /\ pc = "flush" /\ writes' = writes /\ checked' = checked /\ pushed' = pushed
        /\ pc' \in {"done", "sized"}
    BY <1>4 DEF Flush, FlushRest, Goto
  <2>2. QED
    BY <1>1, <2>1, ScanStays
<1>5. CASE OutputTooSmall
  <2>1. pc' = "tooSmall"
    BY <1>5 DEF OutputTooSmall, Goto
  <2>2. QED
    BY <2>1 DEF ScanInv
<1>6. CASE Abort
  <2>1. pc' = "done" /\ error'
    BY <1>6 DEF Abort, Goto, sink
  <2>2. QED
    BY <2>1 DEF ScanInv
<1>7. QED
  BY <1>2, <1>3, <1>4, <1>5, <1>6

LEMMA ScanOfBegin ==
  ASSUME BeginAllocating \/ BeginCount \/ BeginStrictInto \/ BeginWrite
  PROVE  ScanInv'
<1>1. FailScan \/ pc' \in {"route", "sized"}
  BY DEF BeginAllocating, BeginCount, BeginStrictInto, BeginWrite, Goto
<1>2. CASE pc' \in {"route", "sized"}
  BY <1>2 DEF ScanInv
<1>3. QED
  BY <1>1, <1>2, FailedScan

Scans == PassInv /\ ScanInv

LEMMA ScansNext ==
  ASSUME Inv, Scans, Step
  PROVE  Scans'
<1>1. Inputs /\ PassInv /\ ScanInv
  BY DEF Inv, Scans
<1>2. CASE BeginAllocating \/ BeginCount \/ BeginStrictInto \/ BeginWrite
  BY <1>1, <1>2, PassOfBegin, ScanOfBegin DEF Scans
<1>3. CASE RouteIgnoredPadding \/ RouteSpecials \/ RouteGeneric
  BY <1>1, <1>3, PassOfRoute, ScanBegins DEF Scans
<1>4. CASE PushRun
  BY <1>1, <1>4, PassOfScan, ScanOfSink DEF Scans
<1>5. CASE SpecialsRun
  BY <1>1, <1>5, PassOfScan, ScanOfSpecials DEF Scans
<1>6. CASE EndSpecials \/ EndScan
  BY <1>1, <1>6, PassOfScan, ScanOfEnd DEF Scans
<1>7. CASE AlphanumericRun
  BY <1>1, <1>7, PassOfScan, ScanOfRun DEF Scans
<1>8. CASE StrictSymbol \/ LenientSymbol
  BY <1>1, <1>8, PassOfByte, ScanOfSymbol DEF Scans
<1>9. CASE StrictOther \/ LenientSkip \/ LenientPadding
  BY <1>1, <1>9, PassOfByte, ScanOfOther DEF Scans
<1>10. CASE Finish \/ Flush \/ OutputTooSmall \/ Abort
  BY <1>1, <1>10, PassOfEnd, ScanOfSink DEF Scans
<1>11. QED
  BY <1>2, <1>3, <1>4, <1>5, <1>6, <1>7, <1>8, <1>9, <1>10 DEF Step

LEMMA ScansInit == Init => Scans
<1>1. Init => pc = "begin"
  BY DEF Init
<1>2. QED
  BY <1>1, PassInit DEF Scans, ScanInv
-----------------------------------------------------------------------------
(* A strict attempt ignores nothing, takes padding for data just when it   *)
(* is one of the alternative characters, and scans for specials.           *)
LEMMA StrictCustomFacts ==
  ASSUME Inputs, call.mode = "strictInto"
  PROVE  /\ SpecialsRoute
         /\ \A b \in Byte : ~IsIgnored(b)
         /\ Equals \in Range(policy.altchars) <=> EqualsIsData
         /\ ~EqualsIsData => Value(Equals) = INVALID
<1> DEFINE p == call.policy
<1>1. /\ p.strict /\ ~p.ignorecharsSpecified /\ p.ignored = {}
      /\ p.alphabet = None /\ p.altchars # None /\ p.altchars \in Byte \X Byte
  <2>1. call \in Calls
    BY DEF Inputs
  <2>2. (p.altchars = None \/ p.altchars \in Byte \X Byte) /\ IsStrictCustom(p)
    BY <2>1, PolicyFacts
  <2>3. QED
    BY <2>2 DEF IsStrictCustom
<1>2. decoder = NewDecoder(p) /\ policy = p
  BY DEF Inputs, policy
<1>3. decoder.table = DecodeTable(p)
  BY <1>2 DEF NewDecoder
<1>4. ~CustomAlphabet(p)
  BY <1>1 DEF CustomAlphabet
<1>5. \A b, v : OrIgnored(p, b, v) = v
  BY <1>1 DEF OrIgnored
<1>6. \A b \in Byte : DecodeTable(p)[b] =
        IF IsAltchar(p, 2, b) THEN 63 ELSE IF IsAltchar(p, 1, b) THEN 62
        ELSE IF b \in Standard THEN StandardValue[b] ELSE INVALID
  BY <1>1, <1>4, <1>5 DEF DecodeTable
<1>7. \A b \in Byte : DecodeTable(p)[b] # IGNORED
  <2>1. \A b \in Standard : StandardValue[b] \in 0 .. 63
    BY ConfiguredDecodeAssumption
  <2>2. SUFFICES ASSUME NEW b \in Byte PROVE DecodeTable(p)[b] # IGNORED
    OBVIOUS
  <2>3. DecodeTable(p)[b] \in {62, 63, INVALID} \/ (b \in Standard /\ DecodeTable(p)[b] = StandardValue[b])
    BY <1>6
  <2>4. QED
    BY <2>1, <2>3 DEF INVALID, IGNORED
<1>8. \A b \in Byte : ~IsIgnored(b)
  BY <1>3, <1>7 DEF IsIgnored, Value
<1>9. Equals \in Byte /\ Equals \notin Standard
  BY ConfiguredDecodeAssumption
<1>10. IsAltchar(p, 1, Equals) \/ IsAltchar(p, 2, Equals) <=> Equals \in Range(p.altchars)
  <2>1. DOMAIN p.altchars = 1 .. 2
    BY <1>1
  <2>2. Equals \in Range(p.altchars) <=> (p.altchars[1] = Equals \/ p.altchars[2] = Equals)
    BY <2>1 DEF Range
  <2>3. QED
    BY <1>1, <1>4, <2>2 DEF IsAltchar
<1>11. Equals \in Range(p.altchars) => DecodeTable(p)[Equals] \in {62, 63}
  BY <1>6, <1>9, <1>10
<1>12. Equals \notin Range(p.altchars) => DecodeTable(p)[Equals] = INVALID
  BY <1>6, <1>9, <1>10
<1>13. Value(Equals) = DecodeTable(p)[Equals]
  BY <1>3 DEF Value
<1>14. /\ Equals \in Range(p.altchars) <=> EqualsIsData
       /\ ~EqualsIsData => Value(Equals) = INVALID
  BY <1>11, <1>12, <1>13 DEF EqualsIsData, INVALID
<1>15. SpecialsRoute
  <2>1. {b \in Byte : DecodeTable(p)[b] = IGNORED} = {}
    BY <1>7
  <2>2. Cardinality({}) = 0
    BY FS_EmptySet
  <2>3. decoder.manySpecials =
          (p.alphabet # None \/ Cardinality({b \in Byte : DecodeTable(p)[b] = IGNORED}) > 3)
    BY <1>2 DEF NewDecoder
  <2>7. ~(Cardinality({b \in Byte : DecodeTable(p)[b] = IGNORED}) > 3)
    BY <2>1, <2>2
  <2>4. ~decoder.manySpecials
    BY <1>1, <2>3, <2>7, Zenon
  <2>5. decoder.forbidden = {}
    BY <1>2, <1>4 DEF NewDecoder
  <2>6. QED
    BY <1>1, <1>2, <2>2, <2>4, <2>5 DEF SpecialsRoute
<1>16. QED
  BY <1>2, <1>8, <1>14, <1>15

LEMMA DecodedLenMonotone ==
  ASSUME NEW n \in Nat, NEW m \in Nat, m <= n
  PROVE  DecodedSymbolLen(m) <= DecodedSymbolLen(n)
  BY SMT DEF DecodedSymbolLen

LEMMA TrailingFacts ==
  ASSUME NEW s \in Seq(Byte)
  PROVE  /\ Len(s) \in Nat /\ TrailingPadding(s) \in 0 .. 2 /\ TrailingPadding(s) <= Len(s)
         /\ EqualsIsData => TrailingPadding(s) = 0
         /\ ~EqualsIsData => \A i \in Len(s) - TrailingPadding(s) + 1 .. Len(s) : s[i] = Equals
<1>1. Len(s) \in Nat /\ (s = <<>> <=> Len(s) = 0)
  BY EmptySeq
<1>2. CASE EqualsIsData \/ s = <<>> \/ s[Len(s)] # Equals
  BY <1>1, <1>2 DEF TrailingPadding
<1>3. CASE ~(EqualsIsData \/ s = <<>> \/ s[Len(s)] # Equals)
  BY <1>1, <1>3 DEF TrailingPadding
<1>4. QED
  BY <1>2, <1>3

LEMMA InputCapacity ==
  ASSUME NEW s \in Seq(Byte)
  PROVE  /\ CapacityForInput(s) \in Nat
         /\ DecodedSymbolLen(Len(s) - TrailingPadding(s)) <= CapacityForInput(s)
<1> DEFINE n == Len(s)
           t == TrailingPadding(s)
<1>1. n \in Nat /\ t \in 0 .. 2 /\ t <= n
  BY TrailingFacts
<1>2. CapacityForInput(s) = IF n <= SmallInput THEN ((n + 3) \div 4) * 3 ELSE DecodedSymbolLen(n - t)
  BY DEF CapacityForInput
<1> HIDE DEF n, t
<1>3. n - t \in Nat /\ DecodedSymbolLen(n - t) \in Nat /\ DecodedSymbolLen(n - t) <= DecodedSymbolLen(n)
  BY <1>1, DecodedLenFacts, DecodedLenMonotone
<1>4. ((n + 3) \div 4) * 3 \in Nat /\ DecodedSymbolLen(n) <= ((n + 3) \div 4) * 3
  BY <1>1, SMT DEF DecodedSymbolLen
<1>5. DecodedSymbolLen(n) \in Nat
  BY <1>1, DecodedLenFacts
<1>6. QED
  BY <1>2, <1>3, <1>4, <1>5 DEF n, t

(* What the layout of a strict attempt says of its length.                 *)
LayoutOf(n, t, data) ==
  IF policy.padded
  THEN IF n % 4 # 0 THEN -1 ELSE IF data THEN (n \div 4) * 3 ELSE (n \div 4) * 3 - t
  ELSE IF (~data /\ Equals \in Range(input)) \/ n % 4 = 1 THEN -1 ELSE DecodedSymbolLen(n)

LEMMA LayoutIsOf ==
  ASSUME Inputs, call.mode = "strictInto"
  PROVE  LayoutLen = LayoutOf(Len(input), TrailingPadding(input), EqualsIsData)
<1>1. input \in Seq(Byte) /\ Len(input) \in Nat /\ (input = <<>> <=> Len(input) = 0)
  BY EmptySeq DEF Inputs
<1>2. Equals \in Range(policy.altchars) <=> EqualsIsData
  BY StrictCustomFacts
<1> DEFINE n == Len(input)
           trailing == IF n >= 1 /\ input[n] = Equals
                       THEN IF n >= 2 /\ input[n - 1] = Equals THEN 2 ELSE 1 ELSE 0
<1>3. ~EqualsIsData => trailing = TrailingPadding(input)
  BY <1>1 DEF TrailingPadding
<1>4. LayoutLen = LayoutOf(n, trailing, Equals \in Range(policy.altchars))
  BY DEF LayoutLen, LayoutOf
<1> HIDE DEF trailing
<1>5. CASE EqualsIsData
  BY <1>2, <1>4, <1>5 DEF LayoutOf
<1>6. CASE ~EqualsIsData
  BY <1>2, <1>3, <1>4, <1>6 DEF LayoutOf
<1>7. QED
  BY <1>5, <1>6

LEMMA LayoutCapacity ==
  ASSUME Inputs, call.mode = "strictInto", LayoutLen >= 0
  PROVE  /\ LayoutLen \in Nat
         /\ DecodedSymbolLen(Len(input) - TrailingPadding(input)) <= LayoutLen
<1> DEFINE n == Len(input)
           t == TrailingPadding(input)
<1>1. n \in Nat /\ t \in 0 .. 2 /\ t <= n /\ (EqualsIsData => t = 0)
  BY TrailingFacts DEF Inputs
<1>2. LayoutLen = LayoutOf(n, t, EqualsIsData)
  BY LayoutIsOf
<1> HIDE DEF n, t
<1>3. n - t \in Nat /\ DecodedSymbolLen(n) \in Nat /\ DecodedSymbolLen(n - t) <= DecodedSymbolLen(n)
  BY <1>1, DecodedLenFacts, DecodedLenMonotone
<1>4. n % 4 = 0 => (n \div 4) * 3 - t \in Nat /\ DecodedSymbolLen(n - t) = (n \div 4) * 3 - t
  BY <1>1, SMT DEF DecodedSymbolLen
<1>5. CASE policy.padded
  <2>1. n % 4 = 0 /\ LayoutLen = (n \div 4) * 3 - t
    BY <1>1, <1>2, <1>5 DEF LayoutOf
  <2>2. QED
    BY <1>4, <2>1 DEF n, t
<1>6. CASE ~policy.padded
  <2>1. LayoutLen = DecodedSymbolLen(n)
    BY <1>2, <1>6 DEF LayoutOf
  <2>2. QED
    BY <1>3, <2>1 DEF n, t
<1>7. QED
  BY <1>5, <1>6

LEMMA CapacityStays ==
  ASSUME CapacityInv, SameArguments, capacity' = capacity,
         writes' \/ pc' = "sized" => writes \/ pc = "sized"
  PROVE  CapacityInv'
<1> SUFFICES ASSUME writes' \/ pc' = "sized" PROVE CapacityInv'
  BY DEF CapacityInv
<1>1. /\ call.mode \in {"allocating", "counting", "strictInto"}
      /\ capacity \in Nat
      /\ call.mode = "counting" => \E e \in 0 .. Len(input) : IsEnd(e) /\ capacity = DecodedSymbolLen(Count(e))
      /\ call.mode # "counting" => DecodedSymbolLen(Len(input) - TrailingPadding(input)) <= capacity
      /\ call.mode = "strictInto" => capacity = LayoutLen
  BY DEF CapacityInv
<1>2. /\ call'.mode \in {"allocating", "counting", "strictInto"}
      /\ capacity' \in Nat
      /\ call'.mode # "counting" => DecodedSymbolLen(Len(input') - TrailingPadding(input)') <= capacity'
      /\ call'.mode = "strictInto" => capacity' = LayoutLen'
  BY <1>1, ArgumentsStay DEF SameArguments
<1>3. call'.mode = "counting" =>
        \E e \in 0 .. Len(input') : IsEnd(e)' /\ capacity' = DecodedSymbolLen(Count(e)')
  <2> SUFFICES ASSUME call'.mode = "counting"
               PROVE  \E e \in 0 .. Len(input') : IsEnd(e)' /\ capacity' = DecodedSymbolLen(Count(e)')
    OBVIOUS
  <2>1. call' = call /\ input' = input
    BY DEF SameArguments
  <2>2. PICK e \in 0 .. Len(input) : IsEnd(e) /\ capacity = DecodedSymbolLen(Count(e))
    BY <1>1, <2>1
  <2>3. IsEnd(e)' /\ Count(e)' = Count(e)
    BY <2>2, CountsStay
  <2>4. QED
    BY <2>1, <2>2, <2>3
<1>4. QED
  BY <1>2, <1>3 DEF CapacityInv

LEMMA CapacityOfBegin ==
  ASSUME Inv, Scans, BeginAllocating
  PROVE  CapacityInv'
<1>1. /\ call.mode = "allocating" /\ capacity' = CapacityForInput(input)'
      /\ call' = call
  BY DEF BeginAllocating, CapacityForInput, TrailingPadding, EqualsIsData, Value
<1>2. input' \in Seq(Byte)
  <2>1. Inv'
    BY BeginInv
  <2>2. QED
    BY <2>1 DEF Inv, Inputs
<1>3. /\ CapacityForInput(input)' \in Nat
      /\ DecodedSymbolLen(Len(input') - TrailingPadding(input)') <= CapacityForInput(input)'
  <2>1. decoder' = decoder
    BY DEF BeginAllocating
  <2>3. PICK s \in Seq(Byte) : s = input'
    BY <1>2
  <2>4. CapacityForInput(input)' = CapacityForInput(s) /\ TrailingPadding(input)' = TrailingPadding(s)
    BY <2>1, <2>3 DEF CapacityForInput, TrailingPadding, EqualsIsData, Value
  <2>5. QED
    BY <2>3, <2>4, InputCapacity
<1>4. QED
  BY <1>1, <1>3 DEF CapacityInv

LEMMA CapacityOfLayout ==
  ASSUME Inv, Scans, CapacityInv, BeginStrictInto
  PROVE  CapacityInv'
<1>1. /\ SameArguments /\ call.mode = "strictInto" /\ pc = "begin" /\ ~writes /\ Inputs
  BY DEF Inv, Scans, PassInv, BeginStrictInto, SameArguments
<1>2. CASE LayoutLen < 0
  <2>1. pc' = "done" /\ writes' = writes
    BY <1>2 DEF BeginStrictInto, FailScan, Fail, Goto
  <2>2. QED
    BY <1>1, <2>1 DEF CapacityInv
<1>3. CASE ~(LayoutLen < 0)
  <2>1. capacity' = LayoutLen
    BY <1>3 DEF BeginStrictInto
  <2>2. LayoutLen >= 0
    <3>1. LayoutLen \in Int
      <4>1. LayoutLen = LayoutOf(Len(input), TrailingPadding(input), EqualsIsData)
        BY <1>1, LayoutIsOf
      <4>2. Len(input) \in Nat /\ TrailingPadding(input) \in 0 .. 2
        BY <1>1, TrailingFacts DEF Inputs
      <4>3. DecodedSymbolLen(Len(input)) \in Nat
        BY <4>2, DecodedLenFacts
      <4>4. QED
        BY <4>1, <4>2, <4>3 DEF LayoutOf
    <3>2. QED
      BY <1>3, <3>1
  <2>3. LayoutLen \in Nat /\ DecodedSymbolLen(Len(input) - TrailingPadding(input)) <= LayoutLen
    BY <1>1, <2>2, LayoutCapacity
  <2>4. /\ LayoutLen' = LayoutLen /\ TrailingPadding(input)' = TrailingPadding(input)
        /\ input' = input /\ call' = call
    BY <1>1, ArgumentsStay DEF SameArguments
  <2>5. QED
    BY <1>1, <2>1, <2>3, <2>4 DEF CapacityInv
<1>4. QED
  BY <1>2, <1>3

LEMMA CapacityOfFlush ==
  ASSUME Inv, Scans, CapacityInv, Flush
  PROVE  CapacityInv'
<1>1. /\ SameArguments /\ pc = "flush" /\ FlushRest /\ writes' = writes
      /\ Inputs /\ PassInv /\ ScanInv
  BY DEF Inv, Scans, Flush, FlushRest, SameArguments
<1>2. CASE writes \/ error'
  <2>1. capacity' = capacity /\ pc' = "done"
    BY <1>2 DEF Flush, Goto
  <2>2. QED
    BY <1>1, <2>1, CapacityStays
<1>3. CASE ~(writes \/ error')
  <2>1. capacity' = DecodedSymbolLen(symbols) /\ ~writes
    BY <1>3 DEF Flush
  <2>2. call.mode = "counting" /\ checked
    BY <1>1, <2>1 DEF PassInv
  <2>3. symbols = Count(source) /\ IsEnd(source) /\ source \in 0 .. Len(input)
    BY <1>1, <2>2 DEF ScanInv, Inputs
  <2>4. Count(source) \in Nat
    <3>1. source \in Nat
      BY <2>3 DEF Inputs
    <3>2. QED
      BY <3>1, CountType DEF Count
  <2>5. capacity' \in Nat
    BY <2>1, <2>3, <2>4, DecodedLenFacts
  <2>6. PICK e \in 0 .. Len(input) : e = source
    BY <2>3
  <2>7. IsEnd(e)' /\ Count(e)' = Count(e)
    BY <1>1, <2>3, <2>6, CountsStay
  <2>8. call' = call /\ input' = input
    BY <1>1 DEF SameArguments
  <2>9. \E f \in 0 .. Len(input') : IsEnd(f)' /\ capacity' = DecodedSymbolLen(Count(f)')
    BY <2>1, <2>3, <2>6, <2>7, <2>8
  <2>10. QED
    BY <2>2, <2>5, <2>8, <2>9 DEF CapacityInv
<1>4. QED
  BY <1>2, <1>3

LEMMA CapacityNext ==
  ASSUME Inv, Scans, CapacityInv, Step
  PROVE  CapacityInv'
<1>1. CASE BeginAllocating
  BY <1>1, CapacityOfBegin
<1>2. CASE BeginStrictInto
  BY <1>2, CapacityOfLayout
<1>3. CASE Flush
  BY <1>3, CapacityOfFlush
<1>4. CASE BeginCount
  BY <1>4 DEF BeginCount, NewSink, Goto, CapacityInv
<1>5. CASE BeginWrite
  <2>1. SameArguments /\ capacity' = capacity /\ pc = "sized"
    BY <1>5 DEF BeginWrite, SameArguments
  <2>2. QED
    BY <2>1, CapacityStays
<1>6. CASE RouteIgnoredPadding \/ RouteSpecials \/ RouteGeneric
  BY <1>6, CapacityStays
  DEF RouteIgnoredPadding, RouteSpecials, RouteGeneric, SameArguments, FailScan, Fail, Goto, sink
<1>7. CASE PushRun
  BY <1>7, CapacityStays DEF PushRun, DecodeDirect, Stage, SameArguments
<1>8. CASE SpecialsRun \/ EndSpecials \/ AlphanumericRun \/ EndScan
  <2>1. SameArguments /\ capacity' = capacity /\ pc = "scan" /\ pc' # "sized"
    BY <1>8 DEF SpecialsRun, EndSpecials, AlphanumericRun, EndScan, Scanning, SameArguments, FailScan, Fail, Goto
  <2>2. writes' = writes
    BY <1>8 DEF SpecialsRun, EndSpecials, AlphanumericRun, EndScan, FailScan, Push, sink
  <2>3. QED
    BY <2>1, <2>2, CapacityStays
<1>9. CASE StrictSymbol \/ StrictOther \/ LenientSymbol \/ LenientPadding \/ LenientSkip
  <2>1. SameArguments /\ capacity' = capacity /\ pc = "scan"
    BY <1>9 DEF StrictSymbol, StrictOther, LenientSymbol, LenientPadding, LenientSkip, ScanByte, Scanning,
                SameArguments
  <2>2. pc' # "sized"
    BY <1>9, <2>1 DEF StrictSymbol, StrictOther, LenientSymbol, LenientPadding, LenientSkip, FailScan, Fail, Goto
  <2>3. writes' = writes
    BY <1>9 DEF StrictSymbol, StrictOther, LenientSymbol, LenientPadding, LenientSkip, FailScan, Push, sink
  <2>4. QED
    BY <2>1, <2>2, <2>3, CapacityStays
<1>10. CASE Finish \/ OutputTooSmall \/ Abort
  <2>1. SameArguments /\ capacity' = capacity /\ pc' # "sized"
    BY <1>10 DEF Finish, OutputTooSmall, Abort, SameArguments, FailScan, Fail, Goto
  <2>2. writes' = writes
    BY <1>10 DEF Finish, OutputTooSmall, Abort, FailScan, sink
  <2>3. QED
    BY <2>1, <2>2, CapacityStays
<1>11. QED
  BY <1>1, <1>2, <1>3, <1>4, <1>5, <1>6, <1>7, <1>8, <1>9, <1>10 DEF Step
-----------------------------------------------------------------------------
(* Where the pushed symbols come from.                                     *)
LEMMA OriginStays ==
  ASSUME OriginInv, SameArguments, writes' => writes, pushed' = pushed, translation' = translation,
         source \in Nat, source' \in Nat, source <= source'
  PROVE  OriginInv'
<1> SUFFICES ASSUME writes', NEW n \in 1 .. Len(pushed'), translation'[pushed'[n]] \in Standard
             PROVE  \E i \in n .. source' : EqualsIsData' \/ input'[i] # Equals
  BY DEF OriginInv
<1>1. PICK i \in n .. source : EqualsIsData \/ input[i] # Equals
  BY DEF OriginInv
<1>2. i \in n .. source'
  OBVIOUS
<1>3. EqualsIsData' \/ input'[i] # Equals
  BY <1>1, ArgumentsStay DEF SameArguments
<1>4. QED
  BY <1>2, <1>3

LEMMA OriginEmpty ==
  ASSUME pushed' = <<>>
  PROVE  OriginInv'
<1>1. Len(pushed') = 0
  BY EmptyFacts
<1>2. QED
  BY <1>1 DEF OriginInv

LEMMA OriginAdds ==
  ASSUME Inputs, PassInv, ScanInv, SinkTypes, OriginInv, SameArguments, pc = "scan", writes,
         NEW run \in Seq(Byte), pushed' = pushed \o run, translation' = translation,
         source' \in Nat, source + Len(run) <= source',
         \A k \in 1 .. Len(run) :
           EqualsIsData \/ input[source + k] # Equals \/ translation[run[k]] \notin Standard
  PROVE  OriginInv'
<1> SUFFICES ASSUME NEW n \in 1 .. Len(pushed'), translation'[pushed'[n]] \in Standard
             PROVE  \E i \in n .. source' : EqualsIsData' \/ input'[i] # Equals
  BY DEF OriginInv
<1>1. /\ Len(pushed) \in Nat /\ Len(run) \in Nat /\ Len(pushed') = Len(pushed) + Len(run)
      /\ \A k \in 1 .. Len(pushed) : pushed'[k] = pushed[k]
      /\ \A j \in 1 .. Len(run) : pushed'[Len(pushed) + j] = run[j]
  BY ConcatFacts DEF SinkTypes
<1>2. source \in Nat /\ Len(pushed) <= source
  BY ScanTypes, ScannedGives DEF Scanned
<1>3. (EqualsIsData' <=> EqualsIsData) /\ input' = input
  BY ArgumentsStay DEF SameArguments
<1>4. CASE n \in 1 .. Len(pushed)
  <2>1. translation[pushed[n]] \in Standard
    BY <1>1, <1>4
  <2>2. PICK i \in n .. source : EqualsIsData \/ input[i] # Equals
    BY <1>4, <2>1 DEF OriginInv
  <2>3. i \in n .. source'
    BY <1>1, <1>2
  <2>4. QED
    BY <1>3, <2>2, <2>3
<1>5. CASE n \notin 1 .. Len(pushed)
  <2>1. n - Len(pushed) \in 1 .. Len(run) /\ n = Len(pushed) + (n - Len(pushed))
    BY <1>1, <1>5
  <2>2. PICK j \in 1 .. Len(run) : n = Len(pushed) + j
    BY <2>1
  <2>3. translation[run[j]] \in Standard
    BY <1>1, <2>2
  <2>4. EqualsIsData \/ input[source + j] # Equals
    BY <2>3
  <2>5. source + j \in n .. source'
    BY <1>1, <1>2, <2>2
  <2>6. QED
    BY <1>3, <2>4, <2>5
<1>6. QED
  BY <1>4, <1>5

LEMMA OriginPushed ==
  ASSUME Inputs, PassInv, ScanInv, SinkTypes, OriginInv, SameArguments, pc = "scan",
         NEW run \in Seq(Byte), NEW validate, Push(run, validate),
         source' \in Nat, source + Len(run) <= source',
         \A k \in 1 .. Len(run) :
           EqualsIsData \/ input[source + k] # Equals \/ translation[run[k]] \notin Standard
  PROVE  OriginInv'
<1>1. writes' = writes /\ translation' = translation /\ (writes => pushed' = pushed \o run)
  BY DEF Push
<1>2. CASE writes
  BY <1>1, <1>2, OriginAdds
<1>3. CASE ~writes
  BY <1>1, <1>3 DEF OriginInv
<1>4. QED
  BY <1>2, <1>3

LEMMA OriginOfSpecials ==
  ASSUME Inv, Scans, OriginInv, SpecialsRun
  PROVE  OriginInv'
<1>1. Inputs /\ SinkTypes /\ PassInv /\ ScanInv /\ SameArguments
  BY DEF Inv, Scans, SpecialsRun, SameArguments
<1>2. pc = "scan" /\ source \in Nat /\ ScanEnd \in Nat
  BY <1>1, SpecialsRunMoves, ScanTypes
<1>3. PICK m \in Nat, run \in Seq(Byte) :
        /\ Len(run) = m /\ source + m <= source' /\ source' <= ScanEnd
        /\ source' \in {source + m, source + m + 1}
        /\ \A k \in 1 .. m : run[k] = input[source + k] /\ ~IsIgnored(run[k])
        /\ source' = source + m + 1 => IsIgnored(input[source'])
        /\ IF m = 0 THEN UNCHANGED <<sink, symbols, last>>
           ELSE Push(run, TRUE) /\ symbols' = symbols + m
  BY <1>1, SpecialsRunMoves
<1>4. source' \in Nat /\ source <= source'
  BY <1>2, <1>3
<1>5. CASE m = 0
  BY <1>1, <1>2, <1>3, <1>4, <1>5, OriginStays DEF sink
<1>6. CASE m # 0
  <2>1. ASSUME NEW k \in 1 .. Len(run)
        PROVE  EqualsIsData \/ input[source + k] # Equals \/ translation[run[k]] \notin Standard
    BY <1>1, <1>3, PaddingStays
  <2>2. Push(run, TRUE)
    BY <1>3, <1>6
  <2>3. QED
    BY <1>1, <1>2, <1>3, <1>4, <2>1, <2>2, OriginPushed
<1>7. QED
  BY <1>5, <1>6

LEMMA OriginOfRun ==
  ASSUME Inv, Scans, OriginInv, AlphanumericRun
  PROVE  OriginInv'
<1>1. /\ Inputs /\ SinkTypes /\ PassInv /\ ScanInv /\ SameArguments /\ pc = "scan"
      /\ Push(Run, FALSE) /\ source' = source + Len(Run) /\ decoder.preservesAlphanumeric
  BY DEF Inv, Scans, AlphanumericRun, Scanning, RunAhead, SameArguments
<1>2. /\ Run \in Seq(Byte) /\ Len(Run) \in Nat
      /\ \A k \in 1 .. Len(Run) : Run[k] = input[source + k] /\ Run[k] \in Alphanumeric
  BY <1>1, RunBytes
<1>3. source \in Nat
  BY <1>1, ScanTypes
<1>4. \A k \in 1 .. Len(Run) : input[source + k] # Equals
  BY <1>1, <1>2, AlphanumericsAreSymbols
<1>5. source' \in Nat /\ source + Len(Run) <= source'
  BY <1>1, <1>2, <1>3
<1>6. QED
  BY <1>1, <1>2, <1>4, <1>5, OriginPushed

LEMMA OriginOfByte ==
  ASSUME Inv, Scans, OriginInv,
         StrictSymbol \/ StrictOther \/ LenientSymbol \/ LenientPadding \/ LenientSkip
  PROVE  OriginInv'
<1>1. Inputs /\ SinkTypes /\ PassInv /\ ScanInv /\ SameArguments /\ ScanByte
  BY DEF Inv, Scans, StrictSymbol, StrictOther, LenientSymbol, LenientPadding, LenientSkip, SameArguments
<1>2. /\ pc = "scan" /\ source \in Nat /\ source' = source + 1 /\ next = input[source + 1]
      /\ source' \in Nat
  BY <1>1, NextByte
<1>3. CASE FailScan \/ UNCHANGED sink
  <2>1. pushed' = pushed /\ translation' = translation /\ writes' = writes
    BY <1>3 DEF FailScan, sink
  <2>2. QED
    BY <1>1, <1>2, <2>1, OriginStays
<1>4. CASE IsSymbol(next) /\ Push(<<StandardByte(Value(next))>>, FALSE)
  <2>1. PICK run \in Seq(Byte) : Len(run) = 1 /\ Push(run, FALSE)
    BY <1>1, <1>4, SymbolPushed
  <2>2. next # Equals \/ EqualsIsData
    BY <1>4 DEF IsSymbol, EqualsIsData
  <2>3. \A k \in 1 .. Len(run) :
          EqualsIsData \/ input[source + k] # Equals \/ translation[run[k]] \notin Standard
    BY <1>2, <2>1, <2>2
  <2>4. source + Len(run) <= source'
    BY <1>2, <2>1
  <2>5. QED
    BY <1>1, <1>2, <2>1, <2>3, <2>4, OriginPushed
<1>5. (FailScan \/ UNCHANGED sink) \/ (IsSymbol(next) /\ Push(<<StandardByte(Value(next))>>, FALSE))
  BY DEF StrictSymbol, StrictOther, LenientSymbol, LenientPadding, LenientSkip
<1>6. QED
  BY <1>3, <1>4, <1>5

LEMMA OriginNext ==
  ASSUME Inv, Scans, OriginInv, Step
  PROVE  OriginInv'
<1>1. CASE BeginAllocating \/ BeginCount \/ BeginWrite
  BY <1>1, OriginEmpty DEF BeginAllocating, BeginCount, BeginWrite, NewSink
<1>2. source \in Nat
  BY DEF Inv, Inputs
<1>3. CASE RouteIgnoredPadding \/ RouteSpecials \/ RouteGeneric
  <2>1. pushed = <<>>
    BY <1>3 DEF Inv, IInv, RouteIgnoredPadding, RouteSpecials, RouteGeneric
  <2>2. pushed' = pushed
    BY <1>3 DEF RouteIgnoredPadding, RouteSpecials, RouteGeneric, FailScan, sink
  <2>3. QED
    BY <2>1, <2>2, OriginEmpty
<1>4. CASE BeginStrictInto \/ PushRun \/ EndSpecials \/ EndScan \/ Finish \/ Flush \/ OutputTooSmall \/ Abort
  <2>1. SameArguments /\ source' = source
    BY <1>4 DEF BeginStrictInto, PushRun, EndSpecials, EndScan, Finish, Flush, OutputTooSmall, Abort,
                SameArguments, scan
  <2>2. pushed' = pushed /\ translation' = translation /\ writes' = writes
    BY <1>4 DEF BeginStrictInto, PushRun, EndSpecials, EndScan, Finish, Flush, OutputTooSmall, Abort,
                FailScan, DecodeDirect, Stage, FlushRest, sink
  <2>3. QED
    BY <1>2, <2>1, <2>2, OriginStays
<1>5. CASE SpecialsRun
  BY <1>5, OriginOfSpecials
<1>6. CASE AlphanumericRun
  BY <1>6, OriginOfRun
<1>7. CASE StrictSymbol \/ StrictOther \/ LenientSymbol \/ LenientPadding \/ LenientSkip
  BY <1>7, OriginOfByte
<1>8. QED
  BY <1>1, <1>3, <1>4, <1>5, <1>6, <1>7 DEF Step
-----------------------------------------------------------------------------
(* How far the output is stored to.                                        *)
Room ==
  \A n \in 1 .. Len(pushed) :
    (checked => translation[pushed[n]] \in Standard) => DecodedSymbolLen(n) <= capacity

LEMMA RoomForPushed ==
  ASSUME Inv, Scans, CapacityInv, OriginInv, writes, pc \in {"scan", "flush"}
  PROVE  Room
<1> SUFFICES ASSUME NEW n \in 1 .. Len(pushed), checked => translation[pushed[n]] \in Standard
             PROVE  DecodedSymbolLen(n) <= capacity
  BY DEF Room
<1>1. /\ Inputs /\ PassInv /\ ScanInv /\ capacity \in Nat
      /\ checked <=> call.mode # "counting"
  BY DEF Inv, Scans, PassInv, CapacityInv
<1>2. /\ source \in Nat /\ ScanEnd \in Nat /\ source <= ScanEnd /\ ScanEnd <= Len(input)
      /\ Len(input) \in Nat /\ input \in Seq(Byte)
      /\ Len(pushed) = Count(source)
  BY <1>1, ScanEndFacts DEF Inputs, ScanInv
<1>3. Count(source) \in Nat /\ n \in Nat /\ n <= Count(source)
  BY <1>2, CountType DEF Count
<1>4. CASE call.mode = "counting"
  <2>1. PICK e \in 0 .. Len(input) : IsEnd(e) /\ capacity = DecodedSymbolLen(Count(e))
    BY <1>4 DEF CapacityInv
  <2>2. source <= e
    <3>1. CASE pc = "scan"
      <4>1. \A i \in 1 .. source : ~StopAt(i)
        BY <1>1, <3>1, ScannedGives
      <4>2. EndsAt(input, SymbolBytes, PadBytes, ScanEnd, e) /\ source \in 0 .. ScanEnd
        BY <1>2, <2>1 DEF IsEnd
      <4>3. QED
        BY <1>2, <4>1, <4>2, NotPastEnd DEF StopAt
    <3>2. CASE pc = "flush"
      <4>1. IsEnd(source)
        BY <1>1, <3>2 DEF ScanInv
      <4>2. source = e
        BY <1>2, <2>1, <4>1, EndIsUnique DEF IsEnd
      <4>3. QED
        BY <1>2, <4>2
    <3>3. QED
      BY <3>1, <3>2
  <2>3. Count(source) <= Count(e) /\ Count(e) \in Nat
    BY <1>2, <2>2, CountMonotone, CountType DEF Count
  <2>4. DecodedSymbolLen(n) <= DecodedSymbolLen(Count(e))
    BY <1>3, <2>3, DecodedLenMonotone
  <2>5. QED
    BY <2>1, <2>4
<1>5. CASE call.mode # "counting"
  <2>1. translation[pushed[n]] \in Standard
    BY <1>1, <1>5
  <2>2. PICK i \in n .. source : EqualsIsData \/ input[i] # Equals
    BY <2>1 DEF OriginInv
  <2> DEFINE t == TrailingPadding(input)
  <2>3. /\ t \in 0 .. 2 /\ t <= Len(input)
        /\ EqualsIsData => t = 0
        /\ ~EqualsIsData => \A j \in Len(input) - t + 1 .. Len(input) : input[j] = Equals
    BY <1>2, TrailingFacts
  <2>4. DecodedSymbolLen(Len(input) - t) <= capacity
    BY <1>5 DEF CapacityInv
  <2> HIDE DEF t
  <2>5. i \in Nat /\ n <= i /\ i <= Len(input)
    BY <1>2, <1>3
  <2>6. i <= Len(input) - t
    BY <1>2, <2>2, <2>3, <2>5
  <2>7. DecodedSymbolLen(n) <= DecodedSymbolLen(Len(input) - t)
    <3>1. Len(input) - t \in Nat /\ n <= Len(input) - t
      BY <1>2, <1>3, <2>3, <2>5, <2>6
    <3>2. QED
      BY <1>3, <3>1, DecodedLenMonotone
  <2>8. DecodedSymbolLen(n) \in Nat /\ DecodedSymbolLen(Len(input) - t) \in Nat
    <3>1. Len(input) - t \in Nat
      BY <1>2, <2>3
    <3>2. QED
      BY <1>3, <3>1, DecodedLenFacts
  <2>9. QED
    BY <1>1, <2>4, <2>7, <2>8
<1>6. QED
  BY <1>4, <1>5

(* The whole quads before the first that fails are of the alphabet.        *)
LEMMA ValidQuadsFacts ==
  ASSUME NEW U, NEW m \in Seq(U)
  PROVE  /\ ValidQuads(m) \in Nat /\ ValidQuads(m) * 4 <= Len(m)
         /\ \A k \in 1 .. ValidQuads(m) * 4 : m[k] \in Standard
<1> DEFINE c == Len(m)
           Good(q) == AllStandard(Take(m, q * 4))
           Ends == {q \in Nat : ~(q * 4 + 4 <= c /\ Good(q + 1))}
<1>1. c \in Nat
  OBVIOUS
<1>2. c \div 4 \in Nat /\ ~((c \div 4) * 4 + 4 <= c)
  BY <1>1
<1>3. Ends \subseteq Nat /\ Ends # {}
  BY <1>2
<1>4. IsWellFoundedOn(OpToRel(<, Nat), Nat)
  BY NatLessThanWellFounded
<1>5. PICK q \in Ends : \A p \in Ends : ~(<<p, q>> \in OpToRel(<, Nat))
  <2> HIDE DEF Ends
  <2>1. QED
    BY <1>3, <1>4, WFMin
<1>6. q \in Nat /\ \A p \in Nat : p < q => p \notin Ends
  BY <1>5 DEF OpToRel
<1>7. q * 4 <= c /\ Good(q)
  <2>1. CASE q = 0
    <3>1. Take(m, 0) = <<>>
      BY DEF Take
    <3>2. AllStandard(<<>>)
      BY DEF AllStandard
    <3>3. QED
      BY <1>1, <2>1, <3>1, <3>2
  <2>2. CASE q # 0
    <3>1. q - 1 \in Nat /\ q - 1 < q
      BY <1>6, <2>2
    <3>2. q - 1 \notin Ends
      BY <1>6, <3>1
    <3>3. (q - 1) * 4 + 4 <= c /\ Good((q - 1) + 1)
      BY <3>1, <3>2
    <3>4. (q - 1) + 1 = q /\ (q - 1) * 4 + 4 = q * 4
      BY <1>6
    <3>5. QED
      BY <3>3, <3>4
  <2>3. QED
    BY <2>1, <2>2
<1>8. q * 4 + 4 <= c => ~Good(q + 1)
  BY <1>5
<1>9. q \in 0 .. c \div 4
  BY <1>1, <1>6, <1>7
<1>10. (q + 1) * 4 = q * 4 + 4
  BY <1>6
<1>11. \E p \in 0 .. c \div 4 :
         /\ AllStandard(Take(m, p * 4))
         /\ p * 4 + 4 <= c => ~AllStandard(Take(m, p * 4 + 4))
  BY <1>7, <1>8, <1>9, <1>10
<1> DEFINE v == ValidQuads(m)
<1>12. v \in 0 .. c \div 4 /\ AllStandard(Take(m, v * 4))
  BY <1>11 DEF ValidQuads
<1> HIDE DEF v
<1>13. v \in Nat /\ v * 4 <= c
  BY <1>1, <1>12
<1>14. ASSUME NEW k \in 1 .. v * 4 PROVE m[k] \in Standard
  <2>1. Take(m, v * 4) = SubSeq(m, 1, v * 4) /\ v * 4 \in 0 .. Len(m)
    BY <1>1, <1>13 DEF Take
  <2>2. k \in DOMAIN SubSeq(m, 1, v * 4) /\ SubSeq(m, 1, v * 4)[k] = m[k]
    BY <1>1, <1>13, <2>1
  <2>3. QED
    BY <1>12, <2>1, <2>2 DEF AllStandard
<1>15. QED
  BY <1>13, <1>14 DEF v

(* What is decoded next is a part of what was pushed.                      *)
NextPart(part) ==
  /\ part \in Seq(Byte) /\ DecodedCount + Len(part) <= Len(pushed)
  /\ \A k \in 1 .. Len(part) : part[k] = pushed[DecodedCount + k]
  /\ Decode(Mapped(translation, part))

LEMMA PartOfDirect ==
  ASSUME SinkInv, DecodeDirect
  PROVE  \E part : NextPart(part)
<1> DEFINE n == (Len(pending) \div 4) * 4
           part == Take(pending, n)
<1>1. ~error /\ translation = Untranslated /\ staging = <<>> /\ Decode(part)
  BY DEF DecodeDirect, Direct
<1>2. /\ Len(pushed) \in Nat /\ Len(pending) \in Nat /\ Len(staging) = 0
      /\ DecodedCount \in Nat /\ Len(pushed) = DecodedCount + Len(pending)
  <2>1. Len(staging) = 0
    BY <1>1, EmptyFacts, Zenon
  <2>2. QED
    BY <2>1, Lengths
<1>3. n \in 0 .. Len(pending) /\ n \in Nat
  BY <1>2
<1> HIDE DEF n
<1>4. /\ part \in Seq(Byte) /\ Len(part) = n
      /\ \A k \in 1 .. n : part[k] = pending[k]
  BY <1>3, TakeFacts DEF SinkInv, SinkTypes
<1> HIDE DEF part
<1>5. \A k \in 1 .. Len(pending) : pending[k] = pushed[DecodedCount + k]
  <2>1. DOMAIN pending = 1 .. Len(pending)
    BY DEF SinkInv, SinkTypes
  <2>2. \A k \in 1 .. Len(pending) : pending[k] = pushed[DecodedCount + Len(staging) + k]
    BY <2>1 DEF SinkInv, Accounted
  <2>3. DecodedCount + Len(staging) = DecodedCount
    BY <1>2
  <2>4. QED
    BY <2>2, <2>3
<1>6. Decode(Mapped(translation, part))
  <2>1. Mapped(translation, part) = part
    BY <1>1, <1>4, UntranslatedKeeps
  <2>2. QED
    BY <1>1, <2>1, Zenon
<1>7. DecodedCount + Len(part) <= Len(pushed)
  BY <1>2, <1>3, <1>4
<1>8. ASSUME NEW k \in 1 .. Len(part) PROVE part[k] = pushed[DecodedCount + k]
  <2>1. k \in 1 .. n /\ k \in 1 .. Len(pending)
    BY <1>2, <1>3, <1>4
  <2>2. QED
    BY <1>4, <1>5, <2>1
<1>9. QED
  BY <1>4, <1>6, <1>7, <1>8 DEF NextPart

LEMMA PartOfStage ==
  ASSUME SinkInv, Stage
  PROVE  UNCHANGED <<output, reach>> \/ \E part : NextPart(part)
<1> DEFINE copied == AtMost(Len(pending), Capacity - Len(staging))
           staged == staging \o Take(pending, copied)
<1>1. IF Len(staged) = Capacity
      THEN Decode(Mapped(translation, staged)) ELSE UNCHANGED <<output, reach>>
  BY DEF Stage, Translate, Mapped
<1>2. /\ Len(pushed) \in Nat /\ Len(pending) \in Nat /\ Len(staging) \in Nat
      /\ DecodedCount \in Nat /\ Len(pushed) = DecodedCount + Len(staging) + Len(pending)
      /\ Len(staging) < Capacity
  BY Lengths DEF SinkInv, Accounted
<1>3. copied \in 0 .. Len(pending) /\ copied \in Nat
  BY <1>2, CapacityFacts DEF AtMost
<1> HIDE DEF copied
<1>4. /\ Take(pending, copied) \in Seq(Byte) /\ Len(Take(pending, copied)) = copied
      /\ \A k \in 1 .. copied : Take(pending, copied)[k] = pending[k]
  BY <1>3, TakeFacts DEF SinkInv, SinkTypes
<1>6. /\ \A k \in 1 .. Len(staging) : staging[k] = pushed[DecodedCount + k]
      /\ \A k \in 1 .. Len(pending) : pending[k] = pushed[DecodedCount + Len(staging) + k]
  BY DEF SinkInv, SinkTypes, Accounted
<1>7. /\ staged \in Seq(Byte) /\ Len(staged) = Len(staging) + copied
      /\ \A k \in 1 .. Len(staging) : staged[k] = staging[k]
      /\ \A j \in 1 .. copied : staged[Len(staging) + j] = Take(pending, copied)[j]
  BY <1>4, ConcatFacts DEF SinkInv, SinkTypes
<1> HIDE DEF staged
<1>8. ASSUME NEW k \in 1 .. Len(staged) PROVE staged[k] = pushed[DecodedCount + k]
  <2>1. CASE k \in 1 .. Len(staging)
    BY <2>1, <1>6, <1>7
  <2>2. CASE k \notin 1 .. Len(staging)
    <3>1. k - Len(staging) \in 1 .. copied /\ k = Len(staging) + (k - Len(staging))
      BY <2>2, <1>2, <1>3, <1>7
    <3>2. PICK j \in 1 .. copied : k = Len(staging) + j
      BY <3>1
    <3>3. staged[k] = pending[j] /\ j \in 1 .. Len(pending)
      BY <3>2, <1>2, <1>3, <1>4, <1>7
    <3>4. DecodedCount + Len(staging) + j = DecodedCount + k
      BY <3>2, <1>2
    <3>5. QED
      BY <3>3, <3>4, <1>6
  <2>3. QED
    BY <2>1, <2>2
<1>9. DecodedCount + Len(staged) <= Len(pushed)
  BY <1>2, <1>3, <1>7
<1>10. QED
  BY <1>1, <1>7, <1>8, <1>9 DEF NextPart

LEMMA PartOfRest ==
  ASSUME SinkInv, FlushRest
  PROVE  UNCHANGED <<output, reach>> \/ \E part : NextPart(part)
<1>1. /\ staging = <<>> => UNCHANGED <<output, reach>>
      /\ staging # <<>> => Decode(Mapped(translation, staging))
  BY DEF FlushRest, Translate, Mapped
<1>2. staging \in Seq(Byte) /\ DecodedCount + Len(staging) <= Len(pushed)
  <2>1. /\ Len(pushed) \in Nat /\ Len(staging) \in Nat /\ Len(pending) \in Nat /\ DecodedCount \in Nat
        /\ Len(pushed) = DecodedCount + Len(staging) + Len(pending)
    BY Lengths
  <2>2. QED
    BY <2>1 DEF SinkInv, SinkTypes
<1>3. \A k \in 1 .. Len(staging) : staging[k] = pushed[DecodedCount + k]
  BY DEF SinkInv, SinkTypes, Accounted
<1>4. QED
  BY <1>1, <1>2, <1>3 DEF NextPart

(* A kernel that checks before it stores stays within the capacity.        *)
LEMMA DecodeReaches ==
  ASSUME ~StoresBeforeCheck, SinkInv, QuadsDecoded, ~error, writes, capacity \in Nat, Room, ReachInv,
         NEW part, NextPart(part)
  PROVE  reach' \in Nat /\ Len(output') <= reach' /\ reach' <= capacity
<1> DEFINE d == DecodedCount
           m == Mapped(translation, part)
           c == Len(part)
<1>1. /\ part \in Seq(Byte) /\ c \in Nat /\ d \in Nat /\ d % 4 = 0 /\ Len(pushed) \in Nat
      /\ d + c <= Len(pushed) /\ d <= Len(pushed)
      /\ \A k \in 1 .. c : part[k] = pushed[d + k]
      /\ Decode(m)
  BY Lengths DEF NextPart, QuadsDecoded
<1>2. m \in Seq(Images(translation)) /\ Len(m) = c
  BY <1>1, MappedType
<1>3. ASSUME NEW k \in 1 .. c PROVE m[k] = translation[pushed[d + k]]
  <2>1. k \in DOMAIN part
    BY <1>1
  <2>2. m[k] = translation[part[k]]
    BY <2>1 DEF Mapped
  <2>3. QED
    BY <1>1, <2>2
<1>4. Len(output) = DecodedSymbolLen(d)
  <2>1. output = Decoded(Mapped(translation, Take(pushed, d)))
    BY DEF SinkInv, Accounted, Translate, Mapped
  <2>2. Take(pushed, d) \in Seq(Byte) /\ Len(Take(pushed, d)) = d
    BY <1>1, TakeFacts DEF SinkInv, SinkTypes
  <2>3. PICK s \in Seq(Images(translation)) : s = Mapped(translation, Take(pushed, d)) /\ Len(s) = d
    BY <2>2, MappedType
  <2>4. Len(Decoded(s)) = DecodedSymbolLen(d)
    BY <2>3, DecodedType
  <2>5. QED
    BY <2>1, <2>3, <2>4
<1>5. /\ reach \in Nat /\ reach <= capacity /\ DecodedSymbolLen(d) \in Nat /\ DecodedSymbolLen(d) <= reach
  BY <1>1, <1>4, DecodedLenFacts DEF ReachInv
<1> DEFINE rejected == checked /\ (Len(m) % 4 = 1 \/ ~AllStandard(m))
<1>6. CASE rejected
  <2>1. output' = output /\ reach' = AtLeast(reach, Len(output) + StoredOnError(m))
    BY <1>1, <1>6 DEF Decode
  <2> DEFINE q == ValidQuads(m)
  <2>2. /\ q \in Nat /\ q * 4 <= c
        /\ \A k \in 1 .. q * 4 : m[k] \in Standard
    BY <1>2, ValidQuadsFacts
  <2>3. StoredOnError(m) \in {0, q * 3}
    <3>1. StoredOnError(m) = IF Len(m) % 4 = 1 THEN 0 ELSE AtLeast(q * 3, 0)
      BY Zenon DEF StoredOnError
    <3>2. AtLeast(q * 3, 0) = q * 3
      BY <2>2 DEF AtLeast
    <3>3. QED
      BY <3>1, <3>2
  <2> HIDE DEF q
  <2>4. DecodedSymbolLen(d) + q * 3 <= capacity
    <3>1. CASE q = 0
      BY <1>5, <3>1
    <3>2. CASE q # 0
      <4>1. q * 4 \in 1 .. c /\ d + q * 4 \in 1 .. Len(pushed)
        BY <1>1, <2>2, <3>2
      <4>2. translation[pushed[d + q * 4]] \in Standard
        <5>1. q * 4 \in 1 .. q * 4
          BY <2>2, <4>1
        <5>2. QED
          BY <1>3, <2>2, <4>1, <5>1
      <4>3. DecodedSymbolLen(d + q * 4) <= capacity
        BY <4>1, <4>2 DEF Room
      <4>4. DecodedSymbolLen(d + q * 4) = DecodedSymbolLen(d) + q * 3
        BY <1>1, <2>2, SMT DEF DecodedSymbolLen
      <4>5. QED
        BY <4>3, <4>4
    <3>3. QED
      BY <3>1, <3>2
  <2>5. Len(output) + StoredOnError(m) \in Nat /\ Len(output) + StoredOnError(m) <= capacity
    BY <1>4, <1>5, <2>2, <2>3, <2>4
  <2>6. QED
    BY <1>4, <1>5, <2>1, <2>5 DEF AtLeast
<1>7. CASE ~rejected
  <2>1. error' = error /\ reach' = AtLeast(reach, Len(output'))
    BY <1>1, <1>7 DEF Decode
  <2>2. output' = Decoded(Mapped(translation, Take(pushed, d + c)))
    BY <1>1, <2>1, DecodeExtends
  <2>3. Len(output') = DecodedSymbolLen(d + c)
    <3>1. d + c \in 0 .. Len(pushed)
      BY <1>1
    <3>2. Take(pushed, d + c) \in Seq(Byte) /\ Len(Take(pushed, d + c)) = d + c
      BY <3>1, TakeFacts DEF SinkInv, SinkTypes
    <3>3. PICK s \in Seq(Images(translation)) : s = Mapped(translation, Take(pushed, d + c)) /\ Len(s) = d + c
      BY <3>2, MappedType
    <3>4. Len(Decoded(s)) = DecodedSymbolLen(d + c)
      BY <3>3, DecodedType
    <3>5. QED
      BY <2>2, <3>3, <3>4
  <2>4. DecodedSymbolLen(d + c) \in Nat
    <3>1. d + c \in Nat
      BY <1>1
    <3>2. QED
      BY <3>1, DecodedLenFacts
  <2>5. DecodedSymbolLen(d + c) <= capacity
    <3>1. CASE c = 0
      <4>1. d + c = d
        BY <1>1, <3>1
      <4>2. QED
        BY <1>5, <4>1
    <3>2. CASE c # 0
      <4>1. c \in 1 .. c /\ d + c \in 1 .. Len(pushed)
        BY <1>1, <3>2
      <4>2. checked => translation[pushed[d + c]] \in Standard
        <5>1. c \in DOMAIN m /\ m[c] = translation[pushed[d + c]]
          BY <1>2, <1>3, <4>1
        <5>2. checked => AllStandard(m)
          BY <1>7
        <5>3. QED
          BY <5>1, <5>2 DEF AllStandard
      <4>3. QED
        BY <4>1, <4>2 DEF Room
    <3>3. QED
      BY <3>1, <3>2
  <2>6. QED
    BY <1>5, <2>1, <2>3, <2>4, <2>5 DEF AtLeast
<1>8. QED
  BY <1>6, <1>7

LEMMA ReachStays ==
  ASSUME ReachInv, output' = output, reach' = reach, writes' => writes /\ capacity' = capacity
  PROVE  ReachInv'
  BY DEF ReachInv

LEMMA ReachOfDecode ==
  ASSUME ~StoresBeforeCheck, Inv, Scans, CapacityInv, OriginInv, ReachInv,
         pc \in {"scan", "flush"}, ~error, DecodeDirect \/ Stage \/ FlushRest,
         writes => capacity' = capacity
  PROVE  ReachInv'
<1>1. SinkInv /\ QuadsDecoded /\ PassInv
  BY InvGives DEF Scans
<1>2. writes' = writes
  BY DEF DecodeDirect, Stage, FlushRest
<1>3. CASE ~writes
  <2>1. output' = output /\ reach' = reach
    BY <1>1, <1>3, PushRunKeepsPass, FlushKeepsPass DEF SamePass
  <2>2. QED
    BY <1>2, <1>3, <2>1, ReachStays
<1>4. CASE writes
  <2>1. UNCHANGED <<output, reach>> \/ \E part : NextPart(part)
    BY <1>1, PartOfDirect, PartOfStage, PartOfRest
  <2>2. CASE UNCHANGED <<output, reach>>
    BY <1>2, <1>4, <2>2, ReachStays
  <2>3. CASE \E part : NextPart(part)
    <3>1. Room /\ capacity \in Nat
      BY <1>4, RoomForPushed DEF CapacityInv
    <3>2. reach' \in Nat /\ Len(output') <= reach' /\ reach' <= capacity
      BY <1>1, <1>4, <2>3, <3>1, DecodeReaches
    <3>3. QED
      BY <1>2, <1>4, <3>2 DEF ReachInv
  <2>4. QED
    BY <2>1, <2>2, <2>3
<1>5. QED
  BY <1>3, <1>4

(* A new pass begins where nothing is stored.                              *)
LEMMA ReachOfBegin ==
  ASSUME Inv, Scans, CapacityInv, CapacityInv', ReachInv,
         BeginAllocating \/ BeginCount \/ BeginStrictInto \/ BeginWrite
  PROVE  ReachInv'
<1>1. ~writes /\ reach = 0 /\ reach' = reach
  <2>1. pc \in {"begin", "sized"}
    BY DEF BeginAllocating, BeginCount, BeginStrictInto, BeginWrite
  <2>2. reach' = reach
    BY DEF BeginAllocating, BeginCount, BeginStrictInto, BeginWrite, NewSink, FailScan, sink
  <2>3. QED
    BY <2>1, <2>2 DEF Scans, PassInv
<1>2. output' = output \/ output' = <<>>
  BY DEF BeginAllocating, BeginCount, BeginStrictInto, BeginWrite, NewSink, FailScan, sink
<1>3. Len(output') <= reach'
  <2>1. Len(<<>>) = 0
    OBVIOUS
  <2>2. QED
    BY <1>1, <1>2, <2>1 DEF ReachInv
<1>4. writes' => capacity' \in Nat
  BY DEF CapacityInv
<1>5. QED
  BY <1>1, <1>3, <1>4 DEF ReachInv

LEMMA ReachNext ==
  ASSUME ~StoresBeforeCheck, Inv, Scans, CapacityInv, CapacityInv', OriginInv, ReachInv, Step
  PROVE  ReachInv'
<1>1. CASE BeginAllocating \/ BeginCount \/ BeginStrictInto \/ BeginWrite
  BY <1>1, ReachOfBegin
<1>2. CASE PushRun
  <2>1. pc = "scan" /\ (DecodeDirect \/ Stage) /\ ~error /\ capacity' = capacity
    BY <1>2 DEF PushRun, DecodeDirect, Stage
  <2>2. QED
    BY <2>1, ReachOfDecode
<1>3. CASE Flush
  <2>1. pc = "flush" /\ FlushRest /\ (writes => capacity' = capacity)
    BY <1>3 DEF Flush
  <2>2. ~error
    BY <2>1, InvGives
  <2>3. QED
    BY <2>1, <2>2, ReachOfDecode
<1>4. CASE RouteIgnoredPadding \/ RouteSpecials \/ RouteGeneric
  BY <1>4, ReachStays DEF RouteIgnoredPadding, RouteSpecials, RouteGeneric, FailScan, sink
<1>5. CASE SpecialsRun \/ EndSpecials \/ AlphanumericRun \/ EndScan
  <2>1. capacity' = capacity
    BY <1>5 DEF SpecialsRun, EndSpecials, AlphanumericRun, EndScan
  <2>2. output' = output /\ reach' = reach /\ writes' = writes
    BY <1>5 DEF SpecialsRun, EndSpecials, AlphanumericRun, EndScan, FailScan, Push, sink
  <2>3. QED
    BY <2>1, <2>2, ReachStays
<1>6. CASE StrictSymbol \/ StrictOther \/ LenientSymbol \/ LenientPadding \/ LenientSkip
  <2>1. capacity' = capacity
    BY <1>6 DEF StrictSymbol, StrictOther, LenientSymbol, LenientPadding, LenientSkip
  <2>2. output' = output /\ reach' = reach /\ writes' = writes
    BY <1>6 DEF StrictSymbol, StrictOther, LenientSymbol, LenientPadding, LenientSkip, FailScan, Push, sink
  <2>3. QED
    BY <2>1, <2>2, ReachStays
<1>7. CASE Finish \/ OutputTooSmall \/ Abort
  BY <1>7, ReachStays DEF Finish, OutputTooSmall, Abort, FailScan, sink
<1>8. QED
  BY <1>1, <1>2, <1>3, <1>4, <1>5, <1>6, <1>7 DEF Step

Bounded == Inv /\ Scans /\ CapacityInv /\ OriginInv

LEMMA BoundedInit == Init => Bounded /\ ReachInv
<1> SUFFICES ASSUME Init PROVE Bounded /\ ReachInv
  OBVIOUS
<1>1. Inv /\ Scans
  BY InitInv, ScansInit
<1>2. pc = "begin" /\ ~writes /\ reach = 0 /\ output = <<>>
  BY DEF Init, SinkInit
<1>3. Len(<<>>) = 0
  OBVIOUS
<1>4. QED
  BY <1>1, <1>2, <1>3 DEF Bounded, CapacityInv, OriginInv, ReachInv

LEMMA StutterKeeps ==
  ASSUME Bounded, UNCHANGED vars
  PROVE  Bounded' /\ (ReachInv => ReachInv')
<1>1. /\ SameArguments /\ UNCHANGED scan /\ UNCHANGED sink
      /\ pc' = pc /\ padded' = padded /\ capacity' = capacity
  BY DEF vars, SameArguments
<1>2. /\ source' = source /\ symbols' = symbols /\ padding' = padding /\ quad' = quad
      /\ writes' = writes /\ checked' = checked /\ translation' = translation
      /\ output' = output /\ reach' = reach /\ error' = error /\ pushed' = pushed
  BY <1>1 DEF scan, sink
<1>3. Inv'
  <2>1. [Next]_vars
    OBVIOUS
  <2>2. QED
    BY <2>1, NextInv DEF Bounded
<1>4. PassInv'
  <2>1. /\ policy' = policy /\ decoder' = decoder /\ call' = call
        /\ IsIgnored(Equals)' <=> IsIgnored(Equals)
    BY <1>1, ArgumentsStay DEF SameArguments
  <2>2. QED
    BY <1>1, <1>2, <2>1 DEF Bounded, Scans, PassInv
<1>5. ScanInv'
  BY <1>1, <1>2, ScanStays DEF Bounded, Scans, Inv
<1>6. CapacityInv'
  BY <1>1, <1>2, CapacityStays DEF Bounded
<1>7. OriginInv'
  <2>1. source \in Nat
    BY DEF Bounded, Inv, Inputs
  <2>2. QED
    BY <1>1, <1>2, <2>1, OriginStays DEF Bounded
<1>8. ReachInv => ReachInv'
  BY <1>1, <1>2, ReachStays
<1>9. QED
  BY <1>3, <1>4, <1>5, <1>6, <1>7, <1>8 DEF Bounded, Scans

LEMMA BoundedNext == Bounded /\ [Next]_vars => Bounded'
<1> SUFFICES ASSUME Bounded, [Next]_vars PROVE Bounded'
  OBVIOUS
<1>1. CASE UNCHANGED vars
  BY <1>1, StutterKeeps
<1>2. CASE Step
  <2>1. Inv'
    BY NextInv DEF Bounded
  <2>2. QED
    BY <1>2, <2>1, ScansNext, CapacityNext, OriginNext DEF Bounded
<1>3. QED
  BY <1>1, <1>2 DEF Next

(* Nothing behind the reserved or required length is stored to, by a       *)
(* decode that succeeds or fails, wherever the first invalid symbol is,    *)
(* however it falls into runs and staging buffers: as long as the kernel   *)
(* checks symbols before it stores what they decode to. (The NEON kernel   *)
(* does not, and a run shows what follows.)                                *)
THEOREM StaysWithinCapacity == ASSUME ~StoresBeforeCheck PROVE Spec => []WithinCapacity
<1>1. Init => Bounded /\ ReachInv
  BY BoundedInit
<1>2. Bounded /\ ReachInv /\ [Next]_vars => Bounded' /\ ReachInv'
  <2> SUFFICES ASSUME Bounded, ReachInv, [Next]_vars PROVE Bounded' /\ ReachInv'
    OBVIOUS
  <2>1. Bounded'
    BY BoundedNext
  <2>2. CASE UNCHANGED vars
    BY <2>2, StutterKeeps
  <2>3. CASE Step
    BY <2>1, <2>3, ReachNext DEF Bounded
  <2>4. QED
    BY <2>1, <2>2, <2>3 DEF Next
<1>3. ReachInv => WithinCapacity
  BY DEF ReachInv, WithinCapacity
<1>4. QED
  BY <1>1, <1>2, <1>3, PTL DEF Spec
-----------------------------------------------------------------------------
(* The padding of a strict attempt.                                        *)
LEMMA StrictIntoStays ==
  ASSUME StrictIntoInv, SameArguments, padding' = padding, writes' => writes, ~error' => ~error,
         ~error' /\ pc' \in {"finish", "flush", "done"} =>
            symbols' = symbols /\ pc \in {"finish", "flush", "done"},
         ~error' /\ pc' \in {"flush", "done"} => pc \in {"flush", "done"}
  PROVE  StrictIntoInv'
<1> SUFFICES ASSUME call'.mode = "strictInto", writes', ~error' PROVE StrictIntoInv'
  BY DEF StrictIntoInv
<1>1. /\ call' = call /\ input' = input /\ policy' = policy /\ (EqualsIsData' <=> EqualsIsData)
  BY ArgumentsStay DEF SameArguments
<1>2. PadsBehind' <=> PadsBehind
  BY <1>1 DEF PadsBehind
<1>3. /\ padding \in Nat
      /\ padding > 0 => policy.padded /\ ~EqualsIsData
      /\ pc \in {"finish", "flush", "done"} => symbols + padding = Len(input) /\ PadsBehind
      /\ pc \in {"flush", "done"} /\ policy.padded => padding = ExpectedPadding(symbols)
  BY <1>1 DEF StrictIntoInv
<1>4. padding' \in Nat /\ (padding' > 0 => policy'.padded /\ ~EqualsIsData')
  BY <1>1, <1>3
<1>5. pc' \in {"finish", "flush", "done"} => symbols' + padding' = Len(input') /\ PadsBehind'
  BY <1>1, <1>2, <1>3
<1>6. pc' \in {"flush", "done"} /\ policy'.padded => padding' = ExpectedPadding(symbols')
  BY <1>1, <1>3
<1>7. QED
  BY <1>4, <1>5, <1>6 DEF StrictIntoInv

LEMMA StrictIntoFinishes ==
  ASSUME Inv, Scans, StrictIntoInv, Finish
  PROVE  StrictIntoInv'
<1>1. /\ pc = "finish" /\ SameArguments /\ padded' = padded /\ Inputs
      /\ symbols' = symbols /\ padding' = padding
  BY DEF Inv, Finish, SameArguments, scan
<1>2. CASE FailScan
  BY <1>2 DEF FailScan, Fail, StrictIntoInv
<1>3. CASE ~FailScan
  <2> SUFFICES ASSUME call'.mode = "strictInto", writes', ~error' PROVE StrictIntoInv'
    BY DEF StrictIntoInv
  <2>1. /\ pc' = "flush" /\ writes /\ ~error /\ writes' = writes
        /\ ~(checked /\ (IF policy.strict THEN StrictRejects ELSE LenientRejects))
    BY <1>3 DEF Finish, Goto, sink
  <2>2. call' = call /\ input' = input /\ policy' = policy /\ (EqualsIsData' <=> EqualsIsData)
    BY <1>1, ArgumentsStay DEF SameArguments
  <2>3. call.mode = "strictInto" /\ checked
    BY <2>1, <2>2 DEF Scans, PassInv
  <2>4. SpecialsRoute /\ ~IsIgnored(Equals)
    BY <1>1, <2>3, StrictCustomFacts, ConfiguredDecodeAssumption
  <2>5. policy.strict /\ padded = policy.padded
    BY <2>4 DEF SpecialsRoute, Scans, PassInv
  <2>6. policy.padded => padding = ExpectedPadding(symbols)
    BY <2>1, <2>3, <2>5 DEF StrictRejects
  <2>7. /\ padding \in Nat /\ (padding > 0 => policy.padded /\ ~EqualsIsData)
        /\ symbols + padding = Len(input) /\ PadsBehind
    BY <1>1, <2>1, <2>3 DEF StrictIntoInv
  <2>8. PadsBehind'
    BY <1>1, <2>2, <2>7 DEF PadsBehind
  <2>9. QED
    BY <1>1, <2>1, <2>2, <2>6, <2>7, <2>8 DEF StrictIntoInv
<1>4. QED
  BY <1>2, <1>3

LEMMA PositionsBehind ==
  ASSUME NEW a \in Nat, NEW b \in Nat, a <= b
  PROVE  Cardinality(a + 1 .. b) = b - a
<1>1. a + 1 \in Int /\ b \in Int
  OBVIOUS
<1>2. Cardinality(a + 1 .. b) = IF a + 1 > b THEN 0 ELSE b - (a + 1) + 1
  BY <1>1, FS_Interval
<1>3. QED
  BY <1>2

LEMMA StrictIntoEnds ==
  ASSUME Inv, Scans, StrictIntoInv, EndSpecials
  PROVE  StrictIntoInv'
<1>1. /\ pc = "scan" /\ SameArguments /\ padded' = padded /\ Inputs /\ symbols' = symbols
      /\ SpecialsRoute /\ source >= DataEnd /\ PassInv /\ ScanInv
  BY DEF Inv, Scans, EndSpecials, Scanning, SameArguments
<1>2. CASE FailScan
  BY <1>2 DEF FailScan, Fail, StrictIntoInv
<1>3. CASE ~FailScan
  <2> SUFFICES ASSUME call'.mode = "strictInto", writes', ~error' PROVE StrictIntoInv'
    BY DEF StrictIntoInv
  <2> DEFINE rest == DataEnd + 1 .. Len(input)
  <2>1. /\ pc' = "finish" /\ writes /\ UNCHANGED sink
        /\ ~(checked /\ \E i \in rest : input[i] # Equals /\ ~IsIgnored(input[i]))
        /\ padding' = IF checked THEN Cardinality({i \in rest : input[i] = Equals}) ELSE 0
    BY <1>3 DEF EndSpecials, Goto, sink
  <2>2. call' = call /\ input' = input /\ policy' = policy /\ (EqualsIsData' <=> EqualsIsData)
    BY <1>1, ArgumentsStay DEF SameArguments
  <2>3. call.mode = "strictInto" /\ checked
    BY <1>1, <2>1, <2>2 DEF PassInv
  <2>4. (\A b \in Byte : ~IsIgnored(b)) /\ (~EqualsIsData => Value(Equals) = INVALID)
    BY <1>1, <2>3, StrictCustomFacts
  <2>5. /\ source \in Nat /\ Len(input) \in Nat /\ input \in Seq(Byte)
        /\ source = DataEnd /\ DataEnd \in 0 .. Len(input)
    BY <1>1, ScanTypes, ScanEndFacts, InputRanges
  <2>6. \A i \in rest : input[i] = Equals
    <3>1. \A i \in rest : input[i] \in Byte
      BY <2>5, ElementOfSeq
    <3>2. QED
      BY <2>1, <2>3, <2>4, <3>1
  <2>7. padding' = Len(input) - DataEnd
    <3>1. {i \in rest : input[i] = Equals} = rest
      BY <2>6
    <3>2. Cardinality(rest) = Len(input) - DataEnd
      <4>0. DataEnd \in Nat /\ Len(input) \in Nat /\ DataEnd <= Len(input)
        BY <2>5
      <4>1. PICK a \in Nat, b \in Nat : a = DataEnd /\ b = Len(input) /\ a <= b
        BY <4>0, Zenon
      <4>2. Cardinality(a + 1 .. b) = b - a
        BY <4>1, PositionsBehind
      <4>3. QED
        BY <4>1, <4>2
    <3>3. QED
      BY <2>1, <2>3, <3>1, <3>2
  <2>8. symbols = DataEnd
    <3>1. \A i \in 0 + 1 .. 0 + source : input[i] \in SymbolBytes
      <4>1. \A i \in 1 .. source : input[i] \in Byte
        BY <2>5, ElementOfSeq
      <4>2. QED
        BY <1>1, <2>4, <2>5, <4>1 DEF SymbolBytes
    <3>2. CountIn(input, SymbolBytes, 0 + source) = CountIn(input, SymbolBytes, 0) + source
      BY <2>5, <3>1, CountRun
    <3>3. CountIn(input, SymbolBytes, 0) = 0
      BY NothingCounted
    <3>4. Count(source) = source
      BY <2>5, <3>2, <3>3 DEF Count
    <3>5. symbols = Count(source)
      BY <1>1 DEF ScanInv
    <3>6. QED
      BY <2>5, <3>4, <3>5
  <2>9. EqualsIsPadding <=> policy.padded /\ ~EqualsIsData
    <3>1. Equals \in Byte
      BY ConfiguredDecodeAssumption
    <3>2. padded = policy.padded
      BY <1>1, <2>4, <3>1 DEF PassInv
    <3>3. Value(Equals) = INVALID <=> ~EqualsIsData
      BY <2>4 DEF EqualsIsData, INVALID
    <3>4. QED
      BY <3>2, <3>3 DEF EqualsIsPadding
  <2>10. padding' \in Nat /\ symbols' + padding' = Len(input)
    BY <1>1, <2>5, <2>7, <2>8
  <2>11. padding' > 0 => policy.padded /\ ~EqualsIsData
    <3>1. ~EqualsIsPadding => DataEnd = Len(input)
      BY DEF DataEnd
    <3>2. QED
      BY <2>5, <2>7, <2>9, <3>1
  <2>12. PadsBehind'
    <3> SUFFICES ASSUME policy.padded, ~EqualsIsData, NEW i \in 1 .. Len(input)
                 PROVE  input[i] = Equals <=> i > Len(input) - padding'
      BY <2>2 DEF PadsBehind
    <3>1. DataEnd = FirstFrom(input, 0, {Equals}) - 1
      BY <2>9 DEF DataEnd
    <3>2. PICK f : f = FirstFrom(input, 0, {Equals})
      OBVIOUS
    <3>8. \A j \in 0 + 1 .. f - 1 : input[j] \notin {Equals}
      BY <2>5, <3>2, FirstFromFinds
    <3>3. \A j \in 1 .. DataEnd : input[j] # Equals
      <4>1. 0 + 1 = 1 /\ DataEnd = f - 1
        BY <3>1, <3>2
      <4>2. \A j \in 0 + 1 .. f - 1 : input[j] # Equals
        BY <3>8
      <4>3. QED
        BY <4>1, <4>2
    <3>4. Len(input) - padding' = DataEnd
      BY <2>5, <2>7
    <3>5. CASE i > DataEnd
      BY <2>5, <2>6, <3>4, <3>5
    <3>6. CASE ~(i > DataEnd)
      BY <2>5, <3>3, <3>4, <3>6
    <3>7. QED
      BY <3>5, <3>6
  <2>13. QED
    BY <2>1, <2>2, <2>10, <2>11, <2>12 DEF StrictIntoInv
<1>4. QED
  BY <1>2, <1>3

LEMMA StrictIntoNext ==
  ASSUME Inv, Scans, StrictIntoInv, Step
  PROVE  StrictIntoInv'
<1>1. /\ Inputs /\ PassInv
      /\ call.mode = "strictInto" => SpecialsRoute
  BY StrictCustomFacts DEF Inv, Scans
<1>2. CASE BeginAllocating \/ BeginCount \/ BeginStrictInto \/ OutputTooSmall
  <2>1. BeginStrictInto \/ OutputTooSmall => ~writes' \/ error'
    <3>1. BeginStrictInto => pc = "begin" /\ writes' = writes
      BY DEF BeginStrictInto, FailScan, sink
    <3>2. OutputTooSmall => pc = "sized" /\ writes' = writes
      BY DEF OutputTooSmall, sink
    <3>3. QED
      BY <1>1, <3>1, <3>2 DEF PassInv
  <2>2. BeginAllocating => call'.mode = "allocating"
    BY DEF BeginAllocating
  <2>3. BeginCount => call'.mode = "counting"
    BY DEF BeginCount
  <2>4. QED
    BY <1>2, <2>1, <2>2, <2>3 DEF StrictIntoInv
<1>3. CASE BeginWrite
  BY <1>3 DEF BeginWrite, Goto, StrictIntoInv
<1>4. CASE RouteIgnoredPadding \/ RouteSpecials \/ RouteGeneric
  <2>1. CASE FailScan
    BY <2>1 DEF FailScan, Fail, StrictIntoInv
  <2>2. CASE ~FailScan
    <3>1. /\ SameArguments /\ padding' = padding /\ pc' \in {"route", "scan"}
          /\ writes' = writes /\ error' = error
      BY <1>4, <2>2 DEF RouteIgnoredPadding, RouteSpecials, RouteGeneric, SameArguments, Goto, scan, sink
    <3>2. QED
      BY <3>1, StrictIntoStays
  <2>3. QED
    BY <2>1, <2>2
<1>5. CASE PushRun
  <2>1. /\ SameArguments /\ padding' = padding /\ pc' = "scan" /\ writes' = writes /\ ~error
    BY <1>5 DEF PushRun, DecodeDirect, Stage, SameArguments, scan
  <2>2. QED
    BY <2>1, StrictIntoStays
<1>6. CASE SpecialsRun
  <2>1. /\ SameArguments /\ padding' = padding /\ pc' = "scan" /\ ~error
    BY <1>6 DEF SpecialsRun, Scanning, SameArguments
  <2>2. writes' = writes
    BY <1>6 DEF SpecialsRun, Push, sink
  <2>3. QED
    BY <2>1, <2>2, StrictIntoStays
<1>7. CASE EndSpecials
  BY <1>7, StrictIntoEnds
<1>8. CASE AlphanumericRun \/ EndScan \/ StrictSymbol \/ StrictOther \/ LenientSymbol
           \/ LenientPadding \/ LenientSkip
  <2>1. ~SpecialsRoute /\ call' = call
    BY <1>8 DEF AlphanumericRun, EndScan, StrictSymbol, StrictOther, LenientSymbol, LenientPadding,
                LenientSkip, ScanByte
  <2>2. QED
    BY <1>1, <2>1 DEF StrictIntoInv
<1>9. CASE Finish
  BY <1>9, StrictIntoFinishes
<1>10. CASE Flush
  <2>1. /\ SameArguments /\ pc = "flush" /\ padding' = padding /\ symbols' = symbols
        /\ FlushRest /\ writes' = writes
    BY <1>10 DEF Flush, FlushRest, SameArguments, scan
  <2>2. ~error
    BY <2>1, InvGives
  <2>3. QED
    BY <2>1, <2>2, StrictIntoStays
<1>11. CASE Abort
  BY <1>11 DEF Abort, sink, StrictIntoInv
<1>12. QED
  BY <1>2, <1>3, <1>4, <1>5, <1>6, <1>7, <1>8, <1>9, <1>10, <1>11 DEF Step

(* The length a layout promises is that of the symbols counted.            *)
LEMMA LayoutOfSymbols ==
  ASSUME Inputs, call.mode = "strictInto", StrictIntoInv, writes, ~error, pc = "done",
         symbols \in Nat, LayoutLen \in Nat
  PROVE  LayoutLen = DecodedSymbolLen(symbols)
<1> DEFINE n == Len(input)
           t == TrailingPadding(input)
<1>1. /\ padding \in Nat /\ symbols + padding = n /\ PadsBehind
      /\ padding > 0 => policy.padded /\ ~EqualsIsData
      /\ policy.padded => padding = ExpectedPadding(symbols)
  BY DEF StrictIntoInv
<1>2. n \in Nat /\ input \in Seq(Byte) /\ (input = <<>> <=> n = 0)
  BY EmptySeq DEF Inputs
<1>3. LayoutLen = LayoutOf(n, t, EqualsIsData)
  BY LayoutIsOf
<1>4. CASE ~policy.padded
  <2>1. padding = 0 /\ n = symbols
    BY <1>1, <1>2, <1>4
  <2>2. LayoutLen = DecodedSymbolLen(n)
    BY <1>3, <1>4 DEF LayoutOf
  <2>3. QED
    BY <2>1, <2>2
<1>5. CASE policy.padded
  <2>1. n % 4 = 0 /\ LayoutLen = IF EqualsIsData THEN (n \div 4) * 3 ELSE (n \div 4) * 3 - t
    BY <1>2, <1>3, <1>5 DEF LayoutOf
  <2>2. padding \in 0 .. 2 /\ padding = ExpectedPadding(symbols)
    <3>1. ExpectedPadding(symbols) \in 0 .. 2
      BY DEF ExpectedPadding
    <3>2. QED
      BY <1>1, <1>5, <3>1
  <2>3. CASE EqualsIsData
    <3>1. padding = 0 /\ n = symbols
      BY <1>1, <1>2, <2>3
    <3>2. DecodedSymbolLen(n) = (n \div 4) * 3
      BY <1>2, <2>1, SMT DEF DecodedSymbolLen
    <3>3. QED
      BY <2>1, <2>3, <3>1, <3>2
  <2>4. CASE ~EqualsIsData
    <3>1. \A i \in 1 .. n : input[i] = Equals <=> i > n - padding
      BY <1>1, <1>5, <2>4 DEF PadsBehind
    <3>2. t = IF n = 0 \/ input[n] # Equals THEN 0
              ELSE IF n >= 2 /\ input[n - 1] = Equals THEN 2 ELSE 1
      BY <1>2, <2>4 DEF TrailingPadding
    <3> HIDE DEF t, n
    <3>3. n = 0 \/ n >= 4
      BY <1>2, <2>1
    <3>4. t = padding
      <4>1. CASE n = 0
        BY <1>1, <2>2, <3>2, <4>1
      <4>2. CASE n >= 4
        <5>1. n \in 1 .. n /\ n - 1 \in 1 .. n
          BY <1>2, <4>2
        <5>2. (input[n] = Equals <=> n > n - padding) /\ (input[n - 1] = Equals <=> n - 1 > n - padding)
          BY <3>1, <5>1
        <5>3. (input[n] = Equals <=> padding >= 1) /\ (input[n - 1] = Equals <=> padding >= 2)
          BY <1>1, <1>2, <5>2
        <5>4. QED
          BY <1>1, <2>2, <3>2, <4>2, <5>3
      <4>3. QED
        BY <3>3, <4>1, <4>2
    <3>5. DecodedSymbolLen(symbols) = (n \div 4) * 3 - padding
      <4>1. symbols = n - padding
        BY <1>1, <1>2
      <4>2. DecodedSymbolLen(n - padding) = (n \div 4) * 3 - padding
        <5>1. n \in Nat /\ n % 4 = 0 /\ padding \in 0 .. 2 /\ (n = 0 => padding = 0)
          BY <1>1, <1>2, <2>1, <2>2
        <5>2. QED
          BY <3>3, <5>1, SMT DEF DecodedSymbolLen
      <4>3. QED
        BY <4>1, <4>2
    <3>6. QED
      BY <2>1, <2>4, <3>4, <3>5
  <2>5. QED
    BY <2>3, <2>4
<1>6. QED
  BY <1>4, <1>5

Agreeing == Bounded /\ StrictIntoInv

LEMMA WrittenLength ==
  ASSUME Agreeing, pc = "done", writes, call.mode # "allocating", ~error
  PROVE  Len(output) = capacity
<1>1. Inv /\ Inputs /\ PassInv /\ ScanInv /\ CapacityInv /\ StrictIntoInv /\ SinkTypes
  BY DEF Agreeing, Bounded, Inv, Scans
<1>2. /\ source \in Nat /\ ScanEnd \in Nat /\ IsEnd(source) /\ Len(pushed) = Count(source)
      /\ checked => symbols = Count(source)
  BY <1>1, ScanEndFacts DEF ScanInv, Inputs
<1>3. Count(source) \in Nat
  BY <1>2, CountType DEF Count
<1>4. Len(output) = DecodedSymbolLen(Count(source))
  <2>1. staging = <<>> /\ pending = <<>> /\ pushed \in Seq(Byte) /\ Accounted
    BY <1>1 DEF Inv, IInv, SinkTypes
  <2>2. Len(staging) = 0 /\ Len(pending) = 0
    BY <2>1, EmptyFacts, Zenon
  <2>3. DecodedCount = Len(pushed)
    BY <1>2, <1>3, <2>2 DEF DecodedCount
  <2>4. Take(pushed, DecodedCount) = pushed
    BY <2>1, <2>3 DEF Take
  <2>5. output = Decoded(Mapped(translation, pushed))
    BY <2>1, <2>4 DEF Accounted, Translate, Mapped
  <2>6. PICK s \in Seq(Images(translation)) : s = Mapped(translation, pushed) /\ Len(s) = Len(pushed)
    BY <2>1, MappedType
  <2>7. Len(Decoded(s)) = DecodedSymbolLen(Len(pushed))
    BY <2>6, DecodedType
  <2>8. QED
    BY <1>2, <2>5, <2>6, <2>7
<1>5. call.mode \in {"counting", "strictInto"}
  BY <1>1 DEF CapacityInv
<1>6. CASE call.mode = "counting"
  <2>1. PICK e \in 0 .. Len(input) : IsEnd(e) /\ capacity = DecodedSymbolLen(Count(e))
    BY <1>1, <1>6 DEF CapacityInv
  <2>2. e = source
    BY <1>2, <2>1, EndIsUnique DEF IsEnd
  <2>3. QED
    BY <1>4, <2>1, <2>2
<1>7. CASE call.mode = "strictInto"
  <2>1. checked /\ capacity = LayoutLen /\ capacity \in Nat
    BY <1>1, <1>7 DEF PassInv, CapacityInv
  <2>2. symbols = Count(source) /\ symbols \in Nat /\ LayoutLen \in Nat
    BY <1>2, <1>3, <2>1
  <2>3. LayoutLen = DecodedSymbolLen(symbols)
    BY <1>1, <1>7, <2>2, LayoutOfSymbols
  <2>4. QED
    BY <1>4, <2>1, <2>2, <2>3
<1>8. QED
  BY <1>5, <1>6, <1>7

(* The two passes of a decode into a bytearray agree: the one that counts  *)
(* and the one that writes scan to the same place and over the same        *)
(* symbols, and so does what a strict attempt computes from the layout     *)
(* alone. A pass without checks never fails, and one that succeeds writes  *)
(* just as much as the destination was measured by.                        *)
THEOREM PassesAgreeAlways == Spec => []PassesAgree
<1>1. Init => Agreeing
  <2> SUFFICES ASSUME Init PROVE Agreeing
    OBVIOUS
  <2>1. Bounded /\ ~writes
    BY BoundedInit DEF Init, SinkInit
  <2>2. QED
    BY <2>1 DEF Agreeing, StrictIntoInv
<1>2. Agreeing /\ [Next]_vars => Agreeing'
  <2> SUFFICES ASSUME Agreeing, [Next]_vars PROVE Agreeing'
    OBVIOUS
  <2>1. Bounded /\ Bounded'
    BY BoundedNext DEF Agreeing
  <2>2. CASE UNCHANGED vars
    <3>1. /\ SameArguments /\ padding' = padding /\ symbols' = symbols /\ pc' = pc
          /\ writes' = writes /\ error' = error
      BY <2>2 DEF vars, SameArguments, scan, sink
    <3>2. QED
      BY <2>1, <3>1, StrictIntoStays DEF Agreeing
  <2>3. CASE Step
    BY <2>1, <2>3, StrictIntoNext DEF Agreeing, Bounded
  <2>4. QED
    BY <2>2, <2>3 DEF Next
<1>3. Agreeing => PassesAgree
  <2> SUFFICES ASSUME Agreeing, pc = "done", writes, call.mode # "allocating"
               PROVE  (error => checked) /\ (~error => Len(output) = capacity)
    BY DEF PassesAgree
  <2>1. error => checked
    BY DEF Agreeing, Bounded, Scans, PassInv
  <2>2. ~error => Len(output) = capacity
    BY WrittenLength
  <2>3. QED
    BY <2>1, <2>2
<1>4. QED
  BY <1>1, <1>2, <1>3, PTL DEF Spec
=============================================================================
