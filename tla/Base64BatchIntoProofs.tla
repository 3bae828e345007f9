------------------------ MODULE Base64BatchIntoProofs ------------------------
(***************************************************************************)
(* The safety of one call that converts into bytearrays, for every list of *)
(* inputs and destinations, every object and any number of foreign events: *)
(* no input that is still read in place shares memory with a destination,  *)
(* and every conversion is of its input as it was.                         *)
(***************************************************************************)
EXTENDS Base64BatchInto, FiniteSetTheorems, SequenceTheorems, WellFoundedInduction,
        NaturalsInduction, TLAPS
----------------------------------------------------------------------------
(* The search among sorted, disjoint ranges finds every overlap.           *)

(* Non-empty ranges in the order of their addresses, none overlapping the  *)
(* next: what the destinations of a batch give once sorted.                *)
Disjoint(ranges) ==
  /\ ranges \in Seq([start : Nat, end : Nat])
  /\ \A k \in DOMAIN ranges : IsRange(ranges[k])
  /\ \A j, k \in DOMAIN ranges : j < k => ranges[j].end <= ranges[k].start

(* The ranges that start before an address are a prefix of the sorted ones.*)
LEMMA PrefixStartsBefore ==
  ASSUME NEW ranges, Disjoint(ranges), NEW end \in Nat
  PROVE  \E n \in 0 .. Len(ranges) :
           \A k \in DOMAIN ranges : ranges[k].start < end <=> k <= n
<1> DEFINE Bounds == {n \in Nat : /\ n <= Len(ranges)
                                  /\ \A k \in DOMAIN ranges : k > n => end <= ranges[k].start}
<1>1. Len(ranges) \in Nat /\ DOMAIN ranges = 1 .. Len(ranges)
  BY DEF Disjoint
<1>2. \A k \in DOMAIN ranges : ranges[k].start \in Nat /\ ranges[k].end \in Nat
                               /\ ranges[k].start < ranges[k].end
  BY DEF Disjoint, IsRange
<1>3. Bounds \subseteq Nat /\ Bounds # {}
  BY <1>1, Len(ranges) \in Bounds
<1>4. PICK n \in Bounds : \A m \in Bounds : ~(<<m, n>> \in OpToRel(<, Nat))
  <2>1. IsWellFoundedOn(OpToRel(<, Nat), Nat)
    BY NatLessThanWellFounded
  <2> HIDE DEF Bounds
  <2>2. QED
    BY <2>1, <1>3, WFMin
<1>5. \A m \in Bounds : ~(m < n)
  BY <1>4, <1>3 DEF OpToRel
<1>6. ASSUME n # 0 PROVE n \in DOMAIN ranges /\ ranges[n].start < end
  <2>1. n - 1 \in Nat /\ n - 1 <= Len(ranges) /\ n - 1 \notin Bounds
    BY <1>1, <1>5, <1>6
  <2>2. PICK k \in DOMAIN ranges : k > n - 1 /\ ~(end <= ranges[k].start)
    BY <2>1
  <2>3. ~(k > n)
    BY <2>2
  <2>4. k = n
    BY <1>1, <2>2, <2>3
  <2>5. QED
    BY <1>2, <2>2, <2>4
<1>7. \A k \in DOMAIN ranges : ranges[k].start < end <=> k <= n
  <2> SUFFICES ASSUME NEW k \in DOMAIN ranges PROVE ranges[k].start < end <=> k <= n
    OBVIOUS
  <2>1. CASE k > n
    BY <2>1, <1>1, <1>2
  <2>2. CASE k = n
    BY <2>2, <1>1, <1>6
  <2>3. CASE k < n
    <3>1. n \in DOMAIN ranges /\ ranges[n].start < end
      BY <2>3, <1>1, <1>6
    <3>2. ranges[k].end <= ranges[n].start
      BY <2>3, <3>1 DEF Disjoint
    <3>3. QED
      BY <1>1, <1>2, <2>3, <3>1, <3>2
  <2>4. QED
    BY <1>1, <2>1, <2>2, <2>3
<1>8. QED
  BY <1>1, <1>7

LEMMA PartitionPointSplits ==
  ASSUME NEW ranges, Disjoint(ranges), NEW end \in Nat
  PROVE  /\ PartitionPoint(ranges, end) \in 0 .. Len(ranges)
         /\ \A k \in DOMAIN ranges : ranges[k].start < end <=> k <= PartitionPoint(ranges, end)
BY PrefixStartsBefore DEF PartitionPoint

(* An input overlaps a destination exactly when it overlaps the last one   *)
(* that starts before the input ends: the one comparison snapshot_alias    *)
(* makes decides for all destinations of a batch of any size.              *)
THEOREM SearchFindsOverlap ==
  ASSUME NEW ranges, Disjoint(ranges), NEW input, IsRange(input)
  PROVE  OverlapsSome(ranges, input) <=> \E k \in DOMAIN ranges : RangesOverlap(ranges[k], input)
<1> DEFINE index == PartitionPoint(ranges, input.end)
<1>1. input.start \in Nat /\ input.end \in Nat /\ input.start < input.end
  BY DEF IsRange
<1>2. Len(ranges) \in Nat /\ DOMAIN ranges = 1 .. Len(ranges)
  BY DEF Disjoint
<1>3. \A k \in DOMAIN ranges : ranges[k].start \in Nat /\ ranges[k].end \in Nat
                               /\ ranges[k].start < ranges[k].end
  BY DEF Disjoint, IsRange
<1>4. index \in 0 .. Len(ranges) /\ \A k \in DOMAIN ranges : ranges[k].start < input.end <=> k <= index
  BY <1>1, PartitionPointSplits
<1> HIDE DEF index
<1>5. OverlapsSome(ranges, input) <=> index # 0 /\ RangesOverlap(ranges[index], input)
  BY DEF OverlapsSome, index
<1>6. ASSUME NEW k \in DOMAIN ranges, RangesOverlap(ranges[k], input)
      PROVE  index # 0 /\ RangesOverlap(ranges[index], input)
  <2>1. k <= index /\ index \in DOMAIN ranges
    BY <1>2, <1>4, <1>6 DEF RangesOverlap
  <2>2. CASE k = index
    BY <1>2, <1>6, <2>1, <2>2
  <2>3. CASE k < index
    <3>1. ranges[k].end <= ranges[index].start
      BY <2>1, <2>3 DEF Disjoint
    <3>2. input.start < ranges[k].end
      BY <1>6 DEF RangesOverlap
    <3>3. input.start < ranges[index].end /\ ranges[index].start < input.end
      BY <1>1, <1>3, <1>4, <2>1, <3>1, <3>2
    <3>4. QED
      BY <1>2, <2>1, <3>3 DEF RangesOverlap
  <2>4. QED
    BY <1>2, <1>4, <2>1, <2>2, <2>3
<1>7. index # 0 => index \in DOMAIN ranges
  BY <1>2, <1>4
<1>8. QED
  BY <1>5, <1>6, <1>7
----------------------------------------------------------------------------
(* The sorted ranges.                                                      *)
Sorts(s, S) ==
  /\ s \in [1 .. Cardinality(S) -> S] /\ Range(s) = S
  /\ \A j, k \in DOMAIN s : j < k => s[j].start < s[k].start

(* A set of numbers that is not empty has a least element.                 *)
LEMMA LeastNumber ==
  ASSUME NEW N \in SUBSET Nat, N # {}
  PROVE  \E n \in N : \A m \in N : n <= m
  <1>1. PICK n \in N : \A m \in N : ~(<<m, n>> \in OpToRel(<, Nat))
    <2>1. IsWellFoundedOn(OpToRel(<, Nat), Nat)
      BY NatLessThanWellFounded
    <2> QED BY <2>1, WFMin
  <1>2. \A m \in N : ~(m < n)
    BY <1>1 DEF OpToRel
  <1> QED BY <1>2

(* The least range comes first, before those of the others.                *)
LEMMA SortsOneMore ==
  ASSUME NEW T, IsFiniteSet(T), T # {}, \A r \in T : r.start \in Nat,
         \A a, b \in T : a.start = b.start => a = b,
         \A r \in T : \E s : Sorts(s, T \ {r})
  PROVE  \E s : Sorts(s, T)
  <1>1. PICK r \in T : \A q \in T : r.start <= q.start
    <2> DEFINE N == {q.start : q \in T}
    <2>1. N \in SUBSET Nat /\ N # {}
      OBVIOUS
    <2>2. PICK n \in N : \A m \in N : n <= m
      BY <2>1, LeastNumber, Zenon
    <2> QED BY <2>2
  <1>2. PICK s : Sorts(s, T \ {r})
    OBVIOUS
  <1>3. PICK n \in Nat : n = Cardinality(T \ {r}) /\ Cardinality(T) = n + 1
    <2>1. IsFiniteSet(T \ {r}) /\ Cardinality(T \ {r}) = Cardinality(T) - 1
      BY FS_RemoveElement
    <2>2. Cardinality(T) \in Nat /\ Cardinality(T \ {r}) \in Nat
      BY <2>1, FS_CardinalityType
    <2> QED BY <2>1, <2>2
  <1>4. /\ s \in [1 .. n -> T \ {r}] /\ Range(s) = T \ {r}
        /\ \A j, k \in 1 .. n : j < k => s[j].start < s[k].start
    BY <1>2, <1>3 DEF Sorts
  <1> DEFINE t == [k \in 1 .. n + 1 |-> IF k = 1 THEN r ELSE s[k - 1]]
  <1>5. \A k \in 1 .. n + 1 : k = 1 \/ k - 1 \in 1 .. n
    BY <1>3
  <1>6. t \in [1 .. Cardinality(T) -> T] /\ DOMAIN t = 1 .. n + 1
    BY <1>3, <1>4, <1>5
  <1>7. Range(t) = T
    <2>1. ASSUME NEW q \in T PROVE \E k \in 1 .. n + 1 : t[k] = q
      <3>1. CASE q = r
        <4>1. 1 \in 1 .. n + 1 /\ t[1] = r
          OBVIOUS
        <4> QED BY <3>1, <4>1
      <3>2. CASE q # r
        <4>1. PICK k \in 1 .. n : s[k] = q
          BY <1>4, <3>2 DEF Range
        <4>2. k + 1 \in 1 .. n + 1 /\ k + 1 # 1 /\ (k + 1) - 1 = k
          OBVIOUS
        <4>3. t[k + 1] = q
          BY <4>1, <4>2
        <4> QED BY <4>2, <4>3
      <3> QED BY <3>1, <3>2
    <2>2. \A k \in 1 .. n + 1 : t[k] \in T
      BY <1>3, <1>6
    <2> HIDE DEF t
    <2> QED BY <1>6, <2>1, <2>2 DEF Range
  <1>8. ASSUME NEW j \in 1 .. n + 1, NEW k \in 1 .. n + 1, j < k
        PROVE  t[j].start < t[k].start
    <2>1. k - 1 \in 1 .. n /\ t[k] = s[k - 1]
      BY <1>5, <1>8
    <2>2. CASE j = 1
      <3>1. s[k - 1] \in T /\ s[k - 1] # r
        BY <1>4, <2>1
      <3>2. r.start <= s[k - 1].start /\ r.start # s[k - 1].start
        BY <1>1, <3>1
      <3>3. r.start \in Nat /\ s[k - 1].start \in Nat
        BY <3>1
      <3>4. r.start < s[k - 1].start
        BY <3>2, <3>3
      <3> QED BY <2>1, <2>2, <3>4
    <2>3. CASE j # 1
      <3>1. j - 1 \in 1 .. n /\ t[j] = s[j - 1] /\ j - 1 < k - 1
        BY <1>5, <1>8, <2>3
      <3> QED BY <1>4, <2>1, <3>1
    <2> QED BY <2>2, <2>3
  <1> HIDE DEF t
  <1> QED BY <1>6, <1>7, <1>8 DEF Sorts

(* Finitely many ranges that start at different addresses can be sorted.   *)
LEMMA RangesCanBeSorted ==
  ASSUME NEW S, IsFiniteSet(S), \A r \in S : r.start \in Nat,
         \A a, b \in S : a.start = b.start => a = b
  PROVE  \E s : Sorts(s, S)
  <1> DEFINE Sortable(T) == \E s : Sorts(s, T)
             Sizes == {n \in Nat : \E T \in SUBSET S : Cardinality(T) = n /\ ~Sortable(T)}
  <1>1. \A T \in SUBSET S : IsFiniteSet(T) /\ Cardinality(T) \in Nat
    BY FS_Subset, FS_CardinalityType
  <1>2. ASSUME Sizes # {} PROVE FALSE
    <2>1. PICK n \in Sizes : \A m \in Sizes : n <= m
      <3> HIDE DEF Sizes
      <3>1. Sizes \in SUBSET Nat
        BY DEF Sizes
      <3> QED BY <1>2, <3>1, LeastNumber, Zenon
    <2>2. PICK T \in SUBSET S : Cardinality(T) = n /\ ~Sortable(T)
      BY <2>1
    <2>3. CASE T = {}
      <3>1. Cardinality({}) = 0
        BY FS_EmptySet
      <3>2. Sorts(<<>>, {})
        BY <3>1 DEF Sorts, Range
      <3> QED BY <2>2, <2>3, <3>2
    <2>4. CASE T # {}
      <3>1. ASSUME NEW r \in T PROVE Sortable(T \ {r})
        <4>1. Cardinality(T \ {r}) = n - 1 /\ T \ {r} \in SUBSET S
          BY <1>1, <2>2, FS_RemoveElement
        <4>2. n - 1 \in Nat /\ ~(n <= n - 1)
          BY <1>1, <2>1, <4>1
        <4>3. n - 1 \notin Sizes
          BY <2>1, <4>2
        <4> QED BY <4>1, <4>2, <4>3
      <3>2. IsFiniteSet(T) /\ (\A r \in T : r.start \in Nat)
            /\ \A a, b \in T : a.start = b.start => a = b
        BY <1>1, <2>2
      <3>3. \E s : Sorts(s, T)
        BY <2>4, <3>1, <3>2, SortsOneMore
      <3> QED BY <2>2, <3>3
    <2> QED BY <2>3, <2>4
  <1>3. S \in SUBSET S /\ Cardinality(S) \in Nat
    BY <1>1
  <1> QED BY <1>2, <1>3

LEMMA FunctionInSeq ==
  ASSUME NEW S, NEW n \in Nat, NEW f \in [1 .. n -> S]
  PROVE  f \in Seq(S)
  BY SeqDef, ZenonT(60)

(* Sorted, ranges that do not overlap are disjoint in their order.         *)
LEMMA SortedAreDisjoint ==
  ASSUME NEW S, IsFiniteSet(S), \A r \in S : IsRange(r),
         \A a, b \in S : a = b \/ a.end <= b.start \/ b.end <= a.start
  PROVE  Disjoint(SortedRanges(S)) /\ Range(SortedRanges(S)) = S
  <1>1. \A r \in S : r \in [start : Nat, end : Nat] /\ r.start \in Nat /\ r.end \in Nat /\ r.start < r.end
    BY DEF IsRange
  <1>2. \A a, b \in S : a.start = b.start => a = b
    BY <1>1
  <1>3. \E s : Sorts(s, S)
    BY <1>1, <1>2, RangesCanBeSorted
  <1> DEFINE n == Cardinality(S)
             s == SortedRanges(S)
  <1>4. n \in Nat
    BY FS_CardinalityType
  <1>5. Sorts(s, S)
    BY <1>3 DEF Sorts, SortedRanges
  <1> HIDE DEF n, s
  <1>6. /\ s \in [1 .. n -> S] /\ Range(s) = S /\ DOMAIN s = 1 .. n
        /\ \A j, k \in 1 .. n : j < k => s[j].start < s[k].start
    BY <1>5 DEF Sorts, n
  <1>7. s \in Seq([start : Nat, end : Nat])
    <2>1. s \in [1 .. n -> [start : Nat, end : Nat]]
      BY <1>1, <1>6
    <2> QED BY <1>4, <2>1, FunctionInSeq
  <1>8. ASSUME NEW j \in 1 .. n, NEW k \in 1 .. n, j < k
        PROVE  s[j].end <= s[k].start
    <2>1. s[j] \in S /\ s[k] \in S /\ s[j].start < s[k].start
      BY <1>6, <1>8
    <2>2. s[j] # s[k] /\ ~(s[k].end <= s[j].start)
      BY <1>1, <2>1
    <2> QED BY <2>1, <2>2
  <1>9. \A k \in 1 .. n : IsRange(s[k])
    BY <1>6
  <1> QED BY <1>6, <1>7, <1>8, <1>9 DEF Disjoint, s

(* The search finds an input that overlaps one of the ranges.              *)
LEMMA SortedFindOverlap ==
  ASSUME NEW S, IsFiniteSet(S), \A r \in S : IsRange(r),
         \A a, b \in S : a = b \/ a.end <= b.start \/ b.end <= a.start,
         NEW input, IsRange(input), NEW r \in S, RangesOverlap(r, input)
  PROVE  OverlapsSome(SortedRanges(S), input)
  <1>1. Disjoint(SortedRanges(S)) /\ Range(SortedRanges(S)) = S
    BY SortedAreDisjoint
  <1>2. PICK k \in DOMAIN SortedRanges(S) : SortedRanges(S)[k] = r
    BY <1>1 DEF Range
  <1> QED BY <1>1, <1>2, SearchFindsOverlap
----------------------------------------------------------------------------
(* A sequence, whatever its elements: a cell that was converted holds all  *)
(* of its input.                                                           *)
IsSeq(s) == s \in Seq(Range(s))

Labels == {"start", "preparing", "arguments", "exported", "releasing", "dropped", "allocating",
           "writing", "warning", "leaving", "failing", "returned", "raised"}
Ended == {"leaving", "failing", "returned", "raised"}
Writing == {"writing", "warning"}
Before == Labels \ (Writing \union Ended)

MemoryInv ==
  /\ content = [b \in ByteArrays |-> content[b]] /\ shadow = [b \in ByteArrays |-> shadow[b]]
  /\ \A b \in ByteArrays :
       /\ IsSeq(content[b]) /\ IsSeq(shadow[b])
       /\ Len(shadow[b]) = Len(content[b]) /\ Len(content[b]) <= BlockSize
  /\ block \in [ByteArrays -> Blocks] /\ IsInjective(block)
  /\ released \subseteq Views
  /\ \A v \in Views \ released : Offset[v] + Size[v] <= Len(content[Base[v]])
  /\ call \in Calls

ControlInv ==
  /\ pc \in Labels /\ at \in Nat \ {0} /\ callback \in BOOLEAN /\ events \in Nat
  /\ IsSeq(prepared) /\ IsSeq(done)

(* Until it is converted, the history of an item is up to date.            *)
SeenInv ==
  /\ seen = [k \in DOMAIN items |-> seen[k]]
  /\ \A k \in DOMAIN items :
       k > Len(done) /\ items[k] \notin released => Value(items[k], shadow) \in seen[k]

(* What an input reads: data that the item has contained, a bytearray that *)
(* the history follows, or an export of the item that pins its memory.     *)
Holds(i, data) == IsSeq(data) /\ data \in seen[i]
Owner(o) == IF o \in ByteArrays THEN o ELSE Base[o]

OwnedOf(i, q) ==
  /\ q.kind = "owned" \/ (q.kind = "copy" /\ Single /\ items[i] \notin Exporters)
  /\ Holds(i, q.data)
InPlaceOf(i, q) == q.kind = "array" /\ q.base \in ByteArrays /\ Holds(i, shadow[q.base])
PinnedOf(i, q) ==
  /\ q.kind = "buffer" /\ q.base \in ByteArrays /\ q.offset \in Nat /\ q.size \in Nat
  /\ q.offset + q.size <= Len(content[q.base])
  /\ items[i] \notin released
  /\ \/ items[i] \in Views /\ q.base = Base[items[i]] /\ q.offset = Offset[items[i]] /\ q.size = Size[items[i]]
     \/ /\ items[i] \in ByteArrays \union Exporters \union Texts
        /\ q.base = Owner(items[i]) /\ q.offset = 0 /\ q.size = Len(content[q.base])
        /\ items[i] \in Exporters => q.mayReenter
InputOf(i, q) == OwnedOf(i, q) \/ InPlaceOf(i, q) \/ PinnedOf(i, q) \/ q.kind = "error"

Entry(i, q) == [item |-> i, input |-> q, policy |-> SnapshotPolicy(items[i])]
PreparedInv ==
  \A k \in DOMAIN prepared :
    LET p == prepared[k]
    IN  p.item \in DOMAIN items /\ p = Entry(p.item, p.input) /\ InputOf(p.item, p.input)

(* Items are prepared in order, and none that needs it is left out, unless *)
(* an earlier one could not be acquired.                                   *)
Covers(n) ==
  \A i \in 1 .. n : i > Len(done) /\ SnapshotPolicy(items[i]) # NoPolicy =>
    \E k \in DOMAIN prepared :
      prepared[k].item = i \/ (prepared[k].item < i /\ prepared[k].input.kind = "error")
OrderInv ==
  /\ \A k \in DOMAIN prepared : prepared[k].item > Len(done)
  /\ \A j, k \in DOMAIN prepared : j < k => prepared[j].item < prepared[k].item
  /\ pc \in {"start", "preparing"} => \A k \in DOMAIN prepared : prepared[k].item < at
  /\ pc = "preparing" => Covers(at - 1)
  /\ pc \notin {"start", "preparing"} \union Ended => Covers(Len(items))

ProgressInv ==
  /\ pc \notin {"start", "failing", "raised"} => OutputsValid
  /\ pc = "start" => prepared = <<>> /\ at = 1 /\ ~callback
  /\ pc = "preparing" => at <= Len(items) + 1
  /\ pc = "preparing" /\ callback => at <= Len(items) /\ CallsBack(items[at])
  /\ pc \in Before => done = <<>>
  /\ Len(done) <= Len(items)
  /\ pc = "warning" => next <= Len(items) /\ call.decoding /\ NextInput.kind # "error"
  /\ pc \in {"leaving", "returned"} => Len(done) = Len(items)

(* The copies made for the inputs whose turn to be released is still to    *)
(* come; when all have been, no release runs Python code any more.         *)
ReleasedInv ==
  /\ pc = "releasing" =>
       \A k \in DOMAIN prepared :
         ReleasedBeforeWrite(prepared[k]) => k >= at /\ Holds(prepared[k].item, copies[k])
  /\ pc \in {"dropped", "allocating"} \union Writing =>
       \A k \in DOMAIN prepared : ~ReleasedBeforeWrite(prepared[k])

(* After the second stage no input that is read in place is of a           *)
(* destination, unless it is empty.                                        *)
Apart(q) ==
  q.kind = "array" \/ (q.kind = "buffer" /\ q.size > 0) => q.base \notin Destinations
AliasInv ==
  pc \in {"allocating"} \union Writing => \A k \in DOMAIN prepared : Apart(prepared[k].input)

ConversionOf(k, cells) == \E bytes \in seen[k] : IsSeq(bytes) /\ cells = Encoded(bytes)
Overlaid(k) ==
  LET was == shadow[outputs[k]]
  IN  content[outputs[k]] = done[k] \o SubSeq(was, Len(done[k]) + 1, Len(was))
(* Other code has not run since the last write of an encode.               *)
Settled ==
  \/ pc \notin Ended
  \/ pc = "leaving" /\ ~callback
  \/ pc = "returned" /\ kept
WrittenInv ==
  /\ UnreachedUntouched
  /\ \A k \in DOMAIN done : ConversionOf(k, done[k])
  /\ pc = "warning" => ConversionOf(next, decoded)
  /\ ~call.decoding =>
       /\ done # <<>> /\ pc \notin {"leaving", "failing"} => ~callback
       /\ pc = "leaving" /\ callback => ~kept
       /\ Settled => \A k \in DOMAIN done : Overlaid(k)

IInv ==
  /\ MemoryInv /\ ControlInv /\ SeenInv /\ PreparedInv /\ OrderInv /\ ProgressInv
  /\ ReleasedInv /\ AliasInv /\ WrittenInv
(* Facts about sequences.                                                  *)
LEMMA SeqIsSeq ==
  ASSUME NEW S, NEW s \in Seq(S)
  PROVE  IsSeq(s)
<1>1. s \in [1 .. Len(s) -> S] /\ Len(s) \in Nat
  BY LenProperties
<1>2. s = [i \in 1 .. Len(s) |-> s[i]] /\ \A i \in 1 .. Len(s) : s[i] \in Range(s)
  BY <1>1 DEF Range
<1>3. [i \in 1 .. Len(s) |-> s[i]] \in Seq(Range(s))
  BY <1>1, <1>2
<1>. QED BY <1>2, <1>3 DEF IsSeq

LEMMA IsSeqFacts ==
  ASSUME NEW s, IsSeq(s)
  PROVE  Len(s) \in Nat /\ DOMAIN s = 1 .. Len(s) /\ (s = <<>> <=> Len(s) = 0)
  BY DEF IsSeq

LEMMA EmptyIsSeq == IsSeq(<<>>)
<1>1. <<>> \in Seq({})
  OBVIOUS
<1>. QED BY <1>1, SeqIsSeq, Zenon

LEMMA AppendIsSeq ==
  ASSUME NEW s, IsSeq(s), NEW e
  PROVE  /\ IsSeq(Append(s, e)) /\ Len(Append(s, e)) = Len(s) + 1
         /\ Append(s, e) # <<>>
         /\ \A i \in 1 .. Len(s) : Append(s, e)[i] = s[i]
         /\ Append(s, e)[Len(s) + 1] = e
<1>1. s \in Seq(Range(s) \union {e})
  BY DEF IsSeq
<1>2. Append(s, e) \in Seq(Range(s) \union {e})
  BY <1>1
<1>3. IsSeq(Append(s, e))
  BY <1>2, SeqIsSeq, Zenon
<1>. QED BY <1>1, <1>3

LEMMA TailIsSeq ==
  ASSUME NEW s, IsSeq(s), s # <<>>
  PROVE  IsSeq(Tail(s)) /\ Len(Tail(s)) = Len(s) - 1 /\ \A i \in 1 .. Len(s) - 1 : Tail(s)[i] = s[i + 1]
<1>1. s \in Seq(Range(s))
  BY DEF IsSeq
<1>2. Tail(s) \in Seq(Range(s))
  BY <1>1
<1>3. IsSeq(Tail(s))
  BY <1>2, SeqIsSeq, Zenon
<1>. QED BY <1>1, <1>3

LEMMA ReplaceIsSeq ==
  ASSUME NEW s, IsSeq(s), NEW k \in 1 .. Len(s), NEW e
  PROVE  IsSeq([s EXCEPT ![k] = e]) /\ Len([s EXCEPT ![k] = e]) = Len(s)
<1>1. s \in Seq(Range(s) \union {e})
  BY DEF IsSeq
<1>2. [s EXCEPT ![k] = e] \in Seq(Range(s) \union {e})
  BY <1>1
<1>3. IsSeq([s EXCEPT ![k] = e])
  BY <1>2, SeqIsSeq, Zenon
<1>. QED BY <1>1, <1>3

LEMMA FunctionIsSeq ==
  ASSUME NEW n \in Nat, NEW f, f = [k \in 1 .. n |-> f[k]]
  PROVE  IsSeq(f) /\ Len(f) = n
<1>1. f \in Seq({f[k] : k \in 1 .. n})
  OBVIOUS
<1>2. IsSeq(f)
  BY <1>1, SeqIsSeq, Zenon
<1>. QED BY <1>2

LEMMA OverlayIsSeq ==
  ASSUME NEW s, IsSeq(s), NEW t, IsSeq(t), Len(s) <= Len(t)
  PROVE  LET u == s \o SubSeq(t, Len(s) + 1, Len(t))
         IN  IsSeq(u) /\ Len(u) = Len(t) /\ \A i \in 1 .. Len(s) : u[i] = s[i]
<1>. DEFINE S == Range(s) \union Range(t)
            r == SubSeq(t, Len(s) + 1, Len(t))
<1>1. s \in Seq(S) /\ t \in Seq(S)
  BY DEF IsSeq
<1>2. r \in Seq(S) /\ Len(r) = Len(t) - Len(s)
  BY <1>1
<1>. HIDE DEF r
<1>3. s \o r \in Seq(S) /\ Len(s \o r) = Len(t) /\ \A i \in 1 .. Len(s) : (s \o r)[i] = s[i]
  BY <1>1, <1>2
<1>. QED BY <1>3, SeqIsSeq DEF r
LEMMA SubSeqIsSeq ==
  ASSUME NEW s, IsSeq(s), NEW m \in Nat, NEW n \in Nat, m + n <= Len(s)
  PROVE  IsSeq(Slice(s, m, n)) /\ Len(Slice(s, m, n)) = n
  <1>1. s \in Seq(Range(s)) /\ Len(s) \in Nat
    BY DEF IsSeq
  <1>2. SubSeq(s, m + 1, m + n) \in Seq(Range(s)) /\ Len(SubSeq(s, m + 1, m + n)) = n
    BY <1>1
  <1> QED BY <1>2, SeqIsSeq DEF Slice

(* All of a sequence is itself, nothing of it is the empty sequence.       *)
LEMMA WholeSlice ==
  ASSUME NEW s, IsSeq(s)
  PROVE  Slice(s, 0, Len(s)) = s
  <1>1. s \in Seq(Range(s)) /\ Len(s) \in Nat
    BY DEF IsSeq
  <1>2. SubSeq(s, 1, Len(s)) = s
    BY <1>1
  <1> QED BY <1>1, <1>2 DEF Slice

LEMMA EmptySlice ==
  ASSUME NEW s, NEW t, NEW m \in Nat
  PROVE  Slice(s, m, 0) = Slice(t, m, 0)
  <1>1. \A i \in m + 1 .. m : FALSE
    OBVIOUS
  <1>2. SubSeq(s, m + 1, m) = <<>> /\ SubSeq(t, m + 1, m) = <<>>
    BY <1>1
  <1> QED BY <1>2 DEF Slice

(* The conversion of an input has one cell per cell.                       *)
LEMMA EncodedIsSeq ==
  ASSUME NEW bytes, IsSeq(bytes)
  PROVE  IsSeq(Encoded(bytes)) /\ Len(Encoded(bytes)) = Len(bytes)
  <1>1. Len(bytes) \in Nat /\ DOMAIN bytes = 1 .. Len(bytes)
    BY IsSeqFacts
  <1>2. PICK n \in Nat : n = Len(bytes)
    BY <1>1
  <1>3. Encoded(bytes) = [k \in 1 .. n |-> Encoded(bytes)[k]]
    BY <1>1, <1>2 DEF Encoded
  <1> QED BY <1>2, <1>3, FunctionIsSeq

(* A prefix of a conversion that is no longer than the destination.        *)
LEMMA PrefixIsSeq ==
  ASSUME NEW s, IsSeq(s), NEW n \in Nat, n <= Len(s)
  PROVE  IsSeq(SubSeq(s, 1, n)) /\ Len(SubSeq(s, 1, n)) = n
  <1>1. s \in Seq(Range(s)) /\ Len(s) \in Nat
    BY DEF IsSeq
  <1>2. SubSeq(s, 1, n) \in Seq(Range(s)) /\ Len(SubSeq(s, 1, n)) = n
    BY <1>1
  <1> QED BY <1>2, SeqIsSeq, Zenon

(* A sequence laid over a sequence keeps its length.                       *)
LEMMA NothingOverlaid ==
  ASSUME NEW t, IsSeq(t)
  PROVE  SubSeq(t, 1, 0) \o SubSeq(t, Len(SubSeq(t, 1, 0)) + 1, Len(t)) = t
  <1>1. t \in Seq(Range(t)) /\ Len(t) \in Nat
    BY DEF IsSeq
  <1>2. SubSeq(t, 1, 0) = <<>>
    BY <1>1
  <1>3. SubSeq(t, 0 + 1, Len(t)) = t
    BY <1>1
  <1> QED BY <1>1, <1>2, <1>3
----------------------------------------------------------------------------
(* Types of the call.                                                      *)
LEMMA CallType ==
  ASSUME call \in Calls
  PROVE  /\ items \in Seq(Objects) /\ Len(items) \in Nat /\ DOMAIN items = 1 .. Len(items)
         /\ outputs \in Seq(Destinations) /\ Len(outputs) \in Nat /\ DOMAIN outputs = 1 .. Len(outputs)
         /\ IsFiniteSet(Destinations)
         /\ Single => Len(items) = 1
  <1>1. IsCall(call)
    BY Base64BatchAssumption
  <1>2. /\ items \in Seq(Objects) /\ outputs \in Seq(Destinations)
        /\ Single => Len(items) = 1
    BY <1>1 DEF IsCall, items, outputs, Single, Destinations
  <1>3. Len(outputs) \in Nat /\ DOMAIN outputs = 1 .. Len(outputs)
    BY <1>2
  <1>4. IsFiniteSet(Destinations)
    <2>1. IsFiniteSet(DOMAIN outputs)
      BY <1>3, FS_Interval
    <2>2. outputs \in Surjection(DOMAIN outputs, Destinations)
      BY <1>2 DEF Surjection, Destinations, Range
    <2> QED BY <2>1, <2>2, FS_Surjection
  <1> QED BY <1>2, <1>3, <1>4

LEMMA ObjectKinds ==
  ASSUME NEW o
  PROVE  /\ o \in ByteArrays => o \notin Bytes \union Strings \union Views \union Exporters \union Texts
         /\ o \in Views => o \notin Bytes \union Strings \union ByteArrays \union Exporters \union Texts
         /\ o \in Exporters \union Texts => o \notin Bytes \union Strings \union ByteArrays \union Views
         /\ o \in Views \union Exporters \union Texts => Base[o] \in ByteArrays
         /\ o \in Views => Offset[o] \in Nat /\ Size[o] \in Nat
         /\ o \in Bytes \union Strings => IsSeq(Data[o])
  BY Base64BatchAssumption DEF IsSeq

(* What the kinds of objects contain.                                      *)
LEMMA ValueOf ==
  ASSUME NEW o, NEW m
  PROVE  /\ o \in Bytes \union Strings => Value(o, m) = Data[o]
         /\ o \in ByteArrays => Value(o, m) = m[o]
         /\ o \in Views => Value(o, m) = Slice(m[Base[o]], Offset[o], Size[o])
         /\ o \in Exporters \union Texts => Value(o, m) = m[Base[o]]
  BY ObjectKinds DEF Value
----------------------------------------------------------------------------
(* Where the destinations are, and which inputs the search finds there.    *)

(* Blocks of memory do not overlap.                                        *)
LEMMA BlocksApart ==
  ASSUME NEW m \in Nat, NEW n \in Nat, m # n, NEW size \in Nat, NEW j \in Nat, NEW k \in Nat,
         j <= size, k <= size
  PROVE  m * size + j <= n * size \/ n * size + k <= m * size
  <1>1. CASE m < n
    <2>1. PICK e \in Nat : n = m + 1 + e
      <3>1. n - m - 1 \in Nat /\ n = m + 1 + (n - m - 1)
        BY <1>1
      <3> QED BY <3>1
    <2>2. n * size = m * size + size + e * size /\ m * size \in Nat /\ e * size \in Nat
      BY <2>1
    <2> QED BY <2>2
  <1>2. CASE n < m
    <2>1. PICK e \in Nat : m = n + 1 + e
      <3>1. m - n - 1 \in Nat /\ m = n + 1 + (m - n - 1)
        BY <1>2
      <3> QED BY <3>1
    <2>2. m * size = n * size + size + e * size /\ n * size \in Nat /\ e * size \in Nat
      BY <2>1
    <2> QED BY <2>2
  <1> QED BY <1>1, <1>2

LEMMA StartIsNatural ==
  ASSUME MemoryInv, NEW b \in ByteArrays
  PROVE  /\ Start(b) \in Nat /\ Len(content[b]) \in Nat /\ Len(content[b]) <= BlockSize
         /\ block[b] \in Nat /\ Start(b) = block[b] * BlockSize
         /\ DOMAIN content[b] = 1 .. Len(content[b]) /\ (content[b] = <<>> <=> Len(content[b]) = 0)
  <1>1. block[b] \in Nat /\ BlockSize \in Nat
    BY Base64BatchAssumption DEF MemoryInv
  <1>2. PICK m \in Nat : m = block[b]
    BY <1>1
  <1>3. m * BlockSize \in Nat
    BY <1>1
  <1>4. Start(b) \in Nat
    BY <1>2, <1>3 DEF Start
  <1>5. IsSeq(content[b]) /\ Len(content[b]) <= BlockSize
    BY DEF MemoryInv
  <1> QED BY <1>1, <1>4, <1>5, IsSeqFacts DEF Start

(* A bytearray that is not empty has a range, apart from those of others.  *)
LEMMA ArrayRangeIsRange ==
  ASSUME MemoryInv, NEW b \in ByteArrays, content[b] # <<>>
  PROVE  IsRange(ArrayRange(b)) /\ ArrayRange(b).start = Start(b)
         /\ ArrayRange(b).end = Start(b) + Len(content[b])
  <1>1. PICK m \in Nat : m = Start(b)
    BY StartIsNatural
  <1>2. PICK n \in Nat : n = Len(content[b]) /\ n # 0
    BY StartIsNatural
  <1>3. ArrayRange(b) = [start |-> m, end |-> m + n]
    BY <1>1, <1>2 DEF ArrayRange, BufferRange
  <1> QED BY <1>1, <1>2, <1>3 DEF IsRange

LEMMA ArrayRangesApart ==
  ASSUME MemoryInv, NEW b \in ByteArrays, NEW c \in ByteArrays, b # c
  PROVE  Start(b) + Len(content[b]) <= Start(c) \/ Start(c) + Len(content[c]) <= Start(b)
  <1>1. PICK m \in Nat : m = block[b]
    BY StartIsNatural
  <1>2. PICK n \in Nat : n = block[c]
    BY StartIsNatural
  <1>3. m # n
    BY <1>1, <1>2 DEF MemoryInv, IsInjective
  <1>4. PICK j \in Nat : j = Len(content[b])
    BY StartIsNatural
  <1>5. PICK k \in Nat : k = Len(content[c])
    BY StartIsNatural
  <1>6. j <= BlockSize /\ k <= BlockSize /\ BlockSize \in Nat
    BY <1>4, <1>5, StartIsNatural, Base64BatchAssumption
  <1>7. Start(b) = m * BlockSize /\ Start(c) = n * BlockSize
    BY <1>1, <1>2, StartIsNatural
  <1>8. m * BlockSize + j <= n * BlockSize \/ n * BlockSize + k <= m * BlockSize
    BY <1>3, <1>6, BlocksApart
  <1> QED BY <1>4, <1>5, <1>7, <1>8

NonEmpty == {d \in Destinations : content[d] # <<>>}

LEMMA DestinationRanges ==
  ASSUME MemoryInv, Destinations \subseteq ByteArrays
  PROVE  LET S == {ArrayRange(b) : b \in NonEmpty}
         IN  /\ IsFiniteSet(S) /\ \A r \in S : IsRange(r)
             /\ \A r, s \in S : r = s \/ r.end <= s.start \/ s.end <= r.start
  <1> DEFINE S == {ArrayRange(b) : b \in NonEmpty}
             f == [b \in NonEmpty |-> ArrayRange(b)]
  <1>1. IsFiniteSet(NonEmpty)
    <2>1. IsFiniteSet(Destinations)
      BY CallType DEF MemoryInv
    <2>2. NonEmpty \subseteq Destinations
      BY DEF NonEmpty
    <2> QED BY <2>1, <2>2, FS_Subset
  <1>2. f \in Surjection(NonEmpty, S)
    BY DEF Surjection
  <1>3. IsFiniteSet(S)
    <2> HIDE DEF f, S
    <2> QED BY <1>1, <1>2, FS_Surjection
  <1>4. \A b \in NonEmpty : b \in ByteArrays /\ content[b] # <<>>
    BY DEF NonEmpty
  <1>5. \A r \in S : IsRange(r)
    BY <1>4, ArrayRangeIsRange
  <1>6. ASSUME NEW b \in NonEmpty, NEW c \in NonEmpty
        PROVE  LET r == ArrayRange(b)
                   s == ArrayRange(c)
               IN  r = s \/ r.end <= s.start \/ s.end <= r.start
    BY <1>4, ArrayRangeIsRange, ArrayRangesApart
  <1> QED BY <1>3, <1>5, <1>6

(* The search finds every input that reads memory of a destination.        *)
LEMMA AliasFound ==
  ASSUME MemoryInv, Destinations \subseteq ByteArrays, NEW q, q.kind = "buffer",
         q.base \in Destinations, q.offset \in Nat, q.size \in Nat, q.size > 0,
         q.offset + q.size <= Len(content[q.base])
  PROVE  AliasesOutput(q)
  <1>1. PICK b \in ByteArrays : b = q.base
    OBVIOUS
  <1>2. PICK m \in Nat : m = Start(b)
    BY StartIsNatural
  <1>3. PICK n \in Nat : n = Len(content[b])
    BY StartIsNatural
  <1>4. content[b] # <<>>
    BY <1>1, <1>3, StartIsNatural
  <1>5. IsRange(ArrayRange(b)) /\ ArrayRange(b).start = m /\ ArrayRange(b).end = m + n
    BY <1>2, <1>3, <1>4, ArrayRangeIsRange
  <1>6. InputRange(q) = [start |-> m + q.offset, end |-> m + q.offset + q.size]
    BY <1>1, <1>2 DEF InputRange, BufferRange
  <1>7. IsRange(InputRange(q)) /\ RangesOverlap(ArrayRange(b), InputRange(q))
    <2>1. PICK o \in Nat, l \in Nat : o = q.offset /\ l = q.size /\ l > 0 /\ o + l <= n
      BY <1>1, <1>3
    <2>2. PICK r : r = InputRange(q) /\ r = [start |-> m + o, end |-> m + o + l]
      BY <1>6, <2>1
    <2>3. r.start = m + o /\ r.end = m + o + l /\ r \in [start : Nat, end : Nat]
      BY <2>2
    <2>4. IsRange(r)
      <3>1. m + o < m + o + l
        BY <2>1
      <3> QED BY <2>3, <3>1 DEF IsRange
    <2>5. RangesOverlap(ArrayRange(b), r)
      <3>1. m < m + o + l /\ m + o < m + n
        BY <2>1
      <3>2. ArrayRange(b).start = m /\ ArrayRange(b).end = m + n
        BY <1>5
      <3> QED BY <2>3, <3>1, <3>2 DEF RangesOverlap
    <2> QED BY <2>2, <2>4, <2>5
  <1>8. b \in NonEmpty
    BY <1>1, <1>4 DEF NonEmpty
  <1>9. OverlapsSome(SortedRanges({ArrayRange(c) : c \in NonEmpty}), InputRange(q))
    <2> DEFINE S == {ArrayRange(c) : c \in NonEmpty}
    <2>1. ArrayRange(b) \in S
      BY <1>8
    <2>2. /\ IsFiniteSet(S) /\ \A r \in S : IsRange(r)
          /\ \A r, s \in S : r = s \/ r.end <= s.start \/ s.end <= r.start
      BY DestinationRanges
    <2> HIDE DEF S
    <2>3. OverlapsSome(SortedRanges(S), InputRange(q))
      BY <1>7, <2>1, <2>2, SortedFindOverlap
    <2> QED BY <2>3 DEF S
  <1> QED BY <1>9 DEF AliasesOutput, IsBuffer, OutputRanges, NonEmpty
----------------------------------------------------------------------------
(* What the call reads.                                                    *)

LEMMA ContentTypes ==
  ASSUME MemoryInv, NEW b \in ByteArrays
  PROVE  /\ IsSeq(content[b]) /\ IsSeq(shadow[b])
         /\ Len(content[b]) \in Nat /\ Len(shadow[b]) = Len(content[b])
  <1>1. IsSeq(content[b]) /\ IsSeq(shadow[b]) /\ Len(shadow[b]) = Len(content[b])
    BY DEF MemoryInv
  <1> QED BY <1>1, IsSeqFacts

LEMMA DoneType ==
  ASSUME ControlInv
  PROVE  /\ Len(done) \in Nat /\ DOMAIN done = 1 .. Len(done) /\ (done = <<>> <=> Len(done) = 0)
         /\ Len(prepared) \in Nat /\ DOMAIN prepared = 1 .. Len(prepared)
         /\ (prepared = <<>> <=> Len(prepared) = 0)
         /\ next \in Nat /\ next = Len(done) + 1
  <1>1. IsSeq(done) /\ IsSeq(prepared)
    BY DEF ControlInv
  <1> QED BY <1>1, IsSeqFacts DEF next

(* Before the first write nothing has been written.                        *)
LEMMA NothingWritten ==
  ASSUME MemoryInv, ControlInv, UnreachedUntouched, done = <<>>, pc \notin {"failing", "raised"},
         NEW b \in ByteArrays
  PROVE  content[b] = shadow[b]
  <1>1. DOMAIN outputs = 1 .. Len(outputs) /\ Len(outputs) \in Nat
    BY CallType DEF MemoryInv
  <1>2. Len(done) = 0
    BY DoneType
  <1> QED BY <1>1, <1>2 DEF UnreachedUntouched

LEMMA ElsewhereUntouched ==
  ASSUME UnreachedUntouched, NEW b \in ByteArrays, b \notin Destinations
  PROVE  content[b] = shadow[b]
  BY DEF UnreachedUntouched, Destinations, Range

(* A destination whose turn has not come is as it was.                     *)
LEMMA DestinationUntouched ==
  ASSUME MemoryInv, ControlInv, UnreachedUntouched, OutputsValid, pc \notin {"failing", "raised"},
         NEW k \in DOMAIN outputs, k > Len(done)
  PROVE  outputs[k] \in ByteArrays /\ content[outputs[k]] = shadow[outputs[k]]
  <1>1. outputs[k] \in ByteArrays
    BY DEF OutputsValid, Destinations, Range
  <1>2. DOMAIN outputs = 1 .. Len(outputs) /\ Len(outputs) \in Nat /\ Len(done) \in Nat
    BY CallType, DoneType DEF MemoryInv
  <1>3. \A j \in DOMAIN outputs : outputs[j] = outputs[k] => j = k
    BY DEF OutputsValid, IsInjective
  <1> QED BY <1>1, <1>2, <1>3 DEF UnreachedUntouched

(* The history of an item has what it contains now.                        *)
LEMMA ItemSeen ==
  ASSUME MemoryInv, SeenInv, NEW i \in DOMAIN items, i > Len(done), items[i] \notin released
  PROVE  Value(items[i], shadow) \in seen[i]
  BY DEF SeenInv

LEMMA NotReleased ==
  ASSUME MemoryInv, NEW o, o \notin Views
  PROVE  o \notin released
  BY DEF MemoryInv

(* A slice that an export pins is a value that its item has had.           *)
LEMMA PinnedSeen ==
  ASSUME MemoryInv, SeenInv, NEW i \in DOMAIN items, i > Len(done), NEW q, PinnedOf(i, q)
  PROVE  Holds(i, Slice(shadow[q.base], q.offset, q.size))
  <1>1. PICK b \in ByteArrays : b = q.base
    BY DEF PinnedOf
  <1>2. /\ IsSeq(shadow[b]) /\ Len(shadow[b]) = Len(content[b]) /\ Len(content[b]) \in Nat
    BY ContentTypes
  <1>3. /\ q.offset \in Nat /\ q.size \in Nat /\ q.offset + q.size <= Len(shadow[b])
        /\ items[i] \notin released
    BY <1>1, <1>2 DEF PinnedOf
  <1>4. IsSeq(Slice(shadow[b], q.offset, q.size))
    BY <1>2, <1>3, SubSeqIsSeq
  <1>5. Value(items[i], shadow) \in seen[i]
    BY <1>3, ItemSeen
  <1>6. CASE items[i] \in Views /\ b = Base[items[i]] /\ q.offset = Offset[items[i]] /\ q.size = Size[items[i]]
    <2>1. Value(items[i], shadow) = Slice(shadow[b], q.offset, q.size)
      BY <1>6, ValueOf
    <2> QED BY <1>1, <1>4, <1>5, <2>1 DEF Holds
  <1>7. CASE /\ items[i] \in ByteArrays \union Exporters \union Texts
             /\ b = Owner(items[i]) /\ q.offset = 0 /\ q.size = Len(content[b])
    <2>1. Slice(shadow[b], q.offset, q.size) = shadow[b]
      BY <1>2, <1>7, WholeSlice
    <2>2. Value(items[i], shadow) = shadow[b]
      BY <1>7, ValueOf, ObjectKinds DEF Owner
    <2> QED BY <1>1, <1>4, <1>5, <2>1, <2>2 DEF Holds
  <1> QED BY <1>1, <1>6, <1>7 DEF PinnedOf

(* Reading an input gives a value that its item has had, as long as the    *)
(* call has written nothing that the input reads.                          *)
LEMMA ReadSeen ==
  ASSUME MemoryInv, SeenInv, NEW i \in DOMAIN items, i > Len(done),
         NEW q, InputOf(i, q), q.kind # "error",
         q.kind = "array" => content[q.base] = shadow[q.base],
         q.kind = "buffer" /\ q.size > 0 => content[q.base] = shadow[q.base]
  PROVE  Holds(i, Read(q))
  <1>1. CASE OwnedOf(i, q)
    BY <1>1 DEF OwnedOf, Read
  <1>2. CASE InPlaceOf(i, q)
    BY <1>2 DEF InPlaceOf, Read
  <1>3. CASE PinnedOf(i, q)
    <2>1. Read(q) = Slice(content[q.base], q.offset, q.size)
      BY <1>3 DEF PinnedOf, Read
    <2>2. q.offset \in Nat /\ q.size \in Nat /\ q.kind = "buffer"
      BY <1>3 DEF PinnedOf
    <2>3. Slice(content[q.base], q.offset, q.size) = Slice(shadow[q.base], q.offset, q.size)
      <3>1. CASE q.size > 0
        BY <2>2, <3>1
      <3>2. CASE q.size = 0
        BY <2>2, <3>2, EmptySlice
      <3> QED BY <2>2, <3>1, <3>2
    <2> QED BY <1>3, <2>1, <2>3, PinnedSeen
  <1> QED BY <1>1, <1>2, <1>3 DEF InputOf

(* The second stage leaves no input in place that is of a destination.     *)
LEMMA CopiedApart ==
  ASSUME MemoryInv, Destinations \subseteq ByteArrays, NEW i, NEW q, InputOf(i, q)
  PROVE  Apart(CopyAlias(q))
  <1>1. CASE AliasesOutput(q)
    BY <1>1 DEF CopyAlias, Apart, CopyOfBuffer, OwnedInput
  <1>2. CASE ~AliasesOutput(q)
    <2>1. CopyAlias(q) = q
      BY <1>2 DEF CopyAlias
    <2>2. q.kind = "array" => q.base \notin Destinations
      BY <1>2 DEF AliasesOutput
    <2>3. ASSUME q.kind = "buffer", q.size > 0 PROVE q.base \notin Destinations
      <3>1. PinnedOf(i, q)
        BY <2>3 DEF InputOf, OwnedOf, InPlaceOf
      <3> QED BY <1>2, <2>3, <3>1, AliasFound DEF PinnedOf
    <2> QED BY <2>1, <2>2, <2>3 DEF Apart
  <1> QED BY <1>1, <1>2
----------------------------------------------------------------------------
(* The input of the next conversion.                                       *)

LEMMA PreparedType ==
  ASSUME ControlInv, MemoryInv, PreparedInv, OrderInv, NEW k \in DOMAIN prepared
  PROVE  /\ prepared[k].item \in DOMAIN items /\ prepared[k].item \in Nat
         /\ prepared[k].item > Len(done) /\ prepared[k].item <= Len(items)
         /\ prepared[k] = Entry(prepared[k].item, prepared[k].input)
         /\ InputOf(prepared[k].item, prepared[k].input)
  <1>1. DOMAIN items = 1 .. Len(items) /\ Len(items) \in Nat
    BY CallType DEF MemoryInv
  <1>2. prepared[k].item \in DOMAIN items
    BY DEF PreparedInv
  <1> QED BY <1>1, <1>2 DEF PreparedInv, OrderInv

(* The inputs left begin with the next item, if that one was prepared.     *)
LEMMA NextIsFirst ==
  ASSUME ControlInv, MemoryInv, PreparedInv, OrderInv, NEW k \in DOMAIN prepared,
         prepared[k].item <= next
  PROVE  k = 1 /\ IsPrepared /\ prepared[k].item = next
  <1>1. k \in Nat /\ k >= 1 /\ 1 \in DOMAIN prepared
    BY DoneType
  <1>2. prepared[k].item = next
    BY PreparedType, DoneType
  <1>3. prepared[1].item \in Nat /\ prepared[1].item > Len(done)
    BY <1>1, PreparedType
  <1>4. 1 < k => prepared[1].item < prepared[k].item
    BY <1>1 DEF OrderInv
  <1>5. k = 1
    BY <1>1, <1>2, <1>3, <1>4, DoneType
  <1> QED BY <1>1, <1>2, <1>5, DoneType DEF IsPrepared

LEMMA WritingFacts ==
  ASSUME IInv, pc \in Writing
  PROVE  /\ MemoryInv /\ ControlInv /\ SeenInv /\ PreparedInv /\ OrderInv /\ WrittenInv
         /\ OutputsValid /\ Covers(Len(items)) /\ UnreachedUntouched
         /\ \A k \in DOMAIN prepared : Apart(prepared[k].input)
         /\ pc \notin {"failing", "raised"}
  <1>1. pc \notin {"start", "preparing", "failing", "raised"} \union Ended
    BY DEF Writing, Ended
  <1> QED BY <1>1 DEF IInv, OrderInv, ProgressInv, AliasInv, WrittenInv

LEMMA NextInputSeen ==
  ASSUME IInv, pc \in Writing, next <= Len(items), NextInput.kind # "error"
  PROVE  Holds(next, Read(NextInput))
  <1>1. /\ DOMAIN items = 1 .. Len(items) /\ Len(items) \in Nat
        /\ next \in Nat /\ next = Len(done) + 1 /\ Len(done) \in Nat
    BY WritingFacts, DoneType, CallType DEF MemoryInv
  <1>2. PICK i \in DOMAIN items : i = next
    BY <1>1
  <1>3. i > Len(done)
    BY <1>1, <1>2
  <1>4. CASE IsPrepared
    <2>1. prepared # <<>> /\ 1 \in DOMAIN prepared /\ prepared[1].item = i /\ NextInput = prepared[1].input
      BY <1>2, <1>4, DoneType, WritingFacts DEF IsPrepared, NextInput
    <2>2. PICK q : q = prepared[1].input
      OBVIOUS
    <2>3. InputOf(i, q) /\ Apart(q)
      BY <2>1, <2>2, WritingFacts, PreparedType
    <2>4. q.kind = "array" => q.base \in ByteArrays
      BY <2>3 DEF InputOf, OwnedOf, InPlaceOf, PinnedOf
    <2>5. q.kind = "buffer" => q.base \in ByteArrays
      BY <2>3 DEF InputOf, OwnedOf, InPlaceOf, PinnedOf
    <2>6. q.kind = "array" \/ (q.kind = "buffer" /\ q.size > 0) => content[q.base] = shadow[q.base]
      BY <2>3, <2>4, <2>5, WritingFacts, ElsewhereUntouched DEF Apart
    <2>7. Holds(i, Read(q))
      BY <1>3, <2>1, <2>2, <2>3, <2>6, WritingFacts, ReadSeen
    <2> QED BY <1>2, <2>1, <2>2, <2>7
  <1>5. CASE ~IsPrepared
    <2>1. SnapshotPolicy(items[i]) = NoPolicy
      <3>1. ASSUME SnapshotPolicy(items[i]) # NoPolicy PROVE FALSE
        <4>1. i \in 1 .. Len(items)
          BY <1>1
        <4>2. PICK k \in DOMAIN prepared :
                prepared[k].item = i \/ (prepared[k].item < i /\ prepared[k].input.kind = "error")
          BY <1>3, <3>1, <4>1, WritingFacts DEF Covers
        <4>3. prepared[k].item <= next
          BY <1>1, <1>2, <4>2, WritingFacts, PreparedType
        <4> QED BY <1>5, <4>3, WritingFacts, NextIsFirst
      <3> QED BY <3>1
    <2> DEFINE o == items[i]
    <2>2. o \in Bytes \/ o \in Strings \/ (o \in ByteArrays /\ o \notin Destinations)
      BY <2>1 DEF SnapshotPolicy, NoPolicy, AliasPolicy, ReleasePolicy
    <2>3. o \notin Views
      BY <2>2, ObjectKinds
    <2>4. Value(o, shadow) \in seen[i]
      BY <1>3, <2>3, WritingFacts, ItemSeen, NotReleased
    <2>5. CASE o \in ByteArrays
      <3>1. o \notin Destinations
        BY <2>2, <2>5, ObjectKinds
      <3>2. Read(NextInput) = content[o]
        BY <1>2, <1>5, <2>5 DEF NextInput, Read, ArrayInput
      <3>3. content[o] = shadow[o] /\ IsSeq(shadow[o]) /\ Value(o, shadow) = shadow[o]
        BY <2>5, <3>1, WritingFacts, ElsewhereUntouched, ContentTypes, ValueOf
      <3> QED BY <1>2, <2>4, <3>2, <3>3 DEF Holds
    <2>6. CASE o \notin ByteArrays
      <3>1. Read(NextInput) = Data[o]
        BY <1>2, <1>5, <2>6 DEF NextInput, Read, OwnedInput
      <3>2. Value(o, shadow) = Data[o] /\ IsSeq(Data[o])
        BY <2>2, <2>6, ValueOf, ObjectKinds
      <3> QED BY <1>2, <2>4, <3>1, <3>2 DEF Holds
    <2> QED BY <2>5, <2>6
  <1> QED BY <1>4, <1>5
----------------------------------------------------------------------------
(* What steps that change neither memory nor the history keep.             *)
Quiet == UNCHANGED <<memory, call, seen, done, events>>

LEMMA CallKept ==
  ASSUME call' = call
  PROVE  /\ items' = items /\ outputs' = outputs /\ Single' = Single
         /\ Destinations' = Destinations
         /\ OutputsValid' = OutputsValid /\ DropsIgnored' = DropsIgnored
         /\ \A o : SnapshotPolicy(o)' = SnapshotPolicy(o)
         /\ \A o : CallsBack(o)' = CallsBack(o)
         /\ \A q : Apart(q)' = Apart(q)
  BY DEF items, outputs, Single, Destinations, OutputsValid, DropsIgnored, Normalizes, SnapshotPolicy,
         CallsBack, Apart

LEMMA InputKept ==
  ASSUME NEW i, NEW q, InputOf(i, q), UNCHANGED <<memory, call, seen>>
  PROVE  InputOf(i, q)'
  <1>1. /\ content' = content /\ shadow' = shadow /\ released' = released /\ seen' = seen
        /\ items' = items /\ Single' = Single
    BY CallKept DEF memory
  <1>2. CASE OwnedOf(i, q)
    <2>1. OwnedOf(i, q)'
      BY <1>1, <1>2 DEF OwnedOf, Holds
    <2> QED BY <2>1 DEF InputOf
  <1>3. CASE InPlaceOf(i, q)
    <2>1. InPlaceOf(i, q)'
      BY <1>1, <1>3 DEF InPlaceOf, Holds
    <2> QED BY <2>1 DEF InputOf
  <1>4. CASE PinnedOf(i, q)
    <2>1. PinnedOf(i, q)'
      BY <1>1, <1>4 DEF PinnedOf, Owner
    <2> QED BY <2>1 DEF InputOf
  <1>5. CASE q.kind = "error"
    BY <1>5 DEF InputOf
  <1> QED BY <1>2, <1>3, <1>4, <1>5 DEF InputOf

LEMMA MemoryKept ==
  ASSUME MemoryInv, UNCHANGED <<memory, call>>
  PROVE  MemoryInv'
  BY DEF MemoryInv, memory

LEMMA SeenKept ==
  ASSUME SeenInv, Quiet
  PROVE  SeenInv'
  <1>1. shadow' = shadow /\ released' = released /\ seen' = seen /\ items' = items /\ done' = done
    BY CallKept DEF memory, Quiet
  <1> QED BY <1>1 DEF SeenInv

(* A step that does not end the call a second time.                        *)
Onward ==
  \/ pc \notin Ended
  \/ pc = "leaving" /\ pc' = "returned"
  \/ pc = "failing" /\ pc' = "raised"

LEMMA WrittenKept ==
  ASSUME MemoryInv, ControlInv, WrittenInv, Quiet, Onward,
         pc' = "warning" => ConversionOf(next, decoded)',
         ~call.decoding /\ done # <<>> /\ pc' \notin {"leaving", "failing"} => ~callback',
         ~call.decoding /\ pc' = "leaving" /\ callback' => ~kept'
  PROVE  WrittenInv'
  <1>1. /\ content' = content /\ shadow' = shadow /\ seen' = seen /\ done' = done /\ kept' = kept
        /\ outputs' = outputs /\ next' = next /\ call' = call
    BY CallKept DEF memory, Quiet, next
  <1>2. UnreachedUntouched'
    BY <1>1 DEF WrittenInv, UnreachedUntouched, Onward, Ended
  <1>3. \A k \in DOMAIN done' : ConversionOf(k, done[k])'
    BY <1>1 DEF WrittenInv, ConversionOf
  <1>4. \A k \in DOMAIN done : Overlaid(k)' = Overlaid(k)
    BY <1>1 DEF Overlaid
  <1>5. ~call.decoding /\ Settled' => Settled
    BY <1>1 DEF Settled, Onward, Ended, WrittenInv
  <1>6. ~call'.decoding /\ Settled' => \A k \in DOMAIN done' : Overlaid(k)'
    BY <1>1, <1>4, <1>5 DEF WrittenInv
  <1> QED BY <1>1, <1>2, <1>3, <1>6 DEF WrittenInv

(* A step that leaves the prepared inputs alone.                           *)
LEMMA PreparedKept ==
  ASSUME PreparedInv, UNCHANGED <<memory, call, seen, prepared>>
  PROVE  PreparedInv'
  <1>1. items' = items /\ prepared' = prepared /\ \A o : SnapshotPolicy(o)' = SnapshotPolicy(o)
    BY CallKept
  <1>2. ASSUME NEW k \in DOMAIN prepared
        PROVE  LET p == prepared[k]
               IN  (p.item \in DOMAIN items /\ p = Entry(p.item, p.input) /\ InputOf(p.item, p.input))'
    <2>1. PICK p : p = prepared[k]
      OBVIOUS
    <2>2. p.item \in DOMAIN items /\ p = Entry(p.item, p.input) /\ InputOf(p.item, p.input)
      BY <2>1 DEF PreparedInv
    <2>3. InputOf(p.item, p.input)'
      BY <2>2, InputKept
    <2>4. p = Entry(p.item, p.input)'
      BY <1>1, <2>2 DEF Entry
    <2>5. p = prepared[k]'
      BY <1>1, <2>1
    <2> QED BY <1>1, <2>2, <2>3, <2>4, <2>5
  <1> QED BY <1>1, <1>2 DEF PreparedInv

LEMMA CoversKept ==
  ASSUME UNCHANGED <<call, done, prepared>>, NEW n, Covers(n)
  PROVE  Covers(n)'
  <1>1. items' = items /\ \A o : SnapshotPolicy(o)' = SnapshotPolicy(o)
    BY CallKept
  <1> QED BY <1>1 DEF Covers

(* Steps that only move the call on.                                       *)
LEMMA MovesOn ==
  ASSUME IInv, Quiet, UNCHANGED prepared, Onward,
         pc' \in Labels, at' \in Nat \ {0}, callback' \in BOOLEAN,
         OrderInv', ProgressInv', ReleasedInv', AliasInv',
         pc' = "warning" => ConversionOf(next, decoded)',
         ~call.decoding /\ done # <<>> /\ pc' \notin {"leaving", "failing"} => ~callback',
         ~call.decoding /\ pc' = "leaving" /\ callback' => ~kept'
  PROVE  IInv'
  <1>1. UNCHANGED <<memory, call, seen, done, events>>
    BY DEF Quiet
  <1>2. MemoryInv'
    BY <1>1, MemoryKept DEF IInv
  <1>3. ControlInv'
    BY <1>1 DEF IInv, ControlInv
  <1>4. SeenInv'
    BY SeenKept DEF IInv
  <1>5. PreparedInv'
    BY <1>1, PreparedKept DEF IInv
  <1>6. WrittenInv'
    BY WrittenKept DEF IInv
  <1> QED BY <1>2, <1>3, <1>4, <1>5, <1>6 DEF IInv
----------------------------------------------------------------------------
(* The steps that move the call on.                                        *)

LEMMA OrderAfter ==
  ASSUME OrderInv, Covers(Len(items)), UNCHANGED <<call, done, prepared>>,
         pc' \notin {"start", "preparing"}
  PROVE  OrderInv'
  <1>1. items' = items
    BY CallKept
  <1>2. Covers(Len(items))'
    <2>1. PICK n : n = Len(items)
      OBVIOUS
    <2>2. Covers(n)'
      BY <2>1, CoversKept
    <2> QED BY <1>1, <2>1, <2>2 DEF Covers
  <1> QED BY <1>1, <1>2 DEF OrderInv

LEMMA ReleasedKept ==
  ASSUME ReleasedInv, UNCHANGED <<memory, call, seen, copies, prepared>>,
         pc' = "releasing" => pc = "releasing" /\ at' = at,
         pc' \in {"dropped", "allocating"} \union Writing =>
           \A k \in DOMAIN prepared : ~ReleasedBeforeWrite(prepared[k])
  PROVE  ReleasedInv'
  BY DEF ReleasedInv, Holds, ReleasedBeforeWrite, IsBuffer

LEMMA AliasKept ==
  ASSUME UNCHANGED <<call, prepared>>,
         pc' \in {"allocating"} \union Writing => \A k \in DOMAIN prepared : Apart(prepared[k].input)
  PROVE  AliasInv'
  BY CallKept DEF AliasInv

(* When the call is past its last item, all are covered.                   *)
LEMMA AllCovered ==
  ASSUME IInv, pc = "preparing", at > Len(items)
  PROVE  Covers(Len(items))
  <1>1. at <= Len(items) + 1 /\ at \in Nat /\ Len(items) \in Nat
    BY CallType DEF IInv, ProgressInv, ControlInv, MemoryInv
  <1>2. at - 1 = Len(items)
    BY <1>1
  <1> QED BY <1>2 DEF IInv, OrderInv

LEMMA CoveredLater ==
  ASSUME IInv, pc \notin {"start", "preparing"} \union Ended
  PROVE  Covers(Len(items))
  BY DEF IInv, OrderInv

LEMMA CheckOutputsStep ==
  ASSUME IInv, CheckOutputs
  PROVE  IInv'
  <1>1. /\ pc = "start" /\ prepared = <<>> /\ at = 1 /\ ~callback /\ done = <<>>
        /\ Quiet /\ UNCHANGED prepared /\ UNCHANGED <<call, done, prepared, copies, callback>> /\ at' = 1
        /\ pc' \in {"raised", "returned", "preparing", "allocating"}
    BY DEF CheckOutputs, IInv, ProgressInv, Before, Labels, Writing, Ended, Quiet, memory, Goto
  <1>2. DOMAIN prepared = {} /\ DOMAIN prepared' = {} /\ Len(done) = 0 /\ done' = <<>>
    BY <1>1, EmptyIsSeq, IsSeqFacts
  <1>3. Len(items) \in Nat /\ items' = items /\ OutputsValid' = OutputsValid /\ DOMAIN items = 1 .. Len(items)
    BY <1>1, CallKept, CallType DEF IInv, MemoryInv
  <1>4. OrderInv'
    <2>1. pc' = "preparing" => Covers(at - 1)'
      BY <1>1 DEF Covers
    <2>2. ASSUME pc' = "allocating" PROVE Covers(Len(items))'
      <3>1. ~NeedsPreparation
        BY <1>1, <2>2 DEF CheckOutputs, Goto
      <3>2. \A i \in 1 .. Len(items) : SnapshotPolicy(items[i]) = NoPolicy
        BY <1>3, <3>1 DEF NeedsPreparation, Range
      <3>3. \A o : SnapshotPolicy(o)' = SnapshotPolicy(o)
        BY <1>1, CallKept
      <3> QED BY <1>3, <3>2, <3>3 DEF Covers
    <2> QED BY <1>1, <1>2, <2>1, <2>2 DEF OrderInv, Ended
  <1>5. ProgressInv'
    <2>1. pc' # "raised" => OutputsValid
      BY <1>1 DEF CheckOutputs, Goto
    <2>2. pc' = "returned" => items = <<>>
      BY <1>1 DEF CheckOutputs, Goto
    <2>3. Len(<<>>) = 0
      OBVIOUS
    <2> QED BY <1>1, <1>2, <1>3, <2>1, <2>2, <2>3 DEF ProgressInv
  <1>6. ReleasedInv'
    BY <1>1, <1>2 DEF ReleasedInv
  <1>7. AliasInv'
    BY <1>1, <1>2 DEF AliasInv
  <1> QED BY <1>1, <1>4, <1>5, <1>6, <1>7, MovesOn DEF Labels, IInv, ControlInv, Onward, Ended

LEMMA SkipItemStep ==
  ASSUME IInv, SkipItem
  PROVE  IInv'
  <1>1. /\ pc = "preparing" /\ at <= Len(items) /\ SnapshotPolicy(items[at]) = NoPolicy
        /\ Quiet /\ UNCHANGED prepared /\ UNCHANGED <<pc, call, done, prepared, copies, callback>> /\ at' = at + 1
    BY DEF SkipItem, Preparing, Quiet, memory
  <1>2. /\ Len(items) \in Nat /\ at \in Nat \ {0} /\ items' = items /\ OutputsValid' = OutputsValid
        /\ done = <<>>
    BY <1>1, CallKept, CallType DEF IInv, MemoryInv, ControlInv, ProgressInv, Before, Labels, Writing, Ended
  <1>3. OrderInv'
    <2>1. Covers(at)
      <3>1. Covers(at - 1) /\ \A i \in 1 .. at : i \in 1 .. at - 1 \/ i = at
        BY <1>1, <1>2 DEF IInv, OrderInv
      <3> QED BY <1>1, <3>1 DEF Covers
    <2>2. PICK n : n = at
      OBVIOUS
    <2>3. Covers(n)'
      BY <1>1, <2>1, <2>2, CoversKept
    <2>4. Covers(at - 1)'
      BY <1>1, <1>2, <2>2, <2>3 DEF Covers
    <2>5. \A k \in DOMAIN prepared : prepared[k].item \in Nat /\ prepared[k].item < at
      BY <1>1, PreparedType DEF IInv, OrderInv
    <2> QED BY <1>1, <1>2, <2>4, <2>5 DEF IInv, OrderInv
  <1>4. ~callback
    <2>1. ~CallsBack(items[at])
      <3>1. PICK o : o = items[at]
        OBVIOUS
      <3>2. SnapshotPolicy(o) = NoPolicy
        BY <1>1, <3>1
      <3>3. ~CallsBack(o)
        BY <3>2, ObjectKinds DEF CallsBack, SnapshotPolicy, NoPolicy, AliasPolicy, ReleasePolicy
      <3> QED BY <3>1, <3>3
    <2> QED BY <1>1, <2>1 DEF IInv, ProgressInv
  <1>5. ProgressInv'
    BY <1>1, <1>2, <1>4 DEF IInv, ProgressInv
  <1>6. ReleasedInv' /\ AliasInv'
    BY <1>1 DEF ReleasedInv, AliasInv, Writing
  <1> QED BY <1>1, <1>2, <1>3, <1>4, <1>5, <1>6, MovesOn DEF IInv, ControlInv, Onward, Ended

LEMMA BeginCallbackStep ==
  ASSUME IInv, BeginCallback
  PROVE  IInv'
  <1>1. /\ pc = "preparing" /\ at <= Len(items) /\ CallsBack(items[at]) /\ callback' = TRUE
        /\ Quiet /\ UNCHANGED prepared /\ UNCHANGED <<pc, call, done, prepared, copies>> /\ at' = at
    BY DEF BeginCallback, Preparing, Quiet, memory
  <1>2. items' = items /\ OutputsValid' = OutputsValid /\ CallsBack(items[at])' = CallsBack(items[at]) /\ done = <<>>
    BY <1>1, CallKept DEF IInv, ProgressInv, Before, Labels, Writing, Ended
  <1>3. OrderInv'
    <2>1. PICK n : n = at - 1
      OBVIOUS
    <2>2. Covers(n)'
      BY <1>1, <2>1, CoversKept DEF IInv, OrderInv
    <2>3. Covers(at - 1)'
      BY <1>1, <2>1, <2>2 DEF Covers
    <2> QED BY <1>1, <1>2, <2>3 DEF IInv, OrderInv
  <1>4. ProgressInv'
    BY <1>1, <1>2 DEF IInv, ProgressInv
  <1>5. ReleasedInv' /\ AliasInv'
    BY <1>1 DEF ReleasedInv, AliasInv, Writing
  <1> QED BY <1>1, <1>2, <1>3, <1>4, <1>5, MovesOn DEF IInv, ControlInv, Onward, Ended

LEMMA DropIsBoolean == DropRunsPython \in BOOLEAN
  BY DEF DropRunsPython

(* The call fails without another write.                                   *)
LEMMA Raises ==
  ASSUME IInv, pc \notin Ended, Quiet, UNCHANGED prepared, EndsAt("failing"), at' = at
  PROVE  IInv'
  <1>1. UNCHANGED <<call, done>> /\ items' = items /\ OutputsValid' = OutputsValid /\ pc' = "failing"
    BY CallKept DEF Quiet, EndsAt, Goto
  <1>2. OrderInv'
    BY <1>1 DEF IInv, OrderInv, Ended
  <1>3. ProgressInv'
    BY <1>1 DEF IInv, ProgressInv, Before, Ended
  <1>4. ReleasedInv' /\ AliasInv'
    BY <1>1 DEF ReleasedInv, AliasInv, Writing
  <1>5. pc' \in Labels /\ at' \in Nat \ {0} /\ callback' \in BOOLEAN
    BY <1>1, DropIsBoolean DEF IInv, ControlInv, Labels, EndsAt
  <1>6. Onward
    BY DEF Onward
  <1> QED BY <1>1, <1>2, <1>3, <1>4, <1>5, <1>6, MovesOn

LEMMA ArgumentFailsStep ==
  ASSUME IInv, ArgumentFails
  PROVE  IInv'
  BY Raises DEF ArgumentFails, Quiet, memory, Ended

LEMMA RaisePreparedStep ==
  ASSUME IInv, RaisePrepared
  PROVE  IInv'
  BY Raises DEF RaisePrepared, Converting, Quiet, memory, Ended

LEMMA WarningRaisesStep ==
  ASSUME IInv, WarningRaises
  PROVE  IInv'
  BY Raises DEF WarningRaises, Quiet, memory, Ended

LEMMA ConvertArgumentsStep ==
  ASSUME IInv, ConvertArguments
  PROVE  IInv'
  <1>1. /\ pc = "preparing" /\ at > Len(items) /\ callback' \in BOOLEAN /\ pc' = "arguments"
        /\ Quiet /\ UNCHANGED prepared /\ UNCHANGED <<call, done, prepared, copies>> /\ at' = at
    <2>1. (call.custom \/ (items[1] \in Exporters /\ Normalizes(items[1]))) \in BOOLEAN
      OBVIOUS
    <2> QED BY <2>1 DEF ConvertArguments, Quiet, memory, Goto
  <1>2. items' = items /\ OutputsValid' = OutputsValid /\ done = <<>>
    BY <1>1, CallKept DEF IInv, ProgressInv, Before, Labels, Writing, Ended
  <1>3. OrderInv'
    BY <1>1, AllCovered, OrderAfter DEF IInv
  <1>4. ProgressInv'
    BY <1>1, <1>2 DEF IInv, ProgressInv
  <1>5. ReleasedInv' /\ AliasInv'
    BY <1>1 DEF ReleasedInv, AliasInv, Writing
  <1> QED BY <1>1, <1>2, <1>3, <1>4, <1>5, MovesOn DEF IInv, ControlInv, Labels, Onward, Ended

LEMMA DropIgnoredStep ==
  ASSUME IInv, DropIgnored
  PROVE  IInv'
  <1>1. /\ pc = "releasing" /\ at > Len(prepared) /\ callback' = TRUE /\ pc' = "dropped"
        /\ Quiet /\ UNCHANGED prepared /\ UNCHANGED <<call, done, prepared, copies, seen, memory>> /\ at' = at
    BY DEF DropIgnored, Quiet, memory, Goto
  <1>2. items' = items /\ OutputsValid' = OutputsValid /\ done = <<>>
    BY <1>1, CallKept DEF IInv, ProgressInv, Before, Labels, Writing, Ended
  <1>3. OrderInv'
    BY <1>1, CoveredLater, OrderAfter DEF IInv, Ended
  <1>4. ProgressInv'
    BY <1>1, <1>2 DEF IInv, ProgressInv
  <1>5. ReleasedInv'
    <2>1. \A k \in DOMAIN prepared : ~ReleasedBeforeWrite(prepared[k])
      <3>1. \A k \in DOMAIN prepared : k \in Nat /\ k <= Len(prepared) /\ Len(prepared) \in Nat /\ at \in Nat
        BY DoneType DEF IInv, ControlInv
      <3> QED BY <1>1, <3>1 DEF IInv, ReleasedInv
    <2> QED BY <1>1, <2>1, ReleasedKept DEF IInv
  <1>6. AliasInv'
    BY <1>1 DEF AliasInv, Writing
  <1> QED BY <1>1, <1>2, <1>3, <1>4, <1>5, <1>6, MovesOn DEF IInv, ControlInv, Labels, Onward, Ended

LEMMA AllocateResultsStep ==
  ASSUME IInv, AllocateResults
  PROVE  IInv'
  <1>1. /\ pc = "allocating" /\ callback' = TRUE /\ pc' = "writing"
        /\ Quiet /\ UNCHANGED prepared /\ UNCHANGED <<call, done, prepared, copies, seen, memory>> /\ at' = at
    BY DEF AllocateResults, Quiet, memory, Goto
  <1>2. items' = items /\ OutputsValid' = OutputsValid /\ done = <<>>
    BY <1>1, CallKept DEF IInv, ProgressInv, Before, Labels, Writing, Ended
  <1>3. OrderInv'
    BY <1>1, CoveredLater, OrderAfter DEF IInv, Ended
  <1>4. ProgressInv'
    BY <1>1, <1>2 DEF IInv, ProgressInv, Before, Writing
  <1>5. ReleasedInv'
    BY <1>1, ReleasedKept DEF IInv, ReleasedInv
  <1>6. AliasInv'
    BY <1>1, AliasKept DEF IInv, AliasInv
  <1> QED BY <1>1, <1>2, <1>3, <1>4, <1>5, <1>6, MovesOn DEF IInv, ControlInv, Labels, Onward, Ended

LEMMA CallbackReturnsStep ==
  ASSUME IInv, CallbackReturns
  PROVE  IInv'
  <1>1. /\ pc \in {"arguments", "exported", "releasing", "dropped", "writing"} /\ callback' = FALSE
        /\ pc' = pc /\ Quiet /\ UNCHANGED prepared
        /\ UNCHANGED <<call, done, prepared, copies, seen, memory>> /\ at' = at
    BY DEF CallbackReturns, Quiet, memory, Goto
  <1>2. items' = items /\ OutputsValid' = OutputsValid
    BY <1>1, CallKept
  <1>3. OrderInv'
    BY <1>1, CoveredLater, OrderAfter DEF IInv, Ended
  <1>4. ProgressInv'
    BY <1>1, <1>2 DEF IInv, ProgressInv
  <1>5. ReleasedInv'
    BY <1>1, ReleasedKept DEF IInv, ReleasedInv
  <1>6. AliasInv'
    BY <1>1, AliasKept DEF IInv, AliasInv
  <1> QED BY <1>1, <1>2, <1>3, <1>4, <1>5, <1>6, MovesOn DEF IInv, ControlInv, Labels, Onward, Ended

LEMMA ReturnStep ==
  ASSUME IInv, Return
  PROVE  IInv'
  <1>1. /\ pc = "writing" /\ callback' = DropRunsPython /\ pc' = "leaving" /\ next > Len(items) /\ ~callback
        /\ Quiet /\ UNCHANGED prepared /\ UNCHANGED <<call, done, prepared, copies, seen, memory>> /\ at' = at
    BY DEF Return, Quiet, memory, EndsAt, Goto
  <1>2. /\ items' = items /\ OutputsValid' = OutputsValid /\ Len(items) \in Nat
        /\ Len(done) \in Nat /\ next = Len(done) + 1
    BY <1>1, CallKept, CallType, DoneType DEF IInv, MemoryInv
  <1>3. OrderInv'
    BY <1>1 DEF IInv, OrderInv, Ended
  <1>4. ProgressInv'
    <2>1. Len(done) = Len(items)
      BY <1>1, <1>2 DEF IInv, ProgressInv
    <2> QED BY <1>1, <1>2, <2>1 DEF IInv, ProgressInv, Before, Ended
  <1>5. ReleasedInv' /\ AliasInv'
    BY <1>1 DEF ReleasedInv, AliasInv, Writing
  <1>6. callback' \in BOOLEAN
    BY <1>1, DropIsBoolean
  <1>7. ~call.decoding /\ callback' => ~kept'
    <2>1. Range(prepared) = {}
      <3>1. ASSUME NEW k \in DOMAIN prepared PROVE FALSE
        <4>1. prepared[k].item \in DOMAIN items /\ prepared[k].item > Len(done)
          BY PreparedType DEF IInv
        <4>2. DOMAIN items = 1 .. Len(items)
          BY CallType DEF IInv, MemoryInv
        <4> QED BY <1>1, <1>2, <4>1, <4>2
      <3> QED BY <3>1 DEF Range
    <2>2. kept' = kept
      BY <1>1 DEF memory
    <2>3. DropRunsPython /\ ~call.decoding => ~kept
      BY <2>1 DEF DropRunsPython
    <2> QED BY <1>1, <2>2, <2>3
  <1> QED BY <1>1, <1>2, <1>3, <1>4, <1>5, <1>6, <1>7, MovesOn DEF IInv, ControlInv, Labels, Onward, Ended

(* What the call holds is dropped, and the caller gets control.            *)
LEMMA LeaveStep ==
  ASSUME IInv, Leave
  PROVE  IInv'
  <1>1. /\ (pc = "leaving" /\ pc' = "returned") \/ (pc = "failing" /\ pc' = "raised")
        /\ callback' = FALSE /\ Quiet /\ UNCHANGED prepared /\ UNCHANGED <<call, done, prepared>> /\ at' = at
    BY DEF Leave, Quiet, memory, Goto
  <1>2. items' = items /\ OutputsValid' = OutputsValid
    BY <1>1, CallKept
  <1>3. OrderInv'
    BY <1>1 DEF IInv, OrderInv, Ended
  <1>4. ProgressInv'
    BY <1>1, <1>2 DEF IInv, ProgressInv, Before, Ended
  <1>5. ReleasedInv' /\ AliasInv'
    BY <1>1 DEF ReleasedInv, AliasInv, Writing
  <1> QED BY <1>1, <1>3, <1>4, <1>5, MovesOn DEF IInv, ControlInv, Labels, Onward

(* A warning holds the conversion back.                                    *)
LEMMA WarnStep ==
  ASSUME IInv, Warn
  PROVE  IInv'
  <1>1. /\ pc = "writing" /\ callback' = TRUE /\ pc' = "warning" /\ next <= Len(items)
        /\ NextInput.kind # "error"
        /\ Quiet /\ UNCHANGED prepared /\ UNCHANGED <<call, done, prepared, copies, seen, memory>> /\ at' = at
    BY DEF Warn, Converting, Quiet, memory, Goto
  <1>2. /\ items' = items /\ OutputsValid' = OutputsValid /\ next' = next
        /\ NextInput' = NextInput
    BY <1>1, CallKept DEF next, NextInput, IsPrepared
  <1>3. OrderInv'
    BY <1>1, CoveredLater, OrderAfter DEF IInv, Ended
  <1>4. call.decoding /\ decoded' = Encoded(Read(NextInput))
    BY DEF Warn, Warns
  <1>5. ProgressInv'
    BY <1>1, <1>2, <1>4 DEF IInv, ProgressInv, Before, Writing
  <1>6. ReleasedInv'
    BY <1>1, ReleasedKept DEF IInv, ReleasedInv, Writing
  <1>7. AliasInv'
    BY <1>1, AliasKept DEF IInv, AliasInv, Writing
  <1>8. ConversionOf(next, decoded)'
    <2>1. Holds(next, Read(NextInput))
      BY <1>1, NextInputSeen DEF Writing
    <2> QED BY <1>1, <1>2, <1>4, <2>1 DEF ConversionOf, Holds
  <1> QED BY <1>1, <1>3, <1>4, <1>5, <1>6, <1>7, <1>8, MovesOn DEF IInv, ControlInv, Labels, Onward, Ended

(* Every input to be released before the first write is copied.            *)
LEMMA StageReleasesStep ==
  ASSUME IInv, StageReleases
  PROVE  IInv'
  <1>1. /\ pc \in {"preparing", "arguments", "exported"} /\ at > Len(items) /\ pc' = "releasing" /\ at' = 1
        /\ callback' = callback
        /\ Quiet /\ UNCHANGED prepared /\ UNCHANGED <<call, done, prepared, seen, memory>>
    BY DEF StageReleases, Acquired, Quiet, memory, Goto
  <1>2. items' = items /\ OutputsValid' = OutputsValid /\ done = <<>>
    BY <1>1, CallKept DEF IInv, ProgressInv, Before, Labels, Writing, Ended
  <1>3. OrderInv'
    BY <1>1, AllCovered, CoveredLater, OrderAfter DEF IInv, Ended
  <1>4. ProgressInv'
    BY <1>1, <1>2 DEF IInv, ProgressInv
  <1>5. ReleasedInv'
    <2>1. ASSUME NEW k \in DOMAIN prepared, ReleasedBeforeWrite(prepared[k])
          PROVE  k >= 1 /\ Holds(prepared[k].item, copies'[k])
      <3>1. PICK i : i = prepared[k].item
        OBVIOUS
      <3>2. PICK q : q = prepared[k].input
        OBVIOUS
      <3>3. i \in DOMAIN items /\ i > Len(done) /\ InputOf(i, q) /\ k \in Nat /\ k >= 1
        BY <3>1, <3>2, PreparedType, DoneType DEF IInv
      <3>4. q.kind = "buffer"
        BY <2>1, <3>2 DEF ReleasedBeforeWrite, IsBuffer
      <3>5. q.base \in ByteArrays
        BY <3>3, <3>4 DEF InputOf, OwnedOf, InPlaceOf, PinnedOf
      <3>6. content[q.base] = shadow[q.base]
        BY <1>1, <1>2, <3>5, NothingWritten DEF IInv, WrittenInv
      <3>7. Holds(i, Read(q))
        BY <3>3, <3>4, <3>6, ReadSeen DEF IInv
      <3>8. copies'[k] = Read(q)
        BY <2>1, <3>2 DEF StageReleases
      <3> QED BY <3>1, <3>3, <3>7, <3>8
    <2>2. \A k \in DOMAIN prepared : ReleasedBeforeWrite(prepared[k])' = ReleasedBeforeWrite(prepared[k])
      BY <1>1 DEF ReleasedBeforeWrite, IsBuffer
    <2> QED BY <1>1, <2>1, <2>2 DEF ReleasedInv, Holds, Writing
  <1>6. AliasInv'
    BY <1>1 DEF AliasInv, Writing
  <1> QED BY <1>1, <1>2, <1>3, <1>4, <1>5, <1>6, MovesOn DEF IInv, ControlInv, Labels, Onward, Ended
----------------------------------------------------------------------------
(* The steps that acquire an input.                                        *)

LEMMA AppendEntry ==
  ASSUME IInv, pc = "preparing", at <= Len(items), NEW q, InputOf(at, q),
         prepared' = Append(prepared, Entry(at, q)),
         at' = at + 1 \/ (at' = Len(items) + 1 /\ q.kind = "error"),
         pc' \in {"preparing", "failing"}, callback' \in BOOLEAN, pc' = "preparing" => callback' = FALSE,
         UNCHANGED <<memory, call, copies, done, decoded, seen, events>>
  PROVE  IInv'
  <1>1. Quiet /\ UNCHANGED <<memory, call, done, seen>>
    BY DEF Quiet
  <1>2. /\ items' = items /\ OutputsValid' = OutputsValid /\ done = <<>>
        /\ \A o : SnapshotPolicy(o)' = SnapshotPolicy(o)
    BY <1>1, CallKept DEF IInv, ProgressInv, Before, Labels, Writing, Ended
  <1>3. PICK n \in Nat : n = Len(prepared)
    BY DoneType DEF IInv
  <1>4. /\ DOMAIN prepared = 1 .. n /\ IsSeq(prepared') /\ DOMAIN prepared' = 1 .. n + 1
        /\ \A k \in 1 .. n : prepared'[k] = prepared[k]
        /\ prepared'[n + 1] = Entry(at, q)
    <2>1. IsSeq(prepared)
      BY DEF IInv, ControlInv
    <2> QED BY <1>3, <2>1, AppendIsSeq, IsSeqFacts
  <1>5. /\ at \in Nat \ {0} /\ Len(items) \in Nat /\ DOMAIN items = 1 .. Len(items) /\ Len(done) = 0
        /\ at \in DOMAIN items
    BY <1>2, CallType DEF IInv, MemoryInv, ControlInv
  <1>6. Entry(at, q).item = at /\ Entry(at, q).input = q
    BY DEF Entry
  <1>7. \A k \in 1 .. n + 1 : k \in 1 .. n \/ k = n + 1
    BY <1>3
  <1>8. \A k \in 1 .. n : prepared[k].item \in Nat /\ prepared[k].item > Len(done) /\ prepared[k].item < at
    BY <1>4, PreparedType DEF IInv, OrderInv
  <1>9. MemoryInv'
    BY <1>1, MemoryKept DEF IInv
  <1>10. ControlInv'
    <2>1. at' \in Nat \ {0}
      <3>1. PICK l \in Nat : l = Len(items)
        BY <1>5
      <3>2. at + 1 \in Nat \ {0} /\ l + 1 \in Nat \ {0}
        BY <1>5
      <3> QED BY <3>1, <3>2
    <2>2. IsSeq(done') /\ events' \in Nat
      BY <1>1 DEF IInv, ControlInv
    <2>3. callback' \in BOOLEAN /\ pc' \in Labels
      BY DEF Labels
    <2> QED BY <1>4, <2>1, <2>2, <2>3 DEF ControlInv
  <1>11. SeenInv'
    BY <1>1, SeenKept DEF IInv
  <1>12. PreparedInv'
    <2>1. ASSUME NEW i, NEW p, i \in DOMAIN items, InputOf(i, p)
          PROVE  i \in DOMAIN items' /\ Entry(i, p)' = Entry(i, p) /\ InputOf(i, p)'
      BY <1>1, <1>2, <2>1, InputKept DEF Entry
    <2>2. ASSUME NEW k \in 1 .. n + 1
          PROVE  LET p == prepared[k]
                 IN  (p.item \in DOMAIN items /\ p = Entry(p.item, p.input) /\ InputOf(p.item, p.input))'
      <3>1. PICK p : p = prepared[k]'
        OBVIOUS
      <3>2. p.item \in DOMAIN items /\ p = Entry(p.item, p.input) /\ InputOf(p.item, p.input)
        <4>1. CASE k \in 1 .. n
          BY <1>4, <3>1, <4>1 DEF IInv, PreparedInv
        <4>2. CASE k = n + 1
          <5>1. p.item = at /\ p.input = q /\ p = Entry(at, q)
            BY <1>4, <1>6, <3>1, <4>2
          <5> QED BY <1>5, <5>1
        <4> QED BY <1>7, <4>1, <4>2
      <3>3. PICK i : i = p.item
        OBVIOUS
      <3>4. PICK x : x = p.input
        OBVIOUS
      <3>5. i \in DOMAIN items' /\ p = Entry(i, x)' /\ InputOf(i, x)'
        BY <2>1, <3>2, <3>3, <3>4
      <3>6. p.item \in DOMAIN items' /\ p = Entry(p.item, p.input)' /\ InputOf(p.item, p.input)'
        BY <3>3, <3>4, <3>5
      <3> QED BY <3>1, <3>6
    <2> QED BY <1>4, <2>2 DEF PreparedInv
  <1>13. OrderInv'
    <2>1. ASSUME pc' = "preparing" PROVE Covers(at - 1)'
      <3>1. ASSUME NEW i \in 1 .. at' - 1, SnapshotPolicy(items[i]) # NoPolicy
            PROVE  \E k \in 1 .. n + 1 :
                     prepared'[k].item = i \/ (prepared'[k].item < i /\ prepared'[k].input.kind = "error")
        <4>1. CASE i <= at - 1
          <5>1. i \in 1 .. at - 1
            BY <1>5, <4>1
          <5>2. PICK k \in 1 .. n :
                  prepared[k].item = i \/ (prepared[k].item < i /\ prepared[k].input.kind = "error")
            BY <1>4, <1>5, <3>1, <5>1 DEF IInv, OrderInv, Covers
          <5> QED BY <1>4, <5>2
        <4>2. CASE i >= at
          <5>1. n + 1 \in 1 .. n + 1
            OBVIOUS
          <5>2. at = i \/ (at < i /\ q.kind = "error")
            BY <1>5, <3>1, <4>2
          <5> QED BY <1>4, <1>6, <5>1, <5>2
        <4>3. i \in Nat /\ at \in Nat /\ Len(items) + 1 \in Nat
          BY <1>5
        <4>4. i <= at - 1 \/ i >= at
          BY <4>3
        <4> QED BY <4>1, <4>2, <4>4
      <3> QED BY <1>2, <1>4, <3>1 DEF Covers
    <2>2. \A k \in 1 .. n + 1 : prepared'[k].item > Len(done') /\ prepared'[k].item < at'
      BY <1>1, <1>4, <1>5, <1>6, <1>7, <1>8
    <2>3. \A j, k \in 1 .. n + 1 : j < k => prepared'[j].item < prepared'[k].item
      <3>1. ASSUME NEW j \in 1 .. n + 1, NEW k \in 1 .. n + 1, j < k
            PROVE  prepared'[j].item < prepared'[k].item
        <4>1. j \in 1 .. n
          BY <3>1
        <4>2. CASE k \in 1 .. n
          BY <1>4, <3>1, <4>1, <4>2 DEF IInv, OrderInv
        <4>3. CASE k = n + 1
          BY <1>4, <1>6, <1>8, <4>1, <4>3
        <4> QED BY <1>7, <4>2, <4>3
      <3> QED BY <3>1
    <2> QED BY <1>4, <2>1, <2>2, <2>3 DEF OrderInv, Ended
  <1>14. ProgressInv'
    BY <1>1, <1>2, <1>5 DEF IInv, ProgressInv
  <1>15. ReleasedInv' /\ AliasInv'
    BY DEF ReleasedInv, AliasInv, Writing
  <1>16. WrittenInv'
    BY <1>1, <1>2, WrittenKept DEF IInv, Onward, Ended
  <1> QED BY <1>9, <1>10, <1>11, <1>12, <1>13, <1>14, <1>15, <1>16 DEF IInv

(* While inputs are acquired, an item contains what its history ends with. *)
LEMMA Acquiring ==
  ASSUME IInv, Preparing
  PROVE  /\ MemoryInv /\ SeenInv /\ at \in DOMAIN items /\ at > Len(done)
         /\ \A b \in ByteArrays : content[b] = shadow[b]
         /\ items[at] \notin released => Value(items[at], shadow) \in seen[at]
  <1>1. pc = "preparing" /\ at <= Len(items) /\ pc \notin {"failing", "raised"}
    BY DEF Preparing
  <1>2. done = <<>> /\ Len(done) = 0
    BY <1>1, DoneType DEF IInv, ProgressInv, Before, Labels, Writing, Ended
  <1>3. at \in DOMAIN items /\ at > Len(done)
    BY <1>1, <1>2, CallType DEF IInv, MemoryInv, ControlInv
  <1>4. \A b \in ByteArrays : content[b] = shadow[b]
    BY <1>1, <1>2, NothingWritten DEF IInv, WrittenInv
  <1> QED BY <1>3, <1>4, ItemSeen DEF IInv

LEMMA PrepareStep ==
  ASSUME IInv, Preparing, NEW q, InputOf(at, q), Prepare(q)
  PROVE  IInv'
  BY AppendEntry DEF Preparing, Prepare, Entry

LEMMA PrepareFailsStep ==
  ASSUME IInv, PrepareFails
  PROVE  IInv'
  <1>1. /\ pc = "preparing" /\ at <= Len(items) /\ prepared' = Append(prepared, Entry(at, ErrorInput))
        /\ at' = Len(items) + 1 /\ pc' \in {"preparing", "failing"}
        /\ pc' = "preparing" => callback' = FALSE
        /\ callback' = DropRunsPython \/ callback' = FALSE
        /\ UNCHANGED <<memory, call, copies, done, decoded, seen, events>>
    BY DEF PrepareFails, Preparing, EndsAt, Goto, Entry
  <1>2. ErrorInput.kind = "error" /\ InputOf(at, ErrorInput)
    BY DEF ErrorInput, InputOf
  <1>3. callback' \in BOOLEAN
    BY <1>1, DropIsBoolean
  <1> QED BY <1>1, <1>2, <1>3, AppendEntry

LEMMA PrepareImmutableStep ==
  ASSUME IInv, PrepareImmutable
  PROVE  IInv'
  <1>1. Preparing /\ items[at] \in Bytes \union Strings /\ Prepare(OwnedInput(Data[items[at]]))
    BY DEF PrepareImmutable
  <1>2. IsSeq(Data[items[at]]) /\ items[at] \notin Views /\ Value(items[at], shadow) = Data[items[at]]
    BY <1>1, ObjectKinds, ValueOf
  <1>3. Data[items[at]] \in seen[at]
    BY <1>1, <1>2, Acquiring, NotReleased
  <1>4. InputOf(at, OwnedInput(Data[items[at]]))
    BY <1>2, <1>3 DEF InputOf, OwnedOf, OwnedInput, Holds
  <1> QED BY <1>1, <1>4, PrepareStep

LEMMA PrepareByteArrayStep ==
  ASSUME IInv, PrepareByteArray
  PROVE  IInv'
  <1> DEFINE b == items[at]
  <1>1. /\ Preparing /\ b \in ByteArrays
        /\ Prepare(IF HoldsExport THEN ExportOf(b)
                   ELSE IF call.entry = "urlsafe" THEN OwnedInput(content[b])
                   ELSE ArrayInput(b))
    BY DEF PrepareByteArray
  <1>2. /\ b \notin released /\ Value(b, shadow) = shadow[b] /\ content[b] = shadow[b]
        /\ IsSeq(shadow[b]) /\ Len(content[b]) \in Nat /\ b \notin Exporters
    BY <1>1, Acquiring, ObjectKinds, ValueOf, NotReleased, ContentTypes
  <1>3. Holds(at, shadow[b])
    BY <1>1, <1>2, Acquiring DEF Holds
  <1>4. InputOf(at, ExportOf(b))
    <2>1. PinnedOf(at, ExportOf(b))
      BY <1>1, <1>2 DEF PinnedOf, ExportOf, BufferInput, Owner
    <2> QED BY <2>1 DEF InputOf
  <1>5. InputOf(at, OwnedInput(content[b]))
    BY <1>2, <1>3 DEF InputOf, OwnedOf, OwnedInput
  <1>6. InputOf(at, ArrayInput(b))
    BY <1>1, <1>3 DEF InputOf, InPlaceOf, ArrayInput
  <1> QED BY <1>1, <1>4, <1>5, <1>6, PrepareStep

LEMMA PrepareViewStep ==
  ASSUME IInv, PrepareView
  PROVE  IInv'
  <1> DEFINE v == items[at]
             b == Base[v]
  <1>1. /\ Preparing /\ v \in Views /\ v \notin released
        /\ Prepare(IF v \in Strided \/ Normalizes(v) THEN OwnedInput(Value(v, content))
                   ELSE IF BecomesOwner(Size[v], b) THEN ArrayInput(b)
                   ELSE BufferInput(b, Offset[v], Size[v], FALSE))
    BY DEF PrepareView
  <1>2. b \in ByteArrays /\ Offset[v] \in Nat /\ Size[v] \in Nat
    BY <1>1, ObjectKinds
  <1>3. /\ content[b] = shadow[b] /\ IsSeq(shadow[b]) /\ Len(content[b]) \in Nat
        /\ Offset[v] + Size[v] <= Len(content[b])
    BY <1>1, <1>2, Acquiring, ContentTypes DEF MemoryInv
  <1>4. /\ Value(v, shadow) = Slice(shadow[b], Offset[v], Size[v])
        /\ Value(v, content) = Slice(content[b], Offset[v], Size[v])
    BY <1>1, ValueOf
  <1>5. IsSeq(Slice(shadow[b], Offset[v], Size[v]))
    BY <1>2, <1>3, SubSeqIsSeq
  <1>6. Holds(at, Slice(shadow[b], Offset[v], Size[v]))
    BY <1>1, <1>4, <1>5, Acquiring DEF Holds
  <1>7. InputOf(at, OwnedInput(Value(v, content)))
    <2>1. Value(v, content) = Slice(shadow[b], Offset[v], Size[v])
      BY <1>3, <1>4
    <2> QED BY <1>6, <2>1 DEF InputOf, OwnedOf, OwnedInput
  <1>8. ASSUME BecomesOwner(Size[v], b) PROVE InputOf(at, ArrayInput(b))
    <2>1. Offset[v] = 0 /\ Size[v] = Len(shadow[b])
      BY <1>2, <1>3, <1>8 DEF BecomesOwner
    <2>2. Holds(at, shadow[b])
      BY <1>3, <1>6, <2>1, WholeSlice
    <2> QED BY <1>2, <2>2 DEF InputOf, InPlaceOf, ArrayInput
  <1>9. InputOf(at, BufferInput(b, Offset[v], Size[v], FALSE))
    <2>1. PinnedOf(at, BufferInput(b, Offset[v], Size[v], FALSE))
      BY <1>1, <1>2, <1>3 DEF PinnedOf, BufferInput
    <2> QED BY <2>1 DEF InputOf
  <1> QED BY <1>1, <1>7, <1>8, <1>9, PrepareStep

LEMMA PrepareExportStep ==
  ASSUME IInv, PrepareExport
  PROVE  IInv'
  <1> DEFINE o == items[at]
             b == Base[o]
             size == Len(content[b])
  <1>1. /\ Preparing /\ callback
        /\ \/ Prepare(OwnedInput(content[b]))
           \/ Prepare(ArrayInput(b))
           \/ \E r \in BOOLEAN : (o \in Exporters => r) /\ Prepare(BufferInput(b, 0, size, r))
    <2>1. {FALSE, (o \in Reentrant)} \subseteq BOOLEAN
      OBVIOUS
    <2> QED BY <2>1 DEF PrepareExport
  <1>2. o \in Exporters \union Texts
    BY <1>1 DEF IInv, ProgressInv, Preparing, CallsBack
  <1>3. b \in ByteArrays /\ o \notin Views /\ o \notin ByteArrays /\ o \notin released
    BY <1>2, ObjectKinds, Acquiring, NotReleased, <1>1
  <1>4. /\ content[b] = shadow[b] /\ IsSeq(shadow[b]) /\ Len(content[b]) \in Nat
        /\ Value(o, shadow) = shadow[b]
    BY <1>1, <1>2, <1>3, Acquiring, ContentTypes, ValueOf
  <1>5. Holds(at, shadow[b])
    BY <1>1, <1>3, <1>4, Acquiring DEF Holds
  <1>6. InputOf(at, OwnedInput(content[b]))
    BY <1>4, <1>5 DEF InputOf, OwnedOf, OwnedInput
  <1>7. InputOf(at, ArrayInput(b))
    BY <1>3, <1>5 DEF InputOf, InPlaceOf, ArrayInput
  <1>8. ASSUME NEW r \in BOOLEAN, o \in Exporters => r PROVE InputOf(at, BufferInput(b, 0, size, r))
    <2>1. PinnedOf(at, BufferInput(b, 0, size, r))
      BY <1>2, <1>3, <1>4, <1>8 DEF PinnedOf, BufferInput, Owner
    <2> QED BY <2>1 DEF InputOf
  <1> QED BY <1>1, <1>6, <1>7, <1>8, PrepareStep
----------------------------------------------------------------------------
(* The steps that replace inputs by copies or exports.                     *)

(* What replaces an input is an input of the same item, and an error stays *)
(* one (a single item has none before it).                                 *)
Rewritten(p, r) ==
  /\ r.item = p.item /\ r = Entry(p.item, r.input) /\ InputOf(p.item, r.input)
  /\ Single \/ (p.input.kind = "error" => r.input.kind = "error")

LEMMA RewritesKeep ==
  ASSUME IInv, Quiet, pc \notin {"start", "preparing"} \union Ended, pc' \notin {"start", "preparing"},
         IsSeq(prepared'), Len(prepared') = Len(prepared),
         \A k \in DOMAIN prepared : Rewritten(prepared[k], prepared'[k])
  PROVE  PreparedInv' /\ OrderInv'
  <1>1. /\ items' = items /\ UNCHANGED <<memory, call, seen, done>>
        /\ \A o : SnapshotPolicy(o)' = SnapshotPolicy(o)
    BY CallKept DEF Quiet
  <1>2. PICK n \in Nat : n = Len(prepared)
    BY DoneType DEF IInv
  <1>3. DOMAIN prepared = 1 .. n /\ DOMAIN prepared' = 1 .. n
    BY <1>2, DoneType, IsSeqFacts DEF IInv
  <1>4. \A k \in 1 .. n : prepared'[k].item = prepared[k].item
    BY <1>3 DEF Rewritten
  <1>5. PreparedInv'
    <2>1. ASSUME NEW k \in 1 .. n
          PROVE  LET p == prepared[k]
                 IN  (p.item \in DOMAIN items /\ p = Entry(p.item, p.input) /\ InputOf(p.item, p.input))'
      <3>1. PICK p : p = prepared[k]'
        OBVIOUS
      <3>2. p.item \in DOMAIN items /\ p = Entry(p.item, p.input) /\ InputOf(p.item, p.input)
        <4>1. prepared[k].item \in DOMAIN items
          BY <1>3, PreparedType DEF IInv
        <4> QED BY <1>3, <3>1, <4>1 DEF Rewritten
      <3>3. InputOf(p.item, p.input)'
        BY <1>1, <3>2, InputKept
      <3>4. p = Entry(p.item, p.input)'
        BY <1>1, <3>2 DEF Entry
      <3> QED BY <1>1, <3>1, <3>2, <3>3, <3>4
    <2> QED BY <1>3, <2>1 DEF PreparedInv
  <1>6. Covers(Len(items))'
    <2>1. ASSUME NEW i \in 1 .. Len(items), i > Len(done), SnapshotPolicy(items[i]) # NoPolicy
          PROVE  \E k \in 1 .. n :
                   prepared'[k].item = i \/ (prepared'[k].item < i /\ prepared'[k].input.kind = "error")
      <3>1. PICK k \in 1 .. n :
              prepared[k].item = i \/ (prepared[k].item < i /\ prepared[k].input.kind = "error")
        BY <1>3, <2>1, CoveredLater DEF Covers
      <3>2. ASSUME Single PROVE ~(prepared[k].item < i)
        <4>1. prepared[k].item \in Nat /\ prepared[k].item > Len(done) /\ Len(done) \in Nat
          BY <1>3, PreparedType, DoneType DEF IInv
        <4>2. i <= 1
          <5>1. call \in Calls
            BY DEF IInv, MemoryInv
          <5>2. Len(items) = 1
            BY <3>2, <5>1, CallType
          <5> QED BY <5>2
        <4>3. prepared[k].item >= 1
          BY <4>1
        <4> QED BY <4>1, <4>2, <4>3
      <3> QED BY <1>3, <3>1, <3>2 DEF Rewritten
    <2> QED BY <1>1, <1>3, <2>1 DEF Covers
  <1>7. OrderInv'
    <2>1. \A k \in 1 .. n : prepared'[k].item > Len(done')
      BY <1>1, <1>3, <1>4 DEF IInv, OrderInv
    <2>2. \A j, k \in 1 .. n : j < k => prepared'[j].item < prepared'[k].item
      BY <1>3, <1>4 DEF IInv, OrderInv
    <2> QED BY <1>3, <1>6, <2>1, <2>2 DEF OrderInv
  <1> QED BY <1>5, <1>7

(* Of an entry, the rewritten one differs in the input.                    *)
LEMMA InputReplaced ==
  ASSUME NEW i, NEW q, NEW p, p = Entry(i, q), NEW r, InputOf(i, r),
         Single \/ (q.kind = "error" => r.kind = "error")
  PROVE  Rewritten(p, [p EXCEPT !.input = r])
  <1>1. p.item = i /\ p.input = q
    BY DEF Entry
  <1>2. [p EXCEPT !.input = r] = Entry(i, r)
    BY DEF Entry
  <1>3. Entry(i, r).item = i /\ Entry(i, r).input = r
    BY DEF Entry
  <1> QED BY <1>1, <1>2, <1>3 DEF Rewritten

LEMMA RewrittenItself ==
  ASSUME IInv, NEW k \in DOMAIN prepared
  PROVE  Rewritten(prepared[k], prepared[k])
  BY PreparedType DEF IInv, Rewritten

LEMMA ReplaceInput ==
  ASSUME IInv, NEW k \in DOMAIN prepared, NEW r, InputOf(prepared[k].item, r),
         Single \/ (prepared[k].input.kind = "error" => r.kind = "error"),
         prepared' = [prepared EXCEPT ![k].input = r]
  PROVE  /\ IsSeq(prepared') /\ Len(prepared') = Len(prepared) /\ DOMAIN prepared' = DOMAIN prepared
         /\ \A j \in DOMAIN prepared : Rewritten(prepared[j], prepared'[j])
         /\ \A j \in DOMAIN prepared \ {k} : prepared'[j] = prepared[j]
         /\ prepared'[k].input = r
  <1>1. DOMAIN prepared = 1 .. Len(prepared) /\ Len(prepared) \in Nat /\ IsSeq(prepared)
    BY DoneType DEF IInv, ControlInv
  <1>2. PICK p : p = prepared[k]
    OBVIOUS
  <1>3. p = Entry(p.item, p.input)
    BY <1>2, PreparedType DEF IInv
  <1>4. Rewritten(p, [p EXCEPT !.input = r])
    BY <1>2, <1>3, InputReplaced
  <1>5. prepared' = [prepared EXCEPT ![k] = [p EXCEPT !.input = r]]
    BY <1>2
  <1>6. IsSeq(prepared') /\ Len(prepared') = Len(prepared)
    <2>1. PICK e : e = [p EXCEPT !.input = r]
      OBVIOUS
    <2>2. PICK s : s = prepared
      OBVIOUS
    <2>3. k \in 1 .. Len(s) /\ prepared' = [s EXCEPT ![k] = e] /\ IsSeq(s)
      BY <1>1, <1>5, <2>1, <2>2
    <2>4. IsSeq([s EXCEPT ![k] = e]) /\ Len([s EXCEPT ![k] = e]) = Len(s)
      BY <2>3, ReplaceIsSeq
    <2> QED BY <2>2, <2>3, <2>4
  <1>7. prepared'[k] = [p EXCEPT !.input = r] /\ \A j \in DOMAIN prepared \ {k} : prepared'[j] = prepared[j]
    BY <1>5
  <1>8. prepared'[k].input = r
    BY <1>3, <1>7 DEF Entry
  <1>9. \A j \in DOMAIN prepared : Rewritten(prepared[j], prepared'[j])
    <2>1. ASSUME NEW j \in DOMAIN prepared PROVE Rewritten(prepared[j], prepared'[j])
      <3>1. CASE j = k
        BY <1>2, <1>4, <1>7, <3>1
      <3>2. CASE j # k
        BY <1>7, <3>2, RewrittenItself
      <3> QED BY <3>1, <3>2
    <2> QED BY <2>1
  <1>10. DOMAIN prepared' = DOMAIN prepared
    BY <1>5
  <1> QED BY <1>6, <1>7, <1>8, <1>9, <1>10

(* What all rewriting steps keep.                                          *)
LEMMA RewriteMovesOn ==
  ASSUME IInv, Quiet, pc \in Before, pc \notin {"start", "preparing"}, pc' \notin {"start", "preparing"},
         IsSeq(prepared'), Len(prepared') = Len(prepared),
         \A k \in DOMAIN prepared : Rewritten(prepared[k], prepared'[k]),
         pc' \in Labels \ Ended, pc' # "warning", at' \in Nat \ {0}, callback' \in BOOLEAN,
         ReleasedInv', AliasInv'
  PROVE  IInv'
  <1>1. UNCHANGED <<memory, call, seen, done, events>> /\ items' = items /\ OutputsValid' = OutputsValid
    BY CallKept DEF Quiet
  <1>2. done = <<>> /\ pc \notin Ended /\ pc \notin {"failing", "raised"}
    BY DEF IInv, ProgressInv, Before, Ended
  <1>3. PreparedInv' /\ OrderInv'
    BY <1>2, RewritesKeep
  <1>4. MemoryInv'
    BY <1>1, MemoryKept DEF IInv
  <1>5. ControlInv'
    <2>1. events' \in Nat /\ IsSeq(done')
      BY <1>1 DEF IInv, ControlInv
    <2> QED BY <2>1 DEF ControlInv
  <1>6. SeenInv'
    BY SeenKept DEF IInv
  <1>7. WrittenInv'
    BY <1>2, WrittenKept DEF IInv, Onward, Ended
  <1>8. ProgressInv'
    BY <1>1, <1>2 DEF IInv, ProgressInv, Ended
  <1> QED BY <1>3, <1>4, <1>5, <1>6, <1>7, <1>8 DEF IInv

LEMMA ReleaseNextStep ==
  ASSUME IInv, ReleaseNext
  PROVE  IInv'
  <1>1. /\ pc = "releasing" /\ pc' = "releasing" /\ ~callback /\ at <= Len(prepared) /\ at' = at + 1
        /\ Quiet /\ UNCHANGED <<memory, call, seen, done, events, copies>>
    BY DEF ReleaseNext, Quiet
  <1>2. /\ DOMAIN prepared = 1 .. Len(prepared) /\ Len(prepared) \in Nat /\ at \in Nat \ {0}
        /\ IsSeq(prepared) /\ at \in DOMAIN prepared /\ at' \in Nat \ {0}
    BY <1>1, DoneType DEF IInv, ControlInv
  <1>3. \A k \in DOMAIN prepared :
          ReleasedBeforeWrite(prepared[k]) => k >= at /\ Holds(prepared[k].item, copies[k])
    BY <1>1 DEF IInv, ReleasedInv
  <1>4. AliasInv'
    BY <1>1 DEF AliasInv, Writing
  <1>5. CASE ReleasedBeforeWrite(prepared[at])
    <2>1. prepared' = [prepared EXCEPT ![at].input = OwnedInput(copies[at])] /\ callback' = TRUE
      BY <1>5 DEF ReleaseNext
    <2>2. InputOf(prepared[at].item, OwnedInput(copies[at]))
      BY <1>2, <1>3, <1>5 DEF InputOf, OwnedOf, OwnedInput
    <2>3. prepared[at].input.kind # "error"
      BY <1>5 DEF ReleasedBeforeWrite, IsBuffer
    <2>4. PICK k \in DOMAIN prepared : k = at
      BY <1>2
    <2>5. PICK r : r = OwnedInput(copies[at])
      OBVIOUS
    <2>6. prepared' = [prepared EXCEPT ![k].input = r] /\ InputOf(prepared[k].item, r)
          /\ prepared[k].input.kind # "error"
      BY <2>1, <2>2, <2>3, <2>4, <2>5
    <2>7. /\ IsSeq(prepared') /\ Len(prepared') = Len(prepared) /\ DOMAIN prepared' = DOMAIN prepared
          /\ \A j \in DOMAIN prepared : Rewritten(prepared[j], prepared'[j])
          /\ \A j \in DOMAIN prepared \ {k} : prepared'[j] = prepared[j]
          /\ prepared'[k].input = r
      BY <2>6, ReplaceInput
    <2>8. ReleasedInv'
      <3>1. ASSUME NEW j \in DOMAIN prepared, ReleasedBeforeWrite(prepared[j])'
            PROVE  j >= at' /\ Holds(prepared[j].item, copies[j])'
        <4>1. j # k
          BY <2>5, <2>7, <3>1 DEF ReleasedBeforeWrite, IsBuffer, OwnedInput
        <4>2. prepared'[j] = prepared[j] /\ ReleasedBeforeWrite(prepared[j])
          BY <2>7, <3>1, <4>1 DEF ReleasedBeforeWrite, IsBuffer
        <4> QED BY <1>1, <1>2, <1>3, <2>4, <4>1, <4>2 DEF Holds
      <3> QED BY <1>1, <2>7, <3>1 DEF ReleasedInv, Writing
    <2> QED BY <1>1, <1>2, <1>4, <2>1, <2>7, <2>8, RewriteMovesOn DEF Before, Labels, Writing, Ended
  <1>6. CASE ~ReleasedBeforeWrite(prepared[at])
    <2>1. prepared' = prepared /\ callback' = callback
      BY <1>6 DEF ReleaseNext
    <2>2. ReleasedInv'
      <3>1. ASSUME NEW j \in DOMAIN prepared, ReleasedBeforeWrite(prepared[j])
            PROVE  j >= at'
        BY <1>1, <1>2, <1>3, <1>6, <3>1
      <3>2. \A j \in DOMAIN prepared : ReleasedBeforeWrite(prepared[j])' = ReleasedBeforeWrite(prepared[j])
        BY <2>1 DEF ReleasedBeforeWrite, IsBuffer, Single
      <3> QED BY <1>1, <1>3, <2>1, <3>1, <3>2 DEF ReleasedInv, Writing, Holds
    <2>3. \A k \in DOMAIN prepared : Rewritten(prepared[k], prepared'[k])
      BY <2>1, RewrittenItself
    <2>4. IsSeq(prepared') /\ Len(prepared') = Len(prepared)
      BY <1>2, <2>1
    <2>5. callback' \in BOOLEAN
      BY <2>1, Zenon DEF IInv, ControlInv
    <2> QED BY <1>1, <1>2, <1>4, <2>2, <2>3, <2>4, <2>5, RewriteMovesOn DEF Before, Labels, Writing, Ended
  <1> QED BY <1>5, <1>6

(* What an alias is replaced by is a copy of what its item has contained.  *)
LEMMA CopyAliasOf ==
  ASSUME IInv, done = <<>>, pc \notin {"failing", "raised"}, NEW k \in DOMAIN prepared,
         ~ReleasedBeforeWrite(prepared[k])
  PROVE  LET p == prepared[k]
             r == CopyAlias(p.input)
         IN  /\ InputOf(p.item, r) /\ (p.input.kind = "error" => r.kind = "error")
             /\ ~ReleasedBeforeWrite(p) => ~ReleasedBeforeWrite([p EXCEPT !.input = r])
  <1>1. PICK i : i = prepared[k].item
    OBVIOUS
  <1>2. PICK q : q = prepared[k].input
    OBVIOUS
  <1>3. /\ i \in DOMAIN items /\ i > Len(done) /\ InputOf(i, q)
        /\ prepared[k] = Entry(i, q)
    BY <1>1, <1>2, PreparedType DEF IInv
  <1>4. CASE ~AliasesOutput(q)
    <2>1. CopyAlias(q) = q
      BY <1>4 DEF CopyAlias
    <2>2. [prepared[k] EXCEPT !.input = q] = prepared[k]
      BY <1>3 DEF Entry
    <2> QED BY <1>1, <1>2, <1>3, <2>1, <2>2
  <1>5. CASE AliasesOutput(q)
    <2>1. q.kind = "array" \/ q.kind = "buffer"
      BY <1>5 DEF AliasesOutput, IsBuffer
    <2>2. q.base \in ByteArrays
      BY <1>3, <2>1 DEF InputOf, OwnedOf, InPlaceOf, PinnedOf
    <2>3. content[q.base] = shadow[q.base]
      BY <2>2, NothingWritten DEF IInv, WrittenInv
    <2>4. Holds(i, Read(q))
      BY <1>3, <2>1, <2>3, ReadSeen DEF IInv
    <2>5. PICK r : r = CopyAlias(q)
      OBVIOUS
    <2>6. /\ r.kind = "owned" \/ (r.kind = "copy" /\ Single /\ q.kind = "buffer")
          /\ r.data = Read(q)
      BY <1>5, <2>5 DEF CopyAlias, CopyOfBuffer, OwnedInput, IsBuffer
    <2>9. q.kind = "buffer" => items[i] \notin Exporters
      <3>1. ASSUME q.kind = "buffer" PROVE items[i] \notin Exporters
        <4>1. PinnedOf(i, q)
          BY <1>3, <3>1 DEF InputOf, OwnedOf, InPlaceOf
        <4>2. ~q.mayReenter
          BY <1>2, <3>1 DEF ReleasedBeforeWrite, IsBuffer
        <4> QED BY <4>1, <4>2, ObjectKinds DEF PinnedOf
      <3> QED BY <3>1
    <2>7. InputOf(i, r)
      BY <2>4, <2>6, <2>9 DEF InputOf, OwnedOf
    <2>8. ~ReleasedBeforeWrite([prepared[k] EXCEPT !.input = r])
      BY <1>3, <2>6 DEF ReleasedBeforeWrite, IsBuffer, Entry
    <2> QED BY <1>1, <1>2, <2>1, <2>5, <2>7, <2>8
  <1> QED BY <1>4, <1>5

LEMMA StageAliasesStep ==
  ASSUME IInv, StageAliases
  PROVE  IInv'
  <1>1. /\ pc \in {"dropped", "releasing"} /\ pc' \in {"writing", "allocating"} /\ ~callback
        /\ at > Len(prepared) /\ at' = at /\ callback' = callback
        /\ Quiet /\ UNCHANGED <<memory, call, seen, done, events, copies>>
        /\ prepared' = [k \in DOMAIN prepared |-> [prepared[k] EXCEPT !.input = CopyAlias(prepared[k].input)]]
    BY DEF StageAliases, Quiet, Goto
  <1>2. /\ DOMAIN prepared = 1 .. Len(prepared) /\ Len(prepared) \in Nat /\ at \in Nat \ {0}
        /\ done = <<>> /\ pc \notin {"failing", "raised"} /\ OutputsValid
    BY <1>1, DoneType DEF IInv, ControlInv, ProgressInv, Before, Labels, Writing, Ended
  <1>3. callback' \in BOOLEAN
    BY <1>1, Zenon DEF IInv, ControlInv
  <1>4. IsSeq(prepared') /\ Len(prepared') = Len(prepared) /\ DOMAIN prepared' = DOMAIN prepared
    <2>1. PICK n \in Nat : n = Len(prepared)
      BY <1>2
    <2>2. PICK t : t = prepared'
      OBVIOUS
    <2>3. t = [k \in 1 .. n |-> t[k]]
      BY <1>1, <1>2, <2>1, <2>2
    <2>4. IsSeq(t) /\ Len(t) = n
      BY <2>3, FunctionIsSeq
    <2> QED BY <1>1, <2>1, <2>2, <2>4
  <1>8. \A k \in DOMAIN prepared : ~ReleasedBeforeWrite(prepared[k])
    <2>1. \A k \in DOMAIN prepared : ~(k >= at)
      BY <1>1, <1>2
    <2> QED BY <1>1, <2>1 DEF IInv, ReleasedInv
  <1>5. \A k \in DOMAIN prepared : Rewritten(prepared[k], prepared'[k])
    <2>1. ASSUME NEW k \in DOMAIN prepared PROVE Rewritten(prepared[k], prepared'[k])
      <3>1. PICK p : p = prepared[k]
        OBVIOUS
      <3>2. PICK r : r = CopyAlias(p.input)
        OBVIOUS
      <3>3. p = Entry(p.item, p.input)
        BY <3>1, PreparedType DEF IInv
      <3>4. InputOf(p.item, r) /\ (p.input.kind = "error" => r.kind = "error")
        BY <1>2, <1>8, <3>1, <3>2, CopyAliasOf
      <3>5. Rewritten(p, [p EXCEPT !.input = r])
        BY <3>3, <3>4, InputReplaced
      <3> QED BY <1>1, <3>1, <3>2, <3>5
    <2> QED BY <2>1
  <1>6. ReleasedInv'
    <2>2. \A k \in DOMAIN prepared : ~ReleasedBeforeWrite(prepared'[k])
      BY <1>1, <1>2, <1>8, CopyAliasOf
    <2>3. \A k \in DOMAIN prepared : ReleasedBeforeWrite(prepared[k])' = ReleasedBeforeWrite(prepared'[k])
      BY DEF ReleasedBeforeWrite, IsBuffer
    <2> QED BY <1>1, <1>4, <2>2, <2>3 DEF ReleasedInv
  <1>7. AliasInv'
    <2>1. ASSUME NEW k \in DOMAIN prepared PROVE Apart(prepared[k].input)'
      <3>1. PICK q : q = prepared[k].input
        OBVIOUS
      <3>2. InputOf(prepared[k].item, q)
        BY <3>1, PreparedType DEF IInv
      <3>3. Apart(CopyAlias(q))
        BY <1>2, <3>2, CopiedApart DEF IInv, OutputsValid
      <3>4. PICK p : p = prepared[k]
        OBVIOUS
      <3>5. p = Entry(p.item, p.input)
        BY <3>4, PreparedType DEF IInv
      <3>6. [p EXCEPT !.input = CopyAlias(q)].input = CopyAlias(q)
        BY <3>5 DEF Entry
      <3>7. prepared'[k].input = CopyAlias(q)
        BY <1>1, <3>1, <3>4, <3>6
      <3>8. Destinations' = Destinations
        BY <1>1, CallKept
      <3> QED BY <3>3, <3>7, <3>8 DEF Apart
    <2> QED BY <1>4, <2>1 DEF AliasInv
  <1> QED BY <1>1, <1>2, <1>3, <1>4, <1>5, <1>6, <1>7, RewriteMovesOn DEF Before, Labels, Writing, Ended

LEMMA ExportNormalizedStep ==
  ASSUME IInv, ExportNormalized
  PROVE  IInv'
  <1>1. /\ pc = "arguments" /\ Single /\ Quiet /\ UNCHANGED <<memory, call, seen, done, events, copies>>
        /\ at' = at
    BY DEF ExportNormalized, Quiet, Single
  <1>2. CASE ~Translatable
    <2>1. UNCHANGED prepared /\ EndsAt("failing")
      BY <1>2 DEF ExportNormalized
    <2> QED BY <1>1, <2>1, Raises DEF Ended
  <1>3. CASE Translatable
    <2> DEFINE b == items[1]
               r == IF call.translates THEN OwnedInput(content[b]) ELSE ExportOf(b)
    <2>1. /\ pc' = "exported" /\ callback' = call.custom
          /\ prepared' = IF b \notin ByteArrays THEN prepared ELSE [prepared EXCEPT ![1].input = r]
      BY <1>3 DEF ExportNormalized, Goto
    <2>2. /\ DOMAIN prepared = 1 .. Len(prepared) /\ Len(prepared) \in Nat /\ at \in Nat \ {0}
          /\ IsSeq(prepared) /\ done = <<>> /\ Len(done) = 0
      BY <1>1, DoneType DEF IInv, ControlInv, ProgressInv, Before, Labels, Writing, Ended
    <2>3. ReleasedInv' /\ AliasInv'
      BY <2>1 DEF ReleasedInv, AliasInv, Writing
    <2>4. /\ IsSeq(prepared') /\ Len(prepared') = Len(prepared)
          /\ \A k \in DOMAIN prepared : Rewritten(prepared[k], prepared'[k])
      <3>1. CASE prepared' = prepared
        BY <2>2, <3>1, RewrittenItself
      <3>2. CASE 1 \in DOMAIN prepared /\ b \in ByteArrays
        <4>1. prepared[1].item = 1 /\ 1 \in DOMAIN items
          <5>1. prepared[1].item \in DOMAIN items
            BY <3>2, PreparedType DEF IInv
          <5>2. call \in Calls
            BY DEF IInv, MemoryInv
          <5>3. Len(items) = 1 /\ DOMAIN items = 1 .. 1
            BY <1>1, <5>2, CallType
          <5> QED BY <5>1, <5>3
        <4>2. /\ b \notin released /\ Value(b, shadow) = shadow[b] /\ content[b] = shadow[b]
              /\ IsSeq(shadow[b]) /\ Len(content[b]) \in Nat /\ b \notin Exporters
          BY <1>1, <2>2, <3>2, NothingWritten, ObjectKinds, ValueOf, NotReleased, ContentTypes DEF IInv, WrittenInv
        <4>3. Holds(1, shadow[b])
          BY <2>2, <4>1, <4>2, ItemSeen DEF IInv, Holds
        <4>4. InputOf(1, OwnedInput(content[b]))
          BY <4>2, <4>3 DEF InputOf, OwnedOf, OwnedInput
        <4>5. InputOf(1, ExportOf(b))
          <5>1. PinnedOf(1, ExportOf(b))
            BY <3>2, <4>2 DEF PinnedOf, ExportOf, BufferInput, Owner
          <5> QED BY <5>1 DEF InputOf
        <4>6. PICK q : q = r
          OBVIOUS
        <4>7. PICK k \in DOMAIN prepared : k = 1
          BY <3>2
        <4>8. InputOf(prepared[k].item, q)
          BY <4>1, <4>4, <4>5, <4>6, <4>7
        <4>9. prepared' = [prepared EXCEPT ![k].input = q]
          BY <2>1, <3>2, <4>6, <4>7
        <4> QED BY <1>1, <4>8, <4>9, ReplaceInput
      <3>3. 1 \notin DOMAIN prepared => [prepared EXCEPT ![1].input = r] = prepared
        <4>1. PICK n \in Nat : n = Len(prepared)
          BY <2>2
        <4>2. prepared = [k \in 1 .. n |-> prepared[k]]
          BY <2>2, <4>1 DEF IsSeq
        <4> QED BY <4>2
      <3> QED BY <2>1, <3>1, <3>2, <3>3
    <2>5. callback' \in BOOLEAN
      <3>1. call.custom \in BOOLEAN
        BY Base64BatchAssumption DEF IInv, MemoryInv, IsCall
      <3> QED BY <2>1, <3>1, Zenon
    <2> QED BY <1>1, <2>1, <2>2, <2>3, <2>4, <2>5, RewriteMovesOn DEF Before, Labels, Writing, Ended
  <1> QED BY <1>2, <1>3
----------------------------------------------------------------------------
(* The steps that write.                                                   *)

(* A write stays within the next destination, and keeps its size.          *)
LEMMA WriteKeeps ==
  ASSUME IInv, pc \in Writing, next <= Len(items), NEW cells, IsSeq(cells),
         Len(cells) <= Len(content[destination]), WritePrefix(cells),
         UNCHANGED <<block, released, kept, shadow, call>>
  PROVE  /\ MemoryInv' /\ next \in DOMAIN outputs /\ destination \in ByteArrays
         /\ content[destination] = shadow[destination]
         /\ content'[destination] = cells \o SubSeq(content[destination], Len(cells) + 1, Len(content[destination]))
         /\ \A b \in ByteArrays \ {destination} : content'[b] = content[b]
         /\ \A b \in ByteArrays : Len(content'[b]) = Len(content[b])
  <1>1. /\ next \in Nat /\ next > Len(done) /\ Len(items) \in Nat /\ Len(done) \in Nat
        /\ DOMAIN outputs = 1 .. Len(outputs) /\ Len(outputs) = Len(items)
    BY WritingFacts, DoneType, CallType DEF MemoryInv, OutputsValid
  <1>2. next \in DOMAIN outputs
    BY <1>1, DoneType, WritingFacts
  <1>3. PICK k \in DOMAIN outputs : k = next
    BY <1>2
  <1>4. outputs[k] \in ByteArrays /\ content[outputs[k]] = shadow[outputs[k]]
    BY <1>1, <1>3, WritingFacts, DestinationUntouched
  <1>5. PICK d \in ByteArrays : d = destination
    BY <1>3, <1>4 DEF destination
  <1>6. content[d] = shadow[d] /\ IsSeq(content[d]) /\ Len(content[d]) \in Nat
    BY <1>3, <1>4, <1>5, WritingFacts, ContentTypes DEF destination
  <1>7. PICK u : u = cells \o SubSeq(content[d], Len(cells) + 1, Len(content[d]))
    OBVIOUS
  <1>8. IsSeq(u) /\ Len(u) = Len(content[d])
    <2>1. PICK t : t = content[d]
      OBVIOUS
    <2>2. IsSeq(t) /\ Len(cells) <= Len(t) /\ u = cells \o SubSeq(t, Len(cells) + 1, Len(t))
      BY <1>5, <1>6, <1>7, <2>1
    <2> QED BY <2>1, <2>2, OverlayIsSeq
  <1>9. /\ content' = [content EXCEPT ![d] = u]
        /\ content = [b \in ByteArrays |-> content[b]]
    BY <1>5, <1>7 DEF WritePrefix, IInv, MemoryInv
  <1>10. /\ content' = [b \in ByteArrays |-> content'[b]] /\ content'[d] = u
         /\ \A b \in ByteArrays \ {d} : content'[b] = content[b]
    BY <1>9
  <1>11. \A b \in ByteArrays : IsSeq(content'[b]) /\ Len(content'[b]) = Len(content[b])
    BY <1>8, <1>10, ContentTypes DEF IInv
  <1>12. MemoryInv'
    <2>1. \A b \in ByteArrays : /\ IsSeq(shadow[b]) /\ Len(shadow[b]) = Len(content[b])
                                /\ Len(content[b]) <= BlockSize
      BY DEF IInv, MemoryInv
    <2>2. \A b \in ByteArrays : /\ IsSeq(content'[b]) /\ IsSeq(shadow'[b])
                                /\ Len(shadow'[b]) = Len(content'[b]) /\ Len(content'[b]) <= BlockSize
      BY <1>11, <2>1
    <2>3. ASSUME NEW v \in Views \ released
          PROVE  Offset[v] + Size[v] <= Len(content'[Base[v]])
      <3>1. Base[v] \in ByteArrays /\ Offset[v] + Size[v] <= Len(content[Base[v]])
        BY ObjectKinds DEF IInv, MemoryInv
      <3> QED BY <1>11, <3>1
    <2> QED BY <1>10, <2>2, <2>3 DEF IInv, MemoryInv
  <1> QED BY <1>2, <1>5, <1>6, <1>7, <1>10, <1>11, <1>12

(* An input is one while no exported bytearray changes its size.           *)
LEMMA InputKeptWritten ==
  ASSUME NEW i, NEW q, InputOf(i, q), UNCHANGED <<shadow, released, call, seen>>,
         \A b \in ByteArrays : Len(content'[b]) = Len(content[b])
  PROVE  InputOf(i, q)'
  <1>1. items' = items /\ Single' = Single
    BY CallKept
  <1>2. CASE OwnedOf(i, q)
    <2>1. OwnedOf(i, q)'
      BY <1>1, <1>2 DEF OwnedOf, Holds
    <2> QED BY <2>1 DEF InputOf
  <1>3. CASE InPlaceOf(i, q)
    <2>1. InPlaceOf(i, q)'
      BY <1>1, <1>3 DEF InPlaceOf, Holds
    <2> QED BY <2>1 DEF InputOf
  <1>4. CASE PinnedOf(i, q)
    <2>1. PinnedOf(i, q)'
      BY <1>1, <1>4 DEF PinnedOf, Owner
    <2> QED BY <2>1 DEF InputOf
  <1>5. CASE q.kind = "error"
    BY <1>5 DEF InputOf
  <1> QED BY <1>2, <1>3, <1>4, <1>5 DEF InputOf

LEMMA ConversionKept ==
  ASSUME NEW k, NEW cells, ConversionOf(k, cells), seen' = seen
  PROVE  ConversionOf(k, cells)'
  BY DEF ConversionOf

(* The input of the item converted is taken off, those left are of later   *)
(* items.                                                                  *)
LEMMA InputTaken ==
  ASSUME IInv, TakeInput
  PROVE  \E b \in {0, 1} :
           /\ IsSeq(prepared') /\ Len(prepared') \in Nat /\ DOMAIN prepared' = 1 .. Len(prepared')
           /\ Len(prepared') + b = Len(prepared)
           /\ \A k \in 1 .. Len(prepared') : k + b \in DOMAIN prepared /\ prepared'[k] = prepared[k + b]
           /\ \A k \in 1 .. Len(prepared') : prepared'[k].item > next
           /\ b = 1 => IsPrepared
  <1>1. PICK n \in Nat : n = Len(prepared)
    BY DoneType DEF IInv
  <1>2. DOMAIN prepared = 1 .. n /\ IsSeq(prepared) /\ (prepared = <<>> <=> n = 0)
    BY <1>1, DoneType DEF IInv, ControlInv
  <1>3. \A k \in 1 .. n : prepared[k].item \in Nat
    BY <1>2, PreparedType DEF IInv
  <1>4. next \in Nat
    BY DoneType DEF IInv
  <1>5. CASE IsPrepared
    <2>1. prepared # <<>> /\ prepared' = Tail(prepared) /\ prepared[1].item = next
      BY <1>5 DEF TakeInput, IsPrepared
    <2>2. IsSeq(prepared') /\ Len(prepared') = n - 1 /\ \A k \in 1 .. n - 1 : prepared'[k] = prepared[k + 1]
      BY <1>1, <1>2, <2>1, TailIsSeq
    <2>3. PICK m \in Nat : m = n - 1 /\ m = Len(prepared') /\ DOMAIN prepared' = 1 .. m
      BY <1>2, <2>1, <2>2, IsSeqFacts
    <2>4. \A k \in 1 .. m : k + 1 \in 1 .. n /\ 1 \in 1 .. n /\ 1 < k + 1
      BY <2>3
    <2>5. \A k \in 1 .. m : prepared'[k].item > next
      <3>1. ASSUME NEW k \in 1 .. m PROVE prepared'[k].item > next
        <4>1. PICK j \in 1 .. n : j = k + 1
          BY <2>4
        <4>2. prepared[1].item < prepared[j].item
          BY <1>2, <2>4, <4>1 DEF IInv, OrderInv
        <4>3. prepared'[k] = prepared[j] /\ prepared[j].item \in Nat
          BY <1>3, <2>2, <2>3, <4>1
        <4> QED BY <1>4, <2>1, <4>2, <4>3
      <3> QED BY <3>1
    <2>6. Len(prepared') + 1 = Len(prepared)
      BY <1>1, <2>3
    <2> QED BY <1>2, <1>5, <2>2, <2>3, <2>4, <2>5, <2>6
  <1>6. CASE ~IsPrepared
    <2>1. prepared' = prepared
      BY <1>6 DEF TakeInput
    <2>2. \A k \in 1 .. n : prepared[k].item > next
      BY <1>2, <1>3, <1>4, <1>6, NextIsFirst DEF IInv
    <2> QED BY <1>1, <1>2, <2>1, <2>2
  <1> QED BY <1>5, <1>6

(* The next item is converted into its destination.                        *)
LEMMA ItemConverted ==
  ASSUME IInv, pc \in Writing, next <= Len(items), NextInput.kind # "error",
         NEW cells, IsSeq(cells), Len(cells) <= Len(content[destination]), ConversionOf(next, cells),
         WritePrefix(cells), done' = Append(done, cells), TakeInput,
         pc' = "writing", at' = at, callback' = FALSE,
         UNCHANGED <<block, released, kept, shadow, call, copies, seen, events>>
  PROVE  IInv'
  <1>1. /\ items' = items /\ outputs' = outputs /\ OutputsValid' = OutputsValid /\ Destinations' = Destinations
        /\ \A o : SnapshotPolicy(o)' = SnapshotPolicy(o)
        /\ \A q : Apart(q)' = Apart(q)
    BY CallKept
  <1>2. PICK n \in Nat : n = Len(done) /\ next = n + 1 /\ DOMAIN done = 1 .. n
    BY WritingFacts, DoneType
  <1>3. /\ IsSeq(done') /\ Len(done') = n + 1 /\ DOMAIN done' = 1 .. n + 1 /\ done' # <<>>
        /\ \A k \in 1 .. n : done'[k] = done[k]
        /\ done'[n + 1] = cells
    <2>1. IsSeq(done)
      BY DEF IInv, ControlInv
    <2> QED BY <1>2, <2>1, AppendIsSeq, IsSeqFacts
  <1>4. /\ MemoryInv' /\ next \in DOMAIN outputs /\ destination \in ByteArrays
        /\ content[destination] = shadow[destination]
        /\ content'[destination] = cells \o SubSeq(content[destination], Len(cells) + 1, Len(content[destination]))
        /\ \A b \in ByteArrays \ {destination} : content'[b] = content[b]
        /\ \A b \in ByteArrays : Len(content'[b]) = Len(content[b])
    BY WriteKeeps
  <1>5. PICK b \in {0, 1} :
          /\ IsSeq(prepared') /\ Len(prepared') \in Nat /\ DOMAIN prepared' = 1 .. Len(prepared')
          /\ Len(prepared') + b = Len(prepared)
          /\ \A k \in 1 .. Len(prepared') : k + b \in DOMAIN prepared /\ prepared'[k] = prepared[k + b]
          /\ \A k \in 1 .. Len(prepared') : prepared'[k].item > next
          /\ b = 1 => IsPrepared
    BY InputTaken
  <1>6. PICK l \in Nat : l = Len(prepared')
    BY <1>5
  <1>7. DOMAIN prepared = 1 .. l + b /\ DOMAIN prepared' = 1 .. l
    BY <1>5, <1>6, DoneType DEF IInv
  <1>8. ControlInv'
    <2>1. at' \in Nat \ {0} /\ events' \in Nat
      BY DEF IInv, ControlInv
    <2>2. callback' \in BOOLEAN /\ pc' \in Labels
      BY DEF Labels
    <2> QED BY <1>3, <1>5, <2>1, <2>2 DEF ControlInv
  <1>9. SeenInv'
    <2>1. /\ seen = [k \in DOMAIN items |-> seen[k]]
          /\ \A k \in DOMAIN items : k > Len(done) /\ items[k] \notin released => Value(items[k], shadow) \in seen[k]
      BY DEF IInv, SeenInv
    <2>2. \A k \in DOMAIN items : k > n + 1 => k > n
      BY <1>2, CallType DEF IInv, MemoryInv
    <2>3. \A k \in DOMAIN items' :
            k > Len(done') /\ items'[k] \notin released' => Value(items'[k], shadow') \in seen'[k]
      BY <1>1, <1>2, <1>3, <2>1, <2>2
    <2> QED BY <1>1, <2>1, <2>3 DEF SeenInv
  <1>10. PreparedInv'
    <2>1. ASSUME NEW k \in 1 .. l
          PROVE  LET p == prepared[k]
                 IN  (p.item \in DOMAIN items /\ p = Entry(p.item, p.input) /\ InputOf(p.item, p.input))'
      <3>1. PICK p : p = prepared[k]'
        OBVIOUS
      <3>2. PICK j \in DOMAIN prepared : j = k + b
        BY <1>5, <1>6
      <3>3. p = prepared[j]
        BY <1>5, <1>6, <3>1, <3>2
      <3>4. p.item \in DOMAIN items /\ p = Entry(p.item, p.input) /\ InputOf(p.item, p.input)
        BY <3>3, PreparedType DEF IInv
      <3>5. InputOf(p.item, p.input)'
        BY <1>4, <3>4, InputKeptWritten
      <3>6. p = Entry(p.item, p.input)'
        BY <1>1, <3>4 DEF Entry
      <3> QED BY <1>1, <3>1, <3>4, <3>5, <3>6
    <2> QED BY <1>7, <2>1 DEF PreparedInv
  <1>11. OrderInv'
    <2>1. \A k \in 1 .. l : prepared'[k].item > Len(done')
      BY <1>2, <1>3, <1>5, <1>6
    <2>2. ASSUME NEW j \in 1 .. l, NEW k \in 1 .. l, j < k
          PROVE  prepared'[j].item < prepared'[k].item
      <3>1. j + b \in DOMAIN prepared /\ k + b \in DOMAIN prepared /\ j + b < k + b
        BY <1>5, <1>6, <2>2
      <3> QED BY <1>5, <1>6, <3>1 DEF IInv, OrderInv
    <2>3. Covers(Len(items))'
      <3>1. ASSUME NEW i \in 1 .. Len(items), i > n + 1, SnapshotPolicy(items[i]) # NoPolicy
            PROVE  \E k \in 1 .. l :
                     prepared'[k].item = i \/ (prepared'[k].item < i /\ prepared'[k].input.kind = "error")
        <4>1. i > Len(done)
          BY <1>2, <3>1, CallType DEF IInv, MemoryInv
        <4>2. PICK j \in DOMAIN prepared :
                prepared[j].item = i \/ (prepared[j].item < i /\ prepared[j].input.kind = "error")
          BY <3>1, <4>1, WritingFacts DEF Covers
        <4>3. ~(j = 1 /\ b = 1)
          <5>1. ASSUME j = 1, b = 1 PROVE FALSE
            <6>1. prepared[1].item = next /\ NextInput = prepared[1].input
              BY <1>5, <5>1 DEF IsPrepared, NextInput
            <6> QED BY <1>2, <3>1, <4>2, <5>1, <6>1
          <5> QED BY <5>1
        <4>4. PICK k \in 1 .. l : j = k + b
          <5>1. j \in 1 .. l + b /\ ~(j = 1 /\ b = 1)
            BY <1>7, <4>3
          <5>2. j - b \in 1 .. l /\ j = (j - b) + b
            BY <1>5, <5>1
          <5> QED BY <5>2
        <4> QED BY <1>5, <1>6, <4>2, <4>4
      <3> QED BY <1>1, <1>3, <1>7, <3>1 DEF Covers
    <2> QED BY <1>7, <2>1, <2>2, <2>3 DEF OrderInv
  <1>12. ProgressInv'
    <2>1. OutputsValid' /\ Len(done') <= Len(items')
      BY <1>1, <1>2, <1>3, WritingFacts
    <2>2. pc' \notin Before
      BY DEF Before, Writing
    <2> QED BY <2>1, <2>2 DEF ProgressInv
  <1>13. ReleasedInv'
    <2>1. \A k \in DOMAIN prepared : ~ReleasedBeforeWrite(prepared[k])
      BY DEF IInv, ReleasedInv
    <2>2. \A k \in 1 .. l : ~ReleasedBeforeWrite(prepared[k])'
      <3>1. ASSUME NEW k \in 1 .. l PROVE ~ReleasedBeforeWrite(prepared[k])'
        <4>1. prepared'[k] = prepared[k + b] /\ k + b \in DOMAIN prepared
          BY <1>5, <1>6
        <4> QED BY <2>1, <4>1 DEF ReleasedBeforeWrite, IsBuffer
      <3> QED BY <3>1
    <2> QED BY <1>7, <2>2 DEF ReleasedInv
  <1>14. AliasInv'
    <2>1. ASSUME NEW k \in 1 .. l PROVE Apart(prepared[k].input)'
      <3>1. PICK j \in DOMAIN prepared : j = k + b
        BY <1>5, <1>6
      <3>2. prepared'[k] = prepared[j] /\ Apart(prepared[j].input)
        BY <1>5, <1>6, <3>1, WritingFacts
      <3> QED BY <1>1, <3>2 DEF Apart
    <2> QED BY <1>7, <2>1 DEF AliasInv
  <1>15. WrittenInv'
    <2>1. UnreachedUntouched'
      <3>1. ASSUME NEW c \in ByteArrays, content'[c] # shadow'[c]
            PROVE  \E k \in DOMAIN outputs : outputs[k] = c /\ k <= n + 1
        <4>1. CASE c = destination
          BY <1>2, <1>4, <4>1 DEF destination
        <4>2. CASE c # destination
          <5>1. content[c] # shadow[c]
            BY <1>4, <3>1, <4>2
          <5>2. PICK k \in DOMAIN outputs : outputs[k] = c /\ (k <= Len(done) \/ k = next)
            BY <5>1, WritingFacts DEF UnreachedUntouched
          <5>3. k \in Nat
            BY CallType DEF IInv, MemoryInv
          <5> QED BY <1>2, <5>2, <5>3
        <4> QED BY <4>1, <4>2
      <3> QED BY <1>1, <1>3, <3>1 DEF UnreachedUntouched
    <2>2. \A k \in 1 .. n + 1 : k \in 1 .. n \/ k = n + 1
      BY <1>2
    <2>3. ASSUME NEW k \in 1 .. n + 1 PROVE ConversionOf(k, done[k])'
      <3>1. PICK t : t = done'[k]
        OBVIOUS
      <3>2. ConversionOf(k, t)
        BY <1>2, <1>3, <2>2, <3>1, WritingFacts DEF WrittenInv
      <3>3. ConversionOf(k, t)'
        BY <3>2, ConversionKept
      <3> QED BY <3>1, <3>3 DEF ConversionOf
    <2>5. Settled
      BY DEF Settled, Writing, Ended
    <2>4. ASSUME ~call.decoding, NEW k \in 1 .. n + 1 PROVE Overlaid(k)'
      <3>1. CASE k = n + 1
        <4>1. outputs[k] = destination
          BY <1>2, <3>1 DEF destination
        <4> QED BY <1>1, <1>3, <1>4, <3>1, <4>1 DEF Overlaid
      <3>2. CASE k \in 1 .. n
        <4>1. k \in DOMAIN outputs /\ k # next
          BY <1>1, <1>2, <1>4, <3>2, CallType DEF IInv, MemoryInv
        <4>2. outputs[k] \in ByteArrays /\ outputs[k] # destination
          BY <1>4, <4>1, WritingFacts DEF OutputsValid, IsInjective, Destinations, Range, destination
        <4>3. Overlaid(k)
          BY <1>2, <2>4, <2>5, <3>2, WritingFacts DEF WrittenInv
        <4> QED BY <1>1, <1>3, <1>4, <3>2, <4>2, <4>3 DEF Overlaid
      <3> QED BY <2>2, <3>1, <3>2
    <2> QED BY <1>3, <2>1, <2>3, <2>4 DEF WrittenInv
  <1> QED BY <1>4, <1>8, <1>9, <1>10, <1>11, <1>12, <1>13, <1>14, <1>15 DEF IInv

LEMMA ConvertStep ==
  ASSUME IInv, Convert
  PROVE  IInv'
  <1> DEFINE bytes == Read(NextInput)
  <1>1. /\ pc = "writing" /\ pc' = "writing" /\ next <= Len(items) /\ NextInput.kind # "error"
        /\ ~callback /\ callback' = callback /\ at' = at
        /\ Len(bytes) <= Len(content[destination]) /\ WritePrefix(Encoded(bytes))
        /\ done' = Append(done, Encoded(bytes)) /\ TakeInput
        /\ UNCHANGED <<block, released, kept, shadow, call, copies, seen, events>>
    BY DEF Convert, Converting, Fits
  <1>2. Holds(next, bytes)
    BY <1>1, NextInputSeen DEF Writing
  <1>3. PICK m : m = bytes
    OBVIOUS
  <1>4. IsSeq(m) /\ m \in seen[next]
    BY <1>2, <1>3 DEF Holds
  <1>5. IsSeq(Encoded(m)) /\ Len(Encoded(m)) = Len(m)
    BY <1>4, EncodedIsSeq
  <1>6. ConversionOf(next, Encoded(m))
    BY <1>4 DEF ConversionOf
  <1>7. callback' = FALSE
    BY <1>1, Zenon DEF IInv, ControlInv
  <1>8. PICK cells : cells = Encoded(m)
    OBVIOUS
  <1>9. /\ IsSeq(cells) /\ Len(cells) <= Len(content[destination]) /\ ConversionOf(next, cells)
        /\ WritePrefix(cells) /\ done' = Append(done, cells)
    BY <1>1, <1>3, <1>5, <1>6, <1>8
  <1> QED BY <1>1, <1>7, <1>9, ItemConverted DEF Writing

(* The conversion held back while its warning was shown is written.        *)
LEMMA WarningShownStep ==
  ASSUME IInv, WarningShown
  PROVE  IInv'
  <1>1. /\ pc = "warning" /\ next <= Len(items) /\ NextInput.kind # "error" /\ ConversionOf(next, decoded)
        /\ at' = at
        /\ UNCHANGED <<block, released, kept, shadow, call, copies, seen, events>>
    BY DEF WarningShown, IInv, ProgressInv, WrittenInv
  <1>2. CASE Fits(decoded)
    <2>1. /\ WritePrefix(decoded) /\ done' = Append(done, decoded) /\ TakeInput /\ pc' = "writing"
          /\ callback' = FALSE /\ Len(decoded) <= Len(content[destination])
      BY <1>2 DEF WarningShown, Fits, Goto
    <2>2. IsSeq(decoded)
      BY <1>1, EncodedIsSeq DEF ConversionOf
    <2>3. PICK cells : cells = decoded
      OBVIOUS
    <2>4. /\ IsSeq(cells) /\ Len(cells) <= Len(content[destination]) /\ ConversionOf(next, cells)
          /\ WritePrefix(cells) /\ done' = Append(done, cells)
      BY <1>1, <2>1, <2>2, <2>3
    <2> QED BY <1>1, <2>1, <2>4, ItemConverted DEF Writing
  <1>3. CASE ~Fits(decoded)
    <2>1. EndsAt("failing") /\ UNCHANGED <<content, done, prepared>>
      BY <1>3 DEF WarningShown
    <2>2. Quiet
      BY <1>1, <2>1 DEF Quiet, memory
    <2> QED BY <1>1, <2>1, <2>2, Raises DEF Ended
  <1> QED BY <1>2, <1>3

(* A decode that fails writes a part of its own destination at most.       *)
LEMMA FailureWrites ==
  ASSUME IInv, ConvertFails
  PROVE  \E cells : /\ IsSeq(cells) /\ Len(cells) <= Len(content[destination]) /\ WritePrefix(cells)
                    /\ ~call.decoding => Len(cells) = 0
  <1> DEFINE bytes == Read(NextInput)
  <1>1. /\ pc \in Writing /\ next <= Len(items) /\ NextInput.kind # "error"
        /\ \E n \in WrittenOnError(bytes) : WritePrefix(SubSeq(Encoded(bytes), 1, n))
    BY DEF ConvertFails, Converting, Writing
  <1>2. Holds(next, bytes)
    BY <1>1, NextInputSeen
  <1>3. PICK m : m = bytes
    OBVIOUS
  <1>4. IsSeq(m)
    BY <1>2, <1>3 DEF Holds
  <1>5. IsSeq(Encoded(m)) /\ Len(Encoded(m)) = Len(m) /\ DOMAIN m = 1 .. Len(m) /\ Len(m) \in Nat
    BY <1>4, EncodedIsSeq, IsSeqFacts
  <1>6. PICK n \in WrittenOnError(m) : WritePrefix(SubSeq(Encoded(m), 1, n))
    BY <1>1, <1>3
  <1>7. Len(content[destination]) \in Nat
    <2>1. outputs[next] \in ByteArrays
      <3>1. /\ DOMAIN outputs = 1 .. Len(outputs) /\ Len(outputs) = Len(items) /\ Len(items) \in Nat
            /\ next \in Nat /\ next >= 1
        BY <1>1, WritingFacts, DoneType, CallType DEF MemoryInv, OutputsValid
      <3>2. next \in DOMAIN outputs
        BY <1>1, <3>1
      <3> QED BY <1>1, <3>2, WritingFacts DEF OutputsValid, Destinations, Range
    <2> QED BY <2>1, ContentTypes DEF IInv, destination
  <1>8. /\ n \in Nat /\ n <= Len(m) /\ n <= Len(content[destination])
        /\ n # 0 => call.decoding
    BY <1>5, <1>6, <1>7 DEF WrittenOnError
  <1>9. PICK cells : cells = SubSeq(Encoded(m), 1, n)
    OBVIOUS
  <1>10. IsSeq(cells) /\ Len(cells) = n /\ WritePrefix(cells)
    BY <1>5, <1>6, <1>8, <1>9, PrefixIsSeq
  <1> QED BY <1>8, <1>10

LEMMA ConvertFailsStep ==
  ASSUME IInv, ConvertFails
  PROVE  IInv'
  <1>1. /\ pc = "writing" /\ pc' = "failing" /\ next <= Len(items)
        /\ callback' = DropRunsPython /\ at' = at
        /\ UNCHANGED <<block, released, kept, shadow, call, prepared, copies, done, seen, events>>
    BY DEF ConvertFails, Converting, EndsAt, Goto
  <1>2. PICK cells : /\ IsSeq(cells) /\ Len(cells) <= Len(content[destination]) /\ WritePrefix(cells)
                     /\ ~call.decoding => Len(cells) = 0
    BY FailureWrites
  <1>3. /\ MemoryInv' /\ next \in DOMAIN outputs /\ destination \in ByteArrays
        /\ content[destination] = shadow[destination]
        /\ content'[destination] = cells \o SubSeq(content[destination], Len(cells) + 1, Len(content[destination]))
        /\ \A b \in ByteArrays \ {destination} : content'[b] = content[b]
        /\ \A b \in ByteArrays : Len(content'[b]) = Len(content[b])
    BY <1>1, <1>2, WriteKeeps DEF Writing
  <1>4. ~call.decoding => content'[destination] = content[destination]
    <2>1. ASSUME ~call.decoding PROVE content'[destination] = content[destination]
      <3>1. Len(cells) = 0
        BY <1>2, <2>1
      <3>2. PICK t : t = content[destination]
        OBVIOUS
      <3>3. IsSeq(t)
        BY <1>3, <3>2, ContentTypes DEF IInv
      <3>4. cells = <<>>
        BY <1>2, <3>1, IsSeqFacts
      <3>5. content'[destination] = <<>> \o SubSeq(t, 1, Len(t))
        <4>1. Len(cells) + 1 = 1
          BY <3>1
        <4> QED BY <1>3, <3>2, <3>4, <4>1
      <3>6. SubSeq(t, 1, Len(t)) = t /\ <<>> \o t = t
        BY <3>3 DEF IsSeq
      <3> QED BY <3>2, <3>5, <3>6
    <2> QED BY <2>1
  <1>5. /\ items' = items /\ outputs' = outputs /\ OutputsValid' = OutputsValid /\ next' = next
        /\ \A o : SnapshotPolicy(o)' = SnapshotPolicy(o)
    BY <1>1, CallKept DEF next
  <1>6. ControlInv'
    <2>1. callback' \in BOOLEAN
      BY <1>1, DropIsBoolean
    <2>2. pc' \in Labels /\ at' \in Nat \ {0} /\ events' \in Nat /\ IsSeq(prepared') /\ IsSeq(done')
      BY <1>1 DEF IInv, ControlInv, Labels
    <2> QED BY <2>1, <2>2 DEF ControlInv
  <1>7. SeenInv'
    BY <1>1, <1>5 DEF IInv, SeenInv
  <1>8. PreparedInv'
    <2>1. ASSUME NEW k \in DOMAIN prepared
          PROVE  LET p == prepared[k]
                 IN  (p.item \in DOMAIN items /\ p = Entry(p.item, p.input) /\ InputOf(p.item, p.input))'
      <3>1. PICK p : p = prepared[k]
        OBVIOUS
      <3>2. p.item \in DOMAIN items /\ p = Entry(p.item, p.input) /\ InputOf(p.item, p.input)
        BY <3>1, PreparedType DEF IInv
      <3>3. InputOf(p.item, p.input)'
        BY <1>1, <1>3, <3>2, InputKeptWritten
      <3>4. p = Entry(p.item, p.input)'
        BY <1>5, <3>2 DEF Entry
      <3>5. p = prepared[k]'
        BY <1>1, <3>1
      <3> QED BY <1>5, <3>2, <3>3, <3>4, <3>5
    <2> QED BY <1>1, <2>1 DEF PreparedInv
  <1>9. OrderInv'
    BY <1>1 DEF IInv, OrderInv, Ended
  <1>10. ProgressInv'
    BY <1>1, <1>5 DEF IInv, ProgressInv, Before, Ended
  <1>11. ReleasedInv' /\ AliasInv'
    BY <1>1 DEF ReleasedInv, AliasInv, Writing
  <1>12. WrittenInv'
    <2>1. UnreachedUntouched'
      <3>1. ASSUME NEW c \in ByteArrays, content'[c] # shadow'[c]
            PROVE  \E k \in DOMAIN outputs :
                     outputs[k] = c /\ (k <= Len(done) \/ (k = next /\ call.decoding))
        <4>1. CASE c = destination
          BY <1>1, <1>3, <1>4, <3>1, <4>1 DEF destination
        <4>2. CASE c # destination
          <5>1. content[c] # shadow[c]
            BY <1>1, <1>3, <3>1, <4>2
          <5> QED BY <1>1, <5>1, WritingFacts DEF UnreachedUntouched, Writing
        <4> QED BY <4>1, <4>2
      <3> QED BY <1>1, <1>5, <3>1 DEF UnreachedUntouched
    <2>2. \A k \in DOMAIN done' : ConversionOf(k, done[k])'
      BY <1>1 DEF IInv, WrittenInv, ConversionOf
    <2>3. ~Settled'
      BY <1>1 DEF Settled, Ended
    <2> QED BY <1>1, <2>1, <2>2, <2>3 DEF WrittenInv
  <1> QED BY <1>3, <1>6, <1>7, <1>8, <1>9, <1>10, <1>11, <1>12 DEF IInv
----------------------------------------------------------------------------
(* Other code, while the call runs Python.                                 *)

(* The history of the items to come gains what they contain now.           *)
LEMMA HistoryGrows ==
  ASSUME Witness, UNCHANGED <<call, done, prepared>>, SeenInv, NEW i \in DOMAIN items
  PROVE  /\ seen[i] \subseteq seen'[i] /\ seen' = [k \in DOMAIN items |-> seen'[k]]
         /\ i <= Len(done) => seen'[i] = seen[i]
         /\ ~(i <= Len(done)) /\ items[i] \notin released' => Value(items[i], shadow') \in seen'[i]
         /\ \A k \in DOMAIN prepared :
              ~(i <= Len(done)) /\ prepared[k].item = i /\ prepared[k].input.kind = "array" =>
                shadow'[prepared[k].input.base] \in seen'[i]
  <1>1. seen' = [k \in DOMAIN items |->
                   IF k <= Len(done) THEN seen[k]
                   ELSE seen[k] \union {shadow'[b] : b \in ArrayOf(k)}
                                \union {Value(o, shadow') : o \in {items[k]} \ released'}]
    BY DEF Witness
  <1>2. \A k \in DOMAIN prepared :
          prepared[k].item = i /\ prepared[k].input.kind = "array" => prepared[k].input.base \in ArrayOf(i)
    BY DEF ArrayOf, Range
  <1>3. CASE i <= Len(done)
    BY <1>1, <1>3
  <1>4. CASE ~(i <= Len(done))
    BY <1>1, <1>2, <1>4
  <1> QED BY <1>1, <1>3, <1>4

(* What other code does to memory, as far as the call can tell: bytearrays *)
(* are sequences as before, in blocks of their own, and those that an      *)
(* input exports keep their size; a view it exports is not released.       *)
Disturbed ==
  /\ content' = [b \in ByteArrays |-> content'[b]] /\ shadow' = [b \in ByteArrays |-> shadow'[b]]
  /\ \A b \in ByteArrays :
       /\ IsSeq(content'[b]) /\ IsSeq(shadow'[b])
       /\ Len(shadow'[b]) = Len(content'[b]) /\ Len(content'[b]) <= BlockSize
       /\ Exported(b) => Len(content'[b]) = Len(content[b])
       /\ content'[b] = shadow'[b] \/ (content'[b] = content[b] /\ shadow'[b] = shadow[b])
  /\ block' \in [ByteArrays -> Blocks] /\ IsInjective(block')
  /\ released \subseteq released' /\ released' \subseteq Views
  /\ \A v \in Views \ released' : Offset[v] + Size[v] <= Len(content'[Base[v]])
  /\ \A v \in Views \ released : Exported(Base[v]) => v \notin released'
  /\ kept' => kept

LEMMA BlockMoves ==
  ASSUME MemoryInv, NEW b \in ByteArrays, NEW free \in Blocks \ Range(block), block' = [block EXCEPT ![b] = free]
  PROVE  block' \in [ByteArrays -> Blocks] /\ IsInjective(block')
  <1>1. block \in [ByteArrays -> Blocks] /\ \A c, d \in ByteArrays : block[c] = block[d] => c = d
    BY DEF MemoryInv, IsInjective
  <1>2. \A c \in ByteArrays : block[c] # free
    BY <1>1 DEF Range
  <1>3. block' \in [ByteArrays -> Blocks]
    BY <1>1
  <1>4. ASSUME NEW c \in ByteArrays, NEW d \in ByteArrays, block'[c] = block'[d]
        PROVE  c = d
    <2>1. block'[c] = (IF c = b THEN free ELSE block[c]) /\ block'[d] = (IF d = b THEN free ELSE block[d])
      BY <1>1
    <2> QED BY <1>1, <1>2, <1>4, <2>1
  <1> QED BY <1>3, <1>4 DEF IsInjective

LEMMA SetContentDisturbs ==
  ASSUME IInv, NEW b \in ByteArrays, NEW bytes \in Contents, SetContent(b, bytes)
  PROVE  Disturbed
  <1>1. /\ content' = [content EXCEPT ![b] = bytes] /\ shadow' = [shadow EXCEPT ![b] = bytes]
        /\ Pinned(b) => Len(bytes) = Len(content[b])
        /\ released' = released /\ kept' = kept
    BY DEF SetContent
  <1>2. IsSeq(bytes) /\ Len(bytes) <= BlockSize
    BY Base64BatchAssumption DEF IsSeq
  <1>3. content = [c \in ByteArrays |-> content[c]] /\ shadow = [c \in ByteArrays |-> shadow[c]]
    BY DEF IInv, MemoryInv
  <1>4. /\ content' = [c \in ByteArrays |-> content'[c]] /\ shadow' = [c \in ByteArrays |-> shadow'[c]]
        /\ content'[b] = bytes /\ shadow'[b] = bytes
        /\ \A c \in ByteArrays \ {b} : content'[c] = content[c] /\ shadow'[c] = shadow[c]
    BY <1>1, <1>3
  <1>5. \A c \in ByteArrays :
          /\ IsSeq(content[c]) /\ IsSeq(shadow[c])
          /\ Len(shadow[c]) = Len(content[c]) /\ Len(content[c]) <= BlockSize
    BY DEF IInv, MemoryInv
  <1>6. \A c \in ByteArrays :
          /\ IsSeq(content'[c]) /\ IsSeq(shadow'[c])
          /\ Len(shadow'[c]) = Len(content'[c]) /\ Len(content'[c]) <= BlockSize
    BY <1>2, <1>4, <1>5
  <1>7. \A c \in ByteArrays : Exported(c) => Len(content'[c]) = Len(content[c])
    BY <1>1, <1>4 DEF Pinned
  <1>8. \A c \in ByteArrays :
          content'[c] = shadow'[c] \/ (content'[c] = content[c] /\ shadow'[c] = shadow[c])
    BY <1>4
  <1>9. block' \in [ByteArrays -> Blocks] /\ IsInjective(block')
    <2>1. CASE Len(bytes) = Len(content[b])
      BY <2>1 DEF SetContent, IInv, MemoryInv
    <2>2. CASE Len(bytes) # Len(content[b])
      <3>1. PICK free \in Blocks \ Range(block) : block' = [block EXCEPT ![b] = free]
        BY <2>2 DEF SetContent
      <3> QED BY <3>1, BlockMoves DEF IInv
    <2> QED BY <2>1, <2>2
  <1>10. ASSUME NEW v \in Views \ released
         PROVE  Offset[v] + Size[v] <= Len(content'[Base[v]])
    <2>1. Base[v] \in ByteArrays /\ Offset[v] + Size[v] <= Len(content[Base[v]])
      BY ObjectKinds DEF IInv, MemoryInv
    <2>2. Base[v] = b => Len(bytes) = Len(content[b])
      BY <1>1 DEF Pinned
    <2> QED BY <1>4, <2>1, <2>2
  <1>11. released' \subseteq Views
    BY <1>1 DEF IInv, MemoryInv
  <1> QED BY <1>1, <1>4, <1>6, <1>7, <1>8, <1>9, <1>10, <1>11 DEF Disturbed

LEMMA ReleaseViewDisturbs ==
  ASSUME IInv, NEW v \in Views \ released, ReleaseView(v)
  PROVE  Disturbed
  <1>1. /\ ~Exported(Base[v]) /\ released' = released \union {v}
        /\ content' = content /\ block' = block /\ shadow' = shadow /\ kept' = kept
    BY DEF ReleaseView
  <1> QED BY <1>1 DEF Disturbed, IInv, MemoryInv

LEMMA ClearListDisturbs ==
  ASSUME IInv, ClearList
  PROVE  Disturbed
  BY DEF ClearList, Disturbed, IInv, MemoryInv

LEMMA DisturbedInput ==
  ASSUME IInv, Disturbed, Witness, UNCHANGED <<call, done, prepared>>,
         NEW k \in DOMAIN prepared
  PROVE  InputOf(prepared[k].item, prepared[k].input)'
  <1>1. PICK i \in DOMAIN items : i = prepared[k].item
    BY PreparedType DEF IInv
  <1>2. PICK q : q = prepared[k].input
    OBVIOUS
  <1>3. InputOf(i, q) /\ ~(i <= Len(done))
    BY <1>1, <1>2, PreparedType, DoneType DEF IInv
  <1>4. /\ seen[i] \subseteq seen'[i]
        /\ q.kind = "array" => shadow'[q.base] \in seen'[i]
    BY <1>1, <1>2, <1>3, HistoryGrows DEF IInv
  <1>5. items' = items /\ prepared' = prepared /\ Single' = Single
    BY CallKept
  <1>6. InputOf(i, q)'
    <2>1. CASE OwnedOf(i, q)
      <3>1. OwnedOf(i, q)'
        BY <1>4, <1>5, <2>1 DEF OwnedOf, Holds
      <3> QED BY <3>1 DEF InputOf
    <2>2. CASE InPlaceOf(i, q)
      <3>1. q.kind = "array" /\ q.base \in ByteArrays
        BY <2>2 DEF InPlaceOf
      <3>2. IsSeq(shadow'[q.base])
        BY <3>1 DEF Disturbed
      <3>3. InPlaceOf(i, q)'
        BY <1>4, <3>1, <3>2 DEF InPlaceOf, Holds
      <3> QED BY <3>3 DEF InputOf
    <2>3. CASE PinnedOf(i, q)
      <3>1. q.kind = "buffer" /\ q.base \in ByteArrays
        BY <2>3 DEF PinnedOf
      <3>2. Exported(q.base)
        BY <1>2, <3>1 DEF Exported
      <3>3. Len(content'[q.base]) = Len(content[q.base])
        BY <3>1, <3>2 DEF Disturbed
      <3>4. items[i] \notin released'
        <4>1. CASE items[i] \in Views
          BY <2>3, <3>2, <4>1, ObjectKinds DEF PinnedOf, Disturbed
        <4>2. CASE items[i] \notin Views
          BY <4>2 DEF Disturbed
        <4> QED BY <4>1, <4>2
      <3>5. PinnedOf(i, q)'
        BY <1>5, <2>3, <3>3, <3>4 DEF PinnedOf, Owner
      <3> QED BY <3>5 DEF InputOf
    <2>4. CASE q.kind = "error"
      BY <2>4 DEF InputOf
    <2> QED BY <1>3, <2>1, <2>2, <2>3, <2>4 DEF InputOf
  <1>7. i = prepared'[k].item /\ q = prepared'[k].input
    BY <1>1, <1>2, <1>5
  <1> QED BY <1>6, <1>7 DEF InputOf, OwnedOf, InPlaceOf, PinnedOf, Holds, Owner

LEMMA OutsideKeeps ==
  ASSUME IInv, Outside, Disturbed, Witness
  PROVE  IInv'
  <1>1. /\ callback /\ UNCHANGED <<call, pc, at, prepared, copies, done, decoded, callback>>
        /\ events' = events + 1
    BY DEF Outside
  <1>2. /\ items' = items /\ outputs' = outputs /\ OutputsValid' = OutputsValid /\ next' = next
        /\ Destinations' = Destinations /\ NextInput' = NextInput
        /\ \A o : SnapshotPolicy(o)' = SnapshotPolicy(o)
        /\ \A o : CallsBack(o)' = CallsBack(o)
        /\ \A q : Apart(q)' = Apart(q)
    BY <1>1, CallKept DEF next, NextInput, IsPrepared
  <1>3. MemoryInv'
    BY <1>1 DEF Disturbed, IInv, MemoryInv
  <1>4. ControlInv'
    BY <1>1 DEF IInv, ControlInv
  <1>5. \A i \in DOMAIN items : i \in Nat /\ Len(done) \in Nat
    BY CallType, DoneType DEF IInv, MemoryInv
  <1>6. SeenInv'
    <2>1. ASSUME NEW k \in DOMAIN items, k > Len(done), items[k] \notin released'
          PROVE  Value(items[k], shadow') \in seen'[k]
      BY <1>1, <1>5, <2>1, HistoryGrows DEF IInv
    <2>2. DOMAIN items # {} => seen' = [k \in DOMAIN items |-> seen'[k]]
      BY <1>1, HistoryGrows DEF IInv
    <2>3. DOMAIN items = {} => seen' = [k \in DOMAIN items |-> seen'[k]]
      BY DEF Witness
    <2> QED BY <1>1, <1>2, <2>1, <2>2, <2>3 DEF SeenInv
  <1>7. PreparedInv'
    <2>1. ASSUME NEW k \in DOMAIN prepared
          PROVE  LET p == prepared[k]
                 IN  (p.item \in DOMAIN items /\ p = Entry(p.item, p.input) /\ InputOf(p.item, p.input))'
      <3>1. InputOf(prepared[k].item, prepared[k].input)'
        BY <1>1, <2>1, DisturbedInput
      <3>2. PICK p : p = prepared[k]
        OBVIOUS
      <3>3. p.item \in DOMAIN items /\ p = Entry(p.item, p.input)
        BY <3>2, PreparedType DEF IInv
      <3>4. p = Entry(p.item, p.input)'
        BY <1>2, <3>3 DEF Entry
      <3>5. p = prepared'[k]
        BY <1>1, <3>2
      <3> QED BY <1>2, <3>1, <3>3, <3>4, <3>5
    <2> QED BY <1>1, <2>1 DEF PreparedInv
  <1>8. OrderInv'
    <2>1. \A n : Covers(n)' <=> Covers(n)
      BY <1>1, <1>2 DEF Covers
    <2>2. Covers(at - 1)' <=> Covers(at - 1)
      BY <1>1, <1>2 DEF Covers
    <2>3. Covers(Len(items))' <=> Covers(Len(items))
      BY <1>1, <1>2 DEF Covers
    <2> QED BY <1>1, <2>2, <2>3 DEF IInv, OrderInv
  <1>9. ProgressInv'
    BY <1>1, <1>2 DEF IInv, ProgressInv
  <1>10. ReleasedInv'
    <2>1. \A p : ReleasedBeforeWrite(p)' = ReleasedBeforeWrite(p)
      BY DEF ReleasedBeforeWrite, IsBuffer
    <2>2. ASSUME NEW k \in DOMAIN prepared, Holds(prepared[k].item, copies[k])
          PROVE  Holds(prepared[k].item, copies[k])'
      <3>1. PICK i \in DOMAIN items : i = prepared[k].item
        BY PreparedType DEF IInv
      <3>2. seen[i] \subseteq seen'[i]
        BY <1>1, HistoryGrows DEF IInv
      <3> QED BY <1>1, <2>2, <3>1, <3>2 DEF Holds
    <2>3. \A k \in DOMAIN prepared : ReleasedBeforeWrite(prepared[k])' = ReleasedBeforeWrite(prepared[k])
      BY <1>1 DEF ReleasedBeforeWrite, IsBuffer
    <2> QED BY <1>1, <2>2, <2>3 DEF IInv, ReleasedInv
  <1>11. AliasInv'
    BY <1>1, <1>2 DEF IInv, AliasInv, Apart
  <1>12. WrittenInv'
    <2>1. UnreachedUntouched'
      <3>1. ASSUME NEW b \in ByteArrays, content'[b] # shadow'[b]
            PROVE  content[b] # shadow[b]
        BY <3>1 DEF Disturbed
      <3> QED BY <1>1, <1>2, <3>1 DEF IInv, WrittenInv, UnreachedUntouched
    <2>2. ASSUME NEW k \in DOMAIN done PROVE ConversionOf(k, done[k])'
      <3>1. PICK n \in Nat : n = Len(done) /\ DOMAIN done = 1 .. n /\ n <= Len(items)
        BY DoneType DEF IInv, ProgressInv
      <3>2. k \in DOMAIN items /\ k <= Len(done)
        BY <3>1, CallType DEF IInv, MemoryInv
      <3>3. seen'[k] = seen[k]
        BY <1>1, <3>2, HistoryGrows DEF IInv
      <3> QED BY <1>1, <3>3 DEF IInv, WrittenInv, ConversionOf
    <2>3. ASSUME pc = "warning" PROVE ConversionOf(next, decoded)'
      <3>1. PICK i \in DOMAIN items : i = next
        BY <2>3, DoneType, CallType DEF IInv, ProgressInv, MemoryInv
      <3>2. seen[i] \subseteq seen'[i]
        BY <1>1, HistoryGrows DEF IInv
      <3> QED BY <1>1, <1>2, <2>3, <3>1, <3>2 DEF IInv, WrittenInv, ConversionOf
    <2>4. ~call.decoding => (done = <<>> /\ DOMAIN done = {}) \/ pc \in {"leaving", "failing"}
      BY <1>1, DoneType DEF IInv, WrittenInv
    <2>5. pc \in {"leaving", "failing"} => ~Settled'
      BY <1>1 DEF Settled, Ended
    <2>6. ~call.decoding /\ pc = "leaving" => ~kept'
      BY <1>1 DEF IInv, WrittenInv, Disturbed
    <2> QED BY <1>1, <2>1, <2>2, <2>3, <2>4, <2>5, <2>6 DEF WrittenInv
  <1> QED BY <1>3, <1>4, <1>6, <1>7, <1>8, <1>9, <1>10, <1>11, <1>12 DEF IInv

LEMMA OutsideStepKeeps ==
  ASSUME IInv, OutsideStep
  PROVE  IInv'
  <1>1. Witness
    BY DEF OutsideStep
  <1>2. CASE \E b \in ByteArrays, bytes \in Contents : SetContent(b, bytes)
    <2>1. PICK b \in ByteArrays, bytes \in Contents : SetContent(b, bytes)
      BY <1>2
    <2>2. Outside
      BY <2>1 DEF SetContent
    <2> QED BY <1>1, <2>1, <2>2, SetContentDisturbs, OutsideKeeps
  <1>3. CASE \E v \in Views \ released : ReleaseView(v)
    <2>1. PICK v \in Views \ released : ReleaseView(v)
      BY <1>3
    <2>2. Outside
      BY <2>1 DEF ReleaseView
    <2> QED BY <1>1, <2>1, <2>2, ReleaseViewDisturbs, OutsideKeeps
  <1>4. CASE ClearList
    <2>1. Outside
      BY <1>4 DEF ClearList
    <2> QED BY <1>1, <1>4, <2>1, ClearListDisturbs, OutsideKeeps
  <1> QED BY <1>2, <1>3, <1>4 DEF OutsideStep
----------------------------------------------------------------------------
(* The invariant.                                                          *)

LEMMA InitInvariant ==
  ASSUME Init
  PROVE  IInv
  <1>1. PICK heap \in Initial : content = heap.content /\ block = heap.block
    BY DEF Init
  <1>2. /\ call \in Calls /\ released = Views \ Range(items) /\ pc = "start" /\ at = 1
        /\ prepared = <<>> /\ copies = <<>> /\ done = <<>> /\ callback = FALSE
        /\ shadow = content /\ seen = [k \in DOMAIN items |-> {Value(items[k], content)}] /\ events = 0
    BY DEF Init, items
  <1>3. /\ block \in [ByteArrays -> Blocks] /\ IsInjective(block)
        /\ content \in [ByteArrays -> Contents]
        /\ \A v \in Views : Offset[v] + Size[v] <= Len(content[Base[v]])
    BY <1>1, Base64BatchAssumption
  <1>4. \A bytes \in Contents : IsSeq(bytes) /\ Len(bytes) <= BlockSize
    BY Base64BatchAssumption DEF IsSeq
  <1>5. MemoryInv
    BY <1>2, <1>3, <1>4 DEF MemoryInv
  <1>6. IsSeq(<<>>) /\ Len(<<>>) = 0 /\ DOMAIN <<>> = {}
    BY EmptyIsSeq
  <1>7. ControlInv
    <2>1. pc \in Labels /\ at \in Nat \ {0} /\ events \in Nat
      BY <1>2 DEF Labels
    <2>2. callback \in BOOLEAN
      BY <1>2
    <2> QED BY <1>2, <1>6, <2>1, <2>2 DEF ControlInv
  <1>8. SeenInv
    BY <1>2 DEF SeenInv
  <1>9. PreparedInv /\ ReleasedInv /\ AliasInv
    BY <1>2, <1>6 DEF PreparedInv, ReleasedInv, AliasInv, Writing
  <1>10. OrderInv
    BY <1>2, <1>6 DEF OrderInv
  <1>11. ProgressInv
    <2>1. Len(items) \in Nat
      BY <1>2, CallType
    <2> QED BY <1>2, <1>6, <2>1 DEF ProgressInv
  <1>12. WrittenInv
    BY <1>2, <1>6 DEF WrittenInv, UnreachedUntouched
  <1> QED BY <1>5, <1>7, <1>8, <1>9, <1>10, <1>11, <1>12 DEF IInv

LEMMA StutterKeeps ==
  ASSUME IInv, UNCHANGED vars
  PROVE  IInv'
  <1>1. /\ content' = content /\ block' = block /\ released' = released /\ call' = call /\ pc' = pc
        /\ at' = at /\ prepared' = prepared /\ copies' = copies /\ done' = done /\ decoded' = decoded
        /\ callback' = callback /\ kept' = kept /\ shadow' = shadow /\ seen' = seen /\ events' = events
    BY DEF vars
  <1>2. /\ Quiet /\ UNCHANGED <<memory, call, seen, prepared>>
        /\ items' = items /\ next' = next /\ NextInput' = NextInput /\ OutputsValid' = OutputsValid
        /\ \A o : SnapshotPolicy(o)' = SnapshotPolicy(o)
        /\ \A o : CallsBack(o)' = CallsBack(o)
    BY <1>1, CallKept DEF Quiet, memory, next, NextInput, IsPrepared
  <1>3. MemoryInv' /\ SeenInv' /\ PreparedInv'
    BY <1>2, MemoryKept, SeenKept, PreparedKept DEF IInv
  <1>4. ControlInv'
    BY <1>1 DEF IInv, ControlInv
  <1>5. OrderInv'
    <2>1. Covers(at - 1)' <=> Covers(at - 1)
      BY <1>1, <1>2 DEF Covers
    <2>2. Covers(Len(items))' <=> Covers(Len(items))
      BY <1>1, <1>2 DEF Covers
    <2> QED BY <1>1, <2>1, <2>2 DEF IInv, OrderInv
  <1>6. ProgressInv'
    BY <1>1, <1>2 DEF IInv, ProgressInv
  <1>7. ReleasedInv'
    BY <1>1, <1>2 DEF IInv, ReleasedInv, Holds, ReleasedBeforeWrite, IsBuffer
  <1>8. AliasInv'
    BY <1>1, AliasKept DEF IInv, AliasInv
  <1>9. WrittenInv'
    BY <1>1, <1>2 DEF IInv, WrittenInv, Settled, UnreachedUntouched, ConversionOf, Overlaid, outputs
  <1> QED BY <1>3, <1>4, <1>5, <1>6, <1>7, <1>8, <1>9 DEF IInv

LEMMA CallStepKeeps ==
  ASSUME IInv, CallStep
  PROVE  IInv'
  BY CheckOutputsStep, SkipItemStep, PrepareImmutableStep, PrepareByteArrayStep, PrepareViewStep,
     BeginCallbackStep, PrepareExportStep, PrepareFailsStep, ConvertArgumentsStep, ExportNormalizedStep,
     ArgumentFailsStep, StageReleasesStep, ReleaseNextStep, DropIgnoredStep, StageAliasesStep,
     AllocateResultsStep, CallbackReturnsStep, ConvertStep, ConvertFailsStep, RaisePreparedStep, WarnStep,
     WarningShownStep, WarningRaisesStep, ReturnStep, LeaveStep
  DEF CallStep

LEMMA InvariantStep ==
  ASSUME IInv, [Next]_vars
  PROVE  IInv'
  BY CallStepKeeps, OutsideStepKeeps, StutterKeeps DEF Next

(* Whatever the inputs, destinations and other arguments of the call, and  *)
(* whatever Python code does while callbacks, hooks and warnings run: the  *)
(* prepared inputs stay what their items have contained, in order, every   *)
(* release known to run code is before the first write, and no input read  *)
(* in place is of a destination.                                           *)
THEOREM InvariantHolds == Spec => []IInv
  <1>1. Init => IInv
    BY InitInvariant
  <1>2. IInv /\ [Next]_vars => IInv'
    BY InvariantStep
  <1> QED BY <1>1, <1>2, PTL DEF Spec

LEMMA NoInputAliases ==
  ASSUME IInv
  PROVE  NoLiveAlias
  <1> SUFFICES ASSUME pc \in Writing, NEW k \in DOMAIN prepared, NEW b \in Destinations
               PROVE  /\ prepared[k].input # ArrayInput(b)
                      /\ IsBuffer(prepared[k].input) /\ prepared[k].input.size > 0 /\ content[b] # <<>> =>
                           ~RangesOverlap(InputRange(prepared[k].input), ArrayRange(b))
    BY DEF NoLiveAlias, Writing
  <1>1. PICK q : q = prepared[k].input
    OBVIOUS
  <1>2. Apart(q) /\ InputOf(prepared[k].item, q) /\ Destinations \subseteq ByteArrays /\ MemoryInv
    BY <1>1, WritingFacts, PreparedType DEF OutputsValid
  <1>3. q # ArrayInput(b)
    BY <1>2 DEF Apart, ArrayInput
  <1>4. ASSUME q.kind = "buffer", q.size > 0, content[b] # <<>>
        PROVE  ~RangesOverlap(InputRange(q), ArrayRange(b))
    <2>1. PinnedOf(prepared[k].item, q)
      BY <1>2, <1>4 DEF InputOf, OwnedOf, InPlaceOf
    <2>2. PICK c \in ByteArrays : c = q.base
      BY <2>1 DEF PinnedOf
    <2>3. c # b /\ b \in ByteArrays
      BY <1>2, <1>4, <2>2 DEF Apart
    <2>4. q.offset \in Nat /\ q.size \in Nat /\ q.offset + q.size <= Len(content[c])
      BY <2>1, <2>2 DEF PinnedOf
    <2>5. PICK m \in Nat : m = Start(c)
      BY <1>2, StartIsNatural
    <2>6. PICK n \in Nat : n = Start(b)
      BY <1>2, <2>3, StartIsNatural
    <2>7. PICK l \in Nat : l = Len(content[c])
      BY <1>2, StartIsNatural
    <2>8. PICK j \in Nat : j = Len(content[b])
      BY <1>2, <2>3, StartIsNatural
    <2>9. m + l <= n \/ n + j <= m
      BY <1>2, <2>3, <2>5, <2>6, <2>7, <2>8, ArrayRangesApart
    <2>10. InputRange(q).start = m + q.offset /\ InputRange(q).end = m + q.offset + q.size
      BY <2>2, <2>5 DEF InputRange, BufferRange
    <2>11. ArrayRange(b).start = n /\ ArrayRange(b).end = n + j
      BY <1>2, <1>4, <2>3, <2>6, <2>8, ArrayRangeIsRange
    <2> QED BY <2>4, <2>7, <2>9, <2>10, <2>11 DEF RangesOverlap
  <1> QED BY <1>1, <1>3, <1>4 DEF IsBuffer

(* No input that is still exported when destinations are written overlaps  *)
(* one of them: snapshot_before_output_write copies every alias, wherever  *)
(* callbacks and release hooks have moved the bytearrays meanwhile.        *)
THEOREM AliasesCopied == Spec => []NoLiveAlias
  BY InvariantHolds, NoInputAliases, PTL

(* Every conversion of a batch is of what its item contained at one        *)
(* instant: writing one destination never changes a later input.           *)
THEOREM ConversionsHold == Spec => []ConversionsOfInputs
  <1>1. IInv => ConversionsOfInputs
    BY DEF IInv, WrittenInv, ConversionOf, ConversionsOfInputs
  <1> QED BY <1>1, InvariantHolds, PTL

LEMMA HooksAreOver ==
  ASSUME IInv
  PROVE  KnownHooksRunBeforeWrites
  <1> SUFFICES ASSUME pc \in Writing, NEW k \in DOMAIN prepared, prepared[k].input.kind \in {"buffer", "copy"}
               PROVE  items[prepared[k].item] \notin Exporters \union (IF Single THEN {} ELSE Texts)
    BY DEF KnownHooksRunBeforeWrites, Held, Range, Writing
  <1>1. PICK i : i = prepared[k].item
    OBVIOUS
  <1>2. PICK q : q = prepared[k].input
    OBVIOUS
  <1>3. InputOf(i, q)
    BY <1>1, <1>2, WritingFacts, PreparedType
  <1>4. CASE q.kind = "copy"
    <2>1. OwnedOf(i, q)
      BY <1>3, <1>4 DEF InputOf, InPlaceOf, PinnedOf
    <2> QED BY <1>1, <1>4, <2>1 DEF OwnedOf
  <1>5. CASE q.kind = "buffer"
    <2>1. PinnedOf(i, q)
      BY <1>3, <1>5 DEF InputOf, OwnedOf, InPlaceOf
    <2>2. ~q.mayReenter /\ prepared[k].policy # ReleasePolicy
      BY <1>2, <1>5 DEF IInv, ReleasedInv, ReleasedBeforeWrite, IsBuffer
    <2>3. prepared[k].policy = SnapshotPolicy(items[i])
      BY <1>1, WritingFacts, PreparedType DEF Entry
    <2>4. items[i] \notin Exporters
      BY <2>1, <2>2, ObjectKinds DEF PinnedOf
    <2>5. ~Single => items[i] \notin Texts
      BY <2>2, <2>3, ObjectKinds DEF SnapshotPolicy, ReleasePolicy, NoPolicy, AliasPolicy
    <2> QED BY <1>1, <2>4, <2>5
  <1> QED BY <1>2, <1>4, <1>5

(* Once a destination may be written, no export of an exporter is left to  *)
(* release, nor in a batch one of a text (SnapshotPolicy::                 *)
(* ReleaseBeforeWrite), whatever texts encode to. A single decode may hold *)
(* the export of a text for longer.                                        *)
THEOREM HooksHold == Spec => []KnownHooksRunBeforeWrites
  BY InvariantHolds, HooksAreOver, PTL

(* An encode leaves each conversion in its own destination, and the rest   *)
(* of that destination as Python code left it, until the items are dropped; *)
(* and after that, when the list has kept them.                            *)
THEOREM OutputsHold == Spec => []OutputsAsReturned
  <1>1. IInv => OutputsAsReturned
    <2> SUFFICES ASSUME IInv, ~call.decoding, next > Len(items),
                        \/ pc = "writing"
                        \/ pc = "leaving" /\ ~callback
                        \/ pc = "returned" /\ kept
                 PROVE  OutputsAsReturned
      BY DEF OutputsAsReturned
    <2>1. DOMAIN items = DOMAIN done
      <3>1. Len(done) \in Nat /\ Len(items) \in Nat /\ next = Len(done) + 1 /\ Len(done) <= Len(items)
        BY CallType, DoneType DEF IInv, ProgressInv, MemoryInv
      <3>2. Len(done) = Len(items)
        BY <3>1
      <3> QED BY <3>2, CallType, DoneType DEF IInv, MemoryInv
    <2>2. \A k \in DOMAIN done : Overlaid(k)
      BY DEF IInv, WrittenInv, Settled, Ended
    <2> QED BY <2>1, <2>2 DEF OutputsAsReturned, Overlaid
  <1> QED BY <1>1, InvariantHolds, PTL

(* A call that fails has written no destination past the one it was at.    *)
THEOREM UnreachedHold == Spec => []UnreachedUntouched
  <1>1. IInv => UnreachedUntouched
    BY DEF IInv, WrittenInv
  <1> QED BY <1>1, InvariantHolds, PTL

LEMMA ConvertKeepsSizes ==
  ASSUME IInv, Convert
  PROVE  \A b \in ByteArrays : Len(content'[b]) = Len(content[b])
  <1> DEFINE bytes == Read(NextInput)
  <1>1. /\ pc \in Writing /\ next <= Len(items) /\ NextInput.kind # "error"
        /\ Len(bytes) <= Len(content[destination]) /\ WritePrefix(Encoded(bytes))
        /\ UNCHANGED <<block, released, kept, shadow, call>>
    BY DEF Convert, Converting, Fits, Writing
  <1>2. PICK m : m = bytes
    OBVIOUS
  <1>3. IsSeq(m)
    BY <1>1, <1>2, NextInputSeen DEF Holds
  <1>4. PICK cells : cells = Encoded(m)
    OBVIOUS
  <1>5. IsSeq(cells) /\ Len(cells) <= Len(content[destination]) /\ WritePrefix(cells)
    BY <1>1, <1>2, <1>3, <1>4, EncodedIsSeq
  <1> QED BY <1>1, <1>5, WriteKeeps

LEMMA CallStepKeepsSizes ==
  ASSUME IInv, CallStep
  PROVE  \A b \in ByteArrays : Len(content'[b]) = Len(content[b])
  <1>1. CASE Convert
    BY <1>1, ConvertKeepsSizes
  <1>2. CASE ConvertFails
    <2>1. PICK cells : IsSeq(cells) /\ Len(cells) <= Len(content[destination]) /\ WritePrefix(cells)
      BY <1>2, FailureWrites
    <2>2. pc \in Writing /\ next <= Len(items) /\ UNCHANGED <<block, released, kept, shadow, call>>
      BY <1>2 DEF ConvertFails, Converting, Writing
    <2> QED BY <2>1, <2>2, WriteKeeps
  <1>3. CASE WarningShown
    <2>1. CASE Fits(decoded)
      <3>1. /\ pc \in Writing /\ next <= Len(items) /\ ConversionOf(next, decoded)
            /\ Len(decoded) <= Len(content[destination]) /\ WritePrefix(decoded)
            /\ UNCHANGED <<block, released, kept, shadow, call>>
        BY <1>3, <2>1 DEF WarningShown, Fits, IInv, ProgressInv, WrittenInv, Writing
      <3>2. PICK cells : cells = decoded
        OBVIOUS
      <3>3. IsSeq(cells) /\ Len(cells) <= Len(content[destination]) /\ WritePrefix(cells)
        BY <3>1, <3>2, EncodedIsSeq DEF ConversionOf
      <3> QED BY <3>1, <3>3, WriteKeeps
    <2>2. CASE ~Fits(decoded)
      BY <1>3, <2>2 DEF WarningShown
    <2> QED BY <2>1, <2>2
  <1>4. CASE ~Convert /\ ~ConvertFails /\ ~WarningShown
    <2>1. content' = content
      BY <1>4 DEF CallStep, CheckOutputs, SkipItem, PrepareImmutable, PrepareByteArray, PrepareView,
                  BeginCallback, PrepareExport, PrepareFails, Prepare, ConvertArguments, ExportNormalized,
                  ArgumentFails, StageReleases, ReleaseNext, DropIgnored, StageAliases, AllocateResults,
                  CallbackReturns, RaisePrepared, Warn, WarningRaises, Return, Leave, memory
    <2> QED BY <2>1
  <1> QED BY <1>1, <1>2, <1>3, <1>4

(* No step of the call resizes a bytearray: what it writes is never longer *)
(* than the destination.                                                   *)
THEOREM SizesKept == Spec => KeepsSizes
  <1> DEFINE Kept == events' = events => \A b \in ByteArrays : Len(content'[b]) = Len(content[b])
  <1>1. IInv /\ [Next]_vars => [Kept]_vars
    <2> SUFFICES ASSUME IInv, Next, ~UNCHANGED vars, events' = events
                 PROVE  \A b \in ByteArrays : Len(content'[b]) = Len(content[b])
      OBVIOUS
    <2>1. ASSUME OutsideStep PROVE FALSE
      <3>1. events' = events + 1
        BY <2>1 DEF OutsideStep, SetContent, ReleaseView, ClearList, Outside
      <3>2. events \in Nat
        BY DEF IInv, ControlInv
      <3> QED BY <3>1, <3>2
    <2>2. CallStep
      BY <2>1 DEF Next
    <2> QED BY <2>2, CallStepKeepsSizes
  <1>2. Spec => [][Kept]_vars
    BY <1>1, InvariantHolds, PTL DEF Spec
  <1> QED BY <1>2 DEF KeepsSizes
=============================================================================
