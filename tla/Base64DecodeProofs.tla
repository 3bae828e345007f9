------------------------ MODULE Base64DecodeProofs -------------------------
(***************************************************************************)
(* The core decoder, for every length, padding, set of bad symbols, entry  *)
(* point, alignment and machine.                                           *)
(***************************************************************************)
EXTENDS Base64Decode, WellFoundedInduction, NaturalsInduction, TLAPS

TypeInv ==
  /\ machine \in Machines /\ call \in Calls /\ wide \in BOOLEAN
  /\ output = [c \in Cells |-> output[c]]
  /\ loaded \in 0 .. call.length

(* The kernel that runs has what it needs, and where its loops may stop.   *)
KernelInv ==
  /\ Required[kernel] \subseteq machine
  /\ pc = "begin" => source = 0 /\ loop = 1 /\ kernel = "scalar" /\ ~errors /\ chunkEnd = 0
  /\ pc \in {"kernel", "scalar"} => ~LayoutFails
  /\ pc = "kernel" => kernel # "scalar" /\ source % 16 = 0
  /\ pc = "scalar" => ~errors /\ (Decodes => source % 4 = 0)
  /\ pc = "kernel" /\ Defers =>
       source <= chunkEnd /\ source % Size = 0 /\ chunkEnd % Size = 0
  /\ AfterLoops /\ kernel = "avx512" /\ call.entry # "prefix" => SimdLen - source < 64

(* A prefix ends near the first bad symbol or the end of the input.        *)
Near(n) == SimdLen - source < n \/ Bad(source, source + n)
PrefixInv ==
  call.entry = "prefix" =>
    /\ kernel # "neon"
    /\ pc = "kernel" /\ kernel = "avx2" /\ loop = 3 => Near(32)
    /\ AfterLoops => IF kernel = "avx512" THEN Near(64) ELSE Near(16)
    /\ pc = "scalar" => source >= (GoodLength \div 16) * 16

(* Validation stores nothing.                                              *)
ValidateInv == call.entry = "validate" => \A c \in Cells : output[c] = Old

DInv == TypeInv /\ IInv /\ KernelInv /\ PrefixInv /\ ValidateInv
----------------------------------------------------------------------------
Backends == {"avx512", "avx2", "sse41", "ssse3", "neon", "scalar"}

(* select_backend finds a backend, and the CPU has all it needs.           *)
LEMMA SelectedIsSupported ==
  ASSUME NEW features
  PROVE  /\ SelectBackend(features) \in Backends
         /\ Required[SelectBackend(features)] \subseteq features
<1>. DEFINE Supported(i) == Required[Preference[i]] \subseteq features
            First(i) == Supported(i) /\ \A j \in 1 .. i - 1 : ~Supported(j)
            i == CHOOSE k \in 1 .. 6 : First(k)
<1>1. Supported(6)
  BY DEF Required, Preference
<1>2. \E k \in 1 .. 6 : First(k)
  <2>. HIDE DEF Supported
  <2>1. First(1) \/ First(2) \/ First(3) \/ First(4) \/ First(5) \/ First(6)
    BY <1>1
  <2>. QED BY <2>1
<1>3. i \in 1 .. 6 /\ Supported(i)
  <2>. HIDE DEF Supported
  <2>. QED BY <1>2
<1>4. SelectBackend(features) = Preference[i]
  BY DEF SelectBackend
<1>. HIDE DEF i
<1>5. Preference[i] \in Backends
  BY <1>3 DEF Preference, Backends
<1>. QED BY <1>3, <1>4, <1>5

(* So has the kernel a call runs, also where AVX-512 leaves it to AVX2.    *)
LEMMA KernelIsSupported ==
  /\ KernelFor \in Backends /\ Required[KernelFor] \subseteq machine
  /\ KernelFor \in {"scalar", "neon"} => KernelFor = Backend
<1>1. Backend \in Backends /\ Required[Backend] \subseteq machine
  BY SelectedIsSupported DEF Backend
<1>2. CASE KernelFor = Backend
  BY <1>1, <1>2
<1>3. CASE KernelFor # Backend
  <2>1. Backend = "avx512" /\ KernelFor = "avx2"
    BY <1>3 DEF KernelFor
  <2>2. Required["avx2"] \subseteq Required["avx512"]
    BY DEF Required
  <2>. QED BY <1>1, <2>1, <2>2 DEF Backends
<1>. QED BY <1>2, <1>3
----------------------------------------------------------------------------
(* The lengths of a call.                                                  *)
LEMMA LengthFacts ==
  ASSUME call \in Calls
  PROVE  /\ call.length \in Nat /\ SimdLen \in Nat /\ SimdLen <= call.length
         /\ OutputLen \in Nat /\ Writable \in Nat /\ Cells \subseteq Nat
         /\ call.bad \subseteq 0 .. call.length - 1
         /\ call.entry \notin PaddedEntries \cup UnpaddedEntries => SimdLen = call.length
<1>1. /\ call.length \in Nat /\ call.padding \in 0 .. 2 /\ call.padding <= call.length
      /\ call.padding # 0 => call.entry \in PaddedEntries /\ call.length % 4 = 0
      /\ call.bad \subseteq 0 .. call.length - call.padding - 1
  BY Base64DecodeAssumption
<1>2. call.padding # 0 => call.length >= 4
  BY <1>1
<1>3. SimdLen \in Nat /\ SimdLen <= call.length
  BY <1>1, <1>2 DEF SimdLen, PaddedEntries, UnpaddedEntries
<1>4. Tail \in 0 .. 3
  BY <1>1 DEF Tail
<1>5. OutputLen \in Nat
  BY <1>1, <1>2, <1>4 DEF OutputLen
<1>6. Writable \in Nat
  BY <1>1, <1>5 DEF Writable, StorePadding
<1>7. Cells \subseteq Nat
  BY <1>6 DEF Cells, Margin
<1>8. call.bad \subseteq 0 .. call.length - 1
  BY <1>1
<1>9. call.entry \notin PaddedEntries \cup UnpaddedEntries => SimdLen = call.length
  BY DEF SimdLen
<1>. QED BY <1>1, <1>3, <1>5, <1>6, <1>7, <1>8, <1>9

LEMMA OffsetFacts ==
  ASSUME DInv
  PROVE  /\ call \in Calls /\ SimdLen \in Nat /\ source \in Nat /\ source <= SimdLen
         /\ destination = (source \div 4) * 3 /\ destination \in Nat
         /\ chunkEnd \in Nat /\ chunkEnd <= SimdLen /\ loop \in 1 .. 4
         /\ call.length \in Nat /\ SimdLen <= call.length /\ loaded \in Nat
<1>1. call \in Calls /\ source \in 0 .. SimdLen /\ chunkEnd \in 0 .. SimdLen /\ loop \in 1 .. 4
      /\ destination = (source \div 4) * 3 /\ loaded \in 0 .. call.length
  BY DEF DInv, TypeInv, IInv
<1>2. SimdLen \in Nat /\ call.length \in Nat /\ SimdLen <= call.length
  BY <1>1, LengthFacts
<1>. QED BY <1>1, <1>2

(* What is chosen with the call stays as it is.                            *)
LEMMA ChoiceStays ==
  ASSUME UNCHANGED choice
  PROVE  /\ machine' = machine /\ call' = call /\ wide' = wide
         /\ LayoutFails' = LayoutFails /\ SimdLen' = SimdLen /\ OutputLen' = OutputLen
         /\ Writable' = Writable /\ Cells' = Cells /\ PaddedStores' = PaddedStores
         /\ Checks' = Checks /\ Decodes' = Decodes /\ GoodLength' = GoodLength
         /\ LastSymbols' = LastSymbols /\ ValidatedBlocksOnly' = ValidatedBlocksOnly
         /\ \A a, b : Bad(a, b)' = Bad(a, b)
         /\ \A c : ByteOf(c)' = ByteOf(c)
<1>1. machine' = machine /\ call' = call /\ wide' = wide
  BY DEF choice
<1>2. LayoutFails' = LayoutFails /\ SimdLen' = SimdLen /\ Tail' = Tail /\ Checks' = Checks
      /\ Decodes' = Decodes /\ ValidatedBlocksOnly' = ValidatedBlocksOnly
  BY <1>1 DEF LayoutFails, SimdLen, Tail, Checks, Decodes, ValidatedBlocksOnly
<1>3. OutputLen' = OutputLen /\ HasStoreSlack' = HasStoreSlack /\ LastSymbols' = LastSymbols
  BY <1>1, <1>2 DEF OutputLen, HasStoreSlack, LastSymbols
<1>4. Writable' = Writable /\ PaddedStores' = PaddedStores
  BY <1>1, <1>3 DEF Writable, PaddedStores
<1>5. Cells' = Cells
  BY <1>4 DEF Cells
<1>6. \A a, b : Bad(a, b)' = Bad(a, b)
  BY <1>1 DEF Bad
<1>7. \A c : ByteOf(c)' = ByteOf(c)
  BY <1>6 DEF ByteOf
<1>8. GoodLength' = GoodLength
  BY <1>1 DEF GoodLength, FirstBad
<1>. QED BY <1>1, <1>2, <1>3, <1>4, <1>5, <1>6, <1>7, <1>8

(* Bad symbols before a place are before or behind an earlier one.         *)
LEMMA BadSplits ==
  ASSUME call \in Calls, NEW a \in Nat, NEW b \in Nat, NEW c \in Nat, a <= b, b <= c
  PROVE  Bad(a, c) <=> Bad(a, b) \/ Bad(b, c)
<1>1. call.bad \subseteq Int
  BY LengthFacts
<1>. QED BY <1>1 DEF Bad

(* What the good symbols before a place decode to.                         *)
LEMMA GoodBytes ==
  ASSUME call \in Calls, NEW n \in Nat, ~Bad(0, n), NEW c \in Nat, c < (n \div 4) * 3
  PROVE  ByteOf(c) = c
<1>1. (c \div 3) * 4 \in Nat /\ (c \div 3) * 4 + 4 <= n
  OBVIOUS
<1>2. call.bad \subseteq Nat
  BY LengthFacts
<1>3. ~Bad((c \div 3) * 4, (c \div 3) * 4 + 4)
  BY <1>1, <1>2 DEF Bad
<1>. QED BY <1>3 DEF ByteOf

(* The first bad symbol.                                                   *)
LEMMA FirstBadFacts ==
  ASSUME call \in Calls, call.bad # {}
  PROVE  FirstBad \in call.bad /\ \A q \in call.bad : FirstBad <= q
<1>1. call.bad \subseteq Nat
  BY LengthFacts
<1>2. PICK p \in call.bad : \A q \in call.bad : ~(<<q, p>> \in OpToRel(<, Nat))
  <2>1. IsWellFoundedOn(OpToRel(<, Nat), Nat)
    BY NatLessThanWellFounded
  <2>. QED BY <1>1, <2>1, WFMin
<1>3. \A q \in call.bad : p <= q
  <2>1. \A q \in call.bad : ~(q < p)
    BY <1>1, <1>2 DEF OpToRel
  <2>. QED BY <1>1, <2>1
<1>. QED BY <1>3 DEF FirstBad
----------------------------------------------------------------------------
(* The turns of the loops.                                                 *)
LEMMA LoopFacts ==
  ASSUME DInv, pc = "kernel", Runs
  PROVE  /\ <<Size, Lane>> \in {<<64, 16>>, <<16, 16>>, <<128, 32>>, <<32, 32>>, <<128, 64>>, <<64, 64>>}
         /\ loop \in 1 .. 3
         /\ kernel = "avx512" => Size >= 64 /\ (loop + 1 \notin DOMAIN Loops => Size = 64)
         /\ kernel = "avx2" => Size = (IF loop = 1 THEN 128 ELSE IF loop = 2 THEN 32 ELSE 16)
         /\ kernel = "avx2" => DOMAIN Loops = 1 .. 3
         /\ kernel \notin {"avx2", "avx512", "neon"} => (loop + 1 \notin DOMAIN Loops => Size = 16)
         /\ loop # 1 => loop - 1 \in DOMAIN Loops
         /\ 1 \in DOMAIN Loops
<1>1. loop \in 1 .. 4 /\ loop \in DOMAIN Loops /\ kernel # "scalar"
  BY DEF DInv, IInv, KernelInv, Runs
<1>2. CASE Sse
  <2>1. Loops = <<[size |-> 64, lane |-> 16], [size |-> 16, lane |-> 16]>>
        /\ kernel \in {"sse41", "ssse3"}
    BY <1>2 DEF Loops, Sse
  <2>. QED BY <1>1, <2>1 DEF Size, Lane
<1>3. CASE kernel = "avx2"
  <2>1. Loops = <<[size |-> 128, lane |-> 32], [size |-> 32, lane |-> 32], [size |-> 16, lane |-> 16]>>
    BY <1>3 DEF Loops, Sse
  <2>. QED BY <1>1, <1>3, <2>1 DEF Size, Lane
<1>4. CASE kernel = "avx512" /\ call.entry = "validate"
  <2>1. Loops = <<[size |-> 64, lane |-> 64]>>
    BY <1>4 DEF Loops, Sse
  <2>. QED BY <1>1, <1>4, <2>1 DEF Size, Lane
<1>5. CASE kernel = "avx512" /\ call.entry # "validate"
  <2>1. Loops = <<[size |-> 128, lane |-> 64], [size |-> 64, lane |-> 64]>>
    BY <1>5 DEF Loops, Sse
  <2>. QED BY <1>1, <1>5, <2>1 DEF Size, Lane
<1>6. CASE kernel = "neon" /\ call.entry = "validate"
  <2>1. Loops = <<[size |-> 16, lane |-> 16]>>
    BY <1>6 DEF Loops, Sse
  <2>. QED BY <1>1, <1>6, <2>1 DEF Size, Lane
<1>7. CASE ~Sse /\ kernel \notin {"avx2", "avx512"} /\ ~(kernel = "neon" /\ call.entry = "validate")
  <2>1. Loops = <<[size |-> 64, lane |-> 64], [size |-> 16, lane |-> 16]>>
    BY <1>7 DEF Loops, Sse
  <2>. QED BY <1>1, <1>7, <2>1 DEF Size, Lane
<1>. QED BY <1>2, <1>3, <1>4, <1>5, <1>6, <1>7

(* Of the stores that cover a cell the last one counts: it is the store    *)
(* whose bytes the cell belongs to, and behind the group the last store.   *)
Covering(n, b, d, P, L, c) ==
  {j \in 0 .. n - 1 : /\ d + j * b <= c
                      /\ c < d + (j + 1) * b + (IF j = n - 1 THEN L ELSE P)}
Latest(S) == CHOOSE j \in S : \A k \in S : k <= j

LatestIsOwn(n, b, d, P, L, c) ==
  LET S == Covering(n, b, d, P, L, c)
  IN  /\ c < d + n * b => S # {} /\ c < d + (Latest(S) + 1) * b
      /\ d + n * b <= c /\ c < d + n * b + L => S # {} /\ ~(c < d + (Latest(S) + 1) * b)
      /\ d + n * b + L <= c => S = {}

LEMMA LastCovering ==
  ASSUME NEW n \in {1, 2, 4}, NEW b \in {12, 24, 48}, NEW d \in Nat, NEW P \in {0, 4, 8},
         NEW L \in {0, 4}, NEW c \in Nat, d <= c
  PROVE  LatestIsOwn(n, b, d, P, L, c)
<1>. DEFINE covering == {j \in 0 .. n - 1 : /\ d + j * b <= c
                                            /\ c < d + (j + 1) * b + (IF j = n - 1 THEN L ELSE P)}
            last == CHOOSE j \in covering : \A k \in covering : k <= j
<1>0. Covering(n, b, d, P, L, c) = covering /\ Latest(Covering(n, b, d, P, L, c)) = last
  BY DEF Covering, Latest
<1>1. ASSUME c < d + n * b
      PROVE  covering # {} /\ c < d + (last + 1) * b
  <2>. DEFINE i == (c - d) \div b
  <2>1. i \in 0 .. n - 1 /\ d + i * b <= c /\ c < d + (i + 1) * b
    <3>1. CASE b = 12
      BY <1>1, <3>1
    <3>2. CASE b = 24
      BY <1>1, <3>2
    <3>3. CASE b = 48
      BY <1>1, <3>3
    <3>. QED BY <3>1, <3>2, <3>3
  <2>. HIDE DEF i
  <2>2. i \in covering
    BY <2>1
  <2>3. ASSUME NEW k \in covering PROVE k <= i
    BY <2>1
  <2>4. last \in covering /\ i <= last
    BY <2>2, <2>3
  <2>5. last = i
    BY <2>1, <2>3, <2>4
  <2>. QED BY <2>1, <2>2, <2>5
<1>2. ASSUME d + n * b <= c, c < d + n * b + L
      PROVE  covering # {} /\ ~(c < d + (last + 1) * b)
  <2>1. n - 1 \in covering
    BY <1>2
  <2>2. last \in covering
    <3>1. \A k \in covering : k <= n - 1
      OBVIOUS
    <3>. QED BY <2>1, <3>1
  <2>3. last \in 0 .. n - 1
    BY <2>2
  <2>4. PICK l \in 0 .. n - 1 : l = last
    BY <2>3
  <2>5. d + (l + 1) * b <= c
    <3>1. CASE b = 12
      BY <1>2, <3>1
    <3>2. CASE b = 24
      BY <1>2, <3>2
    <3>3. CASE b = 48
      BY <1>2, <3>3
    <3>. QED BY <3>1, <3>2, <3>3
  <2>. HIDE DEF last, covering
  <2>6. (l + 1) * b \in Nat
    OBVIOUS
  <2>. QED BY <2>1, <2>4, <2>5, <2>6
<1>3. ASSUME d + n * b + L <= c
      PROVE  covering = {}
  BY <1>3
<1>. HIDE DEF covering, last
<1>. QED BY <1>0, <1>1, <1>2, <1>3 DEF LatestIsOwn
----------------------------------------------------------------------------
(* The stores.                                                             *)
CellsInv ==
  \A c \in Cells :
    IF c < destination THEN WrittenBefore(c) ELSE output[c] = Old \/ PaddingAfter(c)

LEMMA ByteAtItsCell ==
  ASSUME DInv, NEW c \in Nat
  PROVE  ByteAt(c) = ByteOf(c)
<1>1. (source \div 4) * 3 + c - destination = c
  BY OffsetFacts
<1>. QED BY <1>1 DEF ByteAt

LEMMA PadFacts ==
  /\ InnerPad \in {0, 4, 8} /\ LastPad \in {0, 4}
  /\ LastPad # 0 => PaddedStores /\ LastPad = StorePadding
  BY DEF InnerPad, LastPad, StorePadding

(* The stores of a group: what they leave alone, the bytes of the group,   *)
(* and the padding of the last store behind them.                          *)
LEMMA GroupCells ==
  ASSUME DInv, NEW size, NEW lane,
         <<size, lane>> \in {<<64, 16>>, <<16, 16>>, <<128, 32>>, <<32, 32>>, <<128, 64>>, <<64, 64>>},
         NEW c \in Cells
  PROVE  LET end == destination + (size \div 4) * 3
         IN  /\ c < destination => StoreGroup(size, lane)[c] = output[c]
             /\ destination <= c /\ c < end => StoreGroup(size, lane)[c] = ByteOf(c)
             /\ end <= c /\ c < end + LastPad => StoreGroup(size, lane)[c] = Junk
             /\ end + LastPad <= c => StoreGroup(size, lane)[c] = output[c]
<1>. DEFINE n == size \div lane
            b == (lane \div 4) * 3
            end == destination + (size \div 4) * 3
            pad(j) == IF j = n - 1 THEN LastPad ELSE InnerPad
            covering == {j \in 0 .. n - 1 : /\ destination + j * b <= c
                                            /\ c < destination + (j + 1) * b + pad(j)}
            last == CHOOSE j \in covering : \A k \in covering : k <= j
<1>1. n \in {1, 2, 4} /\ b \in {12, 24, 48} /\ n * b = (size \div 4) * 3
  OBVIOUS
<1>2. c \in Nat /\ destination \in Nat
  BY OffsetFacts, LengthFacts
<1>3. StoreGroup(size, lane)[c] =
        IF c < destination \/ covering = {} THEN output[c]
        ELSE IF c < destination + (last + 1) * b THEN ByteAt(c) ELSE Junk
  BY DEF StoreGroup
<1>4. destination <= c =>
        /\ c < end => covering # {} /\ c < destination + (last + 1) * b
        /\ end <= c /\ c < end + LastPad => covering # {} /\ ~(c < destination + (last + 1) * b)
        /\ end + LastPad <= c => covering = {}
  <2>1. covering = Covering(n, b, destination, InnerPad, LastPad, c)
    BY DEF Covering
  <2>2. last = Latest(covering)
    BY DEF Latest
  <2>. HIDE DEF covering, last, n, b
  <2>3. end = destination + n * b
    BY <1>1
  <2>4. destination <= c => LatestIsOwn(n, b, destination, InnerPad, LastPad, c)
    BY <1>1, <1>2, PadFacts, LastCovering
  <2>. QED BY <2>1, <2>2, <2>3, <2>4 DEF LatestIsOwn
<1>5. ByteAt(c) = ByteOf(c)
  BY <1>2, ByteAtItsCell
<1>6. end \in Nat /\ destination <= end
  BY <1>2
<1>. HIDE DEF covering, last, end
<1>7. destination <= c /\ c < end => StoreGroup(size, lane)[c] = ByteOf(c)
  BY <1>2, <1>3, <1>4, <1>5
<1>8. end <= c /\ c < end + LastPad => StoreGroup(size, lane)[c] = Junk
  BY <1>2, <1>3, <1>4, <1>6
<1>9. end + LastPad <= c => StoreGroup(size, lane)[c] = output[c]
  BY <1>2, <1>3, <1>4, <1>6, PadFacts
<1>. QED BY <1>3, <1>7, <1>8, <1>9 DEF end

(* After the stores of a group, and after one exact store, the cells are   *)
(* as the new offsets say.                                                 *)
LEMMA GroupKeepsCells ==
  ASSUME DInv, CellsInv, pc = "kernel", Runs, UNCHANGED choice,
         output' = StoreGroup(Size, Lane), Advance(Size)
  PROVE  CellsInv'
<1>1. <<Size, Lane>> \in {<<64, 16>>, <<16, 16>>, <<128, 32>>, <<32, 32>>, <<128, 64>>, <<64, 64>>}
  BY LoopFacts
<1>2. PICK size, lane : size = Size /\ lane = Lane
  OBVIOUS
<1>3. size \in {16, 32, 64, 128}
  BY <1>1, <1>2
<1>4. destination' = destination + (size \div 4) * 3
  BY <1>2 DEF Advance
<1>5. Cells' = Cells /\ PaddedStores' = PaddedStores /\ \A c : ByteOf(c)' = ByteOf(c)
  BY ChoiceStays
<1>6. ASSUME NEW c \in Cells
      PROVE  IF c < destination' THEN output'[c] = ByteOf(c)
             ELSE \/ output'[c] = Old
                  \/ output'[c] = Junk /\ PaddedStores /\ c < destination' + StorePadding
  <2>1. c \in Nat /\ destination \in Nat
    BY OffsetFacts, LengthFacts
  <2>2. /\ c < destination => output'[c] = output[c]
        /\ destination <= c /\ c < destination' => output'[c] = ByteOf(c)
        /\ destination' <= c /\ c < destination' + LastPad => output'[c] = Junk
        /\ destination' + LastPad <= c => output'[c] = output[c]
    BY <1>1, <1>2, <1>4, GroupCells
  <2>3. IF c < destination THEN output[c] = ByteOf(c)
        ELSE \/ output[c] = Old
             \/ output[c] = Junk /\ PaddedStores /\ c < destination + StorePadding
    BY DEF CellsInv, WrittenBefore, PaddingAfter
  <2>4. destination' \in Nat /\ destination' >= destination + 12
    BY <1>3, <1>4, <2>1
  <2>. QED BY <2>1, <2>2, <2>3, <2>4, PadFacts DEF StorePadding
<1>. QED BY <1>5, <1>6 DEF CellsInv, WrittenBefore, PaddingAfter

LEMMA StoreKeepsCells ==
  ASSUME DInv, CellsInv, UNCHANGED choice, NEW bytes \in Nat,
         output' = Store(bytes), destination' = destination + bytes
  PROVE  CellsInv'
<1>1. Cells' = Cells /\ PaddedStores' = PaddedStores /\ \A c : ByteOf(c)' = ByteOf(c)
  BY ChoiceStays
<1>2. ASSUME NEW c \in Cells
      PROVE  IF c < destination' THEN output'[c] = ByteOf(c)
             ELSE \/ output'[c] = Old
                  \/ output'[c] = Junk /\ PaddedStores /\ c < destination' + StorePadding
  <2>1. c \in Nat /\ destination \in Nat
    BY OffsetFacts, LengthFacts
  <2>2. output'[c] = IF destination <= c /\ c < destination + bytes THEN ByteAt(c) ELSE output[c]
    BY DEF Store
  <2>3. IF c < destination THEN output[c] = ByteOf(c)
        ELSE \/ output[c] = Old
             \/ output[c] = Junk /\ PaddedStores /\ c < destination + StorePadding
    BY DEF CellsInv, WrittenBefore, PaddingAfter
  <2>4. ByteAt(c) = ByteOf(c)
    BY <2>1, ByteAtItsCell
  <2>. QED BY <2>1, <2>2, <2>3, <2>4 DEF StorePadding
<1>. QED BY <1>1, <1>2 DEF CellsInv, WrittenBefore, PaddingAfter

(* A store leaves a cell in every place.                                   *)
LEMMA StoresAreTotal ==
  /\ \A bytes : Store(bytes) = [c \in Cells |-> Store(bytes)[c]]
  /\ \A size, lane : StoreGroup(size, lane) = [c \in Cells |-> StoreGroup(size, lane)[c]]
  BY DEF Store, StoreGroup
----------------------------------------------------------------------------
(* The parts of the invariant that the steps work with.                    *)
LEMMA Parts ==
  ASSUME DInv
  PROVE  /\ pc \in {"begin", "kernel", "scalar", "done"} /\ kernel \in Backends
         /\ errors \in BOOLEAN /\ (errors => Defers)
         /\ Checks => (errors <=> Bad(0, source))
         /\ pc # "done" /\ call.entry # "validate" => CellsInv
<1>1. DOMAIN Required = Backends
  BY DEF Required, Backends
<1>. QED BY <1>1 DEF DInv, IInv, CellsInv

LEMMA Assembled ==
  ASSUME call' \in Calls, machine' \in Machines, wide' \in BOOLEAN,
         output' = [c \in Cells' |-> output'[c]], loaded' \in 0 .. call'.length,
         pc' \in {"begin", "kernel", "scalar", "done"}, kernel' \in Backends,
         loop' \in 1 .. 4, errors' \in BOOLEAN, chunkEnd' \in 0 .. SimdLen',
         source' \in 0 .. SimdLen', destination' = (source' \div 4) * 3,
         errors' => Defers', Checks' => (errors' <=> Bad(0, source)'),
         pc' # "done" /\ call'.entry # "validate" => CellsInv',
         KernelInv', PrefixInv', ValidateInv'
  PROVE  DInv'
<1>1. DOMAIN Required = Backends
  BY DEF Required, Backends
<1>2. TypeInv'
  BY DEF TypeInv
<1>3. IInv'
  BY <1>1 DEF IInv, CellsInv
<1>. QED BY <1>2, <1>3 DEF DInv

LEMMA ChoiceTypes ==
  ASSUME DInv, UNCHANGED choice
  PROVE  call' \in Calls /\ machine' \in Machines /\ wide' \in BOOLEAN
BY ChoiceStays DEF DInv, TypeInv

LEMMA LoopsStay ==
  ASSUME UNCHANGED choice, kernel' = kernel
  PROVE  Loops' = Loops /\ Sse' = Sse
<1>1. call' = call
  BY ChoiceStays
<1>2. Sse' = Sse
  BY DEF Sse
<1>. QED BY <1>1, <1>2 DEF Loops

(* A step that leaves the output alone.                                    *)
LEMMA OutputStays ==
  ASSUME DInv, UNCHANGED choice, output' = output
  PROVE  /\ output' = [c \in Cells' |-> output'[c]] /\ ValidateInv'
         /\ UNCHANGED offsets /\ CellsInv => CellsInv'
<1>1. output = [c \in Cells |-> output[c]] /\ ValidateInv
  BY DEF DInv, TypeInv
<1>2. Cells' = Cells /\ PaddedStores' = PaddedStores /\ call' = call
      /\ \A c : ByteOf(c)' = ByteOf(c)
  BY ChoiceStays
<1>3. ValidateInv'
  BY <1>1, <1>2 DEF ValidateInv
<1>4. ASSUME UNCHANGED offsets, CellsInv PROVE CellsInv'
  <2>1. source' = source /\ destination' = destination
    BY <1>4 DEF offsets
  <2>. QED BY <1>2, <1>4, <2>1 DEF CellsInv, WrittenBefore, PaddingAfter
<1>. QED BY <1>1, <1>2, <1>3, <1>4

(* The steps that end a call.                                              *)
LEMMA ReturnKeeps ==
  ASSUME DInv, UNCHANGED <<choice, kernel, loop, chunk, offsets>>, pc' = "done",
         loaded' \in 0 .. call.length, output' = [c \in Cells |-> output'[c]],
         call.entry = "validate" => output' = output
  PROVE  DInv'
<1>. /\ UNCHANGED choice
     /\ kernel' = kernel /\ loop' = loop /\ chunkEnd' = chunkEnd /\ errors' = errors
     /\ source' = source /\ destination' = destination
  BY DEF chunk, offsets
<1>1. Checks' = Checks /\ SimdLen' = SimdLen /\ call' = call /\ Cells' = Cells
      /\ \A a, b : Bad(a, b)' = Bad(a, b)
  BY ChoiceStays
<1>2. KernelInv'
  <2>1. Required[kernel'] \subseteq machine'
    BY ChoiceStays DEF DInv, KernelInv
  <2>. QED BY <2>1 DEF KernelInv, AfterLoops
<1>3. PrefixInv'
  <2>1. call.entry = "prefix" => kernel # "neon"
    BY DEF DInv, PrefixInv
  <2>. QED BY <1>1, <2>1 DEF PrefixInv, AfterLoops
<1>4. ValidateInv'
  BY <1>1 DEF ValidateInv, DInv
<1>5. Defers' = Defers
  BY ChoiceStays DEF Defers
<1>6. Checks' => (errors' <=> Bad(0, source)')
  BY <1>1, Parts
<1>. QED BY <1>1, <1>2, <1>3, <1>4, <1>5, <1>6, Parts, OffsetFacts, ChoiceTypes, Assembled

LEMMA RefuseKeeps ==
  ASSUME DInv, Refuse
  PROVE  DInv'
<1>1. /\ pc' = "done" /\ UNCHANGED <<choice, kernel, loop, chunk, offsets>>
      /\ loaded' = loaded /\ output' = output
  BY DEF Refuse, Return
<1>2. loaded \in 0 .. call.length /\ output = [c \in Cells |-> output[c]]
  BY DEF DInv, TypeInv
<1>. QED BY <1>1, <1>2, ReturnKeeps

LEMMA BeginKeeps ==
  ASSUME DInv, Begin
  PROVE  DInv'
<1>1. /\ pc = "begin" /\ ~LayoutFails /\ UNCHANGED choice
      /\ loop' = loop /\ chunkEnd' = chunkEnd /\ errors' = errors
      /\ source' = source /\ destination' = destination /\ loaded' = loaded /\ output' = output
      /\ \/ pc' = "kernel" /\ kernel' = KernelFor /\ Backend # "scalar"
            /\ (call.entry = "prefix" => Backend \notin {"scalar", "neon"})
         \/ pc' = "scalar" /\ kernel' = kernel
            /\ (call.entry = "prefix" => Backend \notin {"scalar", "neon"})
            /\ ~((SimdLen >= 16 \/ call.entry = "prefix") /\ Backend # "scalar")
  BY DEF Begin, chunk, offsets
<1>2. source = 0 /\ loop = 1 /\ kernel = "scalar" /\ errors = FALSE /\ chunkEnd = 0
  <2>1. source = 0 /\ loop = 1 /\ kernel = "scalar" /\ ~errors /\ chunkEnd = 0
    BY <1>1 DEF DInv, KernelInv
  <2>. QED BY <2>1, Parts
<1>3. KernelFor # "scalar" \/ pc' = "scalar"
  BY <1>1, KernelIsSupported
<1>4. 1 \in DOMAIN Loops'
  BY DEF Loops
<1>5. Defers' => Size' \in {16, 64}
  <2>1. ASSUME Defers' PROVE Loops'[1].size \in {16, 64}
    BY <2>1 DEF Defers, Loops, Sse
  <2>. QED BY <1>1, <1>2, <2>1 DEF Size
<1>6. ~AfterLoops'
  BY <1>1, <1>2, <1>4 DEF AfterLoops, Runs
<1>7. KernelInv'
  <2>1. Required[kernel'] \subseteq machine'
    BY <1>1, ChoiceStays, KernelIsSupported DEF DInv, KernelInv
  <2>2. LayoutFails' = LayoutFails /\ Decodes' = Decodes
    BY <1>1, ChoiceStays
  <2>3. pc' = "kernel" /\ Defers' =>
          source' <= chunkEnd' /\ source' % Size' = 0 /\ chunkEnd' % Size' = 0
    <3>1. PICK s \in {16, 64} : Defers' => s = Size'
      BY <1>5
    <3>. QED BY <1>1, <1>2, <3>1
  <2>. QED BY <1>1, <1>2, <1>3, <1>6, <2>1, <2>2, <2>3 DEF KernelInv
<1>8. PrefixInv'
  <2>1. call' = call
    BY <1>1, ChoiceStays
  <2>2. call.entry = "prefix" => pc' = "kernel" /\ kernel' # "neon"
    BY <1>1, <1>3, KernelIsSupported
  <2>. QED BY <1>1, <1>2, <1>6, <2>1, <2>2 DEF PrefixInv
<1>9. Checks' => (errors' <=> Bad(0, source)')
  <2>1. Checks' = Checks /\ \A a, b : Bad(a, b)' = Bad(a, b)
    BY <1>1, ChoiceStays
  <2>. QED BY <1>1, <2>1, Parts
<1>10. kernel' \in Backends
  BY <1>1, KernelIsSupported, Parts
<1>11. output' = [c \in Cells' |-> output'[c]] /\ ValidateInv'
       /\ (pc' # "done" /\ call'.entry # "validate" => CellsInv')
  <2>1. UNCHANGED offsets
    BY <1>1 DEF offsets
  <2>. QED BY <1>1, <2>1, OutputStays, Parts, ChoiceStays
<1>12. SimdLen' = SimdLen /\ call' = call
  BY <1>1, ChoiceStays
<1>13. loaded \in 0 .. call.length
  BY DEF DInv, TypeInv
<1>14. call' \in Calls /\ machine' \in Machines /\ wide' \in BOOLEAN
  BY <1>1, ChoiceTypes
<1>15. pc' \in {"begin", "kernel", "scalar", "done"} /\ loop' \in 1 .. 4
  BY <1>1, <1>2
<1>17. errors' = FALSE
  BY <1>1, <1>2
<1>16. chunkEnd' \in 0 .. SimdLen' /\ source' \in 0 .. SimdLen' /\ destination' = (source' \div 4) * 3
       /\ loaded' \in 0 .. call'.length
  BY <1>1, <1>12, <1>13, OffsetFacts
<1>. QED BY <1>7, <1>8, <1>9, <1>10, <1>11, <1>14, <1>15, <1>16, <1>17, Assembled
----------------------------------------------------------------------------
(* A turn of a loop: its stores and its offsets.                           *)
LEMMA TurnFacts ==
  ASSUME DInv, pc = "kernel", Runs, UNCHANGED choice, Advance(Size),
         output' = IF call.entry = "validate" THEN output ELSE StoreGroup(Size, Lane)
  PROVE  /\ output' = [c \in Cells' |-> output'[c]] /\ ValidateInv'
         /\ call'.entry # "validate" => CellsInv'
         /\ source' = source + Size /\ destination' = (source' \div 4) * 3
         /\ source % 16 = 0 /\ source' % 16 = 0
<1>1. PICK size : size = Size
  OBVIOUS
<1>2. size \in {16, 32, 64, 128} /\ source' = source + size
      /\ destination' = destination + (size \div 4) * 3
  BY <1>1, LoopFacts DEF Advance
<1>3. source % 16 = 0 /\ source \in Nat /\ destination = (source \div 4) * 3
  BY OffsetFacts DEF DInv, KernelInv
<1>4. destination' = (source' \div 4) * 3 /\ source' % 16 = 0
  BY <1>2, <1>3
<1>5. call' = call /\ Cells' = Cells
  BY ChoiceStays
<1>6. CASE call.entry = "validate"
  <2>1. output' = output
    BY <1>6
  <2>. QED BY <1>1, <1>2, <1>3, <1>4, <1>5, <1>6, <2>1, OutputStays
<1>7. CASE call.entry # "validate"
  <2>1. output' = StoreGroup(Size, Lane) /\ CellsInv
    BY <1>7, Parts
  <2>2. CellsInv'
    BY <2>1, GroupKeepsCells
  <2>3. output' = [c \in Cells |-> output'[c]]
    BY <2>1, StoresAreTotal
  <2>4. ValidateInv'
    BY <1>5, <1>7 DEF ValidateInv
  <2>. QED BY <1>1, <1>2, <1>3, <1>4, <1>5, <2>2, <2>3, <2>4
<1>. QED BY <1>6, <1>7

(* The facts about the loops and the call that no turn changes.            *)
LEMMA KernelStays ==
  ASSUME DInv, UNCHANGED choice, kernel' = kernel
  PROVE  /\ Required[kernel'] \subseteq machine' /\ kernel' \in Backends
         /\ LayoutFails' = LayoutFails /\ SimdLen' = SimdLen /\ call' = call
         /\ Checks' = Checks /\ Decodes' = Decodes /\ Loops' = Loops
         /\ (Defers' <=> kernel = "neon" /\ loop' = 1 /\ Checks /\ ~ValidatedBlocksOnly)
         /\ GoodLength' = GoodLength
         /\ \A a, b : Bad(a, b)' = Bad(a, b)
<1>1. /\ machine' = machine /\ call' = call /\ LayoutFails' = LayoutFails /\ SimdLen' = SimdLen
      /\ Checks' = Checks /\ Decodes' = Decodes /\ GoodLength' = GoodLength
      /\ ValidatedBlocksOnly' = ValidatedBlocksOnly
      /\ \A a, b : Bad(a, b)' = Bad(a, b)
  BY ChoiceStays
<1>2. Required[kernel'] \subseteq machine'
  BY <1>1 DEF DInv, KernelInv
<1>3. Loops' = Loops
  BY LoopsStay
<1>4. Defers' <=> kernel = "neon" /\ loop' = 1 /\ Checks /\ ~ValidatedBlocksOnly
  BY <1>1 DEF Defers
<1>. QED BY <1>1, <1>2, <1>3, <1>4, Parts

LEMMA RunningLayout ==
  ASSUME DInv, pc = "kernel"
  PROVE  ~LayoutFails /\ kernel # "scalar"
BY DEF DInv, KernelInv

LEMMA GroupKeeps ==
  ASSUME DInv, Group
  PROVE  DInv'
<1>1. /\ pc = "kernel" /\ Runs /\ ~Defers /\ UNCHANGED choice
      /\ Checks => ~Bad(source, source + Size)
      /\ loaded' = source + Size /\ Advance(Size) /\ source + Size <= SimdLen
      /\ output' = IF call.entry = "validate" THEN output ELSE StoreGroup(Size, Lane)
      /\ loop' = IF kernel = "avx2" /\ loop = 3 THEN 4 ELSE loop
      /\ pc' = pc /\ kernel' = kernel /\ chunkEnd' = chunkEnd /\ errors' = errors
  BY DEF Group, Load, chunk
<1>2. /\ output' = [c \in Cells' |-> output'[c]] /\ ValidateInv'
      /\ call'.entry # "validate" => CellsInv'
      /\ source' = source + Size /\ destination' = (source' \div 4) * 3 /\ source' % 16 = 0
  BY <1>1, TurnFacts
<1>3. errors = FALSE /\ errors' = FALSE
  BY <1>1, Parts
<1>4. PICK size \in {16, 32, 64, 128} : size = Size
  BY <1>1, LoopFacts
<1>. HIDE DEF Size
<1>5. /\ Required[kernel'] \subseteq machine' /\ kernel' \in Backends
      /\ LayoutFails' = LayoutFails /\ SimdLen' = SimdLen /\ call' = call
      /\ Checks' = Checks /\ Loops' = Loops
      /\ (Defers' <=> kernel = "neon" /\ loop' = 1 /\ Checks /\ ~ValidatedBlocksOnly)
      /\ \A a, b : Bad(a, b)' = Bad(a, b)
  BY <1>1, KernelStays
<1>6. ~Defers'
  BY <1>1, <1>5, OffsetFacts DEF Defers
<1>7. loop' \in 1 .. 4 /\ (AfterLoops' => kernel = "avx2" /\ loop = 3)
  BY <1>1, <1>5, OffsetFacts DEF AfterLoops, Runs
<1>8. source' \in Nat /\ source \in Nat /\ source' = source + size /\ source' <= SimdLen
      /\ call.length \in Nat /\ SimdLen \in Nat /\ SimdLen <= call.length /\ call \in Calls
      /\ chunkEnd' \in 0 .. SimdLen
  BY <1>1, <1>2, <1>4, OffsetFacts
<1>9. Checks' => (errors' <=> Bad(0, source)')
  <2>1. ASSUME Checks PROVE ~Bad(0, source + size)
    <3>1. ~Bad(0, source) /\ ~Bad(source, source + size)
      BY <1>1, <1>3, <1>4, <2>1, Parts
    <3>. QED BY <1>8, <3>1, BadSplits
  <2>. QED BY <1>3, <1>5, <1>8, <2>1
<1>10. KernelInv'
  <2>1. ~LayoutFails /\ kernel # "scalar"
    BY <1>1, RunningLayout
  <2>. QED BY <1>1, <1>2, <1>5, <1>6, <1>7, <2>1 DEF KernelInv
<1>11. PrefixInv'
  <2>1. ASSUME call.entry = "prefix", kernel = "avx2", loop = 3
        PROVE  SimdLen - source' < 16 \/ Bad(source', source' + 16)
    <3>1. Size = 16 /\ size = 16
      BY <1>1, <1>4, <2>1, LoopFacts
    <3>2. SimdLen - source < 32 \/ Bad(source, source + 32)
      BY <1>1, <2>1 DEF DInv, PrefixInv, Near
    <3>3. Bad(source, source + 32) => Bad(source, source + 16) \/ Bad(source + 16, source + 32)
      BY <1>8, BadSplits
    <3>4. ~Bad(source, source + 16)
      BY <1>1, <1>4, <2>1, <3>1 DEF Checks
    <3>. QED BY <1>8, <3>1, <3>2, <3>3, <3>4
  <2>2. call.entry = "prefix" => kernel # "neon"
    BY DEF DInv, PrefixInv
  <2>3. ~(pc' = "kernel" /\ kernel' = "avx2" /\ loop' = 3)
    BY <1>1, OffsetFacts
  <2>. QED BY <1>1, <1>5, <1>7, <2>1, <2>2, <2>3 DEF PrefixInv, Near
<1>12. /\ loaded' \in 0 .. call'.length /\ pc' \in {"begin", "kernel", "scalar", "done"}
       /\ chunkEnd' \in 0 .. SimdLen' /\ source' \in 0 .. SimdLen'
  BY <1>1, <1>4, <1>5, <1>8
<1>. QED BY <1>1, <1>2, <1>3, <1>5, <1>6, <1>7, <1>9, <1>10, <1>11, <1>12, ChoiceTypes, Assembled

(* Going on to the next loop.                                              *)
LEMMA NextLoopKeeps ==
  ASSUME DInv, pc = "kernel", Runs, UNCHANGED <<choice, pc, kernel, chunk, offsets, output>>,
         loop' = loop + 1, ~errors, loaded' \in 0 .. call.length,
         SimdLen - source < Size \/ (call.entry = "prefix" /\ Bad(source, source + Size))
  PROVE  DInv'
<1>1. /\ UNCHANGED choice /\ pc' = pc /\ kernel' = kernel /\ chunkEnd' = chunkEnd /\ errors' = errors
      /\ source' = source /\ destination' = destination /\ output' = output
  BY DEF chunk, offsets
<1>2. /\ Required[kernel'] \subseteq machine' /\ kernel' \in Backends
      /\ LayoutFails' = LayoutFails /\ SimdLen' = SimdLen /\ call' = call
      /\ Checks' = Checks /\ Loops' = Loops
      /\ (Defers' <=> kernel = "neon" /\ loop' = 1 /\ Checks /\ ~ValidatedBlocksOnly)
      /\ \A a, b : Bad(a, b)' = Bad(a, b)
  BY <1>1, KernelStays
<1>3. loop \in 1 .. 3 /\ loop' \in 2 .. 4
  BY LoopFacts
<1>4. ~Defers' /\ errors' = FALSE
  BY <1>1, <1>2, <1>3, Parts
<1>5. source \in Nat /\ SimdLen \in Nat /\ source % 16 = 0
  BY OffsetFacts DEF DInv, KernelInv
<1>6. AfterLoops' <=> loop + 1 \notin DOMAIN Loops
  BY <1>1, <1>2 DEF AfterLoops, Runs
<1>7. KernelInv'
  <2>1. ~LayoutFails /\ kernel # "scalar"
    BY RunningLayout
  <2>2. AfterLoops' /\ kernel = "avx512" /\ call.entry # "prefix" => SimdLen - source < 64
    BY <1>5, <1>6, LoopFacts
  <2>. QED BY <1>1, <1>2, <1>4, <1>5, <2>1, <2>2 DEF KernelInv
<1>8. PrefixInv'
  <2>1. call.entry = "prefix" => kernel # "neon"
    BY DEF DInv, PrefixInv
  <2>2. Near(Size)
    BY DEF Near
  <2>3. kernel = "avx2" /\ loop' = 3 => Near(32)
    BY <1>3, <2>2, LoopFacts
  <2>4. AfterLoops' => IF kernel = "avx512" THEN Near(64) ELSE kernel # "neon" => Near(16)
    <3>1. CASE kernel = "avx512"
      BY <1>6, <2>2, <3>1, LoopFacts
    <3>2. CASE kernel = "avx2"
      BY <1>3, <1>6, <2>2, <3>2, LoopFacts
    <3>3. CASE kernel \notin {"avx512", "avx2"}
      BY <1>6, <2>2, <3>3, LoopFacts
    <3>. QED BY <3>1, <3>2, <3>3
  <2>5. \A n : Near(n)' = Near(n)
    BY <1>1, <1>2 DEF Near
  <2>. QED BY <1>1, <1>2, <2>1, <2>3, <2>4, <2>5 DEF PrefixInv
<1>9. Checks' => (errors' <=> Bad(0, source)')
  BY <1>1, <1>2, Parts
<1>10. output' = [c \in Cells' |-> output'[c]] /\ ValidateInv'
       /\ (pc' # "done" /\ call'.entry # "validate" => CellsInv')
  BY <1>1, <1>2, OutputStays, Parts
<1>11. /\ loaded' \in 0 .. call'.length /\ pc' \in {"begin", "kernel", "scalar", "done"}
       /\ chunkEnd' \in 0 .. SimdLen' /\ source' \in 0 .. SimdLen' /\ loop' \in 1 .. 4
       /\ destination' = (source' \div 4) * 3
  BY <1>1, <1>2, <1>3, OffsetFacts
<1>. QED BY <1>1, <1>2, <1>4, <1>7, <1>8, <1>9, <1>10, <1>11, ChoiceTypes, Assembled

LEMMA BadGroupKeeps ==
  ASSUME DInv, BadGroup
  PROVE  DInv'
<1>1. /\ pc = "kernel" /\ Runs /\ ~Defers /\ source + Size <= SimdLen
      /\ Bad(source, source + Size) /\ loaded' = source + Size
      /\ UNCHANGED <<choice, kernel, chunk, offsets, output>>
      /\ \/ call.entry = "prefix" /\ loop' = loop + 1 /\ pc' = pc
         \/ pc' = "done" /\ loop' = loop
  BY DEF BadGroup, Load, Return
<1>2. PICK size \in {16, 32, 64, 128} : size = Size
  BY <1>1, LoopFacts
<1>3. loaded' \in 0 .. call.length
  <2>. HIDE DEF Size
  <2>. QED BY <1>1, <1>2, OffsetFacts
<1>4. ~errors
  BY <1>1, Parts
<1>5. CASE pc' = "done" /\ loop' = loop
  <2>1. output' = [c \in Cells |-> output'[c]] /\ output' = output
    BY <1>1 DEF DInv, TypeInv
  <2>. QED BY <1>1, <1>3, <1>5, <2>1, ReturnKeeps
<1>6. CASE call.entry = "prefix" /\ loop' = loop + 1 /\ pc' = pc
  BY <1>1, <1>3, <1>4, <1>6, NextLoopKeeps
<1>. QED BY <1>1, <1>5, <1>6

LEMMA EndLoopKeeps ==
  ASSUME DInv, EndLoop
  PROVE  DInv'
<1>1. /\ pc = "kernel" /\ Runs /\ source + Size > SimdLen /\ (Defers => ~errors)
      /\ loop' = loop + 1
      /\ UNCHANGED <<choice, pc, kernel, chunk, offsets, output>> /\ loaded' = loaded
  BY DEF EndLoop
<1>2. PICK size \in {16, 32, 64, 128} : size = Size
  BY <1>1, LoopFacts
<1>3. SimdLen - source < Size
  <2>. HIDE DEF Size
  <2>. QED BY <1>1, <1>2, OffsetFacts
<1>4. ~errors
  BY <1>1, Parts
<1>5. loaded' \in 0 .. call.length
  BY <1>1 DEF DInv, TypeInv
<1>. QED BY <1>1, <1>3, <1>4, <1>5, NextLoopKeeps

LEMMA OpenChunkKeeps ==
  ASSUME DInv, OpenChunk
  PROVE  DInv'
<1>1. /\ pc = "kernel" /\ Runs /\ Defers /\ source = chunkEnd /\ ~errors /\ source + Size <= SimdLen
      /\ chunkEnd' = source + Minimum(ErrorInterval, ((SimdLen - source) \div Size) * Size)
      /\ UNCHANGED choice /\ pc' = pc /\ kernel' = kernel /\ loop' = loop /\ errors' = errors
      /\ source' = source /\ destination' = destination /\ loaded' = loaded /\ output' = output
      /\ UNCHANGED offsets
  BY DEF OpenChunk, offsets
<1>2. /\ Required[kernel'] \subseteq machine' /\ kernel' \in Backends
      /\ LayoutFails' = LayoutFails /\ SimdLen' = SimdLen /\ call' = call
      /\ Checks' = Checks /\ Loops' = Loops
      /\ (Defers' <=> kernel = "neon" /\ loop' = 1 /\ Checks /\ ~ValidatedBlocksOnly)
      /\ \A a, b : Bad(a, b)' = Bad(a, b)
  BY <1>1, KernelStays
<1>3. PICK size \in {16, 64} : size = Size
  <2>1. kernel = "neon" /\ loop = 1
    BY <1>1 DEF Defers
  <2>2. Loops[1].size \in {16, 64}
    BY <2>1 DEF Loops, Sse
  <2>. QED BY <2>1, <2>2 DEF Size
<1>4. Size' = Size /\ (AfterLoops' <=> AfterLoops) /\ ~AfterLoops
  BY <1>1, <1>2 DEF Size, AfterLoops, Runs
<1>5. source \in Nat /\ SimdLen \in Nat /\ source <= SimdLen /\ source % 16 = 0 /\ source % size = 0
  BY <1>1, <1>3, OffsetFacts DEF DInv, KernelInv
<1>6. PICK left \in Nat : left = SimdLen - source
  BY <1>5
<1>7. /\ chunkEnd' = source + Minimum(ErrorInterval, (left \div size) * size)
      /\ ErrorInterval \in Nat /\ ErrorInterval % 64 = 0
  BY <1>1, <1>3, <1>6, Base64DecodeAssumption
<1>8. /\ chunkEnd' \in Nat /\ source <= chunkEnd' /\ chunkEnd' <= SimdLen /\ chunkEnd' % size = 0
  <2>1. CASE size = 16
    BY <1>5, <1>6, <1>7, <2>1 DEF Minimum
  <2>2. CASE size = 64
    BY <1>5, <1>6, <1>7, <2>2 DEF Minimum
  <2>. QED BY <1>3, <2>1, <2>2
<1>9. KernelInv'
  <2>1. ~LayoutFails /\ kernel # "scalar"
    BY <1>1, RunningLayout
  <2>2. source' <= chunkEnd' /\ source' % Size' = 0 /\ chunkEnd' % Size' = 0
    BY <1>1, <1>3, <1>4, <1>5, <1>8
  <2>. QED BY <1>1, <1>2, <1>4, <1>5, <2>1, <2>2 DEF KernelInv
<1>10. PrefixInv'
  <2>1. call.entry = "prefix" => kernel # "neon"
    BY DEF DInv, PrefixInv
  <2>. QED BY <1>1, <1>2, <2>1 DEF PrefixInv, Defers
<1>11. Checks' => (errors' <=> Bad(0, source)')
  BY <1>1, <1>2, Parts
<1>12. output' = [c \in Cells' |-> output'[c]] /\ ValidateInv'
       /\ (pc' # "done" /\ call'.entry # "validate" => CellsInv')
  BY <1>1, <1>2, OutputStays, Parts
<1>13. loaded \in 0 .. call.length
  BY DEF DInv, TypeInv
<1>14. /\ loaded' \in 0 .. call'.length /\ pc' \in {"begin", "kernel", "scalar", "done"}
       /\ chunkEnd' \in 0 .. SimdLen' /\ source' \in 0 .. SimdLen' /\ loop' \in 1 .. 4
       /\ destination' = (source' \div 4) * 3
  BY <1>1, <1>2, <1>5, <1>8, <1>13, OffsetFacts
<1>15. errors' = FALSE
  BY <1>1, Parts
<1>. QED BY <1>1, <1>2, <1>9, <1>10, <1>11, <1>12, <1>14, <1>15, ChoiceTypes, Assembled

LEMMA ChunkGroupKeeps ==
  ASSUME DInv, ChunkGroup
  PROVE  DInv'
<1>1. /\ pc = "kernel" /\ Runs /\ Defers /\ source < chunkEnd /\ UNCHANGED choice
      /\ errors' = (errors \/ Bad(source, source + Size))
      /\ loaded' = source + Size /\ Advance(Size)
      /\ output' = IF call.entry = "validate" THEN output ELSE StoreGroup(Size, Lane)
      /\ pc' = pc /\ kernel' = kernel /\ loop' = loop /\ chunkEnd' = chunkEnd
  BY DEF ChunkGroup, Load
<1>2. /\ output' = [c \in Cells' |-> output'[c]] /\ ValidateInv'
      /\ call'.entry # "validate" => CellsInv'
      /\ source' = source + Size /\ destination' = (source' \div 4) * 3 /\ source' % 16 = 0
  BY <1>1, TurnFacts
<1>3. /\ Required[kernel'] \subseteq machine' /\ kernel' \in Backends
      /\ LayoutFails' = LayoutFails /\ SimdLen' = SimdLen /\ call' = call
      /\ Checks' = Checks /\ Loops' = Loops
      /\ (Defers' <=> kernel = "neon" /\ loop' = 1 /\ Checks /\ ~ValidatedBlocksOnly)
      /\ \A a, b : Bad(a, b)' = Bad(a, b)
  BY <1>1, KernelStays
<1>4. PICK size \in {16, 64} : size = Size
  <2>1. kernel = "neon" /\ loop = 1
    BY <1>1 DEF Defers
  <2>2. Loops[1].size \in {16, 64}
    BY <2>1 DEF Loops, Sse
  <2>. QED BY <2>1, <2>2 DEF Size
<1>5. Size' = Size /\ ~AfterLoops'
  BY <1>1, <1>3 DEF Size, AfterLoops, Runs
<1>6. /\ source \in Nat /\ chunkEnd \in Nat /\ chunkEnd <= SimdLen /\ source % size = 0
      /\ SimdLen \in Nat /\ call.length \in Nat /\ SimdLen <= call.length /\ call \in Calls
      /\ chunkEnd % size = 0
  BY <1>1, <1>4, OffsetFacts DEF DInv, KernelInv
<1>7. /\ source' = source + size /\ source' \in Nat /\ source' <= chunkEnd /\ source' % size = 0
  <2>1. CASE size = 16
    BY <1>1, <1>2, <1>4, <1>6, <2>1
  <2>2. CASE size = 64
    BY <1>1, <1>2, <1>4, <1>6, <2>2
  <2>. QED BY <1>4, <2>1, <2>2
<1>8. KernelInv'
  <2>1. ~LayoutFails /\ kernel # "scalar"
    BY <1>1, RunningLayout
  <2>2. source' <= chunkEnd' /\ source' % Size' = 0 /\ chunkEnd' % Size' = 0
    BY <1>1, <1>4, <1>5, <1>6, <1>7
  <2>. QED BY <1>1, <1>2, <1>3, <1>5, <2>1, <2>2 DEF KernelInv
<1>9. PrefixInv'
  <2>1. call.entry = "prefix" => kernel # "neon"
    BY DEF DInv, PrefixInv
  <2>. QED BY <1>1, <1>3, <2>1 DEF PrefixInv, Defers
<1>10. Checks' => (errors' <=> Bad(0, source)')
  <2>1. Bad(0, source + size) <=> Bad(0, source) \/ Bad(source, source + size)
    BY <1>4, <1>6, BadSplits
  <2>2. Bad(0, source)' <=> Bad(0, source + size)
    BY <1>3, <1>7
  <2>3. Checks => (errors <=> Bad(0, source))
    BY Parts
  <2>. QED BY <1>1, <1>3, <1>4, <2>1, <2>2, <2>3
<1>11. /\ loaded' \in 0 .. call'.length /\ pc' \in {"begin", "kernel", "scalar", "done"}
       /\ chunkEnd' \in 0 .. SimdLen' /\ source' \in 0 .. SimdLen' /\ loop' \in 1 .. 4
  BY <1>1, <1>3, <1>4, <1>6, <1>7, OffsetFacts
<1>12. errors' \in BOOLEAN
  BY <1>1, Parts DEF Bad
<1>13. errors' => Defers'
  BY <1>1, <1>3 DEF Defers
<1>. QED BY <1>1, <1>2, <1>3, <1>8, <1>9, <1>10, <1>11, <1>12, <1>13, ChoiceTypes, Assembled

LEMMA BadChunkKeeps ==
  ASSUME DInv, BadChunk
  PROVE  DInv'
<1>1. /\ pc' = "done" /\ UNCHANGED <<choice, kernel, loop, chunk, offsets>>
      /\ loaded' = loaded /\ output' = output
  BY DEF BadChunk, Return
<1>2. loaded \in 0 .. call.length /\ output = [c \in Cells |-> output[c]]
  BY DEF DInv, TypeInv
<1>. QED BY <1>1, <1>2, ReturnKeeps
----------------------------------------------------------------------------
(* What follows the loops.                                                 *)
LEMMA AfterLoopsFacts ==
  ASSUME DInv, AfterLoops
  PROVE  /\ errors = FALSE /\ pc = "kernel" /\ source % 16 = 0
         /\ (Checks => ~Bad(0, source)) /\ ~LayoutFails /\ kernel # "scalar"
         /\ Left \in Nat /\ Left = SimdLen - source
<1>1. pc = "kernel" /\ ~Runs
  BY DEF AfterLoops
<1>2. 1 \in DOMAIN Loops
  BY DEF Loops
<1>3. ~Defers
  BY <1>1, <1>2 DEF Defers, Runs
<1>4. source % 16 = 0 /\ ~LayoutFails /\ kernel # "scalar"
  BY <1>1 DEF DInv, KernelInv
<1>5. Left \in Nat /\ Left = SimdLen - source
  BY OffsetFacts DEF Left
<1>. QED BY <1>1, <1>3, <1>4, <1>5, Parts

LEMMA MaskedFacts ==
  ASSUME DInv, AfterLoops
  PROVE  /\ Masked \in Nat /\ Masked <= Left
         /\ call.entry = "validate" => Masked = Left
         /\ call.entry # "validate" => Masked % 4 = 0
         /\ call.entry \notin {"validate", "prefix"} => Left - Masked < 4
         /\ call.entry = "prefix" => Masked <= 64 /\ (Left - Masked < 4 \/ Masked = 64)
<1>1. Left \in Nat
  BY AfterLoopsFacts
<1>2. PICK left \in Nat : left = Left
  BY <1>1
<1>. HIDE DEF Left
<1>3. CASE call.entry = "validate"
  BY <1>2, <1>3 DEF Masked
<1>4. CASE call.entry = "prefix"
  <2>1. Masked = (Minimum(left, 64) \div 4) * 4
    BY <1>2, <1>4 DEF Masked
  <2>. QED BY <1>2, <1>4, <2>1 DEF Minimum
<1>5. CASE call.entry \notin {"validate", "prefix"}
  <2>1. Masked = (left \div 4) * 4
    BY <1>2, <1>5 DEF Masked
  <2>. QED BY <1>2, <1>5, <2>1
<1>. QED BY <1>3, <1>4, <1>5

(* The quads before the first bad symbol of a prefix.                      *)
LEMMA ValidMaskedFacts ==
  ASSUME DInv, AfterLoops, Checks /\ call.entry # "prefix" => ~Bad(source, source + Masked)
  PROVE  /\ ValidMasked \in Nat /\ ValidMasked <= Masked
         /\ Checks => ~Bad(0, source + ValidMasked)
         /\ call.entry # "validate" => ValidMasked % 4 = 0
         /\ call.entry # "prefix" => ValidMasked = Masked
         /\ call.entry = "prefix" =>
              \/ ValidMasked = Masked /\ ~Bad(source, source + Masked)
              \/ call.bad # {} /\ FirstBad \in Nat /\ source + ValidMasked = (FirstBad \div 4) * 4
<1>1. /\ source \in Nat /\ SimdLen \in Nat /\ call \in Calls /\ source % 16 = 0
      /\ Masked \in Nat /\ (call.entry # "validate" => Masked % 4 = 0)
      /\ (Checks => ~Bad(0, source))
  BY OffsetFacts, MaskedFacts, AfterLoopsFacts
<1>2. CASE Checks /\ Bad(source, source + Masked)
  <2>1. call.entry = "prefix" /\ ValidMasked = ((FirstBad - source) \div 4) * 4
    BY <1>2 DEF ValidMasked
  <2>2. call.bad \subseteq Nat /\ call.bad # {}
    BY <1>1, <1>2, LengthFacts DEF Bad
  <2>3. FirstBad \in call.bad /\ \A q \in call.bad : FirstBad <= q
    BY <1>1, <2>2, FirstBadFacts
  <2>4. PICK first \in Nat : first = FirstBad
    BY <2>2, <2>3
  <2>5. first >= source
    BY <1>1, <1>2, <2>2, <2>3, <2>4 DEF Bad
  <2>6. first < source + Masked
    BY <1>1, <1>2, <2>2, <2>3, <2>4 DEF Bad
  <2>7. source + ValidMasked = (first \div 4) * 4 /\ ValidMasked \in Nat /\ ValidMasked % 4 = 0
        /\ ValidMasked <= Masked
    BY <1>1, <2>1, <2>4, <2>5, <2>6
  <2>8. ~Bad(0, source + ValidMasked)
    BY <2>2, <2>3, <2>4, <2>7 DEF Bad
  <2>. QED BY <2>1, <2>2, <2>4, <2>7, <2>8
<1>3. CASE ~(Checks /\ Bad(source, source + Masked))
  <2>1. ValidMasked = Masked
    BY <1>3 DEF ValidMasked
  <2>2. Checks => ~Bad(0, source + Masked)
    BY <1>1, <1>3, BadSplits
  <2>3. call.entry = "prefix" => Checks
    BY DEF Checks
  <2>. QED BY <1>1, <1>3, <2>1, <2>2, <2>3
<1>. QED BY <1>2, <1>3

LEMMA GoodLengthFacts ==
  ASSUME call \in Calls
  PROVE  /\ GoodLength \in Nat /\ GoodLength <= call.length
         /\ call.bad # {} => GoodLength = FirstBad
         /\ \A a, b \in Nat : Bad(a, b) => GoodLength < b
         /\ \A b \in Nat : ~Bad(0, b) /\ b <= call.length => b <= GoodLength
<1>1. call.bad \subseteq 0 .. call.length - 1 /\ call.length \in Nat
  BY LengthFacts
<1>2. CASE call.bad = {}
  BY <1>1, <1>2 DEF GoodLength, Bad
<1>3. CASE call.bad # {}
  <2>1. FirstBad \in call.bad /\ \A q \in call.bad : FirstBad <= q
    BY <1>3, FirstBadFacts
  <2>. QED BY <1>1, <1>3, <2>1 DEF GoodLength, Bad
<1>. QED BY <1>2, <1>3

(* Going on to the scalar loop.                                            *)
LEMMA ToScalarKeeps ==
  ASSUME DInv, UNCHANGED <<choice, kernel, loop, chunk>>, pc' = "scalar", ~LayoutFails, ~errors,
         source' \in 0 .. SimdLen, destination' = (source' \div 4) * 3,
         Decodes => source' % 4 = 0, Checks => ~Bad(0, source)',
         loaded' \in 0 .. call.length, output' = [c \in Cells' |-> output'[c]],
         ValidateInv', call.entry # "validate" => CellsInv',
         call.entry = "prefix" => source' >= (GoodLength \div 16) * 16
  PROVE  DInv'
<1>1. UNCHANGED choice /\ kernel' = kernel /\ loop' = loop /\ chunkEnd' = chunkEnd /\ errors' = errors
  BY DEF chunk
<1>2. /\ Required[kernel'] \subseteq machine' /\ kernel' \in Backends
      /\ LayoutFails' = LayoutFails /\ SimdLen' = SimdLen /\ call' = call
      /\ Checks' = Checks /\ Decodes' = Decodes /\ GoodLength' = GoodLength
  BY <1>1, KernelStays
<1>3. errors' = FALSE
  BY <1>1, Parts
<1>4. KernelInv'
  BY <1>2, <1>3 DEF KernelInv, AfterLoops
<1>5. PrefixInv'
  <2>1. call.entry = "prefix" => kernel # "neon"
    BY DEF DInv, PrefixInv
  <2>. QED BY <1>1, <1>2, <2>1 DEF PrefixInv, AfterLoops
<1>6. Checks' => (errors' <=> Bad(0, source)')
  BY <1>2, <1>3
<1>7. /\ loaded' \in 0 .. call'.length /\ pc' \in {"begin", "kernel", "scalar", "done"}
      /\ chunkEnd' \in 0 .. SimdLen' /\ source' \in 0 .. SimdLen' /\ loop' \in 1 .. 4
  BY <1>1, <1>2, OffsetFacts
<1>. QED BY <1>1, <1>2, <1>3, <1>4, <1>5, <1>6, <1>7, ChoiceTypes, Assembled

(* One exact store.                                                        *)
LEMMA ExactStore ==
  ASSUME DInv, pc # "done", UNCHANGED choice, NEW symbols \in Nat, Advance(symbols),
         source % 4 = 0,
         output' = IF call.entry = "validate" THEN output ELSE Store((symbols \div 4) * 3)
  PROVE  /\ output' = [c \in Cells' |-> output'[c]] /\ ValidateInv'
         /\ call.entry # "validate" => CellsInv'
         /\ source' = source + symbols /\ destination' = (source' \div 4) * 3
<1>1. source' = source + symbols /\ destination' = destination + (symbols \div 4) * 3
      /\ source \in Nat /\ destination = (source \div 4) * 3
  BY OffsetFacts DEF Advance
<1>2. destination' = (source' \div 4) * 3
  BY <1>1
<1>3. call' = call /\ Cells' = Cells
  BY ChoiceStays
<1>4. CASE call.entry = "validate"
  BY <1>1, <1>2, <1>4, OutputStays
<1>5. CASE call.entry # "validate"
  <2>1. PICK bytes \in Nat : bytes = (symbols \div 4) * 3
    OBVIOUS
  <2>2. output' = Store(bytes) /\ destination' = destination + bytes /\ CellsInv
    BY <1>1, <1>5, <2>1, Parts
  <2>3. CellsInv'
    BY <2>2, StoreKeepsCells
  <2>4. output' = [c \in Cells |-> output'[c]]
    BY <2>2, StoresAreTotal
  <2>5. ValidateInv'
    BY <1>3, <1>5 DEF ValidateInv
  <2>. QED BY <1>1, <1>2, <1>3, <1>5, <2>3, <2>4, <2>5
<1>. QED BY <1>4, <1>5

LEMMA MaskedTailKeeps ==
  ASSUME DInv, MaskedTail
  PROVE  DInv'
<1>1. /\ AfterLoops /\ kernel = "avx512" /\ Masked # 0 /\ pc' = "scalar"
      /\ (Checks /\ call.entry # "prefix" => ~Bad(source, source + Masked))
      /\ loaded' = source + Masked /\ Advance(ValidMasked)
      /\ output' = IF call.entry = "validate" THEN output ELSE Store((ValidMasked \div 4) * 3)
      /\ UNCHANGED <<choice, kernel, loop, chunk>>
  BY DEF MaskedTail, Load
<1>2. /\ ValidMasked \in Nat /\ ValidMasked <= Masked
      /\ (Checks => ~Bad(0, source + ValidMasked))
      /\ (call.entry # "validate" => ValidMasked % 4 = 0)
  BY <1>1, ValidMaskedFacts
<1>3. PICK valid \in Nat, masked \in Nat : valid = ValidMasked /\ masked = Masked
  BY <1>1, <1>2, MaskedFacts
<1>4. /\ source \in Nat /\ SimdLen \in Nat /\ call \in Calls /\ source % 16 = 0
      /\ masked <= SimdLen - source /\ call.length \in Nat /\ SimdLen <= call.length
      /\ ~LayoutFails /\ errors = FALSE /\ pc = "kernel" /\ source <= SimdLen
  BY <1>1, <1>3, OffsetFacts, MaskedFacts, AfterLoopsFacts
<1>5. /\ output' = [c \in Cells' |-> output'[c]] /\ ValidateInv'
      /\ (call.entry # "validate" => CellsInv')
      /\ source' = source + valid /\ destination' = (source' \div 4) * 3
  <2>1. source % 4 = 0
    BY <1>4
  <2>. QED BY <1>1, <1>3, <1>4, <2>1, ExactStore
<1>6. source' \in 0 .. SimdLen /\ loaded' \in 0 .. call.length
  BY <1>1, <1>2, <1>3, <1>4, <1>5
<1>7. Decodes => source' % 4 = 0
  <2>1. Decodes => valid % 4 = 0
    BY <1>2, <1>3 DEF Decodes
  <2>2. valid \in Nat /\ source \in Nat /\ source % 16 = 0 /\ source' = source + valid
    BY <1>4, <1>5
  <2>3. valid % 4 = 0 => (source + valid) % 4 = 0
    BY <2>2
  <2>. QED BY <2>1, <2>2, <2>3
<1>8. Checks => ~Bad(0, source)'
  <2>1. \A a, b : Bad(a, b)' = Bad(a, b)
    BY <1>1, ChoiceStays
  <2>. QED BY <1>2, <1>3, <1>5, <2>1
<1>9. ASSUME call.entry = "prefix"
      PROVE  source' >= (GoodLength \div 16) * 16
  <2>1. \/ valid = masked /\ ~Bad(source, source + masked)
        \/ call.bad # {} /\ FirstBad \in Nat /\ source + valid = (FirstBad \div 4) * 4
    BY <1>1, <1>3, <1>9, ValidMaskedFacts
  <2>2. GoodLength \in Nat /\ GoodLength <= call.length /\ SimdLen = call.length
    BY <1>4, <1>9, GoodLengthFacts, LengthFacts DEF PaddedEntries, UnpaddedEntries
  <2>3. CASE call.bad # {} /\ FirstBad \in Nat /\ source + valid = (FirstBad \div 4) * 4
    <3>1. GoodLength = FirstBad
      BY <1>4, <2>3, GoodLengthFacts
    <3>. QED BY <1>5, <2>3, <3>1
  <2>4. CASE valid = masked /\ ~Bad(source, source + masked)
    <3>1. SimdLen - source < 64 \/ Bad(source, source + 64)
      BY <1>1, <1>9 DEF DInv, PrefixInv, Near
    <3>2. masked <= 64 /\ (SimdLen - source - masked < 4 \/ masked = 64)
      BY <1>1, <1>3, <1>9, MaskedFacts, AfterLoopsFacts
    <3>3. SimdLen - source - masked < 4
      BY <1>3, <1>4, <2>4, <3>1, <3>2
    <3>4. masked % 4 = 0
      BY <1>1, <1>3, <1>9, MaskedFacts
    <3>. QED BY <1>4, <1>5, <2>2, <2>4, <3>3, <3>4
  <2>. QED BY <2>1, <2>3, <2>4
<1>. QED BY <1>1, <1>4, <1>5, <1>6, <1>7, <1>8, <1>9, ToScalarKeeps

LEMMA BadMaskedTailKeeps ==
  ASSUME DInv, BadMaskedTail
  PROVE  DInv'
<1>1. /\ AfterLoops /\ pc' = "done" /\ loaded' = source + Masked /\ output' = output
      /\ UNCHANGED <<choice, kernel, loop, chunk, offsets>>
  BY DEF BadMaskedTail, Load, Return
<1>2. loaded' \in 0 .. call.length
  <2>1. Masked \in Nat /\ Masked <= SimdLen - source
    BY <1>1, MaskedFacts, AfterLoopsFacts
  <2>. QED BY <1>1, <2>1, OffsetFacts
<1>3. output = [c \in Cells |-> output[c]]
  BY DEF DInv, TypeInv
<1>. QED BY <1>1, <1>2, <1>3, ReturnKeeps

LEMMA EndKernelKeeps ==
  ASSUME DInv, EndKernel
  PROVE  DInv'
<1>1. /\ AfterLoops /\ (kernel = "avx512" => Masked = 0) /\ pc' = "scalar"
      /\ UNCHANGED <<choice, kernel, loop, chunk, offsets>> /\ loaded' = loaded /\ output' = output
      /\ source' = source /\ destination' = destination
  BY DEF EndKernel, offsets
<1>2. /\ source \in Nat /\ SimdLen \in Nat /\ call \in Calls /\ source % 16 = 0
      /\ source <= SimdLen /\ ~LayoutFails /\ errors = FALSE /\ pc = "kernel"
      /\ destination = (source \div 4) * 3 /\ (Checks => ~Bad(0, source))
  BY <1>1, OffsetFacts, AfterLoopsFacts
<1>3. output' = [c \in Cells' |-> output'[c]] /\ ValidateInv'
      /\ (call.entry # "validate" => CellsInv')
  BY <1>1, <1>2, OutputStays, Parts
<1>4. Checks => ~Bad(0, source)'
  <2>1. \A a, b : Bad(a, b)' = Bad(a, b)
    BY <1>1, ChoiceStays
  <2>. QED BY <1>1, <1>2, <2>1
<1>5. ASSUME call.entry = "prefix"
      PROVE  source >= (GoodLength \div 16) * 16
  <2>1. GoodLength \in Nat /\ GoodLength <= call.length /\ SimdLen = call.length
    BY <1>2, <1>5, GoodLengthFacts, LengthFacts DEF PaddedEntries, UnpaddedEntries
  <2>2. SimdLen - source < 16 \/ Bad(source, source + 16)
    <3>1. CASE kernel = "avx512"
      <4>1. SimdLen - source < 4
        BY <1>1, <1>5, <3>1, MaskedFacts, AfterLoopsFacts
      <4>. QED BY <1>2, <4>1
    <3>2. CASE kernel # "avx512"
      BY <1>1, <1>5, <3>2 DEF DInv, PrefixInv, Near
    <3>. QED BY <3>1, <3>2
  <2>3. Bad(source, source + 16) => GoodLength < source + 16
    BY <1>2, GoodLengthFacts
  <2>. QED BY <1>2, <2>1, <2>2, <2>3
<1>6. loaded \in 0 .. call.length
  BY DEF DInv, TypeInv
<1>7. Decodes => source' % 4 = 0
  BY <1>1, <1>2
<1>8. source' \in 0 .. SimdLen
  BY <1>1, <1>2
<1>. QED BY <1>1, <1>2, <1>3, <1>4, <1>5, <1>6, <1>7, <1>8, ToScalarKeeps
----------------------------------------------------------------------------
(* The scalar loops and the end of a call.                                 *)
LEMMA ScalarFacts ==
  ASSUME DInv, pc = "scalar"
  PROVE  /\ errors = FALSE /\ ~LayoutFails /\ (Checks => ~Bad(0, source))
         /\ Decodes => source % 4 = 0 /\ SimdLen % 4 = 0
         /\ Decodes /\ source < SimdLen =>
              ScalarWidth \in {4, 8} /\ source + ScalarWidth <= SimdLen
<1>1. errors = FALSE /\ ~LayoutFails /\ (Checks => ~Bad(0, source)) /\ (Decodes => source % 4 = 0)
  BY Parts DEF DInv, KernelInv
<1>2. call \in Calls /\ source \in Nat /\ SimdLen \in Nat
  BY OffsetFacts
<1>3. Decodes => SimdLen % 4 = 0
  <2>1. call.length \in Nat /\ call.entry \in Entries
    BY <1>2, Base64DecodeAssumption
  <2>2. CASE call.entry \in PaddedEntries
    <3>1. call.length % 4 = 0
      BY <1>1, <2>2 DEF LayoutFails
    <3>2. SimdLen \in {call.length, call.length - 4}
      BY <2>2 DEF SimdLen, PaddedEntries, UnpaddedEntries
    <3>. QED BY <1>2, <2>1, <3>1, <3>2
  <2>3. CASE call.entry \in UnpaddedEntries
    <3>1. SimdLen = (call.length \div 4) * 4
      BY <2>3 DEF SimdLen, PaddedEntries, UnpaddedEntries
    <3>. QED BY <2>1, <3>1
  <2>. QED BY <2>1, <2>2, <2>3 DEF Entries, Decodes
<1>4. ASSUME Decodes, source < SimdLen
      PROVE  ScalarWidth \in {4, 8} /\ source + ScalarWidth <= SimdLen
  <2>1. source + 4 <= SimdLen
    BY <1>1, <1>2, <1>3, <1>4
  <2>. QED BY <1>2, <2>1 DEF ScalarWidth
<1>. QED BY <1>1, <1>3, <1>4

LEMMA ScalarKeeps ==
  ASSUME DInv, Scalar
  PROVE  DInv'
<1>1. /\ pc = "scalar" /\ Decodes /\ source < SimdLen
      /\ (Checks => ~Bad(source, source + ScalarWidth))
      /\ loaded' = source + ScalarWidth /\ Advance(ScalarWidth)
      /\ output' = Store((ScalarWidth \div 4) * 3)
      /\ UNCHANGED <<choice, kernel, loop, chunk>> /\ pc' = pc
  BY DEF Scalar, Load
<1>2. PICK width \in {4, 8} : width = ScalarWidth
  BY <1>1, ScalarFacts
<1>3. /\ source \in Nat /\ SimdLen \in Nat /\ call \in Calls /\ source % 4 = 0
      /\ source + width <= SimdLen /\ call.length \in Nat /\ SimdLen <= call.length
      /\ ~LayoutFails /\ errors = FALSE /\ (Checks => ~Bad(0, source))
  BY <1>1, <1>2, OffsetFacts, ScalarFacts
<1>4. call.entry \notin {"prefix", "validate"}
  BY <1>1 DEF Decodes
<1>5. /\ output' = [c \in Cells' |-> output'[c]] /\ ValidateInv'
      /\ (call.entry # "validate" => CellsInv')
      /\ source' = source + width /\ destination' = (source' \div 4) * 3
  BY <1>1, <1>2, <1>3, <1>4, ExactStore
<1>6. source' \in 0 .. SimdLen /\ loaded' \in 0 .. call.length /\ source' % 4 = 0
  BY <1>1, <1>2, <1>3, <1>5
<1>7. Checks => ~Bad(0, source)'
  <2>1. \A a, b : Bad(a, b)' = Bad(a, b)
    BY <1>1, ChoiceStays
  <2>2. Bad(0, source + width) <=> Bad(0, source) \/ Bad(source, source + width)
    BY <1>3, BadSplits
  <2>. QED BY <1>1, <1>2, <1>3, <1>5, <2>1, <2>2
<1>. QED BY <1>1, <1>3, <1>4, <1>5, <1>6, <1>7, ToScalarKeeps

LEMMA BadScalarKeeps ==
  ASSUME DInv, BadScalar
  PROVE  DInv'
<1>1. /\ pc = "scalar" /\ Decodes /\ source < SimdLen
      /\ pc' = "done" /\ loaded' = source + ScalarWidth /\ output' = output
      /\ UNCHANGED <<choice, kernel, loop, chunk, offsets>>
  BY DEF BadScalar, Load, Return
<1>2. loaded' \in 0 .. call.length
  <2>1. ScalarWidth \in Nat /\ source + ScalarWidth <= SimdLen
    BY <1>1, ScalarFacts
  <2>. QED BY <1>1, <2>1, OffsetFacts
<1>3. output = [c \in Cells |-> output[c]]
  BY DEF DInv, TypeInv
<1>. QED BY <1>1, <1>2, <1>3, ReturnKeeps

LEMMA FinishKeeps ==
  ASSUME DInv, Finish
  PROVE  DInv'
<1>1. /\ Decodes /\ pc' = "done" /\ loaded' = call.length
      /\ UNCHANGED <<choice, kernel, loop, chunk, offsets>>
      /\ \/ output' = output
         \/ output' = [c \in Cells |-> IF Last(c) THEN c ELSE output[c]]
  BY DEF Finish, Load, Return
<1>2. call.entry # "validate"
  BY <1>1 DEF Decodes
<1>3. output' = [c \in Cells |-> output'[c]]
  BY <1>1 DEF DInv, TypeInv
<1>4. loaded' \in 0 .. call.length
  BY <1>1, OffsetFacts
<1>. QED BY <1>1, <1>2, <1>3, <1>4, ReturnKeeps

LEMMA FinishOtherKeeps ==
  ASSUME DInv, FinishOther
  PROVE  DInv'
<1>1. /\ pc' = "done" /\ loaded' \in {loaded, call.length} /\ output' = output
      /\ UNCHANGED <<choice, kernel, loop, chunk, offsets>>
  BY DEF FinishOther, Load, Return
<1>2. loaded' \in 0 .. call.length
  BY <1>1, OffsetFacts DEF DInv, TypeInv
<1>3. output = [c \in Cells |-> output[c]]
  BY DEF DInv, TypeInv
<1>. QED BY <1>1, <1>2, <1>3, ReturnKeeps
----------------------------------------------------------------------------
(* Every step.                                                             *)
LEMMA StutterKeeps ==
  ASSUME DInv, UNCHANGED vars
  PROVE  DInv'
<1>. USE DEF vars, choice, chunk, offsets
<1>1. UNCHANGED choice /\ UNCHANGED <<kernel, loop, chunk, offsets, loaded, output, pc, result>>
  OBVIOUS
<1>2. /\ SimdLen' = SimdLen /\ Checks' = Checks /\ Cells' = Cells
      /\ call' = call /\ \A a, b : Bad(a, b)' = Bad(a, b)
  BY ChoiceStays
<1>3. KernelInv' /\ PrefixInv'
  <2>1. /\ Required[kernel'] \subseteq machine' /\ kernel' \in Backends
        /\ LayoutFails' = LayoutFails /\ Decodes' = Decodes /\ Loops' = Loops
        /\ Defers' = Defers /\ GoodLength' = GoodLength
    BY <1>1, KernelStays, ChoiceStays DEF Defers
  <2>2. AfterLoops' = AfterLoops /\ Size' = Size
    BY <1>1, <2>1 DEF AfterLoops, Runs, Size
  <2>3. KernelInv'
    BY <1>1, <1>2, <2>1, <2>2 DEF DInv, KernelInv
  <2>4. PrefixInv'
    BY <1>1, <1>2, <2>1, <2>2 DEF DInv, PrefixInv, Near
  <2>. QED BY <2>3, <2>4
<1>4. Defers' = Defers
  BY <1>1, ChoiceStays DEF Defers
<1>5. output' = [c \in Cells' |-> output'[c]] /\ ValidateInv'
      /\ (pc' # "done" /\ call'.entry # "validate" => CellsInv')
  BY <1>1, <1>2, OutputStays, Parts
<1>6. Checks' => (errors' <=> Bad(0, source)')
  BY <1>1, <1>2, Parts
<1>7. loaded \in 0 .. call.length
  BY DEF DInv, TypeInv
<1>8. /\ loaded' \in 0 .. call'.length /\ pc' \in {"begin", "kernel", "scalar", "done"}
      /\ chunkEnd' \in 0 .. SimdLen' /\ source' \in 0 .. SimdLen' /\ loop' \in 1 .. 4
      /\ destination' = (source' \div 4) * 3 /\ kernel' \in Backends /\ errors' \in BOOLEAN
  BY <1>1, <1>2, <1>7, OffsetFacts, Parts
<1>9. errors' => Defers'
  BY <1>1, <1>4, Parts
<1>. QED BY <1>1, <1>3, <1>5, <1>6, <1>8, <1>9, ChoiceTypes, Assembled

LEMMA InitHolds == Init => DInv
<1>. SUFFICES ASSUME Init PROVE DInv
  OBVIOUS
<1>. USE DEF Init
<1>1. call \in Calls /\ SimdLen \in Nat /\ call.length \in Nat
  BY LengthFacts
<1>2. TypeInv
  BY <1>1 DEF TypeInv
<1>3. ~Bad(0, source)
  BY <1>1, LengthFacts DEF Bad
<1>4. IInv
  <2>1. \A c \in Cells : ~(c < destination) /\ output[c] = Old
    BY <1>1, LengthFacts
  <2>2. kernel \in DOMAIN Required
    BY DEF Required
  <2>3. /\ pc \in {"begin", "kernel", "scalar", "done"} /\ loop \in 1 .. 4
        /\ chunkEnd \in 0 .. SimdLen /\ source \in 0 .. SimdLen /\ destination = (source \div 4) * 3
    BY <1>1
  <2>4. errors = FALSE
    OBVIOUS
  <2>. HIDE DEF Init
  <2>. QED BY <1>3, <2>1, <2>2, <2>3, <2>4 DEF IInv
<1>5. KernelInv
  BY DEF KernelInv, AfterLoops, Required
<1>6. PrefixInv
  BY DEF PrefixInv, AfterLoops
<1>7. ValidateInv
  BY DEF ValidateInv
<1>. QED BY <1>2, <1>4, <1>5, <1>6, <1>7 DEF DInv

LEMMA NextKeeps == DInv /\ [Next]_vars => DInv'
<1>. SUFFICES ASSUME DInv, [Next]_vars PROVE DInv'
  OBVIOUS
<1>1. CASE Refuse
  BY <1>1, RefuseKeeps
<1>2. CASE Begin
  BY <1>2, BeginKeeps
<1>3. CASE Group
  BY <1>3, GroupKeeps
<1>4. CASE BadGroup
  BY <1>4, BadGroupKeeps
<1>5. CASE EndLoop
  BY <1>5, EndLoopKeeps
<1>6. CASE OpenChunk
  BY <1>6, OpenChunkKeeps
<1>7. CASE ChunkGroup
  BY <1>7, ChunkGroupKeeps
<1>8. CASE BadChunk
  BY <1>8, BadChunkKeeps
<1>9. CASE MaskedTail
  BY <1>9, MaskedTailKeeps
<1>10. CASE BadMaskedTail
  BY <1>10, BadMaskedTailKeeps
<1>11. CASE EndKernel
  BY <1>11, EndKernelKeeps
<1>12. CASE Scalar
  BY <1>12, ScalarKeeps
<1>13. CASE BadScalar
  BY <1>13, BadScalarKeeps
<1>14. CASE Finish
  BY <1>14, FinishKeeps
<1>15. CASE FinishOther
  BY <1>15, FinishOtherKeeps
<1>16. CASE UNCHANGED vars
  BY <1>16, StutterKeeps
<1>. QED BY <1>1, <1>2, <1>3, <1>4, <1>5, <1>6, <1>7, <1>8, <1>9, <1>10, <1>11, <1>12,
            <1>13, <1>14, <1>15, <1>16 DEF Next, Step

LEMMA DInvHolds == Spec => []DInv
BY InitHolds, NextKeeps, PTL DEF Spec

(* The type invariant and what every step keeps.                           *)
THEOREM InvariantHolds == Spec => []IInv
<1>1. DInv => IInv
  BY DEF DInv
<1>. QED BY <1>1, DInvHolds, PTL
----------------------------------------------------------------------------
(* The room of a call holds what its symbols decode to.                    *)
LEMMA RoomFacts ==
  ASSUME call \in Calls
  PROVE  /\ call.entry # "validate" => (SimdLen \div 4) * 3 <= Writable
         /\ PaddedStores => (SimdLen \div 4) * 3 + StorePadding <= Writable
         /\ Decodes => OutputLen <= Writable
         /\ Decodes /\ ~LayoutFails =>
              /\ LastSymbols \in 0 .. 3 /\ LastBytes \in Nat
              /\ SimdLen + LastSymbols = call.length - call.padding
              /\ (SimdLen \div 4) * 3 + LastBytes = OutputLen
<1>1. /\ call.length \in Nat /\ call.padding \in 0 .. 2 /\ call.padding <= call.length
      /\ call.padding # 0 => call.entry \in PaddedEntries /\ call.length % 4 = 0
      /\ call.entry \in Entries
  BY Base64DecodeAssumption
<1>2. CASE call.entry \in PaddedEntries
  <2>1. SimdLen = IF call.padding = 0 THEN call.length ELSE call.length - 4
    BY <1>2 DEF SimdLen, PaddedEntries, UnpaddedEntries
  <2>2. Tail = 0 /\ OutputLen = (call.length \div 4) * 3 - call.padding
    BY <1>1, <1>2 DEF Tail, OutputLen, PaddedEntries, UnpaddedEntries
  <2>3. Writable = IF HasStoreSlack THEN OutputLen + StorePadding ELSE OutputLen
    <3>1. call.entry # "vec" => ~HasStoreSlack
      BY DEF HasStoreSlack
    <3>. QED BY <1>2, <3>1 DEF Writable, PaddedEntries
  <2>4. (SimdLen \div 4) * 3 <= OutputLen /\ OutputLen \in Nat /\ StorePadding = 4
    BY <1>1, <2>1, <2>2, LengthFacts DEF StorePadding
  <2>5. PaddedStores => HasStoreSlack
    BY DEF PaddedStores
  <2>6. ~LayoutFails => call.length % 4 = 0
    BY <1>2 DEF LayoutFails
  <2>7. LastSymbols = (IF call.padding # 0 THEN 4 - call.padding ELSE 0)
        /\ LastBytes = IF LastSymbols = 0 THEN 0 ELSE LastSymbols - 1
    BY <2>2 DEF LastSymbols, LastBytes
  <2>8. ~LayoutFails =>
              /\ LastSymbols \in 0 .. 3 /\ LastBytes \in Nat
              /\ SimdLen + LastSymbols = call.length - call.padding
              /\ (SimdLen \div 4) * 3 + LastBytes = OutputLen
    BY <1>1, <2>1, <2>2, <2>6, <2>7
  <2>9. (SimdLen \div 4) * 3 \in Nat
    BY LengthFacts
  <2>. QED BY <2>3, <2>4, <2>5, <2>8, <2>9
<1>3. CASE call.entry \in UnpaddedEntries
  <2>1. SimdLen = (call.length \div 4) * 4 /\ call.padding = 0
    BY <1>1, <1>3 DEF SimdLen, PaddedEntries, UnpaddedEntries
  <2>2. Tail = call.length % 4
        /\ OutputLen = (call.length \div 4) * 3 + (IF Tail = 0 THEN 0 ELSE Tail - 1)
    BY <1>1, <1>3, <2>1 DEF Tail, OutputLen
  <2>3. Writable = OutputLen /\ ~PaddedStores
    BY <1>3 DEF Writable, UnpaddedEntries, PaddedStores, HasStoreSlack
  <2>4. LastSymbols = Tail /\ LastBytes = IF LastSymbols = 0 THEN 0 ELSE LastSymbols - 1
    BY <2>1 DEF LastSymbols, LastBytes
  <2>5. PICK n \in Nat : n = call.length
    BY <1>1
  <2>6. (SimdLen \div 4) * 3 <= OutputLen /\ LastSymbols \in 0 .. 3
    BY <2>1, <2>2, <2>4, <2>5
  <2>7. LastBytes \in Nat /\ SimdLen + LastSymbols = n - call.padding
    <3>1. LastBytes \in Nat
      BY <2>4, <2>6
    <3>2. SimdLen = (n \div 4) * 4 /\ LastSymbols = n % 4 /\ call.padding = 0
      BY <2>1, <2>2, <2>4, <2>5
    <3>3. (n \div 4) * 4 + (n % 4) = n - 0
      BY <2>5
    <3>. QED BY <3>1, <3>2, <3>3
  <2>8. (SimdLen \div 4) * 3 + LastBytes = OutputLen
    BY <2>1, <2>2, <2>4, <2>5
  <2>9. OutputLen \in Nat
    BY <2>2, <2>5
  <2>. QED BY <2>3, <2>5, <2>6, <2>7, <2>8, <2>9
<1>4. CASE call.entry \in {"prefix", "validate"}
  <2>1. SimdLen = call.length
    BY <1>4 DEF SimdLen, PaddedEntries, UnpaddedEntries
  <2>2. call.entry = "prefix" => Writable = (call.length \div 4) * 3
    BY DEF Writable
  <2>3. ~PaddedStores /\ ~Decodes
    BY <1>4 DEF PaddedStores, HasStoreSlack, Decodes
  <2>. QED BY <1>1, <1>4, <2>1, <2>2, <2>3
<1>. QED BY <1>1, <1>2, <1>3, <1>4 DEF Entries

(* No cell outside the room of the caller changes.                         *)
Running == pc # "done"
Inside == \A c \in Cells : output[c] # Old => c < Writable

LEMMA RunningInside == DInv /\ Running => Inside
<1>. SUFFICES ASSUME DInv, pc # "done" PROVE Inside
  BY DEF Running
<1>1. CASE call.entry = "validate"
  BY <1>1 DEF DInv, ValidateInv, Inside
<1>2. CASE call.entry # "validate"
  <2>1. /\ call \in Calls /\ source \in Nat /\ SimdLen \in Nat /\ source <= SimdLen
        /\ destination = (source \div 4) * 3 /\ Writable \in Nat /\ Cells \subseteq Nat
    BY OffsetFacts, LengthFacts
  <2>2. destination <= (SimdLen \div 4) * 3
    BY <2>1
  <2>3. ASSUME NEW c \in Cells, output[c] # Old PROVE c < Writable
    <3>1. c < destination \/ (PaddedStores /\ c < destination + StorePadding)
      BY <1>2, <2>3, Parts DEF CellsInv, PaddingAfter
    <3>. QED BY <1>2, <2>1, <2>2, <3>1, RoomFacts DEF StorePadding
  <2>. QED BY <2>3 DEF Inside
<1>. QED BY <1>1, <1>2

(* The steps after which a call has ended, and all others.                 *)
LEMMA EndOrGoOn ==
  ASSUME DInv, [Next]_vars
  PROVE  \/ pc' # "done"
         \/ UNCHANGED vars
         \/ /\ Refuse \/ BadGroup \/ BadChunk \/ BadMaskedTail \/ BadScalar \/ FinishOther
            /\ output' = output
         \/ Finish
<1>1. pc' # "done" \/ ~(Begin \/ Group \/ EndLoop \/ OpenChunk \/ ChunkGroup \/ MaskedTail
                        \/ EndKernel \/ Scalar)
  BY DEF Begin, Group, EndLoop, OpenChunk, ChunkGroup, MaskedTail, EndKernel, Scalar, AfterLoops
<1>2. Refuse \/ BadGroup \/ BadChunk \/ BadMaskedTail \/ BadScalar \/ FinishOther => output' = output
  BY DEF Refuse, BadGroup, BadChunk, BadMaskedTail, BadScalar, FinishOther
<1>. QED BY <1>1, <1>2 DEF Next, Step

LEMMA FinishFacts ==
  ASSUME DInv, Finish
  PROVE  /\ UNCHANGED choice /\ pc = "scalar" /\ Decodes /\ source = SimdLen /\ ~LayoutFails
         /\ destination = (SimdLen \div 4) * 3 /\ destination + LastBytes = OutputLen
         /\ LastBytes \in Nat /\ SimdLen + LastSymbols = call.length - call.padding
         /\ \A c \in Cells : output'[c] \in {output[c], c}
         /\ \A c \in Cells : output'[c] # output[c] => destination <= c /\ c < destination + LastBytes
<1>1. /\ UNCHANGED choice /\ pc = "scalar" /\ Decodes /\ source = SimdLen
      /\ \/ output' = output
         \/ output' = [c \in Cells |-> IF Last(c) THEN c ELSE output[c]]
  BY DEF Finish
<1>2. ~LayoutFails /\ call \in Calls /\ destination = (SimdLen \div 4) * 3
  BY <1>1, ScalarFacts, OffsetFacts
<1>3. \A c \in Cells : output'[c] \in {output[c], c}
      /\ (output'[c] # output[c] => destination <= c /\ c < destination + LastBytes)
  BY <1>1 DEF Last
<1>. QED BY <1>1, <1>2, <1>3, RoomFacts

LEMMA ChoiceUnlessRefused == DInv /\ [Next]_vars => UNCHANGED choice
<1>. QED BY DEF Next, Step, Refuse, Begin, Group, BadGroup, EndLoop, OpenChunk, ChunkGroup, BadChunk,
          MaskedTail, BadMaskedTail, EndKernel, Scalar, BadScalar, Finish, FinishOther, vars

LEMMA InsideKept == DInv /\ Inside /\ [Next]_vars => Running' \/ Inside'
<1>. SUFFICES ASSUME DInv, Inside, [Next]_vars, ~Running' PROVE Inside'
  OBVIOUS
<1>1. UNCHANGED choice
  BY ChoiceUnlessRefused
<1>2. Cells' = Cells /\ Writable' = Writable
  BY <1>1, ChoiceStays
<1>3. CASE output' = output
  BY <1>2, <1>3 DEF Inside
<1>4. CASE Finish
  <2>1. call \in Calls /\ OutputLen \in Nat /\ Writable \in Nat /\ Cells \subseteq Nat
    BY OffsetFacts, LengthFacts
  <2>2. OutputLen <= Writable /\ destination + LastBytes = OutputLen
    BY <1>4, <2>1, FinishFacts, RoomFacts
  <2>3. ASSUME NEW c \in Cells, output'[c] # Old PROVE c < Writable
    BY <1>4, <2>1, <2>2, <2>3, FinishFacts DEF Inside
  <2>. QED BY <1>2, <2>3 DEF Inside
<1>5. CASE UNCHANGED vars
  BY <1>3, <1>5 DEF vars
<1>. QED BY <1>3, <1>4, <1>5, EndOrGoOn DEF Running

LEMMA InsideHolds == Spec => []Inside
<1>1. Init => Running
  BY DEF Init, Running
<1>. QED BY <1>1, InsideKept, RunningInside, DInvHolds, InitHolds, PTL DEF Spec

(* A masked load is of at most one vector, and of less than one when it    *)
(* is all that is left; no step of the decoder leaves the input or the     *)
(* room of the caller, and the CPU has what the kernel needs.              *)
THEOREM FootprintsHold == Spec => []FootprintsFit
<1>1. DInv /\ Inside => FootprintsFit
  <2>. SUFFICES ASSUME DInv, Inside PROVE FootprintsFit
    OBVIOUS
  <2>1. Required[kernel] \subseteq machine
    BY DEF DInv, KernelInv
  <2>2. loaded <= call.length
    BY OffsetFacts DEF DInv, TypeInv
  <2>3. ASSUME AfterLoops, kernel = "avx512"
        PROVE  Masked <= (IF call.entry = "prefix" THEN 64 ELSE 63)
    <3>1. call.entry # "prefix" => SimdLen - source < 64
      BY <2>3 DEF DInv, KernelInv
    <3>. QED BY <2>3, <3>1, MaskedFacts, AfterLoopsFacts
  <2>. QED BY <2>1, <2>2, <2>3 DEF FootprintsFit, Inside
<1>. QED BY <1>1, DInvHolds, InsideHolds, PTL
----------------------------------------------------------------------------
(* What a caller finds that goes on after a failure.                       *)
LEMMA RunningValidated == DInv /\ Running => ValidatedPrefixOnly
<1>. SUFFICES ASSUME DInv, pc # "done", ValidatedBlocksOnly \/ call.entry = "prefix",
                     NEW c \in Cells
              PROVE  output[c] \in {Old, c}
  BY DEF Running, ValidatedPrefixOnly
<1>1. call.entry \in {"blocks", "unpadded_blocks", "prefix"}
  BY DEF ValidatedBlocksOnly
<1>2. Checks /\ ~PaddedStores
  BY <1>1 DEF Checks, PaddedStores, HasStoreSlack
<1>3. ~Defers
  BY <1>1 DEF Defers, ValidatedBlocksOnly, DInv, PrefixInv
<1>4. ~Bad(0, source)
  BY <1>2, <1>3, Parts
<1>5. CellsInv
  BY <1>1, Parts
<1>6. call \in Calls /\ source \in Nat /\ destination = (source \div 4) * 3 /\ c \in Nat
  BY OffsetFacts, LengthFacts
<1>7. c < destination => output[c] = c
  BY <1>4, <1>5, <1>6, GoodBytes DEF CellsInv, WrittenBefore
<1>8. ~(c < destination) => output[c] = Old
  BY <1>2, <1>5 DEF CellsInv, PaddingAfter
<1>. QED BY <1>7, <1>8

LEMMA ValidatedKept == DInv /\ ValidatedPrefixOnly /\ [Next]_vars => Running' \/ ValidatedPrefixOnly'
<1>. SUFFICES ASSUME DInv, ValidatedPrefixOnly, [Next]_vars, ~Running' PROVE ValidatedPrefixOnly'
  OBVIOUS
<1>1. UNCHANGED choice
  BY ChoiceUnlessRefused
<1>2. Cells' = Cells /\ call' = call /\ ValidatedBlocksOnly' = ValidatedBlocksOnly
  BY <1>1, ChoiceStays
<1>3. CASE output' = output
  BY <1>2, <1>3 DEF ValidatedPrefixOnly
<1>4. CASE Finish
  BY <1>2, <1>4, FinishFacts DEF ValidatedPrefixOnly
<1>5. CASE UNCHANGED vars
  BY <1>3, <1>5 DEF vars
<1>. QED BY <1>3, <1>4, <1>5, EndOrGoOn DEF Running

(* The lenient decoder may go on where the blocks ended: whatever a        *)
(* blocks-only call or a prefix wrote is what good symbols decode to.      *)
THEOREM ValidatedHolds == Spec => []ValidatedPrefixOnly
<1>1. Init => Running
  BY DEF Init, Running
<1>. QED BY <1>1, ValidatedKept, RunningValidated, DInvHolds, InitHolds, PTL DEF Spec
----------------------------------------------------------------------------
(* What the call returns.                                                  *)
LEMMA NothingDecodes ==
  ASSUME call \in Calls, ~LayoutFails, call.entry = "vec", OutputLen = 0
  PROVE  call.bad = {}
<1>1. /\ call.length \in Nat /\ call.padding \in 0 .. 2 /\ call.padding <= call.length
      /\ call.bad \subseteq 0 .. call.length - call.padding - 1
  BY Base64DecodeAssumption
<1>2. call.length % 4 = 0
  BY DEF LayoutFails, PaddedEntries
<1>3. OutputLen = (call.length \div 4) * 3 - call.padding
  BY <1>1 DEF OutputLen, Tail, UnpaddedEntries
<1>4. call.length = 0
  <2>1. PICK n \in Nat, p \in 0 .. 2 : n = call.length /\ p = call.padding
    BY <1>1
  <2>2. n % 4 = 0 /\ (n \div 4) * 3 - p = 0
    BY <1>2, <1>3, <2>1
  <2>3. n = 0
    BY <2>2
  <2>. QED BY <2>1, <2>3
<1>. QED BY <1>1, <1>4

(* After the good symbols every byte before the destination is decoded.    *)
LEMMA GoodPrefix ==
  ASSUME DInv, pc # "done", call.entry # "validate", ~Bad(0, source), NEW c \in Nat, c < destination
  PROVE  c \in Cells /\ output[c] = c
<1>1. /\ call \in Calls /\ source \in Nat /\ SimdLen \in Nat /\ source <= SimdLen
      /\ destination = (source \div 4) * 3 /\ Writable \in Nat
  BY OffsetFacts, LengthFacts
<1>2. destination <= (SimdLen \div 4) * 3
  BY <1>1
<1>3. c <= Writable
  BY <1>1, <1>2, RoomFacts
<1>4. c \in Cells
  BY <1>1, <1>3 DEF Cells, Margin
<1>5. output[c] = ByteOf(c)
  BY <1>4, Parts DEF CellsInv, WrittenBefore
<1>. QED BY <1>1, <1>4, <1>5, GoodBytes

LEMMA BadStays ==
  ASSUME UNCHANGED choice
  PROVE  /\ call' = call /\ LayoutFails' = LayoutFails /\ OutputLen' = OutputLen
         /\ Decodes' = Decodes /\ GoodLength' = GoodLength
BY ChoiceStays

(* A call that fails over a bad symbol has one.                            *)
LEMMA FailureIsReference ==
  ASSUME UNCHANGED choice, call.entry # "prefix", call.bad # {}, result' = "invalid"
  PROVE  ResultIsReference'
BY BadStays DEF ResultIsReference

LEMMA RefuseIsReference ==
  ASSUME DInv, Refuse
  PROVE  ResultIsReference'
<1>1. UNCHANGED choice /\ call \in Calls
  BY OffsetFacts DEF Refuse
<1>2. /\ call' = call /\ LayoutFails' = LayoutFails /\ OutputLen' = OutputLen /\ Decodes' = Decodes
  BY <1>1, BadStays
<1>3. CASE LayoutFails /\ result' = "invalid"
  <2>1. call.entry # "prefix"
    BY <1>3 DEF LayoutFails, PaddedEntries, UnpaddedEntries
  <2>. QED BY <1>2, <1>3, <2>1 DEF ResultIsReference
<1>4. CASE ~LayoutFails /\ call.entry = "vec" /\ OutputLen = 0 /\ result' = "ok"
  <2>1. call.bad = {}
    BY <1>1, <1>4, NothingDecodes
  <2>2. Decoded(OutputLen)'
    BY <1>2, <1>4 DEF Decoded
  <2>. QED BY <1>2, <1>4, <2>1, <2>2 DEF ResultIsReference
<1>5. CASE result' \in {"too small", "unavailable"}
  BY <1>5 DEF ResultIsReference
<1>. QED BY <1>3, <1>4, <1>5 DEF Refuse, Return

LEMMA BadStepsAreReference ==
  ASSUME DInv, BadGroup \/ BadChunk \/ BadMaskedTail \/ BadScalar, pc' = "done"
  PROVE  ResultIsReference'
<1>1. UNCHANGED choice /\ call \in Calls
  BY OffsetFacts DEF BadGroup, BadChunk, BadMaskedTail, BadScalar
<1>2. \A a, b : Bad(a, b) => call.bad # {}
  BY DEF Bad
<1>3. CASE BadGroup
  <2>1. Bad(source, source + Size) /\ pc = "kernel"
    BY <1>3 DEF BadGroup
  <2>2. call.entry # "prefix" /\ result' = "invalid"
    BY <1>3, <2>1 DEF BadGroup, Return
  <2>. QED BY <1>1, <1>2, <2>1, <2>2, FailureIsReference
<1>4. CASE BadChunk
  <2>1. errors /\ Checks /\ kernel = "neon" /\ result' = "invalid"
    BY <1>4 DEF BadChunk, Return, Defers
  <2>2. call.entry # "prefix"
    BY <2>1 DEF DInv, PrefixInv
  <2>. QED BY <1>1, <1>2, <2>1, <2>2, Parts, FailureIsReference
<1>5. CASE BadMaskedTail
  <2>1. Bad(source, source + Masked) /\ call.entry # "prefix" /\ result' = "invalid"
    BY <1>5 DEF BadMaskedTail, Return
  <2>. QED BY <1>1, <1>2, <2>1, FailureIsReference
<1>6. CASE BadScalar
  <2>1. Bad(source, source + ScalarWidth) /\ call.entry # "prefix" /\ result' = "invalid"
    BY <1>6 DEF BadScalar, Return, Decodes
  <2>. QED BY <1>1, <1>2, <2>1, FailureIsReference
<1>. QED BY <1>3, <1>4, <1>5, <1>6

LEMMA FinishOtherIsReference ==
  ASSUME DInv, FinishOther
  PROVE  ResultIsReference'
<1>1. /\ UNCHANGED choice /\ pc = "scalar" /\ output' = output /\ source' = source
      /\ destination' = destination /\ call.entry \in {"prefix", "validate"}
  BY DEF FinishOther, offsets, Decodes
<1>2. /\ call' = call /\ LayoutFails' = LayoutFails /\ Decodes' = Decodes
      /\ GoodLength' = GoodLength
  BY <1>1, BadStays
<1>3. /\ call \in Calls /\ source \in Nat /\ SimdLen \in Nat /\ source <= SimdLen
      /\ call.length \in Nat /\ SimdLen <= call.length /\ destination = (source \div 4) * 3
  BY OffsetFacts
<1>4. Checks
  BY <1>1 DEF Checks
<1>5. ~Bad(0, source) /\ ~LayoutFails
  BY <1>1, <1>4, ScalarFacts
<1>6. CASE call.entry = "prefix"
  <2>1. source >= (GoodLength \div 16) * 16
    BY <1>1, <1>6 DEF DInv, PrefixInv
  <2>2. source <= GoodLength
    BY <1>3, <1>5, GoodLengthFacts
  <2>3. \A c \in Nat : c < destination => output[c] = c
    BY <1>1, <1>5, <1>6, GoodPrefix
  <2>4. PICK d \in Nat : d = (source \div 4) * 3
    BY <1>3
  <2>5. \A c \in 0 .. d - 1 : output[c] = c
    BY <1>3, <2>3, <2>4
  <2>6. PrefixIsReference'
    BY <1>1, <1>2, <2>1, <2>2, <2>4, <2>5 DEF PrefixIsReference, Decoded
  <2>. QED BY <1>2, <1>6, <2>6 DEF ResultIsReference
<1>7. CASE call.entry = "validate"
  <2>1. call.bad \subseteq 0 .. call.length - 1
    BY <1>3, LengthFacts
  <2>2. Bad(source, call.length) <=> call.bad # {}
    BY <1>3, <1>5, <2>1 DEF Bad
  <2>3. result' = IF Bad(source, call.length) THEN "invalid" ELSE "ok"
    BY <1>7 DEF FinishOther, Return
  <2>4. ~Decodes
    BY <1>7 DEF Decodes
  <2>. QED BY <1>2, <1>5, <1>7, <2>2, <2>3, <2>4 DEF ResultIsReference
<1>. QED BY <1>1, <1>6, <1>7

LEMMA FinishIsReference ==
  ASSUME DInv, Finish
  PROVE  ResultIsReference'
<1>1. /\ UNCHANGED choice /\ pc = "scalar" /\ Decodes /\ source = SimdLen /\ ~LayoutFails
      /\ destination = (SimdLen \div 4) * 3 /\ destination + LastBytes = OutputLen
      /\ LastBytes \in Nat /\ SimdLen + LastSymbols = call.length - call.padding
  BY FinishFacts
<1>2. /\ call' = call /\ LayoutFails' = LayoutFails /\ Decodes' = Decodes /\ OutputLen' = OutputLen
  BY <1>1, BadStays
<1>3. /\ call \in Calls /\ call.entry \notin {"prefix", "validate"}
      /\ source \in Nat /\ SimdLen \in Nat /\ destination \in Nat
  BY <1>1, OffsetFacts DEF Decodes
<1>4. /\ call.bad \subseteq 0 .. call.length - call.padding - 1
      /\ call.length \in Nat /\ call.padding \in 0 .. 2
      /\ (call.entry = "validated" => call.bad = {})
  BY <1>3, Base64DecodeAssumption
<1>5. Checks => ~Bad(0, source)
  BY <1>1, ScalarFacts
<1>6. CASE Checks /\ Bad(source, source + LastSymbols)
  <2>1. call.bad # {} /\ result' = "invalid"
    BY <1>6 DEF Bad, Finish, Return
  <2>. QED BY <1>1, <1>3, <2>1, FailureIsReference
<1>7. CASE ~(Checks /\ Bad(source, source + LastSymbols))
  <2>1. result' = "ok" /\ output' = [c \in Cells |-> IF Last(c) THEN c ELSE output[c]]
    BY <1>7 DEF Finish, Return
  <2>2. call.bad = {}
    <3>1. CASE Checks
      BY <1>1, <1>3, <1>4, <1>5, <1>7, <3>1 DEF Bad
    <3>2. CASE ~Checks
      BY <1>4, <3>2 DEF Checks
    <3>. QED BY <3>1, <3>2
  <2>3. ~Bad(0, source)
    BY <2>2 DEF Bad
  <2>4. ASSUME NEW c \in Nat, c < OutputLen PROVE output'[c] = c
    <3>1. CASE c < destination
      <4>1. c \in Cells /\ output[c] = c
        BY <1>1, <1>3, <2>3, <3>1, GoodPrefix
      <4>. QED BY <2>1, <4>1
    <3>2. CASE ~(c < destination)
      <4>1. c \in Cells
        <5>1. c < Writable /\ Writable \in Nat
          BY <1>1, <1>3, <2>4, RoomFacts, LengthFacts
        <5>. QED BY <5>1 DEF Cells, Margin
      <4>2. Last(c)
        BY <1>1, <1>3, <2>4, <3>2 DEF Last
      <4>. QED BY <2>1, <4>1, <4>2
    <3>. QED BY <3>1, <3>2
  <2>5. OutputLen \in Nat
    BY <1>3, LengthFacts
  <2>6. Decoded(OutputLen)'
    BY <1>2, <2>4, <2>5 DEF Decoded
  <2>. QED BY <1>1, <1>2, <1>3, <2>1, <2>2, <2>6 DEF ResultIsReference
<1>. QED BY <1>6, <1>7

LEMMA ReferenceKept == DInv /\ ResultIsReference /\ [Next]_vars => ResultIsReference'
<1>. SUFFICES ASSUME DInv, ResultIsReference, [Next]_vars PROVE ResultIsReference'
  OBVIOUS
<1>1. CASE pc' # "done"
  BY <1>1 DEF ResultIsReference
<1>2. CASE UNCHANGED vars
  <2>1. /\ UNCHANGED choice /\ pc' = pc /\ result' = result /\ output' = output
        /\ source' = source
    BY <1>2 DEF vars, offsets
  <2>2. /\ call' = call /\ LayoutFails' = LayoutFails /\ OutputLen' = OutputLen
        /\ Decodes' = Decodes /\ GoodLength' = GoodLength
    BY <2>1, BadStays
  <2>. QED BY <2>1, <2>2 DEF ResultIsReference, PrefixIsReference, Decoded
<1>3. CASE pc' = "done" /\ ~UNCHANGED vars
  <2>1. \/ Refuse \/ BadGroup \/ BadChunk \/ BadMaskedTail \/ BadScalar \/ FinishOther
        \/ Finish
    BY <1>3, EndOrGoOn
  <2>. QED BY <1>3, <2>1, RefuseIsReference, BadStepsAreReference, FinishOtherIsReference,
              FinishIsReference
<1>. QED BY <1>1, <1>2, <1>3

(* Whichever kernel runs, on any machine and with any alignment, a decode  *)
(* accepts exactly the inputs of a valid length without a bad symbol, and  *)
(* every byte of its result was written with what its symbols decode to.   *)
THEOREM ResultHolds == Spec => []ResultIsReference
<1>1. Init => ResultIsReference
  BY DEF Init, ResultIsReference
<1>. QED BY <1>1, ReferenceKept, DInvHolds, PTL DEF Spec
=============================================================================
