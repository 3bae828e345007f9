------------------------ MODULE WrappedEncodingProofs ----------------------
(***************************************************************************)
(* Encoding in lines is right for every input length, every line width and *)
(* every threshold between the two ways of doing it.                       *)
(***************************************************************************)
EXTENDS WrappedEncoding, TLAPS

(* Quotients and multiples by a divisor that is not a number: the provers' *)
(* arithmetic only divides by constants of its own accord.                 *)
LEMMA DivFacts ==
  ASSUME NEW a \in Nat, NEW w \in Nat, w # 0
  PROVE  /\ a \div w \in Nat
         /\ (a \div w) * w <= a
         /\ a < (a \div w) * w + w
         /\ a % w = a - (a \div w) * w
         /\ a % w \in 0 .. w - 1
OBVIOUS

LEMMA TimesMonotone ==
  ASSUME NEW j \in Nat, NEW k \in Nat, NEW m \in Nat, j <= k
  PROVE  j * m <= k * m
OBVIOUS

LEMMA TimesSucc ==
  ASSUME NEW j \in Nat, NEW m \in Nat
  PROVE  /\ j * m \in Nat
         /\ (j + 1) * m = j * m + m
         /\ j * (m + 1) = j * m + j
OBVIOUS

(* A multiple below the next one is at most this one.                      *)
LEMMA MultipleBound ==
  ASSUME NEW j \in Nat, NEW k \in Nat, NEW m \in Nat, j * m < k * m + m
  PROVE  j <= k
<1> SUFFICES ASSUME k + 1 <= j PROVE FALSE
  OBVIOUS
<1>1. (k + 1) * m <= j * m
  BY TimesMonotone
<1>2. (k + 1) * m = k * m + m /\ k * m \in Nat /\ j * m \in Nat
  BY TimesSucc
<1>3. QED
  BY <1>1, <1>2

LEMMA DivUnique ==
  ASSUME NEW a \in Nat, NEW w \in Nat, w # 0, NEW q \in Nat, q * w <= a, a < q * w + w
  PROVE  a \div w = q
<1> DEFINE p == a \div w
<1>1. p \in Nat /\ p * w <= a /\ a < p * w + w
  BY DivFacts
<1> HIDE DEF p
<1>2. p * w \in Nat /\ q * w \in Nat
  BY <1>1, TimesSucc
<1>3. p <= q
  <2>1. p * w < q * w + w
    BY <1>1, <1>2
  <2>2. QED
    BY <1>1, <2>1, MultipleBound
<1>4. q <= p
  <2>1. q * w < p * w + w
    BY <1>1, <1>2
  <2>2. QED
    BY <1>1, <2>1, MultipleBound
<1>5. QED
  BY <1>1, <1>3, <1>4 DEF p
----------------------------------------------------------------------------

(* The symbols of line q + 1 lie q cells after their place in the text.    *)
LEMMA PlaceOnLine ==
  ASSUME NEW w \in Nat, w # 0, NEW q \in Nat, NEW i \in Nat, q * w < i, i <= q * w + w
  PROVE  PlaceAt(i, w) = i + q
<1>1. q * w \in Nat
  BY TimesSucc
<1>2. i - 1 \in Nat /\ q * w <= i - 1 /\ i - 1 < q * w + w
  BY <1>1
<1>3. (i - 1) \div w = q
  BY <1>2, DivUnique
<1>4. QED
  BY <1>3 DEF PlaceAt

(* The line of a symbol.                                                   *)
LEMMA LineOf ==
  ASSUME NEW w \in Nat, w # 0, NEW i \in Nat, i # 0
  PROVE  /\ (i - 1) \div w \in Nat
         /\ ((i - 1) \div w) * w \in Nat
         /\ ((i - 1) \div w) * w < i
         /\ i <= ((i - 1) \div w) * w + w
         /\ PlaceAt(i, w) = i + (i - 1) \div w
<1>1. i - 1 \in Nat
  OBVIOUS
<1>2. (i - 1) \div w \in Nat /\ ((i - 1) \div w) * w <= i - 1 /\ i - 1 < ((i - 1) \div w) * w + w
  BY <1>1, DivFacts
<1>3. ((i - 1) \div w) * w \in Nat
  BY <1>2, TimesSucc
<1>4. QED
  BY <1>2, <1>3 DEF PlaceAt

LEMMA PlaceMonotone ==
  ASSUME NEW w \in Nat, NEW i \in Nat, NEW j \in Nat, i # 0, i < j
  PROVE  PlaceAt(i, w) \in Nat /\ PlaceAt(j, w) \in Nat /\ PlaceAt(i, w) < PlaceAt(j, w)
<1>1. CASE w = 0
  BY <1>1 DEF PlaceAt
<1>2. CASE w # 0
  <2> DEFINE p == (i - 1) \div w
             q == (j - 1) \div w
  <2>1. p \in Nat /\ p * w \in Nat /\ p * w < i /\ i <= p * w + w /\ PlaceAt(i, w) = i + p
    BY <1>2, LineOf
  <2>2. q \in Nat /\ q * w \in Nat /\ q * w < j /\ j <= q * w + w /\ PlaceAt(j, w) = j + q
    BY <1>2, LineOf
  <2> HIDE DEF p, q
  <2>3. p * w < q * w + w
    BY <2>1, <2>2
  <2>4. p <= q
    BY <2>1, <2>2, <2>3, MultipleBound
  <2>5. QED
    BY <2>1, <2>2, <2>4
<1>3. QED
  BY <1>1, <1>2

(* The cells that a symbol, or a newline, ever takes are in the output.    *)
LEMMA PlaceInOutput ==
  ASSUME NEW w \in Nat, NEW i \in Nat, NEW n \in Nat, i # 0, i <= n
  PROVE  PlaceAt(i, w) \in 1 .. PlaceAt(n, w) /\ PlaceAt(n, w) \in Nat /\ i <= PlaceAt(i, w)
<1>1. PlaceAt(i, w) \in Nat /\ i <= PlaceAt(i, w)
  <2>1. CASE w = 0
    BY <2>1 DEF PlaceAt
  <2>2. CASE w # 0
    BY <2>2, LineOf
  <2>3. QED
    BY <2>1, <2>2
<1>2. CASE i = n
  BY <1>1, <1>2
<1>3. CASE i < n
  BY <1>1, <1>3, PlaceMonotone
<1>4. QED
  BY <1>2, <1>3

(* The newline of a line stays before the symbols of the next one.         *)
LEMMA NewlineBefore ==
  ASSUME NEW w \in Nat, w # 0, NEW k \in Nat, NEW i \in Nat, k * w < i
  PROVE  i # 0 /\ NewlineAt(k, w) <= PlaceAt(i, w)
<1> DEFINE last == k * w
           p == (i - 1) \div w
           start == p * w
<1>1. last \in Nat /\ NewlineAt(k, w) = last + k
  BY TimesSucc DEF NewlineAt
<1>2. last < i /\ i # 0
  BY <1>1
<1>3. p \in Nat /\ start \in Nat /\ i <= start + w /\ PlaceAt(i, w) = i + p
  BY <1>2, LineOf
<1> HIDE DEF p
<1>4. last < start + w
  BY <1>1, <1>2, <1>3
<1>5. k <= p
  BY <1>3, <1>4, MultipleBound
<1> HIDE DEF last, start
<1>6. QED
  BY <1>1, <1>2, <1>3, <1>5

(* Where the line that ends with symbol i begins.                          *)
LEMMA LastLine ==
  ASSUME NEW w \in Nat, w # 0, NEW i \in Nat, i # 0
  PROVE  LET length == IF i % w = 0 THEN w ELSE i % w
             q == (i - 1) \div w
         IN  i - length = q * w /\ length \in 1 .. w
<1> DEFINE length == IF i % w = 0 THEN w ELSE i % w
           q == (i - 1) \div w
           p == i \div w
<1>1. p \in Nat /\ i % w = i - p * w /\ i % w \in 0 .. w - 1 /\ p * w <= i
  BY DivFacts
<1>2. p * w \in Nat
  BY <1>1, TimesSucc
<1> HIDE DEF p
<1>3. CASE i % w = 0
  <2>1. i = p * w
    BY <1>1, <1>2, <1>3
  <2>2. p # 0
    BY <2>1
  <2>3. p - 1 \in Nat /\ p * w = (p - 1) * w + w /\ (p - 1) * w \in Nat
    <3>1. p - 1 \in Nat /\ (p - 1) + 1 = p
      BY <1>1, <2>2
    <3>2. QED
      BY <3>1, TimesSucc
  <2>4. i - 1 \in Nat /\ (p - 1) * w <= i - 1 /\ i - 1 < (p - 1) * w + w
    BY <2>1, <2>3
  <2>5. q = p - 1
    BY <2>3, <2>4, DivUnique
  <2>6. QED
    BY <1>3, <2>1, <2>3, <2>5
<1>4. CASE i % w # 0
  <2>1. i - 1 \in Nat /\ p * w <= i - 1 /\ i - 1 < p * w + w
    BY <1>1, <1>2, <1>4
  <2>2. q = p
    BY <1>1, <2>1, DivUnique
  <2>3. QED
    BY <1>1, <1>2, <1>4, <2>2
<1>5. QED
  BY <1>3, <1>4
----------------------------------------------------------------------------
Arguments == inputLen \in Nat /\ padded \in BOOLEAN /\ width \in Nat /\ width % 4 = 0

LEMMA Lengths ==
  ASSUME Arguments
  PROVE  /\ DataLen \in Nat
         /\ OutputLen(DataLen) \in Nat
         /\ DataLen <= OutputLen(DataLen)
         /\ DataLen = 0 => OutputLen(DataLen) = 0
         /\ DataLen # 0 => OutputLen(DataLen) = Place(DataLen)
<1>1. DataLen \in Nat
  BY DEF Arguments, DataLen, EncodedLen, UnpaddedEncodedLen
<1> DEFINE n == DataLen
<1> HIDE DEF n
<1>2. n \in Nat
  BY <1>1 DEF n
<1>3. n = 0 => OutputLen(n) = 0
  BY DEF OutputLen
<1>4. n # 0 => OutputLen(n) = Place(n)
  BY <1>2 DEF OutputLen, Place, PlaceAt, Arguments
<1>5. n # 0 => Place(n) \in Nat /\ n <= Place(n)
  BY <1>2, PlaceInOutput DEF Place, Arguments
<1>6. QED
  BY <1>2, <1>3, <1>4, <1>5 DEF n

(* Symbols and newlines fit where they belong.                             *)
LEMMA CellsFit ==
  ASSUME Arguments
  PROVE  /\ \A i \in 1 .. DataLen : Place(i) \in 1 .. OutputLen(DataLen) /\ i <= Place(i)
         /\ \A k \in 1 .. DataLen : EndsLine(k) => /\ NewlineAt(k, width) \in 1 .. OutputLen(DataLen)
                                                   /\ k * width \in Nat
                                                   /\ NewlineAt(k, width) = k * width + k
<1> USE DEF Arguments
<1>1. DataLen \in Nat /\ OutputLen(DataLen) \in Nat
      /\ (DataLen # 0 => OutputLen(DataLen) = Place(DataLen))
  BY Lengths
<1> DEFINE n == DataLen
<1>2. n \in Nat /\ (n # 0 => OutputLen(n) = Place(n)) /\ OutputLen(n) \in Nat
  BY <1>1
<1>3. \A k \in 1 .. n : EndsLine(k) <=> width # 0 /\ k * width < n
  BY DEF EndsLine, n
<1> HIDE DEF n
<1>4. ASSUME NEW i \in 1 .. n PROVE Place(i) \in 1 .. OutputLen(n) /\ i <= Place(i)
  <2>1. i \in Nat /\ i # 0 /\ i <= n /\ n # 0
    BY <1>2
  <2>2. PlaceAt(i, width) \in 1 .. PlaceAt(n, width) /\ i <= PlaceAt(i, width)
    BY <1>2, <2>1, PlaceInOutput
  <2>3. QED
    BY <1>2, <2>1, <2>2 DEF Place
<1>5. ASSUME NEW k \in 1 .. n, EndsLine(k)
      PROVE  /\ NewlineAt(k, width) \in 1 .. OutputLen(n)
             /\ k * width \in Nat
             /\ NewlineAt(k, width) = k * width + k
  <2>1. width # 0 /\ k * width < n
    BY <1>3, <1>5
  <2>2. k * width \in Nat /\ NewlineAt(k, width) = k * width + k
    BY <1>2, TimesSucc DEF NewlineAt
  <2> DEFINE q == (n - 1) \div width
  <2>3. q \in Nat /\ q * width \in Nat /\ n <= q * width + width /\ Place(n) = n + q
    <3>1. n # 0
      BY <1>2
    <3>2. QED
      BY <1>2, <2>1, <3>1, LineOf DEF Place
  <2> HIDE DEF q
  <2>4. k <= q
    <3>1. k * width < q * width + width
      BY <2>1, <2>2, <2>3, <1>2
    <3>2. QED
      BY <1>2, <2>3, <3>1, MultipleBound
  <2>5. QED
    BY <1>2, <2>1, <2>2, <2>3, <2>4
<1>6. QED
  BY <1>4, <1>5 DEF n

LEMMA WriteCells ==
  ASSUME output \in Seq(Int), NEW cells \in Seq(Int), NEW at \in Nat,
         at + Len(cells) <= Len(output), Write(cells, at)
  PROVE  /\ output' \in Seq(Int)
         /\ Len(output') = Len(output)
         /\ \A k \in 1 .. Len(output) :
              output'[k] = IF k \in at + 1 .. at + Len(cells) THEN cells[k - at] ELSE output[k]
<1>1. Len(cells) \in Nat /\ Len(output) \in Nat /\ DOMAIN output = 1 .. Len(output)
  OBVIOUS
<1>2. output' = [k \in 1 .. Len(output) |->
                   IF k \in at + 1 .. at + Len(cells) THEN cells[k - at] ELSE output[k]]
  <2>1. (IF at + Len(cells) > Len(output) THEN at + Len(cells) ELSE Len(output)) = Len(output)
    <3> DEFINE m == Len(cells)
               n == Len(output)
    <3>1. m \in Nat /\ n \in Nat /\ at + m <= n
      BY <1>1
    <3> HIDE DEF m, n
    <3>2. ~(at + m > n)
      BY <3>1
    <3>3. QED
      BY <3>2, Zenon DEF m, n
  <2>2. output' = [k \in 1 .. Len(output) |->
                     IF k \in at + 1 .. at + Len(cells) THEN cells[k - at] ELSE Cell(k)]
    BY <2>1, Zenon DEF Write
  <2>3. \A k \in 1 .. Len(output) : Cell(k) = output[k]
    BY <1>1 DEF Cell
  <2>4. QED
    BY <2>2, <2>3, Zenon
<1>3. \A k \in 1 .. Len(output) :
        (IF k \in at + 1 .. at + Len(cells) THEN cells[k - at] ELSE output[k]) \in Int
  BY <1>1
<1>4. QED
  BY <1>1, <1>2, <1>3

LEMMA SymbolsSeq ==
  ASSUME NEW first \in Nat, NEW last \in Nat, first <= last + 1
  PROVE  /\ Symbols(first, last) \in Seq(Int)
         /\ Len(Symbols(first, last)) = last - first + 1
         /\ \A k \in 1 .. last - first + 1 : Symbols(first, last)[k] = first + k - 1
<1>1. last - first + 1 \in Nat
  OBVIOUS
<1>2. QED
  BY <1>1 DEF Symbols

LEMMA AfterNewline ==
  ASSUME NEW line \in Seq(Int)
  PROVE  /\ <<Newline>> \o line \in Seq(Int)
         /\ Len(<<Newline>> \o line) = Len(line) + 1
         /\ (<<Newline>> \o line)[1] = Newline
         /\ \A k \in 1 .. Len(line) : (<<Newline>> \o line)[k + 1] = line[k]
BY DEF Newline
----------------------------------------------------------------------------
(* The arguments of an encode never change, nor what depends on them only. *)
LEMMA ArgumentsStay ==
  ASSUME Arguments, UNCHANGED arguments
  PROVE  /\ Arguments' /\ width' = width /\ DataLen' = DataLen
         /\ OutputLen(DataLen)' = OutputLen(DataLen)
         /\ \A i : Place(i)' = Place(i)
         /\ \A k : EndsLine(k)' = EndsLine(k)
<1>1. inputLen' = inputLen /\ padded' = padded /\ width' = width
  BY DEF arguments
<1>2. DataLen' = DataLen
  BY <1>1 DEF DataLen
<1>3. OutputLen(DataLen)' = OutputLen(DataLen)
  BY <1>1, <1>2 DEF OutputLen
<1>4. QED
  BY <1>1, <1>2, <1>3 DEF Arguments, Place, EndsLine

(* A write inside the required length leaves the cells after it alone.     *)
LEMMA WriteInside ==
  ASSUME Arguments, UNCHANGED arguments, WritesFit, output \in Seq(Int),
         NEW cells \in Seq(Int), NEW at \in Nat,
         at + Len(cells) <= OutputLen(DataLen), Write(cells, at)
  PROVE  /\ WritesFit'
         /\ output' \in Seq(Int)
         /\ \A k \in 1 .. OutputLen(DataLen) :
              output'[k] = IF k \in at + 1 .. at + Len(cells) THEN cells[k - at] ELSE output[k]
<1> DEFINE n == OutputLen(DataLen)
           m == Len(cells)
<1>1. n \in Nat /\ m \in Nat /\ Slack \in Nat
  BY Lengths, WrappedEncodingAssumption
<1>2. Len(output) = n + Slack /\ \A k \in n + 1 .. Len(output) : output[k] = Unset
  BY DEF WritesFit
<1>3. OutputLen(DataLen)' = n
  BY ArgumentsStay
<1>4. at + m <= n
  OBVIOUS
<1> HIDE DEF n
<1>5. at + Len(cells) <= Len(output)
  BY <1>1, <1>2, <1>4
<1>6. /\ output' \in Seq(Int) /\ Len(output') = Len(output)
      /\ \A k \in 1 .. Len(output) :
           output'[k] = IF k \in at + 1 .. at + Len(cells) THEN cells[k - at] ELSE output[k]
  BY <1>5, WriteCells
<1>7. \A k \in n + 1 .. Len(output) : output'[k] = Unset
  <2>1. ASSUME NEW k \in n + 1 .. Len(output) PROVE output'[k] = Unset
    <3>1. k \in 1 .. Len(output) /\ k \notin at + 1 .. at + m
      BY <1>1, <1>2, <1>4
    <3>2. QED
      BY <1>2, <1>6, <3>1
  <2>2. QED
    BY <2>1
<1>8. WritesFit'
  BY <1>2, <1>3, <1>6, <1>7 DEF WritesFit
<1>9. \A k \in 1 .. n : k \in 1 .. Len(output)
  BY <1>1, <1>2
<1>10. QED
  BY <1>6, <1>8, <1>9 DEF n
----------------------------------------------------------------------------
(* The cells that n symbols of a line take after symbol s, behind a newline*)
(* when b = 1.                                                             *)
LineCells(b, s, n) ==
  (IF b = 1 THEN <<Newline>> ELSE <<>>) \o Symbols(s + 1, s + n)

LEMMA LineCellsAre ==
  ASSUME NEW s \in Nat, NEW n \in Nat, NEW b \in {0, 1}
  PROVE  /\ LineCells(b, s, n) \in Seq(Int) /\ Len(LineCells(b, s, n)) = b + n
         /\ b = 1 => LineCells(b, s, n)[1] = Newline
         /\ \A k \in 1 .. n : LineCells(b, s, n)[b + k] = s + k
<1> DEFINE text == Symbols(s + 1, s + n)
           cells == LineCells(b, s, n)
<1>1. /\ text \in Seq(Int) /\ Len(text) = n
      /\ \A k \in 1 .. n : text[k] = s + k
  <2>1. s + 1 \in Nat /\ s + n \in Nat /\ s + 1 <= (s + n) + 1 /\ (s + n) - (s + 1) + 1 = n
    OBVIOUS
  <2>2. \A k \in 1 .. n : (s + 1) + k - 1 = s + k
    OBVIOUS
  <2>3. /\ text \in Seq(Int) /\ Len(text) = (s + n) - (s + 1) + 1
        /\ \A k \in 1 .. (s + n) - (s + 1) + 1 : text[k] = (s + 1) + k - 1
    BY <2>1, SymbolsSeq
  <2>4. QED
    BY <2>1, <2>2, <2>3
<1>2. cells = (IF b = 1 THEN <<Newline>> ELSE <<>>) \o text
  BY DEF LineCells
<1> HIDE DEF text, cells
<1>3. CASE b = 1
  <2>1. cells = <<Newline>> \o text
    BY <1>2, <1>3
  <2>2. /\ cells \in Seq(Int) /\ Len(cells) = n + 1 /\ cells[1] = Newline
        /\ \A k \in 1 .. n : cells[k + 1] = text[k]
    BY <1>1, <2>1, AfterNewline
  <2>3. Len(cells) = b + n
    BY <1>3, <2>2
  <2>4. ASSUME NEW k \in 1 .. n PROVE cells[b + k] = s + k
    <3>1. b + k = k + 1
      BY <1>3
    <3>2. QED
      BY <1>1, <2>2, <3>1
  <2>5. QED
    BY <2>2, <2>3, <2>4 DEF cells
<1>4. CASE b = 0
  <2>1. cells = text
    BY <1>1, <1>2, <1>4
  <2>2. \A k \in 1 .. n : b + k = k
    BY <1>4
  <2>3. QED
    BY <1>1, <1>4, <2>1, <2>2 DEF cells
<1>5. QED
  BY <1>3, <1>4

(* The cell of a symbol that is written lies among those written.          *)
LEMMA InsideWrite ==
  ASSUME NEW c \in Nat, NEW a \in Nat, NEW b \in {0, 1}, NEW n \in Nat, NEW j \in 1 .. n,
         c - a = b + j, NEW l, l = b + n
  PROVE  c \in a + 1 .. a + l
  OBVIOUS

(* Direct: n symbols go to the line that begins after symbol start, behind *)
(* the newline that ends the line before it when there is one (b = 1).     *)
Kept == Placed(1 .. source) /\ Ended(LinesBefore(source))
StartsLine(start, q) == start = q * width

LEMMA PutOnLine ==
  ASSUME Arguments, UNCHANGED arguments, WritesFit, output \in Seq(Int), width # 0,
         source \in Nat, NEW n \in Nat, n # 0, source + n <= DataLen,
         NEW q \in Nat, NEW start \in Nat, StartsLine(start, q), NEW b \in {0, 1},
         start <= source, source + n <= start + width,
         destination \in Nat, destination + b = source + q,
         destination = EndOf(source),
         b = 1 => source = start /\ q # 0,
         b = 0 /\ source # 0 => start < source,
         Kept,
         Write(LineCells(b, source, n), destination),
         source' = source + n
  PROVE  /\ WritesFit' /\ output' \in Seq(Int)
         /\ EndOf(source)' = source + n + q
         /\ Kept'
<1> DEFINE d == DataLen
           s == source
           o == OutputLen(DataLen)
           at == destination
           cells == LineCells(b, source, n)
<1>0. b \in Nat /\ at + b = s + q
  OBVIOUS
<1>1. Write(cells, at)
  OBVIOUS
<1>2. /\ cells \in Seq(Int) /\ Len(cells) = b + n
      /\ b = 1 => cells[1] = Newline
      /\ \A k \in 1 .. n : cells[b + k] = s + k
  <2>1. PICK x \in Nat : x = source
    OBVIOUS
  <2>2. /\ LineCells(b, x, n) \in Seq(Int) /\ Len(LineCells(b, x, n)) = b + n
        /\ b = 1 => LineCells(b, x, n)[1] = Newline
        /\ \A k \in 1 .. n : LineCells(b, x, n)[b + k] = x + k
    BY LineCellsAre
  <2>3. QED
    BY <2>1, <2>2
<1> HIDE DEF cells
<1>3. d \in Nat /\ o \in Nat /\ width \in Nat
  BY Lengths DEF Arguments
<1> HIDE DEF cells
(* A symbol of the line has its place q cells further.                     *)
<1>5. ASSUME NEW i \in Nat, start < i, i <= start + width
      PROVE  Place(i) = i + q
  <2>1. q * width < i /\ i <= q * width + width
    BY <1>5 DEF StartsLine
  <2>2. QED
    <3>1. width \in Nat /\ width # 0
      BY <1>3
    <3>2. ASSUME NEW w \in Nat, w # 0, q * w < i, i <= q * w + w PROVE PlaceAt(i, w) = i + q
      BY <1>5, <3>2, PlaceOnLine
    <3>3. QED
      BY <2>1, <3>1, <3>2 DEF Place
<1>6. Place(s + n) = s + n + q
  BY <1>3, <1>5
<1>7. at + Len(cells) = s + n + q /\ s + n + q <= o
  <2>1. s + n \in 1 .. DataLen
    BY <1>3
  <2>2. Place(s + n) \in 1 .. OutputLen(DataLen)
    BY <2>1, CellsFit
  <2>3. QED
    <3>1. at + (b + n) = s + n + q
      BY <1>0, SMTT(30)
    <3>2. at + Len(cells) = at + (b + n)
      BY <1>2
    <3>3. QED
      BY <1>3, <1>6, <2>2, <3>1, <3>2
<1>8. /\ WritesFit' /\ output' \in Seq(Int)
      /\ \A k \in 1 .. o :
           output'[k] = IF k \in at + 1 .. at + Len(cells) THEN cells[k - at] ELSE output[k]
  <2>1. at + Len(cells) <= OutputLen(DataLen)
    BY <1>7
  <2>2. QED
    BY <1>1, <1>2, <2>1, WriteInside
<1>9. \A i \in 1 .. d : Place(i) \in 1 .. o
  BY CellsFit
<1>10. Placed(1 .. source)'
  <2>1. ASSUME NEW i \in 1 .. s + n PROVE output'[Place(i)] = i
    <3>1. Place(i) \in 1 .. o
      BY <1>3, <1>9, SMTT(30)
    <3>2. CASE i <= s
      <4>1. Place(i) <= at
        <5>1. s # 0 /\ i \in Nat /\ i # 0 /\ width \in Nat
          BY <1>3, <3>2
        <5>2. at = Place(s)
          BY <5>1 DEF EndOf
        <5>3. PlaceAt(i, width) \in 1 .. PlaceAt(s, width)
          BY <5>1, <3>2, PlaceInOutput
        <5>4. PlaceAt(s, width) \in Nat
          BY <5>1, <3>2, PlaceInOutput
        <5>5. QED
          BY <5>2, <5>3, <5>4 DEF Place
      <4> DEFINE cell == Place(i)
      <4>2. cell \in 1 .. o /\ cell \notin at + 1 .. at + Len(cells)
        BY <1>2, <1>3, <3>1, <4>1, SMTT(30)
      <4> HIDE DEF cell
      <4>3. output'[cell] = output[cell]
        BY <1>8, <4>2
      <4>4. QED
        BY <3>2, <4>3, SMTT(30) DEF Kept, Placed, cell
    <3>3. CASE i > s
      <4>1. i \in Nat /\ start < i /\ i <= start + width
        BY <1>3, <3>3
      <4>2. Place(i) = i + q
        BY <1>5, <4>1
      <4> DEFINE k == i - s
      <4>3. k \in 1 .. n /\ s + k = i /\ Place(i) - at = b + k
        BY <3>3, <4>2, SMTT(30)
      <4> DEFINE cell == Place(i)
      <4>4. Place(i) \in at + 1 .. at + Len(cells)
        <5>1. cell \in Nat /\ cell - at = b + k
          BY <1>3, <3>1, <4>3
        <5>2. Len(cells) = b + n /\ k \in 1 .. n
          BY <1>2, <4>3
        <5> HIDE DEF cell, k
        <5>3. at \in Nat /\ b + n \in Nat
          OBVIOUS
        <5> DEFINE length == Len(cells)
        <5>4. length = b + n /\ length \in Nat
          BY <5>2, <5>3
        <5> HIDE DEF length, at
        <5>5. PICK c \in Nat, a \in Nat, j \in 1 .. n, l \in Nat : c = cell /\ a = at /\ j = k /\ l = length
          BY <5>1, <5>2, <5>3, <5>4, Zenon
        <5>6. c - a = b + j /\ l = b + n
          BY <5>1, <5>4, <5>5
        <5>7. c \in a + 1 .. a + l
          BY <5>6, InsideWrite
        <5>8. QED
          BY <5>5, <5>7 DEF cell, length
      <4>5. output'[Place(i)] = cells[Place(i) - at]
        BY <1>8, <3>1, <4>4
      <4> HIDE DEF k
      <4>6. cells[b + k] = s + k
        BY <1>2, <4>3
      <4>7. QED
        BY <4>3, <4>5, <4>6
    <3>4. QED
      BY <3>2, <3>3
  <2>2. \A i : Place(i)' = Place(i)
    BY ArgumentsStay
  <2>3. QED
    BY <2>1, <2>2 DEF Placed
<1>11. Ended(LinesBefore(source))'
  <2>1. ASSUME NEW k \in 1 .. d, k * width < s + n, EndsLine(k)
        PROVE  output'[NewlineAt(k, width)] = Newline
    <3> DEFINE last == k * width
               cell == NewlineAt(k, width)
    <3>1. cell \in 1 .. o /\ last \in Nat /\ cell = last + k
      BY <2>1, CellsFit
    <3>2. last < s + n /\ k \in Nat /\ k # 0
      BY <2>1, <1>3
    <3>3. last < s => k \in LinesBefore(s)
      BY DEF LinesBefore
    <3>4. k \in LinesBefore(s) => output[cell] = Newline
      BY <2>1 DEF Kept, Ended
    <3>5. k <= q /\ last <= start
      <4>1. k <= q
        <5>1. last < start + width
          BY <1>3, <3>1, <3>2
        <5>2. k * width < q * width + width
          BY <5>1 DEF StartsLine
        <5>3. QED
          BY <1>3, <3>2, <5>2, MultipleBound
      <4>2. QED
        BY <1>3, <3>2, <4>1, TimesMonotone DEF StartsLine
    <3>6. last = start => k = q
      <4>1. ASSUME last = start PROVE q <= k
        <5>1. q * width < k * width + width
          BY <1>3, <3>1, <4>1 DEF StartsLine
        <5>2. QED
          BY <1>3, <3>2, <5>1, MultipleBound
      <4>2. QED
        BY <3>2, <3>5, <4>1
    <3>7. width <= last
      <4>1. 1 * width <= k * width /\ 1 * width = width
        BY <1>3, <3>2, TimesMonotone
      <4>2. QED
        BY <4>1
    <3>8. last < s => cell <= at
      BY <1>3, <3>1, <3>2, NewlineBefore DEF EndOf, Place
    <3> HIDE DEF last, cell
    <3>9. CASE last < s
      <4>1. output'[cell] = output[cell]
        BY <1>8, <3>1, <3>8, <3>9
      <4>2. QED
        BY <3>3, <3>4, <3>9, <4>1 DEF cell
    <3>10. CASE last >= s
      <4>1. last = start /\ s = start /\ s # 0
        BY <1>3, <3>1, <3>5, <3>7, <3>10
      <4>2. b = 1 /\ k = q
        BY <3>6, <4>1
      <4>3. cell = at + 1
        BY <3>1, <4>1, <4>2
      <4>4. cell \in at + 1 .. at + Len(cells) /\ cell - at = 1
        BY <1>2, <4>2, <4>3
      <4>5. output'[cell] = cells[1]
        BY <1>8, <3>1, <4>4
      <4>6. QED
        BY <1>2, <4>2, <4>5 DEF cell
    <3>11. QED
      BY <3>1, <3>9, <3>10
  <2>2. DataLen' = d /\ width' = width /\ (\A k : EndsLine(k)' = EndsLine(k))
    BY ArgumentsStay
  <2>3. QED
    BY <2>1, <2>2 DEF Ended, LinesBefore, NewlineAt
<1>12. EndOf(source)' = s + n + q
  <2>1. width' = width
    BY ArgumentsStay
  <2>2. EndOf(source)' = PlaceAt(s + n, width)
    BY <2>1 DEF EndOf, Place
  <2>3. QED
    BY <1>6, <2>2 DEF Place
<1>13. QED
  BY <1>8, <1>10, <1>11, <1>12 DEF Kept

(* In place: the last line that is not moved yet, its n symbols after the  *)
(* symbol start, goes where it belongs, behind its newline.                *)
Moved ==
  /\ \A i \in 1 .. source : output[i] = i
  /\ Placed(source + 1 .. DataLen)
  /\ Ended(LinesFrom(source))

LEMMA MoveOnLine ==
  ASSUME Arguments, UNCHANGED arguments, WritesFit, output \in Seq(Int), width # 0,
         NEW s \in Nat, source = s, s <= DataLen, NEW n \in Nat, n # 0,
         NEW q \in Nat, NEW start \in Nat, StartsLine(start, q), NEW b \in {0, 1},
         s = start + n, n <= width,
         NEW at \in Nat, at + b = start + q,
         b = 0 => start = 0 /\ q = 0,
         b = 1 => start # 0 /\ q # 0,
         Moved,
         Write(LineCells(b, start, n), at),
         source' = start
  PROVE  WritesFit' /\ output' \in Seq(Int) /\ Moved'
<1> DEFINE d == DataLen
           o == OutputLen(DataLen)
           cells == LineCells(b, start, n)
<1>0. b \in Nat
  OBVIOUS
<1>1. Write(cells, at)
  OBVIOUS
<1>2. /\ cells \in Seq(Int) /\ Len(cells) = b + n
      /\ b = 1 => cells[1] = Newline
      /\ \A k \in 1 .. n : cells[b + k] = start + k
  BY LineCellsAre
<1> HIDE DEF cells
<1>3. d \in Nat /\ o \in Nat /\ width \in Nat /\ d <= o
  BY Lengths DEF Arguments
<1>4. ASSUME NEW i \in Nat, start < i, i <= start + width
      PROVE  Place(i) = i + q
  <2>1. q * width < i /\ i <= q * width + width
    BY <1>4 DEF StartsLine
  <2>2. ASSUME NEW w \in Nat, w # 0, q * w < i, i <= q * w + w PROVE PlaceAt(i, w) = i + q
    BY <1>4, <2>2, PlaceOnLine
  <2>3. QED
    BY <1>3, <2>1, <2>2 DEF Place
<1>5. s # 0 /\ s \in 1 .. d /\ Place(s) = s + q
  BY <1>3, <1>4
<1>6. \A i \in 1 .. d : Place(i) \in 1 .. o
  BY CellsFit
<1>7. at + Len(cells) = s + q /\ s + q <= o
  <2>1. at + (b + n) = s + q
    BY <1>0
  <2>2. at + Len(cells) = at + (b + n)
    BY <1>2
  <2>3. Place(s) \in 1 .. o
    BY <1>5, <1>6
  <2>4. s + q <= o
    BY <1>3, <1>5, <2>3
  <2>5. QED
    BY <2>1, <2>2, <2>4
<1>8. /\ WritesFit' /\ output' \in Seq(Int)
      /\ \A k \in 1 .. o :
           output'[k] = IF k \in at + 1 .. at + Len(cells) THEN cells[k - at] ELSE output[k]
  <2>1. at + Len(cells) <= OutputLen(DataLen)
    BY <1>7
  <2>2. QED
    BY <1>1, <1>2, <2>1, WriteInside
<1>9. \A i \in 1 .. start : output'[i] = i
  <2>1. ASSUME NEW i \in 1 .. start PROVE output'[i] = i
    <3>1. i \in 1 .. o /\ i <= at /\ i \in 1 .. s
      BY <1>0, <1>3
    <3>2. i \notin at + 1 .. at + Len(cells)
      BY <1>7, <3>1
    <3>3. output[i] = i
      BY <3>1 DEF Moved
    <3>4. QED
      BY <1>8, <3>1, <3>2, <3>3
  <2>2. QED
    BY <2>1
<1>10. Placed(source + 1 .. DataLen)'
  <2>1. ASSUME NEW i \in start + 1 .. d PROVE output'[Place(i)] = i
    <3> DEFINE cell == Place(i)
    <3>1. cell \in 1 .. o
      BY <1>3, <1>6
    <3>2. CASE i > s
      <4>1. cell > s + q
        <5>1. width \in Nat /\ s \in Nat /\ i \in Nat /\ s # 0 /\ s < i
          BY <1>3, <1>5, <3>2
        <5>2. PlaceAt(s, width) < PlaceAt(i, width)
          BY <5>1, PlaceMonotone
        <5>3. QED
          BY <1>5, <5>2 DEF Place
      <4>2. output[cell] = i
        BY <1>3, <3>2 DEF Moved, Placed
      <4> HIDE DEF cell
      <4>3. cell \notin at + 1 .. at + Len(cells)
        BY <1>3, <1>7, <3>1, <4>1
      <4>4. output'[cell] = output[cell]
        BY <1>8, <3>1, <4>3
      <4>5. QED
        BY <4>2, <4>4 DEF cell
    <3>3. CASE i <= s
      <4> DEFINE k == i - start
      <4>1. cell = i + q
        <5>1. i \in Nat /\ start < i /\ i <= start + width
          BY <1>3, <3>3
        <5>2. QED
          BY <1>4, <5>1
      <4>2. k \in 1 .. n /\ start + k = i
        BY <3>3
      <4> HIDE DEF cell
      <4>3. cell - at = b + k
        BY <1>0, <4>1, <4>2
      <4>4. cell \in at + 1 .. at + Len(cells)
        <5>1. cell \in Nat
          BY <3>1
        <5> HIDE DEF k
        <5>2. QED
          BY <1>0, <1>2, <4>2, <4>3, <5>1
      <4>5. output'[cell] = cells[b + k]
        BY <1>8, <3>1, <4>3, <4>4
      <4> HIDE DEF k
      <4>6. QED
        BY <1>2, <4>2, <4>5 DEF cell
    <3>4. QED
      BY <1>3, <3>2, <3>3
  <2>2. DataLen' = d /\ (\A i : Place(i)' = Place(i))
    BY ArgumentsStay
  <2>3. QED
    BY <2>1, <2>2 DEF Placed
<1>11. Ended(LinesFrom(source))'
  <2>1. ASSUME NEW k \in 1 .. d, k * width >= start, EndsLine(k)
        PROVE  output'[NewlineAt(k, width)] = Newline
    <3> DEFINE last == k * width
               cell == NewlineAt(k, width)
    <3>1. cell \in 1 .. o /\ last \in Nat /\ cell = last + k
      BY <2>1, CellsFit
    <3>2. last >= start /\ k \in Nat /\ k # 0
      BY <2>1, <1>3
    <3>3. last >= s => output[cell] = Newline
      BY <2>1 DEF Moved, Ended, LinesFrom
    <3>4. k <= q => last <= start
      BY <1>3, <3>2, TimesMonotone DEF StartsLine
    <3>5. last < start + width => k <= q
      BY <1>3, <3>2, MultipleBound DEF StartsLine
    <3>6. last = start => q <= k
      <4>1. ASSUME last = start PROVE q <= k
        <5>1. q * width < k * width + width
          BY <1>3, <3>1, <4>1 DEF StartsLine
        <5>2. QED
          BY <1>3, <3>2, <5>1, MultipleBound
      <4>2. QED
        BY <4>1
    <3> HIDE DEF last, cell
    <3>7. CASE last >= s
      <4>1. k > q
        BY <1>3, <3>1, <3>2, <3>4, <3>7
      <4>2. cell \notin at + 1 .. at + Len(cells)
        BY <1>7, <3>1, <3>2, <3>7, <4>1
      <4>3. QED
        BY <1>8, <3>1, <3>3, <3>7, <4>2 DEF cell
    <3>8. CASE last < s
      <4>1. k <= q
        BY <1>3, <3>1, <3>5, <3>8
      <4>2. last = start /\ k = q
        BY <3>1, <3>2, <3>4, <3>6, <4>1
      <4>3. b = 1
        BY <3>2, <4>2
      <4>4. cell = at + 1
        BY <3>1, <4>2, <4>3
      <4>5. cell \in at + 1 .. at + Len(cells) /\ cell - at = 1
        BY <1>2, <4>3, <4>4
      <4>6. output'[cell] = cells[1]
        BY <1>8, <3>1, <4>5
      <4>7. QED
        BY <1>2, <4>3, <4>6 DEF cell
    <3>9. QED
      BY <3>1, <3>7, <3>8
  <2>2. DataLen' = d /\ width' = width /\ (\A k : EndsLine(k)' = EndsLine(k))
    BY ArgumentsStay
  <2>3. QED
    BY <2>1, <2>2 DEF Ended, LinesFrom, NewlineAt
<1>12. QED
  BY <1>8, <1>9, <1>10, <1>11 DEF Moved

(* wrap_encoded_ptr: each turn of the loop keeps the invariant.            *)
LEMMA MoveLineKeeps ==
  ASSUME Arguments, UNCHANGED arguments, WritesFit, output \in Seq(Int), width # 0,
         source \in Nat, source # 0, source <= DataLen,
         destination = EndOf(source), Moved, MoveLine
  PROVE  /\ WritesFit' /\ output' \in Seq(Int) /\ Moved'
         /\ source' \in 0 .. DataLen /\ destination' = EndOf(source)'
<1> DEFINE s == source
           n == LineLen
           q == (s - 1) \div width
           start == s - n
           b == IF start = 0 THEN 0 ELSE 1
           at == destination - n - b
<1>1. width \in Nat /\ DataLen \in Nat
  BY Lengths DEF Arguments
<1>2. start = q * width /\ n \in 1 .. width
  <2>1. LET length == IF s % width = 0 THEN width ELSE s % width
        IN  s - length = q * width /\ length \in 1 .. width
    BY <1>1, LastLine
  <2>2. QED
    BY <2>1 DEF LineLen
<1>3. q \in Nat /\ q * width \in Nat /\ Place(s) = s + q
  BY <1>1, LineOf DEF Place
<1> HIDE DEF q, n
<1>4. start \in Nat /\ n \in Nat /\ n # 0 /\ n <= width /\ s = start + n
  BY <1>1, <1>2, <1>3
<1>5. destination = s + q
  BY <1>3 DEF EndOf
<1>6. q = 0 <=> start = 0
  <2>1. 0 * width = 0
    BY <1>1
  <2>2. q # 0 => 1 * width <= q * width
    BY <1>1, <1>3, TimesMonotone
  <2>3. 1 * width = width
    BY <1>1
  <2> DEFINE p == q * width
  <2>4. q # 0 => p # 0
    <3> HIDE DEF p
    <3>1. q # 0 => width <= p
      BY <2>2, <2>3 DEF p
    <3>2. QED
      BY <1>1, <3>1
  <2>5. QED
    BY <1>2, <2>1, <2>4
<1>7. b \in {0, 1} /\ b \in Nat /\ (b = 0 <=> start = 0)
  OBVIOUS
<1>8. /\ b = 0 => start = 0 /\ q = 0
      /\ b = 1 => start # 0 /\ q # 0
  BY <1>6
<1>9. StartsLine(start, q)
  BY <1>2 DEF StartsLine
<1>10. source' = start /\ destination' = at /\ Write(LineCells(b, start, n), at)
  <2>1. source' = start
    BY DEF MoveLine, n
  <2>2. destination' = at
    BY <2>1 DEF MoveLine, n
  <2>3. [k \in 1 .. n |-> output[start + k]] = Symbols(start + 1, start + n)
    <3>1. \A k \in 1 .. n : output[start + k] = (start + 1) + k - 1
      <4>1. \A k \in 1 .. n : start + k \in 1 .. s
        BY <1>4
      <4>2. QED
        BY <1>4, <4>1 DEF Moved
    <3>2. (start + n) - (start + 1) + 1 = n
      BY <1>4
    <3> HIDE DEF start
    <3>3. [k \in 1 .. n |-> output[start + k]] = [k \in 1 .. n |-> (start + 1) + k - 1]
      BY <3>1
    <3>4. QED
      BY <3>2, <3>3, Zenon DEF Symbols
  <2>4. LET line == [k \in 1 .. n |-> output[start + k]]
        IN  Write(IF start = 0 THEN line ELSE <<Newline>> \o line, at)
    BY <2>1, <2>2, Zenon DEF MoveLine, n
  <2>5. Write(IF start = 0 THEN Symbols(start + 1, start + n)
              ELSE <<Newline>> \o Symbols(start + 1, start + n), at)
    BY <2>3, <2>4, Zenon
  <2>6. LineCells(b, start, n) = IF start = 0 THEN Symbols(start + 1, start + n)
                                 ELSE <<Newline>> \o Symbols(start + 1, start + n)
    <3> DEFINE text == Symbols(start + 1, start + n)
    <3>1. text \in Seq(Int)
      <4>1. start + 1 \in Nat /\ start + n \in Nat /\ start + 1 <= (start + n) + 1
        BY <1>4
      <4>2. QED
        BY <4>1, SymbolsSeq
    <3>2. LineCells(b, start, n) = (IF b = 1 THEN <<Newline>> ELSE <<>>) \o text
      BY DEF LineCells
    <3> HIDE DEF text
    <3>3. <<>> \o text = text
      BY <3>1
    <3>4. b = 1 <=> start # 0
      OBVIOUS
    <3>5. LineCells(b, start, n) = IF start = 0 THEN text ELSE <<Newline>> \o text
      BY <3>2, <3>3, <3>4
    <3>6. QED
      BY <3>5, Zenon DEF text
  <2>7. QED
    BY <2>1, <2>2, <2>5, <2>6, Zenon
<1>11. at \in Nat /\ at + b = start + q /\ at = (IF start = 0 THEN 0 ELSE start + q - 1)
  BY <1>3, <1>4, <1>5, <1>6
<1> HIDE DEF b, at
<1>12. WritesFit' /\ output' \in Seq(Int) /\ Moved'
  <2> HIDE DEF start
  <2>1. PICK s1 \in Nat, n1 \in Nat, q1 \in Nat, start1 \in Nat, b1 \in {0, 1}, at1 \in Nat :
               s1 = s /\ n1 = n /\ q1 = q /\ start1 = start /\ b1 = b /\ at1 = at
    BY <1>3, <1>4, <1>7, <1>11
  <2>2. /\ source = s1 /\ s1 <= DataLen /\ n1 # 0 /\ StartsLine(start1, q1)
        /\ s1 = start1 + n1 /\ n1 <= width /\ at1 + b1 = start1 + q1
    BY <1>4, <1>9, <1>11, <2>1
  <2>3. (b1 = 0 => start1 = 0 /\ q1 = 0) /\ (b1 = 1 => start1 # 0 /\ q1 # 0)
    BY <1>8, <2>1
  <2>4. source' = start1 /\ Write(LineCells(b1, start1, n1), at1)
    BY <1>10, <2>1
  <2>5. QED
    BY <2>2, <2>3, <2>4, MoveOnLine
<1>13. EndOf(source)' = at
  <2>1. width' = width
    BY ArgumentsStay
  <2>2. EndOf(source)' = IF start = 0 THEN 0 ELSE PlaceAt(start, width)
    BY <1>10, <2>1 DEF EndOf, Place
  <2>3. CASE start = 0
    BY <1>11, <2>2, <2>3
  <2>4. CASE start # 0
    <3>1. q - 1 \in Nat /\ (q - 1) + 1 = q
      BY <1>3, <1>6, <2>4
    <3>2. q * width = (q - 1) * width + width /\ (q - 1) * width \in Nat
      BY <1>1, <3>1, TimesSucc
    <3> DEFINE p == (q - 1) * width
    <3>3. p < start /\ start <= p + width
      <4> HIDE DEF p
      <4>1. QED
        BY <1>1, <1>2, <3>2 DEF p
    <3>4. PlaceAt(start, width) = start + (q - 1)
      BY <1>1, <1>4, <3>1, <3>3, PlaceOnLine
    <3>5. QED
      BY <1>3, <1>4, <1>11, <2>2, <2>4, <3>4
  <2>5. QED
    BY <2>3, <2>4
<1>14. start \in 0 .. DataLen
  BY <1>1, <1>4
<1>15. QED
  BY <1>10, <1>12, <1>13, <1>14

(* WrappedOutput: a write of symbols that fit the line keeps the invariant.*)
OnLine ==
  /\ width # 0 /\ source \in Nat /\ column \in 0 .. width
  /\ destination = EndOf(source)
  /\ source = 0 => column = 0
  /\ source # 0 => column = source - ((source - 1) \div width) * width
  /\ Kept

LEMMA PutKeeps ==
  ASSUME Arguments, UNCHANGED arguments, WritesFit, output \in Seq(Int), OnLine,
         NEW n \in Nat, n # 0, source + n <= DataLen,
         n <= (IF LineBreak THEN width ELSE width - column), Put(n)
  PROVE  WritesFit' /\ output' \in Seq(Int) /\ OnLine'
<1> DEFINE s == source
           room == IF LineBreak THEN width ELSE width - column
           b == IF LineBreak THEN 1 ELSE 0
           p == IF s = 0 THEN 0 ELSE (s - 1) \div width
           q == p + b
           start == s - (IF LineBreak THEN 0 ELSE column)
<1>1. width \in Nat /\ width # 0 /\ DataLen \in Nat /\ s \in Nat /\ column \in 0 .. width
  BY Lengths DEF Arguments, OnLine
<1>2. /\ s = 0 => column = 0 /\ p = 0
      /\ s # 0 => column = s - p * width /\ Place(s) = s + p
      /\ p \in Nat /\ p * width \in Nat /\ p * width <= s
      /\ s # 0 => p * width < s
  <2>1. CASE s = 0
    <3>1. p = 0 /\ 0 * width = 0
      BY <1>1, <2>1
    <3>2. QED
      BY <1>1, <2>1, <3>1 DEF OnLine
  <2>2. CASE s # 0
    <3>1. p = (s - 1) \div width
      BY <2>2
    <3>2. p \in Nat /\ p * width \in Nat /\ p * width < s /\ Place(s) = s + p
      BY <1>1, <2>2, <3>1, LineOf DEF Place
    <3> HIDE DEF p
    <3>3. column = s - p * width
      BY <2>2, <3>1 DEF OnLine
    <3>4. QED
      BY <1>1, <2>2, <3>2, <3>3
  <2>3. QED
    BY <2>1, <2>2
<1>3. destination = s + p /\ destination \in Nat
  <2>1. destination = IF s = 0 THEN 0 ELSE Place(s)
    BY DEF OnLine, EndOf
  <2> HIDE DEF p
  <2>2. QED
    BY <1>1, <1>2, <2>1
<1> HIDE DEF p
<1>4. b \in {0, 1} /\ b \in Nat /\ q \in Nat
  BY <1>2
<1>5. (p + 1) * width = p * width + width
  BY <1>1, <1>2, TimesSucc
<1>6. b = 1 => column = width /\ s # 0 /\ q = p + 1 /\ start = s
  BY <1>1, <1>2 DEF LineBreak
<1>7. b = 0 => q = p /\ start = s - column
  BY <1>2
<1>8. start = q * width /\ start \in Nat
  <2> DEFINE m == p * width
  <2>1. b = 1 => start = (p + 1) * width /\ q = p + 1
    <3>1. m + width = (p + 1) * width
      BY <1>5
    <3>2. b = 1 => s = m + width
      <4> HIDE DEF m
      <4>1. s # 0 => column = s - m
        BY <1>2 DEF m
      <4>2. QED
        BY <1>1, <1>2, <1>6, <4>1 DEF m
    <3>3. QED
      BY <1>6, <3>1, <3>2
  <2>2. b = 0 => start = m /\ q = p
    <3>1. (s = 0 => column = 0 /\ m = 0) /\ (s # 0 => column = s - m)
      BY <1>1, <1>2
    <3> HIDE DEF m
    <3>2. QED
      BY <1>1, <1>2, <1>7, <3>1 DEF m
  <2>3. start \in Nat
    BY <1>1, <1>2, <1>6, <1>7, <2>2
  <2>4. QED
    BY <1>4, <2>1, <2>2, <2>3
<1>9. n <= room
  OBVIOUS
<1>10. start <= s /\ s + n <= start + width
  BY <1>1, <1>9
<1>11. destination + b = s + q
  BY <1>1, <1>2, <1>3, <1>4
<1>12. b = 0 /\ s # 0 => start < s
  <2> DEFINE m == p * width
  <2>1. m \in Nat /\ (s # 0 => column = s - m /\ m < s)
    BY <1>2
  <2> HIDE DEF m
  <2>2. QED
    BY <1>1, <1>7, <2>1
<1>13. b = 1 => s = start /\ q # 0
  BY <1>2, <1>6
<1>14. StartsLine(start, q)
  BY <1>8 DEF StartsLine
<1>15. Write(LineCells(b, s, n), destination)
  <2>1. LineCells(b, s, n) = (IF LineBreak THEN <<Newline>> ELSE <<>>) \o Symbols(s + 1, s + n)
    <3>1. (IF b = 1 THEN <<Newline>> ELSE <<>>) = (IF LineBreak THEN <<Newline>> ELSE <<>>)
      OBVIOUS
    <3>2. QED
      BY <3>1, Zenon DEF LineCells
  <2>2. QED
    BY <2>1, Zenon DEF Put
<1>16. /\ source' = s + n /\ column' = n + (IF LineBreak THEN 0 ELSE column)
       /\ destination' = destination + Len(LineCells(b, s, n))
  <2>1. LineCells(b, s, n) = (IF LineBreak THEN <<Newline>> ELSE <<>>) \o Symbols(s + 1, s + n)
    <3>1. (IF b = 1 THEN <<Newline>> ELSE <<>>) = (IF LineBreak THEN <<Newline>> ELSE <<>>)
      OBVIOUS
    <3>2. QED
      BY <3>1, Zenon DEF LineCells
  <2>2. QED
    BY <2>1, Zenon DEF Put
<1>17. Len(LineCells(b, s, n)) = b + n
  BY <1>1, <1>4, LineCellsAre
<1>18. destination' = s + n + q
  <2>1. destination' = destination + (b + n)
    BY <1>16, <1>17
  <2>2. destination \in Int /\ b \in Int /\ n \in Int /\ s \in Int /\ q \in Int
    BY <1>1, <1>3, <1>4
  <2> HIDE DEF b, s, q
  <2>3. QED
    BY <1>11, <2>1, <2>2
<1>19. column' = s + n - start
  BY <1>1, <1>16
<1>20. destination = EndOf(source) /\ Kept
  BY DEF OnLine
<1> HIDE DEF q, start, b
<1>21. WritesFit' /\ output' \in Seq(Int) /\ EndOf(source)' = s + n + q /\ Kept'
  BY <1>1, <1>3, <1>4, <1>8, <1>10, <1>11, <1>12, <1>13, <1>14, <1>15, <1>16, <1>20, PutOnLine
<1>22. (s + n - 1) \div width = q
  <2> DEFINE a == s + n - 1
  <2>1. a \in Nat /\ start <= a /\ a < start + width
    BY <1>1, <1>8, <1>10
  <2>2. q * width <= a /\ a < q * width + width
    <3> HIDE DEF a
    <3>1. QED
      BY <1>8, <2>1
  <2> HIDE DEF a
  <2>3. a \div width = q
    BY <1>1, <1>4, <2>1, <2>2, DivUnique
  <2>4. QED
    BY <2>3 DEF a
<1>23. column' \in 0 .. width /\ source' \in Nat /\ source' # 0
  BY <1>1, <1>8, <1>10, <1>16, <1>19
<1>24. width' = width
  BY ArgumentsStay
<1>25. column' = source' - ((source' - 1) \div width) * width
  <2>1. source' - 1 = s + n - 1 /\ source' = s + n
    BY <1>1, <1>16
  <2>2. ((source' - 1) \div width) * width = start
    BY <1>8, <1>22, <2>1
  <2>3. QED
    BY <1>1, <1>8, <1>19, <2>1, <2>2
<1>26. QED
  BY <1>1, <1>18, <1>21, <1>23, <1>24, <1>25 DEF OnLine
----------------------------------------------------------------------------
(* The invariant, in the parts that the two ways keep.                     *)
LEMMA InPlaceParts ==
  InPlace <=> (pc = "wrapping" =>
                 /\ width # 0 /\ DataLen > width
                 /\ source \in 0 .. DataLen
                 /\ destination = EndOf(source)
                 /\ Moved)
BY DEF InPlace, Moved

LEMMA StreamedParts ==
  Streamed <=> (pc \in {"blocks", "scalar", "tail"} => OnLine /\ chunk \in Nat)
BY DEF Streamed, OnLine, Kept

LEMMA InitHolds == Init => IInv
<1> SUFFICES ASSUME Init PROVE IInv
  OBVIOUS
<1>1. \A wrapcol \in Wrapcols :
         NormalizeWrapcol(wrapcol) \in Nat /\ NormalizeWrapcol(wrapcol) % 4 = 0
  BY WrappedEncodingAssumption DEF NormalizeWrapcol
<1>2. Arguments
  BY <1>1, WrappedEncodingAssumption DEF Arguments, Init
<1>3. OutputLen(DataLen) + Slack \in Nat
  BY <1>2, Lengths, WrappedEncodingAssumption
<1> DEFINE n == OutputLen(DataLen) + Slack
<1>4. output \in Seq(Int) /\ Len(output) = n /\ \A k \in 1 .. n : output[k] = Unset
  <2>1. n \in Nat /\ output = [k \in 1 .. n |-> Unset] /\ Unset \in Int
    BY <1>3 DEF Unset, Init
  <2>2. ASSUME NEW m \in Nat, NEW out, out = [k \in 1 .. m |-> Unset]
        PROVE  out \in Seq(Int) /\ Len(out) = m /\ \A k \in 1 .. m : out[k] = Unset
    BY <2>2 DEF Unset
  <2> HIDE DEF n
  <2>3. QED
    BY <2>1, <2>2
<1>5. WritesFit
  BY <1>2, <1>3, <1>4, Lengths DEF WritesFit
<1>6. InPlace /\ Streamed /\ Accounted /\ WrapsText
  BY DEF InPlace, Streamed, Accounted, WrapsText, Init
<1>7. QED
  BY <1>2, <1>4, <1>5, <1>6 DEF IInv, Arguments, Init
----------------------------------------------------------------------------
(* Whole quads of the text are whole groups of three bytes of the input.   *)
LEMMA QuadsOfInput ==
  ASSUME Arguments, NEW t \in Nat, t % 4 = 0, (t \div 4) * 3 <= inputLen
  PROVE  t <= DataLen
<1> DEFINE m == t \div 4
           k == inputLen \div 3
           r == inputLen % 3
<1>1. m \in Nat /\ t = 4 * m /\ 3 * m <= inputLen
  OBVIOUS
<1>2. k \in Nat /\ r \in 0 .. 2 /\ inputLen = 3 * k + r
  BY DEF Arguments
<1>3. m <= k
  <2> HIDE DEF m, k, r
  <2>1. QED
    BY <1>1, <1>2
<1>4. EncodedLen(inputLen) = (IF r = 0 THEN 4 * k ELSE 4 * k + 4)
  BY <1>2 DEF EncodedLen, Arguments
<1>5. DataLen >= 4 * k
  <2>1. DataLen = EncodedLen(inputLen) - (IF padded \/ r = 0 THEN 0 ELSE 3 - r)
    BY <1>4, <1>2 DEF DataLen, UnpaddedEncodedLen
  <2> HIDE DEF k, r
  <2>2. QED
    BY <1>2, <1>4, <2>1
<1>6. QED
  <2>1. DataLen \in Nat
    BY Lengths
  <2> HIDE DEF k, m
  <2>2. QED
    BY <1>1, <1>2, <1>3, <1>5, <2>1

LEMMA RestOfInput ==
  ASSUME Arguments, NEW t \in Nat, t % 4 = 0, (t \div 4) * 3 <= inputLen,
         NEW rest \in Nat, rest = inputLen - (t \div 4) * 3
  PROVE  /\ EncodedLen(rest) \in Nat /\ UnpaddedEncodedLen(rest) \in Nat
         /\ t + (IF padded THEN EncodedLen(rest) ELSE UnpaddedEncodedLen(rest)) = DataLen
<1> DEFINE m == t \div 4
<1>1. m \in Nat /\ t = 4 * m /\ inputLen = 3 * m + rest
  BY DEF Arguments
<1> HIDE DEF m
<1>2. EncodedLen(inputLen) = t + EncodedLen(rest)
  <2>1. (3 * m + rest + 2) \div 3 = m + (rest + 2) \div 3
    BY <1>1
  <2>2. QED
    BY <1>1, <2>1 DEF EncodedLen
<1>3. inputLen % 3 = rest % 3
  BY <1>1
<1>4. EncodedLen(rest) \in Nat /\ UnpaddedEncodedLen(rest) \in Nat
  BY DEF EncodedLen, UnpaddedEncodedLen
<1>5. UnpaddedEncodedLen(inputLen) = t + UnpaddedEncodedLen(rest)
  <2>1. EncodedLen(rest) \in Nat /\ rest % 3 \in Nat
    BY DEF EncodedLen
  <2>2. QED
    BY <1>2, <1>3, <2>1 DEF UnpaddedEncodedLen
<1>6. QED
  BY <1>2, <1>4, <1>5 DEF DataLen

(* encode_unwrapped_ptr writes the text from the start of the output.      *)
LEMMA EncodeUnwrappedKeeps ==
  ASSUME IInv, EncodeUnwrapped
  PROVE  IInv'
<1> DEFINE d == DataLen
           o == OutputLen(DataLen)
           text == Symbols(1, d)
<1>1. Arguments /\ UNCHANGED arguments /\ WritesFit /\ output \in Seq(Int) /\ pc = "start"
      /\ chunk = 0 /\ chunk' = chunk /\ Write(text, 0)
  BY DEF IInv, Arguments, EncodeUnwrapped, Accounted
<1>2. width \in Nat /\ d \in Nat /\ o \in Nat /\ d <= o
  BY <1>1, Lengths DEF Arguments
<1>3. text \in Seq(Int) /\ Len(text) = d /\ \A k \in 1 .. d : text[k] = k
  <2>1. 1 <= d + 1 /\ d - 1 + 1 = d /\ \A k \in 1 .. d : 1 + k - 1 = k
    BY <1>2
  <2> HIDE DEF d
  <2>2. QED
    BY <1>2, <2>1, SymbolsSeq
<1> HIDE DEF text
<1>4. WritesFit' /\ output' \in Seq(Int) /\ \A k \in 1 .. d : output'[k] = k
  <2>1. 0 + Len(text) <= OutputLen(DataLen)
    BY <1>2, <1>3
  <2>2. /\ WritesFit' /\ output' \in Seq(Int)
        /\ \A k \in 1 .. o :
             output'[k] = IF k \in 0 + 1 .. 0 + Len(text) THEN text[k - 0] ELSE output[k]
    BY <1>1, <1>3, <2>1, WriteInside
  <2>3. ASSUME NEW k \in 1 .. d PROVE output'[k] = k
    <3>1. k \in 1 .. o /\ k \in 0 + 1 .. 0 + Len(text) /\ k - 0 = k
      BY <1>2, <1>3
    <3>2. QED
      BY <1>3, <2>2, <3>1
  <2>4. QED
    BY <2>2, <2>3
<1>5. /\ Arguments' /\ width' = width /\ DataLen' = d
      /\ (\A i : Place(i)' = Place(i)) /\ (\A k : EndsLine(k)' = EndsLine(k))
  BY <1>1, ArgumentsStay
<1>6. CASE width = 0 \/ d <= width
  <2>1. pc' = "done"
    BY <1>6 DEF EncodeUnwrapped
  <2>2. \A i \in 1 .. d : Place(i) = i
    <3>1. ASSUME NEW i \in 1 .. d PROVE Place(i) = i
      <4>1. CASE width = 0
        BY <4>1 DEF Place, PlaceAt
      <4>2. CASE width # 0
        <5>1. 0 * width < i /\ i <= 0 * width + width /\ 0 \in Nat /\ i \in Nat
          BY <1>2, <1>6, <4>2
        <5>2. PlaceAt(i, width) = i + 0
          BY <1>2, <4>2, <5>1, PlaceOnLine
        <5>3. QED
          BY <5>1, <5>2 DEF Place
      <4>3. QED
        BY <4>1, <4>2
    <3>2. QED
      BY <3>1
  <2>3. \A k \in 1 .. d : ~EndsLine(k)
    <3>1. ASSUME NEW k \in 1 .. d, EndsLine(k) PROVE FALSE
      <4> DEFINE last == k * width
      <4>1. width # 0 /\ last < d
        BY <3>1 DEF EndsLine
      <4>2. 1 * width <= last /\ 1 * width = width /\ last \in Nat
        BY <1>2, TimesMonotone
      <4> HIDE DEF last
      <4>3. QED
        BY <1>2, <1>6, <4>1, <4>2
    <3>2. QED
      BY <3>1
  <2>4. WrapsText'
    BY <1>4, <1>5, <2>2, <2>3 DEF WrapsText, Placed, Ended
  <2>5. QED
    BY <1>1, <1>4, <1>5, <2>1, <2>4 DEF IInv, Arguments, InPlace, Streamed, Accounted
<1>7. CASE ~(width = 0 \/ d <= width)
  <2>1. pc' = "wrapping" /\ source' = d /\ destination' = d + (d - 1) \div width
    BY <1>7 DEF EncodeUnwrapped
  <2>2. width # 0 /\ d > width /\ d # 0
    BY <1>2, <1>7
  <2>3. EndOf(source)' = destination'
    <3>1. EndOf(source)' = PlaceAt(d, width)
      BY <1>5, <2>1, <2>2 DEF EndOf, Place
    <3>2. QED
      BY <2>1, <2>2, <3>1 DEF PlaceAt
  <2>4. Moved'
    <3>1. (\A i \in 1 .. source : output[i] = i)'
      BY <1>4, <2>1
    <3>2. Placed(source + 1 .. DataLen)'
      <4>1. d + 1 .. d = {}
        BY <1>2
      <4>2. QED
        BY <1>5, <2>1, <4>1 DEF Placed
    <3>3. Ended(LinesFrom(source))'
      <4>1. ASSUME NEW k \in 1 .. d, k * width >= d, EndsLine(k) PROVE FALSE
        <5> DEFINE last == k * width
        <5>1. last \in Nat /\ last < d /\ last >= d
          BY <1>2, <4>1, TimesSucc DEF EndsLine
        <5> HIDE DEF last
        <5>2. QED
          BY <1>2, <5>1
      <4>2. QED
        BY <1>5, <2>1, <4>1 DEF Ended, LinesFrom
    <3>4. QED
      BY <3>1, <3>2, <3>3 DEF Moved
  <2>5. InPlace'
    BY <1>2, <1>5, <2>1, <2>2, <2>3, <2>4 DEF InPlace, Moved
  <2>6. QED
    BY <1>1, <1>4, <1>5, <2>1, <2>5 DEF IInv, Arguments, Streamed, Accounted, WrapsText
<1>8. QED
  BY <1>6, <1>7

(* Steps of the direct way that only account for what is written next.     *)
LEMMA AccountingKeeps ==
  ASSUME IInv, UNCHANGED <<arguments, output, source, destination, column>>,
         pc \in {"start", "blocks", "scalar", "tail"}, pc = "start" => Direct,
         pc' \in {"blocks", "scalar", "tail"}, chunk' \in Nat, Accounted'
  PROVE  IInv'
<1>1. Arguments /\ UNCHANGED arguments /\ WritesFit /\ output \in Seq(Int)
  BY DEF IInv, Arguments
<1>2. /\ Arguments' /\ width' = width /\ DataLen' = DataLen
      /\ OutputLen(DataLen)' = OutputLen(DataLen)
      /\ (\A i : Place(i)' = Place(i)) /\ (\A k : EndsLine(k)' = EndsLine(k))
  BY <1>1, ArgumentsStay
<1>3. OnLine
  <2>1. CASE pc = "start"
    <3>1. source = 0 /\ destination = 0 /\ column = 0 /\ width # 0 /\ width \in Nat
      BY <2>1 DEF IInv, Direct
    <3>2. Kept
      <4>1. Placed(1 .. source)
        BY <3>1 DEF Placed
      <4>2. ASSUME NEW k \in 1 .. DataLen, k * width < 0 PROVE FALSE
        <5>1. k * width \in Nat
          BY <1>1, <3>1, TimesSucc, Lengths
        <5>2. QED
          BY <4>2, <5>1
      <4>3. Ended(LinesBefore(source))
        BY <3>1, <4>2 DEF Ended, LinesBefore
      <4>4. QED
        BY <4>1, <4>3 DEF Kept
    <3>3. QED
      BY <3>1, <3>2 DEF OnLine, EndOf
  <2>2. CASE pc # "start"
    BY <2>2, StreamedParts DEF IInv
  <2>3. QED
    BY <2>1, <2>2
<1>4. Streamed'
  BY <1>2, <1>3 DEF OnLine, Kept, Streamed, Placed, Ended, LinesBefore, NewlineAt, EndOf
<1>5. WritesFit'
  BY <1>1, <1>2 DEF WritesFit
<1>6. QED
  BY <1>1, <1>2, <1>4, <1>5 DEF IInv, Arguments, InPlace, WrapsText

(* Steps of the direct way that write.                                     *)
LEMMA PutStepKeeps ==
  ASSUME IInv, UNCHANGED arguments, pc' = pc, pc \in {"blocks", "scalar", "tail"},
         NEW n \in Nat, n # 0, source + n <= DataLen,
         n <= (IF LineBreak THEN width ELSE width - column), Put(n),
         chunk' \in Nat, Accounted'
  PROVE  IInv'
<1>1. Arguments /\ WritesFit /\ output \in Seq(Int) /\ OnLine
  BY StreamedParts DEF IInv, Arguments
<1>2. WritesFit' /\ output' \in Seq(Int) /\ OnLine'
  BY <1>1, PutKeeps
<1>3. Streamed'
  BY <1>2 DEF OnLine, Kept, Streamed
<1>4. Arguments'
  BY <1>1, ArgumentsStay
<1>5. QED
  BY <1>2, <1>3, <1>4 DEF IInv, Arguments, InPlace, WrapsText

LEMMA WriteBlockKeeps ==
  ASSUME IInv, WriteBlock
  PROVE  IInv'
<1>1. /\ Arguments /\ UNCHANGED arguments /\ pc = "blocks" /\ pc' = pc /\ chunk = 0
      /\ InputLeft >= 12
  BY DEF IInv, Arguments, WriteBlock
<1>2. OnLine /\ source \in Nat /\ width \in Nat /\ column \in 0 .. width /\ inputLen \in Nat
  BY <1>1, StreamedParts DEF IInv, OnLine, Arguments
<1>3. source % 4 = 0 /\ column % 4 = 0
  BY <1>1 DEF IInv, Accounted
<1>4. (source + 16) % 4 = 0 /\ ((source + 16) \div 4) * 3 <= inputLen
  <2>1. (source \div 4) * 3 + 12 <= inputLen
    BY <1>1, <1>2 DEF InputLeft
  <2>2. (source + 16) \div 4 = source \div 4 + 4
    BY <1>2
  <2>3. QED
    BY <1>2, <1>3, <2>1, <2>2
<1>5. source + 16 <= DataLen
  BY <1>1, <1>2, <1>4, QuadsOfInput
<1>6. inputLen' = inputLen
  BY <1>1 DEF arguments
<1>7. CASE BlockFits
  <2>1. Put(16) /\ chunk' = 0
    BY <1>1, <1>7 DEF WriteBlock
  <2>2. source' = source + 16 /\ column' = 16 + (IF LineBreak THEN 0 ELSE column)
    BY <2>1 DEF Put
  <2>3. column' % 4 = 0
    BY <1>2, <1>3, <2>2
  <2>4. Accounted'
    BY <1>1, <1>2, <1>4, <1>6, <2>1, <2>2, <2>3 DEF Accounted
  <2>5. 16 <= (IF LineBreak THEN width ELSE width - column)
    BY <1>2, <1>7 DEF BlockFits
  <2>6. QED
    BY <1>1, <1>5, <2>1, <2>4, <2>5, PutStepKeeps
<1>8. CASE ~BlockFits
  <2>1. chunk' = 16 /\ UNCHANGED <<output, source, destination, column>>
    BY <1>8 DEF WriteBlock
  <2>2. Accounted'
    BY <1>1, <1>3, <1>4, <1>6, <2>1 DEF Accounted
  <2>3. QED
    BY <1>1, <2>1, <2>2, AccountingKeeps
<1>9. QED
  BY <1>7, <1>8

LEMMA TakeGroupKeeps ==
  ASSUME IInv, TakeGroup
  PROVE  IInv'
<1>1. /\ Arguments /\ UNCHANGED <<arguments, output, source, destination, column>>
      /\ pc = "scalar" /\ chunk = 0
  BY DEF IInv, Arguments, TakeGroup
<1>2. OnLine /\ source \in Nat /\ inputLen \in Nat /\ column \in Nat
  BY <1>1, StreamedParts DEF IInv, OnLine, Arguments
<1>3. source % 4 = 0 /\ column % 4 = 0 /\ (source \div 4) * 3 <= inputLen
  BY <1>1, <1>2 DEF IInv, Accounted
<1>4. inputLen' = inputLen /\ DataLen' = DataLen
  BY <1>1, ArgumentsStay DEF arguments
<1>5. InputLeft \in Nat /\ InputLeft = inputLen - (source \div 4) * 3
  BY <1>2, <1>3 DEF InputLeft
<1>6. CASE InputLeft >= 6
  <2>1. chunk' = 8 /\ pc' = "scalar"
    BY <1>6 DEF TakeGroup
  <2>2. ((source + 8) \div 4) * 3 <= inputLen /\ (source + 8) % 4 = 0
    <3>1. (source + 8) \div 4 = source \div 4 + 2
      BY <1>2
    <3>2. QED
      BY <1>2, <1>3, <1>5, <1>6, <3>1
  <2>3. Accounted'
    BY <1>1, <1>3, <1>4, <2>1, <2>2 DEF Accounted
  <2>4. QED
    BY <1>1, <2>1, <2>3, AccountingKeeps
<1>7. CASE ~(InputLeft >= 6)
  <2>1. /\ pc' = "tail"
        /\ chunk' = IF padded THEN EncodedLen(InputLeft) ELSE UnpaddedEncodedLen(InputLeft)
    BY <1>7 DEF TakeGroup
  <2>2. chunk' \in Nat /\ source + chunk' = DataLen
    BY <1>1, <1>2, <1>3, <1>5, <2>1, RestOfInput
  <2>3. Accounted'
    BY <1>1, <1>3, <1>4, <2>1, <2>2 DEF Accounted
  <2>4. QED
    BY <1>1, <2>1, <2>2, <2>3, AccountingKeeps
<1>8. QED
  BY <1>6, <1>7

LEMMA WriteQuadKeeps ==
  ASSUME IInv, WriteQuad
  PROVE  IInv'
<1> DEFINE n == IF chunk >= 4 THEN 4 ELSE chunk
<1>1. /\ Arguments /\ UNCHANGED arguments /\ pc' = pc /\ chunk > 0
      /\ Put(n) /\ chunk' = chunk - n
  BY DEF IInv, Arguments, WriteQuad
<1>2. pc \in {"blocks", "scalar", "tail"}
  BY <1>1 DEF IInv, Accounted
<1>3. /\ chunk \in Nat /\ source \in Nat /\ width \in Nat /\ width # 0 /\ width % 4 = 0
      /\ column \in 0 .. width /\ inputLen \in Nat
  BY <1>1, <1>2, StreamedParts DEF IInv, OnLine, Arguments
<1>4. source % 4 = 0 /\ column % 4 = 0
  BY <1>1, <1>2 DEF IInv, Accounted
<1>5. n \in 1 .. 4 /\ n <= chunk /\ chunk' \in Nat
  BY <1>1, <1>3
<1>6. source + chunk <= DataLen
  <2>1. CASE pc = "tail"
    BY <2>1, <1>1, Lengths DEF IInv, Accounted
  <2>2. CASE pc # "tail"
    <3>1. chunk % 4 = 0 /\ ((source + chunk) \div 4) * 3 <= inputLen
      BY <1>2, <2>2 DEF IInv, Accounted
    <3>2. (source + chunk) % 4 = 0
      BY <1>3, <1>4, <3>1
    <3>3. QED
      BY <1>1, <1>3, <3>1, <3>2, QuadsOfInput
  <2>3. QED
    BY <2>1, <2>2
<1>7. source + n <= DataLen
  BY <1>1, <1>3, <1>5, <1>6, Lengths
<1>8. n <= (IF LineBreak THEN width ELSE width - column)
  <2>1. width >= 4
    BY <1>3
  <2>2. column # width => column + 4 <= width
    BY <1>3, <1>4
  <2>3. QED
    BY <1>3, <1>5, <2>1, <2>2 DEF LineBreak
<1>9. source' = source + n /\ column' = n + (IF LineBreak THEN 0 ELSE column)
  BY <1>1 DEF Put
<1>10. inputLen' = inputLen /\ DataLen' = DataLen
  BY <1>1, ArgumentsStay DEF arguments
<1>11. source' + chunk' = source + chunk
  BY <1>1, <1>3, <1>5, <1>9
<1>12. n = 4 => source' % 4 = 0 /\ column' % 4 = 0
  BY <1>3, <1>4, <1>9
<1>13. n # 4 => chunk < 4 /\ chunk' = 0
  BY <1>1, <1>3
<1>14. Accounted'
  <2>1. CASE pc = "tail"
    <3>1. source + chunk = DataLen
      BY <2>1 DEF IInv, Accounted
    <3>2. chunk' # 0 => source' % 4 = 0 /\ column' % 4 = 0
      BY <1>12, <1>13
    <3> HIDE DEF n
    <3>3. QED
      BY <1>1, <1>10, <1>11, <2>1, <3>1, <3>2 DEF Accounted
  <2>2. CASE pc # "tail"
    <3>1. chunk % 4 = 0 /\ ((source + chunk) \div 4) * 3 <= inputLen
      BY <1>2, <2>2 DEF IInv, Accounted
    <3>2. n = 4 /\ chunk' % 4 = 0
      BY <1>1, <1>3, <3>1
    <3> HIDE DEF n
    <3>3. QED
      BY <1>1, <1>2, <1>10, <1>11, <1>12, <2>2, <3>1, <3>2 DEF Accounted
  <2>3. QED
    BY <2>1, <2>2
<1> HIDE DEF n
<1>15. QED
  BY <1>1, <1>2, <1>5, <1>7, <1>8, <1>14, PutStepKeeps
----------------------------------------------------------------------------
LEMMA StepKeeps ==
  ASSUME IInv, [Next]_vars
  PROVE  IInv'
<1> SUFFICES ASSUME Step PROVE IInv'
  <2>1. CASE UNCHANGED vars
    BY <2>1 DEF vars, IInv, WritesFit, InPlace, Streamed, Accounted, WrapsText, Placed, Ended,
                LinesFrom, LinesBefore, EndsLine, NewlineAt, EndOf, Place, DataLen, OutputLen
  <2>2. QED
    BY <2>1 DEF Next
<1>1. CASE EncodeUnwrapped
  BY <1>1, EncodeUnwrappedKeeps
<1>2. CASE WrapLine
  <2>1. /\ Arguments /\ UNCHANGED arguments /\ WritesFit /\ output \in Seq(Int)
        /\ pc = "wrapping" /\ pc' = pc /\ source # 0 /\ MoveLine
        /\ chunk = 0 /\ chunk' = chunk
    BY <1>2 DEF WrapLine, IInv, Arguments, Accounted
  <2>2. /\ width # 0 /\ DataLen > width /\ source \in 0 .. DataLen
        /\ destination = EndOf(source) /\ Moved
    BY <2>1, InPlaceParts DEF IInv
  <2>3. /\ WritesFit' /\ output' \in Seq(Int) /\ Moved'
        /\ source' \in 0 .. DataLen /\ destination' = EndOf(source)'
    <3>1. source \in Nat /\ source <= DataLen
      BY <2>1, <2>2, Lengths
    <3>2. QED
      BY <2>1, <2>2, <3>1, MoveLineKeeps
  <2>4. Arguments' /\ width' = width /\ DataLen' = DataLen
    BY <2>1, ArgumentsStay
  <2>5. InPlace'
    BY <2>2, <2>3, <2>4 DEF InPlace, Moved
  <2>6. QED
    BY <2>1, <2>3, <2>4, <2>5 DEF IInv, Arguments, Streamed, Accounted, WrapsText
<1>3. CASE EndWrap
  <2>1. /\ Arguments /\ UNCHANGED <<arguments, output, source, destination, column, chunk>>
        /\ pc = "wrapping" /\ pc' = "done" /\ source = 0 /\ chunk = 0
    BY <1>3 DEF EndWrap, IInv, Arguments, Accounted
  <2>2. Moved
    BY <2>1, InPlaceParts DEF IInv
  <2>3. \A k \in 1 .. DataLen : k \in LinesFrom(0)
    <3>1. ASSUME NEW k \in 1 .. DataLen PROVE k * width >= 0
      <4>1. k * width \in Nat
        BY <2>1, TimesSucc, Lengths DEF Arguments
      <4>2. QED
        BY <4>1
    <3>2. QED
      BY <3>1 DEF LinesFrom
  <2>4. WrapsText'
    <3>1. Placed(1 .. DataLen) /\ Ended(1 .. DataLen)
      BY <2>1, <2>2, <2>3 DEF Moved, Ended
    <3>2. /\ DataLen' = DataLen /\ width' = width
          /\ (\A i : Place(i)' = Place(i)) /\ (\A k : EndsLine(k)' = EndsLine(k))
      BY <2>1, ArgumentsStay
    <3>3. QED
      BY <2>1, <3>1, <3>2 DEF WrapsText, Placed, Ended
  <2>5. Arguments' /\ OutputLen(DataLen)' = OutputLen(DataLen)
    BY <2>1, ArgumentsStay
  <2>6. WritesFit'
    BY <2>1, <2>5 DEF IInv, WritesFit
  <2>7. QED
    BY <2>1, <2>4, <2>5, <2>6 DEF IInv, Arguments, InPlace, Streamed, Accounted
<1>4. CASE BeginDirect
  <2>1. /\ UNCHANGED <<arguments, output, source, destination, column, chunk>>
        /\ pc = "start" /\ Direct /\ pc' = "blocks"
    BY <1>4 DEF BeginDirect
  <2>2. source = 0 /\ chunk = 0 /\ column = 0 /\ inputLen \in Nat
    BY <2>1 DEF IInv
  <2>3. Accounted'
    BY <2>1, <2>2 DEF Accounted, arguments
  <2>4. QED
    BY <2>1, <2>2, <2>3, AccountingKeeps
<1>5. CASE WriteBlock
  BY <1>5, WriteBlockKeeps
<1>6. CASE EndBlocks
  <2>1. /\ UNCHANGED <<arguments, output, source, destination, column, chunk>>
        /\ pc = "blocks" /\ chunk = 0 /\ pc' = "scalar"
    BY <1>6 DEF EndBlocks
  <2>2. Accounted'
    BY <2>1 DEF IInv, Accounted, arguments
  <2>3. QED
    BY <2>1, <2>2, AccountingKeeps
<1>7. CASE TakeGroup
  BY <1>7, TakeGroupKeeps
<1>8. CASE WriteQuad
  BY <1>8, WriteQuadKeeps
<1>9. CASE EndTail
  <2>1. /\ Arguments /\ UNCHANGED <<arguments, output, source, destination, column, chunk>>
        /\ pc = "tail" /\ pc' = "done" /\ chunk = 0
    BY <1>9 DEF EndTail, IInv, Arguments
  <2>2. OnLine /\ source = DataLen
    <3>1. source + chunk = DataLen /\ OnLine
      BY <2>1, StreamedParts DEF IInv, Accounted
    <3>2. QED
      BY <2>1, <3>1 DEF OnLine
  <2>3. /\ Arguments' /\ DataLen' = DataLen /\ width' = width
        /\ OutputLen(DataLen)' = OutputLen(DataLen)
        /\ (\A i : Place(i)' = Place(i)) /\ (\A k : EndsLine(k)' = EndsLine(k))
    BY <2>1, ArgumentsStay
  <2>4. Placed(1 .. DataLen) /\ Ended(1 .. DataLen)
    BY <2>2 DEF OnLine, Kept, Ended, LinesBefore, EndsLine
  <2>5. WrapsText'
    BY <2>1, <2>3, <2>4 DEF WrapsText, Placed, Ended
  <2>6. WritesFit'
    BY <2>1, <2>3 DEF IInv, WritesFit
  <2>7. QED
    BY <2>1, <2>3, <2>5, <2>6 DEF IInv, Arguments, InPlace, Streamed, Accounted
<1>10. QED
  BY <1>1, <1>2, <1>3, <1>4, <1>5, <1>6, <1>7, <1>8, <1>9 DEF Step

(* The two ways keep the inductive invariant of the encode for every input *)
(* length, width, threshold and slack.                                     *)
THEOREM InvariantHolds == Spec => []IInv
BY InitHolds, StepKeeps, PTL DEF Spec

(* wrap_encoded_ptr and WrappedOutput leave the text in lines: every symbol*)
(* at its place, a newline after every full line but the last.             *)
THEOREM TextIsWrapped == Spec => []WrapsText
<1>1. IInv => WrapsText
  BY DEF IInv
<1>2. QED
  BY <1>1, InvariantHolds, PTL

(* Neither writes a cell after the length that output_len reserves.        *)
THEOREM WritesStayInside == Spec => []WritesFit
<1>1. IInv => WritesFit
  BY DEF IInv
<1>2. QED
  BY <1>1, InvariantHolds, PTL

(* wrap_encoded_ptr never overwrites a symbol before it has copied it.     *)
THEOREM SourceStaysIntact == Spec => []SourceIntact
<1>1. IInv => SourceIntact
  BY DEF IInv, InPlace, SourceIntact, EndOf
<1>2. QED
  BY <1>1, InvariantHolds, PTL
=============================================================================
