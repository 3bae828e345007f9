--------------------------- MODULE LenientDecode ---------------------------
(***************************************************************************)
(* Lenient decoding (src/src/bindings/base64/lenient.rs): the scanner that *)
(* discards what is no symbol, its three ways to decode symbols, and the   *)
(* two ways to give it room, a destination of the caller that is measured  *)
(* first when it may be too small, and an allocation for the whole input.  *)
(*                                                                         *)
(* A byte of the input is a symbol of the standard alphabet, a '=', or     *)
(* something to discard.  A decoded byte is made of the bits of two        *)
(* consecutive symbols: a cell of the output holds their positions.        *)
(***************************************************************************)
EXTENDS BinasciiRules

CONSTANTS
  Calls,           (* entry, input, alphabet, padded, continue, kernel, room *)
  Block,           (* symbols of the smallest SIMD block, 16 in the code     *)
  InlineLimit,     (* inputs whose capacity is not tightened, 256            *)
  DetachThreshold  (* BASE64_DETACH_THRESHOLD                                *)

ASSUME LenientDecodeAssumption ==
  /\ Block \in Nat \ {0} /\ Block % 4 = 0
  /\ InlineLimit \in Nat /\ DetachThreshold \in Nat
  /\ \A c \in Calls :
       /\ c.entry \in {"into", "allocate"} /\ c.input \in Seq({"symbol", "=", "noise"})
       /\ c.alphabet \in {"fast", "custom", "alias"}
       /\ c.padded \in BOOLEAN /\ c.continue \in BOOLEAN /\ c.kernel \in BOOLEAN
       /\ c.provided \in Nat

VARIABLES
  call,
  pc,
  provided,             (* the room there is                              *)
  source, written,
  quadPos, leftchar,    (* the symbols of the open quad, and the last one *)
  pads,
  output, result

quad == <<quadPos, leftchar>>
vars == <<call, pc, provided, source, written, quad, pads, output, result>>

Old == <<0, 0>>
----------------------------------------------------------------------------
(* An alphabet with '=' among its alternative characters makes it data.    *)
input == call.input
Alphabet == IF call.alphabet = "alias" THEN {"symbol", "="} ELSE {"symbol"}
IsSymbol(byte) == byte \in Alphabet
IsPad(byte) == call.padded /\ byte = "=" /\ ~IsSymbol(byte)

SymbolsIn(from, to) == {p \in from + 1 .. to : IsSymbol(input[p])}
PadsIn(from, to) == {p \in from + 1 .. to : IsPad(input[p])}

(* symbol_prefix: how many symbols follow.                                 *)
SymbolPrefix(from, to) ==
  LET others == {p \in from + 1 .. to : ~IsSymbol(input[p])}
  IN  IF others = {} THEN to - from ELSE Min(others) - 1 - from

DecodedSymbolLen(symbols) ==
  (symbols \div 4) * 3 + (IF symbols % 4 \in {2, 3} THEN (symbols % 4) - 1 ELSE 0)

(* decoded_len_upper_bound.                                                *)
TrailingPadding(bytes) ==
  IF IsSymbol("=") THEN 0
  ELSE Cardinality({k \in 1 .. 2 : k <= Len(bytes) /\ \A j \in 0 .. k - 1 : bytes[Len(bytes) - j] = "="})
UpperBoundOfQuads(bytes) == ((Len(bytes) - TrailingPadding(bytes)) \div 4) * 3    (* faulty *)
UpperBound(bytes) == DecodedSymbolLen(Len(bytes) - TrailingPadding(bytes))

(* BytesWriter::capacity_for_input.                                        *)
CapacityForInput(bytes) ==
  IF Len(bytes) <= InlineLimit THEN ((Len(bytes) + 3) \div 4) * 3 ELSE UpperBound(bytes)

(* What ends an older scan, and what is missing at the end of any scan.    *)
StopsAfterPads(quadSymbols, padCount) == quadSymbols + padCount >= 4             (* faulty *)
Stops(quadSymbols, padCount) == quadSymbols >= 2 /\ quadSymbols + padCount >= 4
Incomplete(quadSymbols, padCount) ==
  \/ quadSymbols = 1
  \/ call.padded /\ quadSymbols # 0 /\ quadSymbols + padCount < 4
----------------------------------------------------------------------------
(* lenient_decoded_len: a count and the padding at the end, or for scans   *)
(* that stop, a loop over the input.                                       *)
Invalid == -1

TrailingPads == Cardinality(PadsIn(Max({0} \cup SymbolsIn(0, Len(input))), Len(input)))

CountAll ==
  LET symbols == Cardinality(SymbolsIn(0, Len(input)))
      padCount == IF symbols % 4 # 0 THEN TrailingPads ELSE 0
  IN  IF Incomplete(symbols % 4, padCount) THEN Invalid ELSE DecodedSymbolLen(symbols)

CountByte(count, byte) ==
  IF count.stopped THEN count
  ELSE IF IsSymbol(byte) THEN [count EXCEPT !.symbols = @ + 1, !.pads = 0]
  ELSE IF IsPad(byte)
       THEN [count EXCEPT !.pads = @ + 1, !.stopped = Stops(count.symbols % 4, count.pads + 1)]
       ELSE count

CountUntilStop ==
  LET count == FoldLeft(CountByte, [symbols |-> 0, pads |-> 0, stopped |-> FALSE], input)
  IN  IF ~count.stopped /\ Incomplete(count.symbols % 4, count.pads)
      THEN Invalid ELSE DecodedSymbolLen(count.symbols)

LenientDecodedLen == IF call.continue THEN CountAll ELSE CountUntilStop
----------------------------------------------------------------------------
(* Cells past every room, to see stores that leave it.                     *)
Cells == 0 .. Len(input)

Init ==
  /\ call \in Calls
  /\ pc = "begin" /\ provided = 0 /\ source = 0 /\ written = 0
  /\ quadPos = 0 /\ leftchar = 0 /\ pads = 0
  /\ output = [c \in Cells |-> Old] /\ result = "none"

Return(r) == pc' = "done" /\ result' = r

(* decode_lenient_slice_into: measure unless any input of this length has  *)
(* room.  A write that still found too little would report invalid input.  *)
Measures == call.provided < UpperBound(input)

RejectInto ==
  /\ pc = "begin" /\ call.entry = "into" /\ Measures
  /\ \/ LenientDecodedLen = Invalid /\ Return("invalid")
     \/ call.provided < LenientDecodedLen /\ Return("too small")
  /\ UNCHANGED <<call, provided, source, written, quad, pads, output>>

BeginInto ==
  /\ pc = "begin" /\ call.entry = "into"
  /\ Measures => LenientDecodedLen # Invalid /\ LenientDecodedLen <= call.provided
  /\ pc' = "turn" /\ provided' = call.provided
  /\ UNCHANGED <<call, source, written, quad, pads, output, result>>

(* try_decode_lenient: skip what a long input begins with, and reserve for *)
(* all that is left.                                                       *)
Leading ==
  LET symbols == SymbolsIn(0, Len(input))
  IN  IF Len(input) < DetachThreshold THEN 0
      ELSE IF symbols = {} THEN Len(input) ELSE Min(symbols) - 1

BeginAllocating ==
  /\ pc = "begin" /\ call.entry = "allocate"
  /\ pc' = "turn" /\ source' = Leading
  /\ provided' = CapacityForInput(SubSeq(input, Leading + 1, Len(input)))
  /\ UNCHANGED <<call, written, quad, pads, output, result>>
----------------------------------------------------------------------------
(* decode_lenient_to_ptr.  Between quads it first discards.                *)
Turn ==
  /\ pc = "turn" /\ source < Len(input)
  /\ IF quadPos = 0
     THEN LET symbols == SymbolsIn(source, Len(input))
              next == IF symbols = {} THEN Len(input) ELSE Min(symbols) - 1
          IN  /\ source' = next
              /\ pads' = pads + Cardinality(PadsIn(source, next))
              /\ pc' = IF next = Len(input) THEN "end" ELSE "blocks"
     ELSE pc' = "byte" /\ UNCHANGED <<source, pads>>
  /\ UNCHANGED <<call, provided, written, quad, output, result>>

(* The bytes of so many symbols at the source, whole quads.                *)
WriteQuads(symbols) ==
  [c \in Cells |->
     LET b == c - written
         first == source + 4 * (b \div 3) + (b % 3) + 1
     IN  IF 0 <= b /\ b < (symbols \div 4) * 3 THEN <<first, first + 1>> ELSE output[c]]
Decode(symbols) ==
  /\ output' = WriteQuads(symbols)
  /\ source' = source + symbols /\ written' = written + (symbols \div 4) * 3

(* The kernel decodes valid blocks of a prefix that its room can hold; how *)
(* near to the first byte that is no symbol it comes is up to the kernel.  *)
HasPrefixKernel == call.alphabet = "fast" /\ call.kernel
InputCapacity == ((provided - written) \div ((Block \div 4) * 3)) * Block
Candidate == Min({Len(input) - source, InputCapacity})

ConsumedByKernel(n) ==
  LET good == SymbolPrefix(source, source + Candidate)
  IN  n % 4 = 0 /\ (good \div Block) * Block <= n /\ n <= good

DecodePrefix ==
  /\ pc = "blocks" /\ HasPrefixKernel
  /\ \E n \in 0 .. Candidate :
       /\ ConsumedByKernel(n)
       /\ Decode(n)
       /\ pads' = IF n # 0 THEN 0 ELSE pads
  /\ pc' = "quads"
  /\ UNCHANGED <<call, provided, quad, result>>

(* Without it, a long run of symbols is decoded at once.                   *)
UnalignedRun == SymbolPrefix(source, Len(input))                          (* faulty *)
Run == (SymbolPrefix(source, Len(input)) \div 4) * 4

DecodeRun ==
  /\ pc = "blocks" /\ ~HasPrefixKernel /\ Run >= Block
  /\ IF provided - written < (Run \div 4) * 3
     THEN Return("too small inside") /\ UNCHANGED <<source, written, output, pads>>
     ELSE Decode(Run) /\ pads' = 0 /\ pc' = "turn" /\ UNCHANGED result
  /\ UNCHANGED <<call, provided, quad>>

ShortRun ==
  /\ pc = "blocks" /\ ~HasPrefixKernel /\ Run < Block
  /\ pc' = "quads"
  /\ UNCHANGED <<call, provided, source, written, quad, pads, output, result>>

(* Quads one by one, up to one with a byte to discard.                     *)
QuadFollows == source + 4 <= Len(input) /\ SymbolPrefix(source, source + 4) = 4

DecodeQuad ==
  /\ pc = "quads" /\ QuadFollows
  /\ IF provided - written < 3
     THEN Return("too small inside") /\ UNCHANGED <<source, written, output>>
     ELSE Decode(4) /\ UNCHANGED <<pc, result>>
  /\ UNCHANGED <<call, provided, quad, pads>>

EndQuads ==
  /\ pc = "quads" /\ ~QuadFollows
  /\ pc' = IF source = Len(input) THEN "end" ELSE "byte"
  /\ UNCHANGED <<call, provided, source, written, quad, pads, output, result>>
----------------------------------------------------------------------------
(* One byte: padding, something to discard, or a symbol of the open quad.  *)
Byte == input[source + 1]

TakePad ==
  /\ pc = "byte" /\ IsPad(Byte)
  /\ source' = source + 1 /\ pads' = pads + 1
  /\ IF ~call.continue /\ Stops(quadPos, pads + 1)
     THEN Return("ok")
     ELSE pc' = "turn" /\ UNCHANGED result
  /\ UNCHANGED <<call, provided, written, quad, output>>

Discard ==
  /\ pc = "byte" /\ ~IsPad(Byte) /\ ~IsSymbol(Byte)
  /\ source' = source + 1 /\ pc' = "turn"
  /\ UNCHANGED <<call, provided, written, quad, pads, output, result>>

TakeSymbol ==
  /\ pc = "byte" /\ IsSymbol(Byte)
  /\ source' = source + 1 /\ pads' = 0
  /\ IF quadPos # 0 /\ written = provided
     THEN Return("too small inside") /\ UNCHANGED <<written, output, quad>>
     ELSE /\ IF quadPos = 0
             THEN UNCHANGED <<written, output>>
             ELSE /\ output' = [output EXCEPT ![written] = <<leftchar, source + 1>>]
                  /\ written' = written + 1
          /\ quadPos' = (quadPos + 1) % 4
          /\ leftchar' = IF quadPos = 3 THEN 0 ELSE source + 1
          /\ pc' = "turn" /\ UNCHANGED result
  /\ UNCHANGED <<call, provided>>

Finish ==
  /\ pc = "end" \/ (pc = "turn" /\ source = Len(input))
  /\ Return(IF Incomplete(quadPos, pads) THEN "invalid" ELSE "ok")
  /\ UNCHANGED <<call, provided, source, written, quad, pads, output>>

Step ==
  \/ RejectInto \/ BeginInto \/ BeginAllocating
  \/ Turn \/ DecodePrefix \/ DecodeRun \/ ShortRun \/ DecodeQuad \/ EndQuads
  \/ TakePad \/ Discard \/ TakeSymbol \/ Finish

Next == Step \/ (pc = "done" /\ UNCHANGED vars)

Spec == Init /\ [][Next]_vars
----------------------------------------------------------------------------
(* Types, and what every step keeps: the bytes written are those of the    *)
(* symbols read, whichever way each was decoded, nothing after them or     *)
(* outside the room was touched, and an open quad has counted exactly the  *)
(* padding since its last symbol.                                          *)
Seen == SymbolsIn(0, source)

IInv ==
  /\ pc \in {"begin", "turn", "blocks", "quads", "byte", "end", "done"}
  /\ source \in 0 .. Len(input) /\ written \in 0 .. provided
  /\ result # "too small inside" =>
       /\ quadPos = Cardinality(Seen) % 4
       /\ written = DecodedLen(Seen)
       /\ quadPos # 0 =>
            /\ leftchar = Max(Seen)
            /\ call.padded => pads = Cardinality(PadsSince(input, Alphabet, source))
  /\ \A c \in Cells :
       output[c] = IF c < written THEN DecodedBytes(input, Seen)[c + 1] ELSE Old

(* Every call ends as CPython's non-strict decoder does ("Decode with      *)
(* CPython's non-strict padding and invalid-character semantics",          *)
(* lenient.rs): the same inputs fail, and the same bytes are the result,   *)
(* whatever the padding, the alphabet, the kernels and the room; it is too *)
(* small exactly when the result does not fit, and an allocation never is. *)
Reference == Kept(input, Alphabet, call.padded, call.continue)

ResultIsReference ==
  pc = "done" =>
    IF LenientFails(input, Alphabet, call.padded, call.continue) THEN result = "invalid"
    ELSE IF call.entry = "into" /\ call.provided < DecodedLen(Reference) THEN result = "too small"
    ELSE /\ result = "ok" /\ written = DecodedLen(Reference)
         /\ \A b \in 1 .. written : output[b - 1] = DecodedBytes(input, Reference)[b]

(* "Decode lenient input without partially writing an undersized           *)
(* destination" (lenient.rs): a destination that cannot hold what all the  *)
(* symbols decode to changes only if the call succeeds.                    *)
UndersizedUntouched ==
  /\ pc = "done" /\ result # "ok" /\ call.entry = "into"
  /\ call.provided < DecodedLen(SymbolsIn(0, Len(input)))
  => \A c \in Cells : output[c] = Old
=============================================================================
