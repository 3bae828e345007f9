---------------------------- MODULE Base64Decode ---------------------------
(***************************************************************************)
(* The core decoder: its entry points and scalar loops                     *)
(* (src/src/base64/decode/api.rs), the choice of a kernel                  *)
(* (src/src/base64/backend.rs, runtime_dispatch.rs) and what each kernel   *)
(* loads, checks and stores (src/src/base64/decode/).                      *)
(*                                                                         *)
(* The three alphabets differ in their tables, and one of them never uses  *)
(* padded stores: a symbol is valid in the alphabet of the call, or it is  *)
(* bad. A cell of the output holds the                                     *)
(* number of the decoded byte stored in it, or that it is as the caller    *)
(* left it (Old), or that it has bits of a bad symbol, or of the padding   *)
(* of a vector store (Junk).                                               *)
(***************************************************************************)
EXTENDS Base64Backend, FiniteSets

CONSTANTS
  Machines,      (* sets of CPU features                                    *)
  Calls,         (* entry, length, padding, bad positions, room, alphabet  *)
  ErrorInterval  (* DECODE_ERROR_CHECK_INTERVAL, 4096 in the code           *)

PaddedEntries == {"vec", "into", "blocks"}
UnpaddedEntries == {"unpadded", "unpadded_blocks", "validated"}
Entries == PaddedEntries \cup UnpaddedEntries \cup {"prefix", "validate"}

ASSUME Base64DecodeAssumption ==
  /\ ErrorInterval \in Nat \ {0} /\ ErrorInterval % 64 = 0
  /\ \A c \in Calls :
       /\ c.entry \in Entries /\ c.length \in Nat /\ c.provided \in Nat
       /\ c.mixed \in BOOLEAN
       /\ c.padding \in 0 .. 2 /\ c.padding <= c.length
       /\ c.bad \subseteq 0 .. c.length - c.padding - 1
       /\ c.padding # 0 => c.entry \in PaddedEntries /\ c.length % 4 = 0
       /\ c.entry = "validated" => c.bad = {} /\ c.length % 4 # 1

VARIABLES
  machine, call,
  wide,         (* the output starts in the middle of a cache line         *)
  pc,
  kernel,       (* the kernel that runs                                    *)
  loop,         (* which of its loops                                      *)
  chunkEnd, errors, (* NEON's chunk, and whether it met a bad symbol       *)
  source, destination,
  loaded,       (* where the last load ends                                *)
  output, result

chunk == <<chunkEnd, errors>>
offsets == <<source, destination>>
choice == <<machine, call, wide>>
vars == <<choice, pc, kernel, loop, chunk, offsets, loaded, output, result>>

Old == -1
Junk == -2
Minimum(a, b) == IF a <= b THEN a ELSE b
----------------------------------------------------------------------------
(* decode_layout and decode_unpadded_layout.                               *)
LayoutFails ==
  \/ call.entry \in PaddedEntries /\ call.length % 4 # 0
  \/ call.entry \in UnpaddedEntries /\ call.length % 4 = 1

Tail == IF call.entry \in UnpaddedEntries THEN call.length % 4 ELSE 0
OutputLen ==
  ((call.length \div 4) * 3) - call.padding + (IF Tail = 0 THEN 0 ELSE Tail - 1)

(* What the vector kernels are given.                                      *)
SimdLen ==
  CASE call.entry \in PaddedEntries -> IF call.padding = 0 THEN call.length ELSE call.length - 4
    [] call.entry \in UnpaddedEntries -> (call.length \div 4) * 4
    [] OTHER -> call.length

(* b64decode_with_alphabet allocates room for the padding of a store; all  *)
(* other callers pass exact storage, and the alphabet that mixes both sets *)
(* of symbols is always stored exactly.                                    *)
StorePadding == 4
HasStoreSlack == call.entry = "vec" /\ SimdLen >= 16
PaddedStores == HasStoreSlack /\ ~call.mixed
Writable ==
  CASE call.entry = "vec" -> IF HasStoreSlack THEN OutputLen + StorePadding ELSE OutputLen
    [] call.entry = "prefix" -> (call.length \div 4) * 3
    [] call.entry = "validate" -> 0
    [] OTHER -> OutputLen

ValidatedBlocksOnly == call.entry \in {"blocks", "unpadded_blocks"}
Checks == call.entry # "validated"

Margin == 32 (* cells after the output, to see stores that leave it         *)
Cells == 0 .. (Writable + Margin)
----------------------------------------------------------------------------
Backend == SelectBackend(machine)

(* AVX-512 leaves short inputs to AVX2.                                    *)
KernelFor == IF Backend = "avx512" /\ SimdLen < 64 THEN "avx2" ELSE Backend

(* The loops of a kernel: the symbols of a turn, and of each vector in it. *)
Sse == kernel \in {"sse41", "ssse3"}
Loops ==
  CASE Sse -> <<[size |-> 64, lane |-> 16], [size |-> 16, lane |-> 16]>>
    [] kernel = "avx2" -> <<[size |-> 128, lane |-> 32], [size |-> 32, lane |-> 32],
                            [size |-> 16, lane |-> 16]>>
    [] kernel = "avx512" /\ call.entry = "validate" -> <<[size |-> 64, lane |-> 64]>>
    [] kernel = "avx512" /\ call.entry # "validate" ->
         <<[size |-> 128, lane |-> 64], [size |-> 64, lane |-> 64]>>
    [] kernel = "neon" /\ call.entry = "validate" -> <<[size |-> 16, lane |-> 16]>>
    [] OTHER -> <<[size |-> 64, lane |-> 64], [size |-> 16, lane |-> 16]>>
Runs == loop \in DOMAIN Loops
Size == Loops[loop].size
Lane == Loops[loop].lane

(* How far a store goes past its bytes: within a group it may, because the *)
(* next store replaces them; the last one only with PaddedStore.           *)
InnerPad == IF Sse THEN 4 ELSE IF kernel = "avx2" THEN (IF wide THEN 8 ELSE 4) ELSE 0
LastPadAlways == IF Sse \/ kernel = "avx2" THEN 4 ELSE 0                   (* faulty *)
LastPad == IF PaddedStores /\ (Sse \/ kernel = "avx2") THEN 4 ELSE 0

(* NEON looks at the errors of a whole chunk at once, unless the caller    *)
(* only wants validated blocks.                                            *)
DefersAlways ==                                                           (* faulty *)
  kernel = "neon" /\ loop = 1 /\ Checks
Defers ==
  /\ kernel = "neon" /\ loop = 1 /\ Checks
  /\ ~ValidatedBlocksOnly
----------------------------------------------------------------------------
Bad(from, to) == \E p \in call.bad : from <= p /\ p < to
FirstBad == CHOOSE p \in call.bad : \A q \in call.bad : p <= q

(* What decoding puts in the cell of byte number b.                        *)
ByteOf(b) == IF Bad((b \div 3) * 4, (b \div 3) * 4 + 4) THEN Junk ELSE b
ByteAt(c) == ByteOf((source \div 4) * 3 + c - destination)

(* One store of so many bytes at the destination.                          *)
Store(bytes) ==
  [c \in Cells |-> IF destination <= c /\ c < destination + bytes THEN ByteAt(c) ELSE output[c]]

(* The stores of a group in their order: of those that cover a cell, the   *)
(* last one counts.                                                        *)
StoreGroup(size, lane) ==
  LET bytes == (lane \div 4) * 3
      lanes == 0 .. (size \div lane) - 1
      pad(j) == IF j = (size \div lane) - 1 THEN LastPad ELSE InnerPad
      covering(c) == {j \in lanes : /\ destination + j * bytes <= c
                                    /\ c < destination + (j + 1) * bytes + pad(j)}
      last(c) == CHOOSE j \in covering(c) : \A k \in covering(c) : k <= j
  IN  [c \in Cells |->
         IF c < destination \/ covering(c) = {} THEN output[c]
         ELSE IF c < destination + (last(c) + 1) * bytes THEN ByteAt(c)
         ELSE Junk]

Init ==
  /\ machine \in Machines /\ call \in Calls
  /\ wide \in BOOLEAN /\ (wide => "avx2" \in machine)
  /\ pc = "begin" /\ kernel = "scalar" /\ loop = 1
  /\ chunkEnd = 0 /\ errors = FALSE
  /\ source = 0 /\ destination = 0 /\ loaded = 0
  /\ output = [c \in Cells |-> Old] /\ result = "none"

Return(r) == pc' = "done" /\ result' = r
Advance(symbols) ==
  /\ source' = source + symbols
  /\ destination' = destination + (symbols \div 4) * 3
Load(end) == loaded' = end
----------------------------------------------------------------------------
Refuse ==
  /\ pc = "begin"
  /\ \/ LayoutFails /\ Return("invalid")
     \/ ~LayoutFails /\ call.entry = "into" /\ call.provided < OutputLen /\ Return("too small")
     \/ ~LayoutFails /\ call.entry = "vec" /\ OutputLen = 0 /\ Return("ok")
     \/ call.entry = "prefix" /\ Backend \in {"scalar", "neon"} /\ Return("unavailable")
  /\ UNCHANGED <<choice, kernel, loop, chunk, offsets, loaded, output>>

Begin ==
  /\ pc = "begin" /\ ~LayoutFails
  /\ call.entry = "into" => call.provided >= OutputLen
  /\ call.entry = "vec" => OutputLen # 0
  /\ call.entry = "prefix" => Backend \notin {"scalar", "neon"}
  /\ IF (SimdLen >= 16 \/ call.entry = "prefix") /\ Backend # "scalar"
     THEN pc' = "kernel" /\ kernel' = KernelFor
     ELSE pc' = "scalar" /\ UNCHANGED kernel
  /\ UNCHANGED <<choice, loop, chunk, offsets, loaded, output, result>>

(* A group of blocks: load all of it, check it, then store it.             *)
Group ==
  /\ pc = "kernel" /\ Runs /\ ~Defers /\ source + Size <= SimdLen
  /\ Checks => ~Bad(source, source + Size)
  /\ Load(source + Size)
  /\ output' = IF call.entry = "validate" THEN output ELSE StoreGroup(Size, Lane)
  /\ Advance(Size)
  /\ loop' = IF kernel = "avx2" /\ loop = 3 THEN 4 ELSE loop
  /\ UNCHANGED <<choice, pc, kernel, chunk, result>>

(* A bad one fails the call; decode_prefix tries smaller blocks.           *)
BadGroup ==
  /\ pc = "kernel" /\ Runs /\ ~Defers /\ source + Size <= SimdLen
  /\ Checks /\ Bad(source, source + Size)
  /\ Load(source + Size)
  /\ IF call.entry = "prefix" THEN loop' = loop + 1 /\ UNCHANGED <<pc, result>>
     ELSE Return("invalid") /\ UNCHANGED loop
  /\ UNCHANGED <<choice, kernel, chunk, offsets, output>>

EndLoop ==
  /\ pc = "kernel" /\ Runs /\ source + Size > SimdLen
  /\ Defers => source = chunkEnd /\ ~errors
  /\ loop' = loop + 1
  /\ UNCHANGED <<choice, pc, kernel, chunk, offsets, loaded, output, result>>

OpenChunk ==
  /\ pc = "kernel" /\ Runs /\ Defers /\ source = chunkEnd /\ ~errors
  /\ source + Size <= SimdLen
  /\ chunkEnd' = source + Minimum(ErrorInterval, ((SimdLen - source) \div Size) * Size)
  /\ UNCHANGED <<choice, pc, kernel, loop, errors, offsets, loaded, output, result>>

ChunkGroup ==
  /\ pc = "kernel" /\ Runs /\ Defers /\ source < chunkEnd
  /\ errors' = (errors \/ Bad(source, source + Size))
  /\ Load(source + Size)
  /\ output' = IF call.entry = "validate" THEN output ELSE StoreGroup(Size, Lane)
  /\ Advance(Size)
  /\ UNCHANGED <<choice, pc, kernel, loop, chunkEnd, result>>

BadChunk ==
  /\ pc = "kernel" /\ Runs /\ Defers /\ source = chunkEnd /\ errors
  /\ Return("invalid")
  /\ UNCHANGED <<choice, kernel, loop, chunk, offsets, loaded, output>>

(* AVX-512 ends with a masked vector: decode with the complete quads left, *)
(* validate with all that is left, decode_prefix with the quads before the *)
(* first bad symbol of at most one vector.                                 *)
Left == SimdLen - source
Masked ==
  CASE call.entry = "validate" -> Left
    [] call.entry = "prefix" -> (Minimum(Left, 64) \div 4) * 4
    [] OTHER -> (Left \div 4) * 4
AfterLoops == pc = "kernel" /\ ~Runs
WholeValid == Masked                                                      (* faulty *)
ValidMasked ==
  IF Checks /\ Bad(source, source + Masked) THEN ((FirstBad - source) \div 4) * 4 ELSE Masked

MaskedTail ==
  /\ AfterLoops /\ kernel = "avx512" /\ Masked # 0
  /\ Checks /\ call.entry # "prefix" => ~Bad(source, source + Masked)
  /\ Load(source + Masked)
  /\ output' = IF call.entry = "validate" THEN output ELSE Store((ValidMasked \div 4) * 3)
  /\ Advance(ValidMasked)
  /\ pc' = "scalar"
  /\ UNCHANGED <<choice, kernel, loop, chunk, result>>

BadMaskedTail ==
  /\ AfterLoops /\ kernel = "avx512" /\ Masked # 0
  /\ Checks /\ call.entry # "prefix" /\ Bad(source, source + Masked)
  /\ Load(source + Masked) /\ Return("invalid")
  /\ UNCHANGED <<choice, kernel, loop, chunk, offsets, output>>

EndKernel ==
  /\ AfterLoops /\ (kernel = "avx512" => Masked = 0)
  /\ pc' = "scalar"
  /\ UNCHANGED <<choice, kernel, loop, chunk, offsets, loaded, output, result>>
----------------------------------------------------------------------------
(* The scalar loops: eight symbols, then four.                             *)
Decodes == call.entry \notin {"prefix", "validate"}
ScalarWidthEight == 8                                                     (* faulty *)
ScalarWidth == IF source + 8 <= SimdLen THEN 8 ELSE 4

Scalar ==
  /\ pc = "scalar" /\ Decodes /\ source < SimdLen
  /\ Checks => ~Bad(source, source + ScalarWidth)
  /\ Load(source + ScalarWidth)
  /\ output' = Store((ScalarWidth \div 4) * 3)
  /\ Advance(ScalarWidth)
  /\ UNCHANGED <<choice, pc, kernel, loop, chunk, result>>

BadScalar ==
  /\ pc = "scalar" /\ Decodes /\ source < SimdLen
  /\ Checks /\ Bad(source, source + ScalarWidth)
  /\ Load(source + ScalarWidth) /\ Return("invalid")
  /\ UNCHANGED <<choice, kernel, loop, chunk, offsets, output>>

(* The padded quad, or the two or three symbols of an unpadded tail.       *)
LastSymbols == IF call.padding # 0 THEN 4 - call.padding ELSE Tail
LastBytes == IF LastSymbols = 0 THEN 0 ELSE LastSymbols - 1
Last(b) == destination <= b /\ b < destination + LastBytes

Finish ==
  /\ pc = "scalar" /\ Decodes /\ source = SimdLen
  /\ IF Checks /\ Bad(source, source + LastSymbols)
     THEN Return("invalid") /\ UNCHANGED output
     ELSE Return("ok") /\ output' = [c \in Cells |-> IF Last(c) THEN c ELSE output[c]]
  /\ Load(call.length)
  /\ UNCHANGED <<choice, kernel, loop, chunk, offsets>>

(* validate_alphabet looks at what is left; a prefix is what was decoded.  *)
FinishOther ==
  /\ pc = "scalar" /\ ~Decodes
  /\ IF call.entry = "validate"
     THEN /\ Return(IF Bad(source, call.length) THEN "invalid" ELSE "ok") /\ Load(call.length)
     ELSE Return("ok") /\ UNCHANGED loaded
  /\ UNCHANGED <<choice, kernel, loop, chunk, offsets, output>>

Step ==
  \/ Refuse \/ Begin
  \/ Group \/ BadGroup \/ EndLoop \/ OpenChunk \/ ChunkGroup \/ BadChunk
  \/ MaskedTail \/ BadMaskedTail \/ EndKernel
  \/ Scalar \/ BadScalar \/ Finish \/ FinishOther

Next == Step \/ (pc = "done" /\ UNCHANGED vars)

Spec == Init /\ [][Next]_vars
----------------------------------------------------------------------------
(* Types, and what every step keeps: the two offsets agree; before the     *)
(* destination is exactly what decoding the symbols before the source      *)
(* gives, all of them good unless a NEON chunk is not checked yet; after   *)
(* it nothing was written but the padding of a padded store.               *)
WrittenBefore(c) == output[c] = ByteOf(c)
PaddingAfter(c) == output[c] = Junk /\ PaddedStores /\ c < destination + StorePadding

IInv ==
  /\ pc \in {"begin", "kernel", "scalar", "done"} /\ kernel \in DOMAIN Required
  /\ loop \in 1 .. 4 /\ errors \in BOOLEAN /\ chunkEnd \in 0 .. SimdLen
  /\ source \in 0 .. SimdLen /\ destination = (source \div 4) * 3
  /\ errors => Defers
  /\ Checks => (errors <=> Bad(0, source))
  /\ pc # "done" /\ call.entry # "validate" =>
       \A c \in Cells :
         IF c < destination THEN WrittenBefore(c) ELSE output[c] = Old \/ PaddingAfter(c)

(* Whichever kernel runs, a decode accepts exactly the inputs that have a  *)
(* valid length and no bad symbol, and then every byte of the result was   *)
(* written with what its symbols decode to; validate_alphabet accepts the  *)
(* same symbols; decode_prefix ends in the block of the first bad symbol   *)
(* ("Decode complete SIMD blocks until the first block containing a        *)
(* non-alphabet byte", runtime_dispatch.rs) and has written all before.    *)
Decoded(end) == \A c \in 0 .. end - 1 : output[c] = c
GoodLength == IF call.bad = {} THEN call.length ELSE FirstBad
PrefixIsReference ==
  /\ source <= GoodLength /\ source >= (GoodLength \div 16) * 16
  /\ Decoded((source \div 4) * 3)

ResultIsReference ==
  pc = "done" /\ result \notin {"too small", "unavailable"} =>
    IF call.entry = "prefix" THEN PrefixIsReference
    ELSE /\ result = IF LayoutFails \/ call.bad # {} THEN "invalid" ELSE "ok"
         /\ result = "ok" /\ Decodes => Decoded(OutputLen)

(* The contracts of the unsafe kernels: the CPU has what the kernel and    *)
(* the one it leaves its tail to need ("These kernels delegate their tails *)
(* to lower-tier implementations", backend.rs), no load passes the end of  *)
(* the input, no store the room of the caller, whether the call succeeds   *)
(* or not, and the shift of a mask is less than its width.                 *)
FootprintsFit ==
  /\ Required[kernel] \subseteq machine
  /\ loaded <= call.length
  /\ \A c \in Cells : output[c] # Old => c < Writable
  /\ AfterLoops /\ kernel = "avx512" => Masked <= (IF call.entry = "prefix" THEN 64 ELSE 63)

(* A caller that goes on after a failure relies on what was written        *)
(* ("writes only complete, validated SIMD blocks. A lenient caller can use *)
(* its fallback without changing the suffix", api.rs): every cell that     *)
(* changed holds the byte that the good symbols at its place decode to.    *)
ValidatedPrefixOnly ==
  ValidatedBlocksOnly \/ call.entry = "prefix" => \A c \in Cells : output[c] \in {Old, c}
=============================================================================
