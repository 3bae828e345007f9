---------------------------- MODULE Base64Encode ---------------------------
(***************************************************************************)
(* The core encoder: its entry points and scalar loops                     *)
(* (src/src/base64/encode/api.rs), the choice of a kernel                  *)
(* (src/src/base64/backend.rs, runtime_dispatch.rs, encode/cache.rs) and   *)
(* what each kernel loads and stores (src/src/base64/encode/).             *)
(*                                                                         *)
(* The bytes of the input and the symbols of the text are their numbers. A *)
(* cell of the output holds the symbol stored in it, or that it is as the  *)
(* caller left it (Old), or "=" (Pad). A call that wraps lines hands the   *)
(* same symbols to a WrappedOutput, which WrappedEncoding models: here the *)
(* output of such a call is its text without newlines.                     *)
(***************************************************************************)
EXTENDS Base64Backend, Sequences

CONSTANTS
  Machines,  (* target, CPU features and the cache leaves of cpuid         *)
  Calls,     (* entry, length, alphabet, padded, output room               *)
  Addresses  (* the output's address modulo 32                             *)

Entries == {"string", "into", "slice", "cached", "wrapped"}
Alphabets == {"builtin", "standard prefix", "other"}

ASSUME Base64EncodeAssumption ==
  /\ Addresses \subseteq 0 .. 31
  /\ \A c \in Calls :
       /\ c.entry \in Entries /\ c.alphabet \in Alphabets
       /\ c.length \in Nat /\ c.provided \in Nat /\ c.padded \in BOOLEAN
       /\ c.entry \in {"string", "into"} => c.alphabet = "builtin"
       /\ c.entry # "wrapped" => c.padded
  /\ \A m \in Machines :
       /\ m.target \in {"x86", "x86_64", "aarch64"}
       /\ "neon" \in m.features => m.target = "aarch64"
       /\ m.target = "aarch64" => m.features \subseteq {"neon"}
       /\ \A cache \in m.leaf4 \cup m.leaf1d : cache.bytes \in Nat

VARIABLES
  machine, call, address,
  pc,
  kernel,    (* the kernel that runs                                       *)
  phase,     (* which of its loops                                         *)
  groups,    (* groups of 96 bytes left to AVX2's helper                   *)
  source,    (* the next byte to encode                                    *)
  destination,
  loaded,    (* the bytes of the last load                                 *)
  pending,   (* streaming stores that no other core can see yet            *)
  output, result

choice == <<machine, call, address>>
offsets == <<source, destination>>
vars == <<choice, pc, kernel, phase, groups, offsets, loaded, pending, output, result>>

Old == -1
Pad == -2
None == -1
----------------------------------------------------------------------------
(* encoded_len, and the length of the wrapped text without its padding.    *)
OutputLen ==
  IF call.padded THEN ((call.length + 2) \div 3) * 4 ELSE ((call.length * 4) + 2) \div 3

Margin == 64 (* cells after the output, to see stores that leave it        *)
Cells == 0 .. (OutputLen + Margin)

(* The private cache: the largest data cache of a core in the first leaf   *)
(* that has one.                                                           *)
PrivateCaches(leaf) == {cache.bytes : cache \in {c \in leaf : c.level <= 2 /\ c.kind # "instruction"}}
PrivateCache ==
  LET sizes == IF PrivateCaches(machine.leaf4) # {} THEN PrivateCaches(machine.leaf4)
               ELSE PrivateCaches(machine.leaf1d)
  IN  IF sizes = {} THEN None ELSE CHOOSE s \in sizes : \A t \in sizes : t <= s
CachedInputLimit ==
  IF machine.target # "x86_64" \/ PrivateCache = None THEN None ELSE (PrivateCache \div 7) * 3

(* Stores bypass the cache when the caller allows it, input and output do  *)
(* not fit the private cache and the output is aligned.                    *)
UseStreamingStores ==
  /\ call.entry \in {"string", "into", "slice"}
  /\ CachedInputLimit # None /\ call.length > CachedInputLimit
  /\ address % 16 = 0

Backend == SelectBackend(machine.features)

(* Wide kernels leave short inputs to narrow ones.                         *)
KernelFor ==
  IF call.length < 16 \/ call.alphabet = "other" THEN "scalar"
  ELSE IF Backend \in {"avx512", "avx2"} /\ call.length < 32 THEN "ssse3"
  ELSE IF Backend = "avx512" /\ call.length < 48 THEN "avx2"
  ELSE IF Backend = "sse41" THEN "ssse3"
  ELSE Backend

(* A loop of a kernel runs while `reach` bytes follow the start of its     *)
(* first load, which is `behind` bytes before the source: so many loads of *)
(* `load` bytes, each `step` bytes after the other and encoding `step`.    *)
Loop(reach, lanes, step, load, behind) ==
  [reach |-> reach, lanes |-> lanes, step |-> step, load |-> load, behind |-> behind, again |-> TRUE]
Once(reach, lanes, step, load, behind) ==
  [Loop(reach, lanes, step, load, behind) EXCEPT !.again = FALSE]

HasHelper == kernel = "avx2" /\ machine.target = "x86_64" /\ call.entry # "wrapped"
Ssse3Loops == <<Loop(52, 4, 12, 16, 0), Loop(16, 1, 12, 16, 0)>>
Group96 == Loop(104, 4, 24, 32, 4)
Avx2Loops == <<Once(32, 1, 24, 32, 0), Group96, Loop(32, 1, 24, 32, 4), Once(16, 1, 12, 16, 0)>>
Avx512Loops == <<Loop(192, 4, 48, 48, 0), Loop(48, 1, 48, 48, 0)>>
NeonLoops == <<Loop(192, 4, 48, 48, 0), Loop(48, 1, 48, 48, 0), Once(24, 1, 24, 24, 0)>>

Phases ==
  CASE kernel = "ssse3" -> Ssse3Loops
    [] kernel = "avx2" -> Avx2Loops
    [] kernel = "avx512" -> Avx512Loops
    [] kernel = "neon" -> NeonLoops
    [] OTHER -> <<>>
Running == pc = "kernel" /\ phase \in DOMAIN Phases
Turn == Phases[phase]
Helped == HasHelper /\ phase = 2
----------------------------------------------------------------------------
Init ==
  /\ machine \in Machines /\ call \in Calls /\ address \in Addresses
  /\ pc = "begin" /\ kernel = "scalar" /\ phase = 1 /\ groups = 0
  /\ source = 0 /\ destination = 0 /\ loaded = <<0, 0>>
  /\ pending = {}
  /\ output = [c \in Cells |-> Old] /\ result = "none"

(* The symbols of so many bytes from the source, at the destination.       *)
Stored(bytes) ==
  [c \in Cells |-> IF destination <= c /\ c < destination + (bytes \div 3) * 4
                   THEN (source \div 3) * 4 + (c - destination)
                   ELSE output[c]]
Advance(bytes) ==
  /\ source' = source + bytes
  /\ destination' = destination + (bytes \div 3) * 4
LoadTurn(turn, from) == loaded' = <<from, from + ((turn.lanes - 1) * turn.step + turn.load)>>

(* b64encode_into refuses an output that is too small.                     *)
Refuse ==
  /\ pc = "begin" /\ call.entry = "into" /\ call.provided < OutputLen
  /\ pc' = "done" /\ result' = "too small"
  /\ UNCHANGED <<choice, kernel, phase, groups, offsets, loaded, pending, output>>

Begin ==
  /\ pc = "begin" /\ (call.entry = "into" => call.provided >= OutputLen)
  /\ kernel' = KernelFor
  /\ pc' = IF KernelFor = "scalar" THEN "scalar" ELSE "kernel"
  /\ UNCHANGED <<choice, phase, groups, offsets, loaded, pending, output, result>>

(* One turn of a loop.                                                     *)
Encode ==
  /\ Running /\ ~Helped
  /\ source - Turn.behind + Turn.reach <= call.length
  /\ LoadTurn(Turn, source - Turn.behind)
  /\ output' = Stored(Turn.lanes * Turn.step)
  /\ Advance(Turn.lanes * Turn.step)
  /\ phase' = IF Turn.again THEN phase ELSE phase + 1
  /\ UNCHANGED <<choice, pc, kernel, groups, pending, result>>

EndLoop ==
  /\ Running /\ ~Helped
  /\ source - Turn.behind + Turn.reach > call.length
  /\ phase' = phase + 1
  /\ UNCHANGED <<choice, pc, kernel, groups, offsets, loaded, pending, output, result>>

(* On x86-64, a helper encodes two or more groups of 96 bytes. First twelve *)
(* bytes are encoded alone if that aligns the output for streaming stores. *)
GroupsFrom(next) == (call.length - (next - Group96.behind) - 8) \div 96
Misaligned == address = 16

SkipGroups ==
  /\ Running /\ Helped /\ GroupsFrom(source) < 2
  /\ phase' = phase + 1
  /\ UNCHANGED <<choice, pc, kernel, groups, offsets, loaded, pending, output, result>>

OpenGroupsKeepingCount ==                                                 (* faulty *)
  /\ Running /\ Helped /\ GroupsFrom(source) >= 2
  /\ IF Misaligned
     THEN /\ loaded' = <<source, source + 16>>
          /\ output' = Stored(12) /\ Advance(12)
     ELSE UNCHANGED <<offsets, loaded, output>>
  /\ groups' = GroupsFrom(source)
  /\ pc' = "groups"
  /\ UNCHANGED <<choice, kernel, phase, pending, result>>

OpenGroups ==
  /\ Running /\ Helped /\ GroupsFrom(source) >= 2
  /\ IF Misaligned
     THEN /\ loaded' = <<source, source + 16>>
          /\ output' = Stored(12) /\ Advance(12)
     ELSE UNCHANGED <<offsets, loaded, output>>
  /\ groups' = GroupsFrom(source')
  /\ pc' = "groups"
  /\ UNCHANGED <<choice, kernel, phase, pending, result>>

NextGroup ==
  /\ LoadTurn(Group96, source - Group96.behind)
  /\ Advance(96)
  /\ groups' = groups - 1
  /\ IF groups' = 0 THEN pc' = "kernel" /\ phase' = phase + 1 ELSE UNCHANGED <<pc, phase>>
  /\ UNCHANGED <<choice, kernel, result>>

StoreGroup ==
  /\ pc = "groups" /\ ~UseStreamingStores
  /\ output' = Stored(96)
  /\ NextGroup
  /\ UNCHANGED pending

StreamGroup ==
  /\ pc = "groups" /\ UseStreamingStores
  /\ pending' = pending \cup {[at |-> destination, symbol |-> (source \div 3) * 4]}
  /\ NextGroup
  /\ UNCHANGED output

(* Streaming stores reach memory in any order, at any time.                *)
Drain(store) ==
  /\ pending' = pending \ {store}
  /\ output' = [c \in Cells |-> IF store.at <= c /\ c < store.at + 128
                                THEN store.symbol + (c - store.at) ELSE output[c]]
  /\ UNCHANGED <<choice, pc, kernel, phase, groups, offsets, loaded, result>>

(* AVX-512 ends with a masked vector of the complete groups left.          *)
AfterLoops == pc = "kernel" /\ ~(phase \in DOMAIN Phases)
CompleteAndMore == IF kernel = "avx512" THEN call.length - source ELSE 0  (* faulty *)
Complete == IF kernel = "avx512" THEN ((call.length - source) \div 3) * 3 ELSE 0

MaskedTail ==
  /\ AfterLoops /\ Complete # 0
  /\ loaded' = <<source, source + Complete>>
  /\ output' = Stored(Complete)
  /\ Advance(Complete)
  /\ pc' = "scalar"
  /\ UNCHANGED <<choice, kernel, phase, groups, pending, result>>

(* A kernel that streamed waits until all its stores are visible.          *)
EndKernelUnfenced ==                                                      (* faulty *)
  /\ AfterLoops /\ Complete = 0
  /\ pc' = "scalar"
  /\ UNCHANGED <<choice, kernel, phase, groups, offsets, loaded, pending, output, result>>

EndKernel ==
  /\ AfterLoops /\ Complete = 0
  /\ pending = {}
  /\ pc' = "scalar"
  /\ UNCHANGED <<choice, kernel, phase, groups, offsets, loaded, pending, output, result>>
----------------------------------------------------------------------------
(* The scalar loops: six bytes, then three, then the last one or two with  *)
(* their padding, which a wrapped text may leave out.                      *)
Left == call.length - source
ScalarWidth == IF Left >= 6 THEN 6 ELSE 3

Scalar ==
  /\ pc = "scalar" /\ Left >= 3
  /\ loaded' = <<source, source + ScalarWidth>>
  /\ output' = Stored(ScalarWidth)
  /\ Advance(ScalarWidth)
  /\ UNCHANGED <<choice, pc, kernel, phase, groups, pending, result>>

TailCell(c) ==
  IF c < destination \/ c >= destination + 4 THEN output[c]
  ELSE IF c <= destination + Left THEN (source \div 3) * 4 + (c - destination)
  ELSE IF call.padded THEN Pad ELSE output[c]

Finish ==
  /\ pc = "scalar" /\ Left < 3
  /\ loaded' = <<source, call.length>>
  /\ output' = IF Left = 0 THEN output ELSE [c \in Cells |-> TailCell(c)]
  /\ pc' = "done" /\ result' = "ok"
  /\ UNCHANGED <<choice, kernel, phase, groups, offsets, pending>>

Step ==
  \/ Refuse \/ Begin
  \/ Encode \/ EndLoop \/ SkipGroups \/ OpenGroups \/ StoreGroup \/ StreamGroup
  \/ MaskedTail \/ EndKernel \/ Scalar \/ Finish

Next ==
  \/ Step
  \/ \E store \in pending : Drain(store)
  \/ pc = "done" /\ UNCHANGED vars

Spec == Init /\ [][Next]_vars
----------------------------------------------------------------------------
(* What every step keeps. Types and offsets: both offsets are at the start *)
(* of the same group of three bytes.                                       *)
TypeInv ==
  /\ machine \in Machines /\ call \in Calls /\ address \in Addresses
  /\ pc \in {"begin", "kernel", "groups", "scalar", "done"}
  /\ kernel \in {"scalar", "ssse3", "avx2", "avx512", "neon"}
  /\ result \in {"none", "ok", "too small"}
  /\ phase \in 1 .. 5 /\ groups \in Nat /\ source \in 0 .. call.length
  /\ source % 3 = 0 /\ destination = (source \div 3) * 4
  /\ pending \subseteq [at : Nat, symbol : Nat]
  /\ pc # "done" => result = "none"

(* Pending stores are of the text before the destination, aligned and      *)
(* apart, and none is left when the kernel has returned.                   *)
StoresInv ==
  /\ \A store \in pending :
       /\ store.at = store.symbol /\ store.at + 128 <= destination
       /\ (address + store.at) % 32 = 0
  /\ \A s, t \in pending : s = t \/ s.at + 128 <= t.at \/ t.at + 128 <= s.at
  /\ pending # {} => kernel = "avx2" /\ pc \in {"groups", "kernel"}

(* What is in the output: before the destination exactly the text of the   *)
(* bytes before the source, but for the streaming stores still pending;    *)
(* after it nothing was written.                                           *)
Covered(c) == \E store \in pending : store.at <= c /\ c < store.at + 128

TextInv ==
  pc # "done" => output = [c \in Cells |-> IF c < destination /\ ~Covered(c) THEN c ELSE Old]

(* Where the loops of a kernel are: AVX2 has encoded its first vector      *)
(* before it loads bytes behind the source, a helper has input for all its *)
(* groups, and AVX-512 leaves less than a vector.                          *)
LoopInv ==
  /\ pc = "begin" => source = 0 /\ phase = 1
  /\ pc \in {"kernel", "groups"} => kernel = KernelFor /\ kernel # "scalar"
  /\ kernel \in {"scalar", KernelFor}
  /\ pc = "kernel" /\ kernel = "avx2" /\ phase = 1 => source = 0
  /\ pc = "kernel" /\ kernel = "avx2" /\ phase > 1 => source >= 24
  /\ pc = "kernel" /\ HasHelper /\ phase = 2 => source = 24
  /\ pc = "groups" =>
       /\ HasHelper /\ phase = 2 /\ groups > 0 /\ source >= 24
       /\ source + 4 + groups * 96 <= call.length
       /\ UseStreamingStores => (address + destination) % 32 = 0
  /\ pc = "kernel" /\ kernel = "avx512" /\ phase > 2 => call.length - source < 48

IInv == TypeInv /\ StoresInv /\ TextInv /\ LoopInv

(* Whatever the machine, the alphabet and the entry point, a finished call *)
(* leaves the text of the input and nothing else, visible to whoever the   *)
(* output is handed to; a call that is refused leaves the output alone     *)
(* ("does not change bytes after this prefix", "returns OutputTooSmall     *)
(* before it writes", api.rs).                                             *)
SymbolCount == ((call.length * 4) + 2) \div 3
TextAt(c) == IF c < SymbolCount THEN c ELSE IF c < OutputLen THEN Pad ELSE Old

TextIsReference ==
  /\ result = "ok" => \A c \in Cells : output[c] = TextAt(c)
  /\ result = "too small" => \A c \in Cells : output[c] = Old

(* The contracts of the unsafe kernels, at every step: the CPU has what    *)
(* the kernel needs, no load begins before or ends after the input, no     *)
(* store leaves the encoded length, streaming stores are aligned, the      *)
(* helper gets at least one group, and the shifts of a mask stay below 64  *)
(* ("require a positive group count, ... and groups * 128 writable output  *)
(* bytes. The streaming variant additionally requires 32-byte-aligned      *)
(* output", avx2.rs).                                                      *)
FootprintsFit ==
  /\ Required[kernel] \subseteq machine.features
  /\ 0 <= loaded[1] /\ loaded[1] <= loaded[2] /\ loaded[2] <= call.length
  /\ destination <= OutputLen
  /\ \A store \in pending : (address + store.at) % 32 = 0
  /\ pc = "groups" => groups > 0
  /\ AfterLoops => Complete < 64 /\ (Complete \div 3) * 4 < 64
=============================================================================
