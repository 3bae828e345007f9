------------------------------ MODULE Xxh3Batch -----------------------------
(***************************************************************************)
(* XXH3 of one input or of a batch: hash_each_input and the entry points   *)
(* around it (src/src/xxhash/batch.rs, prepared.rs, one_shot.rs), and the  *)
(* kernels for inputs of more than 240 bytes (src/src/xxhash/long_inputs/).*)
(*                                                                         *)
(* Accumulating a stripe adds to the accumulators, so between two scrambles*)
(* they are the bag of the stripes added, each with the window of the      *)
(* secret it was mixed with. A digest is the sequence of these bags with   *)
(* the length and the secret; that of a short input is what its formula    *)
(* reads (Xxh3Short).                                                      *)
(***************************************************************************)
EXTENDS Integers, Sequences, Bags, Xxh3Short

CONSTANTS
  Machines, (* records of an architecture and its CPU features             *)
  Calls     (* records of entry, width, seed and the lengths of the inputs *)

IsMachine(m) == m.arch \in {"x86", "aarch64", "other"}

(* An entry point for single inputs gets one.                              *)
IsCall(c) ==
  /\ c.entry \in {"one", "prepared", "batch", "prepared_batch", "prepared_for_each"}
  /\ c.width \in {64, 128} /\ c.seed \in Nat /\ c.lengths \in Seq(Nat)
  /\ c.entry \in {"one", "prepared"} => Len(c.lengths) = 1

ASSUME Xxh3BatchAssumption ==
  /\ \A m \in Machines : IsMachine(m)
  /\ \A c \in Calls : IsCall(c)

VARIABLES
  machine, call,
  pc,       (* where the call is                                           *)
  index,    (* the next input                                              *)
  digests,  (* the digests given to the output                             *)
  kernel,   (* the kernel that runs                                        *)
  first,    (* the group it hashes: its first input                        *)
  size,     (* and how many there are                                      *)
  block, stripe, (* the turns of its loops                                 *)
  words,    (* the scrambled blocks of each of the group                   *)
  chains    (* and the four chains of its accumulators since then          *)

loop == <<block, stripe, words, chains>>
vars == <<machine, call, pc, index, digests, kernel, first, size, loop>>

inputs == call.lengths
Inputs == DOMAIN inputs
Members == first .. first + size - 1
----------------------------------------------------------------------------
(* LongEngine::new_with_capabilities and select_x86_backend.               *)
Preference == <<"avx512", "avx2", "ssse3", "scalar">>
Supported(backend) == backend = "scalar" \/ backend \in machine.features

Selected ==
  CASE machine.arch = "x86" ->
         Preference[CHOOSE i \in DOMAIN Preference :
                      Supported(Preference[i]) /\ \A j \in 1 .. i - 1 : ~Supported(Preference[j])]
    [] machine.arch = "aarch64" /\ "neon" \in machine.features -> "neon"
    [] OTHER -> "scalar"

HasBatchKernel == machine.arch = "x86" /\ "avx2" \in machine.features

(* LongInput and LongSchedule.                                             *)
IsLong(length) == length > 240
RegularStripes(length) == (length - 1) \div 64
FullBlocks(length) == (length - 1) \div 1024
TailOffset(length) == FullBlocks(length) * 1024
TailStripes(length) == (length - TailOffset(length) - 1) \div 64
LastOffset(length) == length - 64

(* LongRun::new: up to four neighbours with as many stripes as the first.  *)
JoinsAnyLong(k, i) == IsLong(inputs[k]) /\ IsLong(inputs[i])              (* faulty *)
Joins(k, i) == IsLong(inputs[k]) /\ RegularStripes(inputs[k]) = RegularStripes(inputs[i])

RunLength(i) ==
  CHOOSE n \in 1 .. 4 :
    /\ i + n - 1 \in Inputs /\ \A k \in i .. i + n - 1 : Joins(k, i)
    /\ n < 4 /\ i + n \in Inputs => ~Joins(i + n, i)

(* Only single inputs of 128-bit hashes have a kernel of their own, and    *)
(* one-shot hashes only use it with the default secret.                    *)
TriesMediumAlways == call.width = 128 /\ call.entry \in {"one", "prepared", "prepared_batch"}  (* faulty *)
TriesMedium ==
  /\ call.width = 128
  /\ \/ call.entry = "one" /\ call.seed = 0
     \/ call.entry = "prepared"
     \/ call.entry = "prepared_batch" /\ HasBatchKernel

Secret == IF kernel = "medium" /\ call.entry = "one" THEN 0 ELSE call.seed

KernelOf(i, n) ==
  IF n > 1 THEN "batch"
  ELSE IF TriesMedium /\ Selected = "avx2" /\ inputs[i] <= 1024 THEN "medium"
  ELSE Selected

(* Kernels with four chains, and with two.                                 *)
FourChains == kernel = "avx2"
TwoChains == kernel = "medium"
OneChain == ~FourChains /\ ~TwoChains
----------------------------------------------------------------------------
NoLoads == [c \in 0 .. 3 |-> EmptyBag]
Load(k, offset, secret) == [input |-> k, offset |-> offset, secret |-> secret]
Regular(k, base, s) == Load(k, base + s * 64, s * 8)
LastSecret == 121
SecretLength == 192

Init ==
  /\ machine \in Machines /\ call \in Calls
  /\ pc = "next" /\ index = 1 /\ digests = <<>>
  /\ kernel = "none" /\ first = 1 /\ size = 0
  /\ block = 0 /\ stripe = 0 /\ words = <<>> /\ chains = <<>>

Goto(label) == pc' = label

ShortDigest(k) ==
  [input |-> k, length |-> inputs[k], seed |-> call.seed, formula |-> Short(call.width, inputs[k])]

HashShort ==
  /\ pc = "next" /\ index \in Inputs /\ ~IsLong(inputs[index])
  /\ digests' = Append(digests, ShortDigest(index))
  /\ index' = index + 1
  /\ UNCHANGED <<machine, call, pc, kernel, first, size, loop>>

(* hash_input_runs, or one input at a time.                                *)
BeginGroup ==
  /\ pc = "next" /\ index \in Inputs /\ IsLong(inputs[index])
  /\ LET runs == HasBatchKernel /\ call.entry \notin {"one", "prepared"}
         n == IF runs THEN RunLength(index) ELSE 1
     IN  /\ first' = index /\ size' = n /\ kernel' = KernelOf(index, n)
         /\ words' = [m \in index .. index + n - 1 |-> <<>>]
         /\ chains' = [m \in index .. index + n - 1 |-> NoLoads]
  /\ block' = 0 /\ stripe' = 0
  /\ Goto(IF kernel' = "medium" THEN "medium" ELSE "blocks")
  /\ UNCHANGED <<machine, call, index, digests>>

(* The kernel adds one stripe of every input of the group to a chain.      *)
AddTo(acc, c, load) == [acc EXCEPT ![c] = @ (+) SetToBag({load})]
AddGroup(acc, k, base, s) ==
  [c \in 0 .. 3 |-> acc[c] (+) SetToBag({Regular(k, base, s + c)})]
Sum(acc) == acc[0] (+) acc[1] (+) acc[2] (+) acc[3]

(* All loops follow the schedule of the first input.                       *)
Length == inputs[first]
InBlocks == pc = "blocks" /\ block < FullBlocks(Length)

BlockStripe ==
  /\ InBlocks /\ OneChain /\ stripe < 16
  /\ chains' = [m \in Members |-> AddTo(chains[m], 0, Regular(m, block * 1024, stripe))]
  /\ stripe' = stripe + 1
  /\ UNCHANGED <<machine, call, pc, index, digests, kernel, first, size, block, words>>

BlockGroup ==
  /\ InBlocks /\ FourChains /\ stripe < 16
  /\ chains' = [m \in Members |-> AddGroup(chains[m], m, block * 1024, stripe)]
  /\ stripe' = stripe + 4
  /\ UNCHANGED <<machine, call, pc, index, digests, kernel, first, size, block, words>>

(* The batch kernel prefetches each of the group two blocks ahead.         *)
Prefetched ==
  IF kernel = "batch" /\ InBlocks /\ block + 2 <= FullBlocks(Length) THEN (block + 2) * 1024 ELSE 0

Scramble ==
  /\ InBlocks /\ stripe = 16
  /\ words' = [m \in Members |-> Append(words[m], Sum(chains[m]))]
  /\ chains' = [m \in Members |-> NoLoads]
  /\ block' = block + 1 /\ stripe' = 0
  /\ UNCHANGED <<machine, call, pc, index, digests, kernel, first, size>>

EndBlocks ==
  /\ pc = "blocks" /\ block = FullBlocks(Length)
  /\ Goto("tail")
  /\ UNCHANGED <<machine, call, index, digests, kernel, first, size, loop>>

(* The tail, whose last stripe overlaps the one before.                    *)
InTail == pc = "tail"
TailChains == FourChains /\ TailStripes(Length) >= 3
TailStripe ==
  /\ InTail /\ ~TailChains /\ stripe < TailStripes(Length)
  /\ chains' = [m \in Members |-> AddTo(chains[m], 0, Regular(m, TailOffset(Length), stripe))]
  /\ stripe' = stripe + 1
  /\ UNCHANGED <<machine, call, pc, index, digests, kernel, first, size, block, words>>

LastOfFirst(m) == Load(m, LastOffset(Length), LastSecret)                 (* faulty *)
Last(m) == Load(m, LastOffset(inputs[m]), LastSecret)

LastStripe ==
  /\ InTail /\ ~TailChains /\ stripe = TailStripes(Length)
  /\ chains' = [m \in Members |-> AddTo(chains[m], 0, Last(m))]
  /\ Goto("emit")
  /\ UNCHANGED <<machine, call, index, digests, kernel, first, size, block, stripe, words>>

TailGroup ==
  /\ InTail /\ TailChains /\ stripe + 4 <= TailStripes(Length)
  /\ chains' = [m \in Members |-> AddGroup(chains[m], m, TailOffset(Length), stripe)]
  /\ stripe' = stripe + 4
  /\ UNCHANGED <<machine, call, pc, index, digests, kernel, first, size, block, words>>

(* The remaining stripes and the last one go to a chain each.              *)
Remaining == TailStripes(Length) - stripe
TailRestOfTwo(acc, m) ==                                                  (* faulty *)
  [c \in 0 .. 3 |->
     IF c = 3 THEN acc[c] (+) SetToBag({Last(m)})
     ELSE IF c < 2 /\ c < Remaining
          THEN acc[c] (+) SetToBag({Regular(m, TailOffset(Length), stripe + c)})
     ELSE acc[c]]
TailRest(acc, m) ==
  [c \in 0 .. 3 |->
     IF c = 3 THEN acc[c] (+) SetToBag({Last(m)})
     ELSE IF c < Remaining THEN acc[c] (+) SetToBag({Regular(m, TailOffset(Length), stripe + c)})
     ELSE acc[c]]

EndTail ==
  /\ InTail /\ TailChains /\ stripe + 4 > TailStripes(Length)
  /\ chains' = [m \in Members |-> TailRest(chains[m], m)]
  /\ Goto("emit")
  /\ UNCHANGED <<machine, call, index, digests, kernel, first, size, block, stripe, words>>

(* hash_128_medium.                                                        *)
MediumPair ==
  /\ pc = "medium" /\ stripe + 2 <= RegularStripes(Length)
  /\ chains' = [m \in Members |->
                  AddTo(AddTo(chains[m], 0, Regular(m, 0, stripe)), 1, Regular(m, 0, stripe + 1))]
  /\ stripe' = stripe + 2
  /\ UNCHANGED <<machine, call, pc, index, digests, kernel, first, size, block, words>>

EndMedium ==
  /\ pc = "medium" /\ stripe + 2 > RegularStripes(Length)
  /\ LET odd(acc, m) == IF stripe < RegularStripes(Length) THEN AddTo(acc, 0, Regular(m, 0, stripe))
                        ELSE acc
     IN  chains' = [m \in Members |-> AddTo(odd(chains[m], m), 1, Last(m))]
  /\ Goto("emit")
  /\ UNCHANGED <<machine, call, index, digests, kernel, first, size, block, stripe, words>>

(* finalize each of the group, in order.                                   *)
LongDigest(m) ==
  [input |-> m, length |-> inputs[m], secret |-> Secret, words |-> Append(words[m], Sum(chains[m]))]

EmitGroup ==
  /\ pc = "emit"
  /\ digests' = digests \o [i \in 1 .. size |-> LongDigest(first + i - 1)]
  /\ index' = index + size
  /\ Goto("next")
  /\ UNCHANGED <<machine, call, kernel, first, size, loop>>

Return ==
  /\ pc = "next" /\ index \notin Inputs
  /\ Goto("done")
  /\ UNCHANGED <<machine, call, index, digests, kernel, first, size, loop>>

Step ==
  \/ HashShort \/ BeginGroup
  \/ BlockStripe \/ BlockGroup \/ Scramble \/ EndBlocks
  \/ TailStripe \/ LastStripe \/ TailGroup \/ EndTail
  \/ MediumPair \/ EndMedium
  \/ EmitGroup \/ Return

Next == Step \/ (pc = "done" /\ UNCHANGED vars)

Spec == Init /\ [][Next]_vars
----------------------------------------------------------------------------
(* The XXH3 of the specification: of the n regular stripes of an input, 16 *)
(* make a block, mixed with windows 8 bytes apart; the accumulators are    *)
(* scrambled after each whole block, and the last 64 bytes are added.      *)
Stripes(k, from, to) == {Load(k, s * 64, (s % 16) * 8) : s \in from .. to - 1}
Block(k, b) == SetToBag(Stripes(k, b * 16, b * 16 + 16))
Rest(k) ==
  LET n == RegularStripes(inputs[k])
  IN  SetToBag(Stripes(k, n - (n % 16), n)
                 \cup {Load(k, inputs[k] - 64, LastSecret)})
BlocksOf(k, n) == [b \in 1 .. n |-> Block(k, b - 1)]
Reference(k) ==
  IF inputs[k] <= 240
  THEN [input |-> k, length |-> inputs[k], seed |-> call.seed,
        formula |-> ShortReference(call.width, inputs[k])]
  ELSE [input |-> k, length |-> inputs[k], secret |-> call.seed,
        words |-> Append(BlocksOf(k, RegularStripes(inputs[k]) \div 16), Rest(k))]

(* What each kernel asks of the CPU.                                       *)
Needs == [scalar |-> {}, ssse3 |-> {"ssse3"}, avx2 |-> {"avx2"}, avx512 |-> {"avx512"},
          neon |-> {"neon"}, batch |-> {"avx2"}, medium |-> {"avx2"}]

(* How far each loop goes.                                                 *)
InKernel == pc \in {"blocks", "tail", "medium", "emit"}
LoopInv ==
  /\ pc = "blocks" =>
       /\ kernel # "medium" /\ block <= FullBlocks(Length) /\ (FourChains => stripe % 4 = 0)
       /\ block = FullBlocks(Length) => stripe = 0
  /\ pc = "tail" =>
       kernel # "medium" /\ block = FullBlocks(Length) /\ stripe <= TailStripes(Length)
  /\ pc = "medium" => kernel = "medium" /\ block = 0 /\ stripe <= RegularStripes(Length)
  /\ pc = "emit" => block = FullBlocks(Length)

(* The inputs of a group, each with accumulators of its own, have all come *)
(* equally far: the chains add up to the stripes before this one.          *)
AreChains(acc) == DOMAIN acc = 0 .. 3 /\ \A c \in 0 .. 3 : IsABag(acc[c])
Accumulated(m) ==
  IF pc = "emit" THEN Rest(m) ELSE SetToBag(Stripes(m, block * 16, block * 16 + stripe))
AccumulatedInv ==
  /\ words = [m \in Members |-> BlocksOf(m, block)]
  /\ DOMAIN chains = Members
  /\ \A m \in Members : AreChains(chains[m]) /\ Sum(chains[m]) = Accumulated(m)

GroupInv ==
  /\ index = first /\ size \in 1 .. 4 /\ Members \subseteq Inputs
  /\ size > 1 <=> kernel = "batch"
  /\ Needs[kernel] \subseteq machine.features /\ Secret = call.seed
  /\ kernel = "medium" => Length <= 1024
  /\ \A m \in Members : IsLong(inputs[m]) /\ RegularStripes(inputs[m]) = RegularStripes(Length)

(* What every state satisfies: the digests given are the first ones, and a *)
(* group in a kernel is of long inputs of equally many stripes, which the  *)
(* kernel may take, each accumulated as far as the loops have come.        *)
IInv ==
  /\ IsMachine(machine) /\ IsCall(call)
  /\ pc \in {"next", "blocks", "tail", "medium", "emit", "done"}
  /\ index \in 1 .. Len(inputs) + 1 /\ digests = [k \in 1 .. index - 1 |-> Reference(k)]
  /\ pc = "done" => index = Len(inputs) + 1
  /\ kernel \in DOMAIN Needs \cup {"none"} /\ block \in Nat /\ stripe \in 0 .. 16
  /\ InKernel => kernel # "none" /\ LoopInv /\ AccumulatedInv /\ GroupInv

(* Whatever kernel the machine and the neighbours choose, the digests are  *)
(* those of the specification, with the seed of the call, in the order of  *)
(* the inputs, and a call that returns has given all of them               *)
(* (batch.rs, "The result order matches the input order").                 *)
DigestsAreReference ==
  /\ \A k \in DOMAIN digests : digests[k] = Reference(k)
  /\ pc = "done" => DOMAIN digests = Inputs

(* The contracts of the unsafe kernels: the CPU has what the kernel needs, *)
(* every load stays inside its own input and inside the secret, and the    *)
(* batch kernel prefetches no further than an input goes                   *)
(* ("All inputs must have the same stripe count", avx2_batch.rs).          *)
LoadsInside(acc) ==
  \A c \in 0 .. 3 : \A l \in DOMAIN acc[c] :
    /\ l.offset >= 0 /\ l.offset + 64 <= inputs[l.input]
    /\ l.secret >= 0 /\ l.secret + 64 <= SecretLength
KernelsStaySafe ==
  InKernel =>
    /\ Needs[kernel] \subseteq machine.features
    /\ \A m \in Members : LoadsInside(chains[m]) /\ Prefetched <= inputs[m]

(* Every byte of a short input is read by its formula, and none outside    *)
(* the input or the secret, whose pointers the formulas do not check       *)
(* ("must each cover 16 readable bytes", short_inputs.rs).                 *)
ShortInputsCovered ==
  \A k \in DOMAIN digests :
    ~IsLong(inputs[k]) =>
      /\ BytesRead(digests[k].formula) = 0 .. inputs[k] - 1
      /\ SecretRead(digests[k].formula) \subseteq 0 .. SecretLength - 1
=============================================================================
