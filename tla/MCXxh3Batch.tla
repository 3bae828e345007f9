---------------------------- MODULE MCXxh3Batch ----------------------------
(* Machines of each kind, and calls around every boundary of the schedule. *)
EXTENDS Xxh3Batch, FiniteSets

X86(features) == [arch |-> "x86", features |-> features]
MCMachines ==
  {X86({}), X86({"ssse3"}), X86({"ssse3", "avx2"}), X86({"ssse3", "avx2", "avx512"}),
   X86({"avx512"}), [arch |-> "aarch64", features |-> {"neon"}],
   [arch |-> "aarch64", features |-> {}], [arch |-> "other", features |-> {}]}

Call(entry, width, seed, lengths) ==
  [entry |-> entry, width |-> width, seed |-> seed, lengths |-> lengths]

(* Short and long; a stripe more or less; whole blocks and one byte more.  *)
Boundaries ==
  {240, 241, 256, 257, 320, 321, 449, 512, 513, 1024, 1025, 1088, 1089, 1216, 1217,
   1280, 1281, 1345, 2048, 2049}
Singles ==
  {Call(e, w, s, <<n>>) : e \in {"one", "prepared"}, w \in {64, 128}, s \in {0, 1}, n \in Boundaries}

(* 241 and 256 have equally many stripes, 2049 and 2112 too.               *)
Kinds == {100, 241, 256, 2049, 2112}
Mixes == UNION {[1 .. n -> Kinds] : n \in 0 .. 3}
           \cup {<<a, b, c, d>> : a \in Kinds, b \in {241, 256}, c \in Kinds, d \in Kinds}
           \cup [1 .. 5 -> {241, 256}]
Batches ==
  {Call("batch", 64, 1, l) : l \in Mixes}
    \cup {Call("prepared_batch", 128, 0, l) : l \in Mixes}
    \cup {Call("prepared_for_each", 128, 1, l) : l \in [1 .. 2 -> Kinds]}

(* Every short length, in every formula.                                   *)
Shorts == {Call("one", w, 0, <<n>>) : w \in {64, 128}, n \in 0 .. 240}

MCCalls == Singles \cup Batches \cup Shorts
=============================================================================
