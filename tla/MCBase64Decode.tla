--------------------------- MODULE MCBase64Decode --------------------------
(* Machines that select every backend, or just miss one, and inputs around *)
(* the boundaries of the groups of every kernel.                           *)
EXTENDS Base64Decode

Avx512 == {"avx512f", "avx512bw", "avx512vbmi"}
MCMachines ==
  {{}, {"neon"}, {"ssse3"}, {"ssse3", "sse4.1"}, {"sse4.1", "avx2"}, {"ssse3", "avx2"},
   {"ssse3", "avx2"} \cup Avx512, {"ssse3", "avx2"} \cup (Avx512 \ {"avx512bw"}),
   {"ssse3", "sse4.1"} \cup Avx512}

(* Two checks of a NEON chunk need more than this many symbols.            *)
MCErrorInterval == 128

(* The first and the last symbol, and both sides of some boundaries.       *)
BadAt(n) == {{p} : p \in {0, 15, 16, 47, 64, 127, 128, 200, n - 1} \cap 0 .. n - 1}
Bads(n) == {{}} \cup BadAt(n) \cup (IF n > 150 THEN {{20, n - 1}} ELSE {})

Call(e, n, p, b, room) ==
  [entry |-> e, length |-> n, padding |-> p, bad |-> b, provided |-> room, mixed |-> FALSE]

Padded == {0, 4, 12, 16, 20, 36, 64, 68, 84, 128, 148, 164, 212, 276}
PaddedCalls ==
  UNION {{Call(e, n, p, b, 300) : e \in {"vec", "into", "blocks"}, b \in Bads(n - p)} :
         n \in Padded \ {0}, p \in {0, 1, 2}}
RoomCalls ==
  {Call("into", n, p, {}, ((n \div 4) * 3) - p - less) : n \in {4, 16, 64}, p \in 0 .. 2, less \in {0, 1}}
OddCalls == {Call(e, n, 0, {}, 0) : e \in {"vec", "into", "unpadded"}, n \in {0, 1, 5, 17, 66}}

Unpadded == {2, 3, 7, 16, 22, 35, 66, 83, 131, 150, 212, 279}
UnpaddedCalls ==
  UNION {{Call(e, n, 0, b, 0) : e \in {"unpadded", "unpadded_blocks"}, b \in Bads(n)} : n \in Unpadded}
    \cup {Call("validated", n, 0, {}, 0) : n \in Unpadded}

Any == {0, 5, 16, 33, 51, 64, 80, 127, 130, 149, 195, 277}
OtherCalls ==
  UNION {{Call(e, n, 0, b, 0) : e \in {"prefix", "validate"}, b \in Bads(n)} : n \in Any}

MixedCalls ==
  {[Call("vec", n, 1, b, 0) EXCEPT !.mixed = TRUE] : n \in {64, 148, 276}, b \in {{}, {20}}}

MCCalls == MixedCalls \cup PaddedCalls \cup RoomCalls \cup OddCalls \cup UnpaddedCalls \cup OtherCalls
=============================================================================
