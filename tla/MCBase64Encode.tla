--------------------------- MODULE MCBase64Encode --------------------------
(* Machines that select every backend, or just miss one, with and without  *)
(* a cache small enough to stream, and lengths around the boundaries of    *)
(* every loop.                                                             *)
EXTENDS Base64Encode

Avx512 == {"avx512f", "avx512bw", "avx512vbmi"}
Cache(level, kind, bytes) == [level |-> level, kind |-> kind, bytes |-> bytes]
Large == {Cache(1, "data", 7000), Cache(2, "unified", 70000)}
Small == {Cache(1, "data", 140), Cache(1, "instruction", 7000), Cache(3, "unified", 70000)}
Machine(target, features, leaf4, leaf1d) ==
  [target |-> target, features |-> features, leaf4 |-> leaf4, leaf1d |-> leaf1d]

MCMachines ==
  {Machine("aarch64", {"neon"}, {}, {}), Machine("aarch64", {}, {}, {}),
   Machine("x86", {"ssse3", "avx2"}, Small, {}), Machine("x86", {"sse4.1", "ssse3"}, {}, {}),
   Machine("x86_64", {"ssse3"}, Small, {}), Machine("x86_64", {"sse4.1", "avx2"}, Small, {}),
   Machine("x86_64", {"ssse3", "avx2"}, Large, Small),
   Machine("x86_64", {"ssse3", "avx2"}, Small, Large),
   Machine("x86_64", {"ssse3", "avx2"}, {}, Small), Machine("x86_64", {"ssse3", "avx2"}, {}, {}),
   Machine("x86_64", {"ssse3", "avx2"} \cup Avx512, Small, {}),
   Machine("x86_64", {"ssse3", "avx2"} \cup (Avx512 \ {"avx512f"}), Small, {})}

MCAddresses == {0, 16, 8}

Lengths ==
  {0, 1, 2, 3, 5, 6, 11, 14, 15, 16, 17, 23, 24, 27, 28, 31, 32, 33, 39, 40, 41, 47, 48, 49, 50, 51, 52,
   53, 55, 56, 63, 64, 67, 68, 95, 96, 103, 104, 123, 124, 127, 128, 191, 192, 193, 214, 219, 220, 221,
   231, 232, 233, 239, 240, 241, 287, 315, 316, 317, 327, 328, 335, 384, 385, 411, 412}

Call(entry, n, alphabet, padded, room) ==
  [entry |-> entry, length |-> n, alphabet |-> alphabet, padded |-> padded, provided |-> room]

Some == {15, 16, 31, 32, 47, 48, 62, 127, 220, 316, 411}

MCCalls ==
  {Call(e, n, "builtin", TRUE, 0) : e \in {"string", "wrapped"}, n \in Lengths}
    \cup {Call("into", n, "builtin", TRUE, room) : n \in {1, 16, 48}, room \in {0, 3, 4, 23, 24, 63, 64}}
    \cup {Call(e, n, a, TRUE, 0) : e \in {"slice", "cached"}, n \in Some, a \in Alphabets}
    \cup {Call("wrapped", n, a, FALSE, 0) : n \in Some, a \in Alphabets}
=============================================================================
