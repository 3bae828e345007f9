--------------------------- MODULE Base64Backend ---------------------------
(* The choice of a Base64 kernel from the features of the CPU              *)
(* (src/src/base64/backend.rs), the same for encoding and decoding.        *)
EXTENDS Integers

Required == [avx512 |-> {"avx512f", "avx512bw", "avx512vbmi", "avx2", "ssse3"},
             avx2 |-> {"avx2", "ssse3"}, sse41 |-> {"sse4.1", "ssse3"}, ssse3 |-> {"ssse3"},
             neon |-> {"neon"}, scalar |-> {}]
Preference == <<"avx512", "avx2", "sse41", "ssse3", "neon", "scalar">>

SelectBackend(features) ==
  Preference[CHOOSE i \in 1 .. 6 :
    /\ Required[Preference[i]] \subseteq features
    /\ \A j \in 1 .. i - 1 : ~(Required[Preference[j]] \subseteq features)]
=============================================================================
