--------------------------- MODULE MCMurmur3Class --------------------------
(* Blocks of three bytes, so that an update can leave the tail empty,      *)
(* partly filled or exactly filled, and can carry a whole block besides.   *)
EXTENDS Murmur3Class

CONSTANTS a, b

MCByte == {a, b}
MCPayloads == {<<a>>, <<a, a, a, a, a>>}
MCContents == {<<a, a>>, <<b, b>>}
=============================================================================
