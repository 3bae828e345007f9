------------------------- MODULE MCWrappedEncoding -------------------------
(* Texts of up to 56 symbols in lines of 4 to 20, and without lines.       *)
EXTENDS WrappedEncoding

MCWrapcols == 0 .. 21
=============================================================================
