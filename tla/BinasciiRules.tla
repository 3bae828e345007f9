--------------------------- MODULE BinasciiRules ---------------------------
(***************************************************************************)
(* What CPython's binascii.a2b_base64 makes of a text, from the text as a  *)
(* whole: the rules that src/src/bindings/base64 follows and falls back    *)
(* to. A text is a sequence of bytes, of which some are symbols; '=' may   *)
(* be one of them after a translation.                                     *)
(***************************************************************************)
EXTENDS Integers, Sequences, FiniteSets, SequencesExt

Where(text, from, to, bytes) == {p \in from + 1 .. to : text[p] \in bytes}
Symbols(text, symbols, end) == Where(text, 0, end, symbols)
LastSymbol(text, symbols, end) == Max({0} \cup Symbols(text, symbols, end))
PadsSince(text, symbols, end) ==
  Where(text, LastSymbol(text, symbols, end), end, {"="} \ symbols)

(* A decode that is not strict discards what is no symbol. With padding,   *)
(* older versions end at the '=' that completes a quad.                    *)
EndsAt(text, symbols, end) ==
  LET open == Cardinality(Symbols(text, symbols, end)) % 4
  IN  /\ open \in {2, 3} /\ text[end] \in {"="} \ symbols
      /\ Cardinality(PadsSince(text, symbols, end)) >= 4 - open
Ends(text, symbols, padded, continue) ==
  IF ~padded \/ continue THEN {} ELSE {e \in DOMAIN text : EndsAt(text, symbols, e)}

Kept(text, symbols, padded, continue) ==
  LET ends == Ends(text, symbols, padded, continue)
  IN  Symbols(text, symbols, IF ends = {} THEN Len(text) ELSE Min(ends))

LenientFails(text, symbols, padded, continue) ==
  LET missing == (4 - (Cardinality(Symbols(text, symbols, Len(text))) % 4)) % 4
  IN  /\ Ends(text, symbols, padded, continue) = {}
      /\ \/ missing = 3
         \/ padded /\ Cardinality(PadsSince(text, symbols, Len(text))) < missing

(* A strict decode takes symbols in quads, the last one with padding, or   *)
(* without padding whatever number can end a text.                         *)
StrictFails(text, symbols, padded) ==
  LET data == IF padded THEN Len(text) - Cardinality(PadsSince(text, symbols, Len(text)))
              ELSE Len(text)
  IN  ~(/\ \A p \in 1 .. data : text[p] \in symbols
        /\ data % 4 # 1
        /\ padded => Len(text) % 4 = 0 /\ Len(text) - data <= 2)

(* The bytes that symbols at these positions decode to: each has bits of   *)
(* two consecutive symbols.                                                *)
DecodedLen(positions) == (Cardinality(positions) * 6) \div 8
DecodedBytes(text, positions) ==
  LET s == SelectSeq([p \in DOMAIN text |-> p], LAMBDA p : p \in positions)
      first(b) == 4 * ((b - 1) \div 3) + ((b - 1) % 3) + 1
  IN  [b \in 1 .. DecodedLen(positions) |-> <<s[first(b)], s[first(b) + 1]>>]
=============================================================================
