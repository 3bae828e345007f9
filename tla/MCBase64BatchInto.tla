-------------------------- MODULE MCBase64BatchInto ------------------------
(* Batches of up to two items, and single inputs through every entry point *)
(* and kind of argument, over two destinations, d and e, and a third       *)
(* bytearray, with views, exporters and str subclasses that export parts   *)
(* or all of their memory. Bytearrays of two cells fill a block.           *)
EXTENDS Base64BatchInto

CONSTANTS x, d, e, a, dTail, eView, dStrided, eExporter, aExporter, dText, hookText, exact, long, text, other

MCData == exact :> <<x>> @@ long :> <<x, x, x>> @@ text :> <<x, Legacy>>
MCBase == dTail :> d @@ eView :> e @@ dStrided :> d @@ eExporter :> e @@ aExporter :> a @@ dText :> d @@ hookText :> d
MCOffset == dTail :> 1 @@ eView :> 0 @@ dStrided :> 0
MCSize == dTail :> 1 @@ eView :> 2 @@ dStrided :> 1
MCBatches(arguments, destinations) ==
  [entry : {"batch"}, custom : {FALSE}, translates : {FALSE},
   decoding : BOOLEAN, items : arguments, outputs : destinations]
MCSingles(entries, ofDecoding, ofCustom, ofTranslates) ==
  [entry : entries, custom : ofCustom, translates : ofTranslates,
   decoding : ofDecoding, items : TupleOf(Objects, 1), outputs : {<<d>>, <<e>>}]
MCCalls ==
  MCBatches(TupleOf(Objects, 2), {<<d, e>>, <<e, d>>})
  \union MCBatches({<<exact, d>>}, {<<d, d>>, <<d>>, <<d, other>>, <<d, a>>})
  \union MCBatches({<<>>}, {<<>>})
  \union MCSingles({"plain"}, {FALSE}, BOOLEAN, {FALSE})
  \union MCSingles({"plain"}, {TRUE}, {FALSE}, {FALSE})
  \union MCSingles({"urlsafe"}, BOOLEAN, BOOLEAN, {FALSE})
  \union MCSingles({"decode"}, {TRUE}, BOOLEAN, BOOLEAN)
MCInitial ==
  [content : {d :> <<x, x>> @@ e :> <<x, x>> @@ a :> inA : inA \in {<<>>, <<x, Bad>>, <<Legacy, x>>}}
             \union {d :> <<x, Bad>> @@ e :> <<Legacy, x>> @@ a :> <<x, x>>},
   block : {d :> 1 @@ e :> 2 @@ a :> 0, d :> 2 @@ e :> 0 @@ a :> 1}]
MCContents == {<<>>, <<x, Bad>>, <<Legacy, x>>, <<x, x>>}
=============================================================================
