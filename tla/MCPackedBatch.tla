---------------------------- MODULE MCPackedBatch --------------------------
(* All batches of up to two items out of two bytes objects, a bytearray,   *)
(* the output, views and exporters of the memory of both. Two slots are a  *)
(* large input: batches of three slots detach, and only views of two slots *)
(* are replaced by their bytearray.                                        *)
EXTENDS PackedBatch

CONSTANTS x, y, short, long, cell, cellView, outView, cellExporter, outExporter, other

MCData == short :> <<x>> @@ long :> <<x, y>>
MCBase == cellView :> cell @@ outView :> out @@ cellExporter :> cell @@ outExporter :> out
MCLists == BoundedSeq(Objects, 2)
MCNewLists == {<<>>, <<short, cell>>}
MCContents == {<<>>, <<x>>, <<y, y>>, <<x, x>>}
=============================================================================
