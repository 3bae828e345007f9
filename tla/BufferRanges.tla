---------------------------- MODULE BufferRanges ----------------------------
(***************************************************************************)
(* Address ranges of buffers (BufferRange, src/src/bindings/buffer.rs) and *)
(* the search a Base64 batch makes among the ranges of its destinations    *)
(* (BatchOutputs::snapshot_alias, src/src/bindings/base64/batch.rs).       *)
(* A range is never empty: an empty buffer has none.                       *)
(***************************************************************************)
EXTENDS Naturals, Sequences, FiniteSets, SequencesExt

BufferRange(start, length) == [start |-> start, end |-> start + length]

IsRange(r) == r \in [start : Nat, end : Nat] /\ r.start < r.end

RangesOverlap(a, b) == a.start < b.end /\ b.start < a.end

(* The ranges sorted by their start, which no two have in common.          *)
SortedRanges(ranges) ==
  CHOOSE s \in [1 .. Cardinality(ranges) -> ranges] :
    /\ Range(s) = ranges
    /\ \A j, k \in DOMAIN s : j < k => s[j].start < s[k].start

(* How many of the sorted ranges start before `end`.                       *)
PartitionPoint(ranges, end) ==
  CHOOSE n \in 0 .. Len(ranges) : \A k \in DOMAIN ranges : ranges[k].start < end <=> k <= n

(* The search of a batch: only the last range that starts before the input *)
(* ends is compared with it.                                               *)
OverlapsNext(ranges, input) ==                                            (* faulty *)
  LET index == PartitionPoint(ranges, input.end)
  IN  index < Len(ranges) /\ RangesOverlap(ranges[index + 1], input)

OverlapsSome(ranges, input) ==
  LET index == PartitionPoint(ranges, input.end)
  IN  index # 0 /\ RangesOverlap(ranges[index], input)
=============================================================================
