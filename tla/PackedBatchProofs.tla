------------------------- MODULE PackedBatchProofs -------------------------
(***************************************************************************)
(* The safety of one batch of XXH3 hashes, for every list, set of objects, *)
(* threshold and number of foreign events, with and without the GIL.       *)
(***************************************************************************)
EXTENDS PackedBatch, SequenceTheorems, TLAPS

(* A sequence, whatever its elements: a digest is a slot that holds the    *)
(* whole contents of an input, so that slots are of no fixed set.          *)
IsSeq(s) == s \in Seq(Range(s))

Labels == {"start", "capturing", "parsing", "copying", "entering", "writing", "hashing",
           "dropping", "published", "leaving", "listing", "returned", "raised"}

TypeInv ==
  /\ content = [b \in ByteArrays |-> content[b]]
  /\ \A b \in ByteArrays : IsSeq(content[b])
  /\ list \in Seq(Objects) /\ items \in Seq(Objects)
  /\ pc \in Labels
  /\ limit \in Nat /\ events \in Nat
  /\ IsSeq(inputs) /\ IsSeq(staged) /\ IsSeq(written)

(* How much has been parsed, hashed and written at each point of the call. *)
ProgressInv ==
  /\ pc = "start" => items = <<>>
  /\ pc \in {"start", "capturing"} => inputs = <<>>
  /\ pc \in {"parsing", "copying"} => Len(inputs) <= Len(items)
  /\ pc = "copying" => inputs # <<>>
  /\ pc \in {"hashing", "entering", "writing"} => Len(inputs) = Len(items)
  /\ pc \in {"entering", "writing"} => into
  /\ staged # <<>> =>
       pc \in {"hashing", "dropping", "published", "leaving", "listing", "returned", "raised"}
  /\ written # <<>> => pc \in {"writing", "dropping", "published", "leaving", "returned"}
  /\ error => pc \in {"dropping", "published", "leaving", "raised"} /\ written = <<>>
  /\ pc \in {"hashing", "dropping", "published", "leaving"} => Len(staged) <= Len(items)
  /\ pc = "writing" => Len(written) <= Len(items) /\ Len(items) <= Len(content[out])
  /\ pc = "dropping" /\ ~error =>
       \/ Len(staged) = Len(items) /\ written = <<>>
       \/ into /\ staged = <<>> /\ Len(written) = Len(items)
  /\ pc = "published" => into
  /\ pc \in {"published", "leaving"} /\ ~error =>
       IF into THEN Len(written) = Len(items) ELSE Len(staged) = Len(items) /\ written = <<>>
  /\ pc = "listing" => ~into /\ Len(staged) = Len(items)
  /\ pc = "returned" => Len(written) = Len(items)

(* When other code can run with the GIL: never between the parsing of the  *)
(* last input of a call that writes directly, or the write of the staged   *)
(* digests, and the drop of the items, nor while the call reads bytes      *)
(* objects that only the list keeps alive.                                 *)
DirectPath ==
  pc \in {"entering", "writing", "published"} \/ (pc = "dropping" /\ written # <<>>)

QuietInv ==
  /\ detached => pc = "hashing"
  /\ callback => pc \in {"dropping", "leaving", "listing"} \/ (Parsing /\ next \in Exporters)
  /\ ~freeThreaded /\ DirectPath =>
       ~callback /\ \A k \in DOMAIN inputs : ~ReleaseMayReenter(inputs[k])
  /\ pc \in {"capturing", "parsing", "copying"} => held
  /\ ~held /\ pc \in {"entering", "writing", "hashing"} =>
       ~freeThreaded /\ ~detached /\ ~callback /\ items = list

(* The drop of the items runs other code only if an item has left the list.*)
KeptInv ==
  /\ kept => ListKeepsItems
  /\ pc = "leaving" /\ callback => ~kept

(* v is something the item at k has contained since the call took it, or,  *)
(* when other threads write it during the copy, made of such slot by slot. *)
MadeOf(history, v) ==
  \A i \in DOMAIN v : \E bytes \in history : i \in DOMAIN bytes /\ v[i] = bytes[i]
Good(k, v) == v \in seen[k] \/ (Torn(k) /\ MadeOf(seen[k], v))

Owner(o) == IF o \in ByteArrays THEN o ELSE Base[o]

OwnedOf(k) == inputs[k].kind = "owned" /\ Good(k, inputs[k].data)

CopyingOf(k) ==
  /\ inputs[k].kind = "copying" /\ pc = "copying" /\ k = Len(inputs)
  /\ items[k] \in Exporters /\ inputs[k].base = Base[items[k]]
  /\ IsSeq(inputs[k].data) /\ Good(k, inputs[k].data)

ReferenceOf(k) ==
  /\ inputs[k].kind \in {"ref", "buffer"} /\ ~freeThreaded
  /\ items[k] \in ByteArrays \union Views \union Exporters /\ inputs[k].base = Owner(items[k])
  /\ Good(k, content[inputs[k].base])

InputsInv ==
  /\ pc \in {"parsing", "copying", "entering", "writing", "hashing"} =>
       \A k \in DOMAIN inputs :
         OwnedOf(k) \/ (freeThreaded /\ CopyingOf(k)) \/ ReferenceOf(k)
  /\ pc = "copying" => CopyingOf(Len(inputs)) /\ freeThreaded
  /\ pc \in {"entering", "writing"} => \A k \in DOMAIN inputs : ~Overlaps(inputs[k])

(* Until the output is first written the history is up to date.            *)
SeenInv ==
  /\ DOMAIN seen = DOMAIN items
  /\ written = <<>> => \A k \in DOMAIN items : Value(items[k]) \in seen[k]

GoodDigest(k, digest) == digest = Digest(digest[1]) /\ Good(k, digest[1])

DigestsInv ==
  /\ \A k \in DOMAIN staged : GoodDigest(k, staged[k])
  /\ \A k \in DOMAIN written : GoodDigest(k, written[k])

(* With the GIL the output holds what the call has written, until the      *)
(* finalizers of items run.                                                *)
Undisturbed ==
  \/ pc \in {"writing", "dropping", "published"}
  \/ pc = "leaving" /\ ~callback
  \/ pc = "returned" /\ kept

OutputInv ==
  into /\ ~freeThreaded /\ Undisturbed =>
    /\ Len(written) <= Len(content[out])
    /\ \A k \in 1 .. Len(written) : content[out][k] = written[k]

IInv == /\ TypeInv /\ ProgressInv /\ QuietInv /\ KeptInv /\ InputsInv /\ SeenInv /\ DigestsInv /\ OutputInv
----------------------------------------------------------------------------
(* Facts about sequences.                                                  *)
LEMMA SeqIsSeq ==
  ASSUME NEW S, NEW s \in Seq(S)
  PROVE  IsSeq(s)
<1>1. s \in [1 .. Len(s) -> S] /\ Len(s) \in Nat
  BY LenProperties
<1>2. s = [i \in 1 .. Len(s) |-> s[i]] /\ \A i \in 1 .. Len(s) : s[i] \in Range(s)
  BY <1>1 DEF Range
<1>3. [i \in 1 .. Len(s) |-> s[i]] \in Seq(Range(s))
  BY <1>1, <1>2
<1>. QED BY <1>2, <1>3 DEF IsSeq

LEMMA IsSeqFacts ==
  ASSUME NEW s, IsSeq(s)
  PROVE  Len(s) \in Nat /\ DOMAIN s = 1 .. Len(s) /\ (s = <<>> <=> Len(s) = 0)
  BY DEF IsSeq

LEMMA EmptyIsSeq == IsSeq(<<>>)
<1>1. <<>> \in Seq({})
  OBVIOUS
<1>. QED BY <1>1, SeqIsSeq, Zenon

LEMMA AppendIsSeq ==
  ASSUME NEW s, IsSeq(s), NEW e
  PROVE  /\ IsSeq(Append(s, e)) /\ Len(Append(s, e)) = Len(s) + 1
         /\ Append(s, e) # <<>>
         /\ \A i \in 1 .. Len(s) : Append(s, e)[i] = s[i]
         /\ Append(s, e)[Len(s) + 1] = e
<1>1. s \in Seq(Range(s) \union {e})
  BY DEF IsSeq
<1>2. Append(s, e) \in Seq(Range(s) \union {e})
  BY <1>1
<1>3. IsSeq(Append(s, e))
  BY <1>2, SeqIsSeq, Zenon
<1>. QED BY <1>1, <1>3

LEMMA TailIsSeq ==
  ASSUME NEW s, IsSeq(s), s # <<>>
  PROVE  IsSeq(Tail(s)) /\ Len(Tail(s)) = Len(s) - 1 /\ \A i \in 1 .. Len(s) - 1 : Tail(s)[i] = s[i + 1]
<1>1. s \in Seq(Range(s))
  BY DEF IsSeq
<1>2. Tail(s) \in Seq(Range(s))
  BY <1>1
<1>3. IsSeq(Tail(s))
  BY <1>2, SeqIsSeq, Zenon
<1>. QED BY <1>1, <1>3

LEMMA ReplaceIsSeq ==
  ASSUME NEW s, IsSeq(s), NEW k \in 1 .. Len(s), NEW e
  PROVE  IsSeq([s EXCEPT ![k] = e]) /\ Len([s EXCEPT ![k] = e]) = Len(s)
<1>1. s \in Seq(Range(s) \union {e})
  BY DEF IsSeq
<1>2. [s EXCEPT ![k] = e] \in Seq(Range(s) \union {e})
  BY <1>1
<1>3. IsSeq([s EXCEPT ![k] = e])
  BY <1>2, SeqIsSeq, Zenon
<1>. QED BY <1>1, <1>3

LEMMA FunctionIsSeq ==
  ASSUME NEW n \in Nat, NEW f, f = [k \in 1 .. n |-> f[k]]
  PROVE  IsSeq(f) /\ Len(f) = n
<1>1. f \in Seq({f[k] : k \in 1 .. n})
  OBVIOUS
<1>2. IsSeq(f)
  BY <1>1, SeqIsSeq, Zenon
<1>. QED BY <1>2

LEMMA OverlayIsSeq ==
  ASSUME NEW s, IsSeq(s), NEW t, IsSeq(t), Len(s) <= Len(t)
  PROVE  LET u == s \o SubSeq(t, Len(s) + 1, Len(t))
         IN  IsSeq(u) /\ Len(u) = Len(t) /\ \A i \in 1 .. Len(s) : u[i] = s[i]
<1>. DEFINE S == Range(s) \union Range(t)
            r == SubSeq(t, Len(s) + 1, Len(t))
<1>1. s \in Seq(S) /\ t \in Seq(S)
  BY DEF IsSeq
<1>2. r \in Seq(S) /\ Len(r) = Len(t) - Len(s)
  BY <1>1
<1>. HIDE DEF r
<1>3. s \o r \in Seq(S) /\ Len(s \o r) = Len(t) /\ \A i \in 1 .. Len(s) : (s \o r)[i] = s[i]
  BY <1>1, <1>2
<1>. QED BY <1>3, SeqIsSeq DEF r
----------------------------------------------------------------------------
(* No write changes the length of the output.                              *)
LEMMA WriteKeepsLength ==
  ASSUME IInv, WriteSlot
  PROVE  /\ content' = [content EXCEPT ![out] = content'[out]]
         /\ IsSeq(content'[out]) /\ Len(content'[out]) = Len(content[out])
         /\ content'[out] = [content[out] EXCEPT ![Len(written) + 1] = Digest(Read(Len(written) + 1))]
<1>. DEFINE k == Len(written) + 1
            e == Digest(Read(k))
<1>1. /\ out \in ByteArrays /\ IsSeq(content[out]) /\ IsSeq(written)
      /\ content = [b \in ByteArrays |-> content[b]]
  BY PackedBatchAssumption DEF IInv, TypeInv
<1>2. k \in 1 .. Len(content[out]) /\ Len(items) \in Nat
  <2>1. Len(items) \in Nat /\ Len(written) \in Nat /\ Len(content[out]) \in Nat
    BY <1>1, IsSeqFacts DEF IInv, TypeInv
  <2>. QED BY <2>1 DEF IInv, ProgressInv, WriteSlot
<1>3. Put(content[out], k, e) = [content[out] EXCEPT ![k] = e]
  BY <1>1, <1>2, IsSeqFacts DEF Put
<1>4. content' = [content EXCEPT ![out] = [content[out] EXCEPT ![k] = e]]
  BY <1>3 DEF WriteSlot
<1>5. content'[out] = [content[out] EXCEPT ![k] = e]
  BY <1>1, <1>4
<1>. QED BY <1>1, <1>2, <1>4, <1>5, ReplaceIsSeq

LEMMA PublishKeepsLength ==
  ASSUME IInv, Publish, CapacitySuffices(Len(staged))
  PROVE  /\ content' = [content EXCEPT ![out] = content'[out]]
         /\ IsSeq(content'[out]) /\ Len(content'[out]) = Len(content[out])
         /\ Len(staged) <= Len(content[out])
         /\ \A k \in 1 .. Len(staged) : content'[out][k] = staged[k]
<1>1. /\ out \in ByteArrays /\ IsSeq(content[out]) /\ IsSeq(staged)
      /\ content = [b \in ByteArrays |-> content[b]]
  BY PackedBatchAssumption DEF IInv, TypeInv
<1>2. Len(staged) <= Len(content[out])
  BY DEF Publish, CapacitySuffices
<1>. DEFINE new == staged \o SubSeq(content[out], Len(staged) + 1, Len(content[out]))
<1>3. content' = [content EXCEPT ![out] = new]
  BY DEF Publish
<1>4. IsSeq(new) /\ Len(new) = Len(content[out]) /\ \A k \in 1 .. Len(staged) : new[k] = staged[k]
  BY <1>1, <1>2, OverlayIsSeq
<1>. HIDE DEF new
<1>5. content'[out] = new
  BY <1>1, <1>3
<1>. QED BY <1>2, <1>3, <1>4, <1>5

(* Types.                                                                  *)
LEMMA TypeInvStep ==
  ASSUME IInv, CallStep, UNCHANGED build
  PROVE  TypeInv'
<1>. USE PackedBatchAssumption DEF Goto, Fail, Labels, memory, build
<1>1. CASE StartExact
  <2>1. list \in Seq(Objects) /\ Len(list) \in Nat /\ DOMAIN list = 1 .. Len(list)
    BY DEF IInv, TypeInv
  <2>2. inputs' = [k \in 1 .. Len(list) |-> inputs'[k]]
    BY <1>1, <2>1 DEF StartExact
  <2>3. IsSeq(inputs')
    BY <2>1, <2>2, FunctionIsSeq
  <2>. QED BY <1>1, <2>1, <2>3 DEF IInv, TypeInv, StartExact
<1>2. CASE StartList
  BY <1>2, IsSeqFacts, EmptyIsSeq DEF IInv, TypeInv, StartList
<1>3. CASE StartCapture
  BY <1>3, IsSeqFacts, EmptyIsSeq DEF IInv, TypeInv, StartCapture
<1>4. CASE Capture
  BY <1>4, IsSeqFacts, EmptyIsSeq DEF IInv, TypeInv, Capture
<1>5. CASE EndCapture
  <2>1. items \in Seq(Objects) /\ Len(items) \in Nat /\ DOMAIN items = 1 .. Len(items)
    BY DEF IInv, TypeInv
  <2>2. inputs' = inputs \/ inputs' = [k \in 1 .. Len(items) |-> inputs'[k]]
    BY <1>5, <2>1 DEF EndCapture
  <2>3. IsSeq(inputs')
    BY <2>1, <2>2, FunctionIsSeq DEF IInv, TypeInv
  <2>. QED BY <1>5, <2>3 DEF IInv, TypeInv, EndCapture
<1>6. CASE ParseBytes
  BY <1>6, IsSeqFacts, EmptyIsSeq, AppendIsSeq DEF IInv, TypeInv, ParseBytes, Parse, Parsing
<1>7. CASE ParseByteArray
  BY <1>7, IsSeqFacts, EmptyIsSeq, AppendIsSeq DEF IInv, TypeInv, ParseByteArray, Parse, Parsing
<1>8. CASE ParseView
  <2>1. PICK input : inputs' = Append(inputs, input)
    BY <1>8 DEF ParseView, Parse
  <2>2. IsSeq(inputs')
    BY <2>1, AppendIsSeq DEF IInv, TypeInv
  <2>. QED BY <1>8, <2>2 DEF IInv, TypeInv, ParseView, Parse
<1>9. CASE BeginExport
  BY <1>9, IsSeqFacts, EmptyIsSeq DEF IInv, TypeInv, BeginExport
<1>10. CASE ExportBuffer
  <2>1. PICK input : inputs' = Append(inputs, input)
    BY <1>10 DEF ExportBuffer
  <2>2. IsSeq(inputs')
    BY <2>1, AppendIsSeq DEF IInv, TypeInv
  <2>. QED BY <1>10, <2>2 DEF IInv, TypeInv, ExportBuffer
<1>11. CASE CopySlot
  <2>1. Len(inputs) \in 1 .. Len(inputs)
    BY <1>11, IsSeqFacts DEF IInv, TypeInv, ProgressInv, CopySlot
  <2>2. PICK input : inputs' = [inputs EXCEPT ![Len(inputs)] = input]
    BY <1>11 DEF CopySlot
  <2>3. IsSeq(inputs')
    BY <2>1, <2>2, ReplaceIsSeq DEF IInv, TypeInv
  <2>. QED BY <1>11, <2>3 DEF IInv, TypeInv, CopySlot
<1>12. CASE ParseFails
  BY <1>12, IsSeqFacts, EmptyIsSeq DEF IInv, TypeInv, ParseFails, Parsing
<1>13. CASE EndParse
  BY <1>13, IsSeqFacts, EmptyIsSeq DEF IInv, TypeInv, EndParse
<1>14. CASE EnterOutput
  BY <1>14, IsSeqFacts, EmptyIsSeq DEF IInv, TypeInv, EnterOutput
<1>15. CASE WriteSlot
  <2>1. /\ content' = [content EXCEPT ![out] = content'[out]]
        /\ IsSeq(content'[out]) /\ IsSeq(written')
    BY <1>15, WriteKeepsLength, AppendIsSeq DEF IInv, TypeInv, WriteSlot
  <2>. QED BY <1>15, <2>1 DEF IInv, TypeInv, WriteSlot
<1>16. CASE LeaveOutput
  BY <1>16, IsSeqFacts, EmptyIsSeq DEF IInv, TypeInv, LeaveOutput
<1>17. CASE HashItem
  BY <1>17, IsSeqFacts, EmptyIsSeq, AppendIsSeq DEF IInv, TypeInv, HashItem
<1>18. CASE Reattach
  BY <1>18, IsSeqFacts, EmptyIsSeq DEF IInv, TypeInv, Reattach
<1>19. CASE Drop
  BY <1>19, IsSeqFacts, EmptyIsSeq, TailIsSeq DEF IInv, TypeInv, Drop
<1>20. CASE HookReturns
  BY <1>20, IsSeqFacts, EmptyIsSeq DEF IInv, TypeInv, HookReturns
<1>21. CASE AllocateList
  BY <1>21, IsSeqFacts, EmptyIsSeq DEF IInv, TypeInv, AllocateList
<1>22. CASE ReturnList
  BY <1>22, IsSeqFacts, EmptyIsSeq DEF IInv, TypeInv, ReturnList
<1>23. CASE Return \/ DropItems
  BY <1>23, IsSeqFacts, EmptyIsSeq DEF IInv, TypeInv, Return, DropItems
<1>24. CASE Publish
  <2>1. CASE CapacitySuffices(Len(staged))
    <3>1. /\ content' = [content EXCEPT ![out] = content'[out]]
          /\ IsSeq(content'[out])
      BY <1>24, <2>1, PublishKeepsLength DEF IInv, TypeInv, Publish
    <3>. QED BY <1>24, <2>1, <3>1 DEF IInv, TypeInv, Publish
  <2>2. CASE ~CapacitySuffices(Len(staged))
    BY <1>24, <2>2 DEF IInv, TypeInv, Publish
  <2>. QED BY <2>1, <2>2
<1>. QED BY <1>1, <1>2, <1>3, <1>4, <1>5, <1>6, <1>7, <1>8, <1>9, <1>10, <1>11, <1>12, <1>13,
            <1>14, <1>15, <1>16, <1>17, <1>18, <1>19, <1>20, <1>21, <1>22, <1>23, <1>24
         DEF CallStep

(* Progress.                                                               *)
LEMMA ProgressInvStep ==
  ASSUME IInv, CallStep, UNCHANGED build
  PROVE  ProgressInv'
<1>. USE PackedBatchAssumption DEF Goto, Fail, Labels, memory, build
<1>1. CASE StartExact
  BY <1>1, IsSeqFacts, EmptyIsSeq
  DEF IInv, TypeInv, ProgressInv, CapacitySuffices, Staging, StartExact
<1>2. CASE StartList
  BY <1>2, IsSeqFacts, EmptyIsSeq
  DEF IInv, TypeInv, ProgressInv, CapacitySuffices, Staging, StartList
<1>3. CASE StartCapture
  BY <1>3, IsSeqFacts, EmptyIsSeq
  DEF IInv, TypeInv, ProgressInv, CapacitySuffices, Staging, StartCapture
<1>4. CASE Capture
  BY <1>4, IsSeqFacts, EmptyIsSeq DEF IInv, TypeInv, ProgressInv, CapacitySuffices, Staging, Capture
<1>5. CASE EndCapture
  BY <1>5, IsSeqFacts, EmptyIsSeq
  DEF IInv, TypeInv, ProgressInv, CapacitySuffices, Staging, EndCapture
<1>6. CASE ParseBytes
  BY <1>6, IsSeqFacts, EmptyIsSeq, AppendIsSeq
  DEF IInv, TypeInv, ProgressInv, CapacitySuffices, Staging, ParseBytes, Parse, Parsing
<1>7. CASE ParseByteArray
  BY <1>7, IsSeqFacts, EmptyIsSeq, AppendIsSeq
  DEF IInv, TypeInv, ProgressInv, CapacitySuffices, Staging, ParseByteArray, Parse, Parsing
<1>8. CASE ParseView
  BY <1>8, IsSeqFacts, EmptyIsSeq, AppendIsSeq
  DEF IInv, TypeInv, ProgressInv, CapacitySuffices, Staging, ParseView, Parse, Parsing
<1>9. CASE BeginExport
  BY <1>9, IsSeqFacts, EmptyIsSeq
  DEF IInv, TypeInv, ProgressInv, CapacitySuffices, Staging, BeginExport
<1>10. CASE ExportBuffer
  <2>1. PICK input : inputs' = Append(inputs, input)
    BY <1>10 DEF ExportBuffer
  <2>2. inputs' # <<>> /\ Len(inputs') = Len(inputs) + 1 /\ Len(inputs) < Len(items)
    BY <1>10, <2>1, AppendIsSeq DEF IInv, TypeInv, ExportBuffer, Parsing
  <2>3. pc = "parsing" /\ pc' \in {"parsing", "copying"}
    BY <1>10 DEF ExportBuffer, Parsing
  <2>. QED BY <1>10, <2>2, <2>3, IsSeqFacts DEF IInv, TypeInv, ProgressInv, ExportBuffer
<1>11. CASE CopySlot
  <2>1. Len(inputs') = Len(inputs) /\ (inputs = <<>> <=> inputs' = <<>>)
    <3>1. \E k, e : inputs' = [inputs EXCEPT ![k] = e]
      BY <1>11 DEF CopySlot
    <3>2. PICK k, e : inputs' = [inputs EXCEPT ![k] = e]
      BY <3>1
    <3>3. IsSeq(inputs)
      BY DEF IInv, TypeInv
    <3>. QED BY <3>2, <3>3, IsSeqFacts DEF IsSeq
  <2>2. pc = "copying" /\ pc' \in {"parsing", "copying"}
    BY <1>11 DEF CopySlot
  <2>3. UNCHANGED <<memory, items, limit, held, staged, written, detached, error, events>>
    BY <1>11 DEF CopySlot
  <2>4. /\ items' = items /\ content' = content /\ staged' = staged /\ written' = written
        /\ error' = error /\ into' = into
    BY <2>3
  <2>. QED BY <2>1, <2>2, <2>4 DEF IInv, ProgressInv
<1>12. CASE ParseFails
  BY <1>12, IsSeqFacts, EmptyIsSeq
  DEF IInv, TypeInv, ProgressInv, CapacitySuffices, Staging, ParseFails, Parsing
<1>13. CASE EndParse
  BY <1>13, IsSeqFacts, EmptyIsSeq
  DEF IInv, TypeInv, ProgressInv, CapacitySuffices, Staging, EndParse
<1>14. CASE EnterOutput
  BY <1>14, IsSeqFacts, EmptyIsSeq
  DEF IInv, TypeInv, ProgressInv, CapacitySuffices, Staging, EnterOutput
<1>15. CASE WriteSlot
  <2>1. Len(content'[out]) = Len(content[out])
    BY <1>15, WriteKeepsLength
  <2>2. written' # <<>> /\ Len(written') = Len(written) + 1
    BY <1>15, AppendIsSeq DEF IInv, TypeInv, WriteSlot
  <2>3. Len(written) \in Nat /\ Len(items) \in Nat
    BY IsSeqFacts DEF IInv, TypeInv
  <2>. QED BY <1>15, <2>1, <2>2, <2>3 DEF IInv, ProgressInv, WriteSlot
<1>16. CASE LeaveOutput
  BY <1>16, IsSeqFacts, EmptyIsSeq
  DEF IInv, TypeInv, ProgressInv, CapacitySuffices, Staging, LeaveOutput
<1>17. CASE HashItem
  BY <1>17, IsSeqFacts, EmptyIsSeq, AppendIsSeq
  DEF IInv, TypeInv, ProgressInv, CapacitySuffices, Staging, HashItem
<1>18. CASE Reattach
  BY <1>18, IsSeqFacts, EmptyIsSeq
  DEF IInv, TypeInv, ProgressInv, CapacitySuffices, Staging, Reattach
<1>19. CASE Drop
  BY <1>19, IsSeqFacts, EmptyIsSeq, TailIsSeq
  DEF IInv, TypeInv, ProgressInv, CapacitySuffices, Staging, Drop
<1>20. CASE HookReturns
  BY <1>20, IsSeqFacts, EmptyIsSeq
  DEF IInv, TypeInv, ProgressInv, CapacitySuffices, Staging, HookReturns
<1>21. CASE AllocateList
  BY <1>21, IsSeqFacts, EmptyIsSeq
  DEF IInv, TypeInv, ProgressInv, CapacitySuffices, Staging, AllocateList
<1>22. CASE ReturnList
  BY <1>22, IsSeqFacts, EmptyIsSeq
  DEF IInv, TypeInv, ProgressInv, CapacitySuffices, Staging, ReturnList
<1>23. CASE Return
  BY <1>23, IsSeqFacts, EmptyIsSeq DEF IInv, TypeInv, ProgressInv, CapacitySuffices, Staging, Return
<1>24. CASE Publish
  BY <1>24, IsSeqFacts, EmptyIsSeq
  DEF IInv, TypeInv, ProgressInv, CapacitySuffices, Staging, Publish
<1>25. CASE DropItems
  BY <1>25, IsSeqFacts, EmptyIsSeq
  DEF IInv, TypeInv, ProgressInv, CapacitySuffices, Staging, DropItems
<1>. QED BY <1>1, <1>2, <1>3, <1>4, <1>5, <1>6, <1>7, <1>8, <1>9, <1>10, <1>11, <1>12, <1>13,
            <1>14, <1>15, <1>16, <1>17, <1>18, <1>19, <1>20, <1>21, <1>22, <1>23, <1>24, <1>25
         DEF CallStep

(* When other code can run.                                                *)
LEMMA QuietInvStep ==
  ASSUME IInv, CallStep, UNCHANGED build
  PROVE  QuietInv'
<1>. USE PackedBatchAssumption DEF Goto, Fail, Labels, memory, build
<1>1. CASE StartExact
  <2>1. \A k \in DOMAIN inputs' : ~ReleaseMayReenter(inputs'[k])
    BY <1>1 DEF StartExact, ReleaseMayReenter, OwnedInput
  <2>2. pc = "start" /\ pc' \in {"entering", "hashing", "dropping"} /\ callback' = callback /\ ~freeThreaded
    BY <1>1 DEF StartExact
  <2>3. ~detached /\ ~callback
    BY <2>2 DEF IInv, QuietInv, Parsing
  <2>4. written' = <<>>
    BY <1>1 DEF StartExact, IInv, ProgressInv
  <2>5. (detached' => pc' = "hashing") /\ (~held' => ~detached') /\ items' = list /\ list' = list
    BY <1>1, <2>3 DEF StartExact
  <2>. QED BY <2>1, <2>2, <2>3, <2>4, <2>5 DEF QuietInv, Parsing, DirectPath
<1>2. CASE StartList
  BY <1>2, IsSeqFacts, EmptyIsSeq
  DEF IInv, TypeInv, ProgressInv, QuietInv, Parsing, next, DirectPath, DirectSafe, StartList
<1>3. CASE StartCapture
  BY <1>3, IsSeqFacts, EmptyIsSeq
  DEF IInv, TypeInv, ProgressInv, QuietInv, Parsing, next, DirectPath, DirectSafe, StartCapture
<1>4. CASE Capture
  BY <1>4, IsSeqFacts, EmptyIsSeq
  DEF IInv, TypeInv, ProgressInv, QuietInv, Parsing, next, DirectPath, DirectSafe, Capture
<1>5. CASE EndCapture
  <2>1. /\ pc = "capturing" /\ pc' \in {"parsing", "entering", "hashing", "dropping"}
        /\ callback' = callback /\ held' = held /\ written' = written
        /\ inputs = <<>> /\ written = <<>>
    BY <1>5 DEF EndCapture, IInv, ProgressInv
  <2>2. ~detached /\ ~callback /\ held
    BY <2>1 DEF IInv, QuietInv, Parsing
  <2>3. detached' => pc' = "hashing"
    BY <1>5, <2>2 DEF EndCapture
  <2>4. \A k \in DOMAIN inputs' : ~ReleaseMayReenter(inputs'[k])
    BY <1>5, <2>1 DEF EndCapture, ReleaseMayReenter, OwnedInput
  <2>. QED BY <2>1, <2>2, <2>3, <2>4 DEF QuietInv, Parsing, DirectPath
<1>6. CASE ParseBytes
  BY <1>6, IsSeqFacts, EmptyIsSeq, AppendIsSeq
  DEF IInv, TypeInv, ProgressInv, QuietInv, Parsing, next, DirectPath, DirectSafe, ParseBytes,
      Parse
<1>7. CASE ParseByteArray
  BY <1>7, IsSeqFacts, EmptyIsSeq, AppendIsSeq
  DEF IInv, TypeInv, ProgressInv, QuietInv, Parsing, next, DirectPath, DirectSafe, ParseByteArray,
      Parse
<1>8. CASE ParseView
  BY <1>8, IsSeqFacts, EmptyIsSeq, AppendIsSeq
  DEF IInv, TypeInv, ProgressInv, QuietInv, Parsing, next, DirectPath, DirectSafe, ParseView,
      Parse
<1>9. CASE BeginExport
  BY <1>9, IsSeqFacts, EmptyIsSeq
  DEF IInv, TypeInv, ProgressInv, QuietInv, Parsing, next, DirectPath, DirectSafe, BeginExport
<1>10. CASE ExportBuffer
  <2>1. /\ pc = "parsing" /\ pc' \in {"parsing", "copying"} /\ ~callback' /\ detached' = detached
        /\ held' = held /\ written' = written
    BY <1>10 DEF ExportBuffer, Parsing
  <2>. QED BY <2>1 DEF IInv, QuietInv, DirectPath, Parsing
<1>11. CASE CopySlot
  BY <1>11, IsSeqFacts, EmptyIsSeq, AppendIsSeq
  DEF IInv, TypeInv, ProgressInv, QuietInv, Parsing, next, DirectPath, DirectSafe, CopySlot
<1>12. CASE ParseFails
  BY <1>12, IsSeqFacts, EmptyIsSeq
  DEF IInv, TypeInv, ProgressInv, QuietInv, Parsing, next, DirectPath, DirectSafe, ParseFails
<1>13. CASE EndParse
  BY <1>13, IsSeqFacts, EmptyIsSeq
  DEF IInv, TypeInv, ProgressInv, QuietInv, Parsing, next, DirectPath, DirectSafe, EndParse
<1>14. CASE EnterOutput
  BY <1>14, IsSeqFacts, EmptyIsSeq
  DEF IInv, TypeInv, ProgressInv, QuietInv, Parsing, next, DirectPath, DirectSafe, EnterOutput
<1>15. CASE WriteSlot
  BY <1>15, IsSeqFacts, EmptyIsSeq, AppendIsSeq
  DEF IInv, TypeInv, ProgressInv, QuietInv, Parsing, next, DirectPath, DirectSafe, WriteSlot
<1>16. CASE LeaveOutput
  BY <1>16, IsSeqFacts, EmptyIsSeq
  DEF IInv, TypeInv, ProgressInv, QuietInv, Parsing, next, DirectPath, DirectSafe, LeaveOutput
<1>17. CASE HashItem
  BY <1>17, IsSeqFacts, EmptyIsSeq, AppendIsSeq
  DEF IInv, TypeInv, ProgressInv, QuietInv, Parsing, next, DirectPath, DirectSafe, HashItem
<1>18. CASE Reattach
  BY <1>18, IsSeqFacts, EmptyIsSeq
  DEF IInv, TypeInv, ProgressInv, QuietInv, Parsing, next, DirectPath, DirectSafe, Reattach
<1>19. CASE Drop
  BY <1>19, IsSeqFacts, EmptyIsSeq, TailIsSeq
  DEF IInv, TypeInv, ProgressInv, QuietInv, Parsing, next, DirectPath, DirectSafe, Drop
<1>20. CASE HookReturns
  BY <1>20, IsSeqFacts, EmptyIsSeq
  DEF IInv, TypeInv, ProgressInv, QuietInv, Parsing, next, DirectPath, DirectSafe, HookReturns
<1>21. CASE AllocateList
  BY <1>21, IsSeqFacts, EmptyIsSeq
  DEF IInv, TypeInv, ProgressInv, QuietInv, Parsing, next, DirectPath, DirectSafe, AllocateList
<1>22. CASE ReturnList
  BY <1>22, IsSeqFacts, EmptyIsSeq
  DEF IInv, TypeInv, ProgressInv, QuietInv, Parsing, next, DirectPath, DirectSafe, ReturnList
<1>23. CASE Return
  BY <1>23, IsSeqFacts, EmptyIsSeq
  DEF IInv, TypeInv, ProgressInv, QuietInv, Parsing, next, DirectPath, DirectSafe, Return
<1>24. CASE Publish
  BY <1>24, IsSeqFacts, EmptyIsSeq
  DEF IInv, TypeInv, ProgressInv, QuietInv, Parsing, next, DirectPath, DirectSafe, Publish
<1>25. CASE DropItems
  BY <1>25
  DEF IInv, ProgressInv, QuietInv, Parsing, DirectPath, DropItems
<1>. QED BY <1>1, <1>2, <1>3, <1>4, <1>5, <1>6, <1>7, <1>8, <1>9, <1>10, <1>11, <1>12, <1>13,
            <1>14, <1>15, <1>16, <1>17, <1>18, <1>19, <1>20, <1>21, <1>22, <1>23, <1>24, <1>25
         DEF CallStep

(* What the list holds.                                                    *)
LEMMA KeptInvStep ==
  ASSUME IInv, CallStep \/ OutsideStep, Witness(items)
  PROVE  KeptInv'
<1>1. kept' => kept /\ ListKeepsItems'
  BY DEF Witness
<1>2. CASE DropItems
  BY <1>1, <1>2 DEF DropItems, IInv, KeptInv
<1>3. CASE pc' # "leaving"
  BY <1>1, <1>3 DEF KeptInv
<1>4. CASE pc' = pc /\ callback' = callback
  BY <1>1, <1>4 DEF IInv, KeptInv
<1>5. CASE Return \/ AllocateList \/ ReturnList
  BY <1>3, <1>5 DEF Return, AllocateList, ReturnList, Goto
<1>6. OutsideStep => pc' = pc /\ callback' = callback
  BY DEF OutsideStep, SetContent, ChangeList, ReleaseView, Outside
<1>7. CallStep => DropItems \/ Return \/ AllocateList \/ ReturnList \/ pc' # "leaving"
  BY DEF CallStep, StartExact, StartList, StartCapture, Capture, EndCapture, ParseBytes,
     ParseByteArray, ParseView, Parse, BeginExport, ExportBuffer, CopySlot, ParseFails, EndParse,
     Parsing, EnterOutput, WriteSlot, LeaveOutput, HashItem, Reattach, Drop, HookReturns, Publish,
     Goto, Fail
<1>. QED BY <1>2, <1>3, <1>4, <1>5, <1>6, <1>7
----------------------------------------------------------------------------
(* The history of every item only grows.                                   *)
LEMMA ItemsStay ==
  ASSUME IInv, CallStep \/ OutsideStep
  PROVE  /\ \A k \in DOMAIN items : k \in DOMAIN items' /\ items'[k] = items[k]
         /\ pc \notin {"start", "capturing"} => items' = items
<1>1. items \in Seq(Objects) /\ (pc = "start" => items = <<>>)
  BY DEF IInv, TypeInv, ProgressInv
<1>2. CASE StartExact \/ StartList
  BY <1>1, <1>2 DEF StartExact, StartList
<1>3. CASE Capture
  <2>1. list \in Seq(Objects) /\ Len(items) < Len(list) /\ pc = "capturing"
        /\ items' = Append(items, list[Len(items) + 1])
    BY <1>3 DEF Capture, IInv, TypeInv
  <2>2. list[Len(items) + 1] \in Objects
    BY <1>1, <2>1
  <2>. QED BY <1>1, <2>1, <2>2
<1>4. CASE items' = items
  BY <1>4
<1>5. CallStep \/ OutsideStep => StartExact \/ StartList \/ Capture \/ items' = items
  BY DEF CallStep, StartCapture, EndCapture, ParseBytes, ParseByteArray, ParseView, Parse,
     BeginExport, ExportBuffer, CopySlot, ParseFails, EndParse, EnterOutput, WriteSlot, LeaveOutput,
     HashItem, Reattach, Drop, HookReturns, AllocateList, ReturnList, Return, DropItems, Publish,
     OutsideStep, SetContent, ChangeList, ReleaseView, Outside
<1>. QED BY <1>2, <1>3, <1>4, <1>5

LEMMA HistoryGrows ==
  ASSUME IInv, CallStep \/ OutsideStep, Witness(items)
  PROVE  /\ SeenInv'
         /\ \A k \in DOMAIN items : k \in DOMAIN items' /\ items'[k] = items[k] /\ seen[k] \subseteq seen'[k]
<1>1. SeenInv'
  BY DEF Witness, SeenInv
<1>2. \A k \in DOMAIN items : k \in DOMAIN items' /\ items'[k] = items[k]
  BY ItemsStay
<1>3. \A k \in DOMAIN items : seen[k] \subseteq seen'[k]
  BY <1>2 DEF Witness, IInv, SeenInv
<1>. QED BY <1>1, <1>2, <1>3

LEMMA MadeOfGrows ==
  ASSUME NEW H, NEW G, H \subseteq G, NEW v, MadeOf(H, v)
  PROVE  MadeOf(G, v)
  BY DEF MadeOf

(* Whose memory an item is.                                                *)
LEMMA ValueOfOwner ==
  ASSUME NEW CONSTANT o \in ByteArrays \union Views \union Exporters
  PROVE  Owner(o) \in ByteArrays /\ Value(o) = content[Owner(o)] /\ Value(o)' = content'[Owner(o)]
  BY PackedBatchAssumption DEF Owner, Value

(* What was good to read stays so.                                         *)
LEMMA OwnedKept ==
  ASSUME NEW CONSTANT k, OwnedOf(k), UNCHANGED build, items'[k] = items[k],
         seen[k] \subseteq seen'[k], inputs'[k] = inputs[k]
  PROVE  OwnedOf(k)'
<1>1. Good(k, inputs[k].data)
  BY DEF OwnedOf
<1>2. CASE inputs[k].data \in seen[k]
  BY <1>2 DEF OwnedOf, Good
<1>3. CASE Torn(k) /\ MadeOf(seen[k], inputs[k].data)
  <2>1. MadeOf(seen'[k], inputs'[k].data)
    BY <1>3, MadeOfGrows
  <2>. QED BY <1>3, <2>1 DEF OwnedOf, Good, Torn, build
<1>. QED BY <1>1, <1>2, <1>3 DEF Good

LEMMA ReferenceKept ==
  ASSUME NEW CONSTANT k, ReferenceOf(k), UNCHANGED build, items'[k] = items[k],
         k \in DOMAIN items', SeenInv', inputs'[k] = inputs[k], written' = <<>>
  PROVE  ReferenceOf(k)'
<1>1. PICK o \in ByteArrays \union Views \union Exporters : o = items[k]
  BY DEF ReferenceOf
<1>2. Value(items[k])' \in seen'[k]
  BY DEF SeenInv
<1>3. Value(items[k])' = Value(o)'
  BY <1>1 DEF Value
<1>4. content'[inputs'[k].base] \in seen'[k]
  BY <1>1, <1>2, <1>3, ValueOfOwner DEF ReferenceOf
<1>. QED BY <1>1, <1>4 DEF ReferenceOf, Good, build

(* Inputs that a step does not touch, before the output is written.        *)
LEMMA InputKept ==
  ASSUME IInv, CallStep \/ OutsideStep, Witness(items), UNCHANGED build, written' = <<>>,
         NEW CONSTANT k \in DOMAIN items, inputs'[k] = inputs[k], OwnedOf(k) \/ ReferenceOf(k)
  PROVE  OwnedOf(k)' \/ ReferenceOf(k)'
<1>1. /\ SeenInv' /\ k \in DOMAIN items' /\ items'[k] = items[k] /\ seen[k] \subseteq seen'[k]
  BY HistoryGrows
<1>. QED BY <1>1, OwnedKept, ReferenceKept

(* What a call takes from exact bytes objects.                             *)
LEMMA ExactOwned ==
  ASSUME SeenInv', written' = <<>>, NEW CONSTANT k, k \in DOMAIN items', items'[k] \in Bytes,
         inputs'[k] = OwnedInput(Data[items'[k]])
  PROVE  OwnedOf(k)' /\ ~Overlaps(inputs[k])'
<1>1. Value(items[k])' \in seen'[k]
  BY DEF SeenInv
<1>2. Value(items[k])' = Data[items'[k]]
  BY DEF Value
<1>. QED BY <1>1, <1>2 DEF OwnedOf, Good, OwnedInput, Overlaps

(* What is parsed next is good to read.                                    *)
LEMMA ParseAppends ==
  ASSUME IInv, CallStep, Witness(items), UNCHANGED build, written' = <<>>, pc = "parsing",
         NEW CONSTANT input, inputs' = Append(inputs, input),
         NEW CONSTANT n, n = Len(inputs) + 1, n <= Len(items),
         (OwnedOf(n) \/ (freeThreaded /\ CopyingOf(n)) \/ ReferenceOf(n))',
         pc' \in {"parsing", "copying"}, pc' = "copying" => CopyingOf(n)' /\ freeThreaded'
  PROVE  InputsInv'
<1>1. /\ IsSeq(inputs) /\ Len(inputs) \in Nat /\ DOMAIN inputs = 1 .. Len(inputs)
      /\ items \in Seq(Objects) /\ items' = items
  BY IsSeqFacts, ItemsStay DEF IInv, TypeInv
<1>2. IsSeq(inputs') /\ Len(inputs') = n /\ DOMAIN inputs' = 1 .. n
      /\ \A k \in 1 .. Len(inputs) : inputs'[k] = inputs[k]
  BY <1>1, AppendIsSeq, IsSeqFacts
<1>3. ASSUME NEW k \in DOMAIN inputs'
      PROVE  (OwnedOf(k) \/ (freeThreaded /\ CopyingOf(k)) \/ ReferenceOf(k))'
  <2>1. CASE k = n
    BY <2>1
  <2>2. CASE k # n
    <3>1. k \in DOMAIN inputs /\ k \in DOMAIN items /\ inputs'[k] = inputs[k]
      BY <1>1, <1>2, <2>2
    <3>2. OwnedOf(k) \/ ReferenceOf(k)
      BY <3>1 DEF IInv, InputsInv, CopyingOf
    <3>. QED BY <3>1, <3>2, InputKept
  <2>. QED BY <2>1, <2>2
<1>. QED BY <1>2, <1>3 DEF InputsInv

(* The steps that parse.                                                   *)
LEMMA ParseInputs ==
  ASSUME IInv, CallStep, Witness(items), UNCHANGED build,
         ParseBytes \/ ParseByteArray \/ ParseView \/ ExportBuffer
  PROVE  InputsInv'
<1>. DEFINE k == Len(inputs) + 1
<1>1. /\ IsSeq(inputs) /\ Len(inputs) \in Nat /\ items \in Seq(Objects) /\ items' = items
      /\ pc = "parsing" /\ Len(inputs) < Len(items) /\ next = items[k]
  BY IsSeqFacts, ItemsStay
  DEF IInv, TypeInv, ParseBytes, ParseByteArray, ParseView, ExportBuffer, Parsing, next
<1>2. written = <<>> /\ written' = <<>>
  BY <1>1 DEF IInv, ProgressInv, ParseBytes, ParseByteArray, ParseView, Parse, ExportBuffer
<1>3. SeenInv'
  BY HistoryGrows
<1>4. content' = content
  BY DEF ParseBytes, ParseByteArray, ParseView, Parse, ExportBuffer, memory
<1>5. PICK n : n = k
  OBVIOUS
<1>6. PICK o : o = next
  OBVIOUS
<1>7. items'[n] = o /\ n = Len(inputs) + 1 /\ n <= Len(items) /\ n \in DOMAIN items'
  BY <1>1, <1>5, <1>6
<1>8. Value(items[n])' \in seen'[n]
  BY <1>2, <1>3, <1>7 DEF SeenInv
<1>9. Value(o)' \in seen'[n]
  BY <1>7, <1>8 DEF Value
<1>10. CASE ParseBytes
  <2>1. PICK input : input = OwnedInput(Data[o]) /\ inputs' = Append(inputs, input)
    BY <1>6, <1>10 DEF ParseBytes, Parse
  <2>2. inputs'[n] = input /\ pc' = "parsing"
    BY <1>1, <1>5, <1>10, <2>1, AppendIsSeq DEF ParseBytes, Parse
  <2>3. o \in Bytes
    BY <1>6, <1>10 DEF ParseBytes
  <2>4. Data[o] \in seen'[n]
    BY <1>9, <2>3 DEF Value
  <2>5. OwnedOf(n)'
    <3>1. inputs'[n] = OwnedInput(Data[o])
      BY <2>1, <2>2
    <3>. QED BY <2>4, <3>1 DEF OwnedOf, Good, OwnedInput
  <2>. QED BY <1>1, <1>2, <1>7, <2>1, <2>2, <2>5, ParseAppends
<1>11. CASE ParseByteArray \/ ParseView
  <2>1. /\ o \in ByteArrays \union Views /\ pc' = "parsing"
    BY <1>1, <1>6, <1>11 DEF ParseByteArray, ParseView, Parse
  <2>2. Owner(o) \in ByteArrays /\ Value(o) = content[Owner(o)] /\ Value(o)' = content'[Owner(o)]
    BY <2>1, ValueOfOwner
  <2>3. PICK input :
          /\ inputs' = Append(inputs, input)
          /\ \/ input = OwnedInput(content[Owner(o)])
             \/ /\ ~freeThreaded
                /\ input = RefInput(Owner(o)) \/ input = BufferInput(Owner(o), FALSE)
    <3>1. CASE ParseByteArray
      <4>1. Owner(o) = o
        BY <1>6, <3>1 DEF ParseByteArray, Owner
      <4>. QED BY <1>6, <3>1, <4>1 DEF ParseByteArray, Parse
    <3>2. CASE ParseView
      <4>1. Owner(o) = Base[o]
        BY <1>6, <3>2, PackedBatchAssumption DEF ParseView, Owner
      <4>. QED BY <1>6, <3>2, <4>1 DEF ParseView, Parse
    <3>. QED BY <1>11, <3>1, <3>2
  <2>4. inputs'[n] = input
    BY <1>1, <1>5, <2>3, AppendIsSeq
  <2>5. CASE input = OwnedInput(content[Owner(o)])
    <3>1. OwnedOf(n)'
      BY <1>4, <1>9, <2>2, <2>4, <2>5 DEF OwnedOf, Good, OwnedInput
    <3>. QED BY <1>1, <1>2, <1>7, <2>1, <2>3, <3>1, ParseAppends
  <2>6. CASE ~freeThreaded /\ (input = RefInput(Owner(o)) \/ input = BufferInput(Owner(o), FALSE))
    <3>1. input.kind \in {"ref", "buffer"} /\ input.base = Owner(o)
      BY <2>6 DEF RefInput, BufferInput
    <3>2. ReferenceOf(n)'
      BY <1>7, <1>9, <2>1, <2>2, <2>4, <2>6, <3>1 DEF ReferenceOf, Good, build, Owner
    <3>. QED BY <1>1, <1>2, <1>7, <2>1, <2>3, <3>2, ParseAppends
  <2>. QED BY <2>3, <2>5, <2>6
<1>12. CASE ExportBuffer
  <2>1. o \in Exporters /\ o \notin ByteArrays
    BY <1>6, <1>12, PackedBatchAssumption DEF ExportBuffer
  <2>2. /\ Owner(o) = Base[o] /\ Owner(o) \in ByteArrays
        /\ Value(o) = content[Owner(o)] /\ Value(o)' = content'[Owner(o)]
    BY <2>1, ValueOfOwner DEF Owner
  <2>3. CASE freeThreaded
    <3>1. PICK input : /\ input = [kind |-> "copying", base |-> Base[o], data |-> <<>>]
                       /\ inputs' = Append(inputs, input)
      BY <1>6, <1>12, <2>3 DEF ExportBuffer
    <3>2. inputs'[n] = input /\ Len(inputs') = n /\ pc' = "copying"
      BY <1>1, <1>5, <1>12, <2>3, <3>1, AppendIsSeq DEF ExportBuffer, Goto
    <3>3. freeThreaded' /\ Torn(n)' /\ MadeOf(seen'[n], inputs'[n].data)
      BY <1>7, <2>1, <2>3, <3>1, <3>2 DEF Torn, MadeOf, build
    <3>4. CopyingOf(n)'
      BY <1>7, <2>1, <3>1, <3>2, <3>3, EmptyIsSeq DEF CopyingOf, Good
    <3>. QED BY <1>1, <1>2, <1>7, <3>1, <3>2, <3>3, <3>4, ParseAppends
  <2>4. CASE ~freeThreaded
    <3>1. PICK input : input = BufferInput(Base[o], TRUE) /\ inputs' = Append(inputs, input)
      BY <1>6, <1>12, <2>4 DEF ExportBuffer
    <3>2. inputs'[n] = input /\ pc' = "parsing"
      BY <1>1, <1>5, <1>12, <2>4, <3>1, AppendIsSeq DEF ExportBuffer
    <3>3. ReferenceOf(n)'
      BY <1>7, <1>9, <2>1, <2>2, <2>4, <3>1, <3>2 DEF ReferenceOf, Good, build, Owner, BufferInput
    <3>. QED BY <1>1, <1>2, <1>7, <3>1, <3>2, <3>3, ParseAppends
  <2>. QED BY <2>3, <2>4
<1>. QED BY <1>10, <1>11, <1>12

(* The first steps of a call that only has exact bytes objects.            *)
LEMMA ExactInputs ==
  ASSUME IInv, CallStep, Witness(items), UNCHANGED build,
         StartExact \/ (EndCapture /\ pc' # "parsing")
  PROVE  InputsInv'
<1>1. SeenInv' /\ written' = <<>> /\ pc' # "copying"
  BY HistoryGrows DEF StartExact, EndCapture, IInv, ProgressInv, Goto, Fail
<1>2. /\ items' \in Seq(Objects)
      /\ \/ pc' = "dropping"
         \/ /\ DOMAIN inputs' = DOMAIN items'
            /\ \A k \in DOMAIN items' : items'[k] \in Bytes /\ inputs'[k] = OwnedInput(Data[items'[k]])
  BY DEF StartExact, EndCapture, IInv, TypeInv, AllExact, Goto, Fail
<1>3. CASE pc' = "dropping"
  BY <1>3 DEF InputsInv
<1>4. CASE pc' # "dropping"
  <2>1. \A k \in DOMAIN inputs' : OwnedOf(k)' /\ ~Overlaps(inputs[k])'
    BY <1>1, <1>2, <1>4, ExactOwned
  <2>. QED BY <1>1, <2>1 DEF InputsInv
<1>. QED BY <1>3, <1>4

(* Steps that leave the inputs alone and write nothing.                    *)
LEMMA SameInputs ==
  ASSUME IInv, CallStep, Witness(items), UNCHANGED build, inputs' = inputs, written' = <<>>,
         pc \notin {"start", "capturing", "copying"}, pc' # "copying",
         pc \in {"parsing", "copying", "entering", "writing", "hashing"},
         pc' \in {"entering", "writing"} => \A k \in DOMAIN inputs : ~Overlaps(inputs[k])',
         Len(inputs) <= Len(items)
  PROVE  InputsInv'
<1>1. IsSeq(inputs) /\ items' = items /\ DOMAIN inputs \subseteq DOMAIN items
  BY IsSeqFacts, ItemsStay DEF IInv, TypeInv
<1>2. ASSUME NEW k \in DOMAIN inputs PROVE OwnedOf(k)' \/ ReferenceOf(k)'
  <2>1. OwnedOf(k) \/ ReferenceOf(k)
    BY DEF IInv, InputsInv, CopyingOf
  <2>. QED BY <1>1, <2>1, InputKept
<1>. QED BY <1>2 DEF InputsInv

(* A slot of memory that other threads write is copied.                    *)
LEMMA CopyInputs ==
  ASSUME IInv, CopySlot, Witness(items), UNCHANGED build
  PROVE  InputsInv'
<1>. DEFINE last == Len(inputs)
<1>1. PICK k : k = last
  OBVIOUS
<1>2. /\ IsSeq(inputs) /\ k \in 1 .. Len(inputs) /\ DOMAIN inputs = 1 .. Len(inputs)
      /\ items \in Seq(Objects) /\ items' = items /\ Len(inputs) <= Len(items) /\ pc = "copying"
      /\ content' = content /\ written = <<>> /\ written' = <<>>
  BY <1>1, IsSeqFacts, ItemsStay DEF CopySlot, IInv, TypeInv, ProgressInv, memory
<1>3. CopyingOf(k) /\ freeThreaded
  BY <1>1, <1>2 DEF IInv, InputsInv
<1>4. /\ SeenInv' /\ k \in DOMAIN items /\ k \in DOMAIN items' /\ seen[k] \subseteq seen'[k]
  BY <1>2, HistoryGrows DEF CallStep
<1>5. PICK o \in Exporters : o = items[k]
  BY <1>3 DEF CopyingOf
<1>6. /\ Owner(o) = Base[o] /\ Base[o] \in ByteArrays /\ Value(o)' = content'[Base[o]]
  BY ValueOfOwner, PackedBatchAssumption DEF Owner
<1>7. content[Base[o]] \in seen'[k]
  <2>1. Value(items[k])' \in seen'[k]
    BY <1>2, <1>4 DEF SeenInv
  <2>2. Value(items[k])' = Value(o)'
    BY <1>2, <1>5 DEF Value
  <2>. QED BY <1>2, <1>6, <2>1, <2>2
<1>8. /\ inputs[k].kind = "copying" /\ inputs[k].base = Base[o] /\ IsSeq(inputs[k].data)
      /\ Good(k, inputs[k].data) /\ Torn(k) /\ Torn(k)'
  BY <1>2, <1>3, <1>5 DEF CopyingOf, Torn, build
<1>9. inputs[k].data \in seen'[k] \/ MadeOf(seen'[k], inputs[k].data)
  BY <1>4, <1>8, MadeOfGrows DEF Good
<1>10. MadeOf(seen'[k], inputs[k].data)
  BY <1>9 DEF MadeOf
<1>11. \A i \in DOMAIN inputs \ {k} : inputs'[i] = inputs[i]
  BY <1>1, <1>2 DEF CopySlot
<1>12. IsSeq(inputs') /\ Len(inputs') = Len(inputs) /\ DOMAIN inputs' = DOMAIN inputs
  <2>1. PICK input : inputs' = [inputs EXCEPT ![Len(inputs)] = input]
    BY DEF CopySlot
  <2>. QED BY <1>1, <1>2, <2>1, ReplaceIsSeq, IsSeqFacts
<1>13. ASSUME NEW i \in DOMAIN inputs \ {k} PROVE OwnedOf(i)' \/ ReferenceOf(i)'
  <2>1. OwnedOf(i) \/ ReferenceOf(i)
    BY <1>1, <1>2 DEF IInv, InputsInv, CopyingOf
  <2>2. i \in DOMAIN items
    BY <1>2
  <2>. QED BY <1>2, <1>11, <2>1, <2>2, InputKept DEF CallStep
<1>. DEFINE at == Len(inputs[k].data) + 1
<1>14. CASE at <= Len(content[Base[o]])
  <2>1. /\ inputs' = [inputs EXCEPT ![k].data = Append(@, content[Base[o]][at])]
        /\ pc' = pc
    BY <1>1, <1>8, <1>14 DEF CopySlot
  <2>2. /\ inputs'[k].kind = "copying" /\ inputs'[k].base = Base[o]
        /\ inputs'[k].data = Append(inputs[k].data, content[Base[o]][at])
    BY <1>2, <1>8, <2>1
  <2>3. at \in DOMAIN content[Base[o]] /\ Len(inputs[k].data) \in Nat
    <3>1. IsSeq(content[Base[o]])
      BY <1>6 DEF IInv, TypeInv
    <3>. QED BY <1>8, <1>14, <3>1, IsSeqFacts
  <2>4. IsSeq(inputs'[k].data) /\ MadeOf(seen'[k], inputs'[k].data)
    <3>1. /\ IsSeq(inputs'[k].data) /\ DOMAIN inputs'[k].data = 1 .. at
          /\ DOMAIN inputs[k].data = 1 .. at - 1
          /\ \A i \in 1 .. at - 1 : inputs'[k].data[i] = inputs[k].data[i]
          /\ inputs'[k].data[at] = content[Base[o]][at]
      BY <1>8, <2>2, <2>3, AppendIsSeq, IsSeqFacts
    <3>2. ASSUME NEW i \in 1 .. at
          PROVE  \E bytes \in seen'[k] : i \in DOMAIN bytes /\ inputs'[k].data[i] = bytes[i]
      <4>1. CASE i = at
        <5>1. i \in DOMAIN content[Base[o]] /\ inputs'[k].data[i] = content[Base[o]][i]
          BY <2>3, <3>1, <4>1
        <5>. QED BY <1>7, <5>1
      <4>2. CASE i # at
        <5>1. i \in DOMAIN inputs[k].data /\ inputs'[k].data[i] = inputs[k].data[i]
          BY <2>3, <3>1, <4>2
        <5>. QED BY <1>10, <5>1 DEF MadeOf
      <4>. QED BY <4>1, <4>2
    <3>. QED BY <3>1, <3>2 DEF MadeOf
  <2>5. CopyingOf(k)' /\ freeThreaded'
    BY <1>1, <1>2, <1>3, <1>5, <1>8, <1>12, <2>1, <2>2, <2>4 DEF CopyingOf, Good, build
  <2>. QED BY <1>1, <1>2, <1>12, <1>13, <2>1, <2>5 DEF InputsInv
<1>15. CASE ~(at <= Len(content[Base[o]]))
  <2>1. inputs' = [inputs EXCEPT ![k] = OwnedInput(inputs[k].data)] /\ pc' = "parsing"
    BY <1>1, <1>8, <1>15 DEF CopySlot, Goto
  <2>2. inputs'[k] = OwnedInput(inputs[k].data)
    BY <1>2, <2>1
  <2>3. OwnedOf(k)'
    BY <1>8, <1>10, <2>2 DEF OwnedOf, OwnedInput, Good
  <2>. QED BY <1>1, <1>2, <1>12, <1>13, <2>1, <2>3 DEF InputsInv
<1>. QED BY <1>14, <1>15

(* A slot of the output is written while inputs refer to other bytearrays. *)
LEMMA WriteInputs ==
  ASSUME IInv, WriteSlot, Witness(items), UNCHANGED build
  PROVE  InputsInv'
<1>1. /\ pc = "writing" /\ pc' = pc /\ inputs' = inputs /\ IsSeq(inputs)
      /\ Len(inputs) = Len(items) /\ items \in Seq(Objects) /\ IsSeq(content[out]) /\ IsSeq(written)
      /\ Len(items) <= Len(content[out]) /\ Len(written) + 1 <= Len(items)
  BY PackedBatchAssumption DEF WriteSlot, IInv, TypeInv, ProgressInv
<1>2. content[out] # <<>> /\ DOMAIN inputs = DOMAIN items
  BY <1>1, IsSeqFacts
<1>3. /\ content' = [content EXCEPT ![out] = content'[out]] /\ Len(content'[out]) = Len(content[out])
  BY WriteKeepsLength
<1>4. ASSUME NEW k \in DOMAIN inputs
      PROVE  (OwnedOf(k) \/ ReferenceOf(k))' /\ ~Overlaps(inputs[k])'
  <2>1. ~Overlaps(inputs[k]) /\ (OwnedOf(k) \/ ReferenceOf(k))
    BY <1>1 DEF IInv, InputsInv, CopyingOf
  <2>2. k \in DOMAIN items' /\ items'[k] = items[k] /\ seen[k] \subseteq seen'[k]
    BY <1>2, HistoryGrows DEF CallStep
  <2>3. CASE OwnedOf(k)
    <3>1. OwnedOf(k)' /\ inputs[k].kind = "owned"
      BY <1>1, <2>2, <2>3, OwnedKept DEF OwnedOf
    <3>. QED BY <1>1, <3>1 DEF Overlaps
  <2>4. CASE ReferenceOf(k)
    <3>1. inputs[k].base # out
      BY <1>2, <2>1, <2>4 DEF ReferenceOf, Overlaps
    <3>2. content'[inputs[k].base] = content[inputs[k].base]
      <4>1. PICK o \in ByteArrays \union Views \union Exporters : o = items[k]
        BY <2>4 DEF ReferenceOf
      <4>2. inputs[k].base \in ByteArrays
        BY <2>4, <4>1, ValueOfOwner DEF ReferenceOf
      <4>3. content = [b \in ByteArrays |-> content[b]]
        BY DEF IInv, TypeInv
      <4>. QED BY <1>3, <3>1, <4>2, <4>3
    <3>3. Good(k, content[inputs[k].base]) /\ ~Torn(k)
      BY <2>4 DEF ReferenceOf, Torn
    <3>4. content'[inputs[k].base] \in seen'[k]
      BY <2>2, <3>2, <3>3 DEF Good
    <3>5. ReferenceOf(k)'
      BY <1>1, <2>2, <2>4, <3>4 DEF ReferenceOf, Good, build
    <3>. QED BY <1>1, <3>1, <3>5 DEF Overlaps
  <2>. QED BY <2>1, <2>3, <2>4
<1>. QED BY <1>1, <1>4 DEF InputsInv

(* Parsed inputs stay good to read as long as they are needed.             *)
LEMMA InputsInvStep ==
  ASSUME IInv, CallStep, Witness(items), UNCHANGED build
  PROVE  InputsInv'
<1>1. CASE StartExact \/ (EndCapture /\ pc' # "parsing")
  BY <1>1, ExactInputs
<1>2. CASE StartList \/ (EndCapture /\ pc' = "parsing")
  <2>1. inputs' = <<>> /\ pc' \in {"parsing", "dropping"}
    BY <1>2 DEF StartList, EndCapture, IInv, ProgressInv, Goto, Fail
  <2>. QED BY <2>1 DEF InputsInv
<1>3. CASE ParseBytes \/ ParseByteArray \/ ParseView \/ ExportBuffer
  BY <1>3, ParseInputs
<1>4. CASE CopySlot
  BY <1>4, CopyInputs
<1>5. CASE BeginExport
  <2>1. inputs' = inputs /\ written' = <<>> /\ pc = "parsing" /\ pc' = pc /\ Len(inputs) <= Len(items)
    BY <1>5 DEF BeginExport, Parsing, IInv, ProgressInv
  <2>. QED BY <2>1, SameInputs
<1>6. CASE EndParse
  <2>1. inputs' = inputs /\ written' = <<>> /\ pc = "parsing" /\ Len(inputs) <= Len(items) /\ pc' # "copying"
    BY <1>6 DEF EndParse, IInv, ProgressInv, Goto
  <2>2. pc' \in {"entering", "writing"} => \A k \in DOMAIN inputs : ~Overlaps(inputs[k])'
    BY <1>6 DEF EndParse, Goto, DirectSafe, Overlaps, memory
  <2>. QED BY <2>1, <2>2, SameInputs
<1>7. CASE EnterOutput
  <2>1. inputs' = inputs /\ written' = <<>> /\ pc = "entering" /\ Len(inputs) <= Len(items) /\ pc' # "copying"
    <3>1. Len(items) \in Nat
      BY DEF IInv, TypeInv
    <3>. QED BY <1>7, <3>1 DEF EnterOutput, IInv, ProgressInv, Goto, Fail
  <2>2. \A k \in DOMAIN inputs : ~Overlaps(inputs[k])'
    BY <1>7, <2>1 DEF EnterOutput, IInv, InputsInv, Overlaps, memory
  <2>. QED BY <2>1, <2>2, SameInputs
<1>8. CASE HashItem
  <2>1. inputs' = inputs /\ written' = <<>> /\ pc = "hashing" /\ Len(inputs) <= Len(items) /\ pc' = pc
    <3>1. Len(items) \in Nat
      BY DEF IInv, TypeInv
    <3>. QED BY <1>8, <3>1 DEF HashItem, IInv, ProgressInv
  <2>. QED BY <2>1, SameInputs
<1>9. CASE WriteSlot
  BY <1>9, WriteInputs
<1>10. CASE \/ StartCapture \/ Capture \/ ParseFails \/ LeaveOutput \/ Reattach \/ Drop
            \/ HookReturns \/ AllocateList \/ ReturnList \/ Return \/ DropItems \/ Publish
  <2>1. pc' \in {"capturing", "dropping", "published", "leaving", "listing", "returned", "raised"}
    BY <1>10 DEF StartCapture, Capture, ParseFails, LeaveOutput, Reattach, Drop, HookReturns,
                 AllocateList, ReturnList, Return, DropItems, Publish, Goto, Fail
  <2>. QED BY <2>1 DEF InputsInv
<1>. QED BY <1>1, <1>2, <1>3, <1>4, <1>5, <1>6, <1>7, <1>8, <1>9, <1>10 DEF CallStep
----------------------------------------------------------------------------
(* What the hash loop finds for an item is something the item contained,   *)
(* because the call reads borrowed bytes objects only while the list that  *)
(* keeps them alive cannot change.                                         *)
LEMMA ReadIsGood ==
  ASSUME IInv, pc \in {"hashing", "writing"}, NEW CONSTANT k \in 1 .. Len(items)
  PROVE  Good(k, Read(k))
<1>1. /\ items \in Seq(Objects) /\ IsSeq(inputs) /\ Len(inputs) = Len(items)
  BY DEF IInv, TypeInv, ProgressInv
<1>2. k \in DOMAIN inputs /\ k \in DOMAIN items
  BY <1>1, IsSeqFacts
<1>3. OwnedOf(k) \/ ReferenceOf(k)
  BY <1>2 DEF IInv, InputsInv, CopyingOf
<1>4. Good(k, Stable(inputs[k]))
  BY <1>3 DEF OwnedOf, ReferenceOf, Stable
<1>5. held \/ items[k] \in Range(list)
  BY <1>2 DEF IInv, QuietInv, Range
<1>. QED BY <1>4, <1>5 DEF Read

LEMMA GoodGrows ==
  ASSUME NEW CONSTANT k, NEW CONSTANT v, Good(k, v), UNCHANGED build, items'[k] = items[k],
         seen[k] \subseteq seen'[k]
  PROVE  Good(k, v)'
<1>1. CASE v \in seen[k]
  BY <1>1 DEF Good
<1>2. CASE Torn(k) /\ MadeOf(seen[k], v)
  <2>1. MadeOf(seen'[k], v)
    BY <1>2, MadeOfGrows
  <2>. QED BY <1>2, <2>1 DEF Good, Torn, build
<1>. QED BY <1>1, <1>2 DEF Good

LEMMA DigestIsGood ==
  ASSUME NEW CONSTANT k, NEW CONSTANT v, Good(k, v)
  PROVE  GoodDigest(k, Digest(v))
  BY DEF GoodDigest, Digest

(* Digests that a step keeps stay good.                                    *)
LEMMA DigestsKept ==
  ASSUME IInv, CallStep \/ OutsideStep, Witness(items), UNCHANGED build
  PROVE  /\ \A k \in DOMAIN staged : GoodDigest(k, staged[k])' \/ staged'[k] # staged[k]
         /\ \A k \in DOMAIN written : GoodDigest(k, written[k])' \/ written'[k] # written[k]
<1>1. /\ items \in Seq(Objects) /\ IsSeq(staged) /\ IsSeq(written)
      /\ \A k \in DOMAIN items : k \in DOMAIN items' /\ items'[k] = items[k] /\ seen[k] \subseteq seen'[k]
  BY HistoryGrows DEF IInv, TypeInv
<1>2. pc \notin {"returned", "raised"}
  BY DEF CallStep, StartExact, StartList, StartCapture, Capture, EndCapture, ParseBytes,
     ParseByteArray, ParseView, BeginExport, ExportBuffer, CopySlot, ParseFails, EndParse, Parsing,
     EnterOutput, WriteSlot, LeaveOutput, HashItem, Reattach, Drop, HookReturns, AllocateList,
     ReturnList, Return, DropItems, Publish, OutsideStep, SetContent, ChangeList, ReleaseView,
     Outside, Finished
<1>3. /\ Len(items) \in Nat /\ DOMAIN items = 1 .. Len(items)
      /\ Len(staged) \in Nat /\ DOMAIN staged = 1 .. Len(staged)
      /\ Len(written) \in Nat /\ DOMAIN written = 1 .. Len(written)
      /\ (staged # <<>> \/ Len(staged) = 0) /\ (written # <<>> \/ Len(written) = 0)
  BY <1>1, IsSeqFacts
<1>4. DOMAIN staged \subseteq DOMAIN items
  <2>1. CASE staged # <<>>
    <3>1. pc \in {"hashing", "dropping", "published", "leaving", "listing"}
      BY <1>2, <2>1 DEF IInv, ProgressInv
    <3>2. CASE pc = "listing"
      BY <1>3, <3>2 DEF IInv, ProgressInv
    <3>3. CASE pc \in {"hashing", "dropping", "published", "leaving"}
      <4>1. Len(staged) <= Len(items)
        BY <3>3 DEF IInv, ProgressInv
      <4>. QED BY <1>3, <4>1
    <3>. QED BY <3>1, <3>2, <3>3
  <2>2. CASE staged = <<>>
    BY <2>2
  <2>. QED BY <2>1, <2>2
<1>5. DOMAIN written \subseteq DOMAIN items
  <2>1. CASE written # <<>>
    <3>1. pc \in {"writing", "dropping", "published", "leaving"} /\ ~error
      BY <1>2, <2>1 DEF IInv, ProgressInv
    <3>2. CASE pc = "writing"
      BY <1>3, <3>2 DEF IInv, ProgressInv
    <3>3. CASE pc \in {"dropping", "published", "leaving"}
      BY <1>3, <2>1, <3>1, <3>3 DEF IInv, ProgressInv
    <3>. QED BY <3>1, <3>2, <3>3
  <2>2. CASE written = <<>>
    BY <2>2
  <2>. QED BY <2>1, <2>2
<1>6. ASSUME NEW k \in DOMAIN staged, staged'[k] = staged[k] PROVE GoodDigest(k, staged[k])'
  <2>1. PICK v : v = staged[k][1]
    OBVIOUS
  <2>2. staged[k] = Digest(v) /\ Good(k, v)
    BY <2>1 DEF IInv, DigestsInv, GoodDigest
  <2>3. Good(k, v)'
    BY <1>1, <1>4, <2>2, GoodGrows
  <2>. QED BY <1>6, <2>1, <2>2, <2>3 DEF GoodDigest, Digest
<1>7. ASSUME NEW k \in DOMAIN written, written'[k] = written[k] PROVE GoodDigest(k, written[k])'
  <2>1. PICK v : v = written[k][1]
    OBVIOUS
  <2>2. written[k] = Digest(v) /\ Good(k, v)
    BY <2>1 DEF IInv, DigestsInv, GoodDigest
  <2>3. Good(k, v)'
    BY <1>1, <1>5, <2>2, GoodGrows
  <2>. QED BY <1>7, <2>1, <2>2, <2>3 DEF GoodDigest, Digest
<1>. QED BY <1>6, <1>7

(* One more digest of what the loop reads.                                 *)
LEMMA NextDigest ==
  ASSUME IInv, CallStep, Witness(items), UNCHANGED build, pc \in {"hashing", "writing"},
         NEW CONSTANT k \in 1 .. Len(items), NEW CONSTANT v, v = Read(k)
  PROVE  Good(k, v)'
<1>1. k \in DOMAIN items
  BY DEF IInv, TypeInv
<1>. QED BY <1>1, ReadIsGood, HistoryGrows, GoodGrows

(* Digests stay good, and new ones are.                                    *)
LEMMA DigestsInvStep ==
  ASSUME IInv, CallStep, Witness(items), UNCHANGED build
  PROVE  DigestsInv'
<1>1. /\ IsSeq(staged) /\ IsSeq(written) /\ Len(items) \in Nat
      /\ Len(staged) \in Nat /\ DOMAIN staged = 1 .. Len(staged)
      /\ Len(written) \in Nat /\ DOMAIN written = 1 .. Len(written)
  BY IsSeqFacts DEF IInv, TypeInv
<1>2. CASE HashItem
  <2>1. PICK k : k = Len(staged) + 1
    OBVIOUS
  <2>2. PICK v : v = Read(k)
    OBVIOUS
  <2>3. k \in 1 .. Len(items) /\ staged' = Append(staged, Digest(v)) /\ written' = written
    BY <1>1, <1>2, <2>1, <2>2 DEF HashItem
  <2>4. Good(k, v)'
    BY <1>2, <2>2, <2>3, NextDigest DEF HashItem
  <2>5. DOMAIN staged' = 1 .. k /\ staged'[k] = Digest(v) /\ \A i \in 1 .. Len(staged) : staged'[i] = staged[i]
    BY <1>1, <2>1, <2>3, AppendIsSeq, IsSeqFacts
  <2>6. GoodDigest(k, staged[k])'
    BY <2>4, <2>5 DEF GoodDigest, Digest
  <2>. QED BY <1>1, <2>1, <2>3, <2>5, <2>6, DigestsKept DEF DigestsInv
<1>3. CASE WriteSlot
  <2>1. PICK k : k = Len(written) + 1
    OBVIOUS
  <2>2. PICK v : v = Read(k)
    OBVIOUS
  <2>3. k \in 1 .. Len(items) /\ written' = Append(written, Digest(v)) /\ staged' = staged
    BY <1>1, <1>3, <2>1, <2>2 DEF WriteSlot
  <2>4. Good(k, v)'
    BY <1>3, <2>2, <2>3, NextDigest DEF WriteSlot
  <2>5. DOMAIN written' = 1 .. k /\ written'[k] = Digest(v) /\ \A i \in 1 .. Len(written) : written'[i] = written[i]
    BY <1>1, <2>1, <2>3, AppendIsSeq, IsSeqFacts
  <2>6. GoodDigest(k, written[k])'
    BY <2>4, <2>5 DEF GoodDigest, Digest
  <2>. QED BY <1>1, <2>1, <2>3, <2>5, <2>6, DigestsKept DEF DigestsInv
<1>4. CASE staged' = staged /\ written' \in {written, staged}
  <2>1. \A k \in DOMAIN staged' : GoodDigest(k, staged[k])'
    BY <1>4, DigestsKept
  <2>2. \A k \in DOMAIN written' : GoodDigest(k, written[k])'
    <3>1. CASE written' = written
      BY <3>1, DigestsKept
    <3>2. CASE written' = staged
      BY <1>4, <2>1, <3>2 DEF GoodDigest
    <3>. QED BY <1>4, <3>1, <3>2
  <2>. QED BY <2>1, <2>2 DEF DigestsInv
<1>5. CallStep => HashItem \/ WriteSlot \/ (staged' = staged /\ written' \in {written, staged})
  BY DEF CallStep, StartExact, StartList, StartCapture, Capture, EndCapture, ParseBytes,
     ParseByteArray, ParseView, Parse, BeginExport, ExportBuffer, CopySlot, ParseFails, EndParse,
     EnterOutput, LeaveOutput, Reattach, Drop, HookReturns, AllocateList, ReturnList, Return,
     DropItems, Publish
<1>. QED BY <1>2, <1>3, <1>4, <1>5

(* The output holds what the call has written.                             *)
LEMMA OutputInvStep ==
  ASSUME IInv, CallStep, Witness(items), UNCHANGED build
  PROVE  OutputInv'
<1>1. /\ out \in ByteArrays /\ IsSeq(content[out]) /\ IsSeq(content'[out])
      /\ IsSeq(written) /\ IsSeq(written')
  BY TypeInvStep, PackedBatchAssumption DEF IInv, TypeInv
<1>2. /\ Len(content[out]) \in Nat /\ Len(content'[out]) \in Nat /\ Len(written) \in Nat
      /\ Len(written') \in Nat
      /\ (written = <<>> <=> Len(written) = 0) /\ (written' = <<>> <=> Len(written') = 0)
      /\ DOMAIN content[out] = 1 .. Len(content[out])
  BY <1>1, IsSeqFacts
<1>3. CASE written' = <<>>
  BY <1>2, <1>3 DEF OutputInv
<1>4. CASE content' = content /\ written' = written /\ written # <<>>
  <2>1. Undisturbed' => Undisturbed
    <3>1. kept' => kept
      BY DEF Witness
    <3>2. pc \in {"writing", "dropping", "published", "leaving", "returned"}
      BY <1>4 DEF IInv, ProgressInv
    <3>3. pc = "leaving" => Return \/ AllocateList
      BY DEF CallStep, StartExact, StartList, StartCapture, Capture, EndCapture, ParseBytes,
         ParseByteArray, ParseView, BeginExport, ExportBuffer, CopySlot, ParseFails, EndParse,
         Parsing, EnterOutput, WriteSlot, LeaveOutput, HashItem, Reattach, Drop, HookReturns,
         Publish, DropItems, ReturnList
    <3>4. CASE pc = "leaving"
      BY <3>1, <3>3, <3>4 DEF Return, AllocateList, Goto, Undisturbed, IInv, KeptInv
    <3>5. CASE pc = "returned"
      BY <3>5 DEF CallStep, StartExact, StartList, StartCapture, Capture, EndCapture, ParseBytes,
         ParseByteArray, ParseView, BeginExport, ExportBuffer, CopySlot, ParseFails, EndParse,
         Parsing, EnterOutput, WriteSlot, LeaveOutput, HashItem, Reattach, Drop, HookReturns,
         Publish, DropItems, Return, AllocateList, ReturnList
    <3>. QED BY <3>2, <3>4, <3>5 DEF Undisturbed
  <2>. QED BY <1>4, <2>1 DEF IInv, OutputInv, build
<1>5. CASE WriteSlot /\ into /\ ~freeThreaded
  <2>1. PICK k : k = Len(written) + 1
    OBVIOUS
  <2>2. PICK e : e = Digest(Read(k))
    OBVIOUS
  <2>3. /\ written' = Append(written, e) /\ content'[out] = [content[out] EXCEPT ![k] = e]
        /\ Len(content'[out]) = Len(content[out])
    BY <1>5, <2>1, <2>2, WriteKeepsLength DEF WriteSlot
  <2>4. pc = "writing" /\ k <= Len(content[out])
    <3>1. Len(items) \in Nat
      BY DEF IInv, TypeInv
    <3>. QED BY <1>2, <1>5, <2>1, <3>1 DEF WriteSlot, IInv, ProgressInv
  <2>5. \A i \in 1 .. Len(written) : content[out][i] = written[i]
    BY <1>5, <2>4 DEF IInv, OutputInv, Undisturbed
  <2>6. /\ Len(written') = k /\ written'[k] = e /\ \A i \in 1 .. Len(written) : written'[i] = written[i]
    BY <1>1, <2>1, <2>3, AppendIsSeq
  <2>7. \A i \in 1 .. k : content'[out][i] = written'[i]
    BY <1>2, <2>1, <2>3, <2>4, <2>5, <2>6
  <2>. QED BY <2>3, <2>4, <2>6, <2>7 DEF OutputInv
<1>6. CASE Publish /\ CapacitySuffices(Len(staged))
  BY <1>6, PublishKeepsLength DEF OutputInv, Publish
<1>7. CASE ReturnList
  BY <1>7 DEF ReturnList, OutputInv, IInv, ProgressInv, build
<1>8. CASE ~(into /\ ~freeThreaded)
  BY <1>8 DEF OutputInv, build
<1>9. CallStep => \/ written' = written /\ content' = content
                  \/ WriteSlot \/ ReturnList
                  \/ Publish /\ (CapacitySuffices(Len(staged)) \/ written' = <<>>)
  BY DEF CallStep, StartExact, StartList, StartCapture, Capture, EndCapture, ParseBytes,
     ParseByteArray, ParseView, Parse, BeginExport, ExportBuffer, CopySlot, ParseFails, EndParse,
     EnterOutput, LeaveOutput, HashItem, Reattach, Drop, HookReturns, AllocateList, Return,
     DropItems, Publish, Staging, memory
<1>. QED BY <1>3, <1>4, <1>5, <1>6, <1>7, <1>8, <1>9
----------------------------------------------------------------------------
(* Other code. It runs with the GIL only where the call lets it, and then  *)
(* the call has no borrowed memory and writes nothing.                     *)
LEMMA OutsideKeepsOutput ==
  ASSUME IInv, OutsideStep
  PROVE  /\ ~freeThreaded => ~DirectPath
         /\ written # <<>> => freeThreaded \/ (pc = "leaving" /\ callback)
         /\ held \/ pc \notin {"entering", "writing", "hashing"}
         /\ pc = "writing" => content'[out] = content[out]
<1>1. OthersRun /\ ~Finished
  BY DEF OutsideStep, SetContent, ChangeList, ReleaseView, Outside
<1>2. ~freeThreaded => ~DirectPath
  BY <1>1 DEF OthersRun, IInv, QuietInv, DirectPath
<1>3. written # <<>> => freeThreaded \/ (pc = "leaving" /\ callback)
  BY <1>1, <1>2 DEF DirectPath, IInv, ProgressInv, QuietInv, OthersRun, Finished
<1>4. held \/ pc \notin {"entering", "writing", "hashing"}
  BY <1>1 DEF OthersRun, IInv, QuietInv
<1>5. ASSUME pc = "writing" PROVE content'[out] = content[out]
  <2>1. CASE content' = content
    BY <2>1
  <2>2. ASSUME NEW b \in ByteArrays, NEW bytes \in Contents, SetContent(b, bytes)
        PROVE  content'[out] = content[out]
    <3>1. b # out /\ content' = [content EXCEPT ![b] = bytes]
      BY <1>5, <2>2 DEF SetContent, OutputReachable, InOutputSection
    <3>. QED BY <3>1, PackedBatchAssumption DEF IInv, TypeInv
  <2>. QED BY <2>1, <2>2 DEF OutsideStep, ChangeList, ReleaseView
<1>. QED BY <1>2, <1>3, <1>4, <1>5

LEMMA OutsideTypes ==
  ASSUME IInv, OutsideStep
  PROVE  TypeInv'
<1>1. UNCHANGED <<pc, items, limit, inputs, staged, written>> /\ events' = events + 1
  BY DEF OutsideStep, SetContent, ChangeList, ReleaseView, Outside
<1>2. list' \in Seq(Objects)
  BY PackedBatchAssumption DEF OutsideStep, SetContent, ChangeList, ReleaseView, IInv, TypeInv
<1>3. content' = [b \in ByteArrays |-> content'[b]] /\ \A b \in ByteArrays : IsSeq(content'[b])
  <2>1. CASE content' = content
    BY <2>1 DEF IInv, TypeInv
  <2>2. ASSUME NEW b \in ByteArrays, NEW bytes \in Contents, SetContent(b, bytes)
        PROVE  content' = [a \in ByteArrays |-> content'[a]] /\ \A a \in ByteArrays : IsSeq(content'[a])
    <3>1. IsSeq(bytes)
      BY PackedBatchAssumption, SeqIsSeq
    <3>2. content' = [content EXCEPT ![b] = bytes]
      BY <2>2 DEF SetContent
    <3>. QED BY <3>1, <3>2 DEF IInv, TypeInv
  <2>. QED BY <2>1, <2>2 DEF OutsideStep, ChangeList, ReleaseView
<1>. QED BY <1>1, <1>2, <1>3 DEF IInv, TypeInv

LEMMA OutsideInputs ==
  ASSUME IInv, OutsideStep, Witness(items), UNCHANGED build
  PROVE  InputsInv'
<1>1. UNCHANGED <<pc, items, inputs, written>>
  BY DEF OutsideStep, SetContent, ChangeList, ReleaseView, Outside
<1>. SUFFICES ASSUME pc \in {"parsing", "copying", "entering", "writing", "hashing"}
              PROVE  InputsInv'
  BY <1>1 DEF InputsInv
<1>2. DOMAIN inputs \subseteq DOMAIN items
  <2>1. /\ items \in Seq(Objects) /\ Len(items) \in Nat /\ DOMAIN items = 1 .. Len(items)
        /\ Len(inputs) \in Nat /\ DOMAIN inputs = 1 .. Len(inputs)
    BY IsSeqFacts DEF IInv, TypeInv
  <2>2. Len(inputs) <= Len(items)
    <3>1. CASE pc \in {"parsing", "copying"}
      BY <3>1 DEF IInv, ProgressInv
    <3>2. CASE pc \in {"entering", "writing", "hashing"}
      <4>1. Len(inputs) = Len(items)
        BY <3>2 DEF IInv, ProgressInv
      <4>. QED BY <2>1, <4>1
    <3>. QED BY <3>1, <3>2
  <2>. QED BY <2>1, <2>2
<1>3. ASSUME NEW k \in DOMAIN inputs, CopyingOf(k) PROVE CopyingOf(k)'
  <2>1. PICK v : v = inputs[k].data
    OBVIOUS
  <2>2. Good(k, v)'
    BY <1>2, <1>3, <2>1, HistoryGrows, GoodGrows DEF CopyingOf
  <2>. QED BY <1>1, <1>3, <2>1, <2>2 DEF CopyingOf, Good
<1>4. ASSUME NEW k \in DOMAIN inputs
      PROVE  (OwnedOf(k) \/ (freeThreaded /\ CopyingOf(k)) \/ ReferenceOf(k))'
  <2>1. OwnedOf(k) \/ (freeThreaded /\ CopyingOf(k)) \/ ReferenceOf(k)
    BY DEF IInv, InputsInv
  <2>2. CASE OwnedOf(k)
    BY <1>1, <1>2, <2>2, HistoryGrows, OwnedKept
  <2>3. CASE freeThreaded /\ CopyingOf(k)
    BY <1>3, <2>3 DEF build
  <2>4. CASE ReferenceOf(k)
    <3>1. written' = <<>>
      BY <1>1, <2>4, OutsideKeepsOutput DEF ReferenceOf
    <3>. QED BY <1>1, <1>2, <2>4, <3>1, InputKept
  <2>. QED BY <2>1, <2>2, <2>3, <2>4
<1>5. pc = "copying" => (CopyingOf(Len(inputs)) /\ freeThreaded)'
  <2>1. ASSUME pc = "copying" PROVE (CopyingOf(Len(inputs)) /\ freeThreaded)'
    <3>1. PICK k : k = Len(inputs)
      OBVIOUS
    <3>2. k \in DOMAIN inputs
      BY <2>1, <3>1, IsSeqFacts DEF IInv, TypeInv, ProgressInv
    <3>3. CopyingOf(k) /\ freeThreaded
      BY <2>1, <3>1 DEF IInv, InputsInv
    <3>4. CopyingOf(k)'
      BY <1>3, <3>2, <3>3
    <3>. QED BY <1>1, <3>1, <3>3, <3>4 DEF CopyingOf, build
  <2>. QED BY <2>1
<1>6. ASSUME pc \in {"entering", "writing"}, NEW k \in DOMAIN inputs PROVE ~Overlaps(inputs[k])'
  <2>1. freeThreaded
    BY <1>6, OutsideKeepsOutput DEF DirectPath
  <2>2. inputs[k].kind = "owned"
    BY <1>6, <2>1 DEF IInv, InputsInv, OwnedOf, CopyingOf, ReferenceOf
  <2>. QED BY <1>1, <2>2 DEF Overlaps
<1>. QED BY <1>1, <1>4, <1>5, <1>6 DEF InputsInv

LEMMA OutsideInv ==
  ASSUME IInv, OutsideStep, Witness(items), UNCHANGED build
  PROVE  IInv'
<1>1. UNCHANGED <<pc, items, limit, held, inputs, staged, written, detached, callback, error>>
      /\ ~Finished
  BY DEF OutsideStep, SetContent, ChangeList, ReleaseView, Outside
<1>2. ProgressInv'
  BY <1>1, OutsideKeepsOutput DEF IInv, ProgressInv, build
<1>3. QuietInv'
  BY <1>1, OutsideKeepsOutput
  DEF IInv, QuietInv, Parsing, next, DirectPath, ReleaseMayReenter, build
<1>4. DigestsInv'
  BY <1>1, DigestsKept DEF DigestsInv
<1>5. OutputInv'
  <2>1. ASSUME Undisturbed', ~freeThreaded PROVE written' = <<>>
    BY <1>1, <2>1, OutsideKeepsOutput DEF Undisturbed
  <2>2. Len(content'[out]) \in Nat
    BY OutsideTypes, IsSeqFacts, PackedBatchAssumption DEF TypeInv
  <2>. QED BY <2>1, <2>2 DEF OutputInv, build
<1>. QED BY <1>2, <1>3, <1>4, <1>5, OutsideTypes, OutsideInputs, HistoryGrows,
        KeptInvStep DEF IInv
----------------------------------------------------------------------------
LEMMA InitInv ==
  ASSUME Init
  PROVE  IInv
<1>1. TypeInv
  <2>1. content = [b \in ByteArrays |-> content[b]] /\ \A b \in ByteArrays : content[b] \in Contents
    BY DEF Init
  <2>2. \A b \in ByteArrays : IsSeq(content[b])
    BY <2>1, PackedBatchAssumption, SeqIsSeq
  <2>. QED BY <2>1, <2>2, EmptyIsSeq, PackedBatchAssumption DEF Init, TypeInv, Labels
<1>2. ProgressInv
  BY DEF Init, ProgressInv
<1>3. QuietInv /\ KeptInv
  BY DEF Init, QuietInv, KeptInv, DirectPath, Parsing, ListKeepsItems
<1>4. InputsInv /\ SeenInv /\ DigestsInv /\ OutputInv
  BY DEF Init, InputsInv, SeenInv, DigestsInv, OutputInv
<1>. QED BY <1>1, <1>2, <1>3, <1>4 DEF IInv

LEMMA StutterInv ==
  ASSUME IInv, UNCHANGED vars
  PROVE  IInv'
<1>. USE DEF vars, build
<1>1. TypeInv'
  BY DEF IInv, TypeInv
<1>2. ProgressInv'
  BY DEF IInv, ProgressInv
<1>3. QuietInv' /\ KeptInv'
  BY DEF IInv, QuietInv, KeptInv, DirectPath, Parsing, next, ListKeepsItems
<1>4. InputsInv'
  BY DEF IInv, InputsInv, OwnedOf, CopyingOf, ReferenceOf, Overlaps, Good, Torn
<1>5. SeenInv'
  BY DEF IInv, SeenInv, Value
<1>6. DigestsInv'
  BY DEF IInv, DigestsInv, GoodDigest, Good, Torn
<1>7. OutputInv'
  BY DEF IInv, OutputInv, Undisturbed
<1>. QED BY <1>1, <1>2, <1>3, <1>4, <1>5, <1>6, <1>7 DEF IInv

LEMMA NextInv ==
  ASSUME IInv, [Next]_vars
  PROVE  IInv'
<1>1. CASE CallStep /\ Witness(items) /\ UNCHANGED build
  BY <1>1, TypeInvStep, ProgressInvStep, QuietInvStep, KeptInvStep, InputsInvStep, HistoryGrows,
     DigestsInvStep, OutputInvStep
  DEF IInv
<1>2. CASE OutsideStep /\ Witness(items) /\ UNCHANGED build
  BY <1>2, OutsideInv
<1>3. CASE UNCHANGED vars
  BY <1>3, StutterInv
<1>. QED BY <1>1, <1>2, <1>3 DEF Next

(* Every state of a batch call satisfies the inductive invariant: types,   *)
(* progress, when other code can run, what the parsed inputs read, the     *)
(* history of the items, the digests so far and the written output.        *)
THEOREM InvariantHolds == Spec => []IInv
<1>1. Init => IInv
  BY InitInv
<1>2. IInv /\ [Next]_vars => IInv'
  BY NextInv
<1>. QED BY <1>1, <1>2, PTL DEF Spec

(* The digests of a batch that returns are those of what each input        *)
(* contained at one instant before the output was written (or, of memory   *)
(* that other threads write during its copy, slot by slot): parse_batch,   *)
(* can_write_direct, the retained owners and write_results together.       *)
THEOREM DigestsAreOfInputs == Spec => []DigestsOfInputs
<1>1. IInv => DigestsOfInputs
  <2>. SUFFICES ASSUME IInv, pc = "returned"
                PROVE  /\ Len(written) = Len(items)
                       /\ \A k \in DOMAIN items :
                            IF Torn(k)
                            THEN \A i \in DOMAIN written[k][1] :
                                   \E bytes \in seen[k] : i \in DOMAIN bytes /\ written[k][1][i] = bytes[i]
                            ELSE \E bytes \in seen[k] : written[k] = Digest(bytes)
    BY DEF DigestsOfInputs
  <2>1. Len(written) = Len(items)
    BY DEF IInv, ProgressInv
  <2>2. DOMAIN written = DOMAIN items
    <3>1. items \in Seq(Objects) /\ IsSeq(written)
      BY DEF IInv, TypeInv
    <3>. QED BY <2>1, <3>1, IsSeqFacts
  <2>3. ASSUME NEW k \in DOMAIN items
        PROVE  IF Torn(k)
               THEN \A i \in DOMAIN written[k][1] :
                      \E bytes \in seen[k] : i \in DOMAIN bytes /\ written[k][1][i] = bytes[i]
               ELSE \E bytes \in seen[k] : written[k] = Digest(bytes)
    <3>1. written[k] = Digest(written[k][1]) /\ Good(k, written[k][1])
      BY <2>2 DEF IInv, DigestsInv, GoodDigest
    <3>2. CASE written[k][1] \in seen[k]
      BY <3>1, <3>2
    <3>3. CASE Torn(k) /\ MadeOf(seen[k], written[k][1])
      BY <3>3 DEF MadeOf
    <3>. QED BY <3>1, <3>2, <3>3 DEF Good
  <2>. QED BY <2>1, <2>3
<1>. QED BY <1>1, InvariantHolds, PTL

(* With the GIL, the digests of a call that succeeds are in the output     *)
(* when its items are dropped: nothing runs between the first write        *)
(* (write_direct, write_results) and that drop. They are there when the    *)
(* call returns if the list has kept the items, for their drop then runs   *)
(* no finalizer.                                                           *)
THEOREM OutputIsAsReturned == Spec => []OutputAsReturned
<1>1. IInv => OutputAsReturned
  <2>. SUFFICES ASSUME IInv, into, ~freeThreaded, ~error,
                       pc = "published" \/ (pc = "leaving" /\ ~callback) \/ (pc = "returned" /\ kept)
                PROVE  SubSeq(content[out], 1, Len(items)) = written
    BY DEF OutputAsReturned
  <2>1. PICK n \in Nat : n = Len(items) /\ n = Len(written)
    BY DEF IInv, TypeInv, ProgressInv
  <2>2. written \in Seq(Range(written)) /\ content[out] \in Seq(Range(content[out]))
    BY PackedBatchAssumption DEF IInv, TypeInv, IsSeq
  <2>3. n <= Len(content[out]) /\ \A k \in 1 .. n : content[out][k] = written[k]
    BY <2>1 DEF IInv, OutputInv, Undisturbed
  <2>4. written = [k \in 1 .. n |-> written[k]]
    BY <2>1, <2>2
  <2>5. SubSeq(content[out], 1, n) = [k \in 1 .. n |-> content[out][k]]
    BY <2>1, <2>2, <2>3
  <2>6. [k \in 1 .. n |-> content[out][k]] = [k \in 1 .. n |-> written[k]]
    BY <2>3
  <2>. QED BY <2>1, <2>4, <2>5, <2>6
<1>. QED BY <1>1, InvariantHolds, PTL

(* A call that raises has written nothing: every check that can fail comes *)
(* before the first write.                                                 *)
THEOREM FailureKeepsOutput == Spec => []FailureLeavesOutput
<1>1. IInv => FailureLeavesOutput
  BY DEF IInv, ProgressInv, FailureLeavesOutput
<1>. QED BY <1>1, InvariantHolds, PTL

(* No other thread, hook or callback finds the output partly written: with *)
(* the GIL none runs, and without it the critical section is held.         *)
THEOREM OutputNeverPartial == Spec => []NoPartialOutput
<1>1. IInv => NoPartialOutput
  <2>. SUFFICES ASSUME IInv, OutputReachable, written # <<>>
                PROVE  Len(written) = Len(items)
    BY DEF NoPartialOutput
  <2>1. pc \in {"dropping", "published", "leaving", "returned"} /\ ~error
    BY DEF IInv, ProgressInv, OutputReachable, InOutputSection
  <2>. QED BY <2>1 DEF IInv, ProgressInv
<1>. QED BY <1>1, InvariantHolds, PTL

(* No step of the call changes the length of the output: the capacity      *)
(* found by the last check still holds when the digests are written.       *)
THEOREM CallNeverOverruns == Spec => NeverOverruns
<1>1. ASSUME IInv, [Next]_vars
      PROVE  [events' = events => Len(content'[out]) = Len(content[out])]_vars
  <2>1. CASE content' = content
    BY <2>1
  <2>2. CASE WriteSlot
    BY <1>1, <2>2, WriteKeepsLength
  <2>3. CASE Publish /\ CapacitySuffices(Len(staged))
    BY <1>1, <2>3, PublishKeepsLength
  <2>4. CASE OutsideStep
    <3>1. events' = events + 1 /\ events \in Nat
      BY <1>1, <2>4 DEF OutsideStep, SetContent, ChangeList, ReleaseView, Outside, IInv, TypeInv
    <3>. QED BY <3>1
  <2>5. CallStep => \/ content' = content \/ WriteSlot
                    \/ Publish /\ CapacitySuffices(Len(staged))
    BY DEF CallStep, StartExact, StartList, StartCapture, Capture, EndCapture, ParseBytes,
       ParseByteArray, ParseView, Parse, BeginExport, ExportBuffer, CopySlot, ParseFails, EndParse,
       EnterOutput, LeaveOutput, HashItem, Reattach, Drop, HookReturns, AllocateList, ReturnList,
       Return, DropItems, Publish, memory
  <2>. QED BY <1>1, <2>1, <2>2, <2>3, <2>4, <2>5 DEF Next, vars
<1>. QED BY <1>1, InvariantHolds, PTL DEF Spec, NeverOverruns
=============================================================================
