---------------------------- MODULE PackedBatch ----------------------------
(***************************************************************************)
(* One call of a batch of XXH3 hashes (src/src/bindings/xxhash/batch.rs),  *)
(* into a list (batch_hashes) or into a bytearray (packed_batch_into),     *)
(* among the Python code that can run during it: other threads, finalizers,*)
(* the acquire callbacks of exporters and their release hooks. That code   *)
(* changes the list, writes and resizes bytearrays, the output among them, *)
(* and releases views.                                                     *)
(*                                                                         *)
(* Inputs and the output are sequences of slots; a digest fills one slot.  *)
(* The digest of an input is the sequence that holds its contents alone,   *)
(* so that equal digests mean equal inputs and no digest is an input byte. *)
(***************************************************************************)
EXTENDS Integers, Sequences, SequencesExt

CONSTANTS
  Bytes,         (* exact bytes objects                                    *)
  ByteArrays,    (* exact bytearray objects                                *)
  Views,         (* memoryviews of whole bytearrays                        *)
  Exporters,     (* other buffer exporters, whose callbacks run Python     *)
  Others,        (* objects without a buffer                               *)
  out,           (* the output                                             *)
  Data,          (* the contents of each bytes object                      *)
  Base,          (* the bytearray whose memory a view or exporter exports  *)
  Garbage,       (* what a read of freed memory returns                    *)
  DetachTotal, DetachItems, (* BATCH_DETACH_BYTES and BATCH_DETACH_ITEMS   *)
  OwnerThreshold,           (* MEMORYVIEW_OWNER_THRESHOLD                  *)
  Lists,         (* the lists Python code may pass                         *)
  NewLists,      (* what other code may turn the list into                 *)
  Contents,      (* the contents Python code gives to bytearrays           *)
  MaxEvents      (* bound: how often other code acts during the call       *)

Objects == Bytes \union ByteArrays \union Views \union Exporters \union Others

ASSUME PackedBatchAssumption ==
  /\ Bytes \intersect (ByteArrays \union Views \union Exporters) = {}
  /\ ByteArrays \intersect (Views \union Exporters) = {}
  /\ Views \intersect Exporters = {}
  /\ out \in ByteArrays
  /\ Base \in [Views \union Exporters -> ByteArrays]
  /\ DetachTotal \in Nat /\ DetachItems \in Nat /\ OwnerThreshold \in Nat /\ MaxEvents \in Nat
  /\ Lists \union NewLists \subseteq Seq(Objects)
  /\ Contents \subseteq Seq(UNION {Range(bytes) : bytes \in Contents})

VARIABLES
  freeThreaded, (* Py_GIL_DISABLED                                         *)
  into,     (* the digests go to the output, and not to a new list         *)
  content,  (* the contents of every bytearray                             *)
  released, (* the memoryviews that have been released                     *)
  list,     (* the list argument                                           *)
  pc,       (* where the call is                                           *)
  items,    (* the objects the call took from the list                     *)
  limit,    (* how many it set out to take                                 *)
  held,     (* whether it owns references to them                          *)
  inputs,   (* the BytesLike values parsed from them and not yet dropped   *)
  staged,   (* the digests computed into native storage                    *)
  written,  (* the digests written to the output                           *)
  detached, (* the call is detached from the interpreter                   *)
  callback, (* the call runs a callback, a release hook or a finalizer     *)
  error,    (* the call is going to raise                                  *)
  seen,     (* history: what each item has contained since it was taken    *)
  kept,     (* history: the list has kept all items since they were taken  *)
  events    (* history: how often other code has acted                     *)

build == <<freeThreaded, into>>
vars == <<build, content, released, list, pc, items, limit, held, inputs, staged, written, detached,
          callback, error, seen, kept, events>>

memory == <<content, released, list>>

Digest(bytes) == <<bytes>>

(* The contents of an item, whoever reads them.                            *)
Value(o) ==
  IF o \in Bytes THEN Data[o]
  ELSE IF o \in ByteArrays THEN content[o]
  ELSE IF o \in Views \union Exporters THEN content[Base[o]]
  ELSE <<>>

ShouldDetach(slices) ==
  \/ FoldLeft(LAMBDA total, bytes : total + Len(bytes), 0, slices) >= DetachTotal
  \/ Len(slices) >= DetachItems

AllExact(s) == \A k \in DOMAIN s : s[k] \in Bytes
----------------------------------------------------------------------------
(* BytesLike. Owned data stays what it is; a reference to a bytearray is   *)
(* read in place; a buffer pins its memory until it is dropped, and a      *)
(* foreign exporter's release hook then runs Python code.                  *)
OwnedInput(data) == [kind |-> "owned", data |-> data]
RefInput(b) == [kind |-> "ref", base |-> b]
BufferInput(b, mayReenter) == [kind |-> "buffer", base |-> b, mayReenter |-> mayReenter]

DetachSafe(input) == input.kind = "owned"
ReleaseMayReenter(input) == input.kind = "buffer" /\ input.mayReenter
OverlapsBuffer(input) ==                                                  (* faulty *)
  input.kind = "buffer" /\ input.base = out /\ content[out] # <<>>
Overlaps(input) ==
  \/ input.kind = "ref" /\ input.base = out
  \/ input.kind = "buffer" /\ input.base = out /\ content[out] # <<>>

DirectSafeOverlap == \A k \in DOMAIN inputs : ~Overlaps(inputs[k])          (* faulty *)
DirectSafe == \A k \in DOMAIN inputs : ~Overlaps(inputs[k]) /\ ~ReleaseMayReenter(inputs[k])

(* stable_bytes, and what the hash loop finds there for the item at k: the *)
(* storage of a bytes object that nothing refers to any more is free.      *)
Stable(input) == IF input.kind = "owned" THEN input.data ELSE content[input.base]
Read(k) ==
  IF items[k] \in Bytes /\ ~held /\ items[k] \notin Range(list) THEN Garbage
  ELSE Stable(inputs[k])

BatchDetachSafe ==
  /\ ShouldDetach([k \in DOMAIN inputs |-> Stable(inputs[k])])
  /\ \A k \in DOMAIN inputs : DetachSafe(inputs[k])

(* A bytearray cannot change its size while a view or buffer exports it.   *)
Pinned(b) ==
  \/ \E v \in Views \ released : Base[v] = b
  \/ \E k \in DOMAIN inputs : inputs[k].kind \in {"buffer", "copying"} /\ inputs[k].base = b

(* The references that the call holds are the last ones to an item that    *)
(* has left the list, and such an item may have a finalizer in Python: an  *)
(* exporter may, or a view that a weak reference refers to.                *)
ListKeepsItems == \A k \in DOMAIN items : items[k] \in Bytes \union ByteArrays \union Range(list)

(* packed_output_len: the destination has a slot for every item.           *)
CapacitySuffices(n) == into => n <= Len(content[out])

(* Whether other code can run, and can touch the output. Without the GIL   *)
(* the critical section of the output protects it while the call writes.   *)
OthersRun == freeThreaded \/ detached \/ callback
NoOutputSection == pc = "none"                                            (* faulty *)
InOutputSection == pc = "writing"
OutputReachable == OthersRun /\ ~InOutputSection
----------------------------------------------------------------------------
Init ==
  /\ freeThreaded \in BOOLEAN /\ into \in BOOLEAN
  /\ content \in [ByteArrays -> Contents]
  /\ released \in SUBSET Views
  /\ list \in Lists
  /\ pc = "start"
  /\ items = <<>> /\ limit = 0 /\ held = FALSE
  /\ inputs = <<>> /\ staged = <<>> /\ written = <<>>
  /\ detached = FALSE /\ callback = FALSE /\ error = FALSE
  /\ seen = <<>> /\ kept = TRUE
  /\ events = 0

(* The history of the items while the output is as the caller gave it, and *)
(* of the list's hold on them.                                             *)
Witness(objects) ==
  /\ seen' = [k \in DOMAIN objects' |->
                (IF k \in DOMAIN seen THEN seen[k] ELSE {})
                \union (IF written' = <<>> THEN {Value(objects[k])'} ELSE {})]
  /\ kept' = (kept /\ ListKeepsItems')

Goto(label) == pc' = label
Fail == error' = TRUE /\ Goto("dropping")

(* With the GIL, a list of exact bytes is hashed through borrowed slices   *)
(* when nothing detaches, and through owned references otherwise.          *)
StartExact ==
  /\ pc = "start" /\ ~freeThreaded /\ AllExact(list)
  /\ items' = list
  /\ inputs' = [k \in DOMAIN list |-> OwnedInput(Data[list[k]])]
  /\ LET detach == ShouldDetach([k \in DOMAIN list |-> Data[list[k]]])
     IN  /\ held' = detach
         /\ IF ~detach THEN Goto(IF into THEN "entering" ELSE "hashing") /\ UNCHANGED <<detached, error>>
            ELSE IF CapacitySuffices(Len(list))
            THEN Goto("hashing") /\ detached' = TRUE /\ UNCHANGED error
            ELSE Fail /\ UNCHANGED detached
  /\ UNCHANGED <<memory, limit, staged, written, callback, events>>

(* Any other list is copied first, in one step under the GIL. Then the     *)
(* capacity is checked before any callback runs.                           *)
StartList ==
  /\ pc = "start" /\ ~freeThreaded /\ ~AllExact(list)
  /\ items' = list
  /\ held' = TRUE
  /\ IF CapacitySuffices(Len(list)) THEN Goto("parsing") /\ UNCHANGED error ELSE Fail
  /\ UNCHANGED <<memory, limit, inputs, staged, written, detached, callback, events>>

(* Without the GIL the list is read slot by slot, and may shrink meanwhile.*)
StartCapture ==
  /\ pc = "start" /\ freeThreaded
  /\ limit' = Len(list)
  /\ held' = TRUE
  /\ Goto("capturing")
  /\ UNCHANGED <<memory, items, inputs, staged, written, detached, callback, error, events>>

Capture ==
  /\ pc = "capturing"
  /\ Len(items) < limit /\ Len(items) < Len(list)
  /\ items' = Append(items, list[Len(items) + 1])
  /\ UNCHANGED <<memory, pc, limit, held, inputs, staged, written, detached, callback, error, events>>

EndCapture ==
  /\ pc = "capturing"
  /\ Len(items) >= limit \/ Len(items) >= Len(list)
  /\ IF ~CapacitySuffices(Len(items)) THEN Fail /\ UNCHANGED <<inputs, detached>>
     ELSE /\ UNCHANGED error
          /\ IF ~AllExact(items) THEN Goto("parsing") /\ UNCHANGED <<inputs, detached>>
             ELSE /\ inputs' = [k \in DOMAIN items |-> OwnedInput(Data[items[k]])]
                  /\ detached' = ShouldDetach([k \in DOMAIN items |-> Data[items[k]]])
                  /\ Goto(IF detached' \/ ~into THEN "hashing" ELSE "entering")
  /\ UNCHANGED <<memory, items, limit, held, staged, written, callback, events>>

(* parse_batch takes the items in order; `next` is the one it is at.       *)
next == items[Len(inputs) + 1]
Parsing == pc = "parsing" /\ Len(inputs) < Len(items)

Parse(input) ==
  /\ inputs' = Append(inputs, input)
  /\ UNCHANGED <<memory, pc, items, limit, held, staged, written, detached, callback, error, events>>

ParseBytes ==
  /\ Parsing /\ next \in Bytes
  /\ Parse(OwnedInput(Data[next]))

(* into_stable copies a bytearray on a free-threaded build.                *)
ParseByteArray ==
  /\ Parsing /\ next \in ByteArrays
  /\ Parse(IF freeThreaded THEN OwnedInput(content[next]) ELSE RefInput(next))

(* A view of a whole bytearray is replaced by the bytearray, except that   *)
(* the GIL build keeps the export of a short one.                          *)
ParseView ==
  /\ Parsing /\ next \in Views \ released
  /\ LET b == Base[next]
     IN  Parse(IF freeThreaded THEN OwnedInput(content[b])
               ELSE IF Len(content[b]) >= OwnerThreshold THEN RefInput(b)
               ELSE BufferInput(b, FALSE))

(* Another exporter is called back and then exports its memory. Without    *)
(* the GIL its memory is copied at once while other threads may write it.  *)
BeginExport ==
  /\ Parsing /\ next \in Exporters /\ ~callback
  /\ callback' = TRUE
  /\ UNCHANGED <<memory, pc, items, limit, held, inputs, staged, written, detached, error, events>>

ExportBuffer ==
  /\ Parsing /\ callback /\ next \in Exporters
  /\ callback' = FALSE
  /\ LET b == Base[next]
     IN  IF freeThreaded
         THEN /\ inputs' = Append(inputs, [kind |-> "copying", base |-> b, data |-> <<>>])
              /\ Goto("copying")
         ELSE inputs' = Append(inputs, BufferInput(b, TRUE)) /\ UNCHANGED pc
  /\ UNCHANGED <<memory, items, limit, held, staged, written, detached, error, events>>

CopySlot ==
  LET k == Len(inputs)
      input == inputs[k]
      at == Len(input.data) + 1
  IN  /\ pc = "copying"
      /\ IF at <= Len(content[input.base])
         THEN /\ inputs' = [inputs EXCEPT ![k].data = Append(@, content[input.base][at])]
              /\ UNCHANGED pc
         ELSE /\ inputs' = [inputs EXCEPT ![k] = OwnedInput(input.data)]
              /\ Goto("parsing")
      /\ UNCHANGED <<memory, items, limit, held, staged, written, detached, callback, error, events>>

(* An exporter may raise, a released view does, and so does any object     *)
(* that has no buffer.                                                     *)
ParseFails ==
  /\ Parsing
  /\ next \in Others \union released \/ (next \in Exporters /\ callback)
  /\ callback' = FALSE
  /\ Fail
  /\ UNCHANGED <<memory, items, limit, held, inputs, staged, written, detached, events>>

(* Every input is stable now: detach, write directly or stage.             *)
EndParse ==
  /\ pc = "parsing" /\ Len(inputs) = Len(items)
  /\ detached' = BatchDetachSafe
  /\ Goto(IF into /\ ~detached' /\ DirectSafe THEN "entering" ELSE "hashing")
  /\ UNCHANGED <<memory, items, limit, held, inputs, staged, written, callback, error, events>>

(* write_direct: inside the critical section of the output, the capacity   *)
(* is checked and every digest is written as soon as it is computed.       *)
EnterOutputUnchecked ==                                                   (* faulty *)
  /\ pc = "entering"
  /\ Goto("writing")
  /\ UNCHANGED <<memory, items, limit, held, inputs, staged, written, detached, callback, error,
                 events>>

EnterOutput ==
  /\ pc = "entering"
  /\ IF CapacitySuffices(Len(items)) THEN Goto("writing") /\ UNCHANGED error ELSE Fail
  /\ UNCHANGED <<memory, items, limit, held, inputs, staged, written, detached, callback, events>>

(* A write past the end shows as a longer output.                          *)
Put(slots, k, digest) == IF k <= Len(slots) THEN [slots EXCEPT ![k] = digest] ELSE Append(slots, digest)

WriteSlot ==
  LET k == Len(written) + 1
  IN  /\ pc = "writing" /\ k <= Len(items)
      /\ written' = Append(written, Digest(Read(k)))
      /\ content' = [content EXCEPT ![out] = Put(@, k, Digest(Read(k)))]
      /\ UNCHANGED <<released, list, pc, items, limit, held, inputs, staged, detached, callback,
                     error, events>>

LeaveOutput ==
  /\ pc = "writing" /\ Len(written) = Len(items)
  /\ Goto("dropping")
  /\ UNCHANGED <<memory, items, limit, held, inputs, staged, written, detached, callback, error, events>>

(* collect and collect_retained compute into native storage.               *)
HashItem ==
  /\ pc = "hashing" /\ Len(staged) < Len(items)
  /\ staged' = Append(staged, Digest(Read(Len(staged) + 1)))
  /\ UNCHANGED <<memory, pc, items, limit, held, inputs, written, detached, callback, error, events>>

Reattach ==
  /\ pc = "hashing" /\ Len(staged) = Len(items)
  /\ detached' = FALSE
  /\ Goto("dropping")
  /\ UNCHANGED <<memory, items, limit, held, inputs, staged, written, callback, error, events>>

(* Parsed inputs are dropped in order; a release hook may run Python code. *)
Drop ==
  /\ pc = "dropping" /\ ~callback /\ inputs # <<>>
  /\ inputs' = Tail(inputs)
  /\ callback' = ReleaseMayReenter(Head(inputs))
  /\ UNCHANGED <<memory, pc, items, limit, held, staged, written, detached, error, events>>

HookReturns ==
  /\ pc = "dropping" /\ callback
  /\ callback' = FALSE
  /\ UNCHANGED <<memory, pc, items, limit, held, inputs, staged, written, detached, error, events>>

Staging == Len(staged) = Len(items) /\ written = <<>>

(* write_results: the capacity is checked again, then one copy publishes.  *)
PublishPrefix ==                                                          (* faulty *)
  LET n == IF CapacitySuffices(Len(staged)) THEN Len(staged) ELSE Len(content[out])
  IN  /\ pc = "dropping" /\ ~callback /\ inputs = <<>> /\ ~error /\ into /\ Staging
      /\ written' = SubSeq(staged, 1, n)
      /\ content' = [content EXCEPT ![out] = SubSeq(staged, 1, n) \o SubSeq(@, n + 1, Len(@))]
      /\ error' = (n < Len(staged))
      /\ Goto("published")
      /\ UNCHANGED <<released, list, items, limit, held, inputs, staged, detached, callback, events>>

Publish ==
  /\ pc = "dropping" /\ ~callback /\ inputs = <<>> /\ ~error /\ into /\ Staging
  /\ IF CapacitySuffices(Len(staged))
     THEN /\ written' = staged
          /\ content' = [content EXCEPT ![out] = staged \o SubSeq(@, Len(staged) + 1, Len(@))]
          /\ UNCHANGED error
     ELSE error' = TRUE /\ UNCHANGED <<content, written>>
  /\ Goto("published")
  /\ UNCHANGED <<released, list, items, limit, held, inputs, staged, detached, callback, events>>

(* The vector of items is dropped last, whatever the outcome, and after    *)
(* the output has been written: finalizers of items that have left the     *)
(* list run here. (Owners of exact bytes go earlier, and run none.)        *)
DropItems ==
  /\ \/ pc = "published"
     \/ pc = "dropping" /\ ~callback /\ inputs = <<>> /\ (error \/ ~into \/ ~Staging)
  /\ held' = FALSE
  /\ callback' = ~ListKeepsItems
  /\ Goto("leaving")
  /\ UNCHANGED <<memory, items, limit, inputs, staged, written, detached, error, events>>

Return ==
  /\ pc = "leaving" /\ (error \/ into)
  /\ callback' = FALSE
  /\ Goto(IF error THEN "raised" ELSE "returned")
  /\ UNCHANGED <<memory, items, limit, held, inputs, staged, written, detached, error, events>>

(* list_from_fn: the new list is allocated, which may run the finalizers   *)
(* of other objects, after all digests are computed.                       *)
AllocateList ==
  /\ pc = "leaving" /\ ~error /\ ~into
  /\ callback' = TRUE
  /\ Goto("listing")
  /\ UNCHANGED <<memory, items, limit, held, inputs, staged, written, detached, error, events>>

ReturnList ==
  /\ pc = "listing"
  /\ callback' = FALSE
  /\ written' = staged
  /\ Goto("returned")
  /\ UNCHANGED <<memory, items, limit, held, inputs, staged, detached, error, events>>

CallStep ==
  \/ StartExact \/ StartList \/ StartCapture \/ Capture \/ EndCapture
  \/ ParseBytes \/ ParseByteArray \/ ParseView
  \/ BeginExport \/ ExportBuffer \/ CopySlot \/ ParseFails \/ EndParse
  \/ EnterOutput \/ WriteSlot \/ LeaveOutput \/ HashItem \/ Reattach
  \/ Drop \/ HookReturns \/ Publish \/ DropItems \/ Return \/ AllocateList \/ ReturnList
----------------------------------------------------------------------------
(* Other Python code (modelled from what it can do to these objects).      *)
Finished == pc \in {"returned", "raised"}

Outside ==
  /\ OthersRun /\ ~Finished
  /\ events < MaxEvents /\ events' = events + 1
  /\ UNCHANGED <<pc, items, limit, held, inputs, staged, written, detached, callback, error>>

SetContent(b, bytes) ==
  /\ Outside
  /\ b = out => OutputReachable
  /\ Pinned(b) => Len(bytes) = Len(content[b])
  /\ content' = [content EXCEPT ![b] = bytes]
  /\ UNCHANGED <<released, list>>

ChangeList(objects) ==
  /\ Outside
  /\ list' = objects
  /\ UNCHANGED <<content, released>>

ReleaseView(v) ==
  /\ Outside
  /\ BufferInput(Base[v], FALSE) \notin Range(inputs)
  /\ released' = released \union {v}
  /\ UNCHANGED <<content, list>>

OutsideStep ==
  \/ \E b \in ByteArrays, bytes \in Contents : SetContent(b, bytes)
  \/ \E objects \in NewLists : ChangeList(objects)
  \/ \E v \in Views \ released : ReleaseView(v)

Next ==
  \/ (CallStep \/ OutsideStep) /\ Witness(items) /\ UNCHANGED build
  \/ Finished /\ UNCHANGED vars

Spec == Init /\ [][Next]_vars
----------------------------------------------------------------------------
(* Memory that another thread writes through an exporter's back is torn.   *)
Torn(k) == freeThreaded /\ items[k] \in Exporters

(* The digests a successful call wrote are, in the order of the list, the  *)
(* digests of what each item contained at one instant before the output    *)
(* was first written: never of the output's new contents, of freed memory  *)
(* or of an input half overwritten. (docs/ARCHITECTURE.md: packed batches  *)
(* check and stabilize their inputs before writing to the destination.)    *)
DigestsOfInputs ==
  pc = "returned" =>
    /\ Len(written) = Len(items)
    /\ \A k \in DOMAIN items :
         IF Torn(k)
         THEN \A i \in DOMAIN written[k][1] :
                \E bytes \in seen[k] : i \in DOMAIN bytes /\ written[k][1][i] = bytes[i]
         ELSE \E bytes \in seen[k] : written[k] = Digest(bytes)

(* With the GIL no other code runs between the first write of a digest and *)
(* the drop of the items, and none at all before the return when the list  *)
(* has kept them: then the caller finds exactly these digests. An item     *)
(* that a callback took off the list may be finalized after the write, so  *)
(* that of such a call only the output before the drop is promised.        *)
OutputAsReturned ==
  /\ into /\ ~freeThreaded /\ ~error
  /\ pc = "published" \/ (pc = "leaving" /\ ~callback) \/ (pc = "returned" /\ kept)
  => SubSeq(content[out], 1, Len(items)) = written

(* A call that raises has written nothing: the capacity is known to        *)
(* suffice and every item to have a buffer before the first slot changes.  *)
FailureLeavesOutput == error => written = <<>>

(* A step of the call never resizes the output, whatever callbacks, hooks  *)
(* and other threads did to it since its capacity was last checked.        *)
NeverOverruns == [][events' = events => Len(content'[out]) = Len(content[out])]_vars

(* No other code ever finds the output partly written.                     *)
NoPartialOutput == OutputReachable => Len(written) \in {0, Len(items)}
=============================================================================
